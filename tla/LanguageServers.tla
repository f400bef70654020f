--------------------------- MODULE LanguageServers ---------------------------
(***************************************************************************)
(* The client of the Antigravity language servers (client.go).  An IDE     *)
(* runs a hub process and, for its workspace, another; when the user       *)
(* switches accounts the hub follows and the workspace process stays       *)
(* signed in as before.  A snap clears the cached connections, finds the   *)
(* processes that answer and asks them, hubs first, for the account's      *)
(* quotas.  The handlers of POST /api/snap share one client without a lock; *)
(* the agent and the command line make a client of their own each time.    *)
(***************************************************************************)
EXTENDS Naturals

CONSTANTS
  SnapCalls,     (* handlers of POST /api/snap                             *)
  IDEs,          (* instances, told apart by getToolSignature              *)
  WithWorkspace, (* those that run a workspace process too                 *)
  Logins,        (* accounts                                               *)
  SignedOut,     (* what a process answers that has no account             *)
  MaxChanges     (* bound on what happens to the processes, and on lost requests *)

ASSUME LoginsAssumption == SignedOut \notin Logins

VARIABLES
  answering,     (* the processes that answer                              *)
  login,         (* the account of each                                    *)
  conns, fresh,  (* Client.conns; connTime is less than connTTL ago         *)
  stage,         (* where a handler is in FetchQuotas                       *)
  left,          (* processes it has still to probe or to ask              *)
  active,        (* those that answered: verified, activeConns              *)
  results,       (* [ide, hub, account] it returns; empty: an error         *)
  changes,
  (* history *)
  touched,       (* IDEs something happened to during a handler's call      *)
  together       (* handlers whose call overlapped another's                *)

lsVars == <<answering, login, conns, fresh, stage, left, active, results, changes, touched,
            together>>

Servers == {p \in [ide : IDEs, hub : BOOLEAN] : ~p.hub => p.ide \in WithWorkspace}
Calling == {c \in SnapCalls : stage[c] # "idle"}

LSTypeOK ==
  /\ answering \subseteq Servers /\ conns \subseteq Servers /\ fresh \in BOOLEAN
  /\ login \in [Servers -> Logins \cup {SignedOut}]
  /\ stage \in [SnapCalls -> {"idle", "detect", "probe", "sort", "ask", "done"}]
  /\ left \in [SnapCalls -> SUBSET Servers] /\ active \in [SnapCalls -> SUBSET Servers]
  /\ results \in [SnapCalls -> SUBSET [ide : IDEs, hub : BOOLEAN, account : Logins]]
  /\ changes \in Nat /\ touched \in [SnapCalls -> SUBSET IDEs] /\ together \subseteq SnapCalls

LSAtRest ==
  /\ answering = Servers
  /\ conns = {} /\ fresh = FALSE
  /\ stage = [c \in SnapCalls |-> "idle"]
  /\ left = [c \in SnapCalls |-> {}] /\ active = [c \in SnapCalls |-> {}]
  /\ results = [c \in SnapCalls |-> {}]
  /\ changes = 0
  /\ touched = [c \in SnapCalls |-> {}] /\ together = {}

LSInit ==
  /\ LSAtRest
  /\ \E own \in [IDEs -> Logins] : login = [p \in Servers |-> own[p.ide]]

-----------------------------------------------------------------------------
\* The environment.
Happens(i) ==
  /\ changes < MaxChanges /\ changes' = changes + 1
  /\ touched' = [c \in SnapCalls |-> IF c \in Calling THEN touched[c] \cup {i} ELSE {}]
world == <<answering, login>>
client == <<conns, fresh, stage, left, active, results, together>>

\* The user switches the account of an IDE, or signs out: the hub knows.
SwitchAccount(i) ==
  /\ Happens(i)
  /\ \E a \in Logins \cup {SignedOut} : login' = [login EXCEPT ![[ide |-> i, hub |-> TRUE]] = a]
  /\ UNCHANGED <<answering, client>>

\* A process ends, or starts with the account of the hub.
ServerStops(p) ==
  /\ Happens(p.ide)
  /\ p \in answering /\ answering' = answering \ {p}
  /\ UNCHANGED <<login, client>>

ServerStarts(p) ==
  /\ Happens(p.ide)
  /\ p \notin answering /\ answering' = answering \cup {p}
  /\ login' = [login EXCEPT ![p] = login[[ide |-> p.ide, hub |-> TRUE]]]
  /\ UNCHANGED client

TTLPasses ==
  /\ fresh /\ conns # {}
  /\ fresh' = FALSE
  /\ UNCHANGED <<world, conns, stage, left, active, results, changes, touched, together>>

-----------------------------------------------------------------------------
\* handleSnap: Reset.
BeginSnap(c) ==
  /\ stage[c] = "idle"
  /\ conns' = {}
  /\ stage' = [stage EXCEPT ![c] = "detect"]
  /\ together' = IF Calling = {} THEN {} ELSE together \cup Calling \cup {c}
  /\ UNCHANGED <<world, fresh, left, active, results, changes, touched>>

\* Detect: connections another handler has just cached are taken; otherwise the
\* processes that run now are listed, and probed one after the other.
FindServers(c) ==
  /\ stage[c] = "detect"
  /\ IF conns # {} /\ fresh
       THEN /\ stage' = [stage EXCEPT ![c] = "sort"]
            /\ UNCHANGED <<conns, left, active>>
       ELSE /\ conns' = {}
            /\ left' = [left EXCEPT ![c] = answering]
            /\ active' = [active EXCEPT ![c] = {}]
            /\ stage' = [stage EXCEPT ![c] = "probe"]
  /\ UNCHANGED <<world, fresh, results, changes, touched, together>>

\* A port of the process answers, signed in or not.
Probe(c, p) ==
  /\ stage[c] = "probe" /\ p \in left[c]
  /\ left' = [left EXCEPT ![c] = @ \ {p}]
  /\ active' = [active EXCEPT ![c] = IF p \in answering THEN @ \cup {p} ELSE @]
  /\ UNCHANGED <<world, conns, fresh, stage, results, changes, touched, together>>

EndDetect(c) ==
  /\ stage[c] = "probe" /\ left[c] = {}
  /\ IF active[c] = {}
       THEN /\ stage' = [stage EXCEPT ![c] = "done"]      \* ErrPortNotFound
            /\ UNCHANGED <<conns, fresh>>
       ELSE /\ conns' = active[c] /\ fresh' = TRUE
            /\ stage' = [stage EXCEPT ![c] = "sort"]
  /\ UNCHANGED <<world, left, active, results, changes, touched, together>>

\* The cached connections are sorted in place.  Two handlers that sort the same
\* ones at once may each lose some.
SortConns(c) ==
  /\ stage[c] = "sort"
  /\ \E kept \in SUBSET conns :
       /\ (\A d \in Calling \ {c} : stage[d] # "sort") => kept = conns
       /\ left' = [left EXCEPT ![c] = kept]
  /\ active' = [active EXCEPT ![c] = {}]
  /\ stage' = [stage EXCEPT ![c] = "ask"]
  /\ UNCHANGED <<world, conns, fresh, results, changes, touched, together>>

\* Mutant of NextUp: the order in which the processes were found.
AnyNext(ps) == ps

\* Hubs before workspaces.
NextUp(ps) == IF \E p \in ps : p.hub THEN {p \in ps : p.hub} ELSE ps

\* A process is skipped when its IDE has answered.
Answered(c, p) == \E q \in active[c] : q.ide = p.ide

Ask(c, p) ==
  /\ stage[c] = "ask" /\ p \in NextUp(left[c])
  /\ left' = [left EXCEPT ![c] = @ \ {p}]
  /\ IF Answered(c, p) \/ p \notin answering \/ login[p] = SignedOut
       THEN UNCHANGED <<active, results>>
       ELSE /\ active' = [active EXCEPT ![c] = @ \cup {p}]
            /\ results' = [results EXCEPT ![c] =
                 IF \E r \in @ : r.account = login[p] THEN @
                   ELSE @ \cup {[ide |-> p.ide, hub |-> p.hub, account |-> login[p]]}]
  /\ UNCHANGED <<world, conns, fresh, stage, changes, touched, together>>

\* A probe or a request is lost, or its answer cannot be read.
RequestLost(c, p) ==
  /\ stage[c] \in {"probe", "ask"}
  /\ p \in left[c] /\ (stage[c] = "ask" => p \in NextUp(left[c]) /\ ~Answered(c, p))
  /\ Happens(p.ide)
  /\ left' = [left EXCEPT ![c] = @ \ {p}]
  /\ UNCHANGED <<world, conns, fresh, stage, active, results, together>>

\* The connections that answered stay cached.
EndFetch(c) ==
  /\ stage[c] = "ask" /\ left[c] = {}
  /\ conns' = active[c]
  /\ stage' = [stage EXCEPT ![c] = "done"]
  /\ UNCHANGED <<world, fresh, left, active, results, changes, touched, together>>

\* The handler stores the results (module SnapCapture) and ends.
EndSnap(c) ==
  /\ stage[c] = "done"
  /\ stage' = [stage EXCEPT ![c] = "idle"]
  /\ active' = [active EXCEPT ![c] = {}]
  /\ results' = [results EXCEPT ![c] = {}]
  /\ touched' = [touched EXCEPT ![c] = {}]
  /\ together' = together \ {c}
  /\ UNCHANGED <<world, conns, fresh, left, changes>>

LSNext ==
  \/ \E i \in IDEs : SwitchAccount(i)
  \/ \E p \in Servers :
       \/ ServerStops(p) \/ ServerStarts(p)
       \/ \E c \in SnapCalls : Probe(c, p) \/ Ask(c, p) \/ RequestLost(c, p)
  \/ TTLPasses
  \/ \E c \in SnapCalls :
       BeginSnap(c) \/ FindServers(c) \/ EndDetect(c) \/ SortConns(c)
       \/ EndFetch(c) \/ EndSnap(c)

LSSpec == LSInit /\ [][LSNext]_lsVars

-----------------------------------------------------------------------------
\* The account an IDE shows its user: its hub's, or the workspace's when the hub
\* cannot tell.
Shown(i) ==
  LET hub == [ide |-> i, hub |-> TRUE]
      own == [ide |-> i, hub |-> FALSE]
      Tells(p) == p \in answering /\ login[p] # SignedOut
  IN  {login[p] : p \in {q \in {hub, own} \cap Servers : Tells(q) /\ (q = own => ~Tells(hub))}}

\* A snap that overlaps no other returns the account of every IDE that nothing
\* happened to meanwhile, and from those no account but the one they show: never
\* the account a workspace process kept when its hub moved on (client.go:
\* "the workspace may still be running with the old account's auth").
AccountsAreCurrent ==
  \A c \in SnapCalls \ together : stage[c] = "done" =>
    LET still == IDEs \ touched[c]
    IN  /\ \A i \in still : Shown(i) \subseteq {r.account : r \in results[c]}
        /\ \A r \in results[c] : r.ide \in still => r.account \in Shown(r.ide)

=============================================================================
