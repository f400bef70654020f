--------------------------- MODULE ProviderPolling ---------------------------
(***************************************************************************)
(* One poll of the agent for the providers whose failures it counts        *)
(* (agent.go, poll): the pause after three failures, the early refresh of  *)
(* Codex tokens, the fetch.  The tokens are in auth.json, a file shared    *)
(* with the Codex command line and with the manual snap (handlers_codex.go), *)
(* which refreshes them too.  OpenAI accepts a refresh token once: the one *)
(* that is in the file must be the last one it gave.                       *)
(*                                                                         *)
(* Refresh tokens are numbered as they are given: `live` is the one OpenAI *)
(* accepts.  auth.json holds one, and how old the identity is whose expiry *)
(* both programs go by.                                                    *)
(***************************************************************************)
EXTENDS Naturals

CONSTANTS
  MaxTokens,     (* bound on tokens given                                  *)
  MaxMisses      (* bound on answers and writes that get lost              *)

ASSUME PollingAssumption == MaxTokens \in Nat /\ MaxMisses \in Nat

VARIABLES
  fails,         (* agent: authFails of a provider                         *)
  poll,          (* what the goroutine of a provider does in this cycle    *)
  snap,          (* what the manual snap does                              *)
  presented,     (* refresh token each of the two has read from the file   *)
  received,      (* refresh token each has got                             *)
  file, age,     (* auth.json: its refresh token; how old its identity is  *)
  live, misses,
  (* history *)
  skips,         (* polls in a row that paused Antigravity                 *)
  cut,           (* a given token never reached the file                   *)
  raced          (* two programs were changing the tokens at once          *)

pollVars == <<fails, poll, snap, presented, received, file, age, live, misses,
              skips, cut, raced>>

Counted == {"antigravity", "codex"}
Callers == {"agent", "snap"}

PollingTypeOK ==
  /\ fails \in [Counted -> Nat] /\ skips \in Nat
  /\ poll \in [Counted -> {"gate", "detect", "refresh", "save", "fetch", "done"}]
  /\ snap \in {"idle", "refresh", "save", "fetch"}
  /\ presented \in [Callers -> Nat] /\ received \in [Callers -> Nat]
  /\ file \in Nat \ {0} /\ live \in Nat \ {0} /\ age \in {"new", "soon", "expired"}
  /\ misses \in Nat /\ cut \in BOOLEAN /\ raced \in BOOLEAN

PollingInit ==
  /\ fails = [p \in Counted |-> 0]
  /\ poll = [p \in Counted |-> "done"]
  /\ snap = "idle"
  /\ presented = [c \in Callers |-> 0] /\ received = [c \in Callers |-> 0]
  /\ file = 1 /\ live = 1 /\ age = "new"
  /\ misses = 0 /\ skips = 0 /\ cut = FALSE /\ raced = FALSE

tokens == <<presented, received, file, age, live, misses, cut, raced>>

\* A caller between reading the file and being done with it.
Holds(c) == presented[c] # 0
Other(c) == CHOOSE d \in Callers : d # c

-----------------------------------------------------------------------------
\* A poll begins when the last one has ended (the loop of Run is one goroutine).
PollBegins ==
  /\ \A p \in Counted : poll[p] = "done"
  /\ poll' = [p \in Counted |-> "gate"]
  /\ UNCHANGED <<fails, snap, tokens, skips>>

\* Three failures pause a provider; Antigravity counts on and is tried again.
Paused(p) ==
  IF p = "antigravity" THEN fails' = [fails EXCEPT ![p] = @ + 1] ELSE UNCHANGED fails

\* After three more polls it is, from zero.
TriedAgain(p) == p = "antigravity" /\ fails[p] + 1 >= 6

Gate(p) ==
  /\ poll[p] = "gate"
  /\ \/ /\ fails[p] >= 3 /\ ~TriedAgain(p)
        /\ Paused(p)
        /\ poll' = [poll EXCEPT ![p] = "done"]
        /\ skips' = IF p = "antigravity" THEN skips + 1 ELSE skips
     \/ /\ fails[p] >= 3 => TriedAgain(p)
        /\ fails' = IF fails[p] >= 3 THEN [fails EXCEPT ![p] = 0] ELSE fails
        /\ poll' = [poll EXCEPT ![p] = IF p = "codex" THEN "detect" ELSE "fetch"]
        /\ skips' = IF p = "antigravity" THEN 0 ELSE skips
  /\ UNCHANGED <<snap, tokens>>

\* No credentials are configured or found.
NoCredentials(p) ==
  /\ poll[p] = "gate" /\ fails[p] < 3
  /\ poll' = [poll EXCEPT ![p] = "done"]
  /\ UNCHANGED <<fails, snap, tokens, skips>>

\* DetectCredentials: the file is read.
Reads(c) ==
  /\ presented' = [presented EXCEPT ![c] = file]
  /\ raced' = (raced \/ Holds(Other(c)))
  /\ UNCHANGED <<received, file, age, live, misses, cut>>

\* The agent refreshes tokens that expire within six hours.
Detect ==
  /\ poll["codex"] = "detect"
  /\ IF age = "new"
       THEN /\ poll' = [poll EXCEPT !["codex"] = "fetch"]
            /\ UNCHANGED tokens
       ELSE /\ poll' = [poll EXCEPT !["codex"] = "refresh"]
            /\ Reads("agent")
  /\ UNCHANGED <<fails, snap, skips>>

\* The manual snap refreshes tokens that have expired.
SnapDetect ==
  /\ snap = "idle"
  /\ IF age = "expired"
       THEN snap' = "refresh" /\ Reads("snap")
       ELSE snap' = "fetch" /\ UNCHANGED tokens
  /\ UNCHANGED <<fails, poll, skips>>

\* OpenAI gives a new token for the live one.
Given(c) ==
  /\ presented[c] = live /\ live < MaxTokens
  /\ live' = live + 1
  /\ received' = [received EXCEPT ![c] = live + 1]
  /\ UNCHANGED <<presented, file, age, misses, cut, raced>>

\* It has given a token, but the answer is lost on the way.
GivenInVain(c) ==
  /\ presented[c] = live /\ live < MaxTokens /\ misses < MaxMisses
  /\ live' = live + 1 /\ misses' = misses + 1
  /\ cut' = TRUE
  /\ presented' = [presented EXCEPT ![c] = 0]
  /\ UNCHANGED <<received, file, age, raced>>

\* It refuses the token, or nothing comes of the request at all.
Forgets(c) ==
  /\ presented' = [presented EXCEPT ![c] = 0]
  /\ UNCHANGED <<received, file, age, live, misses, cut, raced>>

AgentRefresh ==
  /\ poll["codex"] = "refresh"
  /\ \/ /\ Given("agent")
        /\ poll' = [poll EXCEPT !["codex"] = "save"]
        /\ UNCHANGED fails
     \/ /\ GivenInVain("agent")
        /\ poll' = [poll EXCEPT !["codex"] = "fetch"]
        /\ UNCHANGED fails
     \/ /\ Forgets("agent")              \* any other failure: the old access token may do
        /\ poll' = [poll EXCEPT !["codex"] = "fetch"]
        /\ UNCHANGED fails
     \/ /\ presented["agent"] # live     \* ErrRefreshTokenReused
        /\ Forgets("agent")
        /\ fails' = [fails EXCEPT !["codex"] = 3]
        /\ poll' = [poll EXCEPT !["codex"] = "done"]
  /\ UNCHANGED <<snap, skips>>

\* A snap whose refresh fails reports the error.
SnapRefresh ==
  /\ snap = "refresh"
  /\ \/ Given("snap") /\ snap' = "save"
     \/ GivenInVain("snap") /\ snap' = "idle"
     \/ Forgets("snap") /\ snap' = "idle"
  /\ UNCHANGED <<fails, poll, skips>>

\* Mutant of Written: the refresh token that was presented is kept.
KeepsOldToken(c) == presented[c]

Written(c) == received[c]

\* WriteCredentials: backup, temporary file, rename.  The identity, by whose
\* expiry the next refresh is timed, stays when the answer has none.
Saves(c) ==
  /\ file' = Written(c)
  /\ age' \in {"new", age}
  /\ presented' = [presented EXCEPT ![c] = 0]
  /\ received' = [received EXCEPT ![c] = 0]
  /\ UNCHANGED <<live, misses, cut, raced>>

\* The file cannot be written: only the log says so.
CannotSave(c) ==
  /\ misses < MaxMisses /\ misses' = misses + 1
  /\ cut' = TRUE
  /\ presented' = [presented EXCEPT ![c] = 0]
  /\ received' = [received EXCEPT ![c] = 0]
  /\ UNCHANGED <<file, age, live, raced>>

AgentSave ==
  /\ poll["codex"] = "save"
  /\ Saves("agent") \/ CannotSave("agent")
  /\ poll' = [poll EXCEPT !["codex"] = "fetch"]
  /\ UNCHANGED <<fails, snap, skips>>

SnapSave ==
  /\ snap = "save"
  /\ Saves("snap") \/ CannotSave("snap")
  /\ snap' = "fetch"
  /\ UNCHANGED <<fails, poll, skips>>

\* The fetch succeeds, fails with an error that counts (for Antigravity all do),
\* or with one that does not, as when the poll is cancelled.
Fetch(p) ==
  /\ poll[p] = "fetch"
  /\ \/ fails' = [fails EXCEPT ![p] = 0]
     \/ fails' = [fails EXCEPT ![p] = @ + 1]
     \/ UNCHANGED fails
  /\ poll' = [poll EXCEPT ![p] = "done"]
  /\ UNCHANGED <<snap, tokens, skips>>

SnapFetch ==
  /\ snap = "fetch"
  /\ snap' = "idle"
  /\ UNCHANGED <<fails, poll, tokens, skips>>

\* Time passes.
Ages ==
  /\ age # "expired"
  /\ age' = IF age = "new" THEN "soon" ELSE "expired"
  /\ UNCHANGED <<fails, poll, snap, presented, received, file, live, misses, skips,
                 cut, raced>>

\* `codex login`, or the command line refreshing: it replaces the tokens.
CodexLogin ==
  /\ live < MaxTokens
  /\ live' = live + 1 /\ file' = live + 1 /\ age' = "new"
  /\ raced' = \E c \in Callers : Holds(c)
  /\ cut' = (cut /\ \E c \in Callers : Holds(c))
  /\ UNCHANGED <<fails, poll, snap, presented, received, misses, skips>>

PollingNext ==
  \/ PollBegins \/ Detect \/ AgentRefresh \/ AgentSave
  \/ \E p \in Counted : Gate(p) \/ NoCredentials(p) \/ Fetch(p)
  \/ SnapDetect \/ SnapRefresh \/ SnapSave \/ SnapFetch
  \/ Ages \/ CodexLogin

PollingSpec == PollingInit /\ [][PollingNext]_pollVars

-----------------------------------------------------------------------------
\* auth.json holds the token OpenAI accepts, while nobody is replacing it: unless
\* a given token was lost, or two programs were at it at once (codex.go,
\* RefreshToken: "MUST be saved immediately after success").
FileIsUsable ==
  ~cut /\ ~raced /\ (\A c \in Callers : received[c] = 0) => file = live

\* No program presents a token that was used, for the same reasons: a refused one
\* pauses Codex until the agent is started again.
NeverReused ==
  ~cut /\ ~raced => \A c \in Callers : Holds(c) /\ received[c] = 0 => presented[c] = live

\* Antigravity is paused for two polls in a row at most, and paused only after
\* three failures.
TriedSoon == skips <= 2 /\ fails["antigravity"] <= 5

\* Refresh tokens are used once and the last one is kept, whatever the agent and the
\* snap do at once; Antigravity is always tried again (agent.go, poll; codex.go).
PollingHolds == FileIsUsable /\ NeverReused /\ TriedSoon
=============================================================================
