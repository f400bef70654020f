---------------------------- MODULE NotifyEngine ----------------------------
(***************************************************************************)
(* notify.Engine (internal/notify/engine.go): the quota alert check with   *)
(* its guard.  checkQuotaAlert reads settings and guard in one critical    *)
(* section, sends through every channel without the lock, and sets the     *)
(* guard in a second one.  Provider goroutines of the polling agent run    *)
(* it; manual snaps reset guards (tracker -> OnReset, Quick Adjust ->      *)
(* ResetAllGuards) and PUT /api/config changes the settings meanwhile.     *)
(*                                                                         *)
(* A percentage is abstracted to whether it is above the threshold the     *)
(* check has read, time to whether the guard is younger than guardTTL.     *)
(* The digest batcher is seen through Add's answer and through the batches *)
(* it hands to deliver (how it makes them up is in DigestBatcher).         *)
(***************************************************************************)
EXTENDS Naturals, FiniteSets

CONSTANTS
  Keys,       (* guard keys: model ids, "codex_five_hour", ...             *)
  Checkers,   (* goroutines that may be in checkQuotaAlert at once         *)
  Channels,   (* asynchronous channels: SMTP, webhook, WebPush             *)
  NoKey,      (* a checker outside checkQuotaAlert                         *)
  DigestUsed, (* whether anybody calls ConfigureDigest: the server does    *)
              (* not, the API is there and tested                          *)
  MaxWaiting, (* bound on the alerts for a key that wait for a digest      *)
  MaxCycle    (* bound on resets: none once a model has had this many      *)

ASSUME EngineAssumption == /\ NoKey \notin Keys
                           /\ DigestUsed \in BOOLEAN
                           /\ MaxWaiting \in Nat
                           /\ MaxCycle \in Nat

VARIABLES
  enabled,    (* Engine.enabled                                            *)
  digest,     (* "absent": nil batcher, else its switch                    *)
  channels,   (* the channels that are configured                          *)
  guard,      (* guard[k]: a notification younger than guardTTL is noted   *)
  pc,         (* where checker c is in checkQuotaAlert                     *)
  key,        (* the guard key of its call                                 *)
  chans,      (* the channels it has copied under the lock                 *)
  waiting,    (* waiting[k]: alerts for k the batcher has accepted and     *)
              (* deliver has not yet sent                                  *)
  cycle,      (* history: the current reset cycle of a model               *)
  startedIn,  (* history: the cycle in which the check of c began          *)
  guardedFor, (* history: the cycle of the check that set the guard        *)
  fired,      (* history: fired[k][c], what c sent or had batched since    *)
              (* the guard was last cleared                                *)
  earned,     (* history: since the guard was last cleared a channel took  *)
              (* an alert for k (or had already, by a check then under way)*)
  unheard     (* history: the same of an alert nobody got and the engine   *)
              (* counts as sent: one of a digest every channel refused, or *)
              (* one only a failing desktop was to show                    *)

settings == <<enabled, digest, channels>>
local == <<pc, key, chans, startedIn>>
told == <<fired, earned, unheard>>
history == <<cycle, guardedFor, told>>
vars == <<settings, guard, local, waiting, history>>

Init ==
  /\ enabled \in BOOLEAN
  /\ digest = "absent"
  /\ channels \in SUBSET Channels
  /\ guard = [k \in Keys |-> FALSE]
  /\ pc = [c \in Checkers |-> "idle"]
  /\ key = [c \in Checkers |-> NoKey]
  /\ chans = [c \in Checkers |-> {}]
  /\ cycle = [k \in Keys |-> 0]
  /\ startedIn = [c \in Checkers |-> 0]
  /\ guardedFor = [k \in Keys |-> 0]
  /\ fired = [k \in Keys |-> [c \in Checkers |-> 0]]
  /\ earned = [k \in Keys |-> FALSE]
  /\ unheard = [k \in Keys |-> FALSE]
  /\ waiting = [k \in Keys |-> 0]

-----------------------------------------------------------------------------
(* checkQuotaAlert                                                          *)

\* Mutant of MayNotify: the guard is not consulted.
MayNotifyAgain(k) == enabled

\* What the first critical section of a check of k decides.
MayNotify(k) == enabled /\ ~guard[k]

\* The first critical section, for a percentage at or below the threshold.
\* (Above it, or if MayNotify says no, the call returns without a trace.)
BeginCheck(c, k) ==
  /\ pc[c] = "idle"
  /\ MayNotify(k)
  /\ pc' = [pc EXCEPT ![c] = "queueing"]
  /\ key' = [key EXCEPT ![c] = k]
  /\ chans' = [chans EXCEPT ![c] = channels]
  /\ startedIn' = [startedIn EXCEPT ![c] = cycle[k]]
  /\ UNCHANGED <<settings, guard, waiting, history>>

\* Mutant of Return: the call forgets its key and goes on.
ReturnLate(c) ==
  /\ key' = [key EXCEPT ![c] = NoKey]
  /\ UNCHANGED <<pc, chans, startedIn>>

\* checkQuotaAlert returns.
Return(c) ==
  /\ pc' = [pc EXCEPT ![c] = "idle"]
  /\ key' = [key EXCEPT ![c] = NoKey]
  /\ chans' = [chans EXCEPT ![c] = {}]
  /\ startedIn' = [startedIn EXCEPT ![c] = 0]

\* Checker c has handed its alert over.
Fired(c) == fired' = [fired EXCEPT ![key[c]][c] = @ + 1]

\* digest.Add: the batcher takes the alert, or the check sends it itself.
Queue(c) ==
  /\ pc[c] = "queueing"
  /\ \/ /\ digest = "on"
        /\ waiting[key[c]] < MaxWaiting
        /\ waiting' = [waiting EXCEPT ![key[c]] = @ + 1]
        /\ Fired(c)
        /\ pc' = [pc EXCEPT ![c] = "sent"]
     \/ /\ digest # "on"
        /\ pc' = [pc EXCEPT ![c] = "sending"]
        /\ UNCHANGED <<waiting, fired>>
  /\ UNCHANGED <<settings, guard, key, chans, startedIn, cycle, guardedFor,
                 earned, unheard>>

\* An alert for the keys in K has met its channels: those in ok took it.
\* excused: the engine does not count it as a failure if there are none.
Answered(K, ok, excused) ==
  /\ earned'  = [k \in Keys |-> earned[k] \/ (k \in K /\ ok # {})]
  /\ unheard' = [k \in Keys |-> unheard[k] \/ (k \in K /\ ok = {} /\ excused)]

\* deliver, for a batch that the batcher has flushed: a notification for all
\* its alerts, to the channels configured by then.  It is not retried, and
\* nothing looks at which channels took it.
DeliverDigest ==
  /\ \E batch \in [Keys -> 0..MaxWaiting], ok \in SUBSET (channels \cup {"os"}) :
       /\ \A k \in Keys : batch[k] <= waiting[k]
       /\ \E k \in Keys : batch[k] > 0
       /\ waiting' = [k \in Keys |-> waiting[k] - batch[k]]
       /\ Answered({k \in Keys : batch[k] > 0}, ok, TRUE)
  /\ UNCHANGED <<settings, guard, local, cycle, guardedFor, fired>>

\* Mutant of Failed: the alert counts as sent once it was attempted.
NeverFailed(c, ok) == FALSE

\* No channel took the alert although an asynchronous one is configured.
Failed(c, ok) == chans[c] # {} /\ ok = {}

\* Desktop notification, e-mail, webhook and push one after the other: ok are
\* the channels that took it.  A failing desktop alone is not a failure.
SendAll(c) ==
  /\ pc[c] = "sending"
  /\ \E ok \in SUBSET (chans[c] \cup {"os"}) :
       \/ /\ Failed(c, ok)
          /\ Return(c)
          /\ UNCHANGED told
       \/ /\ ~Failed(c, ok)
          /\ pc' = [pc EXCEPT ![c] = "sent"]
          /\ Fired(c)
          /\ Answered({key[c]}, ok, chans[c] = {})
          /\ UNCHANGED <<key, chans, startedIn>>
  /\ UNCHANGED <<settings, guard, waiting, cycle, guardedFor>>

\* Mutant of SetGuard: the second critical section only runs the callback.
LeaveGuard(c) ==
  /\ pc[c] = "sent"
  /\ Return(c)
  /\ UNCHANGED <<settings, guard, waiting, history>>

\* The second critical section sets the guard; the callback that raises the
\* in-app alert follows.
SetGuard(c) ==
  /\ pc[c] = "sent"
  /\ guard' = [guard EXCEPT ![key[c]] = TRUE]
  /\ guardedFor' = [guardedFor EXCEPT ![key[c]] = startedIn[c]]
  /\ Return(c)
  /\ UNCHANGED <<settings, waiting, cycle, told>>

-----------------------------------------------------------------------------
(* Guards are cleared                                                       *)

\* A check of k is about to set the guard for an alert it has handed over.
AboutToGuard(k) == \E c \in Checkers : pc[c] = "sent" /\ key[c] = k

\* Delete the guards of the keys in K.
ClearGuards(K) ==
  /\ guard' = [k \in Keys |-> guard[k] /\ k \notin K]
  /\ guardedFor' = [k \in Keys |-> IF k \in K THEN 0 ELSE guardedFor[k]]
  /\ fired' = [k \in Keys |-> IF k \in K THEN [c \in Checkers |-> 0]
                                         ELSE fired[k]]
  /\ earned' = [k \in Keys |-> earned[k] /\ (k \in K => AboutToGuard(k))]
  /\ unheard' = [k \in Keys |-> unheard[k] /\ (k \in K => AboutToGuard(k))]

\* The tracker has seen the quota of model k reset.
OnReset(k) ==
  /\ \A j \in Keys : cycle[j] < MaxCycle
  /\ cycle' = [cycle EXCEPT ![k] = @ + 1]
  /\ ClearGuards({k})
  /\ UNCHANGED <<settings, local, waiting>>

\* Quick Adjust of a stored snapshot.
ResetAllGuards ==
  /\ ClearGuards(Keys)
  /\ UNCHANGED <<settings, local, waiting, cycle>>

\* guardTTL passes: the entry stays in the map and counts as absent.
GuardExpires(k) ==
  /\ guard[k]
  /\ ClearGuards({k})
  /\ UNCHANGED <<settings, local, waiting, cycle>>

-----------------------------------------------------------------------------
(* Settings                                                                 *)

Configure ==
  /\ enabled' \in BOOLEAN
  /\ UNCHANGED <<digest, channels, guard, local, waiting, history>>

\* ConfigureSMTP, ConfigureWebhook, ConfigureWebPush.
ConfigureChannels ==
  /\ channels' \in SUBSET Channels
  /\ UNCHANGED <<enabled, digest, guard, local, waiting, history>>

ConfigureDigest ==
  /\ DigestUsed
  /\ digest' \in {"off", "on"}
  /\ UNCHANGED <<enabled, channels, guard, local, waiting, history>>

\* A restart of the server: NewEngine, configured from the database.  Alerts
\* that wait for a digest go with the process.
Restart ==
  /\ enabled' \in BOOLEAN
  /\ digest' = "absent"
  /\ pc' = [c \in Checkers |-> "idle"]
  /\ key' = [c \in Checkers |-> NoKey]
  /\ chans' = [c \in Checkers |-> {}]
  /\ startedIn' = [c \in Checkers |-> 0]
  /\ guard' = [k \in Keys |-> FALSE]
  /\ guardedFor' = [k \in Keys |-> 0]
  /\ fired' = [k \in Keys |-> [c \in Checkers |-> 0]]
  /\ earned' = [k \in Keys |-> FALSE]
  /\ unheard' = [k \in Keys |-> FALSE]
  /\ waiting' = [k \in Keys |-> 0]
  /\ UNCHANGED <<channels, cycle>>

CheckerStep(c) == Queue(c) \/ SendAll(c) \/ SetGuard(c)

Next ==
  \/ \E c \in Checkers, k \in Keys : BeginCheck(c, k)
  \/ \E c \in Checkers : CheckerStep(c)
  \/ DeliverDigest
  \/ \E k \in Keys : OnReset(k)
  \/ ResetAllGuards
  \/ \E k \in Keys : GuardExpires(k)
  \/ Configure
  \/ ConfigureChannels
  \/ ConfigureDigest
  \/ Restart

Spec == Init /\ [][Next]_vars

-----------------------------------------------------------------------------
TypeOK ==
  /\ enabled \in BOOLEAN
  /\ digest \in {"absent", "off", "on"}
  /\ channels \subseteq Channels
  /\ guard \in [Keys -> BOOLEAN]
  /\ pc \in [Checkers -> {"idle", "queueing", "sending", "sent"}]
  /\ key \in [Checkers -> Keys \cup {NoKey}]
  /\ chans \in [Checkers -> SUBSET Channels]
  /\ cycle \in [Keys -> Nat]
  /\ startedIn \in [Checkers -> Nat]
  /\ guardedFor \in [Keys -> Nat]
  /\ fired \in [Keys -> [Checkers -> Nat]]
  /\ earned \in [Keys -> BOOLEAN]
  /\ unheard \in [Keys -> BOOLEAN]
  /\ waiting \in [Keys -> 0..MaxWaiting]
  /\ \A c \in Checkers : pc[c] # "idle" => key[c] \in Keys

\* The guard keeps every goroutine from repeating itself: until the guard of
\* k is cleared again, no checker hands over a second alert for k, however many
\* checks race, fail or see settings change under way.
OncePerChecker ==
  \A k \in Keys, c \in Checkers : fired[k][c] <= 1

\* What a guard stands for, whichever of the racing checks has set it, whatever
\* was cleared between and whenever a digest goes out: an alert that a channel
\* took, one that still waits for a digest, or one nobody got in exactly the two
\* ways the engine does not look at (a digest every channel refused, a failing
\* desktop with no other channel).  An alert sent at once that all configured
\* channels refuse never suppresses the next one.
GuardIsEarned ==
  \A k \in Keys : guard[k] => earned[k] \/ waiting[k] > 0 \/ unheard[k]

\* engine.go says of OnReset "cycle detected -> can notify again": a guard that
\* is set belongs to a check of the current cycle.
ResetAllowsNotify == \A k \in Keys : guard[k] => guardedFor[k] = cycle[k]

=============================================================================
