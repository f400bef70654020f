----------------------------- MODULE ResetCycles -----------------------------
(***************************************************************************)
(* Detection of quota reset cycles: tracker.Tracker                        *)
(* (internal/tracker/tracker.go) over the table antigravity_reset_cycles   *)
(* (internal/store/cycles.go), fed by POST /api/snap                       *)
(* (internal/web/handlers_quota.go).                                       *)
(*                                                                         *)
(* The tracker compares each reading with the one before, which it keeps   *)
(* in memory only; the cycles are rows of the database, and after a        *)
(* restart LoadBaseline refills the memory from the stored snapshots.      *)
(* Process holds Tracker.mu for a whole snapshot, but each SQL statement   *)
(* is a step of its own here: it may fail, or the process may die.  The    *)
(* requests fetch and store their snapshots without any lock.              *)
(*                                                                         *)
(* A fraction is a small number of equal parts, the 10% of the detection   *)
(* is Jump parts.  The reset time a provider reports is abstracted to the  *)
(* number of the quota window it ends, and so is the capture time: later   *)
(* than the reset time of every earlier window, and of no other.           *)
(***************************************************************************)
EXTENDS Naturals, FiniteSets

CONSTANTS
  Accounts, Models,
  Snappers,   (* concurrent POST /api/snap requests                        *)
  Timed,      (* keys whose reset time the provider always reports         *)
  Untimed,    (* keys whose reset time it never reports                    *)
  Nobody,     (* the tracker's mutex is free                               *)
  NoKey, NoCycle, NoReading,
  NoValue,    (* absent from lastFractions or lastResetTimes; a nil time   *)
  MaxUse,     (* parts of a quota                                          *)
  Jump,       (* parts that make 10%                                       *)
  MaxWindow,  (* bound on the resets of a key                              *)
  MaxSnaps,   (* bound on the snapshots stored                             *)
  MaxEdits    (* bound on deletions, adjustments and restarts              *)

Keys == Accounts \X Models

ASSUME CyclesAssumption ==
  /\ IsFiniteSet(Snappers) /\ Nobody \notin Snappers
  /\ NoKey \notin Keys
  /\ Timed \subseteq Keys /\ Untimed \subseteq Keys
  /\ MaxUse \in Nat /\ Jump \in Nat /\ MaxWindow \in Nat
  /\ MaxSnaps \in Nat /\ MaxEdits \in Nat
  /\ NoValue \notin Nat

VARIABLES
  used, window,      (* the provider's truth: usage and quota window       *)
  active,            (* active[k]: the row with cycle_end NULL             *)
  closed,            (* closed[k]: how many rows have a cycle_end          *)
  stored,            (* table snapshots                                    *)
  lastUsed,          (* 1 - lastFractions                                  *)
  lastReset,         (* lastResetTimes                                     *)
  hasBaseline,
  pc, job,           (* phase of a request and the snapshot it carries     *)
  holder,            (* who holds Tracker.mu                               *)
  todo, cur, copy,   (* of the holder: keys left, this key, its cycle read *)
  seen,              (* history: windows of the readings in active[k]      *)
  lastSeen,          (* history: the last reading processed for k          *)
  unrecorded,        (* history: growth within active[k] that was read     *)
                     (* while hasBaseline was unset: it raises the peak    *)
                     (* and is in no delta                                 *)
  steady,            (* history: nothing has come between the tracker's    *)
                     (* memory of k and the readings it has processed      *)
  snaps, edits       (* counters of the bounds                             *)

quota == <<used, window>>
cycles == <<active, closed, seen, unrecorded>>
memory == <<lastUsed, lastReset, hasBaseline>>
request == <<pc, job>>
work == <<holder, todo, cur, copy>>
count == <<snaps, edits>>
vars == <<quota, cycles, stored, memory, request, work, lastSeen, steady,
          count>>

\* What a response says of a key.  Within a window usage only grows, so this
\* is also the order in which readings of a key were taken.
Reading == [used : 0..MaxUse, window : 0..MaxWindow,
            reset : (0..MaxWindow) \cup {NoValue}]

Older(r, s) == r.window < s.window \/ (r.window = s.window /\ r.used < s.used)

\* What a request carries: the readings of some models of one account, and
\* when they were stamped (as a window, for each key).
NoSnapshot == [read |-> <<>>, at |-> <<>>]

Cycle == [reset : (0..MaxWindow) \cup {NoValue}, peak : 0..MaxUse,
          delta : Nat, first : 0..MaxUse]

ASSUME AbsenceAssumption == NoReading \notin Reading /\ NoCycle \notin Cycle

Init ==
  /\ used = [k \in Keys |-> 0]
  /\ window = [k \in Keys |-> 0]
  /\ active = [k \in Keys |-> NoCycle]
  /\ closed = [k \in Keys |-> 0]
  /\ stored = {}
  /\ lastUsed = [k \in Keys |-> NoValue]
  /\ lastReset = [k \in Keys |-> NoValue]
  /\ hasBaseline = FALSE
  /\ pc = [t \in Snappers |-> "idle"]
  /\ job = [t \in Snappers |-> NoSnapshot]
  /\ holder = Nobody
  /\ todo = {}
  /\ cur = NoKey
  /\ copy = NoCycle
  /\ seen = [k \in Keys |-> {}]
  /\ lastSeen = [k \in Keys |-> NoReading]
  /\ unrecorded = [k \in Keys |-> 0]
  /\ steady = [k \in Keys |-> TRUE]
  /\ snaps = 0
  /\ edits = 0

-----------------------------------------------------------------------------
(* The provider (external)                                                  *)

\* Between two calls usage of the keys in K may grow and windows may end: their
\* readings move on to u and w.
Elapse(K, u, w) ==
  /\ \A k \in K : \/ w[k] = window[k] /\ u[k] >= used[k]
                  \/ w[k] > window[k]
  /\ used' = [k \in Keys |-> IF k \in K THEN u[k] ELSE used[k]]
  /\ window' = [k \in Keys |-> IF k \in K THEN w[k] ELSE window[k]]

-----------------------------------------------------------------------------
(* A request takes a snapshot                                               *)

\* FetchQuotas: the language server answers for some models of an account.
Fetch(t) ==
  /\ pc[t] = "idle"
  /\ snaps + Cardinality({s \in Snappers : pc[s] = "fetched"}) < MaxSnaps
  /\ \E a \in Accounts, M \in (SUBSET Models) \ {{}} :
       LET K == {a} \X M
       IN \E u \in [K -> 0..MaxUse], w \in [K -> 0..MaxWindow],
             timed \in SUBSET K :
            /\ K \cap Timed \subseteq timed
            /\ timed \cap Untimed = {}
            /\ Elapse(K, u, w)
            /\ job' = [job EXCEPT ![t].read =
                 [k \in K |->
                    [used |-> u[k], window |-> w[k],
                     reset |-> IF k \in timed THEN w[k] ELSE NoValue]]]
  /\ pc' = [pc EXCEPT ![t] = "fetched"]
  /\ UNCHANGED <<cycles, stored, memory, work, lastSeen, steady, count>>

\* ToSnapshot stamps it, GetOrCreateAccount and InsertSnapshot store it.  When
\* SaveSnapshot then fails (the client has gone and with it the context), or
\* when it is `niyantra snap` that stores it, the tracker never gets it.
Store(t) ==
  LET read == job[t].read
      K == DOMAIN read
  IN
  /\ pc[t] = "fetched"
  /\ snaps' = snaps + 1
  /\ stored' = stored \cup {[id |-> snaps + 1, read |-> read]}
  /\ \/ /\ pc' = [pc EXCEPT ![t] = "stored"]
        /\ \E at \in [K -> 0..MaxWindow] :
             /\ Elapse(K, [k \in K |-> IF at[k] = window[k] THEN used[k] ELSE 0],
                       at)
             /\ job' = [job EXCEPT ![t].at = at]
     \/ /\ pc' = [pc EXCEPT ![t] = "idle"]
        /\ job' = [job EXCEPT ![t] = NoSnapshot]
        /\ UNCHANGED quota
  /\ UNCHANGED <<cycles, memory, work, lastSeen, steady, edits>>

-----------------------------------------------------------------------------
(* Tracker.Process                                                          *)

\* Process gets the mutex.
Lock(t) ==
  /\ pc[t] = "stored"
  /\ holder = Nobody
  /\ holder' = t
  /\ todo' = DOMAIN job[t].read
  /\ pc' = [pc EXCEPT ![t] = "reading"]
  /\ UNCHANGED <<quota, cycles, stored, memory, job, cur, copy, lastSeen,
                 steady, count>>

\* Method 1: the reported reset time has shifted.
Shifted(k, r) ==
  r.reset # NoValue /\ lastReset[k] # NoValue /\ r.reset # lastReset[k]

\* Mutant of Replenished: any change counts as a reset.
ReplenishedAtAll(k, r) == lastUsed[k] # NoValue /\ r.used # lastUsed[k]

\* Method 2: more than 10% more remains than at the last reading.
Replenished(k, r) ==
  hasBaseline /\ lastUsed[k] # NoValue /\ r.used + Jump < lastUsed[k]

\* Method 3: the reset time of the cycle has passed and more remains.
Passed(k, r, at, cycle) ==
  /\ cycle.reset # NoValue /\ cycle.reset < at
  /\ lastUsed[k] # NoValue /\ r.used < lastUsed[k]

\* Mutant of ResetDetected: without method 1.
DetectedWithoutTime(k, r, at, cycle) ==
  Replenished(k, r) \/ Passed(k, r, at, cycle)

ResetDetected(k, r, at, cycle) ==
  Shifted(k, r) \/ Replenished(k, r) \/ Passed(k, r, at, cycle)

\* processModel reads the active cycle (a failing query reads as "none") and
\* decides what to do with it.
ReadCycle(t) ==
  /\ pc[t] = "reading"
  /\ \E k \in todo : \E row \in {active[k], NoCycle} :
       LET r == job[t].read[k]
       IN
       /\ cur' = k
       /\ copy' = row
       /\ pc' = [pc EXCEPT ![t] =
            IF row = NoCycle THEN "creating"
            ELSE IF ResetDetected(k, r, job[t].at[k], row) THEN "closing"
            ELSE "updating"]
       /\ steady' = [steady EXCEPT ![k] =
            @ /\ (lastSeen[k] = NoReading \/ ~Older(r, lastSeen[k]))]
  /\ UNCHANGED <<quota, cycles, stored, memory, job, holder, todo, lastSeen,
                 count>>

\* CloseCycle.
CloseActive(t) ==
  /\ pc[t] = "closing"
  /\ closed' = [closed EXCEPT ![cur] = @ + 1]
  /\ active' = [active EXCEPT ![cur] = NoCycle]
  /\ seen' = [seen EXCEPT ![cur] = {}]
  /\ unrecorded' = [unrecorded EXCEPT ![cur] = 0]
  /\ pc' = [pc EXCEPT ![t] = "creating"]
  /\ UNCHANGED <<quota, stored, memory, job, work, lastSeen, steady, count>>

\* CreateCycle, unless the unique index finds an active cycle.
CreateActive(t) ==
  LET r == job[t].read[cur]
  IN
  /\ pc[t] = "creating"
  /\ active[cur] = NoCycle
  /\ active' = [active EXCEPT ![cur] =
       [reset |-> r.reset, peak |-> 0, delta |-> 0, first |-> r.used]]
  /\ pc' = [pc EXCEPT ![t] = "initialising"]
  /\ UNCHANGED <<quota, closed, seen, unrecorded, stored, memory, job, work,
                 lastSeen, steady, count>>

\* The last lines of processModel: remember the reading, go to the next model.
Remember(t, r) ==
  /\ lastUsed' = [lastUsed EXCEPT ![cur] = r.used]
  /\ lastReset' = [lastReset EXCEPT ![cur] =
                     IF r.reset = NoValue THEN @ ELSE r.reset]
  /\ lastSeen' = [lastSeen EXCEPT ![cur] = r]
  /\ seen' = [seen EXCEPT ![cur] = @ \cup {r.window}]
  /\ todo' = todo \ {cur}
  /\ cur' = NoKey
  /\ copy' = NoCycle
  /\ pc' = [pc EXCEPT ![t] = "reading"]

\* UpdateCycle of a new cycle.
InitialiseActive(t) ==
  LET r == job[t].read[cur]
  IN
  /\ pc[t] = "initialising"
  /\ active' = [active EXCEPT ![cur].peak = r.used, ![cur].delta = 0]
  /\ Remember(t, r)
  /\ steady' = [steady EXCEPT ![cur] = lastReset'[cur] = r.reset]
  /\ UNCHANGED <<quota, closed, unrecorded, stored, hasBaseline, job, holder,
                 count>>

\* Mutant of Grown: the growth is not added to the delta.
GrownWithoutDelta(cycle, k, r) ==
  [cycle EXCEPT !.peak = IF @ < r.used THEN r.used ELSE @]

\* Mutant of Grown: the peak is added up like the delta.
GrownBySum(cycle, k, r) ==
  [cycle EXCEPT !.peak = @ + r.used]

\* By how much more is used than at the last reading.
Growth(k, r) ==
  IF lastUsed[k] # NoValue /\ lastUsed[k] < r.used THEN r.used - lastUsed[k] ELSE 0

\* The cycle after one more reading.  With a baseline a key that has no last
\* reading adds nothing, not even a peak; without one it raises the peak only.
Grown(cycle, k, r) ==
  LET peak == IF cycle.peak < r.used THEN r.used ELSE cycle.peak
  IN IF ~hasBaseline THEN [cycle EXCEPT !.peak = peak]
     ELSE IF lastUsed[k] = NoValue THEN cycle
     ELSE [cycle EXCEPT !.peak = peak, !.delta = @ + Growth(k, r)]

\* UpdateCycle within the same cycle.
UpdateActive(t) ==
  LET r == job[t].read[cur]
  IN
  /\ pc[t] = "updating"
  /\ active' = [active EXCEPT ![cur] = Grown(copy, cur, r)]
  /\ unrecorded' = [unrecorded EXCEPT ![cur] =
                      IF hasBaseline THEN @ ELSE @ + Growth(cur, r)]
  /\ Remember(t, r)
  /\ steady' = [steady EXCEPT ![cur] = @ /\ lastReset'[cur] = r.reset]
  /\ UNCHANGED <<quota, closed, stored, hasBaseline, job, holder, count>>

\* The request lets go of the mutex and is over.
Release(t) ==
  /\ pc' = [pc EXCEPT ![t] = "idle"]
  /\ job' = [job EXCEPT ![t] = NoSnapshot]
  /\ holder' = Nobody
  /\ todo' = {}
  /\ cur' = NoKey
  /\ copy' = NoCycle

\* All models are done.
Unlock(t) ==
  /\ pc[t] = "reading"
  /\ todo = {}
  /\ hasBaseline' = TRUE
  /\ Release(t)
  /\ UNCHANGED <<quota, cycles, stored, lastUsed, lastReset, lastSeen, steady,
                 count>>

\* A statement fails: Process returns, the other models are skipped.
Fail(t) ==
  /\ pc[t] \in {"closing", "creating", "initialising", "updating"}
  /\ steady' = [steady EXCEPT ![cur] = @ /\ pc[t] # "initialising"]
  /\ Release(t)
  /\ UNCHANGED <<quota, cycles, stored, memory, lastSeen, count>>

-----------------------------------------------------------------------------
(* Snapshots are edited, the process restarts                               *)

Edit ==
  /\ edits < MaxEdits
  /\ edits' = edits + 1

\* DELETE of a snapshot, or of all snapshots of an account: the cycles stay.
DeleteSnapshots ==
  /\ Edit
  /\ \E gone \in (SUBSET stored) \ {{}} :
       /\ \/ Cardinality(gone) = 1
          \/ \E a \in Accounts :
               gone = {s \in stored : DOMAIN s.read \subseteq {a} \X Models}
       /\ stored' = stored \ gone
  /\ UNCHANGED <<quota, cycles, memory, request, work, lastSeen, steady, snaps>>

\* Quick Adjust: the user corrects what a stored snapshot says of a model.
AdjustSnapshot ==
  /\ Edit
  /\ \E s \in stored, u \in 0..MaxUse : \E k \in DOMAIN s.read :
       stored' = (stored \ {s}) \cup {[s EXCEPT !.read[k].used = u]}
  /\ UNCHANGED <<quota, cycles, memory, request, work, lastSeen, steady, snaps>>

\* LatestPerAccount: the readings of the newest snapshots, by key.
Latest(k) ==
  {s.read[k] : s \in {s \in stored :
     /\ k \in DOMAIN s.read
     /\ \A o \in stored : DOMAIN o.read \subseteq {k[1]} \X Models
                            => o.id <= s.id}}

\* A new tracker remembers the latest snapshot of each account.
LoadBaseline ==
  LET latest == [k \in Keys |->
        IF Latest(k) = {} THEN [used |-> NoValue, reset |-> NoValue]
                          ELSE CHOOSE r \in Latest(k) : TRUE]
  IN
  /\ lastUsed' = [k \in Keys |-> latest[k].used]
  /\ lastReset' = [k \in Keys |-> latest[k].reset]
  /\ hasBaseline' = (stored # {})

\* The process ends, orderly or not, and starts again.
Restart ==
  /\ Edit
  /\ pc' = [t \in Snappers |-> "idle"]
  /\ job' = [t \in Snappers |-> NoSnapshot]
  /\ holder' = Nobody
  /\ todo' = {}
  /\ cur' = NoKey
  /\ copy' = NoCycle
  /\ LoadBaseline
  /\ steady' = [k \in Keys |->
       \/ lastSeen[k] = NoReading /\ active[k] = NoCycle
       \/ /\ steady[k]
          /\ lastSeen[k] # NoReading
          /\ lastUsed'[k] = lastSeen[k].used
          /\ lastReset'[k] = lastSeen[k].reset
          /\ ~\E t \in Snappers : pc[t] = "initialising" /\ cur = k]
  /\ UNCHANGED <<quota, cycles, stored, lastSeen, snaps>>

-----------------------------------------------------------------------------
RequestStep(t) ==
  \/ Fetch(t)
  \/ Store(t)
  \/ Lock(t)
  \/ ReadCycle(t)
  \/ CloseActive(t)
  \/ CreateActive(t)
  \/ InitialiseActive(t)
  \/ UpdateActive(t)
  \/ Unlock(t)
  \/ Fail(t)

Next ==
  \/ \E t \in Snappers : RequestStep(t)
  \/ DeleteSnapshots
  \/ AdjustSnapshot
  \/ Restart

Spec == Init /\ [][Next]_vars

-----------------------------------------------------------------------------
Phases == {"idle", "fetched", "stored", "reading", "closing", "creating",
           "initialising", "updating"}

TypeOK ==
  /\ used \in [Keys -> 0..MaxUse]
  /\ window \in [Keys -> 0..MaxWindow]
  /\ active \in [Keys -> Cycle \cup {NoCycle}]
  /\ closed \in [Keys -> Nat]
  /\ \A s \in stored :
       /\ s.id \in 1..MaxSnaps
       /\ DOMAIN s.read \subseteq Keys
       /\ \A k \in DOMAIN s.read : s.read[k] \in Reading
  /\ lastUsed \in [Keys -> (0..MaxUse) \cup {NoValue}]
  /\ lastReset \in [Keys -> (0..MaxWindow) \cup {NoValue}]
  /\ hasBaseline \in BOOLEAN
  /\ pc \in [Snappers -> Phases]
  /\ holder \in Snappers \cup {Nobody}
  /\ todo \subseteq Keys
  /\ cur \in Keys \cup {NoKey}
  /\ copy \in Cycle \cup {NoCycle}
  /\ seen \in [Keys -> SUBSET (0..MaxWindow)]
  /\ lastSeen \in [Keys -> Reading \cup {NoReading}]
  /\ unrecorded \in [Keys -> Nat]
  /\ steady \in [Keys -> BOOLEAN]

\* A key between two statements of processModel.
InTransit(k) == cur = k

\* As long as nothing has come between the tracker's memory of a key and the
\* readings it has processed (a restart that loads other readings, an older
\* reading that overtakes, a half-made cycle), a cycle holds readings of one
\* quota window only: no reset is missed.
OneWindowPerCycle ==
  \A k \in Timed :
    steady[k] /\ ~InTransit(k) => Cardinality(seen[k]) <= 1

\* Under the same condition a cycle is closed only by a reading of another
\* quota window: no reset is made up, by none of the three methods.
ResetsAreReal ==
  [][\A k \in Keys :
       closed'[k] # closed[k] /\ steady[k]
         => job[holder].read[k].window \notin seen[k]]_vars

\* Under the same condition the row of a cycle accounts for its readings: the
\* peak covers the last of them and is itself covered by the first one and the
\* growth recorded since, whatever failed or was skipped on the way.  What the
\* row does not record is exactly the growth that was read before any snapshot
\* had been processed whole: one model's error leaves hasBaseline unset, and a
\* reading of another model then raises its peak without a delta.
CycleAccounts ==
  \A k \in Keys :
    steady[k] /\ active[k] # NoCycle /\ ~InTransit(k) =>
      /\ lastSeen[k].used <= active[k].peak
      /\ active[k].peak <= active[k].first + active[k].delta + unrecorded[k]

\* The API reference says completedCycles is the "number of completed reset
\* cycles tracked": there are no more of them than resets.
NoPhantomCycle == \A k \in Keys : closed[k] <= window[k]

=============================================================================
