-------------------------- MODULE ResetCyclesProofs --------------------------
(***************************************************************************)
(* Proofs about ResetCycles for any accounts, models, requests and bounds: *)
(* what the row of a cycle says of the readings it was made from, in spite *)
(* of failing statements, deleted snapshots and restarts.                  *)
(***************************************************************************)
EXTENDS ResetCycles, FiniteSetTheorems, TLAPS

\* The phases of the holder of Tracker.mu, and those between two statements.
Doing == {"closing", "creating", "initialising", "updating"}
Busy == {"reading"} \cup Doing

\* What the provider says of a key: the reset time, if any, ends the window.
TrueReading(k) ==
  {r \in Reading : r.reset \in {r.window, NoValue} /\ (k \in Timed => r.reset = r.window)}

Snapshot ==
  [read : UNION {[K -> Reading] : K \in SUBSET Keys},
   at : UNION {[K -> 0..MaxWindow] : K \in SUBSET Keys}]

JobsOK ==
  \A t \in Snappers :
    job[t] \in Snapshot /\ \A k \in DOMAIN job[t].read : job[t].read[k] \in TrueReading(k)

StoredOK ==
  \A s \in stored :
    s \in [id : 1..MaxSnaps, read : UNION {[K -> Reading] : K \in SUBSET Keys}]

\* The mutex, and the variables that belong to its holder.
Exclusive == \A t \in Snappers : pc[t] \in Busy <=> holder = t
WorkOK ==
  /\ holder = Nobody => cur = NoKey /\ todo = {}
  /\ \A t \in Snappers :
       /\ pc[t] = "reading" => cur = NoKey
       /\ pc[t] \in Busy => todo \subseteq DOMAIN job[t].read
       /\ pc[t] \in Doing => cur \in todo

\* What the holder has found out about the key at hand is still so.
CurrentOK ==
  \A t \in Snappers : pc[t] \in Doing =>
    LET r == job[t].read[cur]
    IN /\ steady[cur] => lastSeen[cur] = NoReading \/ ~Older(r, lastSeen[cur])
       /\ pc[t] \in {"closing", "updating"} => copy = active[cur] /\ copy # NoCycle
       /\ pc[t] = "closing" => ResetDetected(cur, r, job[t].at[cur], copy)
       /\ pc[t] = "updating" => ~Shifted(cur, r)
       /\ pc[t] = "initialising" =>
            active[cur] # NoCycle /\ seen[cur] = {} /\ active[cur].first = r.used

\* Between CreateCycle and UpdateCycle of a new cycle of k.
Half(k) == cur = k /\ \E t \in Snappers : pc[t] = "initialising"

\* Memory, row and history of a key agree while it is steady.
KeyOK(k) ==
  /\ lastSeen[k] \in TrueReading(k) \cup {NoReading}
  /\ active[k] = NoCycle => seen[k] = {}
  /\ steady[k] /\ active[k] # NoCycle /\ ~Half(k) =>
       /\ lastSeen[k] # NoReading
       /\ lastSeen[k].used <= active[k].peak
       /\ active[k].peak <= active[k].first + active[k].delta + unrecorded[k]
  /\ steady[k] /\ lastSeen[k] # NoReading =>
       /\ lastUsed[k] = lastSeen[k].used /\ lastReset[k] = lastSeen[k].reset
       /\ \A x \in seen[k] : x <= lastSeen[k].window
       /\ k \in Timed => seen[k] \subseteq {lastSeen[k].window}

KeysOK == \A k \in Keys : KeyOK(k)

\* The snapshots stored and those about to be.
Fetched == {t \in Snappers : pc[t] = "fetched"}
Bounded == snaps \in Nat /\ snaps + Cardinality(Fetched) <= MaxSnaps

IInv ==
  /\ TypeOK /\ JobsOK /\ StoredOK /\ Bounded
  /\ Exclusive /\ WorkOK /\ CurrentOK /\ KeysOK

LEMMA EmptyJob == NoSnapshot \in Snapshot /\ DOMAIN NoSnapshot.read = {}
<1>1. <<>> \in [{} -> Reading] /\ <<>> \in [{} -> 0..MaxWindow] /\ DOMAIN <<>> = {}
  OBVIOUS
<1> QED
  BY <1>1 DEF NoSnapshot, Snapshot


LEMMA InvStarts == Init => IInv
<1> SUFFICES ASSUME Init PROVE IInv
  OBVIOUS
<1> USE CyclesAssumption DEF Init
<1>1. TypeOK
  <2>1. 0 \in 0..MaxUse /\ 0 \in 0..MaxWindow
    OBVIOUS
  <2>2. \A t \in Snappers : pc[t] \in Phases
    BY DEF Phases
  <2> QED
    BY <2>1, <2>2 DEF TypeOK
<1>2. StoredOK /\ Exclusive /\ WorkOK /\ CurrentOK
  BY DEF StoredOK, Exclusive, WorkOK, CurrentOK, Busy, Doing
<1>3. JobsOK
  BY EmptyJob DEF JobsOK
<1>4. Bounded
  <2>1. Fetched = {}
    BY DEF Fetched
  <2> QED
    BY <2>1, FS_EmptySet DEF Bounded
<1>5. KeysOK
  BY DEF KeysOK, KeyOK
<1> QED
  BY <1>1, <1>2, <1>3, <1>4, <1>5 DEF IInv

\* Only the job of t changes.
LEMMA JobsKept ==
  ASSUME JobsOK, NEW t \in Snappers, \A v \in Snappers \ {t} : job'[v] = job[v],
         \/ job'[t] \in {job[t], NoSnapshot}
         \/ /\ job'[t] \in Snapshot
            /\ \A k \in DOMAIN job'[t].read : job'[t].read[k] \in TrueReading(k)
  PROVE  JobsOK'
<1> SUFFICES ASSUME NEW v \in Snappers
             PROVE  job'[v] \in Snapshot /\ \A k \in DOMAIN job'[v].read :
                      job'[v].read[k] \in TrueReading(k)
  BY DEF JobsOK, TrueReading
<1> QED
  BY EmptyJob DEF JobsOK

\* Requests that neither start nor end being fetched.
LEMMA BoundKept ==
  ASSUME Bounded, UNCHANGED snaps,
         \A t \in Snappers : pc'[t] = "fetched" <=> pc[t] = "fetched"
  PROVE  Bounded'
<1>1. Fetched' = Fetched
  BY DEF Fetched
<1> QED
  BY <1>1 DEF Bounded

-----------------------------------------------------------------------------
(* Steps that leave the cycles and the tracker's memory alone              *)

\* A request between the provider and the mutex.
LEMMA OutsideKept ==
  ASSUME IInv, NEW t \in Snappers,
         pc[t] \notin Busy, pc'[t] \in Phases \ Busy,
         pc' = [pc EXCEPT ![t] = pc'[t]],
         \A u \in Snappers \ {t} : job'[u] = job[u],
         UNCHANGED <<cycles, memory, work, lastSeen, steady>>
  PROVE  Exclusive' /\ WorkOK' /\ CurrentOK' /\ KeysOK'
<1> USE DEF IInv
<1>1. \A u \in Snappers : u # t => pc'[u] = pc[u] /\ job'[u] = job[u]
  BY DEF TypeOK
<1>2. UNCHANGED <<active, closed, seen, unrecorded, lastUsed, lastReset, hasBaseline, holder, todo, cur,
                  copy, lastSeen, steady>>
  BY DEF cycles, memory, work
<1>3. \A u \in Snappers : pc'[u] \in Busy => u # t
  OBVIOUS
<1>4. Exclusive'
  BY <1>1, <1>2, <1>3 DEF Exclusive
<1>5. \A u \in Snappers : pc'[u] \in Doing \cup {"reading"} => u # t
  BY <1>3 DEF Busy
<1>6. WorkOK'
  BY <1>1, <1>2, <1>3, <1>5 DEF WorkOK
<1>7. CurrentOK'
  BY <1>1, <1>2, <1>5 DEF CurrentOK, ResetDetected, Shifted, Replenished, Passed, Older
<1>8. \A k \in Keys : Half(k)' <=> Half(k)
  BY <1>1, <1>2 DEF Half, Busy, Doing
<1>9. KeysOK'
  BY <1>2, <1>8 DEF KeysOK, KeyOK, TrueReading
<1> QED
  BY <1>4, <1>6, <1>7, <1>9

\* Usage and windows of a key move on within their bounds.
LEMMA ElapseTypes ==
  ASSUME TypeOK, NEW K \in SUBSET Keys, NEW u \in [K -> 0..MaxUse],
         NEW w \in [K -> 0..MaxWindow], Elapse(K, u, w)
  PROVE  used' \in [Keys -> 0..MaxUse] /\ window' \in [Keys -> 0..MaxWindow]
  BY DEF TypeOK, Elapse

LEMMA FetchKept == ASSUME IInv, NEW t \in Snappers, Fetch(t) PROVE IInv'
<1> PICK a \in Accounts, M \in (SUBSET Models) \ {{}} :
       LET K == {a} \X M
       IN \E u \in [K -> 0..MaxUse], w \in [K -> 0..MaxWindow],
             timed \in SUBSET K :
            /\ K \cap Timed \subseteq timed
            /\ timed \cap Untimed = {}
            /\ Elapse(K, u, w)
            /\ job' = [job EXCEPT ![t].read =
                 [k \in K |->
                    [used |-> u[k], window |-> w[k],
                     reset |-> IF k \in timed THEN w[k] ELSE NoValue]]]
  BY DEF Fetch
<1> DEFINE K == {a} \X M
<1>1. PICK u \in [K -> 0..MaxUse], w \in [K -> 0..MaxWindow], timed \in SUBSET K :
        /\ K \cap Timed \subseteq timed
        /\ timed \cap Untimed = {}
        /\ Elapse(K, u, w)
        /\ job' = [job EXCEPT ![t].read =
             [k \in K |-> [used |-> u[k], window |-> w[k],
                           reset |-> IF k \in timed THEN w[k] ELSE NoValue]]]
  OBVIOUS
<1> DEFINE R(k) == [used |-> u[k], window |-> w[k],
                    reset |-> IF k \in timed THEN w[k] ELSE NoValue]
           read == [k \in K |-> R(k)]
<1>2. K \in SUBSET Keys
  BY DEF Keys
<1>3. \A k \in K : R(k) \in TrueReading(k)
  BY <1>1 DEF TrueReading, Reading
<1> HIDE DEF K, R
<1>4. read \in [K -> Reading] /\ DOMAIN read = K /\ \A k \in K : read[k] \in TrueReading(k)
  BY <1>3 DEF TrueReading
<1>5. job' = [job EXCEPT ![t].read = read]
  BY <1>1 DEF R
<1> HIDE DEF read
<1>6. JobsOK'
  <2>1. job[t] \in Snapshot
    BY DEF IInv, JobsOK
  <2>2. [job[t] EXCEPT !.read = read] \in Snapshot /\ [job[t] EXCEPT !.read = read].read = read
    BY <1>2, <1>4, <2>1 DEF Snapshot
  <2>3. job'[t] = job[t] \/ job'[t] = [job[t] EXCEPT !.read = read]
    BY <1>5
  <2>4. \A v \in Snappers \ {t} : job'[v] = job[v]
    BY <1>5
  <2>5. \/ job'[t] \in {job[t], NoSnapshot}
        \/ /\ job'[t] \in Snapshot
           /\ \A k \in DOMAIN job'[t].read : job'[t].read[k] \in TrueReading(k)
    BY <1>4, <2>2, <2>3
  <2> QED
    BY <2>4, <2>5, JobsKept DEF IInv
<1>7. used' \in [Keys -> 0..MaxUse] /\ window' \in [Keys -> 0..MaxWindow]
  BY <1>1, <1>2, ElapseTypes DEF IInv
<1>8. pc[t] = "idle" /\ pc' = [pc EXCEPT ![t] = "fetched"]
      /\ UNCHANGED <<cycles, stored, memory, work, lastSeen, steady, count>>
  BY DEF Fetch
<1>9. Exclusive' /\ WorkOK' /\ CurrentOK' /\ KeysOK'
  <2>1. pc'[t] = "fetched"
    BY <1>8 DEF IInv, TypeOK
  <2>2. \A v \in Snappers \ {t} : job'[v] = job[v]
    BY <1>5
  <2> QED
    BY <1>8, <2>1, <2>2, OutsideKept DEF Busy, Doing, Phases
<1>10. TypeOK' /\ StoredOK'
  BY <1>7, <1>8 DEF IInv, TypeOK, StoredOK, Phases, cycles, memory, work
<1>11. Bounded'
  <2>1. t \notin Fetched /\ Fetched' = Fetched \cup {t} /\ UNCHANGED snaps
    BY <1>8 DEF Fetched, IInv, TypeOK, count
  <2>2. IsFiniteSet(Fetched)
    BY CyclesAssumption, FS_Subset DEF Fetched
  <2>3. Cardinality(Fetched') = Cardinality(Fetched) + 1 /\ Cardinality(Fetched) \in Nat
    BY <2>1, <2>2, FS_AddElement, FS_CardinalityType
  <2>4. snaps + Cardinality(Fetched) < MaxSnaps
    BY DEF Fetch, Fetched
  <2> QED
    BY <2>1, <2>3, <2>4, CyclesAssumption DEF Bounded, IInv
<1> QED
  BY <1>6, <1>9, <1>10, <1>11 DEF IInv

LEMMA StoreKept == ASSUME IInv, NEW t \in Snappers, Store(t) PROVE IInv'
<1> DEFINE read == job[t].read
           K == DOMAIN read
           new == [id |-> snaps + 1, read |-> read]
<1>1. /\ pc[t] = "fetched" /\ stored' = stored \cup {new} /\ snaps' = snaps + 1
      /\ UNCHANGED <<cycles, memory, work, lastSeen, steady, edits>>
  BY DEF Store
<1>2. read \in [K -> Reading] /\ K \in SUBSET Keys /\ job[t] \in Snapshot
      /\ \A k \in K : read[k] \in TrueReading(k)
  BY DEF IInv, JobsOK, Snapshot
<1>3. /\ pc' = [pc EXCEPT ![t] = pc'[t]] /\ pc'[t] \in {"stored", "idle"}
      /\ used' \in [Keys -> 0..MaxUse] /\ window' \in [Keys -> 0..MaxWindow]
      /\ \A v \in Snappers \ {t} : job'[v] = job[v]
      /\ \/ job'[t] \in {job[t], NoSnapshot}
         \/ job'[t] \in Snapshot /\ job'[t].read = read
  <2>1. CASE /\ pc' = [pc EXCEPT ![t] = "stored"]
             /\ \E at \in [K -> 0..MaxWindow] :
                  /\ Elapse(K, [k \in K |-> IF at[k] = window[k] THEN used[k] ELSE 0], at)
                  /\ job' = [job EXCEPT ![t].at = at]
    <3> PICK at \in [K -> 0..MaxWindow] :
          /\ Elapse(K, [k \in K |-> IF at[k] = window[k] THEN used[k] ELSE 0], at)
          /\ job' = [job EXCEPT ![t].at = at]
      BY <2>1
    <3>1. [k \in K |-> IF at[k] = window[k] THEN used[k] ELSE 0] \in [K -> 0..MaxUse]
      BY <1>2, CyclesAssumption DEF IInv, TypeOK
    <3>2. used' \in [Keys -> 0..MaxUse] /\ window' \in [Keys -> 0..MaxWindow]
      BY <1>2, <3>1, ElapseTypes DEF IInv
    <3>3. [job[t] EXCEPT !.at = at] \in Snapshot /\ [job[t] EXCEPT !.at = at].read = read
      BY <1>2 DEF Snapshot
    <3>4. job'[t] \in {job[t], [job[t] EXCEPT !.at = at]}
          /\ \A v \in Snappers \ {t} : job'[v] = job[v]
      OBVIOUS
    <3>5. pc'[t] = "stored"
      BY <2>1 DEF IInv, TypeOK
    <3> QED
      BY <2>1, <3>2, <3>3, <3>4, <3>5
  <2>2. CASE /\ pc' = [pc EXCEPT ![t] = "idle"]
             /\ job' = [job EXCEPT ![t] = NoSnapshot]
             /\ UNCHANGED quota
    <3>1. pc'[t] = "idle" /\ used' = used /\ window' = window
          /\ job'[t] \in {job[t], NoSnapshot} /\ \A v \in Snappers \ {t} : job'[v] = job[v]
      BY <2>2 DEF IInv, TypeOK, quota
    <3> QED
      BY <2>2, <3>1 DEF IInv, TypeOK
  <2> QED
    BY <2>1, <2>2 DEF Store
<1> HIDE DEF new, read, K
<1>4. JobsOK'
  <2>1. \/ job'[t] \in {job[t], NoSnapshot}
        \/ /\ job'[t] \in Snapshot
           /\ \A k \in DOMAIN job'[t].read : job'[t].read[k] \in TrueReading(k)
    BY <1>2, <1>3 DEF K
  <2> QED
    BY <1>3, <2>1, JobsKept DEF IInv
<1>5. t \in Fetched /\ IsFiniteSet(Fetched) /\ Fetched' = Fetched \ {t}
  <2>1. t \in Fetched /\ Fetched' = Fetched \ {t}
    BY <1>1, <1>3 DEF Fetched, IInv, TypeOK
  <2> QED
    BY <2>1, CyclesAssumption, FS_Subset DEF Fetched
<1>6. /\ Cardinality(Fetched') = Cardinality(Fetched) - 1
      /\ Cardinality(Fetched) \in Nat \ {0} /\ Cardinality(Fetched') \in Nat
  <2>1. Cardinality(Fetched) \in Nat /\ Cardinality(Fetched') = Cardinality(Fetched) - 1
    BY <1>5, FS_CardinalityType, FS_RemoveElement
  <2>2. IsFiniteSet(Fetched')
    BY <1>5, FS_Subset
  <2>3. Cardinality(Fetched') \in Nat
    BY <2>2, FS_CardinalityType
  <2> QED
    BY <2>1, <2>3
<1>7. Bounded' /\ snaps + 1 \in 1..MaxSnaps
  BY <1>1, <1>6, CyclesAssumption DEF Bounded, IInv
<1>8. StoredOK'
  <2>1. new \in [id : 1..MaxSnaps, read : UNION {[J -> Reading] : J \in SUBSET Keys}]
    BY <1>2, <1>7 DEF new
  <2> QED
    BY <1>1, <2>1 DEF IInv, StoredOK
<1>9. TypeOK'
  <2>1. \A s \in stored' : s.id \in 1..MaxSnaps /\ DOMAIN s.read \subseteq Keys
          /\ \A k \in DOMAIN s.read : s.read[k] \in Reading
    BY <1>8 DEF StoredOK
  <2> QED
    BY <1>1, <1>3, <2>1 DEF IInv, TypeOK, Phases, cycles, memory, work
<1>10. Exclusive' /\ WorkOK' /\ CurrentOK' /\ KeysOK'
  BY <1>1, <1>3, OutsideKept DEF Busy, Doing, Phases
<1> QED
  BY <1>4, <1>7, <1>8, <1>9, <1>10 DEF IInv


\* The mutex is taken: nobody works on a key.
LEMMA LockKept == ASSUME IInv, NEW t \in Snappers, Lock(t) PROVE IInv'
<1>1. /\ pc[t] = "stored" /\ holder = Nobody /\ holder' = t
      /\ todo' = DOMAIN job[t].read
      /\ UNCHANGED <<quota, cycles, stored, memory, job, cur, copy, lastSeen, steady, count>>
  BY DEF Lock
<1>2. /\ pc' \in [Snappers -> Phases] /\ pc'[t] = "reading"
      /\ \A v \in Snappers \ {t} : pc'[v] = pc[v]
  BY DEF Lock, IInv, TypeOK, Phases
<1>3. \A v \in Snappers : pc[v] \notin Busy
  BY <1>1, CyclesAssumption DEF IInv, Exclusive
<1>4. cur = NoKey /\ todo' \subseteq Keys
  BY <1>1 DEF IInv, WorkOK, JobsOK, Snapshot
<1>5. TypeOK'
  BY <1>1, <1>2, <1>4 DEF IInv, TypeOK, quota, cycles, memory
<1>6. JobsOK' /\ StoredOK'
  BY <1>1 DEF IInv, JobsOK, StoredOK, TrueReading
<1>7. Bounded'
  BY <1>1, <1>2, BoundKept DEF IInv, count
<1>8. \A v \in Snappers \ {t} : pc'[v] \notin Busy
  BY <1>2, <1>3
<1>9. Exclusive'
  BY <1>1, <1>2, <1>8 DEF Exclusive, Busy
<1>10. WorkOK' /\ CurrentOK'
  BY <1>1, <1>2, <1>4, <1>8, CyclesAssumption DEF WorkOK, CurrentOK, Busy, Doing
<1>11. \A k \in Keys : ~Half(k)
  BY <1>3 DEF Half, Busy, Doing
<1>12. KeysOK'
  BY <1>1, <1>11 DEF IInv, KeysOK, KeyOK, TrueReading, cycles, memory
<1> QED
  BY <1>5, <1>6, <1>7, <1>9, <1>10, <1>12 DEF IInv

\* What is done to stored snapshots concerns no cycle before the next restart.
LEMMA StoredKept ==
  ASSUME IInv, StoredOK',
         UNCHANGED <<quota, cycles, memory, request, work, lastSeen, steady, snaps>>
  PROVE  IInv'
<1>1. UNCHANGED <<used, window, active, closed, seen, unrecorded, lastUsed, lastReset, hasBaseline, pc, job,
                  holder, todo, cur, copy, lastSeen, steady, snaps>>
  BY DEF quota, cycles, memory, request, work
<1>2. \A s \in stored' : s.id \in 1..MaxSnaps /\ DOMAIN s.read \subseteq Keys
        /\ \A k \in DOMAIN s.read : s.read[k] \in Reading
  BY DEF StoredOK
<1>3. TypeOK'
  BY <1>1, <1>2 DEF IInv, TypeOK
<1>4. JobsOK' /\ Bounded'
  BY <1>1 DEF IInv, JobsOK, TrueReading, Bounded, Fetched
<1>5. Exclusive' /\ WorkOK' /\ CurrentOK'
  BY <1>1 DEF IInv, Exclusive, WorkOK, CurrentOK, Older, ResetDetected, Shifted, Replenished,
              Passed
<1>6. KeysOK'
  BY <1>1 DEF IInv, KeysOK, KeyOK, TrueReading, Half
<1> QED
  BY <1>3, <1>4, <1>5, <1>6 DEF IInv

LEMMA DeleteKept == ASSUME IInv, DeleteSnapshots PROVE IInv'
<1>1. stored' \subseteq stored
      /\ UNCHANGED <<quota, cycles, memory, request, work, lastSeen, steady, snaps>>
  BY DEF DeleteSnapshots
<1>2. StoredOK'
  BY <1>1 DEF IInv, StoredOK
<1> QED
  BY <1>1, <1>2, StoredKept

LEMMA AdjustKept == ASSUME IInv, AdjustSnapshot PROVE IInv'
<1> PICK s \in stored, u \in 0..MaxUse : \E k \in DOMAIN s.read :
      stored' = (stored \ {s}) \cup {[s EXCEPT !.read[k].used = u]}
  BY DEF AdjustSnapshot
<1> PICK k \in DOMAIN s.read :
      stored' = (stored \ {s}) \cup {[s EXCEPT !.read[k].used = u]}
  OBVIOUS
<1> DEFINE read == [s.read EXCEPT ![k].used = u]
<1>1. s \in [id : 1..MaxSnaps, read : UNION {[K -> Reading] : K \in SUBSET Keys}]
  BY DEF IInv, StoredOK
<1>2. read \in UNION {[K -> Reading] : K \in SUBSET Keys}
  <2>1. PICK K \in SUBSET Keys : s.read \in [K -> Reading]
    BY <1>1
  <2>2. [s.read[k] EXCEPT !.used = u] \in Reading
    BY <2>1 DEF Reading
  <2> QED
    BY <2>1, <2>2
<1>3. [s EXCEPT !.read[k].used = u] = [id |-> s.id, read |-> read]
  BY <1>1
<1> HIDE DEF read
<1>4. StoredOK'
  BY <1>1, <1>2, <1>3 DEF IInv, StoredOK
<1>5. UNCHANGED <<quota, cycles, memory, request, work, lastSeen, steady, snaps>>
  BY DEF AdjustSnapshot
<1> QED
  BY <1>4, <1>5, StoredKept

\* A restart: a key stays steady only if the new tracker remembers what the old one did.
LEMMA RestartKept == ASSUME IInv, Restart PROVE IInv'
<1>1. /\ pc' = [t \in Snappers |-> "idle"] /\ job' = [t \in Snappers |-> NoSnapshot]
      /\ holder' = Nobody /\ todo' = {} /\ cur' = NoKey /\ copy' = NoCycle
      /\ UNCHANGED <<quota, cycles, stored, lastSeen, snaps>>
  BY DEF Restart
<1>2. /\ lastUsed' \in [Keys -> (0..MaxUse) \cup {NoValue}]
      /\ lastReset' \in [Keys -> (0..MaxWindow) \cup {NoValue}]
      /\ hasBaseline' \in BOOLEAN
  <2> DEFINE L(k) == IF Latest(k) = {} THEN [used |-> NoValue, reset |-> NoValue]
                                       ELSE CHOOSE r \in Latest(k) : TRUE
             latest == [k \in Keys |-> L(k)]
  <2>1. ASSUME NEW k \in Keys
        PROVE  /\ L(k).used \in (0..MaxUse) \cup {NoValue}
               /\ L(k).reset \in (0..MaxWindow) \cup {NoValue}
    <3>1. Latest(k) \subseteq Reading
      BY DEF Latest, IInv, TypeOK
    <3>2. CASE Latest(k) = {}
      BY <3>2
    <3>3. CASE Latest(k) # {}
      <4>1. L(k) \in Latest(k)
        BY <3>3
      <4> QED
        BY <3>1, <4>1 DEF Reading
    <3> QED
      BY <3>2, <3>3
  <2>2. /\ lastUsed' = [k \in Keys |-> latest[k].used]
        /\ lastReset' = [k \in Keys |-> latest[k].reset]
        /\ hasBaseline' = (stored # {})
    BY DEF Restart, LoadBaseline
  <2>3. \A k \in Keys : latest[k] = L(k)
    OBVIOUS
  <2> HIDE DEF L, latest
  <2> QED
    BY <2>1, <2>2, <2>3
<1>3. steady' = [k \in Keys |->
       \/ lastSeen[k] = NoReading /\ active[k] = NoCycle
       \/ /\ steady[k]
          /\ lastSeen[k] # NoReading
          /\ lastUsed'[k] = lastSeen[k].used
          /\ lastReset'[k] = lastSeen[k].reset
          /\ ~\E t \in Snappers : pc[t] = "initialising" /\ cur = k]
  BY DEF Restart
<1>4. \A k \in Keys : steady'[k] =>
       \/ lastSeen[k] = NoReading /\ active[k] = NoCycle
       \/ /\ steady[k]
          /\ lastSeen[k] # NoReading
          /\ lastUsed'[k] = lastSeen[k].used
          /\ lastReset'[k] = lastSeen[k].reset
          /\ ~Half(k)
  BY <1>3, Zenon DEF Half
<1>5. steady' \in [Keys -> BOOLEAN]
  BY <1>3, Zenon
<1>6. TypeOK'
  BY <1>1, <1>2, <1>5 DEF IInv, TypeOK, Phases, quota, cycles
<1>7. JobsOK' /\ StoredOK'
  BY <1>1, EmptyJob DEF IInv, JobsOK, StoredOK
<1>8. Bounded'
  <2>1. Fetched' = {}
    BY <1>1 DEF Fetched
  <2>2. IsFiniteSet(Fetched)
    BY CyclesAssumption, FS_Subset DEF Fetched
  <2>3. Cardinality(Fetched) \in Nat /\ Cardinality(Fetched') = 0
    BY <2>1, <2>2, FS_CardinalityType, FS_EmptySet
  <2> QED
    BY <1>1, <2>3, CyclesAssumption DEF IInv, Bounded
<1>9. Exclusive' /\ WorkOK' /\ CurrentOK'
  BY <1>1, CyclesAssumption DEF Exclusive, WorkOK, CurrentOK, Busy, Doing
<1>10. KeysOK'
  <2> SUFFICES ASSUME NEW k \in Keys PROVE KeyOK(k)'
    BY DEF KeysOK
  <2>1. KeyOK(k) /\ UNCHANGED <<active, seen, unrecorded, lastSeen>>
    BY <1>1 DEF IInv, KeysOK, cycles
  <2> QED
    BY <1>4, <2>1 DEF KeyOK, TrueReading
<1> QED
  BY <1>6, <1>7, <1>8, <1>9, <1>10 DEF IInv


-----------------------------------------------------------------------------
(* The tracker at work                                                     *)

LEMMA HolderAlone ==
  ASSUME IInv, NEW t \in Snappers, pc[t] \in Busy
  PROVE  holder = t /\ \A v \in Snappers \ {t} : pc[v] \notin Busy
  BY DEF IInv, Exclusive

\* The holder goes on with the job it has.
LEMMA HolderMoves ==
  ASSUME IInv, NEW t \in Snappers, pc[t] \in Busy, NEW step \in Busy,
         pc' = [pc EXCEPT ![t] = step], UNCHANGED <<stored, job, holder, snaps>>
  PROVE  /\ pc' \in [Snappers -> Phases] /\ pc'[t] = step
         /\ \A v \in Snappers \ {t} : pc'[v] = pc[v] /\ pc'[v] \notin Busy
         /\ JobsOK' /\ StoredOK' /\ Bounded' /\ Exclusive'
<1>1. holder = t /\ \A v \in Snappers \ {t} : pc[v] \notin Busy
  BY HolderAlone
<1>2. /\ pc' \in [Snappers -> Phases] /\ pc'[t] = step
      /\ \A v \in Snappers \ {t} : pc'[v] = pc[v] /\ pc'[v] \notin Busy
  BY <1>1 DEF IInv, TypeOK, Phases, Busy, Doing
<1>3. JobsOK' /\ StoredOK'
  BY DEF IInv, JobsOK, StoredOK, TrueReading
<1>4. \A v \in Snappers : pc'[v] = "fetched" <=> pc[v] = "fetched"
  BY <1>2 DEF Busy, Doing
<1>5. Bounded'
  BY <1>4, BoundKept DEF IInv
<1>6. Exclusive'
  BY <1>1, <1>2 DEF Exclusive, Busy, Doing
<1> QED
  BY <1>2, <1>3, <1>5, <1>6

\* Nobody is between CreateCycle and UpdateCycle, and of the keys at most steady changes.
LEMMA KeysStay ==
  ASSUME KeysOK, UNCHANGED <<active, seen, unrecorded, lastUsed, lastReset, lastSeen>>,
         \A k \in Keys : steady'[k] => steady[k] /\ ~Half(k)
  PROVE  KeysOK'
  BY DEF KeysOK, KeyOK, TrueReading

LEMMA ReadKept == ASSUME IInv, NEW t \in Snappers, ReadCycle(t) PROVE IInv'
<1> PICK k \in todo : \E row \in {active[k], NoCycle} :
       LET r == job[t].read[k]
       IN
       /\ cur' = k
       /\ copy' = row
       /\ pc' = [pc EXCEPT ![t] =
            IF row = NoCycle THEN "creating"
            ELSE IF ResetDetected(k, r, job[t].at[k], row) THEN "closing"
            ELSE "updating"]
       /\ steady' = [steady EXCEPT ![k] =
            @ /\ (lastSeen[k] = NoReading \/ ~Older(r, lastSeen[k]))]
  BY DEF ReadCycle
<1>1. PICK row \in {active[k], NoCycle} :
        /\ cur' = k /\ copy' = row
        /\ pc' = [pc EXCEPT ![t] =
             IF row = NoCycle THEN "creating"
             ELSE IF ResetDetected(k, job[t].read[k], job[t].at[k], row) THEN "closing"
             ELSE "updating"]
        /\ steady' = [steady EXCEPT ![k] =
             @ /\ (lastSeen[k] = NoReading \/ ~Older(job[t].read[k], lastSeen[k]))]
  OBVIOUS
<1> DEFINE step == IF row = NoCycle THEN "creating"
                   ELSE IF ResetDetected(k, job[t].read[k], job[t].at[k], row) THEN "closing"
                   ELSE "updating"
<1>2. /\ pc[t] = "reading"
      /\ UNCHANGED <<quota, cycles, stored, memory, job, holder, todo, lastSeen, count>>
  BY DEF ReadCycle
<1>3. step \in Doing
  BY DEF Doing
<1>4. /\ pc' \in [Snappers -> Phases] /\ pc'[t] = step
      /\ \A v \in Snappers \ {t} : pc'[v] = pc[v] /\ pc'[v] \notin Busy
      /\ JobsOK' /\ StoredOK' /\ Bounded' /\ Exclusive'
  BY <1>1, <1>2, <1>3, HolderMoves DEF Busy, count
<1>5. /\ step = "creating" => row = NoCycle
      /\ step = "closing" => row # NoCycle /\ ResetDetected(k, job[t].read[k], job[t].at[k], row)
      /\ step = "updating" => row # NoCycle /\ ~Shifted(k, job[t].read[k])
      /\ step # "initialising"
  BY DEF ResetDetected
<1> HIDE DEF step
<1>6. UNCHANGED <<used, window, active, closed, seen, unrecorded, stored, lastUsed, lastReset,
                  hasBaseline, job, holder, todo, lastSeen, snaps>>
  BY <1>2 DEF quota, cycles, memory, count
<1>7. holder = t /\ todo \subseteq DOMAIN job[t].read /\ k \in Keys
  BY <1>2, HolderAlone DEF IInv, WorkOK, TypeOK, Busy, Doing
<1>8. /\ steady' \in [Keys -> BOOLEAN]
      /\ \A x \in Keys : steady'[x] => steady[x]
      /\ steady'[k] => lastSeen[k] = NoReading \/ ~Older(job[t].read[k], lastSeen[k])
  <2> DEFINE b == steady[k] /\ (lastSeen[k] = NoReading \/ ~Older(job[t].read[k], lastSeen[k]))
  <2>1. steady' = [steady EXCEPT ![k] = b] /\ steady \in [Keys -> BOOLEAN]
    BY <1>1 DEF IInv, TypeOK
  <2>2. b \in BOOLEAN /\ (b => steady[k])
        /\ (b => lastSeen[k] = NoReading \/ ~Older(job[t].read[k], lastSeen[k]))
    OBVIOUS
  <2> HIDE DEF b
  <2> QED
    BY <1>7, <2>1, <2>2
<1>9. copy' \in Cycle \cup {NoCycle}
  BY <1>1, <1>7 DEF IInv, TypeOK
<1>10. TypeOK'
  BY <1>1, <1>4, <1>6, <1>7, <1>8, <1>9 DEF IInv, TypeOK
<1>11. WorkOK'
  BY <1>1, <1>2, <1>4, <1>3, <1>6, <1>7, CyclesAssumption DEF IInv, WorkOK, Busy, Doing
<1>12. CurrentOK'
  <2>1. \A v \in Snappers : pc'[v] \in Doing => v = t
    BY <1>4 DEF Busy
  <2>2. /\ steady'[k] => lastSeen'[k] = NoReading \/ ~Older(job'[t].read[k], lastSeen'[k])
        /\ pc'[t] \in {"closing", "updating"} => copy' = active'[k] /\ copy' # NoCycle
    BY <1>1, <1>4, <1>5, <1>6, <1>8
  <2>3. pc'[t] = "closing" => ResetDetected(k, job[t].read[k], job[t].at[k], row)'
    BY <1>1, <1>4, <1>5, <1>6 DEF ResetDetected, Shifted, Replenished, Passed
  <2>4. pc'[t] = "updating" => ~Shifted(k, job[t].read[k])'
    BY <1>4, <1>5, <1>6 DEF Shifted
  <2> QED
    BY <1>1, <1>4, <1>5, <2>1, <2>2, <2>3, <2>4 DEF CurrentOK
<1>13. KeysOK'
  <2>1. \A x \in Keys : ~Half(x)
    BY <1>2, HolderAlone DEF Half, Busy, Doing
  <2> QED
    BY <1>6, <1>8, <2>1, KeysStay DEF IInv
<1> QED
  BY <1>4, <1>10, <1>11, <1>12, <1>13 DEF IInv


LEMMA CloseKept == ASSUME IInv, NEW t \in Snappers, CloseActive(t) PROVE IInv'
<1>1. /\ pc[t] = "closing" /\ pc' = [pc EXCEPT ![t] = "creating"]
      /\ closed' = [closed EXCEPT ![cur] = @ + 1]
      /\ active' = [active EXCEPT ![cur] = NoCycle]
      /\ seen' = [seen EXCEPT ![cur] = {}]
      /\ unrecorded' = [unrecorded EXCEPT ![cur] = 0]
      /\ UNCHANGED <<quota, stored, memory, job, work, lastSeen, steady, count>>
  BY DEF CloseActive
<1>2. UNCHANGED <<used, window, stored, lastUsed, lastReset, hasBaseline, job, holder, todo,
                  cur, copy, lastSeen, steady, snaps>>
  BY <1>1 DEF quota, memory, work, count
<1>3. /\ pc' \in [Snappers -> Phases] /\ pc'[t] = "creating"
      /\ \A v \in Snappers \ {t} : pc'[v] = pc[v] /\ pc'[v] \notin Busy
      /\ JobsOK' /\ StoredOK' /\ Bounded' /\ Exclusive'
  BY <1>1, <1>2, HolderMoves DEF Busy, Doing
<1>4. cur \in Keys /\ cur \in todo
  BY <1>1 DEF IInv, TypeOK, WorkOK, Doing
<1>5. /\ active' \in [Keys -> Cycle \cup {NoCycle}] /\ active'[cur] = NoCycle
      /\ seen' \in [Keys -> SUBSET (0..MaxWindow)] /\ seen'[cur] = {}
      /\ closed' \in [Keys -> Nat] /\ unrecorded' \in [Keys -> Nat]
      /\ \A k \in Keys \ {cur} :
           active'[k] = active[k] /\ seen'[k] = seen[k] /\ unrecorded'[k] = unrecorded[k]
  BY <1>1, <1>4 DEF IInv, TypeOK
<1>6. TypeOK'
  BY <1>2, <1>3, <1>5 DEF IInv, TypeOK
<1>7. WorkOK'
  BY <1>1, <1>2, <1>3, <1>4, HolderAlone DEF IInv, WorkOK, Busy, Doing
<1>8. CurrentOK'
  <2>1. \A v \in Snappers : pc'[v] \in Doing => v = t
    BY <1>3 DEF Busy
  <2> QED
    BY <1>1, <1>2, <1>3, <2>1 DEF IInv, CurrentOK, Doing, Older
<1>9. KeysOK'
  <2>1. \A k \in Keys : ~Half(k) /\ ~Half(k)'
    BY <1>1, <1>3, HolderAlone DEF Half, Busy, Doing
  <2> SUFFICES ASSUME NEW k \in Keys PROVE KeyOK(k)'
    BY DEF KeysOK
  <2>2. KeyOK(k)
    BY DEF IInv, KeysOK
  <2>3. CASE k = cur
    BY <1>2, <1>5, <2>1, <2>2, <2>3 DEF KeyOK, TrueReading
  <2>4. CASE k # cur
    BY <1>2, <1>5, <2>1, <2>2, <2>4 DEF KeyOK, TrueReading
  <2> QED
    BY <2>3, <2>4
<1> QED
  BY <1>3, <1>6, <1>7, <1>8, <1>9 DEF IInv

LEMMA CreateKept == ASSUME IInv, NEW t \in Snappers, CreateActive(t) PROVE IInv'
<1> DEFINE r == job[t].read[cur]
           new == [reset |-> r.reset, peak |-> 0, delta |-> 0, first |-> r.used]
<1>1. /\ pc[t] = "creating" /\ pc' = [pc EXCEPT ![t] = "initialising"]
      /\ active[cur] = NoCycle /\ active' = [active EXCEPT ![cur] = new]
      /\ UNCHANGED <<quota, closed, seen, unrecorded, stored, memory, job, work, lastSeen, steady,
                     count>>
  BY DEF CreateActive
<1>2. UNCHANGED <<used, window, closed, seen, unrecorded, stored, lastUsed, lastReset, hasBaseline, job,
                  holder, todo, cur, copy, lastSeen, steady, snaps>>
  BY <1>1 DEF quota, memory, work, count
<1>3. /\ pc' \in [Snappers -> Phases] /\ pc'[t] = "initialising"
      /\ \A v \in Snappers \ {t} : pc'[v] = pc[v] /\ pc'[v] \notin Busy
      /\ JobsOK' /\ StoredOK' /\ Bounded' /\ Exclusive'
  BY <1>1, <1>2, HolderMoves DEF Busy, Doing
<1>4. cur \in Keys /\ cur \in todo /\ todo \subseteq DOMAIN job[t].read
  BY <1>1 DEF IInv, TypeOK, WorkOK, Busy, Doing
<1>5. r \in Reading
  BY <1>4 DEF IInv, JobsOK, TrueReading
<1>6. new \in Cycle /\ new # NoCycle /\ new.first = r.used
  BY <1>5, CyclesAssumption, AbsenceAssumption DEF Cycle, Reading
<1> HIDE DEF new, r
<1>7. /\ active' \in [Keys -> Cycle \cup {NoCycle}] /\ active'[cur] = new
      /\ \A k \in Keys \ {cur} : active'[k] = active[k]
  BY <1>1, <1>4, <1>6 DEF IInv, TypeOK
<1>8. TypeOK'
  BY <1>2, <1>3, <1>7 DEF IInv, TypeOK
<1>9. WorkOK'
  BY <1>1, <1>2, <1>3, <1>4, HolderAlone DEF IInv, WorkOK, Busy, Doing
<1>10. CurrentOK'
  <2>1. \A v \in Snappers : pc'[v] \in Doing => v = t
    BY <1>3 DEF Busy
  <2>2. steady[cur] => lastSeen[cur] = NoReading \/ ~Older(r, lastSeen[cur])
    BY <1>1 DEF IInv, CurrentOK, Doing, r
  <2>3. seen[cur] = {}
    BY <1>1, <1>4 DEF IInv, KeysOK, KeyOK
  <2> QED
    BY <1>2, <1>3, <1>6, <1>7, <2>1, <2>2, <2>3 DEF CurrentOK, Older, r
<1>11. KeysOK'
  <2>1. \A k \in Keys : ~Half(k) /\ (Half(k)' <=> k = cur)
    BY <1>1, <1>2, <1>3, HolderAlone DEF Half, Busy, Doing
  <2> SUFFICES ASSUME NEW k \in Keys PROVE KeyOK(k)'
    BY DEF KeysOK
  <2>2. KeyOK(k)
    BY DEF IInv, KeysOK
  <2>3. CASE k = cur
    BY <1>1, <1>2, <1>6, <1>7, <2>1, <2>2, <2>3 DEF KeyOK, TrueReading
  <2>4. CASE k # cur
    BY <1>2, <1>7, <2>1, <2>2, <2>4 DEF KeyOK, TrueReading
  <2> QED
    BY <2>3, <2>4
<1> QED
  BY <1>3, <1>8, <1>9, <1>10, <1>11 DEF IInv


\* What remembering a reading does, and does not.
LEMMA RememberMoves ==
  ASSUME IInv, NEW t \in Snappers, pc[t] \in Doing, Remember(t, job[t].read[cur]),
         UNCHANGED <<stored, job, holder, snaps>>
  PROVE  LET r == job[t].read[cur]
         IN /\ r \in TrueReading(cur) /\ cur \in Keys /\ cur' = NoKey
            /\ lastUsed' \in [Keys -> (0..MaxUse) \cup {NoValue}] /\ lastUsed'[cur] = r.used
            /\ lastReset' \in [Keys -> (0..MaxWindow) \cup {NoValue}]
            /\ lastReset'[cur] = IF r.reset = NoValue THEN lastReset[cur] ELSE r.reset
            /\ lastSeen' \in [Keys -> Reading \cup {NoReading}] /\ lastSeen'[cur] = r
            /\ seen' \in [Keys -> SUBSET (0..MaxWindow)]
            /\ seen'[cur] = seen[cur] \cup {r.window}
            /\ todo' \subseteq Keys /\ copy' = NoCycle
            /\ pc' \in [Snappers -> Phases]
            /\ JobsOK' /\ StoredOK' /\ Bounded' /\ Exclusive' /\ WorkOK' /\ CurrentOK'
            /\ \A k \in Keys : ~Half(k)'
            /\ \A k \in Keys \ {cur} :
                 /\ ~Half(k) /\ lastUsed'[k] = lastUsed[k] /\ lastReset'[k] = lastReset[k]
                 /\ lastSeen'[k] = lastSeen[k] /\ seen'[k] = seen[k]
<1> DEFINE r == job[t].read[cur]
<1>1. /\ lastUsed' = [lastUsed EXCEPT ![cur] = r.used]
      /\ lastReset' = [lastReset EXCEPT ![cur] = IF r.reset = NoValue THEN @ ELSE r.reset]
      /\ lastSeen' = [lastSeen EXCEPT ![cur] = r]
      /\ seen' = [seen EXCEPT ![cur] = @ \cup {r.window}]
      /\ todo' = todo \ {cur} /\ cur' = NoKey /\ copy' = NoCycle
      /\ pc' = [pc EXCEPT ![t] = "reading"]
  BY DEF Remember
<1>2. pc[t] \in Busy /\ "reading" \in Busy
  BY DEF Busy
<1>3. /\ cur \in Keys /\ cur \in todo /\ todo \subseteq DOMAIN job[t].read /\ todo \subseteq Keys
      /\ holder = t
  BY <1>2, HolderAlone DEF IInv, TypeOK, WorkOK
<1>4. r \in TrueReading(cur) /\ r \in Reading
  BY <1>3 DEF IInv, JobsOK, TrueReading
<1>5. r.used \in 0..MaxUse /\ r.window \in 0..MaxWindow
      /\ r.reset \in (0..MaxWindow) \cup {NoValue}
  BY <1>4 DEF Reading
<1> HIDE DEF r
<1>6. /\ pc' \in [Snappers -> Phases] /\ pc'[t] = "reading"
      /\ \A v \in Snappers \ {t} : pc'[v] = pc[v] /\ pc'[v] \notin Busy
      /\ JobsOK' /\ StoredOK' /\ Bounded' /\ Exclusive'
  BY <1>1, <1>2, HolderMoves
<1>7. WorkOK'
  BY <1>1, <1>2, <1>3, <1>6, CyclesAssumption DEF WorkOK, Busy, Doing
<1>8. \A v \in Snappers : pc'[v] \notin Doing
  BY <1>6 DEF Busy, Doing
<1>9. CurrentOK' /\ \A k \in Keys : ~Half(k)'
  BY <1>8 DEF CurrentOK, Half, Doing
<1>10. \A k \in Keys \ {cur} : ~Half(k)
  BY DEF Half
<1>11. /\ lastUsed' \in [Keys -> (0..MaxUse) \cup {NoValue}] /\ lastUsed'[cur] = r.used
       /\ \A k \in Keys \ {cur} : lastUsed'[k] = lastUsed[k]
  BY <1>1, <1>3, <1>5 DEF IInv, TypeOK
<1>12. /\ lastReset' \in [Keys -> (0..MaxWindow) \cup {NoValue}]
       /\ lastReset'[cur] = IF r.reset = NoValue THEN lastReset[cur] ELSE r.reset
       /\ \A k \in Keys \ {cur} : lastReset'[k] = lastReset[k]
  BY <1>1, <1>3, <1>5 DEF IInv, TypeOK
<1>13. /\ lastSeen' \in [Keys -> Reading \cup {NoReading}] /\ lastSeen'[cur] = r
       /\ \A k \in Keys \ {cur} : lastSeen'[k] = lastSeen[k]
  BY <1>1, <1>3, <1>4 DEF IInv, TypeOK
<1>14. /\ seen' \in [Keys -> SUBSET (0..MaxWindow)] /\ seen'[cur] = seen[cur] \cup {r.window}
       /\ \A k \in Keys \ {cur} : seen'[k] = seen[k]
  BY <1>1, <1>3, <1>5 DEF IInv, TypeOK
<1>15. todo' \subseteq Keys
  BY <1>1, <1>3
<1> QED
  BY <1>1, <1>3, <1>4, <1>6, <1>7, <1>9, <1>10, <1>11, <1>12, <1>13, <1>14, <1>15 DEF r

LEMMA InitialiseKept == ASSUME IInv, NEW t \in Snappers, InitialiseActive(t) PROVE IInv'
<1> DEFINE r == job[t].read[cur]
<1>1. /\ pc[t] = "initialising" /\ Remember(t, r)
      /\ active' = [active EXCEPT ![cur].peak = r.used, ![cur].delta = 0]
      /\ steady' = [steady EXCEPT ![cur] = lastReset'[cur] = r.reset]
      /\ UNCHANGED <<quota, closed, unrecorded, stored, hasBaseline, job, holder, count>>
  BY DEF InitialiseActive
<1>2. UNCHANGED <<used, window, closed, unrecorded, stored, hasBaseline, job, holder, snaps>>
  BY <1>1 DEF quota, count
<1>3. /\ r \in TrueReading(cur) /\ cur \in Keys /\ cur' = NoKey
      /\ lastUsed' \in [Keys -> (0..MaxUse) \cup {NoValue}] /\ lastUsed'[cur] = r.used
      /\ lastReset' \in [Keys -> (0..MaxWindow) \cup {NoValue}]
      /\ lastSeen' \in [Keys -> Reading \cup {NoReading}] /\ lastSeen'[cur] = r
      /\ seen' \in [Keys -> SUBSET (0..MaxWindow)]
      /\ seen'[cur] = seen[cur] \cup {r.window}
      /\ todo' \subseteq Keys /\ copy' = NoCycle
      /\ pc' \in [Snappers -> Phases]
      /\ JobsOK' /\ StoredOK' /\ Bounded' /\ Exclusive' /\ WorkOK' /\ CurrentOK'
      /\ \A k \in Keys : ~Half(k)'
      /\ \A k \in Keys \ {cur} :
           /\ ~Half(k) /\ lastUsed'[k] = lastUsed[k] /\ lastReset'[k] = lastReset[k]
           /\ lastSeen'[k] = lastSeen[k] /\ seen'[k] = seen[k]
  BY <1>1, <1>2, RememberMoves DEF Doing
<1>4. active[cur] # NoCycle /\ seen[cur] = {} /\ active[cur].first = r.used
  BY <1>1 DEF IInv, CurrentOK, Doing
<1>5. r.used \in 0..MaxUse /\ r.window \in 0..MaxWindow
  BY <1>3 DEF TrueReading, Reading
<1> HIDE DEF r
<1>6. /\ active' \in [Keys -> Cycle \cup {NoCycle}]
      /\ active'[cur].peak = r.used /\ active'[cur].delta = 0 /\ active'[cur].first = r.used
      /\ active'[cur] # NoCycle
      /\ \A k \in Keys \ {cur} : active'[k] = active[k]
  <2> DEFINE new == [active[cur] EXCEPT !.peak = r.used, !.delta = 0]
  <2>1. active \in [Keys -> Cycle \cup {NoCycle}] /\ active[cur] \in Cycle
    BY <1>3, <1>4 DEF IInv, TypeOK
  <2>2. new \in Cycle /\ new.peak = r.used /\ new.delta = 0 /\ new.first = r.used
    BY <1>4, <1>5, <2>1 DEF Cycle
  <2>3. active' = [active EXCEPT ![cur] = new]
    BY <1>1, <1>3, <2>1
  <2> HIDE DEF new
  <2> QED
    BY <1>3, <2>1, <2>2, <2>3, AbsenceAssumption
<1>7. steady' \in [Keys -> BOOLEAN] /\ (steady'[cur] => lastReset'[cur] = r.reset)
      /\ \A k \in Keys \ {cur} : steady'[k] = steady[k]
  BY <1>1, <1>3 DEF IInv, TypeOK
<1>8. TypeOK'
  BY <1>2, <1>3, <1>6, <1>7 DEF IInv, TypeOK
<1>9. KeysOK'
  <2> SUFFICES ASSUME NEW k \in Keys PROVE KeyOK(k)'
    BY DEF KeysOK
  <2>1. KeyOK(k)
    BY DEF IInv, KeysOK
  <2>2. CASE k = cur
    <3>1. r # NoReading
      BY <1>3, AbsenceAssumption DEF TrueReading
    <3>2. unrecorded'[cur] \in Nat
      BY <1>2, <1>3 DEF IInv, TypeOK
    <3> QED
      BY <1>3, <1>4, <1>5, <1>6, <1>7, <2>2, <3>1, <3>2 DEF KeyOK, TrueReading
  <2>3. CASE k # cur
    BY <1>2, <1>3, <1>6, <1>7, <2>1, <2>3 DEF KeyOK, TrueReading
  <2> QED
    BY <2>2, <2>3
<1> QED
  BY <1>3, <1>8, <1>9 DEF IInv


\* A grown cycle covers the reading, and still accounts for its peak when the growth was
\* measured from a reading it covered.
LEMMA GrownAccounts ==
  ASSUME TypeOK, NEW k \in Keys, NEW c \in Cycle, NEW r \in Reading, NEW n \in Nat
  PROVE  /\ Grown(c, k, r) \in Cycle /\ Grown(c, k, r).first = c.first
         /\ Growth(k, r) \in Nat
         /\ lastUsed[k] # NoValue /\ lastUsed[k] <= c.peak /\ c.peak <= c.first + c.delta + n =>
              /\ r.used <= Grown(c, k, r).peak
              /\ Grown(c, k, r).peak <= Grown(c, k, r).first + Grown(c, k, r).delta
                                          + (IF hasBaseline THEN n ELSE n + Growth(k, r))
<1> DEFINE peak == IF c.peak < r.used THEN r.used ELSE c.peak
           more == Growth(k, r)
<1>1. /\ c.peak \in 0..MaxUse /\ c.delta \in Nat /\ c.first \in 0..MaxUse
      /\ r.used \in 0..MaxUse /\ MaxUse \in Nat
      /\ lastUsed[k] \in (0..MaxUse) \cup {NoValue}
  BY CyclesAssumption DEF Cycle, Reading, TypeOK
<1>2. peak \in 0..MaxUse /\ r.used <= peak /\ c.peak <= peak
      /\ peak \in {c.peak, r.used}
  BY <1>1
<1>3. more \in Nat /\ (lastUsed[k] # NoValue => r.used <= lastUsed[k] + more)
  BY <1>1 DEF Growth
<1> HIDE DEF peak, more
<1>4. CASE ~hasBaseline
  <2>1. Grown(c, k, r) = [c EXCEPT !.peak = peak]
    BY <1>4 DEF Grown, peak
  <2>2. /\ Grown(c, k, r) \in Cycle /\ Grown(c, k, r).first = c.first
        /\ Grown(c, k, r).peak = peak /\ Grown(c, k, r).delta = c.delta
    BY <1>2, <2>1 DEF Cycle
  <2>3. ASSUME lastUsed[k] # NoValue, lastUsed[k] <= c.peak, c.peak <= c.first + c.delta + n
        PROVE  peak <= c.first + c.delta + (n + more)
    BY <1>1, <1>2, <1>3, <2>3
  <2> QED
    BY <1>2, <1>3, <1>4, <2>2, <2>3 DEF more
<1>5. CASE hasBaseline /\ lastUsed[k] = NoValue
  BY <1>3, <1>5 DEF Grown, more
<1>6. CASE hasBaseline /\ lastUsed[k] # NoValue
  <2>1. Grown(c, k, r) = [c EXCEPT !.peak = peak, !.delta = @ + more]
    BY <1>6 DEF Grown, peak, more
  <2>2. c.delta + more \in Nat
    BY <1>1, <1>3, <1>6
  <2>3. /\ Grown(c, k, r) \in Cycle /\ Grown(c, k, r).first = c.first
        /\ Grown(c, k, r).peak = peak /\ Grown(c, k, r).delta = c.delta + more
    BY <1>2, <2>1, <2>2 DEF Cycle
  <2>4. ASSUME lastUsed[k] <= c.peak, c.peak <= c.first + c.delta + n
        PROVE  peak <= c.first + (c.delta + more) + n
    BY <1>1, <1>2, <1>3, <1>6, <2>4
  <2> QED
    BY <1>2, <1>3, <1>6, <2>3, <2>4 DEF more
<1> QED
  BY <1>4, <1>5, <1>6

LEMMA UpdateKept == ASSUME IInv, NEW t \in Snappers, UpdateActive(t) PROVE IInv'
<1> DEFINE r == job[t].read[cur]
           new == Grown(copy, cur, r)
           rest == IF hasBaseline THEN unrecorded[cur] ELSE unrecorded[cur] + Growth(cur, r)
<1>1. /\ pc[t] = "updating" /\ Remember(t, r)
      /\ active' = [active EXCEPT ![cur] = new]
      /\ unrecorded' = [unrecorded EXCEPT ![cur] = rest]
      /\ steady' = [steady EXCEPT ![cur] = @ /\ lastReset'[cur] = r.reset]
      /\ UNCHANGED <<quota, closed, stored, hasBaseline, job, holder, count>>
  BY DEF UpdateActive
<1>2. UNCHANGED <<used, window, closed, stored, hasBaseline, job, holder, snaps>>
  BY <1>1 DEF quota, count
<1>3. /\ r \in TrueReading(cur) /\ cur \in Keys /\ cur' = NoKey
      /\ lastUsed' \in [Keys -> (0..MaxUse) \cup {NoValue}] /\ lastUsed'[cur] = r.used
      /\ lastReset' \in [Keys -> (0..MaxWindow) \cup {NoValue}]
      /\ lastSeen' \in [Keys -> Reading \cup {NoReading}] /\ lastSeen'[cur] = r
      /\ seen' \in [Keys -> SUBSET (0..MaxWindow)]
      /\ seen'[cur] = seen[cur] \cup {r.window}
      /\ todo' \subseteq Keys /\ copy' = NoCycle
      /\ pc' \in [Snappers -> Phases]
      /\ JobsOK' /\ StoredOK' /\ Bounded' /\ Exclusive' /\ WorkOK' /\ CurrentOK'
      /\ \A k \in Keys : ~Half(k)'
      /\ \A k \in Keys \ {cur} :
           /\ ~Half(k) /\ lastUsed'[k] = lastUsed[k] /\ lastReset'[k] = lastReset[k]
           /\ lastSeen'[k] = lastSeen[k] /\ seen'[k] = seen[k]
  BY <1>1, <1>2, RememberMoves DEF Doing
<1>4. /\ copy = active[cur] /\ copy # NoCycle /\ ~Shifted(cur, r)
      /\ steady[cur] => lastSeen[cur] = NoReading \/ ~Older(r, lastSeen[cur])
      /\ ~Half(cur)
  BY <1>1, HolderAlone DEF IInv, CurrentOK, Half, Busy, Doing
<1>5. r \in Reading /\ r # NoReading
  BY <1>3, AbsenceAssumption DEF TrueReading
<1>6. copy \in Cycle
  BY <1>3, <1>4 DEF IInv, TypeOK
<1> HIDE DEF r
<1>7. /\ new \in Cycle /\ rest \in Nat
      /\ lastUsed[cur] # NoValue /\ lastUsed[cur] <= copy.peak
           /\ copy.peak <= copy.first + copy.delta + unrecorded[cur] =>
           r.used <= new.peak /\ new.peak <= new.first + new.delta + rest
  <2>1. unrecorded[cur] \in Nat
    BY <1>3 DEF IInv, TypeOK
  <2> QED
    BY <1>3, <1>5, <1>6, <2>1, GrownAccounts DEF IInv
<1> HIDE DEF new, rest
<1>8. /\ active' \in [Keys -> Cycle \cup {NoCycle}]
      /\ active'[cur] = new /\ active'[cur] # NoCycle
      /\ unrecorded' \in [Keys -> Nat] /\ unrecorded'[cur] = rest
      /\ \A k \in Keys \ {cur} : active'[k] = active[k] /\ unrecorded'[k] = unrecorded[k]
  BY <1>1, <1>3, <1>7, AbsenceAssumption DEF IInv, TypeOK
<1>9. /\ steady' \in [Keys -> BOOLEAN]
      /\ steady'[cur] => steady[cur] /\ lastReset'[cur] = r.reset
      /\ \A k \in Keys \ {cur} : steady'[k] = steady[k]
  <2> DEFINE b == steady[cur] /\ lastReset'[cur] = r.reset
  <2>1. steady' = [steady EXCEPT ![cur] = b] /\ b \in BOOLEAN
    BY <1>1, <1>3 DEF IInv, TypeOK
  <2>2. b => steady[cur] /\ lastReset'[cur] = r.reset
    OBVIOUS
  <2> HIDE DEF b
  <2> QED
    BY <1>3, <2>1, <2>2 DEF IInv, TypeOK
<1>10. TypeOK'
  BY <1>2, <1>3, <1>8, <1>9 DEF IInv, TypeOK
<1>11. KeysOK'
  <2> SUFFICES ASSUME NEW k \in Keys PROVE KeyOK(k)'
    BY DEF KeysOK
  <2>1. KeyOK(k)
    BY DEF IInv, KeysOK
  <2>2. CASE k = cur
    <3>1. ASSUME steady'[cur]
          PROVE  /\ r.used <= new.peak /\ new.peak <= new.first + new.delta + rest
                 /\ lastSeen[cur] \in TrueReading(cur)
                 /\ lastReset[cur] = lastSeen[cur].reset
                 /\ \A x \in seen[cur] : x <= lastSeen[cur].window
                 /\ cur \in Timed => seen[cur] \subseteq {lastSeen[cur].window}
      <4>1. /\ steady[cur] /\ lastSeen[cur] \in TrueReading(cur)
            /\ lastSeen[cur] # NoReading
            /\ lastSeen[cur].used <= copy.peak
            /\ copy.peak <= copy.first + copy.delta + unrecorded[cur]
            /\ lastUsed[cur] = lastSeen[cur].used
        BY <1>4, <1>9, <2>1, <2>2, <3>1 DEF KeyOK
      <4>2. lastUsed[cur] # NoValue
        BY <4>1, CyclesAssumption DEF TrueReading, Reading
      <4> QED
        BY <1>4, <1>7, <2>1, <2>2, <4>1, <4>2 DEF KeyOK
    <3>2. ASSUME steady'[cur]
          PROVE  /\ lastSeen[cur].window <= r.window
                 /\ cur \in Timed => r.window = lastSeen[cur].window
      <4>1. /\ steady[cur] /\ lastSeen[cur] \in TrueReading(cur) /\ lastSeen[cur] # NoReading
            /\ lastReset[cur] = lastSeen[cur].reset
        BY <1>4, <1>9, <2>1, <2>2, <3>1, <3>2 DEF KeyOK
      <4>2. lastSeen[cur].window \in Nat /\ r.window \in Nat
        BY <1>5, <4>1 DEF TrueReading, Reading
      <4>3. ~Older(r, lastSeen[cur])
        BY <1>4, <4>1
      <4>4. lastSeen[cur].window <= r.window
        BY <4>2, <4>3 DEF Older
      <4>5. ASSUME cur \in Timed PROVE r.window = lastSeen[cur].window
        <5>1. r.reset = r.window /\ lastReset[cur] = lastSeen[cur].window
          BY <1>3, <4>1, <4>5 DEF TrueReading
        <5> QED
          BY <1>4, <4>2, <5>1, CyclesAssumption DEF Shifted
      <4> QED
        BY <4>4, <4>5
    <3>3. seen[cur] \subseteq Nat /\ r.window \in Nat
      BY <1>3, <1>5 DEF IInv, TypeOK, Reading
    <3>4. steady'[cur] => lastSeen[cur].window \in Nat
      BY <3>1 DEF TrueReading, Reading
    <3>5. steady'[cur] => lastReset'[cur] = r.reset
      BY <1>9
    <3>6. /\ steady'[cur] => \A x \in seen'[cur] : x <= r.window
          /\ steady'[cur] /\ cur \in Timed => seen'[cur] \subseteq {r.window}
      BY <1>3, <3>1, <3>2, <3>3, <3>4
    <3>7. steady'[cur] => r.used <= new.peak /\ new.peak <= new.first + new.delta + rest
      BY <3>1
    <3> QED
      BY <1>3, <1>5, <1>8, <2>2, <3>5, <3>6, <3>7 DEF KeyOK, TrueReading
  <2>3. CASE k # cur
    BY <1>3, <1>8, <1>9, <2>1, <2>3 DEF KeyOK, TrueReading
  <2> QED
    BY <2>2, <2>3
<1> QED
  BY <1>3, <1>10, <1>11 DEF IInv

\* The holder lets go: steady may only be lost, and a half-made cycle costs it.
LEMMA ReleaseKept ==
  ASSUME IInv, NEW t \in Snappers, pc[t] \in Busy, Release(t), hasBaseline' \in BOOLEAN,
         steady' \in [Keys -> BOOLEAN],
         \A k \in Keys : steady'[k] => steady[k] /\ ~Half(k),
         UNCHANGED <<quota, cycles, stored, lastUsed, lastReset, lastSeen, count>>
  PROVE  IInv'
<1>1. /\ pc' = [pc EXCEPT ![t] = "idle"] /\ job' = [job EXCEPT ![t] = NoSnapshot]
      /\ holder' = Nobody /\ todo' = {} /\ cur' = NoKey /\ copy' = NoCycle
  BY DEF Release
<1>2. UNCHANGED <<used, window, active, closed, seen, unrecorded, stored, lastUsed, lastReset, lastSeen,
                  snaps>>
  BY DEF quota, cycles, count
<1>3. \A v \in Snappers \ {t} : pc[v] \notin Busy
  BY HolderAlone
<1>4. /\ pc' \in [Snappers -> Phases] /\ pc'[t] = "idle"
      /\ \A v \in Snappers \ {t} : pc'[v] = pc[v]
  BY <1>1 DEF IInv, TypeOK, Phases
<1>5. \A v \in Snappers : pc'[v] \notin Busy
  BY <1>3, <1>4 DEF Busy, Doing
<1>6. TypeOK'
  BY <1>1, <1>2, <1>4 DEF IInv, TypeOK
<1>7. JobsOK'
  <2>1. job'[t] \in {job[t], NoSnapshot} /\ \A v \in Snappers \ {t} : job'[v] = job[v]
    BY <1>1
  <2> QED
    BY <2>1, JobsKept DEF IInv
<1>8. StoredOK'
  BY <1>2 DEF IInv, StoredOK
<1>9. Bounded'
  <2>1. \A v \in Snappers : pc'[v] = "fetched" <=> pc[v] = "fetched"
    BY <1>4 DEF Busy, Doing
  <2> QED
    BY <1>2, <2>1, BoundKept DEF IInv
<1>10. Exclusive' /\ WorkOK' /\ CurrentOK'
  BY <1>1, <1>5, CyclesAssumption DEF Exclusive, WorkOK, CurrentOK, Busy, Doing
<1>11. KeysOK'
  BY <1>2, KeysStay DEF IInv
<1> QED
  BY <1>6, <1>7, <1>8, <1>9, <1>10, <1>11 DEF IInv

LEMMA UnlockKept == ASSUME IInv, NEW t \in Snappers, Unlock(t) PROVE IInv'
<1>1. pc[t] = "reading" /\ hasBaseline' = TRUE /\ Release(t)
      /\ UNCHANGED <<quota, cycles, stored, lastUsed, lastReset, lastSeen, steady, count>>
  BY DEF Unlock
<1>2. pc[t] \in Busy /\ \A k \in Keys : ~Half(k)
  BY <1>1, HolderAlone DEF Half, Busy, Doing
<1>3. steady' \in [Keys -> BOOLEAN]
  BY <1>1 DEF IInv, TypeOK
<1> QED
  BY <1>1, <1>2, <1>3, ReleaseKept

LEMMA FailKept == ASSUME IInv, NEW t \in Snappers, Fail(t) PROVE IInv'
<1>1. /\ pc[t] \in Doing /\ Release(t)
      /\ steady' = [steady EXCEPT ![cur] = @ /\ pc[t] # "initialising"]
      /\ UNCHANGED <<quota, cycles, stored, memory, lastSeen, count>>
  BY DEF Fail, Doing
<1>2. pc[t] \in Busy
  BY <1>1 DEF Busy
<1>3. cur \in Keys
  BY <1>1 DEF IInv, TypeOK, WorkOK
<1>4. /\ steady' \in [Keys -> BOOLEAN]
      /\ \A k \in Keys : steady'[k] => steady[k]
      /\ steady'[cur] => pc[t] # "initialising"
  <2> DEFINE b == steady[cur] /\ pc[t] # "initialising"
  <2>1. steady' = [steady EXCEPT ![cur] = b] /\ b \in BOOLEAN
    BY <1>1, <1>3 DEF IInv, TypeOK
  <2>2. b => steady[cur] /\ pc[t] # "initialising"
    OBVIOUS
  <2> HIDE DEF b
  <2> QED
    BY <1>3, <2>1, <2>2 DEF IInv, TypeOK
<1>5. \A k \in Keys : steady'[k] => ~Half(k)
  BY <1>2, <1>4, HolderAlone DEF Half, Busy, Doing
<1>6. hasBaseline' \in BOOLEAN
      /\ UNCHANGED <<quota, cycles, stored, lastUsed, lastReset, lastSeen, count>>
  BY <1>1 DEF IInv, TypeOK, memory
<1> QED
  BY <1>1, <1>2, <1>4, <1>5, <1>6, ReleaseKept


LEMMA InvKept == IInv /\ [Next]_vars => IInv'
<1> SUFFICES ASSUME IInv, [Next]_vars PROVE IInv'
  OBVIOUS
<1>1. CASE \E t \in Snappers : RequestStep(t)
  <2> PICK t \in Snappers : RequestStep(t)
    BY <1>1
  <2> QED
    BY FetchKept, StoreKept, LockKept, ReadKept, CloseKept, CreateKept, InitialiseKept,
       UpdateKept, UnlockKept, FailKept DEF RequestStep
<1>2. CASE DeleteSnapshots \/ AdjustSnapshot \/ Restart
  BY <1>2, DeleteKept, AdjustKept, RestartKept
<1>3. CASE UNCHANGED vars
  <2>1. UNCHANGED <<quota, cycles, memory, request, work, lastSeen, steady, snaps>>
        /\ stored' = stored
    BY <1>3 DEF vars, count
  <2>2. StoredOK'
    BY <2>1 DEF IInv, StoredOK
  <2> QED
    BY <2>1, <2>2, StoredKept
<1> QED
  BY <1>1, <1>2, <1>3 DEF Next

LEMMA InvHolds == Spec => []IInv
  BY InvStarts, InvKept, PTL DEF Spec

-----------------------------------------------------------------------------
(* The properties                                                          *)

\* Rows, memory and the variables of requests keep their type, and no more snapshots are
\* stored than may be (ResetCycles, TypeOK).
THEOREM TypeCorrect == Spec => []TypeOK
<1>1. IInv => TypeOK
  BY DEF IInv
<1> QED
  BY InvHolds, <1>1, PTL

\* For any keys, requests and failures: while a key is steady, no reset of a timed key is
\* missed, its cycle holds readings of one quota window (ResetCycles, OneWindowPerCycle).
THEOREM OneWindowPerCycleHolds == Spec => []OneWindowPerCycle
<1>1. IInv => OneWindowPerCycle
  <2> SUFFICES ASSUME IInv, NEW k \in Timed, steady[k], ~InTransit(k)
               PROVE  Cardinality(seen[k]) <= 1
    BY DEF OneWindowPerCycle
  <2>1. k \in Keys /\ KeyOK(k)
    BY CyclesAssumption DEF IInv, KeysOK
  <2>2. ~Half(k)
    BY DEF Half, InTransit
  <2>3. seen[k] = {} \/ \E x : seen[k] = {x}
    <3>1. CASE active[k] = NoCycle
      BY <2>1, <3>1 DEF KeyOK
    <3>2. CASE active[k] # NoCycle
      <4>1. seen[k] \subseteq {lastSeen[k].window}
        BY <2>1, <2>2, <3>2 DEF KeyOK
      <4> QED
        BY <4>1
    <3> QED
      BY <3>1, <3>2
  <2>4. Cardinality(seen[k]) \in {0, 1}
    BY <2>3, FS_EmptySet, FS_Singleton
  <2> QED
    BY <2>4
<1> QED
  BY InvHolds, <1>1, PTL

\* While a key is steady the row of its cycle accounts for the readings it was made from,
\* whatever statement failed and whatever was stored meanwhile (ResetCycles, CycleAccounts).
THEOREM CycleAccountsHolds == Spec => []CycleAccounts
<1>1. IInv => CycleAccounts
  BY DEF IInv, KeysOK, KeyOK, CycleAccounts, InTransit, Half
<1> QED
  BY InvHolds, <1>1, PTL

\* While a key is steady a cycle is closed only by a reading of another quota window, by
\* whichever of the three methods (ResetCycles, ResetsAreReal).
THEOREM ResetsAreRealHolds == Spec => ResetsAreReal
<1> DEFINE P == \A k \in Keys : closed'[k] # closed[k] /\ steady[k]
                  => job[holder].read[k].window \notin seen[k]
<1>1. IInv /\ [Next]_vars => [P]_vars
  <2> SUFFICES ASSUME IInv, Next, NEW k \in Keys, closed'[k] # closed[k], steady[k]
               PROVE  job[holder].read[k].window \notin seen[k]
    OBVIOUS
  <2>1. PICK t \in Snappers : CloseActive(t)
    <3>1. ASSUME NEW t \in Snappers, RequestStep(t), ~CloseActive(t)
          PROVE  closed' = closed
      BY <3>1 DEF RequestStep, Fetch, Store, Lock, ReadCycle, CreateActive, InitialiseActive,
                  UpdateActive, Unlock, Fail, cycles
    <3>2. CASE DeleteSnapshots \/ AdjustSnapshot \/ Restart
      BY <3>2 DEF DeleteSnapshots, AdjustSnapshot, Restart, cycles
    <3> QED
      BY <3>1, <3>2 DEF Next
  <2>2. k = cur /\ pc[t] = "closing" /\ holder = t
    BY <2>1, HolderAlone DEF CloseActive, IInv, TypeOK, Busy, Doing
  <2> DEFINE r == job[t].read[k]
  <2>3. /\ lastSeen[k] = NoReading \/ ~Older(r, lastSeen[k])
        /\ copy = active[k] /\ copy # NoCycle /\ ResetDetected(k, r, job[t].at[k], copy)
    BY <2>2 DEF IInv, CurrentOK, Doing
  <2>4. r \in TrueReading(k)
    BY <2>2 DEF IInv, JobsOK, WorkOK, Busy, Doing
  <2> HIDE DEF r
  <2>5. ~Half(k)
    BY <2>2, HolderAlone DEF Half, Busy, Doing
  <2>6. /\ lastSeen[k] \in TrueReading(k) /\ lastSeen[k] # NoReading
        /\ lastUsed[k] = lastSeen[k].used /\ lastReset[k] = lastSeen[k].reset
        /\ \A x \in seen[k] : x <= lastSeen[k].window
    BY <2>3, <2>5 DEF IInv, KeysOK, KeyOK
  <2>7. /\ r.used \in Nat /\ r.window \in Nat /\ Jump \in Nat
        /\ lastSeen[k].used \in Nat /\ lastSeen[k].window \in Nat
    BY <2>4, <2>6, CyclesAssumption DEF TrueReading, Reading
  <2>8. ~Older(r, lastSeen[k])
    BY <2>3, <2>6
  <2>9. lastSeen[k].window < r.window
    <3>1. CASE r.used < lastSeen[k].used
      BY <2>7, <2>8, <3>1 DEF Older
    <3>2. CASE Shifted(k, r)
      <4>1. r.reset = r.window /\ lastSeen[k].reset = lastSeen[k].window
            /\ r.reset # lastSeen[k].reset
        BY <2>4, <2>6, <3>2 DEF Shifted, TrueReading
      <4> QED
        BY <2>7, <2>8, <4>1 DEF Older
    <3>3. Shifted(k, r) \/ r.used < lastSeen[k].used
      BY <2>3, <2>6, <2>7 DEF ResetDetected, Replenished, Passed
    <3> QED
      BY <3>1, <3>2, <3>3
  <2>10. r.window \notin seen[k]
    BY <2>6, <2>7, <2>9
  <2> QED
    BY <2>2, <2>10 DEF r
<1> QED
  BY InvHolds, <1>1, PTL DEF Spec, ResetsAreReal

=============================================================================
