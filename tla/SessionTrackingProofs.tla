----------------------- MODULE SessionTrackingProofs -----------------------
(***************************************************************************)
(* Proofs about SessionTracking for any agents, usages, rows and timeout:  *)
(* the type invariant, OpenIsHeld, EndCoversSnapshots and EndedIsFinal.    *)
(*                                                                         *)
(* All rest on what a manager knows: the row it holds is open, no other    *)
(* manager holds it, and the values it is about to write are there.        *)
(***************************************************************************)
EXTENDS SessionTracking, FiniteSetTheorems, TLAPS

\* Only the manager of a running agent does anything or holds a session.
ManagersRun ==
  \A a \in Agents :
    /\ pc[a] # "idle" \/ session[a] # None => a \in on
    /\ pc[a] = "creating" => session[a] = None

\* The values that the statements under way write are known.
ValuesKnown ==
  \A a \in Agents :
    /\ pc[a] \in {"creating", "counting", "peaking"} => now[a] \in Usages
    /\ pc[a] = "creating" \/ session[a] # None => prev[a] \in Usages

\* The row of a session that a manager holds is open.
HeldIsOpen ==
  \A a \in Agents :
    session[a] # None => /\ rows[session[a]] \in Row
                         /\ rows[session[a]].state = "open"
                         /\ ~rows[session[a]].lost

\* No two managers hold the same session.
OneHolder ==
  \A a, b \in Agents :
    session[a] # None /\ session[a] = session[b] => a = b

\* An open row that is not lost has a holder.
OpenHasHolder ==
  \A i \in Rows :
    rows[i].state = "open" /\ ~rows[i].lost
      => \E a \in Agents : session[a] = i

\* Snapshots are counted before the idle timeout is over, and time has only
\* passed since.
CountedInTime ==
  \A a \in Agents :
    /\ session[a] # None => /\ rows[session[a]].counted <= quiet[a]
                            /\ rows[session[a]].counted <= IdleTimeout
    /\ pc[a] \in {"counting", "peaking"} => quiet[a] <= IdleTimeout

HInv == TypeOK /\ ManagersRun /\ ValuesKnown /\ HeldIsOpen /\ OneHolder

CInv == CountedInTime /\ EndCoversSnapshots

-----------------------------------------------------------------------------
\* What the end of a session does, row by row.
LEMMA CloseSessionEffect ==
  ASSUME HInv, NEW a \in Agents, NEW length \in 0..Stale,
         CloseSession(a, length)
  PROVE  /\ session[a] \in Rows
         /\ session' = [session EXCEPT ![a] = None]
         /\ rows' \in [Rows -> Row \cup {NoRow}]
         /\ \A i \in Rows : i # session[a] => rows'[i] = rows[i]
         /\ rows'[session[a]] \in Row
         /\ rows'[session[a]].counted = rows[session[a]].counted
         /\ \/ /\ rows'[session[a]].state = "ended"
               /\ rows'[session[a]].length = length
            \/ /\ rows'[session[a]].state = "open"
               /\ rows'[session[a]].lost
         /\ crashes' \in 0..MaxCrashes
<1> USE SessionAssumption DEF HInv, TypeOK
<1> DEFINE i == session[a]
<1>1. i \in Rows /\ rows[i] \in Row /\ rows[i].state = "open"
  BY DEF CloseSession, HeldIsOpen
<1>2. CASE UNCHANGED crashes /\ rows' = [rows EXCEPT
             ![i] = [rows[i] EXCEPT !.state = "ended", !.length = length]]
  <2>1. [rows[i] EXCEPT !.state = "ended", !.length = length] \in Row
    BY <1>1 DEF Row
  <2> QED
    BY <1>1, <1>2, <2>1 DEF CloseSession, Row
<1>3. CASE Failing /\ rows' = [rows EXCEPT
             ![i] = [rows[i] EXCEPT !.lost = TRUE]]
  <2>1. [rows[i] EXCEPT !.lost = TRUE] \in Row
    BY <1>1 DEF Row
  <2> QED
    BY <1>1, <1>3, <2>1 DEF CloseSession, Row, Failing
<1> QED
  BY <1>2, <1>3 DEF CloseSession

\* Writing counted of a held row keeps it open and leaves all else alone.
LEMMA CountEffect ==
  ASSUME HInv, NEW a \in Agents, session[a] # None,
         NEW n \in 0..Stale,
         rows' = [rows EXCEPT ![session[a]].counted = n]
  PROVE  /\ session[a] \in Rows
         /\ rows' \in [Rows -> Row \cup {NoRow}]
         /\ \A i \in Rows : i # session[a] => rows'[i] = rows[i]
         /\ rows'[session[a]] \in Row
         /\ rows'[session[a]].state = "open"
         /\ ~rows'[session[a]].lost
         /\ rows'[session[a]].counted = n
<1> USE SessionAssumption DEF HInv, TypeOK
<1> DEFINE i == session[a]
           r == [rows[i] EXCEPT !.counted = n]
<1>1. i \in Rows /\ rows[i] \in Row /\ rows[i].state = "open" /\ ~rows[i].lost
  BY DEF HeldIsOpen
<1>2. /\ r \in Row
      /\ r.state = "open"
      /\ ~r.lost
      /\ r.counted = n
  BY <1>1 DEF Row
<1>3. rows' = [rows EXCEPT ![i] = r]
  OBVIOUS
<1> HIDE DEF r
<1> QED
  BY <1>1, <1>2, <1>3

\* Writing peak of a held row keeps it open and leaves all else alone.
LEMMA PeakEffect ==
  ASSUME HInv, NEW a \in Agents, session[a] # None,
         NEW u \in Usages,
         rows' = [rows EXCEPT ![session[a]].peak = u]
  PROVE  /\ session[a] \in Rows
         /\ rows' \in [Rows -> Row \cup {NoRow}]
         /\ \A i \in Rows : i # session[a] => rows'[i] = rows[i]
         /\ rows'[session[a]] \in Row
         /\ rows'[session[a]].state = "open"
         /\ ~rows'[session[a]].lost
         /\ rows'[session[a]].counted = rows[session[a]].counted
<1> USE SessionAssumption DEF HInv, TypeOK
<1> DEFINE i == session[a]
           r == [rows[i] EXCEPT !.peak = u]
<1>1. i \in Rows /\ rows[i] \in Row /\ rows[i].state = "open" /\ ~rows[i].lost
  BY DEF HeldIsOpen
<1>2. /\ r \in Row
      /\ r.state = "open"
      /\ ~r.lost
      /\ r.counted = rows[i].counted
  BY <1>1 DEF Row
<1>3. rows' = [rows EXCEPT ![i] = r]
  OBVIOUS
<1> HIDE DEF r
<1> QED
  BY <1>1, <1>2, <1>3

-----------------------------------------------------------------------------
\* HInv where a step touches no row and no session.
LEMMA HeldStays ==
  ASSUME HInv, UNCHANGED <<rows, session>>
  PROVE  HeldIsOpen' /\ OneHolder'
BY DEF HInv, HeldIsOpen, OneHolder

\* What every manager knows about the row it holds is true in every step.
LEMMA HInvHolds == Spec => []HInv
<1> USE SessionAssumption
<1>1. Init => HInv
  BY DEF Init, HInv, TypeOK, ManagersRun, ValuesKnown, HeldIsOpen, OneHolder,
         Stale
<1>2. HInv /\ [Next]_vars => HInv'
  <2> SUFFICES ASSUME HInv, [Next]_vars PROVE HInv'
    OBVIOUS
  <2>0. TypeOK /\ ManagersRun /\ ValuesKnown
    BY DEF HInv
  <2>1. ASSUME NEW a \in Agents, NEW u \in Usages, Baseline(a, u)
        PROVE  HInv'
    BY <2>0, <2>1, HeldStays
    DEF Baseline, TypeOK, ManagersRun, ValuesKnown, HInv
  <2>2. ASSUME NEW a \in Agents, NEW u \in Usages, Changed(a, u)
        PROVE  HInv'
    <3>1. CASE UNCHANGED rows
      BY <2>0, <2>2, <3>1, HeldStays
      DEF Changed, Reported, NeedsSession, TypeOK, ManagersRun, ValuesKnown, HInv,
          Stale
    <3>2. CASE /\ ~NeedsSession(a)
               /\ rows' = [rows EXCEPT ![session[a]].counted = 0]
      <4>1. session[a] # None /\ 0 \in 0..Stale
        BY <3>2 DEF NeedsSession, Stale
      <4>2. /\ session[a] \in Rows
            /\ rows' \in [Rows -> Row \cup {NoRow}]
            /\ \A i \in Rows : i # session[a] => rows'[i] = rows[i]
            /\ rows'[session[a]] \in Row
            /\ rows'[session[a]].state = "open"
            /\ ~rows'[session[a]].lost
        BY <3>2, <4>1, CountEffect
      <4>3. HeldIsOpen' /\ OneHolder'
        BY <2>0, <2>2, <4>2 DEF Changed, HInv, HeldIsOpen, OneHolder, TypeOK
      <4>4. TypeOK' /\ ManagersRun' /\ ValuesKnown'
        BY <2>0, <2>2, <3>2, <4>1, <4>2
        DEF Changed, NeedsSession, TypeOK, ManagersRun, ValuesKnown
      <4> QED
        BY <4>3, <4>4 DEF HInv
    <3> QED
      BY <2>2, <3>1, <3>2 DEF Changed
  <2>3. ASSUME NEW a \in Agents, GoesIdle(a) PROVE HInv'
    BY <2>0, <2>3, HeldStays
    DEF GoesIdle, TypeOK, ManagersRun, ValuesKnown, HInv
  <2>4. ASSUME NEW a \in Agents, StaysActive(a) PROVE HInv'
    BY <2>0, <2>4, HeldStays
    DEF StaysActive, TypeOK, ManagersRun, ValuesKnown, HInv
  <2>5. ASSUME NEW a \in Agents, Create(a) PROVE HInv'
    <3>1. /\ pc[a] = "creating" /\ session[a] = None /\ a \in on
          /\ now[a] \in Usages /\ prev[a] \in Usages
      BY <2>0, <2>5 DEF Create, ManagersRun, ValuesKnown
    <3>2. CASE UNCHANGED rows
      BY <2>0, <2>5, <3>1, <3>2, HeldStays
      DEF Create, Failing, TypeOK, ManagersRun, ValuesKnown, HInv
    <3>3. ASSUME NEW i \in Rows,
                 rows[i].state = "absent",
                 session' = [session EXCEPT ![a] = i],
                 rows' = [rows EXCEPT ![i] =
                   [state |-> "open", peak |-> prev[a], counted |-> 0,
                    length |-> 0, lost |-> FALSE]],
                 quiet' = [quiet EXCEPT ![a] = 0],
                 pc' = [pc EXCEPT ![a] = "counting"],
                 UNCHANGED crashes
          PROVE  HInv'
      <4> DEFINE r == [state |-> "open", peak |-> prev[a], counted |-> 0,
                       length |-> 0, lost |-> FALSE]
      <4>1. /\ r \in Row /\ r.state = "open" /\ ~r.lost
            /\ 0 \in 0..Stale
        BY <3>1 DEF Row, Stale
      <4>2. rows' = [rows EXCEPT ![i] = r]
        BY <3>3
      <4> HIDE DEF r
      <4>3. /\ rows' \in [Rows -> Row \cup {NoRow}]
            /\ rows'[i] = r
            /\ \A j \in Rows : j # i => rows'[j] = rows[j]
        BY <2>0, <4>1, <4>2 DEF TypeOK
      <4>4. \A b \in Agents : session[b] # i
        BY <3>3 DEF HInv, HeldIsOpen
      <4>5. HeldIsOpen' /\ OneHolder'
        <5>1. /\ session'[a] = i
              /\ \A b \in Agents : b # a => session'[b] = session[b]
          BY <2>0, <3>3 DEF TypeOK
        <5>2. \A b \in Agents :
                b # a /\ session[b] # None
                  => rows'[session[b]] = rows[session[b]]
          BY <2>0, <4>3, <4>4 DEF TypeOK
        <5>3. HeldIsOpen'
          BY <4>1, <4>3, <5>1, <5>2 DEF HInv, HeldIsOpen
        <5>4. OneHolder'
          BY <4>4, <5>1 DEF HInv, OneHolder
        <5> QED
          BY <5>3, <5>4
      <4>6. TypeOK' /\ ManagersRun' /\ ValuesKnown'
        BY <2>0, <2>5, <3>1, <3>3, <4>1, <4>3
        DEF Create, TypeOK, ManagersRun, ValuesKnown
      <4> QED
        BY <4>5, <4>6 DEF HInv
    <3> QED
      BY <2>5, <3>2, <3>3 DEF Create
  <2>6. ASSUME NEW a \in Agents, CountSnapshot(a) \/ UpdatePeak(a)
        PROVE  HInv'
    <3>1. session[a] # None /\ a \in on /\ now[a] \in Usages
          /\ quiet[a] \in 0..Stale /\ UNCHANGED session
      BY <2>0, <2>6
      DEF CountSnapshot, UpdatePeak, ManagersRun, ValuesKnown, TypeOK
    <3>2. /\ session[a] \in Rows
          /\ rows' \in [Rows -> Row \cup {NoRow}]
          /\ \A i \in Rows : i # session[a] => rows'[i] = rows[i]
          /\ rows'[session[a]] \in Row
          /\ rows'[session[a]].state = "open"
          /\ ~rows'[session[a]].lost
      <4>1. CASE rows' = [rows EXCEPT ![session[a]].counted = quiet[a]]
        BY <3>1, <4>1, CountEffect
      <4>2. CASE rows' = [rows EXCEPT ![session[a]].peak = now[a]]
        BY <3>1, <4>2, PeakEffect
      <4>3. CASE UNCHANGED rows
        BY <2>0, <3>1, <4>3 DEF HInv, HeldIsOpen, TypeOK
      <4> QED
        BY <2>6, <4>1, <4>2, <4>3 DEF CountSnapshot, UpdatePeak
    <3>3. HeldIsOpen' /\ OneHolder'
      BY <2>0, <3>1, <3>2 DEF HInv, HeldIsOpen, OneHolder, TypeOK
    <3>4. CASE CountSnapshot(a)
      BY <2>0, <3>1, <3>2, <3>3, <3>4
      DEF CountSnapshot, Failing, TypeOK, ManagersRun, ValuesKnown, HInv
    <3>5. CASE UpdatePeak(a)
      BY <2>0, <3>1, <3>2, <3>3, <3>5
      DEF UpdatePeak, Failing, TypeOK, ManagersRun, ValuesKnown, HInv
    <3> QED
      BY <2>6, <3>4, <3>5
  <2>7. ASSUME NEW a \in Agents, NEW length \in 0..Stale,
               CloseSession(a, length), pc' = [pc EXCEPT ![a] = "idle"],
               \/ UNCHANGED <<on, silent>>
               \/ on' = on \ {a} /\ silent' = silent \ {a},
               UNCHANGED <<prev, now, quiet>>
        PROVE  HInv'
    <3>1. /\ session[a] \in Rows
          /\ session' = [session EXCEPT ![a] = None]
          /\ rows' \in [Rows -> Row \cup {NoRow}]
          /\ \A i \in Rows : i # session[a] => rows'[i] = rows[i]
          /\ crashes' \in 0..MaxCrashes
      BY <2>7, CloseSessionEffect
    <3>2. \A b \in Agents : b # a => /\ session'[b] = session[b]
                                      /\ session[b] # session[a]
      BY <2>0, <3>1 DEF HInv, OneHolder, TypeOK
    <3>3. session'[a] = None
      BY <2>0, <3>1 DEF TypeOK
    <3>4. HeldIsOpen'
      <4> SUFFICES ASSUME NEW b \in Agents, b # a, session[b] # None
                   PROVE  rows'[session[b]] = rows[session[b]]
        BY <3>2, <3>3 DEF HInv, HeldIsOpen
      <4> QED
        BY <2>0, <3>1, <3>2 DEF TypeOK
    <3>5. OneHolder'
      BY <3>2, <3>3 DEF HInv, OneHolder
    <3>6. TypeOK' /\ ManagersRun' /\ ValuesKnown'
      BY <2>0, <2>7, <3>1 DEF TypeOK, ManagersRun, ValuesKnown
    <3> QED
      BY <3>4, <3>5, <3>6 DEF HInv
  <2>8. ASSUME NEW a \in Agents, EndIdle(a) PROVE HInv'
    <3>1. IdleTimeout \in 0..Stale
      BY DEF Stale
    <3> QED
      BY <2>7, <2>8, <3>1 DEF EndIdle
  <2>9. ASSUME NEW a \in Agents, Start(a) PROVE HInv'
    BY <2>0, <2>9, HeldStays
    DEF Start, TypeOK, ManagersRun, ValuesKnown, HInv, Stale
  <2>10. ASSUME NEW a \in Agents, Stop(a) PROVE HInv'
    <3>1. /\ pc[a] = "idle" /\ pc' = [pc EXCEPT ![a] = "idle"]
          /\ on' = on \ {a} /\ silent' = silent \ {a} /\ quiet[a] \in 0..Stale
          /\ UNCHANGED <<prev, now, quiet>>
      BY <2>0, <2>10 DEF Stop, TypeOK
    <3>2. CASE CloseSession(a, quiet[a])
      BY <2>7, <3>1, <3>2
    <3>3. CASE session[a] = None /\ UNCHANGED <<rows, session, crashes>>
      BY <2>0, <2>10, <3>3, HeldStays
      DEF Stop, TypeOK, ManagersRun, ValuesKnown, HInv
    <3> QED
      BY <2>10, <3>2, <3>3 DEF Stop
  <2>11. ASSUME NEW a \in Agents, Tick(a) PROVE HInv'
    <3>1. quiet' \in [Agents -> 0..Stale]
      BY <2>0, <2>11 DEF Tick, TypeOK, Stale
    <3> QED
      BY <2>0, <2>11, <3>1, HeldStays
      DEF Tick, TypeOK, ManagersRun, ValuesKnown, HInv
  <2>14. ASSUME NEW a \in Agents, FallSilent(a) \/ Recover(a) PROVE HInv'
    BY <2>0, <2>14, HeldStays
    DEF FallSilent, Recover, manager, TypeOK, ManagersRun, ValuesKnown, HInv
  <2>12. CASE Crash
    <3>1. rows' \in [Rows -> Row \cup {NoRow}]
      <4> SUFFICES ASSUME NEW a \in Agents, session[a] \in Rows
                   PROVE  [rows[session[a]] EXCEPT !.lost = TRUE] \in Row
        BY <2>0, <2>12 DEF Crash, TypeOK
      <4>1. rows[session[a]] \in Row
        BY DEF HInv, HeldIsOpen
      <4> QED
        BY <4>1 DEF Row
    <3> QED
      BY <2>0, <2>12, <3>1
      DEF Crash, Failing, TypeOK, ManagersRun, ValuesKnown, HInv, HeldIsOpen,
          OneHolder
  <2>13. CASE UNCHANGED vars
    BY <2>0, <2>13, HeldStays
    DEF vars, manager, TypeOK, ManagersRun, ValuesKnown, HInv
  <2> QED
    BY <2>1, <2>2, <2>3, <2>4, <2>5, <2>6, <2>8, <2>9, <2>10, <2>11, <2>12,
       <2>13, <2>14
    DEF Next, ReportSame, Statement
<1> QED
  BY <1>1, <1>2, PTL DEF Spec

\* Every variable keeps its type, rows of the table included.
THEOREM TypeCorrect == Spec => []TypeOK
<1>1. HInv => TypeOK
  BY DEF HInv
<1> QED
  BY <1>1, HInvHolds, PTL

-----------------------------------------------------------------------------
\* What most steps do to rows and sessions: nothing.
RowsStay == UNCHANGED <<rows, session>>

\* A session that is open and not lost has one running manager.
THEOREM OpenIsHeldHolds == Spec => []OpenIsHeld
<1> USE SessionAssumption
<1>1. Init => OpenHasHolder
  BY DEF Init, OpenHasHolder, NoRow
<1>2. HInv /\ OpenHasHolder /\ [Next]_vars => OpenHasHolder'
  <2> SUFFICES ASSUME HInv, OpenHasHolder, [Next]_vars PROVE OpenHasHolder'
    OBVIOUS
  <2> USE DEF OpenHasHolder
  <2>1. CASE RowsStay
    BY <2>1 DEF RowsStay
  <2>2. ASSUME NEW a \in Agents, NEW length \in 0..Stale,
               CloseSession(a, length)
        PROVE  OpenHasHolder'
    <3>1. /\ session[a] \in Rows
          /\ \A i \in Rows : i # session[a] => rows'[i] = rows[i]
          /\ rows'[session[a]].state = "ended" \/ rows'[session[a]].lost
          /\ rows'[session[a]].state = "ended"
               => rows'[session[a]].state # "open"
          /\ \A b \in Agents : b # a => session'[b] = session[b]
      BY <2>2, CloseSessionEffect DEF HInv, TypeOK
    <3> QED
      BY <3>1
  <2>3. ASSUME NEW a \in Agents, UNCHANGED session,
               session[a] \in Rows, session[a] # None,
               \A i \in Rows : i # session[a] => rows'[i] = rows[i]
        PROVE  OpenHasHolder'
    BY <2>3
  <2>4. ASSUME NEW a \in Agents, NEW u \in Usages, Changed(a, u)
        PROVE  OpenHasHolder'
    BY <2>1, <2>3, <2>4
    DEF Changed, NeedsSession, RowsStay, HInv, TypeOK
  <2>5. ASSUME NEW a \in Agents, Create(a) PROVE OpenHasHolder'
    <3>1. CASE UNCHANGED <<rows, session>>
      BY <2>1, <3>1 DEF RowsStay
    <3>2. ASSUME NEW i \in Rows,
                 session' = [session EXCEPT ![a] = i],
                 \A j \in Rows : j # i => rows'[j] = rows[j]
          PROVE  OpenHasHolder'
      <4>1. session[a] = None /\ None \notin Rows
        BY <2>5 DEF Create, HInv, ManagersRun
      <4> QED
        BY <3>2, <4>1 DEF HInv, TypeOK
    <3> QED
      BY <2>5, <3>1, <3>2 DEF Create, HInv, TypeOK
  <2>6. ASSUME NEW a \in Agents, CountSnapshot(a) \/ UpdatePeak(a)
        PROVE  OpenHasHolder'
    BY <2>1, <2>3, <2>6
    DEF CountSnapshot, UpdatePeak, RowsStay, HInv, TypeOK
  <2>7. ASSUME NEW a \in Agents, EndIdle(a) \/ Stop(a)
        PROVE  OpenHasHolder'
    <3>1. IdleTimeout \in 0..Stale /\ quiet[a] \in 0..Stale
      BY DEF HInv, TypeOK, Stale
    <3> QED
      BY <2>1, <2>2, <2>7, <3>1 DEF EndIdle, Stop, RowsStay
  <2>8. CASE Crash
    <3>1. ASSUME NEW i \in Rows, rows'[i].state = "open", ~rows'[i].lost
          PROVE  FALSE
      <4>1. CASE \E a \in Agents : session[a] = i
        <5>1. rows[i] \in Row /\ rows'[i] = [rows[i] EXCEPT !.lost = TRUE]
          BY <2>8, <4>1 DEF Crash, HInv, HeldIsOpen
        <5> QED
          BY <3>1, <5>1 DEF Row
      <4>2. CASE ~\E a \in Agents : session[a] = i
        <5>1. rows'[i] = rows[i]
          BY <2>8, <4>2 DEF Crash
        <5> QED
          BY <3>1, <4>2, <5>1
      <4> QED
        BY <4>1, <4>2
    <3> QED
      BY <3>1
  <2>9. ASSUME NEW a \in Agents, NEW u \in Usages, Baseline(a, u)
        PROVE  OpenHasHolder'
    BY <2>1, <2>9 DEF Baseline, RowsStay
  <2>10. ASSUME NEW a \in Agents,
                \/ ReportSame(a) \/ Start(a) \/ Tick(a)
                \/ FallSilent(a) \/ Recover(a)
         PROVE  OpenHasHolder'
    BY <2>1, <2>10
    DEF ReportSame, GoesIdle, StaysActive, Start, Tick, FallSilent, Recover,
        manager, RowsStay
  <2>11. CASE UNCHANGED vars
    BY <2>1, <2>11 DEF vars, manager, RowsStay
  <2> QED
    BY <2>4, <2>5, <2>6, <2>7, <2>8, <2>9, <2>10, <2>11 DEF Next, Statement
<1>3. HInv /\ OpenHasHolder => OpenIsHeld
  <2> SUFFICES ASSUME HInv, OpenHasHolder, NEW i \in Rows,
                      rows[i].state = "open", ~rows[i].lost
               PROVE  Cardinality({a \in on : session[a] = i}) = 1
    BY DEF OpenIsHeld
  <2>1. PICK h \in Agents : session[h] = i
    BY DEF OpenHasHolder
  <2>2. {a \in on : session[a] = i} = {h}
    BY <2>1 DEF HInv, TypeOK, ManagersRun, OneHolder
  <2> QED
    BY <2>2, FS_Singleton
<1> QED
  BY <1>1, <1>2, <1>3, HInvHolds, PTL DEF Spec

-----------------------------------------------------------------------------
\* ended_at covers every snapshot that the session has counted.
THEOREM EndCoversSnapshotsHolds == Spec => []EndCoversSnapshots
<1> USE SessionAssumption
<1>1. Init => CInv
  BY DEF Init, CInv, CountedInTime, EndCoversSnapshots, NoRow
<1>2. HInv /\ CInv /\ [Next]_vars => CInv'
  <2> SUFFICES ASSUME HInv, CInv, [Next]_vars PROVE CInv'
    OBVIOUS
  <2>0. TypeOK /\ ManagersRun /\ HeldIsOpen /\ OneHolder
    BY DEF HInv
  <2> USE DEF CInv, CountedInTime, EndCoversSnapshots
  <2>1. ASSUME NEW a \in Agents, NEW length \in 0..Stale,
               CloseSession(a, length),
               rows[session[a]].counted <= length,
               pc' = [pc EXCEPT ![a] = "idle"], UNCHANGED quiet
        PROVE  CInv'
    <3>1. /\ session[a] \in Rows
          /\ session' = [session EXCEPT ![a] = None]
          /\ \A i \in Rows : i # session[a] => rows'[i] = rows[i]
          /\ rows'[session[a]].counted = rows[session[a]].counted
          /\ \/ rows'[session[a]].length = length
             \/ rows'[session[a]].state = "open"
      BY <2>1, CloseSessionEffect
    <3>2. EndCoversSnapshots'
      BY <2>1, <3>1
    <3>3. \A b \in Agents : b # a => /\ session'[b] = session[b]
                                      /\ session[b] # session[a]
                                      /\ pc'[b] = pc[b]
      BY <2>0, <2>1, <3>1 DEF OneHolder, TypeOK
    <3>4. session'[a] = None /\ pc'[a] = "idle"
      BY <2>0, <2>1, <3>1 DEF TypeOK
    <3>5. CountedInTime'
      <4> SUFFICES ASSUME NEW b \in Agents, b # a
                   PROVE  /\ session'[b] # None =>
                               /\ rows'[session'[b]].counted <= quiet'[b]
                               /\ rows'[session'[b]].counted <= IdleTimeout
                          /\ pc'[b] \in {"counting", "peaking"}
                               => quiet'[b] <= IdleTimeout
        BY <3>4
      <4>1. session[b] # None => rows'[session[b]] = rows[session[b]]
        <5>1. session[b] # None => session[b] \in Rows
          BY <2>0 DEF TypeOK
        <5> QED
          BY <3>1, <3>3, <5>1
      <4> QED
        BY <2>1, <3>3, <4>1
    <3> QED
      BY <3>2, <3>5
  <2>2. ASSUME NEW a \in Agents, EndIdle(a) PROVE CInv'
    <3>1. session[a] # None /\ IdleTimeout \in 0..Stale
      BY <2>2 DEF EndIdle, CloseSession, Stale
    <3> QED
      BY <2>1, <2>2, <3>1 DEF EndIdle
  <2>3. ASSUME NEW a \in Agents, Stop(a) PROVE CInv'
    <3>1. /\ pc[a] = "idle" /\ pc' = [pc EXCEPT ![a] = "idle"]
          /\ quiet[a] \in 0..Stale /\ UNCHANGED quiet
      BY <2>0, <2>3 DEF Stop, TypeOK
    <3>2. CASE CloseSession(a, quiet[a])
      <4>1. session[a] # None
        BY <3>2 DEF CloseSession
      <4> QED
        BY <2>1, <3>1, <3>2, <4>1
    <3>3. CASE UNCHANGED <<rows, session, pc, quiet>>
      BY <3>3
    <3> QED
      BY <2>3, <3>2, <3>3 DEF Stop
  <2>4. ASSUME NEW a \in Agents, NEW u \in Usages, Changed(a, u)
        PROVE  CInv'
    <3>1. CASE /\ pc' = [pc EXCEPT ![a] = "creating"]
               /\ UNCHANGED <<rows, session, quiet>>
      BY <2>0, <3>1 DEF TypeOK
    <3>2. CASE /\ ~NeedsSession(a)
               /\ rows' = [rows EXCEPT ![session[a]].counted = 0]
      <4>1. session[a] # None /\ 0 \in 0..Stale
        BY <3>2 DEF NeedsSession, Stale
      <4>2. /\ session[a] \in Rows
            /\ \A i \in Rows : i # session[a] => rows'[i] = rows[i]
            /\ rows'[session[a]].state = "open"
            /\ rows'[session[a]].counted = 0
        BY <3>2, <4>1, CountEffect
      <4>3. EndCoversSnapshots'
        BY <4>2
      <4>4. CountedInTime'
        BY <2>0, <2>4, <3>2, <4>1, <4>2
        DEF Changed, NeedsSession, TypeOK, OneHolder
      <4> QED
        BY <4>3, <4>4
    <3> QED
      BY <2>4, <3>1, <3>2 DEF Changed
  <2>5. ASSUME NEW a \in Agents, Create(a) PROVE CInv'
    <3>1. pc[a] = "creating" /\ session[a] = None
      BY <2>0, <2>5 DEF Create, ManagersRun
    <3>2. CASE UNCHANGED <<rows, session>>
      BY <2>0, <2>5, <3>1, <3>2 DEF Create, TypeOK
    <3>3. ASSUME NEW i \in Rows,
                 rows[i].state = "absent",
                 session' = [session EXCEPT ![a] = i],
                 rows' = [rows EXCEPT ![i] =
                   [state |-> "open", peak |-> prev[a], counted |-> 0,
                    length |-> 0, lost |-> FALSE]],
                 quiet' = [quiet EXCEPT ![a] = 0],
                 pc' = [pc EXCEPT ![a] = "counting"]
          PROVE  CInv'
      <4>1. /\ rows'[i].state = "open" /\ rows'[i].counted = 0
            /\ \A j \in Rows : j # i => rows'[j] = rows[j]
        BY <2>0, <3>3 DEF TypeOK
      <4>2. \A b \in Agents : session[b] # i
        BY <2>0, <3>3 DEF HeldIsOpen
      <4>3. EndCoversSnapshots'
        BY <4>1
      <4>4. CountedInTime'
        BY <2>0, <3>3, <4>1, <4>2 DEF TypeOK
      <4> QED
        BY <4>3, <4>4
    <3> QED
      BY <2>5, <3>2, <3>3 DEF Create
  <2>6. ASSUME NEW a \in Agents, CountSnapshot(a) PROVE CInv'
    <3>1. /\ session[a] # None /\ quiet[a] \in 0..Stale
          /\ quiet[a] <= IdleTimeout /\ now[a] \in Usages
          /\ UNCHANGED <<session, quiet>>
      BY <2>0, <2>6 DEF CountSnapshot, TypeOK, HInv, ValuesKnown
    <3>2. CASE rows' = [rows EXCEPT ![session[a]].counted = quiet[a]]
      <4>1. /\ session[a] \in Rows
            /\ \A i \in Rows : i # session[a] => rows'[i] = rows[i]
            /\ rows'[session[a]].state = "open"
            /\ rows'[session[a]].counted = quiet[a]
        BY <3>1, <3>2, CountEffect
      <4>2. EndCoversSnapshots'
        BY <4>1
      <4>3. CountedInTime'
        BY <2>0, <2>6, <3>1, <4>1 DEF CountSnapshot, TypeOK, OneHolder
      <4> QED
        BY <4>2, <4>3
    <3>3. CASE UNCHANGED rows
      BY <2>0, <2>6, <3>1, <3>3 DEF CountSnapshot, TypeOK
    <3> QED
      BY <2>6, <3>2, <3>3 DEF CountSnapshot
  <2>7. ASSUME NEW a \in Agents, UpdatePeak(a) PROVE CInv'
    <3>1. /\ session[a] # None /\ now[a] \in Usages
          /\ UNCHANGED <<session, quiet>>
      BY <2>0, <2>7 DEF UpdatePeak, TypeOK, HInv, ValuesKnown
    <3>2. CASE rows' = [rows EXCEPT ![session[a]].peak = now[a]]
      <4>1. /\ session[a] \in Rows
            /\ \A i \in Rows : i # session[a] => rows'[i] = rows[i]
            /\ rows'[session[a]].state = "open"
            /\ rows'[session[a]].counted = rows[session[a]].counted
        BY <3>1, <3>2, PeakEffect
      <4>2. EndCoversSnapshots'
        BY <4>1
      <4>3. CountedInTime'
        BY <2>0, <2>7, <3>1, <4>1 DEF UpdatePeak, TypeOK, OneHolder
      <4> QED
        BY <4>2, <4>3
    <3>3. CASE UNCHANGED rows
      BY <2>0, <2>7, <3>1, <3>3 DEF UpdatePeak, TypeOK
    <3> QED
      BY <2>7, <3>2, <3>3 DEF UpdatePeak
  <2>8. ASSUME NEW a \in Agents, StaysActive(a) PROVE CInv'
    BY <2>0, <2>8 DEF StaysActive, IsIdle, TypeOK
  <2>9. ASSUME NEW a \in Agents, GoesIdle(a) PROVE CInv'
    BY <2>0, <2>9 DEF GoesIdle, TypeOK
  <2>10. ASSUME NEW a \in Agents, Start(a) PROVE CInv'
    BY <2>0, <2>10 DEF Start, TypeOK, ManagersRun
  <2>11. ASSUME NEW a \in Agents, Tick(a) PROVE CInv'
    <3>1. /\ pc[a] = "idle" /\ quiet'[a] >= quiet[a] /\ quiet'[a] \in Nat
          /\ \A b \in Agents : b # a => quiet'[b] = quiet[b]
          /\ UNCHANGED <<rows, session, pc>>
      BY <2>0, <2>11 DEF Tick, TypeOK, Stale
    <3>2. \A b \in Agents :
            session[b] # None => rows[session[b]].counted \in 0..Stale
      BY <2>0 DEF HeldIsOpen, Row
    <3> QED
      BY <2>0, <3>1, <3>2 DEF TypeOK, Stale
  <2>12. CASE Crash
    <3>1. /\ session' = [a \in Agents |-> None]
          /\ pc' = [a \in Agents |-> "idle"]
          /\ \A i \in Rows : rows'[i].state = "ended" => rows'[i] = rows[i]
      <4>1. ASSUME NEW i \in Rows, NEW a \in Agents, session[a] = i
            PROVE  [rows[i] EXCEPT !.lost = TRUE].state = "open"
        BY <2>0, <4>1 DEF HeldIsOpen, Row
      <4> QED
        BY <2>12, <4>1 DEF Crash
    <3> QED
      BY <3>1
  <2>13. ASSUME NEW a \in Agents, NEW u \in Usages, Baseline(a, u)
         PROVE  CInv'
    BY <2>13 DEF Baseline
  <2>15. ASSUME NEW a \in Agents, FallSilent(a) \/ Recover(a) PROVE CInv'
    BY <2>15 DEF FallSilent, Recover, manager
  <2>14. CASE UNCHANGED vars
    BY <2>14 DEF vars, manager
  <2> QED
    BY <2>2, <2>3, <2>4, <2>5, <2>6, <2>7, <2>8, <2>9, <2>10, <2>11, <2>12,
       <2>13, <2>14, <2>15
    DEF Next, ReportSame, Statement
<1>3. CInv => EndCoversSnapshots
  BY DEF CInv
<1> QED
  BY <1>1, <1>2, <1>3, HInvHolds, PTL DEF Spec

-----------------------------------------------------------------------------
\* An ended row is never written again.
THEOREM EndedIsFinalHolds == Spec => EndedIsFinal
<1> DEFINE Final == \A i \in Rows :
                      rows[i].state = "ended" => rows'[i] = rows[i]
<1>1. HInv /\ [Next]_vars => [Final]_vars
  <2> SUFFICES ASSUME HInv, [Next]_vars, NEW i \in Rows,
                      rows[i].state = "ended"
               PROVE  rows'[i] = rows[i]
    BY DEF vars
  <2>1. \A a \in Agents : session[a] # i
    BY SessionAssumption DEF HInv, HeldIsOpen
  <2>2. rows \in [Rows -> Row \cup {NoRow}]
    BY DEF HInv, TypeOK
  <2> QED
    BY <2>1, <2>2
    DEF Next, Baseline, Changed, ReportSame, GoesIdle, StaysActive, Statement,
        Create, CountSnapshot, UpdatePeak, EndIdle, Start, Stop, CloseSession,
        Tick, FallSilent, Recover, Crash, vars, manager
<1> QED
  BY <1>1, HInvHolds, PTL DEF Spec, EndedIsFinal

=============================================================================
