------------------------ MODULE AgentLifecycleProofs ------------------------
(***************************************************************************)
(* Proofs about AgentLifecycle for every set of agents and requests: the   *)
(* type invariant and the three safety properties the run checks.          *)
(*                                                                         *)
(* None of these is inductive.  A cancel function in the hands of a Stop   *)
(* must belong to a live agent that the manager has forgotten, two Stops   *)
(* never hold the same one, a thread that is not between the two halves of *)
(* Stop holds none, and a PUT in flight carries the stored value.          *)
(***************************************************************************)
EXTENDS AgentLifecycle, TLAPS

\* A cancel function taken by a Stop: its agent is live and deregistered.
HeldIsLive ==
  \A t \in Threads :
    target[t] # NoAgent =>
      /\ target[t] # current
      /\ Active(target[t])
      /\ ~ctxDone[target[t]]

\* No two threads hold the cancel function of the same agent.
HeldOnce ==
  \A t, u \in Threads :
    t # u /\ target[t] = target[u] => target[t] = NoAgent

\* Only a thread between the halves of Stop holds a cancel function.
HeldInStop ==
  /\ \A h \in Handlers : pc[h] # "cancelling" => target[h] = NoAgent
  /\ server \in {"booting", "serving", "draining", "drainingAgain"}
       => target[Main] = NoAgent

\* Without an overlap there is one agent at most.
NoOverlap ==
  ~overlapped =>
    \A a, b \in Agents : run[a] # "none" /\ run[b] # "none" => a = b

LInv == /\ RunningIsLive
        /\ HeldIsLive
        /\ HeldOnce

CInv == /\ HeldInStop
        /\ NoOverlap
        /\ SpacedTogglesKeepControl

\* A process that boots has neither agents nor requests.
BootIsFresh ==
  server = "booting" =>
    /\ \A h \in Handlers : pc[h] = "idle"
    /\ \A a \in Agents : run[a] = "none"

\* PUTs that do not race are in flight one at a time, each carries the stored
\* value, and the one that is stopping the agent has left none registered.
OnePutAtATime ==
  ~raced =>
    /\ \A g, h \in Handlers : pc[g] # "idle" /\ pc[h] # "idle" => g = h
    /\ \A h \in Handlers :
         pc[h] # "idle" => (want[h] <=> autoCapture)
    /\ \A h \in Handlers :
         pc[h] = "cancelling" => ~want[h] /\ current = NoAgent

SInv == /\ BootIsFresh
        /\ OnePutAtATime
        /\ SettingTakesEffect

-----------------------------------------------------------------------------
\* Every variable keeps its type: the manager, its agents, the requests and
\* the server phases of AgentLifecycle.
THEOREM TypeCorrect == Spec => []TypeOK
<1> USE LifecycleAssumption
<1>1. Init => TypeOK
  <2> SUFFICES ASSUME Init PROVE TypeOK
    OBVIOUS
  <2>1. /\ ctxDone \in [Agents -> BOOLEAN]
        /\ run \in [Agents -> AgentPhases]
    BY DEF Init, AgentPhases
  <2>2. /\ pc \in [Threads -> ThreadPhases]
        /\ want \in [Threads -> BOOLEAN]
        /\ target \in [Threads -> Agents \cup {NoAgent}]
    BY DEF Init, ThreadPhases
  <2>3. /\ autoCapture \in BOOLEAN /\ overlapped \in BOOLEAN
        /\ raced \in BOOLEAN
        /\ current \in Agents \cup {NoAgent} /\ server \in ServerPhases
    BY DEF Init, ServerPhases
  <2> QED
    BY <2>1, <2>2, <2>3 DEF TypeOK
<1>2. TypeOK /\ [Next]_vars => TypeOK'
  <2> SUFFICES ASSUME TypeOK, [Next]_vars PROVE TypeOK'
    OBVIOUS
  <2> USE DEF TypeOK, AgentPhases, ThreadPhases, ServerPhases
  <2>1. ASSUME NEW a \in Agents, AgentStep(a) PROVE TypeOK'
    BY <2>1 DEF AgentStep, FirstPoll, TimerFires, PollDone, RunReturns,
                ClearManager, PollOrSkip
  <2>2. ASSUME NEW h \in Handlers, HandlerStep(h) PROVE TypeOK'
    <3> h \in Threads
      BY DEF Threads
    <3>1. CASE PutStarts(h)
      BY <3>1 DEF PutStarts, ManagerStart
    <3>2. CASE PutStops(h)
      BY <3>2 DEF PutStops, ManagerStopTake
    <3>3. CASE PutCancels(h)
      BY <3>3 DEF PutCancels, ManagerStopCancel
    <3> QED
      BY <2>2, <3>1, <3>2, <3>3 DEF HandlerStep
  <2>3. ASSUME NEW h \in Handlers, PutConfig(h) PROVE TypeOK'
    BY <2>3 DEF PutConfig, Threads
  <2>4. CASE Boot
    BY <2>4 DEF Boot, ManagerStart
  <2>5. CASE ShutdownTakes
    BY <2>5 DEF ShutdownTakes, ManagerStopTake, Threads
  <2>6. CASE ShutdownCancels
    BY <2>6 DEF ShutdownCancels, ManagerStopCancel, Threads
  <2>7. CASE Exit
    BY <2>7 DEF Exit
  <2>8. CASE Crash
    BY <2>8 DEF Crash
  <2>9. CASE Restart
    BY <2>9 DEF Restart
  <2>10. CASE UNCHANGED vars
    BY <2>10 DEF vars
  <2> QED
    BY <2>1, <2>2, <2>3, <2>4, <2>5, <2>6, <2>7, <2>8, <2>9, <2>10 DEF Next
<1> QED
  BY <1>1, <1>2, PTL DEF Spec

-----------------------------------------------------------------------------
\* The first strengthening holds: whatever is registered or held is live.
LEMMA LInvHolds == Spec => []LInv
<1> USE LifecycleAssumption
<1>1. Init => LInv
  BY DEF Init, LInv, RunningIsLive, HeldIsLive, HeldOnce
<1>2. TypeOK /\ LInv /\ [Next]_vars => LInv'
  <2> SUFFICES ASSUME TypeOK, LInv, [Next]_vars PROVE LInv'
    OBVIOUS
  <2> USE DEF TypeOK, LInv, RunningIsLive, HeldIsLive, HeldOnce, Active
  <2>1. ASSUME NEW a \in Agents, AgentStep(a) PROVE LInv'
    <3>1. CASE FirstPoll(a)
      BY <3>1 DEF FirstPoll, PollOrSkip
    <3>2. CASE TimerFires(a)
      BY <3>2 DEF TimerFires, PollOrSkip
    <3>3. CASE PollDone(a)
      BY <3>3 DEF PollDone
    <3>4. CASE RunReturns(a)
      BY <3>4 DEF RunReturns
    <3>5. CASE ClearManager(a)
      BY <3>5 DEF ClearManager
    <3> QED
      BY <2>1, <3>1, <3>2, <3>3, <3>4, <3>5 DEF AgentStep
  <2>2. ASSUME NEW h \in Handlers, HandlerStep(h) PROVE LInv'
    <3> h \in Threads
      BY DEF Threads
    <3>1. CASE PutStarts(h)
      BY <3>1 DEF PutStarts, ManagerStart
    <3>2. CASE PutStops(h)
      BY <3>2 DEF PutStops, ManagerStopTake
    <3>3. CASE PutCancels(h)
      BY <3>3 DEF PutCancels, ManagerStopCancel
    <3> QED
      BY <2>2, <3>1, <3>2, <3>3 DEF HandlerStep
  <2>3. ASSUME NEW h \in Handlers, PutConfig(h) PROVE LInv'
    BY <2>3 DEF PutConfig
  <2>4. CASE Boot
    BY <2>4 DEF Boot, ManagerStart
  <2>5. CASE ShutdownTakes
    BY <2>5 DEF ShutdownTakes, ManagerStopTake, Threads
  <2>6. CASE ShutdownCancels
    BY <2>6 DEF ShutdownCancels, ManagerStopCancel, Threads
  <2>7. CASE Exit
    BY <2>7 DEF Exit
  <2>8. CASE Crash
    BY <2>8 DEF Crash
  <2>9. CASE Restart
    BY <2>9 DEF Restart
  <2>10. CASE UNCHANGED vars
    BY <2>10 DEF vars
  <2> QED
    BY <2>1, <2>2, <2>3, <2>4, <2>5, <2>6, <2>7, <2>8, <2>9, <2>10 DEF Next
<1> QED
  BY <1>1, <1>2, TypeCorrect, PTL DEF Spec

\* The manager only ever reports an agent that is in Run and not cancelled.
THEOREM ReportedAgentIsLive == Spec => []RunningIsLive
<1>1. LInv => RunningIsLive
  BY DEF LInv
<1> QED
  BY <1>1, LInvHolds, PTL

-----------------------------------------------------------------------------
\* The second strengthening holds: agents do not overlap unless recorded.
LEMMA CInvHolds == Spec => []CInv
<1> USE LifecycleAssumption
<1>1. Init => CInv
  BY DEF Init, CInv, HeldInStop, NoOverlap, SpacedTogglesKeepControl, Active,
         Threads
<1>2. TypeOK /\ CInv /\ [Next]_vars => CInv'
  <2> SUFFICES ASSUME TypeOK, CInv, [Next]_vars PROVE CInv'
    OBVIOUS
  <2> USE DEF TypeOK, CInv, HeldInStop, NoOverlap, SpacedTogglesKeepControl,
              Stoppable, Active, Threads
  <2>1. ASSUME NEW a \in Agents, AgentStep(a) PROVE CInv'
    <3>1. CASE FirstPoll(a)
      BY <3>1 DEF FirstPoll, PollOrSkip
    <3>2. CASE TimerFires(a)
      BY <3>2 DEF TimerFires, PollOrSkip
    <3>3. CASE PollDone(a)
      BY <3>3 DEF PollDone
    <3>4. CASE RunReturns(a)
      BY <3>4 DEF RunReturns
    <3>5. CASE ClearManager(a)
      BY <3>5 DEF ClearManager
    <3> QED
      BY <2>1, <3>1, <3>2, <3>3, <3>4, <3>5 DEF AgentStep
  <2>2. ASSUME NEW h \in Handlers, HandlerStep(h) PROVE CInv'
    <3>1. CASE PutStarts(h)
      BY <3>1 DEF PutStarts, ManagerStart
    <3>2. CASE PutStops(h)
      BY <3>2 DEF PutStops, ManagerStopTake
    <3>3. CASE PutCancels(h)
      BY <3>3 DEF PutCancels, ManagerStopCancel
    <3> QED
      BY <2>2, <3>1, <3>2, <3>3 DEF HandlerStep
  <2>3. ASSUME NEW h \in Handlers, PutConfig(h) PROVE CInv'
    BY <2>3 DEF PutConfig, AcceptsRequests
  <2>4. CASE Boot
    BY <2>4 DEF Boot, ManagerStart
  <2>5. CASE ShutdownTakes
    BY <2>5 DEF ShutdownTakes, ManagerStopTake
  <2>6. CASE ShutdownCancels
    BY <2>6 DEF ShutdownCancels, ManagerStopCancel
  <2>7. CASE Exit
    BY <2>7 DEF Exit
  <2>8. CASE Crash
    BY <2>8 DEF Crash
  <2>9. CASE Restart
    BY <2>9 DEF Restart
  <2>10. CASE UNCHANGED vars
    BY <2>10 DEF vars
  <2> QED
    BY <2>1, <2>2, <2>3, <2>4, <2>5, <2>6, <2>7, <2>8, <2>9, <2>10 DEF Next
<1> QED
  BY <1>1, <1>2, TypeCorrect, PTL DEF Spec

\* Toggles that wait for the old agent to be gone never lose control of one:
\* SpacedTogglesKeepControl of AgentLifecycle.
THEOREM SpacedTogglesKeepControlHolds == Spec => []SpacedTogglesKeepControl
<1>1. CInv => SpacedTogglesKeepControl
  BY DEF CInv
<1> QED
  BY <1>1, CInvHolds, PTL

-----------------------------------------------------------------------------
\* Steps of an agent's goroutine leave the set of uncancelled agents as it is.
LEMMA AgentsKeepLiveness ==
  ASSUME TypeOK, NEW a \in Agents, AgentStep(a)
  PROVE  /\ \A b \in Agents :
              Active(b)' /\ ~ctxDone'[b] <=> Active(b) /\ ~ctxDone[b]
         /\ UNCHANGED <<autoCapture, pc, want, server, overlapped, raced>>
         /\ current' \in {current, NoAgent}
         /\ run[a] # "none"
<1> USE DEF TypeOK, Active
<1>1. CASE FirstPoll(a)
  BY <1>1 DEF FirstPoll, PollOrSkip
<1>2. CASE TimerFires(a)
  BY <1>2 DEF TimerFires, PollOrSkip
<1>3. CASE PollDone(a)
  BY <1>3 DEF PollDone
<1>4. CASE RunReturns(a)
  BY <1>4 DEF RunReturns
<1>5. CASE ClearManager(a)
  BY <1>5 DEF ClearManager
<1> QED
  BY <1>1, <1>2, <1>3, <1>4, <1>5 DEF AgentStep

\* After a Start without overlap an uncancelled agent runs.
LEMMA StartLeavesAgent ==
  ASSUME TypeOK, LInv, ManagerStart
  PROVE  \E a \in Agents : Active(a)' /\ ~ctxDone'[a]
<1>1. CASE current # NoAgent
  BY <1>1 DEF ManagerStart, LInv, RunningIsLive, Active, TypeOK
<1>2. CASE current = NoAgent
  BY <1>2 DEF ManagerStart, Active, TypeOK
<1> QED
  BY <1>1, <1>2

\* In a serving process auto_capture and the agents agree between requests,
\* unless toggles have raced or an agent overlapped its predecessor.
THEOREM SettingTakesEffectHolds == Spec => []SettingTakesEffect
<1> USE LifecycleAssumption
<1>1. Init => SInv
  BY DEF Init, SInv, BootIsFresh, OnePutAtATime, SettingTakesEffect, Threads
<1>2. TypeOK /\ LInv /\ CInv /\ SInv /\ [Next]_vars => SInv'
  <2> SUFFICES ASSUME TypeOK, LInv, CInv, SInv, [Next]_vars PROVE SInv'
    OBVIOUS
  <2> USE DEF SInv, BootIsFresh, OnePutAtATime, SettingTakesEffect
  <2>0. \A h \in Handlers : h \in Threads
    BY DEF Threads
  <2>1. ASSUME NEW a \in Agents, AgentStep(a) PROVE SInv'
    BY <2>1, AgentsKeepLiveness DEF Threads
  <2>2. ASSUME NEW h \in Handlers, PutStarts(h) PROVE SInv'
    <3>1. /\ pc[h] = "reacting" /\ want[h]
          /\ pc' = [pc EXCEPT ![h] = "idle"]
          /\ ManagerStart
          /\ UNCHANGED <<autoCapture, want, server, raced>>
      BY <2>2 DEF PutStarts
    <3>2. /\ pc'[h] = "idle"
          /\ \A g \in Handlers : g # h => pc'[g] = pc[g]
      BY <2>0, <3>1 DEF TypeOK
    <3>3. \E a \in Agents : Active(a)' /\ ~ctxDone'[a]
      BY <3>1, StartLeavesAgent
    <3>4. BootIsFresh'
      BY <3>1
    <3>5. OnePutAtATime'
      BY <3>1, <3>2
    <3>6. SettingTakesEffect'
      BY <3>1, <3>2, <3>3
    <3> QED
      BY <3>4, <3>5, <3>6
  <2>3. ASSUME NEW h \in Handlers, PutStops(h) PROVE SInv'
    BY <2>0, <2>3 DEF PutStops, ManagerStopTake, TypeOK
  <2>4. ASSUME NEW h \in Handlers, PutCancels(h) PROVE SInv'
    <3>1. /\ pc[h] = "cancelling"
          /\ pc'[h] = "idle"
          /\ \A g \in Handlers : g # h => pc'[g] = pc[g]
          /\ ctxDone' = [a \in Agents |-> ctxDone[a] \/ a = target[h]]
          /\ UNCHANGED <<autoCapture, current, run, want, server, overlapped,
                         raced>>
      BY <2>0, <2>4 DEF PutCancels, ManagerStopCancel, TypeOK
    <3>2. BootIsFresh' /\ OnePutAtATime'
      BY <3>1
    <3>3. ASSUME server = "serving", ~overlapped, ~raced
          PROVE  /\ ~autoCapture
                 /\ \A a \in Agents : ~(Active(a)' /\ ~ctxDone'[a])
      <4>1. ~autoCapture /\ current = NoAgent
        BY <3>1, <3>3
      <4>2. \A t \in Threads : target[t] # NoAgent => t = h
        BY <3>1, <3>3 DEF CInv, HeldInStop, Threads
      <4>3. ASSUME NEW a \in Agents, Active(a), ~ctxDone[a]
            PROVE  target[h] = a
        BY <3>3, <4>1, <4>2, <4>3
        DEF CInv, SpacedTogglesKeepControl, Stoppable
      <4> QED
        BY <3>1, <4>1, <4>3 DEF Active
    <3>4. SettingTakesEffect'
      BY <3>1, <3>3
    <3> QED
      BY <3>2, <3>4
  <2>5. ASSUME NEW h \in Handlers, PutConfig(h) PROVE SInv'
    <3>1. /\ pc'[h] = "reacting"
          /\ want'[h] = autoCapture'
          /\ \A g \in Handlers :
               g # h => pc'[g] = pc[g] /\ want'[g] = want[g]
          /\ raced' = (raced \/ \E g \in Handlers : pc[g] # "idle")
          /\ server # "booting"
          /\ UNCHANGED server
      BY <2>0, <2>5 DEF PutConfig, AcceptsRequests, TypeOK
    <3>2. BootIsFresh' /\ SettingTakesEffect'
      BY <3>1
    <3>3. OnePutAtATime'
      BY <3>1
    <3> QED
      BY <3>2, <3>3
  <2>6. CASE Boot
    <3>1. CASE autoCapture /\ ManagerStart
      BY <2>6, <3>1, StartLeavesAgent DEF Boot
    <3>2. CASE ~autoCapture /\ UNCHANGED <<current, ctxDone, run, overlapped>>
      BY <2>6, <3>2 DEF Boot, Active
    <3> QED
      BY <2>6, <3>1, <3>2 DEF Boot
  <2>7. CASE ShutdownTakes
    BY <2>7 DEF ShutdownTakes, ManagerStopTake
  <2>8. CASE ShutdownCancels
    BY <2>8 DEF ShutdownCancels, ManagerStopCancel
  <2>9. CASE Exit
    BY <2>9 DEF Exit
  <2>10. CASE Crash
    BY <2>10 DEF Crash
  <2>11. CASE Restart
    BY <2>11 DEF Restart, Threads
  <2>12. CASE UNCHANGED vars
    BY <2>12 DEF vars, Active
  <2> QED
    BY <2>1, <2>2, <2>3, <2>4, <2>5, <2>6, <2>7, <2>8, <2>9, <2>10, <2>11,
       <2>12
    DEF Next, HandlerStep
<1>3. SInv => SettingTakesEffect
  BY DEF SInv
<1> QED
  BY <1>1, <1>2, <1>3, TypeCorrect, LInvHolds, CInvHolds, PTL DEF Spec

=============================================================================
