--------------------------- MODULE AgentLifecycle ---------------------------
(***************************************************************************)
(* Lifecycle of the auto-capture polling agent: agent.Manager              *)
(* (internal/agent/manager.go), the loop of PollingAgent.Run               *)
(* (internal/agent/agent.go), and everything that starts and stops it:     *)
(* NewServer at boot, PUT /api/config of "auto_capture"                    *)
(* (internal/web/handlers_config.go), and Shutdown, which main calls on    *)
(* SIGINT and again in a defer (cmd/niyantra/main.go).                     *)
(*                                                                         *)
(* Every critical section of Manager.mu is one action.  Stop is two steps: *)
(* it takes the cancel function under the lock and calls it after          *)
(* unlocking.  The goroutine Start launches is a process of its own, and   *)
(* its last step, clearing the manager, is again a critical section.       *)
(***************************************************************************)
EXTENDS Naturals

CONSTANTS
  Agents,     (* identities of agents alive at once: a bound on overlap    *)
  Handlers,   (* concurrent PUT /api/config requests                       *)
  Main,       (* the goroutine of main: boots and shuts down               *)
  NoAgent     (* a nil cancel function / a nil *PollingAgent               *)

ASSUME LifecycleAssumption == /\ NoAgent \notin Agents
                              /\ Main \notin Handlers

Threads == Handlers \cup {Main}

VARIABLES
  autoCapture,  (* config row "auto_capture"; survives restarts            *)
  current,      (* Manager.cancel and Manager.agent, always set together   *)
  ctxDone,      (* ctxDone[a]: the context of agent a is cancelled         *)
  run,          (* where the goroutine of agent a is                       *)
  pc,           (* where a thread is in handleConfigPut or Shutdown        *)
  want,         (* the value a PUT carries                                 *)
  target,       (* the agent whose cancel function a Stop has taken        *)
  server,       (* phase of the server process                             *)
  overlapped,   (* history: an agent started while another one still ran   *)
  raced         (* history: two PUTs of auto_capture were in flight at once *)

vars == <<autoCapture, current, ctxDone, run, pc, want, target, server,
          overlapped, raced>>

AgentPhases == {"none", "starting", "polling", "waiting", "returned"}
ThreadPhases == {"idle", "reacting", "cancelling"}
ServerPhases == {"booting", "serving", "stopping", "draining",
                 "stoppingAgain", "drainingAgain", "exited", "crashed"}

\* The goroutine of Start is inside Run.
Active(a) == run[a] \in {"starting", "polling", "waiting"}

-----------------------------------------------------------------------------
(* Manager                                                                 *)

\* Manager.Start with a fresh agent: nothing if one is registered, else a
\* new context and a new goroutine.
ManagerStart ==
  \/ /\ current # NoAgent
     /\ UNCHANGED <<current, ctxDone, run, overlapped>>
  \/ /\ current = NoAgent
     /\ \E a \in Agents :
          /\ run[a] = "none"
          /\ current' = a
          /\ ctxDone' = [ctxDone EXCEPT ![a] = FALSE]
          /\ run' = [run EXCEPT ![a] = "starting"]
     /\ overlapped' = (overlapped \/ \E b \in Agents : run[b] # "none")

\* Mutant of ManagerStopTake: the lock section forgets to clear the fields.
StopKeepsRegistration(t) ==
  /\ target' = [target EXCEPT ![t] = current]
  /\ UNCHANGED current

\* Manager.Stop up to the unlock: thread t now holds the cancel function.
ManagerStopTake(t) ==
  /\ target' = [target EXCEPT ![t] = current]
  /\ current' = NoAgent

\* Mutant of ManagerStopCancel: the cancel function is dropped, not called.
StopDropsCancel(t) ==
  /\ target' = [target EXCEPT ![t] = NoAgent]
  /\ UNCHANGED ctxDone

\* Manager.Stop after the unlock: call cancel, if there was one.
ManagerStopCancel(t) ==
  /\ ctxDone' = [a \in Agents |-> ctxDone[a] \/ a = target[t]]
  /\ target' = [target EXCEPT ![t] = NoAgent]

-----------------------------------------------------------------------------
(* The goroutine of an agent: PollingAgent.Run, then Manager's cleanup      *)

\* Mutant of PollOrSkip: the poll no longer asks pollingCheck.
PollUnchecked(a) ==
  run' = [run EXCEPT ![a] = "polling"]

\* The tick of agent a: poll if pollingCheck still reads "true", else wait.
PollOrSkip(a) ==
  run' = [run EXCEPT ![a] = IF autoCapture THEN "polling" ELSE "waiting"]

\* The poll that Run makes at once when it starts.
FirstPoll(a) ==
  /\ run[a] = "starting"
  /\ PollOrSkip(a)
  /\ UNCHANGED <<autoCapture, current, ctxDone, pc, want, target, server,
                 overlapped, raced>>

\* Mutant of TimerFires: a loop that sleeps and polls without select.
TimerIgnoresCancel(a) ==
  /\ run[a] = "waiting"
  /\ PollOrSkip(a)
  /\ UNCHANGED <<autoCapture, current, ctxDone, pc, want, target, server,
                 overlapped, raced>>

\* The timer fires while Run blocks in its select.  The interval is at least
\* 30 seconds, so the timer is never ready when the select is entered with a
\* cancelled context.
TimerFires(a) ==
  /\ run[a] = "waiting"
  /\ ~ctxDone[a]
  /\ PollOrSkip(a)
  /\ UNCHANGED <<autoCapture, current, ctxDone, pc, want, target, server,
                 overlapped, raced>>

\* Mutant of PollDone: the goroutine is taken for a request.
PollDoneIdle(a) ==
  /\ run[a] = "polling"
  /\ run' = [run EXCEPT ![a] = "idle"]
  /\ UNCHANGED <<autoCapture, current, ctxDone, pc, want, target, server,
                 overlapped, raced>>

\* All provider goroutines of the poll are done, cancelled or not.
PollDone(a) ==
  /\ run[a] = "polling"
  /\ run' = [run EXCEPT ![a] = "waiting"]
  /\ UNCHANGED <<autoCapture, current, ctxDone, pc, want, target, server,
                 overlapped, raced>>

\* ctx.Done wins the select: Run returns, its defer closes the sessions.
RunReturns(a) ==
  /\ run[a] = "waiting"
  /\ ctxDone[a]
  /\ run' = [run EXCEPT ![a] = "returned"]
  /\ UNCHANGED <<autoCapture, current, ctxDone, pc, want, target, server,
                 overlapped, raced>>

\* The goroutine's last critical section clears the manager, whichever agent
\* is registered by then.
ClearManager(a) ==
  /\ run[a] = "returned"
  /\ current' = NoAgent
  /\ run' = [run EXCEPT ![a] = "none"]
  /\ UNCHANGED <<autoCapture, ctxDone, pc, want, target, server, overlapped,
                 raced>>

-----------------------------------------------------------------------------
(* PUT /api/config {key: auto_capture}                                      *)

AcceptsRequests == server \in {"serving", "stopping"}

\* Mutant of PutConfig: the handler goes on with the value SetConfig returns,
\* which is the old one.
PutReactsToOld(h) ==
  /\ AcceptsRequests
  /\ pc[h] = "idle"
  /\ autoCapture' \in BOOLEAN
  /\ want' = [want EXCEPT ![h] = autoCapture]
  /\ pc' = [pc EXCEPT ![h] = "reacting"]
  /\ raced' = (raced \/ \E g \in Handlers : pc[g] # "idle")
  /\ UNCHANGED <<current, ctxDone, run, target, server, overlapped>>

\* SetConfig commits the new value.
PutConfig(h) ==
  /\ AcceptsRequests
  /\ pc[h] = "idle"
  /\ \E v \in BOOLEAN :
       /\ autoCapture' = v
       /\ want' = [want EXCEPT ![h] = v]
  /\ pc' = [pc EXCEPT ![h] = "reacting"]
  /\ raced' = (raced \/ \E g \in Handlers : pc[g] # "idle")
  /\ UNCHANGED <<current, ctxDone, run, target, server, overlapped>>

\* The value was "true": startPollingAgent.
PutStarts(h) ==
  /\ pc[h] = "reacting"
  /\ want[h]
  /\ ManagerStart
  /\ pc' = [pc EXCEPT ![h] = "idle"]
  /\ UNCHANGED <<autoCapture, want, target, server, raced>>

\* The value was "false": stopPollingAgent takes the cancel function ...
PutStops(h) ==
  /\ pc[h] = "reacting"
  /\ ~want[h]
  /\ ManagerStopTake(h)
  /\ pc' = [pc EXCEPT ![h] = "cancelling"]
  /\ UNCHANGED <<autoCapture, ctxDone, run, want, server, overlapped, raced>>

\* ... and calls it.
PutCancels(h) ==
  /\ pc[h] = "cancelling"
  /\ ManagerStopCancel(h)
  /\ pc' = [pc EXCEPT ![h] = "idle"]
  /\ UNCHANGED <<autoCapture, current, run, want, server, overlapped, raced>>

-----------------------------------------------------------------------------
(* The process: boot, graceful shutdown, crash, restart                     *)

\* NewServer starts the agent when the stored configuration says so.
Boot ==
  /\ server = "booting"
  /\ server' = "serving"
  /\ \/ autoCapture /\ ManagerStart
     \/ ~autoCapture /\ UNCHANGED <<current, ctxDone, run, overlapped>>
  /\ UNCHANGED <<autoCapture, pc, want, target, raced>>

\* SIGINT, and later the deferred call: Shutdown begins with Manager.Stop.
ShutdownTakes ==
  /\ \/ server = "serving" /\ server' = "stopping"
     \/ server = "draining" /\ server' = "stoppingAgain"
  /\ ManagerStopTake(Main)
  /\ UNCHANGED <<autoCapture, ctxDone, run, pc, want, overlapped, raced>>

\* The cancel call of Shutdown; http.Server.Shutdown then refuses requests.
\* It returns when the requests in flight are done or five seconds passed,
\* so the next step may come with requests still in flight.
ShutdownCancels ==
  /\ \/ server = "stopping" /\ server' = "draining"
     \/ server = "stoppingAgain" /\ server' = "drainingAgain"
  /\ ManagerStopCancel(Main)
  /\ UNCHANGED <<autoCapture, current, run, pc, want, overlapped, raced>>

\* main returns: the store is closed and the process is gone.
Exit ==
  /\ server = "drainingAgain"
  /\ server' = "exited"
  /\ UNCHANGED <<autoCapture, current, ctxDone, run, pc, want, target,
                 overlapped, raced>>

\* The process dies anywhere (kill, os.Exit on a listener error).
Crash ==
  /\ server \notin {"exited", "crashed"}
  /\ server' = "crashed"
  /\ UNCHANGED <<autoCapture, current, ctxDone, run, pc, want, target,
                 overlapped, raced>>

\* A new process: only the configuration is left of the old one.
Restart ==
  /\ server \in {"exited", "crashed"}
  /\ server' = "booting"
  /\ current' = NoAgent
  /\ ctxDone' = [a \in Agents |-> FALSE]
  /\ run' = [a \in Agents |-> "none"]
  /\ pc' = [t \in Threads |-> "idle"]
  /\ want' = [t \in Threads |-> FALSE]
  /\ target' = [t \in Threads |-> NoAgent]
  /\ overlapped' = FALSE
  /\ raced' = FALSE
  /\ UNCHANGED autoCapture

-----------------------------------------------------------------------------
Init ==
  /\ autoCapture \in BOOLEAN
  /\ current = NoAgent
  /\ ctxDone = [a \in Agents |-> FALSE]
  /\ run = [a \in Agents |-> "none"]
  /\ pc = [t \in Threads |-> "idle"]
  /\ want = [t \in Threads |-> FALSE]
  /\ target = [t \in Threads |-> NoAgent]
  /\ server = "booting"
  /\ overlapped = FALSE
  /\ raced = FALSE

Up == server \notin {"exited", "crashed"}

AgentStep(a) ==
  /\ Up
  /\ \/ FirstPoll(a)
     \/ TimerFires(a)
     \/ PollDone(a)
     \/ RunReturns(a)
     \/ ClearManager(a)

HandlerStep(h) ==
  /\ Up
  /\ \/ PutStarts(h)
     \/ PutStops(h)
     \/ PutCancels(h)

Next ==
  \/ \E a \in Agents : AgentStep(a)
  \/ \E h \in Handlers : HandlerStep(h)
  \/ \E h \in Handlers : PutConfig(h)
  \/ Boot
  \/ ShutdownTakes
  \/ ShutdownCancels
  \/ Exit
  \/ Crash
  \/ Restart

\* Goroutines and requests in flight keep running; users, signals, crashes
\* and restarts are under no obligation.
Fairness ==
  /\ \A a \in Agents : WF_vars(AgentStep(a))
  /\ \A h \in Handlers : WF_vars(HandlerStep(h))

Spec == Init /\ [][Next]_vars /\ Fairness

-----------------------------------------------------------------------------
TypeOK ==
  /\ autoCapture \in BOOLEAN
  /\ current \in Agents \cup {NoAgent}
  /\ ctxDone \in [Agents -> BOOLEAN]
  /\ run \in [Agents -> AgentPhases]
  /\ pc \in [Threads -> ThreadPhases]
  /\ want \in [Threads -> BOOLEAN]
  /\ target \in [Threads -> Agents \cup {NoAgent}]
  /\ server \in ServerPhases
  /\ overlapped \in BOOLEAN
  /\ raced \in BOOLEAN

\* Whenever the manager reports a running agent (IsRunning, isPolling in
\* GET /api/mode), the goroutine of that very agent is in Run and nobody has
\* cancelled it, whatever Stops and cleanups are still under way.
RunningIsLive ==
  current # NoAgent => Active(current) /\ ~ctxDone[current]

\* Somebody can still stop agent a: the manager, or a Stop under way.
Stoppable(a) == current = a \/ \E t \in Threads : target[t] = a

\* As long as no agent was started before its predecessor's goroutine was
\* gone, every uncancelled agent can be stopped: the manager loses track of
\* an agent only through an overlap of two.
SpacedTogglesKeepControl ==
  ~overlapped =>
    \A a \in Agents : Active(a) /\ ~ctxDone[a] => Stoppable(a)

\* The setting means what the user guide says, "background polling": in a
\* serving process with no request in flight an uncancelled agent runs exactly
\* if auto_capture is on.  It takes toggles that race with each other, or that
\* do not wait for the old agent to end, to break this.
SettingTakesEffect ==
  (/\ server = "serving" /\ ~overlapped /\ ~raced
   /\ \A h \in Handlers : pc[h] = "idle")
    => (autoCapture <=> \E a \in Agents : Active(a) /\ ~ctxDone[a])

\* An agent whose context was cancelled leaves Run and its goroutine ends.
CancelledAgentEnds ==
  \A a \in Agents :
    ctxDone[a] /\ Active(a) ~> run[a] = "none" \/ ~Up

\* Once auto_capture stays off, polling dies out: also agents the manager has
\* lost ask pollingCheck before every poll.
SilentWhenDisabled ==
  <>[](~autoCapture /\ Up) => <>[](\A a \in Agents : run[a] # "polling")

\* manager.go says IsRunning "returns whether the polling agent is currently
\* active": in a serving process, an uncancelled agent in Run is the one the
\* manager reports, or one that a Stop under way is about to cancel.
IsRunningIsTruthful ==
  server = "serving" =>
    \A a \in Agents : Active(a) /\ ~ctxDone[a] => Stoppable(a)

=============================================================================
