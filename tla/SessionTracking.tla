--------------------------- MODULE SessionTracking ---------------------------
(***************************************************************************)
(* Usage sessions of one provider: tracker.SessionManager                  *)
(* (internal/tracker/session.go) over the table usage_sessions             *)
(* (internal/store/sessions.go).  Every polling agent has a manager of its *)
(* own; two agents overlap for a while when auto-capture is switched off   *)
(* and on (see AgentLifecycle).  Every SQL statement is a step: it may     *)
(* fail, which the manager logs and ignores, and the process may die       *)
(* before it.                                                              *)
(*                                                                         *)
(* Usage values are members of a small set.  Time is what the manager      *)
(* measures: ticks since the last change of usage.                         *)
(***************************************************************************)
EXTENDS Naturals, FiniteSets

CONSTANTS
  Agents,       (* polling agents alive at once                            *)
  Usages,       (* usage values of the provider: numbers                   *)
  IdleTimeout,  (* session_idle_timeout, in ticks                          *)
  Rows,         (* ids of usage_sessions, 1..n: bound on the sessions      *)
  MaxCrashes    (* bound on crashes and failing statements together        *)

None == 0       (* sessionID = 0: no active session                        *)

NoUsage == 99   (* hasPrev = FALSE                                         *)

ASSUME SessionAssumption ==
  /\ Rows \subseteq Nat \ {None}
  /\ Usages \subseteq Nat \ {NoUsage}
  /\ IdleTimeout \in Nat
  /\ MaxCrashes \in Nat

\* Ages beyond this one are alike.
Stale == IdleTimeout + 1

VARIABLES
  rows,         (* table usage_sessions                                    *)
  on,           (* agents that run                                         *)
  silent,       (* of them, those whose polls do not reach ReportPoll: the *)
                (* provider fails or is paused, Claude's data is stale     *)
  pc,           (* where ReportPoll of an agent's manager is               *)
  session,      (* sessionID                                               *)
  prev,         (* prevValues                                              *)
  now,          (* the values ReportPoll was called with                   *)
  quiet,        (* ticks since lastActivityTime                            *)
  crashes

manager == <<pc, session, prev, now, quiet>>
vars == <<rows, on, silent, manager, crashes>>

\* A row of usage_sessions.  counted and length are measured from the last
\* change of usage: when the last snapshot since then was counted, and where
\* ended_at lies.  lost is history: a crash or a failing statement has cut the
\* row off from its manager.
Row == [state : {"open", "ended"}, peak : Usages, counted : 0..Stale,
        length : 0..Stale, lost : BOOLEAN]

NoRow == [state |-> "absent", lost |-> FALSE]

Init ==
  /\ rows = [i \in Rows |-> NoRow]
  /\ on = {}
  /\ silent = {}
  /\ pc = [a \in Agents |-> "idle"]
  /\ session = [a \in Agents |-> None]
  /\ prev = [a \in Agents |-> NoUsage]
  /\ now = [a \in Agents |-> NoUsage]
  /\ quiet = [a \in Agents |-> 0]
  /\ crashes = 0

\* A statement fails.
Failing ==
  /\ crashes < MaxCrashes
  /\ crashes' = crashes + 1

-----------------------------------------------------------------------------
(* ReportPoll                                                               *)

\* A poll of agent a has succeeded, and its values are reported.
Reported(a) == a \in on \ silent /\ pc[a] = "idle"

\* The first poll of a manager is always the baseline.
Baseline(a, u) ==
  /\ Reported(a)
  /\ prev[a] = NoUsage
  /\ prev' = [prev EXCEPT ![a] = u]
  /\ UNCHANGED <<rows, on, silent, pc, session, now, quiet, crashes>>

\* Bound: a row is left for one more session.
FreeRow ==
  Cardinality({a \in Agents : pc[a] = "creating"})
    < Cardinality({i \in Rows : rows[i].state = "absent"})

\* Mutant of NeedsSession: every change starts a session.
NeedsSessionAlways(a) == TRUE

\* Does a change of usage start a session?
NeedsSession(a) == session[a] = None

\* Usage has changed: a session is needed, or the one there is goes on.
Changed(a, u) ==
  /\ Reported(a)
  /\ prev[a] \notin {NoUsage, u}
  /\ now' = [now EXCEPT ![a] = u]
  /\ \/ /\ NeedsSession(a)
        /\ FreeRow
        /\ pc' = [pc EXCEPT ![a] = "creating"]
        /\ UNCHANGED <<rows, prev, quiet>>
     \/ /\ ~NeedsSession(a)
        /\ pc' = [pc EXCEPT ![a] = "counting"]
        /\ prev' = [prev EXCEPT ![a] = u]
        /\ quiet' = [quiet EXCEPT ![a] = 0]
        /\ rows' = [rows EXCEPT ![session[a]].counted = 0]
  /\ UNCHANGED <<on, silent, session, crashes>>

\* Mutant of Create: the id of the new row is not kept.
CreateForgets(a) ==
  /\ pc[a] = "creating"
  /\ prev' = [prev EXCEPT ![a] = now[a]]
  /\ quiet' = [quiet EXCEPT ![a] = 0]
  /\ pc' = [pc EXCEPT ![a] = "counting"]
  /\ UNCHANGED <<rows, session, on, silent, now, crashes>>

\* CreateSession with the values before the change; without a row ReportPoll
\* returns and the next change tries again.
Create(a) ==
  /\ pc[a] = "creating"
  /\ prev' = [prev EXCEPT ![a] = now[a]]
  /\ \/ /\ \E i \in Rows :
             /\ rows[i].state = "absent"
             /\ \A j \in Rows : j < i => rows[j].state # "absent"
             /\ session' = [session EXCEPT ![a] = i]
             /\ rows' = [rows EXCEPT ![i] =
                  [state |-> "open", peak |-> prev[a], counted |-> 0,
                   length |-> 0, lost |-> FALSE]]
        /\ quiet' = [quiet EXCEPT ![a] = 0]
        /\ pc' = [pc EXCEPT ![a] = "counting"]
        /\ UNCHANGED crashes
     \/ /\ Failing
        /\ pc' = [pc EXCEPT ![a] = "idle"]
        /\ UNCHANGED <<rows, session, quiet>>
  /\ UNCHANGED <<on, silent, now>>

IsIdle(a) == quiet[a] > IdleTimeout

\* Usage is the same and the idle timeout is over.
GoesIdle(a) ==
  /\ Reported(a)
  /\ session[a] # None /\ IsIdle(a)
  /\ pc' = [pc EXCEPT ![a] = "ending"]
  /\ UNCHANGED <<rows, on, silent, session, prev, now, quiet, crashes>>

\* Mutant of StaysActive: every counted snapshot counts as activity.
StaysActiveAnew(a) ==
  /\ Reported(a)
  /\ session[a] # None /\ ~IsIdle(a)
  /\ now' = [now EXCEPT ![a] = prev[a]]
  /\ pc' = [pc EXCEPT ![a] = "counting"]
  /\ quiet' = [quiet EXCEPT ![a] = 0]
  /\ UNCHANGED <<rows, on, silent, session, prev, crashes>>

\* Usage is the same and the session goes on.
StaysActive(a) ==
  /\ Reported(a)
  /\ session[a] # None /\ ~IsIdle(a)
  /\ now' = [now EXCEPT ![a] = prev[a]]
  /\ pc' = [pc EXCEPT ![a] = "counting"]
  /\ UNCHANGED <<rows, on, silent, session, prev, quiet, crashes>>

\* updateSession: IncrementSessionSnapCount ...
CountSnapshot(a) ==
  /\ pc[a] = "counting"
  /\ pc' = [pc EXCEPT ![a] = "peaking"]
  /\ \/ /\ rows' = [rows EXCEPT ![session[a]].counted = quiet[a]]
        /\ UNCHANGED crashes
     \/ Failing /\ UNCHANGED rows
  /\ UNCHANGED <<on, silent, session, prev, now, quiet>>

\* ... and UpdateSessionPeakValues, which stores the values as they are.
UpdatePeak(a) ==
  /\ pc[a] = "peaking"
  /\ pc' = [pc EXCEPT ![a] = "idle"]
  /\ now' = [now EXCEPT ![a] = NoUsage]
  /\ \/ /\ rows' = [rows EXCEPT ![session[a]].peak = now[a]]
        /\ UNCHANGED crashes
     \/ Failing /\ UNCHANGED rows
  /\ UNCHANGED <<on, silent, session, prev, quiet>>

\* Mutant of CloseSession: the manager keeps its sessionID.
KeepSession(a, length) ==
  /\ session[a] # None
  /\ rows' = [rows EXCEPT ![session[a]].state = "ended",
                          ![session[a]].length = length]
  /\ UNCHANGED <<session, crashes>>

\* closeSession: ended_at is so long after the last change.  The manager
\* forgets the session also when the statement fails.
CloseSession(a, length) ==
  /\ session[a] # None
  /\ session' = [session EXCEPT ![a] = None]
  /\ \/ /\ rows' = [rows EXCEPT ![session[a]].state = "ended",
                                ![session[a]].length = length]
        /\ UNCHANGED crashes
     \/ /\ Failing
        /\ rows' = [rows EXCEPT ![session[a]].lost = TRUE]

\* Mutant of EndIdle: the session ended with its last change.
EndAtLastChange(a) ==
  /\ pc[a] = "ending"
  /\ CloseSession(a, 0)
  /\ pc' = [pc EXCEPT ![a] = "idle"]
  /\ UNCHANGED <<on, silent, prev, now, quiet>>

\* An idle session ended when its timeout was over.
EndIdle(a) ==
  /\ pc[a] = "ending"
  /\ CloseSession(a, IdleTimeout)
  /\ pc' = [pc EXCEPT ![a] = "idle"]
  /\ UNCHANGED <<on, silent, prev, now, quiet>>

-----------------------------------------------------------------------------
(* Agents come and go                                                       *)

\* startPollingAgent: SetSessionManagers makes new managers.
Start(a) ==
  /\ a \notin on
  /\ on' = on \cup {a}
  /\ UNCHANGED silent
  /\ prev' = [prev EXCEPT ![a] = NoUsage]
  /\ now' = [now EXCEPT ![a] = NoUsage]
  /\ quiet' = [quiet EXCEPT ![a] = 0]
  /\ UNCHANGED <<rows, pc, session, crashes>>

\* Run returns between two polls, its defer calls Close.
Stop(a) ==
  /\ a \in on /\ pc[a] = "idle"
  /\ on' = on \ {a}
  /\ silent' = silent \ {a}
  /\ \/ CloseSession(a, quiet[a])
     \/ session[a] = None /\ UNCHANGED <<rows, session, crashes>>
  /\ UNCHANGED <<pc, prev, now, quiet>>

\* The process dies with all its managers.
Crash ==
  /\ Failing
  /\ on # {}
  /\ on' = {}
  /\ silent' = {}
  /\ pc' = [a \in Agents |-> "idle"]
  /\ session' = [a \in Agents |-> None]
  /\ rows' = [i \in Rows |-> IF \E a \in Agents : session[a] = i
                               THEN [rows[i] EXCEPT !.lost = TRUE]
                               ELSE rows[i]]
  /\ UNCHANGED <<prev, now, quiet>>

\* Time passes for an agent between two polls; statements take none.
Tick(a) ==
  /\ a \in on /\ pc[a] = "idle"
  /\ quiet' = [quiet EXCEPT ![a] = IF @ < Stale THEN @ + 1 ELSE @]
  /\ UNCHANGED <<rows, on, silent, pc, session, prev, now, crashes>>

\* The provider pauses after three failures, fetches fail, a reading cannot be stored,
\* or Claude Code is not used and its data gets stale: nothing is reported ...
FallSilent(a) ==
  /\ a \in on /\ pc[a] = "idle"
  /\ silent' = silent \cup {a}
  /\ UNCHANGED <<rows, on, manager, crashes>>

\* ... until a poll succeeds again.
Recover(a) ==
  /\ a \in silent
  /\ silent' = silent \ {a}
  /\ UNCHANGED <<rows, on, manager, crashes>>

-----------------------------------------------------------------------------
ReportSame(a) == GoesIdle(a) \/ StaysActive(a)

Statement(a) == Create(a) \/ CountSnapshot(a) \/ UpdatePeak(a) \/ EndIdle(a)

Next ==
  \/ \E a \in Agents, u \in Usages : Baseline(a, u) \/ Changed(a, u)
  \/ \E a \in Agents : ReportSame(a)
  \/ \E a \in Agents : Statement(a)
  \/ \E a \in Agents : Start(a) \/ Stop(a)
  \/ \E a \in Agents : Tick(a)
  \/ \E a \in Agents : FallSilent(a) \/ Recover(a)
  \/ Crash

\* Time passes, also if a poll begins now and then, a statement that was begun
\* ends, and an agent whose polls succeed polls again.  That they succeed is not
\* assumed, nor that anybody uses the provider or stops the agent.
Fairness ==
  \A a \in Agents : /\ WF_vars(Statement(a))
                     /\ WF_vars(ReportSame(a))
                     /\ SF_vars(Tick(a))

Spec == Init /\ [][Next]_vars /\ Fairness

-----------------------------------------------------------------------------
TypeOK ==
  /\ rows \in [Rows -> Row \cup {NoRow}]
  /\ on \subseteq Agents
  /\ silent \subseteq on
  /\ pc \in [Agents -> {"idle", "creating", "counting", "peaking", "ending"}]
  /\ session \in [Agents -> Rows \cup {None}]
  /\ prev \in [Agents -> Usages \cup {NoUsage}]
  /\ now \in [Agents -> Usages \cup {NoUsage}]
  /\ quiet \in [Agents -> 0..Stale]
  /\ crashes \in 0..MaxCrashes
  /\ \A a \in Agents : pc[a] \in {"counting", "peaking", "ending"}
                         => session[a] # None

\* Only a crash or a failing CloseSession leaves an open row behind: any other
\* open row is held by exactly one running manager, also while two agents
\* overlap or ReportPoll is between two statements.
OpenIsHeld ==
  \A i \in Rows :
    rows[i].state = "open" /\ ~rows[i].lost
      => Cardinality({a \in on : session[a] = i}) = 1

\* ended_at does not lie before a snapshot the session has counted, whether the
\* session ended idle or with its agent.
EndCoversSnapshots ==
  \A i \in Rows : rows[i].state = "ended" => rows[i].counted <= rows[i].length

\* A row that has ended is history: no manager counts into it or ends it again.
EndedIsFinal ==
  [][\A i \in Rows : rows[i].state = "ended" => rows'[i] = rows[i]]_vars

\* Once usage stands still, every session that is not lost ends, unless the polls
\* of its agent fail again and again: only a poll that succeeds ends it before its
\* agent stops.
QuietSessionEnds ==
  <>[][\A a \in Agents, u \in Usages : ~Changed(a, u)]_vars =>
    \A i \in Rows :
      \/ <>[](rows[i].state = "open" => rows[i].lost)
      \/ []<>(\E a \in silent : session[a] = i)

=============================================================================
