---------------------------- MODULE DigestBatcher ----------------------------
(***************************************************************************)
(* notify.DigestBatcher (internal/notify/digest.go).  Its methods are      *)
(* critical sections of one mutex, so each is one action.  What runs       *)
(* outside the mutex is what makes it hard: a timer that has fired is a    *)
(* goroutine waiting for the mutex, which Timer.Stop no longer reaches,    *)
(* and every batch is handed to onFlush in a goroutine of its own.         *)
(***************************************************************************)
EXTENDS Naturals, FiniteSets

CONSTANTS
  Alerts,     (* alerts that may be raised, each at most once: the bound   *)
  Timers,     (* identities of timers alive at once                        *)
  NoTimer,    (* a nil *time.Timer                                         *)
  MaxBatch    (* maxBatch: flush early once so many alerts are pending     *)

ASSUME BatcherAssumption == /\ MaxBatch \in Nat \ {0}
                            /\ NoTimer \notin Timers

VARIABLES
  enabled,    (* digest mode is on                                         *)
  pending,    (* alerts of the current batch                               *)
  flushTimer, (* the timer the batcher remembers                           *)
  armed,      (* timers started, not stopped, not fired                    *)
  firing,     (* timers whose flush call waits for the mutex               *)
  inFlight,   (* batches whose onFlush goroutine has not finished          *)
  delivered,  (* alerts whose onFlush call returned                        *)
  returned    (* alerts Add refused: the caller delivers them itself       *)

vars == <<enabled, pending, flushTimer, armed, firing, inFlight, delivered,
          returned>>

Init ==
  /\ enabled = FALSE
  /\ pending = {}
  /\ flushTimer = NoTimer
  /\ armed = {}
  /\ firing = {}
  /\ inFlight = {}
  /\ delivered = {}
  /\ returned = {}

Raised == pending \cup (UNION inFlight) \cup delivered \cup returned

\* Mutant of FlushBatch: d.pending is not cleared.
FlushKeepsPending(batch) ==
  /\ inFlight' = inFlight \cup {batch}
  /\ pending' = batch
  /\ flushTimer' = NoTimer

\* Hand the batch to onFlush and forget it together with its timer.
FlushBatch(batch) ==
  /\ inFlight' = inFlight \cup {batch}
  /\ pending' = {}
  /\ flushTimer' = NoTimer

\* Mutant of SetEnabled: "flush any pending immediately" is dropped.
SetEnabledDropsPending(on) ==
  /\ enabled' = on
  /\ \/ ~on /\ flushTimer # NoTimer /\ armed' = armed \ {flushTimer}
     \/ (on \/ flushTimer = NoTimer) /\ UNCHANGED armed
  /\ UNCHANGED <<pending, flushTimer, inFlight, firing, delivered, returned>>

\* Switching digest mode off stops the timer and flushes what is pending.
SetEnabled(on) ==
  /\ enabled' = on
  /\ \/ /\ ~on /\ flushTimer # NoTimer
        /\ armed' = armed \ {flushTimer}
        /\ \/ pending # {} /\ FlushBatch(pending)
           \/ pending = {} /\ UNCHANGED <<pending, flushTimer, inFlight>>
     \/ /\ on \/ flushTimer = NoTimer
        /\ UNCHANGED <<armed, pending, flushTimer, inFlight>>
  /\ UNCHANGED <<firing, delivered, returned>>

\* Digest mode is off: Add returns false.
Decline(a) ==
  /\ ~enabled
  /\ a \notin Raised
  /\ returned' = returned \cup {a}
  /\ UNCHANGED <<enabled, pending, flushTimer, armed, firing, inFlight,
                 delivered>>

\* Mutant of IsFull: ">" instead of ">=".
IsOverfull(batch) == Cardinality(batch) > MaxBatch

IsFull(batch) == Cardinality(batch) >= MaxBatch

\* Add with digest mode on.  The first alert of a batch starts a timer; the
\* MaxBatch-th stops the timer, whichever it is, and flushes.
Add(a) ==
  LET batch == pending \cup {a}
  IN
  /\ enabled
  /\ a \notin Raised
  /\ \E t \in Timers \cup {NoTimer} :
       /\ \/ pending = {} /\ t \in Timers \ (armed \cup firing)
          \/ pending # {} /\ t = flushTimer
       /\ \/ /\ IsFull(batch)
             /\ armed' = armed \ {t}
             /\ FlushBatch(batch)
          \/ /\ ~IsFull(batch)
             /\ armed' = IF pending = {} THEN armed \cup {t} ELSE armed
             /\ pending' = batch
             /\ flushTimer' = t
             /\ UNCHANGED inFlight
  /\ UNCHANGED <<enabled, firing, delivered, returned>>

\* The window of timer t is over: its goroutine calls flush.
TimerFires(t) ==
  /\ t \in armed
  /\ armed' = armed \ {t}
  /\ firing' = firing \cup {t}
  /\ UNCHANGED <<enabled, pending, flushTimer, inFlight, delivered, returned>>

\* flush gets the mutex: it takes whatever is pending by now.
TimerFlushes(t) ==
  /\ t \in firing
  /\ firing' = firing \ {t}
  /\ \/ pending # {} /\ FlushBatch(pending)
     \/ pending = {} /\ UNCHANGED <<pending, flushTimer, inFlight>>
  /\ UNCHANGED <<enabled, armed, delivered, returned>>

\* Mutant of FlushDone: the batch is recorded as if it were one alert.
FlushDoneNested(batch) ==
  /\ batch \in inFlight
  /\ inFlight' = inFlight \ {batch}
  /\ delivered' = delivered \cup {batch}
  /\ UNCHANGED <<enabled, pending, flushTimer, armed, firing, returned>>

\* An onFlush goroutine has sent its digest.
FlushDone(batch) ==
  /\ batch \in inFlight
  /\ inFlight' = inFlight \ {batch}
  /\ delivered' = delivered \cup batch
  /\ UNCHANGED <<enabled, pending, flushTimer, armed, firing, returned>>

Next ==
  \/ \E on \in BOOLEAN : SetEnabled(on)
  \/ \E a \in Alerts : Decline(a)
  \/ \E a \in Alerts : Add(a)
  \/ \E t \in Timers : TimerFires(t)
  \/ \E t \in Timers : TimerFlushes(t)
  \/ \E batch \in inFlight : FlushDone(batch)

\* Time passes, goroutines get the mutex, deliveries come to an end (every
\* channel has a timeout).  Nobody has to raise alerts or touch the switch.
Fairness ==
  /\ \A t \in Timers : WF_vars(TimerFires(t)) /\ WF_vars(TimerFlushes(t))
  /\ \A batch \in SUBSET Alerts : WF_vars(FlushDone(batch))

Spec == Init /\ [][Next]_vars /\ Fairness

-----------------------------------------------------------------------------
TypeOK ==
  /\ enabled \in BOOLEAN
  /\ pending \subseteq Alerts
  /\ flushTimer \in Timers \cup {NoTimer}
  /\ armed \subseteq Timers
  /\ firing \subseteq Timers
  /\ inFlight \subseteq SUBSET Alerts
  /\ delivered \subseteq Alerts
  /\ returned \subseteq Alerts

\* A batch is never left without a way out: while alerts are pending, digest
\* mode is on and the timer of the batch is running or about to flush it,
\* even when timers of earlier batches go off late.
NothingStranded ==
  pending # {} => /\ enabled
                  /\ flushTimer \in armed \cup firing

\* Add flushes at MaxBatch alerts: a batch never grows past that, and no
\* digest without alerts goes out.
BatchBound ==
  /\ Cardinality(pending) < MaxBatch
  /\ \A batch \in inFlight : Cardinality(batch) \in 1..MaxBatch

\* The batcher keeps the promise of AlertOutbox: accepted alerts are what is
\* pending or being delivered, and each is delivered exactly once.
Outbox == INSTANCE AlertOutbox
            WITH waiting <- pending \cup UNION inFlight, sent <- delivered

KeepsOutboxPromise == Outbox!OutboxSpec

=============================================================================
