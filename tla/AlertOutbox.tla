----------------------------- MODULE AlertOutbox -----------------------------
(***************************************************************************)
(* What the digest batcher promises to whoever hands it an alert           *)
(* (internal/notify/digest.go): an accepted alert is delivered exactly     *)
(* once, in a group of at most MaxBatch, and it is delivered eventually.   *)
(* Nothing is said about timers, windows or the digest switch.             *)
(***************************************************************************)
EXTENDS Naturals, FiniteSets

CONSTANTS
  Alerts,     (* alerts that may be raised, each at most once              *)
  MaxBatch    (* largest group: DigestBatcher.maxBatch                     *)

VARIABLES
  waiting,    (* accepted and not delivered yet                            *)
  sent        (* delivered                                                 *)

outboxVars == <<waiting, sent>>

OutboxInit == waiting = {} /\ sent = {}

\* The batcher takes responsibility for alert a.
Accept(a) ==
  /\ a \notin waiting \cup sent
  /\ waiting' = waiting \cup {a}
  /\ UNCHANGED sent

\* One notification goes out for the alerts of B.
Deliver(B) ==
  /\ B # {}
  /\ Cardinality(B) <= MaxBatch
  /\ waiting' = waiting \ B
  /\ sent' = sent \cup B

OutboxNext ==
  \/ \E a \in Alerts : Accept(a)
  \/ \E B \in SUBSET waiting : Deliver(B)

DeliverWith(a) == \E B \in SUBSET waiting : a \in B /\ Deliver(B)

OutboxSpec ==
  /\ OutboxInit
  /\ [][OutboxNext]_outboxVars
  /\ \A a \in Alerts : WF_outboxVars(DeliverWith(a))

=============================================================================
