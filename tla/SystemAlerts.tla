---------------------------- MODULE SystemAlerts ----------------------------
(***************************************************************************)
(* Table system_alerts (alerts.go).  The notification engine raises a      *)
(* warning per model, from the goroutines of polls and requests; the page  *)
(* dismisses alerts, and every poll deletes those dismissed long ago.      *)
(* CreateAlert looks for an active alert of its type and then updates it   *)
(* or inserts one: two statements, no transaction, and a query that fails  *)
(* passes for one that finds nothing.  Names of models that differ only in *)
(* what sanitizeAlertKeyPart folds make one type.                          *)
(***************************************************************************)
EXTENDS Naturals

CONSTANTS
  Raisers,       (* goroutines that may be raising an alert                *)
  AlertTypes,
  MaxRaised      (* bound on alerts raised                                 *)

ASSUME AlertsAssumption == AlertTypes # {} /\ MaxRaised \in Nat

VARIABLES
  alerts,        (* the table: [id, type, dismissed, text]                 *)
  found,         (* the id a goroutine found, 0 for none, Idle when it is   *)
  raising,       (* type and text it raises                                *)
  raised,        (* alerts raised so far: also their texts                 *)
  (* history *)
  overlap,       (* types two goroutines raised at once, or dismissed meanwhile *)
  unread,        (* types whose active alert a failing query has missed     *)
  newest         (* the text of a type's alert raised last, 0: dismissed since *)

alertVars == <<alerts, found, raising, raised, overlap, unread, newest>>

Idle == MaxRaised + 1   \* no id

AlertsTypeOK ==
  /\ raised \in 0 .. MaxRaised
  /\ alerts \subseteq [id : 1 .. raised, type : AlertTypes, dismissed : BOOLEAN, text : 1 .. raised]
  /\ found \in [Raisers -> 0 .. raised \cup {Idle}]
  /\ raising \in [Raisers -> [type : AlertTypes, text : 0 .. raised]]
  /\ overlap \subseteq AlertTypes
  /\ unread \subseteq AlertTypes
  /\ newest \in [AlertTypes -> 0 .. raised]

AlertsInit ==
  /\ alerts = {}
  /\ found = [r \in Raisers |-> Idle]
  /\ raising = [r \in Raisers |-> [type |-> CHOOSE t \in AlertTypes : TRUE, text |-> 0]]
  /\ raised = 0
  /\ overlap = {}
  /\ unread = {}
  /\ newest = [t \in AlertTypes |-> 0]

Active(t) == {a \in alerts : a.type = t /\ ~a.dismissed}
Raising(t) == {r \in Raisers : found[r] # Idle /\ raising[r].type = t}

\* Mutant: dismissed alerts are found too.
FindEver(t) == {a \in alerts : a.type = t}

\* SELECT ... WHERE alert_type = ? AND dismissed = 0 LIMIT 1
Find(t) == Active(t)

\* CreateAlert begins.  Any error of the query means that there is none.
FindAlert(r, t) ==
  /\ found[r] = Idle /\ raised < MaxRaised
  /\ raised' = raised + 1
  /\ raising' = [raising EXCEPT ![r] = [type |-> t, text |-> raised + 1]]
  /\ \/ Find(t) = {} /\ found' = [found EXCEPT ![r] = 0] /\ unread' = unread \ {t}
     \/ /\ \E a \in Find(t) : found' = [found EXCEPT ![r] = a.id]
        /\ UNCHANGED unread
     \/ Find(t) # {} /\ found' = [found EXCEPT ![r] = 0] /\ unread' = unread \cup {t}
  /\ overlap' = IF Raising(t) = {} THEN overlap ELSE overlap \cup {t}
  /\ UNCHANGED <<alerts, newest>>

\* It inserts an alert, or updates the one it found, whatever became of it.
StoreAlert(r) ==
  /\ found[r] # Idle
  /\ LET new == raising[r]
     IN /\ alerts' = IF found[r] = 0
              THEN alerts \cup {[id |-> new.text, type |-> new.type,
                                 dismissed |-> FALSE, text |-> new.text]}
              ELSE {IF a.id = found[r] THEN [a EXCEPT !.text = new.text] ELSE a
                    : a \in alerts}
        /\ newest' = [newest EXCEPT ![new.type] = new.text]
  /\ found' = [found EXCEPT ![r] = Idle]
  /\ UNCHANGED <<raising, raised, overlap, unread>>

\* The statement fails; the goroutine gives up.
StoreAlertFails(r) ==
  /\ found[r] # Idle
  /\ found' = [found EXCEPT ![r] = Idle]
  /\ UNCHANGED <<alerts, raising, raised, overlap, unread, newest>>

\* DismissAlert, from the page.
Dismiss(a) ==
  /\ ~a.dismissed
  /\ alerts' = (alerts \ {a}) \cup {[a EXCEPT !.dismissed = TRUE]}
  /\ overlap' = IF Raising(a.type) = {} THEN overlap ELSE overlap \cup {a.type}
  /\ newest' = [newest EXCEPT ![a.type] = 0]
  /\ UNCHANGED <<found, raising, raised, unread>>

\* CleanupExpiredAlerts, at the end of a poll.
Cleanup ==
  /\ \E old \in SUBSET {a \in alerts : a.dismissed} : old # {} /\ alerts' = alerts \ old
  /\ UNCHANGED <<found, raising, raised, overlap, unread, newest>>

AlertsNext ==
  \/ \E r \in Raisers :
       (\E t \in AlertTypes : FindAlert(r, t)) \/ StoreAlert(r) \/ StoreAlertFails(r)
  \/ \E a \in alerts : Dismiss(a)
  \/ Cleanup

AlertsSpec == AlertsInit /\ [][AlertsNext]_alertVars

-----------------------------------------------------------------------------
\* There is at most one active alert of a type (alerts.go, CreateAlert: "with
\* deduplication"), unless two were raised at once, or a query failed since there
\* was none: its error makes CreateAlert insert one more.
OneActive == \A t \in AlertTypes \ (overlap \cup unread) : \A a, b \in Active(t) : a = b

\* What was raised last is shown until it is dismissed, also among duplicates: an
\* alert raised while the one it found is being dismissed is swallowed, in no other
\* case.
RaisedIsShown ==
  \A t \in AlertTypes \ overlap :
    newest[t] # 0 => \E a \in Active(t) : a.text = newest[t]

\* A type has one active alert, but for goroutines that overlap and queries that
\* fail, and what is raised last is seen, but for the former (alerts.go, CreateAlert).
AlertsHold == OneActive /\ RaisedIsShown
=============================================================================
