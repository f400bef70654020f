---------------------------- MODULE Subscriptions ----------------------------
(***************************************************************************)
(* Subscriptions, what is said of their renewals and trials, and their     *)
(* total against the budget: subscriptions.go, handlers_subscriptions.go,  *)
(* and ComputeBudgetForecast of summary.go.                                *)
(*                                                                         *)
(* Times are hours since a midnight (UTC); dates are days, each the hour   *)
(* of its midnight when it is parsed.                                      *)
(***************************************************************************)
EXTENDS Integers, SequencesExt

CONSTANTS
  SubIds,
  Zones,        \* hours ahead of UTC
  RetentionDays,
  RenewalLimit, \* of the renewals an overview lists
  MaxEdits, MaxHours

\* Zones are less than a day away from UTC.
ASSUME LedgerAssumption ==
  IsFiniteSet(SubIds) /\ Zones \subseteq -23 .. 23 /\ RetentionDays \in Nat
  /\ RenewalLimit \in Nat \ {0}

VARIABLES
  ledger,        \* the subscriptions
  clock,         \* hours since the start
  zone,          \* of the server
  row,           \* from when the newest row is in the table of its provider
  byHand,        \* when the tracked account was captured by hand last
  edits          \* number of changes so far

ledgerVars == <<ledger, clock, zone, row, byHand, edits>>

NoDate == -1
NoSub == [status |-> "none"]
NoTimeYet == -1

\* What users enter.  An update stores a missing field as it is: a status of "".
Offer(status, cycle, cost, renewal, trialEnds, auto) ==
  [status |-> status, cycle |-> cycle, cost |-> cost, renewal |-> renewal,
   trialEnds |-> trialEnds, auto |-> auto]
Offers ==
  {Offer(s, "monthly", 12, 3, NoDate, FALSE) : s \in {"active", "cancelled", ""}}
    \cup {Offer("active", "annual", 120, 0, NoDate, FALSE),
          Offer("active", "lifetime", 240, NoDate, NoDate, FALSE),
          Offer("trial", "monthly", 12, NoDate, 4, FALSE),
          Offer("active", "monthly", 12, NoDate, NoDate, TRUE)}
Budget == 20

\* Captures of the agent have no row in the table that is asked.
LedgerNew ==
  /\ ledger = [s \in SubIds |-> NoSub]
  /\ clock = 0 /\ row = NoTimeYet /\ byHand = NoTimeYet /\ edits = 0
LedgerIdle == zone = 0
LedgerInit == LedgerNew /\ zone \in Zones

Dates == Nat \cup {NoDate}
SubRecords ==
  [status : {"active", "trial", "cancelled", ""}, cycle : {"monthly", "annual", "lifetime"},
   cost : Nat, renewal : Dates, trialEnds : Dates, auto : BOOLEAN]
LedgerTypeOK ==
  /\ ledger \in [SubIds -> {NoSub} \cup SubRecords]
  /\ clock \in Nat /\ zone \in Zones /\ edits \in Nat
  /\ row \in Nat \cup {NoTimeYet} /\ byHand \in Nat \cup {NoTimeYet}

-----------------------------------------------------------------------------
Store(s, sub) ==
  /\ edits < MaxEdits /\ edits' = edits + 1
  /\ ledger' = [ledger EXCEPT ![s] = sub]
  /\ UNCHANGED <<clock, zone, row, byHand>>

\* createSubscription gives a missing status its default.
Create(s) ==
  /\ ledger[s] = NoSub
  /\ \E o \in Offers : Store(s, IF o.status = "" THEN [o EXCEPT !.status = "active"] ELSE o)

\* updateSubscription does not.
Update(s) == ledger[s] # NoSub /\ \E o \in Offers : Store(s, o)

Delete(s) == ledger[s] # NoSub /\ Store(s, NoSub)

\* Once a day at most.
CaptureByHand ==
  /\ clock % 24 = 0 /\ byHand # clock
  /\ row' = clock /\ byHand' = clock
  /\ UNCHANGED <<ledger, clock, zone, edits>>

\* DeleteSnapshotsOlderThan, at the user's request.
DeleteOldRows ==
  /\ row # NoTimeYet /\ clock - row > RetentionDays * 24
  /\ row' = NoTimeYet
  /\ UNCHANGED <<ledger, clock, zone, byHand, edits>>

\* A third of a day, until the dates of the offers have passed, or a month.
Passes ==
  \E d \in IF clock < 6 * 24 THEN {8, 30 * 24} ELSE {30 * 24} :
    /\ clock + d <= MaxHours
    /\ clock' = clock + d
    /\ UNCHANGED <<ledger, zone, row, byHand, edits>>

LedgerNext ==
  \/ \E s \in SubIds : Create(s) \/ Update(s) \/ Delete(s)
  \/ CaptureByHand \/ DeleteOldRows \/ Passes

LedgerSpec == LedgerInit /\ [][LedgerNext]_ledgerVars

-----------------------------------------------------------------------------
Known == {s \in SubIds : ledger[s] # NoSub}
Current == {s \in Known : ledger[s].status \in {"active", "trial"}}

ToMonthly(sub) ==
  IF sub.cycle = "annual" THEN sub.cost \div 12 ELSE IF sub.cycle = "lifetime" THEN 0 ELSE sub.cost
MonthlyOf(S) == MapThenSumSet(LAMBDA s : ToMonthly(ledger[s]), S)

\* Division of hours by 24, as in Go's int() and in math.Ceil.
Truncated(hours) == IF hours < 0 THEN -((-hours) \div 24) ELSE hours \div 24
RoundedUp(hours) == -((-hours) \div 24)
Until(date) == 24 * date - clock

\* Mutant of DaysLeft: rounded down.
DaysRoundedDown(date) == Until(date) \div 24

DaysLeft(date) == Truncated(Until(date))

\* GenerateInsights: for current subscriptions, whatever their billing cycle.
RenewalInsights ==
  {s \in Current : ledger[s].renewal # NoDate /\ DaysLeft(ledger[s].renewal) \in 0 .. 3}
TrialInsights ==
  {s \in Current : /\ ledger[s].status = "trial" /\ ledger[s].trialEnds # NoDate
                   /\ DaysLeft(ledger[s].trialEnds) \in 0 .. 5}
LastSeen == row
UnusedInsights ==
  {s \in Current : /\ ledger[s].auto /\ LastSeen # NoTimeYet
                   /\ Truncated(clock - LastSeen) > 30}
BudgetExceeded == MonthlyOf(Current) > Budget

\* SubscriptionOverview, ComputeBudgetForecast: of all subscriptions.
OnTrack == MonthlyOf(Known) <= Budget

\* UpcomingRenewals: from the date of the local time on, the earliest ones up to the
\* limit; of those of one day, any.
Today == (clock + zone) \div 24
DueRenewals == {s \in Current : ledger[s].renewal # NoDate /\ ledger[s].renewal >= Today}
UpcomingRenewals ==
  {L \in SUBSET DueRenewals :
     /\ Cardinality(L) <= RenewalLimit
     /\ L # DueRenewals => Cardinality(L) = RenewalLimit
     /\ \A s \in L, t \in DueRenewals \ L : ledger[s].renewal <= ledger[t].renewal}

\* handleOverview and listSubscriptions count the days of an upcoming renewal; L are
\* the ones that are listed.
DaysUntilRenewal(s) == RoundedUp(Until(ledger[s].renewal))
Overview(L) ==
  [renewals |-> {<<s, DaysUntilRenewal(s)>> : s \in L},
   imminent |-> RenewalInsights, trials |-> TrialInsights, unused |-> UnusedInsights,
   exceeded |-> BudgetExceeded, onTrack |-> OnTrack]

-----------------------------------------------------------------------------
\* What renews within three days is announced from then to the end of its day (UTC),
\* a trial's end from five days before: never later, though a subscription renews
\* every month or year.
AnnouncedInTime(v) ==
  LET in(date, hours) == date # NoDate /\ Until(date) > -24 /\ Until(date) <= hours
  IN  \A s \in Current :
        /\ in(ledger[s].renewal, 3 * 24) => s \in v.imminent
        /\ s \in v.imminent => in(ledger[s].renewal, 4 * 24)
        /\ ledger[s].status = "trial" /\ in(ledger[s].trialEnds, 5 * 24) => s \in v.trials
        /\ s \in v.trials => in(ledger[s].trialEnds, 6 * 24)

\* Without a time zone the renewals that are announced are among the upcoming ones,
\* with a day more to go, or on the day itself as many; with one, only those that are
\* a day ahead.  One that is missing gave way to a full list of ones no later.
ListedAsAnnounced(v) ==
  /\ \A s \in v.imminent : zone <= 0 \/ Until(ledger[s].renewal) > 0 =>
       LET listed == {r[1] : r \in v.renewals}
       IN  \/ \E d \in {0, 1} : <<s, DaysLeft(ledger[s].renewal) + d>> \in v.renewals
           \/ /\ s \notin listed /\ Cardinality(listed) = RenewalLimit
              /\ \A t \in listed : ledger[t].renewal <= ledger[s].renewal
  /\ \A r \in v.renewals : r[2] < 0 => zone < 0 /\ r[1] \notin v.imminent

\* A tracked subscription is said to be unused from 31 days after the account was
\* captured by hand, while the row of that capture is kept: whatever the agent
\* captures, and not any more once the row is deleted.
UnusedMeansNotByHand(v) ==
  LET days == (clock - byHand) \div 24
  IN  /\ v.unused # {} => byHand # NoTimeYet /\ days > 30
      /\ byHand # NoTimeYet /\ days \in 31 .. RetentionDays - 1 =>
           {s \in Current : ledger[s].auto} \subseteq v.unused

\* Who exceeds the budget is not on track; who is not on track exceeds it unless
\* subscriptions that are neither active nor a trial are counted.
BudgetsAgree(v) ==
  /\ v.exceeded => ~v.onTrack
  /\ ~v.onTrack /\ ~v.exceeded =>
       \E s \in Known \ Current : ToMonthly(ledger[s]) > 0

\* The overview of any subscriptions tells of renewals in time, of disuse and of the
\* budget as recorded.
OverviewHolds ==
  Known # {} => \A L \in UpcomingRenewals : LET v == Overview(L) IN
      AnnouncedInTime(v) /\ ListedAsAnnounced(v) /\ UnusedMeansNotByHand(v) /\ BudgetsAgree(v)
=============================================================================
