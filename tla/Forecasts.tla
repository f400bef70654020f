------------------------------- MODULE Forecasts -------------------------------
(***************************************************************************)
(* Time to exhaustion and cost, from the readings of the last hour: of the *)
(* models of a quota group of Antigravity (forecast.go, costtrack.go), and *)
(* of a window of Claude Code or Codex (compute.go).                       *)
(*                                                                         *)
(* What is left of a quota is a number of steps of Full; a rate is a ratio *)
(* of steps to hours; readings are a multiple of ten minutes apart.        *)
(***************************************************************************)
EXTENDS Sums

CONSTANTS
  Models,        (* of one group                                           *)
  Optional,      (* those a reading may lack                               *)
  Full,
  MaxReadings

ASSUME ForecastAssumption == IsFiniteSet(Models) /\ Full \in Nat /\ MaxReadings \in Nat

VARIABLE usage   (* [readings, recent, reset, told, rows, sinceMidnight]    *)

Absent == -1
NoTime == -1
Gaps == {0, 1, 2}       \* tens of minutes since the reading before

Readings ==
  [after : Gaps, left : {l \in [Models -> {Absent} \cup 0 .. Full] :
                           \A m \in Models \ Optional : l[m] # Absent}]

Usages ==
  {q \in [readings : Seq(Readings), recent : Nat, reset : Nat \cup {NoTime},
          told : {"id", "label"}, rows : {"program", "clock"}, sinceMidnight : Nat] :
     q.recent <= Len(q.readings) /\ q.sinceMidnight <= Len(q.readings)}

Told(rs, recent, reset, told, rows, since) ==
  [readings |-> rs, recent |-> recent, reset |-> reset, told |-> told, rows |-> rows,
   sinceMidnight |-> since]
NoUsage == Told(<<>>, 0, NoTime, "id", "program", 0)

\* recent: the last readings that are not older than an hour; reset: in how many
\* hours, 0 when it has passed.  told: what the group of a model is known from, its
\* identifier or only its label.
StartsGroup(n, rs) ==
  \E k \in {n - 1, n}, reset \in {NoTime, 0, 1}, told \in {"id", "label"} :
    /\ <<k = n, reset, told>> \in {<<TRUE, 1, "id">>, <<FALSE, NoTime, "id">>} \cup
         IF n < MaxReadings
           THEN {<<TRUE, NoTime, "id">>, <<TRUE, 0, "id">>, <<TRUE, 1, "label">>} ELSE {}
    /\ usage = Told(rs, k, reset, told, "program", 0)

\* rows: who wrote the times; sinceMidnight: how many of the readings are that new.
StartsWindow(n, rs) ==
  /\ \A i \in 1 .. n : \A m \in Models \ Optional : rs[i].left[m] = Full
  /\ \E k \in 0 .. n, w \in {"program", "clock"} : usage = Told(rs, n, NoTime, "id", w, k)

ForecastInit ==
  \E n \in 1 .. MaxReadings : \E rs \in {s \in [1 .. n -> Readings] : s[1].after = 0} :
    StartsGroup(n, rs) \/ StartsWindow(n, rs)

-----------------------------------------------------------------------------
(* Ratios of natural numbers                                               *)

Ratio(a, b) == [num |-> a, den |-> b]
AtMost(x, y) == x.num * y.den <= y.num * x.den
Less(x, y) == x.num * y.den < y.num * x.den
PlusRatio(x, y) == Ratio(x.num * y.den + y.num * x.den, x.den * y.den)
Quotient(x, y) == Ratio(x.num * y.den, x.den * y.num)
NoRate == Ratio(0, 1)

-----------------------------------------------------------------------------
\* Neighbours that both tell of the model, taken at different times.
Pairs(rs, m) ==
  {i \in 2 .. Len(rs) : /\ rs[i - 1].left[m] # Absent /\ rs[i].left[m] # Absent
                        /\ rs[i].after > 0}
Consumed(rs, m, i) == rs[i - 1].left[m] - rs[i].left[m]
PerHour(rs, m, i) == (6 \div rs[i].after) * Consumed(rs, m, i)

\* Mutant of Decreases: readings that did not change count as a rate of zero.
NotIncreases(rs, m) == {i \in Pairs(rs, m) : Consumed(rs, m, i) >= 0}

\* More left, or as much: a reset, a correction, or idle.  Not counted.
Decreases(rs, m) == {i \in Pairs(rs, m) : Consumed(rs, m, i) > 0}

\* Average of the rates, weighted by 1 + (place in the sequence) / of.
Weighted(rs, m, of) ==
  LET counted == Decreases(rs, m)
      weight  == [i \in counted |-> of + (i - 2)]
      share   == [i \in counted |-> PerHour(rs, m, i) * weight[i]]
  IN  IF counted = {} THEN NoRate ELSE Ratio(SumOver(share, counted), SumOver(weight, counted))

\* ComputeRates: of the pairs the model has; nothing from less than two readings,
\* or ten minutes.
Span(rs) == SumOver([i \in 2 .. Len(rs) |-> rs[i].after], 2 .. Len(rs))
ModelRate(rs, m) ==
  IF Len(rs) < 2 \/ Span(rs) < 1 THEN NoRate
    ELSE Weighted(rs, m, Cardinality(Pairs(rs, m)))

Recent(q) == SubSeq(q.readings, Len(q.readings) - q.recent + 1, Len(q.readings))

\* The latest reading, whether recent or not, with ApplyResetInference.
Latest(q) == q.readings[Len(q.readings)].left
Present(q) == IF q.readings = <<>> THEN {} ELSE {m \in Models : Latest(q)[m] # Absent}
LeftNow(q, m) == IF q.reset = 0 THEN Full ELSE Latest(q)[m]

Rates(q) == LET rs == Recent(q) IN [m \in Models |-> ModelRate(rs, m)]
Rated(rates) == {m \in Models : rates[m] # NoRate}

\* Averages: of the rates over the models that have one, of what is left over
\* those in the latest reading.
RateSum(rates, S) == FoldSet(LAMBDA m, acc : PlusRatio(acc, rates[m]), NoRate, S)
BurnRate(rates) ==
  LET sum == RateSum(rates, Rated(rates))
  IN  IF Rated(rates) = {} THEN NoRate ELSE Ratio(sum.num, sum.den * Cardinality(Rated(rates)))
Remaining(q) ==
  IF Present(q) = {} THEN Ratio(0, 1)
    ELSE Ratio(SumOver([m \in Present(q) |-> LeftNow(q, m)], Present(q)), Cardinality(Present(q)))

Severity(hours) ==
  IF Less(hours, Ratio(1, 2)) THEN "critical"
    ELSE IF Less(hours, Ratio(1, 1)) THEN "warning"
    ELSE IF Less(hours, Ratio(3, 1)) THEN "caution" ELSE "safe"

NoForecast == [hours |-> Ratio(0, 1), severity |-> "none", willExhaust |-> FALSE, confident |-> FALSE]

\* ComputeGroupForecasts.  hours of what is known to last has no meaning when no
\* rate is known.
ForecastFrom(burn, left, reset) ==
  LET hours == IF burn.num > 0 THEN Quotient(left, burn) ELSE Ratio(0, 1)
  IN  [hours       |-> hours,
       severity    |-> IF left.num > 0 /\ burn.num = 0 THEN "safe" ELSE Severity(hours),
       willExhaust |-> /\ burn.num > 0 /\ left.num > 0 /\ reset > 0
                       /\ Less(hours, Ratio(reset, 1)),
       confident   |-> burn # NoRate]
GroupForecast(q, rates) ==
  IF Rated(rates) = {} /\ Present(q) = {} THEN NoForecast
    ELSE ForecastFrom(BurnRate(rates), Remaining(q), q.reset)

\* computeAccountForecasts: for accounts with two recent readings.  Models are
\* grouped by their identifiers; if only labels tell, they are in the group of
\* unknown models, and this group has no forecast.
AccountForecast(q) ==
  IF q.recent < 2 \/ q.told = "label" THEN NoForecast ELSE GroupForecast(q, Rates(q))

\* computeAccountCosts: an account with forecasts has a cost where they are
\* confident; without forecasts the latest reading, grouped by labels too, has one.
CostShown(q, forecast) == IF q.recent >= 2 THEN forecast.confident ELSE Present(q) # {}

\* EstimateGroupCost: of the steps used, each for the same price.
GroupCost(q, shown) ==
  LET left == Remaining(q)
  IN  IF shown THEN Ratio(Full * left.den - left.num, left.den) ELSE NoRate

-----------------------------------------------------------------------------
\* Rows of Claude Code and Codex found by `captured_at >= since`, a text of the
\* program: those of the database's clock only when a midnight (UTC) was less
\* than an hour ago, and only since.
FoundReadings(q) ==
  LET n == IF q.rows = "program" THEN q.recent ELSE q.sinceMidnight
  IN  SubSeq(q.readings, Len(q.readings) - n + 1, Len(q.readings))

\* computeSimpleRate, computeCodexRate: of all neighbours.
WindowRate(rs, m) == IF Len(rs) < 2 THEN NoRate ELSE Weighted(rs, m, Len(rs) - 1)

\* computeClaudeForecasts, computeCodexForecasts.
WindowForecast(rs, m) ==
  LET rate == WindowRate(rs, m)
  IN  IF rate = NoRate \/ rs[Len(rs)].left[m] = Absent THEN NoForecast
        ELSE LET hours == Quotient(Ratio(rs[Len(rs)].left[m], 1), rate)
             IN  [NoForecast EXCEPT !.hours = hours, !.severity = Severity(hours), !.confident = TRUE]

\* handleForecast, handleCost: what is said of the group, its cost and the windows.
SaidWith(q, forecast, shown) ==
  [group |-> forecast, costed |-> shown, cost |-> GroupCost(q, shown),
   windows |-> {m \in Models : WindowForecast(FoundReadings(q), m) # NoForecast}]
Said(q) ==
  LET forecast == AccountForecast(q) IN SaidWith(q, forecast, CostShown(q, forecast))

-----------------------------------------------------------------------------
\* Neighbours between which a model was used.
Uses(rs, m) == {i \in Pairs(rs, m) : Consumed(rs, m, i) > 0}

\* A rate is known when a use was observed over at least ten minutes, and lies
\* between the slowest and the fastest use: resets and idle times do not slow it
\* (forecast.go: "SKIP this interval entirely").
RatesAreObserved ==
  LET rs == Recent(usage)
  IN  \A m \in Models :
        LET rate == ModelRate(rs, m)
        IN  /\ (rate # NoRate) <=> (Uses(rs, m) # {} /\ Span(rs) >= 1)
            /\ rate # NoRate =>
                 /\ \E i \in Uses(rs, m) : AtMost(rate, Ratio(PerHour(rs, m, i), 1))
                 /\ \E i \in Uses(rs, m) : AtMost(Ratio(PerHour(rs, m, i), 1), rate)

\* When every model of the group is in use, the group lasts no shorter than the
\* model that ends first and no longer than the one that ends last; so it is
\* said to end before the reset when all of them will, and not when none will.
GroupLastsLikeModels(said, rates) ==
  LET q == usage
      Ends(m) == Quotient(Ratio(LeftNow(q, m), 1), rates[m])
      f == said.group
  IN  f # NoForecast /\ Rated(rates) # {} /\ Rated(rates) = Present(q) =>
        /\ \E m \in Present(q) : AtMost(Ends(m), f.hours)
        /\ \E m \in Present(q) : AtMost(f.hours, Ends(m))
        /\ q.reset > 0 =>
             /\ (\A m \in Present(q) : LeftNow(q, m) > 0 /\ Less(Ends(m), Ratio(q.reset, 1)))
                  => f.willExhaust
             /\ (\A m \in Present(q) : ~Less(Ends(m), Ratio(q.reset, 1))) => ~f.willExhaust

\* The three implementations of the rate agree on a quota that is in all readings,
\* taken at different times.
RatesAgree ==
  LET rs == Recent(usage)
  IN  \A m \in Models :
        Len(rs) >= 2 /\ Cardinality(Pairs(rs, m)) = Len(rs) - 1 =>
          ModelRate(rs, m) = WindowRate(rs, m)

\* The cost of what was used is shown unless two readings of the last hour show no
\* use at all, or only labels tell the group: polling an idle account hides what it
\* has cost.  It is that of the use of some model of the group, or between two.
CostsNeedUse(said) ==
  LET q == usage
      Used(m) == Ratio(Full - LeftNow(q, m), 1)
  IN  Present(q) # {} =>
        /\ said.costed <=>
             \/ q.recent < 2
             \/ /\ q.told = "id" /\ Span(Recent(q)) >= 1
                /\ \E m \in Models : Uses(Recent(q), m) # {}
        /\ said.costed => /\ \E m \in Present(q) : AtMost(Used(m), said.cost)
                          /\ \E m \in Present(q) : AtMost(said.cost, Used(m))

\* A window of Claude Code or Codex in use is forecast when its rows came by an
\* import; rows of the program's own captures only just after midnight.
WindowsNeedImports(said) ==
  LET q == usage
  IN  said.windows # {} =>
        q.rows = "program" \/ q.sinceMidnight >= 2

\* Forecasts and costs follow from what was observed (forecast.go, compute.go,
\* costtrack.go).
ForecastsHold ==
  usage.readings # <<>> => LET said == Said(usage) IN
      /\ RatesAreObserved /\ RatesAgree /\ GroupLastsLikeModels(said, Rates(usage))
      /\ CostsNeedUse(said) /\ WindowsNeedImports(said)
=============================================================================
