---------------------------- MODULE AccountAdvice ----------------------------
(***************************************************************************)
(* Which accounts are ready and which to use next, from the latest reading *)
(* of each: readiness.go, estimate.go, summary.go and advisor.go.          *)
(*                                                                         *)
(* Quotas are percents; times are minutes for resets, hours for windows.   *)
(***************************************************************************)
EXTENDS Sums

CONSTANT MaxModels   \* in a reading of which only the readiness is asked

VARIABLE fleet   (* [accounts, window]                                     *)

\* Models by identifier or label; "gemini": neither flash nor pro.  TodaysModels: the
\* Gemini models as the program names them today.
Flash == {"m133", "m20", "flash"}
Pro == {"m16", "m36", "pro"}
TodaysModels == {"m133", "m20", "m16", "m36"}
GeminiModels == Flash \cup Pro \cup {"gemini"}
ModelNames == GeminiModels \cup {"claude", "other"}

\* A reset in so many minutes, or one of these; TodayReset has passed within a day.
NoReset == -1
TodayReset == -2
OldReset == -3

\* models: the order of the reading.  cycle: the age in half hours of the reset cycle
\* of its first model, in which 50 percent have been used; 0 when none is of age.
Seen(models, reset, stale, cycle) ==
  [models |-> models, reset |-> reset, stale |-> stale, cycle |-> cycle]
Entry(n, left) == [name |-> n, left |-> left, exhausted |-> left = 0]
NoWindow == [kind |-> "none", reset |-> 0, used |-> 0, now |-> 0]
NoFleet == [accounts |-> <<>>, window |-> NoWindow]

\* Readings of any models, in which each of today's models is named once at most.
ModelEntries ==
  {e \in [name : ModelNames, left : 0 .. 100, exhausted : BOOLEAN] : e.exhausted <=> e.left = 0}
SeenAccounts ==
  {acct \in [models : Seq(ModelEntries), reset : Nat \cup {NoReset, TodayReset, OldReset},
             stale : BOOLEAN, cycle : Nat] :
     \A i, j \in DOMAIN acct.models :
       acct.models[i].name = acct.models[j].name /\ acct.models[i].name \in TodaysModels => i = j}
Fleets ==
  [accounts : Seq(SeenAccounts),
   window : [kind : {"none", "five", "seven", "cursor", "copilot"}, reset : Nat, used : Nat,
             now : Nat]]

Shapes == {<<Entry("claude", l)>> : l \in {0, 8, 50, 100}}
  \cup {<<Entry("claude", 0), Entry("m133", 100)>>, <<Entry("claude", 50), Entry("m133", 8)>>}

Resets == {NoReset, TodayReset, OldReset, 0, 30, 60}

\* An account alone; two to choose from; a window of another provider, captured at 0.
AdviceInit ==
  \/ \E n \in 0 .. MaxModels : \E ms \in [1 .. n -> ModelNames], ls \in [1 .. n -> {0, 100}],
       r \in {NoReset, TodayReset, OldReset} :
         /\ \A i, j \in 1 .. n : i # j => ms[i] # ms[j]
         /\ fleet = [NoFleet EXCEPT !.accounts =
              <<Seen([i \in 1 .. n |-> Entry(ms[i], ls[i])], r, r = OldReset, 0)>>]
  \/ \E ms, ns \in Shapes, r, q \in Resets, s, t \in BOOLEAN, c, d \in {0, 1, 2} :
         /\ (r = OldReset => s) /\ (q = OldReset => t)
         /\ fleet = [NoFleet EXCEPT !.accounts = <<Seen(ms, r, s, c), Seen(ns, q, t, d)>>]
  \/ \E k \in {"five", "seven", "cursor", "copilot"}, r \in {5, 24, 168, 700}, u \in {0, 100},
       now \in 0 .. 900 : fleet = [NoFleet EXCEPT !.window =
                                     [kind |-> k, reset |-> r, used |-> u, now |-> now]]

-----------------------------------------------------------------------------
(* Readiness                                                               *)

GroupForModel(e) ==
  IF e.name \in GeminiModels THEN "gemini" ELSE IF e.name = "claude" THEN "claude" ELSE "unknown"

InFamily(models, family) == {i \in DOMAIN models : models[i].name \in family}
FirstNamed(models, S) == models[Min(S)]

\* The models that stand for their family: the main one, or else the first of them.
Reference(models, family, main) ==
  IF InFamily(models, {main}) # {} THEN InFamily(models, {main}) ELSE InFamily(models, family)

\* Gemini models of unknown families only.
Lost(models) == InFamily(models, GeminiModels) # {} /\ InFamily(models, Flash \cup Pro) = {}

\* The entry of one of today's Gemini models: its own, or that of the reference of its
\* family, or of the other family.  Without a reference of either: nothing left,
\* though not marked as exhausted.
TodayEntry(models, n) ==
  LET flash == Reference(models, Flash, "m133")
      pro   == Reference(models, Pro, "m16")
      mine  == IF n \in Flash THEN flash ELSE pro
      found == IF InFamily(models, {n}) # {} THEN InFamily(models, {n})
                 ELSE IF mine # {} THEN mine ELSE flash \cup pro
  IN  IF found = {} THEN [name |-> n, left |-> 0, exhausted |-> FALSE]
                    ELSE [FirstNamed(models, found) EXCEPT !.name = n]

\* <<place, entry>>: the other models at their places, and, if there are Gemini models,
\* the entries of today's Gemini models.
Upgraded(models) ==
  {<<i, models[i]>> : i \in DOMAIN models \ InFamily(models, GeminiModels)}
    \cup {<<0, TodayEntry(models, n)>> :
            n \in IF InFamily(models, GeminiModels) = {} THEN {} ELSE TodaysModels}

\* ApplyResetInference: everything left, for a day after the reset.  What stands for
\* a missing reference has no reset.
Inferred(acct, e) ==
  IF /\ acct.reset = TodayReset
     /\ GroupForModel(e) = "gemini" => InFamily(acct.models, Flash \cup Pro) # {}
    THEN Entry(e.name, 100) ELSE e

Corrected(acct) == {<<p[1], Inferred(acct, p[2])>> : p \in Upgraded(acct.models)}

\* GroupModels: of each group the average of what is left, and whether a model of it
\* is exhausted.
OfGroup(models, g) == {p \in models : GroupForModel(p[2]) = g}
GroupOf(models, g) ==
  LET S == OfGroup(models, g)
  IN  [left      |-> Average([p \in S |-> p[2].left], S),
       exhausted |-> \E p \in S : p[2].exhausted \/ p[2].left <= 0,
       group     |-> g]
GroupModels(models) == {GroupOf(models, g) : g \in {GroupForModel(p[2]) : p \in models}}

\* Calculate, with threshold 0.
Ready(groups) == groups # {} /\ \A g \in groups : ~g.exhausted /\ g.left > 0
IsReady(acct) == Ready(GroupModels(Corrected(acct)))

-----------------------------------------------------------------------------
(* The advisor                                                             *)

\* UsageSummaryForModel: percents an hour, averaged over a cycle of half an hour or
\* more.  Resets are not inferred.
HasIntelligence(acct) == acct.cycle > 0
CurrentRate(acct) == 100 \div acct.cycle
BurnRateBonus(acct) ==
  IF ~HasIntelligence(acct) THEN 50
    ELSE IF CurrentRate(acct) > 100 THEN 0 ELSE 100 - CurrentRate(acct)

RemainingPct(groups) ==
  IF groups = {} THEN 0 ELSE Average([g \in groups |-> g.left], groups)

\* 0 when unknown, passed or due within the minute; what stands for a missing
\* reference has no reset.
MinutesToReset(acct) ==
  IF acct.reset > 0 /\ InFamily(acct.models, ModelNames \ {"gemini"}) # {} THEN acct.reset ELSE 0

\* Out of 100 over five hours.
ResetBonus(remaining, minutes) ==
  IF remaining < 20 /\ minutes > 0
    THEN IF minutes > 300 THEN 0 ELSE 100 - minutes \div 3
    ELSE 50

\* Mutant of Score: old readings count in full.
ScoreAlways(weighted, stale) == 10 * weighted

\* In hundredths of a point; of an account not captured for six hours, 3 of 10.
Score(weighted, stale) == (IF stale THEN 3 ELSE 10) * weighted

ScoreAccount(acct) ==
  LET groups    == GroupModels(Corrected(acct))
      remaining == RemainingPct(groups)
      minutes   == MinutesToReset(acct)
  IN  [score |-> Score(6 * remaining + 2 * BurnRateBonus(acct)
                         + 2 * ResetBonus(remaining, minutes), acct.stale),
       remaining |-> remaining, minutes |-> minutes, ready |-> Ready(groups),
       stale |-> acct.stale]
Scores(accts) == [i \in DOMAIN accts |-> ScoreAccount(accts[i])]

\* Ready accounts come first, then those last seen; the first of the best scores.
Before(c, d) == \/ c.ready /\ ~d.ready
                \/ c.ready = d.ready /\ ~c.stale /\ d.stale
Best(scores) ==
  {i \in DOMAIN scores : \A j \in DOMAIN scores :
     \/ scores[j].score < scores[i].score
     \/ scores[j].score = scores[i].score /\ ~Before(scores[j], scores[i])}

SoonestReset(scores) ==
  LET known == {scores[i].minutes : i \in DOMAIN scores} \ {0}
  IN  IF known = {} THEN 0 ELSE Min(known)

\* RecommendWithCurrent.
Action(scores, current, best) ==
  IF current \notin DOMAIN scores THEN "rank"
    ELSE IF Len(scores) = 1 THEN "stay"
    ELSE IF /\ \A i \in DOMAIN scores : scores[i].remaining < 10
            /\ SoonestReset(scores) \in 1 .. 30 THEN "wait"
    ELSE IF best # current /\ scores[best].score - scores[current].score >= 1500 THEN "switch"
    ELSE "stay"

-----------------------------------------------------------------------------
(* Estimates of the other providers                                        *)

\* Hours after the reset for which nothing is taken to be used.
Trusted(kind) == IF kind = "cursor" THEN 48 ELSE IF kind = "copilot" THEN 168 ELSE 24

\* EstimateCodexSnapshot, EstimateClaudeSnapshot, EstimateCursorSnapshot; for
\* EstimateCopilotSnapshot every month of 720 hours resets.
SinceReset(w) ==
  IF w.kind = "copilot" /\ w.now >= w.reset THEN (w.now - w.reset) % 720 ELSE w.now - w.reset
ShownUsed(w) == IF SinceReset(w) \in 0 .. Trusted(w.kind) - 1 THEN 0 ELSE w.used

\* handleStatus: of each account, and of the other providers.
Status == [ready |-> [i \in DOMAIN fleet.accounts |-> IsReady(fleet.accounts[i])],
           used  |-> ShownUsed(fleet.window)]

-----------------------------------------------------------------------------
\* A ready account has something left of every model it names as they are named
\* today; one that is not lacks something, or has Gemini models of unknown families
\* only (readiness.go: "any remaining").
ReadyMeansUsable ==
  \A i \in DOMAIN fleet.accounts :
    LET acct == fleet.accounts[i]
        Empty(S) == {j \in InFamily(acct.models, S) : acct.models[j].left = 0}
    IN  IF Status.ready[i]
          THEN /\ acct.models # <<>> /\ ~Lost(acct.models)
               /\ acct.reset = TodayReset \/ Empty(TodaysModels \cup {"claude", "other"}) = {}
          ELSE \/ acct.models = <<>> \/ Lost(acct.models)
               \/ acct.reset # TodayReset /\ Empty(ModelNames) # {}

\* An old reading is not the best while a recent one has 30 percent, nor an account
\* with nothing left while a recent one has more than half (advisor.go: "stale data
\* should never be recommended").
BestIsUseful(scores) ==
  LET Recent(p) == \E i \in DOMAIN scores : ~scores[i].stale /\ scores[i].remaining >= p
  IN  \A b \in Best(scores) : /\ Recent(30) => ~scores[b].stale
                              /\ Recent(51) => scores[b].remaining > 0

\* Who is told to switch to an account with nothing left has at most a quarter left,
\* or was not captured for six hours; who follows is not told to switch again.
SwitchingHelps(scores) ==
  \A c \in DOMAIN scores, b \in Best(scores) : Action(scores, c, b) = "switch" =>
    /\ scores[b].remaining = 0 => scores[c].stale \/ scores[c].remaining <= 25
    /\ \A n \in Best(scores) : Action(scores, b, n) # "switch"

Waits(scores) ==
  \E c \in DOMAIN scores, b \in Best(scores) : Action(scores, c, b) = "wait"
Passed(reset, minutes) ==
  IF reset < 0 THEN reset ELSE IF reset <= minutes THEN TodayReset ELSE reset - minutes
Later(accts, minutes) ==
  [i \in DOMAIN accts |-> [accts[i] EXCEPT !.reset = Passed(@, minutes)]]

\* Who is told to wait for a reset, and waits until then, has an account with
\* everything left, or half of it where the program does not know the families of the
\* Gemini models; and is not told to wait again.
WaitingHelps(scores) ==
  LET soonest == SoonestReset(scores)
      later   == Scores(Later(fleet.accounts, soonest))
  IN  Waits(scores) =>
        /\ \A i \in DOMAIN scores : scores[i].minutes = soonest =>
             IF Lost(fleet.accounts[i].models) THEN later[i].remaining >= 50
                                               ELSE later[i].remaining = 100
        /\ ~Waits(later)

\* Use is hidden only when a reset has passed since it was captured, and a day ago at
\* most, two for Cursor, a week for Copilot (estimate.go).
EstimatesFollowResets ==
  LET w == fleet.window
  IN  Status.used # w.used =>
        \E r \in {w.reset + 720 * n :
                   n \in IF w.kind = "copilot" THEN 0 .. w.now \div 720 ELSE {0}} :
          r <= w.now /\ w.now - r < IF w.kind = "copilot" THEN 168
                                      ELSE IF w.kind = "cursor" THEN 48 ELSE 24

\* What the program says of accounts is of use to who follows it.
AdviceHolds ==
  fleet # NoFleet => LET scores == Scores(fleet.accounts) IN
      /\ ReadyMeansUsable /\ EstimatesFollowResets
      /\ BestIsUseful(scores) /\ SwitchingHelps(scores) /\ WaitingHelps(scores)
=============================================================================
