---------------------------- MODULE ActivityViews ----------------------------
(***************************************************************************)
(* What the page shows of past captures: the history of GET /api/history   *)
(* (snapshots.go, UnifiedHistory), merged from four tables each read with  *)
(* the page's limit; and the heatmap and streaks of GET /api/heatmap.      *)
(*                                                                         *)
(* captured_at is text.  The program writes "2026-01-05T10:00:00Z", the    *)
(* database's clock "2026-01-05 10:00:00", which sorts before every text   *)
(* of the program of the same day.                                         *)
(***************************************************************************)
EXTENDS Integers, SequencesExt

CONSTANTS
  Tables,        (* of snapshots: one per provider                         *)
  Hours,         (* of a day, numbers                                      *)
  MaxDay,        (* days back from today (0) that rows may have            *)
  MaxShown       (* bound on rows                                          *)

ASSUME ActivityAssumption ==
  /\ IsFiniteSet(Tables) /\ IsFiniteSet(Hours) /\ Hours \subseteq Nat /\ Hours # {}
  /\ MaxDay \in Nat /\ MaxShown \in Nat

VARIABLE activity  (* [rows, limit, filter, days]: tables and the request  *)

Forms == {"clock", "program"}
CapturedRows == [table : Tables, ago : 0 .. MaxDay, hour : Hours, form : Forms]
All == "all"
Requests ==
  {q \in [rows : SUBSET CapturedRows, limit : Nat \ {0}, filter : Tables \cup {All},
          days : Nat \ {0}] : IsFiniteSet(q.rows)}

NoActivity == [rows |-> {}, limit |-> 1, filter |-> All, days |-> 1]

\* Init: rows of two days for the history, one a day for the heatmap, and every
\* request.
ActivityInit ==
  \/ \E n \in 0 .. MaxShown :
       \E rs \in kSubset(n, {r \in CapturedRows : r.ago <= 1}) :
         \E l \in 1 .. MaxShown, f \in Tables \cup {All} :
           activity = [rows |-> rs, limit |-> l, filter |-> f, days |-> 1]
  \/ \E t \in Tables, h \in Hours, f \in Forms, d \in 1 .. MaxDay + 1 :
       \E rs \in SUBSET {r \in CapturedRows : r.table = t /\ r.hour = h /\ r.form = f} :
         activity = [rows |-> rs, limit |-> 1, filter |-> All, days |-> d]

-----------------------------------------------------------------------------
\* Order of the texts, and of the times they stand for, of rows of one instant of
\* a day each; larger is later.
HoursInDay == 1 + CHOOSE h \in Hours : \A g \in Hours : g <= h
Time(r) == HoursInDay * (MaxDay - r.ago) + r.hour
Text(r) == 2 * HoursInDay * (MaxDay - r.ago) + r.hour
             + IF r.form = "program" THEN HoursInDay ELSE 0

\* ORDER BY captured_at DESC LIMIT n, of a table: its rows have different texts.
Newest(rows, n) ==
  {r \in rows : Cardinality({s \in rows : Text(s) > Text(r)}) < n}

\* The tables asked for.
Chosen(q) == {t \in Tables : q.filter \in {All, t}}

\* Mutant of MergedRows: every table gives its share.
MergedByShare(q) ==
  UNION {Newest({r \in q.rows : r.table = t}, (q.limit + 1) \div 2) : t \in Chosen(q)}

MergedRows(q) == UNION {Newest({r \in q.rows : r.table = t}, q.limit) : t \in Chosen(q)}

\* UnifiedHistory: newest first by time (sort.Slice: rows of one time in any order),
\* cut to the limit.
NewestFirst(s) == \A i, j \in DOMAIN s : i < j => Time(s[i]) >= Time(s[j])
UnifiedHistory(q) ==
  {SubSeq(s, 1, IF q.limit < Len(s) THEN q.limit ELSE Len(s)) :
     s \in {t \in SetToSeqs(MergedRows(q)) : NewestFirst(t)}}

\* HeatmapData: the days with rows whose text is not before that of the database's
\* clock so many days ago (the request comes at hour 0).
Cutoff(q) == Text([table |-> All, ago |-> q.days, hour |-> 0, form |-> "clock"])
HeatmapDays(q) == {r.ago : r \in {s \in q.rows : Text(s) >= Cutoff(q)}}

\* handleHeatmap: days are walked back from today, or from yesterday when nothing
\* was captured today.  The first gap ends the current streak; a later one sets
\* it again while it is zero.
WalkDay(active, w, i) ==
  IF i \in active
    THEN [run |-> w.run + 1, streak |-> w.streak,
          longest |-> IF w.run + 1 > w.longest THEN w.run + 1 ELSE w.longest]
    ELSE [run |-> 0, longest |-> w.longest, streak |-> IF w.streak = 0 THEN w.run ELSE w.streak]
WalkDays(active, w, q) == FoldLeft(LAMBDA v, i : WalkDay(active, v, i), w, q)
Walk(active, days) ==
  LET start == IF 0 \in active THEN 0 ELSE 1
      w == WalkDays(active, [run |-> 0, longest |-> 0, streak |-> 0],
                    [k \in 1 .. days - start |-> start + k - 1])
  IN  [longest |-> w.longest, streak |-> IF w.streak = 0 THEN w.run ELSE w.streak]

-----------------------------------------------------------------------------
\* While each table is written in one form only, the history shows the newest rows
\* asked for, as many as there are up to the limit, newest first.  (Rows that an
\* import and a capture wrote on one day may be shown in place of newer ones.)
HistoryIsNewest ==
  LET q     == activity
      asked == {r \in q.rows : r.table \in Chosen(q)}
  IN  (\A r, s \in q.rows : r.table = s.table => r.form = s.form) =>
        \A shown \in UnifiedHistory(q) :
          /\ Len(shown) = IF Cardinality(asked) < q.limit THEN Cardinality(asked) ELSE q.limit
          /\ NewestFirst(shown)
          /\ \A r \in asked \ ToSet(shown) :
               \A i \in DOMAIN shown : Time(shown[i]) >= Time(r)

\* Captured today or yesterday: the streak is the number of days in a row up to
\* then.  The longest streak is the longest row of days of the period, today left
\* out only when nothing was captured.
StreaksAreRuns ==
  LET q      == activity
      active == HeatmapDays(q)
      walk   == Walk(active, q.days)
      inside == active \cap 0 .. q.days - 1
      Run(a, n) == \A i \in 0 .. n - 1 : a + i \in inside
      last   == IF 0 \in active THEN 0 ELSE 1
  IN  /\ last \in inside => Run(last, walk.streak) /\ ~Run(last, walk.streak + 1)
      /\ \E a \in 0 .. MaxDay : Run(a, walk.longest)
      /\ \A a \in 0 .. MaxDay : ~Run(a, walk.longest + 1)

\* The page's history and heatmap tell what was captured, if anything was
\* (snapshots.go, UnifiedHistory; handlers_data.go, handleHeatmap).
ViewsOfActivity == activity.rows # {} => HistoryIsNewest /\ StreaksAreRuns
=============================================================================
