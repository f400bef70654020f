-------------------------- MODULE SnapCaptureProofs --------------------------
(***************************************************************************)
(* Proofs about SnapCapture for any workers, accounts, fields and bounds:  *)
(* its six invariants, each from what a worker between two statements may  *)
(* rely on, although everything around it changes.                         *)
(***************************************************************************)
EXTENDS SnapCapture, FiniteSetTheorems, TLAPS

-----------------------------------------------------------------------------
(* Types                                                                   *)

\* At a step, what the worker's variables hold: a capture has an email to store,
\* and an account from its second step on, but for provider buttons.
WorkerOK(step, j) ==
  /\ step \in Steps \cup {"idle"}
  /\ j \in IF step = "idle" THEN {NoJob} ELSE IF step = "write" THEN EditJob ELSE CaptureJob
  /\ step \notin {"idle", "write"} => j.todo # <<>>
  /\ step \in {"unified", "find", "link"} => j.account \in Ids
  /\ step = "reading" => j.kind = "provider" \/ j.account \in Ids

WorkersOK ==
  /\ pc = [w \in Workers |-> pc[w]] /\ job = [w \in Workers |-> job[w]]
  /\ \A w \in Workers : WorkerOK(pc[w], job[w])

TInv ==
  /\ TypeOK /\ WorkersOK /\ IsFiniteSet(accounts)
  /\ started \in Nat /\ asked \in [Ids -> SUBSET Fields]

\* A capture or an edit ends, or something else becomes of it.
Breaks(w) ==
  /\ pc[w] # "idle"
  /\ \/ AfterFailure(w)
     \/ /\ torn' = torn \cup (IF pc[w] = "unified" THEN {job[w].row} ELSE {})
        /\ Goto(w, "idle")
        /\ job' = [job EXCEPT ![w] = NoJob]
        /\ UNCHANGED doubled
  /\ \/ pc[w] # "write"
     \/ Goto(w, "idle") /\ job' = [job EXCEPT ![w] = NoJob]
  /\ UNCHANGED <<tables, started, crossed, asked, clashed>>

Removes ==
  /\ readings' \subseteq readings
  /\ UNCHANGED <<accounts, unified, subs, usage, lastId, pc, job, started, history>>

\* The steps, where those that differ in nothing that matters are one.
LEMMA StepCases ==
  ASSUME Next
  PROVE  \/ \E w \in Workers :
              \/ \E kind \in Kinds, p \in Providers, emails \in Seq(Emails) \ {<<>>} :
                   Begin(w, kind, p, emails)
              \/ UpsertAccount(w) \/ SelectAccount(w) \/ InsertReading(w)
              \/ SaveSnapshot(w) \/ LinkSubscription(w) \/ Breaks(w)
              \/ \E on \in BOOLEAN : FindSubscription(w, on)
         \/ Edit
         \/ Removes
         \/ \E a \in IdsOf(accounts) : DeleteAccount(a)
         \/ \E a \in IdsOf(accounts) \cup {Nobody} :
              \/ InsertSubscription(a)
              \/ \E s \in subs, auto \in BOOLEAN : UpdateSubscription(s, a, auto)
         \/ \E s \in subs : DeleteSubscription(s) \/ InsertUsageLog(s.id)
         \/ \E u \in usage : DeleteUsageLog(u)
<1>1. CASE Capture
  <2> PICK w \in Workers :
        \/ \E emails \in Detected : Snap(w, emails) \/ CmdSnap(w, emails)
        \/ \E provider \in Providers, email \in Emails :
             ProviderSnap(w, provider, email) \/ PollProvider(w, provider, email)
        \/ UpsertAccount(w) \/ SelectAccount(w) \/ InsertReading(w) \/ SaveSnapshot(w)
        \/ \E on \in BOOLEAN : FindSubscription(w, on)
        \/ LinkSubscription(w)
        \/ StatementFails(w) \/ Refused(w) \/ Dies(w)
    BY <1>1 DEF Capture
  <2>1. \A emails \in Detected :
          /\ emails \in Seq(Emails) \ {<<>>}
          /\ Snap(w, emails) => Begin(w, "snap", Antigravity, emails)
          /\ CmdSnap(w, emails) => Begin(w, "cli", Antigravity, emails)
    BY CaptureAssumption DEF Snap, CmdSnap
  <2>2. \A p \in Providers, email \in Emails :
          /\ ProviderSnap(w, p, email) => Begin(w, "provider", p, <<email>>)
          /\ PollProvider(w, p, email) => Begin(w, "poll", p, <<email>>)
    BY DEF ProviderSnap, PollProvider
  <2>3. \A email \in Emails : <<email>> \in Seq(Emails) /\ <<email>> # <<>>
    OBVIOUS
  <2>4. Antigravity \in Providers /\ \A k \in {"snap", "cli", "provider", "poll"} : k \in Kinds
    BY CaptureAssumption DEF Kinds
  <2>5. StatementFails(w) \/ Refused(w) \/ Dies(w) => Breaks(w)
    BY DEF StatementFails, Refused, Dies, Breaks, tables
  <2> QED
    BY <2>1, <2>2, <2>3, <2>4, <2>5
<1>2. CASE Manage
  <2>1. \A a : DeleteAccountSnapshots(a) => Removes
    BY DEF DeleteAccountSnapshots, Removes
  <2>2. \A r : DeleteSnapshot(r) => Removes
    BY DEF DeleteSnapshot, Removes
  <2>3. \A p, time : DeleteOlderThan(p, time) => Removes
    BY DEF DeleteOlderThan, Removes
  <2> QED
    BY <1>2, <2>1, <2>2, <2>3, Zenon DEF Manage
<1> QED
  BY <1>1, <1>2 DEF Next

\* Of the workers only one moves.
LEMMA WorkerMoves ==
  ASSUME WorkersOK, NEW w \in Workers, NEW step, NEW j,
         pc' = [pc EXCEPT ![w] = step], job' = [job EXCEPT ![w] = j], WorkerOK(step, j)
  PROVE  /\ WorkersOK'
         /\ pc'[w] = step /\ job'[w] = j
         /\ \A v \in Workers \ {w} : pc'[v] = pc[v] /\ job'[v] = job[v]
  BY DEF WorkersOK, WorkerOK

LEMMA GetsIdle ==
  ASSUME WorkersOK, NEW w \in Workers,
         pc' = [pc EXCEPT ![w] = "idle"], job' = [job EXCEPT ![w] = NoJob]
  PROVE  /\ WorkersOK'
         /\ pc'[w] = "idle" /\ job'[w] = NoJob
         /\ \A v \in Workers \ {w} : pc'[v] = pc[v] /\ job'[v] = job[v]
  BY DEF WorkersOK, WorkerOK

\* The end of a response: the capture ends, or goes on with the next one.
LEMMA ResponseEnds ==
  ASSUME WorkersOK, NEW w \in Workers, pc[w] \notin {"idle", "write"}, EndResponse(w)
  PROVE  /\ WorkersOK'
         /\ \A v \in Workers \ {w} : pc'[v] = pc[v] /\ job'[v] = job[v]
         /\ \/ pc'[w] = "idle" /\ job'[w] = NoJob
            \/ /\ pc'[w] = "upsert" /\ job'[w] \in CaptureJob
               /\ job'[w].kind = job[w].kind /\ job'[w].provider = job[w].provider
               /\ job'[w].todo = Tail(job[w].todo) /\ job'[w].taken = job[w].taken
               /\ job'[w].account = Nobody /\ job'[w].row = 0
<1> DEFINE rest == Tail(job[w].todo)
<1>1. job[w] \in CaptureJob /\ job[w].todo # <<>>
  BY DEF WorkersOK, WorkerOK
<1>2. rest \in Seq(Emails)
  BY <1>1 DEF CaptureJob
<1>3. CASE rest = <<>>
  <2>1. pc' = [pc EXCEPT ![w] = "idle"] /\ job' = [job EXCEPT ![w] = NoJob]
    BY <1>3 DEF EndResponse
  <2> QED
    BY <2>1, GetsIdle
<1>4. CASE rest # <<>>
  <2> DEFINE j == [job[w] EXCEPT !.todo = rest, !.account = Nobody, !.row = 0]
  <2>1. /\ j \in CaptureJob /\ j.todo = rest
        /\ j.kind = job[w].kind /\ j.provider = job[w].provider
        /\ j.taken = job[w].taken /\ j.account = Nobody /\ j.row = 0
    BY <1>1, <1>2 DEF CaptureJob
  <2>2. pc' = [pc EXCEPT ![w] = "upsert"] /\ job' = [job EXCEPT ![w] = j]
    BY <1>4 DEF EndResponse, WorkersOK
  <2>3. WorkerOK("upsert", j)
    BY <1>4, <2>1 DEF WorkerOK, Steps
  <2> HIDE DEF j
  <2>4. WorkersOK' /\ pc'[w] = "upsert" /\ job'[w] = j
        /\ \A v \in Workers \ {w} : pc'[v] = pc[v] /\ job'[v] = job[v]
    BY <2>2, <2>3, WorkerMoves
  <2> QED
    BY <2>1, <2>4
<1> QED
  BY <1>3, <1>4

\* A capture that starts.
LEMMA BeginMoves ==
  ASSUME TInv, NEW w \in Workers, NEW kind \in Kinds, NEW p \in Providers,
         NEW emails \in Seq(Emails) \ {<<>>}, Begin(w, kind, p, emails)
  PROVE  /\ WorkersOK' /\ pc'[w] = "upsert" /\ job'[w] \in CaptureJob
         /\ job'[w].kind = kind /\ job'[w].provider = p /\ job'[w].todo = emails
         /\ job'[w].taken = started + 1 /\ job'[w].account = Nobody /\ job'[w].row = 0
         /\ \A v \in Workers \ {w} : pc'[v] = pc[v] /\ job'[v] = job[v]
<1> DEFINE j == [kind |-> kind, provider |-> p, todo |-> emails,
                 taken |-> started + 1, account |-> Nobody, row |-> 0]
<1>1. pc' = [pc EXCEPT ![w] = "upsert"] /\ job' = [job EXCEPT ![w] = j]
  BY DEF Begin
<1>2. j \in CaptureJob /\ WorkerOK("upsert", j)
  BY DEF TInv, CaptureJob, WorkerOK, Steps
<1>3. /\ j.kind = kind /\ j.provider = p /\ j.todo = emails
      /\ j.taken = started + 1 /\ j.account = Nobody /\ j.row = 0
  OBVIOUS
<1> HIDE DEF j
<1>4. WorkersOK
  BY DEF TInv
<1>5. WorkersOK' /\ pc'[w] = "upsert" /\ job'[w] = j
      /\ \A v \in Workers \ {w} : pc'[v] = pc[v] /\ job'[v] = job[v]
  BY <1>1, <1>2, <1>4, WorkerMoves
<1> QED
  BY <1>2, <1>3, <1>5

\* A capture that goes on to the next step with the same variables.
LEMMA GoesOn ==
  ASSUME WorkersOK, NEW w \in Workers, NEW step, Goto(w, step), UNCHANGED job,
         WorkerOK(step, job[w])
  PROVE  /\ WorkersOK' /\ pc'[w] = step
         /\ \A v \in Workers \ {w} : pc'[v] = pc[v]
<1>1. job' = [job EXCEPT ![w] = job[w]]
  BY DEF WorkersOK
<1> QED
  BY <1>1, WorkerMoves DEF Goto

\* A capture or an edit that is given up is over, or a capture goes on without
\* what failed.
LEMMA BreakMoves ==
  ASSUME WorkersOK, NEW w \in Workers, Breaks(w)
  PROVE  /\ WorkersOK'
         /\ \A v \in Workers \ {w} : pc'[v] = pc[v] /\ job'[v] = job[v]
         /\ \/ pc'[w] = "idle" /\ job'[w] = NoJob
            \/ /\ pc[w] \in {"upsert", "select"} /\ job[w].kind = "provider"
               /\ pc'[w] = "reading" /\ job'[w] = job[w]
            \/ pc[w] = "find" /\ pc'[w] = "link" /\ job'[w] = job[w]
            \/ /\ pc[w] \notin {"idle", "write"}
               /\ pc'[w] = "upsert" /\ job'[w] \in CaptureJob
               /\ job'[w].kind = job[w].kind /\ job'[w].provider = job[w].provider
               /\ job'[w].todo = Tail(job[w].todo) /\ job'[w].taken = job[w].taken
               /\ job'[w].account = Nobody /\ job'[w].row = 0
         /\ torn' = torn \cup (IF pc[w] = "unified" THEN {job[w].row} ELSE {})
         /\ pc[w] = "find" /\ pc'[w] = "link" => doubled' = doubled \cup {job[w].account}
         /\ doubled \subseteq doubled'
<1>1. CASE Goto(w, "idle") /\ job' = [job EXCEPT ![w] = NoJob]
  <2>1. pc' = [pc EXCEPT ![w] = "idle"] /\ job' = [job EXCEPT ![w] = NoJob]
    BY <1>1 DEF Goto
  <2>2. WorkersOK' /\ pc'[w] = "idle" /\ job'[w] = NoJob
        /\ \A v \in Workers \ {w} : pc'[v] = pc[v] /\ job'[v] = job[v]
    BY <2>1, GetsIdle
  <2>3. torn' = torn \cup (IF pc[w] = "unified" THEN {job[w].row} ELSE {})
        /\ doubled \subseteq doubled'
    BY DEF Breaks, AfterFailure
  <2> QED
    BY <2>2, <2>3
<1>2. CASE AfterFailure(w) /\ pc[w] \notin {"idle", "write"}
  <2>1. /\ torn' = torn \cup (IF pc[w] = "unified" THEN {job[w].row} ELSE {})
        /\ doubled' = doubled \cup (IF pc[w] = "find" THEN {job[w].account} ELSE {})
    BY <1>2 DEF AfterFailure
  <2>2. CASE pc[w] \in {"upsert", "select"} /\ job[w].kind = "provider"
    <3>1. Goto(w, "reading") /\ UNCHANGED job
      BY <1>2, <2>2 DEF AfterFailure
    <3>2. WorkerOK("reading", job[w])
      BY <2>2 DEF WorkersOK, WorkerOK, Steps
    <3> QED
      BY <2>1, <2>2, <3>1, <3>2, GoesOn
  <2>3. CASE pc[w] = "find"
    <3>1. Goto(w, "link") /\ UNCHANGED job
      BY <1>2, <2>3 DEF AfterFailure
    <3>2. WorkerOK("link", job[w])
      BY <2>3 DEF WorkersOK, WorkerOK, Steps
    <3> QED
      BY <2>1, <2>3, <3>1, <3>2, GoesOn
  <2>4. CASE /\ ~(pc[w] \in {"upsert", "select"} /\ job[w].kind = "provider")
             /\ pc[w] # "find"
    <3>1. EndResponse(w)
      BY <1>2, <2>4 DEF AfterFailure
    <3> QED
      BY <1>2, <2>1, <2>4, <3>1, ResponseEnds
  <2> QED
    BY <2>2, <2>3, <2>4
<1> QED
  BY <1>1, <1>2 DEF Breaks, Goto

\* What a capture's own statements do to its worker.
LEMMA SelectMoves ==
  ASSUME TInv, NEW w \in Workers, SelectAccount(w)
  PROVE  /\ WorkersOK' /\ pc[w] = "select"
         /\ pc'[w] = (IF job[w].kind = "poll" THEN "unified" ELSE "reading")
         /\ job'[w] \in CaptureJob /\ job'[w].kind = job[w].kind
         /\ job'[w].provider = job[w].provider /\ job'[w].todo = job[w].todo
         /\ job'[w].taken = job[w].taken /\ job'[w].row = job[w].row
         /\ \E a \in AccountOf(w) : job'[w].account = a.id
         /\ \A v \in Workers \ {w} : pc'[v] = pc[v] /\ job'[v] = job[v]
<1>1. WorkersOK /\ pc[w] = "select" /\ job[w] \in CaptureJob /\ job[w].todo # <<>>
  BY DEF TInv, WorkersOK, WorkerOK, SelectAccount
<1>2. PICK a \in AccountOf(w) : job' = [job EXCEPT ![w].account = a.id]
  BY DEF SelectAccount
<1>3. a.id \in Ids
  BY DEF TInv, TypeOK, AccountOf, Account
<1> DEFINE step == IF job[w].kind = "poll" THEN "unified" ELSE "reading"
<1> DEFINE j == [job[w] EXCEPT !.account = a.id]
<1>4. pc' = [pc EXCEPT ![w] = step] /\ job' = [job EXCEPT ![w] = j]
  BY <1>1, <1>2 DEF SelectAccount, Goto
<1>5. /\ j \in CaptureJob /\ j.kind = job[w].kind /\ j.provider = job[w].provider
      /\ j.todo = job[w].todo /\ j.taken = job[w].taken /\ j.row = job[w].row
      /\ j.account = a.id
  BY <1>1, <1>3 DEF CaptureJob
<1>6. WorkerOK(step, j)
  BY <1>1, <1>3, <1>5 DEF WorkerOK, Steps
<1> HIDE DEF step, j
<1>7. WorkersOK' /\ pc'[w] = step /\ job'[w] = j
      /\ \A v \in Workers \ {w} : pc'[v] = pc[v] /\ job'[v] = job[v]
  <2>1. WorkersOK
    BY <1>1
  <2>2. /\ pc' = [v \in Workers |-> IF v = w THEN step ELSE pc[v]]
        /\ job' = [v \in Workers |-> IF v = w THEN j ELSE job[v]]
    BY <1>4, <2>1 DEF WorkersOK
  <2> QED
    BY <1>6, <2>1, <2>2 DEF WorkersOK
<1> QED
  BY <1>1, <1>5, <1>7 DEF step

\* Typed rows of a new id.
LEMMA ReadingMoves ==
  ASSUME TInv, NEW w \in Workers, InsertReading(w)
  PROVE  /\ WorkersOK' /\ pc[w] = "reading" /\ job[w] \in CaptureJob
         /\ lastId + 1 \in Ids /\ lastId' = lastId + 1
         /\ readings' = readings \cup
              {[id |-> lastId + 1, provider |-> job[w].provider, owner |-> job[w].account,
                via |-> job[w].kind, taken |-> job[w].taken, set |-> {}]}
         /\ \A v \in Workers \ {w} : pc'[v] = pc[v] /\ job'[v] = job[v]
         /\ \/ /\ job[w].kind = "snap" /\ pc'[w] = "unified"
               /\ job'[w] \in CaptureJob /\ job'[w].kind = job[w].kind
               /\ job'[w].provider = job[w].provider /\ job'[w].todo = job[w].todo
               /\ job'[w].taken = job[w].taken /\ job'[w].row = lastId + 1
               /\ job'[w].account = job[w].account /\ job[w].account \in Ids
            \/ /\ job[w].kind # "snap"
               /\ \/ pc'[w] = "idle" /\ job'[w] = NoJob
                  \/ /\ pc'[w] = "upsert" /\ job'[w] \in CaptureJob
                     /\ job'[w].kind = job[w].kind /\ job'[w].provider = job[w].provider
                     /\ job'[w].todo = Tail(job[w].todo) /\ job'[w].taken = job[w].taken
                     /\ job'[w].account = Nobody /\ job'[w].row = 0
<1>1. WorkersOK /\ pc[w] = "reading" /\ job[w] \in CaptureJob /\ job[w].todo # <<>>
  BY DEF TInv, WorkersOK, WorkerOK, InsertReading
<1>2. /\ lastId + 1 \in Ids /\ lastId' = lastId + 1
      /\ readings' = readings \cup
              {[id |-> lastId + 1, provider |-> job[w].provider, owner |-> job[w].account,
                via |-> job[w].kind, taken |-> job[w].taken, set |-> {}]}
  BY CaptureAssumption DEF TInv, TypeOK, InsertReading, Ids
<1>3. CASE job[w].kind = "snap"
  <2> DEFINE j == [job[w] EXCEPT !.row = lastId + 1]
  <2>1. pc' = [pc EXCEPT ![w] = "unified"] /\ job' = [job EXCEPT ![w] = j]
    BY <1>1, <1>2, <1>3 DEF InsertReading, Goto
  <2>2. job[w].account \in Ids
    BY <1>1, <1>3 DEF WorkersOK, WorkerOK
  <2>3. /\ j \in CaptureJob /\ j.kind = job[w].kind /\ j.provider = job[w].provider
        /\ j.todo = job[w].todo /\ j.taken = job[w].taken /\ j.row = lastId + 1
        /\ j.account = job[w].account
    BY <1>1, <1>2 DEF CaptureJob
  <2>4. WorkerOK("unified", j)
    BY <1>1, <2>2, <2>3 DEF WorkerOK, Steps
  <2> HIDE DEF j
  <2>5. WorkersOK' /\ pc'[w] = "unified" /\ job'[w] = j
        /\ \A v \in Workers \ {w} : pc'[v] = pc[v] /\ job'[v] = job[v]
    BY <1>1, <2>1, <2>4, WorkerMoves
  <2> QED
    BY <1>1, <1>2, <1>3, <2>2, <2>3, <2>5
<1>4. CASE job[w].kind # "snap"
  <2>1. EndResponse(w)
    BY <1>4 DEF InsertReading
  <2> QED
    BY <1>1, <1>2, <1>4, <2>1, ResponseEnds
<1> QED
  BY <1>3, <1>4

LEMMA UnifiedMoves ==
  ASSUME TInv, NEW w \in Workers, SaveSnapshot(w)
  PROVE  /\ WorkersOK' /\ pc[w] = "unified" /\ pc'[w] = "find" /\ UNCHANGED job
         /\ job[w] \in CaptureJob /\ job[w].account \in Ids /\ job[w].todo # <<>>
         /\ lastId + 1 \in Ids /\ lastId' = lastId + 1
         /\ unified' = unified \cup {[id |-> lastId + 1, account |-> job[w].account,
                                      taken |-> job[w].taken]}
         /\ \A v \in Workers \ {w} : pc'[v] = pc[v]
<1>1. WorkersOK /\ pc[w] = "unified" /\ job[w] \in CaptureJob /\ job[w].account \in Ids
      /\ job[w].todo # <<>> /\ WorkerOK("find", job[w])
  BY DEF TInv, WorkersOK, WorkerOK, SaveSnapshot, Steps
<1>2. Goto(w, "find") /\ UNCHANGED job
  BY DEF SaveSnapshot
<1>3. WorkersOK' /\ pc'[w] = "find" /\ \A v \in Workers \ {w} : pc'[v] = pc[v]
  BY <1>1, <1>2, GoesOn
<1> QED
  BY <1>1, <1>2, <1>3, CaptureAssumption DEF TInv, TypeOK, SaveSnapshot, Ids

LEMMA FindMoves ==
  ASSUME TInv, NEW w \in Workers, NEW on \in BOOLEAN, FindSubscription(w, on)
  PROVE  /\ WorkersOK' /\ pc[w] = "find" /\ job[w] \in CaptureJob
         /\ \A v \in Workers \ {w} : pc'[v] = pc[v] /\ job'[v] = job[v]
         /\ doubled \subseteq doubled'
         /\ \/ /\ AutoSubs(job[w].account) = {} /\ pc'[w] = "link" /\ job'[w] = job[w]
               /\ \A v \in Workers \ {w} : pc[v] = "link" /\ job[v].account = job[w].account
                    => job[w].account \in doubled'
            \/ pc'[w] = "idle" /\ job'[w] = NoJob
            \/ /\ pc'[w] = "upsert" /\ job'[w] \in CaptureJob
               /\ job'[w].kind = job[w].kind /\ job'[w].provider = job[w].provider
               /\ job'[w].todo = Tail(job[w].todo) /\ job'[w].taken = job[w].taken
               /\ job'[w].account = Nobody /\ job'[w].row = 0
<1>1. WorkersOK /\ pc[w] = "find" /\ job[w] \in CaptureJob /\ WorkerOK("link", job[w])
  BY DEF TInv, WorkersOK, WorkerOK, FindSubscription, Steps
<1>2. CASE on /\ AutoSubs(job[w].account) = {}
  <2>1. Goto(w, "link") /\ UNCHANGED job
    BY <1>2 DEF FindSubscription
  <2>2. doubled' = doubled \cup
                 {job[v].account : v \in {v \in Workers \ {w} :
                    pc[v] = "link" /\ job[v].account = job[w].account}}
    BY <1>2 DEF FindSubscription
  <2>3. \A v \in Workers \ {w} : pc[v] = "link" /\ job[v].account = job[w].account
          => job[w].account \in doubled'
    BY <2>2
  <2>4. WorkersOK' /\ pc'[w] = "link" /\ \A v \in Workers \ {w} : pc'[v] = pc[v]
    BY <1>1, <2>1, GoesOn
  <2> QED
    BY <1>1, <1>2, <2>1, <2>2, <2>3, <2>4
<1>3. CASE ~(on /\ AutoSubs(job[w].account) = {})
  <2>1. EndResponse(w) /\ UNCHANGED doubled
    BY <1>3 DEF FindSubscription
  <2> QED
    BY <1>1, <2>1, ResponseEnds
<1> QED
  BY <1>2, <1>3

LEMMA LinkMoves ==
  ASSUME TInv, NEW w \in Workers, LinkSubscription(w)
  PROVE  /\ WorkersOK' /\ pc[w] = "link" /\ job[w] \in CaptureJob
         /\ job[w].account \in Ids
         /\ lastId + 1 \in Ids /\ lastId' = lastId + 1
         /\ subs' = subs \cup {[id |-> lastId + 1, account |-> job[w].account, auto |-> TRUE]}
         /\ \A v \in Workers \ {w} : pc'[v] = pc[v] /\ job'[v] = job[v]
         /\ \/ pc'[w] = "idle" /\ job'[w] = NoJob
            \/ /\ pc'[w] = "upsert" /\ job'[w] \in CaptureJob
               /\ job'[w].kind = job[w].kind /\ job'[w].provider = job[w].provider
               /\ job'[w].todo = Tail(job[w].todo) /\ job'[w].taken = job[w].taken
               /\ job'[w].account = Nobody /\ job'[w].row = 0
<1>1. WorkersOK /\ pc[w] = "link" /\ job[w] \in CaptureJob /\ job[w].account \in Ids
  BY DEF TInv, WorkersOK, WorkerOK, LinkSubscription
<1>2. EndResponse(w)
  BY DEF LinkSubscription
<1>3. /\ lastId + 1 \in Ids /\ lastId' = lastId + 1
      /\ subs' = subs \cup {[id |-> lastId + 1, account |-> job[w].account, auto |-> TRUE]}
  BY CaptureAssumption DEF TInv, TypeOK, LinkSubscription, Ids
<1> QED
  BY <1>1, <1>2, <1>3, ResponseEnds

\* An account is found or gets a new id.
LEMMA UpsertMoves ==
  ASSUME TInv, NEW w \in Workers, UpsertAccount(w)
  PROVE  /\ WorkersOK' /\ pc[w] = "upsert" /\ pc'[w] = "select" /\ UNCHANGED job
         /\ job[w] \in CaptureJob /\ job[w].todo # <<>> /\ Head(job[w].todo) \in Emails
         /\ \A v \in Workers \ {w} : pc'[v] = pc[v]
         /\ \/ accounts' = accounts /\ lastId' = lastId
            \/ /\ lastId + 1 \in Ids /\ lastId' = lastId + 1
               /\ accounts' = accounts \cup
                    {[id |-> lastId + 1, email |-> Head(job[w].todo),
                      provider |-> job[w].provider, set |-> {}]}
<1> DEFINE new == [id |-> lastId + 1, email |-> Head(job[w].todo),
                   provider |-> job[w].provider, set |-> {}]
           Known == \E a \in accounts : /\ a.email = Head(job[w].todo)
                                        /\ a.provider = job[w].provider
<1>1. WorkersOK /\ pc[w] = "upsert" /\ job[w] \in CaptureJob /\ job[w].todo # <<>>
      /\ WorkerOK("select", job[w])
  BY DEF TInv, WorkersOK, WorkerOK, UpsertAccount, Steps
<1>2. Goto(w, "select") /\ UNCHANGED job
  BY DEF UpsertAccount
<1>3. Head(job[w].todo) \in Emails
  BY <1>1 DEF CaptureJob
<1>4. WorkersOK' /\ pc'[w] = "select" /\ \A v \in Workers \ {w} : pc'[v] = pc[v]
  BY <1>1, <1>2, GoesOn
<1>5. lastId \in 0 .. MaxId /\ MaxId \in Nat /\ IsFiniteSet(accounts)
  BY CaptureAssumption DEF TInv, TypeOK
<1>6. Cardinality(accounts) \in Nat
  BY <1>5, FS_CardinalityType
<1>7. CASE Known
  <2>1. accounts' = accounts
    BY <1>7 DEF UpsertAccount, Upserted
  <2>2. lastId' = lastId + Cardinality(accounts) - Cardinality(accounts)
    BY <2>1 DEF UpsertAccount
  <2> QED
    BY <1>1, <1>2, <1>3, <1>4, <1>5, <1>6, <2>1, <2>2
<1>8. CASE ~Known
  <2>1. new \notin accounts
    BY <1>8
  <2>2. accounts' = accounts \cup {new}
    BY <1>8 DEF UpsertAccount, Upserted
  <2>3. Cardinality(accounts') = Cardinality(accounts) + 1
    BY <1>5, <2>1, <2>2, FS_AddElement
  <2>4. lastId' = lastId + 1
    BY <1>5, <1>6, <2>3 DEF UpsertAccount
  <2>5. lastId + 1 \in Ids
    <3>1. lastId < MaxId
      BY <2>1, <2>2 DEF UpsertAccount
    <3> QED
      BY <1>5, <3>1 DEF Ids
  <2> QED
    BY <1>1, <1>2, <1>3, <1>4, <2>2, <2>4, <2>5
<1> QED
  BY <1>7, <1>8

\* An edit starts from a copy of its row, and ends with it.
LEMMA EditMoves ==
  ASSUME TInv, NEW w \in Workers, NEW kind \in {"meta", "adjust"}, NEW r, NEW field \in Fields,
         r.id \in Ids, r.set \in SUBSET Fields, BeginEdit(w, kind, r, field)
  PROVE  /\ WorkersOK' /\ pc[w] = "idle" /\ pc'[w] = "write" /\ job'[w] \in EditJob
         /\ job'[w].kind = kind /\ job'[w].row = r.id /\ job'[w].copy = r.set
         /\ job'[w].field = field
         /\ \A v \in Workers \ {w} : pc'[v] = pc[v] /\ job'[v] = job[v]
<1> DEFINE j == [kind |-> kind, row |-> r.id, copy |-> r.set, field |-> field]
<1>1. WorkersOK /\ pc[w] = "idle" /\ pc' = [pc EXCEPT ![w] = "write"] /\ job' = [job EXCEPT ![w] = j]
  BY DEF TInv, BeginEdit, Goto
<1>2. j \in EditJob /\ WorkerOK("write", j)
  BY DEF EditJob, WorkerOK, Steps
<1>3. j.kind = kind /\ j.row = r.id /\ j.copy = r.set /\ j.field = field
  OBVIOUS
<1> HIDE DEF j
<1>4. WorkersOK' /\ pc'[w] = "write" /\ job'[w] = j
      /\ \A v \in Workers \ {w} : pc'[v] = pc[v] /\ job'[v] = job[v]
  BY <1>1, <1>2, WorkerMoves
<1> QED
  BY <1>1, <1>2, <1>3, <1>4

LEMMA WriteMoves ==
  ASSUME TInv, NEW w \in Workers, WriteEdit(w)
  PROVE  /\ WorkersOK' /\ pc[w] = "write" /\ job[w] \in EditJob
         /\ pc'[w] = "idle" /\ job'[w] = NoJob
         /\ \A v \in Workers \ {w} : pc'[v] = pc[v] /\ job'[v] = job[v]
<1>1. WorkersOK /\ pc' = [pc EXCEPT ![w] = "idle"] /\ job' = [job EXCEPT ![w] = NoJob]
  BY DEF TInv, WriteEdit, Goto
<1>2. pc[w] = "write" /\ job[w] \in EditJob
  BY DEF TInv, WorkersOK, WorkerOK, WriteEdit
<1> QED
  BY <1>1, <1>2, GetsIdle

\* The other part of TInv.
Rows ==
  /\ accounts \subseteq Account /\ readings \subseteq Reading
  /\ unified \subseteq Unified /\ subs \subseteq Sub /\ usage \subseteq Usage
  /\ lastId \in 0..MaxId
  /\ IsFiniteSet(accounts) /\ started \in Nat /\ asked \in [Ids -> SUBSET Fields]

\* An edited row keeps all but the fields set; no row appears or goes.
LEMMA EditedReadings ==
  ASSUME Rows, NEW w \in Workers, job[w] \in EditJob, NEW e \in Edited(readings, w)
  PROVE  e \in Reading /\ \E r \in readings :
           /\ e.id = r.id /\ e.owner = r.owner /\ e.via = r.via /\ e.taken = r.taken
           /\ e.set = IF r.id = job[w].row THEN job[w].copy \cup {job[w].field} ELSE r.set
<1>1. PICK r \in readings :
        e = IF r.id = job[w].row THEN [r EXCEPT !.set = job[w].copy \cup {job[w].field}] ELSE r
  BY DEF Edited
<1>2. job[w].copy \cup {job[w].field} \in SUBSET Fields /\ r \in Reading
  BY DEF EditJob, Rows
<1>3. CASE r.id = job[w].row
  BY <1>1, <1>2, <1>3 DEF Reading
<1>4. CASE r.id # job[w].row
  BY <1>1, <1>2, <1>4
<1> QED
  BY <1>3, <1>4

LEMMA EditedAccounts ==
  ASSUME Rows, NEW w \in Workers, job[w] \in EditJob, NEW e \in Edited(accounts, w)
  PROVE  e \in Account /\ \E r \in accounts :
           /\ e.id = r.id /\ e.email = r.email /\ e.provider = r.provider
           /\ e.set = IF r.id = job[w].row THEN job[w].copy \cup {job[w].field} ELSE r.set
<1>1. PICK r \in accounts :
        e = IF r.id = job[w].row THEN [r EXCEPT !.set = job[w].copy \cup {job[w].field}] ELSE r
  BY DEF Edited
<1>2. job[w].copy \cup {job[w].field} \in SUBSET Fields /\ r \in Account
  BY DEF EditJob, Rows
<1>3. CASE r.id = job[w].row
  BY <1>1, <1>2, <1>3 DEF Account
<1>4. CASE r.id # job[w].row
  BY <1>1, <1>2, <1>4
<1> QED
  BY <1>3, <1>4

LEMMA EditedIds ==
  ASSUME Rows, NEW w \in Workers, job[w] \in EditJob
  PROVE  /\ IdsOf(Edited(accounts, w)) = IdsOf(accounts)
         /\ IdsOf(Edited(readings, w)) = IdsOf(readings)
<1> DEFINE E(r) == IF r.id = job[w].row
                     THEN [r EXCEPT !.set = job[w].copy \cup {job[w].field}] ELSE r
<1>1. \A r \in accounts \cup readings : E(r).id = r.id
  BY DEF Rows, Account, Reading
<1>2. Edited(accounts, w) = {E(r) : r \in accounts} /\ Edited(readings, w) = {E(r) : r \in readings}
  BY DEF Edited
<1> HIDE DEF E
<1> QED
  BY <1>1, <1>2 DEF IdsOf

-----------------------------------------------------------------------------
LEMMA TypeStarts == Init => TInv
<1> SUFFICES ASSUME Init PROVE TInv
  OBVIOUS
<1> USE CaptureAssumption
<1>1. WorkersOK
  BY DEF Init, WorkersOK, WorkerOK
<1>2. /\ accounts \subseteq Account /\ readings \subseteq Reading /\ unified \subseteq Unified
      /\ lastId \in 0 .. MaxId /\ IsFiniteSet(accounts)
  <2>1. CASE New
    BY <2>1, FS_EmptySet DEF New
  <2>2. CASE \E email \in Emails : Used(email)
    <3> PICK email \in Emails : Used(email)
      BY <2>2
    <3> DEFINE first == [id |-> 1, email |-> email, provider |-> Antigravity, set |-> {}]
    <3>1. accounts = {first} /\ first \in Account
      BY DEF Used, Account, Ids
    <3> HIDE DEF first
    <3>4. IsFiniteSet({first})
      BY FS_Singleton
    <3>2. readings \subseteq Reading
      BY DEF Used, Reading, Ids, Kinds
    <3>3. unified \subseteq Unified /\ lastId \in 0 .. MaxId
      BY DEF Used, Unified, Ids
    <3> QED
      BY <3>1, <3>2, <3>3, <3>4
  <2> QED
    BY <2>1, <2>2 DEF Init
<1> QED
  BY <1>1, <1>2 DEF Init, TInv, TypeOK, WorkersOK, WorkerOK

\* The part of TypeOK that speaks of workers.
LEMMA WorkersTyped ==
  ASSUME WorkersOK
  PROVE  /\ pc \in [Workers -> Steps \cup {"idle"}]
         /\ \A w \in Workers :
              job[w] \in IF pc[w] = "idle" THEN {NoJob}
                         ELSE IF pc[w] = "write" THEN EditJob ELSE CaptureJob
  BY DEF WorkersOK, WorkerOK

LEMMA TypeParts == TInv <=> Rows /\ WorkersOK
<1>1. TInv => Rows /\ WorkersOK
  BY DEF TInv, TypeOK, Rows
<1>2. Rows /\ WorkersOK => TInv
  BY WorkersTyped DEF TInv, TypeOK, Rows
<1> QED
  BY <1>1, <1>2

LEMMA RowsKept == ASSUME TInv, Next PROVE Rows'
<1>0. Rows /\ MaxId \in Nat
  BY TypeParts, CaptureAssumption
<1> USE <1>0 DEF Rows
<1>1. ASSUME NEW w \in Workers, NEW kind \in Kinds, NEW p \in Providers,
             NEW emails \in Seq(Emails) \ {<<>>}, Begin(w, kind, p, emails)
      PROVE  Rows'
  BY <1>1 DEF Begin, tables
<1>2. ASSUME NEW w \in Workers, UpsertAccount(w)
      PROVE  Rows'
  <2> DEFINE new == [id |-> lastId + 1, email |-> Head(job[w].todo),
                     provider |-> job[w].provider, set |-> {}]
  <2>1. \/ accounts' = accounts /\ lastId' = lastId
        \/ lastId + 1 \in Ids /\ lastId' = lastId + 1 /\ accounts' = accounts \cup {new}
    BY <1>2, UpsertMoves
  <2>2. job[w] \in CaptureJob /\ Head(job[w].todo) \in Emails
    BY <1>2, UpsertMoves
  <2>3. lastId + 1 \in Ids => new \in Account /\ lastId + 1 \in 0 .. MaxId
    BY <2>2 DEF Account, CaptureJob, Ids
  <2> HIDE DEF new
  <2>4. IsFiniteSet(accounts \cup {new})
    BY FS_AddElement
  <2> QED
    BY <1>2, <2>1, <2>3, <2>4 DEF UpsertAccount, history
<1>3. ASSUME NEW w \in Workers, SelectAccount(w)
      PROVE  Rows'
  BY <1>3 DEF SelectAccount, tables, history
<1>4. ASSUME NEW w \in Workers, InsertReading(w)
      PROVE  Rows'
  <2>0. /\ job[w] \in CaptureJob /\ lastId + 1 \in Ids /\ lastId' = lastId + 1
        /\ readings' = readings \cup
              {[id |-> lastId + 1, provider |-> job[w].provider, owner |-> job[w].account,
                via |-> job[w].kind, taken |-> job[w].taken, set |-> {}]}
    BY <1>4, ReadingMoves
  <2>1. readings' \subseteq Reading /\ lastId' \in 0 .. MaxId
    BY <2>0 DEF Reading, CaptureJob, Ids
  <2> QED
    BY <1>4, <2>1 DEF InsertReading, history
<1>5. ASSUME NEW w \in Workers, SaveSnapshot(w)
      PROVE  Rows'
  <2>0. /\ job[w] \in CaptureJob /\ job[w].account \in Ids
        /\ lastId + 1 \in Ids /\ lastId' = lastId + 1
        /\ unified' = unified \cup {[id |-> lastId + 1, account |-> job[w].account,
                                     taken |-> job[w].taken]}
    BY <1>5, UnifiedMoves
  <2>1. unified' \subseteq Unified /\ lastId' \in 0 .. MaxId
    BY <2>0 DEF Unified, CaptureJob, Ids
  <2> QED
    BY <1>5, <2>1 DEF SaveSnapshot, history
<1>6. ASSUME NEW w \in Workers, LinkSubscription(w)
      PROVE  Rows'
  <2> DEFINE new == [id |-> lastId + 1, account |-> job[w].account, auto |-> TRUE]
  <2>0. /\ job[w].account \in Ids /\ lastId + 1 \in Ids /\ lastId' = lastId + 1
        /\ subs' = subs \cup {new}
    BY <1>6, LinkMoves
  <2>1. new \in Sub
    BY <2>0 DEF Sub
  <2> HIDE DEF new
  <2>2. subs' \subseteq Sub /\ lastId' \in 0 .. MaxId
    BY <2>0, <2>1 DEF Ids
  <2> QED
    BY <1>6, <2>2 DEF LinkSubscription, history
<1>7. ASSUME NEW w \in Workers, Breaks(w) \/ \E on \in BOOLEAN : FindSubscription(w, on)
      PROVE  Rows'
  BY <1>7 DEF Breaks, FindSubscription, tables
<1>8. ASSUME Edit
      PROVE  Rows'
  <2>1. ASSUME NEW w \in Workers, NEW kind, NEW r, NEW f, BeginEdit(w, kind, r, f)
        PROVE  Rows'
    BY <2>1 DEF BeginEdit, tables
  <2>2. ASSUME NEW w \in Workers, WriteEdit(w)
        PROVE  Rows'
    <3>1. job[w] \in EditJob
      BY <2>2, WriteMoves
    <3>2. CASE job[w].kind = "meta"
      <4>1. accounts' = Edited(accounts, w) /\ readings' = readings
        BY <2>2, <3>2 DEF WriteEdit
      <4>2. accounts' \subseteq Account
        BY <3>1, <4>1, EditedAccounts
      <4>3. IsFiniteSet(accounts')
        <5> DEFINE f == [r \in accounts |->
                           IF r.id = job[w].row
                             THEN [r EXCEPT !.set = job[w].copy \cup {job[w].field}] ELSE r]
        <5>1. f \in Surjection(accounts, Edited(accounts, w))
          BY DEF Surjection, Edited
        <5> QED
          BY <4>1, <5>1, FS_Surjection
      <4> QED
        BY <2>2, <3>1, <4>1, <4>2, <4>3 DEF WriteEdit, EditJob
    <3>3. CASE job[w].kind # "meta"
      <4>1. readings' = Edited(readings, w) /\ accounts' = accounts
        BY <2>2, <3>3 DEF WriteEdit
      <4>2. readings' \subseteq Reading
        BY <3>1, <4>1, EditedReadings
      <4> QED
        BY <2>2, <3>1, <4>1, <4>2 DEF WriteEdit, EditJob
    <3> QED
      BY <3>2, <3>3
  <2> QED
    BY <1>8, <2>1, <2>2 DEF Edit
<1>9. ASSUME Removes
      PROVE  Rows'
  BY <1>9 DEF Removes, history
<1>10. ASSUME NEW a, DeleteAccount(a)
       PROVE  Rows'
  <2>1. IsFiniteSet(accounts')
    BY <1>10, FS_Subset DEF DeleteAccount
  <2> QED
    BY <1>10, <2>1 DEF DeleteAccount, history
<1>11. ASSUME NEW a \in IdsOf(accounts) \cup {Nobody},
              InsertSubscription(a) \/ \E s \in subs, auto \in BOOLEAN : UpdateSubscription(s, a, auto)
       PROVE  Rows'
  <2>1. a \in Ids \cup {Nobody}
    BY DEF IdsOf, Account
  <2>2. CASE InsertSubscription(a)
    <3> DEFINE new == [id |-> lastId + 1, account |-> a, auto |-> FALSE]
    <3>1. lastId + 1 \in Ids /\ new \in Sub
      BY <2>1, <2>2 DEF InsertSubscription, Sub, Ids
    <3>2. lastId' = lastId + 1 /\ subs' = subs \cup {new}
      BY <2>2 DEF InsertSubscription
    <3> HIDE DEF new
    <3>3. subs' \subseteq Sub /\ lastId' \in 0 .. MaxId
      BY <3>1, <3>2 DEF Ids
    <3> QED
      BY <2>2, <3>3 DEF InsertSubscription, ByUser, history
  <2>3. ASSUME NEW s \in subs, NEW auto \in BOOLEAN, UpdateSubscription(s, a, auto)
        PROVE  Rows'
    <3>1. [s EXCEPT !.account = a, !.auto = auto] \in Sub
      BY <2>1 DEF Sub
    <3> QED
      BY <2>3, <3>1 DEF UpdateSubscription, ByUser
  <2> QED
    BY <1>11, <2>2, <2>3
<1>12. ASSUME NEW s \in subs, DeleteSubscription(s) \/ InsertUsageLog(s.id)
       PROVE  Rows'
  BY <1>12
     DEF DeleteSubscription, InsertUsageLog, ByUser, history, Usage, Sub, Ids
<1>13. ASSUME NEW u \in usage, DeleteUsageLog(u)
       PROVE  Rows'
  BY <1>13 DEF DeleteUsageLog, history
<1> QED
  BY <1>1, <1>2, <1>3, <1>4, <1>5, <1>6, <1>7, <1>8, <1>9, <1>10, <1>11, <1>12, <1>13, StepCases

LEMMA WorkersKept == ASSUME TInv, Next PROVE WorkersOK'
<1>0. WorkersOK /\ Rows
  BY TypeParts
<1>1. (UNCHANGED <<pc, job>>) => WorkersOK'
  BY <1>0 DEF WorkersOK
<1>2. ASSUME NEW w \in Workers, Breaks(w)
      PROVE  WorkersOK'
  BY <1>0, <1>2, BreakMoves
<1>3. ASSUME Edit
      PROVE  WorkersOK'
  <2>1. ASSUME NEW w \in Workers, NEW a \in accounts, NEW f \in Fields, BeginEdit(w, "meta", a, f)
        PROVE  WorkersOK'
    <3>1. a.id \in Ids /\ a.set \in SUBSET Fields
      BY <1>0 DEF Rows, Account
    <3> QED
      BY <2>1, <3>1, EditMoves
  <2>2. ASSUME NEW w \in Workers, NEW r \in readings, NEW f \in Fields, BeginEdit(w, "adjust", r, f)
        PROVE  WorkersOK'
    <3>1. r.id \in Ids /\ r.set \in SUBSET Fields
      BY <1>0 DEF Rows, Reading
    <3> QED
      BY <2>2, <3>1, EditMoves
  <2>3. ASSUME NEW w \in Workers, WriteEdit(w)
        PROVE  WorkersOK'
    BY <2>3, WriteMoves
  <2> QED
    BY <1>3, <2>1, <2>2, <2>3 DEF Edit
<1>4. Removes => UNCHANGED <<pc, job>>
  BY DEF Removes
<1>5. \A a : DeleteAccount(a) => UNCHANGED <<pc, job>>
  BY DEF DeleteAccount
<1>6. \A a : InsertSubscription(a) => UNCHANGED <<pc, job>>
  BY DEF InsertSubscription
<1>7. \A s, a, auto : UpdateSubscription(s, a, auto) => UNCHANGED <<pc, job>>
  BY DEF UpdateSubscription
<1>8. \A s : DeleteSubscription(s) \/ InsertUsageLog(s.id) => UNCHANGED <<pc, job>>
  BY DEF DeleteSubscription, InsertUsageLog
<1>9. \A u : DeleteUsageLog(u) => UNCHANGED <<pc, job>>
  BY DEF DeleteUsageLog
<1>10. CASE \E w \in Workers :
              \/ \E kind \in Kinds, p \in Providers, emails \in Seq(Emails) \ {<<>>} :
                   Begin(w, kind, p, emails)
              \/ UpsertAccount(w) \/ SelectAccount(w) \/ InsertReading(w)
              \/ SaveSnapshot(w) \/ LinkSubscription(w) \/ Breaks(w)
              \/ \E on \in BOOLEAN : FindSubscription(w, on)
  BY <1>2, <1>10, BeginMoves, UpsertMoves, SelectMoves, ReadingMoves, UnifiedMoves,
     LinkMoves, FindMoves
<1> QED
  BY <1>1, <1>3, <1>4, <1>5, <1>6, <1>7, <1>8, <1>9, <1>10, StepCases

LEMMA TypeKept == TInv /\ [Next]_vars => TInv'
<1> SUFFICES ASSUME TInv, [Next]_vars PROVE TInv'
  OBVIOUS
<1>1. ASSUME Next PROVE TInv'
  <2>1. Rows' /\ WorkersOK'
    BY <1>1, RowsKept, WorkersKept
  <2> QED
    BY <2>1, TypeParts, PTL
<1>2. CASE UNCHANGED vars
  BY <1>2 DEF vars, tables, history, TInv, TypeOK, WorkersOK
<1> QED
  BY <1>1, <1>2

\* Every table, worker and bound keeps its type, whatever is deleted or fails between
\* two statements (SnapCapture, TypeOK).
THEOREM TypeCorrect == Spec => []TypeOK
<1>1. TInv => TypeOK
  BY DEF TInv
<1> QED
  BY TypeStarts, TypeKept, <1>1, PTL DEF Spec

\* For the other invariants.
LEMMA Typed == Spec => []TInv
  BY TypeStarts, TypeKept, PTL DEF Spec

-----------------------------------------------------------------------------
(* No orphans                                                              *)

\* The tables no row of which refers to a row that is gone.
LEMMA OrphansStart == Init => NoOrphans
<1> SUFFICES ASSUME Init PROVE NoOrphans
  OBVIOUS
<1>1. CASE New
  BY <1>1 DEF Init, New, NoOrphans
<1>2. CASE \E email \in Emails : Used(email)
  BY <1>2 DEF Init, Used, NoOrphans, IdsOf
<1> QED
  BY <1>1, <1>2 DEF Init

LEMMA OrphansKept == ASSUME TInv, NoOrphans, Next PROVE NoOrphans'
<1> USE DEF NoOrphans, IdsOf
<1>0. Rows
  BY TypeParts
<1>1. ASSUME UNCHANGED tables PROVE NoOrphans'
  BY <1>1 DEF tables
<1>2. ASSUME NEW w \in Workers,
             \/ \E kind \in Kinds, p \in Providers, emails \in Seq(Emails) \ {<<>>} :
                  Begin(w, kind, p, emails)
             \/ SelectAccount(w) \/ Breaks(w)
             \/ \E on \in BOOLEAN : FindSubscription(w, on)
      PROVE  UNCHANGED tables
  BY <1>2 DEF Begin, SelectAccount, Breaks, FindSubscription
<1>3. ASSUME NEW w \in Workers, UpsertAccount(w)
      PROVE  NoOrphans'
  <2>1. accounts \subseteq accounts'
    BY <1>3, UpsertMoves
  <2> QED
    BY <1>3, <2>1 DEF UpsertAccount
<1>4. ASSUME NEW w \in Workers, InsertReading(w)
      PROVE  NoOrphans'
  BY <1>4 DEF InsertReading, Enforced
<1>5. ASSUME NEW w \in Workers, SaveSnapshot(w)
      PROVE  NoOrphans'
  <2>1. job[w].account # Nobody
    BY <1>5, UnifiedMoves DEF Ids, Nobody
  <2> QED
    BY <1>5, <2>1 DEF SaveSnapshot, Enforced
<1>6. ASSUME NEW w \in Workers, LinkSubscription(w)
      PROVE  NoOrphans'
  BY <1>6 DEF LinkSubscription, Enforced
<1>7. ASSUME Edit
      PROVE  NoOrphans'
  <2>1. ASSUME NEW w \in Workers, NEW kind, NEW r, NEW f, BeginEdit(w, kind, r, f)
        PROVE  NoOrphans'
    BY <1>1, <2>1 DEF BeginEdit
  <2>2. ASSUME NEW w \in Workers, WriteEdit(w)
        PROVE  NoOrphans'
    <3>1. job[w] \in EditJob
      BY <2>2, WriteMoves
    <3>2. CASE job[w].kind = "meta"
      <4>1. IdsOf(accounts') = IdsOf(accounts) /\ readings' = readings
        BY <1>0, <2>2, <3>1, <3>2, EditedIds DEF WriteEdit
      <4> QED
        BY <2>2, <4>1 DEF WriteEdit
    <3>3. CASE job[w].kind # "meta"
      <4>1. readings' = Edited(readings, w) /\ accounts' = accounts
        BY <2>2, <3>3 DEF WriteEdit
      <4>2. \A e \in readings' : \E r \in readings : e.owner = r.owner
        BY <1>0, <3>1, <4>1, EditedReadings
      <4> QED
        BY <2>2, <4>1, <4>2 DEF WriteEdit
    <3> QED
      BY <3>2, <3>3
  <2> QED
    BY <1>7, <2>1, <2>2 DEF Edit
<1>8. ASSUME Removes
      PROVE  NoOrphans'
  BY <1>8 DEF Removes
<1>9. ASSUME NEW a \in IdsOf(accounts), DeleteAccount(a)
      PROVE  NoOrphans'
  BY <1>9 DEF DeleteAccount, SubsOf
<1>10. ASSUME NEW a \in IdsOf(accounts) \cup {Nobody}, InsertSubscription(a)
       PROVE  NoOrphans'
  BY <1>10 DEF InsertSubscription
<1>11. ASSUME NEW a \in IdsOf(accounts) \cup {Nobody}, NEW s \in subs, NEW auto \in BOOLEAN,
              UpdateSubscription(s, a, auto)
       PROVE  NoOrphans'
  <2>1. [s EXCEPT !.account = a, !.auto = auto].id = s.id
        /\ [s EXCEPT !.account = a, !.auto = auto].account = a
    BY <1>0 DEF Rows, Sub
  <2> QED
    BY <1>11, <2>1 DEF UpdateSubscription
<1>12. ASSUME NEW s \in subs, DeleteSubscription(s)
       PROVE  NoOrphans'
  BY <1>12 DEF DeleteSubscription
<1>13. ASSUME NEW s \in subs, InsertUsageLog(s.id)
       PROVE  NoOrphans'
  BY <1>13 DEF InsertUsageLog
<1>14. ASSUME NEW u \in usage, DeleteUsageLog(u)
       PROVE  NoOrphans'
  BY <1>14 DEF DeleteUsageLog
<1> QED
  BY <1>1, <1>2, <1>3, <1>4, <1>5, <1>6, <1>7, <1>8, <1>9, <1>10, <1>11, <1>12, <1>13,
     <1>14, StepCases

\* No row refers to an account or a subscription that is gone, in any interleaving of
\* captures and deletions (SnapCapture, NoOrphans): because a capture's account is
\* checked by the statement that uses it, not by the one that found it.
THEOREM NoOrphansHolds == Spec => []NoOrphans
<1>1. NoOrphans /\ TInv /\ [Next]_vars => NoOrphans'
  <2> SUFFICES ASSUME NoOrphans, TInv, [Next]_vars PROVE NoOrphans'
    OBVIOUS
  <2>1. CASE UNCHANGED vars
    BY <2>1 DEF vars, tables, NoOrphans, IdsOf
  <2> QED
    BY <2>1, OrphansKept
<1> QED
  BY Typed, OrphansStart, <1>1, PTL DEF Spec

-----------------------------------------------------------------------------
(* Ids are given once                                                      *)

RowsBelow == \A r \in accounts \cup readings \cup unified : r.id <= lastId
JobsBelow == \A w \in Workers : pc[w] # "idle" => job[w].row <= lastId
Apart == \A a \in accounts, r \in readings : a.id # r.id

\* An edit's row is in no other table.
OwnTable ==
  \A w \in Workers : pc[w] = "write" =>
    IF job[w].kind = "meta" THEN \A r \in readings : r.id # job[w].row
                            ELSE \A a \in accounts : a.id # job[w].row

IdInv == RowsBelow /\ JobsBelow /\ Apart /\ OwnTable

LEMMA IdsStart == Init => IdInv
<1> SUFFICES ASSUME Init PROVE IdInv
  OBVIOUS
<1> USE DEF Init, IdInv, RowsBelow, JobsBelow, Apart, OwnTable
<1>1. CASE New
  BY <1>1 DEF New
<1>2. CASE \E email \in Emails : Used(email)
  BY <1>2 DEF Used
<1> QED
  BY <1>1, <1>2

\* A step that gives at most one id, and changes at most one worker.
LEMMA IdsGrow ==
  ASSUME TInv, IdInv, NEW w \in Workers,
         \A v \in Workers \ {w} : pc'[v] = pc[v] /\ job'[v] = job[v],
         lastId' \in {lastId, lastId + 1},
         \A a \in accounts' : (\E b \in accounts : b.id = a.id) \/ (a.id = lastId + 1 /\ lastId' = lastId + 1),
         \A r \in readings' : (\E q \in readings : q.id = r.id) \/ (r.id = lastId + 1 /\ lastId' = lastId + 1),
         \A u \in unified' : (\E v \in unified : v.id = u.id) \/ (u.id = lastId + 1 /\ lastId' = lastId + 1),
         accounts' = accounts \/ readings' = readings,
         pc'[w] # "write",
         pc'[w] # "idle" => job'[w].row <= lastId'
  PROVE  IdInv'
<1>1. lastId \in Nat
  BY DEF TInv, TypeOK
<1>2. \A v \in Workers : pc[v] # "idle" => job[v].row \in Nat
  BY DEF TInv, WorkersOK, WorkerOK, CaptureJob, EditJob, Ids
<1>3. \A r \in accounts \cup readings \cup unified : r.id \in Nat
  BY DEF TInv, TypeOK, Account, Reading, Unified, Ids
<1>4. RowsBelow'
  BY <1>1, <1>3 DEF IdInv, RowsBelow
<1>5. JobsBelow'
  BY <1>1, <1>2 DEF IdInv, JobsBelow
<1>6. Apart'
  BY <1>1, <1>3 DEF IdInv, RowsBelow, Apart
<1>7. OwnTable'
  <2> SUFFICES ASSUME NEW v \in Workers, pc'[v] = "write"
               PROVE  IF job'[v].kind = "meta" THEN \A r \in readings' : r.id # job'[v].row
                                               ELSE \A a \in accounts' : a.id # job'[v].row
    BY DEF OwnTable
  <2>1. v # w /\ pc[v] = "write" /\ job'[v] = job[v] /\ job[v].row <= lastId /\ job[v].row \in Nat
    BY <1>2 DEF IdInv, JobsBelow
  <2> QED
    BY <1>1, <2>1 DEF IdInv, OwnTable
<1> QED
  BY <1>4, <1>5, <1>6, <1>7 DEF IdInv

\* An edit that ends: no id appears.
LEMMA IdsShift ==
  ASSUME IdInv, NEW w \in Workers,
         \A v \in Workers \ {w} : pc'[v] = pc[v] /\ job'[v] = job[v],
         lastId' = lastId, unified' = unified, pc'[w] = "idle",
         \A a \in accounts' : \E b \in accounts : b.id = a.id,
         \A r \in readings' : \E q \in readings : q.id = r.id
  PROVE  IdInv'
  BY DEF IdInv, RowsBelow, JobsBelow, Apart, OwnTable

\* A step that gives no id.
LEMMA IdsMove ==
  ASSUME IdInv, NEW w \in Workers,
         \A v \in Workers \ {w} : pc'[v] = pc[v] /\ job'[v] = job[v],
         UNCHANGED <<accounts, readings, unified, lastId>>,
         pc'[w] # "write", pc'[w] # "idle" => job'[w].row <= lastId
  PROVE  IdInv'
  BY DEF IdInv, RowsBelow, JobsBelow, Apart, OwnTable

LEMMA IdsStay ==
  ASSUME IdInv, UNCHANGED <<pc, job, lastId>>, accounts' \subseteq accounts,
         readings' \subseteq readings, unified' \subseteq unified
  PROVE  IdInv'
  BY DEF IdInv, RowsBelow, JobsBelow, Apart, OwnTable

LEMMA IdsKept == ASSUME TInv, IdInv, Next PROVE IdInv'
<1>0. /\ Rows /\ lastId \in Nat
      /\ \A w \in Workers : pc[w] # "idle" => job[w].row <= lastId /\ job[w].row \in Nat
  <2>1. Rows /\ WorkersOK
    BY TypeParts
  <2> QED
    BY <2>1 DEF Rows, WorkersOK, WorkerOK, CaptureJob, EditJob, Ids, IdInv, JobsBelow
<1>1. ASSUME NEW w \in Workers, NEW kind \in Kinds, NEW p \in Providers,
             NEW emails \in Seq(Emails) \ {<<>>}, Begin(w, kind, p, emails)
      PROVE  IdInv'
  <2>1. /\ pc'[w] = "upsert" /\ job'[w].row = 0
        /\ \A v \in Workers \ {w} : pc'[v] = pc[v] /\ job'[v] = job[v]
    BY <1>1, BeginMoves
  <2>2. UNCHANGED <<accounts, readings, unified, lastId>>
    BY <1>1 DEF Begin, tables
  <2>3. job'[w].row <= lastId
    BY <1>0, <2>1
  <2> QED
    BY <2>1, <2>2, <2>3, IdsMove
<1>2. ASSUME NEW w \in Workers, UpsertAccount(w)
      PROVE  IdInv'
  <2>1. /\ pc[w] = "upsert" /\ pc'[w] = "select" /\ UNCHANGED job
        /\ \A v \in Workers \ {w} : pc'[v] = pc[v]
    BY <1>2, UpsertMoves
  <2>2. UNCHANGED <<readings, unified>>
    BY <1>2 DEF UpsertAccount
  <2>3. \/ accounts' = accounts /\ lastId' = lastId
        \/ /\ lastId' = lastId + 1
           /\ \A a \in accounts' : a \in accounts \/ a.id = lastId + 1
    BY <1>2, UpsertMoves
  <2>4. job'[w].row <= lastId'
    BY <1>0, <2>1, <2>3
  <2>5. CASE accounts' = accounts /\ lastId' = lastId
    BY <2>1, <2>2, <2>4, <2>5, IdsMove
  <2>6. CASE lastId' = lastId + 1
    <3>1. /\ \A a \in accounts' : (\E b \in accounts : b.id = a.id) \/ a.id = lastId + 1
          /\ pc'[w] # "write"
      BY <2>1, <2>3, <2>6
    <3> QED
      BY <2>1, <2>2, <2>4, <2>6, <3>1, IdsGrow
  <2> QED
    BY <2>3, <2>5, <2>6
<1>3. ASSUME NEW w \in Workers, SelectAccount(w)
      PROVE  IdInv'
  <2>1. /\ pc[w] = "select" /\ pc'[w] # "write" /\ job'[w].row = job[w].row
        /\ \A v \in Workers \ {w} : pc'[v] = pc[v] /\ job'[v] = job[v]
    BY <1>3, SelectMoves
  <2>2. UNCHANGED <<accounts, readings, unified, lastId>>
    BY <1>3 DEF SelectAccount, tables
  <2>3. job'[w].row <= lastId
    BY <1>0, <2>1
  <2> QED
    BY <2>1, <2>2, <2>3, IdsMove
<1>4. ASSUME NEW w \in Workers, InsertReading(w)
      PROVE  IdInv'
  <2>1. /\ lastId' = lastId + 1 /\ pc'[w] # "write"
        /\ pc'[w] # "idle" => job'[w].row \in {0, lastId + 1}
        /\ \A r \in readings' : r \in readings \/ r.id = lastId + 1
        /\ \A v \in Workers \ {w} : pc'[v] = pc[v] /\ job'[v] = job[v]
    BY <1>4, ReadingMoves
  <2>2. UNCHANGED <<accounts, unified>>
    BY <1>4 DEF InsertReading
  <2>3. pc'[w] # "idle" => job'[w].row <= lastId'
    BY <1>0, <2>1
  <2>4. \A r \in readings' : (\E q \in readings : q.id = r.id) \/ r.id = lastId + 1
    BY <2>1
  <2> QED
    BY <2>1, <2>2, <2>3, <2>4, IdsGrow
<1>5. ASSUME NEW w \in Workers, SaveSnapshot(w)
      PROVE  IdInv'
  <2>1. /\ lastId' = lastId + 1 /\ pc[w] = "unified" /\ pc'[w] = "find" /\ UNCHANGED job
        /\ \A u \in unified' : u \in unified \/ u.id = lastId + 1
        /\ \A v \in Workers \ {w} : pc'[v] = pc[v]
    BY <1>5, UnifiedMoves
  <2>2. UNCHANGED <<accounts, readings>>
    BY <1>5 DEF SaveSnapshot
  <2>3. job'[w].row <= lastId'
    BY <1>0, <2>1
  <2> QED
    BY <1>0, <2>1, <2>2, <2>3, IdsGrow
<1>6. ASSUME NEW w \in Workers, LinkSubscription(w)
      PROVE  IdInv'
  <2>1. /\ lastId' = lastId + 1 /\ pc'[w] # "write"
        /\ pc'[w] # "idle" => job'[w].row = 0
        /\ \A v \in Workers \ {w} : pc'[v] = pc[v] /\ job'[v] = job[v]
    BY <1>6, LinkMoves
  <2>2. UNCHANGED <<accounts, readings, unified>>
    BY <1>6 DEF LinkSubscription
  <2>3. pc'[w] # "idle" => job'[w].row <= lastId'
    BY <1>0, <2>1
  <2> QED
    BY <2>1, <2>2, <2>3, IdsGrow
<1>7. ASSUME NEW w \in Workers, Breaks(w)
      PROVE  IdInv'
  <2>1. WorkersOK
    BY TypeParts
  <2>2. /\ pc[w] # "idle" /\ pc'[w] # "write"
        /\ pc'[w] # "idle" => job'[w].row \in {0, job[w].row}
        /\ \A v \in Workers \ {w} : pc'[v] = pc[v] /\ job'[v] = job[v]
    BY <1>7, <2>1, BreakMoves DEF Breaks
  <2>3. UNCHANGED <<accounts, readings, unified, lastId>>
    BY <1>7 DEF Breaks, tables
  <2>4. pc'[w] # "idle" => job'[w].row <= lastId
    BY <1>0, <2>2
  <2> QED
    BY <2>2, <2>3, <2>4, IdsMove
<1>8. ASSUME NEW w \in Workers, NEW on \in BOOLEAN, FindSubscription(w, on)
      PROVE  IdInv'
  <2>1. /\ pc[w] = "find" /\ pc'[w] # "write"
        /\ pc'[w] # "idle" => job'[w].row \in {0, job[w].row}
        /\ \A v \in Workers \ {w} : pc'[v] = pc[v] /\ job'[v] = job[v]
    BY <1>8, FindMoves
  <2>2. UNCHANGED <<accounts, readings, unified, lastId>>
    BY <1>8 DEF FindSubscription, tables
  <2>3. pc'[w] # "idle" => job'[w].row <= lastId
    BY <1>0, <2>1
  <2> QED
    BY <2>1, <2>2, <2>3, IdsMove
<1>9. ASSUME NEW w \in Workers, WriteEdit(w)
       PROVE  IdInv'
  <2>1. /\ job[w] \in EditJob /\ pc'[w] = "idle"
        /\ \A v \in Workers \ {w} : pc'[v] = pc[v] /\ job'[v] = job[v]
    BY <1>9, WriteMoves
  <2>2. lastId' = lastId /\ unified' = unified
    BY <1>9 DEF WriteEdit
  <2>3. \/ accounts' = Edited(accounts, w) /\ readings' = readings
        \/ readings' = Edited(readings, w) /\ accounts' = accounts
    BY <1>9 DEF WriteEdit
  <2>4. IdsOf(accounts') = IdsOf(accounts) /\ IdsOf(readings') = IdsOf(readings)
    BY <1>0, <2>1, <2>3, EditedIds
  <2>5. /\ \A a \in accounts' : \E b \in accounts : b.id = a.id
        /\ \A r \in readings' : \E q \in readings : q.id = r.id
    BY <2>4 DEF IdsOf
  <2> QED
    BY <2>1, <2>2, <2>3, <2>5, IdsShift
<1>10. ASSUME Removes \/ (\E a \in IdsOf(accounts) : DeleteAccount(a))
              \/ (\E a \in IdsOf(accounts) \cup {Nobody}, s \in subs, auto \in BOOLEAN :
                    UpdateSubscription(s, a, auto))
              \/ (\E s \in subs : DeleteSubscription(s))
              \/ (\E u \in usage : DeleteUsageLog(u))
       PROVE  IdInv'
  <2>1. /\ UNCHANGED <<pc, job, lastId>> /\ accounts' \subseteq accounts
        /\ readings' \subseteq readings /\ unified' \subseteq unified
    BY <1>10 DEF Removes, DeleteAccount, UpdateSubscription, DeleteSubscription, DeleteUsageLog
  <2> QED
    BY <2>1, IdsStay
<1>11. ASSUME (\E a \in IdsOf(accounts) \cup {Nobody} : InsertSubscription(a))
              \/ (\E s \in subs : InsertUsageLog(s.id))
       PROVE  IdInv'
  <2>1. UNCHANGED <<pc, job, accounts, readings, unified>> /\ lastId' = lastId + 1
    BY <1>11 DEF InsertSubscription, InsertUsageLog
  <2>2. \A r \in accounts \cup readings \cup unified : r.id \in Nat
    BY <1>0 DEF Rows, Account, Reading, Unified, Ids
  <2> QED
    BY <1>0, <2>1, <2>2 DEF IdInv, RowsBelow, JobsBelow, Apart, OwnTable
<1>12. ASSUME Edit PROVE IdInv'
  <2>1. ASSUME NEW w \in Workers, NEW a \in accounts, NEW f \in Fields,
             BeginEdit(w, "meta", a, f)
        PROVE  IdInv'
    <3>1. a.id \in Ids /\ a.set \in SUBSET Fields
      BY <1>0 DEF Rows, Account
    <3>2. /\ pc[w] = "idle" /\ pc'[w] = "write" /\ job'[w].kind = "meta"
          /\ job'[w].row = a.id
          /\ \A v \in Workers \ {w} : pc'[v] = pc[v] /\ job'[v] = job[v]
      BY <2>1, <3>1, EditMoves
    <3>3. UNCHANGED <<accounts, readings, unified, lastId>>
      BY <2>1 DEF BeginEdit, tables
    <3> QED
      BY <3>2, <3>3 DEF IdInv, RowsBelow, JobsBelow, Apart, OwnTable
  <2>2. ASSUME NEW w \in Workers, NEW r \in readings, NEW f \in Fields,
             BeginEdit(w, "adjust", r, f)
        PROVE  IdInv'
    <3>1. r.id \in Ids /\ r.set \in SUBSET Fields
      BY <1>0 DEF Rows, Reading
    <3>2. /\ pc[w] = "idle" /\ pc'[w] = "write" /\ job'[w].kind = "adjust"
          /\ job'[w].row = r.id
          /\ \A v \in Workers \ {w} : pc'[v] = pc[v] /\ job'[v] = job[v]
      BY <2>2, <3>1, EditMoves
    <3>3. UNCHANGED <<accounts, readings, unified, lastId>>
      BY <2>2 DEF BeginEdit, tables
    <3> QED
      BY <3>2, <3>3 DEF IdInv, RowsBelow, JobsBelow, Apart, OwnTable
  <2> QED
    BY <1>9, <1>12, <2>1, <2>2 DEF Edit
<1> QED
  BY <1>1, <1>2, <1>3, <1>4, <1>5, <1>6, <1>7, <1>8, <1>10, <1>11, <1>12, StepCases

LEMMA IdsHold == Spec => [](TInv /\ IdInv)
<1>1. TInv /\ IdInv /\ [Next]_vars => IdInv'
  <2> SUFFICES ASSUME TInv, IdInv, [Next]_vars PROVE IdInv'
    OBVIOUS
  <2>1. CASE UNCHANGED vars
    BY <2>1, IdsStay DEF vars, tables
  <2> QED
    BY <2>1, IdsKept
<1> QED
  BY Typed, IdsStart, <1>1, PTL DEF Spec

-----------------------------------------------------------------------------
(* What users set stays                                                    *)

\* Nobody has edited a row that does not exist yet.
Unasked == \A i \in Ids : i > lastId => asked[i] = {}

\* An edit that is alone with its row has all that was asked of the row in its copy.
CopyIsCurrent ==
  \A w \in Workers : pc[w] = "write" /\ job[w].row \notin clashed =>
    asked[job[w].row] \subseteq job[w].copy

EditsAlone ==
  \A v, w \in Workers :
    pc[v] = "write" /\ pc[w] = "write" /\ job[v].row = job[w].row /\ job[w].row \notin clashed
      => v = w

EditInv == Unasked /\ CopyIsCurrent /\ EditsAlone /\ EditsStick

LEMMA EditsStart == Init => EditInv
<1> SUFFICES ASSUME Init PROVE EditInv
  OBVIOUS
<1>1. Unasked /\ CopyIsCurrent /\ EditsAlone
  BY DEF Init, Unasked, CopyIsCurrent, EditsAlone
<1>2. \A r \in accounts \cup readings : r.id \in Ids
  BY TypeStarts DEF TInv, TypeOK, Account, Reading
<1>3. EditsStick
  BY <1>2 DEF Init, EditsStick
<1> QED
  BY <1>1, <1>3 DEF EditInv

\* A step that is no edit: what it stores is new.
LEMMA EditsWait ==
  ASSUME TInv, EditInv, UNCHANGED <<asked, clashed>>, lastId' \in {lastId, lastId + 1},
         \A w \in Workers : pc'[w] = "write" => pc[w] = "write" /\ job'[w] = job[w],
         \A r \in accounts' \cup readings' :
           r \in accounts \cup readings \/ (r.id = lastId + 1 /\ r.id \in Ids)
  PROVE  EditInv'
<1>1. lastId \in Nat
  BY DEF TInv, TypeOK
<1>2. Unasked'
  BY <1>1 DEF EditInv, Unasked, Ids
<1>3. CopyIsCurrent' /\ EditsAlone'
  BY DEF EditInv, CopyIsCurrent, EditsAlone
<1>4. \A i \in Ids : i = lastId + 1 => asked[i] = {}
  BY <1>1 DEF EditInv, Unasked, Ids
<1>5. EditsStick'
  BY <1>4 DEF EditInv, EditsStick
<1> QED
  BY <1>2, <1>3, <1>5 DEF EditInv

LEMMA EditBegins ==
  ASSUME TInv, EditInv, NEW w \in Workers, NEW kind \in {"meta", "adjust"},
         NEW r \in accounts \cup readings, NEW field \in Fields, BeginEdit(w, kind, r, field)
  PROVE  EditInv'
<1>1. r.id \in Ids /\ r.set \in SUBSET Fields
  BY DEF TInv, TypeOK, Account, Reading
<1>2. /\ pc[w] = "idle" /\ pc'[w] = "write" /\ job'[w].row = r.id /\ job'[w].copy = r.set
      /\ \A v \in Workers \ {w} : pc'[v] = pc[v] /\ job'[v] = job[v]
  BY <1>1, EditMoves
<1>3. UNCHANGED <<accounts, readings, lastId, asked>>
  BY DEF BeginEdit, tables
<1>4. clashed \subseteq clashed'
      /\ ((\E v \in Workers : pc[v] = "write" /\ job[v].row = r.id) => r.id \in clashed')
  BY DEF BeginEdit
<1>5. Unasked'
  BY <1>3 DEF EditInv, Unasked
<1>6. CopyIsCurrent'
  BY <1>2, <1>3, <1>4 DEF EditInv, CopyIsCurrent, EditsStick
<1>7. EditsAlone'
  BY <1>2, <1>4 DEF EditInv, EditsAlone
<1>8. EditsStick'
  BY <1>3, <1>4 DEF EditInv, EditsStick
<1> QED
  BY <1>5, <1>6, <1>7, <1>8 DEF EditInv

LEMMA EditEnds ==
  ASSUME TInv, IdInv, EditInv, NEW w \in Workers, WriteEdit(w)
  PROVE  EditInv'
<1> DEFINE row == job[w].row
           field == job[w].field
<1>0. Rows
  BY TypeParts
<1>1. /\ pc[w] = "write" /\ job[w] \in EditJob /\ pc'[w] = "idle"
      /\ \A v \in Workers \ {w} : pc'[v] = pc[v] /\ job'[v] = job[v]
  BY WriteMoves
<1>2. row \in Ids /\ field \in Fields /\ row <= lastId /\ lastId \in Nat
  BY <1>0, <1>1 DEF EditJob, IdInv, JobsBelow, Rows
<1>3. asked' = [asked EXCEPT ![row] = @ \cup {field}] /\ UNCHANGED <<lastId, clashed>>
  BY DEF WriteEdit
<1>4. /\ asked'[row] = asked[row] \cup {field}
      /\ \A i \in Ids \ {row} : asked'[i] = asked[i]
  BY <1>0, <1>2, <1>3 DEF Rows
<1>5. Unasked'
  <2> SUFFICES ASSUME NEW i \in Ids, i > lastId' PROVE asked'[i] = {}
    BY DEF Unasked
  <2>1. i \in Nat /\ i > lastId
    BY <1>3 DEF Ids
  <2>2. i # row
    BY <1>2, <2>1 DEF Ids
  <2> QED
    BY <1>4, <2>1, <2>2 DEF EditInv, Unasked
<1>6. EditsAlone'
  BY <1>1, <1>3 DEF EditInv, EditsAlone
<1>7. CopyIsCurrent'
  <2> SUFFICES ASSUME NEW v \in Workers, pc'[v] = "write", job'[v].row \notin clashed'
               PROVE  asked'[job'[v].row] \subseteq job'[v].copy
    BY DEF CopyIsCurrent
  <2>1. v # w /\ pc[v] = "write" /\ job'[v] = job[v] /\ job[v].row \notin clashed
    BY <1>1, <1>3
  <2>2. job[v].row # row
    BY <1>1, <2>1 DEF EditInv, EditsAlone
  <2>3. job[v].row \in Ids
    BY <2>1 DEF TInv, WorkersOK, WorkerOK, EditJob
  <2> QED
    BY <1>4, <2>1, <2>2, <2>3 DEF EditInv, CopyIsCurrent
<1>8. EditsStick'
  <2> SUFFICES ASSUME NEW e \in accounts' \cup readings', e.id \notin clashed
               PROVE  asked'[e.id] \subseteq e.set
    BY <1>3 DEF EditsStick
  <2>1. \/ job[w].kind = "meta" /\ accounts' = Edited(accounts, w) /\ readings' = readings
        \/ job[w].kind # "meta" /\ readings' = Edited(readings, w) /\ accounts' = accounts
    BY DEF WriteEdit
  <2>2. \E r \in accounts \cup readings :
          /\ e.id = r.id
          /\ \/ r.id = row /\ e.set = job[w].copy \cup {field}
             \/ r.id # row /\ e.set = r.set
    <3>1. CASE e \in accounts' /\ job[w].kind = "meta"
      <4>1. e \in Edited(accounts, w)
        BY <2>1, <3>1
      <4>2. \E r \in accounts :
              /\ e.id = r.id
              /\ e.set = IF r.id = job[w].row THEN job[w].copy \cup {job[w].field} ELSE r.set
        BY <1>0, <1>1, <4>1, EditedAccounts
      <4> QED
        BY <4>2
    <3>2. CASE e \in readings' /\ job[w].kind # "meta"
      <4>1. e \in Edited(readings, w)
        BY <2>1, <3>2
      <4>2. \E r \in readings :
              /\ e.id = r.id
              /\ e.set = IF r.id = job[w].row THEN job[w].copy \cup {job[w].field} ELSE r.set
        BY <1>0, <1>1, <4>1, EditedReadings
      <4> QED
        BY <4>2
    <3>3. CASE e \in accounts' /\ job[w].kind # "meta"
      BY <1>1, <2>1, <3>3 DEF IdInv, OwnTable
    <3>4. CASE e \in readings' /\ job[w].kind = "meta"
      BY <1>1, <2>1, <3>4 DEF IdInv, OwnTable
    <3> QED
      BY <3>1, <3>2, <3>3, <3>4
  <2>3. PICK r \in accounts \cup readings :
          /\ e.id = r.id
          /\ \/ r.id = row /\ e.set = job[w].copy \cup {field}
             \/ r.id # row /\ e.set = r.set
    BY <2>2
  <2>4. r.id \in Ids
    BY <1>0 DEF Rows, Account, Reading
  <2>5. asked[r.id] \subseteq r.set
    BY <2>3 DEF EditInv, EditsStick
  <2>6. row \notin clashed => asked[row] \subseteq job[w].copy
    BY <1>1 DEF EditInv, CopyIsCurrent
  <2> QED
    BY <1>4, <2>3, <2>4, <2>5, <2>6
<1> QED
  BY <1>5, <1>6, <1>7, <1>8 DEF EditInv

LEMMA EditsKept == ASSUME TInv, IdInv, EditInv, Next PROVE EditInv'
<1>0. WorkersOK /\ lastId \in Nat
  BY DEF TInv, TypeOK
<1>1. ASSUME NEW w \in Workers,
             \/ \E kind \in Kinds, p \in Providers, emails \in Seq(Emails) \ {<<>>} :
                  Begin(w, kind, p, emails)
             \/ SelectAccount(w) \/ Breaks(w)
             \/ \E on \in BOOLEAN : FindSubscription(w, on)
      PROVE  EditInv'
  <2>1. pc'[w] # "write" /\ \A v \in Workers \ {w} : pc'[v] = pc[v] /\ job'[v] = job[v]
    BY <1>0, <1>1, BeginMoves, SelectMoves, BreakMoves, FindMoves
  <2>2. UNCHANGED <<accounts, readings, lastId, asked, clashed>>
    BY <1>1 DEF Begin, SelectAccount, Breaks, FindSubscription, tables, history
  <2>3. \A v \in Workers : pc'[v] = "write" => pc[v] = "write" /\ job'[v] = job[v]
    BY <2>1
  <2> QED
    BY <1>0, <2>1, <2>2, <2>3, EditsWait
<1>2. ASSUME NEW w \in Workers, UpsertAccount(w)
      PROVE  EditInv'
  <2>1. pc'[w] # "write" /\ UNCHANGED job /\ \A v \in Workers \ {w} : pc'[v] = pc[v]
    BY <1>2, UpsertMoves
  <2>2. UNCHANGED <<readings, asked, clashed>>
    BY <1>2 DEF UpsertAccount, history
  <2> DEFINE new == [id |-> lastId + 1, email |-> Head(job[w].todo),
                     provider |-> job[w].provider, set |-> {}]
  <2>0. \/ accounts' = accounts /\ lastId' = lastId
        \/ lastId + 1 \in Ids /\ lastId' = lastId + 1 /\ accounts' = accounts \cup {new}
    BY <1>2, UpsertMoves
  <2>3. lastId' \in {lastId, lastId + 1}
        /\ \A a \in accounts' : a \in accounts \/ (a.id = lastId + 1 /\ a.id \in Ids)
    BY <2>0
  <2>4. \A v \in Workers : pc'[v] = "write" => pc[v] = "write" /\ job'[v] = job[v]
    BY <2>1
  <2>5. \A r \in accounts' \cup readings' :
          r \in accounts \cup readings \/ (r.id = lastId + 1 /\ r.id \in Ids)
    BY <2>2, <2>3
  <2> QED
    BY <2>2, <2>3, <2>4, <2>5, EditsWait
<1>3. ASSUME NEW w \in Workers, InsertReading(w)
      PROVE  EditInv'
  <2>1. pc'[w] # "write" /\ \A v \in Workers \ {w} : pc'[v] = pc[v] /\ job'[v] = job[v]
    BY <1>3, ReadingMoves
  <2>2. UNCHANGED <<accounts, asked, clashed>>
    BY <1>3 DEF InsertReading, history
  <2> DEFINE new == [id |-> lastId + 1, provider |-> job[w].provider, owner |-> job[w].account,
                     via |-> job[w].kind, taken |-> job[w].taken, set |-> {}]
  <2>0. lastId' = lastId + 1 /\ lastId + 1 \in Ids /\ readings' = readings \cup {new}
    BY <1>3, ReadingMoves
  <2>3. lastId' = lastId + 1
        /\ \A r \in readings' : r \in readings \/ (r.id = lastId + 1 /\ r.id \in Ids)
    BY <2>0
  <2>4. \A v \in Workers : pc'[v] = "write" => pc[v] = "write" /\ job'[v] = job[v]
    BY <2>1
  <2>5. \A r \in accounts' \cup readings' :
          r \in accounts \cup readings \/ (r.id = lastId + 1 /\ r.id \in Ids)
    BY <2>2, <2>3
  <2> QED
    BY <2>2, <2>3, <2>4, <2>5, EditsWait
<1>4. ASSUME NEW w \in Workers, SaveSnapshot(w)
      PROVE  EditInv'
  <2>1. /\ pc'[w] # "write" /\ UNCHANGED job /\ lastId' = lastId + 1
        /\ \A v \in Workers \ {w} : pc'[v] = pc[v]
    BY <1>4, UnifiedMoves
  <2>2. UNCHANGED <<accounts, readings, asked, clashed>>
    BY <1>4 DEF SaveSnapshot, history
  <2>3. \A v \in Workers : pc'[v] = "write" => pc[v] = "write" /\ job'[v] = job[v]
    BY <2>1
  <2> QED
    BY <1>0, <2>1, <2>2, <2>3, EditsWait
<1>5. ASSUME NEW w \in Workers, LinkSubscription(w)
      PROVE  EditInv'
  <2>1. /\ pc'[w] # "write" /\ lastId' = lastId + 1
        /\ \A v \in Workers \ {w} : pc'[v] = pc[v] /\ job'[v] = job[v]
    BY <1>5, LinkMoves
  <2>2. UNCHANGED <<accounts, readings, asked, clashed>>
    BY <1>5 DEF LinkSubscription, history
  <2>3. \A v \in Workers : pc'[v] = "write" => pc[v] = "write" /\ job'[v] = job[v]
    BY <2>1
  <2> QED
    BY <1>0, <2>1, <2>2, <2>3, EditsWait
<1>6. ASSUME Edit PROVE EditInv'
  <2>1. ASSUME NEW w \in Workers, NEW a \in accounts, NEW f \in Fields, BeginEdit(w, "meta", a, f)
        PROVE  EditInv'
    BY <2>1, EditBegins
  <2>2. ASSUME NEW w \in Workers, NEW r \in readings, NEW f \in Fields, BeginEdit(w, "adjust", r, f)
        PROVE  EditInv'
    BY <2>2, EditBegins
  <2>3. ASSUME NEW w \in Workers, WriteEdit(w)
        PROVE  EditInv'
    BY <2>3, EditEnds
  <2> QED
    BY <1>6, <2>1, <2>2, <2>3 DEF Edit
<1>7. ASSUME \/ Removes \/ (\E a \in IdsOf(accounts) : DeleteAccount(a))
             \/ \E a \in IdsOf(accounts) \cup {Nobody} :
                  \/ InsertSubscription(a)
                  \/ \E s \in subs, auto \in BOOLEAN : UpdateSubscription(s, a, auto)
             \/ (\E s \in subs : DeleteSubscription(s) \/ InsertUsageLog(s.id))
             \/ (\E u \in usage : DeleteUsageLog(u))
      PROVE  EditInv'
  <2>1. /\ UNCHANGED <<pc, job, asked, clashed>> /\ lastId' \in {lastId, lastId + 1}
        /\ accounts' \subseteq accounts /\ readings' \subseteq readings
    BY <1>7 DEF Removes, DeleteAccount, InsertSubscription, UpdateSubscription,
                DeleteSubscription, InsertUsageLog, DeleteUsageLog, history
  <2>2. \A v \in Workers : pc'[v] = "write" => pc[v] = "write" /\ job'[v] = job[v]
    BY <2>1
  <2>3. \A r \in accounts' \cup readings' : r \in accounts \cup readings
    BY <2>1
  <2> QED
    BY <2>1, <2>2, <2>3, EditsWait
<1> QED
  BY <1>1, <1>2, <1>3, <1>4, <1>5, <1>6, <1>7, StepCases

\* What a user set on an account or a snapshot is there until the row is deleted,
\* through captures and edits of other rows (SnapCapture, EditsStick): the copy an
\* edit writes back is current unless two edits of the row overlap.
THEOREM EditsStickHolds == Spec => []EditsStick
<1>1. TInv /\ IdInv /\ EditInv /\ [Next]_vars => EditInv'
  <2> SUFFICES ASSUME TInv, IdInv, EditInv, [Next]_vars PROVE EditInv'
    OBVIOUS
  <2>1. CASE UNCHANGED vars
    BY <2>1 DEF vars, tables, history, EditInv, Unasked, CopyIsCurrent, EditsAlone, EditsStick
  <2> QED
    BY <2>1, EditsKept
<1>2. EditInv => EditsStick
  BY DEF EditInv
<1> QED
  BY IdsHold, EditsStart, <1>1, <1>2, PTL DEF Spec

-----------------------------------------------------------------------------
(* A snap is stored in both tables                                         *)

NoRowYet ==
  \A w \in Workers : pc[w] \in {"upsert", "select", "reading"} => job[w].row = 0

\* The row a capture is about to store again is the one it has stored.
RowsMatch ==
  \A w \in Workers, r \in readings : pc[w] = "unified" /\ r.id = job[w].row =>
    r.owner = job[w].account /\ r.taken = job[w].taken

BothInv == NoRowYet /\ RowsMatch /\ CapturedInBoth

InBoth(r) == \E u \in unified : u.account = r.owner /\ u.taken = r.taken
OnItsWay(r) == \E w \in Workers : pc[w] = "unified" /\ job[w].row = r.id

LEMMA BothStart == Init => BothInv
<1> SUFFICES ASSUME Init PROVE BothInv
  OBVIOUS
<1> USE DEF Init, BothInv, NoRowYet, RowsMatch, CapturedInBoth
<1>1. CASE New
  BY <1>1 DEF New
<1>2. CASE \E email \in Emails : Used(email)
  BY <1>2 DEF Used
<1> QED
  BY <1>1, <1>2

\* A step that does not store readings: of the readings that stay none loses its
\* copy, or the capture that is to store it, but for one cut short.
LEMMA BothStays ==
  ASSUME TInv, BothInv,
         torn \subseteq torn',
         \A r \in readings' : \E q \in readings :
           r.id = q.id /\ r.owner = q.owner /\ r.via = q.via /\ r.taken = q.taken,
         \A w \in Workers : pc'[w] \in {"upsert", "select", "reading"} => job'[w].row = 0,
         \A w \in Workers : pc'[w] = "unified" =>
           job'[w].row = 0 \/ (pc[w] = "unified" /\ job'[w] = job[w]),
         \A r \in readings' : InBoth(r) => InBoth(r)',
         \A r \in readings', w \in Workers : pc[w] = "unified" /\ job[w].row = r.id =>
           (pc'[w] = "unified" /\ job'[w] = job[w]) \/ r.id \in torn' \/ InBoth(r)'
  PROVE  BothInv'
<1>1. NoRowYet'
  BY DEF NoRowYet
<1>2. \A r \in readings : r.id # 0
  BY DEF TInv, TypeOK, Reading, Ids
<1>3. RowsMatch'
  BY <1>2 DEF BothInv, RowsMatch
<1>4. CapturedInBoth'
  <2> SUFFICES ASSUME NEW r \in readings', r.via = "snap", r.id \notin torn'
               PROVE  InBoth(r)' \/ OnItsWay(r)'
    BY DEF CapturedInBoth, InBoth, OnItsWay
  <2>1. PICK q \in readings : r.id = q.id /\ r.owner = q.owner /\ r.via = q.via /\ r.taken = q.taken
    OBVIOUS
  <2>2. InBoth(q) \/ OnItsWay(q)
    BY <2>1 DEF BothInv, CapturedInBoth, InBoth, OnItsWay
  <2>3. InBoth(q) => InBoth(r)
    BY <2>1 DEF InBoth
  <2>4. OnItsWay(q) => OnItsWay(r)' \/ InBoth(r)'
    BY <2>1 DEF OnItsWay
  <2> QED
    BY <2>2, <2>3, <2>4
<1> QED
  BY <1>1, <1>3, <1>4 DEF BothInv

\* A snap that has stored its reading is on its way to the other table.
LEMMA BothGrows ==
  ASSUME TInv, IdInv, BothInv, NEW w \in Workers, InsertReading(w)
  PROVE  BothInv'
<1> DEFINE new == [id |-> lastId + 1, provider |-> job[w].provider, owner |-> job[w].account,
                   via |-> job[w].kind, taken |-> job[w].taken, set |-> {}]
<1>1. /\ readings' = readings \cup {new} /\ lastId \in Nat /\ pc[w] = "reading"
      /\ \A v \in Workers \ {w} : pc'[v] = pc[v] /\ job'[v] = job[v]
  BY ReadingMoves DEF TInv, TypeOK
<1>2. unified' = unified /\ torn' = torn
  BY DEF InsertReading, history
<1>3. \/ /\ job[w].kind = "snap" /\ pc'[w] = "unified"
         /\ job'[w].taken = job[w].taken /\ job'[w].row = lastId + 1
         /\ job'[w].account = job[w].account
      \/ job[w].kind # "snap" /\ pc'[w] = "idle"
      \/ job[w].kind # "snap" /\ pc'[w] = "upsert" /\ job'[w].row = 0
  BY ReadingMoves
<1>4. /\ new.id = lastId + 1 /\ new.owner = job[w].account /\ new.via = job[w].kind
      /\ new.taken = job[w].taken
  OBVIOUS
<1> HIDE DEF new
<1>5. \A r \in readings : r.id <= lastId /\ r.id \in Nat
  BY DEF TInv, TypeOK, Reading, Ids, IdInv, RowsBelow
<1>6. \A v \in Workers : pc[v] # "idle" => job[v].row <= lastId /\ job[v].row \in Nat
  BY DEF TInv, WorkersOK, WorkerOK, CaptureJob, EditJob, Ids, IdInv, JobsBelow
<1>7. NoRowYet'
  BY <1>1, <1>3 DEF BothInv, NoRowYet
<1>8. RowsMatch'
  <2> SUFFICES ASSUME NEW v \in Workers, NEW r \in readings', pc'[v] = "unified", r.id = job'[v].row
               PROVE  r.owner = job'[v].account /\ r.taken = job'[v].taken
    BY DEF RowsMatch
  <2>1. CASE v = w
    <3>1. r = new
      BY <1>1, <1>3, <1>5, <2>1
    <3> QED
      BY <1>3, <1>4, <2>1, <3>1
  <2>2. CASE v # w
    <3>1. r # new
      BY <1>1, <1>4, <1>6, <2>2
    <3> QED
      BY <1>1, <2>2, <3>1 DEF BothInv, RowsMatch
  <2> QED
    BY <2>1, <2>2
<1>9. CapturedInBoth'
  <2> SUFFICES ASSUME NEW r \in readings', r.via = "snap", r.id \notin torn
               PROVE  InBoth(r)' \/ OnItsWay(r)'
    BY <1>2 DEF CapturedInBoth, InBoth, OnItsWay
  <2>1. CASE r = new
    BY <1>3, <1>4, <2>1 DEF OnItsWay
  <2>2. CASE r \in readings
    <3>1. InBoth(r) \/ OnItsWay(r)
      BY <2>2 DEF BothInv, CapturedInBoth, InBoth, OnItsWay
    <3>2. InBoth(r) => InBoth(r)'
      BY <1>2 DEF InBoth
    <3>3. OnItsWay(r) => OnItsWay(r)'
      BY <1>1 DEF OnItsWay
    <3> QED
      BY <3>1, <3>2, <3>3
  <2> QED
    BY <1>1, <2>1, <2>2
<1> QED
  BY <1>7, <1>8, <1>9 DEF BothInv

LEMMA BothKept == ASSUME TInv, IdInv, BothInv, Next PROVE BothInv'
<1>0. WorkersOK
  BY TypeParts
<1>1. ASSUME NEW w \in Workers, NEW kind \in Kinds, NEW p \in Providers,
             NEW emails \in Seq(Emails) \ {<<>>}, Begin(w, kind, p, emails)
      PROVE  BothInv'
  <2>1. /\ pc[w] = "idle" /\ pc'[w] = "upsert" /\ job'[w].row = 0
        /\ \A v \in Workers \ {w} : pc'[v] = pc[v] /\ job'[v] = job[v]
    BY <1>1, BeginMoves DEF Begin
  <2>2. UNCHANGED <<readings, unified, torn>>
    BY <1>1 DEF Begin, tables
  <2>3. \A v \in Workers : pc'[v] \in {"upsert", "select", "reading"} => job'[v].row = 0
    BY <2>1 DEF BothInv, NoRowYet
  <2>4. \A v \in Workers : pc'[v] = "unified" =>
          job'[v].row = 0 \/ (pc[v] = "unified" /\ job'[v] = job[v])
    BY <2>1 DEF BothInv, NoRowYet
  <2>5. \A r \in readings', v \in Workers : pc[v] = "unified" /\ job[v].row = r.id =>
          (pc'[v] = "unified" /\ job'[v] = job[v]) \/ r.id \in torn' \/ InBoth(r)'
    BY <2>1, <2>2
  <2>6. \A r \in readings' : InBoth(r) => InBoth(r)'
    BY <2>2 DEF InBoth
  <2> QED
    BY <2>2, <2>3, <2>4, <2>5, <2>6, BothStays
<1>2. ASSUME NEW w \in Workers, UpsertAccount(w)
      PROVE  BothInv'
  <2>1. /\ pc[w] = "upsert" /\ pc'[w] = "select" /\ UNCHANGED job
        /\ \A v \in Workers \ {w} : pc'[v] = pc[v]
    BY <1>2, UpsertMoves
  <2>2. UNCHANGED <<readings, unified, torn>>
    BY <1>2 DEF UpsertAccount, history
  <2>3. \A v \in Workers : pc'[v] \in {"upsert", "select", "reading"} => job'[v].row = 0
    BY <2>1 DEF BothInv, NoRowYet
  <2>4. \A v \in Workers : pc'[v] = "unified" =>
          job'[v].row = 0 \/ (pc[v] = "unified" /\ job'[v] = job[v])
    BY <2>1 DEF BothInv, NoRowYet
  <2>5. \A r \in readings', v \in Workers : pc[v] = "unified" /\ job[v].row = r.id =>
          (pc'[v] = "unified" /\ job'[v] = job[v]) \/ r.id \in torn' \/ InBoth(r)'
    BY <2>1, <2>2
  <2>6. \A r \in readings' : InBoth(r) => InBoth(r)'
    BY <2>2 DEF InBoth
  <2> QED
    BY <2>2, <2>3, <2>4, <2>5, <2>6, BothStays
<1>3. ASSUME NEW w \in Workers, SelectAccount(w)
      PROVE  BothInv'
  <2>1. /\ pc[w] = "select" /\ pc'[w] \in {"unified", "reading"} /\ job'[w].row = job[w].row
        /\ \A v \in Workers \ {w} : pc'[v] = pc[v] /\ job'[v] = job[v]
    BY <1>3, SelectMoves
  <2>2. UNCHANGED <<readings, unified, torn>>
    BY <1>3 DEF SelectAccount, tables, history
  <2>3. \A v \in Workers : pc'[v] \in {"upsert", "select", "reading"} => job'[v].row = 0
    BY <2>1 DEF BothInv, NoRowYet
  <2>4. \A v \in Workers : pc'[v] = "unified" =>
          job'[v].row = 0 \/ (pc[v] = "unified" /\ job'[v] = job[v])
    BY <2>1 DEF BothInv, NoRowYet
  <2>5. \A r \in readings', v \in Workers : pc[v] = "unified" /\ job[v].row = r.id =>
          (pc'[v] = "unified" /\ job'[v] = job[v]) \/ r.id \in torn' \/ InBoth(r)'
    BY <2>1, <2>2
  <2>6. \A r \in readings' : InBoth(r) => InBoth(r)'
    BY <2>2 DEF InBoth
  <2> QED
    BY <2>2, <2>3, <2>4, <2>5, <2>6, BothStays
<1>4. ASSUME NEW w \in Workers, InsertReading(w)
      PROVE  BothInv'
  BY <1>4, BothGrows
<1>5. ASSUME NEW w \in Workers, SaveSnapshot(w)
      PROVE  BothInv'
  <2>1. /\ pc[w] = "unified" /\ pc'[w] = "find" /\ UNCHANGED job
        /\ \A v \in Workers \ {w} : pc'[v] = pc[v]
    BY <1>5, UnifiedMoves
  <2>2. UNCHANGED <<readings, torn>> /\ unified \subseteq unified'
    BY <1>5 DEF SaveSnapshot, history
  <2>7. \E u \in unified' : u.account = job[w].account /\ u.taken = job[w].taken
    <3> DEFINE new == [id |-> lastId + 1, account |-> job[w].account, taken |-> job[w].taken]
    <3>1. new \in unified'
      BY <1>5, UnifiedMoves
    <3>2. new.account = job[w].account /\ new.taken = job[w].taken
      OBVIOUS
    <3> QED
      BY <3>1, <3>2
  <2>3. \A v \in Workers : pc'[v] \in {"upsert", "select", "reading"} => job'[v].row = 0
    BY <2>1 DEF BothInv, NoRowYet
  <2>4. \A v \in Workers : pc'[v] = "unified" =>
          job'[v].row = 0 \/ (pc[v] = "unified" /\ job'[v] = job[v])
    BY <2>1 DEF BothInv, NoRowYet
  <2>5. \A r \in readings', v \in Workers : pc[v] = "unified" /\ job[v].row = r.id =>
          (pc'[v] = "unified" /\ job'[v] = job[v]) \/ r.id \in torn' \/ InBoth(r)'
    BY <2>1, <2>2, <2>7 DEF BothInv, RowsMatch, InBoth
  <2>6. \A r \in readings' : InBoth(r) => InBoth(r)'
    BY <2>2 DEF InBoth
  <2> QED
    BY <2>2, <2>3, <2>4, <2>5, <2>6, BothStays
<1>6. ASSUME NEW w \in Workers, Breaks(w)
      PROVE  BothInv'
  <2>1. /\ pc'[w] # "unified" /\ pc[w] # "idle"
        /\ pc'[w] \in {"upsert", "select", "reading"} =>
             job'[w].row = 0 \/ (pc[w] \in {"upsert", "select"} /\ job'[w] = job[w])
        /\ torn' = torn \cup (IF pc[w] = "unified" THEN {job[w].row} ELSE {})
        /\ \A v \in Workers \ {w} : pc'[v] = pc[v] /\ job'[v] = job[v]
    BY <1>6, <1>0, BreakMoves DEF Breaks
  <2>2. UNCHANGED <<readings, unified>>
    BY <1>6 DEF Breaks, tables
  <2>3. \A v \in Workers : pc'[v] \in {"upsert", "select", "reading"} => job'[v].row = 0
    BY <2>1 DEF BothInv, NoRowYet
  <2>4. \A v \in Workers : pc'[v] = "unified" =>
          job'[v].row = 0 \/ (pc[v] = "unified" /\ job'[v] = job[v])
    BY <2>1 DEF BothInv, NoRowYet
  <2>5. \A r \in readings', v \in Workers : pc[v] = "unified" /\ job[v].row = r.id =>
          (pc'[v] = "unified" /\ job'[v] = job[v]) \/ r.id \in torn' \/ InBoth(r)'
    BY <2>1, <2>2
  <2>6. \A r \in readings' : InBoth(r) => InBoth(r)'
    BY <2>2 DEF InBoth
  <2> QED
    BY <2>1, <2>2, <2>3, <2>4, <2>5, <2>6, BothStays
<1>7. ASSUME NEW w \in Workers, NEW on \in BOOLEAN, FindSubscription(w, on)
      PROVE  BothInv'
  <2>1. /\ pc[w] = "find" /\ pc'[w] \notin {"unified", "select", "reading"}
        /\ pc'[w] = "upsert" => job'[w].row = 0
        /\ \A v \in Workers \ {w} : pc'[v] = pc[v] /\ job'[v] = job[v]
    BY <1>7, FindMoves
  <2>2. UNCHANGED <<readings, unified, torn>>
    BY <1>7 DEF FindSubscription, tables, history
  <2>3. \A v \in Workers : pc'[v] \in {"upsert", "select", "reading"} => job'[v].row = 0
    BY <2>1 DEF BothInv, NoRowYet
  <2>4. \A v \in Workers : pc'[v] = "unified" =>
          job'[v].row = 0 \/ (pc[v] = "unified" /\ job'[v] = job[v])
    BY <2>1 DEF BothInv, NoRowYet
  <2>5. \A r \in readings', v \in Workers : pc[v] = "unified" /\ job[v].row = r.id =>
          (pc'[v] = "unified" /\ job'[v] = job[v]) \/ r.id \in torn' \/ InBoth(r)'
    BY <2>1, <2>2
  <2>6. \A r \in readings' : InBoth(r) => InBoth(r)'
    BY <2>2 DEF InBoth
  <2> QED
    BY <2>2, <2>3, <2>4, <2>5, <2>6, BothStays
<1>8. ASSUME NEW w \in Workers, LinkSubscription(w)
      PROVE  BothInv'
  <2>1. /\ pc[w] = "link" /\ pc'[w] \notin {"unified", "select", "reading"}
        /\ pc'[w] = "upsert" => job'[w].row = 0
        /\ \A v \in Workers \ {w} : pc'[v] = pc[v] /\ job'[v] = job[v]
    BY <1>8, LinkMoves
  <2>2. UNCHANGED <<readings, unified, torn>>
    BY <1>8 DEF LinkSubscription, history
  <2>3. \A v \in Workers : pc'[v] \in {"upsert", "select", "reading"} => job'[v].row = 0
    BY <2>1 DEF BothInv, NoRowYet
  <2>4. \A v \in Workers : pc'[v] = "unified" =>
          job'[v].row = 0 \/ (pc[v] = "unified" /\ job'[v] = job[v])
    BY <2>1 DEF BothInv, NoRowYet
  <2>5. \A r \in readings', v \in Workers : pc[v] = "unified" /\ job[v].row = r.id =>
          (pc'[v] = "unified" /\ job'[v] = job[v]) \/ r.id \in torn' \/ InBoth(r)'
    BY <2>1, <2>2
  <2>6. \A r \in readings' : InBoth(r) => InBoth(r)'
    BY <2>2 DEF InBoth
  <2> QED
    BY <2>2, <2>3, <2>4, <2>5, <2>6, BothStays
<1>9. ASSUME Edit PROVE BothInv'
  <2>1. ASSUME NEW w \in Workers, NEW kind, NEW r, NEW f, BeginEdit(w, kind, r, f)
        PROVE  BothInv'
    <3>1. /\ pc[w] = "idle" /\ pc' = [pc EXCEPT ![w] = "write"]
          /\ \E j : job' = [job EXCEPT ![w] = j]
      BY <2>1 DEF BeginEdit, Goto
    <3>2. UNCHANGED <<readings, unified, torn>>
      BY <2>1 DEF BeginEdit, tables
    <3>3. \A v \in Workers : pc'[v] # "write" => v # w /\ pc'[v] = pc[v] /\ job'[v] = job[v]
      BY <1>0, <3>1 DEF WorkersOK
    <3>4. \A v \in Workers : pc[v] # "idle" => pc'[v] = pc[v] /\ job'[v] = job[v]
      BY <1>0, <3>1 DEF WorkersOK
    <3> QED
      BY <3>2, <3>3, <3>4 DEF BothInv, NoRowYet, RowsMatch, CapturedInBoth
  <2>2. ASSUME NEW w \in Workers, WriteEdit(w)
        PROVE  BothInv'
    <3>1. /\ pc[w] = "write" /\ job[w] \in EditJob /\ pc'[w] = "idle"
          /\ \A v \in Workers \ {w} : pc'[v] = pc[v] /\ job'[v] = job[v]
      BY <2>2, WriteMoves
    <3>2. UNCHANGED <<unified, torn>>
      BY <2>2 DEF WriteEdit
    <3>3. readings' = readings \/ readings' = Edited(readings, w)
      BY <2>2 DEF WriteEdit
    <3>4. \A r \in Edited(readings, w) : \E q \in readings :
            r.id = q.id /\ r.owner = q.owner /\ r.via = q.via /\ r.taken = q.taken
      BY <3>1, EditedReadings, TypeParts
    <3>5. \A r \in readings' : \E q \in readings :
            r.id = q.id /\ r.owner = q.owner /\ r.via = q.via /\ r.taken = q.taken
      BY <3>3, <3>4
    <3>6. \A v \in Workers : pc'[v] \in {"upsert", "select", "reading"} => job'[v].row = 0
      BY <3>1 DEF BothInv, NoRowYet
    <3>7. \A v \in Workers : pc'[v] = "unified" =>
            job'[v].row = 0 \/ (pc[v] = "unified" /\ job'[v] = job[v])
      BY <3>1
    <3>8. \A r \in readings', v \in Workers : pc[v] = "unified" /\ job[v].row = r.id =>
            (pc'[v] = "unified" /\ job'[v] = job[v]) \/ r.id \in torn' \/ InBoth(r)'
      BY <3>1
    <3>9. \A r \in readings' : InBoth(r) => InBoth(r)'
      BY <3>2 DEF InBoth
    <3> QED
      BY <3>2, <3>5, <3>6, <3>7, <3>8, <3>9, BothStays
  <2> QED
    BY <1>9, <2>1, <2>2 DEF Edit
<1>10. ASSUME NEW a \in IdsOf(accounts), DeleteAccount(a)
       PROVE  BothInv'
  BY <1>10 DEF DeleteAccount, history, BothInv, NoRowYet, RowsMatch, CapturedInBoth
<1>11. ASSUME \/ Removes
              \/ \E a \in IdsOf(accounts) \cup {Nobody} :
                   \/ InsertSubscription(a)
                   \/ \E s \in subs, auto \in BOOLEAN : UpdateSubscription(s, a, auto)
              \/ (\E s \in subs : DeleteSubscription(s) \/ InsertUsageLog(s.id))
              \/ (\E u \in usage : DeleteUsageLog(u))
       PROVE  BothInv'
  <2>1. UNCHANGED <<pc, job, unified, torn>> /\ readings' \subseteq readings
    BY <1>11 DEF Removes, InsertSubscription, UpdateSubscription, DeleteSubscription,
                 InsertUsageLog, DeleteUsageLog, history
  <2> QED
    BY <2>1 DEF BothInv, NoRowYet, RowsMatch, CapturedInBoth
<1> QED
  BY <1>1, <1>2, <1>3, <1>4, <1>5, <1>6, <1>7, <1>8, <1>9, <1>10, <1>11, StepCases

\* A reading that POST /api/snap stored is in both tables, one cut short or under way
\* excepted, whatever else is stored, edited and deleted (SnapCapture, CapturedInBoth).
THEOREM CapturedInBothHolds == Spec => []CapturedInBoth
<1>1. TInv /\ IdInv /\ BothInv /\ [Next]_vars => BothInv'
  <2> SUFFICES ASSUME TInv, IdInv, BothInv, [Next]_vars PROVE BothInv'
    OBVIOUS
  <2>1. CASE UNCHANGED vars
    BY <2>1 DEF vars, tables, history, BothInv, NoRowYet, RowsMatch, CapturedInBoth
  <2> QED
    BY <2>1, BothKept
<1>2. BothInv => CapturedInBoth
  BY DEF BothInv
<1> QED
  BY IdsHold, BothStart, <1>1, <1>2, PTL DEF Spec

-----------------------------------------------------------------------------
(* One subscription is linked                                              *)

Linking(w, a) == pc[w] = "link" /\ job[w].account = a

\* Unless the linking of a was disturbed, it is linked, or about to be, once.
LinkedOnce(a) ==
  /\ \A s, t \in AutoSubs(a) : s = t
  /\ \A w \in Workers : Linking(w, a) => AutoSubs(a) = {}
  /\ \A v, w \in Workers : Linking(v, a) /\ Linking(w, a) => v = w

LinkInv == \A a \in Ids : a \notin doubled => LinkedOnce(a)

LEMMA LinksStart == Init => LinkInv
  BY DEF Init, LinkInv, LinkedOnce, Linking, AutoSubs

\* A step after which no more subscriptions are linked than before, or about to be.
LEMMA LinksStay ==
  ASSUME LinkInv, doubled \subseteq doubled',
         \A a \in Ids : a \notin doubled' => AutoSubs(a)' \subseteq AutoSubs(a),
         \A w \in Workers : pc'[w] = "link" => pc[w] = "link" /\ job'[w] = job[w]
  PROVE  LinkInv'
<1> SUFFICES ASSUME NEW a \in Ids, a \notin doubled' PROVE LinkedOnce(a)'
  BY DEF LinkInv
<1>1. LinkedOnce(a) /\ AutoSubs(a)' \subseteq AutoSubs(a)
  BY DEF LinkInv
<1>2. \A w \in Workers : Linking(w, a)' => Linking(w, a)
  BY DEF Linking
<1> QED
  BY <1>1, <1>2 DEF LinkedOnce

\* A capture found no subscription of its account, or could not look.
LEMMA LinkBegins ==
  ASSUME LinkInv, NEW w \in Workers, UNCHANGED subs, doubled \subseteq doubled',
         pc'[w] = "link", job'[w] = job[w],
         \A v \in Workers \ {w} : pc'[v] = pc[v] /\ job'[v] = job[v],
         job[w].account \notin doubled' =>
           /\ AutoSubs(job[w].account) = {}
           /\ \A v \in Workers \ {w} : ~Linking(v, job[w].account)
  PROVE  LinkInv'
<1> SUFFICES ASSUME NEW a \in Ids, a \notin doubled' PROVE LinkedOnce(a)'
  BY DEF LinkInv
<1>1. LinkedOnce(a) /\ AutoSubs(a)' = AutoSubs(a)
  BY DEF LinkInv, AutoSubs
<1>2. \A v \in Workers \ {w} : Linking(v, a)' = Linking(v, a)
  BY DEF Linking
<1>3. CASE a = job[w].account
  BY <1>1, <1>2, <1>3 DEF LinkedOnce
<1>4. CASE a # job[w].account
  <2>1. ~Linking(w, a)'
    BY <1>4 DEF Linking
  <2> QED
    BY <1>1, <1>2, <2>1 DEF LinkedOnce
<1> QED
  BY <1>3, <1>4

LEMMA LinkEnds ==
  ASSUME TInv, LinkInv, NEW w \in Workers, LinkSubscription(w)
  PROVE  LinkInv'
<1> DEFINE new == [id |-> lastId + 1, account |-> job[w].account, auto |-> TRUE]
<1>1. /\ pc[w] = "link" /\ pc'[w] # "link" /\ subs' = subs \cup {new}
      /\ \A v \in Workers \ {w} : pc'[v] = pc[v] /\ job'[v] = job[v]
  BY LinkMoves
<1>2. doubled' = doubled
  BY DEF LinkSubscription, history
<1>3. new.account = job[w].account /\ new.auto
  OBVIOUS
<1> HIDE DEF new
<1> SUFFICES ASSUME NEW a \in Ids, a \notin doubled PROVE LinkedOnce(a)'
  BY <1>2 DEF LinkInv
<1>4. LinkedOnce(a)
  BY DEF LinkInv
<1>5. \A v \in Workers : Linking(v, a)' => v # w /\ Linking(v, a)
  BY <1>1 DEF Linking
<1>6. CASE a = job[w].account
  <2>1. AutoSubs(a) = {} /\ \A v \in Workers : Linking(v, a) => v = w
    BY <1>1, <1>4, <1>6 DEF LinkedOnce, Linking
  <2>2. AutoSubs(a)' \subseteq {new}
    BY <1>1, <2>1 DEF AutoSubs
  <2> QED
    BY <1>5, <2>1, <2>2 DEF LinkedOnce
<1>7. CASE a # job[w].account
  <2>1. AutoSubs(a)' = AutoSubs(a)
    BY <1>1, <1>3, <1>7 DEF AutoSubs
  <2> QED
    BY <1>4, <1>5, <2>1 DEF LinkedOnce
<1> QED
  BY <1>6, <1>7

LEMMA LinksKept == ASSUME TInv, LinkInv, Next PROVE LinkInv'
<1>0. WorkersOK
  BY TypeParts
<1>1. ASSUME UNCHANGED subs PROVE \A a \in Ids : AutoSubs(a)' \subseteq AutoSubs(a)
  BY <1>1 DEF AutoSubs
<1>2. ASSUME NEW w \in Workers,
             \/ \E kind \in Kinds, p \in Providers, emails \in Seq(Emails) \ {<<>>} :
                  Begin(w, kind, p, emails)
             \/ UpsertAccount(w) \/ SelectAccount(w) \/ InsertReading(w) \/ SaveSnapshot(w)
      PROVE  LinkInv'
  <2>1. pc'[w] # "link" /\ \A v \in Workers \ {w} : pc'[v] = pc[v] /\ job'[v] = job[v]
    BY <1>2, BeginMoves, UpsertMoves, SelectMoves, ReadingMoves, UnifiedMoves
  <2>2. UNCHANGED <<subs, doubled>>
    BY <1>2 DEF Begin, UpsertAccount, SelectAccount, InsertReading, SaveSnapshot, tables, history
  <2>3. \A v \in Workers : pc'[v] = "link" => pc[v] = "link" /\ job'[v] = job[v]
    BY <2>1
  <2> QED
    BY <1>1, <2>2, <2>3, LinksStay
<1>3. ASSUME NEW w \in Workers, NEW on \in BOOLEAN, FindSubscription(w, on)
      PROVE  LinkInv'
  <2>1. UNCHANGED subs
    BY <1>3 DEF FindSubscription, tables
  <2>2. doubled \subseteq doubled' /\ \A v \in Workers \ {w} : pc'[v] = pc[v] /\ job'[v] = job[v]
    BY <1>3, FindMoves
  <2>3. CASE pc'[w] # "link"
    <3>1. \A v \in Workers : pc'[v] = "link" => pc[v] = "link" /\ job'[v] = job[v]
      BY <2>2, <2>3
    <3> QED
      BY <1>1, <2>1, <2>2, <3>1, LinksStay
  <2>4. CASE pc'[w] = "link"
    <3>1. /\ AutoSubs(job[w].account) = {} /\ job'[w] = job[w]
          /\ \A v \in Workers \ {w} : pc[v] = "link" /\ job[v].account = job[w].account
               => job[w].account \in doubled'
      BY <1>3, <2>4, FindMoves
    <3> QED
      BY <2>1, <2>2, <2>4, <3>1, LinkBegins DEF Linking
  <2> QED
    BY <2>3, <2>4
<1>4. ASSUME NEW w \in Workers, Breaks(w)
      PROVE  LinkInv'
  <2>1. UNCHANGED subs
    BY <1>4 DEF Breaks, tables
  <2>2. doubled \subseteq doubled' /\ \A v \in Workers \ {w} : pc'[v] = pc[v] /\ job'[v] = job[v]
    BY <1>0, <1>4, BreakMoves
  <2>3. CASE pc'[w] # "link"
    <3>1. \A v \in Workers : pc'[v] = "link" => pc[v] = "link" /\ job'[v] = job[v]
      BY <2>2, <2>3
    <3> QED
      BY <1>1, <2>1, <2>2, <3>1, LinksStay
  <2>4. CASE pc'[w] = "link"
    <3>1. job'[w] = job[w] /\ job[w].account \in doubled'
      BY <1>0, <1>4, <2>4, BreakMoves
    <3> QED
      BY <2>1, <2>2, <2>4, <3>1, LinkBegins
  <2> QED
    BY <2>3, <2>4
<1>5. ASSUME NEW w \in Workers, LinkSubscription(w)
      PROVE  LinkInv'
  BY <1>5, LinkEnds
<1>6. ASSUME Edit PROVE LinkInv'
  <2>1. ASSUME NEW w \in Workers, NEW kind, NEW r, NEW f, BeginEdit(w, kind, r, f)
        PROVE  LinkInv'
    <3>1. UNCHANGED <<subs, doubled>> /\ pc' = [pc EXCEPT ![w] = "write"]
          /\ \E j : job' = [job EXCEPT ![w] = j]
      BY <2>1 DEF BeginEdit, Goto, tables
    <3>2. \A v \in Workers : pc'[v] = "link" => pc[v] = "link" /\ job'[v] = job[v]
      BY <1>0, <3>1 DEF WorkersOK
    <3> QED
      BY <1>1, <3>1, <3>2, LinksStay
  <2>2. ASSUME NEW w \in Workers, WriteEdit(w)
        PROVE  LinkInv'
    <3>1. UNCHANGED <<subs, doubled>>
      BY <2>2 DEF WriteEdit
    <3>2. pc'[w] = "idle" /\ \A v \in Workers \ {w} : pc'[v] = pc[v] /\ job'[v] = job[v]
      BY <2>2, WriteMoves
    <3>3. \A v \in Workers : pc'[v] = "link" => pc[v] = "link" /\ job'[v] = job[v]
      BY <3>2
    <3> QED
      BY <1>1, <3>1, <3>3, LinksStay
  <2> QED
    BY <1>6, <2>1, <2>2 DEF Edit
<1>7. ASSUME NEW a \in IdsOf(accounts) \cup {Nobody}, NEW s \in subs, NEW auto \in BOOLEAN,
             UpdateSubscription(s, a, auto)
      PROVE  LinkInv'
  <2> DEFINE new == [s EXCEPT !.account = a, !.auto = auto]
  <2>1. /\ UNCHANGED <<pc, job>> /\ subs' = (subs \ {s}) \cup {new}
        /\ doubled' = doubled \cup (IF auto THEN {a} ELSE {})
    BY <1>7 DEF UpdateSubscription
  <2>2. new.account = a /\ new.auto = auto
    BY DEF TInv, TypeOK, Sub
  <2> HIDE DEF new
  <2>3. ASSUME NEW b \in Ids, b \notin doubled' PROVE AutoSubs(b)' \subseteq AutoSubs(b)
    BY <2>1, <2>2, <2>3 DEF AutoSubs
  <2> QED
    BY <2>1, <2>3, LinksStay
<1>8. ASSUME NEW a \in IdsOf(accounts) \cup {Nobody}, InsertSubscription(a)
      PROVE  LinkInv'
  <2> DEFINE new == [id |-> lastId + 1, account |-> a, auto |-> FALSE]
  <2>1. UNCHANGED <<pc, job, doubled>> /\ subs' = subs \cup {new}
    BY <1>8 DEF InsertSubscription, history
  <2>2. ~new.auto
    OBVIOUS
  <2> HIDE DEF new
  <2>3. \A b \in Ids : AutoSubs(b)' \subseteq AutoSubs(b)
    BY <2>1, <2>2 DEF AutoSubs
  <2> QED
    BY <2>1, <2>3, LinksStay
<1>9. ASSUME \/ Removes \/ (\E a \in IdsOf(accounts) : DeleteAccount(a))
             \/ (\E s \in subs : DeleteSubscription(s) \/ InsertUsageLog(s.id))
             \/ (\E u \in usage : DeleteUsageLog(u))
      PROVE  LinkInv'
  <2>1. UNCHANGED <<pc, job, doubled>> /\ subs' \subseteq subs
    BY <1>9 DEF Removes, DeleteAccount, DeleteSubscription, InsertUsageLog, DeleteUsageLog, history
  <2>2. \A b \in Ids : AutoSubs(b)' \subseteq AutoSubs(b)
    BY <2>1 DEF AutoSubs
  <2> QED
    BY <2>1, <2>2, LinksStay
<1> QED
  BY <1>2, <1>3, <1>4, <1>5, <1>6, <1>7, <1>8, <1>9, StepCases

\* Auto-linking gives an account one subscription, for any number of captures, unless
\* two look for it at once, a lookup fails or the user marks one (SnapCapture, OneAutoSub).
THEOREM OneAutoSubHolds == Spec => []OneAutoSub
<1>1. TInv /\ LinkInv /\ [Next]_vars => LinkInv'
  <2> SUFFICES ASSUME TInv, LinkInv, [Next]_vars PROVE LinkInv'
    OBVIOUS
  <2>1. CASE UNCHANGED vars
    BY <2>1 DEF vars, tables, history, LinkInv, LinkedOnce, Linking, AutoSubs
  <2> QED
    BY <2>1, LinksKept
<1>2. TInv /\ LinkInv => OneAutoSub
  <2> SUFFICES ASSUME TInv, LinkInv, NEW a \in accounts, a.id \notin doubled
               PROVE  ~(Cardinality(AutoSubs(a.id)) > 1)
    BY DEF OneAutoSub
  <2>1. a.id \in Ids
    BY DEF TInv, TypeOK, Account
  <2>2. \A s, t \in AutoSubs(a.id) : s = t
    BY <2>1 DEF LinkInv, LinkedOnce
  <2>3. CASE AutoSubs(a.id) = {}
    BY <2>3, FS_EmptySet
  <2>4. CASE AutoSubs(a.id) # {}
    <3>1. PICK s : AutoSubs(a.id) = {s}
      BY <2>2, <2>4
    <3> QED
      BY <3>1, FS_Singleton
  <2> QED
    BY <2>3, <2>4
<1> QED
  BY Typed, LinksStart, <1>1, <1>2, PTL DEF Spec

-----------------------------------------------------------------------------
(* The status page shows the newest reading                                *)

KeyOf(a) == <<a.email, a.provider>>
Storing == {"unified", "find", "link"}
Resolved(step, kind) == step \in Storing \/ (step = "reading" /\ kind = "snap")

\* An id has one email and provider; a capture's account has those it stores for.
IdHasKey == \A a, b \in accounts : a.id = b.id => KeyOf(a) = KeyOf(b)
JobHasKey ==
  \A w \in Workers : Resolved(pc[w], job[w].kind) =>
    /\ job[w].account \in 0 .. lastId
    /\ \A a \in accounts : a.id = job[w].account => KeyOf(a) = <<Head(job[w].todo), job[w].provider>>
OnlyBothKinds == \A w \in Workers : pc[w] \in Storing => job[w].kind \in {"snap", "poll"}

TakenBefore ==
  /\ \A u \in unified : u.taken <= started
  /\ \A w \in Workers : Expects(w) # {} => job[w].taken <= started

\* Without overlap one capture at a time is to store an account's reading, and what
\* is stored of the account is not newer.
OneExpects ==
  \A v, w \in Workers, k \in Emails \X Providers :
    k \in Expects(v) /\ k \in Expects(w) /\ k \notin crossed => v = w
StoredIsOlder ==
  \A w \in Workers, a \in accounts, u \in unified :
    KeyOf(a) \in Expects(w) /\ KeyOf(a) \notin crossed /\ u.account = a.id
      => u.taken <= job[w].taken
InOrder ==
  \A a \in accounts, u, v \in unified :
    KeyOf(a) \notin crossed /\ u.account = a.id /\ v.account = a.id /\ v.id <= u.id
      => v.taken <= u.taken

NewestInv ==
  /\ IdHasKey /\ JobHasKey /\ OnlyBothKinds /\ TakenBefore
  /\ OneExpects /\ StoredIsOlder /\ InOrder

LEMMA NewestStart == Init => NewestInv
<1> SUFFICES ASSUME Init PROVE NewestInv
  OBVIOUS
<1>1. \A w \in Workers : Expects(w) = {}
  BY DEF Init, Expects
<1>2. JobHasKey /\ OnlyBothKinds
  BY DEF Init, JobHasKey, OnlyBothKinds, Storing, Resolved
<1>3. OneExpects /\ StoredIsOlder
  BY <1>1 DEF OneExpects, StoredIsOlder
<1>4. IdHasKey /\ TakenBefore /\ InOrder
  <2>1. CASE New
    BY <1>1, <2>1 DEF Init, New, IdHasKey, TakenBefore, InOrder
  <2>2. CASE \E email \in Emails : Used(email)
    BY <1>1, <2>2 DEF Init, Used, IdHasKey, TakenBefore, InOrder
  <2> QED
    BY <2>1, <2>2 DEF Init
<1> QED
  BY <1>2, <1>3, <1>4 DEF NewestInv

\* The next response, or the same one, expects nothing new.
LEMMA ExpectsLess ==
  ASSUME TInv, NEW w \in Workers,
         \/ pc'[w] = "idle"
         \/ pc'[w] # "idle" /\ job'[w].kind \notin {"snap", "poll"}
         \/ /\ pc[w] \notin {"idle", "write"}
            /\ job'[w].kind = job[w].kind /\ job'[w].provider = job[w].provider
            /\ job'[w].todo \in {job[w].todo, Tail(job[w].todo)}
  PROVE  Expects(w)' \subseteq Expects(w)
<1>1. CASE pc'[w] = "idle" \/ (pc'[w] # "idle" /\ job'[w].kind \notin {"snap", "poll"})
  BY <1>1 DEF Expects
<1>2. CASE /\ pc[w] \notin {"idle", "write"}
           /\ job'[w].kind = job[w].kind /\ job'[w].provider = job[w].provider
           /\ job'[w].todo \in {job[w].todo, Tail(job[w].todo)}
  <2>1. job[w].todo \in Seq(Emails) /\ job[w].todo # <<>>
    BY <1>2 DEF TInv, WorkersOK, WorkerOK, CaptureJob
  <2>2. \A i \in DOMAIN job'[w].todo : \E j \in DOMAIN job[w].todo :
          job'[w].todo[i] = job[w].todo[j]
    <3>1. CASE job'[w].todo = job[w].todo
      BY <3>1
    <3>2. CASE job'[w].todo = Tail(job[w].todo)
      <4>1. \A i \in DOMAIN Tail(job[w].todo) :
              i + 1 \in DOMAIN job[w].todo /\ Tail(job[w].todo)[i] = job[w].todo[i + 1]
        BY <2>1
      <4> QED
        BY <3>2, <4>1
    <3> QED
      BY <1>2, <3>1, <3>2
  <2> QED
    BY <1>2, <2>2 DEF Expects
<1> QED
  BY <1>1, <1>2

\* A worker whose variables stay expects what it did.
LEMMA ExpectsSame ==
  ASSUME NEW w \in Workers, job'[w] = job[w], (pc'[w] = "idle") = (pc[w] = "idle")
  PROVE  Expects(w)' = Expects(w)
  BY DEF Expects

\* What JobHasKey and OnlyBothKinds say of one worker, of accounts as they are.
HasKey(step, j) ==
  /\ Resolved(step, j.kind) =>
       /\ j.account \in 0 .. lastId
       /\ \A a \in accounts : a.id = j.account => KeyOf(a) = <<Head(j.todo), j.provider>>
  /\ step \in Storing => j.kind \in {"snap", "poll"}

\* A step that stores nothing in snapshots_v2 and expects nothing new.
LEMMA NewestStays ==
  ASSUME TInv, IdInv, NoOrphans, NewestInv,
         crossed' = crossed, started' \in {started, started + 1},
         lastId' \in {lastId, lastId + 1}, unified' \subseteq unified,
         \A a \in accounts' :
           \/ \E b \in accounts : b.id = a.id /\ KeyOf(b) = KeyOf(a)
           \/ a.id = lastId + 1 /\ \A b \in accounts' : b.id = a.id => KeyOf(b) = KeyOf(a),
         \A v \in Workers : Expects(v)' \subseteq Expects(v),
         \A v \in Workers : Expects(v)' = {} \/ job'[v].taken = job[v].taken,
         \A v \in Workers : HasKey(pc'[v], job'[v])
  PROVE  NewestInv'
<1>1. lastId \in Nat /\ started \in Nat
  BY DEF TInv, TypeOK
<1>2. \A w \in Workers : Expects(w) # {} => job[w].taken \in Nat
  BY DEF TInv, WorkersOK, WorkerOK, Expects, CaptureJob, EditJob
<1>3. \A a \in accounts : a.id <= lastId /\ a.id \in Nat
  BY DEF TInv, TypeOK, Account, Ids, IdInv, RowsBelow
<1>4. \A u \in unified : u.account <= lastId /\ u.account \in Nat /\ u.taken \in Nat
  BY <1>3 DEF NoOrphans, IdsOf, TInv, TypeOK, Unified
<1>5. IdHasKey'
  BY <1>1, <1>3 DEF NewestInv, IdHasKey
<1>6. JobHasKey' /\ OnlyBothKinds'
  <2> SUFFICES ASSUME NEW v \in Workers, Resolved(pc'[v], job'[v].kind)
               PROVE  /\ job'[v].account \in 0 .. lastId'
                      /\ \A a \in accounts' : a.id = job'[v].account =>
                           KeyOf(a) = <<Head(job'[v].todo), job'[v].provider>>
                      /\ pc'[v] \in Storing => job'[v].kind \in {"snap", "poll"}
    BY DEF JobHasKey, OnlyBothKinds, KeyOf, Storing, Resolved
  <2>1. /\ job'[v].account \in 0 .. lastId
        /\ \A a \in accounts : a.id = job'[v].account =>
             KeyOf(a) = <<Head(job'[v].todo), job'[v].provider>>
        /\ pc'[v] \in Storing => job'[v].kind \in {"snap", "poll"}
    BY DEF HasKey, Resolved
  <2>2. \A a \in accounts' : a.id = job'[v].account =>
          \E b \in accounts : b.id = a.id /\ KeyOf(b) = KeyOf(a)
    BY <1>1, <2>1
  <2> QED
    BY <1>1, <2>1, <2>2
<1>7. TakenBefore'
  <2>1. \A u \in unified' : u.taken <= started'
    BY <1>1, <1>4 DEF NewestInv, TakenBefore
  <2>2. \A w \in Workers : Expects(w)' # {} => job'[w].taken <= started'
    BY <1>1, <1>2 DEF NewestInv, TakenBefore
  <2> QED
    BY <2>1, <2>2 DEF TakenBefore
<1>8. OneExpects'
  BY DEF NewestInv, OneExpects
<1>9. ASSUME NEW a \in accounts', NEW u \in unified', u.account = a.id
      PROVE  \E b \in accounts : b.id = a.id /\ KeyOf(b) = KeyOf(a)
  BY <1>1, <1>4, <1>9
<1>10. StoredIsOlder'
  <2> SUFFICES ASSUME NEW w \in Workers, NEW a \in accounts', NEW u \in unified',
                      KeyOf(a) \in Expects(w)', KeyOf(a) \notin crossed, u.account = a.id
               PROVE  u.taken <= job'[w].taken
    BY DEF StoredIsOlder, KeyOf
  <2>1. PICK b \in accounts : b.id = a.id /\ KeyOf(b) = KeyOf(a)
    BY <1>9
  <2>2. job'[w].taken = job[w].taken
    OBVIOUS
  <2> QED
    BY <2>1, <2>2 DEF NewestInv, StoredIsOlder
<1>11. InOrder'
  <2> SUFFICES ASSUME NEW a \in accounts', NEW u \in unified', NEW v \in unified',
                      KeyOf(a) \notin crossed, u.account = a.id, v.account = a.id, v.id <= u.id
               PROVE  v.taken <= u.taken
    BY DEF InOrder, KeyOf
  <2>1. PICK b \in accounts : b.id = a.id /\ KeyOf(b) = KeyOf(a)
    BY <1>9
  <2> QED
    BY <2>1 DEF NewestInv, InOrder
<1> QED
  BY <1>5, <1>6, <1>7, <1>8, <1>10, <1>11 DEF NewestInv

\* One worker moves.
LEMMA NewestMoves ==
  ASSUME TInv, IdInv, NoOrphans, NewestInv, NEW w \in Workers,
         crossed' = crossed, started' \in {started, started + 1},
         lastId' \in {lastId, lastId + 1}, unified' \subseteq unified,
         \A a \in accounts' :
           \/ \E b \in accounts : b.id = a.id /\ KeyOf(b) = KeyOf(a)
           \/ a.id = lastId + 1 /\ \A b \in accounts' : b.id = a.id => KeyOf(b) = KeyOf(a),
         \A v \in Workers \ {w} : pc'[v] = pc[v] /\ job'[v] = job[v],
         Expects(w)' \subseteq Expects(w),
         Expects(w)' = {} \/ job'[w].taken = job[w].taken,
         HasKey(pc'[w], job'[w])
  PROVE  NewestInv'
<1>1. \A v \in Workers \ {w} : Expects(v)' = Expects(v)
  BY ExpectsSame
<1>2. \A v \in Workers \ {w} : HasKey(pc'[v], job'[v])
  BY DEF NewestInv, JobHasKey, OnlyBothKinds, HasKey
<1> HIDE DEF HasKey, Resolved
<1>3. /\ \A v \in Workers : Expects(v)' \subseteq Expects(v)
      /\ \A v \in Workers : Expects(v)' = {} \/ job'[v].taken = job[v].taken
      /\ \A v \in Workers : HasKey(pc'[v], job'[v])
  BY <1>1, <1>2
<1> QED
  BY <1>3, NewestStays

\* A capture begins: what others expect too has overlapped, and nothing is newer.
LEMMA NewestBegins ==
  ASSUME TInv, IdInv, NoOrphans, NewestInv, NEW w \in Workers, NEW kind \in Kinds,
         NEW p \in Providers, NEW emails \in Seq(Emails) \ {<<>>}, Begin(w, kind, p, emails)
  PROVE  NewestInv'
<1>1. lastId \in Nat /\ started \in Nat
  BY DEF TInv, TypeOK
<1>2. /\ UNCHANGED <<accounts, unified, lastId>> /\ started' = started + 1
      /\ crossed' = crossed \cup (Expects(w)' \cap UNION {Expects(v) : v \in Workers \ {w}})
  BY DEF Begin, tables
<1>3. /\ pc'[w] = "upsert" /\ job'[w].taken = started + 1
      /\ \A v \in Workers \ {w} : pc'[v] = pc[v] /\ job'[v] = job[v]
  BY BeginMoves
<1>4. \A v \in Workers \ {w} : Expects(v)' = Expects(v)
  BY <1>3, ExpectsSame
<1>5. \A v \in Workers, k \in Emails \X Providers :
        v # w /\ k \in Expects(v)' /\ k \in Expects(w)' => k \in crossed'
  BY <1>2, <1>4
<1>6. IdHasKey'
  BY <1>2 DEF NewestInv, IdHasKey, KeyOf
<1>7. JobHasKey' /\ OnlyBothKinds'
  BY <1>2, <1>3 DEF NewestInv, JobHasKey, OnlyBothKinds, KeyOf, Storing, Resolved
<1>8. \A u \in unified : u.taken \in Nat /\ u.taken <= started
  BY DEF TInv, TypeOK, Unified, NewestInv, TakenBefore
<1>9. \A v \in Workers \ {w} : Expects(v)' # {} =>
        job'[v].taken = job[v].taken /\ job[v].taken \in Nat /\ job[v].taken <= started
  <2>1. \A v \in Workers : Expects(v) # {} => job[v].taken \in Nat
    BY DEF TInv, WorkersOK, WorkerOK, Expects, CaptureJob, EditJob
  <2> QED
    BY <1>3, <1>4, <2>1 DEF NewestInv, TakenBefore
<1>10. TakenBefore'
  BY <1>1, <1>2, <1>3, <1>8, <1>9 DEF TakenBefore
<1>11. OneExpects'
  <2> SUFFICES ASSUME NEW u \in Workers, NEW v \in Workers, NEW k \in Emails \X Providers,
                      k \in Expects(u)', k \in Expects(v)', k \notin crossed'
               PROVE  u = v
    BY DEF OneExpects
  <2>1. CASE u = w \/ v = w
    BY <1>5, <2>1
  <2>2. CASE u # w /\ v # w
    BY <1>2, <1>4, <2>2 DEF NewestInv, OneExpects
  <2> QED
    BY <2>1, <2>2
<1>12. StoredIsOlder'
  <2> SUFFICES ASSUME NEW v \in Workers, NEW a \in accounts, NEW u \in unified,
                      KeyOf(a) \in Expects(v)', KeyOf(a) \notin crossed', u.account = a.id
               PROVE  u.taken <= job'[v].taken
    BY <1>2 DEF StoredIsOlder, KeyOf
  <2>1. CASE v = w
    BY <1>1, <1>3, <1>8, <2>1
  <2>2. CASE v # w
    <3>1. KeyOf(a) \in Expects(v) /\ KeyOf(a) \notin crossed /\ job'[v] = job[v]
      BY <1>2, <1>3, <1>4, <2>2
    <3> QED
      BY <3>1 DEF NewestInv, StoredIsOlder
  <2> QED
    BY <2>1, <2>2
<1>13. InOrder'
  BY <1>2 DEF NewestInv, InOrder, KeyOf
<1> QED
  BY <1>6, <1>7, <1>10, <1>11, <1>12, <1>13 DEF NewestInv

\* A capture stores a reading: it was the one to do so.
LEMMA NewestGrows ==
  ASSUME TInv, IdInv, NoOrphans, NewestInv, NEW w \in Workers, SaveSnapshot(w)
  PROVE  NewestInv'
<1> DEFINE new == [id |-> lastId + 1, account |-> job[w].account, taken |-> job[w].taken]
           k == <<Head(job[w].todo), job[w].provider>>
<1>1. lastId \in Nat /\ lastId' = lastId + 1 /\ started \in Nat
  BY UnifiedMoves DEF TInv, TypeOK
<1>2. /\ pc[w] = "unified" /\ pc'[w] = "find" /\ UNCHANGED job
      /\ job[w] \in CaptureJob /\ job[w].todo # <<>>
      /\ \A v \in Workers \ {w} : pc'[v] = pc[v]
      /\ unified' = unified \cup {new}
  BY UnifiedMoves
<1>3. UNCHANGED <<accounts, started, crossed>>
  BY DEF SaveSnapshot, history
<1>4. \A v \in Workers : Expects(v)' = Expects(v)
  BY <1>2, ExpectsSame
<1>5. job[w].kind \in {"snap", "poll"} /\ job[w].account \in 0 .. lastId
      /\ \A a \in accounts : a.id = job[w].account => KeyOf(a) = k
  BY <1>2 DEF NewestInv, OnlyBothKinds, JobHasKey, Storing, Resolved
<1>6. k \in Expects(w) /\ k \in Emails \X Providers
  <2>1. 1 \in DOMAIN job[w].todo /\ job[w].todo[1] = Head(job[w].todo)
        /\ k \in Emails \X Providers
    BY <1>2 DEF CaptureJob
  <2> QED
    BY <1>2, <1>5, <2>1 DEF Expects
<1>7. job[w].taken \in Nat /\ job[w].taken <= started
  BY <1>2, <1>6 DEF CaptureJob, NewestInv, TakenBefore
<1>8. new.id = lastId + 1 /\ new.account = job[w].account /\ new.taken = job[w].taken
  OBVIOUS
<1> HIDE DEF new, k
<1>9. \A u \in unified : u.id \in Nat /\ u.id <= lastId /\ u.taken \in Nat
  BY DEF TInv, TypeOK, Unified, Ids, IdInv, RowsBelow
<1>10. IdHasKey'
  BY <1>3 DEF NewestInv, IdHasKey, KeyOf
<1>11. JobHasKey' /\ OnlyBothKinds'
  <2>1. \A v \in Workers :
          /\ Resolved(pc'[v], job'[v].kind) => Resolved(pc[v], job[v].kind)
          /\ pc'[v] \in Storing => pc[v] \in Storing
    BY <1>2 DEF Storing, Resolved
  <2> QED
    BY <1>1, <1>2, <1>3, <2>1 DEF NewestInv, JobHasKey, OnlyBothKinds, KeyOf, Storing, Resolved
<1>12. TakenBefore'
  BY <1>2, <1>3, <1>4, <1>7, <1>8 DEF NewestInv, TakenBefore
<1>13. OneExpects'
  BY <1>3, <1>4 DEF NewestInv, OneExpects
<1>14. StoredIsOlder'
  <2> SUFFICES ASSUME NEW v \in Workers, NEW a \in accounts, NEW u \in unified',
                      KeyOf(a) \in Expects(v), KeyOf(a) \notin crossed, u.account = a.id
               PROVE  u.taken <= job[v].taken
    BY <1>2, <1>3, <1>4 DEF StoredIsOlder, KeyOf
  <2>1. CASE u \in unified
    BY <2>1 DEF NewestInv, StoredIsOlder
  <2>2. CASE u = new
    <3>1. KeyOf(a) = k
      BY <1>5, <1>8, <2>2
    <3>2. v = w
      BY <1>6, <3>1 DEF NewestInv, OneExpects
    <3> QED
      BY <1>7, <1>8, <2>2, <3>2
  <2> QED
    BY <1>2, <2>1, <2>2
<1>15. InOrder'
  <2> SUFFICES ASSUME NEW a \in accounts, NEW u \in unified', NEW v \in unified',
                      KeyOf(a) \notin crossed, u.account = a.id, v.account = a.id, v.id <= u.id
               PROVE  v.taken <= u.taken
    BY <1>3 DEF InOrder, KeyOf
  <2>1. CASE u \in unified /\ v \in unified
    BY <2>1 DEF NewestInv, InOrder
  <2>2. CASE u = new /\ v \in unified
    <3>1. KeyOf(a) = k
      BY <1>5, <1>8, <2>2
    <3> QED
      BY <1>6, <1>8, <2>2, <3>1 DEF NewestInv, StoredIsOlder
  <2>3. CASE u \in unified /\ v = new
    BY <1>1, <1>8, <1>9, <2>3
  <2>4. CASE u = new /\ v = new
    BY <1>7, <1>8, <2>4
  <2> QED
    BY <1>2, <2>1, <2>2, <2>3, <2>4
<1> QED
  BY <1>10, <1>11, <1>12, <1>13, <1>14, <1>15 DEF NewestInv

LEMMA NewestKept == ASSUME TInv, IdInv, NoOrphans, NewestInv, Next PROVE NewestInv'
<1>0. WorkersOK /\ Rows
  BY TypeParts
<1>1. ASSUME NEW w \in Workers, UpsertAccount(w)
      PROVE  NewestInv'
  <2> DEFINE new == [id |-> lastId + 1, email |-> Head(job[w].todo),
                     provider |-> job[w].provider, set |-> {}]
  <2>1. /\ pc[w] = "upsert" /\ pc'[w] = "select" /\ UNCHANGED job
        /\ \A v \in Workers \ {w} : pc'[v] = pc[v]
        /\ (accounts' = accounts /\ lastId' = lastId)
           \/ (lastId' = lastId + 1 /\ accounts' = accounts \cup {new})
    BY <1>1, UpsertMoves
  <2>2. UNCHANGED <<crossed, started, unified>>
    BY <1>1 DEF UpsertAccount, history
  <2>3. new.id = lastId + 1
    OBVIOUS
  <2> HIDE DEF new
  <2>4. \A a \in accounts : a.id # lastId + 1
    BY DEF TInv, TypeOK, Account, Ids, IdInv, RowsBelow
  <2>5. \A a \in accounts' :
           \/ \E b \in accounts : b.id = a.id /\ KeyOf(b) = KeyOf(a)
           \/ a.id = lastId + 1 /\ \A b \in accounts' : b.id = a.id => KeyOf(b) = KeyOf(a)
    BY <2>1, <2>3, <2>4
  <2>6. Expects(w)' = Expects(w)
    BY <2>1, ExpectsSame
  <2>7. HasKey(pc'[w], job'[w])
    BY <2>1 DEF HasKey, Storing, Resolved
  <2>8. lastId' \in {lastId, lastId + 1} /\ Expects(w)' \subseteq Expects(w)
        /\ \A v \in Workers \ {w} : pc'[v] = pc[v] /\ job'[v] = job[v]
    BY <2>1, <2>6
  <2> QED
    BY <2>1, <2>2, <2>5, <2>7, <2>8, NewestMoves
<1>2. ASSUME UNCHANGED accounts
      PROVE  \A a \in accounts' :
               \/ \E b \in accounts : b.id = a.id /\ KeyOf(b) = KeyOf(a)
               \/ a.id = lastId + 1 /\ \A b \in accounts' : b.id = a.id => KeyOf(b) = KeyOf(a)
  BY <1>2 DEF KeyOf
<1>3. ASSUME NEW w \in Workers, SelectAccount(w)
      PROVE  NewestInv'
  <2>1. /\ pc[w] = "select" /\ pc'[w] = (IF job[w].kind = "poll" THEN "unified" ELSE "reading")
        /\ job'[w].kind = job[w].kind /\ job'[w].provider = job[w].provider
        /\ job'[w].todo = job[w].todo /\ job'[w].taken = job[w].taken
        /\ \E a \in AccountOf(w) : job'[w].account = a.id
        /\ \A v \in Workers \ {w} : pc'[v] = pc[v] /\ job'[v] = job[v]
    BY <1>3, SelectMoves
  <2>2. UNCHANGED <<crossed, started, unified, lastId, accounts>>
    BY <1>3 DEF SelectAccount, tables, history
  <2>3. Expects(w)' \subseteq Expects(w)
    BY <2>1, ExpectsLess
  <2>4. HasKey(pc'[w], job'[w])
    <3>1. PICK a \in AccountOf(w) : job'[w].account = a.id
      BY <2>1
    <3>2. a \in accounts /\ KeyOf(a) = <<Head(job[w].todo), job[w].provider>>
      BY DEF AccountOf, KeyOf
    <3>3. a.id \in 0 .. lastId
      BY <3>2 DEF TInv, TypeOK, Account, Ids, IdInv, RowsBelow
    <3>4. \A b \in accounts : b.id = a.id => KeyOf(b) = KeyOf(a)
      BY <3>2 DEF NewestInv, IdHasKey
    <3>5. pc'[w] \in Storing => job'[w].kind \in {"snap", "poll"}
      BY <2>1 DEF Storing
    <3> QED
      BY <2>1, <3>1, <3>2, <3>3, <3>4, <3>5 DEF HasKey, Resolved
  <2> QED
    BY <1>2, <2>1, <2>2, <2>3, <2>4, NewestMoves
<1>4. ASSUME NEW w \in Workers, pc[w] \notin {"idle", "write"},
             \/ pc'[w] = "idle"
             \/ /\ pc'[w] = "upsert" /\ job'[w].kind = job[w].kind
                /\ job'[w].provider = job[w].provider /\ job'[w].todo = Tail(job[w].todo)
                /\ job'[w].taken = job[w].taken
             \/ pc'[w] = "link" /\ pc[w] = "find" /\ job'[w] = job[w]
             \/ /\ pc'[w] = "unified" /\ pc[w] = "reading" /\ job[w].kind = "snap"
                /\ job'[w].kind = job[w].kind /\ job'[w].provider = job[w].provider
                /\ job'[w].todo = job[w].todo /\ job'[w].taken = job[w].taken
                /\ job'[w].account = job[w].account
      PROVE  /\ Expects(w)' \subseteq Expects(w)
             /\ Expects(w)' = {} \/ job'[w].taken = job[w].taken
             /\ HasKey(pc'[w], job'[w])
  <2>1. Expects(w)' \subseteq Expects(w)
    BY <1>4, ExpectsLess
  <2>2. Expects(w)' = {} \/ job'[w].taken = job[w].taken
    BY <1>4 DEF Expects
  <2>3. HasKey(pc'[w], job'[w])
    BY <1>4 DEF HasKey, NewestInv, JobHasKey, OnlyBothKinds, Storing, Resolved
  <2> QED
    BY <2>1, <2>2, <2>3
<1>5. ASSUME NEW w \in Workers, InsertReading(w)
      PROVE  NewestInv'
  <2>1. /\ pc[w] = "reading" /\ lastId' = lastId + 1
        /\ \A v \in Workers \ {w} : pc'[v] = pc[v] /\ job'[v] = job[v]
    BY <1>5, ReadingMoves
  <2>2. UNCHANGED <<crossed, started, unified, accounts>>
    BY <1>5 DEF InsertReading, history
  <2>3. /\ Expects(w)' \subseteq Expects(w)
        /\ Expects(w)' = {} \/ job'[w].taken = job[w].taken
        /\ HasKey(pc'[w], job'[w])
    BY <1>4, <1>5, ReadingMoves
  <2> QED
    BY <1>2, <2>1, <2>2, <2>3, NewestMoves
<1>6. ASSUME NEW w \in Workers, NEW on \in BOOLEAN, FindSubscription(w, on)
      PROVE  NewestInv'
  <2>1. pc[w] = "find" /\ \A v \in Workers \ {w} : pc'[v] = pc[v] /\ job'[v] = job[v]
    BY <1>6, FindMoves
  <2>2. UNCHANGED <<crossed, started, unified, accounts, lastId>>
    BY <1>6 DEF FindSubscription, tables
  <2>3. /\ Expects(w)' \subseteq Expects(w)
        /\ Expects(w)' = {} \/ job'[w].taken = job[w].taken
        /\ HasKey(pc'[w], job'[w])
    BY <1>4, <1>6, FindMoves
  <2> QED
    BY <1>2, <2>1, <2>2, <2>3, NewestMoves
<1>7. ASSUME NEW w \in Workers, LinkSubscription(w)
      PROVE  NewestInv'
  <2>1. pc[w] = "link" /\ lastId' = lastId + 1
        /\ \A v \in Workers \ {w} : pc'[v] = pc[v] /\ job'[v] = job[v]
    BY <1>7, LinkMoves
  <2>2. UNCHANGED <<crossed, started, unified, accounts>>
    BY <1>7 DEF LinkSubscription, history
  <2>3. /\ Expects(w)' \subseteq Expects(w)
        /\ Expects(w)' = {} \/ job'[w].taken = job[w].taken
        /\ HasKey(pc'[w], job'[w])
    BY <1>4, <1>7, LinkMoves
  <2> QED
    BY <1>2, <2>1, <2>2, <2>3, NewestMoves
<1>8. ASSUME NEW w \in Workers, Breaks(w)
      PROVE  NewestInv'
  <2>1. pc[w] # "idle" /\ \A v \in Workers \ {w} : pc'[v] = pc[v] /\ job'[v] = job[v]
    BY <1>0, <1>8, BreakMoves DEF Breaks
  <2>2. UNCHANGED <<crossed, started, unified, accounts, lastId>>
    BY <1>8 DEF Breaks, tables
  <2>3. CASE pc'[w] = "idle"
    BY <1>2, <2>1, <2>2, <2>3, NewestMoves DEF Expects, HasKey, Storing, Resolved
  <2>4. CASE pc'[w] = "reading"
    <3>1. pc[w] \in {"upsert", "select"} /\ job[w].kind = "provider" /\ job'[w] = job[w]
      BY <1>0, <1>8, <2>4, BreakMoves
    <3>2. Expects(w)' = {}
      BY <2>4, <3>1 DEF Expects
    <3>3. HasKey(pc'[w], job'[w])
      BY <2>4, <3>1 DEF HasKey, Storing, Resolved
    <3> QED
      BY <1>2, <2>1, <2>2, <3>2, <3>3, NewestMoves
  <2>5. CASE pc'[w] \notin {"idle", "reading"}
    <3>1. /\ Expects(w)' \subseteq Expects(w)
          /\ Expects(w)' = {} \/ job'[w].taken = job[w].taken
          /\ HasKey(pc'[w], job'[w])
      BY <1>0, <1>4, <1>8, <2>5, BreakMoves
    <3> QED
      BY <1>2, <2>1, <2>2, <3>1, NewestMoves
  <2> QED
    BY <2>3, <2>4, <2>5
<1>9. ASSUME NEW w \in Workers, NEW kind \in {"meta", "adjust"}, NEW r \in accounts \cup readings,
             NEW f \in Fields, BeginEdit(w, kind, r, f)
      PROVE  NewestInv'
  <2>1. r.id \in Ids /\ r.set \in SUBSET Fields
    BY <1>0 DEF Rows, Account, Reading
  <2>2. /\ pc'[w] = "write" /\ job'[w].kind = kind
        /\ \A v \in Workers \ {w} : pc'[v] = pc[v] /\ job'[v] = job[v]
    BY <1>9, <2>1, EditMoves
  <2>3. UNCHANGED <<crossed, unified, accounts, lastId>> /\ started' = started + 1
    BY <1>9 DEF BeginEdit, tables
  <2>4. Expects(w)' = {}
    BY <2>2 DEF Expects
  <2>5. HasKey(pc'[w], job'[w])
    BY <2>2 DEF HasKey, Storing, Resolved
  <2> QED
    BY <1>2, <2>2, <2>3, <2>4, <2>5, NewestMoves
<1>10. ASSUME NEW w \in Workers, WriteEdit(w)
       PROVE  NewestInv'
  <2>1. /\ job[w] \in EditJob /\ pc'[w] = "idle"
        /\ \A v \in Workers \ {w} : pc'[v] = pc[v] /\ job'[v] = job[v]
    BY <1>10, WriteMoves
  <2>2. UNCHANGED <<crossed, unified, started, lastId>>
        /\ (accounts' = accounts \/ accounts' = Edited(accounts, w))
    BY <1>10 DEF WriteEdit
  <2>3. \A a \in Edited(accounts, w) : \E b \in accounts : b.id = a.id /\ KeyOf(b) = KeyOf(a)
    BY <1>0, <2>1, EditedAccounts DEF KeyOf
  <2>4. \A a \in accounts' : \E b \in accounts : b.id = a.id /\ KeyOf(b) = KeyOf(a)
    BY <2>2, <2>3
  <2>5. Expects(w)' = {} /\ HasKey(pc'[w], job'[w])
    BY <2>1 DEF Expects, HasKey, Storing, Resolved
  <2> QED
    BY <2>1, <2>2, <2>4, <2>5, NewestMoves
<1>11. ASSUME Edit PROVE NewestInv'
  BY <1>9, <1>10, <1>11 DEF Edit
<1>12. ASSUME \/ Removes \/ (\E a \in IdsOf(accounts) : DeleteAccount(a))
              \/ \E a \in IdsOf(accounts) \cup {Nobody} :
                   \/ InsertSubscription(a)
                   \/ \E s \in subs, auto \in BOOLEAN : UpdateSubscription(s, a, auto)
              \/ (\E s \in subs : DeleteSubscription(s) \/ InsertUsageLog(s.id))
              \/ (\E u \in usage : DeleteUsageLog(u))
       PROVE  NewestInv'
  <2>1. /\ UNCHANGED <<pc, job, crossed>> /\ accounts' \subseteq accounts
        /\ unified' \subseteq unified /\ lastId' \in {lastId, lastId + 1}
        /\ started' \in {started, started + 1}
    BY <1>12 DEF Removes, DeleteAccount, InsertSubscription, UpdateSubscription,
                 DeleteSubscription, InsertUsageLog, DeleteUsageLog, ByUser, history
  <2>2. \A v \in Workers : Expects(v)' = Expects(v)
    BY <2>1 DEF Expects
  <2>3. \A v \in Workers : HasKey(pc'[v], job'[v])
    BY <2>1 DEF NewestInv, JobHasKey, OnlyBothKinds, HasKey
  <2>4. \A a \in accounts' : \E b \in accounts : b.id = a.id /\ KeyOf(b) = KeyOf(a)
    BY <2>1
  <2> HIDE DEF HasKey
  <2> QED
    BY <2>1, <2>2, <2>3, <2>4, NewestStays
<1> QED
  BY <1>1, <1>3, <1>5, <1>6, <1>7, <1>8, <1>11, <1>12, NewestBegins, NewestGrows, StepCases

\* The status page shows the newest reading of an account, for any workers, accounts and
\* number of captures, unless captures of it have overlapped (SnapCapture, StatusShowsNewest).
THEOREM StatusShowsNewestHolds == Spec => []StatusShowsNewest
<1>1. TInv /\ IdInv /\ NoOrphans /\ NewestInv /\ [Next]_vars => NewestInv'
  <2> SUFFICES ASSUME TInv, IdInv, NoOrphans, NewestInv, [Next]_vars PROVE NewestInv'
    OBVIOUS
  <2>1. CASE UNCHANGED vars
    <3>1. UNCHANGED <<pc, job, accounts, unified, lastId, started, crossed>>
      BY <2>1 DEF vars, tables, history
    <3>2. \A v \in Workers : Expects(v)' = Expects(v)
      BY <3>1 DEF Expects
    <3> QED
      BY <3>1, <3>2 DEF NewestInv, IdHasKey, JobHasKey, OnlyBothKinds, TakenBefore,
                        OneExpects, StoredIsOlder, InOrder, KeyOf, Storing, Resolved
  <2> QED
    BY <2>1, NewestKept
<1>2. NewestInv => StatusShowsNewest
  BY DEF NewestInv, InOrder, StatusShowsNewest, LatestAll, KeyOf
<1> QED
  BY IdsHold, NoOrphansHolds, NewestStart, <1>1, <1>2, PTL DEF Spec

=============================================================================
