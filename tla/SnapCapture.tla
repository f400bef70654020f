----------------------------- MODULE SnapCapture -----------------------------
(***************************************************************************)
(* How readings reach the database, and what else changes the same tables. *)
(* Four programs store readings: POST /api/snap (handlers_quota.go), the   *)
(* provider buttons (handlers_codex.go, handlers_cursor.go,                *)
(* handlers_copilot.go), the polling agent (agent.go) and `niyantra snap`  *)
(* (main.go).  Meanwhile the user edits, clears and deletes what they      *)
(* store.  Nothing but SQLite serialises them: every SQL statement of a    *)
(* capture is a step, may fail, and its program may die before it.         *)
(*                                                                         *)
(* A reading goes to one of two kinds of tables, or to both: the tables of *)
(* its provider (snapshots, codex_snapshots, ...), which history, export   *)
(* and forecasts read, and snapshots_v2, which the status page reads.      *)
(***************************************************************************)
EXTENDS Naturals, FiniteSets, Sequences

CONSTANTS
  Workers,      (* requests and polls that may be under way at once        *)
  Emails,       (* of accounts                                             *)
  Providers,    (* antigravity, and one that stands for each of the others *)
  Antigravity,
  Detected,     (* what one fetch may return: sequences of emails          *)
  Fields,       (* models of a snapshot; editable fields of an account     *)
  MaxJobs,      (* bound on captures and edits started                     *)
  MaxId,        (* bound on the rows ever inserted                         *)
  MaxFails      (* bound on failing statements and deaths of programs      *)

Nobody == 0     (* no account: NULL in the owner columns                   *)

ASSUME CaptureAssumption ==
  /\ Antigravity \in Providers
  /\ Detected \subseteq Seq(Emails) \ {<<>>}
  /\ MaxJobs \in Nat /\ MaxId \in Nat /\ MaxId >= 3 /\ MaxFails \in Nat

VARIABLES
  accounts,     (* table accounts                                          *)
  readings,     (* the provider tables                                     *)
  unified,      (* table snapshots_v2                                      *)
  subs,         (* table subscriptions                                     *)
  usage,        (* table usage_logs                                        *)
  lastId,       (* AUTOINCREMENT: ids are never used again                 *)
  pc, job,      (* what a worker does, and its local variables             *)
  started, fails,
  (* history *)
  crossed,      (* email and provider two captures of which overlapped     *)
  doubled,      (* accounts whose auto-linking was not undisturbed         *)
  torn,         (* readings whose capture was cut short                    *)
  asked,        (* per edited row: the fields users have set               *)
  clashed       (* rows two edits of which overlapped                      *)

tables == <<accounts, readings, unified, subs, usage, lastId>>
history == <<crossed, doubled, torn, asked, clashed>>
vars == <<tables, pc, job, started, fails, history>>

Kinds == {"snap", "provider", "poll", "cli"}
Steps == {"upsert", "select", "reading", "unified", "find", "link", "write"}
Ids == 1..MaxId

Account == [id : Ids, email : Emails, provider : Providers, set : SUBSET Fields]
Reading == [id : Ids, provider : Providers, owner : Ids \cup {Nobody},
            via : Kinds, taken : Nat, set : SUBSET Fields]
Unified == [id : Ids, account : Ids, taken : Nat]
Sub == [id : Ids, account : Ids \cup {Nobody}, auto : BOOLEAN]
Usage == [id : Ids, sub : Ids]

\* Local variables of a capture, of an edit, and of no job.
CaptureJob == [kind : Kinds, provider : Providers, todo : Seq(Emails),
               taken : Nat, account : Ids \cup {Nobody}, row : Ids \cup {0}]
EditJob == [kind : {"meta", "adjust"}, row : Ids, copy : SUBSET Fields,
            field : Fields]
NoJob == [kind |-> "none"]

IdsOf(table) == {r.id : r \in table}

\* The database is new, or an earlier capture has left it like this.
Used(email) ==
  /\ accounts = {[id |-> 1, email |-> email, provider |-> Antigravity, set |-> {}]}
  /\ readings = {[id |-> 2, provider |-> Antigravity, owner |-> 1, via |-> "snap",
                  taken |-> 0, set |-> {}]}
  /\ unified = {[id |-> 3, account |-> 1, taken |-> 0]}
  /\ lastId = 3

New ==
  /\ accounts = {} /\ readings = {} /\ unified = {}
  /\ lastId = 0

Init ==
  /\ New \/ \E email \in Emails : Used(email)
  /\ subs = {} /\ usage = {}
  /\ pc = [w \in Workers |-> "idle"]
  /\ job = [w \in Workers |-> NoJob]
  /\ started = 0 /\ fails = 0
  /\ crossed = {} /\ doubled = {} /\ torn = {} /\ clashed = {}
  /\ asked = [i \in Ids |-> {}]

-----------------------------------------------------------------------------
(* The database                                                            *)

\* Mutant: foreign keys are off.
Unenforced(owner, table) == TRUE

\* Foreign keys are enforced on every connection: a row whose owner is gone is
\* refused.
Enforced(owner, table) == owner \in IdsOf(table) \cup {Nobody}

\* Mutant: INSERT OR REPLACE.
Replaced(email, provider) ==
  IF \E a \in accounts : a.email = email /\ a.provider = provider
    THEN {IF a.email = email /\ a.provider = provider THEN [a EXCEPT !.set = {}] ELSE a
          : a \in accounts}
    ELSE accounts \cup {[id |-> lastId + 1, email |-> email,
                         provider |-> provider, set |-> {}]}

\* INSERT INTO accounts ... ON CONFLICT(email, provider) DO UPDATE.
Upserted(email, provider) ==
  IF \E a \in accounts : a.email = email /\ a.provider = provider
    THEN accounts
    ELSE accounts \cup {[id |-> lastId + 1, email |-> email,
                         provider |-> provider, set |-> {}]}

\* FindSubscriptionByAccountID.
AutoSubs(a) == {s \in subs : s.auto /\ s.account = a}

\* Mutant: ORDER BY without DESC.
EarliestAll(a) ==
  LET own == {u \in unified : u.account = a}
  IN {u \in own : \A v \in own : u.id <= v.id}

\* LatestAll: the row stored last of an account; captured_at is the time of
\* storing, not that of the reading.
LatestAll(a) ==
  LET own == {u \in unified : u.account = a}
  IN {u \in own : \A v \in own : v.id <= u.id}

-----------------------------------------------------------------------------
(* Captures                                                                *)

\* The accounts a capture under way still has to store in snapshots_v2.
Expects(w) ==
  IF pc[w] = "idle" \/ job[w].kind \notin {"snap", "poll"} THEN {}
  ELSE {<<job[w].todo[i], job[w].provider>> : i \in DOMAIN job[w].todo}

\* The provider has answered; what it reported is taken now, whenever it will be
\* stored.
Begin(w, kind, provider, emails) ==
  /\ pc[w] = "idle" /\ started < MaxJobs
  /\ started' = started + 1
  /\ pc' = [pc EXCEPT ![w] = "upsert"]
  /\ job' = [job EXCEPT ![w] =
       [kind |-> kind, provider |-> provider, todo |-> emails,
        taken |-> started + 1, account |-> Nobody, row |-> 0]]
  /\ crossed' = crossed \cup
       (Expects(w)' \cap UNION {Expects(v) : v \in Workers \ {w}})
  /\ UNCHANGED <<tables, fails, doubled, torn, asked, clashed>>

\* POST /api/snap: a language server may answer for several accounts.
Snap(w, emails) == Begin(w, "snap", Antigravity, emails)

\* The buttons of the other providers: one account, or none that is known.
ProviderSnap(w, provider, email) ==
  /\ provider # Antigravity
  /\ Begin(w, "provider", provider, <<email>>)

\* One provider's part of a poll, which joins several accounts to one.
PollProvider(w, provider, email) == Begin(w, "poll", provider, <<email>>)

\* niyantra snap
CmdSnap(w, emails) == Begin(w, "cli", Antigravity, emails)

\* Mutant: the local variables of a capture stay.
EndKeepsJob(w) ==
  LET rest == Tail(job[w].todo)
  IN /\ pc' = [pc EXCEPT ![w] = IF rest = <<>> THEN "idle" ELSE "upsert"]
     /\ job' = [job EXCEPT ![w].todo = rest]

\* A response is done with, stored or not: only a snap may have another one.
EndResponse(w) ==
  LET rest == Tail(job[w].todo)
      idle == rest = <<>>
  IN /\ pc' = [pc EXCEPT ![w] = IF idle THEN "idle" ELSE "upsert"]
     /\ job' = [job EXCEPT ![w] =
          IF idle THEN NoJob
                  ELSE [@ EXCEPT !.todo = rest, !.account = Nobody, !.row = 0]]

Goto(w, step) == pc' = [pc EXCEPT ![w] = step]

\* GetOrCreateAccount is two statements.
UpsertAccount(w) ==
  /\ pc[w] = "upsert"
  /\ accounts' = Upserted(Head(job[w].todo), job[w].provider)
  /\ lastId < MaxId \/ accounts' = accounts
  /\ lastId' = lastId + Cardinality(accounts') - Cardinality(accounts)
  /\ Goto(w, "select")
  /\ UNCHANGED <<readings, unified, subs, usage, job, started, fails, history>>

AccountOf(w) == {a \in accounts : a.email = Head(job[w].todo)
                               /\ a.provider = job[w].provider}

SelectAccount(w) ==
  /\ pc[w] = "select"
  /\ \E a \in AccountOf(w) : job' = [job EXCEPT ![w].account = a.id]
  /\ Goto(w, IF job[w].kind = "poll" THEN "unified" ELSE "reading")
  /\ UNCHANGED <<tables, started, fails, history>>

\* Mutant: POST /api/snap stores the reading like `niyantra snap`.
InsertReadingOnly(w) ==
  /\ pc[w] = "reading" /\ lastId < MaxId
  /\ Enforced(job[w].account, accounts)
  /\ lastId' = lastId + 1
  /\ readings' = readings \cup
       {[id |-> lastId', provider |-> job[w].provider, owner |-> job[w].account,
         via |-> job[w].kind, taken |-> job[w].taken, set |-> {}]}
  /\ EndResponse(w)
  /\ UNCHANGED <<accounts, unified, subs, usage, started, fails, history>>

\* InsertSnapshot and its like for the other providers.
InsertReading(w) ==
  /\ pc[w] = "reading" /\ lastId < MaxId
  /\ Enforced(job[w].account, accounts)
  /\ lastId' = lastId + 1
  /\ readings' = readings \cup
       {[id |-> lastId', provider |-> job[w].provider, owner |-> job[w].account,
         via |-> job[w].kind, taken |-> job[w].taken, set |-> {}]}
  /\ IF job[w].kind = "snap"
       THEN Goto(w, "unified") /\ job' = [job EXCEPT ![w].row = lastId']
       ELSE EndResponse(w)
  /\ UNCHANGED <<accounts, unified, subs, usage, started, fails, history>>

SaveSnapshot(w) ==
  /\ pc[w] = "unified" /\ lastId < MaxId
  /\ Enforced(job[w].account, accounts)
  /\ lastId' = lastId + 1
  /\ unified' = unified \cup {[id |-> lastId', account |-> job[w].account,
                               taken |-> job[w].taken]}
  /\ Goto(w, "find")
  /\ UNCHANGED <<accounts, readings, subs, usage, job, started, fails, history>>

\* Mutant: a subscription that exists is not looked for.
FindNothing(w, on) ==
  /\ pc[w] = "find" /\ on
  /\ Goto(w, "link")
  /\ UNCHANGED <<tables, job, started, fails, history>>

\* auto_link_subs is read anew by every capture: on is any value it may have.
FindSubscription(w, on) ==
  /\ pc[w] = "find"
  /\ IF on /\ AutoSubs(job[w].account) = {}
       THEN /\ Goto(w, "link")
            /\ doubled' = doubled \cup
                 {job[v].account : v \in {v \in Workers \ {w} :
                    pc[v] = "link" /\ job[v].account = job[w].account}}
            /\ UNCHANGED job
       ELSE EndResponse(w) /\ UNCHANGED doubled
  /\ UNCHANGED <<tables, started, fails, crossed, torn, asked, clashed>>

LinkSubscription(w) ==
  /\ pc[w] = "link" /\ lastId < MaxId
  /\ Enforced(job[w].account, accounts)
  /\ lastId' = lastId + 1
  /\ subs' = subs \cup {[id |-> lastId', account |-> job[w].account, auto |-> TRUE]}
  /\ EndResponse(w)
  /\ UNCHANGED <<accounts, readings, unified, usage, started, fails, history>>

\* What a capture does after a statement that failed.  A provider button stores
\* its reading without an owner; a failed lookup counts as `no subscription`.
AfterFailure(w) ==
  /\ CASE pc[w] \in {"upsert", "select"} /\ job[w].kind = "provider" ->
            Goto(w, "reading") /\ UNCHANGED job
       [] pc[w] = "find" -> Goto(w, "link") /\ UNCHANGED job
       [] OTHER -> EndResponse(w)
  /\ doubled' = doubled \cup (IF pc[w] = "find" THEN {job[w].account} ELSE {})
  /\ torn' = torn \cup (IF pc[w] = "unified" THEN {job[w].row} ELSE {})

\* The database is busy for too long, full or broken.
StatementFails(w) ==
  /\ fails < MaxFails /\ pc[w] \notin {"idle", "write"}
  /\ fails' = fails + 1
  /\ AfterFailure(w)
  /\ UNCHANGED <<tables, started, crossed, asked, clashed>>

\* The account was deleted under the capture: there is no such row, or the
\* foreign key refuses the insert.
Refused(w) ==
  /\ \/ pc[w] = "select" /\ AccountOf(w) = {}
     \/ /\ pc[w] \in {"reading", "unified", "link"}
        /\ ~ Enforced(job[w].account, accounts)
  /\ AfterFailure(w)
  /\ UNCHANGED <<tables, started, fails, crossed, asked, clashed>>

\* The server or the command dies, or the client of the request is gone.
Dies(w) ==
  /\ fails < MaxFails /\ pc[w] # "idle"
  /\ fails' = fails + 1
  /\ torn' = torn \cup (IF pc[w] = "unified" THEN {job[w].row} ELSE {})
  /\ Goto(w, "idle")
  /\ job' = [job EXCEPT ![w] = NoJob]
  /\ UNCHANGED <<tables, started, crossed, doubled, asked, clashed>>

-----------------------------------------------------------------------------
(* Edits: a row is read, changed in memory and written back whole          *)

\* handleAccountMeta reads notes, tags, group and renewal day; handleSnapAdjust
\* reads all models of a snapshot.
BeginEdit(w, kind, r, field) ==
  /\ pc[w] = "idle" /\ started < MaxJobs
  /\ started' = started + 1
  /\ Goto(w, "write")
  /\ job' = [job EXCEPT ![w] = [kind |-> kind, row |-> r.id, copy |-> r.set,
                                field |-> field]]
  /\ clashed' = clashed \cup
       {r.id : v \in {v \in Workers : pc[v] = "write" /\ job[v].row = r.id}}
  /\ UNCHANGED <<tables, fails, crossed, doubled, torn, asked>>

Edited(table, w) ==
  {IF r.id = job[w].row THEN [r EXCEPT !.set = job[w].copy \cup {job[w].field}]
                        ELSE r : r \in table}

\* UpdateAccountMeta and UpdateSnapshotModels; a row that is gone stays gone.
WriteEdit(w) ==
  /\ pc[w] = "write"
  /\ IF job[w].kind = "meta"
       THEN accounts' = Edited(accounts, w) /\ UNCHANGED readings
       ELSE readings' = Edited(readings, w) /\ UNCHANGED accounts
  /\ asked' = [asked EXCEPT ![job[w].row] = @ \cup {job[w].field}]
  /\ Goto(w, "idle")
  /\ job' = [job EXCEPT ![w] = NoJob]
  /\ UNCHANGED <<unified, subs, usage, lastId, started, fails, crossed, doubled,
                 torn, clashed>>

-----------------------------------------------------------------------------
(* Deletions: one transaction or one statement each                        *)

SubsOf(a) == {s \in subs : s.account = a}

\* Explicitly all that an account owns; snapshots_v2 follows by ON DELETE CASCADE.
DeleteAccount(a) ==
  /\ usage' = {u \in usage : u.sub \notin IdsOf(SubsOf(a))}
  /\ subs' = subs \ SubsOf(a)
  /\ readings' = {r \in readings : r.owner # a}
  /\ unified' = {u \in unified : u.account # a}
  /\ accounts' = {b \in accounts : b.id # a}
  /\ UNCHANGED <<lastId, pc, job, started, fails, history>>

DeleteAccountSnapshots(a) ==
  /\ readings' = {r \in readings : r.owner # a}
  /\ UNCHANGED <<accounts, unified, subs, usage, lastId, pc, job, started, fails,
                 history>>

DeleteSnapshot(r) ==
  /\ r.provider = Antigravity
  /\ readings' = readings \ {r}
  /\ UNCHANGED <<accounts, unified, subs, usage, lastId, pc, job, started, fails,
                 history>>

\* One statement of DeleteSnapshotsOlderThan: a table, up to some time.
DeleteOlderThan(provider, time) ==
  /\ readings' = {r \in readings : r.provider # provider \/ r.taken > time}
  /\ UNCHANGED <<accounts, unified, subs, usage, lastId, pc, job, started, fails,
                 history>>

-----------------------------------------------------------------------------
(* Subscriptions and usage logs                                            *)

\* Requests of the user are bounded like captures and edits.
ByUser == started < MaxJobs /\ started' = started + 1

InsertSubscription(a) ==
  /\ lastId < MaxId /\ ByUser
  /\ lastId' = lastId + 1
  /\ subs' = subs \cup {[id |-> lastId', account |-> a, auto |-> FALSE]}
  /\ UNCHANGED <<accounts, readings, unified, usage, pc, job, fails, history>>

\* A PUT replaces the row by the request's body, its links included.
UpdateSubscription(s, a, auto) ==
  /\ ByUser
  /\ subs' = (subs \ {s}) \cup {[s EXCEPT !.account = a, !.auto = auto]}
  /\ doubled' = doubled \cup (IF auto THEN {a} ELSE {})
  /\ UNCHANGED <<accounts, readings, unified, usage, lastId, pc, job, fails,
                 crossed, torn, asked, clashed>>

DeleteSubscription(s) ==
  /\ subs' = subs \ {s}
  /\ usage' = {u \in usage : u.sub # s.id}
  /\ UNCHANGED <<accounts, readings, unified, lastId, pc, job, started, fails,
                 history>>

InsertUsageLog(s) ==
  /\ lastId < MaxId /\ ByUser
  /\ lastId' = lastId + 1
  /\ usage' = usage \cup {[id |-> lastId', sub |-> s]}
  /\ UNCHANGED <<accounts, readings, unified, subs, pc, job, fails, history>>

DeleteUsageLog(u) ==
  /\ usage' = usage \ {u}
  /\ UNCHANGED <<accounts, readings, unified, subs, lastId, pc, job, started,
                 fails, history>>

-----------------------------------------------------------------------------

Capture ==
  \E w \in Workers :
    \/ \E emails \in Detected : Snap(w, emails) \/ CmdSnap(w, emails)
    \/ \E provider \in Providers, email \in Emails :
         ProviderSnap(w, provider, email) \/ PollProvider(w, provider, email)
    \/ UpsertAccount(w) \/ SelectAccount(w) \/ InsertReading(w) \/ SaveSnapshot(w)
    \/ \E on \in BOOLEAN : FindSubscription(w, on)
    \/ LinkSubscription(w)
    \/ StatementFails(w) \/ Refused(w) \/ Dies(w)

Edit ==
  \E w \in Workers :
    \/ \E a \in accounts, f \in Fields : BeginEdit(w, "meta", a, f)
    \/ \E r \in readings, f \in Fields :
         r.provider = Antigravity /\ BeginEdit(w, "adjust", r, f)
    \/ WriteEdit(w)

Manage ==
  \/ \E a \in IdsOf(accounts) : DeleteAccount(a) \/ DeleteAccountSnapshots(a)
  \/ \E r \in readings : DeleteSnapshot(r)
  \/ \E p \in Providers, time \in 1..started : DeleteOlderThan(p, time)
  \/ \E a \in IdsOf(accounts) \cup {Nobody} :
       \/ InsertSubscription(a)
       \/ \E s \in subs, auto \in BOOLEAN : UpdateSubscription(s, a, auto)
  \/ \E s \in subs : DeleteSubscription(s) \/ InsertUsageLog(s.id)
  \/ \E u \in usage : DeleteUsageLog(u)

Next == Capture \/ Edit \/ Manage

Spec == Init /\ [][Next]_vars

-----------------------------------------------------------------------------

TypeOK ==
  /\ accounts \subseteq Account /\ readings \subseteq Reading
  /\ unified \subseteq Unified /\ subs \subseteq Sub /\ usage \subseteq Usage
  /\ lastId \in 0..MaxId
  /\ pc \in [Workers -> Steps \cup {"idle"}]
  /\ \A w \in Workers :
       job[w] \in IF pc[w] = "idle" THEN {NoJob}
                  ELSE IF pc[w] = "write" THEN EditJob ELSE CaptureJob

\* No row refers to an account or a subscription that is gone, whatever is
\* deleted while captures are between two of their statements.
NoOrphans ==
  /\ \A r \in readings : r.owner \in IdsOf(accounts) \cup {Nobody}
  /\ \A u \in unified : u.account \in IdsOf(accounts)
  /\ \A s \in subs : s.account \in IdsOf(accounts) \cup {Nobody}
  /\ \A u \in usage : u.sub \in IdsOf(subs)

\* Auto-linking (handlers_quota.go:75-100, helpers.go:221-253) gives an account
\* one subscription, unless two captures look for it at the same time, the
\* lookup fails, or the user makes one of their own an auto-tracked one.
OneAutoSub ==
  \A a \in accounts : Cardinality(AutoSubs(a.id)) > 1 => a.id \in doubled

\* Every reading POST /api/snap stored in the table of its provider, and has
\* not deleted since, is known to the status page as well, unless its capture
\* was cut short or is about to store it.
CapturedInBoth ==
  \A r \in readings :
    \/ r.via # "snap" \/ r.id \in torn
    \/ \E u \in unified : u.account = r.owner /\ u.taken = r.taken
    \/ \E w \in Workers : pc[w] = "unified" /\ job[w].row = r.id

\* The status page shows the newest reading of an account although it sorts by
\* the time of storing, unless captures of the account have overlapped.
StatusShowsNewest ==
  \A a \in accounts :
    <<a.email, a.provider>> \notin crossed =>
      \A u \in LatestAll(a.id), v \in unified :
        v.account = a.id => v.taken <= u.taken

\* What users set on an account or a snapshot stays set, through captures of
\* the account too, unless two edits of the same row have overlapped.
EditsStick ==
  \A r \in accounts \cup readings : r.id \notin clashed => asked[r.id] \subseteq r.set

=============================================================================
