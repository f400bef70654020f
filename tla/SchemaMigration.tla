--------------------------- MODULE SchemaMigration ---------------------------
(***************************************************************************)
(* store.Open: the 25 migrations of migrate(), each in its own commits,    *)
(* followed by the statement that records its number in user_version.      *)
(* Every program that opens the database migrates it: `niyantra serve`,    *)
(* `snap`, `mcp` may do so at once, and each may die between two           *)
(* statements and be started again.                                        *)
(*                                                                         *)
(* Of the tables only what migrations move is kept: accounts, the rows of  *)
(* the tables that refer to them, and the rows of snapshots_v2.  What a    *)
(* migration adds otherwise (tables, columns, seeds) is its number in      *)
(* schema.  0 and NULL in a column that names an account both mean nobody. *)
(***************************************************************************)
EXTENDS Naturals, FiniteSets, Functions

CONSTANTS
  Programs,
  Emails,        (* what a row may say of its account; NoEmail among them  *)
  NoEmail,
  MaxOpens       (* bound on how often programs open the database          *)

VARIABLES
  version,       (* PRAGMA user_version                                    *)
  schema,        (* migrations whose changes are in the database           *)
  accts,         (* table accounts                                         *)
  rows,          (* tables that name accounts                              *)
  copies,        (* table snapshots_v2                                     *)
  upc, step,     (* what a program does: to which migration it has come    *)
  seen,          (* the version it read when it opened; 0 again after its  *)
                 (* last use                                               *)
  opened,
  (* history *)
  torn,          (* a program stopped after v25 had copied, before it said so *)
  met            (* two programs were migrating at once                    *)

data == <<version, schema, accts, rows, copies>>
schemaVars == <<data, upc, step, seen, opened, torn, met>>

Nobody == 0
LastVersion == 25
Migrations == 1..LastVersion
Copied == {"antigravity", "claude", "codex", "cursor", "copilot", "plugin"}
NamingTables == Copied \cup {"subscriptions"}

\* What a database has that is migrated to the end: v24 drops what v13 adds.
Whole == Migrations \ {13}

\* The version a database of version v was left with by a program that was
\* not disturbed, and its tables.
LeftAt(v) ==
  /\ version = v
  /\ schema = IF v < 24 THEN 1..v ELSE (1..v) \ {13}
  /\ copies = {}

Row(i, table, owner, email) ==
  [id |-> i, table |-> table, owner |-> owner, email |-> email]
Account(i, provider, email) == [id |-> i, provider |-> provider, email |-> email]

SchemaNew ==
  /\ LeftAt(0)
  /\ accts = {} /\ rows = {}

\* Before v21 a row may name an account that is gone (here: 9), or nobody.
SchemaUsed ==
  \/ /\ LeftAt(11)
     /\ \E e \in Emails \ {NoEmail} :
          /\ accts = {Account(1, "antigravity", e)}
          /\ \/ rows = {Row(1, "antigravity", 1, e)}
             \/ rows = {Row(1, "codex", Nobody, e), Row(2, "claude", Nobody, NoEmail)}
  \/ /\ \E v \in {12, 19, 20} : LeftAt(v)
     /\ \E e, f \in Emails \ {NoEmail} :
          /\ accts = {Account(1, "antigravity", e), Account(2, "codex", f)}
          /\ \E k \in Emails :
               rows = {Row(1, "antigravity", 1, e), Row(2, "codex", Nobody, k),
                       Row(3, "subscriptions", 9, e)}
  \/ /\ \E v \in {22, 24} : LeftAt(v)
     /\ \E e, f \in Emails :
          /\ \E g \in Emails \ {NoEmail} : accts = {Account(1, "cursor", g)}
          /\ rows = {Row(1, "cursor", 1, f), Row(2, "cursor", Nobody, e),
                     Row(3, "copilot", Nobody, f), Row(4, "plugin", Nobody, e)}

Names == Emails \cup {NoEmail} \cup NamingTables

SchemaTypeOK ==
  /\ version \in 0..LastVersion /\ schema \subseteq Migrations
  /\ accts \subseteq [id : Nat \ {Nobody}, provider : NamingTables, email : Names]
  /\ rows \subseteq [id : Nat, table : NamingTables, owner : Nat, email : Names]
  /\ copies \subseteq [row : Nat, run : Nat, account : Nat]
  /\ IsFiniteSet(accts) /\ IsFiniteSet(rows) /\ IsFiniteSet(copies)
  /\ upc \in [Programs -> {"off", "check", "apply", "record", "refused", "serving"}]
  /\ step \in [Programs -> 1..LastVersion + 1] /\ seen \in [Programs -> 0..LastVersion]
  /\ opened \in Nat /\ torn \in BOOLEAN /\ met \in BOOLEAN

SchemaIdle ==
  /\ upc = [p \in Programs |-> "off"]
  /\ step = [p \in Programs |-> 1]
  /\ seen = [p \in Programs |-> 0]
  /\ opened = (IF version < 24 THEN 1 ELSE 0)   \* bound: one less from far back
  /\ torn = FALSE /\ met = FALSE

SchemaInit == (SchemaNew \/ SchemaUsed) /\ SchemaIdle

-----------------------------------------------------------------------------
(* What the migrations do to rows and accounts: operators on [accts, rows] *)

Exists(i) == \E a \in accts : a.id = i
AccountFor(set, provider, email) ==
  CHOOSE a \in set : a.provider = provider /\ a.email = email

\* v25 gives rows without an email an account of their provider.
LocalName(provider, email) == IF email = NoEmail THEN provider ELSE email

\* Get or insert the accounts of a set of <<provider, email>>: new ones are
\* numbered on, in some order.
WithAccounts(keys) ==
  LET new == {k \in keys : ~\E a \in accts : a.provider = k[1] /\ a.email = k[2]}
      order == CHOOSE f \in Bijection(1..Cardinality(new), new) : TRUE
  IN  accts \cup {Account(Cardinality(accts) + n, order[n][1], order[n][2])
                   : n \in 1..Cardinality(new)}

\* v12 rebuilds accounts with a provider, antigravity for all.  The old table
\* cannot be dropped while a row names one of its accounts and has no rule for
\* its loss (ON DELETE), and two accounts of an email do not fit the new one.
HoldsAccount(r) ==
  /\ r.owner # Nobody
  /\ \/ r.table = "antigravity"
     \/ r.table = "cursor" /\ 12 \in schema /\ 21 \notin schema
     \/ r.table = "copilot" /\ 15 \in schema /\ 21 \notin schema

MayDropAccounts ==
  /\ \A r \in rows : ~HoldsAccount(r)
  /\ \A a, b \in accts : a.email = b.email => a = b

DropAccounts ==
  /\ accts' = {[a EXCEPT !.provider = "antigravity"] : a \in accts}
  /\ rows' = {IF 21 \in schema THEN [r EXCEPT !.owner = Nobody] ELSE r : r \in rows}
  /\ copies' = {}

\* v20 gives Codex rows without an owner the Codex account of their email.
OwnByEmail ==
  /\ rows' = {IF /\ r.table = "codex" /\ r.owner = Nobody /\ r.email # NoEmail
                 /\ \E a \in accts : a.provider = "codex" /\ a.email = r.email
                THEN [r EXCEPT !.owner = AccountFor(accts, "codex", r.email).id]
                ELSE r : r \in rows}
  /\ UNCHANGED <<accts, copies>>

\* v21 takes accounts that are gone from the tables that name them, and gives
\* those tables their foreign keys.
CutDangling ==
  /\ rows' = {IF r.table \in {"codex", "cursor", "copilot", "subscriptions"}
                 /\ ~Exists(r.owner)
                THEN [r EXCEPT !.owner = Nobody] ELSE r : r \in rows}
  /\ UNCHANGED <<accts, copies>>

\* v23 gives Codex and Cursor rows with an email an account, creating it.
Ownerless23 ==
  {r \in rows : r.table \in {"codex", "cursor"} /\ r.owner = Nobody /\ r.email # NoEmail}

BackfillOwners ==
  LET all == WithAccounts({<<r.table, r.email>> : r \in Ownerless23})
  IN /\ accts' = all
     /\ rows' = {IF r \in Ownerless23
                   THEN [r EXCEPT !.owner = AccountFor(all, r.table, r.email).id]
                   ELSE r : r \in rows}
     /\ UNCHANGED copies

\* v25 copies the provider tables to snapshots_v2, each row under a new id,
\* and with the account it names or one it gets by its email.
NeedsAccount(r) == r.table \in Copied /\ r.owner = Nobody

CopyOf(r, all, run) ==
  [row |-> r.id, run |-> run,
   account |-> IF r.owner # Nobody THEN r.owner
               ELSE AccountFor(all, r.table, LocalName(r.table, r.email)).id]

CopyToUnified ==
  LET needy == {r \in rows : NeedsAccount(r)}
      all == WithAccounts({<<r.table, LocalName(r.table, r.email)>> : r \in needy})
  IN /\ accts' = all
     /\ copies' = copies \cup {CopyOf(r, all, Cardinality(copies))
                               : r \in {x \in rows : x.table \in Copied}}
     /\ UNCHANGED rows

-----------------------------------------------------------------------------
(* A program opens the database                                            *)

\* Migrations that only add tables, columns and seeds, or do nothing to data that
\* is kept.  All are written to find their work done (IF NOT EXISTS, OR IGNORE,
\* columnExists).
AddsCore == 1 .. 3            \* accounts, snapshots, subscriptions, config, log
AddsTracking == 4 .. 7        \* cycles, claude_snapshots, alerts, codex_snapshots, sessions
AddsColumns == 8 .. 11
AddsProviders == 13 .. 15     \* Gemini, token_usage, cursor_ and copilot_snapshots
AddsChannels == 16 .. 19      \* settings of channels, push subscriptions, plugins
AddsPlans == {22}
Adds == UNION {AddsCore, AddsTracking, AddsColumns, AddsProviders, AddsChannels, AddsPlans}

\* The changes of migration n, committed.
Apply(n) ==
  /\ schema' = IF n = 24 THEN (schema \cup {24}) \ {13} ELSE schema \cup {n}
  /\ \/ n \in Adds \cup {24} /\ UNCHANGED <<accts, rows, copies>>
     \/ n = 12 /\ DropAccounts
     \/ n = 20 /\ OwnByEmail
     \/ n = 21 /\ CutDangling
     \/ n = 23 /\ BackfillOwners
     \/ n = 25 /\ CopyToUnified

Migrating(p) == upc[p] \in {"check", "apply", "record"}

Open(p) ==
  /\ upc[p] = "off" /\ opened < MaxOpens
  /\ opened' = opened + 1
  /\ upc' = [upc EXCEPT ![p] = "check"]
  /\ step' = [step EXCEPT ![p] = 1]
  /\ seen' = [seen EXCEPT ![p] = version]
  /\ met' = (met \/ \E q \in Programs : Migrating(q))
  /\ UNCHANGED <<data, torn>>

\* The first three migrations go by the version read when the program opened,
\* the others read it again.
Due(p) == (IF step[p] <= 3 THEN seen[p] ELSE version) < step[p]

Check(p) ==
  /\ upc[p] = "check" /\ step[p] <= LastVersion
  /\ IF Due(p)
       THEN upc' = [upc EXCEPT ![p] = "apply"] /\ UNCHANGED step
       ELSE step' = [step EXCEPT ![p] = @ + 1] /\ UNCHANGED upc
  /\ seen' = [seen EXCEPT ![p] = IF step[p] <= 3 THEN @ ELSE 0]
  /\ UNCHANGED <<data, opened, torn, met>>

Migrate(p) ==
  /\ upc[p] = "apply"
  /\ step[p] = 12 => MayDropAccounts
  /\ Apply(step[p])
  /\ upc' = [upc EXCEPT ![p] = "record"]
  /\ UNCHANGED <<version, step, seen, opened, torn, met>>

\* v12 is refused by the foreign keys; its transaction is rolled back, Open
\* returns the error and the program ends.
RefuseDrop(p) ==
  /\ upc[p] = "apply" /\ step[p] = 12 /\ ~MayDropAccounts
  /\ upc' = [upc EXCEPT ![p] = "refused"]
  /\ UNCHANGED <<data, step, seen, opened, torn, met>>

\* Mutant of Record: any migration records that all are done.
RecordLast(p) ==
  /\ upc[p] = "record"
  /\ version' = LastVersion
  /\ step' = [step EXCEPT ![p] = @ + 1]
  /\ upc' = [upc EXCEPT ![p] = "check"]
  /\ UNCHANGED <<schema, accts, rows, copies, seen, opened, torn, met>>

\* setUserVersion: written whatever the version has become meanwhile.
Record(p) ==
  /\ upc[p] = "record"
  /\ version' = step[p]
  /\ step' = [step EXCEPT ![p] = @ + 1]
  /\ upc' = [upc EXCEPT ![p] = "check"]
  /\ UNCHANGED <<schema, accts, rows, copies, seen, opened, torn, met>>

\* migrate() ends: the database is served.
Served(p) ==
  /\ upc[p] = "check" /\ step[p] > LastVersion
  /\ upc' = [upc EXCEPT ![p] = "serving"]
  /\ UNCHANGED <<data, step, seen, opened, torn, met>>

Gone(p) ==
  /\ upc' = [upc EXCEPT ![p] = "off"]
  /\ step' = [step EXCEPT ![p] = 1]
  /\ seen' = [seen EXCEPT ![p] = 0]

Close(p) ==
  /\ upc[p] \in {"serving", "refused"}
  /\ Gone(p)
  /\ UNCHANGED <<data, opened, torn, met>>

\* The program dies, or a statement of it fails and Open returns the error: what
\* is not committed is lost.
Stop(p) ==
  /\ Migrating(p)
  /\ torn' = (torn \/ (upc[p] = "record" /\ step[p] = 25))
  /\ Gone(p)
  /\ UNCHANGED <<data, opened, met>>

SchemaNext ==
  \E p \in Programs :
    \/ Open(p) \/ Check(p) \/ Migrate(p) \/ RefuseDrop(p) \/ Record(p)
    \/ Served(p) \/ Close(p) \/ Stop(p)

SchemaSpec == SchemaInit /\ [][SchemaNext]_schemaVars

-----------------------------------------------------------------------------
(* Properties                                                              *)

\* The version is never ahead of the schema, whatever programs die or migrate at
\* once (a late one can set the version back, never forward): no migration is
\* left out (store.go, migrate, setUserVersion).
VersionIsHonest == (1..version) \ {13} \subseteq schema

\* A program serves a database only when it is migrated to the end, by itself or
\* by others.
ServesWhole == \A p \in Programs : upc[p] = "serving" => Whole \subseteq schema

\* An upgrade without trouble stops at no migration but v12, which no database
\* with Antigravity snapshots gets past; the later ones always go through,
\* unless a program that opened before another has finished drops the accounts
\* under it.
StopsOnlyAtTwelve ==
  \A p \in Programs :
    upc[p] = "refused" => met \/ \E r \in rows : r.table = "antigravity"

\* What has been copied to snapshots_v2 of a row.
CopiesOf(r) == {c \in copies : c.row = r.id}

\* A row that has an account is copied to it, one that has only an email to the
\* account of its provider and email; each once, except where a program stopped
\* between the copying and its record, or two copied at once.
CopiedOnce ==
  ~met /\ 25 <= version => \A r \in rows :
    r.table \in Copied =>
      /\ CopiesOf(r) # {}
      /\ ~torn => Cardinality(CopiesOf(r)) = 1
      /\ \A c \in CopiesOf(r) : \E a \in accts :
           /\ a.id = c.account
           /\ r.owner # Nobody => a.id = r.owner
           /\ r.owner = Nobody =>
                a.provider = r.table /\ a.email = LocalName(r.table, r.email)

\* No migration loses a row, or leaves one with an account that is gone once the
\* database is served.
RowsKeepAccounts ==
  (\E p \in Programs : upc[p] = "serving") =>
    \A r \in rows : r.owner # Nobody => Exists(r.owner)

\* Whatever programs open the database, at once or again after dying: no migration
\* is skipped, only v12 can stop them, and rows are moved once, to their account
\* (store.go, migrate; migrate_v25.go).
UpgradeIsSound ==
  /\ VersionIsHonest
  /\ ServesWhole
  /\ StopsOnlyAtTwelve
  /\ CopiedOnce
  /\ RowsKeepAccounts
=============================================================================
