----------------------------- MODULE UsageImport -----------------------------
(***************************************************************************)
(* JSON export and import (handlers_ops.go, store/import.go).  An export   *)
(* lists the accounts, the subscriptions and the recent rows of the        *)
(* snapshot tables; an import merges such a file, in one transaction, into *)
(* the database of the same or of another machine.                         *)
(*                                                                         *)
(* Whether a row is there already is asked of the text of captured_at, with *)
(* a window of half a second to either side: times are half seconds here,  *)
(* since a midnight (UTC).  A row keeps the text it came with, of one of   *)
(* three forms: RFC 3339 in UTC ("2026-01-02T10:00:07Z") as the program    *)
(* writes it, RFC 3339 of another zone, and the form of the database's     *)
(* clock ("2026-01-02 10:00:07").                                          *)
(***************************************************************************)
EXTENDS Integers, SequencesExt

CONSTANTS
  Machines, Mails,
  Kinds,         (* of snapshot tables, of KindsOfRows                     *)
  WrittenFiles,  (* files not made by this program's export                *)
  Offset,        (* how far the other zone is ahead of UTC, in half seconds *)
  MaxSecond,     (* bound on the time of captures                          *)
  MaxRows        (* bound on the rows of a database before an import       *)

\* snapshots; claude_, codex_, cursor_ or copilot_, plugin_snapshots.
KindsOfRows == {"antigravity", "claude", "codex", "cursor", "plugin"}
Owned == {"antigravity", "codex", "cursor"}
NoMail == "-"
MailOrNone == Mails \cup {NoMail}
TextForms == {"utc", "offset", "space"}

\* What a database holds, and what a file does; only the rows of Codex name an account
\* of the machine they come from.
AccountRows == [id : Nat, provider : KindsOfRows, mail : MailOrNone]
SubRows == [platform : {"platform"}, mail : MailOrNone, cost : Nat]
SnapshotRows == [id : Nat, kind : KindsOfRows, mail : MailOrNone, at : Nat, owner : Nat,
                 form : TextForms, from : Nat]
FileAccounts == [provider : KindsOfRows, mail : MailOrNone]
FileRows ==
  {e \in [kind : KindsOfRows, mail : MailOrNone, at : Nat, form : TextForms, dated : BOOLEAN,
          from : Nat] :
     e.from # 0 => e.kind = "codex"}
Files == [accounts : Seq(FileAccounts), subs : Seq(SubRows), rows : Seq(FileRows), own : BOOLEAN]

ASSUME ImportAssumption ==
  /\ Kinds \subseteq KindsOfRows /\ Machines # {} /\ MaxSecond \in Nat
  /\ Offset \in Int /\ Offset % 2 = 0
  /\ WrittenFiles \subseteq Files

VARIABLES
  base,          (* a machine's tables: accounts, subs, rows                *)
  exported,      (* the file: [accounts, subs, rows, own]                   *)
  imports,       (* how the file's imports here ended, in order             *)
  before,        (* history: the tables before the last import              *)
  place          (* the machine                                            *)

importVars == <<base, exported, imports, before, place>>

NoFile == [accounts |-> <<>>, subs |-> <<>>, rows |-> <<>>, own |-> FALSE]
EmptyBase == [accounts |-> {}, subs |-> {}, rows |-> {}]

ImportNew ==
  /\ base = [m \in Machines |-> EmptyBase]
  /\ exported = NoFile /\ imports = <<>> /\ before = EmptyBase
  /\ place = CHOOSE m \in Machines : TRUE

-----------------------------------------------------------------------------
\* Accounts are numbered in each database on its own.
NextId(d) == Cardinality(d.accounts) + 1
AccountsNamed(d, kind, mail) == {a \in d.accounts : a.provider = kind /\ a.mail = mail}
AddAccount(d, kind, mail) ==
  IF AccountsNamed(d, kind, mail) # {} THEN d
    ELSE [d EXCEPT !.accounts = @ \cup {[id |-> NextId(d), provider |-> kind, mail |-> mail]}]
IdOf(d, kind, mail) ==
  IF mail = NoMail THEN 0 ELSE (CHOOSE a \in AccountsNamed(d, kind, mail) : TRUE).id

\* A capture.  Antigravity's rows are dated by the program, the others by the
\* database (datetime('now')); plugins' rows come from older versions.
Capture(kind, mail, second) ==
  /\ imports = <<>> /\ exported = NoFile
  /\ Cardinality(base[place].rows) < MaxRows
  /\ kind \in {"antigravity", "codex", "cursor"} => mail # NoMail
  /\ LET d == IF kind \in Owned THEN AddAccount(base[place], kind, mail) ELSE base[place]
         row == [id |-> Cardinality(d.rows) + 1, kind |-> kind, mail |-> mail, at |-> 2 * second,
                 owner |-> IF kind \in Owned THEN IdOf(d, kind, mail) ELSE 0,
                 form |-> IF kind = "antigravity" THEN "utc" ELSE "space",
                 from |-> 0]
     IN  base' = [base EXCEPT ![place] = [d EXCEPT !.rows = @ \cup {row}]]
  /\ UNCHANGED <<exported, imports, before, place>>

Subscribe(platform, mail) ==
  /\ imports = <<>> /\ exported = NoFile
  /\ base' = [base EXCEPT ![place].subs = @ \cup {[platform |-> platform, mail |-> mail, cost |-> 1]}]
  /\ UNCHANGED <<exported, imports, before, place>>

\* handleExportJSON, of tables smaller than its limits: newest first.  The rows
\* of table snapshots are written under the names of the Go fields, the other
\* ones under the names the import reads; all times as RFC 3339 in UTC.
Exported(r) ==
  [kind |-> r.kind, mail |-> r.mail, at |-> r.at, form |-> "utc", dated |-> r.kind # "antigravity",
   from |-> IF r.kind = "codex" THEN r.owner ELSE 0]
Export ==
  /\ exported = NoFile /\ base[place].rows # {}
  /\ LET d == base[place]
     IN  \E accounts \in SetToSeqs({[provider |-> x.provider, mail |-> x.mail] : x \in d.accounts}),
            subs \in SetToSeqs({[platform |-> s.platform, mail |-> s.mail, cost |-> 0] : s \in d.subs}),
            rows \in SetToSeqs({Exported(r) : r \in d.rows}) :
           /\ \A i, j \in DOMAIN rows : i < j => rows[i].at >= rows[j].at
           /\ exported' = [accounts |-> accounts, subs |-> subs, rows |-> rows, own |-> TRUE]
  /\ UNCHANGED <<base, imports, before, place>>

\* A file written for the import, as the tests of the repository write them.
OtherFile ==
  /\ exported = NoFile
  /\ exported' \in WrittenFiles
  /\ UNCHANGED <<base, imports, before, place>>

\* The file is carried to another machine.
Carry(m) ==
  /\ exported # NoFile /\ imports = <<>>
  /\ m # place /\ place' = m
  /\ UNCHANGED <<base, exported, imports, before>>

-----------------------------------------------------------------------------
\* The time a row's text shows.
ShownTime(r) == IF r.form = "offset" THEN r.at + Offset ELSE r.at
DayOf(second) == second \div 86400

\* dedupWindow: whole seconds, the fraction is cut off.
WindowStart(at) == (at - 1) \div 2
WindowEnd(at) == (at + 1) \div 2

\* A whole second in UTC is the text of a bound; ".5Z", "+02:00" and "-08:00" sort
\* before the "Z" of the same second.
IsBound(r) == r.form = "utc" /\ r.at % 2 = 0

\* The texts with a space sort between those of the day before and those of their own.
OverMidnight(r, at) ==
  LET day == DayOf(r.at \div 2)
  IN  DayOf(WindowStart(at)) < day /\ day <= DayOf(WindowEnd(at))

\* Mutant of InWindow: the bounds are left out.
StrictlyInWindow(r, at) ==
  LET second == ShownTime(r) \div 2
  IN  IF r.form = "space" THEN OverMidnight(r, at)
        ELSE /\ second \in WindowStart(at) + 1 .. WindowEnd(at)
             /\ ~(second = WindowEnd(at) /\ IsBound(r))

\* captured_at BETWEEN the bounds.
InWindow(r, at) ==
  LET second == ShownTime(r) \div 2
  IN  IF r.form = "space" THEN OverMidnight(r, at)
        ELSE \/ second \in WindowStart(at) + 1 .. WindowEnd(at)
             \/ second = WindowStart(at) /\ IsBound(r)

\* The rows that make an entry a duplicate: of its account for Antigravity, of its
\* plugin (told by its mail here), of any account for the others.
Twins(rows, e, owner) ==
  {r \in rows : /\ r.kind = e.kind /\ InWindow(r, e.at)
                /\ e.kind = "antigravity" => r.owner = owner
                /\ e.kind = "plugin" => r.mail = e.mail}

\* resolveImportAccountID: a known account, or a new one.  Codex rows keep the
\* number their account had where they were exported.
Resolved(d, e) ==
  IF e.kind \in Owned /\ e.mail # NoMail /\ (e.kind = "codex" => e.from = 0)
    THEN AddAccount(d, e.kind, e.mail) ELSE d
OwnerOf(d, e) ==
  IF e.kind = "codex" /\ e.from # 0 THEN e.from
    ELSE IF e.kind \in Owned THEN IdOf(d, e.kind, e.mail) ELSE 0

Insert(d, e, owner) ==
  [d EXCEPT !.rows = @ \cup {[id |-> Cardinality(@) + 1, kind |-> e.kind, mail |-> e.mail,
                              at |-> e.at, form |-> e.form, owner |-> owner,
                              from |-> e.from]}]

\* One entry: [d, failed].  An Antigravity account is resolved before the time is
\* read, the others' once the row is known to be new.
ImportRow(acc, e) ==
  LET known == IF e.kind = "antigravity" THEN Resolved(acc.d, e) ELSE acc.d
      owner == IF e.kind = "antigravity" THEN OwnerOf(known, e) ELSE 0
      full  == Resolved(known, e)
      mine  == OwnerOf(full, e)
  IN  IF e.kind = "antigravity" /\ e.mail = NoMail THEN acc
      ELSE IF ~e.dated THEN [d |-> known, failed |-> e.kind = "antigravity" \/ acc.failed]
      ELSE IF Twins(known.rows, e, owner) # {} THEN [acc EXCEPT !.d = known]
      ELSE IF mine # 0 /\ ~\E a \in full.accounts : a.id = mine
        THEN [d |-> full, failed |-> TRUE]      \* the foreign key
      ELSE [acc EXCEPT !.d = Insert(full, e, mine)]

\* Accounts: by provider and mail; one without a mail is left out.
ImportAccount(d, a) == IF a.mail = NoMail THEN d ELSE AddAccount(d, a.provider, a.mail)

\* Subscriptions: by platform and mail.
ImportSub(d, s) ==
  IF \E t \in d.subs : t.platform = s.platform /\ t.mail = s.mail THEN d
    ELSE [d EXCEPT !.subs = @ \cup {s}]

Merged(d, f) ==
  LET withAccounts == FoldLeft(ImportAccount, d, f.accounts)
      withSubs     == FoldLeft(ImportSub, withAccounts, f.subs)
  IN  FoldLeft(ImportRow, [d |-> withSubs, failed |-> FALSE], f.rows)

\* ImportJSON: any failed row rolls everything back.
Import ==
  /\ exported # NoFile /\ Len(imports) < 2
  /\ LET m == Merged(base[place], exported)
     IN  IF m.failed
           THEN /\ imports' = Append(imports, "aborted")
                /\ UNCHANGED base
           ELSE /\ imports' = Append(imports, "merged")
                /\ base' = [base EXCEPT ![place] = m.d]
  /\ before' = base[place]
  /\ UNCHANGED <<exported, place>>

ImportNext ==
  \/ \E k \in Kinds, n \in 0 .. MaxSecond : \E x \in MailOrNone : Capture(k, x, n)
  \/ \E x \in MailOrNone : Subscribe("platform", x)
  \/ Export \/ OtherFile \/ Import
  \/ \E m \in Machines : Carry(m)

ImportSpec == ImportNew /\ [][ImportNext]_importVars

-----------------------------------------------------------------------------
\* The last import was the second of its file, into the same tables.
Twice == Len(imports) = 2

\* A file whose times are whole seconds in UTC, RFC 3339 as an export writes them, adds
\* nothing the second time (docs/TESTING.md: "confirm deduplication").
SecondAddsNothing ==
  Twice /\ (\A i \in DOMAIN exported.rows : IsBound(exported.rows[i]))
    => base[place] = before

\* A row is taken for one of a time when it is within a second of it, or when its text
\* looks so: one of another zone that shows that time, or, at midnight, one of the
\* database's form of the day that begins.
TakenFor(r, at) ==
  \/ r.at - at \in -2 .. 2
  \/ r.form = "offset" /\ ShownTime(r) - at \in -2 .. 2
  \/ r.form = "space" /\ 2 * 86400 * DayOf(r.at \div 2) - at \in 0 .. 1

\* After an import that was not aborted every entry is there, or one of the same table
\* (for Antigravity: of the same account) that is taken for it.
EntriesAreThere ==
  imports # <<>> /\ imports[Len(imports)] = "merged" =>
    \A i \in DOMAIN exported.rows :
      LET e == exported.rows[i]
      IN  (e.kind = "antigravity" => e.mail # NoMail) /\ e.dated =>
            \E r \in base[place].rows :
              /\ r.kind = e.kind /\ TakenFor(r, e.at)
              /\ e.kind = "antigravity" => r.mail = e.mail

\* A row belongs to the account of its provider and mail, unless it is a Codex
\* row that came with the number of an account of another database.
RowsHaveTheirOwner ==
  \A r \in base[place].rows :
    r.owner # 0 /\ r.from = 0 =>
      \E a \in base[place].accounts : a.id = r.owner /\ a.provider = r.kind /\ a.mail = r.mail

\* An import merges: nothing twice, nothing left out, every row to its account
\* (import.go, ImportJSON: "additive merge with deduplication").
ImportsHold == SecondAddsNothing /\ EntriesAreThere /\ RowsHaveTheirOwner

\* A file this program exported can be imported (docs/API_SPEC.md, POST
\* /api/import/json: "Imports data from a Niyantra JSON export").
OwnExportImports == exported.own => \A i \in DOMAIN imports : imports[i] = "merged"
=============================================================================
