--------------------------- MODULE DatabaseRestore ---------------------------
(***************************************************************************)
(* `niyantra backup` and `niyantra restore` (backup_helpers.go), and the   *)
(* download of a backup (handlers_ops.go).  A database is three files: the *)
(* database, the write-ahead log with what was committed and not copied    *)
(* into it yet, and an index of the log.  Restore renames the three to a   *)
(* name with a time stamp, renames a checked copy of the backup to the     *)
(* path of the database, and deletes the old files; if a rename fails it   *)
(* renames back.  Each is a step of its own, after which it may die, and   *)
(* other programs have the database open, or open it meanwhile.            *)
(***************************************************************************)
EXTENDS Naturals

CONSTANTS
  Users,          (* programs that use the database                        *)
  MaxCaptured,    (* bound on the rows ever captured                       *)
  MaxRestores,    (* bound on restores                                     *)
  MaxDatabases,   (* bound on the databases ever made                      *)
  MaxTroubles     (* bound on failing steps and deaths                     *)

ASSUME RestoreAssumption == MaxRestores \in Nat /\ MaxDatabases \in Nat \ {0}

VARIABLES
  files,          (* by kind and stamp: 0 for the path of the database     *)
  holding,        (* per program: the databases it has open                *)
  restore,        (* the restore under way: its step, stamp, what it moved *)
  backup,         (* a backup file, or what the user takes for one         *)
  redacting,      (* programs about to redact the backup                   *)
  databases, captures, troubles,
  (* history *)
  current,        (* the database that is to be at the path                *)
  expected,       (* the rows that are to be in it                         *)
  crossed,        (* a program opened it during a restore, or one cut short *)
  unrolled,       (* a rename back failed                                  *)
  leaked          (* a redaction failed or was cut short                   *)

restoreVars == <<files, holding, restore, backup, redacting, databases, captures, troubles,
                 current, expected, crossed, unrolled, leaked>>

FileKinds == {"db", "wal", "shm"}
Stamps == 0 .. MaxRestores

\* A file belongs to a database and holds rows of it.
NotThere == [of |-> 0, rows |-> {}]
At(kind) == files[kind][0]
Is(file) == file # NotThere
EmptyFile(g) == [of |-> g, rows |-> {}]
FilesOf(kind, g) == {n \in Stamps : files[kind][n].of = g}

\* The order in which a restore moves them.
Place == [kind \in FileKinds |-> CASE kind = "db" -> 1 [] kind = "wal" -> 2 [] OTHER -> 3]
FirstOf(kinds) == CHOOSE kind \in kinds : \A k \in kinds : Place[kind] <= Place[k]
LastOf(kinds) == CHOOSE kind \in kinds : \A k \in kinds : Place[k] <= Place[kind]

AtRest == [step |-> "none", stamp |-> 0, copy |-> {}, todo |-> {}, moved |-> {}]
Moving == restore.step \in {"moving", "replacing", "rolling back"}

Used == [kind \in FileKinds |-> [n \in Stamps |-> NotThere]]

RestoreTypeOK ==
  /\ files \in [FileKinds -> [Stamps -> [of : Nat, rows : SUBSET Nat]]]
  /\ holding \in [Users -> SUBSET (1..MaxDatabases)]
  /\ restore \in [step : {"none", "moving", "replacing", "rolling back", "cleaning"}, stamp : Stamps,
                  copy : SUBSET Nat, todo : SUBSET FileKinds, moved : SUBSET FileKinds]
  /\ backup \in [rows : SUBSET Nat, valid : BOOLEAN, secret : BOOLEAN]
  /\ redacting \subseteq Users /\ databases \in 1..MaxDatabases /\ current \in 1..databases
  /\ captures \in Nat /\ troubles \in Nat /\ expected \subseteq Nat
  /\ crossed \in BOOLEAN /\ unrolled \in BOOLEAN /\ leaked \in BOOLEAN

RestoreNew ==
  /\ files \in {[Used EXCEPT !["db"][0] = [of |-> 1, rows |-> {1}]],
                [Used EXCEPT !["db"][0] = [of |-> 1, rows |-> {1}],
                             !["wal"][0] = [of |-> 1, rows |-> {2}],
                             !["shm"][0] = EmptyFile(1)]}
  /\ backup \in [rows : {{1}}, valid : BOOLEAN, secret : {FALSE}]

RestoreIdle ==
  /\ holding = [p \in Users |-> {}] /\ restore = AtRest /\ redacting = {}
  /\ databases = 1 /\ captures = 2 /\ troubles = 0
  /\ current = 1 /\ expected = At("db").rows \cup At("wal").rows
  /\ crossed = FALSE /\ unrolled = FALSE /\ leaked = FALSE

Trouble == troubles < MaxTroubles /\ troubles' = troubles + 1
ghosts == <<current, expected>>
excuses == <<crossed, unrolled, leaked>>

-----------------------------------------------------------------------------
(* Programs that use the database (SQLite)                                 *)

\* store.Open, or one more connection of a program.  Where there is no database an
\* empty one is made, and a log that is there is deleted; otherwise the log is taken
\* for the log of the database.
OpenDatabase(p) ==
  /\ At("db").of \notin holding[p]
  /\ holding[p] # {} => Is(At("db"))
  /\ LET fresh == ~Is(At("db"))
         g == IF fresh THEN databases + 1 ELSE At("db").of
         log == IF fresh \/ ~Is(At("wal")) THEN EmptyFile(g) ELSE [At("wal") EXCEPT !.of = g]
     IN  /\ fresh => databases < MaxDatabases
         /\ databases' = IF fresh THEN g ELSE databases
         /\ holding' = [holding EXCEPT ![p] = @ \cup {g}]
         /\ files' = [files EXCEPT !["wal"][0] = log, !["shm"][0] = EmptyFile(g),
                                   !["db"][0] = IF fresh THEN EmptyFile(g) ELSE @]
         /\ crossed' = (crossed \/ fresh \/ unrolled \/ Moving \/ (Is(At("wal")) /\ At("wal").of # g))
  /\ UNCHANGED <<restore, backup, redacting, captures, troubles, ghosts, unrolled, leaked>>

\* A row is committed: to the log, wherever its file has been moved.
CaptureRow(p, g) ==
  /\ g \in holding[p] /\ captures < MaxCaptured /\ captures' = captures + 1
  /\ LET logs == files["wal"]
     IN  files' = [files EXCEPT !["wal"] =
           [n \in Stamps |-> IF logs[n].of = g THEN [logs[n] EXCEPT !.rows = @ \cup {captures'}] ELSE logs[n]]]
  /\ expected' = IF g = current THEN expected \cup {captures'} ELSE expected
  /\ UNCHANGED <<holding, restore, backup, redacting, databases, troubles, current, excuses>>

\* What is in the log is copied into the database.
LogCopied(g) ==
  LET log == UNION {files["wal"][n].rows : n \in FilesOf("wal", g)}
  IN  [kind \in FileKinds |-> [n \in Stamps |->
         IF files[kind][n].of # g THEN files[kind][n]
         ELSE [of |-> g, rows |-> IF kind = "db" THEN files[kind][n].rows \cup log ELSE {}]]]

Checkpoint(p, g) ==
  /\ g \in holding[p] /\ FilesOf("db", g) # {}
  /\ \E n \in FilesOf("wal", g) : files["wal"][n].rows # {}
  /\ files' = LogCopied(g)
  /\ UNCHANGED <<holding, restore, backup, redacting, databases, captures, troubles, ghosts, excuses>>

\* A program ends.  The last one to have a database open copies the log and deletes
\* it, if the database is where it was opened.
CloseDatabase(p) ==
  /\ holding[p] # {} /\ p \notin redacting
  /\ holding' = [holding EXCEPT ![p] = {}]
  /\ LET g == At("db").of
     IN  files' = IF g \in holding[p] /\ \A q \in Users \ {p} : g \notin holding[q]
                    THEN [LogCopied(g) EXCEPT !["wal"][0] = NotThere, !["shm"][0] = NotThere]
                    ELSE files
  /\ UNCHANGED <<restore, backup, redacting, databases, captures, troubles, ghosts, excuses>>

UserDies(p) ==
  /\ holding[p] # {} /\ Trouble
  /\ holding' = [holding EXCEPT ![p] = {}]
  /\ redacting' = redacting \ {p} /\ leaked' = (leaked \/ p \in redacting)
  /\ UNCHANGED <<files, restore, backup, databases, captures, ghosts, crossed, unrolled>>

-----------------------------------------------------------------------------
(* Backup                                                                  *)

\* VACUUM INTO: one statement sees everything committed, with the secrets.
BackupCopies(p) ==
  /\ redacting = {} /\ At("db").of \in holding[p]
  /\ backup' = [rows |-> At("db").rows \cup At("wal").rows, valid |-> TRUE, secret |-> TRUE]
  /\ redacting' = redacting \cup {p}
  /\ UNCHANGED <<files, holding, restore, databases, captures, troubles, ghosts, excuses>>

\* RedactSensitiveConfigFile, in one transaction.
BackupRedacted(p) ==
  /\ p \in redacting /\ redacting' = redacting \ {p}
  /\ backup' = [backup EXCEPT !.secret = FALSE]
  /\ UNCHANGED <<files, holding, restore, databases, captures, troubles, ghosts, excuses>>

\* It fails: the download deletes the file, the command leaves it.
RedactionFails(p) ==
  /\ p \in redacting /\ redacting' = redacting \ {p} /\ Trouble
  /\ \/ backup' = [backup EXCEPT !.valid = FALSE, !.secret = FALSE] /\ UNCHANGED leaked
     \/ leaked' = TRUE /\ UNCHANGED backup
  /\ UNCHANGED <<files, holding, restore, databases, captures, ghosts, crossed, unrolled>>

-----------------------------------------------------------------------------
(* Restore                                                                 *)

aside == <<holding, backup, redacting, captures>>
Over == [AtRest EXCEPT !.stamp = restore.stamp]

\* The backup is copied beside the database, under a new stamp, and the copy is
\* opened, migrated and rebuilt: unless that fails no file has been moved yet.
RestoreBegins ==
  /\ restore.step = "none" /\ restore.stamp < MaxRestores
  /\ \/ /\ backup.valid /\ UNCHANGED troubles
        /\ restore' = [step |-> "moving", stamp |-> restore.stamp + 1, copy |-> backup.rows,
                       todo |-> FileKinds, moved |-> {}]
     \/ /\ IF backup.valid THEN Trouble ELSE UNCHANGED troubles
        /\ restore' = [Over EXCEPT !.stamp = @ + 1]
  /\ UNCHANGED <<files, aside, databases, ghosts, excuses>>

Renamed(kind, from, to) ==
  [files EXCEPT ![kind][to] = files[kind][from], ![kind][from] = NotThere]

\* moveIfExists, for the database, its log and its index.
MoveAside ==
  /\ restore.step = "moving"
  /\ LET kind == FirstOf(restore.todo)
         there == Is(At(kind))
     IN  /\ files' = IF there THEN Renamed(kind, 0, restore.stamp) ELSE files
         /\ restore' = [restore EXCEPT !.todo = @ \ {kind},
                                       !.moved = IF there THEN @ \cup {kind} ELSE @,
                                       !.step = IF restore.todo = {kind} THEN "replacing" ELSE @]
  /\ UNCHANGED <<aside, databases, troubles, ghosts, excuses>>

\* The copy becomes the database, over one that was made there meanwhile.
Replace ==
  /\ restore.step = "replacing" /\ databases < MaxDatabases
  /\ databases' = databases + 1
  /\ files' = [files EXCEPT !["db"][0] = [of |-> databases', rows |-> restore.copy]]
  /\ restore' = [restore EXCEPT !.step = "cleaning"]
  /\ current' = databases' /\ expected' = restore.copy
  /\ UNCHANGED <<aside, troubles, excuses>>

RenameFails ==
  /\ restore.step \in {"moving", "replacing"} /\ Trouble
  /\ restore' = [restore EXCEPT !.step = "rolling back"]
  /\ UNCHANGED <<files, aside, databases, ghosts, excuses>>

\* Mutant of NextBack: the files go back in the order in which they went.
NextBackFirst == FirstOf(restore.moved)

NextBack == LastOf(restore.moved)

\* rollback: what was moved is renamed back, the last first; a rename that fails is
\* passed over.
RollBack ==
  /\ restore.step = "rolling back" /\ restore.moved # {}
  /\ restore' = [restore EXCEPT !.moved = @ \ {NextBack}]
  /\ \/ files' = Renamed(NextBack, restore.stamp, 0) /\ UNCHANGED <<troubles, unrolled>>
     \/ Trouble /\ unrolled' = TRUE /\ UNCHANGED files
  /\ UNCHANGED <<aside, databases, ghosts, crossed, leaked>>

\* The old files are deleted, or stay where that fails.
RemoveOld ==
  /\ restore.step = "cleaning" /\ restore.moved # {}
  /\ restore' = [restore EXCEPT !.moved = @ \ {FirstOf(restore.moved)}]
  /\ \/ files' = [files EXCEPT ![FirstOf(restore.moved)][restore.stamp] = NotThere] /\ UNCHANGED troubles
     \/ Trouble /\ UNCHANGED files
  /\ UNCHANGED <<aside, databases, ghosts, excuses>>

RestoreEnds ==
  /\ restore.step \in {"rolling back", "cleaning"} /\ restore.moved = {}
  /\ restore' = Over
  /\ UNCHANGED <<files, aside, databases, troubles, ghosts, excuses>>

RestoreDies ==
  /\ restore.step # "none" /\ Trouble
  /\ restore' = Over
  /\ UNCHANGED <<files, aside, databases, ghosts, excuses>>

RestoreNext ==
  \/ \E p \in Users :
       \/ OpenDatabase(p) \/ CloseDatabase(p) \/ UserDies(p)
       \/ \E g \in holding[p] : CaptureRow(p, g) \/ Checkpoint(p, g)
       \/ BackupCopies(p) \/ BackupRedacted(p) \/ RedactionFails(p)
  \/ RestoreBegins \/ MoveAside \/ Replace \/ RenameFails
  \/ RollBack \/ RemoveOld \/ RestoreEnds \/ RestoreDies

RestoreInit == RestoreNew /\ RestoreIdle
RestoreSpec == RestoreInit /\ [][RestoreNext]_restoreVars

-----------------------------------------------------------------------------
(* Properties                                                              *)

RowsOnDisk == UNION {files[kind][n].rows : kind \in FileKinds, n \in Stamps}

\* Whenever there is a database at the path, and be it that the restore was refused,
\* failed or died there, it has its own log beside it, and the two have every row that
\* was captured, or those of the backup once that has replaced it: unless a program
\* opened the database during the restore, or a rename back failed (docs/TESTING.md:
\* "preserves the previous database on failure").
AtPathIsWhole ==
  ~crossed /\ ~unrolled /\ Is(At("db")) =>
    /\ At("wal").of \in {0, At("db").of}
    /\ At("db").rows \cup At("wal").rows = expected

\* Whatever fails, no row is lost before the backup has taken the place of the
\* database: it is in one of the files, under the path or a stamp, unless a program
\* opened the database before they were back.
NothingIsGone == ~crossed => expected \subseteq RowsOnDisk

\* A backup that is left has no secrets, unless its redaction failed or was cut short.
BackupsAreRedacted == redacting = {} /\ ~leaked => ~backup.secret

\* Restore replaces the database or leaves it as it is; backups keep secrets to
\* themselves (backup_helpers.go, replaceDatabaseFile; backup_redaction.go).
RestoresHold == AtPathIsWhole /\ NothingIsGone /\ BackupsAreRedacted
=============================================================================
