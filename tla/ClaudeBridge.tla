----------------------------- MODULE ClaudeBridge -----------------------------
(***************************************************************************)
(* The bridge to Claude Code (claude/bridge.go).  SetupBridge puts a       *)
(* snippet in front of the status line command in settings.json, a file of *)
(* Claude Code, and DisableBridge takes it out again: both write the       *)
(* status line anew, as a command and nothing else.  The snippet leaves    *)
(* each reading of the limits in a data file, which snaps and polls read.  *)
(* The settings are read and written in separate steps, twice by           *)
(* SetupBridge, while Claude Code and the user write the same file.        *)
(***************************************************************************)
EXTENDS Naturals, FiniteSets

CONSTANTS
  BridgeCalls,     (* requests of the server in progress                   *)
  MaxSettingsEdits, (* bound on what Claude Code and the user write        *)
  MaxBridgeCalls,  (* bound on the calls that were ever begun              *)
  MaxBridgeFaults, (* bound on failing writes and on deaths of the server  *)
  MaxLines         (* bound on readings in the data file                   *)

ASSUME BridgeAssumption == MaxLines \in Nat /\ MaxSettingsEdits \in Nat

VARIABLES
  setting,     (* config row claude_bridge                                 *)
  source,      (* row claude_code of data_sources is enabled               *)
  serving,     (* "down", "booting", "serving"                             *)
  installed,   (* ~/.claude exists                                         *)
  settings,    (* settings.json                                            *)
  bridgeCall,  (* per call: its step, and the settings it has read         *)
  dataFile,    (* claude-statusline.json                                   *)
  captured,    (* readings that became snapshots                           *)
  begun, faults,
  (* history *)
  wanted,      (* the settings as their owner last wrote them              *)
  rewritten,   (* a call has written the status line since                 *)
  clobbered,   (* ... between a read and a write of a call                 *)
  meddled,     (* ... after the last setup or disable                      *)
  spoilt,      (* a setup or disable failed, was cut short, or met another *)
  lines        (* readings Claude Code has given                           *)

bridgeVars == <<setting, source, serving, installed, settings, bridgeCall, dataFile, captured,
                begun, faults, wanted, rewritten, clobbered, meddled, spoilt, lines>>

\* A reading has a number and may lack a window; it is plausible when the numbers in
\* its windows are.
NoLine == [n |-> 0, five |-> FALSE, seven |-> FALSE, plausible |-> FALSE, fresh |-> FALSE]

\* settings: snippet is "ours" in a command with the snippet as SetupBridge puts it,
\* "edited" where the user changed something around it, or "none"; own, whether the
\* user has a command; more, whether the status line holds more than a command (keys
\* of its own, or it is no object); env, the variable without which Claude Code feeds
\* no status line: "absent", "on", the user's "own" choice, or "noMap" where env is no
\* object it could be in.  written counts what the owner wrote; a file that is not
\* wellFormed cannot be parsed.
NoCopy == [snippet |-> "none", own |-> FALSE, more |-> FALSE, env |-> "absent",
           wellFormed |-> TRUE, written |-> 0]
Resting == [step |-> "idle", copy |-> NoCopy, on |-> FALSE]
Reacts(c) == bridgeCall[c].step \notin {"idle", "fresh"}
HasRead(c) == bridgeCall[c].step \in {"inject", "setenv", "remove"}

BridgeNew ==
  /\ setting = FALSE /\ source = FALSE /\ serving = "down" /\ faults = 0 /\ begun = 0
  /\ installed \in BOOLEAN
  /\ settings \in [snippet : {"none"}, own : BOOLEAN, more : BOOLEAN, env : {"absent", "noMap"},
                   wellFormed : {TRUE}, written : {0}]
  /\ ~installed => settings = NoCopy
  /\ dataFile = NoLine /\ captured = {} /\ lines = {}
  /\ rewritten = FALSE /\ clobbered = FALSE /\ meddled = FALSE /\ spoilt = FALSE

BridgeSteps == {"idle", "fresh", "enable", "setup", "inject", "env", "setenv", "disable", "remove",
                "clean", "sync"}
SettingsFile == [snippet : {"none", "ours", "edited"}, own : BOOLEAN, more : BOOLEAN,
                 env : {"absent", "on", "own", "noMap"}, wellFormed : BOOLEAN, written : Nat]
Line == [n : Nat, five : BOOLEAN, seven : BOOLEAN, plausible : BOOLEAN, fresh : BOOLEAN]

BridgeTypeOK ==
  /\ setting \in BOOLEAN /\ source \in BOOLEAN /\ installed \in BOOLEAN
  /\ serving \in {"down", "booting", "serving"}
  /\ settings \in SettingsFile /\ wanted \in SettingsFile
  /\ bridgeCall \in [BridgeCalls -> [step : BridgeSteps, copy : SettingsFile, on : BOOLEAN]]
  /\ dataFile \in Line /\ lines \subseteq Line /\ IsFiniteSet(lines)
  /\ begun \in Nat /\ faults \in Nat
  /\ rewritten \in BOOLEAN /\ clobbered \in BOOLEAN /\ meddled \in BOOLEAN /\ spoilt \in BOOLEAN

\* Claude Code feeds the status line.
IsFed(s) == s.env \in {"on", "own"}

BridgeInit ==
  /\ BridgeNew
  /\ bridgeCall = [c \in BridgeCalls |-> Resting] /\ wanted = settings

\* A call takes a step; it may have read the settings with it.
Proceeds(c, step) == bridgeCall' = [bridgeCall EXCEPT ![c].step = step, ![c].copy = NoCopy]
Copies(c, step) ==
  bridgeCall' = [bridgeCall EXCEPT ![c].step = step, ![c].copy = settings]
CallEnds(c) == bridgeCall' = [bridgeCall EXCEPT ![c] = Resting]

\* Setup or disable is over: the server goes on to serve requests, or the request to
\* the row of the data source.
BridgeReturns(c) ==
  IF serving = "booting" THEN CallEnds(c) /\ serving' = "serving"
                         ELSE Proceeds(c, "sync") /\ UNCHANGED serving

Begins(c, step, on) ==
  /\ bridgeCall[c].step = "idle" /\ begun < MaxBridgeCalls /\ begun' = begun + 1
  /\ bridgeCall' = [bridgeCall EXCEPT ![c].step = step, ![c].on = on]

bridgeFiles == <<settings, dataFile>>
claudesOwn == <<installed, wanted, rewritten, lines>>
bridgeRows == <<setting, source>>
counted == <<begun, faults, captured>>

-----------------------------------------------------------------------------
(* Setup and disable                                                       *)

\* NewServer: wherever Claude Code is installed the bridge is switched on, also when
\* it was switched off in the settings before.
BootBridge(c) ==
  /\ serving = "down" /\ meddled' = FALSE
  /\ IF installed
       THEN /\ serving' = "booting"
            /\ \/ setting' = TRUE /\ Begins(c, IF setting THEN "setup" ELSE "enable", TRUE)
                 /\ UNCHANGED <<faults, spoilt>>
               \/ /\ ~setting /\ faults < MaxBridgeFaults /\ faults' = faults + 1
                  /\ Begins(c, "setup", TRUE)
                  /\ spoilt' = TRUE /\ UNCHANGED setting
       ELSE /\ begun < MaxBridgeCalls /\ begun' = begun + 1
            /\ serving' = "serving" /\ UNCHANGED <<bridgeCall, faults, spoilt, setting>>
  /\ UNCHANGED <<bridgeFiles, claudesOwn, source, captured, clobbered>>

\* PUT /api/config commits, then reacts (onConfigChanged).
PutBridge(c, on) ==
  /\ serving = "serving"
  /\ Begins(c, IF on THEN "setup" ELSE "disable", on)
  /\ setting' = on /\ meddled' = FALSE
  /\ spoilt' = (spoilt \/ \E d \in BridgeCalls : Reacts(d))
  /\ UNCHANGED <<bridgeFiles, claudesOwn, source, serving, faults, captured, clobbered>>

\* SetSourceEnabled, before the setup at boot and after the reaction to a request.
SourceEnabled(c) ==
  /\ bridgeCall[c].step \in {"enable", "sync"}
  /\ source' = bridgeCall[c].on
  /\ IF bridgeCall[c].step = "enable" THEN Proceeds(c, "setup") ELSE CallEnds(c)
  /\ UNCHANGED <<bridgeFiles, claudesOwn, setting, serving, counted, clobbered, meddled, spoilt>>

\* Mutant of SetupReads: settings that cannot be parsed count as empty.
SetupReadsAnyway(c) ==
  /\ bridgeCall[c].step = "setup"
  /\ IF installed /\ (settings.wellFormed => settings.snippet = "none")
       THEN /\ IF settings.wellFormed THEN Copies(c, "inject") ELSE Proceeds(c, "inject")
            /\ UNCHANGED serving
       ELSE BridgeReturns(c)
  /\ spoilt' = (spoilt \/ ~settings.wellFormed)
  /\ UNCHANGED <<bridgeFiles, claudesOwn, bridgeRows, counted, clobbered, meddled>>

\* Nothing is done without Claude Code, or to a command that has the snippet.
SetupReads(c) ==
  /\ bridgeCall[c].step = "setup"
  /\ IF installed /\ settings.wellFormed /\ settings.snippet = "none"
       THEN Copies(c, "inject") /\ UNCHANGED serving ELSE BridgeReturns(c)
  /\ spoilt' = (spoilt \/ ~settings.wellFormed)
  /\ UNCHANGED <<bridgeFiles, claudesOwn, bridgeRows, counted, clobbered, meddled>>

\* What was read is written, with the change: a temporary file, then a rename.
Writes(s) == settings' = s /\ UNCHANGED dataFile

\* setStatusLineCommand, or no status line: whatever else it held is gone.
WithStatusLine(s, snippet) == [s EXCEPT !.snippet = snippet, !.more = FALSE]

SetupWrites(c) ==
  /\ bridgeCall[c].step = "inject"
  /\ Writes(WithStatusLine(bridgeCall[c].copy, "ours")) /\ rewritten' = TRUE
  /\ Proceeds(c, "env")
  /\ UNCHANGED <<installed, wanted, lines, bridgeRows, serving, counted, clobbered, meddled, spoilt>>

\* ensureStatuslineEnvVar reads the settings once more; a variable that is there is
\* the user's choice, and an env that is no object is left alone.
EnvReads(c) ==
  /\ bridgeCall[c].step = "env"
  /\ IF settings.wellFormed /\ settings.env = "absent"
       THEN Copies(c, "setenv") /\ UNCHANGED serving ELSE BridgeReturns(c)
  /\ spoilt' = (spoilt \/ ~settings.wellFormed)
  /\ UNCHANGED <<bridgeFiles, claudesOwn, bridgeRows, counted, clobbered, meddled>>

EnvWrites(c) ==
  /\ bridgeCall[c].step = "setenv"
  /\ Writes([bridgeCall[c].copy EXCEPT !.env = "on"])
  /\ BridgeReturns(c)
  /\ UNCHANGED <<claudesOwn, bridgeRows, counted, clobbered, meddled, spoilt>>

\* The snippet is taken out where it is as it was put in; the variable stays.
DisableReads(c) ==
  /\ bridgeCall[c].step = "disable"
  /\ IF settings.wellFormed /\ settings.snippet # "none"
       THEN Copies(c, "remove") ELSE Proceeds(c, "sync")
  /\ spoilt' = (spoilt \/ ~settings.wellFormed)
  /\ UNCHANGED <<bridgeFiles, claudesOwn, bridgeRows, serving, counted, clobbered, meddled>>

Without(s) == WithStatusLine(s, IF s.snippet = "ours" THEN "none" ELSE s.snippet)

DisableWrites(c) ==
  /\ bridgeCall[c].step = "remove"
  /\ Writes(Without(bridgeCall[c].copy)) /\ rewritten' = TRUE
  /\ Proceeds(c, "clean")
  /\ UNCHANGED <<installed, wanted, lines, bridgeRows, serving, counted, clobbered, meddled, spoilt>>

DisableCleans(c) ==
  /\ bridgeCall[c].step = "clean"
  /\ dataFile' = NoLine /\ Proceeds(c, "sync")
  /\ UNCHANGED <<settings, claudesOwn, bridgeRows, serving, counted, clobbered, meddled, spoilt>>

\* The settings, or the row, cannot be written: only the log says so, or nothing.
BridgeWriteFails(c) ==
  /\ faults < MaxBridgeFaults /\ faults' = faults + 1 /\ spoilt' = TRUE
  /\ \/ HasRead(c) /\ BridgeReturns(c)
     \/ bridgeCall[c].step = "enable" /\ Proceeds(c, "setup") /\ UNCHANGED serving
     \/ bridgeCall[c].step = "sync" /\ CallEnds(c) /\ UNCHANGED serving
  /\ UNCHANGED <<bridgeFiles, claudesOwn, bridgeRows, begun, captured, clobbered, meddled>>

\* The server ends, in the middle of a call or not.
ServerEnds ==
  /\ serving # "down" /\ faults < MaxBridgeFaults /\ faults' = faults + 1
  /\ serving' = "down" /\ bridgeCall' = [c \in BridgeCalls |-> Resting]
  /\ spoilt' = (spoilt \/ \E c \in BridgeCalls : Reacts(c))
  /\ UNCHANGED <<bridgeFiles, claudesOwn, bridgeRows, begun, captured, clobbered, meddled>>

-----------------------------------------------------------------------------
(* Readings                                                                *)

\* A snap, or a poll while the setting is on, finds the reading fresh (IsFresh, by the
\* modification time of the file).
SnapLooks(c) ==
  /\ serving = "serving" /\ installed
  /\ dataFile.fresh
  /\ Begins(c, "fresh", FALSE)
  /\ UNCHANGED <<bridgeFiles, claudesOwn, bridgeRows, serving, faults, captured, clobbered, meddled,
                 spoilt>>

\* The windows that are stored: one that is missing counts as unused.
Missing == 0
Stored(line) == [five |-> IF line.five THEN line.n ELSE Missing,
                 seven |-> IF line.seven THEN line.n ELSE Missing]

\* Mutant of SnapReads: a file that is gone is a reading of nothing.
SnapReadsAny(c) ==
  /\ bridgeCall[c].step = "fresh" /\ CallEnds(c)
  /\ captured' = captured \cup {Stored(dataFile)}
  /\ UNCHANGED <<bridgeFiles, claudesOwn, bridgeRows, serving, begun, faults, clobbered, meddled,
                 spoilt>>

IsValid(line) == line.plausible /\ (line.five \/ line.seven)

\* ReadData: a file that is gone is no reading, and no snapshot is made.
SnapReads(c) ==
  /\ bridgeCall[c].step = "fresh" /\ CallEnds(c)
  /\ captured' = IF IsValid(dataFile) THEN captured \cup {Stored(dataFile)} ELSE captured
  /\ UNCHANGED <<bridgeFiles, claudesOwn, bridgeRows, serving, begun, faults, clobbered, meddled,
                 spoilt>>

-----------------------------------------------------------------------------
(* Claude Code and its user                                                *)

theServer == <<bridgeRows, serving, bridgeCall, counted>>

\* A status line is shown: with the snippet in its command, and the variable set, the
\* reading replaces the one in the data file.
StatusLineRuns(five, seven, plausible) ==
  /\ settings.wellFormed /\ settings.snippet # "none" /\ IsFed(settings)
  /\ Cardinality(lines) < MaxLines
  /\ LET line == [n |-> Cardinality(lines) + 1, five |-> five, seven |-> seven,
                plausible |-> plausible, fresh |-> TRUE]
     IN  dataFile' = line /\ lines' = lines \cup {line}
  /\ UNCHANGED <<theServer, installed, settings, wanted, rewritten, clobbered, meddled, spoilt>>

\* Five minutes pass.
DataAges ==
  /\ dataFile.fresh /\ dataFile' = [dataFile EXCEPT !.fresh = FALSE]
  /\ UNCHANGED <<theServer, claudesOwn, settings, clobbered, meddled, spoilt>>

ClaudeInstalled ==
  /\ ~installed /\ installed' = TRUE /\ meddled' = TRUE
  /\ UNCHANGED <<theServer, bridgeFiles, wanted, rewritten, lines, clobbered, spoilt>>

\* The settings are written, by Claude Code or by the user: the command with the
\* snippet or without, alone or not, something around it, the variable chosen, taken
\* out or made impossible, a typing error.
Edited(s) ==
  [snippet : {s.snippet, "none"}, own : BOOLEAN, more : BOOLEAN, env : {s.env},
   wellFormed : {TRUE}, written : {0}]
    \cup {[s EXCEPT !.snippet = IF @ = "ours" THEN "edited" ELSE @], [s EXCEPT !.wellFormed = FALSE]}
    \cup {[s EXCEPT !.env = e] : e \in {"absent", "own", "noMap"}}

OwnerWrites ==
  /\ installed /\ wanted.written < MaxSettingsEdits
  /\ \E s \in Edited([settings EXCEPT !.wellFormed = TRUE]) :
       settings' = [s EXCEPT !.written = wanted.written + 1]
  /\ wanted' = settings' /\ rewritten' = FALSE
  /\ clobbered' = (clobbered \/ \E c \in BridgeCalls : HasRead(c))
  /\ spoilt' = (spoilt \/ \E c \in BridgeCalls : Reacts(c))
  /\ meddled' = TRUE
  /\ UNCHANGED <<theServer, installed, dataFile, lines>>

BridgeNext ==
  \/ \E c \in BridgeCalls :
       \/ BootBridge(c) \/ SourceEnabled(c) \/ SetupReads(c) \/ SetupWrites(c)
       \/ EnvReads(c) \/ EnvWrites(c)
       \/ \E on \in BOOLEAN : PutBridge(c, on)
       \/ DisableReads(c) \/ DisableWrites(c) \/ DisableCleans(c) \/ BridgeWriteFails(c)
       \/ SnapLooks(c) \/ SnapReads(c)
  \/ ServerEnds
  \/ \E five, seven \in BOOLEAN :
       \E plausible \in {TRUE, ~(five /\ seven)} : StatusLineRuns(five, seven, plausible)
  \/ DataAges \/ ClaudeInstalled \/ OwnerWrites

BridgeSpec == BridgeInit /\ [][BridgeNext]_bridgeVars

-----------------------------------------------------------------------------
(* Properties                                                              *)

\* What Claude Code and its user wrote into the settings stays: the command, the
\* variable or an env without room for it, all outside the status line, a file that
\* cannot be parsed; but for a write between a call's read and its write (bridge.go,
\* "don't clobber it", "respect user's explicit choice").  What the status line held
\* besides its command stays until a setup or disable writes the command, and does not
\* come back by a copy another call has kept once its owner took it out.
OwnersSettingsStay ==
  ~clobbered =>
    /\ settings.written = wanted.written /\ settings.own = wanted.own
    /\ wanted.env # "absent" => settings.env = wanted.env
    /\ settings.wellFormed = wanted.wellFormed
    /\ ~rewritten => settings.more = wanted.more
    /\ settings.more => wanted.more

\* Once the reaction to a setting is over the bridge is as set, until the settings are
\* meddled: in place, and fed, or out; unless a reaction failed, was cut short, or
\* overlapped another one (handlers_config.go, onConfigChanged; server.go).  In place
\* it is not fed where env is no object, or where the owner has left the snippet but
\* not the variable: a setup that finds the snippet looks no further.
BridgeIsAsSet ==
  serving = "serving" /\ ~spoilt /\ (\A c \in BridgeCalls : ~Reacts(c)) =>
    /\ source = setting
    /\ ~meddled /\ setting /\ installed =>
         /\ settings.snippet # "none"
         /\ \/ IsFed(settings) \/ settings.env = "noMap"
            \/ wanted.snippet # "none" /\ wanted.env = "absent"
    /\ ~meddled /\ ~setting => settings.snippet # "ours"

\* A snapshot has the windows of one plausible reading Claude Code has given,
\* although the data file is replaced and removed between looking at it and reading
\* it; what a reading did not have counts as unused (handlers_ops.go,
\* handleClaudeSnap).
CapturesAreReadings ==
  \A r \in captured : \E line \in lines : line.plausible /\ r = Stored(line)

\* The bridge leaves the settings of others alone, follows its own, and captures what
\* was read.
BridgeHolds == OwnersSettingsStay /\ BridgeIsAsSet /\ CapturesAreReadings
=============================================================================
