----------------------------- MODULE ServerProgram -----------------------------
(* Where a server's program comes from, if the provider only laid a tool    *)
(* for it: Forge's and NeoForge's installer, Spigot's BuildTools.  The      *)
(* first start runs it, and may fail at any point; the next start looks     *)
(* only whether a file has the right name (process_service.py,              *)
(* providers/server).                                                       *)
EXTENDS Naturals

CONSTANTS
  Programs,     \* of "forge", "legacy" (before 1.17), "neoforge", "spigot"
  MaxAttempts,  \* max_attempts
  MaxStarts     \* bound on starts

ASSUME ProgramAssumption ==
  Programs \subseteq {"forge", "legacy", "neoforge", "spigot"} /\ MaxAttempts \in Nat \ {0}

VARIABLES
  kind,
  disk,      \* the tool, BuildTools' product, the program, and whether run.bat is there
  stray,     \* a BuildTools whose cmd was ended but whose java goes on
  prep,      \* the start at work: its stage, the attempt and last_returncode
  launched,  \* how whole the program was that was launched last
  left,      \* history: why a part of a program passes for a whole one
  starts
programVars == <<kind, disk, stray, prep, launched, left, starts>>

Parts == {"none", "part", "whole"}
Unprepared == [stage |-> "off", attempt |-> 0, code |-> "none"]

ProgramTypeOK ==
  /\ kind \in Programs /\ stray \in BOOLEAN /\ launched \in Parts
  /\ disk \in [tool : Parts, built : Parts, program : Parts, runbat : BOOLEAN]
  /\ prep.stage \in {"off", "load", "install", "ran", "build", "copy", "launch"}
  /\ prep.attempt \in 0..MaxAttempts /\ prep.code \in {"none", "ok", "failed", "timeout"}
  /\ left \subseteq {"run.bat", "copy", "stray", "ended"}

\* What the provider's provision leaves.  BuildTools may have been taken away since.
InstallerProvided == [tool |-> "whole", built |-> "none", program |-> "none", runbat |-> FALSE]
BuildToolsProvided == {[InstallerProvided EXCEPT !.tool = t] : t \in {"none", "whole"}}

ProgramInit ==
  /\ kind \in Programs
  /\ disk \in IF kind = "spigot" THEN BuildToolsProvided ELSE {InstallerProvided}
  /\ stray = FALSE /\ prep = Unprepared /\ launched = "none" /\ left = {} /\ starts = 0

Stage(s) == prep' = [prep EXCEPT !.stage = s]
Fails == prep' = Unprepared

\* start_server comes to the program: the name of a file decides.
PreparationBegins(stage) ==
  /\ prep = Unprepared /\ starts < MaxStarts /\ starts' = starts + 1
  /\ prep' = [Unprepared EXCEPT !.attempt = 1, !.stage = stage]
  /\ UNCHANGED <<kind, disk, stray, launched, left>>
InstallerWanted ==
  kind # "spigot" /\ PreparationBegins(IF disk.runbat THEN "launch" ELSE "install")
BuildWanted ==
  /\ kind = "spigot"
  /\ PreparationBegins(IF disk.program # "none" THEN "launch"
                       ELSE IF disk.tool = "none" THEN "load" ELSE "build")
-----------------------------------------------------------------------------
(* The installer                                                           *)

\* The installer is through, or not: it may have written run.bat before all else.  After
\* its time is over the manager waits for it all the same (subprocess.run).
InstallerEnds(code) ==
  /\ prep.stage = "install"
  /\ prep' = [prep EXCEPT !.stage = "ran", !.code = code]
  /\ \E bat \in BOOLEAN :
       disk' \in [tool : {disk.tool}, built : {disk.built},
                  program : IF code = "ok" THEN {"whole"} ELSE {"part", disk.program},
                  runbat : {disk.runbat \/ (bat /\ kind # "legacy")}]
  /\ UNCHANGED <<kind, stray, launched, left, starts>>

\* The next attempt, or none.
Again(code) ==
  IF prep.attempt < MaxAttempts
  THEN prep' = [stage |-> "install", attempt |-> prep.attempt + 1, code |-> code]
  ELSE Fails
PassesForWhole(d) == d.runbat /\ d.program # "whole"

\* It could not be begun.
InstallerRaises ==
  /\ prep.stage = "install" /\ Again(prep.code)
  /\ left' = IF PassesForWhole(disk) /\ prep' = Unprepared THEN left \cup {"run.bat"} ELSE left
  /\ UNCHANGED <<kind, disk, stray, launched, starts>>

\* A bug: the code is not looked at where run.bat is there.
FileIsEnough == disk.runbat
Installed == prep.code = "ok" /\ disk.runbat

\* An old Forge writes none itself.
WithRunBat == [disk EXCEPT !.runbat = TRUE]

\* What came of it.
InstallerJudged ==
  /\ prep.stage = "ran"
  /\ IF prep.code = "ok" /\ ~disk.runbat /\ kind # "neoforge"
     THEN disk' = WithRunBat /\ UNCHANGED <<prep, left>>
     ELSE /\ IF Installed THEN Stage("launch") ELSE Again(prep.code)
          /\ left' = IF PassesForWhole(disk) /\ prep' = Unprepared THEN left \cup {"run.bat"} ELSE left
          /\ UNCHANGED disk
  /\ UNCHANGED <<kind, stray, launched, starts>>
-----------------------------------------------------------------------------
(* BuildTools                                                              *)

\* download_file writes in place: a write that fails leaves a part, and it is never loaded again.
ToolLoaded ==
  /\ prep.stage = "load"
  /\ \E tool \in Parts :
       disk' = [disk EXCEPT !.tool = tool] /\ IF tool = "whole" THEN Stage("build") ELSE Fails
  /\ UNCHANGED <<kind, stray, launched, left, starts>>

\* The code it ends with is written down and not looked at.
BuildEnds ==
  /\ prep.stage = "build" /\ Stage("copy")
  /\ \E product \in {disk.built} \cup (IF disk.tool = "whole" THEN {"whole"} ELSE {}) :
       disk' = [disk EXCEPT !.built = product]
  /\ UNCHANGED <<kind, stray, launched, left, starts>>

\* After half an hour the cmd is ended, and not what it runs.
BuildTimesOut ==
  /\ prep.stage = "build" /\ Fails
  /\ stray' = (stray \/ disk.tool = "whole")
  /\ UNCHANGED <<kind, disk, launched, left, starts>>

StrayBuilds ==
  /\ stray
  /\ \/ disk' = [disk EXCEPT !.built = "part"] /\ UNCHANGED stray
     \/ disk' = [disk EXCEPT !.built = "whole"] /\ stray' = FALSE
     \/ stray' = FALSE /\ UNCHANGED disk
  /\ UNCHANGED <<kind, prep, launched, left, starts>>

\* shutil.copyfile writes in place too.
JarCopied ==
  /\ prep.stage = "copy"
  /\ \/ /\ disk.built = "none" /\ Fails /\ UNCHANGED <<disk, left>>
     \/ /\ disk.built # "none" /\ disk' = [disk EXCEPT !.program = disk.built] /\ Stage("launch")
        /\ left' = IF disk.built = "part" THEN left \cup {"stray"} ELSE left
     \/ /\ disk.built # "none" /\ Fails
        /\ \E p \in {"none", "part"} :
             /\ disk' = [disk EXCEPT !.program = p]
             /\ left' = IF p = "part" THEN left \cup {"copy"} ELSE left
  /\ UNCHANGED <<kind, stray, launched, starts>>
-----------------------------------------------------------------------------
Launched ==
  /\ prep.stage = "launch" /\ prep' = Unprepared /\ launched' = disk.program
  /\ UNCHANGED <<kind, disk, stray, left, starts>>

\* The owner throws the program away.
ThrownAway ==
  /\ prep = Unprepared /\ (disk.program # "none" \/ disk.runbat)
  /\ disk' = [disk EXCEPT !.program = "none", !.runbat = FALSE]
  /\ left' = {} /\ launched' = "none"
  /\ UNCHANGED <<kind, stray, prep, starts>>

\* The manager ends, and what it runs.
ProgramCutOff ==
  /\ prep # Unprepared /\ prep' = Unprepared /\ stray' = FALSE
  /\ left' = left \cup {"ended"}
  /\ disk' \in IF prep.stage = "copy" /\ disk.built # "none"
               THEN {disk, [disk EXCEPT !.program = "part"]}
               ELSE IF prep.stage = "install"
               THEN {disk, [disk EXCEPT !.program = "part", !.runbat = kind # "legacy"]}
               ELSE {disk}
  /\ UNCHANGED <<kind, launched, starts>>

ProgramNext ==
  \/ InstallerWanted \/ BuildWanted \/ \E c \in {"ok", "failed", "timeout"} : InstallerEnds(c)
  \/ InstallerRaises \/ InstallerJudged
  \/ ToolLoaded \/ BuildEnds \/ BuildTimesOut \/ StrayBuilds \/ JarCopied
  \/ Launched \/ ThrownAway \/ ProgramCutOff

ProgramSpec == ProgramInit /\ [][ProgramNext]_programVars
-----------------------------------------------------------------------------
(* Properties                                                              *)

\* _prepare_loader_runtime_if_needed, _prepare_buildtools_if_needed: what is launched is a
\* whole program, except where a failed preparation left a file that passes for one.
LaunchIsWhole == launched = "part" => left # {}

=============================================================================
