----------------------------- MODULE LaunchProofs -----------------------------
(* What the start of a server relies on: that its program is whole, that    *)
(* the files it reads say what somebody meant, and that its Java is new     *)
(* enough, and that its mods are those the state names.  One part for each *)
(* of the four modules.                                                    *)
EXTENDS ServerProgram, StartFiles, JavaRuntimes, ModpackInstall, FiniteSetTheorems, WellFoundedInduction, TLAPS

(***************************************************************************)
(* ServerProgram: what is launched is a whole program unless a failed      *)
(* preparation left a file that passes for one.                            *)
(***************************************************************************)

Stages == {"off", "load", "install", "ran", "build", "copy", "launch"}
Codes == {"none", "ok", "failed", "timeout"}

ProgramTypes ==
  /\ kind \in Programs /\ stray \in BOOLEAN /\ launched \in Parts
  /\ disk \in [tool : Parts, built : Parts, program : Parts, runbat : BOOLEAN]
  /\ prep \in [stage : Stages, attempt : 0..MaxAttempts, code : Codes]
  /\ left \subseteq {"run.bat", "copy", "stray", "ended"}
  /\ prep.stage = "off" => prep = Unprepared

\* Only installers install, only BuildTools builds, and it builds only what is not there.
StagesFit ==
  /\ prep.stage \in {"install", "ran"} => kind # "spigot"
  /\ prep.stage \in {"load", "build", "copy"} => kind = "spigot" /\ disk.program = "none"

\* An installer that says "ok" has written the program.
OkIsWhole == prep.stage = "ran" /\ prep.code = "ok" => disk.program = "whole"

\* What the next start finds, and what this start is about to launch.
NoDeceit ==
  left = {} =>
    /\ launched # "part"
    /\ prep.stage = "launch" => disk.program = "whole"
    /\ prep = Unprepared => IF kind = "spigot" THEN disk.program # "part"
                            ELSE disk.runbat => disk.program = "whole"

ProgramInv == ProgramTypes /\ StagesFit /\ OkIsWhole /\ NoDeceit
-----------------------------------------------------------------------------
LEMMA Attempts == MaxAttempts \in Nat \ {0}
  BY ProgramAssumption

LEMMA InitInv == ProgramInit => ProgramInv
  <1> SUFFICES ASSUME ProgramInit PROVE ProgramInv
    OBVIOUS
  <1>1. disk \in [tool : Parts, built : Parts, program : Parts, runbat : BOOLEAN]
        /\ disk.program = "none" /\ disk.runbat = FALSE
    <2>1. InstallerProvided = [tool |-> "whole", built |-> "none", program |-> "none", runbat |-> FALSE]
      BY DEF InstallerProvided
    <2>2. \E u \in {"none", "whole"} : disk = [tool |-> u, built |-> "none", program |-> "none", runbat |-> FALSE]
      BY <2>1 DEF ProgramInit, BuildToolsProvided
    <2> QED
      BY <2>1, <2>2 DEF Parts
  <1>2. prep \in [stage : Stages, attempt : 0..MaxAttempts, code : Codes] /\ prep = Unprepared /\ prep.stage = "off"
    BY Attempts DEF ProgramInit, Unprepared, Stages, Codes
  <1>3. ProgramTypes
    BY <1>1, <1>2 DEF ProgramInit, ProgramTypes, Parts
  <1> QED
    BY <1>1, <1>2, <1>3 DEF ProgramInit, ProgramInv, StagesFit, OkIsWhole, NoDeceit

\* Where an installer's attempt goes on to, and what it leaves if there is none left.
LEMMA AgainMoves ==
  ASSUME ProgramInv, NEW code \in Codes, prep.stage \in {"install", "ran"}, Again(code), kind' = kind,
         stray' = stray, launched' = launched, disk' = disk,
         left' = IF PassesForWhole(disk) /\ prep' = Unprepared THEN left \cup {"run.bat"} ELSE left
  PROVE  ProgramInv'
  <1>1. CASE prep.attempt < MaxAttempts
    <2>1. prep' = [stage |-> "install", attempt |-> prep.attempt + 1, code |-> code]
      BY <1>1 DEF Again
    <2>2. prep.attempt + 1 \in 0..MaxAttempts
      BY <1>1, Attempts DEF ProgramInv, ProgramTypes
    <2>3. ProgramTypes'
      BY <2>1, <2>2 DEF ProgramInv, ProgramTypes, Stages
    <2>4. left' = {} => left = {}
      OBVIOUS
    <2> QED
      BY <2>1, <2>3, <2>4 DEF ProgramInv, StagesFit, OkIsWhole, NoDeceit, Unprepared
  <1>2. CASE ~(prep.attempt < MaxAttempts)
    <2>1. prep' = Unprepared
      BY <1>2 DEF Again, Fails
    <2>2. left' = {} => left = {} /\ ~PassesForWhole(disk)
      BY <2>1
    <2>3. ProgramTypes'
      BY <2>1, Attempts DEF ProgramInv, ProgramTypes, Stages, Codes, Unprepared
    <2> QED
      BY <2>1, <2>2, <2>3 DEF ProgramInv, StagesFit, OkIsWhole, NoDeceit, Unprepared, PassesForWhole
  <1> QED
    BY <1>1, <1>2

LEMMA NextInv == ProgramInv /\ [ProgramNext]_programVars => ProgramInv'
  <1> SUFFICES ASSUME ProgramInv, [ProgramNext]_programVars PROVE ProgramInv'
    OBVIOUS
  <1> USE Attempts DEF Stages, Codes
  <1>1. CASE InstallerWanted
    <2> DEFINE s == IF disk.runbat THEN "launch" ELSE "install"
    <2>1. prep' = [stage |-> s, attempt |-> 1, code |-> "none"]
      BY <1>1 DEF InstallerWanted, PreparationBegins, Unprepared
    <2>2. prep' \in [stage : Stages, attempt : 0..MaxAttempts, code : Codes]
      BY <2>1
    <2> QED
      BY <1>1, <2>1, <2>2 DEF InstallerWanted, PreparationBegins, ProgramInv, ProgramTypes, StagesFit, OkIsWhole, NoDeceit, Unprepared
  <1>2. CASE BuildWanted
    <2>1. PICK s \in {"launch", "load", "build"} :
            /\ prep' = [stage |-> s, attempt |-> 1, code |-> "none"]
            /\ s = "launch" <=> disk.program # "none"
      <3>1. CASE disk.program # "none"
        BY <1>2, <3>1 DEF BuildWanted, PreparationBegins, Unprepared
      <3>2. CASE disk.program = "none" /\ disk.tool = "none"
        BY <1>2, <3>2 DEF BuildWanted, PreparationBegins, Unprepared
      <3>3. CASE disk.program = "none" /\ disk.tool # "none"
        BY <1>2, <3>3 DEF BuildWanted, PreparationBegins, Unprepared
      <3> QED
        BY <3>1, <3>2, <3>3
    <2>2. prep' \in [stage : Stages, attempt : 0..MaxAttempts, code : Codes]
      BY <2>1
    <2> QED
      BY <1>2, <2>1, <2>2
      DEF BuildWanted, PreparationBegins, ProgramInv, ProgramTypes, StagesFit, OkIsWhole, NoDeceit, Unprepared, Parts
  <1>3. ASSUME NEW c \in {"ok", "failed", "timeout"}, InstallerEnds(c) PROVE ProgramInv'
    <2>1. /\ disk' \in [tool : Parts, built : Parts, program : Parts, runbat : BOOLEAN]
          /\ c = "ok" => disk'.program = "whole"
      BY <1>3 DEF InstallerEnds, ProgramInv, ProgramTypes, Parts
    <2> QED
      BY <1>3, <2>1 DEF InstallerEnds, ProgramInv, ProgramTypes, StagesFit, OkIsWhole, NoDeceit, Unprepared
  <1>4. CASE InstallerRaises
    <2>1. prep.code \in Codes
      BY DEF ProgramInv, ProgramTypes
    <2> QED
      BY <1>4, <2>1, AgainMoves DEF InstallerRaises
  <1>5. CASE InstallerJudged
    <2>1. CASE prep.code = "ok" /\ ~disk.runbat /\ kind # "neoforge"
      BY <1>5, <2>1 DEF InstallerJudged, WithRunBat, ProgramInv, ProgramTypes, StagesFit, OkIsWhole, NoDeceit, Unprepared
    <2>2. CASE ~(prep.code = "ok" /\ ~disk.runbat /\ kind # "neoforge") /\ Installed
      BY <1>5, <2>2
      DEF InstallerJudged, Installed, Stage, ProgramInv, ProgramTypes, StagesFit, OkIsWhole, NoDeceit, Unprepared
    <2>3. CASE ~(prep.code = "ok" /\ ~disk.runbat /\ kind # "neoforge") /\ ~Installed
      <3>1. prep.code \in Codes
        BY DEF ProgramInv, ProgramTypes
      <3> QED
        BY <1>5, <2>3, <3>1, AgainMoves DEF InstallerJudged
    <2> QED
      BY <2>1, <2>2, <2>3
  <1>6. CASE ToolLoaded
    BY <1>6 DEF ToolLoaded, Stage, Fails, ProgramInv, ProgramTypes, StagesFit, OkIsWhole, NoDeceit, Unprepared, Parts
  <1>7. CASE BuildEnds
    BY <1>7 DEF BuildEnds, Stage, ProgramInv, ProgramTypes, StagesFit, OkIsWhole, NoDeceit, Unprepared, Parts
  <1>8. CASE BuildTimesOut
    BY <1>8 DEF BuildTimesOut, Fails, ProgramInv, ProgramTypes, StagesFit, OkIsWhole, NoDeceit, Unprepared
  <1>9. CASE StrayBuilds
    BY <1>9 DEF StrayBuilds, ProgramInv, ProgramTypes, StagesFit, OkIsWhole, NoDeceit, Unprepared, Parts
  <1>10. CASE JarCopied
    BY <1>10 DEF JarCopied, Stage, Fails, ProgramInv, ProgramTypes, StagesFit, OkIsWhole, NoDeceit, Unprepared, Parts
  <1>11. CASE Launched
    BY <1>11 DEF Launched, ProgramInv, ProgramTypes, StagesFit, OkIsWhole, NoDeceit, Unprepared, Parts
  <1>12. CASE ThrownAway
    BY <1>12 DEF ThrownAway, ProgramInv, ProgramTypes, StagesFit, OkIsWhole, NoDeceit, Unprepared, Parts
  <1>13. CASE ProgramCutOff
    <2>1. disk' \in [tool : Parts, built : Parts, program : Parts, runbat : BOOLEAN]
      BY <1>13 DEF ProgramCutOff, ProgramInv, ProgramTypes, Parts
    <2>2. /\ prep' = Unprepared /\ stray' = FALSE /\ left' = left \cup {"ended"}
          /\ UNCHANGED <<kind, launched>>
      BY <1>13 DEF ProgramCutOff
    <2>3. left' # {} /\ left' \subseteq {"run.bat", "copy", "stray", "ended"}
      BY <2>2 DEF ProgramInv, ProgramTypes
    <2>4. prep' \in [stage : Stages, attempt : 0..MaxAttempts, code : Codes] /\ prep'.stage = "off"
      BY <2>2 DEF Unprepared
    <2>5. ProgramTypes'
      BY <2>1, <2>2, <2>3, <2>4 DEF ProgramInv, ProgramTypes
    <2> QED
      BY <2>2, <2>3, <2>4, <2>5 DEF ProgramInv, StagesFit, OkIsWhole, NoDeceit
  <1>14. CASE UNCHANGED programVars
    BY <1>14 DEF programVars, ProgramInv, ProgramTypes, StagesFit, OkIsWhole, NoDeceit
  <1> QED
    BY <1>1, <1>2, <1>3, <1>4, <1>5, <1>6, <1>7, <1>8, <1>9, <1>10, <1>11, <1>12, <1>13, <1>14 DEF ProgramNext
-----------------------------------------------------------------------------
LEMMA InvariantOfPrograms == ProgramSpec => []ProgramInv
  BY InitInv, NextInv, PTL DEF ProgramSpec

\* The types of what a preparation keeps: the attempts never pass max_attempts, and the files
\* and the start at work stay what _prepare_loader_runtime_if_needed can be at.
THEOREM ProgramTypesHold == ProgramSpec => []ProgramTypeOK
  <1>1. ProgramInv => ProgramTypeOK
    BY DEF ProgramInv, ProgramTypes, ProgramTypeOK, Stages, Codes
  <1> QED
    BY <1>1, InvariantOfPrograms, PTL

\* A start never launches a part of a program by itself: only an installer that failed and left
\* run.bat, a copy that broke off, a BuildTools that went on after its time, or the end of the
\* manager in the middle can make the next start do so.
THEOREM WholeProgramsAreLaunched == ProgramSpec => []LaunchIsWhole
  <1>1. ProgramInv => LaunchIsWhole
    BY DEF ProgramInv, NoDeceit, LaunchIsWhole
  <1> QED
    BY <1>1, InvariantOfPrograms, PTL
-----------------------------------------------------------------------------
(***************************************************************************)
(* StartFiles: what server.properties and the forwarding files say, as far *)
(* as each start, page and capture has come.                               *)
(***************************************************************************)

\* A key with a value it may take.
Pairs ==
  ({"online"} \X {"true", "false"}) \cup ({"threshold"} \X {"256", "-1"}) \cup ({"bind"} \X {"", "loopback"})
  \cup ({"url", "sha"} \X (ServerPacks \cup {""})) \cup {OtherKey}
FileStages ==
  {"off", "ports", "leftovers", "forwarding", "tail", "pack", "edit", "remember", "prepared",
   "starting", "waiting", "ending", "restored", "restarting"}
Tasks ==
  [stage : FileStages, todo : Seq(Pairs), inside : BOOLEAN, base : Properties,
   old : [online : {"unset", "true", "false"}, threshold : {"unset", "256", "-1"}],
   pack : ServerPacks \cup {""}]

CheckOn == <<"online", "true">>
CheckOff == <<"online", "false">>
Compress == <<"threshold", "256">>
Plain == <<"threshold", "-1">>
Bound == <<"bind", "loopback">>
Unbound == <<"bind", "">>
Url(p) == <<"url", p>>
Sha(p) == <<"sha", p>>

\* What each thread has yet to write where it is.
LastKey == <<OtherKey>>
LoginThenBind == <<CheckOn, Unbound>>
OnlyBind == <<Unbound>>
LoginOff == <<CheckOff, Bound, OtherKey>>
BindLoopback == <<Bound, OtherKey>>
LoginOn == <<CheckOn, OtherKey>>
StartPlan(w) ==
  \/ w.stage \in {"off", "forwarding"} /\ w.todo = <<>>
  \/ w.stage = "ports" /\ w.todo \in {LastKey, <<>>}
  \/ w.stage = "leftovers" /\ w.todo \in {LoginThenBind, OnlyBind, <<>>}
  \/ w.stage = "tail" /\ w.todo \in {LoginOff, BindLoopback, LoginOn, LastKey, <<>>}

EditOn == <<CheckOn>>
EditOff == <<CheckOff>>
TwoKeys == <<OtherKey, OtherKey>>
PackAll(p) == <<Url(p), Sha(p), OtherKey>>
PackSha(p) == <<Sha(p), OtherKey>>
PagePlan(w) ==
  \/ w.stage = "off" /\ w.todo = <<>>
  \/ w.stage = "edit" /\ w.todo \in {EditOn, EditOff, TwoKeys, LastKey, <<>>}
  \/ w.stage = "pack" /\ w.todo \in {PackAll(w.pack), PackSha(w.pack), LastKey, <<>>}

Login(old) == IF old.online = "false" THEN CheckOff ELSE CheckOn
Threshold(old) == IF old.threshold = "-1" THEN Plain ELSE Compress
Prepare == <<CheckOff, Plain>>
PreparePlain == <<Plain>>
PutBack(old) == <<Login(old), Threshold(old)>>
PutBackLast(old) == <<Threshold(old)>>
CapturePlan(w) ==
  \/ w.stage \in {"off", "remember", "starting", "waiting", "ending", "restarting"} /\ w.todo = <<>>
  \/ w.stage = "prepared" /\ w.todo \in {Prepare, PreparePlain, <<>>}
  \/ w.stage = "restored" /\ w.todo \in {PutBack(w.old), PutBackLast(w.old), <<>>}
Plan(t, w) ==
  IF t = "start" THEN StartPlan(w) ELSE IF t = "page" THEN PagePlan(w) ELSE CapturePlan(w)

PlansInv ==
  /\ props \in Properties /\ yaml \in [forward : BOOLEAN, bungee : BOOLEAN]
  /\ backend \in BOOLEAN /\ packRow \in ServerPacks \cup {""}
  /\ doing \in [Jobs -> Tasks] /\ session \in {"none", "active", "error", "done"}
  /\ excuse \subseteq {"lost", "locked", "raised", "ended", "overtaken", "recaptured"}
  /\ meant \in [by : {"start", "page"}, off : BOOLEAN]
  /\ \A t \in Jobs : (doing[t].todo = <<>> => ~doing[t].inside) /\ Plan(t, doing[t])

\* The two keys of the pack as far as the page has come.
PackFollows ==
  LET w == doing["page"] IN
  /\ props.url = IF w.stage = "pack" /\ Len(w.todo) < 3 THEN w.pack ELSE packRow
  /\ props.sha = IF w.stage = "pack" /\ Len(w.todo) < 2 THEN w.pack ELSE packRow

\* Nobody turned the check off but who meant it, as far as a capture has come.
Half(c) == doing[c].stage = "restored" /\ Len(doing[c].todo) = 1
LoginFollows ==
  /\ \A c, d \in Captures : Capturing(c) /\ Capturing(d) => c = d
  /\ (\A c \in Captures : ~Turned(c) \/ Half(c)) => (Offline(props) <=> meant.off)
  /\ (\A c \in Captures : ~Turned(c)) => props.threshold # "-1"
  /\ \A c \in Captures : Turned(c) =>
       (doing[c].old.online = "false" <=> meant.off) /\ doing[c].old.threshold # "-1"

\* The start let nobody in by itself but through Velocity.
ByTheStart == meant.by = "start" /\ meant.off
ForwardingFollows ==
  LET w == doing["start"] IN
  /\ ByTheStart => yaml.forward
  /\ ByTheStart => props.bind = "loopback" \/ (w.stage = "tail" /\ w.todo # <<>> /\ Head(w.todo) = Bound)
  /\ w.stage = "leftovers" /\ Len(w.todo) < 2 => ~ByTheStart
  /\ w.stage = "forwarding" => ~ByTheStart
  /\ w.stage = "tail" =>
       /\ Len(w.todo) = 3 => yaml.forward /\ ~yaml.bungee
       /\ ByTheStart /\ (w.todo = <<>> \/ Head(w.todo) # CheckOn) => ~yaml.bungee

FilesInv ==
  /\ PlansInv
  /\ excuse = {} => PackFollows /\ LoginFollows /\ ForwardingFollows
  /\ OfflineIsForwarded
-----------------------------------------------------------------------------
LEMMA PairFacts ==
  /\ {CheckOn, CheckOff, Compress, Plain, Bound, Unbound, OtherKey} \subseteq Pairs
  /\ CheckOn[1] = "online" /\ CheckOn[2] = "true" /\ CheckOff[1] = "online" /\ CheckOff[2] = "false"
  /\ Compress[1] = "threshold" /\ Compress[2] = "256" /\ Plain[1] = "threshold" /\ Plain[2] = "-1"
  /\ Bound[1] = "bind" /\ Bound[2] = "loopback" /\ Unbound[1] = "bind" /\ Unbound[2] = ""
  /\ OtherKey[1] = "other"
  /\ \A p \in ServerPacks \cup {""} : /\ Url(p) \in Pairs /\ Url(p)[1] = "url" /\ Url(p)[2] = p
                                      /\ Sha(p) \in Pairs /\ Sha(p)[1] = "sha" /\ Sha(p)[2] = p
  <1>1. CheckOn \in {"online"} \X {"true", "false"} /\ CheckOff \in {"online"} \X {"true", "false"}
        /\ CheckOn[1] = "online" /\ CheckOn[2] = "true" /\ CheckOff[1] = "online" /\ CheckOff[2] = "false"
    BY DEF CheckOn, CheckOff
  <1>2. Compress \in {"threshold"} \X {"256", "-1"} /\ Plain \in {"threshold"} \X {"256", "-1"}
        /\ Compress[1] = "threshold" /\ Compress[2] = "256" /\ Plain[1] = "threshold" /\ Plain[2] = "-1"
    BY DEF Compress, Plain
  <1>3. Bound \in {"bind"} \X {"", "loopback"} /\ Unbound \in {"bind"} \X {"", "loopback"}
        /\ Bound[1] = "bind" /\ Bound[2] = "loopback" /\ Unbound[1] = "bind" /\ Unbound[2] = ""
    BY DEF Bound, Unbound
  <1>4. OtherKey[1] = "other"
    BY DEF OtherKey
  <1>5. ASSUME NEW p \in ServerPacks \cup {""}
        PROVE  /\ Url(p) \in {"url", "sha"} \X (ServerPacks \cup {""}) /\ Url(p)[1] = "url" /\ Url(p)[2] = p
               /\ Sha(p) \in {"url", "sha"} \X (ServerPacks \cup {""}) /\ Sha(p)[1] = "sha" /\ Sha(p)[2] = p
    BY DEF Url, Sha
  <1> QED
    BY <1>1, <1>2, <1>3, <1>4, <1>5, Zenon DEF Pairs

LEMMA PutFacts ==
  ASSUME NEW p \in Properties, NEW a \in Pairs
  PROVE  LET q == Put(p, a[1], a[2]) IN
         /\ q \in Properties
         /\ q.online = IF a[1] = "online" THEN a[2] ELSE p.online
         /\ q.threshold = IF a[1] = "threshold" THEN a[2] ELSE p.threshold
         /\ q.bind = IF a[1] = "bind" THEN a[2] ELSE p.bind
         /\ q.url = IF a[1] = "url" THEN a[2] ELSE p.url
         /\ q.sha = IF a[1] = "sha" THEN a[2] ELSE p.sha
  <1>1. CASE a \in {"online"} \X {"true", "false"}
    <2>1. a[1] = "online" /\ a[2] \in {"true", "false"}
      BY <1>1
    <2> QED
      BY <2>1 DEF Put, Properties
  <1>2. CASE a \in {"threshold"} \X {"256", "-1"}
    <2>1. a[1] = "threshold" /\ a[2] \in {"256", "-1"}
      BY <1>2
    <2> QED
      BY <2>1 DEF Put, Properties
  <1>3. CASE a \in {"bind"} \X {"", "loopback"}
    <2>1. a[1] = "bind" /\ a[2] \in {"", "loopback"}
      BY <1>3
    <2> QED
      BY <2>1 DEF Put, Properties
  <1>4. CASE a \in {"url", "sha"} \X (ServerPacks \cup {""})
    <2>1. a[1] \in {"url", "sha"} /\ a[2] \in ServerPacks \cup {""}
      BY <1>4
    <2> QED
      BY <2>1 DEF Put, Properties
  <1>5. CASE a = OtherKey
    <2>1. a[1] = "other"
      BY <1>5, PairFacts
    <2> QED
      BY <2>1 DEF Put, Properties
  <1> QED
    BY <1>1, <1>2, <1>3, <1>4, <1>5, Zenon DEF Pairs

Split(s, a, r) ==
  s \in Seq(Pairs) /\ s # <<>> /\ a \in Pairs /\ Head(s) = a /\ Tail(s) = r /\ r \in Seq(Pairs) /\ Len(s) = Len(r) + 1

LEMMA Splits ==
  /\ \A a \in Pairs : Split(<<a>>, a, <<>>)
  /\ \A a, b \in Pairs : Split(<<a, b>>, a, <<b>>)
  /\ \A a, b, c \in Pairs : Split(<<a, b, c>>, a, <<b, c>>)
  BY DEF Split

\* What a thread writes, and what is left then.
LEMMA StartSplits ==
  /\ Split(LastKey, OtherKey, <<>>) /\ Split(LoginThenBind, CheckOn, OnlyBind) /\ Split(OnlyBind, Unbound, <<>>)
  /\ Split(LoginOff, CheckOff, BindLoopback) /\ Split(BindLoopback, Bound, LastKey) /\ Split(LoginOn, CheckOn, LastKey)
  BY Splits, PairFacts, Zenon DEF LastKey, LoginThenBind, OnlyBind, LoginOff, BindLoopback, LoginOn

LEMMA PageSplits ==
  ASSUME NEW p \in ServerPacks \cup {""}
  PROVE  /\ Split(EditOn, CheckOn, <<>>) /\ Split(EditOff, CheckOff, <<>>)
         /\ Split(TwoKeys, OtherKey, LastKey) /\ Split(LastKey, OtherKey, <<>>)
         /\ Split(PackAll(p), Url(p), PackSha(p)) /\ Split(PackSha(p), Sha(p), LastKey)
  BY Splits, PairFacts, Zenon DEF EditOn, EditOff, TwoKeys, LastKey, PackAll, PackSha

LEMMA CaptureSplits ==
  ASSUME NEW old
  PROVE  /\ Split(Prepare, CheckOff, PreparePlain) /\ Split(PreparePlain, Plain, <<>>)
         /\ Split(PutBack(old), Login(old), PutBackLast(old)) /\ Split(PutBackLast(old), Threshold(old), <<>>)
  <1>1. Login(old) \in Pairs /\ Threshold(old) \in Pairs
    BY PairFacts DEF Login, Threshold
  <1> QED
    BY <1>1, PairFacts, Splits, Zenon DEF Prepare, PreparePlain, PutBack, PutBackLast

LEMMA NothingFacts == <<>> \in Seq(Pairs) /\ Len(<<>>) = 0
  OBVIOUS

LEMMA Three == ~(3 < 3) /\ ~(3 < 2)
  OBVIOUS

LEMMA Lengths ==
  /\ Len(LoginThenBind) = 2 /\ Len(LastKey) = 1 /\ \A p : Len(PackAll(p)) = 3 /\ \A old : Len(PutBack(old)) = 2
  <1>1. Len(LoginThenBind) = 2
    BY DEF LoginThenBind
  <1>2. Len(LastKey) = 1
    BY DEF LastKey
  <1>3. \A p : Len(PackAll(p)) = 3
    BY DEF PackAll
  <1>4. \A old : Len(PutBack(old)) = 2
    BY DEF PutBack
  <1> QED
    BY <1>1, <1>2, <1>3, <1>4

LEMMA Drawn ==
  ASSUME NEW s, NEW x, NEW y, Split(s, x, y), NEW a, NEW r, a = Head(s), r = Tail(s)
  PROVE  /\ a = x /\ r = y /\ a \in Pairs /\ Len(s) = Len(r) + 1 /\ Len(r) \in Nat /\ (r = <<>> <=> Len(r) = 0)
         /\ s # <<>> /\ Head(s) = x /\ Len(s) = Len(y) + 1
  BY DEF Split

StartWrite(w, a, r) ==
  /\ a \in Pairs /\ Len(w.todo) = Len(r) + 1 /\ Len(r) \in Nat /\ (r = <<>> <=> Len(r) = 0)
  /\ \/ w.stage = "ports" /\ a = OtherKey /\ r = <<>>
     \/ w.stage = "leftovers" /\ a = CheckOn /\ r = OnlyBind /\ Len(r) = 1
     \/ w.stage = "leftovers" /\ a = Unbound /\ r = <<>>
     \/ w.stage = "tail" /\ a = CheckOff /\ r = BindLoopback /\ Len(r) = 2 /\ Head(r) = Bound
     \/ w.stage = "tail" /\ a = Bound /\ r = LastKey /\ Len(r) = 1 /\ Head(r) = OtherKey
     \/ w.stage = "tail" /\ a = CheckOn /\ r = LastKey /\ Len(r) = 1 /\ Head(r) = OtherKey
     \/ w.stage = "tail" /\ a = OtherKey /\ r = <<>>
LEMMA StartWrites ==
  ASSUME NEW w \in Tasks, StartPlan(w), w.todo # <<>>
  PROVE  StartWrite(w, Head(w.todo), Tail(w.todo))
  <1> SUFFICES ASSUME NEW a, NEW r, a = Head(w.todo), r = Tail(w.todo) PROVE StartWrite(w, a, r)
    OBVIOUS
  <1>1. Len(LastKey) = 1 /\ Head(LastKey) = OtherKey /\ Len(OnlyBind) = 1 /\ Len(BindLoopback) = 2 /\ Head(BindLoopback) = Bound
    BY StartSplits, NothingFacts DEF Split
  <1>2. \/ w.stage = "ports" /\ w.todo = LastKey
        \/ w.stage = "leftovers" /\ w.todo = LoginThenBind
        \/ w.stage = "leftovers" /\ w.todo = OnlyBind
        \/ w.stage = "tail" /\ w.todo = LoginOff
        \/ w.stage = "tail" /\ w.todo = BindLoopback
        \/ w.stage = "tail" /\ w.todo = LoginOn
        \/ w.stage = "tail" /\ w.todo = LastKey
    BY DEF StartPlan
  <1>3. CASE w.stage = "ports" /\ w.todo = LastKey
    <2>1. Split(w.todo, OtherKey, <<>>)
      BY <1>3, StartSplits
    <2>2. /\ a = OtherKey /\ r = <<>> /\ a \in Pairs /\ Len(w.todo) = Len(r) + 1 /\ Len(r) \in Nat
          /\ (r = <<>> <=> Len(r) = 0)
      BY <2>1, Drawn
    <2> QED
      BY <1>1, <1>3, <2>2, NothingFacts DEF StartWrite
  <1>4. CASE w.stage = "leftovers" /\ w.todo = LoginThenBind
    <2>1. Split(w.todo, CheckOn, OnlyBind)
      BY <1>4, StartSplits
    <2>2. /\ a = CheckOn /\ r = OnlyBind /\ a \in Pairs /\ Len(w.todo) = Len(r) + 1 /\ Len(r) \in Nat
          /\ (r = <<>> <=> Len(r) = 0)
      BY <2>1, Drawn
    <2> QED
      BY <1>1, <1>4, <2>2 DEF StartWrite
  <1>5. CASE w.stage = "leftovers" /\ w.todo = OnlyBind
    <2>1. Split(w.todo, Unbound, <<>>)
      BY <1>5, StartSplits
    <2>2. /\ a = Unbound /\ r = <<>> /\ a \in Pairs /\ Len(w.todo) = Len(r) + 1 /\ Len(r) \in Nat
          /\ (r = <<>> <=> Len(r) = 0)
      BY <2>1, Drawn
    <2> QED
      BY <1>1, <1>5, <2>2, NothingFacts DEF StartWrite
  <1>6. CASE w.stage = "tail" /\ w.todo = LoginOff
    <2>1. Split(w.todo, CheckOff, BindLoopback)
      BY <1>6, StartSplits
    <2>2. /\ a = CheckOff /\ r = BindLoopback /\ a \in Pairs /\ Len(w.todo) = Len(r) + 1 /\ Len(r) \in Nat
          /\ (r = <<>> <=> Len(r) = 0)
      BY <2>1, Drawn
    <2> QED
      BY <1>1, <1>6, <2>2 DEF StartWrite
  <1>7. CASE w.stage = "tail" /\ w.todo = BindLoopback
    <2>1. Split(w.todo, Bound, LastKey)
      BY <1>7, StartSplits
    <2>2. /\ a = Bound /\ r = LastKey /\ a \in Pairs /\ Len(w.todo) = Len(r) + 1 /\ Len(r) \in Nat
          /\ (r = <<>> <=> Len(r) = 0)
      BY <2>1, Drawn
    <2> QED
      BY <1>1, <1>7, <2>2 DEF StartWrite
  <1>8. CASE w.stage = "tail" /\ w.todo = LoginOn
    <2>1. Split(w.todo, CheckOn, LastKey)
      BY <1>8, StartSplits
    <2>2. /\ a = CheckOn /\ r = LastKey /\ a \in Pairs /\ Len(w.todo) = Len(r) + 1 /\ Len(r) \in Nat
          /\ (r = <<>> <=> Len(r) = 0)
      BY <2>1, Drawn
    <2> QED
      BY <1>1, <1>8, <2>2 DEF StartWrite
  <1>9. CASE w.stage = "tail" /\ w.todo = LastKey
    <2>1. Split(w.todo, OtherKey, <<>>)
      BY <1>9, StartSplits
    <2>2. /\ a = OtherKey /\ r = <<>> /\ a \in Pairs /\ Len(w.todo) = Len(r) + 1 /\ Len(r) \in Nat
          /\ (r = <<>> <=> Len(r) = 0)
      BY <2>1, Drawn
    <2> QED
      BY <1>1, <1>9, <2>2, NothingFacts DEF StartWrite
  <1> QED
    BY <1>2, <1>3, <1>4, <1>5, <1>6, <1>7, <1>8, <1>9

PageWrite(w, a, r) ==
  /\ a \in Pairs /\ Len(w.todo) = Len(r) + 1 /\ Len(r) \in Nat
  /\ \/ w.stage = "edit" /\ a \in {CheckOn, CheckOff, OtherKey} /\ r \in {<<>>, LastKey}
     \/ w.stage = "pack" /\ a = Url(w.pack) /\ r = PackSha(w.pack) /\ Len(r) = 2
     \/ w.stage = "pack" /\ a = Sha(w.pack) /\ r = LastKey /\ Len(r) = 1
     \/ w.stage = "pack" /\ a = OtherKey /\ r = <<>> /\ Len(r) = 0
LEMMA PageWrites ==
  ASSUME NEW w \in Tasks, PagePlan(w), w.todo # <<>>
  PROVE  PageWrite(w, Head(w.todo), Tail(w.todo))
  <1> SUFFICES ASSUME NEW a, NEW r, a = Head(w.todo), r = Tail(w.todo) PROVE PageWrite(w, a, r)
    OBVIOUS
  <1>0. w.pack \in ServerPacks \cup {""}
    BY DEF Tasks
  <1>1. Len(LastKey) = 1 /\ Len(PackSha(w.pack)) = 2 /\ Len(<<>>) = 0
    <2>1. Split(PackSha(w.pack), Sha(w.pack), LastKey) /\ Split(LastKey, OtherKey, <<>>)
      BY <1>0, PageSplits
    <2> QED
      BY <2>1, NothingFacts DEF Split
  <1>2. \/ w.stage = "edit" /\ w.todo = EditOn
        \/ w.stage = "edit" /\ w.todo = EditOff
        \/ w.stage = "edit" /\ w.todo = TwoKeys
        \/ w.stage = "edit" /\ w.todo = LastKey
        \/ w.stage = "pack" /\ w.todo = PackAll(w.pack)
        \/ w.stage = "pack" /\ w.todo = PackSha(w.pack)
        \/ w.stage = "pack" /\ w.todo = LastKey
    BY DEF PagePlan
  <1>3. CASE w.stage = "edit" /\ w.todo = EditOn
    <2>1. Split(w.todo, CheckOn, <<>>)
      BY <1>3, <1>0, PageSplits
    <2>2. /\ a = CheckOn /\ r = <<>> /\ a \in Pairs /\ Len(w.todo) = Len(r) + 1 /\ Len(r) \in Nat
          /\ (r = <<>> <=> Len(r) = 0)
      BY <2>1, Drawn
    <2> QED
      BY <1>1, <1>3, <2>2, NothingFacts DEF PageWrite
  <1>4. CASE w.stage = "edit" /\ w.todo = EditOff
    <2>1. Split(w.todo, CheckOff, <<>>)
      BY <1>4, <1>0, PageSplits
    <2>2. /\ a = CheckOff /\ r = <<>> /\ a \in Pairs /\ Len(w.todo) = Len(r) + 1 /\ Len(r) \in Nat
          /\ (r = <<>> <=> Len(r) = 0)
      BY <2>1, Drawn
    <2> QED
      BY <1>1, <1>4, <2>2, NothingFacts DEF PageWrite
  <1>5. CASE w.stage = "edit" /\ w.todo = TwoKeys
    <2>1. Split(w.todo, OtherKey, LastKey)
      BY <1>5, <1>0, PageSplits
    <2>2. /\ a = OtherKey /\ r = LastKey /\ a \in Pairs /\ Len(w.todo) = Len(r) + 1 /\ Len(r) \in Nat
          /\ (r = <<>> <=> Len(r) = 0)
      BY <2>1, Drawn
    <2> QED
      BY <1>1, <1>5, <2>2 DEF PageWrite
  <1>6. CASE w.stage = "edit" /\ w.todo = LastKey
    <2>1. Split(w.todo, OtherKey, <<>>)
      BY <1>6, <1>0, PageSplits
    <2>2. /\ a = OtherKey /\ r = <<>> /\ a \in Pairs /\ Len(w.todo) = Len(r) + 1 /\ Len(r) \in Nat
          /\ (r = <<>> <=> Len(r) = 0)
      BY <2>1, Drawn
    <2> QED
      BY <1>1, <1>6, <2>2, NothingFacts DEF PageWrite
  <1>7. CASE w.stage = "pack" /\ w.todo = PackAll(w.pack)
    <2>1. Split(w.todo, Url(w.pack), PackSha(w.pack))
      BY <1>7, <1>0, PageSplits
    <2>2. /\ a = Url(w.pack) /\ r = PackSha(w.pack) /\ a \in Pairs /\ Len(w.todo) = Len(r) + 1 /\ Len(r) \in Nat
          /\ (r = <<>> <=> Len(r) = 0)
      BY <2>1, Drawn
    <2> QED
      BY <1>1, <1>7, <2>2 DEF PageWrite
  <1>8. CASE w.stage = "pack" /\ w.todo = PackSha(w.pack)
    <2>1. Split(w.todo, Sha(w.pack), LastKey)
      BY <1>8, <1>0, PageSplits
    <2>2. /\ a = Sha(w.pack) /\ r = LastKey /\ a \in Pairs /\ Len(w.todo) = Len(r) + 1 /\ Len(r) \in Nat
          /\ (r = <<>> <=> Len(r) = 0)
      BY <2>1, Drawn
    <2> QED
      BY <1>1, <1>8, <2>2 DEF PageWrite
  <1>9. CASE w.stage = "pack" /\ w.todo = LastKey
    <2>1. Split(w.todo, OtherKey, <<>>)
      BY <1>9, <1>0, PageSplits
    <2>2. /\ a = OtherKey /\ r = <<>> /\ a \in Pairs /\ Len(w.todo) = Len(r) + 1 /\ Len(r) \in Nat
          /\ (r = <<>> <=> Len(r) = 0)
      BY <2>1, Drawn
    <2> QED
      BY <1>1, <1>9, <2>2, NothingFacts DEF PageWrite
  <1> QED
    BY <1>2, <1>3, <1>4, <1>5, <1>6, <1>7, <1>8, <1>9

CaptureWrite(w, a, r) ==
  /\ a \in Pairs /\ Len(w.todo) = Len(r) + 1 /\ Len(r) \in Nat /\ (r = <<>> <=> Len(r) = 0)
  /\ \/ w.stage = "prepared" /\ a \in {CheckOff, Plain} /\ r \in {PreparePlain, <<>>}
     \/ w.stage = "restored" /\ a = Login(w.old) /\ r = PutBackLast(w.old) /\ Len(r) = 1
     \/ w.stage = "restored" /\ a = Threshold(w.old) /\ r = <<>> /\ Len(r) = 0
LEMMA CaptureWrites ==
  ASSUME NEW w \in Tasks, CapturePlan(w), w.todo # <<>>
  PROVE  CaptureWrite(w, Head(w.todo), Tail(w.todo))
  <1> SUFFICES ASSUME NEW a, NEW r, a = Head(w.todo), r = Tail(w.todo) PROVE CaptureWrite(w, a, r)
    OBVIOUS
  <1>1. Len(PutBackLast(w.old)) = 1 /\ Len(<<>>) = 0
    BY CaptureSplits, NothingFacts DEF Split
  <1>2. \/ w.stage = "prepared" /\ w.todo = Prepare
        \/ w.stage = "prepared" /\ w.todo = PreparePlain
        \/ w.stage = "restored" /\ w.todo = PutBack(w.old)
        \/ w.stage = "restored" /\ w.todo = PutBackLast(w.old)
    BY DEF CapturePlan
  <1>3. CASE w.stage = "prepared" /\ w.todo = Prepare
    <2>1. Split(w.todo, CheckOff, PreparePlain)
      BY <1>3, CaptureSplits
    <2>2. /\ a = CheckOff /\ r = PreparePlain /\ a \in Pairs /\ Len(w.todo) = Len(r) + 1 /\ Len(r) \in Nat
          /\ (r = <<>> <=> Len(r) = 0)
      BY <2>1, Drawn
    <2> QED
      BY <1>1, <1>3, <2>2 DEF CaptureWrite
  <1>4. CASE w.stage = "prepared" /\ w.todo = PreparePlain
    <2>1. Split(w.todo, Plain, <<>>)
      BY <1>4, CaptureSplits
    <2>2. /\ a = Plain /\ r = <<>> /\ a \in Pairs /\ Len(w.todo) = Len(r) + 1 /\ Len(r) \in Nat
          /\ (r = <<>> <=> Len(r) = 0)
      BY <2>1, Drawn
    <2> QED
      BY <1>1, <1>4, <2>2, NothingFacts DEF CaptureWrite
  <1>5. CASE w.stage = "restored" /\ w.todo = PutBack(w.old)
    <2>1. Split(w.todo, Login(w.old), PutBackLast(w.old))
      BY <1>5, CaptureSplits
    <2>2. /\ a = Login(w.old) /\ r = PutBackLast(w.old) /\ a \in Pairs /\ Len(w.todo) = Len(r) + 1 /\ Len(r) \in Nat
          /\ (r = <<>> <=> Len(r) = 0)
      BY <2>1, Drawn
    <2> QED
      BY <1>1, <1>5, <2>2 DEF CaptureWrite
  <1>6. CASE w.stage = "restored" /\ w.todo = PutBackLast(w.old)
    <2>1. Split(w.todo, Threshold(w.old), <<>>)
      BY <1>6, CaptureSplits
    <2>2. /\ a = Threshold(w.old) /\ r = <<>> /\ a \in Pairs /\ Len(w.todo) = Len(r) + 1 /\ Len(r) \in Nat
          /\ (r = <<>> <=> Len(r) = 0)
      BY <2>1, Drawn
    <2> QED
      BY <1>1, <1>6, <2>2, NothingFacts DEF CaptureWrite
  <1> QED
    BY <1>2, <1>3, <1>4, <1>5, <1>6
-----------------------------------------------------------------------------
(* The plans                                                               *)

LEMMA TaskMoves ==
  ASSUME PlansInv, NEW t \in Jobs, NEW w \in Tasks, Does(t, w)
  PROVE  /\ doing' \in [Jobs -> Tasks] /\ doing'[t] = w
         /\ \A u \in Jobs : u # t => doing'[u] = doing[u]
  BY DEF PlansInv, Does

LEMMA NoTaskFacts ==
  /\ NoTask \in Tasks /\ NoTask.stage = "off" /\ NoTask.todo = <<>> /\ ~NoTask.inside
  /\ \A t \in Jobs : Plan(t, NoTask)
  <1>1. <<>> \in Seq(Pairs) /\ NoTask.base \in Properties
    BY DEF NoTask, Properties
  <1>2. NoTask \in Tasks /\ NoTask.stage = "off" /\ NoTask.todo = <<>> /\ ~NoTask.inside
    BY <1>1 DEF NoTask, Tasks, FileStages
  <1> QED
    BY <1>2 DEF Plan, StartPlan, PagePlan, CapturePlan

LEMMA JobFacts ==
  /\ "start" \in Jobs /\ "page" \in Jobs /\ Captures \subseteq Jobs
  /\ "start" \notin Captures /\ "page" \notin Captures
  BY StartAssumption DEF Jobs

\* A step that gives one thread another task.
LEMMA PlanMoves ==
  ASSUME PlansInv, NEW t \in Jobs, NEW w \in Tasks, Does(t, w), Plan(t, w), w.todo = <<>> => ~w.inside,
         UNCHANGED props, yaml' \in [forward : BOOLEAN, bungee : BOOLEAN],
         backend' \in BOOLEAN, packRow' \in ServerPacks \cup {""},
         session' \in {"none", "active", "error", "done"},
         excuse' \subseteq {"lost", "locked", "raised", "ended", "overtaken", "recaptured"},
         UNCHANGED meant
  PROVE  PlansInv'
  <1>1. \A u \in Jobs : (doing'[u].todo = <<>> => ~doing'[u].inside) /\ Plan(u, doing'[u])
    <2> TAKE u \in Jobs
    <2>1. CASE u = t
      BY <2>1, TaskMoves
    <2>2. CASE u # t
      <3>1. doing'[u] = doing[u]
        BY <2>2, TaskMoves
      <3> QED
        BY <3>1 DEF PlansInv
    <2> QED
      BY <2>1, <2>2
  <1> QED
    BY <1>1, TaskMoves DEF PlansInv, Plan, StartPlan, PagePlan, CapturePlan

\* What a thread writes is in its plan, and what is left is as well.
LEMMA WritesFacts ==
  ASSUME PlansInv, NEW t \in Jobs, doing[t].todo # <<>>
  PROVE  LET w == [doing[t] EXCEPT !.todo = Tail(@), !.inside = FALSE, !.base = NoTask.base] IN
         /\ w \in Tasks /\ Plan(t, w) /\ ~w.inside
         /\ w.stage = doing[t].stage /\ w.old = doing[t].old /\ w.pack = doing[t].pack
         /\ w.todo = Tail(doing[t].todo) /\ Head(doing[t].todo) \in Pairs
  <1> DEFINE w0 == doing[t]
             w == [w0 EXCEPT !.todo = Tail(@), !.inside = FALSE, !.base = NoTask.base]
  <1>1. w0 \in Tasks /\ Plan(t, w0) /\ w0.todo \in Seq(Pairs) /\ w0.todo # <<>>
    BY DEF PlansInv, Tasks
  <1>2. NoTask.base \in Properties
    BY NoTaskFacts DEF Tasks
  <1>3. Tail(w0.todo) \in Seq(Pairs) /\ Head(w0.todo) \in Pairs
    BY <1>1
  <1>4. w \in Tasks /\ w.stage = w0.stage /\ w.old = w0.old /\ w.pack = w0.pack /\ w.todo = Tail(w0.todo) /\ ~w.inside
    BY <1>1, <1>2, <1>3 DEF Tasks
  <1> HIDE DEF w
  <1>5. CASE t = "start"
    <2> DEFINE r == Tail(w0.todo)
    <2>1.
               \/ w0.stage = "ports" /\ r = <<>>
               \/ w0.stage = "leftovers" /\ r \in {OnlyBind, <<>>}
               \/ w0.stage = "tail" /\ r \in {BindLoopback, LastKey, <<>>}
      BY <1>1, <1>5, StartWrites DEF Plan, StartWrite
    <2> QED
      BY <1>3, <1>4, <1>5, <2>1 DEF Plan, StartPlan, w
  <1>6. CASE t = "page"
    <2> DEFINE r == Tail(w0.todo)
    <2>1.
               \/ w0.stage = "edit" /\ r \in {<<>>, LastKey}
               \/ w0.stage = "pack" /\ r \in {PackSha(w0.pack), LastKey, <<>>}
      BY <1>1, <1>6, PageWrites DEF Plan, PageWrite
    <2> QED
      BY <1>3, <1>4, <1>6, <2>1 DEF Plan, PagePlan, w
  <1>7. CASE t \notin {"start", "page"}
    <2> DEFINE r == Tail(w0.todo)
    <2>1.
               \/ w0.stage = "prepared" /\ r \in {PreparePlain, <<>>}
               \/ w0.stage = "restored" /\ r \in {PutBackLast(w0.old), <<>>}
      BY <1>1, <1>7, CaptureWrites DEF Plan, CaptureWrite
    <2> QED
      BY <1>3, <1>4, <1>7, <2>1 DEF Plan, CapturePlan, w
  <1> QED
    BY <1>5, <1>6, <1>7
-----------------------------------------------------------------------------
(* The invariant                                                           *)

LEMMA FilesInit == StartInit => FilesInv
  <1> SUFFICES ASSUME StartInit PROVE FilesInv
    OBVIOUS
  <1>1. doing \in [Jobs -> Tasks] /\ \A t \in Jobs : doing[t] = NoTask
    BY NoTaskFacts DEF StartInit
  <1>2. \A t \in Jobs : (doing[t].todo = <<>> => ~doing[t].inside) /\ Plan(t, doing[t])
    BY <1>1, NoTaskFacts
  <1>3. PlansInv
    BY <1>1, <1>2 DEF StartInit, PlansInv, Offline
  <1>4. \A c \in Captures : ~Capturing(c) /\ ~Turned(c) /\ ~Half(c)
    BY <1>1, JobFacts, NoTaskFacts DEF Capturing, Turned, Half
  <1>5. doing["page"].stage = "off" /\ doing["start"].stage = "off"
    BY <1>1, JobFacts, NoTaskFacts
  <1>6. PackFollows
    BY <1>5 DEF StartInit, PackFollows
  <1>7. LoginFollows
    BY <1>4 DEF StartInit, LoginFollows
  <1>8. ForwardingFollows
    BY <1>5 DEF StartInit, ForwardingFollows, ByTheStart
  <1>9. OfflineIsForwarded
    BY DEF StartInit, OfflineIsForwarded, NoGame
  <1> QED
    BY <1>3, <1>6, <1>7, <1>8, <1>9 DEF FilesInv

\* What each part looks at.
LEMMA PackFrame ==
  ASSUME PackFollows, UNCHANGED <<props.url, props.sha, packRow>>,
         doing'["page"].stage = doing["page"].stage, doing'["page"].todo = doing["page"].todo,
         doing'["page"].pack = doing["page"].pack
  PROVE  PackFollows'
  BY DEF PackFollows

LEMMA LoginFrame ==
  ASSUME LoginFollows, UNCHANGED <<props.online, props.threshold, meant.off>>,
         \A c \in Captures : /\ doing'[c].stage = doing[c].stage /\ doing'[c].todo = doing[c].todo
                             /\ doing'[c].old = doing[c].old
  PROVE  LoginFollows'
  BY DEF LoginFollows, Capturing, Turned, Half, Offline

LEMMA ForwardingFrame ==
  ASSUME ForwardingFollows, UNCHANGED <<props.bind, yaml, meant>>,
         doing'["start"].stage = doing["start"].stage, doing'["start"].todo = doing["start"].todo
  PROVE  ForwardingFollows'
  BY DEF ForwardingFollows, ByTheStart

LEMMA GameFrame ==
  ASSUME OfflineIsForwarded, game' = game \/ game' = NoGame, excuse \subseteq excuse'
  PROVE  OfflineIsForwarded'
  <1>1. ~NoGame.on
    BY DEF NoGame
  <1> QED
    BY <1>1 DEF OfflineIsForwarded

LEMMA ReadPropsInv ==
  ASSUME FilesInv, NEW t \in Jobs, ReadProps(t)
  PROVE  FilesInv'
  <1> DEFINE w == [doing[t] EXCEPT !.inside = TRUE, !.base = props]
  <1>1. Does(t, w) /\ UNCHANGED <<props, yaml, backend, packRow, game, session, meant, excuse, wishes>> /\ PlansInv
        /\ doing[t].todo # <<>>
    BY DEF ReadProps, FilesInv
  <1>2. /\ w \in Tasks /\ w.stage = doing[t].stage /\ w.todo = doing[t].todo
        /\ w.old = doing[t].old /\ w.pack = doing[t].pack
    BY <1>1 DEF PlansInv, Tasks
  <1> HIDE DEF w
  <1>3. Plan(t, w)
    <2>1. Plan(t, doing[t])
      BY <1>1 DEF PlansInv
    <2> QED
      BY <1>2, <2>1 DEF Plan, StartPlan, PagePlan, CapturePlan
  <1>4. PlansInv'
    BY <1>1, <1>2, <1>3, PlanMoves DEF PlansInv
  <1>5. \A u \in Jobs : /\ doing'[u].stage = doing[u].stage /\ doing'[u].todo = doing[u].todo
                       /\ doing'[u].old = doing[u].old /\ doing'[u].pack = doing[u].pack
    BY <1>1, <1>2, TaskMoves
  <1> QED
    BY <1>1, <1>4, <1>5, JobFacts, PackFrame, LoginFrame, ForwardingFrame, GameFrame DEF FilesInv

LEMMA WritePropsInv ==
  ASSUME FilesInv, NEW t \in Jobs, WriteProps(t)
  PROVE  FilesInv'
  <1> DEFINE w0 == doing[t]
             w == [doing[t] EXCEPT !.todo = Tail(@), !.inside = FALSE, !.base = NoTask.base]
             a == Head(doing[t].todo)
             r == Tail(doing[t].todo)
  <1>1. PlansInv /\ Does(t, w) /\ w0.todo # <<>> /\ UNCHANGED <<yaml, backend, packRow, game, session, wishes>>
    BY DEF WriteProps, FilesInv, PlansInv
  <1>2. /\ w \in Tasks /\ Plan(t, w) /\ ~w.inside
        /\ w.stage = w0.stage /\ w.old = w0.old /\ w.pack = w0.pack
        /\ w.todo = r /\ a \in Pairs
    BY <1>1, WritesFacts
  <1>3. /\ props' = Put(w0.base, a[1], a[2])
        /\ meant' = (IF a[1] = "online" /\ t \notin Captures THEN [by |-> t, off |-> a[2] = "false"] ELSE meant)
        /\ excuse' = excuse \cup (IF w0.base # props THEN {"lost"} ELSE {})
             \cup (IF meant'.off # meant.off /\ \E c \in Captures : Capturing(c) THEN {"overtaken"} ELSE {})
    BY DEF WriteProps
  <1> HIDE DEF w, a, r
  <1>4. w0 \in Tasks /\ Plan(t, w0) /\ w0.base \in Properties
    BY <1>1 DEF PlansInv, Tasks
  <1>5. excuse' = {} => excuse = {} /\ props' = Put(props, a[1], a[2])
                        /\ (meant'.off = meant.off \/ \A c \in Captures : ~Capturing(c))
    BY <1>3
  <1>6. /\ doing' \in [Jobs -> Tasks] /\ doing'[t] = w
        /\ \A u \in Jobs : u # t => doing'[u] = doing[u]
    BY <1>1, <1>2, TaskMoves
  <1>7. PlansInv'
    <2>1. props' \in Properties
      BY <1>2, <1>3, <1>4, PutFacts
    <2>2. meant' \in [by : {"start", "page"}, off : BOOLEAN]
      BY <1>1, <1>3 DEF PlansInv, Jobs
    <2>3. excuse' \subseteq {"lost", "locked", "raised", "ended", "overtaken", "recaptured"}
      BY <1>1, <1>3 DEF PlansInv
    <2>4. \A u \in Jobs : (doing'[u].todo = <<>> => ~doing'[u].inside) /\ Plan(u, doing'[u])
      <3> TAKE u \in Jobs
      <3>1. CASE u = t
        BY <1>2, <1>6, <3>1
      <3>2. CASE u # t
        <4>1. doing'[u] = doing[u]
          BY <1>6, <3>2
        <4> QED
          BY <1>1, <4>1 DEF PlansInv
      <3> QED
        BY <3>1, <3>2
    <2> QED
      BY <1>1, <1>6, <2>1, <2>2, <2>3, <2>4 DEF PlansInv, Plan, StartPlan, PagePlan, CapturePlan
  <1>8. OfflineIsForwarded'
    BY <1>1, <1>3, GameFrame DEF FilesInv
  <1>9. ASSUME excuse' = {} PROVE PackFollows' /\ LoginFollows' /\ ForwardingFollows'
    <2>1. PackFollows /\ LoginFollows /\ ForwardingFollows /\ props \in Properties
      BY <1>5, <1>9 DEF FilesInv, PlansInv
    <2>2. /\ props'.online = (IF a[1] = "online" THEN a[2] ELSE props.online)
          /\ props'.threshold = (IF a[1] = "threshold" THEN a[2] ELSE props.threshold)
          /\ props'.bind = (IF a[1] = "bind" THEN a[2] ELSE props.bind)
          /\ props'.url = (IF a[1] = "url" THEN a[2] ELSE props.url)
          /\ props'.sha = (IF a[1] = "sha" THEN a[2] ELSE props.sha)
      BY <1>2, <1>5, <1>9, <2>1, PutFacts
    <2>3. a = Head(w0.todo) /\ r = Tail(w0.todo)
      BY DEF a, r
    <2>4. CASE t = "start"
      <3> StartPlan(w0)
        BY <1>4, <2>4 DEF Plan
      <3>1. /\ Len(w0.todo) = Len(r) + 1 /\ Len(r) \in Nat /\ (r = <<>> <=> Len(r) = 0)
            /\ \/ w0.stage = "ports" /\ a = OtherKey /\ r = <<>>
               \/ w0.stage = "leftovers" /\ a = CheckOn /\ Len(r) = 1
               \/ w0.stage = "leftovers" /\ a = Unbound /\ r = <<>>
               \/ w0.stage = "tail" /\ a = CheckOff /\ r = BindLoopback /\ Len(r) = 2 /\ Head(r) = Bound
               \/ w0.stage = "tail" /\ a = Bound /\ r = LastKey /\ Len(r) = 1 /\ Head(r) = OtherKey
               \/ w0.stage = "tail" /\ a = CheckOn /\ r = LastKey /\ Len(r) = 1 /\ Head(r) = OtherKey
               \/ w0.stage = "tail" /\ a = OtherKey /\ r = <<>>
        <4>1. StartWrite(w0, a, r)
          BY <1>1, <1>4, <2>3, StartWrites
        <4> QED
          BY <4>1 DEF StartWrite
      <3>2. a[1] \notin {"threshold", "url", "sha"} /\ "start" \notin Captures /\ doing["start"] = w0 /\ doing'["start"] = w
        BY <1>6, <2>4, <3>1, PairFacts, JobFacts
      <3>3. PackFollows'
        BY <1>1, <1>6, <2>1, <2>2, <2>4, <3>2, PackFrame, JobFacts
      <3>4. LoginFollows'
        <4>1. \A c \in Captures : doing'[c] = doing[c]
          BY <1>6, <2>4, <3>2, JobFacts
        <4>2. (\A c \in Captures : ~Capturing(c)) => \A c \in Captures : ~Turned(c)
          BY DEF Turned, Capturing
        <4>3. Offline(props') <=> IF a[1] = "online" THEN meant'.off ELSE Offline(props)
          BY <1>3, <2>2, <2>4, <3>2 DEF Offline
        <4>4. \A c \in Captures : Turned(c) => Capturing(c)
          BY DEF Turned, Capturing
        <4> QED
          BY <1>3, <1>5, <1>9, <2>1, <2>2, <3>2, <4>1, <4>3, <4>4 DEF LoginFollows, Capturing, Turned, Half
      <3>5. ForwardingFollows'
        <4>1. /\ doing'["start"].stage = w0.stage /\ doing'["start"].todo = r /\ yaml' = yaml
              /\ doing["start"].stage = w0.stage /\ doing["start"].todo = w0.todo /\ Head(w0.todo) = a
              /\ w0.todo # <<>> /\ Len(w0.todo) = Len(r) + 1 /\ Len(r) \in Nat /\ (r = <<>> <=> Len(r) = 0)
              /\ Len(doing["start"].todo) = Len(r) + 1 /\ Len(doing'["start"].todo) = Len(r)
          BY <1>1, <1>2, <2>3, <3>1, <3>2
        <4>2. /\ meant' = IF a[1] = "online" THEN [by |-> "start", off |-> a[2] = "false"] ELSE meant
              /\ props'.bind = IF a[1] = "bind" THEN a[2] ELSE props.bind
          BY <1>3, <2>2, <2>4, <3>2
        <4>3. CheckOn # CheckOff /\ CheckOn # Bound /\ CheckOn # Unbound /\ CheckOn # OtherKey /\ Bound # OtherKey
          BY PairFacts
        <4>4. ForwardingFollows
          BY <2>1
        <4>5. CASE w0.stage = "ports" /\ a = OtherKey /\ r = <<>>
          <5>1. a[1] = "other"
            BY <4>5, PairFacts
          <5>2. meant' = meant /\ props'.bind = props.bind
            BY <4>2, <5>1
          <5> QED
            BY <4>1, <4>3, <4>4, <4>5, <5>2 DEF ForwardingFollows, ByTheStart
        <4>6. CASE w0.stage = "leftovers" /\ a = CheckOn /\ Len(r) = 1
          <5>1. a[1] = "online" /\ a[2] = "true"
            BY <4>6, PairFacts
          <5>2. ~meant'.off /\ props'.bind = props.bind
            BY <4>2, <5>1
          <5> QED
            BY <4>1, <4>3, <4>4, <4>6, <5>2 DEF ForwardingFollows, ByTheStart
        <4>7. CASE w0.stage = "leftovers" /\ a = Unbound /\ r = <<>>
          <5>1. a[1] = "bind" /\ a[2] = ""
            BY <4>7, PairFacts
          <5>2. meant' = meant /\ props'.bind = ""
            BY <4>2, <5>1
          <5> QED
            <6>1. doing["start"].stage = "leftovers" /\ Len(doing["start"].todo) < 2
              BY <4>1, <4>7
            <6>2. ~ByTheStart
              BY <4>4, <6>1 DEF ForwardingFollows
            <6> QED
              BY <4>1, <5>2, <6>1, <6>2 DEF ForwardingFollows, ByTheStart
        <4>8. CASE w0.stage = "tail" /\ a = CheckOff /\ r = BindLoopback /\ Len(r) = 2 /\ Head(r) = Bound
          <5>1. a[1] = "online" /\ a[2] = "false"
            BY <4>8, PairFacts
          <5>2. meant'.by = "start" /\ meant'.off /\ props'.bind = props.bind
            BY <4>2, <5>1
          <5> QED
            BY <4>1, <4>3, <4>4, <4>8, <5>2 DEF ForwardingFollows, ByTheStart
        <4>9. CASE w0.stage = "tail" /\ a = Bound /\ r = LastKey /\ Len(r) = 1 /\ Head(r) = OtherKey
          <5>1. a[1] = "bind" /\ a[2] = "loopback"
            BY <4>9, PairFacts
          <5>2. meant' = meant /\ props'.bind = "loopback"
            BY <4>2, <5>1
          <5> QED
            BY <4>1, <4>3, <4>4, <4>9, <5>2 DEF ForwardingFollows, ByTheStart
        <4>10. CASE w0.stage = "tail" /\ a = CheckOn /\ r = LastKey /\ Len(r) = 1 /\ Head(r) = OtherKey
          <5>1. a[1] = "online" /\ a[2] = "true"
            BY <4>10, PairFacts
          <5>2. ~meant'.off /\ props'.bind = props.bind
            BY <4>2, <5>1
          <5> QED
            BY <4>1, <4>3, <4>4, <4>10, <5>2 DEF ForwardingFollows, ByTheStart
        <4>11. CASE w0.stage = "tail" /\ a = OtherKey /\ r = <<>>
          <5>1. a[1] = "other"
            BY <4>11, PairFacts
          <5>2. meant' = meant /\ props'.bind = props.bind
            BY <4>2, <5>1
          <5> QED
            BY <4>1, <4>3, <4>4, <4>11, <5>2 DEF ForwardingFollows, ByTheStart
        <4> QED
          BY <3>1, <4>5, <4>6, <4>7, <4>8, <4>9, <4>10, <4>11
      <3> QED
        BY <3>3, <3>4, <3>5
    <2>5. CASE t = "page"
      <3> PagePlan(w0)
        BY <1>4, <2>5 DEF Plan
      <3>1. /\ Len(w0.todo) = Len(r) + 1 /\ Len(r) \in Nat
            /\ \/ w0.stage = "edit" /\ a \in {CheckOn, CheckOff, OtherKey}
               \/ w0.stage = "pack" /\ a = Url(w0.pack) /\ Len(r) = 2
               \/ w0.stage = "pack" /\ a = Sha(w0.pack) /\ Len(r) = 1
               \/ w0.stage = "pack" /\ a = OtherKey /\ Len(r) = 0
        <4>1. PageWrite(w0, a, r)
          BY <1>1, <1>4, <2>3, PageWrites
        <4> QED
          BY <4>1 DEF PageWrite
      <3>2. w0.pack \in ServerPacks \cup {""}
        BY <1>4 DEF Tasks
      <3>3. a[1] \notin {"threshold", "bind"} /\ "page" \notin Captures /\ doing["page"] = w0 /\ doing'["page"] = w
            /\ doing'["start"] = doing["start"]
        BY <1>6, <2>5, <3>1, <3>2, PairFacts, JobFacts
      <3>4. PackFollows'
        <4>1. /\ doing'["page"].stage = w0.stage /\ doing'["page"].todo = r /\ doing'["page"].pack = w0.pack
              /\ doing["page"].stage = w0.stage /\ doing["page"].todo = w0.todo /\ doing["page"].pack = w0.pack
              /\ packRow' = packRow /\ Len(doing["page"].todo) = Len(r) + 1 /\ Len(doing'["page"].todo) = Len(r)
              /\ Len(r) \in Nat
          BY <1>1, <1>2, <3>1, <3>3
        <4>2. /\ props'.url = (IF a[1] = "url" THEN a[2] ELSE props.url)
              /\ props'.sha = (IF a[1] = "sha" THEN a[2] ELSE props.sha)
          BY <2>2
        <4> HIDE DEF w0
        <4>3. CASE w0.stage = "edit" /\ a \in {CheckOn, CheckOff, OtherKey}
          <5>1. a[1] \in {"online", "other"}
            BY <3>2, <4>3, PairFacts
          <5> QED
            BY <2>1, <4>1, <4>2, <4>3, <5>1 DEF PackFollows
        <4>4. CASE w0.stage = "pack" /\ a = Url(w0.pack) /\ Len(r) = 2
          <5>1. a[1] = "url" /\ a[2] = w0.pack
            BY <3>2, <4>4, PairFacts
          <5> QED
            <6>1. props'.url = w0.pack /\ props'.sha = props.sha
              BY <4>2, <5>1
            <6>2. /\ doing["page"].stage = "pack" /\ Len(doing["page"].todo) = 3
                  /\ doing'["page"].stage = "pack" /\ Len(doing'["page"].todo) = 2
              BY <4>1, <4>4
            <6>3. props.url = packRow /\ props.sha = packRow
              BY <2>1, <4>1, <6>2 DEF PackFollows
            <6> QED
              BY <4>1, <6>1, <6>2, <6>3 DEF PackFollows
        <4>5. CASE w0.stage = "pack" /\ a = Sha(w0.pack) /\ Len(r) = 1
          <5>1. a[1] = "sha" /\ a[2] = w0.pack
            BY <3>2, <4>5, PairFacts
          <5> QED
            <6>1. props'.url = props.url /\ props'.sha = w0.pack
              BY <4>2, <5>1
            <6>2. /\ doing["page"].stage = "pack" /\ Len(doing["page"].todo) = 2
                  /\ doing'["page"].stage = "pack" /\ Len(doing'["page"].todo) = 1
              BY <4>1, <4>5
            <6>3. props.url = w0.pack /\ props.sha = packRow
              BY <2>1, <4>1, <6>2 DEF PackFollows
            <6> QED
              BY <4>1, <6>1, <6>2, <6>3 DEF PackFollows
        <4>6. CASE w0.stage = "pack" /\ a = OtherKey /\ Len(r) = 0
          <5>1. a[1] = "other"
            BY <3>2, <4>6, PairFacts
          <5> QED
            <6>1. props'.url = props.url /\ props'.sha = props.sha
              BY <4>2, <5>1
            <6>2. /\ doing["page"].stage = "pack" /\ Len(doing["page"].todo) = 1
                  /\ doing'["page"].stage = "pack" /\ Len(doing'["page"].todo) = 0
              BY <4>1, <4>6
            <6>3. props.url = w0.pack /\ props.sha = w0.pack
              BY <2>1, <4>1, <6>2 DEF PackFollows
            <6> QED
              BY <4>1, <6>1, <6>2, <6>3 DEF PackFollows
        <4> QED
          BY <3>1, <4>3, <4>4, <4>5, <4>6
      <3>5. LoginFollows'
        <4>1. \A c \in Captures : doing'[c] = doing[c]
          BY <1>6, <2>5, <3>3, JobFacts
        <4>2. Offline(props') <=> IF a[1] = "online" THEN meant'.off ELSE Offline(props)
          BY <1>3, <2>2, <2>5, <3>3 DEF Offline
        <4>3. \A c \in Captures : Turned(c) => Capturing(c)
          BY DEF Turned, Capturing
        <4> QED
          BY <1>3, <1>5, <1>9, <2>1, <2>2, <3>3, <4>1, <4>2, <4>3 DEF LoginFollows, Capturing, Turned, Half
      <3>6. ForwardingFollows'
        <4>1. meant' = meant \/ meant'.by = "page"
          BY <1>3, <2>5
        <4> QED
          BY <1>1, <2>1, <2>2, <3>3, <4>1 DEF ForwardingFollows, ByTheStart
      <3> QED
        BY <3>4, <3>5, <3>6
    <2>6. CASE t \in Captures
      <3> CapturePlan(w0)
        BY <1>4, <2>6, JobFacts DEF Plan
      <3>1. /\ Len(w0.todo) = Len(r) + 1 /\ Len(r) \in Nat /\ (r = <<>> <=> Len(r) = 0)
            /\ \/ w0.stage = "prepared" /\ a \in {CheckOff, Plain}
               \/ w0.stage = "restored" /\ a = Login(w0.old) /\ Len(r) = 1
               \/ w0.stage = "restored" /\ a = Threshold(w0.old) /\ Len(r) = 0
        <4>1. CaptureWrite(w0, a, r)
          BY <1>1, <1>4, <2>3, CaptureWrites
        <4> QED
          BY <4>1 DEF CaptureWrite
      <3>2. /\ Login(w0.old)[1] = "online" /\ (Login(w0.old)[2] = "false" <=> w0.old.online = "false")
            /\ Threshold(w0.old)[1] = "threshold"
            /\ Threshold(w0.old)[2] = "-1" <=> w0.old.threshold = "-1"
        BY PairFacts DEF Login, Threshold
      <3>3. a[1] \in {"online", "threshold"} /\ meant' = meant
        BY <1>3, <2>6, <3>1, <3>2, PairFacts
      <3>4. doing'["start"] = doing["start"] /\ doing'["page"] = doing["page"] /\ doing'[t] = w
            /\ \A c \in Captures : c # t => doing'[c] = doing[c]
        BY <1>6, <2>6, JobFacts
      <3>5. PackFollows' /\ ForwardingFollows'
        BY <1>1, <2>1, <2>2, <3>3, <3>4, PackFrame, ForwardingFrame
      <3>6. LoginFollows'
        <4>1. Turned(t) /\ Capturing(t) /\ \A c \in Captures : Capturing(c) => c = t
          BY <1>1, <2>1, <2>6, <3>1 DEF Turned, Capturing, LoginFollows
        <4>2. \A c \in Captures : c # t => ~Capturing(c) /\ ~Turned(c)
          BY <4>1 DEF Turned, Capturing
        <4>3. \A c \in Captures : c # t => ~Capturing(c)' /\ ~Turned(c)'
          BY <3>4, <4>2 DEF Turned, Capturing
        <4>4. (w0.old.online = "false" <=> meant.off) /\ w0.old.threshold # "-1"
          BY <2>1, <2>6, <4>1 DEF LoginFollows
        <4>5. CASE w0.stage = "prepared"
          BY <1>2, <2>6, <3>3, <3>4, <4>3, <4>4, <4>5 DEF LoginFollows, Turned, Half
        <4>6. CASE w0.stage = "restored" /\ r # <<>>
          <5>1. a = Login(w0.old) /\ Len(r) = 1
            BY <3>1, <3>2, <4>6
          <5>2. Offline(props') <=> meant'.off
            BY <2>2, <3>2, <3>3, <4>4, <5>1 DEF Offline
          <5>3. Turned(t)'
            BY <1>2, <3>4, <4>6 DEF Turned
          <5> QED
            BY <1>2, <2>6, <3>3, <3>4, <4>3, <4>4, <5>2, <5>3 DEF LoginFollows
        <4>7. CASE w0.stage = "restored" /\ r = <<>>
          <5>1. a = Threshold(w0.old) /\ Half(t)
            BY <3>1, <3>2, <4>7 DEF Half
          <5>2. Offline(props') <=> meant'.off
            BY <2>1, <2>2, <3>2, <3>3, <4>2, <5>1 DEF Offline, LoginFollows
          <5>3. props'.threshold # "-1"
            BY <2>2, <3>2, <4>4, <5>1
          <5>4. ~Turned(t)'
            BY <1>2, <3>4, <4>7 DEF Turned
          <5> QED
            BY <3>3, <4>3, <5>2, <5>3, <5>4 DEF LoginFollows
        <4> QED
          BY <3>1, <4>5, <4>6, <4>7
      <3> QED
        BY <3>5, <3>6
    <2> QED
      BY <2>4, <2>5, <2>6 DEF Jobs
  <1> QED
    BY <1>7, <1>8, <1>9 DEF FilesInv

LEMMA WriteRefusedInv ==
  ASSUME FilesInv, NEW t \in Jobs, WriteRefused(t)
  PROVE  FilesInv'
  <1> DEFINE w == [doing[t] EXCEPT !.todo = Tail(@), !.inside = FALSE, !.base = NoTask.base]
  <1>1. /\ PlansInv /\ Does(t, w) /\ doing[t].todo # <<>> /\ excuse' = excuse \cup {"locked"}
        /\ UNCHANGED <<props, yaml, backend, packRow, game, session, meant, wishes>>
    BY DEF WriteRefused, FilesInv, PlansInv
  <1>2. w \in Tasks /\ Plan(t, w) /\ ~w.inside
    BY <1>1, WritesFacts
  <1> HIDE DEF w
  <1>3. PlansInv'
    BY <1>1, <1>2, PlanMoves DEF PlansInv
  <1>4. OfflineIsForwarded'
    BY <1>1, GameFrame DEF FilesInv
  <1> QED
    BY <1>1, <1>3, <1>4 DEF FilesInv

\* A thread with nothing to write goes on.
LEMMA ThenFacts ==
  ASSUME PlansInv, NEW t \in Jobs, doing[t].todo = <<>>, NEW stage \in FileStages, NEW todo \in Seq(Pairs)
  PROVE  LET w == Then(t, stage, todo) IN
         /\ w \in Tasks /\ w.stage = stage /\ w.todo = todo /\ ~w.inside
         /\ w.old = doing[t].old /\ w.pack = doing[t].pack
  <1>1. doing[t] \in Tasks /\ ~doing[t].inside
    BY DEF PlansInv
  <1> QED
    BY <1>1 DEF Then, Tasks

LEMMA StartingFacts ==
  /\ Starting \in Tasks /\ Starting.stage = "ports" /\ Starting.todo = LastKey /\ ~Starting.inside
  /\ StartPlan(Starting)
  <1>1. NoTask \in Tasks /\ ~NoTask.inside /\ LastKey \in Seq(Pairs) /\ <<OtherKey>> = LastKey
    BY NoTaskFacts, StartSplits DEF Split, LastKey
  <1>2. Starting = [NoTask EXCEPT !.stage = "ports", !.todo = LastKey]
    BY <1>1, Zenon DEF Starting
  <1>3. Starting \in Tasks /\ Starting.stage = "ports" /\ Starting.todo = LastKey /\ ~Starting.inside
    BY <1>1, <1>2 DEF Tasks, FileStages
  <1> QED
    BY <1>3 DEF StartPlan

\* A step of the start that leaves server.properties alone.
LEMMA StartMoves ==
  ASSUME FilesInv, NEW w \in Tasks, Does("start", w), StartPlan(w), ~w.inside,
         yaml' \in [forward : BOOLEAN, bungee : BOOLEAN],
         UNCHANGED <<props, backend, packRow, session, meant>>,
         excuse' = excuse \/ excuse' = excuse \cup {"locked"},
         excuse' = {} => ForwardingFollows', OfflineIsForwarded'
  PROVE  FilesInv'
  <1>1. PlansInv /\ "start" \in Jobs /\ Plan("start", w)
    BY JobFacts DEF FilesInv, Plan
  <1>2. PlansInv'
    BY <1>1, PlanMoves DEF PlansInv
  <1>3. \A u \in Jobs : u # "start" => doing'[u] = doing[u]
    BY <1>1, TaskMoves
  <1>4. ASSUME excuse' = {} PROVE PackFollows' /\ LoginFollows'
    <2>1. PackFollows /\ LoginFollows
      BY <1>4 DEF FilesInv
    <2> QED
      BY <1>3, <2>1, JobFacts, PackFrame, LoginFrame
  <1> QED
    BY <1>2, <1>4 DEF FilesInv

LEMMA StartBeginsInv ==
  ASSUME FilesInv, StartBegins
  PROVE  FilesInv'
  <1>1. /\ doing["start"].stage = "off" /\ Does("start", Starting) /\ PlansInv
        /\ UNCHANGED <<props, yaml, backend, packRow, game, session, meant, excuse, wishes>>
    BY DEF StartBegins, FilesInv
  <1>2. doing'["start"] = Starting
    BY <1>1, TaskMoves, StartingFacts, JobFacts
  <1>3. excuse' = {} => ForwardingFollows'
    BY <1>1, <1>2, StartingFacts DEF FilesInv, ForwardingFollows, ByTheStart
  <1>4. OfflineIsForwarded'
    BY <1>1, GameFrame DEF FilesInv
  <1> QED
    BY <1>1, <1>3, <1>4, StartMoves, StartingFacts DEF PlansInv

LEMMA ForwardInv ==
  ASSUME FilesInv, Forward
  PROVE  FilesInv'
  <1>1. PICK written, unset \in BOOLEAN :
          /\ yaml' = [forward |-> written \/ yaml.forward,
                      bungee |-> yaml.bungee /\ ~(written /\ unset)]
          /\ excuse' = (IF written /\ yaml.bungee /\ ~unset THEN excuse \cup {"locked"} ELSE excuse)
          /\ Does("start", Then("start", "tail", AfterForwarding(written)))
    BY DEF Forward
  <1>2. /\ PlansInv /\ doing["start"].stage = "ports" /\ doing["start"].todo = <<>>
        /\ UNCHANGED <<props, backend, packRow, game, session, meant, wishes>>
    BY DEF Forward, AtStage, FilesInv
  <1> DEFINE todo == IF written THEN LoginOff ELSE LoginOn
             w == Then("start", "tail", todo)
  <1>3. todo \in Seq(Pairs) /\ todo = AfterForwarding(written)
    BY StartSplits, Zenon DEF Split, AfterForwarding, LoginOff, LoginOn, CheckOff, CheckOn, Bound
  <1>4. Does("start", w)
    BY <1>1, <1>3
  <1> HIDE DEF todo
  <1>5. w \in Tasks /\ w.stage = "tail" /\ w.todo = todo /\ ~w.inside
    BY <1>2, <1>3, ThenFacts, JobFacts DEF FileStages
  <1> HIDE DEF w
  <1>6. StartPlan(w)
    BY <1>5 DEF StartPlan, todo
  <1>7. doing'["start"] = w
    BY <1>2, <1>4, <1>5, TaskMoves, JobFacts
  <1>8. ASSUME excuse' = {} PROVE ForwardingFollows'
    <2>1. ForwardingFollows /\ (written => ~yaml'.bungee /\ yaml'.forward) /\ (yaml.forward => yaml'.forward)
      BY <1>1, <1>8 DEF FilesInv
    <2>2. ByTheStart => props.bind = "loopback" /\ yaml.forward
      BY <1>2, <2>1 DEF ForwardingFollows
    <2>3. (written => w.todo = LoginOff) /\ (~written => Len(w.todo) = 2 /\ w.todo # <<>> /\ Head(w.todo) = CheckOn)
      BY <1>5, StartSplits, NothingFacts DEF todo, Split
    <2> QED
      BY <1>2, <1>5, <1>7, <2>1, <2>2, <2>3 DEF ForwardingFollows, ByTheStart
  <1>9. OfflineIsForwarded'
    BY <1>1, <1>2, GameFrame DEF FilesInv
  <1>10. yaml' \in [forward : BOOLEAN, bungee : BOOLEAN]
    BY <1>1, <1>2 DEF PlansInv
  <1> QED
    BY <1>1, <1>2, <1>4, <1>5, <1>6, <1>8, <1>9, <1>10, StartMoves

LEMMA CleanupInv ==
  ASSUME FilesInv, Cleanup
  PROVE  FilesInv'
  <1>1. /\ PlansInv /\ doing["start"].stage = "ports" /\ doing["start"].todo = <<>>
        /\ UNCHANGED <<props, yaml, backend, packRow, game, session, meant, excuse, wishes>>
    BY DEF Cleanup, AtStage, FilesInv
  <1> DEFINE stage == IF props.bind = "loopback" THEN "leftovers" ELSE "forwarding"
             todo == IF props.bind = "loopback" THEN LoginThenBind ELSE <<>>
             w == Then("start", stage, todo)
  <1>2. stage \in FileStages /\ todo \in Seq(Pairs)
    BY StartSplits, NothingFacts DEF Split, FileStages
  <1>3. Does("start", w)
    BY Zenon DEF Cleanup, LoginThenBind, CheckOn, Unbound
  <1> HIDE DEF stage, todo
  <1>4. w \in Tasks /\ w.stage = stage /\ w.todo = todo /\ ~w.inside
    BY <1>1, <1>2, ThenFacts, JobFacts
  <1> HIDE DEF w
  <1>5. StartPlan(w)
    BY <1>4 DEF StartPlan, stage, todo
  <1>6. doing'["start"] = w
    BY <1>1, <1>3, <1>4, TaskMoves, JobFacts
  <1>7. ASSUME excuse' = {} PROVE ForwardingFollows'
    <2>1. ByTheStart => props.bind = "loopback" /\ yaml.forward
      BY <1>1, <1>7 DEF FilesInv, ForwardingFollows
    <2>2. \/ w.stage = "leftovers" /\ Len(w.todo) = 2
          \/ w.stage = "forwarding" /\ props.bind # "loopback"
      <3>1. Len(LoginThenBind) = 2
        BY StartSplits, NothingFacts DEF Split
      <3>2. CASE props.bind = "loopback"
        <4>1. stage = "leftovers" /\ todo = LoginThenBind
          BY <3>2 DEF stage, todo
        <4>2. w.stage = "leftovers" /\ w.todo = LoginThenBind
          BY <1>4, <4>1
        <4>3. Len(w.todo) = 2
          BY <3>1, <4>2, Zenon
        <4> QED
          BY <4>2, <4>3
      <3>3. CASE props.bind # "loopback"
        BY <1>4, <3>3 DEF stage
      <3> QED
        BY <3>2, <3>3
    <2> QED
      BY <1>1, <1>6, <2>1, <2>2 DEF ForwardingFollows, ByTheStart
  <1>8. OfflineIsForwarded'
    BY <1>1, GameFrame DEF FilesInv
  <1> QED
    BY <1>1, <1>3, <1>4, <1>5, <1>7, <1>8, StartMoves DEF PlansInv

LEMMA CleanYamlInv ==
  ASSUME FilesInv, CleanYaml
  PROVE  FilesInv'
  <1>1. PICK forward, bungee \in BOOLEAN :
          yaml' = [forward |-> yaml.forward /\ forward,
                   bungee |-> yaml.bungee /\ (bungee \/ doing["start"].stage = "forwarding")]
    BY DEF CleanYaml
  <1>2. /\ PlansInv /\ doing["start"].stage \in {"leftovers", "forwarding"} /\ doing["start"].todo = <<>>
        /\ UNCHANGED <<props, backend, packRow, game, session, meant, excuse, wishes>>
    BY DEF CleanYaml, AtStage, FilesInv
  <1> DEFINE w == Then("start", "tail", LastKey)
  <1>3. Does("start", w)
    BY Zenon DEF CleanYaml, LastKey
  <1>4. w \in Tasks /\ w.stage = "tail" /\ w.todo = LastKey /\ ~w.inside
    BY <1>2, ThenFacts, JobFacts, StartSplits DEF FileStages, Split
  <1> HIDE DEF w
  <1>5. StartPlan(w)
    BY <1>4 DEF StartPlan
  <1>6. doing'["start"] = w
    BY <1>2, <1>3, <1>4, TaskMoves, JobFacts
  <1>7. ASSUME excuse' = {} PROVE ForwardingFollows'
    <2>1. Len(<<>>) < 2 /\ Len(LastKey) = 1
      BY StartSplits, NothingFacts DEF Split
    <2>2. ~ByTheStart
      BY <1>2, <1>7, <2>1 DEF FilesInv, ForwardingFollows
    <2> QED
      BY <1>2, <1>4, <1>6, <2>1, <2>2 DEF ForwardingFollows, ByTheStart
  <1>8. OfflineIsForwarded'
    BY <1>2, GameFrame DEF FilesInv
  <1>9. yaml' \in [forward : BOOLEAN, bungee : BOOLEAN]
    BY <1>1, <1>2 DEF PlansInv
  <1> QED
    BY <1>2, <1>3, <1>4, <1>5, <1>7, <1>8, <1>9, StartMoves

LEMMA GameReadsInv ==
  ASSUME FilesInv, GameReads
  PROVE  FilesInv'
  <1>1. /\ PlansInv /\ doing["start"].stage = "tail" /\ doing["start"].todo = <<>> /\ Does("start", NoTask)
        /\ UNCHANGED <<props, yaml, backend, packRow, session, meant, excuse, wishes>>
    BY DEF GameReads, AtStage, FilesInv
  <1>2. doing'["start"] = NoTask /\ StartPlan(NoTask)
    BY <1>1, TaskMoves, NoTaskFacts, JobFacts DEF Plan
  <1>3. ASSUME excuse = {}
        PROVE  /\ ByTheStart => yaml.forward /\ props.bind = "loopback" /\ ~yaml.bungee
               /\ (\A c \in Captures : ~Turned(c)) => (Offline(props) <=> meant.off)
    BY <1>1, <1>3 DEF FilesInv, ForwardingFollows, LoginFollows
  <1>4. excuse' = {} => ForwardingFollows'
    BY <1>1, <1>2, <1>3, NoTaskFacts DEF ForwardingFollows, ByTheStart
  <1>5. OfflineIsForwarded'
    <2>1. CASE game' = NoGame
      BY <1>1, <2>1, GameFrame DEF FilesInv
    <2>2. CASE game' = [on |-> TRUE, offline |-> Offline(props), bind |-> props.bind,
                        forward |-> yaml.forward, bungee |-> yaml.bungee,
                        captured |-> \E c \in Captures : Turned(c),
                        wanted |-> meant.by = "page" /\ meant.off]
      <3>1. /\ game'.offline <=> Offline(props)
            /\ game'.bind = props.bind /\ game'.forward = yaml.forward /\ game'.bungee = yaml.bungee
            /\ game'.captured <=> \E c \in Captures : Turned(c)
            /\ game'.wanted <=> meant.by = "page" /\ meant.off
        BY <2>2
      <3>2. meant.by \in {"page", "start"}
        BY <1>1 DEF PlansInv
      <3> QED
        BY <1>1, <1>3, <3>1, <3>2 DEF OfflineIsForwarded, ByTheStart
    <2> QED
      BY <2>1, <2>2 DEF GameReads
  <1> QED
    BY <1>1, <1>2, <1>4, <1>5, StartMoves, NoTaskFacts DEF PlansInv

LEMMA GameStopsInv ==
  ASSUME FilesInv, GameStops \/ SwitchRole
  PROVE  FilesInv'
  <1>1. /\ game' = game \/ game' = NoGame
        /\ UNCHANGED <<props, yaml, packRow, doing, session, meant, excuse>> /\ backend' \in BOOLEAN
    BY DEF GameStops, SwitchRole, FilesInv, PlansInv
  <1>2. PlansInv'
    BY <1>1 DEF FilesInv, PlansInv, Plan, StartPlan, PagePlan, CapturePlan
  <1>3. OfflineIsForwarded'
    BY <1>1, GameFrame DEF FilesInv
  <1>4. excuse' = {} => PackFollows' /\ LoginFollows' /\ ForwardingFollows'
    BY <1>1, PackFrame, LoginFrame, ForwardingFrame DEF FilesInv
  <1> QED
    BY <1>2, <1>3, <1>4 DEF FilesInv

-----------------------------------------------------------------------------
(* The pages and the capture                                               *)

\* A step of a page that leaves the files alone.
LEMMA PageMoves ==
  ASSUME FilesInv, NEW w \in Tasks, Does("page", w), PagePlan(w), ~w.inside,
         UNCHANGED <<props, yaml, backend, game, session, meant, excuse>>,
         packRow' \in ServerPacks \cup {""}, excuse = {} => PackFollows'
  PROVE  FilesInv'
  <1>1. PlansInv /\ "page" \in Jobs /\ Plan("page", w)
    BY JobFacts DEF FilesInv, Plan
  <1>2. PlansInv'
    BY <1>1, PlanMoves DEF PlansInv
  <1>3. \A u \in Jobs : u # "page" => doing'[u] = doing[u]
    BY <1>1, TaskMoves
  <1>4. ASSUME excuse' = {} PROVE LoginFollows' /\ ForwardingFollows'
    <2>1. LoginFollows /\ ForwardingFollows
      BY <1>4 DEF FilesInv
    <2> QED
      BY <1>3, <2>1, JobFacts, LoginFrame, ForwardingFrame
  <1>5. OfflineIsForwarded'
    BY GameFrame DEF FilesInv
  <1> QED
    BY <1>2, <1>4, <1>5 DEF FilesInv

\* A page begins with all it has to write before it.
LEMMA PageBegins ==
  ASSUME FilesInv, NEW stage, NEW p \in ServerPacks \cup {""}, NEW todo \in Seq(Pairs), Page(stage, p, todo),
         \/ stage = "edit" /\ todo \in {EditOn, EditOff, TwoKeys, LastKey}
         \/ stage = "pack" /\ todo = PackAll(p)
  PROVE  FilesInv'
  <1> DEFINE w == [NoTask EXCEPT !.stage = stage, !.pack = p, !.todo = todo]
  <1>1. /\ doing["page"].stage = "off" /\ Does("page", w) /\ PlansInv
        /\ UNCHANGED <<props, yaml, backend, packRow, game, session, meant, excuse>>
    BY DEF Page, FilesInv
  <1>2. stage \in FileStages
    BY DEF FileStages
  <1>3. w \in Tasks /\ w.stage = stage /\ w.pack = p /\ w.todo = todo /\ ~w.inside
    BY <1>2, NoTaskFacts DEF Tasks
  <1> HIDE DEF w
  <1>4. PagePlan(w)
    BY <1>3 DEF PagePlan
  <1>5. doing'["page"] = w
    BY <1>1, <1>3, TaskMoves, JobFacts
  <1>6. ASSUME excuse = {} PROVE PackFollows'
    <2>1. props.url = packRow /\ props.sha = packRow
      BY <1>1, <1>6 DEF FilesInv, PackFollows
    <2>2. stage = "edit" \/ Len(todo) = 3
      BY Lengths, Zenon
    <2>3. doing'["page"].stage = stage /\ doing'["page"].todo = todo
      BY <1>3, <1>5
    <2>4. CASE stage = "edit"
      BY <1>1, <2>1, <2>3, <2>4 DEF PackFollows
    <2>5. CASE Len(todo) = 3
      <3>1. Len(doing'["page"].todo) = 3 /\ ~(3 < 3) /\ ~(3 < 2)
        BY <2>3, <2>5, Three, Zenon
      <3>2. ~(Len(doing'["page"].todo) < 3) /\ ~(Len(doing'["page"].todo) < 2)
        BY <3>1, Zenon
      <3> QED
        BY <1>1, <2>1, <3>2, Zenon DEF PackFollows
    <2> QED
      BY <2>2, <2>4, <2>5
  <1> QED
    BY <1>1, <1>3, <1>4, <1>6, PageMoves DEF PlansInv

LEMMA SettingsInv ==
  ASSUME FilesInv,
         \/ \E p \in ServerPacks : SetPack(p)
         \/ DeletePack \/ ToggleWhitelist \/ SaveSettings
         \/ \E v \in {"true", "false"} : EditLogin(v)
  PROVE  FilesInv'
  <1>1. ASSUME NEW p \in ServerPacks \cup {""}, Page("pack", p, PackKeys(p)) PROVE FilesInv'
    <2>1. PackKeys(p) = PackAll(p)
      BY DEF PackKeys, PackAll, Url, Sha
    <2>2. PackAll(p) \in Seq(Pairs)
      BY PageSplits DEF Split
    <2> QED
      BY <1>1, <2>1, <2>2, PageBegins
  <1>2. ASSUME NEW todo \in {EditOn, EditOff, TwoKeys, LastKey}, Page("edit", "", todo) PROVE FilesInv'
    <2>1. todo \in Seq(Pairs)
      BY PageSplits DEF Split
    <2> QED
      BY <1>2, <2>1, PageBegins
  <1>3. /\ <<<<"online", "true">>>> = EditOn /\ <<<<"online", "false">>>> = EditOff
        /\ <<OtherKey>> = LastKey /\ <<OtherKey, OtherKey>> = TwoKeys
    BY Zenon DEF EditOn, EditOff, LastKey, TwoKeys, CheckOn, CheckOff
  <1>4. CASE \E p \in ServerPacks : SetPack(p)
    BY <1>1, <1>4 DEF SetPack
  <1>5. CASE DeletePack
    BY <1>1, <1>5 DEF DeletePack
  <1>6. CASE ToggleWhitelist
    BY <1>2, <1>3, <1>6, Zenon DEF ToggleWhitelist
  <1>7. CASE SaveSettings
    BY <1>2, <1>3, <1>7, Zenon DEF SaveSettings
  <1>8. ASSUME NEW v \in {"true", "false"}, EditLogin(v) PROVE FilesInv'
    <2>1. CASE v = "true"
      BY <1>2, <1>3, <1>8, <2>1, Zenon DEF EditLogin
    <2>2. CASE v = "false"
      BY <1>2, <1>3, <1>8, <2>2, Zenon DEF EditLogin
    <2> QED
      BY <2>1, <2>2
  <1> QED
    BY <1>4, <1>5, <1>6, <1>7, <1>8

LEMMA PackStoredInv ==
  ASSUME FilesInv, PackStored
  PROVE  FilesInv'
  <1>1. /\ doing["page"].stage = "pack" /\ doing["page"].todo = <<>> /\ Does("page", NoTask) /\ PlansInv
        /\ packRow' = doing["page"].pack /\ UNCHANGED <<props, yaml, backend, game, session, meant, excuse, wishes>>
    BY DEF PackStored, AtStage, FilesInv
  <1>2. doing'["page"] = NoTask /\ PagePlan(NoTask) /\ "page" \in Jobs
    BY <1>1, TaskMoves, NoTaskFacts, JobFacts DEF Plan
  <1>3. packRow' \in ServerPacks \cup {""}
    BY <1>1, <1>2 DEF PlansInv, Tasks
  <1>4. ASSUME excuse = {} PROVE PackFollows'
    <2>1. Len(doing["page"].todo) = 0
      BY <1>1, NothingFacts
    <2>2. props.url = doing["page"].pack /\ props.sha = doing["page"].pack
      BY <1>1, <1>4, <2>1 DEF FilesInv, PackFollows
    <2> QED
      BY <1>1, <1>2, <2>2, NoTaskFacts DEF PackFollows
  <1> QED
    BY <1>1, <1>2, <1>3, <1>4, PageMoves, NoTaskFacts

LEMMA PageEndsInv ==
  ASSUME FilesInv, PageEnds
  PROVE  FilesInv'
  <1>1. /\ doing["page"].stage = "edit" /\ Does("page", NoTask) /\ PlansInv
        /\ UNCHANGED <<props, yaml, backend, packRow, game, session, meant, excuse, wishes>>
    BY DEF PageEnds, AtStage, FilesInv
  <1>2. doing'["page"] = NoTask /\ PagePlan(NoTask)
    BY <1>1, TaskMoves, NoTaskFacts, JobFacts DEF Plan
  <1>3. excuse = {} => PackFollows'
    BY <1>1, <1>2, NoTaskFacts DEF FilesInv, PackFollows
  <1> QED
    BY <1>1, <1>2, <1>3, PageMoves, NoTaskFacts DEF PlansInv

LEMMA ManagerEndsInv ==
  ASSUME FilesInv, ManagerEnds
  PROVE  FilesInv'
  <1>1. /\ doing' = [t \in Jobs |-> NoTask] /\ game' = NoGame /\ session' = "none"
        /\ excuse' = excuse \cup {"ended"} /\ UNCHANGED <<props, yaml, backend, packRow, meant, wishes>>
    BY DEF ManagerEnds
  <1>2. doing' \in [Jobs -> Tasks] /\ \A t \in Jobs : doing'[t] = NoTask
    BY <1>1, NoTaskFacts
  <1>3. \A t \in Jobs : (doing'[t].todo = <<>> => ~doing'[t].inside) /\ Plan(t, doing'[t])
    BY <1>2, NoTaskFacts
  <1>4. PlansInv'
    BY <1>1, <1>2, <1>3 DEF FilesInv, PlansInv, Plan, StartPlan, PagePlan, CapturePlan
  <1>5. OfflineIsForwarded'
    BY <1>1, GameFrame DEF FilesInv
  <1> QED
    BY <1>1, <1>4, <1>5 DEF FilesInv

\* A step of a capture that leaves the files alone.
LEMMA CaptureMoves ==
  ASSUME FilesInv, NEW c \in Captures, NEW w \in Tasks, Does(c, w), CapturePlan(w), ~w.inside,
         UNCHANGED <<props, yaml, backend, packRow, game, meant>>,
         session' \in {"none", "active", "error", "done"},
         excuse' \subseteq {"lost", "locked", "raised", "ended", "overtaken", "recaptured"},
         excuse \subseteq excuse', excuse' = {} => LoginFollows'
  PROVE  FilesInv'
  <1>1. PlansInv /\ c \in Jobs /\ c # "start" /\ c # "page" /\ Plan(c, w)
    BY JobFacts DEF FilesInv, Plan
  <1>2. PlansInv'
    BY <1>1, PlanMoves DEF PlansInv
  <1>3. doing'["start"] = doing["start"] /\ doing'["page"] = doing["page"]
    BY <1>1, TaskMoves, JobFacts
  <1>4. ASSUME excuse' = {} PROVE PackFollows' /\ ForwardingFollows'
    BY <1>3, <1>4, PackFrame, ForwardingFrame DEF FilesInv
  <1>5. OfflineIsForwarded'
    BY GameFrame DEF FilesInv
  <1> QED
    BY <1>2, <1>4, <1>5 DEF FilesInv

\* Nobody's check goes on or off as a capture comes to its next stage.
LEMMA LoginMoves ==
  ASSUME LoginFollows, NEW c \in Captures, UNCHANGED <<props, meant>>, doing'[c].old = doing[c].old,
         Turned(c)' <=> Turned(c), Half(c)' <=> Half(c), Capturing(c)' => Capturing(c),
         \A d \in Captures : d # c => doing'[d] = doing[d]
  PROVE  LoginFollows'
  <1>1. \A d \in Captures : /\ doing'[d].old = doing[d].old /\ (Turned(d)' <=> Turned(d))
                            /\ (Half(d)' <=> Half(d)) /\ (Capturing(d)' => Capturing(d))
    <2> TAKE d \in Captures
    <2>1. CASE d = c
      BY <2>1
    <2>2. CASE d # c
      <3>1. doing'[d] = doing[d]
        BY <2>2
      <3> QED
        BY <3>1 DEF Turned, Half, Capturing
    <2> QED
      BY <2>1, <2>2
  <1> HIDE DEF Turned, Half, Capturing
  <1>2. Offline(props)' <=> Offline(props)
    BY DEF Offline
  <1> QED
    BY <1>1, <1>2 DEF LoginFollows, Offline

LEMMA BeginCaptureInv ==
  ASSUME FilesInv, NEW c \in Captures, BeginCapture(c)
  PROVE  FilesInv'
  <1> DEFINE w == [NoTask EXCEPT !.stage = "remember"]
  <1>1. /\ doing[c].stage = "off" /\ Does(c, w) /\ session' = "active" /\ PlansInv
        /\ excuse' = (IF \E d \in Captures : Capturing(d) THEN excuse \cup {"recaptured"} ELSE excuse)
        /\ UNCHANGED <<props, yaml, backend, packRow, game, meant>>
    BY DEF BeginCapture, FilesInv
  <1>2. w \in Tasks /\ w.stage = "remember" /\ w.todo = <<>> /\ ~w.inside
    BY NoTaskFacts DEF Tasks, FileStages
  <1> HIDE DEF w
  <1>3. CapturePlan(w)
    BY <1>2 DEF CapturePlan
  <1>4. doing'[c] = w /\ \A d \in Captures : d # c => doing'[d] = doing[d]
    BY <1>1, <1>2, TaskMoves, JobFacts
  <1>5. ASSUME excuse' = {} PROVE LoginFollows'
    <2>1. LoginFollows /\ \A d \in Captures : ~Capturing(d)
      BY <1>1, <1>5 DEF FilesInv
    <2>2. \A d \in Captures : ~Turned(d) /\ (d # c => ~Capturing(d)') /\ ~Turned(d)'
      BY <1>2, <1>4, <2>1 DEF Turned, Capturing
    <2> QED
      BY <1>1, <2>1, <2>2 DEF LoginFollows, Offline
  <1> QED
    BY <1>1, <1>2, <1>3, <1>5, CaptureMoves DEF PlansInv

LEMMA RememberInv ==
  ASSUME FilesInv, NEW c \in Captures, Remember(c)
  PROVE  FilesInv'
  <1> DEFINE w1 == Then(c, "prepared", Prepare)
             w == [w1 EXCEPT !.old = Remembered(props)]
  <1>1. /\ doing[c].stage = "remember" /\ doing[c].todo = <<>> /\ PlansInv
        /\ UNCHANGED <<props, yaml, backend, packRow, game, session, meant, excuse, wishes>>
    BY DEF Remember, AtStage, FilesInv
  <1>2. Does(c, w)
    <2>1. <<<<"online", "false">>, <<"threshold", "-1">>>> = Prepare
      BY Zenon DEF Prepare, CheckOff, Plain
    <2> QED
      BY <2>1, Zenon DEF Remember
  <1>3. w1 \in Tasks /\ w1.stage = "prepared" /\ w1.todo = Prepare /\ ~w1.inside
    <2>1. Prepare \in Seq(Pairs)
      BY CaptureSplits DEF Split
    <2> QED
      BY <1>1, <2>1, ThenFacts, JobFacts DEF FileStages
  <1> HIDE DEF w1
  <1>4. /\ w \in Tasks /\ w.stage = "prepared" /\ w.todo = Prepare /\ ~w.inside
        /\ w.old.online = props.online /\ w.old.threshold = props.threshold
    BY <1>1, <1>3 DEF Tasks, Remembered, PlansInv, Properties
  <1> HIDE DEF w
  <1>5. CapturePlan(w)
    BY <1>4 DEF CapturePlan
  <1>6. doing'[c] = w /\ \A d \in Captures : d # c => doing'[d] = doing[d]
    BY <1>1, <1>2, <1>4, TaskMoves, JobFacts
  <1>7. ASSUME excuse' = {} PROVE LoginFollows'
    <2>1. LoginFollows /\ Capturing(c) /\ ~Turned(c)
      BY <1>1, <1>7 DEF FilesInv, Capturing, Turned
    <2>2. \A d \in Captures : d # c => ~Capturing(d) /\ ~Turned(d)
      BY <2>1 DEF LoginFollows, Turned, Capturing
    <2>3. \A d \in Captures : d # c => ~Capturing(d)' /\ ~Turned(d)'
      BY <1>6, <2>2 DEF Turned, Capturing
    <2>4. (props.online = "false" <=> meant.off) /\ props.threshold # "-1"
      BY <2>1, <2>2 DEF LoginFollows, Offline
    <2>5. Turned(c)' /\ ~Half(c)'
      BY <1>4, <1>6 DEF Turned, Half
    <2> QED
      BY <1>1, <1>4, <1>6, <2>3, <2>4, <2>5 DEF LoginFollows
  <1> QED
    BY <1>1, <1>2, <1>4, <1>5, <1>7, CaptureMoves DEF PlansInv

\* A capture that has nothing to write comes to its next stage.
LEMMA CaptureGoesOn ==
  ASSUME FilesInv, NEW c \in Captures, NEW from, NEW to, AtStage(c, from), Does(c, Then(c, to, <<>>)),
         \/ from \in {"prepared", "starting", "waiting"} /\ to \in {"starting", "waiting", "ending"}
         \/ from = "restored" /\ to = "restarting",
         UNCHANGED <<props, yaml, backend, packRow, game, meant, excuse>>,
         session' \in {"none", "active", "error", "done"}
  PROVE  FilesInv'
  <1> DEFINE w == Then(c, to, <<>>)
  <1>1. doing[c].stage = from /\ doing[c].todo = <<>> /\ PlansInv
    BY DEF AtStage, FilesInv
  <1>2. w \in Tasks /\ w.stage = to /\ w.todo = <<>> /\ ~w.inside /\ w.old = doing[c].old
    <2>1. to \in FileStages /\ <<>> \in Seq(Pairs)
      BY NothingFacts DEF FileStages
    <2>2. doing[c] \in Tasks /\ ~doing[c].inside
      BY <1>1, JobFacts DEF PlansInv
    <2> QED
      BY <1>1, <2>1, <2>2 DEF Then, Tasks
  <1> HIDE DEF w
  <1>3. CapturePlan(w)
    BY <1>2 DEF CapturePlan
  <1>4. doing'[c] = w /\ \A d \in Captures : d # c => doing'[d] = doing[d]
    BY <1>1, <1>2, TaskMoves, JobFacts DEF w
  <1>5. ASSUME excuse' = {} PROVE LoginFollows'
    <2>1. Turned(c)' <=> Turned(c)
      BY <1>1, <1>2, <1>4 DEF Turned
    <2>2. (~Half(c)' /\ ~Half(c)) /\ Capturing(c)
      BY <1>1, <1>2, <1>4, NothingFacts DEF Half, Capturing
    <2> QED
      BY <1>2, <1>4, <1>5, <2>1, <2>2, LoginMoves DEF FilesInv
  <1> QED
    BY <1>1, <1>2, <1>3, <1>5, CaptureMoves DEF w, PlansInv

LEMMA RestartInv ==
  ASSUME FilesInv, NEW c \in Captures, NEW from, NEW to, Restart(c, from, to),
         \/ from = "prepared" /\ to = "starting"
         \/ from = "restored" /\ to = "restarting"
  PROVE  FilesInv'
  <1>1. AtStage(c, from) /\ UNCHANGED <<props, yaml, backend, packRow, session, meant, excuse, wishes>> /\ PlansInv
    BY DEF Restart, FilesInv
  <1>2. CASE doing["start"].stage # "off"
    BY <1>1, <1>2, CaptureGoesOn DEF Restart, PlansInv
  <1>3. CASE doing["start"].stage = "off"
    <2>1. game' = NoGame /\ doing' = [doing EXCEPT ![c].stage = to, !["start"] = Starting]
      BY <1>3 DEF Restart
    <2>2. doing[c] \in Tasks /\ doing[c].stage = from /\ doing[c].todo = <<>> /\ ~doing[c].inside
      BY <1>1, JobFacts DEF AtStage, PlansInv
    <2>3. /\ doing' \in [Jobs -> Tasks] /\ doing'["start"] = Starting /\ doing'[c] = [doing[c] EXCEPT !.stage = to]
          /\ \A u \in Jobs : u \notin {"start", c} => doing'[u] = doing[u]
      BY <1>1, <2>1, <2>2, JobFacts, StartingFacts DEF PlansInv, Tasks, FileStages
    <2>4. /\ doing'[c].stage = to /\ doing'[c].todo = <<>> /\ ~doing'[c].inside /\ doing'[c].old = doing[c].old
      BY <2>2, <2>3 DEF Tasks
    <2>5. \A u \in Jobs : (doing'[u].todo = <<>> => ~doing'[u].inside) /\ Plan(u, doing'[u])
      <3> TAKE u \in Jobs
      <3>1. CASE u = "start"
        BY <2>3, <3>1, StartingFacts DEF Plan
      <3>2. CASE u = c
        BY <2>4, <3>2, JobFacts DEF Plan, CapturePlan
      <3>3. CASE u \notin {"start", c}
        <4>1. doing'[u] = doing[u]
          BY <2>3, <3>3
        <4> QED
          BY <1>1, <4>1 DEF PlansInv
      <3> QED
        BY <3>1, <3>2, <3>3
    <2>6. PlansInv'
      BY <1>1, <2>3, <2>5 DEF PlansInv, Plan, StartPlan, PagePlan, CapturePlan
    <2>7. OfflineIsForwarded'
      BY <1>1, <2>1, GameFrame DEF FilesInv
    <2>8. ASSUME excuse' = {} PROVE PackFollows' /\ LoginFollows' /\ ForwardingFollows'
      <3>1. PackFollows /\ LoginFollows /\ ForwardingFollows
        BY <1>1, <2>8 DEF FilesInv
      <3>2. PackFollows'
        BY <1>1, <2>3, <3>1, JobFacts, PackFrame
      <3>3. ForwardingFollows'
        BY <1>1, <1>3, <2>3, <3>1, StartingFacts DEF ForwardingFollows, ByTheStart
      <3>4. Turned(c)' <=> Turned(c)
        BY <2>2, <2>4 DEF Turned
      <3>5. (~Half(c)' /\ ~Half(c)) /\ Capturing(c)
        BY <2>2, <2>4, NothingFacts DEF Half, Capturing
      <3>6. \A d \in Captures : d # c => doing'[d] = doing[d]
        BY <2>3, JobFacts
      <3>7. LoginFollows'
        BY <1>1, <2>4, <3>1, <3>4, <3>5, <3>6, LoginMoves
      <3> QED
        BY <3>2, <3>3, <3>7
    <2> QED
      BY <2>6, <2>7, <2>8 DEF FilesInv
  <1> QED
    BY <1>2, <1>3

LEMMA RestoreInv ==
  ASSUME FilesInv, NEW c \in Captures, Restore(c)
  PROVE  FilesInv'
  <1> DEFINE old == doing[c].old
             w == Then(c, "restored", PutBack(old))
  <1>1. /\ doing[c].stage = "ending" /\ doing[c].todo = <<>> /\ PlansInv
        /\ UNCHANGED <<props, yaml, backend, packRow, game, session, meant, excuse, wishes>>
    BY DEF Restore, AtStage, FilesInv
  <1>2. PutBack(old) \in Seq(Pairs) /\ Len(PutBack(old)) = 2
    BY CaptureSplits, Lengths, Zenon DEF Split
  <1>3. Does(c, w)
    <2>1. /\ old.online \in {"unset", "true", "false"}
          /\ old.threshold \in {"unset", "256", "-1"}
      BY <1>1, JobFacts DEF PlansInv, Tasks
    <2>2. <<"online", IF old.online = "unset" THEN "true" ELSE old.online>> = Login(old)
      BY <2>1 DEF Login, CheckOn, CheckOff
    <2>3. <<"threshold", IF old.threshold = "unset" THEN "256" ELSE old.threshold>> = Threshold(old)
      BY <2>1 DEF Threshold, Compress, Plain
    <2>4. Does(c, Then(c, "restored",
            <<<<"online", IF old.online = "unset" THEN "true" ELSE old.online>>,
              <<"threshold", IF old.threshold = "unset" THEN "256" ELSE old.threshold>>>>))
      BY DEF Restore
    <2> QED
      BY <2>2, <2>3, <2>4, Zenon DEF PutBack
  <1>4. w \in Tasks /\ w.stage = "restored" /\ w.todo = PutBack(old) /\ ~w.inside /\ w.old = old
    BY <1>1, <1>2, ThenFacts, JobFacts DEF FileStages
  <1> HIDE DEF w
  <1>5. CapturePlan(w)
    BY <1>4 DEF CapturePlan
  <1>6. doing'[c] = w /\ \A d \in Captures : d # c => doing'[d] = doing[d]
    BY <1>1, <1>3, <1>4, TaskMoves, JobFacts
  <1>7. ASSUME excuse' = {} PROVE LoginFollows'
    <2>1. PutBack(old) # <<>>
      BY <1>2
    <2>2. Turned(c)' /\ Turned(c) /\ Capturing(c)
      BY <1>1, <1>4, <1>6, <2>1 DEF Turned, Capturing
    <2>3. ~Half(c)' /\ ~Half(c)
      <3>1. Len(doing'[c].todo) = 2
        BY <1>2, <1>4, <1>6
      <3> QED
        BY <1>1, <3>1 DEF Half
    <2> QED
      BY <1>1, <1>4, <1>6, <1>7, <2>2, <2>3, LoginMoves DEF FilesInv
  <1> QED
    BY <1>1, <1>3, <1>4, <1>5, <1>7, CaptureMoves DEF PlansInv

LEMMA CaptureGoesOff ==
  ASSUME FilesInv, NEW c \in Captures, CaptureEnds(c) \/ PrepareRaises(c)
  PROVE  FilesInv'
  <1>1. /\ Does(c, NoTask) /\ session' \in {"error", "done"} /\ PlansInv
        /\ \/ doing[c].stage = "restarting" /\ excuse' = excuse
           \/ excuse' = excuse \cup {"raised"}
        /\ UNCHANGED <<props, yaml, backend, packRow, game, meant, wishes>>
    BY DEF CaptureEnds, PrepareRaises, AtStage, FilesInv
  <1>2. CapturePlan(NoTask)
    BY NoTaskFacts DEF CapturePlan
  <1>3. doing'[c] = NoTask /\ \A d \in Captures : d # c => doing'[d] = doing[d]
    BY <1>1, NoTaskFacts, TaskMoves, JobFacts
  <1>4. ASSUME excuse' = {} PROVE LoginFollows'
    <2>1. LoginFollows /\ doing[c].stage = "restarting"
      BY <1>1, <1>4 DEF FilesInv
    <2>2. \A d \in Captures : (Turned(d)' <=> Turned(d)) /\ (Half(d)' <=> Half(d)) /\ (Capturing(d)' => Capturing(d))
      <3> TAKE d \in Captures
      <3>1. CASE d = c
        BY <1>3, <2>1, <3>1, NoTaskFacts DEF Turned, Half, Capturing
      <3>2. CASE d # c
        <4>1. doing'[d] = doing[d]
          BY <1>3, <3>2
        <4> QED
          BY <4>1 DEF Turned, Half, Capturing
      <3> QED
        BY <3>1, <3>2
    <2>3. \A d \in Captures : Turned(d) => doing'[d] = doing[d]
      BY <1>3, <2>1 DEF Turned
    <2> QED
      BY <1>1, <2>1, <2>2, <2>3 DEF LoginFollows, Offline
  <1> QED
    BY <1>1, <1>2, <1>4, NoTaskFacts, CaptureMoves DEF PlansInv

LEMMA CaptureStepInv ==
  ASSUME FilesInv, NEW c \in Captures, CaptureStep(c)
  PROVE  FilesInv'
  <1>1. CASE Started(c)
    BY <1>1, CaptureGoesOn DEF Started, FilesInv, PlansInv
  <1>2. CASE Recorded(c)
    BY <1>2, CaptureGoesOn DEF Recorded, FilesInv, PlansInv
  <1>3. CASE Restart(c, "prepared", "starting")
    BY <1>3, RestartInv, Zenon
  <1>4. CASE Restart(c, "restored", "restarting")
    BY <1>4, RestartInv, Zenon
  <1> QED
    BY <1>1, <1>2, <1>3, <1>4, BeginCaptureInv, RememberInv, RestoreInv, CaptureGoesOff DEF CaptureStep
-----------------------------------------------------------------------------
(* The theorems                                                            *)

LEMMA FilesNext == FilesInv /\ [StartNext]_startVars => FilesInv'
  <1> SUFFICES ASSUME FilesInv, [StartNext]_startVars PROVE FilesInv'
    OBVIOUS
  <1>1. CASE \E t \in Jobs : ReadProps(t) \/ WriteProps(t) \/ WriteRefused(t)
    BY <1>1, ReadPropsInv, WritePropsInv, WriteRefusedInv
  <1>2. CASE StartBegins \/ Forward \/ Cleanup \/ CleanYaml \/ GameReads \/ GameStops \/ SwitchRole
    BY <1>2, StartBeginsInv, ForwardInv, CleanupInv, CleanYamlInv, GameReadsInv, GameStopsInv
  <1>3. CASE \/ \E p \in ServerPacks : SetPack(p)
             \/ DeletePack \/ PackStored \/ ToggleWhitelist \/ SaveSettings \/ PageEnds
             \/ \E v \in {"true", "false"} : EditLogin(v)
    BY <1>3, SettingsInv, PackStoredInv, PageEndsInv
  <1>4. CASE ManagerEnds
    BY <1>4, ManagerEndsInv
  <1>5. CASE \E c \in Captures : CaptureStep(c)
    BY <1>5, CaptureStepInv
  <1>6. CASE UNCHANGED startVars
    <2>1. /\ UNCHANGED <<props, yaml, packRow, doing, session, meant, excuse>> /\ backend' = backend /\ game' = game
      BY <1>6 DEF startVars
    <2>2. PlansInv'
      BY <2>1 DEF FilesInv, PlansInv, Plan, StartPlan, PagePlan, CapturePlan
    <2>3. OfflineIsForwarded'
      BY <2>1, GameFrame DEF FilesInv
    <2>4. excuse' = {} => PackFollows' /\ LoginFollows' /\ ForwardingFollows'
      BY <2>1, PackFrame, LoginFrame, ForwardingFrame DEF FilesInv
    <2> QED
      BY <2>2, <2>3, <2>4 DEF FilesInv
  <1> QED
    BY <1>1, <1>2, <1>3, <1>4, <1>5, <1>6, Zenon DEF StartNext

LEMMA FilesAlways == StartSpec => []FilesInv
  BY FilesInit, FilesNext, PTL DEF StartSpec

\* The types of the files a start reads, of the threads that write them and of what went wrong.
THEOREM StartFileTypesHold == StartSpec => []StartTypeOK
  <1>1. FilesInv => StartTypeOK
    BY DEF FilesInv, PlansInv, StartTypeOK, Tasks
  <1> QED
    BY <1>1, FilesAlways, PTL

\* No game runs without the login check unless Velocity stands before it, a capture is at work or
\* the owner wanted it so, for any number of captures, packs and requests, as long as nothing was
\* lost, refused or broken off: what apply_velocity_backend_forwarding promises.
THEOREM OfflineIsAlwaysForwarded == StartSpec => []OfflineIsForwarded
  <1>1. FilesInv => OfflineIsForwarded
    BY DEF FilesInv
  <1> QED
    BY <1>1, FilesAlways, PTL

\* When all captures are over, the file says of the login check what somebody meant and packets
\* are compressed; outside a change of the pack its address, its checksum and its row agree.
THEOREM SettingsAlwaysSurvive == StartSpec => []SettingsSurvive
  <1>1. FilesInv => SettingsSurvive
    <2> SUFFICES ASSUME FilesInv, excuse = {}
                 PROVE  /\ (\A c \in Captures : ~Capturing(c)) => (Offline(props) = meant.off /\ props.threshold # "-1")
                        /\ doing["page"].stage # "pack" => props.url = packRow /\ props.sha = packRow
      BY DEF SettingsSurvive, CaptureLeavesNoTrace, PackMatchesItsHash
    <2>1. PackFollows /\ LoginFollows /\ meant.off \in BOOLEAN
      BY DEF FilesInv, PlansInv
    <2>2. ASSUME \A c \in Captures : ~Capturing(c)
          PROVE  Offline(props) = meant.off /\ props.threshold # "-1"
      <3>1. \A c \in Captures : ~Turned(c)
        BY <2>2 DEF Capturing, Turned
      <3> QED
        BY <2>1, <3>1 DEF LoginFollows, Offline
    <2>3. doing["page"].stage # "pack" => props.url = packRow /\ props.sha = packRow
      BY <2>1 DEF PackFollows
    <2> QED
      BY <2>2, <2>3
  <1> QED
    BY <1>1, FilesAlways, PTL
-----------------------------------------------------------------------------
(***************************************************************************)
(* JavaRuntimes: what is known of a JDK is never more than what lies there.*)
(***************************************************************************)

\* The largest of some numbers up to a bound.
LEMMA MaxFacts ==
  ASSUME NEW n \in Nat, NEW S \in SUBSET (0..n), S # {}
  PROVE  Max(S) \in S /\ \A y \in S : y <= Max(S)
  <1> DEFINE T == {n - x : x \in S}
  <1>0. \A x \in S : x \in Nat /\ n - x \in Nat
    OBVIOUS
  <1>1. T \subseteq Nat /\ T # {}
    BY <1>0
  <1>2. PICK m \in T : \A y \in T : ~(<<y, m>> \in OpToRel(<, Nat))
    BY <1>1, NatLessThanWellFounded, WFMin
  <1>3. PICK x \in S : m = n - x
    OBVIOUS
  <1>4. \A y \in S : x >= y
    <2> TAKE y \in S
    <2>1. n - y \in T /\ n - y \in Nat /\ m \in Nat
      BY <1>1
    <2>2. ~(n - y < m)
      BY <1>2, <2>1 DEF OpToRel
    <2> QED
      BY <1>3, <2>2
  <1>5. Max(S) \in S /\ \A y \in S : Max(S) >= y
    BY <1>3, <1>4 DEF Max
  <1> QED
    BY <1>5

JavaStages ==
  {"rest", "scan", "scanned", "choose", "lock", "rescan", "rescanned", "fetch", "fetching",
   "settle", "settled", "assign", "ready"}
Calls == [pc : JavaStages, found : SUBSET (Paths \ Unscanned), seen : SUBSET Paths, got : Majors \cup {0}]
JavaRows == [id : 1..MaxProfiles, path : Paths, label : Majors \cup {0}]

JavaTypes ==
  /\ jdks \in [Paths -> Majors \cup {0}] /\ probed \in [Paths -> Majors \cup {0, Unasked}]
  /\ profiles \subseteq JavaRows /\ \A r, q \in profiles : r.id = q.id => r = q
  /\ installLock \in JavaUsers \cup {"free"} /\ fetched \in [Majors -> 0..1]
  /\ chosen \in [Keepers -> 0..MaxProfiles]
  /\ \A s \in Keepers : chosen[s] = 0 \/ \E r \in profiles : r.id = chosen[s]
  /\ user \in [JavaUsers -> Calls]

\* What is known of a path is at most what lies there.
ModestLabels ==
  /\ \A p \in Paths : jdks[p] # 0 /\ probed[p] # Unasked => probed[p] <= jdks[p]
  /\ \A r \in profiles : jdks[r.path] # 0 => r.label <= jdks[r.path]
  /\ \A p \in Majors : jdks[p] \in {0, p} /\ probed[p] \in {0, p, Unasked}
  /\ \A r \in profiles : r.path \in Majors => r.label \in {0, r.path}

\* What a scan found has answered.
FoundHasAnswered == \A u \in JavaUsers : \A p \in user[u].found : probed[p] \in Majors

\* Whoever looks again or downloads has the lock.
Guarded == {"rescan", "rescanned", "fetch", "fetching"}
LockIsHeld == \A u \in JavaUsers : user[u].pc \in Guarded => installLock = u

\* What was downloaded lies there, or is on its way.
DownloadsStay ==
  /\ \A u \in JavaUsers : user[u].pc = "fetching" => fetched[Need[u]] = 1 /\ jdks[Need[u]] = 0
  /\ \A m \in Majors : fetched[m] = 1 =>
       jdks[m] # 0 \/ \E u \in JavaUsers : user[u].pc = "fetching" /\ Need[u] = m

JavaInv == JavaTypes /\ ModestLabels /\ FoundHasAnswered /\ LockIsHeld /\ DownloadsStay /\ ReadyJavaFits
-----------------------------------------------------------------------------
LEMMA MajorFacts ==
  /\ Majors \subseteq Nat /\ 0 \notin Majors /\ Unasked \in Nat /\ Unasked \notin Majors \cup {0}
  /\ Majors \subseteq Paths /\ IsFiniteSet(Paths) /\ Need \in [JavaUsers -> Majors] /\ MaxProfiles \in Nat
  <1>1. PICK top \in Majors : \A m \in Majors : m <= top
    BY JavaAssumption
  <1>2. Majors \subseteq Nat /\ 0 \notin Majors /\ Majors \in SUBSET (0..top) /\ Majors # {} /\ top \in Nat
    BY <1>1, JavaAssumption
  <1>3. Max(Majors) \in Majors /\ \A y \in Majors : y <= Max(Majors)
    BY <1>2, MaxFacts
  <1>4. Unasked \in Nat /\ Unasked \notin Majors \cup {0}
    <2> DEFINE x == Max(Majors)
    <2>1. x \in Nat /\ \A y \in Majors : y \in Nat /\ y <= x
      BY <1>2, <1>3
    <2> HIDE DEF x
    <2>2. x + 1 \in Nat /\ x + 1 # 0 /\ \A y \in Majors : y # x + 1
      BY <2>1
    <2>3. Unasked = x + 1
      BY DEF Unasked, x
    <2> QED
      BY <2>2, <2>3
  <1> QED
    BY <1>2, <1>4, JavaAssumption DEF Paths

LEMMA MajorsAreNumbers == \A m \in Majors \cup {0} : m \in Nat
  BY MajorFacts

LEMMA NewIdFacts ==
  ASSUME JavaTypes
  PROVE  /\ NewProfileId \in Nat /\ NewProfileId >= 1
         /\ \A r \in profiles : r.id \in Nat /\ r.id < NewProfileId
  <1> DEFINE S == {r.id : r \in profiles} \cup {0}
  <1>1. S \in SUBSET (0..MaxProfiles) /\ S # {}
    BY MajorFacts DEF JavaTypes, JavaRows
  <1>2. Max(S) \in S /\ \A y \in S : y <= Max(S)
    BY <1>1, MaxFacts, MajorFacts
  <1>3. NewProfileId = 1 + Max(S)
    BY DEF NewProfileId
  <1>4. \A r \in profiles : r.id \in S
    OBVIOUS
  <1> DEFINE x == Max(S)
  <1>5. x \in 0..MaxProfiles /\ \A y \in S : y \in 0..MaxProfiles /\ y <= x
    BY <1>1, <1>2
  <1>6. NewProfileId = 1 + x
    BY <1>3
  <1> HIDE DEF S, x
  <1>7. x \in Nat /\ \A r \in profiles : r.id \in Nat /\ r.id <= x
    BY <1>4, <1>5, MajorFacts
  <1> QED
    BY <1>6, <1>7

\* A profile that fits leads to a Java that fits.
LEMMA FitFacts ==
  ASSUME JavaInv, NEW u \in JavaUsers, NEW r \in FitFor(Need[u])
  PROVE  r \in profiles /\ jdks[r.path] \in Majors /\ jdks[r.path] >= Need[u]
  <1>1. r \in profiles /\ jdks[r.path] # 0 /\ MajorOf(r) >= Need[u] /\ Need[u] \in Majors
    BY MajorFacts DEF FitFor
  <1>2. r.path \in Paths /\ r.label \in Majors \cup {0} /\ jdks[r.path] \in Majors
        /\ probed[r.path] \in Majors \cup {0, Unasked}
    BY <1>1 DEF JavaInv, JavaTypes, JavaRows
  <1>3. MajorOf(r) \in Nat /\ MajorOf(r) <= jdks[r.path]
    <2> DEFINE a == probed[r.path]
               b == jdks[r.path]
               l == r.label
    <2>1. (a # Unasked => a <= b) /\ l <= b /\ MajorOf(r) = IF l # 0 THEN l ELSE IF a = Unasked THEN b ELSE a
      BY <1>1, <1>2 DEF MajorOf, JavaInv, ModestLabels
    <2>2. b \in Nat /\ l \in Nat /\ a \in Nat
      <3>1. Majors \subseteq Nat /\ Unasked \in Nat
        BY MajorFacts
      <3>2. b \in Majors /\ l \in Majors \cup {0} /\ a \in Majors \cup {0, Unasked}
        BY <1>2
      <3> HIDE DEF a, b, l
      <3> QED
        BY <3>1, <3>2
    <2> HIDE DEF a, b, l
    <2>3. MajorOf(r) \in Nat /\ MajorOf(r) <= b
      BY <2>1, <2>2
    <2> QED
      BY <2>3 DEF b
  <1>4. Need[u] \in Nat /\ jdks[r.path] \in Nat
    BY <1>1, <1>2, MajorFacts
  <1>5. jdks[r.path] >= Need[u]
    <2> DEFINE b == jdks[r.path]
               d == Need[u]
               x == MajorOf(r)
    <2>1. b \in Nat /\ d \in Nat /\ x \in Nat /\ x >= d /\ x <= b
      BY <1>1, <1>3, <1>4
    <2> HIDE DEF b, d, x
    <2>2. b >= d
      BY <2>1
    <2> QED
      BY <2>2 DEF b, d
  <1> QED
    BY <1>1, <1>2, <1>5

\* A step of one call that finds no Java and brings none.
LEMMA CallMoves ==
  ASSUME JavaInv, NEW u \in JavaUsers, NEW w \in Calls, user' = [user EXCEPT ![u] = w],
         UNCHANGED <<jdks, probed, profiles, fetched>>, chosen' \in [Keepers -> 0..MaxProfiles],
         \A s \in Keepers : chosen'[s] = 0 \/ \E r \in profiles : r.id = chosen'[s],
         \A p \in w.found : probed[p] \in Majors,
         installLock' \in JavaUsers \cup {"free"},
         \A v \in JavaUsers : v # u /\ installLock = v => installLock' = v,
         w.pc \in Guarded => installLock' = u,
         w.pc # "fetching", user[u].pc # "fetching",
         w.pc = "ready" /\ u \in Seekers => w.got >= Need[u]
  PROVE  JavaInv'
  <1>1. user' \in [JavaUsers -> Calls] /\ user'[u] = w /\ \A v \in JavaUsers : v # u => user'[v] = user[v]
    BY DEF JavaInv, JavaTypes
  <1>2. JavaTypes'
    BY <1>1 DEF JavaInv, JavaTypes
  <1>3. ModestLabels'
    BY DEF JavaInv, ModestLabels
  <1>4. FoundHasAnswered'
    BY <1>1 DEF JavaInv, FoundHasAnswered
  <1>5. LockIsHeld'
    BY <1>1 DEF JavaInv, LockIsHeld
  <1>6. DownloadsStay'
    BY <1>1 DEF JavaInv, DownloadsStay
  <1>7. ReadyJavaFits'
    BY <1>1 DEF JavaInv, ReadyJavaFits, Seekers, JavaUsers
  <1> QED
    BY <1>2, <1>3, <1>4, <1>5, <1>6, <1>7 DEF JavaInv

LEMMA CallFacts ==
  ASSUME JavaInv, NEW u \in JavaUsers, NEW pc \in JavaStages
  PROVE  LET w == [user[u] EXCEPT !.pc = pc] IN
         /\ w \in Calls /\ w.pc = pc /\ w.found = user[u].found /\ w.got = user[u].got
         /\ \A p \in w.found : probed[p] \in Majors
  BY DEF JavaInv, JavaTypes, Calls, FoundHasAnswered

LEMMA RestingFacts ==
  ASSUME NEW pc \in JavaStages
  PROVE  LET w == [Resting EXCEPT !.pc = pc] IN w \in Calls /\ w.pc = pc /\ w.found = {}
  BY DEF Resting, Calls

LEMMA RestingIsCall == Resting \in Calls /\ Resting.pc = "rest" /\ Resting.found = {}
  BY DEF Resting, Calls, JavaStages
-----------------------------------------------------------------------------
LEMMA SeekInv ==
  ASSUME JavaInv, NEW u \in JavaUsers, Seek(u) \/ Visit(u)
  PROVE  JavaInv'
  <1>1. PICK pc \in {"scan", "choose", "lock", "settle"} : user' = [user EXCEPT ![u] = [Resting EXCEPT !.pc = pc]]
    BY DEF Seek, Visit
  <1>2. user[u].pc = "rest" /\ UNCHANGED <<jdks, probed, profiles, installLock, chosen, fetched>>
    BY DEF Seek, Visit
  <1> DEFINE w == [Resting EXCEPT !.pc = pc]
  <1>3. w \in Calls /\ w.pc = pc /\ w.found = {}
    BY RestingFacts DEF JavaStages
  <1> HIDE DEF w
  <1>4. user' = [user EXCEPT ![u] = w]
    BY <1>1 DEF w
  <1> QED
    BY <1>2, <1>3, <1>4, CallMoves DEF JavaInv, JavaTypes, Guarded

LEMMA ReadyMoves ==
  ASSUME JavaInv, NEW u \in JavaUsers, NEW r \in FitFor(Need[u]), Ready(u, r), user[u].pc # "fetching",
         UNCHANGED <<jdks, probed, profiles, installLock, fetched>>,
         chosen' \in [Keepers -> 0..MaxProfiles],
         \A s \in Keepers : chosen'[s] = 0 \/ \E q \in profiles : q.id = chosen'[s]
  PROVE  JavaInv'
  <1> DEFINE w == [user[u] EXCEPT !.pc = "ready", !.got = jdks[r.path]]
  <1>1. jdks[r.path] \in Majors /\ jdks[r.path] >= Need[u]
    BY FitFacts
  <1>2. /\ w \in Calls /\ w.pc = "ready" /\ w.got = jdks[r.path]
        /\ \A p \in w.found : probed[p] \in Majors
    <2>1. user[u] \in Calls /\ \A p \in user[u].found : probed[p] \in Majors
      BY DEF JavaInv, JavaTypes, FoundHasAnswered
    <2> QED
      BY <1>1, <2>1 DEF Calls, JavaStages
  <1>3. user' = [user EXCEPT ![u] = w]
    BY DEF Ready
  <1> HIDE DEF w
  <1> QED
    BY <1>1, <1>2, <1>3, CallMoves DEF JavaInv, JavaTypes, Guarded

LEMMA GotoMoves ==
  ASSUME JavaInv, NEW u \in JavaUsers, NEW pc \in JavaStages \ {"fetching", "ready"}, Goto(u, pc),
         user[u].pc # "fetching", UNCHANGED <<jdks, probed, profiles, chosen, fetched>>,
         installLock' \in JavaUsers \cup {"free"},
         \A v \in JavaUsers : v # u /\ installLock = v => installLock' = v,
         pc \in Guarded => installLock' = u
  PROVE  JavaInv'
  <1> DEFINE w == [user[u] EXCEPT !.pc = pc]
  <1>1. w \in Calls /\ w.pc = pc /\ \A p \in w.found : probed[p] \in Majors
    BY CallFacts
  <1>2. user' = [user EXCEPT ![u] = w]
    BY DEF Goto
  <1> HIDE DEF w
  <1> QED
    BY <1>1, <1>2, CallMoves DEF JavaInv, JavaTypes

LEMMA ChooseInv ==
  ASSUME JavaInv, NEW u \in JavaUsers, Choose(u)
  PROVE  JavaInv'
  <1>1. user[u].pc = "choose" /\ UNCHANGED <<jdks, probed, profiles, installLock, chosen, fetched>>
    BY DEF Choose
  <1>2. CASE u \in Keepers /\ OwnFits(u, Need[u])
    <2>1. PICK r \in FitFor(Need[u]) : r.id = chosen[u]
      BY <1>2 DEF OwnFits
    <2>2. r \in profiles /\ \A q \in profiles : q.id = chosen[u] => q = r
      BY <2>1, FitFacts DEF JavaInv, JavaTypes
    <2>3. Profile(chosen[u]) = r
      BY <2>1, <2>2 DEF Profile
    <2>4. Ready(u, r)
      BY <1>2, <2>3 DEF Choose
    <2> QED
      BY <1>1, <2>4, ReadyMoves DEF JavaInv, JavaTypes
  <1>3. CASE ~(u \in Keepers /\ OwnFits(u, Need[u]))
    <2>1. PICK pc \in {"assign", "lock"} : Goto(u, pc)
      BY <1>3 DEF Choose
    <2> QED
      BY <1>1, <2>1, GotoMoves DEF JavaStages, Guarded, JavaInv, JavaTypes
  <1> QED
    BY <1>2, <1>3

LEMMA LockInv ==
  ASSUME JavaInv, NEW u \in JavaUsers, Lock(u)
  PROVE  JavaInv'
  <1>1. /\ user[u].pc = "lock" /\ installLock = "free" /\ installLock' = u
        /\ UNCHANGED <<jdks, probed, profiles, chosen, fetched>>
    BY DEF Lock
  <1>2. PICK pc \in {"fetch", "rescan"} : Goto(u, pc)
    BY DEF Lock
  <1>3. \A v \in JavaUsers : v # "free"
    BY JavaAssumption
  <1> QED
    BY <1>1, <1>2, <1>3, GotoMoves DEF JavaStages

LEMMA AssignInv ==
  ASSUME JavaInv, NEW u \in JavaUsers, Assign(u)
  PROVE  JavaInv'
  <1>1. user[u].pc = "assign" /\ UNCHANGED <<jdks, probed, profiles, installLock, fetched>>
    BY DEF Assign
  <1>2. ASSUME u \in Keepers, NEW r \in Best(Need[u]), chosen' = [chosen EXCEPT ![u] = r.id], Ready(u, r)
        PROVE  JavaInv'
    <2>1. r \in FitFor(Need[u])
      BY DEF Best
    <2>2. r \in profiles /\ r.id \in 0..MaxProfiles
      BY <2>1, FitFacts, MajorFacts DEF JavaInv, JavaTypes, JavaRows
    <2>3. /\ chosen' \in [Keepers -> 0..MaxProfiles]
          /\ \A s \in Keepers : chosen'[s] = 0 \/ \E q \in profiles : q.id = chosen'[s]
      BY <1>2, <2>2 DEF JavaInv, JavaTypes
    <2> QED
      BY <1>1, <1>2, <2>1, <2>3, ReadyMoves
  <1>3. ASSUME NEW r \in FitFor(Need[u]), Ready(u, r), UNCHANGED chosen PROVE JavaInv'
    BY <1>1, <1>3, ReadyMoves DEF JavaInv, JavaTypes
  <1>4. CASE user' = [user EXCEPT ![u] = Resting] /\ UNCHANGED chosen
    BY <1>1, <1>4, RestingIsCall, CallMoves DEF JavaInv, JavaTypes, Guarded
  <1> QED
    BY <1>2, <1>3, <1>4 DEF Assign

\* Any call that does not download at the moment may end.
LEMMA GiveUpInv ==
  ASSUME JavaInv, NEW u \in JavaUsers, EnterFails(u) \/ Done(u)
  PROVE  JavaInv'
  <1>1. /\ user[u].pc # "fetching" /\ user' = [user EXCEPT ![u] = Resting]
        /\ installLock' = installLock \/ (installLock = u /\ installLock' = "free")
        /\ UNCHANGED <<jdks, probed, profiles, chosen, fetched>>
    BY DEF EnterFails, Done, GiveUp, Free
  <1> QED
    BY <1>1, RestingIsCall, CallMoves DEF JavaInv, JavaTypes, Guarded

LEMMA FetchInv ==
  ASSUME JavaInv, NEW u \in JavaUsers, Fetch(u)
  PROVE  JavaInv'
  <1>1. user[u].pc = "fetch" /\ UNCHANGED <<jdks, probed, profiles, chosen, edits>> /\ installLock = u
    BY DEF Fetch, JavaInv, LockIsHeld, Guarded
  <1>2. CASE u \in Seekers /\ FitFor(Need[u]) # {}
    <2>1. Goto(u, "assign") /\ installLock' = "free" /\ UNCHANGED fetched
      BY <1>1, <1>2 DEF Fetch, Free
    <2> QED
      BY <1>1, <2>1, GotoMoves DEF JavaStages, Guarded
  <1>3. CASE ~(u \in Seekers /\ FitFor(Need[u]) # {}) /\ Present(u)
    <2>1. Goto(u, "settle") /\ installLock' \in {u, "free"} /\ UNCHANGED fetched
      BY <1>1, <1>3 DEF Fetch, Free
    <2> QED
      BY <1>1, <2>1, GotoMoves DEF JavaStages, Guarded
  <1>4. CASE ~(u \in Seekers /\ FitFor(Need[u]) # {}) /\ ~Present(u)
    <2> DEFINE m == Need[u]
               w == [user[u] EXCEPT !.pc = "fetching"]
    <2>1. Goto(u, "fetching") /\ fetched' = [fetched EXCEPT ![m] = @ + 1] /\ installLock' = installLock
      BY <1>4 DEF Fetch
    <2>2. m \in Majors /\ jdks[m] = 0
      BY <1>4, MajorFacts DEF Present
    <2>3. \A v \in JavaUsers : v # u => user[v].pc \notin Guarded
      BY <1>1 DEF JavaInv, LockIsHeld
    <2>4. fetched[m] # 1
      BY <1>1, <2>2, <2>3 DEF JavaInv, DownloadsStay, Guarded
    <2>5. fetched' \in [Majors -> 0..1] /\ fetched'[m] = 1 /\ \A n \in Majors : n # m => fetched'[n] = fetched[n]
      BY <2>1, <2>2, <2>4 DEF JavaInv, JavaTypes
    <2>6. w \in Calls /\ w.pc = "fetching" /\ \A p \in w.found : probed[p] \in Majors
      BY CallFacts DEF JavaStages
    <2> HIDE DEF w
    <2>7. user' \in [JavaUsers -> Calls] /\ user'[u] = w /\ \A v \in JavaUsers : v # u => user'[v] = user[v]
      BY <2>1, <2>6 DEF JavaInv, JavaTypes, Goto, w
    <2>8. JavaTypes' /\ ModestLabels' /\ FoundHasAnswered'
      BY <1>1, <2>1, <2>5, <2>6, <2>7 DEF JavaInv, JavaTypes, ModestLabels, FoundHasAnswered
    <2>9. LockIsHeld' /\ ReadyJavaFits'
      BY <1>1, <2>1, <2>6, <2>7 DEF JavaInv, LockIsHeld, ReadyJavaFits, Seekers, JavaUsers
    <2>10. DownloadsStay'
      BY <1>1, <2>2, <2>3, <2>5, <2>6, <2>7 DEF JavaInv, DownloadsStay, Guarded
    <2> QED
      BY <2>8, <2>9, <2>10 DEF JavaInv
  <1> QED
    BY <1>2, <1>3, <1>4

LEMMA ScanInv ==
  ASSUME JavaInv, NEW u \in JavaUsers, Scan(u)
  PROVE  JavaInv'
  <1> DEFINE here == {p \in Paths \ Unscanned : jdks[p] # 0}
             w == user'[u]
  <1>1. PICK silent \in SUBSET {p \in here : probed[p] = Unasked} :
          /\ probed' = [p \in Paths |->
               IF p \in here /\ probed[p] = Unasked THEN (IF p \in silent THEN 0 ELSE jdks[p])
               ELSE probed[p]]
          /\ user' = [user EXCEPT ![u].pc = CASE @ = "scan" -> "scanned" [] @ = "rescan" -> "rescanned"
                                              [] OTHER -> "settled",
                                  ![u].found = {p \in here : probed'[p] # 0},
                                  ![u].seen = {r.path : r \in profiles}]
    BY DEF Scan
  <1>2. user[u].pc \in {"scan", "rescan", "settle"} /\ UNCHANGED <<jdks, profiles, installLock, chosen, fetched>>
    BY DEF Scan
  <1>3. /\ probed' \in [Paths -> Majors \cup {0, Unasked}]
        /\ \A p \in Paths : \/ probed'[p] = probed[p]
                            \/ /\ probed[p] = Unasked /\ jdks[p] # 0
                               /\ probed'[p] \in {0, jdks[p]}
        /\ \A p \in here : probed'[p] # Unasked
    <2>1. \A p \in Paths : jdks[p] \in Majors \cup {0} /\ probed[p] \in Majors \cup {0, Unasked} /\ jdks[p] # Unasked /\ Unasked # 0
      BY MajorFacts DEF JavaInv, JavaTypes
    <2> QED
      BY <1>1, <2>1
  <1>4. /\ user[u] \in Calls
        /\ {r.path : r \in profiles} \in SUBSET Paths /\ {p \in here : probed'[p] # 0} \in SUBSET (Paths \ Unscanned)
    BY DEF JavaInv, JavaTypes, JavaRows
  <1>5. /\ user' \in [JavaUsers -> Calls] /\ \A v \in JavaUsers : v # u => user'[v] = user[v]
        /\ w.pc \in {"scanned", "rescanned", "settled"} /\ (w.pc = "rescanned" => user[u].pc = "rescan")
        /\ w.found = {p \in here : probed'[p] # 0}
    <2> DEFINE pc == CASE user[u].pc = "scan" -> "scanned" [] user[u].pc = "rescan" -> "rescanned" [] OTHER -> "settled"
               found == {p \in here : probed'[p] # 0}
               seen == {r.path : r \in profiles}
               x == [user[u] EXCEPT !.pc = pc, !.found = found, !.seen = seen]
    <2>1. user' = [user EXCEPT ![u] = x]
      BY <1>1
    <2>2. pc \in {"scanned", "rescanned", "settled"} /\ (pc = "rescanned" => user[u].pc = "rescan")
      BY <1>2
    <2>3. found \in SUBSET (Paths \ Unscanned) /\ seen \in SUBSET Paths
      BY <1>4
    <2> HIDE DEF pc, found, seen
    <2>4. x \in Calls /\ x.pc = pc /\ x.found = found
      BY <1>4, <2>2, <2>3 DEF Calls, JavaStages
    <2> HIDE DEF x
    <2>5. user' \in [JavaUsers -> Calls] /\ user'[u] = x /\ \A v \in JavaUsers : v # u => user'[v] = user[v]
      BY <2>1, <2>4 DEF JavaInv, JavaTypes
    <2> QED
      BY <2>2, <2>4, <2>5 DEF found
  <1> HIDE DEF w
  <1>6. JavaTypes'
    BY <1>2, <1>3, <1>5 DEF JavaInv, JavaTypes
  <1>7. ModestLabels'
    <2>1. \A p \in Paths : jdks'[p] # 0 /\ probed'[p] # Unasked => probed'[p] <= jdks'[p]
      <3> TAKE p \in Paths
      <3>1. jdks[p] \in Majors \cup {0}
        BY DEF JavaInv, JavaTypes
      <3>2. jdks[p] \in Nat /\ jdks' = jdks
        BY <1>2, <3>1, MajorsAreNumbers
      <3> QED
        BY <1>3, <3>2 DEF JavaInv, ModestLabels
    <2>2. \A p \in Majors : probed'[p] \in {0, p, Unasked}
      BY <1>3, MajorFacts DEF JavaInv, ModestLabels
    <2> QED
      BY <1>2, <2>1, <2>2 DEF JavaInv, ModestLabels
  <1>8. FoundHasAnswered'
    <2>1. \A p \in w.found : probed'[p] \in Majors
      BY <1>3, <1>5, MajorFacts
    <2>2. \A v \in JavaUsers : v # u => \A p \in user[v].found : probed'[p] \in Majors
      <3> TAKE v \in JavaUsers
      <3> HAVE v # u
      <3> TAKE p \in user[v].found
      <3>1. probed[p] \in Majors /\ p \in Paths
        BY DEF JavaInv, FoundHasAnswered, JavaTypes, Calls
      <3> QED
        BY <1>3, <3>1, MajorFacts
    <2> QED
      BY <1>5, <2>1, <2>2 DEF FoundHasAnswered, w
  <1>9. LockIsHeld'
    <2>1. w.pc \in Guarded => installLock' = u
      BY <1>2, <1>5 DEF JavaInv, LockIsHeld, Guarded
    <2> QED
      BY <1>2, <1>5, <2>1 DEF JavaInv, LockIsHeld, w
  <1>10. DownloadsStay' /\ ReadyJavaFits'
    <2>1. \A v \in JavaUsers : user'[v].pc = "fetching" <=> user[v].pc = "fetching"
      BY <1>2, <1>5 DEF w
    <2>2. \A v \in JavaUsers : user'[v].pc = "ready" => v # u /\ user'[v] = user[v]
      BY <1>5 DEF w
    <2>3. DownloadsStay'
      BY <1>2, <2>1 DEF JavaInv, DownloadsStay
    <2> QED
      BY <2>2, <2>3 DEF JavaInv, ReadyJavaFits, JavaUsers
  <1> QED
    BY <1>6, <1>7, <1>8, <1>9, <1>10 DEF JavaInv

\* The new rows are none of the old ones, and say what their paths answered.
LEMMA EnteredFacts ==
  ASSUME JavaInv, NEW u \in JavaUsers, NEW news \in SUBSET user[u].found, NEW order \in Orders(news),
         NewProfileId + Cardinality(news) <= MaxProfiles + 1
  PROVE  LET rows == Labelled(u) \cup Entries(news, order, NewProfileId - 1, probed) IN
         /\ rows \subseteq JavaRows /\ \A r, q \in rows : r.id = q.id => r = q
         /\ \A r \in profiles : \E q \in rows : q.id = r.id
         /\ \A q \in rows : \/ q.path \in user[u].found /\ q.label = probed[q.path]
                            \/ \E r \in profiles : q.path = r.path /\ q.label = r.label
  <1> DEFINE L == Labelled(u)
             N == Entries(news, order, NewProfileId - 1, probed)
             Row(r) == IF r.path \in user[u].found /\ probed[r.path] # 0
                       THEN [r EXCEPT !.label = probed[r.path]] ELSE r
             New(p) == [id |-> NewProfileId - 1 + order[p], path |-> p, label |-> probed[p]]
  <1>1. /\ profiles \subseteq JavaRows /\ \A r, q \in profiles : r.id = q.id => r = q
        /\ \A p \in user[u].found : p \in Paths /\ probed[p] \in Majors
    BY DEF JavaInv, JavaTypes, FoundHasAnswered, Calls
  <1>2. L = {Row(r) : r \in profiles} /\ N = {New(p) : p \in news}
    BY DEF Labelled, Entries
  <1>3. \A r \in profiles : /\ Row(r) \in JavaRows /\ Row(r).id = r.id /\ Row(r).path = r.path
                            /\ \/ r.path \in user[u].found /\ Row(r).label = probed[r.path]
                               \/ Row(r).label = r.label
    BY <1>1 DEF JavaRows
  <1> HIDE DEF Row
  <1>4. \A p \in news : /\ order[p] \in Nat /\ 1 <= order[p] /\ order[p] <= Cardinality(news)
                        /\ \A q \in news : order[p] = order[q] => p = q
    <2>1. IsFiniteSet(news)
      <3>1. news \in SUBSET Paths
        BY <1>1
      <3> QED
        BY <3>1, MajorFacts, FS_Subset
    <2>2. Cardinality(news) \in Nat
      BY <2>1, FS_CardinalityType
    <2> QED
      BY <2>2 DEF Orders
  <1>5. Cardinality(news) \in Nat
    <2>1. news \in SUBSET Paths
      BY <1>1
    <2> QED
      BY <2>1, MajorFacts, FS_Subset, FS_CardinalityType
  <1>6. NewProfileId \in Nat /\ NewProfileId >= 1 /\ \A r \in profiles : r.id \in Nat /\ r.id < NewProfileId
    BY NewIdFacts DEF JavaInv
  <1>7. \A p \in news : /\ New(p).id \in 1..MaxProfiles /\ New(p).id >= NewProfileId /\ New(p).path = p
                        /\ New(p).label = probed[p] /\ \A q \in news : New(p).id = New(q).id => p = q
    <2> TAKE p \in news
    <2> DEFINE k == NewProfileId
               o == order[p]
    <2>1. k \in Nat /\ k >= 1 /\ o \in Nat /\ 1 <= o /\ o <= Cardinality(news) /\ k + Cardinality(news) <= MaxProfiles + 1
      BY <1>4, <1>6
    <2> HIDE DEF k, o
    <2>2. k - 1 + o \in 1..MaxProfiles /\ k - 1 + o >= k
      BY <1>5, <2>1, MajorFacts
    <2>3. New(p).id = k - 1 + o /\ New(p).path = p /\ New(p).label = probed[p]
      BY DEF k, o
    <2>4. \A q \in news : New(p).id = New(q).id => p = q
      <3> TAKE q \in news
      <3> DEFINE x == order[q]
      <3>1. x \in Nat /\ New(q).id = k - 1 + x /\ (o = x => p = q)
        BY <1>4 DEF k, o
      <3> HIDE DEF x, New
      <3>2. k - 1 + o = k - 1 + x => o = x
        BY <2>1, <3>1
      <3> QED
        BY <2>3, <3>1, <3>2
    <2> QED
      BY <2>2, <2>3, <2>4 DEF k
  <1>8. \A p \in news : New(p) \in JavaRows
    <2> TAKE p \in news
    <2>1. NewProfileId - 1 + order[p] \in 1..MaxProfiles /\ p \in Paths /\ probed[p] \in Majors
      BY <1>1, <1>7
    <2> QED
      BY <2>1 DEF JavaRows
  <1> HIDE DEF New
  <1>9. \A q \in L : \E r \in profiles : q = Row(r)
    BY <1>2
  <1>10. \A q \in N : \E p \in news : q = New(p)
    BY <1>2
  <1> HIDE DEF L, N
  <1>11. L \cup N \subseteq JavaRows
    BY <1>3, <1>8, <1>9, <1>10
  <1>12. ASSUME NEW r \in L \cup N, NEW q \in L \cup N, r.id = q.id PROVE r = q
    <2>1. \A x \in L : x.id \in Nat /\ x.id < NewProfileId
      BY <1>3, <1>6, <1>9
    <2>2. \A x \in N : x.id \in Nat /\ x.id >= NewProfileId
      BY <1>7, <1>10
    <2>3. CASE r \in L /\ q \in L
      BY <1>1, <1>3, <1>9, <1>12, <2>3
    <2>4. CASE r \in N /\ q \in N
      BY <1>7, <1>10, <1>12, <2>4
    <2>5. ASSUME NEW x \in L, NEW y \in N PROVE x.id # y.id
      BY <1>6, <2>1, <2>2
    <2> QED
      BY <1>12, <2>3, <2>4, <2>5
  <1>13. \A r \in profiles : \E q \in L \cup N : q.id = r.id
    BY <1>2, <1>3
  <1>14. \A q \in L \cup N : \/ q.path \in user[u].found /\ q.label = probed[q.path]
                             \/ \E r \in profiles : q.path = r.path /\ q.label = r.label
    BY <1>3, <1>7, <1>9, <1>10
  <1> QED
    BY <1>11, <1>12, <1>13, <1>14 DEF L, N

LEMMA EnterInv ==
  ASSUME JavaInv, NEW u \in JavaUsers, Enter(u)
  PROVE  JavaInv'
  <1> DEFINE news == user[u].found \ user[u].seen
             old == user[u].pc
             pc == CASE old = "scanned" -> "choose" [] old = "rescanned" -> "fetch"
                     [] OTHER -> IF u \in Visitors THEN "rest" ELSE "assign"
             w == [user[u] EXCEPT !.pc = pc, !.found = {}, !.seen = {}]
  <1>1. /\ old \in {"scanned", "rescanned", "settled"} /\ NewProfileId + Cardinality(news) <= MaxProfiles + 1
        /\ UNCHANGED <<jdks, probed, chosen, fetched, edits>>
        /\ installLock' = (IF old = "settled" /\ installLock = u THEN "free" ELSE installLock)
        /\ user' = [user EXCEPT ![u] = w]
    BY DEF Enter
  <1>2. PICK order \in Orders(news) : profiles' = Labelled(u) \cup Entries(news, order, NewProfileId - 1, probed)
    BY DEF Enter
  <1>3. /\ profiles' \subseteq JavaRows /\ \A r, q \in profiles' : r.id = q.id => r = q
        /\ \A r \in profiles : \E q \in profiles' : q.id = r.id
        /\ \A q \in profiles' : \/ q.path \in user[u].found /\ q.label = probed[q.path]
                                \/ \E r \in profiles : q.path = r.path /\ q.label = r.label
    <2>1. news \in SUBSET user[u].found
      OBVIOUS
    <2>2. NewProfileId + Cardinality(news) <= MaxProfiles + 1
      BY <1>1
    <2> HIDE DEF news
    <2> QED
      BY <1>2, <2>1, <2>2, EnteredFacts
  <1>4. pc \in {"choose", "fetch", "rest", "assign"} /\ (pc = "fetch" => old = "rescanned")
    BY <1>1
  <1> HIDE DEF pc
  <1>5. w \in Calls /\ w.pc = pc /\ w.found = {}
    BY <1>4 DEF JavaInv, JavaTypes, Calls, JavaStages
  <1> HIDE DEF w
  <1>6. user' \in [JavaUsers -> Calls] /\ user'[u] = w /\ \A v \in JavaUsers : v # u => user'[v] = user[v]
    BY <1>1, <1>5 DEF JavaInv, JavaTypes
  <1>7. JavaTypes'
    <2>1. \A s \in Keepers : chosen'[s] = 0 \/ \E r \in profiles' : r.id = chosen'[s]
      BY <1>1, <1>3 DEF JavaInv, JavaTypes
    <2>2. installLock' \in JavaUsers \cup {"free"}
      BY <1>1 DEF JavaInv, JavaTypes
    <2> QED
      BY <1>1, <1>3, <1>6, <2>1, <2>2 DEF JavaInv, JavaTypes
  <1>8. ModestLabels'
    <2>1. \A q \in profiles' : jdks'[q.path] # 0 => q.label <= jdks'[q.path]
      <3> TAKE q \in profiles'
      <3> HAVE jdks'[q.path] # 0
      <3>1. CASE q.path \in user[u].found /\ q.label = probed[q.path]
        <4>1. q.path \in Paths /\ probed[q.path] # Unasked
          BY <1>3, <3>1, MajorFacts DEF JavaRows, JavaInv, FoundHasAnswered
        <4> QED
          BY <1>1, <3>1, <4>1 DEF JavaInv, ModestLabels
      <3>2. CASE \E r \in profiles : q.path = r.path /\ q.label = r.label
        BY <1>1, <3>2 DEF JavaInv, ModestLabels
      <3> QED
        BY <1>3, <3>1, <3>2
    <2>2. \A q \in profiles' : q.path \in Majors => q.label \in {0, q.path}
      <3> TAKE q \in profiles'
      <3> HAVE q.path \in Majors
      <3>1. CASE q.path \in user[u].found /\ q.label = probed[q.path]
        <4>1. probed[q.path] # Unasked
          BY <3>1, MajorFacts DEF JavaInv, FoundHasAnswered
        <4> QED
          BY <3>1, <4>1 DEF JavaInv, ModestLabels
      <3>2. CASE \E r \in profiles : q.path = r.path /\ q.label = r.label
        BY <3>2 DEF JavaInv, ModestLabels
      <3> QED
        BY <1>3, <3>1, <3>2
    <2> QED
      BY <1>1, <2>1, <2>2 DEF JavaInv, ModestLabels
  <1>9. FoundHasAnswered'
    BY <1>1, <1>5, <1>6 DEF JavaInv, FoundHasAnswered
  <1>10. LockIsHeld'
    <2>1. pc = "fetch" => installLock' = u
      BY <1>1, <1>4 DEF JavaInv, LockIsHeld, Guarded
    <2>2. \A v \in JavaUsers : v # u /\ installLock = v => installLock' = v
      BY <1>1
    <2> QED
      BY <1>4, <1>5, <1>6, <2>1, <2>2 DEF JavaInv, LockIsHeld, Guarded
  <1>11. DownloadsStay'
    <2>1. \A v \in JavaUsers : user'[v].pc = "fetching" <=> user[v].pc = "fetching"
      BY <1>1, <1>4, <1>5, <1>6
    <2> QED
      BY <1>1, <2>1 DEF JavaInv, DownloadsStay
  <1>12. ReadyJavaFits'
    BY <1>4, <1>5, <1>6 DEF JavaInv, ReadyJavaFits, JavaUsers
  <1> QED
    BY <1>7, <1>8, <1>9, <1>10, <1>11, <1>12 DEF JavaInv

\* Something newer comes to lie at one path.
LEMMA ArrivesLabels ==
  ASSUME JavaInv, NEW p \in Paths, NEW m \in Majors, jdks' = [jdks EXCEPT ![p] = m],
         UNCHANGED <<probed, profiles>>, (p \notin Majors /\ Newer(p, m)) \/ p = m
  PROVE  ModestLabels' /\ jdks' \in [Paths -> Majors \cup {0}]
  <1>1. /\ jdks' \in [Paths -> Majors \cup {0}] /\ jdks'[p] = m /\ m \in Nat /\ m # Unasked
        /\ \A q \in Paths : q # p => jdks'[q] = jdks[q]
    BY MajorFacts DEF JavaInv, JavaTypes
  <1>2. \A r \in profiles : r.path \in Paths
    BY DEF JavaInv, JavaTypes, JavaRows
  <1>3. /\ probed[p] # Unasked => probed[p] <= m
        /\ \A r \in profiles : r.path = p => r.label <= m
    <2>1. CASE p \notin Majors /\ Newer(p, m)
      BY <1>1, <2>1 DEF Newer
    <2>2. CASE p = m
      <3>1. probed[m] \in {0, m, Unasked} /\ \A r \in profiles : r.path = m => r.label \in {0, m}
        BY DEF JavaInv, ModestLabels
      <3> QED
        BY <1>1, <2>2, <3>1
    <2> QED
      BY <2>1, <2>2
  <1>4. \A q \in Majors : jdks'[q] \in {0, q}
    BY <1>1, MajorFacts DEF JavaInv, ModestLabels
  <1>5. \A q \in Paths : jdks'[q] # 0 /\ probed'[q] # Unasked => probed'[q] <= jdks'[q]
    BY <1>1, <1>3 DEF JavaInv, ModestLabels
  <1>6. \A r \in profiles : jdks'[r.path] # 0 => r.label <= jdks'[r.path]
    BY <1>1, <1>2, <1>3 DEF JavaInv, ModestLabels
  <1> QED
    BY <1>1, <1>4, <1>5, <1>6 DEF JavaInv, ModestLabels

\* The end of a download, for better or worse.
LEMMA FetchedInv ==
  ASSUME JavaInv, NEW u \in JavaUsers, Fetched(u) \/ FetchFails(u)
  PROVE  JavaInv'
  <1> DEFINE m == Need[u]
             w == user'[u]
  <1>1. user[u].pc = "fetching" /\ UNCHANGED <<probed, profiles, chosen, edits>> /\ m \in Majors
    BY MajorFacts DEF Fetched, FetchFails
  <1>2. /\ fetched[m] = 1 /\ jdks[m] = 0 /\ installLock = u
        /\ \A v \in JavaUsers : v # u => user[v].pc \notin Guarded
    BY <1>1 DEF JavaInv, DownloadsStay, LockIsHeld, Guarded
  <1>3. /\ user' \in [JavaUsers -> Calls] /\ \A v \in JavaUsers : v # u => user'[v] = user[v]
        /\ w.pc \in {"settle", "rest"} /\ \A p \in w.found : probed'[p] \in Majors
        /\ installLock' \in {u, "free"}
    <2>1. CASE Goto(u, "settle")
      <3> DEFINE x == [user[u] EXCEPT !.pc = "settle"]
      <3>1. x \in Calls /\ x.pc = "settle" /\ \A p \in x.found : probed[p] \in Majors
        BY CallFacts DEF JavaStages
      <3>2. user' = [user EXCEPT ![u] = x]
        BY <2>1 DEF Goto
      <3> HIDE DEF x
      <3>3. user' \in [JavaUsers -> Calls] /\ user'[u] = x /\ \A v \in JavaUsers : v # u => user'[v] = user[v]
        BY <3>1, <3>2 DEF JavaInv, JavaTypes
      <3>4. installLock' \in {u, "free"}
        BY <1>2 DEF Fetched, FetchFails, Free, GiveUp
      <3> QED
        BY <1>1, <3>1, <3>3, <3>4
    <2>2. CASE GiveUp(u)
      BY <1>1, <1>2, <2>2, RestingIsCall DEF GiveUp, Free, JavaInv, JavaTypes
    <2> QED
      BY <2>1, <2>2 DEF Fetched, FetchFails
  <1>4. /\ jdks' \in [Paths -> Majors \cup {0}] /\ ModestLabels' /\ fetched' \in [Majors -> 0..1]
        /\ \A n \in Majors : n # m => fetched'[n] = fetched[n] /\ jdks'[n] = jdks[n]
        /\ fetched'[m] = 1 => jdks'[m] # 0
    <2>1. CASE Fetched(u)
      <3>1. jdks' = [jdks EXCEPT ![m] = m] /\ fetched' = fetched
        BY <2>1 DEF Fetched
      <3>2. m \in Paths
        BY <1>1, MajorFacts
      <3> QED
        BY <1>1, <3>1, <3>2, ArrivesLabels, MajorFacts DEF JavaInv, JavaTypes
    <2>2. CASE FetchFails(u)
      <3>1. fetched' = [fetched EXCEPT ![m] = @ - 1]
        BY <2>2 DEF FetchFails
      <3>2. fetched' \in [Majors -> 0..1] /\ fetched'[m] = 0 /\ \A n \in Majors : n # m => fetched'[n] = fetched[n]
        BY <1>1, <1>2, <3>1 DEF JavaInv, JavaTypes
      <3>3. CASE jdks' = jdks
        BY <1>1, <3>2, <3>3 DEF JavaInv, JavaTypes, ModestLabels
      <3>4. ASSUME NEW p \in Elsewhere, Newer(p, m), jdks' = [jdks EXCEPT ![p] = m]
            PROVE  jdks' \in [Paths -> Majors \cup {0}] /\ ModestLabels'
        <4>1. p \in Paths /\ p \notin Majors
          BY JavaAssumption DEF Paths
        <4> QED
          BY <1>1, <3>4, <4>1, ArrivesLabels
      <3>5. ASSUME NEW p \in Elsewhere, Newer(p, m), jdks' = [jdks EXCEPT ![p] = m]
            PROVE  \A n \in Majors : jdks'[n] = jdks[n]
        BY <3>5, JavaAssumption DEF JavaInv, JavaTypes, Paths
      <3> QED
        BY <2>2, <3>2, <3>3, <3>4, <3>5 DEF FetchFails
    <2> QED
      BY <2>1, <2>2
  <1> HIDE DEF w
  <1>5. JavaTypes'
    BY <1>1, <1>3, <1>4 DEF JavaInv, JavaTypes
  <1>6. FoundHasAnswered'
    BY <1>1, <1>3 DEF JavaInv, FoundHasAnswered, w
  <1>7. LockIsHeld'
    BY <1>2, <1>3 DEF LockIsHeld, Guarded, w
  <1>8. DownloadsStay'
    <2>1. \A v \in JavaUsers : user'[v].pc # "fetching"
      BY <1>2, <1>3 DEF Guarded, w
    <2>2. \A v \in JavaUsers : user[v].pc = "fetching" => v = u
      BY <1>2 DEF Guarded
    <2>3. ASSUME NEW n \in Majors, fetched'[n] = 1 PROVE jdks'[n] # 0
      BY <1>4, <2>2, <2>3 DEF JavaInv, DownloadsStay
    <2> QED
      BY <2>1, <2>3 DEF DownloadsStay
  <1>9. ReadyJavaFits'
    BY <1>3 DEF JavaInv, ReadyJavaFits, JavaUsers, w
  <1> QED
    BY <1>4, <1>5, <1>6, <1>7, <1>8, <1>9 DEF JavaInv

\* What is done by hand leaves the calls alone.
LEMMA ByHandInv ==
  ASSUME JavaInv, JavaTypes', ModestLabels', UNCHANGED <<probed, installLock, user>>, DownloadsStay'
  PROVE  JavaInv'
  BY DEF JavaInv, FoundHasAnswered, LockIsHeld, ReadyJavaFits

LEMMA CreateProfileInv ==
  ASSUME JavaInv, NEW p \in Elsewhere \cup Unscanned, CreateProfile(p)
  PROVE  JavaInv'
  <1>1. UNCHANGED <<jdks, probed, installLock, chosen, user, fetched>> /\ NewProfileId <= MaxProfiles
    BY DEF CreateProfile
  <1>2. PICK label \in {0, jdks[p]} : profiles' = profiles \cup {[id |-> NewProfileId, path |-> p, label |-> label]}
    BY DEF CreateProfile
  <1> DEFINE row == [id |-> NewProfileId, path |-> p, label |-> label]
  <1>3. p \in Paths /\ p \notin Majors /\ label \in Majors \cup {0}
    BY JavaAssumption DEF Paths, JavaInv, JavaTypes
  <1>4. NewProfileId \in 1..MaxProfiles /\ \A r \in profiles : r.id < NewProfileId /\ r.id \in Nat
    BY <1>1, NewIdFacts, MajorFacts DEF JavaInv
  <1>5. row \in JavaRows /\ row.id = NewProfileId /\ row.path = p /\ row.label = label
    BY <1>3, <1>4 DEF JavaRows
  <1> HIDE DEF row
  <1>6. profiles' = profiles \cup {row}
    BY <1>2 DEF row
  <1>7. \A r, q \in profiles' : r.id = q.id => r = q
    <2>1. \A r \in profiles : r.id # row.id
      BY <1>4, <1>5
    <2> QED
      BY <1>6, <2>1 DEF JavaInv, JavaTypes
  <1>8. JavaTypes'
    BY <1>1, <1>5, <1>6, <1>7 DEF JavaInv, JavaTypes
  <1>9. ModestLabels'
    <2>1. jdks[p] # 0 => row.label <= jdks[p]
      <3>1. jdks[p] \in Majors \cup {0}
        BY <1>3 DEF JavaInv, JavaTypes
      <3>2. jdks[p] \in Nat
        BY <3>1, MajorsAreNumbers
      <3> QED
        BY <1>5, <3>2
    <2> QED
      BY <1>1, <1>3, <1>5, <1>6, <2>1 DEF JavaInv, ModestLabels
  <1> QED
    BY <1>1, <1>8, <1>9, ByHandInv DEF JavaInv, DownloadsStay

LEMMA DeleteProfileInv ==
  ASSUME JavaInv, NEW i \in 1..MaxProfiles, DeleteProfile(i)
  PROVE  JavaInv'
  <1>1. /\ UNCHANGED <<jdks, probed, installLock, user, fetched>> /\ profiles' = {r \in profiles : r.id # i}
        /\ chosen' = [s \in Keepers |-> IF chosen[s] = i THEN 0 ELSE chosen[s]]
    BY DEF DeleteProfile
  <1>2. chosen' \in [Keepers -> 0..MaxProfiles]
    BY <1>1, MajorFacts DEF JavaInv, JavaTypes
  <1>3. \A s \in Keepers : chosen'[s] = 0 \/ \E r \in profiles' : r.id = chosen'[s]
    BY <1>1 DEF JavaInv, JavaTypes
  <1>4. JavaTypes'
    BY <1>1, <1>2, <1>3 DEF JavaInv, JavaTypes
  <1>5. ModestLabels' /\ DownloadsStay'
    BY <1>1 DEF JavaInv, ModestLabels, DownloadsStay
  <1> QED
    BY <1>1, <1>4, <1>5, ByHandInv

LEMMA SettingsNameJavaInv ==
  ASSUME JavaInv, NEW s \in Keepers, SettingsNameJava(s)
  PROVE  JavaInv'
  <1>1. PICK r \in profiles : chosen' = [chosen EXCEPT ![s] = r.id]
    BY DEF SettingsNameJava
  <1>2. UNCHANGED <<jdks, probed, profiles, installLock, user, fetched>>
    BY DEF SettingsNameJava
  <1>3. r.id \in 0..MaxProfiles
    BY MajorFacts DEF JavaInv, JavaTypes, JavaRows
  <1>4. JavaTypes'
    BY <1>1, <1>2, <1>3 DEF JavaInv, JavaTypes
  <1>5. ModestLabels' /\ DownloadsStay'
    BY <1>2 DEF JavaInv, ModestLabels, DownloadsStay
  <1> QED
    BY <1>2, <1>4, <1>5, ByHandInv

LEMMA ArrivesInv ==
  ASSUME JavaInv, NEW p \in Elsewhere \cup Unscanned, NEW m \in Majors, Arrives(p, m)
  PROVE  JavaInv'
  <1>1. /\ Newer(p, m) /\ jdks' = [jdks EXCEPT ![p] = m]
        /\ UNCHANGED <<probed, profiles, installLock, chosen, user, fetched>>
    BY DEF Arrives
  <1>2. p \in Paths /\ p \notin Majors
    BY JavaAssumption DEF Paths
  <1>3. ModestLabels' /\ jdks' \in [Paths -> Majors \cup {0}]
    BY <1>1, <1>2, ArrivesLabels
  <1>4. JavaTypes'
    BY <1>1, <1>3 DEF JavaInv, JavaTypes
  <1>5. DownloadsStay'
    <2>1. \A n \in Majors : jdks'[n] = jdks[n]
      BY <1>1, <1>2, MajorFacts DEF JavaInv, JavaTypes
    <2> QED
      BY <1>1, <2>1, MajorFacts DEF JavaInv, DownloadsStay
  <1> QED
    BY <1>1, <1>3, <1>4, <1>5, ByHandInv

LEMMA RemovedByHandInv ==
  ASSUME JavaInv, NEW p \in Paths, RemovedByHand(p)
  PROVE  JavaInv'
  <1>1. /\ jdks' = [jdks EXCEPT ![p] = 0] /\ fetched' = [m \in Majors |-> IF m = p THEN 0 ELSE fetched[m]]
        /\ \A u \in JavaUsers : user[u].pc # "fetching"
        /\ UNCHANGED <<probed, profiles, installLock, chosen, user>>
    BY DEF RemovedByHand
  <1>2. jdks' \in [Paths -> Majors \cup {0}] /\ jdks'[p] = 0 /\ \A q \in Paths : q # p => jdks'[q] = jdks[q]
    BY <1>1 DEF JavaInv, JavaTypes
  <1>3. JavaTypes'
    BY <1>1, <1>2 DEF JavaInv, JavaTypes
  <1>4. ModestLabels'
    <2>1. \A r \in profiles : r.path \in Paths
      BY DEF JavaInv, JavaTypes, JavaRows
    <2> QED
      BY <1>1, <1>2, <2>1, MajorFacts DEF JavaInv, ModestLabels
  <1>5. DownloadsStay'
    <2>1. \A m \in Majors : fetched'[m] = 1 => m # p /\ fetched[m] = 1
      BY <1>1
    <2>2. \A m \in Majors : fetched'[m] = 1 => jdks'[m] # 0
      BY <1>1, <1>2, <2>1, MajorFacts DEF JavaInv, DownloadsStay
    <2> QED
      BY <1>1, <2>2 DEF DownloadsStay
  <1> QED
    BY <1>1, <1>3, <1>4, <1>5, ByHandInv
-----------------------------------------------------------------------------
LEMMA JavaInitInv == JavaInit => JavaInv
  <1> SUFFICES ASSUME JavaInit PROVE JavaInv
    OBVIOUS
  <1> DEFINE here == {p \in Paths : jdks[p] # 0}
  <1>1. /\ jdks \in [Paths -> Majors \cup {0}] /\ \A p \in Paths \ Elsewhere : jdks[p] = 0
        /\ probed = [p \in Paths |-> IF jdks[p] = 0 THEN Unasked ELSE jdks[p]]
        /\ installLock = "free" /\ chosen \in [Keepers -> {0} \cup {r.id : r \in profiles}]
        /\ user = [u \in JavaUsers |-> Resting] /\ fetched = [m \in Majors |-> 0]
    BY DEF JavaInit
  <1>2. PICK order \in Orders(here) : profiles = Entries(here, order, 0, jdks)
    BY DEF JavaInit
  <1> DEFINE New(p) == [id |-> 0 + order[p], path |-> p, label |-> jdks[p]]
  <1>3. here \in SUBSET Elsewhere /\ here \in SUBSET Paths /\ IsFiniteSet(Elsewhere)
    <2>1. Elsewhere \in SUBSET Paths
      BY DEF Paths
    <2> QED
      BY <1>1, <2>1, MajorFacts, FS_Subset
  <1>4. Cardinality(here) \in Nat /\ Cardinality(here) <= MaxProfiles
    <2>1. IsFiniteSet(here) /\ Cardinality(here) <= Cardinality(Elsewhere)
      BY <1>3, FS_Subset
    <2>2. Cardinality(here) \in Nat /\ Cardinality(Elsewhere) \in Nat
      BY <1>3, <2>1, FS_CardinalityType
    <2> QED
      BY <2>1, <2>2, JavaAssumption
  <1>5. \A p \in here : /\ order[p] \in 1..MaxProfiles /\ \A q \in here : order[p] = order[q] => p = q
    BY <1>4, MajorFacts DEF Orders
  <1>6. profiles = {New(p) : p \in here}
    BY <1>2 DEF Entries
  <1>7. \A p \in here : /\ New(p) \in JavaRows /\ New(p).id = order[p] /\ New(p).path = p /\ New(p).label = jdks[p]
    <2> TAKE p \in here
    <2>1. order[p] \in 1..MaxProfiles /\ 0 + order[p] = order[p] /\ p \in Paths /\ jdks[p] \in Majors
      BY <1>1, <1>5
    <2> QED
      BY <2>1 DEF JavaRows
  <1> HIDE DEF New
  <1>8. \A r \in profiles : /\ r \in JavaRows /\ r.path \in here /\ r.label = jdks[r.path]
                            /\ \A q \in profiles : r.id = q.id => r = q
    BY <1>5, <1>6, <1>7
  <1>9. JavaTypes
    <2>1. probed \in [Paths -> Majors \cup {0, Unasked}]
      BY <1>1
    <2>2. chosen \in [Keepers -> 0..MaxProfiles] /\ \A s \in Keepers : chosen[s] = 0 \/ \E r \in profiles : r.id = chosen[s]
      <3>1. \A r \in profiles : r.id \in 0..MaxProfiles
        BY <1>8, MajorFacts DEF JavaRows
      <3>2. 0 \in 0..MaxProfiles
        BY MajorFacts
      <3> QED
        BY <1>1, <3>1, <3>2
    <2>3. user \in [JavaUsers -> Calls] /\ fetched \in [Majors -> 0..1]
      BY <1>1, RestingIsCall
    <2> QED
      BY <1>1, <1>8, <2>1, <2>2, <2>3 DEF JavaTypes
  <1>10. ModestLabels
    <2>1. \A p \in Majors : jdks[p] = 0 /\ probed[p] = Unasked /\ p \notin here
      BY <1>1, JavaAssumption DEF Paths
    <2>2. \A p \in Paths : jdks[p] # 0 /\ probed[p] # Unasked => probed[p] <= jdks[p]
      <3> TAKE p \in Paths
      <3> HAVE jdks[p] # 0 /\ probed[p] # Unasked
      <3>1. probed[p] = jdks[p] /\ jdks[p] \in Majors
        BY <1>1
      <3>2. probed[p] \in Nat
        BY <3>1, MajorFacts
      <3> QED
        BY <3>1, <3>2
    <2>3. \A r \in profiles : jdks[r.path] # 0 => r.label <= jdks[r.path]
      <3> TAKE r \in profiles
      <3>1. r.label = jdks[r.path] /\ jdks[r.path] \in Majors
        BY <1>1, <1>8
      <3>2. jdks[r.path] \in Nat
        BY <3>1, MajorFacts
      <3> QED
        BY <3>1, <3>2
    <2> QED
      BY <1>8, <2>1, <2>2, <2>3 DEF ModestLabels
  <1>11. FoundHasAnswered /\ LockIsHeld /\ DownloadsStay /\ ReadyJavaFits
    BY <1>1, RestingIsCall DEF FoundHasAnswered, LockIsHeld, Guarded, DownloadsStay, ReadyJavaFits, JavaUsers
  <1> QED
    BY <1>9, <1>10, <1>11 DEF JavaInv

LEMMA JavaNextInv == JavaInv /\ [JavaNext]_javaVars => JavaInv'
  <1> SUFFICES ASSUME JavaInv, [JavaNext]_javaVars PROVE JavaInv'
    OBVIOUS
  <1>1. ASSUME NEW u \in JavaUsers, Seek(u) \/ Visit(u) \/ JavaStep(u) PROVE JavaInv'
    BY <1>1, SeekInv, ScanInv, EnterInv, GiveUpInv, ChooseInv, LockInv, FetchInv, FetchedInv, AssignInv DEF JavaStep
  <1>2. CASE \E p \in Elsewhere \cup Unscanned : CreateProfile(p)
    BY <1>2, CreateProfileInv
  <1>3. CASE \E i \in 1..MaxProfiles : DeleteProfile(i)
    BY <1>3, DeleteProfileInv
  <1>4. CASE \E s \in Keepers : SettingsNameJava(s)
    BY <1>4, SettingsNameJavaInv
  <1>5. CASE \E p \in Elsewhere \cup Unscanned, m \in Majors : Arrives(p, m)
    BY <1>5, ArrivesInv
  <1>6. CASE \E p \in Paths : RemovedByHand(p)
    BY <1>6, RemovedByHandInv
  <1>7. CASE UNCHANGED javaVars
    BY <1>7 DEF javaVars, JavaInv, JavaTypes, ModestLabels, FoundHasAnswered, LockIsHeld, DownloadsStay, ReadyJavaFits
  <1> QED
    BY <1>1, <1>2, <1>3, <1>4, <1>5, <1>6, <1>7, Zenon DEF JavaNext

LEMMA JavaAlways == JavaSpec => []JavaInv
  BY JavaInitInv, JavaNextInv, PTL DEF JavaSpec

\* The types of the JDKs, the probes, the profiles and the calls: profile numbers stay distinct and
\* no server names a profile that is gone.
THEOREM JavaTypesHold == JavaSpec => []JavaTypeOK
  <1>1. JavaInv => JavaTypeOK
    BY DEF JavaInv, JavaTypes, JavaTypeOK, JavaRows, Calls, JavaStages
  <1> QED
    BY <1>1, JavaAlways, PTL

\* Whoever is about to start a process has a Java that is new enough for it, and no JDK that lies
\* there is downloaded again, for any number of servers, versions, paths and requests.
THEOREM StartsAlwaysGetTheirJava == JavaSpec => []StartsGetTheirJava
  <1>1. JavaInv => StartsGetTheirJava
    BY DEF JavaInv, JavaTypes, StartsGetTheirJava, OneDownload
  <1> QED
    BY <1>1, JavaAlways, PTL

-----------------------------------------------------------------------------
(***************************************************************************)
(* ModpackInstall: the one install at work is the only one to take the     *)
(* pending row away, and does so when the mods are whole.                  *)
(***************************************************************************)

Tokens == Previews \cup {NoPreview}
PendingRows == {NoRow} \cup [id : 1..2, token : Tokens, error : BOOLEAN]
\* An install remembers the number of the row it carries out.
InstallerRows ==
  [pc : {"idle", "queue", "enter", "note", "load", "reset", "entries", "overrides", "clear", "record"},
   token : Tokens, id : 0..2, now : BOOLEAN, prev : Tokens]
Working(c) == c.pc \in {"reset", "entries", "overrides", "clear", "record"} => c.id # 0
InstallerStates == {c \in InstallerRows : Working(c)}

PackTypes ==
  /\ stored \in [fresh : SUBSET Previews, old : SUBSET Previews, ever : SUBSET Previews]
  /\ pending \in PendingRows
  /\ pack \in [current : Tokens, next : Tokens]
  /\ mods \in ModsFolders
  /\ installer \in [Installers -> InstallerStates]
  /\ overlapped \in BOOLEAN

\* What the one install at work relies on: only it takes the pending row away, at its end.
AtInstall(c) ==
  /\ c.pc = "reset" => pending # NoRow /\ (mods.whole => pack.current = mods.of)
  /\ c.pc \in {"entries", "overrides"} => pending # NoRow /\ mods = [of |-> c.token, whole |-> FALSE]
  /\ c.pc \in {"clear", "record"} => mods = [of |-> c.token, whole |-> TRUE]

InstallsAlone == \A u, v \in Installers : Installing(u) /\ Installing(v) => u = v

PackInv ==
  /\ PackTypes
  /\ ~overlapped => InstallsAlone /\ \A u \in Installers : AtInstall(installer[u])
  /\ ModsFollowInstalls

-----------------------------------------------------------------------------
LEMMA PackRowFacts ==
  /\ NoRow \in PendingRows /\ NoRow.id = 0
  /\ NoInstall \in InstallerStates /\ NoInstall.pc = "idle" /\ NoPreview \in Tokens
  /\ \A row \in PendingRows : row = NoRow <=> row.id = 0
  <1>1. NoPreview \in Tokens
    BY DEF Tokens
  <1>2. NoInstall \in InstallerRows /\ NoInstall.pc = "idle"
    BY <1>1 DEF NoInstall, InstallerRows
  <1>3. NoInstall \in InstallerStates
    BY <1>2 DEF InstallerStates, Working
  <1>4. NoRow \in PendingRows /\ NoRow.id = 0
    BY DEF NoRow, PendingRows
  <1>5. ASSUME NEW row \in PendingRows, row # NoRow
        PROVE  row.id # 0
    BY <1>5 DEF PendingRows
  <1> QED
    BY <1>1, <1>2, <1>3, <1>4, <1>5

LEMMA ModsFacts == ModsFolders = [of : Tokens, whole : BOOLEAN]
  <1>1. \A m \in ModsFolders : m \in [of : Tokens, whole : BOOLEAN]
    BY DEF ModsFolders, Tokens
  <1>2. \A m \in [of : Tokens, whole : BOOLEAN] : m = [of |-> m.of, whole |-> m.whole]
    OBVIOUS
  <1>3. \A m \in [of : Tokens, whole : BOOLEAN] : m \in ModsFolders
    BY <1>2 DEF ModsFolders, Tokens
  <1> QED
    BY <1>1, <1>3

\* Noting an error, or another preview, at a row that is there.
LEMMA RowKept ==
  ASSUME NEW row \in PendingRows, row # NoRow, NEW k \in Tokens
  PROVE  /\ [row EXCEPT !.error = TRUE] \in PendingRows /\ [row EXCEPT !.error = TRUE] # NoRow
         /\ [row EXCEPT !.token = k, !.error = FALSE] \in PendingRows
         /\ [row EXCEPT !.token = k, !.error = FALSE] # NoRow
  <1>1. row \in [id : 1..2, token : Tokens, error : BOOLEAN]
    BY DEF PendingRows
  <1>2. /\ [row EXCEPT !.error = TRUE] \in [id : 1..2, token : Tokens, error : BOOLEAN]
        /\ [row EXCEPT !.token = k, !.error = FALSE] \in [id : 1..2, token : Tokens, error : BOOLEAN]
    BY <1>1
  <1>3. \A x \in [id : 1..2, token : Tokens, error : BOOLEAN] : x \in PendingRows /\ x # NoRow
    BY DEF PendingRows, NoRow
  <1> QED
    BY <1>2, <1>3

\* Where a thread that does not carry out an install goes on.
LEMMA InstallerMoves ==
  ASSUME NEW w, w \in InstallerStates, NEW k, k \in Tokens
  PROVE  /\ [w EXCEPT !.pc = "queue", !.token = k] \in InstallerStates
         /\ [w EXCEPT !.pc = "queue", !.token = k].pc = "queue"
         /\ [w EXCEPT !.pc = "load"] \in InstallerStates /\ [w EXCEPT !.pc = "load"].pc = "load"
  <1>1. w \in InstallerRows
    BY DEF InstallerStates
  <1>2. /\ [w EXCEPT !.pc = "queue", !.token = k] \in InstallerRows
        /\ [w EXCEPT !.pc = "queue", !.token = k].pc = "queue"
    BY <1>1 DEF InstallerRows
  <1>3. [w EXCEPT !.pc = "load"] \in InstallerRows /\ [w EXCEPT !.pc = "load"].pc = "load"
    BY <1>1 DEF InstallerRows
  <1> QED
    BY <1>2, <1>3 DEF InstallerStates, Working

LEMMA InstallerSet ==
  ASSUME PackTypes, NEW u \in Installers, NEW c \in InstallerStates, Proceeds(u, c)
  PROVE  /\ installer' \in [Installers -> InstallerStates]
         /\ installer'[u] = c /\ \A v \in Installers : v # u => installer'[v] = installer[v]
  BY DEF PackTypes, Proceeds

\* A thread that does not install, before and after: it neither ends an install nor begins one.
LEMMA BesideInstalls ==
  ASSUME PackInv, PackTypes', NEW u \in Installers, UNCHANGED <<mods, overlapped>>,
         \A v \in Installers : v # u => installer'[v] = installer[v],
         ~Installing(u), ~Installing(u)', pack'.current = pack.current,
         pending # NoRow => pending' # NoRow
  PROVE  PackInv'
  <1>1. \A v \in Installers : Installing(v)' <=> Installing(v)
    BY DEF Installing
  <1>2. ASSUME ~overlapped
        PROVE  InstallsAlone' /\ \A v \in Installers : AtInstall(installer[v])'
    <2>1. InstallsAlone /\ \A v \in Installers : AtInstall(installer[v])
      BY <1>2 DEF PackInv
    <2>2. InstallsAlone'
      BY <1>1, <2>1 DEF InstallsAlone
    <2>3. ASSUME NEW v \in Installers
          PROVE  AtInstall(installer[v])'
      <3>1. CASE Installing(v)
        <4>1. v # u /\ installer'[v] = installer[v]
          BY <3>1
        <4>2. AtInstall(installer[v])
          BY <2>1
        <4> QED
          BY <4>1, <4>2 DEF AtInstall
      <3>2. CASE ~Installing(v)
        BY <1>1, <3>2 DEF AtInstall, Installing
      <3> QED
        BY <3>1, <3>2
    <2> QED
      BY <2>2, <2>3
  <1>3. ModsFollowInstalls'
    BY <1>1 DEF PackInv, ModsFollowInstalls, HalfDoneIsPending, CurrentIsInstalled
  <1> QED
    BY <1>2, <1>3 DEF PackInv

\* A step of the one install at work that goes on, or ends with what it promises.
LEMMA InstallSteps ==
  ASSUME PackInv, PackTypes', NEW u \in Installers, UNCHANGED overlapped,
         \A v \in Installers : v # u => installer'[v] = installer[v],
         Installing(u),
         ~overlapped => IF Installing(u)' THEN AtInstall(installer[u])'
                        ELSE (mods'.whole => pack'.current = mods'.of) /\ (~mods'.whole => pending' # NoRow)
  PROVE  PackInv'
  <1>1. ASSUME ~overlapped
        PROVE  InstallsAlone' /\ \A v \in Installers : AtInstall(installer[v])'
    <2>1. \A v \in Installers : v # u => ~Installing(v) /\ ~Installing(v)'
      BY <1>1 DEF PackInv, InstallsAlone, Installing
    <2>2. InstallsAlone'
      BY <2>1 DEF InstallsAlone
    <2>3. \A v \in Installers : ~Installing(v)' => AtInstall(installer[v])'
      BY DEF Installing, AtInstall
    <2>4. Installing(u)' => AtInstall(installer[u])'
      BY <1>1
    <2> QED
      BY <2>1, <2>2, <2>3, <2>4
  <1>2. ModsFollowInstalls'
    BY DEF ModsFollowInstalls, HalfDoneIsPending, CurrentIsInstalled
  <1> QED
    BY <1>1, <1>2 DEF PackInv

LEMMA PackStarts == PackInit => PackInv
  <1> SUFFICES ASSUME PackInit
               PROVE  PackInv
    OBVIOUS
  <1>1. \A u \in Installers : installer[u] = NoInstall /\ installer[u].pc = "idle"
    BY PackRowFacts DEF PackInit
  <1>2. PackTypes
    <2>1. stored \in [fresh : SUBSET Previews, old : SUBSET Previews, ever : SUBSET Previews]
      BY DEF PackInit
    <2>2. mods \in ModsFolders
      <3>1. [of |-> NoPreview, whole |-> TRUE] \in [of : Tokens, whole : BOOLEAN]
        BY PackRowFacts
      <3> QED
        BY <3>1, ModsFacts DEF PackInit
    <2>3. pending \in PendingRows /\ installer \in [Installers -> InstallerStates] /\ overlapped \in BOOLEAN
      BY PackRowFacts DEF PackInit
    <2>4. pack \in [current : Tokens, next : Tokens]
      BY DEF PackInit, Tokens
    <2> QED
      BY <2>1, <2>2, <2>3, <2>4 DEF PackTypes
  <1>3. InstallsAlone /\ \A u \in Installers : AtInstall(installer[u])
    BY <1>1 DEF InstallsAlone, Installing, AtInstall
  <1>4. ModsFollowInstalls
    BY DEF PackInit, ModsFollowInstalls, HalfDoneIsPending, CurrentIsInstalled
  <1> QED
    BY <1>2, <1>3, <1>4 DEF PackInv

\* Whoever enters a preview leaves a row; whoever is late leaves the row as it is.
LEMMA QueueEntersInv ==
  ASSUME PackInv, NEW u \in Installers, QueueEnters(u)
  PROVE  PackInv'
  <1> DEFINE c == installer[u]
             mine == installer[u].token
             noted == [c EXCEPT !.pc = "note"]
  <1>1. c.pc = "enter" /\ c \in InstallerStates /\ mine \in Tokens /\ UNCHANGED <<pack, mods, overlapped>>
        /\ pending \in PendingRows
    BY DEF QueueEnters, PackInv, PackTypes, InstallerStates, InstallerRows, Working
  <1>2. noted \in InstallerStates /\ noted.pc = "note"
    BY <1>1 DEF InstallerStates, InstallerRows, Working
  <1>3. ~Installing(u)
    BY <1>1 DEF Installing
  <1>4. CASE /\ \E i \in 1..2 : pending' = [id |-> i, token |-> mine, error |-> FALSE]
             /\ Proceeds(u, noted)
             /\ UNCHANGED stored
    <2>1. PICK i \in 1..2 : pending' = [id |-> i, token |-> mine, error |-> FALSE]
      BY <1>4
    <2>2. pending' \in PendingRows /\ pending'.id # 0
      BY <1>1, <2>1 DEF PendingRows
    <2>3. pending' # NoRow
      BY <2>2, PackRowFacts
    <2> HIDE DEF c, mine, noted
    <2>4. /\ installer' \in [Installers -> InstallerStates]
          /\ installer'[u] = noted /\ \A v \in Installers : v # u => installer'[v] = installer[v]
      BY <1>2, <1>4, InstallerSet DEF PackInv
    <2>5. PackTypes'
      BY <1>1, <1>4, <2>2, <2>4 DEF PackInv, PackTypes
    <2>6. ~Installing(u)'
      BY <1>2, <2>4 DEF Installing
    <2> QED
      BY <1>1, <1>3, <2>3, <2>4, <2>5, <2>6, BesideInstalls
  <1>5. CASE /\ c.id # 0 /\ pending.id = c.id
             /\ pending' = [pending EXCEPT !.token = mine, !.error = FALSE]
             /\ Discarded(c.prev)
             /\ Proceeds(u, noted)
    <2>1. pending # NoRow
      BY <1>5, PackRowFacts
    <2>2. pending' \in PendingRows /\ pending'.id # 0
      BY <1>1, <1>5, <2>1 DEF PendingRows
    <2>3. pending' # NoRow
      BY <2>2, PackRowFacts
    <2>4. stored' \in [fresh : SUBSET Previews, old : SUBSET Previews, ever : SUBSET Previews]
      BY <1>5 DEF Discarded, PackInv, PackTypes
    <2> HIDE DEF c, mine, noted
    <2>5. /\ installer' \in [Installers -> InstallerStates]
          /\ installer'[u] = noted /\ \A v \in Installers : v # u => installer'[v] = installer[v]
      BY <1>2, <1>5, InstallerSet DEF PackInv
    <2>6. PackTypes'
      BY <1>1, <2>2, <2>4, <2>5 DEF PackInv, PackTypes
    <2>7. ~Installing(u)'
      BY <1>2, <2>5 DEF Installing
    <2> QED
      BY <1>1, <1>3, <2>3, <2>5, <2>6, <2>7, BesideInstalls
  <1>6. CASE Proceeds(u, NoInstall) /\ UNCHANGED <<pending, stored>>
    <2>1. /\ installer' \in [Installers -> InstallerStates]
          /\ installer'[u] = NoInstall /\ \A v \in Installers : v # u => installer'[v] = installer[v]
      BY <1>6, PackRowFacts, InstallerSet DEF PackInv
    <2>2. PackTypes'
      BY <1>1, <1>6, <2>1 DEF PackInv, PackTypes
    <2>3. ~Installing(u)'
      BY <2>1, PackRowFacts DEF Installing
    <2> QED
      BY <1>1, <1>3, <1>6, <2>1, <2>2, <2>3, BesideInstalls
  <1> QED
    BY <1>4, <1>5, <1>6 DEF QueueEnters

\* Requests and previews, beside whatever install is at work.
LEMMA RequestsInv ==
  ASSUME PackInv, NEW u \in Installers,
         PreviewMade(u) \/ ImportExecutes(u) \/ QueueLooks(u) \/ QueueNotes(u) \/ ServerStarts(u)
  PROVE  PackInv'
  <1> DEFINE Kept == [fresh : SUBSET Previews, old : SUBSET Previews, ever : SUBSET Previews]
  <1>1. stored \in Kept /\ pending \in PendingRows /\ installer[u] \in InstallerStates /\ pack \in [current : Tokens, next : Tokens]
    BY DEF PackInv, PackTypes
  <1>2. ~Installing(u) /\ UNCHANGED <<pending, mods, overlapped>>
    BY DEF PreviewMade, ImportExecutes, QueueLooks, QueueNotes, ServerStarts, Installing
  <1>3. stored' \in Kept /\ pack' \in [current : Tokens, next : Tokens] /\ pack'.current = pack.current
    <2>1. CASE PreviewMade(u)
      <3>1. PICK k \in Previews, ok \in BOOLEAN :
              stored' = [stored EXCEPT !.old = {}, !.ever = @ \cup {k}, !.fresh = IF ok THEN @ \cup {k} ELSE @]
        BY <2>1 DEF PreviewMade
      <3> DEFINE fresh == IF ok THEN stored.fresh \cup {k} ELSE stored.fresh
                 ever == stored.ever \cup {k}
      <3>2. fresh \in SUBSET Previews /\ ever \in SUBSET Previews
        BY <1>1
      <3>3. stored' = [stored EXCEPT !.old = {}, !.ever = ever, !.fresh = fresh]
        BY <3>1
      <3> HIDE DEF fresh, ever
      <3>4. stored' \in Kept
        BY <1>1, <3>2, <3>3
      <3> QED
        BY <2>1, <3>4, <1>1 DEF PreviewMade
    <2>2. CASE QueueNotes(u)
      BY <1>1, <2>2 DEF QueueNotes, InstallerStates, InstallerRows, Working
    <2>3. CASE ImportExecutes(u) \/ QueueLooks(u) \/ ServerStarts(u)
      BY <1>1, <2>3 DEF ImportExecutes, QueueLooks, ServerStarts
    <2> QED
      BY <2>1, <2>2, <2>3
  <1>4. UNCHANGED installer
        \/ \E c \in InstallerStates : c.pc \in {"idle", "queue", "enter", "load"} /\ Proceeds(u, c)
    <2>1. CASE PreviewMade(u)
      <3>1. PICK k \in Previews, now \in BOOLEAN :
              UNCHANGED installer \/ Proceeds(u, [NoInstall EXCEPT !.pc = "queue", !.token = k, !.now = now])
        BY <2>1 DEF PreviewMade
      <3>2. k \in Tokens /\ now \in BOOLEAN /\ NoInstall \in InstallerStates
        BY PackRowFacts DEF Tokens
      <3>3. /\ [NoInstall EXCEPT !.pc = "queue", !.token = k, !.now = now] \in InstallerStates
            /\ [NoInstall EXCEPT !.pc = "queue", !.token = k, !.now = now].pc = "queue"
        BY <3>2 DEF InstallerStates, InstallerRows, Working
      <3> QED
        BY <3>1, <3>3, Zenon
    <2>2. CASE ImportExecutes(u)
      <3>1. PICK k \in KeptPreviews : Proceeds(u, [NoInstall EXCEPT !.pc = "queue", !.token = k])
        BY <2>2 DEF ImportExecutes
      <3>2. k \in Tokens
        BY <1>1 DEF Tokens, KeptPreviews
      <3>3. /\ [NoInstall EXCEPT !.pc = "queue", !.token = k] \in InstallerStates
            /\ [NoInstall EXCEPT !.pc = "queue", !.token = k].pc = "queue"
        BY <3>2, PackRowFacts, InstallerMoves
      <3> QED
        BY <3>1, <3>3, Zenon
    <2>3. CASE QueueLooks(u)
      <3> DEFINE c == [installer[u] EXCEPT !.pc = "enter", !.id = pending.id, !.prev = pending.token]
      <3>1. pending.id \in 0..2 /\ pending.token \in Tokens
        BY <1>1 DEF PendingRows, NoRow, Tokens
      <3>2. c \in InstallerStates /\ c.pc = "enter"
        BY <1>1, <3>1 DEF InstallerStates, InstallerRows, Working
      <3>3. Proceeds(u, c)
        BY <2>3 DEF QueueLooks
      <3> HIDE DEF c
      <3> QED
        BY <3>2, <3>3
    <2>4. CASE QueueNotes(u) \/ ServerStarts(u)
      <3>1. NoPreview \in Tokens
        BY PackRowFacts
      <3>2. /\ [NoInstall EXCEPT !.pc = "load"] \in InstallerStates
            /\ [NoInstall EXCEPT !.pc = "load"].pc = "load"
        BY <3>1, PackRowFacts, InstallerMoves
      <3>3. Proceeds(u, [NoInstall EXCEPT !.pc = "load"]) \/ Proceeds(u, NoInstall)
        BY <2>4 DEF QueueNotes, ServerStarts
      <3> QED
        BY <3>2, <3>3, PackRowFacts, Zenon
    <2> QED
      BY <2>1, <2>2, <2>3, <2>4
  <1>5. /\ installer' \in [Installers -> InstallerStates] /\ ~Installing(u)'
        /\ \A v \in Installers : v # u => installer'[v] = installer[v]
    <2>1. CASE UNCHANGED installer
      BY <1>2, <2>1 DEF PackInv, PackTypes, Installing
    <2>2. ASSUME NEW c \in InstallerStates, c.pc \in {"idle", "queue", "enter", "load"}, Proceeds(u, c)
          PROVE  /\ installer' \in [Installers -> InstallerStates] /\ ~Installing(u)'
                 /\ \A v \in Installers : v # u => installer'[v] = installer[v]
      <3>1. /\ installer' \in [Installers -> InstallerStates]
            /\ installer'[u] = c /\ \A v \in Installers : v # u => installer'[v] = installer[v]
        BY <2>2, InstallerSet DEF PackInv
      <3> QED
        BY <2>2, <3>1 DEF Installing
    <2> QED
      BY <1>4, <2>1, <2>2
  <1>6. PackTypes'
    BY <1>2, <1>3, <1>5 DEF PackInv, PackTypes
  <1> QED
    BY <1>2, <1>3, <1>5, <1>6, BesideInstalls

\* The beginning of an install: nobody else installs, or both are known to have overlapped.
LEMMA RunLoadsInv ==
  ASSUME PackInv, NEW u \in Installers, RunLoads(u)
  PROVE  PackInv'
  <1>1. installer[u].pc = "load" /\ UNCHANGED <<stored, pack, mods>> /\ pending \in PendingRows /\ overlapped \in BOOLEAN
    BY DEF RunLoads, PackInv, PackTypes
  <1>2. ~Installing(u)
    BY <1>1 DEF Installing
  <1> DEFINE c == [NoInstall EXCEPT !.pc = "reset", !.token = pending.token, !.id = pending.id]
  <1>3. overlapped' = (overlapped \/ (pending.token \in KeptPreviews /\ \E v \in Installers \ {u} : Installing(v)))
    BY DEF RunLoads
  <1>4. CASE pending # NoRow /\ Proceeds(u, c) /\ UNCHANGED pending /\ pending.token \in KeptPreviews
    <2>1. c \in InstallerStates /\ c.pc = "reset"
      <3>1. pending.id \in 1..2 /\ pending.token \in Tokens
        BY <1>1, <1>4 DEF PendingRows
      <3>2. FALSE \in BOOLEAN /\ NoInstall \in InstallerStates
        BY PackRowFacts
      <3>3. pending.id \in 0..2 /\ pending.id # 0
        BY <3>1
      <3>4. NoInstall \in InstallerRows
        BY <3>2 DEF InstallerStates
      <3>5. c \in InstallerRows /\ c.pc = "reset" /\ c.id = pending.id
        BY <3>1, <3>3, <3>4 DEF InstallerRows
      <3> QED
        BY <3>3, <3>5 DEF InstallerStates, Working
    <2> HIDE DEF c
    <2>2. /\ installer' \in [Installers -> InstallerStates]
          /\ installer'[u] = c /\ \A v \in Installers : v # u => installer'[v] = installer[v]
      BY <1>4, <2>1, InstallerSet DEF PackInv
    <2>3. PackTypes'
      BY <1>1, <1>3, <1>4, <2>2 DEF PackInv, PackTypes
    <2>4. Installing(u)'
      BY <2>1, <2>2 DEF Installing
    <2>5. ASSUME ~overlapped'
          PROVE  InstallsAlone' /\ \A v \in Installers : AtInstall(installer[v])'
      <3>1. ~overlapped /\ \A v \in Installers : v # u => ~Installing(v)
        BY <1>3, <1>4, <2>5
      <3>2. \A v \in Installers : v # u => ~Installing(v)'
        BY <2>2, <3>1 DEF Installing
      <3>3. InstallsAlone'
        BY <3>2 DEF InstallsAlone
      <3>4. mods.whole => pack.current = mods.of
        BY <1>2, <3>1 DEF PackInv, ModsFollowInstalls, CurrentIsInstalled
      <3>5. AtInstall(installer[u])'
        BY <1>1, <1>4, <2>1, <2>2, <3>4 DEF AtInstall
      <3>6. \A v \in Installers : v # u => AtInstall(installer[v])'
        BY <3>2 DEF AtInstall, Installing
      <3> QED
        BY <3>3, <3>5, <3>6
    <2>6. ModsFollowInstalls'
      BY <2>4 DEF ModsFollowInstalls, HalfDoneIsPending, CurrentIsInstalled
    <2> QED
      BY <2>3, <2>5, <2>6 DEF PackInv
  <1>5. CASE Proceeds(u, NoInstall) /\ (UNCHANGED pending \/ (pending # NoRow /\ pending' = [pending EXCEPT !.error = TRUE]))
             /\ pending.token \notin KeptPreviews
    <2>1. pending' \in PendingRows /\ (pending # NoRow => pending' # NoRow)
      <3>1. CASE UNCHANGED pending
        BY <1>1, <3>1
      <3>2. CASE pending # NoRow /\ pending' = [pending EXCEPT !.error = TRUE]
        BY <1>1, <3>2, RowKept DEF Tokens
      <3> QED
        BY <1>5, <3>1, <3>2
    <2>2. UNCHANGED overlapped
      BY <1>1, <1>3, <1>5
    <2>3. /\ installer' \in [Installers -> InstallerStates]
          /\ installer'[u] = NoInstall /\ \A v \in Installers : v # u => installer'[v] = installer[v]
      BY <1>5, PackRowFacts, InstallerSet DEF PackInv
    <2>4. PackTypes'
      BY <1>1, <2>1, <2>2, <2>3 DEF PackInv, PackTypes
    <2>5. ~Installing(u)'
      BY <2>3, PackRowFacts DEF Installing
    <2> QED
      BY <1>1, <1>2, <2>1, <2>2, <2>3, <2>4, <2>5, BesideInstalls
  <1>6. CASE Proceeds(u, NoInstall) /\ UNCHANGED pending /\ pending = NoRow /\ pending.token \in KeptPreviews
    <2>1. PackTypes'
      <3>1. /\ installer' \in [Installers -> InstallerStates]
        BY <1>6, PackRowFacts, InstallerSet DEF PackInv
      <3> QED
        BY <1>1, <1>3, <1>6, <3>1 DEF PackInv, PackTypes
    <2>2. /\ installer'[u] = NoInstall /\ \A v \in Installers : v # u => installer'[v] = installer[v]
      BY <1>6, PackRowFacts, InstallerSet DEF PackInv
    <2>3. ~Installing(u)'
      BY <2>2, PackRowFacts DEF Installing
    <2>4. CASE UNCHANGED overlapped
      BY <1>1, <1>2, <1>6, <2>1, <2>2, <2>3, <2>4, BesideInstalls
    <2>5. CASE overlapped' = TRUE
      <3>1. ModsFollowInstalls'
        BY <2>5 DEF ModsFollowInstalls, HalfDoneIsPending, CurrentIsInstalled
      <3> QED
        BY <2>1, <2>5, <3>1 DEF PackInv
    <2> QED
      BY <1>1, <1>3, <2>4, <2>5
  <1> QED
    BY <1>4, <1>5, <1>6 DEF RunLoads

\* The steps of an install.
LEMMA RunInv ==
  ASSUME PackInv, NEW u \in Installers,
         RunResets(u) \/ RunInstalls(u) \/ RunOverrides(u) \/ RunClears(u) \/ RunRecords(u)
  PROVE  PackInv'
  <1> DEFINE Kept == [fresh : SUBSET Previews, old : SUBSET Previews, ever : SUBSET Previews]
             c == installer[u]
             To(p) == [c EXCEPT !.pc = p]
  <1>1. /\ stored \in Kept /\ pending \in PendingRows /\ c \in InstallerStates /\ c.token \in Tokens
        /\ pack \in [current : Tokens, next : Tokens] /\ mods \in ModsFolders
    BY DEF PackInv, PackTypes, InstallerStates, InstallerRows, Working
  <1>2. Installing(u) /\ UNCHANGED overlapped /\ (~overlapped => AtInstall(c))
    BY DEF RunResets, RunInstalls, RunOverrides, RunClears, RunRecords, Installing, PackInv
  <1>3. /\ \A p \in {"entries", "overrides", "clear", "record"} :
             To(p) \in InstallerStates /\ To(p).pc = p /\ To(p).token = c.token
        /\ NoInstall \in InstallerStates /\ NoInstall.pc = "idle"
    <2>1. c.id # 0
      BY <1>1, <1>2 DEF InstallerStates, Working, Installing
    <2> QED
      BY <1>1, <2>1, PackRowFacts DEF InstallerStates, InstallerRows, Working
  <1>4. ASSUME NEW d \in InstallerStates, Proceeds(u, d)
        PROVE  /\ installer' \in [Installers -> InstallerStates]
               /\ installer'[u] = d /\ \A v \in Installers : v # u => installer'[v] = installer[v]
    BY <1>4, InstallerSet DEF PackInv
  <1>5. \A w \in BOOLEAN : [of |-> c.token, whole |-> w] \in ModsFolders
    BY <1>1 DEF ModsFolders, Tokens
  <1>6. CASE RunResets(u)
    <2>1. /\ c.pc = "reset" /\ mods' = [of |-> c.token, whole |-> FALSE] /\ Proceeds(u, To("entries"))
          /\ UNCHANGED <<stored, pending, pack>>
      BY <1>6 DEF RunResets
    <2> HIDE DEF c, To
    <2>2. /\ installer' \in [Installers -> InstallerStates]
          /\ installer'[u] = To("entries") /\ \A v \in Installers : v # u => installer'[v] = installer[v]
      BY <1>3, <1>4, <2>1
    <2>3. PackTypes'
      BY <1>1, <1>2, <1>5, <2>1, <2>2 DEF PackInv, PackTypes
    <2>4. Installing(u)' /\ (~overlapped => AtInstall(installer[u])')
      BY <1>2, <1>3, <2>1, <2>2 DEF AtInstall, Installing
    <2> QED
      BY <1>2, <2>2, <2>3, <2>4, InstallSteps
  <1>7. CASE RunFails(u) /\ c.pc \in {"entries", "overrides"} /\ UNCHANGED <<stored, pack, mods>>
    <2>1. pending' = (IF pending.id = c.id THEN [pending EXCEPT !.error = TRUE] ELSE pending) /\ Proceeds(u, NoInstall)
      BY <1>7 DEF RunFails
    <2> HIDE DEF c, To
    <2>2. /\ installer' \in [Installers -> InstallerStates]
          /\ installer'[u] = NoInstall /\ \A v \in Installers : v # u => installer'[v] = installer[v]
      BY <1>3, <1>4, <2>1
    <2>3. pending' \in PendingRows /\ (pending # NoRow => pending' # NoRow)
      <3>1. CASE pending' = pending
        BY <1>1, <3>1
      <3>2. CASE pending' # pending /\ pending # NoRow
        BY <1>1, <2>1, <3>2, RowKept DEF Tokens
      <3>3. CASE pending = NoRow
        <4>1. c.id # 0
          BY <1>1, <1>7 DEF InstallerStates, Working, c
        <4> QED
          BY <1>1, <2>1, <3>3, <4>1, PackRowFacts
      <3> QED
        BY <3>1, <3>2, <3>3
    <2>4. PackTypes'
      BY <1>1, <1>2, <1>7, <2>2, <2>3 DEF PackInv, PackTypes
    <2>5. ~Installing(u)'
      BY <1>3, <2>2 DEF Installing
    <2>6. ~overlapped => ~mods'.whole /\ pending' # NoRow
      BY <1>2, <1>7, <2>3 DEF AtInstall
    <2> QED
      BY <1>2, <2>2, <2>4, <2>5, <2>6, InstallSteps
  <1>8. CASE c.pc = "entries" /\ Proceeds(u, To("overrides")) /\ UNCHANGED <<stored, pending, pack, mods>>
    <2> HIDE DEF c, To
    <2>2. /\ installer' \in [Installers -> InstallerStates]
          /\ installer'[u] = To("overrides") /\ \A v \in Installers : v # u => installer'[v] = installer[v]
      BY <1>3, <1>4, <1>8
    <2>3. PackTypes'
      BY <1>1, <1>2, <1>8, <2>2 DEF PackInv, PackTypes
    <2>4. Installing(u)' /\ (~overlapped => AtInstall(installer[u])')
      BY <1>2, <1>3, <1>8, <2>2 DEF AtInstall, Installing
    <2> QED
      BY <1>2, <2>2, <2>3, <2>4, InstallSteps
  <1>9. CASE /\ c.pc = "overrides" /\ Proceeds(u, To("clear")) /\ UNCHANGED <<stored, pending, pack>>
             /\ mods' = IF mods.of = c.token THEN [mods EXCEPT !.whole = TRUE] ELSE mods
    <2> HIDE DEF c, To
    <2>2. /\ installer' \in [Installers -> InstallerStates]
          /\ installer'[u] = To("clear") /\ \A v \in Installers : v # u => installer'[v] = installer[v]
      BY <1>3, <1>4, <1>9
    <2>3. mods' \in ModsFolders /\ (mods = [of |-> c.token, whole |-> FALSE] => mods' = [of |-> c.token, whole |-> TRUE])
      <3>1. mods \in [of : Tokens, whole : BOOLEAN]
        BY <1>1, ModsFacts
      <3>2. [mods EXCEPT !.whole = TRUE] \in [of : Tokens, whole : BOOLEAN]
        BY <3>1
      <3>3. mods' \in ModsFolders
        BY <1>9, <3>1, <3>2, ModsFacts
      <3>4. ASSUME mods = [of |-> c.token, whole |-> FALSE]
            PROVE  mods' = [of |-> c.token, whole |-> TRUE]
        <4>1. mods.of = c.token
          BY <3>4
        <4>2. mods' = [mods EXCEPT !.whole = TRUE]
          BY <1>9, <4>1
        <4> QED
          BY <3>4, <4>2
      <3> QED
        BY <3>3, <3>4
    <2>4. PackTypes'
      BY <1>1, <1>2, <1>9, <2>2, <2>3 DEF PackInv, PackTypes
    <2>5. Installing(u)' /\ (~overlapped => AtInstall(installer[u])')
      BY <1>2, <1>3, <1>9, <2>2, <2>3 DEF AtInstall, Installing
    <2> QED
      BY <1>2, <2>2, <2>4, <2>5, InstallSteps
  <1>10. CASE RunClears(u)
    <2>1. /\ c.pc = "clear" /\ pending' \in {NoRow, pending} /\ Proceeds(u, To("record")) /\ UNCHANGED <<pack, mods>>
          /\ Discarded(c.token)
      BY <1>10 DEF RunClears, Cleared
    <2>2. stored' \in Kept
      BY <1>1, <2>1 DEF Discarded
    <2> HIDE DEF c, To
    <2>3. /\ installer' \in [Installers -> InstallerStates]
          /\ installer'[u] = To("record") /\ \A v \in Installers : v # u => installer'[v] = installer[v]
      BY <1>3, <1>4, <2>1
    <2>4. PackTypes'
      BY <1>1, <1>2, <2>1, <2>2, <2>3, PackRowFacts DEF PackInv, PackTypes
    <2>5. Installing(u)' /\ (~overlapped => AtInstall(installer[u])')
      BY <1>2, <1>3, <2>1, <2>3 DEF AtInstall, Installing
    <2> QED
      BY <1>2, <2>3, <2>4, <2>5, InstallSteps
  <1>11. CASE RunRecords(u)
    <2>1. /\ c.pc = "record" /\ pack' = [current |-> c.token, next |-> NoPreview] /\ Proceeds(u, NoInstall)
          /\ UNCHANGED <<stored, pending, mods>>
      BY <1>11 DEF RunRecords
    <2> HIDE DEF c, To
    <2>2. /\ installer' \in [Installers -> InstallerStates]
          /\ installer'[u] = NoInstall /\ \A v \in Installers : v # u => installer'[v] = installer[v]
      BY <1>3, <1>4, <2>1
    <2>3. PackTypes'
      BY <1>1, <1>2, <2>1, <2>2 DEF PackInv, PackTypes, Tokens
    <2>4. ~Installing(u)'
      BY <1>3, <2>2 DEF Installing
    <2>5. ~overlapped => mods'.whole /\ pack'.current = mods'.of
      BY <1>2, <2>1 DEF AtInstall
    <2> QED
      BY <1>2, <2>2, <2>3, <2>4, <2>5, InstallSteps
  <1> QED
    BY <1>6, <1>7, <1>8, <1>9, <1>10, <1>11 DEF RunInstalls, RunOverrides

LEMMA PackGoesOn == PackInv /\ [PackNext]_packVars => PackInv'
  <1> SUFFICES ASSUME PackInv, [PackNext]_packVars
               PROVE  PackInv'
    OBVIOUS
  <1>1. ASSUME NEW u \in Installers, QueueEnters(u)
        PROVE  PackInv'
    BY <1>1, QueueEntersInv
  <1>2. ASSUME NEW u \in Installers,
               PreviewMade(u) \/ ImportExecutes(u) \/ QueueLooks(u) \/ QueueNotes(u) \/ ServerStarts(u)
        PROVE  PackInv'
    BY <1>2, RequestsInv
  <1>3. ASSUME NEW u \in Installers, RunLoads(u)
        PROVE  PackInv'
    BY <1>3, RunLoadsInv
  <1>4. ASSUME NEW u \in Installers,
               RunResets(u) \/ RunInstalls(u) \/ RunOverrides(u) \/ RunClears(u) \/ RunRecords(u)
        PROVE  PackInv'
    BY <1>4, RunInv
  <1>5. CASE PreviewAges \/ UNCHANGED packVars
    <2>1. stored \in [fresh : SUBSET Previews, old : SUBSET Previews, ever : SUBSET Previews]
      BY DEF PackInv, PackTypes
    <2>2. UNCHANGED <<pending, pack, mods, installer, overlapped>>
      BY <1>5 DEF PreviewAges, packVars
    <2>3. stored' \in [fresh : SUBSET Previews, old : SUBSET Previews, ever : SUBSET Previews]
      <3>1. CASE UNCHANGED stored
        BY <2>1, <3>1
      <3>2. ASSUME NEW k \in stored.fresh, stored' = [stored EXCEPT !.fresh = @ \ {k}, !.old = @ \cup {k}]
            PROVE  stored' \in [fresh : SUBSET Previews, old : SUBSET Previews, ever : SUBSET Previews]
        BY <2>1, <3>2
      <3> QED
        BY <1>5, <3>1, <3>2 DEF PreviewAges, packVars
    <2> QED
      BY <2>2, <2>3 DEF PackInv, PackTypes, InstallsAlone, Installing, AtInstall, ModsFollowInstalls,
                  HalfDoneIsPending, CurrentIsInstalled
  <1> QED
    BY <1>1, <1>2, <1>3, <1>4, <1>5 DEF PackNext

LEMMA PackAlways == PackSpec => []PackInv
  BY PackStarts, PackGoesOn, PTL DEF PackSpec

\* Previews, the pending row, the state row and the installers keep their types, for any number
\* of previews and threads (modpack_service.py).
THEOREM PackTypesHold == PackSpec => []PackTypeOK
  <1>1. PackInv => PackTypeOK
    BY DEF PackInv, PackTypes, PackTypeOK, PendingRows, NoRow, Tokens
  <1> QED
    BY <1>1, PackAlways, PTL

\* Whatever is queued, swept or broken off meanwhile, as long as no two installs overlap: mods
\* that an install left half done have a pending row, and the state names what is installed.
THEOREM ModsAlwaysFollowInstalls == PackSpec => []ModsFollowInstalls
  <1>1. PackInv => ModsFollowInstalls
    BY DEF PackInv
  <1> QED
    BY <1>1, PackAlways, PTL
=============================================================================
