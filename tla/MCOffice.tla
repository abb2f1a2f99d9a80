------------------------------- MODULE MCOffice -------------------------------
(* The manager's desk work, each part on its own: a behaviour is one of the *)
(* part that "part" names, in which the others rest in one of their initial *)
(* states.  The parts meet only through what the life cycle and the file    *)
(* operations model: a start, a stop, the deletion of a server.             *)
EXTENDS ContentLibrary, ModpackInstall, ServerRecords, AiAgent, Schedules, WorldTransfer,
        JavaRuntimes, AccessLists, StartFiles, ServerProgram, Accounts, TLC

CONSTANT Sections

VARIABLE part
officeVars == <<part, contentVars, packVars, recordsVars, aiVars, scheduleVars, transferVars, javaVars,
                accessVars, startVars, programVars, accountVars>>

\* "a" requires any version of "b" and its own of "c", the second "b" the first "c".
\* The only version of "b" that fits the server is the second.
MCRequires ==
  [x \in Projects \X Versions |->
     CASE x[1] = "a" -> <<[proj |-> "b", ver |-> 0], [proj |-> "c", ver |-> x[2]]>>
       [] x = <<"b", 2>> -> <<[proj |-> "c", ver |-> 1]>>
       [] OTHER -> <<>>]
MCMisfits == {<<"b", 1>>}
\* The two versions of "c" have one file name.
MCFileOf == [x \in Projects \X Versions |-> IF x[1] = "c" THEN <<"c", 0>> ELSE x]
MCWanted == {<<"a", 2>>, <<"b", 1>>}
MCHandFiles == {<<"b", 1>>, <<"v", 1>>}
MCKnows ==
  [f \in AllFiles |-> CASE f[1] = "v" -> {"vanillatweaks"} [] f[1] = "b" -> {"modrinth"}
                        [] f[1] = "c" -> {"curseforge"} [] OTHER -> {}]

MCForms ==
  {[alias |-> "x", default |-> TRUE, port |-> 0, sleep |-> FALSE],
   [alias |-> "x", default |-> FALSE, port |-> 3, sleep |-> TRUE]}

Layout(from, to, new, dims, art) ==
  [from_apart |-> from, to_apart |-> to, new |-> new, dims |-> dims, art |-> art]
MCLayouts ==
  {Layout(from, to, new, {"nether", "end"}, "v4") : from, to, new \in BOOLEAN}
  \cup {Layout(TRUE, FALSE, FALSE, {"end"}, "v3"), Layout(FALSE, TRUE, TRUE, {"nether"}, "v3"),
        Layout(FALSE, FALSE, FALSE, {}, "v4")}
MCTicks ==
  {[players |-> c[1], further |-> c[2], extensions |-> c[3], lists |-> c[3]] :
     c \in {<<TRUE, TRUE, TRUE>>, <<FALSE, FALSE, TRUE>>, <<TRUE, FALSE, FALSE>>}}

MCNeed == [u \in JavaUsers |-> Max(Majors)]

\* A transfer that is over, and of which nothing is left to look at.
TransferOver ==
  /\ deal = [layout |-> CHOOSE x \in Layouts : TRUE, ticked |-> CHOOSE c \in Ticks : TRUE, odd |-> {}]
  /\ pc = "failed" /\ mishap = "none"
  /\ original = {} /\ place = TargetFiles(deal.layout, {}) /\ temp = {} /\ ready = {} /\ aside = {}
  /\ moved = {} /\ mapping = {} /\ texts = {} /\ asked = [p \in Players |-> {}]

\* What the parts at rest begin with comes first: the initial states are their product.
OfficeInit ==
  /\ part \in Sections
  /\ IF part = "files" THEN TRUE
     ELSE props = NoTask.base /\ backend = FALSE /\ yaml = [forward |-> FALSE, bungee |-> FALSE]
  /\ IF part = "program" THEN TRUE ELSE kind = "forge"
  /\ IF part = "access" THEN TRUE ELSE everywhere = [l \in ListKeys |-> {}]
  /\ StartInit /\ ProgramInit /\ AccessInit /\ AccountsInit /\ AiInit /\ ScheduleInit /\ PackInit
  /\ ContentInit /\ (part # "content" => \A r, s \in installed : r.proj = "a" /\ s.proj # "a" => r.id < s.id)
  /\ JavaInit /\ (part # "java" => profiles = {})
  /\ RecordsInit /\ (part # "records" => Cardinality(servers) = 1)
  /\ IF part = "transfer" THEN TransferInit ELSE TransferOver

Content == part = "content" /\ ContentNext
  /\ UNCHANGED <<packVars, recordsVars, aiVars, scheduleVars, transferVars, javaVars, accessVars,
                 startVars, programVars, accountVars>>
Installs == part = "packs" /\ PackNext
  /\ UNCHANGED <<contentVars, recordsVars, aiVars, scheduleVars, transferVars, javaVars, accessVars,
                 startVars, programVars, accountVars>>
Records == part = "records" /\ RecordsNext
  /\ UNCHANGED <<contentVars, packVars, aiVars, scheduleVars, transferVars, javaVars, accessVars,
                 startVars, programVars, accountVars>>
Asking == part = "ai" /\ AiNext
  /\ UNCHANGED <<contentVars, packVars, recordsVars, scheduleVars, transferVars, javaVars, accessVars,
                 startVars, programVars, accountVars>>
Timed == part = "schedules" /\ ScheduleNext
  /\ UNCHANGED <<contentVars, packVars, recordsVars, aiVars, transferVars, javaVars, accessVars,
                 startVars, programVars, accountVars>>
Moving == part = "transfer" /\ TransferNext
  /\ UNCHANGED <<contentVars, packVars, recordsVars, aiVars, scheduleVars, javaVars, accessVars,
                 startVars, programVars, accountVars>>
Seeking == part = "java" /\ JavaNext
  /\ UNCHANGED <<contentVars, packVars, recordsVars, aiVars, scheduleVars, transferVars, accessVars,
                 startVars, programVars, accountVars>>
Granting == part = "access" /\ AccessNext
  /\ UNCHANGED <<contentVars, packVars, recordsVars, aiVars, scheduleVars, transferVars, javaVars,
                 startVars, programVars, accountVars>>
\* Once something has gone wrong with the files there is nothing more to ask of them.
Writing == part = "files" /\ excuse = {} /\ StartNext
  /\ UNCHANGED <<contentVars, packVars, recordsVars, aiVars, scheduleVars, transferVars, javaVars,
                 accessVars, programVars, accountVars>>
Preparing == part = "program" /\ ProgramNext
  /\ UNCHANGED <<contentVars, packVars, recordsVars, aiVars, scheduleVars, transferVars, javaVars,
                 accessVars, startVars, accountVars>>
Administering == part = "accounts" /\ AccountsNext
  /\ UNCHANGED <<contentVars, packVars, recordsVars, aiVars, scheduleVars, transferVars, javaVars,
                 accessVars, startVars, programVars>>

OfficeNext ==
  /\ UNCHANGED part
  /\ Content \/ Installs \/ Records \/ Asking \/ Timed \/ Moving \/ Seeking \/ Granting \/ Writing
     \/ Preparing \/ Administering

OfficeSpec == OfficeInit /\ [][OfficeNext]_officeVars
=============================================================================
