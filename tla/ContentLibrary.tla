--------------------------- MODULE ContentLibrary ---------------------------
(***************************************************************************)
(* Mods, plugins and datapacks of one server (content_service.py, the      *)
(* content router): rows of installed_content, the files they stand for,   *)
(* and the sources they come from.                                         *)
(*                                                                         *)
(* Packs of VanillaTweaks (vanillatweaks_service.py) have no versions of    *)
(* their own: they are generated anew for the server's version.            *)
(*                                                                         *)
(* Installing and updating run on the event loop, one at a time ("job");   *)
(* page views and deletions run in threads beside it.  A session sees what *)
(* others committed, and also the rows it means to delete itself: the      *)
(* sessions are made with autoflush=False.  SQLite gives a new row the     *)
(* number after the largest one in the table.                              *)
(***************************************************************************)
EXTENDS Naturals, Sequences, FiniteSetsExt

CONSTANTS
  Projects, Versions,   \* what a provider offers; a version is a number
  Requires,     \* [Projects \X Versions -> Seq([proj, ver])], ver 0: any
  FileOf,       \* [Projects \X Versions -> file name]
  Misfits,      \* <<project, version>> that do not fit loader or version of the server
  Packs,        \* those projects that are packs of VanillaTweaks
  Before,       \* those whose version 1 is installed to begin with
  Wanted,       \* the <<project, version>> asked for by themselves
  HandFiles,    \* files a user may put into the folder
  Knows,        \* [file name -> the providers that know its content]
  Enabled,      \* the providers that are switched on or have a key
  MaxDepth,     \* _MAX_DEPENDENCY_DEPTH
  Pages,        \* threads of page views and deletions
  MaxRows,      \* bound on row numbers
  MaxRequests,  \* bound on requests of all kinds
  Faults        \* subset of {"network", "locked", "unreadable"}

AllFiles == {FileOf[x] : x \in Projects \X Versions} \cup HandFiles
NoProject == "local"

\* A provider offers only its own, and its mods name neither the packs of VanillaTweaks nor
\* do these name anything; a provider knows the files of the projects alone.
ASSUME ContentAssumption ==
  /\ IsFiniteSet(Projects) /\ IsFiniteSet(Versions) /\ IsFiniteSet(HandFiles)
  /\ NoProject \notin Projects /\ "job" \notin Pages
  /\ Versions # {} /\ Versions = 1..Cardinality(Versions)
  /\ Requires \in [Projects \X Versions -> Seq([proj : Projects \ Packs, ver : Versions \cup {0}])]
  /\ Packs \subseteq Projects /\ \A x \in Packs \X Versions : Requires[x] = <<>>
  /\ Before \subseteq Projects /\ Cardinality(Before) <= MaxRows
  /\ Wanted \subseteq Projects \X Versions
  /\ \A f \in AllFiles : Knows[f] # {} => \E x \in Projects \X Versions : FileOf[x] = f
  /\ MaxRows \in Nat /\ MaxRequests \in Nat /\ MaxDepth \in Nat

VARIABLES
  installed,    \* committed rows of installed_content
  onDisk,       \* files in the folder
  doomed,       \* rows the job's session means to delete
  job,          \* the install or update on the event loop
  page,         \* page views and deletions
  touched,      \* who had rows or files changed under him since he began
  requests      \* how many requests there were

contentVars == <<installed, onDisk, doomed, job, page, touched, requests>>

Asked == requests < MaxRequests /\ requests' = requests + 1

Actors == Pages \cup {"job"}
ContentRow(i, p, v, f) == [id |-> i, proj |-> p, ver |-> v, file |-> f, mark |-> "none", unread |-> FALSE]
NoJob == [pc |-> "idle", queue |-> {}, stack |-> <<>>, optional |-> FALSE,
          alone |-> FALSE, failed |-> {}, pack |-> 0]
Away == [pc |-> "idle", seen |-> {}, ids |-> {}, target |-> 0]

ContentTypeOK ==
  /\ \A r \in installed : /\ r.id \in 1..MaxRows /\ r.file \in AllFiles
                          /\ r.proj \in Projects \cup {NoProject}
  /\ onDisk \subseteq AllFiles
  /\ doomed \subseteq 1..MaxRows
  /\ job.failed \subseteq Projects
  /\ touched \subseteq Actors

NextRowId == 1 + Max({r.id : r \in installed} \cup {0})
RowsOf(p) == {r \in installed : r.proj = p}
Newest(p) == CHOOSE r \in RowsOf(p) : \A s \in RowsOf(p) : s.id <= r.id
Disturbs(a) == touched' = touched \cup (Actors \ {a})

ContentInit ==
  /\ \E number \in [Before -> 1..Cardinality(Before)] :
       /\ \A p, q \in Before : p # q => number[p] # number[q]
       /\ installed = {ContentRow(number[p], p, 1, FileOf[p, 1]) : p \in Before}
  /\ onDisk = {r.file : r \in installed}
  /\ doomed = {}
  /\ job = NoJob
  /\ page = [t \in Pages |-> Away]
  /\ touched = {}
  /\ requests = 0

---------------------------------------------------------------------------
(* Installing: a stack of projects, each waiting for those it requires.    *)

Fits(p, v) == <<p, v>> \notin Misfits
Offered(p) == {v \in Versions : Fits(p, v)}
Frame(p, v) == [proj |-> p, ver |-> v, todo |-> Requires[p, v]]
\* Without what it requires: Bukkit's plugins name nothing.
FrameAlone(p, v) == [Frame(p, v) EXCEPT !.todo = <<>>]
TopFrame == job.stack[Len(job.stack)]
Processing == {job.stack[i].proj : i \in DOMAIN job.stack}

\* install_content: one project, from a page or from a modpack's list
InstallRequest(p, v, optional) ==
  /\ Asked
  /\ job.pc = "idle" /\ NextRowId < MaxRows
  /\ job' = [NoJob EXCEPT !.pc = "fetch", !.stack = <<Frame(p, v)>>, !.optional = optional]
  /\ doomed' = {}
  /\ touched' = touched \ {"job"}
  /\ UNCHANGED <<installed, onDisk, page>>

Update(rows, alone) ==
  /\ Asked
  /\ job.pc = "idle" /\ NextRowId < MaxRows
  /\ rows # {}
  /\ job' = [NoJob EXCEPT !.pc = "next", !.queue = rows, !.alone = alone]
  /\ doomed' = {}
  /\ touched' = touched \ {"job"}
  /\ UNCHANGED <<installed, onDisk, page>>

\* update_all_content
UpdateRequest == Update({r \in installed : r.proj # NoProject}, FALSE)

\* After a change of the server's version; CurseForge's mods are updated without what they
\* require.
VersionUpdateRequest ==
  \E alone \in BOOLEAN : Update({r \in installed : r.proj \notin Packs \cup {NoProject}}, alone)

\* vt_update_content, and after a change of version
PackUpdateRequest == Update({r \in installed : r.proj \in Packs}, FALSE)

\* One item of an update: what is current or has no fitting version is passed over, a missing
\* answer is noted.
UpdateNext ==
  /\ job.pc = "next"
  /\ IF job.queue = {} \/ NextRowId = MaxRows
     THEN job' = NoJob /\ doomed' = {}
     ELSE /\ UNCHANGED doomed
          /\ \E r \in job.queue :
               LET rest == [job EXCEPT !.queue = @ \ {r}]
                   v == Max(Offered(r.proj))
               IN \/ ("network" \in Faults \/ Offered(r.proj) = {}) /\ job' = rest
                  \/ /\ Offered(r.proj) # {}
                     /\ job' = IF r.ver = v THEN rest
                               ELSE [rest EXCEPT !.stack = <<IF job.alone THEN FrameAlone(r.proj, v)
                                                             ELSE Frame(r.proj, v)>>,
                                                 !.pc = IF r.proj \in Packs THEN "generate" ELSE "fetch",
                                                 !.pack = IF r.proj \in Packs THEN r.id ELSE 0]
  /\ UNCHANGED <<installed, onDisk, page, touched, requests>>

\* An exception: the parent passes over it if dependencies are optional, an update
\* goes on to its next item with the same session, a single request rolls back.
Raise(d) ==
  LET fails == job.failed \cup {TopFrame.proj}
  IN IF job.optional /\ Len(job.stack) > 1
     THEN /\ job' = [job EXCEPT !.stack = SubSeq(@, 1, Len(@) - 1), !.pc = "deps", !.failed = fails]
          /\ doomed' = d
     ELSE IF job.queue # {}
          THEN /\ job' = [job EXCEPT !.stack = <<>>, !.pc = "next", !.failed = fails]
               /\ doomed' = d
          ELSE job' = NoJob /\ doomed' = {}

InstallFetch ==
  /\ job.pc = "fetch"
  /\ \/ job' = [job EXCEPT !.pc = "deps"] /\ UNCHANGED doomed
     \/ "network" \in Faults /\ Raise(doomed)
  /\ UNCHANGED <<installed, onDisk, page, touched, requests>>

\* A bug: what may be any version counts as installed.
SatisfiedByAny(d) == d.ver = 0 \/ (RowsOf(d.proj) # {} /\ d.ver = Newest(d.proj).ver)

\* A modpack keeps the versions it has.
Satisfied(d) == RowsOf(d.proj) # {} /\ (job.optional \/ d.ver \in {0, Newest(d.proj).ver})

\* One required project: installed already, under way further up, or to be installed first.
InstallDependency ==
  /\ job.pc = "deps" /\ TopFrame.todo # <<>>
  /\ LET d == Head(TopFrame.todo)
         n == Len(job.stack)
         rest == [job EXCEPT !.stack[n].todo = Tail(@)]
         v == IF d.ver = 0 THEN Max(Offered(d.proj)) ELSE d.ver
     IN IF Satisfied(d) \/ (d.proj \in Processing /\ RowsOf(d.proj) # {})
        THEN job' = rest /\ UNCHANGED doomed
        ELSE IF d.proj \in Processing \/ n > MaxDepth \/ (d.ver = 0 /\ Offered(d.proj) = {})
             THEN \* "Abhaengigkeitszyklus erkannt", "ohne installierbare Version": the frame
                  \* that asked fails, or passes over the dependency if it is optional
                  IF job.optional THEN job' = rest /\ UNCHANGED doomed ELSE Raise(doomed)
             ELSE /\ job' = [rest EXCEPT !.stack = Append(@, Frame(d.proj, v)), !.pc = "fetch"]
                  /\ UNCHANGED doomed
  /\ UNCHANGED <<installed, onDisk, page, touched, requests>>

\* Loader, version, distribution and download address, then the old files are taken away.
InstallRemove ==
  /\ job.pc = "deps" /\ TopFrame.todo = <<>>
  /\ LET old == RowsOf(TopFrame.proj)
     IN \/ /\ Fits(TopFrame.proj, TopFrame.ver)
           /\ onDisk' = onDisk \ {r.file : r \in old}
           /\ doomed' = doomed \cup {r.id : r \in old}
           /\ job' = [job EXCEPT !.pc = "download"]
        \/ /\ "network" \in Faults \/ ~Fits(TopFrame.proj, TopFrame.ver)
           /\ UNCHANGED onDisk /\ Raise(doomed)
        \/ /\ "locked" \in Faults /\ Fits(TopFrame.proj, TopFrame.ver)
           /\ \E some \in SUBSET old :
                /\ some # old
                /\ onDisk' = onDisk \ {r.file : r \in some}
                /\ Raise(doomed \cup {r.id : r \in some})
  /\ Disturbs("job")
  /\ UNCHANGED <<installed, page, requests>>

\* The file, then (Modrinth) the project's title, then the row.
InstallDownload ==
  /\ job.pc = "download"
  /\ \/ /\ onDisk' = onDisk \cup {FileOf[TopFrame.proj, TopFrame.ver]}
        /\ \/ job' = [job EXCEPT !.pc = "commit"] /\ UNCHANGED doomed
           \/ "network" \in Faults /\ Raise(doomed)
     \/ "network" \in Faults /\ UNCHANGED onDisk /\ Raise(doomed)
  /\ Disturbs("job")
  /\ UNCHANGED <<installed, page, requests>>

AfterCommit == {r \in installed : r.id \notin doomed}
               \cup {ContentRow(NextRowId, TopFrame.proj, TopFrame.ver, FileOf[TopFrame.proj, TopFrame.ver])}

InstallCommit ==
  /\ job.pc = "commit" /\ NextRowId <= MaxRows
  /\ installed' = AfterCommit
  /\ doomed' = {}
  /\ job' = IF Len(job.stack) > 1
            THEN [job EXCEPT !.stack = SubSeq(@, 1, Len(@) - 1), !.pc = "deps"]
            ELSE [job EXCEPT !.pc = "done"]
  /\ Disturbs("job")
  /\ UNCHANGED <<onDisk, page, requests>>

InstallDone ==
  /\ job.pc = "done"
  /\ job' = IF job.queue # {} THEN [job EXCEPT !.pc = "next", !.stack = <<>>] ELSE NoJob
  /\ UNCHANGED <<installed, onDisk, doomed, page, touched, requests>>

---------------------------------------------------------------------------
(* Packs of VanillaTweaks.                                                 *)

\* install_datapacks
PackRequest(p) ==
  /\ Asked
  /\ job.pc = "idle" /\ NextRowId < MaxRows
  /\ job' = [NoJob EXCEPT !.pc = "generate", !.stack = <<Frame(p, Max(Versions))>>]
  /\ doomed' = {}
  /\ touched' = touched \ {"job"}
  /\ UNCHANGED <<installed, onDisk, page>>

PackOver == [job EXCEPT !.pc = "done", !.pack = 0]

\* The catalogue, the archive, the new file.
PackWrites ==
  /\ job.pc = "generate"
  /\ \/ /\ onDisk' = onDisk \cup {FileOf[TopFrame.proj, TopFrame.ver]}
        /\ job' = [job EXCEPT !.pc = IF job.pack = 0 THEN "enter" ELSE "swap"]
     \/ Faults \cap {"network", "locked"} # {} /\ job' = PackOver /\ UNCHANGED onDisk
  /\ Disturbs("job")
  /\ UNCHANGED <<installed, doomed, page, requests>>

\* _alte_datei_weg: a running server keeps the old file open; then it stays.
PackSwaps ==
  /\ job.pc = "swap"
  /\ LET old == {r.file : r \in {s \in installed : s.id = job.pack}}
     IN \/ onDisk' = onDisk \ (old \ {FileOf[TopFrame.proj, TopFrame.ver]})
        \/ "locked" \in Faults /\ UNCHANGED onDisk
  /\ job' = [job EXCEPT !.pc = "enter"]
  /\ Disturbs("job")
  /\ UNCHANGED <<installed, doomed, page, requests>>

\* Other rows of the new file go; a row that is gone meanwhile cannot be written, and ends
\* an update of all contents.
PackEnters ==
  /\ job.pc = "enter" /\ NextRowId <= MaxRows
  /\ LET f == FileOf[TopFrame.proj, TopFrame.ver]
         i == IF job.pack = 0 THEN NextRowId ELSE job.pack
     IN IF job.pack \in {0} \cup {r.id : r \in installed}
        THEN /\ installed' = {r \in installed : r.file # f /\ r.id # i}
                             \cup {ContentRow(i, TopFrame.proj, TopFrame.ver, f)}
             /\ job' = PackOver
        ELSE /\ job' \in {PackOver, NoJob}
             /\ UNCHANGED installed
  /\ Disturbs("job")
  /\ UNCHANGED <<onDisk, doomed, page, requests>>

---------------------------------------------------------------------------
(* Page views and deletions.                                               *)

PageGoes(t, p) == page' = [page EXCEPT ![t] = p]

\* The rows known before the folder is read (_sync_local_content_entries).
PageReads(t) ==
  /\ Asked
  /\ page[t].pc = "idle"
  /\ PageGoes(t, [Away EXCEPT !.pc = "scan", !.seen = {r.file : r \in installed}])
  /\ touched' = touched \ {t}
  /\ UNCHANGED <<installed, onDisk, doomed, job>>

LocalRows(t) ==
  LET new == onDisk \ page[t].seen
      numbers == CHOOSE g \in [new -> NextRowId..(NextRowId + Cardinality(new))] :
                   \A f, h \in new : f # h => g[f] # g[h]
  IN {ContentRow(numbers[f], NoProject, 0, f) : f \in new}

PageScans(t) ==
  /\ page[t].pc = "scan" /\ NextRowId + Cardinality(onDisk) < MaxRows
  /\ installed' = installed \cup LocalRows(t)
  /\ Disturbs(t)
  /\ PageGoes(t, [page[t] EXCEPT !.pc = "adopt"])
  /\ UNCHANGED <<onDisk, doomed, job, requests>>

\* auto_adopt_local_content: local rows not yet tried, whose file is there.
PageAdopts(t) ==
  /\ page[t].pc = "adopt"
  /\ \E recheck \in BOOLEAN :
       PageGoes(t, [page[t] EXCEPT !.pc = "settle",
                !.seen = {r \in installed : /\ r.proj = NoProject /\ r.file \in onDisk
                                            /\ recheck \/ r.mark = "none"}])
  /\ UNCHANGED <<installed, onDisk, doomed, job, touched, requests>>

\* Each provider in turn answered, failed for now, or could not be asked; VanillaTweaks only
\* knows datapacks.  A file may turn out unreadable when its fingerprint is wanted.
Consulted(f) ==
  {q \in Enabled : q = "vanillatweaks" => \E x \in Packs \X Versions : FileOf[x] = f}
Adopted(r, answered) ==
  \E q \in answered \cap Consulted(r.file) : q \in Knows[r.file]
ProjectOf(f) == CHOOSE x \in Projects \X Versions : FileOf[x] = f
\* A bug: one answer settles it.
DefinitiveByOne(r, answered) == answered # {}
Definitive(r, answered) == Consulted(r.file) \subseteq answered
Judged(r, answered, unread) ==
  IF Adopted(r, IF unread THEN answered \ {"curseforge"} ELSE answered)
  THEN [r EXCEPT !.proj = ProjectOf(r.file)[1], !.ver = ProjectOf(r.file)[2], !.mark = "none"]
  ELSE IF Definitive(r, answered) THEN [r EXCEPT !.mark = "unmatched", !.unread = unread]
       ELSE r

PageSettles(t) ==
  /\ page[t].pc = "settle"
  /\ \E answered \in SUBSET Enabled, bad \in SUBSET page[t].seen :
       /\ "network" \notin Faults => answered = Enabled
       /\ bad # {} => /\ "unreadable" \in Faults
                      \* with no fingerprint at all CurseForge is not asked
                      /\ "curseforge" \in answered => bad # page[t].seen
       /\ installed' =
            IF {r.id : r \in page[t].seen} \subseteq {r.id : r \in installed}
            THEN {r \in installed : r.id \notin {s.id : s \in page[t].seen}}
                 \cup {Judged(r, answered, r \in bad) : r \in page[t].seen}
            ELSE installed  \* a row is gone: the UPDATE fails and all is rolled back
  /\ IF installed' = installed THEN UNCHANGED touched ELSE Disturbs(t)
  /\ PageGoes(t, [page[t] EXCEPT !.pc = "look", !.seen = {}])
  /\ UNCHANGED <<onDisk, doomed, job, requests>>

\* A bug: only rows of files the user put there are taken out.
GoneByHand == {r.id : r \in {s \in installed : s.proj = NoProject /\ s.file \notin onDisk}}

\* list_installed_content: rows without a file are taken out.
Gone == {r.id : r \in {s \in installed : s.file \notin onDisk}}

PageLooks(t) ==
  /\ page[t].pc = "look"
  /\ PageGoes(t, [page[t] EXCEPT !.pc = "heal", !.ids = Gone])
  /\ UNCHANGED <<installed, onDisk, doomed, job, touched, requests>>

PageHeals(t) ==
  /\ page[t].pc = "heal"
  /\ installed' = {r \in installed : r.id \notin page[t].ids}
  /\ IF page[t].ids = {} THEN UNCHANGED touched ELSE Disturbs(t)
  /\ PageGoes(t, [page[t] EXCEPT !.pc = "shown"])
  /\ UNCHANGED <<onDisk, doomed, job, requests>>

PageShown(t) ==
  /\ page[t].pc = "shown"
  /\ PageGoes(t, Away)
  /\ UNCHANGED <<installed, onDisk, doomed, job, touched, requests>>

\* delete_installed_content: the file first, then the row.
DeleteFile(t) ==
  /\ Asked
  /\ page[t].pc = "idle"
  /\ \E r \in installed :
       /\ onDisk' = onDisk \ {r.file}
       /\ PageGoes(t, [Away EXCEPT !.pc = "unlinked", !.target = r.id])
  /\ Disturbs(t)
  /\ UNCHANGED <<installed, doomed, job>>

DeleteRow(t) ==
  /\ page[t].pc = "unlinked"
  /\ installed' = {r \in installed : r.id # page[t].target}
  /\ Disturbs(t)
  /\ PageGoes(t, Away)
  /\ UNCHANGED <<onDisk, doomed, job, requests>>

\* A user puts a file into the folder.
Upload ==
  /\ Asked
  /\ \E f \in HandFiles \ onDisk : onDisk' = onDisk \cup {f}
  /\ touched' = Actors
  /\ UNCHANGED <<installed, doomed, job, page>>

ContentNext ==
  \/ \E w \in Wanted, o \in BOOLEAN : InstallRequest(w[1], w[2], o)
  \/ UpdateRequest \/ VersionUpdateRequest \/ PackUpdateRequest \/ UpdateNext
  \/ InstallFetch \/ InstallDependency \/ InstallRemove
  \/ InstallDownload \/ InstallCommit \/ InstallDone
  \/ \E p \in Packs : PackRequest(p)
  \/ PackWrites \/ PackSwaps \/ PackEnters
  \/ \E t \in Pages : \/ PageReads(t) \/ PageScans(t) \/ PageAdopts(t) \/ PageSettles(t)
                      \/ PageLooks(t) \/ PageHeals(t) \/ PageShown(t)
                      \/ DeleteFile(t) \/ DeleteRow(t)
  \/ Upload

ContentSpec == ContentInit /\ [][ContentNext]_contentVars

---------------------------------------------------------------------------
(* Properties.                                                             *)

\* After a page view that nobody disturbed, rows and files stand for each other: whatever
\* failed before it, no row lacks its file and no file its row.
CalmListingIsTrue ==
  \A t \in Pages : page[t].pc = "shown" /\ t \notin touched =>
    {r.file : r \in installed} = onDisk

\* A mod that was installed undisturbed has every project it requires, unless the same run
\* failed on that project before or passed over it.
DependenciesStand ==
  job.pc = "done" /\ "job" \notin touched =>
    LET needed == {Requires[TopFrame.proj, TopFrame.ver][i].proj : i \in DOMAIN Requires[TopFrame.proj, TopFrame.ver]}
    IN \A p \in needed : RowsOf(p) # {} \/ p \in job.failed \/ job.optional \/ job.alone

\* A file some provider that is switched on knows is never written off, not even after a
\* lookup that failed - except one that could not be read while others could.
KnownFileStaysOpen ==
  \A r \in installed : r.mark = "unmatched" =>
    Knows[r.file] \cap Consulted(r.file) \subseteq IF r.unread THEN {"curseforge"} ELSE {}

\* The listing the user works with is true: of the files, and of what providers know.
ListingIsTrue == CalmListingIsTrue /\ KnownFileStaysOpen

=============================================================================
