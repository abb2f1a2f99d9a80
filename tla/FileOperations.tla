--------------------------- MODULE FileOperations ---------------------------
(***************************************************************************)
(* What works on the files of a server, on top of its life cycle: backups, *)
(* restores, duplications of the server and transfers of a world from or   *)
(* to it.  A backup or restore protects itself with the status             *)
(* "backup_running", which start_server refuses; a duplication or transfer *)
(* with the counter _ACTIVE_DUP_SOURCES, which start_server asks too.      *)
(* These jobs run in the same threads as the requests of ServerLifecycle   *)
(* and call stop_server and start_server in the middle of their work.      *)
(***************************************************************************)
EXTENDS ServerLifecycle

CONSTANTS
  Jobs,       (* the jobs that are asked for, a subset of JobKinds          *)
  FilesFail   (* whether moving files into their place may fail half-way    *)

VARIABLES
  job,      (* what the job of each thread remembers, see Job               *)
  copies,   (* _ACTIVE_DUP_SOURCES[server_id]                               *)
  folder    (* "whole", or "cleared" while the world is not at its place    *)

fileVars == <<job, copies, folder>>
allVars  == <<vars, fileVars>>

(* "cold_backup" is a backup with the pre-action stop_start; "transfer_to" *)
(* replaces this server's world, "transfer_from" reads it.                 *)
JobKinds == {"backup", "cold_backup", "restore", "duplicate", "transfer_to", "transfer_from"}
Transfers == {"transfer_to", "transfer_from"}

BackupLabels    == {"backup_probe", "backup_mark", "backup_zip", "backup_restart", "backup_reset"}
RestoreLabels   == {"restore_probe", "restore_mark", "restore_clear", "restore_fill",
                    "restore_reset"}
DuplicateLabels == {"dup_check", "dup_source", "dup_mark", "dup_recheck", "dup_copy",
                    "dup_release"}
TransferLabels  == {"transfer_lock", "transfer_check", "transfer_recheck", "transfer_copy",
                    "transfer_swap", "transfer_release"}
JobLabels == BackupLabels \cup RestoreLabels \cup DuplicateLabels \cup TransferLabels

ASSUME FileAssumption ==
  /\ Jobs \subseteq JobKinds
  /\ FilesFail \in BOOLEAN
  /\ CallerLabels = JobLabels
  /\ "duplication" \in Faults
  /\ IsFiniteSet(Threads)

Job == [
  kind : JobKinds \cup {"none"},
  was  : BOOLEAN,    (* was_running                                         *)
  prev : Status,     (* previous_status                                     *)
  ok   : BOOLEAN]    (* the backup of a transfer succeeded                  *)

NoJob == [kind |-> "none", was |-> FALSE, prev |-> "stopped", ok |-> FALSE]

FileTypeOK ==
  /\ TypeOK
  /\ job \in [Threads -> Job]
  /\ copies \in Nat
  /\ folder \in {"whole", "cleared"}

FileInit ==
  /\ Init
  /\ job = [t \in Threads |-> NoJob]
  /\ copies = 0
  /\ folder = "whole"

-----------------------------------------------------------------------------
(* A job goes on at a program point, or is done.                           *)
Forget(t) == job' = [job EXCEPT ![t] = NoJob]
Done(t) == Goto(t, "idle") /\ Forget(t)
Continue(t, label) == Goto(t, label) /\ UNCHANGED job

(* It writes a status and goes on, or calls stop_server or start_server.   *)
CommitAndCall(t, s, entry, back) ==
  /\ status' = IF thread[t].local = s THEN status ELSE s
  /\ Enter(t, [thread[t] EXCEPT !.pc = entry, !.ret = back, !.local = s])

Call(t, entry, back) == Enter(t, [thread[t] EXCEPT !.pc = entry, !.ret = back])

LifeUnchanged == UNCHANGED <<procVars, streamVars, startSlot, restartVars>>

FirstLabel(k) ==
  CASE k \in {"backup", "cold_backup"} -> "backup_probe"
    [] k = "restore" -> "restore_probe"
    [] k = "duplicate" -> "dup_check"
    [] OTHER -> "transfer_lock"

(* A request or the schedule asks for a job.                               *)
Ask(t, k) ==
  /\ At(t, "idle")
  /\ k \in Jobs
  /\ Enter(t, [pc |-> FirstLabel(k), ret |-> "idle", mode |-> "caller", local |-> status,
               target |-> None])
  /\ job' = [job EXCEPT ![t] = [NoJob EXCEPT !.kind = k]]
  /\ UNCHANGED <<status, copies, folder>> /\ LifeUnchanged

-----------------------------------------------------------------------------
(* create_backup                                                           *)

BackupProbe(t) ==
  /\ At(t, "backup_probe")
  /\ Goto(t, "backup_mark")
  /\ job' = [job EXCEPT ![t].was = IsRunning, ![t].prev = thread[t].local]
  /\ UNCHANGED <<status, copies, folder>> /\ LifeUnchanged

StopsFirst(t) == job[t].kind = "cold_backup" /\ job[t].was

BackupMark(t) ==
  /\ At(t, "backup_mark")
  /\ CommitAndCall(t, "backup_running", IF StopsFirst(t) THEN "stop_cancel" ELSE "backup_zip",
                   "backup_zip")
  /\ UNCHANGED fileVars /\ LifeUnchanged

(* The archive is written, or an exception (no file, a disk that is full)  *)
(* makes the backup fail; either way the finally clause follows.           *)
BackupZip(t) ==
  /\ At(t, "backup_zip")
  /\ Goto(t, IF StopsFirst(t) THEN "backup_restart" ELSE "backup_reset")
  /\ \E written \in BOOLEAN :
       job' = [job EXCEPT ![t].ok = written /\ job[t].kind = "transfer_to"]
  /\ UNCHANGED <<status, copies, folder>> /\ LifeUnchanged

BackupRestart(t) ==
  /\ At(t, "backup_restart")
  /\ IF IsRunning THEN Goto(t, "backup_reset") ELSE Call(t, "start_slot", "backup_reset")
  /\ UNCHANGED <<status, fileVars>> /\ LifeUnchanged

(* previous_status, unless that was another backup's mark.                 *)
ResetTo(prev) == IF prev = "backup_running" THEN "stopped" ELSE prev

Reset(t, label) ==
  Commit(t, IF thread[t].local = "backup_running" THEN ResetTo(job[t].prev) ELSE thread[t].local,
         label)

(* The end of a backup; that of a transfer's target goes on with the       *)
(* transfer, or gives up.                                                  *)
BackupReset(t) ==
  /\ At(t, "backup_reset")
  /\ IF job[t].kind = "transfer_to"
     THEN /\ Reset(t, IF job[t].ok THEN "transfer_copy" ELSE "transfer_release")
          /\ job' = [job EXCEPT ![t] = [NoJob EXCEPT !.kind = "transfer_to"]]
     ELSE Reset(t, "idle") /\ Forget(t)
  /\ UNCHANGED <<copies, folder>> /\ LifeUnchanged

-----------------------------------------------------------------------------
(* restore_backup                                                          *)

(* Refused while the server runs, unless the request allows to stop it.    *)
RestoreProbe(t) ==
  /\ At(t, "restore_probe")
  /\ \/ IsRunning /\ Done(t)
     \/ /\ Goto(t, "restore_mark")
        /\ job' = [job EXCEPT ![t].was = IsRunning, ![t].prev = thread[t].local]
  /\ UNCHANGED <<status, copies, folder>> /\ LifeUnchanged

RestoreMark(t) ==
  /\ At(t, "restore_mark")
  /\ CommitAndCall(t, "backup_running", IF job[t].was THEN "stop_cancel" ELSE "restore_clear",
                   "restore_clear")
  /\ UNCHANGED fileVars /\ LifeUnchanged

(* The archive is unpacked next to the folder; if that succeeds, the       *)
(* folder is cleared,                                                      *)
RestoreClear(t) ==
  /\ At(t, "restore_clear")
  /\ \/ Continue(t, "restore_fill") /\ folder' = "cleared"
     \/ Continue(t, "restore_reset") /\ UNCHANGED folder
  /\ UNCHANGED <<status, copies>> /\ LifeUnchanged

(* and filled from there, which may fail half-way.  A start may follow.    *)
RestoreFill(t) ==
  /\ At(t, "restore_fill")
  /\ \/ Continue(t, "restore_reset") /\ folder' = "whole"
     \/ Call(t, "start_slot", "restore_reset") /\ folder' = "whole" /\ UNCHANGED job
     \/ FilesFail /\ Continue(t, "restore_reset") /\ UNCHANGED folder
  /\ UNCHANGED <<status, copies>> /\ LifeUnchanged

RestoreResetSkipped(t) ==
  /\ At(t, "restore_reset")
  /\ Done(t)
  /\ UNCHANGED <<status, copies, folder>> /\ LifeUnchanged

RestoreReset(t) ==
  /\ At(t, "restore_reset")
  /\ Reset(t, "idle") /\ Forget(t)
  /\ UNCHANGED <<copies, folder>> /\ LifeUnchanged

-----------------------------------------------------------------------------
(* The counter of jobs at the files.                                       *)

MarkedAsSet == copies' = 1
MarkSource == copies' = copies + 1
UnmarkSource == copies' = IF copies > 1 THEN copies - 1 ELSE 0

(* duplicate_server and, in a thread of its own, _perform_duplicate.       *)
DupCheck(t) ==
  /\ At(t, "dup_check")
  /\ IF IsRunning \/ thread[t].local = "provisioning" THEN Done(t) ELSE Continue(t, "dup_source")
  /\ UNCHANGED <<status, copies, folder>> /\ LifeUnchanged

DupSource(t) ==
  /\ At(t, "dup_source")
  /\ IF copies > 0 THEN Done(t) ELSE Continue(t, "dup_mark")
  /\ UNCHANGED <<status, copies, folder>> /\ LifeUnchanged

(* In between, the clone got its name, port, folder and row.               *)
DupMark(t) ==
  /\ At(t, "dup_mark")
  /\ MarkSource
  /\ Continue(t, "dup_recheck")
  /\ UNCHANGED <<status, folder>> /\ LifeUnchanged

DupRecheck(t) ==
  /\ At(t, "dup_recheck")
  /\ Continue(t, IF IsRunning THEN "dup_release" ELSE "dup_copy")
  /\ UNCHANGED <<status, copies, folder>> /\ LifeUnchanged

(* The copy ends, complete, failed or cancelled.                           *)
DupCopy(t) ==
  /\ At(t, "dup_copy")
  /\ Continue(t, "dup_release")
  /\ UNCHANGED <<status, copies, folder>> /\ LifeUnchanged

DupRelease(t) ==
  /\ At(t, "dup_release")
  /\ UnmarkSource
  /\ Done(t)
  /\ UNCHANGED <<status, folder>> /\ LifeUnchanged

-----------------------------------------------------------------------------
(* uebertrage and, in a thread of its own, _fuehre_aus.                    *)

(* try_lock_servers_for_file_copy: all or nothing, so it is also refused   *)
(* when the other server of the transfer is being worked on.               *)
TransferLock(t) ==
  /\ At(t, "transfer_lock")
  /\ \/ copies = 0 /\ copies' = 1 /\ Continue(t, "transfer_check")
     \/ UNCHANGED copies /\ Done(t)
  /\ UNCHANGED <<status, folder>> /\ LifeUnchanged

(* pruefe_transfer, which may also object to the other server or the world.*)
Objection(s) == IsRunning \/ s = "provisioning"

TransferCheck(t) ==
  /\ At(t, "transfer_check")
  /\ \/ Continue(t, "transfer_release")
     \/ ~Objection(thread[t].local) /\ Continue(t, "transfer_recheck")
  /\ UNCHANGED <<status, copies, folder>> /\ LifeUnchanged

(* Once more, in the background thread's own session; then the target is   *)
(* backed up.                                                              *)
TransferRecheck(t) ==
  /\ At(t, "transfer_recheck")
  /\ \/ Continue(t, "transfer_release")
     \/ /\ ~Objection(status)
        /\ Enter(t, [thread[t] EXCEPT
                       !.local = status,
                       !.pc = IF job[t].kind = "transfer_to" THEN "backup_probe"
                              ELSE "transfer_copy"])
        /\ UNCHANGED job
  /\ UNCHANGED <<status, copies, folder>> /\ LifeUnchanged

(* The world is copied to a folder of its own; then, at the target, the    *)
(* present one is put aside.                                               *)
TransferCopy(t) ==
  /\ At(t, "transfer_copy")
  /\ \/ Continue(t, "transfer_release") /\ UNCHANGED folder
     \/ job[t].kind = "transfer_to" /\ Continue(t, "transfer_swap") /\ folder' = "cleared"
  /\ UNCHANGED <<status, copies>> /\ LifeUnchanged

(* _tausche_welt: the new one is moved in, or the old one back, which may  *)
(* fail too.                                                               *)
TransferSwap(t) ==
  /\ At(t, "transfer_swap")
  /\ folder' \in IF FilesFail THEN {"whole", "cleared"} ELSE {"whole"}
  /\ Continue(t, "transfer_release")
  /\ UNCHANGED <<status, copies>> /\ LifeUnchanged

ReleaseForgotten(t) ==
  /\ At(t, "transfer_release")
  /\ Done(t)
  /\ UNCHANGED <<status, copies, folder>> /\ LifeUnchanged

(* What else is taken over (configurations, plugins, lists) leaves this    *)
(* state alone; then the lock is given back.                               *)
TransferRelease(t) ==
  /\ At(t, "transfer_release")
  /\ UnmarkSource
  /\ Done(t)
  /\ UNCHANGED <<status, folder>> /\ LifeUnchanged

-----------------------------------------------------------------------------
BackupStep(t) ==
  BackupProbe(t) \/ BackupMark(t) \/ BackupZip(t) \/ BackupRestart(t) \/ BackupReset(t)
RestoreStep(t) ==
  RestoreProbe(t) \/ RestoreMark(t) \/ RestoreClear(t) \/ RestoreFill(t) \/ RestoreReset(t)
DuplicateStep(t) ==
  \/ DupCheck(t) \/ DupSource(t) \/ DupMark(t) \/ DupRecheck(t) \/ DupCopy(t) \/ DupRelease(t)
TransferStep(t) ==
  \/ TransferLock(t) \/ TransferCheck(t) \/ TransferRecheck(t) \/ TransferCopy(t)
  \/ TransferSwap(t) \/ TransferRelease(t)

JobStep(t) == BackupStep(t) \/ RestoreStep(t) \/ DuplicateStep(t) \/ TransferStep(t)

(* start_server finds out whether the server is being copied by asking     *)
(* is_active_duplication_source.                                           *)
DuplicationSeen ==
  \A t \in Threads : At(t, "start_check") =>
    /\ thread'[t].pc \in {"start_scan", "start_fail"} => copies = 0
    /\ thread'[t].pc = "start_release" => copies > 0 \/ StartRefused(t)

LifeStep == ManagerRuns /\ DuplicationSeen /\ UNCHANGED fileVars

(* The jobs and the counter end with the manager; the folder stays.        *)
ManagerEndsWithJobs ==
  /\ ManagerEnds
  /\ job' = [t \in Threads |-> NoJob]
  /\ copies' = 0
  /\ UNCHANGED folder

FileNext ==
  \/ LifeStep
  \/ ManagerEndsWithJobs
  \/ \E t \in Threads : JobStep(t) \/ \E k \in JobKinds : Ask(t, k)

FileSpec == FileInit /\ [][FileNext]_allVars

(* Threads that have been called are scheduled.                            *)
FileFairness ==
  /\ \A t \in Threads : /\ WF_allVars(JobStep(t))
                        /\ WF_allVars(CallStep(t) /\ DuplicationSeen /\ UNCHANGED fileVars)
  /\ \A p \in Procs : /\ WF_allVars(StreamStep(p) /\ UNCHANGED fileVars)
                      /\ WF_allVars(p \notin alive /\ StreamEnds(p) /\ UNCHANGED fileVars)

FileFairSpec == FileSpec /\ FileFairness
-----------------------------------------------------------------------------
(* Properties                                                              *)

(* The counter counts the jobs that are at the files, so the first one to  *)
(* finish does not lift the lock for all (the comment at _DUP_LOCK).       *)
HoldsLock(t) ==
  \/ job[t].kind \in Transfers /\ ~At(t, "transfer_lock")
  \/ thread[t].pc \in {"dup_recheck", "dup_copy", "dup_release"}

Holders == {t \in Threads : HoldsLock(t)}

LockCountsHolders == copies = Cardinality(Holders)

(* A transfer never leaves its own program points and those of its backup, *)
(* and nothing that is called returns into the middle of a job that holds  *)
(* the lock.                                                               *)
JobPlaced(t) ==
  /\ job[t].kind = "transfer_from" => thread[t].pc \in TransferLabels
  /\ job[t].kind = "transfer_to"
       => thread[t].pc \in TransferLabels \cup (BackupLabels \ {"backup_restart"})
  /\ thread[t].pc \in TransferLabels => job[t].kind \in Transfers
  /\ thread[t].ret \notin TransferLabels \cup DuplicateLabels

LockInv == FileTypeOK /\ (\A t \in Threads : JobPlaced(t)) /\ LockCountsHolders

(* Two transfers never work on one server's files at the same time, even   *)
(* when a duplication of that server begins and ends in between.           *)
InTransfer(t) == job[t].kind \in Transfers /\ ~At(t, "transfer_lock")

TransfersExclude == \A t, u \in Threads : InTransfer(t) /\ InTransfer(u) => t = u

(* _ACTIVE_DUP_SOURCES keeps both promises: it counts its holders, and no  *)
(* two transfers hold it.                                                  *)
LocksExclude == LockInv /\ TransfersExclude

(* Whatever overlaps: when nothing is under way any more, no server is     *)
(* left marked as being backed up, which would refuse every later start.   *)
BackupMarkIsTransient == Quiet => status # "backup_running"

(* The same while the manager runs on: the mark does not stay.             *)
BackupMarkGoes == status = "backup_running" ~> status # "backup_running"

(* Every job gives its lock back, whatever fails in it.                    *)
LockIsGivenBack == copies > 0 ~> copies = 0

(* Whatever fails, the server can be started and its folder used again.    *)
MarksAndLocksGo == BackupMarkGoes /\ LockIsGivenBack

(* A restore replaces the files of a server that does not run: "Fuer       *)
(* Restore muss der Server gestoppt sein".                                 *)
RestoredAtRest == \A t \in Threads : At(t, "restore_fill") => alive = {}

(* The start that a restore makes ("Danach starten") is not refused for    *)
(* the mark of that restore.                                               *)
RestoreMayStart ==
  \A t \in Threads :
    At(t, "start_check") /\ thread[t].ret = "restore_reset" => thread[t].local # "backup_running"

(* No server is launched while a copy of its files is under way: "Solange  *)
(* gesperrt darf der Server nicht gestartet werden".                       *)
NoLaunchWhileLocked == [][spawned' # spawned => copies = 0]_allVars

(* A transfer never replaces a world that a duplication is reading: "eine  *)
(* Uebernahme auf einen Server, der gerade als Duplizier-Quelle gelesen    *)
(* wird, wuerde dessen Welt unter der laufenden Kopie wegziehen".          *)
CopiedWorldStays ==
  \A t, u \in Threads : At(t, "transfer_swap") => ~At(u, "dup_copy")
=============================================================================
