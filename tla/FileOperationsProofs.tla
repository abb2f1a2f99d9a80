------------------------ MODULE FileOperationsProofs ------------------------
(* What holds of the jobs on a server's files for every number of threads  *)
(* and processes: the life cycle keeps its promise of one process, the     *)
(* lock counts the jobs that hold it, and the mark of a backup goes.       *)
EXTENDS FileOperations, ServerLifecycleProofs, FiniteSetTheorems

-----------------------------------------------------------------------------
(* The life cycle under the jobs.                                          *)

OwnReturns == {"idle", "restart_refresh", "shutdown_exit", "refresh_commit"}

(* A thread that is in the life cycle stays there or returns.              *)
LifeMove(t) ==
  /\ thread[t].pc \in OwnLabels
  /\ thread'[t].pc \in OwnLabels \cup {thread[t].ret}
  /\ thread'[t].ret \in OwnReturns \cup {thread[t].ret}
  /\ \A u \in Threads : u # t => thread'[u] = thread[u]

(* The program points of the jobs are not the life cycle's.                *)
LEMMA JobLabelsApart ==
  /\ JobLabels \subseteq Labels /\ JobLabels \subseteq ReturnLabels
  /\ JobLabels \cap OwnLabels = {}
  /\ OwnLabels \subseteq Labels
  BY FileAssumption, CallerAssumption DEF Labels, ReturnLabels

(* stop_server stays or returns,                                           *)
LEMMA StopLives ==
  ASSUME TypeOK, NEW t \in Threads, StopStep(t)
  PROVE  LifeMove(t)
  <1> USE LabelsAreLabels DEF At, LifeMove
  <1>0. /\ thread \in [Threads -> Thread] /\ status \in Status
        /\ thread[t].ret \in Labels
        /\ StopLabels \subseteq OwnLabels /\ "idle" \in OwnReturns
    BY DEF TypeOK, Thread, OwnLabels, OwnReturns
  <1>1. CASE StopCancel(t)
    BY <1>0, <1>1, GotoThread DEF StopCancel, StopLabels
  <1>2. CASE StopLookup(t)
    <2> DEFINE r == [thread[t] EXCEPT !.target = registry,
                                      !.pc = IF registry = None THEN "stop_external"
                                             ELSE IF registry \in alive THEN "stop_mark"
                                             ELSE "stop_cleanup"]
    <2>1. r \in Thread /\ r.pc \in StopLabels /\ r.ret = thread[t].ret
      BY <1>0 DEF Thread, StopLabels, TypeOK
    <2>2. Enter(t, r)
      BY <1>2 DEF StopLookup
    <2>3. thread[t].pc \in StopLabels
      BY <1>2 DEF StopLookup, StopLabels
    <2> HIDE DEF r
    <2> QED BY <1>0, <2>1, <2>2, <2>3, EnterThread
  <1>3. CASE StopExternal(t)
    BY <1>0, <1>3, GotoThread DEF StopExternal, StopLabels
  <1>4. CASE StopMark(t)
    BY <1>0, <1>4, CommitThread DEF StopMark, StopLabels, Status
  <1>5. CASE StopWait(t)
    BY <1>0, <1>5, GotoThread DEF StopWait, StopLabels
  <1>6. CASE StopCleanup(t)
    BY <1>0, <1>6, GotoThread DEF StopCleanup, StopLabels
  <1>7. CASE StopWrite(t)
    BY <1>0, <1>7, CommitThread DEF StopWrite, StopLabels, Status
  <1> QED
    BY <1>1, <1>2, <1>3, <1>4, <1>5, <1>6, <1>7 DEF StopStep

(* start_server does,                                                      *)
LEMMA StartLives ==
  ASSUME TypeOK, NEW t \in Threads, StartStep(t)
  PROVE  LifeMove(t)
  <1> USE LabelsAreLabels DEF At, LifeMove
  <1>0. /\ thread \in [Threads -> Thread] /\ status \in Status
        /\ StartLabels \subseteq OwnLabels /\ "start_slot" \in OwnLabels /\ "idle" \in OwnReturns
        /\ StartReturn(t) \in Labels
        /\ StartReturn(t) \in OwnLabels \cup {thread[t].ret}
    <2>1. thread \in [Threads -> Thread] /\ status \in Status /\ thread[t].ret \in Labels
      BY DEF TypeOK, Thread
    <2>2. StartReturn(t) \in {thread[t].ret, "idle", "worker_release"}
      BY DEF StartReturn, EndOf
    <2> QED BY <2>1, <2>2 DEF OwnLabels, OtherLabels, OwnReturns
  <1>1. CASE StartSlot(t)
    BY <1>0, <1>1, GotoThread DEF StartSlot, StartLabels
  <1>2. CASE StartCheck(t)
    BY <1>0, <1>2, GotoThread DEF StartCheck, StartLabels
  <1>3. CASE StartScan(t)
    BY <1>0, <1>3, GotoThread DEF StartScan, StartLabels
  <1>4. CASE StartExternal(t) \/ StartMark(t) \/ StartFail(t)
    BY <1>0, <1>4, CommitThread DEF StartExternal, StartMark, StartFail, StartLabels, Status
  <1>5. CASE StartPrepare(t) \/ StartRegister(t) \/ StartRelease(t)
    BY <1>0, <1>5, GotoThread DEF StartPrepare, StartRegister, StartRelease, StartLabels
  <1>6. CASE StartLaunch(t)
    <2>1. ASSUME NEW p \in Procs,
                 Enter(t, [thread[t] EXCEPT !.pc = "start_register", !.target = p])
          PROVE  LifeMove(t)
      <3> DEFINE r == [thread[t] EXCEPT !.pc = "start_register", !.target = p]
      <3>1. r \in Thread /\ r.pc = "start_register" /\ r.ret = thread[t].ret
        BY <1>0 DEF Thread, StartLabels
      <3>2. Enter(t, r)
        BY <2>1
      <3>3. thread[t].pc \in StartLabels
        BY <1>6 DEF StartLaunch, StartLabels
      <3> HIDE DEF r
      <3> QED BY <1>0, <3>1, <3>2, <3>3, EnterThread DEF StartLabels
    <2> QED BY <1>0, <1>6, <2>1, GotoThread DEF StartLaunch, StartLabels
  <1> QED BY <1>1, <1>2, <1>3, <1>4, <1>5, <1>6 DEF StartStep

(* restart_server does,                                                    *)
LEMMA RestartLives ==
  ASSUME TypeOK, NEW t \in Threads, RestartStep(t)
  PROVE  LifeMove(t)
  <1> USE LabelsAreLabels DEF At, LifeMove
  <1>0. /\ thread \in [Threads -> Thread] /\ status \in Status
        /\ OtherLabels \cup StopLabels \subseteq OwnLabels /\ "idle" \in OwnReturns
    BY DEF TypeOK, OwnLabels, OwnReturns
  <1>1. CASE WorkerStops(t) \/ WorkerRelease(t)
    BY <1>0, <1>1, GotoThread DEF WorkerStops, WorkerRelease, OtherLabels
  <1>2. CASE WorkerProceeds(t) \/ RestartRefresh(t)
    <2> DEFINE r(label) == [thread[t] EXCEPT !.pc = label, !.local = status]
    <2>1. PICK label \in {"restart_mark", "start_slot"} : Enter(t, r(label))
      BY <1>2 DEF WorkerProceeds, RestartRefresh
    <2>2. r(label) \in Thread /\ r(label).pc = label /\ r(label).ret = thread[t].ret
      BY <1>0 DEF Thread, OtherLabels
    <2>3. thread[t].pc \in OtherLabels /\ label \in OtherLabels
      BY <1>2 DEF WorkerProceeds, RestartRefresh, OtherLabels
    <2> HIDE DEF r
    <2> QED BY <1>0, <2>1, <2>2, <2>3, EnterThread
  <1>3. CASE RestartMark(t)
    BY <1>0, <1>3, CommitThread DEF RestartMark, StopLabels, OtherLabels, Status
  <1> QED BY <1>1, <1>2, <1>3 DEF RestartStep

(* refresh_runtime_states does,                                            *)
LEMMA RefreshLives ==
  ASSUME TypeOK, NEW t \in Threads, RefreshStep(t)
  PROVE  LifeMove(t)
  <1> USE LabelsAreLabels DEF At, LifeMove
  <1>0. /\ thread \in [Threads -> Thread] /\ thread[t].ret \in ReturnLabels
        /\ OtherLabels \subseteq OwnLabels /\ {"idle", "refresh_commit"} \subseteq OwnReturns
    BY DEF TypeOK, Thread, OwnLabels, OwnReturns
  <1>1. CASE RefreshProbe(t) \/ RefreshCleanup(t) \/ RefreshCommit(t)
    BY <1>0, <1>1, GotoThread DEF RefreshProbe, RefreshCleanup, RefreshCommit, OtherLabels
  <1>2. CASE RefreshUp(t)
    <2> DEFINE verdict == Refreshed(thread[t].local, TRUE, RuntimeReady)
               r == [thread[t] EXCEPT !.local = verdict, !.pc = AfterVerdict(t, verdict)]
    <2>1. verdict \in Status
      BY <1>0, RefreshedIsStatus DEF Thread, RuntimeReady, IsRunning, TypeOK
    <2>2. r \in Thread /\ r.pc \in OtherLabels /\ r.ret = thread[t].ret
      BY <1>0, <2>1 DEF Thread, OtherLabels, AfterVerdict
    <2>3. Enter(t, r) /\ thread[t].pc \in OtherLabels
      BY <1>2 DEF RefreshUp, OtherLabels
    <2> HIDE DEF r
    <2> QED BY <1>0, <2>2, <2>3, EnterThread
  <1>3. CASE RefreshDown(t)
    <2> DEFINE verdict == Refreshed(thread[t].local, ExternalPids # {}, RuntimeReady)
               r == [thread[t] EXCEPT !.local = verdict, !.pc = "refresh_cleanup",
                                      !.ret = AfterVerdict(t, verdict)]
    <2>1. verdict \in Status
      BY <1>0, RefreshedIsStatus DEF Thread, RuntimeReady, IsRunning, TypeOK
    <2>2. r \in Thread /\ r.pc \in OtherLabels /\ r.ret \in OwnReturns
      BY <1>0, <2>1 DEF Thread, OtherLabels, AfterVerdict, ReturnLabels, OwnReturns
    <2>3. Enter(t, r) /\ thread[t].pc \in OtherLabels
      BY <1>3 DEF RefreshDown, OtherLabels
    <2> HIDE DEF r
    <2> QED BY <1>0, <2>2, <2>3, EnterThread
  <1> QED BY <1>1, <1>2, <1>3 DEF RefreshStep

(* and so do the other requests.                                           *)
LEMMA OtherLives ==
  ASSUME TypeOK, NEW t \in Threads,
         \/ \E m \in RequestKinds : Begin(t, m)
         \/ QueueRestart(t) \/ ConsoleStop(t) \/ Shutdown(t)
         \/ AutostartKill(t) \/ AutostartMark(t)
  PROVE  LifeMove(t)
  <1> USE LabelsAreLabels DEF At, LifeMove
  <1>0. /\ thread \in [Threads -> Thread] /\ status \in Status
        /\ OtherLabels \cup StopLabels \subseteq OwnLabels /\ "idle" \in OwnReturns
        /\ \A m : ReturnOf(m) \in OwnReturns
    BY DEF TypeOK, OwnLabels, OwnReturns, ReturnOf
  <1>1. ASSUME NEW m \in RequestKinds, Begin(t, m) PROVE LifeMove(t)
    <2> DEFINE r == [pc |-> EntryOf(m), ret |-> ReturnOf(m), mode |-> m,
                     local |-> status, target |-> None]
    <2>1. EntryOf(m) \in OtherLabels \cup StopLabels
      BY <1>1 DEF EntryOf, RequestKinds, StopLabels, OtherLabels, Begin
    <2>2. r \in Thread /\ r.ret = ReturnOf(m) /\ r.pc = EntryOf(m)
      BY <1>0, <2>1 DEF Thread, Modes, ReturnLabels, OwnReturns
    <2>3. Enter(t, r) /\ thread[t].pc \in OtherLabels
      BY <1>1 DEF Begin, OtherLabels
    <2> HIDE DEF r
    <2> QED BY <1>0, <2>1, <2>2, <2>3, EnterThread
  <1>2. CASE QueueRestart(t)
    <2> DEFINE r == [IdleThread EXCEPT !.pc = "countdown", !.ret = ReturnOf("queue"),
                                       !.mode = "queue"]
    <2>1. r \in Thread /\ r.pc \in OtherLabels /\ r.ret = ReturnOf("queue")
      BY <1>0, IdleIsThread DEF Thread, Modes, OtherLabels, RequestKinds, ReturnLabels, OwnReturns
    <2>2. Enter(t, r) /\ thread[t].pc \in OtherLabels
      BY <1>2 DEF QueueRestart, OtherLabels
    <2> HIDE DEF r
    <2> QED BY <1>0, <2>1, <2>2, EnterThread
  <1>3. CASE ConsoleStop(t)
    BY <1>0, <1>3, CommitThread DEF ConsoleStop, OtherLabels, Thread, Status
  <1>4. CASE Shutdown(t)
    <2> DEFINE r == [thread[t] EXCEPT !.local = status,
                       !.pc = IF registry = None THEN "shutdown_exit" ELSE "stop_cancel"]
    <2>1. r \in Thread /\ r.pc \in OtherLabels \cup StopLabels /\ r.ret = thread[t].ret
      BY <1>0 DEF Thread, StopLabels, OtherLabels
    <2>2. Enter(t, r) /\ thread[t].pc \in OtherLabels
      BY <1>4 DEF Shutdown, OtherLabels
    <2> HIDE DEF r
    <2> QED BY <1>0, <2>1, <2>2, EnterThread
  <1>5. CASE AutostartKill(t)
    BY <1>0, <1>5, GotoThread DEF AutostartKill, OtherLabels
  <1>6. CASE AutostartMark(t)
    BY <1>0, <1>6, CommitThread DEF AutostartMark, OtherLabels, Status
  <1> QED BY <1>1, <1>2, <1>3, <1>4, <1>5, <1>6

(* A step of the life cycle moves one thread that is in it, or none.       *)
LEMMA LifeMoves ==
  ASSUME TypeOK, ManagerRuns
  PROVE  UNCHANGED thread \/ \E t \in Threads : LifeMove(t)
  <1>1. ASSUME NEW p \in Procs, ProcessStep(p) PROVE UNCHANGED thread
    BY <1>1 DEF ProcessStep, StreamReady, StreamEnds, StreamStep, StreamMarkRunning,
                StreamCleanup, StreamLoad, StreamMarkStopped, ProcessExit
  <1> QED BY <1>1, StopLives, StartLives, RestartLives, RefreshLives, OtherLives
          DEF ManagerRuns, CallStep

-----------------------------------------------------------------------------
(* The jobs.                                                               *)

(* What the step of a job's thread t leaves alone, and that it changes the *)
(* counter exactly when t takes or gives back the lock.                    *)
Works(t) ==
  /\ TypeOK' /\ Moves(t)
  /\ job' \in [Threads -> Job]
  /\ folder' \in {"whole", "cleared"}
  /\ \A u \in Threads : u # t => job'[u] = job[u]
  /\ JobPlaced(t)'
  /\ \/ (HoldsLock(t)' <=> HoldsLock(t)) /\ copies' = copies
     \/ ~HoldsLock(t) /\ HoldsLock(t)' /\ copies' = copies + 1
     \/ HoldsLock(t) /\ ~HoldsLock(t)' /\ UnmarkSource
  /\ ~InTransfer(t) /\ InTransfer(t)' => copies = 0

(* A call from a job: like GotoThread, with a place to return to.          *)
LEMMA CallThread ==
  ASSUME thread \in [Threads -> Thread], NEW t \in Threads, NEW entry \in Labels,
         NEW back \in ReturnLabels, Call(t, entry, back)
  PROVE  /\ thread' \in [Threads -> Thread]
         /\ thread'[t].pc = entry
         /\ thread'[t].ret \in {back, "idle"}
         /\ \A u \in Threads : u # t => thread'[u] = thread[u]
  <1> DEFINE r == [thread[t] EXCEPT !.pc = entry, !.ret = back]
  <1>1. r \in Thread /\ r.pc = entry /\ r.ret = back
    BY DEF Thread
  <1>2. Enter(t, r)
    BY DEF Call
  <1> HIDE DEF r
  <1> QED BY <1>1, <1>2, EnterThread

(* The same with a write of the status.                                    *)
LEMMA CommitCallThread ==
  ASSUME thread \in [Threads -> Thread], status \in Status, NEW t \in Threads,
         NEW s \in Status, NEW entry \in Labels, NEW back \in ReturnLabels,
         CommitAndCall(t, s, entry, back)
  PROVE  /\ thread' \in [Threads -> Thread]
         /\ thread'[t].pc = entry
         /\ thread'[t].ret \in {back, "idle"}
         /\ \A u \in Threads : u # t => thread'[u] = thread[u]
         /\ status' \in Status
  <1> DEFINE r == [thread[t] EXCEPT !.pc = entry, !.ret = back, !.local = s]
  <1>1. r \in Thread /\ r.pc = entry /\ r.ret = back
    BY DEF Thread
  <1>2. Enter(t, r) /\ status' \in Status
    BY DEF CommitAndCall
  <1> HIDE DEF r
  <1> QED BY <1>1, <1>2, EnterThread

(* The program points that appear in the steps of the jobs.                *)
LEMMA JobTargets ==
  /\ JobLabels \cup {"idle", "stop_cancel", "start_slot"} \subseteq Labels
  /\ (JobLabels \cup {"idle", "stop_cancel", "start_slot"})
       \cap (StartLabels \cup {"countdown"}) = {}
  /\ JobLabels \cup {"idle"} \subseteq ReturnLabels
  <1>1. {"idle", "stop_cancel", "start_slot"} \subseteq OwnLabels
    BY DEF OwnLabels, OtherLabels, StopLabels
  <1>2. StartLabels \cup {"countdown"} \subseteq OwnLabels
    BY DEF OwnLabels, OtherLabels
  <1>3. {"idle", "stop_cancel", "start_slot"} \cap (StartLabels \cup {"countdown"}) = {}
    BY DEF StartLabels
  <1> QED BY <1>1, <1>2, <1>3, JobLabelsApart DEF ReturnLabels

(* A job is remembered,                                                    *)
LEMMA JobSet ==
  ASSUME job \in [Threads -> Job], NEW t \in Threads, NEW j \in Job,
         job' = [job EXCEPT ![t] = j]
  PROVE  /\ job' \in [Threads -> Job]
         /\ job'[t] = j
         /\ \A u \in Threads : u # t => job'[u] = job[u]
  OBVIOUS

(* or forgotten.                                                           *)
LEMMA NoJobIsJob ==
  /\ NoJob \in Job
  /\ \A k \in JobKinds : [NoJob EXCEPT !.kind = k] \in Job
  BY DEF NoJob, Job, JobKinds, Status

(* What is left of a step of a job once its thread and its job are known.  *)
LEMMA WorksFrom ==
  ASSUME FileTypeOK, NEW t \in Threads,
         LifeUnchanged, status' \in Status,
         thread' \in [Threads -> Thread],
         \A u \in Threads : u # t => thread'[u] = thread[u],
         thread'[t].pc \in JobLabels \cup {"idle", "stop_cancel", "start_slot"},
         job' \in [Threads -> Job],
         \A u \in Threads : u # t => job'[u] = job[u],
         folder' \in {"whole", "cleared"}
  PROVE  /\ TypeOK' /\ Moves(t)
         /\ job' \in [Threads -> Job]
         /\ folder' \in {"whole", "cleared"}
         /\ \A u \in Threads : u # t => job'[u] = job[u]
  BY JobTargets DEF FileTypeOK, TypeOK, Moves, LifeUnchanged, procVars, streamVars, restartVars

(* A backup or restore never touches the lock.                             *)
LEMMA BackupWorks ==
  ASSUME FileTypeOK, NEW t \in Threads, JobPlaced(t), BackupStep(t)
  PROVE  Works(t)
  <1> USE JobTargets DEF At
  <1>0. /\ thread \in [Threads -> Thread] /\ status \in Status /\ job \in [Threads -> Job]
        /\ thread[t] \in Thread /\ thread[t].local \in Status /\ job[t] \in Job
        /\ job[t].prev \in Status /\ IsRunning \in BOOLEAN /\ "backup_running" \in Status
        /\ BackupLabels \subseteq JobLabels
    BY DEF FileTypeOK, TypeOK, Thread, Job, Status, JobLabels, IsRunning
  <1>1. CASE BackupProbe(t)
    <2>1. /\ thread' \in [Threads -> Thread] /\ thread'[t].pc = "backup_mark"
          /\ thread'[t].ret \in {thread[t].ret, "idle"}
          /\ \A u \in Threads : u # t => thread'[u] = thread[u]
      BY <1>0, <1>1, GotoThread DEF BackupProbe, BackupLabels
    <2>2. /\ job' \in [Threads -> Job] /\ job'[t].kind = job[t].kind
          /\ \A u \in Threads : u # t => job'[u] = job[u]
      BY <1>0, <1>1 DEF BackupProbe, Job
    <2>3. thread[t].pc = "backup_probe" /\ UNCHANGED <<status, copies, folder>> /\ LifeUnchanged
      BY <1>1 DEF BackupProbe
    <2> QED BY <1>0, <2>1, <2>2, <2>3, WorksFrom
            DEF Works, JobPlaced, HoldsLock, InTransfer, FileTypeOK, BackupLabels,
                TransferLabels, DuplicateLabels
  <1>2. CASE BackupMark(t)
    <2>1. /\ thread' \in [Threads -> Thread] /\ thread'[t].ret \in {"backup_zip", "idle"}
          /\ thread'[t].pc = IF StopsFirst(t) THEN "stop_cancel" ELSE "backup_zip"
          /\ \A u \in Threads : u # t => thread'[u] = thread[u]
          /\ status' \in Status
      BY <1>0, <1>2, CommitCallThread DEF BackupMark, BackupLabels
    <2>2. thread[t].pc = "backup_mark" /\ UNCHANGED <<job, copies, folder>> /\ LifeUnchanged
      BY <1>2 DEF BackupMark, fileVars
    <2> QED BY <1>0, <2>1, <2>2, WorksFrom
            DEF Works, JobPlaced, HoldsLock, InTransfer, FileTypeOK, BackupLabels,
                TransferLabels, DuplicateLabels, StopsFirst, Transfers
  <1>3. CASE BackupZip(t)
    <2>1. /\ thread' \in [Threads -> Thread] /\ thread'[t].ret \in {thread[t].ret, "idle"}
          /\ thread'[t].pc = IF StopsFirst(t) THEN "backup_restart" ELSE "backup_reset"
          /\ \A u \in Threads : u # t => thread'[u] = thread[u]
      BY <1>0, <1>3, GotoThread DEF BackupZip, BackupLabels
    <2>2. /\ job' \in [Threads -> Job] /\ job'[t].kind = job[t].kind
          /\ \A u \in Threads : u # t => job'[u] = job[u]
      <3>1. PICK written \in BOOLEAN :
                   job' = [job EXCEPT ![t].ok = written /\ job[t].kind = "transfer_to"]
        BY <1>3 DEF BackupZip
      <3> DEFINE o == written /\ job[t].kind = "transfer_to"
                 j == [job[t] EXCEPT !.ok = o]
      <3>2. o \in BOOLEAN
        OBVIOUS
      <3>3. job' = [job EXCEPT ![t] = j]
        BY <1>0, <3>1
      <3> HIDE DEF o
      <3>4. j \in Job /\ j.kind = job[t].kind
        BY <1>0, <3>2 DEF Job
      <3> HIDE DEF j
      <3> QED BY <1>0, <3>3, <3>4, JobSet
    <2>3. thread[t].pc = "backup_zip" /\ UNCHANGED <<status, copies, folder>> /\ LifeUnchanged
      BY <1>3 DEF BackupZip
    <2> QED BY <1>0, <2>1, <2>2, <2>3, WorksFrom
            DEF Works, JobPlaced, HoldsLock, InTransfer, FileTypeOK, BackupLabels,
                TransferLabels, DuplicateLabels, StopsFirst, Transfers
  <1>4. CASE BackupRestart(t)
    <2>1. /\ thread' \in [Threads -> Thread]
          /\ thread'[t].ret \in {thread[t].ret, "idle", "backup_reset"}
          /\ thread'[t].pc \in {"backup_reset", "start_slot"}
          /\ \A u \in Threads : u # t => thread'[u] = thread[u]
      BY <1>0, <1>4, GotoThread, CallThread DEF BackupRestart, BackupLabels
    <2>2. thread[t].pc = "backup_restart" /\ UNCHANGED <<status, job, copies, folder>>
          /\ LifeUnchanged
      BY <1>4 DEF BackupRestart, fileVars
    <2> QED BY <1>0, <2>1, <2>2, WorksFrom
            DEF Works, JobPlaced, HoldsLock, InTransfer, FileTypeOK, BackupLabels,
                TransferLabels, DuplicateLabels, Transfers
  <1>5. CASE BackupReset(t)
    <2> DEFINE next == IF job[t].kind = "transfer_to"
                       THEN IF job[t].ok THEN "transfer_copy" ELSE "transfer_release" ELSE "idle"
               s == IF thread[t].local = "backup_running" THEN ResetTo(job[t].prev)
                    ELSE thread[t].local
    <2>1. s \in Status
      BY <1>0 DEF ResetTo, Status
    <2>2. next \in JobLabels \cup {"idle"}
      BY DEF JobLabels, TransferLabels
    <2>3. Commit(t, s, next)
      BY <1>5 DEF BackupReset, Reset
    <2> HIDE DEF s
    <2>4. /\ thread' \in [Threads -> Thread] /\ thread'[t].ret \in {thread[t].ret, "idle"}
          /\ thread'[t].pc = next
          /\ \A u \in Threads : u # t => thread'[u] = thread[u]
          /\ status' \in Status
      BY <1>0, <2>1, <2>2, <2>3, CommitThread
    <2>5. /\ job' \in [Threads -> Job]
          /\ job'[t].kind = IF job[t].kind = "transfer_to" THEN "transfer_to" ELSE "none"
          /\ \A u \in Threads : u # t => job'[u] = job[u]
      <3> DEFINE j == IF job[t].kind = "transfer_to" THEN [NoJob EXCEPT !.kind = "transfer_to"]
                      ELSE NoJob
      <3>1. job' = [job EXCEPT ![t] = j]
        BY <1>5 DEF BackupReset, Forget
      <3>2. /\ j \in Job
            /\ j.kind = IF job[t].kind = "transfer_to" THEN "transfer_to" ELSE "none"
        BY NoJobIsJob DEF JobKinds, NoJob
      <3> HIDE DEF j
      <3> QED BY <1>0, <3>1, <3>2, JobSet
    <2>6. thread[t].pc = "backup_reset" /\ UNCHANGED <<copies, folder>> /\ LifeUnchanged
      BY <1>5 DEF BackupReset
    <2>7. /\ TypeOK' /\ Moves(t) /\ job' \in [Threads -> Job]
          /\ folder' \in {"whole", "cleared"}
          /\ \A u \in Threads : u # t => job'[u] = job[u]
      BY <1>0, <2>2, <2>4, <2>5, <2>6, WorksFrom DEF FileTypeOK
    <2>8. JobPlaced(t)'
      BY <2>4, <2>5, <2>6 DEF JobPlaced, TransferLabels, DuplicateLabels, Transfers
    <2> QED BY <2>4, <2>5, <2>6, <2>7, <2>8
            DEF Works, JobPlaced, HoldsLock, InTransfer, BackupLabels, TransferLabels,
                DuplicateLabels, Transfers
  <1> QED BY <1>1, <1>2, <1>3, <1>4, <1>5 DEF BackupStep

(* Nor does a restore.                                                     *)
LEMMA RestoreWorks ==
  ASSUME FileTypeOK, NEW t \in Threads, JobPlaced(t), RestoreStep(t)
  PROVE  Works(t)
  <1> USE JobTargets DEF At
  <1>0. /\ thread \in [Threads -> Thread] /\ status \in Status /\ job \in [Threads -> Job]
        /\ thread[t] \in Thread /\ thread[t].local \in Status /\ job[t] \in Job
        /\ job[t].prev \in Status /\ IsRunning \in BOOLEAN /\ "backup_running" \in Status
        /\ RestoreLabels \subseteq JobLabels /\ folder \in {"whole", "cleared"}
    BY DEF FileTypeOK, TypeOK, Thread, Job, Status, JobLabels, IsRunning
  <1>a. thread[t].pc \in RestoreLabels /\ UNCHANGED copies /\ LifeUnchanged
    BY DEF RestoreStep, RestoreProbe, RestoreMark, RestoreClear, RestoreFill, RestoreReset,
           RestoreLabels, fileVars
  <1>b. job[t].kind \notin Transfers
    BY <1>a DEF JobPlaced, RestoreLabels, TransferLabels, BackupLabels, Transfers
  (* It is enough to look at where the thread and its job go.              *)
  <1>c. SUFFICES /\ thread' \in [Threads -> Thread]
                 /\ thread'[t].ret \in {thread[t].ret, "idle"} \cup RestoreLabels
                 /\ thread'[t].pc \in RestoreLabels \cup {"idle", "stop_cancel", "start_slot"}
                 /\ \A u \in Threads : u # t => thread'[u] = thread[u]
                 /\ status' \in Status
                 /\ job' \in [Threads -> Job]
                 /\ job'[t].kind \in {job[t].kind, "none"}
                 /\ \A u \in Threads : u # t => job'[u] = job[u]
                 /\ folder' \in {"whole", "cleared"}
    <2>1. /\ TypeOK' /\ Moves(t) /\ job' \in [Threads -> Job]
          /\ folder' \in {"whole", "cleared"}
          /\ \A u \in Threads : u # t => job'[u] = job[u]
      BY <1>0, <1>a, <1>c, WorksFrom
    <2>2. JobPlaced(t)'
      BY <1>b, <1>c DEF JobPlaced, RestoreLabels, TransferLabels, DuplicateLabels, Transfers
    <2>3. ~HoldsLock(t) /\ ~HoldsLock(t)' /\ ~InTransfer(t)'
      BY <1>a, <1>b, <1>c DEF HoldsLock, InTransfer, RestoreLabels, Transfers
    <2> QED BY <1>a, <2>1, <2>2, <2>3 DEF Works
  <1>1. CASE RestoreProbe(t)
    <2>1. CASE Done(t)
      <3>1. Goto(t, "idle") /\ job' = [job EXCEPT ![t] = NoJob] /\ UNCHANGED <<status, folder>>
        BY <1>1, <2>1 DEF RestoreProbe, Done, Forget
      <3> QED BY <1>0, <3>1, GotoThread, JobSet, NoJobIsJob DEF NoJob
    <2>2. CASE Goto(t, "restore_mark")
               /\ job' = [job EXCEPT ![t].was = IsRunning, ![t].prev = thread[t].local]
      <3> DEFINE j == [job[t] EXCEPT !.was = IsRunning, !.prev = thread[t].local]
      <3>1. j \in Job /\ j.kind = job[t].kind /\ job' = [job EXCEPT ![t] = j]
        BY <1>0, <2>2 DEF Job
      <3>2. UNCHANGED <<status, folder>>
        BY <1>1 DEF RestoreProbe
      <3> HIDE DEF j
      <3> QED BY <1>0, <2>2, <3>1, <3>2, GotoThread, JobSet DEF RestoreLabels
    <2> QED BY <1>1, <2>1, <2>2 DEF RestoreProbe
  <1>2. CASE RestoreMark(t)
    <2> DEFINE next == IF job[t].was THEN "stop_cancel" ELSE "restore_clear"
    <2>1. CommitAndCall(t, "backup_running", next, "restore_clear")
          /\ UNCHANGED <<job, folder>>
      BY <1>2 DEF RestoreMark, fileVars
    <2>2. next \in Labels /\ next \in RestoreLabels \cup {"stop_cancel"}
          /\ "restore_clear" \in ReturnLabels \cap RestoreLabels
      BY <1>0 DEF RestoreLabels
    <2> HIDE DEF next
    <2> QED BY <1>0, <2>1, <2>2, CommitCallThread
  <1>3. CASE RestoreClear(t)
    <2>1. PICK label \in {"restore_fill", "restore_reset"} : Goto(t, label)
      BY <1>3 DEF RestoreClear, Continue
    <2>2. UNCHANGED <<status, job>> /\ folder' \in {folder, "cleared"}
      BY <1>3 DEF RestoreClear, Continue
    <2> QED BY <1>0, <2>1, <2>2, GotoThread DEF RestoreLabels
  <1>4. CASE RestoreFill(t)
    <2>1. UNCHANGED <<status, job>> /\ folder' \in {folder, "whole"}
      BY <1>4 DEF RestoreFill, Continue
    <2>2. CASE Goto(t, "restore_reset")
      BY <1>0, <2>1, <2>2, GotoThread DEF RestoreLabels
    <2>3. CASE Call(t, "start_slot", "restore_reset")
      BY <1>0, <2>1, <2>3, CallThread DEF RestoreLabels
    <2> QED BY <1>4, <2>2, <2>3 DEF RestoreFill, Continue
  <1>5. CASE RestoreReset(t)
    <2> DEFINE s == IF thread[t].local = "backup_running" THEN ResetTo(job[t].prev)
                    ELSE thread[t].local
    <2>1. s \in Status
      BY <1>0 DEF ResetTo, Status
    <2>2. Commit(t, s, "idle") /\ job' = [job EXCEPT ![t] = NoJob] /\ UNCHANGED folder
      BY <1>5 DEF RestoreReset, Reset, Forget
    <2> HIDE DEF s
    <2> QED BY <1>0, <2>1, <2>2, CommitThread, JobSet, NoJobIsJob DEF NoJob
  <1> QED BY <1>1, <1>2, <1>3, <1>4, <1>5 DEF RestoreStep

(* A duplication takes the lock once and gives it back.                    *)
LEMMA DuplicateWorks ==
  ASSUME FileTypeOK, NEW t \in Threads, JobPlaced(t), DuplicateStep(t)
  PROVE  Works(t)
  <1> USE JobTargets DEF At
  <1>0. /\ thread \in [Threads -> Thread] /\ status \in Status /\ job \in [Threads -> Job]
        /\ thread[t] \in Thread /\ DuplicateLabels \subseteq JobLabels
        /\ folder \in {"whole", "cleared"}
    BY DEF FileTypeOK, TypeOK, Thread, JobLabels
  <1>a. thread[t].pc \in DuplicateLabels /\ UNCHANGED <<status, folder>> /\ LifeUnchanged
    BY DEF DuplicateStep, DupCheck, DupSource, DupMark, DupRecheck, DupCopy, DupRelease,
           DuplicateLabels
  <1>b. job[t].kind \notin Transfers
    BY <1>a DEF JobPlaced, DuplicateLabels, TransferLabels, BackupLabels, Transfers
  <1>c. PICK label \in DuplicateLabels \cup {"idle"} :
          /\ Goto(t, label)
          /\ UNCHANGED job \/ job' = [job EXCEPT ![t] = NoJob]
          /\ \/ /\ thread[t].pc \in {"dup_check", "dup_source"}
                /\ label \in {"dup_source", "dup_mark", "idle"} /\ UNCHANGED copies
             \/ /\ thread[t].pc \in {"dup_recheck", "dup_copy"}
                /\ label \in {"dup_copy", "dup_release"} /\ UNCHANGED copies
             \/ thread[t].pc = "dup_mark" /\ label = "dup_recheck" /\ copies' = copies + 1
             \/ thread[t].pc = "dup_release" /\ label = "idle" /\ UnmarkSource
    BY DEF DuplicateStep, DupCheck, DupSource, DupMark, DupRecheck, DupCopy, DupRelease,
           DuplicateLabels, Continue, Done, Forget, MarkSource
  <1>1. /\ thread' \in [Threads -> Thread] /\ thread'[t].pc = label
        /\ thread'[t].ret \in {thread[t].ret, "idle"}
        /\ \A u \in Threads : u # t => thread'[u] = thread[u]
    BY <1>0, <1>c, GotoThread
  <1>2. /\ job' \in [Threads -> Job] /\ job'[t].kind \in {job[t].kind, "none"}
        /\ \A u \in Threads : u # t => job'[u] = job[u]
    <2>1. CASE UNCHANGED job
      BY <1>0, <2>1
    <2>2. CASE job' = [job EXCEPT ![t] = NoJob]
      BY <1>0, <2>2, JobSet, NoJobIsJob DEF NoJob
    <2> QED BY <1>c, <2>1, <2>2
  <1>3. /\ TypeOK' /\ Moves(t)
    BY <1>0, <1>1, <1>2, <1>a, WorksFrom
  <1>4. JobPlaced(t)' /\ ~InTransfer(t)'
    BY <1>1, <1>2, <1>b, <1>0 DEF JobPlaced, InTransfer, Transfers, DuplicateLabels,
                               TransferLabels
  <1>5. \/ (HoldsLock(t)' <=> HoldsLock(t)) /\ copies' = copies
        \/ ~HoldsLock(t) /\ HoldsLock(t)' /\ copies' = copies + 1
        \/ HoldsLock(t) /\ ~HoldsLock(t)' /\ UnmarkSource
    <2>1. HoldsLock(t) <=> thread[t].pc \in {"dup_recheck", "dup_copy", "dup_release"}
      BY <1>b DEF HoldsLock
    <2>2. HoldsLock(t)' <=> label \in {"dup_recheck", "dup_copy", "dup_release"}
      BY <1>1, <1>2, <1>b DEF HoldsLock, Transfers
    <2> QED BY <2>1, <2>2, <1>a, <1>c DEF DuplicateLabels
  <1> QED BY <1>1, <1>2, <1>3, <1>4, <1>5, <1>0, <1>a DEF Works

(* A transfer takes the lock when it begins, nobody having it, and gives   *)
(* it back.                                                                *)
LEMMA TransferWorks ==
  ASSUME FileTypeOK, NEW t \in Threads, JobPlaced(t), TransferStep(t)
  PROVE  Works(t)
  <1> USE JobTargets DEF At
  <1>0. /\ thread \in [Threads -> Thread] /\ status \in Status /\ job \in [Threads -> Job]
        /\ thread[t] \in Thread /\ TransferLabels \subseteq JobLabels
        /\ folder \in {"whole", "cleared"}
    BY DEF FileTypeOK, TypeOK, Thread, JobLabels
  <1>a. thread[t].pc \in TransferLabels /\ UNCHANGED status /\ LifeUnchanged
        /\ job[t].kind \in Transfers
    BY DEF TransferStep, TransferLock, TransferCheck, TransferRecheck, TransferCopy,
           TransferSwap, TransferRelease, TransferLabels, JobPlaced
  <1>b. folder' \in {"whole", "cleared"}
    <2>1. folder' \in {folder, "whole", "cleared"}
      BY DEF TransferStep, TransferLock, TransferCheck, TransferRecheck, TransferCopy,
             TransferSwap, TransferRelease
    <2> QED BY <1>0, <2>1
  <1>1. ASSUME NEW label \in TransferLabels \cup {"backup_probe"},
               thread' \in [Threads -> Thread], thread'[t].pc = label,
               thread'[t].ret \in {thread[t].ret, "idle"},
               \A u \in Threads : u # t => thread'[u] = thread[u],
               UNCHANGED job, label # "transfer_lock",
               label = "backup_probe" => job[t].kind = "transfer_to",
               \/ thread[t].pc # "transfer_lock" /\ UNCHANGED copies
               \/ thread[t].pc = "transfer_lock" /\ copies = 0 /\ copies' = 1
        PROVE  Works(t)
    <2>1. /\ TypeOK' /\ Moves(t)
          /\ job' \in [Threads -> Job] /\ \A u \in Threads : u # t => job'[u] = job[u]
      <3>1. label \in JobLabels
        BY <1>0 DEF JobLabels, BackupLabels
      <3> QED BY <1>0, <1>a, <1>b, <1>1, <3>1, WorksFrom
    <2>2. JobPlaced(t)'
      BY <1>1, <1>a DEF JobPlaced, Transfers, TransferLabels, BackupLabels, DuplicateLabels
    <2>3. /\ HoldsLock(t)' /\ InTransfer(t)'
          /\ HoldsLock(t) <=> thread[t].pc # "transfer_lock"
          /\ InTransfer(t) <=> thread[t].pc # "transfer_lock"
      BY <1>1, <1>a DEF HoldsLock, InTransfer, TransferLabels
    <2> QED BY <1>1, <1>b, <2>1, <2>2, <2>3 DEF Works
  <1>2. ASSUME Done(t), UNCHANGED folder,
               \/ thread[t].pc = "transfer_lock" /\ UNCHANGED copies
               \/ thread[t].pc = "transfer_release" /\ UnmarkSource
        PROVE  Works(t)
    <2>1. /\ thread' \in [Threads -> Thread] /\ thread'[t].pc = "idle"
          /\ thread'[t].ret \in {thread[t].ret, "idle"}
          /\ \A u \in Threads : u # t => thread'[u] = thread[u]
      BY <1>0, <1>2, GotoThread DEF Done
    <2>2. /\ job' \in [Threads -> Job] /\ job'[t].kind = "none"
          /\ \A u \in Threads : u # t => job'[u] = job[u]
      BY <1>0, <1>2, JobSet, NoJobIsJob DEF Done, Forget, NoJob
    <2>3. /\ TypeOK' /\ Moves(t)
      BY <1>0, <1>a, <1>b, <2>1, <2>2, WorksFrom
    <2>4. JobPlaced(t)'
      BY <2>1, <2>2, <1>a DEF JobPlaced, TransferLabels, DuplicateLabels
    <2>5. /\ ~HoldsLock(t)' /\ ~InTransfer(t)'
          /\ HoldsLock(t) <=> thread[t].pc # "transfer_lock"
      BY <2>1, <2>2, <1>a DEF HoldsLock, InTransfer, Transfers, TransferLabels
    <2> QED BY <1>2, <1>b, <2>1, <2>2, <2>3, <2>4, <2>5 DEF Works
  <1>3. ASSUME NEW label \in TransferLabels \ {"transfer_lock"}, Continue(t, label),
               thread[t].pc # "transfer_lock", UNCHANGED copies
        PROVE  Works(t)
    <2>1. /\ thread' \in [Threads -> Thread] /\ thread'[t].pc = label
          /\ thread'[t].ret \in {thread[t].ret, "idle"}
          /\ \A u \in Threads : u # t => thread'[u] = thread[u]
      BY <1>0, <1>3, GotoThread DEF Continue
    <2>2. label # "transfer_lock" /\ label # "backup_probe" /\ UNCHANGED job
      BY <1>3 DEF Continue, TransferLabels
    <2> QED BY <1>1, <1>3, <2>1, <2>2
  <1>4. CASE TransferLock(t)
    <2>1. CASE copies = 0 /\ copies' = 1 /\ Continue(t, "transfer_check")
      BY <1>0, <1>1, <1>4, <2>1, GotoThread DEF Continue, TransferLabels, TransferLock
    <2> QED BY <1>2, <1>4, <2>1 DEF TransferLock
  <1>5. CASE TransferCheck(t)
    BY <1>3, <1>5 DEF TransferCheck, TransferLabels
  <1>6. CASE TransferRecheck(t)
    <2>1. CASE Continue(t, "transfer_release")
      BY <1>3, <1>6, <2>1 DEF TransferRecheck, TransferLabels
    <2>2. CASE ~Continue(t, "transfer_release")
      <3> DEFINE label == IF job[t].kind = "transfer_to" THEN "backup_probe" ELSE "transfer_copy"
                 r == [thread[t] EXCEPT !.local = status, !.pc = label]
      <3>1. label \in JobLabels /\ label \in TransferLabels \cup {"backup_probe"}
            /\ label # "transfer_lock" /\ label \notin StartLabels
        BY <1>0 DEF JobLabels, TransferLabels, BackupLabels
      <3>2. Enter(t, r) /\ UNCHANGED <<job, copies>> /\ thread[t].pc # "transfer_lock"
        BY <1>6, <2>2 DEF TransferRecheck
      <3>3. label = "backup_probe" => job[t].kind = "transfer_to"
        OBVIOUS
      <3> HIDE DEF label
      <3>4. r \in Thread /\ r.pc = label /\ r.ret = thread[t].ret
        BY <1>0, <3>1 DEF Thread
      <3> HIDE DEF r
      <3> QED BY <1>0, <1>1, <3>1, <3>2, <3>3, <3>4, EnterThread
    <2> QED BY <2>1, <2>2
  <1>7. CASE TransferCopy(t)
    BY <1>3, <1>7 DEF TransferCopy, TransferLabels
  <1>8. CASE TransferSwap(t)
    BY <1>3, <1>8 DEF TransferSwap, TransferLabels
  <1>9. CASE TransferRelease(t)
    BY <1>2, <1>9 DEF TransferRelease
  <1> QED BY <1>4, <1>5, <1>6, <1>7, <1>8, <1>9 DEF TransferStep

(* What is asked for begins without the lock.                              *)
LEMMA AskWorks ==
  ASSUME FileTypeOK, NEW t \in Threads, JobPlaced(t), NEW k \in JobKinds, Ask(t, k)
  PROVE  Works(t)
  <1> USE JobTargets DEF At
  <1> DEFINE r == [pc |-> FirstLabel(k), ret |-> "idle", mode |-> "caller", local |-> status,
                   target |-> None]
             j == [NoJob EXCEPT !.kind = k]
  <1>0. /\ thread \in [Threads -> Thread] /\ status \in Status /\ job \in [Threads -> Job]
        /\ folder \in {"whole", "cleared"} /\ thread[t].pc = "idle"
        /\ UNCHANGED <<status, copies, folder>> /\ LifeUnchanged
    BY DEF FileTypeOK, TypeOK, Ask
  <1>1. /\ FirstLabel(k) \in {"backup_probe", "restore_probe", "dup_check", "transfer_lock"}
        /\ FirstLabel(k) \in JobLabels
        /\ k \in Transfers <=> FirstLabel(k) = "transfer_lock"
    BY DEF FirstLabel, JobKinds, Transfers, JobLabels, BackupLabels, RestoreLabels,
           DuplicateLabels, TransferLabels
  <1>2. r \in Thread /\ r.pc = FirstLabel(k) /\ r.ret = "idle" /\ Enter(t, r)
    BY <1>0, <1>1 DEF Ask, Thread, Modes
  <1>3. j \in Job /\ j.kind = k /\ job' = [job EXCEPT ![t] = j]
    BY NoJobIsJob DEF Ask, NoJob
  <1> HIDE DEF r, j
  <1>4. /\ thread' \in [Threads -> Thread] /\ thread'[t].pc = FirstLabel(k)
        /\ thread'[t].ret = "idle"
        /\ \A u \in Threads : u # t => thread'[u] = thread[u]
    BY <1>0, <1>2, EnterThread
  <1>5. /\ job' \in [Threads -> Job] /\ job'[t].kind = k
        /\ \A u \in Threads : u # t => job'[u] = job[u]
    BY <1>0, <1>3, JobSet
  <1>6. job[t].kind \notin Transfers
    BY <1>0 DEF JobPlaced, Transfers, TransferLabels, BackupLabels
  <1>7. /\ TypeOK' /\ Moves(t)
    BY <1>0, <1>1, <1>4, <1>5, WorksFrom
  <1>8. JobPlaced(t)' /\ ~HoldsLock(t) /\ ~HoldsLock(t)' /\ ~InTransfer(t)'
    BY <1>0, <1>1, <1>4, <1>5, <1>6
       DEF JobPlaced, HoldsLock, InTransfer, Transfers, TransferLabels, BackupLabels,
           DuplicateLabels
  <1> QED BY <1>0, <1>5, <1>7, <1>8 DEF Works

-----------------------------------------------------------------------------
(* The invariant of the jobs.                                              *)

FileInv == IInv /\ LockInv /\ TransfersExclude

(* In a transfer, a thread has the lock; in the life cycle, it has not.    *)
LEMMA WhoHolds ==
  ASSUME NEW t \in Threads
  PROVE  /\ InTransfer(t) => HoldsLock(t)
         /\ JobPlaced(t) /\ thread[t].pc \in OwnLabels
              => ~HoldsLock(t) /\ job[t].kind \notin Transfers
  BY JobLabelsApart DEF InTransfer, HoldsLock, JobPlaced, JobLabels, TransferLabels, BackupLabels,
                        DuplicateLabels, Transfers

(* The counter follows when one thread takes or gives back the lock.       *)
LEMMA CountFollows ==
  ASSUME LockCountsHolders, NEW t \in Threads,
         \A u \in Threads : u # t => (HoldsLock(u)' <=> HoldsLock(u)),
         \/ (HoldsLock(t)' <=> HoldsLock(t)) /\ copies' = copies
         \/ ~HoldsLock(t) /\ HoldsLock(t)' /\ copies' = copies + 1
         \/ HoldsLock(t) /\ ~HoldsLock(t)' /\ UnmarkSource
  PROVE  LockCountsHolders'
  <1>1. IsFiniteSet(Holders) /\ Cardinality(Holders) \in Nat
    BY FileAssumption, FS_Subset, FS_CardinalityType DEF Holders
  <1>2. CASE (HoldsLock(t)' <=> HoldsLock(t)) /\ copies' = copies
    <2>1. Holders' = Holders
      BY <1>2 DEF Holders
    <2> QED BY <1>2, <2>1 DEF LockCountsHolders
  <1>3. CASE ~HoldsLock(t) /\ HoldsLock(t)' /\ copies' = copies + 1
    <2>1. Holders' = Holders \cup {t} /\ t \notin Holders
      BY <1>3 DEF Holders
    <2> QED BY <1>1, <1>3, <2>1, FS_AddElement DEF LockCountsHolders
  <1>4. CASE HoldsLock(t) /\ ~HoldsLock(t)' /\ UnmarkSource
    <2>1. Holders' = Holders \ {t} /\ t \in Holders
      BY <1>4 DEF Holders
    <2>2. Cardinality(Holders') = Cardinality(Holders) - 1
      BY <1>1, <2>1, FS_RemoveElement
    <2>3. Cardinality(Holders) # 0
      BY <1>1, <2>1, FS_EmptySet
    <2> QED BY <1>1, <1>4, <2>2, <2>3 DEF LockCountsHolders, UnmarkSource
  <1> QED BY <1>2, <1>3, <1>4

(* A job's step keeps the invariant,                                       *)
LEMMA WorksKeeps ==
  ASSUME FileInv, NEW t \in Threads, Works(t)
  PROVE  FileInv'
  <1>0. /\ IInv /\ FileTypeOK /\ (\A u \in Threads : JobPlaced(u)) /\ LockCountsHolders
        /\ TransfersExclude /\ TypeOK' /\ Moves(t)
    BY DEF FileInv, LockInv, Works
  <1>a. \A u \in Threads : u # t => thread'[u] = thread[u] /\ job'[u] = job[u]
    BY <1>0 DEF Works, Moves
  <1>b. ASSUME NEW u \in Threads, u # t
        PROVE  /\ HoldsLock(u)' <=> HoldsLock(u)
               /\ InTransfer(u)' <=> InTransfer(u)
               /\ JobPlaced(u) => JobPlaced(u)'
    BY <1>a, <1>b DEF HoldsLock, InTransfer, JobPlaced, At
  <1>1. IInv'
    BY <1>0, OutsideKeeps DEF Moves
  <1>2. FileTypeOK'
    BY <1>0 DEF Works, FileTypeOK, UnmarkSource
  <1>3. ASSUME NEW u \in Threads PROVE JobPlaced(u)'
    <2>1. CASE u = t
      BY <2>1 DEF Works, JobPlaced
    <2>2. CASE u # t
      BY <1>0, <1>b, <2>2
    <2> QED BY <2>1, <2>2
  <1>4. LockCountsHolders'
    <2>1. ASSUME NEW u \in Threads, u # t PROVE HoldsLock(u)' <=> HoldsLock(u)
      BY <1>b, <2>1
    <2> QED BY <1>0, <2>1, CountFollows DEF Works
  <1>5. TransfersExclude'
    <2> SUFFICES ASSUME NEW u \in Threads, NEW v \in Threads, InTransfer(u)', InTransfer(v)',
                        u # v
                 PROVE  FALSE
      BY DEF TransfersExclude
    <2>1. CASE u # t /\ v # t
      <3>1. InTransfer(u) /\ InTransfer(v)
        BY <1>b, <2>1
      <3> QED BY <1>0, <3>1 DEF TransfersExclude
    <2>2. ASSUME NEW w \in Threads, InTransfer(w)', InTransfer(t)', w # t
          PROVE  FALSE
      <3>1. InTransfer(w)
        BY <1>b, <2>2
      <3>2. CASE InTransfer(t)
        BY <1>0, <2>2, <3>1, <3>2 DEF TransfersExclude
      <3>3. CASE ~InTransfer(t)
        <4>1. copies = 0
          BY <2>2, <3>3 DEF Works
        <4>2. IsFiniteSet(Holders) /\ Cardinality(Holders) = 0
          BY <1>0, <4>1, FileAssumption, FS_Subset DEF Holders, LockCountsHolders
        <4>3. Holders = {}
          BY <4>2, FS_EmptySet
        <4> QED BY <3>1, <4>3, WhoHolds DEF Holders
      <3> QED BY <3>2, <3>3
    <2>3. CASE u = t
      <3>1. InTransfer(t)'
        BY <2>3 DEF InTransfer, At
      <3> QED BY <2>2, <2>3, <3>1
    <2>4. CASE v = t
      <3>1. InTransfer(t)'
        BY <2>4 DEF InTransfer, At
      <3> QED BY <2>2, <2>4, <3>1
    <2> QED BY <2>1, <2>3, <2>4
  <1> QED BY <1>1, <1>2, <1>3, <1>4, <1>5 DEF FileInv, LockInv

(* a step of the life cycle does,                                          *)
LEMMA LifeKeeps ==
  ASSUME FileInv, LifeStep
  PROVE  FileInv'
  <1>0. /\ IInv /\ FileTypeOK /\ (\A u \in Threads : JobPlaced(u)) /\ LockCountsHolders
        /\ TransfersExclude /\ TypeOK /\ Next /\ ManagerRuns
        /\ UNCHANGED <<job, copies, folder>>
    BY DEF FileInv, LockInv, FileTypeOK, LifeStep, Next, fileVars
  <1>1. IInv' /\ TypeOK'
    BY <1>0, StepKeeps DEF IInv
  <1>2. \A u \in Threads : /\ HoldsLock(u)' <=> HoldsLock(u)
                           /\ InTransfer(u)' <=> InTransfer(u)
                           /\ JobPlaced(u)'
    <2>1. CASE UNCHANGED thread
      BY <1>0, <2>1 DEF HoldsLock, InTransfer, JobPlaced, At
    <2>2. ASSUME NEW t \in Threads, LifeMove(t), NEW u \in Threads
          PROVE  /\ HoldsLock(u)' <=> HoldsLock(u)
                 /\ InTransfer(u)' <=> InTransfer(u)
                 /\ JobPlaced(u)'
      <3>1. CASE u # t
        BY <1>0, <2>2, <3>1 DEF LifeMove, HoldsLock, InTransfer, JobPlaced, At
      <3>2. CASE u = t
        <4>1. ~HoldsLock(t) /\ job[t].kind \notin Transfers /\ ~InTransfer(t)
          BY <1>0, <2>2, WhoHolds DEF LifeMove
        <4>2. thread[t].ret \notin TransferLabels \cup DuplicateLabels
          BY <1>0 DEF JobPlaced
        <4>3. OwnReturns \cap (TransferLabels \cup DuplicateLabels) = {}
          BY DEF OwnReturns, TransferLabels, DuplicateLabels
        <4>4. /\ thread'[t].pc \notin TransferLabels \cup DuplicateLabels
              /\ thread'[t].ret \notin TransferLabels \cup DuplicateLabels
          BY <2>2, <4>2, <4>3, JobLabelsApart DEF LifeMove, JobLabels
        <4>5. job'[t] = job[t]
          BY <1>0
        <4> QED BY <3>2, <4>1, <4>4, <4>5
                DEF HoldsLock, InTransfer, JobPlaced, At, DuplicateLabels, Transfers
      <3> QED BY <3>1, <3>2
    <2> QED BY <1>0, <2>1, <2>2, LifeMoves
  <1>3. Holders' = Holders
    BY <1>2 DEF Holders
  <1> QED BY <1>0, <1>1, <1>2, <1>3
          DEF FileInv, LockInv, FileTypeOK, LockCountsHolders, TransfersExclude

(* and the end of the manager, which takes the jobs with it.               *)
LEMMA EndsKeeps ==
  ASSUME FileInv, ManagerEndsWithJobs
  PROVE  FileInv'
  <1>0. IInv /\ FileTypeOK /\ Boot
    BY DEF FileInv, LockInv, ManagerEndsWithJobs, ManagerEnds, ManagerCrash, ShutdownExit
  <1>1. IInv' /\ TypeOK'
    BY <1>0, BootKeeps DEF IInv
  <1>2. /\ job' = [t \in Threads |-> NoJob] /\ copies' = 0 /\ UNCHANGED folder
    BY DEF ManagerEndsWithJobs
  <1>3. \A t \in Threads : thread'[t].pc \in OwnLabels /\ thread'[t].ret = "idle"
    <2>1. \A t \in Threads : thread'[t].pc \in OtherLabels \cup StartLabels
                           /\ thread'[t].ret = "idle"
      BY <1>0 DEF Boot, IdleThread, OtherLabels, StartLabels
    <2> QED BY <2>1 DEF OwnLabels
  <1>4. \A t \in Threads : ~HoldsLock(t)' /\ ~InTransfer(t)' /\ JobPlaced(t)'
    <2> SUFFICES ASSUME NEW t \in Threads
                 PROVE  ~HoldsLock(t)' /\ ~InTransfer(t)' /\ JobPlaced(t)'
      OBVIOUS
    <2>1. job'[t].kind \notin Transfers
      BY <1>2 DEF NoJob, Transfers
    <2>2. thread'[t].pc \notin TransferLabels \cup DuplicateLabels
      BY <1>3, JobLabelsApart DEF JobLabels
    <2> QED BY <1>3, <2>1, <2>2
            DEF HoldsLock, InTransfer, JobPlaced, Transfers, TransferLabels, DuplicateLabels
  <1>5. Holders' = {}
    BY <1>4 DEF Holders
  <1>6. LockCountsHolders'
    BY <1>2, <1>5, FS_EmptySet DEF LockCountsHolders
  <1>7. FileTypeOK'
    BY <1>0, <1>1, <1>2, NoJobIsJob DEF FileTypeOK
  <1> QED BY <1>1, <1>4, <1>6, <1>7 DEF FileInv, LockInv, TransfersExclude

(* Every step does.                                                        *)
LEMMA FileStepKeeps == FileInv /\ [FileNext]_allVars => FileInv'
  <1> SUFFICES ASSUME FileInv, [FileNext]_allVars PROVE FileInv'
    OBVIOUS
  <1>1. CASE UNCHANGED allVars
    <2>1. IInv'
      BY <1>1, StepKeeps DEF FileInv, allVars
    <2> QED BY <1>1, <2>1
            DEF FileInv, LockInv, FileTypeOK, allVars, fileVars, vars, TransfersExclude, JobPlaced,
                InTransfer, LockCountsHolders, Holders, HoldsLock, At, IInv
  <1>2. ASSUME NEW t \in Threads, JobStep(t) \/ \E k \in JobKinds : Ask(t, k) PROVE FileInv'
    <2>1. FileTypeOK /\ JobPlaced(t)
      BY DEF FileInv, LockInv
    <2>2. Works(t)
      BY <1>2, <2>1, BackupWorks, RestoreWorks, DuplicateWorks, TransferWorks, AskWorks
         DEF JobStep
    <2> QED BY <2>2, WorksKeeps
  <1> QED BY <1>1, <1>2, LifeKeeps, EndsKeeps DEF FileNext

(* It holds at the start.                                                  *)
LEMMA FileInitKeeps == FileInit => FileInv
  <1> SUFFICES ASSUME FileInit PROVE FileInv
    OBVIOUS
  <1>1. IInv /\ TypeOK
    BY InitKeeps DEF FileInit, IInv
  <1>2. \A t \in Threads : /\ thread[t].pc = "idle" /\ thread[t].ret = "idle"
                           /\ job[t] = NoJob
    BY DEF FileInit, Init, IdleThread
  <1>3. \A t \in Threads : ~HoldsLock(t) /\ ~InTransfer(t) /\ JobPlaced(t)
    BY <1>2 DEF HoldsLock, InTransfer, JobPlaced, NoJob, Transfers, TransferLabels,
                DuplicateLabels
  <1>4. LockCountsHolders
    BY <1>3, FS_EmptySet DEF LockCountsHolders, Holders, FileInit
  <1>5. FileTypeOK
    BY <1>1, NoJobIsJob DEF FileTypeOK, FileInit
  <1> QED BY <1>1, <1>3, <1>4, <1>5 DEF FileInv, LockInv, TransfersExclude

(* The counter is the number of the jobs that hold the lock, for any       *)
(* number of threads and whatever ends in between.                         *)
THEOREM LockCounts == FileSpec => []LockInv
  <1>1. FileInv => LockInv
    BY DEF FileInv
  <1> QED BY <1>1, FileInitKeeps, FileStepKeeps, PTL DEF FileSpec

(* Only one transfer at a time works on the files of a server.             *)
THEOREM TransfersAlone == FileSpec => []TransfersExclude
  <1>1. FileInv => TransfersExclude
    BY DEF FileInv
  <1> QED BY <1>1, FileInitKeeps, FileStepKeeps, PTL DEF FileSpec

(* Both promises of the lock: it counts its holders and keeps transfers    *)
(* apart.                                                                  *)
THEOREM LocksAlwaysExclude == FileSpec => []LocksExclude
  <1>1. FileInv => LocksExclude
    BY DEF FileInv, LocksExclude
  <1> QED BY <1>1, FileInitKeeps, FileStepKeeps, PTL DEF FileSpec

(* The stops and starts that a backup or a restore makes do not break the  *)
(* promise of one process.                                                 *)
THEOREM OneProcessUnderJobs == FileSpec => []SingleInstance
  <1>1. FileInv => SingleInstance
    BY DEF FileInv, IInv
  <1> QED BY <1>1, FileInitKeeps, FileStepKeeps, PTL DEF FileSpec

-----------------------------------------------------------------------------
(* The mark of a backup or restore belongs to somebody: from the moment it *)
(* is written until the session that wrote it writes something else.       *)

AfterMark == {"backup_zip", "backup_restart", "backup_reset",
              "restore_clear", "restore_fill", "restore_reset"}
Comebacks == {"backup_zip", "backup_reset", "restore_clear", "restore_reset"}
CallPoints == StopLabels \cup {"start_slot", "start_check", "start_release"}

(* A thread whose session holds the mark, in the job or in a call it makes.*)
Marked(r) ==
  /\ r.local = "backup_running" /\ r.mode = "caller"
  /\ r.pc \in AfterMark \/ (r.ret \in Comebacks /\ r.pc \in CallPoints)

(* Jobs run as callers, and a page view that has a verdict to write did    *)
(* not arrive at the mark.                                                 *)
Fits(r) ==
  /\ r.pc \in JobLabels \/ r.ret \in JobLabels => r.mode = "caller"
  /\ r.pc = "refresh_commit" => r.local # "backup_running"
  /\ r.ret = "refresh_commit"
       => r.pc \in {"refresh_cleanup", "refresh_commit"} /\ r.local # "backup_running"

MarkInv ==
  /\ \A t \in Threads : Fits(thread[t])
  /\ status = "backup_running" => \E t \in Threads : Marked(thread[t])

LEMMA MarkLabels ==
  /\ AfterMark \subseteq JobLabels /\ Comebacks \subseteq AfterMark
  /\ JobLabels \cap OwnLabels = {} /\ CallPoints \subseteq OwnLabels
  /\ LosesLocal \cup {"idle", "refresh_commit", "refresh_cleanup", "start_release"} \subseteq OwnLabels
  /\ CallPoints \cap (LosesLocal \cup {"idle", "refresh_commit", "refresh_cleanup"}) = {}
  <1>1. JobLabels \cap OwnLabels = {}
    BY JobLabelsApart
  <1>2. AfterMark \subseteq JobLabels
    BY DEF AfterMark, JobLabels, BackupLabels, RestoreLabels
  <1>3. /\ CallPoints \subseteq OwnLabels
        /\ LosesLocal \cup {"idle", "refresh_commit", "refresh_cleanup", "start_release"} \subseteq OwnLabels
    BY DEF CallPoints, OwnLabels, StartLabels, OtherLabels, LosesLocal
  <1>4. CallPoints \cap (LosesLocal \cup {"idle", "refresh_commit", "refresh_cleanup"}) = {}
    BY DEF CallPoints, StopLabels, LosesLocal
  <1> QED BY <1>1, <1>2, <1>3, <1>4 DEF Comebacks, AfterMark

(* What a thread keeps when it goes on is enough.                          *)
LEMMA KeptMark ==
  ASSUME NEW r \in Thread, Fits(r)
  PROVE  Kept(r) \in Thread /\ Fits(Kept(r)) /\ (Marked(r) => Marked(Kept(r)))
  <1>1. CASE r.pc = "idle"
    <2>1. Kept(r) = IdleThread
      BY <1>1 DEF Kept
    <2>2. Fits(IdleThread)
      BY MarkLabels DEF Fits, IdleThread
    <2>3. ~Marked(r)
      BY <1>1, MarkLabels DEF Marked
    <2> QED BY <2>1, <2>2, <2>3, IdleIsThread
  <1>2. CASE r.pc # "idle"
    <2>1. /\ Kept(r) \in Thread /\ Kept(r).pc = r.pc /\ Kept(r).ret = r.ret /\ Kept(r).mode = r.mode
          /\ Kept(r).local \in {r.local, "stopped"}
          /\ r.pc \notin LosesLocal /\ (r.pc = "start_release" => r.mode = "caller")
               => Kept(r).local = r.local
      BY <1>2 DEF Kept, Thread, IdleThread, Status
    <2>2. Fits(Kept(r))
      BY <2>1 DEF Fits
    <2>3. Marked(r) => Marked(Kept(r))
      BY <2>1, MarkLabels DEF Marked
    <2> QED BY <2>1, <2>2, <2>3
  <1> QED BY <1>1, <1>2

(* A step of a thread: it holds the mark, or it did not and others do.     *)
LEMMA Entered ==
  ASSUME MarkInv, thread \in [Threads -> Thread], NEW t \in Threads, NEW r \in Thread,
         Enter(t, r), Fits(r),
         status' = "backup_running"
           => Marked(r) \/ (status = "backup_running" /\ ~Marked(thread[t]))
  PROVE  MarkInv'
  <1>1. thread'[t] = Kept(r) /\ \A u \in Threads : u # t => thread'[u] = thread[u]
    BY KeptMark DEF Enter
  <1>2. \A u \in Threads : Fits(thread'[u])
    BY <1>1, KeptMark DEF MarkInv
  <1>3. status' = "backup_running" => \E u \in Threads : Marked(thread'[u])
    <2>1. CASE Marked(r)
      BY <1>1, <2>1, KeptMark
    <2>2. CASE status = "backup_running" /\ ~Marked(thread[t])
      BY <1>1, <2>2 DEF MarkInv
    <2> QED BY <2>1, <2>2
  <1> QED BY <1>2, <1>3 DEF MarkInv

(* The session goes on without a commit,                                   *)
LEMMA GoesOn ==
  ASSUME MarkInv, thread \in [Threads -> Thread], NEW t \in Threads, NEW label \in Labels,
         Goto(t, label), status' = status, label # "refresh_commit",
         thread[t].pc \notin {"refresh_cleanup", "refresh_commit"},
         label \in JobLabels => thread[t].mode = "caller",
         Marked(thread[t])
           => label \in AfterMark \/ (thread[t].ret \in Comebacks /\ label \in CallPoints)
  PROVE  MarkInv'
  <1> DEFINE r == [thread[t] EXCEPT !.pc = label]
  <1>1. /\ r \in Thread /\ r.pc = label /\ r.ret = thread[t].ret /\ r.mode = thread[t].mode
        /\ r.local = thread[t].local
    BY DEF Thread
  <1>2. Enter(t, r)
    BY DEF Goto
  <1>3. Fits(thread[t])
    BY DEF MarkInv
  <1> HIDE DEF r
  <1>4. Fits(r)
    BY <1>1, <1>3 DEF Fits
  <1>5. Marked(thread[t]) => Marked(r)
    BY <1>1 DEF Marked
  <1> QED BY <1>1, <1>2, <1>4, <1>5, Entered

(* or with one that does not write the mark.                               *)
LEMMA CommitsOver ==
  ASSUME MarkInv, thread \in [Threads -> Thread], NEW t \in Threads, NEW label \in Labels,
         NEW s \in Status, s # "backup_running",
         Commit(t, s, label), label # "refresh_commit",
         thread[t].pc \notin {"refresh_cleanup", "refresh_commit"},
         label \in JobLabels => thread[t].mode = "caller"
  PROVE  MarkInv'
  <1> DEFINE r == [thread[t] EXCEPT !.pc = label, !.local = s]
  <1>1. /\ r \in Thread /\ r.pc = label /\ r.ret = thread[t].ret /\ r.mode = thread[t].mode
        /\ r.local = s
    BY DEF Thread
  <1>2. Enter(t, r) /\ status' = (IF thread[t].local = s THEN status ELSE s)
    BY DEF Commit
  <1>3. Fits(thread[t])
    BY DEF MarkInv
  <1> HIDE DEF r
  <1>4. Fits(r)
    BY <1>1, <1>3 DEF Fits
  <1>5. status' = "backup_running" => status = "backup_running" /\ ~Marked(thread[t])
    BY <1>2 DEF Marked
  <1> QED BY <1>1, <1>2, <1>4, <1>5, Entered

(* What a thread remembers of its call.                                    *)
LEMMA Remembered ==
  ASSUME FileTypeOK, MarkInv, NEW t \in Threads
  PROVE  /\ thread \in [Threads -> Thread] /\ status \in Status
         /\ thread[t] \in Thread /\ thread[t].local \in Status /\ thread[t].ret \in Labels
         /\ Fits(thread[t])
  BY LabelsAreLabels DEF FileTypeOK, TypeOK, Thread, MarkInv

(* stop_server keeps the mark, or writes over it;                          *)
LEMMA StopKeepsMark ==
  ASSUME FileTypeOK, MarkInv, NEW t \in Threads, StopStep(t)
  PROVE  MarkInv'
  <1> USE DEF At
  <1>0. /\ thread \in [Threads -> Thread] /\ thread[t] \in Thread /\ thread[t].ret \in Labels
        /\ Fits(thread[t])
    BY Remembered
  <1>1. /\ thread[t].pc \in StopLabels /\ StopLabels \subseteq CallPoints
        /\ StopLabels \subseteq Labels /\ StopLabels \cap JobLabels = {}
        /\ thread[t].pc \notin {"refresh_cleanup", "refresh_commit"} \cup AfterMark
        /\ "refresh_commit" \notin StopLabels
    <2>1. thread[t].pc \in StopLabels
      BY DEF StopStep, StopCancel, StopLookup, StopExternal, StopMark, StopWait, StopCleanup,
             StopWrite, StopLabels
    <2>2. StopLabels \subseteq CallPoints
      BY DEF CallPoints
    <2> QED BY <2>1, <2>2, MarkLabels, LabelsAreLabels
  <1>2. Marked(thread[t]) => thread[t].ret \in Comebacks
    BY <1>1 DEF Marked
  <1>3. thread[t].ret # "refresh_commit" /\ (thread[t].ret \in JobLabels => thread[t].mode = "caller")
    BY <1>0, <1>1 DEF Fits
  <1>4. ASSUME NEW label \in StopLabels, Goto(t, label), status' = status
        PROVE  MarkInv'
    BY <1>0, <1>1, <1>2, <1>4, GoesOn
  <1>5. CASE StopCancel(t) \/ StopExternal(t) \/ StopWait(t) \/ StopCleanup(t)
    BY <1>4, <1>5 DEF StopCancel, StopExternal, StopWait, StopCleanup, StopLabels
  <1>6. CASE StopLookup(t)
    <2> DEFINE label == IF registry = None THEN "stop_external"
                        ELSE IF registry \in alive THEN "stop_mark" ELSE "stop_cleanup"
               r == [thread[t] EXCEPT !.target = registry, !.pc = label]
    <2>1. label \in StopLabels /\ registry \in Procs \cup {None}
      BY DEF StopLabels, FileTypeOK, TypeOK
    <2>2. Enter(t, r) /\ status' = status
      BY <1>6 DEF StopLookup
    <2> HIDE DEF label
    <2>3. /\ r \in Thread /\ r.pc = label /\ r.ret = thread[t].ret /\ r.mode = thread[t].mode
          /\ r.local = thread[t].local
      BY <1>0, <1>1, <2>1 DEF Thread
    <2> HIDE DEF r
    <2>4. Fits(r) /\ (Marked(thread[t]) => Marked(r))
      BY <1>0, <1>1, <1>2, <1>3, <2>1, <2>3 DEF Fits, Marked
    <2> QED BY <1>0, <2>2, <2>3, <2>4, Entered
  <1>7. CASE StopMark(t)
    <2>1. PICK s \in {"restarting", "stopping"} : Commit(t, s, "stop_wait")
      BY <1>7 DEF StopMark
    <2>2. "stop_wait" \in StopLabels /\ s \in Status /\ s # "backup_running"
      BY DEF StopLabels, Status
    <2> QED BY <1>0, <1>1, <2>1, <2>2, CommitsOver
  <1>8. CASE StopWrite(t)
    <2>1. PICK s \in {"restarting", "stopped"} : Commit(t, s, thread[t].ret)
      BY <1>8 DEF StopWrite
    <2>2. s \in Status /\ s # "backup_running"
      BY DEF Status
    <2> QED BY <1>0, <1>1, <1>3, <2>1, <2>2, CommitsOver
  <1> QED BY <1>5, <1>6, <1>7, <1>8 DEF StopStep

(* start_server is refused for it and returns;                             *)
LEMMA StartKeepsMark ==
  ASSUME FileTypeOK, MarkInv, NEW t \in Threads, StartStep(t)
  PROVE  MarkInv'
  <1> USE DEF At
  <1>0. /\ thread \in [Threads -> Thread] /\ thread[t] \in Thread /\ thread[t].ret \in Labels
        /\ Fits(thread[t])
    BY Remembered
  <1>1. /\ thread[t].pc \in StartLabels \cup {"start_slot"}
        /\ StartLabels \cup {"start_slot"} \subseteq OwnLabels
        /\ thread[t].pc \notin {"refresh_cleanup", "refresh_commit"}
        /\ {"refresh_cleanup", "refresh_commit"} \cap StartLabels = {}
        /\ thread[t].pc \notin AfterMark /\ StartLabels \cap JobLabels = {}
        /\ StartLabels \subseteq Labels
    <2>1. thread[t].pc \in StartLabels \cup {"start_slot"}
      BY DEF StartStep, StartSlot, StartCheck, StartScan, StartExternal, StartMark, StartPrepare,
             StartFail, StartLaunch, StartRegister, StartRelease, StartLabels
    <2>2. StartLabels \cup {"start_slot"} \subseteq OwnLabels
      BY DEF OwnLabels, OtherLabels
    <2>3. {"refresh_cleanup", "refresh_commit"} \cap (StartLabels \cup {"start_slot"}) = {}
      BY DEF StartLabels
    <2> QED BY <2>1, <2>2, <2>3, MarkLabels, LabelsAreLabels
  <1>2. Marked(thread[t]) => /\ thread[t].ret \in Comebacks /\ thread[t].mode = "caller"
                             /\ thread[t].local = "backup_running"
                             /\ thread[t].pc \in {"start_slot", "start_check", "start_release"}
    BY <1>1 DEF Marked, CallPoints, StopLabels, StartLabels
  <1>3. /\ StartReturn(t) \in Labels /\ StartReturn(t) # "refresh_commit"
        /\ StartReturn(t) \in JobLabels => thread[t].mode = "caller"
        /\ Marked(thread[t]) => StartReturn(t) \in AfterMark
    <2>1. thread[t].ret # "refresh_commit" /\ (thread[t].ret \in JobLabels => thread[t].mode = "caller")
      BY <1>0, <1>1 DEF Fits
    <2>2. CASE thread[t].mode = "caller"
      BY <1>0, <1>2, <2>1, <2>2, MarkLabels DEF StartReturn
    <2>3. CASE thread[t].mode # "caller"
      <3>1. StartReturn(t) \in {"idle", "worker_release"}
        BY <2>3, EndOfIsLabel DEF StartReturn
      <3>2. {"idle", "worker_release"} \subseteq OwnLabels
        BY DEF OwnLabels, OtherLabels
      <3> QED BY <1>2, <2>3, <3>1, <3>2, MarkLabels, JobLabelsApart
    <2> QED BY <2>2, <2>3
  <1>4. ASSUME NEW label \in StartLabels, Goto(t, label), status' = status,
               ~Marked(thread[t]) \/ label \in {"start_check", "start_release"}
        PROVE  MarkInv'
    BY <1>0, <1>1, <1>2, <1>4, GoesOn DEF CallPoints
  <1>5. ASSUME Goto(t, StartReturn(t)), status' = status
        PROVE  MarkInv'
    BY <1>0, <1>1, <1>3, <1>5, GoesOn
  <1>6. CASE StartSlot(t)
    BY <1>4, <1>5, <1>6 DEF StartSlot, StartLabels
  <1>7. CASE StartCheck(t)
    <2>1. PICK label \in {"start_release", "start_fail", "start_scan"} :
            Goto(t, label) /\ status' = status /\ (StartRefused(t) => label = "start_release")
      BY <1>7 DEF StartCheck
    <2>2. Marked(thread[t]) => StartRefused(t)
      BY <1>2 DEF StartRefused, BlockedStatuses
    <2> QED BY <1>4, <2>1, <2>2 DEF StartLabels
  <1>8. CASE StartScan(t) \/ StartPrepare(t) \/ StartRegister(t)
    <2>1. ~Marked(thread[t])
      BY <1>2, <1>8 DEF StartScan, StartPrepare, StartRegister
    <2>2. PICK label \in StartLabels : Goto(t, label) /\ status' = status
      BY <1>8 DEF StartScan, StartPrepare, StartRegister, StartLabels
    <2> QED BY <1>4, <2>1, <2>2
  <1>9. CASE StartExternal(t) \/ StartMark(t) \/ StartFail(t)
    <2>1. PICK s \in {"running", "starting", "error"}, label \in StartLabels : Commit(t, s, label)
      BY <1>9 DEF StartExternal, StartMark, StartFail, StartLabels
    <2>2. s \in Status /\ s # "backup_running"
      BY DEF Status
    <2> QED BY <1>0, <1>1, <2>1, <2>2, CommitsOver
  <1>10. CASE StartLaunch(t)
    <2>1. ~Marked(thread[t])
      BY <1>2, <1>10 DEF StartLaunch
    <2>2. ASSUME NEW p \in Procs,
                 Enter(t, [thread[t] EXCEPT !.pc = "start_register", !.target = p]), status' = status
          PROVE  MarkInv'
      <3> DEFINE r == [thread[t] EXCEPT !.pc = "start_register", !.target = p]
      <3>1. "start_register" \in StartLabels
        BY DEF StartLabels
      <3>2. /\ r \in Thread /\ r.pc = "start_register" /\ r.ret = thread[t].ret
            /\ r.mode = thread[t].mode /\ r.local = thread[t].local
        BY <1>0, <1>1, <3>1 DEF Thread
      <3>3. Enter(t, r)
        BY <2>2
      <3> HIDE DEF r
      <3>4. Fits(r)
        BY <1>0, <1>1, <3>1, <3>2 DEF Fits
      <3> QED BY <1>0, <2>1, <2>2, <3>2, <3>3, <3>4, Entered
    <2>3. "start_fail" \in StartLabels
      BY DEF StartLabels
    <2> QED BY <1>4, <1>10, <2>1, <2>2, <2>3 DEF StartLaunch
  <1>11. CASE StartRelease(t)
    BY <1>5, <1>11 DEF StartRelease
  <1> QED BY <1>6, <1>7, <1>8, <1>9, <1>10, <1>11 DEF StartStep

(* restart_server has no caller that holds the mark;                       *)
LEMMA RestartKeepsMark ==
  ASSUME FileTypeOK, MarkInv, NEW t \in Threads, RestartStep(t)
  PROVE  MarkInv'
  <1> USE DEF At
  <1>0. /\ thread \in [Threads -> Thread] /\ thread[t] \in Thread /\ status \in Status
        /\ Fits(thread[t])
    BY Remembered
  <1>1. thread[t].pc \in {"countdown", "restart_mark", "restart_refresh", "worker_release"}
    BY DEF RestartStep, WorkerStops, WorkerProceeds, RestartMark, RestartRefresh, WorkerRelease
  <1>2. /\ {"worker_release", "idle", "restart_mark", "start_slot", "stop_cancel",
             "countdown", "restart_refresh"} \subseteq OwnLabels
        /\ OwnLabels \subseteq Labels
    BY DEF OwnLabels, OtherLabels, StopLabels, Labels
  <1>3. ~Marked(thread[t])
    BY <1>1, <1>2, MarkLabels DEF Marked, CallPoints, StopLabels
  <1>4. CASE WorkerStops(t) \/ WorkerRelease(t)
    <2>1. PICK label \in {"worker_release", "idle"} : Goto(t, label)
      BY <1>4 DEF WorkerStops, WorkerRelease
    <2>2. label \in Labels /\ label \notin JobLabels
      BY <1>2, MarkLabels
    <2> QED BY <1>0, <1>1, <1>3, <1>4, <2>1, <2>2, GoesOn DEF WorkerStops, WorkerRelease
  <1>5. CASE WorkerProceeds(t) \/ RestartRefresh(t)
    <2>1. PICK label \in {"restart_mark", "start_slot"} :
            Enter(t, [thread[t] EXCEPT !.pc = label, !.local = status]) /\ status' = status
      BY <1>5 DEF WorkerProceeds, RestartRefresh
    <2> DEFINE r == [thread[t] EXCEPT !.pc = label, !.local = status]
    <2>2. /\ r \in Thread /\ r.pc = label /\ r.ret = thread[t].ret /\ r.mode = thread[t].mode
      BY <1>0, <1>2 DEF Thread
    <2>3. Enter(t, r)
      BY <2>1
    <2> HIDE DEF r
    <2>4. Fits(r)
      BY <1>0, <1>1, <1>2, <2>2, MarkLabels DEF Fits
    <2> QED BY <1>0, <1>3, <2>1, <2>2, <2>3, <2>4, Entered
  <1>6. CASE RestartMark(t)
    <2>1. Commit(t, "restarting", "stop_cancel")
      BY <1>6 DEF RestartMark
    <2>2. /\ "restarting" \in Status /\ "stop_cancel" \in Labels /\ "stop_cancel" \notin JobLabels
      BY <1>2, MarkLabels DEF Status
    <2> QED BY <1>0, <1>1, <2>1, <2>2, CommitsOver
  <1> QED BY <1>4, <1>5, <1>6 DEF RestartStep

(* no page view arrives at it, unless it found it and leaves it;           *)
LEMMA RefreshedMark ==
  ASSUME NEW s, NEW up, NEW r, Refreshed(s, up, r) = "backup_running"
  PROVE  s = "backup_running"
  BY DEF Refreshed

LEMMA RefreshKeepsMark ==
  ASSUME FileTypeOK, MarkInv, NEW t \in Threads, RefreshStep(t)
  PROVE  MarkInv'
  <1> USE DEF At
  <1>0. /\ thread \in [Threads -> Thread] /\ thread[t] \in Thread /\ status \in Status
        /\ Fits(thread[t]) /\ thread[t].local \in Status /\ thread[t].ret \in Labels
    BY Remembered
  <1>1. thread[t].pc \in {"refresh_probe", "refresh_up", "refresh_down", "refresh_cleanup",
                          "refresh_commit"}
    BY DEF RefreshStep, RefreshProbe, RefreshUp, RefreshDown, RefreshCleanup, RefreshCommit
  <1>2. /\ {"refresh_probe", "refresh_up", "refresh_down", "refresh_cleanup", "refresh_commit",
             "idle"} \subseteq OwnLabels
        /\ OwnLabels \subseteq Labels
    BY DEF OwnLabels, OtherLabels, Labels
  <1>3. ~Marked(thread[t])
    BY <1>1, <1>2, MarkLabels DEF Marked, CallPoints, StopLabels
  <1>4. CASE RefreshProbe(t)
    <2>1. PICK label \in {"refresh_up", "refresh_down"} : Goto(t, label)
      BY <1>4 DEF RefreshProbe
    <2>2. label \in Labels /\ label \notin JobLabels
      BY <1>2, MarkLabels
    <2> QED BY <1>0, <1>3, <1>4, <2>1, <2>2, GoesOn DEF RefreshProbe
  <1>5. ASSUME NEW up \in BOOLEAN, NEW verdict, verdict = Refreshed(thread[t].local, up, RuntimeReady),
               NEW label \in Labels, NEW back \in ReturnLabels,
               Enter(t, [thread[t] EXCEPT !.local = verdict, !.pc = label, !.ret = back]),
               \/ label = AfterVerdict(t, verdict) /\ back = thread[t].ret
               \/ label = "refresh_cleanup" /\ back = AfterVerdict(t, verdict),
               thread[t].pc \in {"refresh_up", "refresh_down"}, status' = status
        PROVE  MarkInv'
    <2> DEFINE r == [thread[t] EXCEPT !.local = verdict, !.pc = label, !.ret = back]
    <2>1. verdict \in Status
      BY <1>0, <1>5, RefreshedIsStatus DEF RuntimeReady, IsRunning, FileTypeOK, TypeOK
    <2>2. /\ AfterVerdict(t, verdict) \in {"idle", "refresh_commit"}
          /\ verdict = "backup_running" => AfterVerdict(t, verdict) = "idle"
      BY <1>5, RefreshedMark DEF AfterVerdict
    <2>3. Enter(t, r)
      BY <1>5
    <2>4. /\ r \in Thread /\ r.pc = label /\ r.ret = back /\ r.mode = thread[t].mode
          /\ r.local = verdict
      BY <1>0, <2>1 DEF Thread
    <2> HIDE DEF r
    <2>5. Fits(r)
      <3>1. label \notin JobLabels /\ (back \in JobLabels => thread[t].mode = "caller")
        BY <1>0, <1>2, <1>5, <2>2, MarkLabels DEF Fits
      <3>2. thread[t].ret # "refresh_commit"
        BY <1>0, <1>5 DEF Fits
      <3> QED BY <1>5, <2>2, <2>4, <3>1, <3>2 DEF Fits
    <2> QED BY <1>0, <1>3, <1>5, <2>3, <2>4, <2>5, Entered
  <1>8. /\ \A v : AfterVerdict(t, v) \in Labels \cap ReturnLabels
        /\ "refresh_cleanup" \in Labels /\ thread[t].ret \in ReturnLabels
    BY <1>0, <1>2 DEF AfterVerdict, ReturnLabels, Thread
  <1>9. CASE RefreshUp(t)
    <2>1. PICK verdict : /\ verdict = Refreshed(thread[t].local, TRUE, RuntimeReady)
                         /\ Enter(t, [thread[t] EXCEPT !.local = verdict, !.pc = AfterVerdict(t, verdict)])
      BY <1>9 DEF RefreshUp
    <2>2. [thread[t] EXCEPT !.local = verdict, !.pc = AfterVerdict(t, verdict)]
          = [thread[t] EXCEPT !.local = verdict, !.pc = AfterVerdict(t, verdict), !.ret = thread[t].ret]
      BY <1>0 DEF Thread
    <2>3. thread[t].pc = "refresh_up" /\ status' = status
      BY <1>9 DEF RefreshUp
    <2>4. Enter(t, [thread[t] EXCEPT !.local = verdict, !.pc = AfterVerdict(t, verdict),
                                     !.ret = thread[t].ret])
      BY <2>1, <2>2, Zenon
    <2>5. /\ AfterVerdict(t, verdict) \in Labels /\ thread[t].ret \in ReturnLabels
          /\ TRUE \in BOOLEAN /\ thread[t].pc \in {"refresh_up", "refresh_down"}
      BY <1>8, <2>3
    <2> HIDE DEF At
    <2> QED BY <1>5, <2>1, <2>3, <2>4, <2>5, Zenon
  <1>10. CASE RefreshDown(t)
    <2>1. PICK verdict : /\ verdict = Refreshed(thread[t].local, ExternalPids # {}, RuntimeReady)
                         /\ Enter(t, [thread[t] EXCEPT !.local = verdict, !.pc = "refresh_cleanup",
                                                       !.ret = AfterVerdict(t, verdict)])
      BY <1>10 DEF RefreshDown
    <2>2. thread[t].pc = "refresh_down" /\ status' = status /\ (ExternalPids # {}) \in BOOLEAN
      BY <1>10 DEF RefreshDown
    <2> QED BY <1>5, <1>8, <2>1, <2>2
  <1>6. CASE RefreshCleanup(t)
    <2> DEFINE r == [thread[t] EXCEPT !.pc = thread[t].ret]
    <2>1. /\ r \in Thread /\ r.pc = thread[t].ret /\ r.ret = thread[t].ret
          /\ r.mode = thread[t].mode /\ r.local = thread[t].local
      BY <1>0 DEF Thread
    <2>2. Enter(t, r) /\ status' = status
      BY <1>6 DEF RefreshCleanup, Goto
    <2> HIDE DEF r
    <2>3. Fits(r)
      BY <1>0, <2>1 DEF Fits
    <2> QED BY <1>0, <1>3, <2>1, <2>2, <2>3, Entered
  <1>7. CASE RefreshCommit(t)
    <2> DEFINE r == [thread[t] EXCEPT !.pc = "idle"]
    <2>1. /\ r \in Thread /\ r.pc = "idle" /\ r.ret = thread[t].ret
          /\ r.mode = thread[t].mode /\ r.local = thread[t].local
      BY <1>0, <1>2 DEF Thread
    <2>2. Enter(t, r) /\ status' = thread[t].local /\ thread[t].local # "backup_running"
      BY <1>0, <1>7 DEF RefreshCommit, Goto, Fits
    <2>3. Kept(r) = IdleThread
      BY <2>1 DEF Kept
    <2>4. \A u \in Threads : u # t => thread'[u] = thread[u]
      BY <1>0, <2>2 DEF Enter
    <2>5. thread'[t] = IdleThread
      BY <1>0, <2>2, <2>3 DEF Enter
    <2>6. Fits(IdleThread)
      BY MarkLabels DEF Fits, IdleThread
    <2> QED BY <2>2, <2>4, <2>5, <2>6 DEF MarkInv
  <1> QED BY <1>4, <1>6, <1>7, <1>9, <1>10 DEF RefreshStep

(* requests begin without it.                                              *)
LEMMA OtherKeepsMark ==
  ASSUME FileTypeOK, MarkInv, NEW t \in Threads,
         \/ \E m \in RequestKinds : Begin(t, m)
         \/ QueueRestart(t) \/ ConsoleStop(t) \/ Shutdown(t)
         \/ AutostartKill(t) \/ AutostartMark(t)
  PROVE  MarkInv'
  <1> USE DEF At
  <1>0. /\ thread \in [Threads -> Thread] /\ thread[t] \in Thread /\ status \in Status
        /\ Fits(thread[t]) /\ thread[t].local \in Status /\ thread[t].ret \in Labels
    BY Remembered
  <1>1. thread[t].pc \in {"idle", "console", "shutdown", "autostart_kill", "autostart_mark"}
    BY DEF Begin, QueueRestart, ConsoleStop, Shutdown, AutostartKill, AutostartMark
  <1>2. /\ {"idle", "console", "shutdown", "autostart_kill", "autostart_mark", "countdown",
             "shutdown_exit", "stop_cancel", "start_slot", "restart_mark", "refresh_probe"}
             \subseteq OwnLabels
        /\ OwnLabels \subseteq Labels
    BY DEF OwnLabels, OtherLabels, StopLabels, Labels
  <1>3. ~Marked(thread[t])
    BY <1>1, <1>2, MarkLabels DEF Marked, CallPoints, StopLabels
  <1>4. ASSUME NEW m \in RequestKinds, Begin(t, m) PROVE MarkInv'
    <2> DEFINE r == [pc |-> EntryOf(m), ret |-> ReturnOf(m), mode |-> m,
                     local |-> status, target |-> None]
    <2>1. EntryOf(m) \in {"start_slot", "stop_cancel", "restart_mark", "countdown", "console",
                          "refresh_probe", "shutdown"}
      BY DEF EntryOf, RequestKinds
    <2>2. ReturnOf(m) \in {"idle", "restart_refresh", "shutdown_exit"}
      BY DEF ReturnOf
    <2>3. /\ {"idle", "restart_refresh", "shutdown_exit"} \subseteq OwnLabels \cap ReturnLabels
      BY DEF OwnLabels, OtherLabels, ReturnLabels
    <2>4. r \in Thread /\ r.pc = EntryOf(m) /\ r.ret = ReturnOf(m)
      BY <1>0, <1>2, <2>1, <2>2, <2>3 DEF Thread, Modes
    <2>5. Enter(t, r) /\ status' = status
      BY <1>4 DEF Begin
    <2> HIDE DEF r
    <2>6. Fits(r)
      BY <1>2, <2>1, <2>2, <2>3, <2>4, MarkLabels DEF Fits
    <2> QED BY <1>0, <1>3, <2>4, <2>5, <2>6, Entered
  <1>5. CASE QueueRestart(t)
    <2> DEFINE r == [IdleThread EXCEPT !.pc = "countdown", !.ret = ReturnOf("queue"), !.mode = "queue"]
    <2>1. r \in Thread /\ r.pc = "countdown" /\ r.ret = "restart_refresh"
      BY <1>2, IdleIsThread DEF Thread, Modes, RequestKinds, ReturnLabels, ReturnOf
    <2>2. Enter(t, r) /\ status' = status
      BY <1>5 DEF QueueRestart
    <2>3. "restart_refresh" \in OwnLabels
      BY DEF OwnLabels, OtherLabels
    <2> HIDE DEF r
    <2>4. Fits(r)
      BY <1>2, <2>1, <2>3, MarkLabels DEF Fits
    <2> QED BY <1>0, <1>3, <2>1, <2>2, <2>4, Entered
  <1>6. CASE ConsoleStop(t)
    <2>1. PICK s \in Status : Commit(t, s, "idle") /\ (s = "backup_running" => s = thread[t].local)
      BY <1>0, <1>6 DEF ConsoleStop, Status
    <2> DEFINE r == [thread[t] EXCEPT !.pc = "idle", !.local = s]
    <2>2. /\ r \in Thread /\ r.pc = "idle"
      BY <1>0, <1>2 DEF Thread
    <2>3. Enter(t, r) /\ (status' = "backup_running" => status = "backup_running")
      BY <2>1 DEF Commit
    <2>4. thread'[t] = IdleThread /\ \A u \in Threads : u # t => thread'[u] = thread[u]
      BY <1>0, <2>2, <2>3 DEF Enter, Kept
    <2>5. Fits(IdleThread)
      BY MarkLabels DEF Fits, IdleThread
    <2> QED BY <1>3, <2>3, <2>4, <2>5 DEF MarkInv
  <1>7. CASE Shutdown(t)
    <2> DEFINE label == IF registry = None THEN "shutdown_exit" ELSE "stop_cancel"
               r == [thread[t] EXCEPT !.local = status, !.pc = label]
    <2>1. label \in {"shutdown_exit", "stop_cancel"}
      OBVIOUS
    <2>2. Enter(t, r) /\ status' = status
      BY <1>7 DEF Shutdown
    <2> HIDE DEF label
    <2>3. r \in Thread /\ r.pc = label /\ r.ret = thread[t].ret /\ r.mode = thread[t].mode
      BY <1>0, <1>2, <2>1 DEF Thread
    <2> HIDE DEF r
    <2>4. Fits(r)
      BY <1>0, <1>1, <1>2, <2>1, <2>3, MarkLabels DEF Fits
    <2> QED BY <1>0, <1>3, <2>2, <2>3, <2>4, Entered
  <1>8. CASE AutostartKill(t)
    <2>1. "autostart_mark" \in Labels /\ "autostart_mark" \notin JobLabels
      BY <1>2, MarkLabels
    <2> QED BY <1>0, <1>1, <1>3, <1>8, <2>1, GoesOn DEF AutostartKill
  <1>9. CASE AutostartMark(t)
    <2>1. "start_slot" \in Labels /\ "start_slot" \notin JobLabels /\ "stopped" \in Status
      BY <1>2, MarkLabels DEF Status
    <2> QED BY <1>0, <1>1, <1>9, <2>1, CommitsOver DEF AutostartMark
  <1> QED BY <1>4, <1>5, <1>6, <1>7, <1>8, <1>9

(* Output threads write other statuses.                                    *)
LEMMA StreamsKeepMark ==
  ASSUME MarkInv, NEW p \in Procs, ProcessStep(p)
  PROVE  MarkInv'
  <1>1. UNCHANGED thread /\ (status' = "backup_running" => status = "backup_running")
    BY DEF ProcessStep, StreamReady, StreamEnds, StreamStep, StreamMarkRunning, StreamCleanup,
           StreamLoad, StreamMarkStopped, ProcessExit, StatusAfterExit
  <1> QED BY <1>1 DEF MarkInv

(* init_db takes the mark of a manager that is gone away.                  *)
LEMMA BootKeepsMark ==
  ASSUME FileTypeOK, Boot
  PROVE  MarkInv'
  <1>1. status' # "backup_running"
    <2>1. Normalized(status) # "backup_running"
      BY DEF Normalized
    <2> QED BY <2>1, RefreshedMark DEF Boot, BootStatus
  <1>2. \A t \in Threads : /\ thread'[t].ret = "idle"
                           /\ thread'[t].pc \in {"idle", "autostart_kill", "start_slot"}
    BY DEF Boot, IdleThread
  <1>3. {"idle", "autostart_kill", "start_slot"} \subseteq OwnLabels
    BY DEF OwnLabels, OtherLabels
  <1> QED BY <1>1, <1>2, <1>3, MarkLabels DEF MarkInv, Fits

(* A step of the life cycle leaves the mark with its owner.                *)
LEMMA LifeKeepsMark ==
  ASSUME FileTypeOK, MarkInv, ManagerRuns
  PROVE  MarkInv'
  BY StopKeepsMark, StartKeepsMark, RestartKeepsMark, RefreshKeepsMark, OtherKeepsMark,
     StreamsKeepMark DEF ManagerRuns, CallStep

-----------------------------------------------------------------------------
(* The jobs write the mark and take it away.                               *)

(* A job calls stop_server or start_server,                                *)
LEMMA CallsOn ==
  ASSUME MarkInv, thread \in [Threads -> Thread], NEW t \in Threads,
         NEW entry \in {"stop_cancel", "start_slot"}, NEW back \in JobLabels,
         thread[t].pc \in JobLabels, Call(t, entry, back), status' = status,
         Marked(thread[t]) => back \in Comebacks
  PROVE  MarkInv'
  <1> DEFINE r == [thread[t] EXCEPT !.pc = entry, !.ret = back]
  <1>1. entry \in Labels /\ entry \in CallPoints /\ back \in ReturnLabels
    BY JobLabelsApart DEF CallPoints, StopLabels, Labels, OwnLabels, OtherLabels
  <1>2. /\ r \in Thread /\ r.pc = entry /\ r.ret = back /\ r.mode = thread[t].mode
        /\ r.local = thread[t].local
    BY <1>1 DEF Thread
  <1>3. Enter(t, r)
    BY DEF Call
  <1> HIDE DEF r
  <1>4. Fits(r) /\ (Marked(thread[t]) => Marked(r))
    BY <1>1, <1>2, MarkLabels DEF Fits, Marked, MarkInv
  <1> QED BY <1>2, <1>3, <1>4, Entered

(* or writes the mark before it goes on or calls stop_server;              *)
LEMMA MarksOn ==
  ASSUME MarkInv, thread \in [Threads -> Thread], NEW t \in Threads,
         NEW back \in {"backup_zip", "restore_clear"}, NEW entry \in {"stop_cancel", back},
         thread[t].pc \in JobLabels, CommitAndCall(t, "backup_running", entry, back)
  PROVE  MarkInv'
  <1> DEFINE r == [thread[t] EXCEPT !.pc = entry, !.ret = back, !.local = "backup_running"]
  <1>1. /\ entry \in Labels /\ entry \in CallPoints \cup AfterMark /\ back \in ReturnLabels
        /\ back \in Comebacks /\ back \in JobLabels /\ entry \in {"stop_cancel"} \cup AfterMark
    <2>1. back \in Comebacks /\ back \in AfterMark
      BY DEF Comebacks, AfterMark
    <2>2. back \in JobLabels
      BY <2>1, MarkLabels
    <2>3. "stop_cancel" \in CallPoints
      BY DEF CallPoints, StopLabels
    <2> QED BY <2>1, <2>2, <2>3, MarkLabels, JobLabelsApart
  <1>2. /\ r \in Thread /\ r.pc = entry /\ r.ret = back /\ r.mode = thread[t].mode
        /\ r.local = "backup_running"
    BY <1>1 DEF Thread, Status
  <1>3. Enter(t, r) /\ Fits(thread[t])
    BY DEF CommitAndCall, MarkInv
  <1> HIDE DEF r
  <1>4. thread[t].mode = "caller"
    BY <1>3 DEF Fits
  <1>5. Fits(r) /\ Marked(r)
    <2>1. entry # "refresh_commit" /\ back # "refresh_commit"
      BY <1>1, MarkLabels
    <2> QED BY <1>1, <1>2, <1>4, <2>1 DEF Fits, Marked
  <1> QED BY <1>2, <1>3, <1>5, Entered

(* at its end it takes it away, if its session still holds it.             *)
LEMMA ResetsMark ==
  ASSUME FileTypeOK, MarkInv, NEW t \in Threads, NEW label \in JobLabels \cup {"idle"},
         thread[t].pc \in JobLabels, Reset(t, label)
  PROVE  MarkInv'
  <1>0. /\ thread \in [Threads -> Thread] /\ thread[t] \in Thread /\ status \in Status
        /\ Fits(thread[t]) /\ thread[t].local \in Status /\ job[t].prev \in Status
    BY Remembered DEF FileTypeOK, Job
  <1>1. PICK s \in Status : Commit(t, s, label) /\ s # "backup_running"
    <2>1. "stopped" \in Status
      BY DEF Status
    <2> QED BY <1>0, <2>1 DEF Reset, ResetTo
  <1>2. /\ label \in Labels /\ label # "refresh_commit"
        /\ thread[t].pc \notin {"refresh_cleanup", "refresh_commit"}
        /\ thread[t].mode = "caller"
    BY <1>0, MarkLabels, JobTargets DEF Fits
  <1> QED BY <1>0, <1>1, <1>2, CommitsOver

(* A job goes on without a call or a commit, or is done without the mark.  *)
LEMMA JobGoesOn ==
  ASSUME FileTypeOK, MarkInv, NEW t \in Threads, NEW label \in JobLabels \cup {"idle"},
         thread[t].pc \in JobLabels, Goto(t, label), status' = status,
         thread[t].pc \in AfterMark => label \in AfterMark
  PROVE  MarkInv'
  <1>0. thread \in [Threads -> Thread] /\ Fits(thread[t])
    BY Remembered
  <1>1. /\ label \in Labels /\ label # "refresh_commit"
        /\ thread[t].pc \notin {"refresh_cleanup", "refresh_commit"}
        /\ thread[t].mode = "caller"
    BY <1>0, MarkLabels, JobTargets DEF Fits
  <1>2. Marked(thread[t]) => label \in AfterMark
    BY MarkLabels DEF Marked
  <1> QED BY <1>0, <1>1, <1>2, GoesOn

(* A backup has no way past its reset,                                     *)
LEMMA BackupKeepsMark ==
  ASSUME FileTypeOK, MarkInv, NEW t \in Threads, BackupStep(t)
  PROVE  MarkInv'
  <1> USE DEF At
  <1>0. thread \in [Threads -> Thread]
    BY Remembered
  <1>1. thread[t].pc \in JobLabels /\ BackupLabels \subseteq JobLabels
    BY DEF BackupStep, BackupProbe, BackupMark, BackupZip, BackupRestart, BackupReset, BackupLabels,
           JobLabels
  <1>2. CASE BackupProbe(t) \/ BackupZip(t)
    <2>1. PICK label \in {"backup_mark", "backup_restart", "backup_reset"} :
            Goto(t, label) /\ status' = status /\ (thread[t].pc = "backup_zip" => label # "backup_mark")
      BY <1>2 DEF BackupProbe, BackupZip
    <2>2. label \in JobLabels /\ (thread[t].pc \in AfterMark => label \in AfterMark)
      BY <1>1, <1>2, <2>1 DEF BackupLabels, AfterMark, BackupProbe, BackupZip
    <2> QED BY <1>1, <2>1, <2>2, JobGoesOn
  <1>3. CASE BackupMark(t)
    <2>1. PICK entry \in {"stop_cancel", "backup_zip"} :
            CommitAndCall(t, "backup_running", entry, "backup_zip")
      BY <1>3 DEF BackupMark
    <2> QED BY <1>0, <1>1, <2>1, MarksOn
  <1>4. CASE BackupRestart(t)
    <2>1. "backup_reset" \in JobLabels /\ "backup_reset" \in AfterMark \cap Comebacks
      BY <1>1 DEF BackupLabels, AfterMark, Comebacks
    <2>2. status' = status /\ (Goto(t, "backup_reset") \/ Call(t, "start_slot", "backup_reset"))
      BY <1>4 DEF BackupRestart
    <2> QED BY <1>0, <1>1, <2>1, <2>2, JobGoesOn, CallsOn
  <1>5. CASE BackupReset(t)
    <2>1. PICK label \in {"transfer_copy", "transfer_release", "idle"} : Reset(t, label)
      BY <1>5 DEF BackupReset
    <2>2. label \in JobLabels \cup {"idle"}
      BY DEF JobLabels, TransferLabels
    <2> QED BY <1>1, <2>1, <2>2, ResetsMark
  <1> QED BY <1>2, <1>3, <1>4, <1>5 DEF BackupStep

(* nor has a restore,                                                      *)
LEMMA RestoreKeepsMark ==
  ASSUME FileTypeOK, MarkInv, NEW t \in Threads, RestoreStep(t)
  PROVE  MarkInv'
  <1> USE DEF At
  <1>0. thread \in [Threads -> Thread]
    BY Remembered
  <1>1. thread[t].pc \in JobLabels /\ RestoreLabels \subseteq JobLabels
    BY DEF RestoreStep, RestoreProbe, RestoreMark, RestoreClear, RestoreFill, RestoreReset,
           RestoreLabels, JobLabels
  <1>2. CASE RestoreProbe(t)
    <2>1. PICK label \in {"idle", "restore_mark"} : Goto(t, label) /\ status' = status
      BY <1>2 DEF RestoreProbe, Done
    <2>2. label \in JobLabels \cup {"idle"} /\ thread[t].pc \notin AfterMark
      BY <1>1, <1>2 DEF RestoreLabels, AfterMark, RestoreProbe
    <2> QED BY <1>1, <2>1, <2>2, JobGoesOn
  <1>3. CASE RestoreMark(t)
    <2>1. PICK entry \in {"stop_cancel", "restore_clear"} :
            CommitAndCall(t, "backup_running", entry, "restore_clear")
      BY <1>3 DEF RestoreMark
    <2> QED BY <1>0, <1>1, <2>1, MarksOn
  <1>4. CASE RestoreClear(t) \/ RestoreFill(t)
    <2>1. status' = status /\ \/ \E label \in {"restore_fill", "restore_reset"} : Goto(t, label)
                              \/ Call(t, "start_slot", "restore_reset")
      BY <1>4 DEF RestoreClear, RestoreFill, Continue
    <2>2. /\ {"restore_fill", "restore_reset"} \subseteq JobLabels \cap AfterMark
          /\ "restore_reset" \in Comebacks
      BY <1>1 DEF RestoreLabels, AfterMark, Comebacks
    <2> QED BY <1>0, <1>1, <2>1, <2>2, JobGoesOn, CallsOn
  <1>5. CASE RestoreReset(t)
    BY <1>1, <1>5, ResetsMark DEF RestoreReset
  <1> QED BY <1>2, <1>3, <1>4, <1>5 DEF RestoreStep

(* and the others do not write it.                                         *)
LEMMA OthersKeepMark ==
  ASSUME FileTypeOK, MarkInv, NEW t \in Threads, DuplicateStep(t) \/ TransferStep(t)
  PROVE  MarkInv'
  <1> USE DEF At
  <1>0. thread \in [Threads -> Thread] /\ thread[t] \in Thread /\ status \in Status /\ Fits(thread[t])
    BY Remembered
  <1>1. /\ thread[t].pc \in DuplicateLabels \cup TransferLabels
        /\ DuplicateLabels \cup TransferLabels \cup {"backup_probe"} \subseteq JobLabels
        /\ (DuplicateLabels \cup TransferLabels) \cap AfterMark = {}
        /\ "backup_probe" \notin AfterMark
    BY DEF DuplicateStep, TransferStep, DupCheck, DupSource, DupMark, DupRecheck, DupCopy, DupRelease,
           TransferLock, TransferCheck, TransferRecheck, TransferCopy, TransferSwap, TransferRelease,
           DuplicateLabels, TransferLabels, JobLabels, BackupLabels, AfterMark
  <1>2. CASE DuplicateStep(t)
    <2>1. PICK label \in DuplicateLabels \cup {"idle"} : Goto(t, label) /\ status' = status
      BY <1>2 DEF DuplicateStep, DupCheck, DupSource, DupMark, DupRecheck, DupCopy, DupRelease,
                  Continue, Done, DuplicateLabels
    <2> QED BY <1>1, <2>1, JobGoesOn
  <1>3. CASE TransferLock(t) \/ TransferCheck(t) \/ TransferCopy(t) \/ TransferSwap(t)
             \/ TransferRelease(t)
    <2>1. PICK label \in TransferLabels \cup {"idle"} : Goto(t, label) /\ status' = status
      BY <1>3 DEF TransferLock, TransferCheck, TransferCopy, TransferSwap, TransferRelease,
                  Continue, Done, TransferLabels
    <2> QED BY <1>1, <2>1, JobGoesOn
  <1>4. CASE TransferRecheck(t)
    <2>1. CASE Continue(t, "transfer_release")
      BY <1>1, <1>4, <2>1, JobGoesOn DEF TransferRecheck, Continue, TransferLabels
    <2>2. CASE ~Continue(t, "transfer_release")
      <3>1. PICK label \in {"backup_probe", "transfer_copy"} :
              Enter(t, [thread[t] EXCEPT !.local = status, !.pc = label]) /\ status' = status
        BY <1>4, <2>2 DEF TransferRecheck
      <3> DEFINE r == [thread[t] EXCEPT !.local = status, !.pc = label]
      <3>2. label \in JobLabels
        BY <1>1 DEF TransferLabels
      <3>3. /\ r \in Thread /\ r.pc = label /\ r.ret = thread[t].ret /\ r.mode = thread[t].mode
        BY <1>0, <3>2, JobTargets DEF Thread
      <3>4. Enter(t, r)
        BY <3>1
      <3> HIDE DEF r
      <3>5. ~Marked(thread[t])
        BY <1>1, MarkLabels DEF Marked
      <3>6. thread[t].mode = "caller" /\ thread[t].ret # "refresh_commit"
        BY <1>0, <1>1, MarkLabels DEF Fits
      <3>7. Fits(r)
        BY <3>2, <3>3, <3>6, MarkLabels DEF Fits
      <3> QED BY <1>0, <3>1, <3>3, <3>4, <3>5, <3>7, Entered
    <2> QED BY <2>1, <2>2
  <1> QED BY <1>2, <1>3, <1>4 DEF TransferStep

(* A job is asked for.                                                     *)
LEMMA AskKeepsMark ==
  ASSUME FileTypeOK, MarkInv, NEW t \in Threads, NEW k \in JobKinds, Ask(t, k)
  PROVE  MarkInv'
  <1>0. thread \in [Threads -> Thread] /\ thread[t] \in Thread /\ status \in Status
    BY Remembered
  <1> DEFINE r == [pc |-> FirstLabel(k), ret |-> "idle", mode |-> "caller", local |-> status,
                   target |-> None]
  <1>1. FirstLabel(k) \in JobLabels
    <2>1. FirstLabel(k) \in {"backup_probe", "restore_probe", "dup_check", "transfer_lock"}
      BY DEF FirstLabel
    <2> QED BY <2>1 DEF JobLabels, BackupLabels, RestoreLabels, DuplicateLabels, TransferLabels
  <1>2. r \in Thread /\ r.pc = FirstLabel(k) /\ r.ret = "idle" /\ r.mode = "caller"
    BY <1>0, <1>1, JobTargets DEF Thread, Modes
  <1>3. Enter(t, r) /\ status' = status /\ thread[t].pc = "idle"
    BY DEF Ask, At
  <1> HIDE DEF r
  <1>4. Fits(r)
    BY <1>1, <1>2, MarkLabels DEF Fits
  <1>5. ~Marked(thread[t])
    BY <1>3, MarkLabels DEF Marked
  <1> QED BY <1>0, <1>2, <1>3, <1>4, <1>5, Entered

(* The mark has an owner in every state.                                   *)
LEMMA MarkKeeps == FileInv /\ MarkInv /\ [FileNext]_allVars => MarkInv'
  <1> SUFFICES ASSUME FileInv, MarkInv, [FileNext]_allVars PROVE MarkInv'
    OBVIOUS
  <1>0. FileTypeOK
    BY DEF FileInv, LockInv
  <1>1. CASE UNCHANGED allVars
    BY <1>1 DEF allVars, vars, MarkInv
  <1>2. CASE LifeStep
    BY <1>0, <1>2, LifeKeepsMark DEF LifeStep
  <1>3. CASE ManagerEndsWithJobs
    BY <1>0, <1>3, BootKeepsMark DEF ManagerEndsWithJobs, ManagerEnds, ManagerCrash, ShutdownExit
  <1>4. ASSUME NEW t \in Threads, JobStep(t) \/ \E k \in JobKinds : Ask(t, k) PROVE MarkInv'
    BY <1>0, <1>4, BackupKeepsMark, RestoreKeepsMark, OthersKeepMark, AskKeepsMark DEF JobStep
  <1> QED BY <1>1, <1>2, <1>3, <1>4 DEF FileNext

LEMMA MarkStarts == FileInit => MarkInv
  BY MarkLabels DEF FileInit, Init, IdleThread, MarkInv, Fits

(* Whatever backups, restores, stops, starts and ends of the manager       *)
(* overlap: once nothing is under way, no server is left marked as being   *)
(* backed up (backup_service.py's resets, init_db).                        *)
THEOREM MarkIsTransient == FileSpec => []BackupMarkIsTransient
  <1>1. MarkInv => BackupMarkIsTransient
    BY MarkLabels DEF MarkInv, Marked, BackupMarkIsTransient, Quiet, At
  <1> QED BY <1>1, FileInitKeeps, FileStepKeeps, MarkStarts, MarkKeeps, PTL DEF FileSpec
=============================================================================
