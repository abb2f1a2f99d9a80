----------------------- MODULE ServerLifecycleProofs -----------------------
(* What holds of the life cycle of a server for every number of threads    *)
(* and processes, every set of requests and every fault.                   *)
EXTENDS ServerLifecycle, TLAPS

-----------------------------------------------------------------------------
(* Threads.                                                                *)

(* A thread that does nothing is a thread.                                 *)
LEMMA IdleIsThread == IdleThread \in Thread
  BY DEF IdleThread, Thread, Labels, OwnLabels, OtherLabels, ReturnLabels, Modes, Status

(* A thread that goes on keeps its type, takes the label it was sent to    *)
(* and no other thread moves; what it keeps of its process is what it had. *)
LEMMA EnterThread ==
  ASSUME thread \in [Threads -> Thread], NEW t \in Threads, NEW r \in Thread, Enter(t, r)
  PROVE  /\ thread' \in [Threads -> Thread]
         /\ thread'[t].pc = r.pc
         /\ thread'[t].ret \in {r.ret, "idle"}
         /\ r.pc \in KeepsTarget => thread'[t].target = r.target
         /\ \A u \in Threads : u # t => thread'[u] = thread[u]
  <1>2. Kept(r) \in Thread /\ Kept(r).pc = r.pc /\ Kept(r).ret \in {r.ret, "idle"}
    BY IdleIsThread DEF Kept, IdleThread, Thread, Status
  <1>3. r.pc \in KeepsTarget => Kept(r).target = r.target
    <2>1. CASE r.pc = "idle"
      BY <2>1, CallerAssumption DEF KeepsTarget, OwnLabels, OtherLabels
    <2>2. CASE r.pc # "idle"
      BY <2>2 DEF Kept, Thread
    <2> QED BY <2>1, <2>2
  <1> QED BY <1>2, <1>3 DEF Enter

(* The same for a thread that only moves on.                               *)
LEMMA GotoThread ==
  ASSUME thread \in [Threads -> Thread], NEW t \in Threads, NEW label \in Labels, Goto(t, label)
  PROVE  /\ thread' \in [Threads -> Thread]
         /\ thread'[t].pc = label
         /\ thread'[t].ret \in {thread[t].ret, "idle"}
         /\ label \in KeepsTarget => thread'[t].target = thread[t].target
         /\ \A u \in Threads : u # t => thread'[u] = thread[u]
  <1> DEFINE r == [thread[t] EXCEPT !.pc = label]
  <1>1. r \in Thread /\ r.pc = label /\ r.ret = thread[t].ret /\ r.target = thread[t].target
    BY DEF Thread
  <1>2. Enter(t, r)
    BY DEF Goto
  <1> HIDE DEF r
  <1> QED BY <1>1, <1>2, EnterThread

(* A commit writes the status it was asked for or leaves it, and moves on. *)
LEMMA CommitThread ==
  ASSUME thread \in [Threads -> Thread], status \in Status, NEW t \in Threads,
         NEW s \in Status, NEW label \in Labels, Commit(t, s, label)
  PROVE  /\ thread' \in [Threads -> Thread]
         /\ thread'[t].pc = label
         /\ thread'[t].ret \in {thread[t].ret, "idle"}
         /\ label \in KeepsTarget => thread'[t].target = thread[t].target
         /\ \A u \in Threads : u # t => thread'[u] = thread[u]
         /\ status' \in Status
  <1> DEFINE r == [thread[t] EXCEPT !.pc = label, !.local = s]
  <1>1. r \in Thread /\ r.pc = label /\ r.ret = thread[t].ret /\ r.target = thread[t].target
    BY DEF Thread
  <1>2. Enter(t, r) /\ status' \in Status
    BY DEF Commit
  <1> HIDE DEF r
  <1> QED BY <1>1, <1>2, EnterThread

-----------------------------------------------------------------------------
(* Types.                                                                  *)

(* The program points of every operation are program points.               *)
LEMMA LabelsAreLabels ==
  /\ StopLabels \subseteq Labels /\ StartLabels \subseteq Labels /\ OtherLabels \subseteq Labels
  /\ ReturnLabels \subseteq Labels
  BY DEF StopLabels, StartLabels, OtherLabels, OwnLabels, Labels, ReturnLabels

(* What a refresh makes of a status is a status.                           *)
LEMMA RefreshedIsStatus ==
  ASSUME NEW s \in Status, NEW up \in BOOLEAN, NEW r \in BOOLEAN
  PROVE  Refreshed(s, up, r) \in Status
  BY DEF Refreshed, Status

(* So is what init_db makes of one,                                        *)
LEMMA NormalizedIsStatus ==
  ASSUME NEW s \in Status
  PROVE  Normalized(s) \in Status
  BY DEF Normalized, Status

(* and what the end of a process makes of one.                             *)
LEMMA StatusAfterExitIsStatus ==
  ASSUME NEW s \in Status
  PROVE  StatusAfterExit(s) \in Status
  BY DEF StatusAfterExit, Status

(* The type invariant, one operation at a time: at the start,              *)
LEMMA InitType == Init => TypeOK
  <1> SUFFICES ASSUME Init PROVE TypeOK
    OBVIOUS
  <1>1. thread \in [Threads -> Thread]
    BY IdleIsThread DEF Init
  <1> QED BY <1>1 DEF Init, TypeOK, Status, StreamLabels

(* What most steps leave to check: the thread, and that the rest is typed. *)
LEMMA StopType ==
  ASSUME TypeOK, NEW t \in Threads, StopStep(t)
  PROVE  TypeOK'
  <1> USE LabelsAreLabels DEF TypeOK, procVars, streamVars, restartVars
  <1>1. CASE StopCancel(t)
    BY <1>1, GotoThread DEF StopCancel, StopLabels
  <1>2. CASE StopLookup(t)
    <2> DEFINE r == [thread[t] EXCEPT !.target = registry,
                                      !.pc = IF registry = None THEN "stop_external"
                                             ELSE IF registry \in alive THEN "stop_mark"
                                             ELSE "stop_cleanup"]
    <2>1. r \in Thread
      BY DEF Thread, StopLabels
    <2>2. Enter(t, r)
      BY <1>2 DEF StopLookup
    <2> HIDE DEF r
    <2> QED BY <1>2, <2>1, <2>2, EnterThread DEF StopLookup
  <1>3. CASE StopExternal(t)
    BY <1>3, GotoThread DEF StopExternal, StopLabels
  <1>4. CASE StopMark(t)
    BY <1>4, CommitThread DEF StopMark, StopLabels, Status
  <1>5. CASE StopWait(t)
    BY <1>5, GotoThread DEF StopWait, StopLabels
  <1>6. CASE StopCleanup(t)
    BY <1>6, GotoThread DEF StopCleanup, DropEntry, StopLabels
  <1>7. CASE StopWrite(t)
    <2>1. thread[t].ret \in Labels
      BY DEF Thread
    <2> QED BY <1>7, <2>1, CommitThread DEF StopWrite, Status
  <1> QED
    BY <1>1, <1>2, <1>3, <1>4, <1>5, <1>6, <1>7 DEF StopStep

(* start_server returns to a program point that may be returned to.        *)
LEMMA StartReturnIsReturn ==
  ASSUME TypeOK, NEW t \in Threads
  PROVE  StartReturn(t) \in ReturnLabels \cup {"worker_release"}
  BY DEF TypeOK, Thread, StartReturn, EndOf, ReturnLabels

(* A request ends at a program point.                                      *)
LEMMA EndOfIsLabel ==
  ASSUME NEW m PROVE EndOf(m) \in {"idle", "worker_release"}
  BY DEF EndOf

(* in start_server,                                                        *)
LEMMA StartType ==
  ASSUME TypeOK, NEW t \in Threads, StartStep(t)
  PROVE  TypeOK'
  <1> USE LabelsAreLabels DEF TypeOK, procVars, streamVars, restartVars
  <1>0. StartReturn(t) \in Labels /\ EndOf(thread[t].mode) \in Labels
    BY StartReturnIsReturn, EndOfIsLabel DEF OtherLabels
  <1>1. CASE StartSlot(t)
    BY <1>0, <1>1, GotoThread DEF StartSlot, StartLabels
  <1>2. CASE StartCheck(t)
    BY <1>2, GotoThread DEF StartCheck, StartLabels
  <1>3. CASE StartScan(t)
    BY <1>3, GotoThread DEF StartScan, StartLabels
  <1>4. CASE StartExternal(t)
    BY <1>4, CommitThread DEF StartExternal, StartLabels, Status
  <1>5. CASE StartMark(t)
    BY <1>5, CommitThread DEF StartMark, StartLabels, Status
  <1>6. CASE StartPrepare(t)
    BY <1>6, GotoThread DEF StartPrepare, StartLabels
  <1>7. CASE StartFail(t)
    BY <1>7, CommitThread DEF StartFail, StartLabels, Status
  <1>8. CASE StartLaunch(t)
    <2>1. ASSUME NEW p \in Procs \ spawned,
                 spawned' = spawned \cup {p}, alive' = alive \cup {p},
                 Enter(t, [thread[t] EXCEPT !.pc = "start_register", !.target = p])
          PROVE  TypeOK'
      <3> DEFINE r == [thread[t] EXCEPT !.pc = "start_register", !.target = p]
      <3>1. r \in Thread
        BY DEF Thread, StartLabels
      <3>2. Enter(t, r)
        BY <2>1
      <3> HIDE DEF r
      <3> QED BY <1>8, <2>1, <3>1, <3>2, EnterThread DEF StartLaunch
    <2>2. CASE Goto(t, "start_fail") /\ UNCHANGED <<spawned, alive>>
      BY <1>8, <2>2, GotoThread DEF StartLaunch, StartLabels
    <2> QED BY <1>8, <2>1, <2>2 DEF StartLaunch
  <1>9. CASE StartRegister(t)
    <2>1. thread[t].target \in Procs \cup {None}
      BY DEF Thread
    <2> QED BY <1>9, <2>1, GotoThread DEF StartRegister, StartLabels, StreamLabels
  <1>10. CASE StartRelease(t)
    BY <1>0, <1>10, GotoThread DEF StartRelease
  <1> QED
    BY <1>1, <1>2, <1>3, <1>4, <1>5, <1>6, <1>7, <1>8, <1>9, <1>10 DEF StartStep

(* in restart_server and its worker,                                       *)
LEMMA RestartType ==
  ASSUME TypeOK, NEW t \in Threads, RestartStep(t)
  PROVE  TypeOK'
  <1> USE LabelsAreLabels DEF TypeOK, procVars, streamVars, restartVars
  <1>1. CASE WorkerStops(t)
    BY <1>1, GotoThread DEF WorkerStops, OtherLabels
  <1>2. CASE WorkerProceeds(t)
    <2> DEFINE r == [thread[t] EXCEPT !.pc = "restart_mark", !.local = status]
    <2>1. r \in Thread
      BY DEF Thread, OtherLabels
    <2>2. Enter(t, r)
      BY <1>2 DEF WorkerProceeds
    <2> HIDE DEF r
    <2> QED BY <1>2, <2>1, <2>2, EnterThread DEF WorkerProceeds
  <1>3. CASE RestartMark(t)
    BY <1>3, CommitThread DEF RestartMark, StopLabels, Status
  <1>4. CASE RestartRefresh(t)
    <2> DEFINE r == [thread[t] EXCEPT !.pc = "start_slot", !.local = status]
    <2>1. r \in Thread
      BY DEF Thread, OtherLabels
    <2>2. Enter(t, r)
      BY <1>4 DEF RestartRefresh
    <2> HIDE DEF r
    <2> QED BY <1>4, <2>1, <2>2, EnterThread DEF RestartRefresh
  <1>5. CASE WorkerRelease(t)
    BY <1>5, GotoThread DEF WorkerRelease, OtherLabels
  <1> QED BY <1>1, <1>2, <1>3, <1>4, <1>5 DEF RestartStep

(* in refresh_runtime_states,                                              *)
LEMMA RefreshType ==
  ASSUME TypeOK, NEW t \in Threads, RefreshStep(t)
  PROVE  TypeOK'
  <1> USE LabelsAreLabels DEF TypeOK, procVars, streamVars, restartVars
  <1>1. CASE RefreshProbe(t)
    BY <1>1, GotoThread DEF RefreshProbe, OtherLabels
  <1>2. CASE RefreshUp(t)
    <2> DEFINE verdict == Refreshed(thread[t].local, TRUE, RuntimeReady)
               r == [thread[t] EXCEPT !.local = verdict, !.pc = AfterVerdict(t, verdict)]
    <2>1. verdict \in Status
      BY RefreshedIsStatus DEF Thread, RuntimeReady, IsRunning
    <2>2. r \in Thread
      BY <2>1 DEF Thread, OtherLabels, AfterVerdict
    <2>3. Enter(t, r)
      BY <1>2 DEF RefreshUp
    <2> HIDE DEF r
    <2> QED BY <1>2, <2>2, <2>3, EnterThread DEF RefreshUp
  <1>3. CASE RefreshDown(t)
    <2> DEFINE verdict == Refreshed(thread[t].local, ExternalPids # {}, RuntimeReady)
               r == [thread[t] EXCEPT !.local = verdict, !.pc = "refresh_cleanup",
                                      !.ret = AfterVerdict(t, verdict)]
    <2>1. verdict \in Status
      BY RefreshedIsStatus DEF Thread, RuntimeReady, IsRunning
    <2>2. r \in Thread
      BY <2>1 DEF Thread, OtherLabels, AfterVerdict, ReturnLabels
    <2>3. Enter(t, r)
      BY <1>3 DEF RefreshDown
    <2> HIDE DEF r
    <2> QED BY <1>3, <2>2, <2>3, EnterThread DEF RefreshDown
  <1>4. CASE RefreshCleanup(t)
    <2>1. thread[t].ret \in Labels
      BY DEF Thread
    <2> QED BY <1>4, <2>1, GotoThread DEF RefreshCleanup, DropEntry
  <1>5. CASE RefreshCommit(t)
    BY <1>5, GotoThread DEF RefreshCommit, OtherLabels, Thread
  <1> QED BY <1>1, <1>2, <1>3, <1>4, <1>5 DEF RefreshStep

(* when the manager comes back,                                            *)
LEMMA BootType ==
  ASSUME TypeOK, Boot
  PROVE  TypeOK'
  <1> DEFINE s == BootStatus
             first == CASE s \in ActiveStatuses -> "autostart_kill"
                        [] s \notin ActiveStatuses /\ AutoStart -> "start_slot"
                        [] OTHER -> "idle"
             booted == [IdleThread EXCEPT !.pc = first, !.mode = "autostart", !.local = s]
  <1>1. s \in Status
    <2>1. Normalized(status) \in Status
      BY NormalizedIsStatus DEF TypeOK
    <2> QED BY <2>1, RefreshedIsStatus DEF BootStatus
  <1>2. first \in OtherLabels
    BY DEF OtherLabels
  <1> HIDE DEF s, first
  <1>3. booted \in Thread
    BY <1>1, <1>2, IdleIsThread, LabelsAreLabels DEF Thread, Modes
  <1>4. thread' = [t \in Threads |-> IF t = Autostarter /\ first # "idle" THEN booted ELSE IdleThread]
    BY DEF Boot, first, s
  <1>5. thread' \in [Threads -> Thread]
    BY <1>3, <1>4, IdleIsThread
  <1>6. status' = s
    BY DEF Boot, s
  <1> QED BY <1>1, <1>5, <1>6 DEF Boot, DropEntry, TypeOK, StreamLabels

(* in an output thread,                                                    *)
LEMMA StreamType ==
  ASSUME TypeOK, NEW p \in Procs,
         StreamReady(p) \/ StreamEnds(p) \/ StreamStep(p) \/ ProcessExit(p)
  PROVE  TypeOK'
  <1> USE DEF TypeOK, procVars, streamVars, restartVars, StreamLabels
  <1>1. CASE StreamReady(p)
    BY <1>1 DEF StreamReady
  <1>2. CASE StreamEnds(p)
    BY <1>2 DEF StreamEnds
  <1>3. CASE StreamMarkRunning(p)
    BY <1>3 DEF StreamMarkRunning, Status
  <1>4. CASE StreamCleanup(p)
    BY <1>4 DEF StreamCleanup, DropEntry
  <1>5. CASE StreamLoad(p)
    BY <1>5 DEF StreamLoad
  <1>6. CASE StreamMarkStopped(p)
    BY <1>6 DEF StreamMarkStopped, StatusAfterExit, Status
  <1>7. CASE ProcessExit(p)
    BY <1>7 DEF ProcessExit
  <1> QED BY <1>1, <1>2, <1>3, <1>4, <1>5, <1>6, <1>7 DEF StreamStep

(* in what is left,                                                        *)
LEMMA OtherType ==
  ASSUME TypeOK, NEW t \in Threads,
         \/ \E m \in RequestKinds : Begin(t, m)
         \/ QueueRestart(t) \/ ConsoleStop(t) \/ Shutdown(t)
         \/ AutostartKill(t) \/ AutostartMark(t)
  PROVE  TypeOK'
  <1> USE LabelsAreLabels DEF TypeOK, procVars, streamVars, restartVars
  <1>1. ASSUME NEW m \in RequestKinds, Begin(t, m) PROVE TypeOK'
    <2> DEFINE r == [pc |-> EntryOf(m), ret |-> ReturnOf(m), mode |-> m,
                     local |-> status, target |-> None]
    <2>1. EntryOf(m) \in Labels
      BY <1>1 DEF EntryOf, RequestKinds, StopLabels, OtherLabels, Begin
    <2>2. ReturnOf(m) \in ReturnLabels
      BY DEF ReturnOf, ReturnLabels
    <2>3. r \in Thread
      BY <2>1, <2>2 DEF Thread, Modes
    <2>4. Enter(t, r)
      BY <1>1 DEF Begin
    <2> HIDE DEF r
    <2> QED BY <1>1, <2>3, <2>4, EnterThread DEF Begin
  <1>2. CASE QueueRestart(t)
    <2> DEFINE r == [IdleThread EXCEPT !.pc = "countdown", !.ret = ReturnOf("queue"), !.mode = "queue"]
    <2>1. ReturnOf("queue") \in ReturnLabels
      BY DEF ReturnOf, ReturnLabels
    <2>2. r \in Thread
      BY <2>1, IdleIsThread DEF Thread, Modes, OtherLabels, RequestKinds
    <2>3. Enter(t, r)
      BY <1>2 DEF QueueRestart
    <2> HIDE DEF r
    <2> QED BY <1>2, <2>2, <2>3, EnterThread DEF QueueRestart
  <1>3. CASE ConsoleStop(t)
    BY <1>3, CommitThread DEF ConsoleStop, OtherLabels, Thread, Status
  <1>4. CASE Shutdown(t)
    <2> DEFINE r == [thread[t] EXCEPT !.local = status,
                       !.pc = IF registry = None THEN "shutdown_exit" ELSE "stop_cancel"]
    <2>1. r \in Thread
      BY DEF Thread, StopLabels, OtherLabels
    <2>2. Enter(t, r)
      BY <1>4 DEF Shutdown
    <2> HIDE DEF r
    <2> QED BY <1>4, <2>1, <2>2, EnterThread DEF Shutdown
  <1>5. CASE AutostartKill(t)
    BY <1>5, GotoThread DEF AutostartKill, OtherLabels
  <1>6. CASE AutostartMark(t)
    BY <1>6, CommitThread DEF AutostartMark, DropEntry, OtherLabels, Status
  <1> QED BY <1>1, <1>2, <1>3, <1>4, <1>5, <1>6

(* and so in every step.                                                   *)
LEMMA StepType == TypeOK /\ [Next]_vars => TypeOK'
  <1> SUFFICES ASSUME TypeOK, [Next]_vars PROVE TypeOK'
    OBVIOUS
  <1>1. CASE UNCHANGED vars
    BY <1>1 DEF vars, TypeOK
  <1>2. ASSUME NEW t \in Threads, ShutdownExit(t) PROVE TypeOK'
    BY <1>2, BootType DEF ShutdownExit
  <1>3. CASE ManagerCrash
    BY <1>3, BootType DEF ManagerCrash
  <1>4. CASE Next
    BY <1>2, <1>3, <1>4, StopType, StartType, RestartType, RefreshType, OtherType, StreamType
       DEF Next, ManagerRuns, ManagerEnds, CallStep, ProcessStep
  <1> QED BY <1>1, <1>4

(* The program keeps every variable within its type, however many threads  *)
(* and processes there are and whatever fails.                             *)
THEOREM TypeCorrect == Spec => []TypeOK
  BY InitType, StepType, PTL DEF Spec

-----------------------------------------------------------------------------
(* One process at a time.                                                  *)

ScannedLabels == {"start_mark", "start_prepare", "start_launch"}

(* A thread that ends up outside start_server disturbs nothing, as long as *)
(* no process is added.                                                    *)
LEMMA OutsideKeeps ==
  ASSUME IInv, TypeOK', NEW t \in Threads,
         thread'[t].pc \notin StartLabels,
         \A u \in Threads : u # t => thread'[u] = thread[u],
         startSlot' = startSlot, alive' \subseteq alive
  PROVE  IInv'
  <1>1. SlotExclusive'
    BY DEF IInv, SlotExclusive, InStart
  <1>2. ScanHolds'
    BY DEF IInv, ScanHolds, At, StartLabels
  <1> QED BY <1>1, <1>2 DEF IInv, SingleInstance

(* A step of an output thread or the end of a process moves no thread.     *)
LEMMA StillKeeps ==
  ASSUME IInv, TypeOK', UNCHANGED <<thread, startSlot>>, alive' \subseteq alive
  PROVE  IInv'
  BY DEF IInv, SlotExclusive, ScanHolds, SingleInstance, InStart, At

(* The thread that holds the slot moves on within start_server.            *)
LEMMA InsideKeeps ==
  ASSUME IInv, TypeOK', NEW t \in Threads, InStart(t),
         \A u \in Threads : u # t => thread'[u] = thread[u],
         UNCHANGED <<startSlot, alive>>,
         thread'[t].pc \in StartLabels \ {"start_register"},
         thread'[t].pc \in ScannedLabels => alive = {}
  PROVE  IInv'
  <1>1. SlotExclusive'
    BY DEF IInv, SlotExclusive, InStart
  <1>2. ScanHolds'
    BY DEF IInv, ScanHolds, At, ScannedLabels
  <1> QED BY <1>1, <1>2 DEF IInv, SingleInstance

(* The thread that holds the slot gives it back and leaves.                *)
LEMMA ReleaseKeeps ==
  ASSUME IInv, TypeOK', NEW t \in Threads, InStart(t),
         \A u \in Threads : u # t => thread'[u] = thread[u],
         UNCHANGED alive,
         thread'[t].pc \notin StartLabels
  PROVE  IInv'
  <1>1. \A u \in Threads : thread'[u].pc \notin StartLabels
    BY DEF IInv, SlotExclusive, InStart
  <1>2. SlotExclusive'
    BY <1>1 DEF SlotExclusive, InStart
  <1>3. ScanHolds'
    BY <1>1 DEF ScanHolds, At, StartLabels
  <1> QED BY <1>2, <1>3 DEF IInv, SingleInstance

(* What a step outside start_server does to threads, slot and processes.   *)
Moves(t) ==
  /\ thread'[t].pc \notin StartLabels \cup {"countdown"}
  /\ \A u \in Threads : u # t => thread'[u] = thread[u]
  /\ startSlot' = startSlot
  /\ alive' \subseteq alive

(* No operation returns into start_server or to a countdown.               *)
LEMMA ReturnsAreOutside ==
  /\ ReturnLabels \cap (StartLabels \cup {"countdown"}) = {}
  /\ "countdown" \notin StopLabels
  /\ OtherLabels \cap StartLabels = {}
  /\ StopLabels \cap StartLabels = {}
  BY CallerAssumption DEF ReturnLabels, StartLabels, OtherLabels, StopLabels, OwnLabels

(* No step of stop_server enters start_server or begins a countdown,       *)
LEMMA StopMoves ==
  ASSUME TypeOK, NEW t \in Threads, StopStep(t)
  PROVE  Moves(t)
  <1> USE LabelsAreLabels, ReturnsAreOutside DEF procVars, streamVars, restartVars, Moves
  <1>0. /\ thread \in [Threads -> Thread] /\ status \in Status
        /\ thread[t].ret \in ReturnLabels
    BY DEF TypeOK, Thread
  <1>1. CASE StopCancel(t)
    BY <1>0, <1>1, GotoThread DEF StopCancel, StopLabels
  <1>2. CASE StopLookup(t)
    <2> DEFINE r == [thread[t] EXCEPT !.target = registry,
                                      !.pc = IF registry = None THEN "stop_external"
                                             ELSE IF registry \in alive THEN "stop_mark"
                                             ELSE "stop_cleanup"]
    <2>1. r \in Thread /\ r.pc \in StopLabels
      BY <1>0 DEF Thread, StopLabels, TypeOK
    <2>2. Enter(t, r)
      BY <1>2 DEF StopLookup
    <2> HIDE DEF r
    <2> QED BY <1>0, <1>2, <2>1, <2>2, EnterThread DEF StopLookup
  <1>3. CASE StopExternal(t)
    BY <1>0, <1>3, GotoThread DEF StopExternal, StopLabels
  <1>4. CASE StopMark(t)
    BY <1>0, <1>4, CommitThread DEF StopMark, StopLabels, Status
  <1>5. CASE StopWait(t)
    BY <1>0, <1>5, GotoThread DEF StopWait, StopLabels
  <1>6. CASE StopCleanup(t)
    BY <1>0, <1>6, GotoThread DEF StopCleanup, StopLabels
  <1>7. CASE StopWrite(t)
    BY <1>0, <1>7, CommitThread DEF StopWrite, Status
  <1> QED
    BY <1>1, <1>2, <1>3, <1>4, <1>5, <1>6, <1>7 DEF StopStep

(* Every step of start_server keeps the invariant.                         *)
LEMMA StartKeeps ==
  ASSUME IInv, NEW t \in Threads, StartStep(t)
  PROVE  IInv'
  <1> USE LabelsAreLabels, ReturnsAreOutside DEF procVars, streamVars, restartVars, At
  <1>0. /\ TypeOK'
        /\ thread \in [Threads -> Thread] /\ status \in Status
        /\ StartReturn(t) \in Labels \ StartLabels
        /\ EndOf(thread[t].mode) \in Labels \ StartLabels
    BY StartType, StartReturnIsReturn, EndOfIsLabel DEF IInv, TypeOK, OtherLabels
  <1>1. CASE StartSlot(t)
    <2>1. CASE startSlot
      BY <1>0, <1>1, <2>1, GotoThread, OutsideKeeps DEF StartSlot, SlotTaken
    <2>2. CASE ~startSlot
      <3>1. /\ thread'[t].pc = "start_check" /\ startSlot' /\ UNCHANGED alive
            /\ \A u \in Threads : u # t => thread'[u] = thread[u]
        BY <1>0, <1>1, <2>2, GotoThread DEF StartSlot, SlotTaken, StartLabels
      <3>2. \A u \in Threads : ~InStart(u)
        BY <2>2 DEF IInv, SlotExclusive
      <3>3. SlotExclusive' /\ ScanHolds'
        BY <3>1, <3>2 DEF SlotExclusive, ScanHolds, InStart, StartLabels
      <3> QED BY <1>0, <3>1, <3>3 DEF IInv, SingleInstance
    <2> QED BY <2>1, <2>2
  <1>2. CASE StartCheck(t)
    <2>1. /\ thread'[t].pc \in {"start_release", "start_fail", "start_scan"}
          /\ \A u \in Threads : u # t => thread'[u] = thread[u]
      BY <1>0, <1>2, GotoThread DEF StartCheck, StartLabels
    <2> QED BY <1>0, <1>2, <2>1, InsideKeeps DEF StartCheck, InStart, StartLabels, ScannedLabels
  <1>3. CASE StartScan(t)
    <2>1. /\ thread'[t].pc = IF alive = {} THEN "start_mark" ELSE "start_external"
          /\ \A u \in Threads : u # t => thread'[u] = thread[u]
      BY <1>0, <1>3, GotoThread DEF StartScan, ExternalPids, StartLabels
    <2> QED BY <1>0, <1>3, <2>1, InsideKeeps DEF StartScan, InStart, StartLabels, ScannedLabels
  <1>4. CASE StartExternal(t)
    <2>1. /\ thread'[t].pc = "start_release"
          /\ \A u \in Threads : u # t => thread'[u] = thread[u]
      BY <1>0, <1>4, CommitThread DEF StartExternal, StartLabels, Status
    <2> QED BY <1>0, <1>4, <2>1, InsideKeeps DEF StartExternal, InStart, StartLabels, ScannedLabels
  <1>5. CASE StartMark(t)
    <2>1. /\ thread'[t].pc = "start_prepare"
          /\ \A u \in Threads : u # t => thread'[u] = thread[u]
      BY <1>0, <1>5, CommitThread DEF StartMark, StartLabels, Status
    <2>2. alive = {}
      BY <1>5 DEF StartMark, IInv, ScanHolds
    <2> QED BY <1>0, <1>5, <2>1, <2>2, InsideKeeps DEF StartMark, InStart, StartLabels
  <1>6. CASE StartPrepare(t)
    <2>1. /\ thread'[t].pc \in {"start_launch", "start_fail", "start_release"}
          /\ \A u \in Threads : u # t => thread'[u] = thread[u]
      BY <1>0, <1>6, GotoThread DEF StartPrepare, StartLabels
    <2>2. alive = {}
      BY <1>6 DEF StartPrepare, IInv, ScanHolds
    <2> QED BY <1>0, <1>6, <2>1, <2>2, InsideKeeps DEF StartPrepare, InStart, StartLabels
  <1>7. CASE StartFail(t)
    <2>1. /\ thread'[t].pc = "start_release"
          /\ \A u \in Threads : u # t => thread'[u] = thread[u]
      BY <1>0, <1>7, CommitThread DEF StartFail, StartLabels, Status
    <2> QED BY <1>0, <1>7, <2>1, InsideKeeps DEF StartFail, InStart, StartLabels, ScannedLabels
  <1>8. CASE StartLaunch(t)
    <2>1. alive = {} /\ InStart(t)
      BY <1>8 DEF StartLaunch, IInv, ScanHolds, InStart, StartLabels
    <2>2. ASSUME NEW p \in Procs \ spawned, alive' = alive \cup {p},
                 Enter(t, [thread[t] EXCEPT !.pc = "start_register", !.target = p])
          PROVE  IInv'
      <3> DEFINE r == [thread[t] EXCEPT !.pc = "start_register", !.target = p]
      <3>1. r \in Thread /\ r.pc = "start_register" /\ r.target = p
        BY <1>0 DEF Thread, StartLabels
      <3>2. Enter(t, r)
        BY <2>2
      <3> HIDE DEF r
      <3>3. /\ thread'[t].pc = "start_register" /\ thread'[t].target = p
            /\ \A u \in Threads : u # t => thread'[u] = thread[u]
        BY <1>0, <3>1, <3>2, EnterThread DEF KeepsTarget
      <3>4. alive' = {p} /\ startSlot' = startSlot
        BY <1>8, <2>1, <2>2 DEF StartLaunch
      <3>5. SlotExclusive'
        BY <2>1, <3>3, <3>4 DEF IInv, SlotExclusive, InStart, StartLabels
      <3>6. ScanHolds'
        <4>1. \A u \in Threads : u # t => thread'[u].pc \notin StartLabels
          BY <2>1, <3>3 DEF IInv, SlotExclusive, InStart
        <4> QED BY <3>3, <3>4, <4>1 DEF ScanHolds, StartLabels
      <3> QED BY <1>0, <3>4, <3>5, <3>6 DEF IInv, SingleInstance
    <2>3. CASE Goto(t, "start_fail") /\ UNCHANGED <<spawned, alive>>
      <3>1. /\ thread'[t].pc = "start_fail"
            /\ \A u \in Threads : u # t => thread'[u] = thread[u]
        BY <1>0, <2>3, GotoThread DEF StartLabels
      <3> QED BY <1>0, <1>8, <2>1, <2>3, <3>1, InsideKeeps DEF StartLaunch, StartLabels, ScannedLabels
    <2> QED BY <1>8, <2>2, <2>3 DEF StartLaunch
  <1>9. CASE StartRegister(t)
    <2>1. /\ thread'[t].pc = "start_release"
          /\ \A u \in Threads : u # t => thread'[u] = thread[u]
      BY <1>0, <1>9, GotoThread DEF StartRegister, StartLabels
    <2> QED BY <1>0, <1>9, <2>1, InsideKeeps DEF StartRegister, InStart, StartLabels, ScannedLabels
  <1>10. CASE StartRelease(t)
    BY <1>0, <1>10, GotoThread, ReleaseKeeps DEF StartRelease, InStart, StartLabels
  <1> QED
    BY <1>1, <1>2, <1>3, <1>4, <1>5, <1>6, <1>7, <1>8, <1>9, <1>10 DEF StartStep

(* nor does one of restart_server,                                         *)
LEMMA RestartMoves ==
  ASSUME TypeOK, NEW t \in Threads, RestartStep(t)
  PROVE  Moves(t)
  <1> USE LabelsAreLabels, ReturnsAreOutside DEF procVars, streamVars, restartVars, Moves
  <1>0. /\ thread \in [Threads -> Thread] /\ status \in Status
    BY DEF TypeOK
  <1>1. CASE WorkerStops(t)
    BY <1>0, <1>1, GotoThread DEF WorkerStops, OtherLabels
  <1>2. CASE WorkerProceeds(t)
    <2> DEFINE r == [thread[t] EXCEPT !.pc = "restart_mark", !.local = status]
    <2>1. r \in Thread /\ r.pc \in OtherLabels \ {"countdown"}
      BY <1>0 DEF Thread, OtherLabels
    <2>2. Enter(t, r)
      BY <1>2 DEF WorkerProceeds
    <2> HIDE DEF r
    <2> QED BY <1>0, <1>2, <2>1, <2>2, EnterThread DEF WorkerProceeds
  <1>3. CASE RestartMark(t)
    BY <1>0, <1>3, CommitThread DEF RestartMark, StopLabels, Status
  <1>4. CASE RestartRefresh(t)
    <2> DEFINE r == [thread[t] EXCEPT !.pc = "start_slot", !.local = status]
    <2>1. r \in Thread /\ r.pc \in OtherLabels \ {"countdown"}
      BY <1>0 DEF Thread, OtherLabels
    <2>2. Enter(t, r)
      BY <1>4 DEF RestartRefresh
    <2> HIDE DEF r
    <2> QED BY <1>0, <1>4, <2>1, <2>2, EnterThread DEF RestartRefresh
  <1>5. CASE WorkerRelease(t)
    BY <1>0, <1>5, GotoThread DEF WorkerRelease, OtherLabels
  <1> QED BY <1>1, <1>2, <1>3, <1>4, <1>5 DEF RestartStep

(* of refresh_runtime_states,                                              *)
LEMMA RefreshMoves ==
  ASSUME TypeOK, NEW t \in Threads, RefreshStep(t)
  PROVE  Moves(t)
  <1> USE LabelsAreLabels, ReturnsAreOutside DEF procVars, streamVars, restartVars, Moves
  <1>0. /\ thread \in [Threads -> Thread] /\ status \in Status
        /\ thread[t].ret \in ReturnLabels
    BY DEF TypeOK, Thread
  <1>1. CASE RefreshProbe(t)
    BY <1>0, <1>1, GotoThread DEF RefreshProbe, OtherLabels
  <1>2. CASE RefreshUp(t)
    <2> DEFINE verdict == Refreshed(thread[t].local, TRUE, RuntimeReady)
               r == [thread[t] EXCEPT !.local = verdict, !.pc = AfterVerdict(t, verdict)]
    <2>1. verdict \in Status
      BY <1>0, RefreshedIsStatus DEF Thread, RuntimeReady, IsRunning, TypeOK
    <2>2. r \in Thread /\ r.pc \in OtherLabels \ {"countdown"}
      BY <1>0, <2>1 DEF Thread, OtherLabels, AfterVerdict
    <2>3. Enter(t, r)
      BY <1>2 DEF RefreshUp
    <2> HIDE DEF r
    <2> QED BY <1>0, <1>2, <2>2, <2>3, EnterThread DEF RefreshUp
  <1>3. CASE RefreshDown(t)
    <2> DEFINE verdict == Refreshed(thread[t].local, ExternalPids # {}, RuntimeReady)
               r == [thread[t] EXCEPT !.local = verdict, !.pc = "refresh_cleanup",
                                      !.ret = AfterVerdict(t, verdict)]
    <2>1. verdict \in Status
      BY <1>0, RefreshedIsStatus DEF Thread, RuntimeReady, IsRunning, TypeOK
    <2>2. r \in Thread /\ r.pc \in OtherLabels \ {"countdown"}
      BY <1>0, <2>1 DEF Thread, OtherLabels, AfterVerdict, ReturnLabels
    <2>3. Enter(t, r)
      BY <1>3 DEF RefreshDown
    <2> HIDE DEF r
    <2> QED BY <1>0, <1>3, <2>2, <2>3, EnterThread DEF RefreshDown
  <1>4. CASE RefreshCleanup(t)
    BY <1>0, <1>4, GotoThread DEF RefreshCleanup
  <1>5. CASE RefreshCommit(t)
    BY <1>0, <1>5, GotoThread DEF RefreshCommit, OtherLabels
  <1> QED BY <1>1, <1>2, <1>3, <1>4, <1>5 DEF RefreshStep

(* or of the other requests.                                               *)
LEMMA OtherMoves ==
  ASSUME TypeOK, NEW t \in Threads,
         \/ \E m \in RequestKinds : Begin(t, m)
         \/ ConsoleStop(t) \/ Shutdown(t)
         \/ AutostartKill(t) \/ AutostartMark(t)
  PROVE  Moves(t)
  <1> USE LabelsAreLabels, ReturnsAreOutside DEF procVars, streamVars, restartVars, Moves
  <1>0. /\ thread \in [Threads -> Thread] /\ status \in Status
    BY DEF TypeOK
  <1>1. ASSUME NEW m \in RequestKinds, Begin(t, m)
        PROVE  Moves(t)
    <2> DEFINE r == [pc |-> EntryOf(m), ret |-> ReturnOf(m), mode |-> m,
                     local |-> status, target |-> None]
    <2>1. EntryOf(m) \in (StopLabels \cup OtherLabels) \ {"countdown"}
      BY <1>1 DEF EntryOf, RequestKinds, StopLabels, OtherLabels, Begin
    <2>2. ReturnOf(m) \in ReturnLabels
      BY DEF ReturnOf, ReturnLabels
    <2>3. r \in Thread /\ r.pc \in (StopLabels \cup OtherLabels) \ {"countdown"}
      BY <1>0, <2>1, <2>2 DEF Thread, Modes
    <2>4. Enter(t, r)
      BY <1>1 DEF Begin
    <2> HIDE DEF r
    <2> QED BY <1>0, <1>1, <2>3, <2>4, EnterThread DEF Begin
  <1>3. CASE ConsoleStop(t)
    <2>1. thread[t].local \in Status
      BY <1>0 DEF Thread
    <2> QED BY <1>0, <1>3, <2>1, CommitThread DEF ConsoleStop, OtherLabels, Status
  <1>4. CASE Shutdown(t)
    <2> DEFINE r == [thread[t] EXCEPT !.local = status,
                       !.pc = IF registry = None THEN "shutdown_exit" ELSE "stop_cancel"]
    <2>1. r \in Thread /\ r.pc \in (StopLabels \cup OtherLabels) \ {"countdown"}
      BY <1>0 DEF Thread, StopLabels, OtherLabels
    <2>2. Enter(t, r)
      BY <1>4 DEF Shutdown
    <2> HIDE DEF r
    <2> QED BY <1>0, <1>4, <2>1, <2>2, EnterThread DEF Shutdown
  <1>5. CASE AutostartKill(t)
    BY <1>0, <1>5, GotoThread DEF AutostartKill, OtherLabels
  <1>6. CASE AutostartMark(t)
    BY <1>0, <1>6, CommitThread DEF AutostartMark, OtherLabels, Status
  <1> QED BY <1>1, <1>3, <1>4, <1>5, <1>6

(* A queued restart starts a worker that counts down.                      *)
LEMMA QueueMoves ==
  ASSUME TypeOK, NEW t \in Threads, QueueRestart(t)
  PROVE  /\ thread'[t].pc = "countdown"
         /\ \A u \in Threads : u # t => thread'[u] = thread[u]
         /\ UNCHANGED <<startSlot, alive>>
  <1> DEFINE r == [IdleThread EXCEPT !.pc = "countdown", !.ret = ReturnOf("queue"), !.mode = "queue"]
  <1>1. ReturnOf("queue") \in ReturnLabels
    BY DEF ReturnOf, ReturnLabels
  <1>2. r \in Thread /\ r.pc = "countdown"
    BY <1>1, IdleIsThread, LabelsAreLabels DEF Thread, Modes, OtherLabels, RequestKinds
  <1>3. Enter(t, r)
    BY DEF QueueRestart
  <1> HIDE DEF r
  <1> QED BY <1>2, <1>3, EnterThread DEF QueueRestart, TypeOK, procVars

(* After a boot nobody is in start_server and the slot is free.            *)
LEMMA BootKeeps ==
  ASSUME IInv, Boot
  PROVE  IInv'
  <1>1. TypeOK'
    BY BootType DEF IInv
  <1>2. \A t \in Threads : thread'[t].pc \in OtherLabels
    BY DEF Boot, IdleThread, OtherLabels
  <1>3. \A t \in Threads : thread'[t].pc \notin StartLabels
    BY <1>2, ReturnsAreOutside
  <1>4. SlotExclusive' /\ ScanHolds'
    BY <1>3 DEF SlotExclusive, ScanHolds, InStart, At, StartLabels
  <1> QED BY <1>1, <1>4 DEF Boot, IInv, SingleInstance

(* Every step keeps the invariant.                                         *)
LEMMA StepKeeps == IInv /\ [Next]_vars => IInv'
  <1> SUFFICES ASSUME IInv, [Next]_vars PROVE IInv'
    OBVIOUS
  <1>0. TypeOK'
    BY StepType DEF IInv
  <1>1. CASE UNCHANGED vars
    BY <1>0, <1>1, StillKeeps DEF vars
  <1>2. ASSUME NEW t \in Threads, ShutdownExit(t) PROVE IInv'
    BY <1>2, BootKeeps DEF ShutdownExit
  <1>3. CASE ManagerCrash
    BY <1>3, BootKeeps DEF ManagerCrash
  <1>4. ASSUME NEW p \in Procs, StreamReady(p) \/ StreamEnds(p) \/ StreamStep(p) \/ ProcessExit(p)
        PROVE  IInv'
    BY <1>0, <1>4, StillKeeps
       DEF StreamReady, StreamEnds, StreamStep, StreamMarkRunning, StreamCleanup, StreamLoad,
           StreamMarkStopped, ProcessExit, procVars, streamVars, restartVars
  <1>5. ASSUME NEW t \in Threads,
               \/ StopStep(t) \/ RestartStep(t) \/ RefreshStep(t)
               \/ (\E m \in RequestKinds : Begin(t, m)) \/ ConsoleStop(t) \/ Shutdown(t)
               \/ AutostartKill(t) \/ AutostartMark(t)
        PROVE  IInv'
    <2>1. Moves(t)
      BY <1>5, StopMoves, RestartMoves, RefreshMoves, OtherMoves DEF IInv
    <2> QED BY <1>0, <2>1, OutsideKeeps DEF Moves
  <1>6. ASSUME NEW t \in Threads, QueueRestart(t)
        PROVE  IInv'
    BY <1>0, <1>6, QueueMoves, OutsideKeeps DEF IInv, StartLabels
  <1>7. CASE Next
    BY <1>2, <1>3, <1>4, <1>5, <1>6, <1>7, StartKeeps DEF Next, ManagerRuns, ManagerEnds, CallStep, ProcessStep
  <1> QED BY <1>1, <1>7

(* The invariant holds at the start.                                       *)
LEMMA InitKeeps == Init => IInv
  <1> SUFFICES ASSUME Init PROVE IInv
    OBVIOUS
  <1>1. \A t \in Threads : thread[t].pc = "idle"
    BY DEF Init, IdleThread
  <1>2. SlotExclusive /\ ScanHolds
    BY <1>1 DEF SlotExclusive, ScanHolds, InStart, At, StartLabels
  <1>3. TypeOK
    BY InitType
  <1>4. SingleInstance
    BY DEF Init, SingleInstance
  <1> QED BY <1>2, <1>3, <1>4 DEF IInv

(* The start slot and the scan before the launch, together, keep a second  *)
(* process of the server from ever being started.                          *)
THEOREM Invariant == Spec => []IInv
  BY InitKeeps, StepKeeps, PTL DEF Spec

(* Never two processes of one server (start_server's slot and its scan).   *)
THEOREM OneProcess == Spec => []SingleInstance
  <1>1. IInv => SingleInstance
    BY DEF IInv
  <1> QED BY <1>1, Invariant, PTL

-----------------------------------------------------------------------------
(* The life cycle implements ServerInstance.                               *)

(* The instance that the refinement mapping picks is the one that runs.    *)
LEMMA InstanceOf ==
  ASSUME SingleInstance
  PROVE  /\ alive = {} => Instance = None
         /\ \A p \in alive : Instance = p /\ alive = {p}
  BY DEF SingleInstance, Instance

(* Only start_server adds a process; what else happens to the set of       *)
(* running processes is that one ends.                                     *)
LEMMA OnlyLaunchAdds ==
  ASSUME [Next]_vars
  PROVE  \/ alive' \subseteq alive /\ spawned' = spawned
         \/ \E t \in Threads : StartLaunch(t)
  <1> USE DEF procVars, streamVars, restartVars
  <1>1. CASE UNCHANGED vars
    BY <1>1 DEF vars
  <1>2. ASSUME NEW t \in Threads, CallStep(t) \/ ShutdownExit(t), ~StartLaunch(t)
        PROVE  alive' \subseteq alive /\ spawned' = spawned
    <2>1. CASE StopStep(t)
      BY <2>1 DEF StopStep, StopCancel, StopLookup, StopExternal, StopMark, StopWait,
                  StopCleanup, StopWrite
    <2>2. CASE StartStep(t)
      BY <1>2, <2>2 DEF StartStep, StartSlot, StartCheck, StartScan, StartExternal, StartMark,
                  StartPrepare, StartFail, StartRegister, StartRelease
    <2>3. CASE RestartStep(t)
      BY <2>3 DEF RestartStep, WorkerStops, WorkerProceeds, RestartMark, RestartRefresh,
                  WorkerRelease
    <2>4. CASE RefreshStep(t)
      BY <2>4 DEF RefreshStep, RefreshProbe, RefreshUp, RefreshDown, RefreshCleanup,
                  RefreshCommit
    <2>5. CASE ConsoleStop(t) \/ Shutdown(t) \/ ShutdownExit(t) \/ AutostartKill(t) \/ AutostartMark(t)
      BY <2>5 DEF ConsoleStop, Shutdown, ShutdownExit, Boot, AutostartKill, AutostartMark
    <2> QED BY <1>2, <2>1, <2>2, <2>3, <2>4, <2>5 DEF CallStep
  <1>3. ASSUME NEW t \in Threads, (\E m \in RequestKinds : Begin(t, m)) \/ QueueRestart(t)
        PROVE  alive' \subseteq alive /\ spawned' = spawned
    BY <1>3 DEF Begin, QueueRestart
  <1>4. ASSUME NEW p \in Procs, StreamReady(p) \/ StreamEnds(p) \/ StreamStep(p) \/ ProcessExit(p)
        PROVE  alive' \subseteq alive /\ spawned' = spawned
    BY <1>4 DEF StreamReady, StreamEnds, StreamStep, StreamMarkRunning, StreamCleanup,
                StreamLoad, StreamMarkStopped, ProcessExit
  <1>5. CASE ManagerCrash
    BY <1>5 DEF ManagerCrash, Boot
  <1>6. CASE Next
    BY <1>2, <1>3, <1>4, <1>5, <1>6 DEF Next, ManagerRuns, ManagerEnds, ProcessStep
  <1> QED BY <1>1, <1>6

(* Every step is a start of a new process when none runs, the end of the   *)
(* one that runs, or nothing.                                              *)
LEMMA StepImplements ==
  ASSUME IInv, IInv', [Next]_vars
  PROVE  Abstract!Next \/ UNCHANGED <<Instance, spawned>>
  <1>1. SingleInstance /\ SingleInstance' /\ None \notin Procs /\ alive \subseteq Procs
    BY LifecycleAssumption DEF IInv, TypeOK
  <1>2. CASE alive' \subseteq alive /\ spawned' = spawned
    <2>1. CASE alive' = alive
      BY <1>2, <2>1 DEF Instance
    <2>2. CASE alive' # alive
      <3>1. PICK p \in alive : p \notin alive'
        BY <1>2, <2>2
      <3>2. Instance = p /\ alive = {p} /\ p \in Procs
        BY <1>1, <3>1, InstanceOf
      <3>3. Instance' = None
        BY <1>2, <3>1, <3>2 DEF Instance
      <3> QED BY <1>1, <1>2, <3>2, <3>3 DEF Abstract!Next, Abstract!End
    <2> QED BY <2>1, <2>2
  <1>3. ASSUME NEW t \in Threads, StartLaunch(t)
        PROVE  Abstract!Next \/ UNCHANGED <<Instance, spawned>>
    <2>1. alive = {}
      BY <1>3 DEF StartLaunch, IInv, ScanHolds, At
    <2>2. ASSUME NEW p \in Procs \ spawned, spawned' = spawned \cup {p}, alive' = alive \cup {p}
          PROVE  Abstract!Next
      <3>1. Instance = None /\ Instance' = p
        BY <2>1, <2>2 DEF Instance
      <3> QED BY <2>2, <3>1 DEF Abstract!Next, Abstract!Start
    <2>3. CASE UNCHANGED <<spawned, alive>>
      BY <2>3 DEF Instance
    <2> QED BY <1>3, <2>2, <2>3 DEF StartLaunch
  <1> QED BY <1>2, <1>3, OnlyLaunchAdds

(* What process_service does about the processes of a server is what       *)
(* ServerInstance promises.                                                *)
THEOREM Implementation == Spec => ImplementsInstance
  <1>1. Init => Abstract!Init
    BY DEF Init, Abstract!Init, Instance
  <1>2. IInv /\ IInv' /\ [Next]_vars => [Abstract!Next]_<<Instance, spawned>>
    BY StepImplements
  <1> QED BY <1>1, <1>2, Invariant, PTL DEF Spec, ImplementsInstance, Abstract!Spec

-----------------------------------------------------------------------------
(* The registry and the output threads.                                    *)

(* A registered process has an output thread that takes it out again.      *)
THEOREM Watched == Spec => []RegisteredIsWatched
  <1> DEFINE Inv == TypeOK /\ RegisteredIsWatched
  <1>1. Init => Inv
    BY InitType DEF Init, RegisteredIsWatched
  <1>2. Inv /\ [Next]_vars => Inv'
    <2> SUFFICES ASSUME TypeOK, RegisteredIsWatched, [Next]_vars
                 PROVE  RegisteredIsWatched'
      BY StepType
    <2> USE DEF procVars, streamVars, restartVars
    <2>1. CASE UNCHANGED <<registry, stream>>
      BY <2>1 DEF RegisteredIsWatched
    <2>2. CASE registry' = None
      BY <2>2 DEF RegisteredIsWatched
    <2>3. ASSUME NEW t \in Threads, CallStep(t) \/ ShutdownExit(t)
          PROVE  RegisteredIsWatched'
      <3>1. CASE StartRegister(t)
        BY <3>1 DEF StartRegister, RegisteredIsWatched, TypeOK, Thread
      <3>2. CASE StopStep(t)
        BY <2>1, <2>2, <3>2 DEF StopStep, StopCancel, StopLookup, StopExternal, StopMark,
                                StopWait, StopCleanup, StopWrite, DropEntry
      <3>3. CASE StartStep(t) /\ ~StartRegister(t)
        BY <2>1, <3>3 DEF StartStep, StartSlot, StartCheck, StartScan, StartExternal, StartMark,
                          StartPrepare, StartFail, StartLaunch, StartRelease
      <3>4. CASE RestartStep(t)
        BY <2>1, <3>4 DEF RestartStep, WorkerStops, WorkerProceeds, RestartMark, RestartRefresh,
                          WorkerRelease
      <3>5. CASE RefreshStep(t)
        BY <2>1, <2>2, <3>5 DEF RefreshStep, RefreshProbe, RefreshUp, RefreshDown,
                                RefreshCleanup, RefreshCommit, DropEntry
      <3>6. CASE ConsoleStop(t) \/ Shutdown(t) \/ ShutdownExit(t) \/ AutostartKill(t) \/ AutostartMark(t)
        BY <2>1, <2>2, <3>6 DEF ConsoleStop, Shutdown, ShutdownExit, Boot, AutostartKill,
                                AutostartMark, DropEntry
      <3> QED BY <2>3, <3>1, <3>2, <3>3, <3>4, <3>5, <3>6 DEF CallStep
    <2>4. ASSUME NEW t \in Threads, (\E m \in RequestKinds : Begin(t, m)) \/ QueueRestart(t)
          PROVE  RegisteredIsWatched'
      BY <2>1, <2>4 DEF Begin, QueueRestart
    <2>5. ASSUME NEW p \in Procs, StreamReady(p) \/ StreamEnds(p) \/ StreamStep(p) \/ ProcessExit(p)
          PROVE  RegisteredIsWatched'
      BY <2>2, <2>5 DEF StreamReady, StreamEnds, StreamStep, StreamMarkRunning, StreamCleanup,
                  StreamLoad, StreamMarkStopped, ProcessExit, DropEntry, Removes,
                  RegisteredIsWatched, TypeOK
    <2>6. CASE ManagerCrash
      BY <2>2, <2>6 DEF ManagerCrash, Boot, DropEntry
    <2>7. CASE UNCHANGED vars
      BY <2>1, <2>7 DEF vars
    <2> QED BY <2>3, <2>4, <2>5, <2>6, <2>7 DEF Next, ManagerRuns, ManagerEnds, ProcessStep
  <1>3. Inv => RegisteredIsWatched
    OBVIOUS
  <1> QED BY <1>1, <1>2, <1>3, PTL DEF Spec

-----------------------------------------------------------------------------
(* Queued restarts.                                                        *)

(* Within start_server nobody counts down and no token changes hands.      *)
LEMMA StartLeavesTokens ==
  ASSUME TypeOK, NEW t \in Threads, StartStep(t)
  PROVE  /\ thread'[t].pc # "countdown"
         /\ \A u \in Threads : u # t => thread'[u] = thread[u]
         /\ UNCHANGED <<pending, cancelled>>
  <1> USE LabelsAreLabels, ReturnsAreOutside DEF procVars, streamVars, restartVars
  <1>0. /\ thread \in [Threads -> Thread] /\ status \in Status
        /\ StartReturn(t) \in Labels \ {"countdown"}
        /\ EndOf(thread[t].mode) \in Labels \ {"countdown"}
    BY StartReturnIsReturn, EndOfIsLabel DEF TypeOK, OtherLabels
  <1>1. CASE StartSlot(t)
    BY <1>0, <1>1, GotoThread DEF StartSlot, StartLabels
  <1>2. CASE StartCheck(t) \/ StartScan(t) \/ StartPrepare(t) \/ StartRegister(t)
    BY <1>0, <1>2, GotoThread DEF StartCheck, StartScan, StartPrepare, StartRegister, StartLabels
  <1>3. CASE StartExternal(t) \/ StartMark(t) \/ StartFail(t)
    BY <1>0, <1>3, CommitThread DEF StartExternal, StartMark, StartFail, StartLabels, Status
  <1>4. CASE StartLaunch(t)
    <2>1. ASSUME NEW p \in Procs,
                 Enter(t, [thread[t] EXCEPT !.pc = "start_register", !.target = p])
          PROVE  /\ thread'[t].pc # "countdown"
                 /\ \A u \in Threads : u # t => thread'[u] = thread[u]
      <3> DEFINE r == [thread[t] EXCEPT !.pc = "start_register", !.target = p]
      <3>1. r \in Thread /\ r.pc = "start_register"
        BY <1>0 DEF Thread, StartLabels
      <3>2. Enter(t, r)
        BY <2>1
      <3> HIDE DEF r
      <3> QED BY <1>0, <3>1, <3>2, EnterThread
    <2> QED BY <1>0, <1>4, <2>1, GotoThread DEF StartLaunch, StartLabels
  <1>5. CASE StartRelease(t)
    BY <1>0, <1>5, GotoThread DEF StartRelease
  <1> QED BY <1>1, <1>2, <1>3, <1>4, <1>5 DEF StartStep

(* A countdown that lost the pending slot has been cancelled.              *)
THEOREM Countdowns == Spec => []OneLiveCountdown
  <1> DEFINE Inv == TypeOK /\ OneLiveCountdown
  <1>1. Init => Inv
    BY InitType DEF Init, OneLiveCountdown, At, IdleThread
  <1>2. Inv /\ [Next]_vars => Inv'
    <2> SUFFICES ASSUME TypeOK, OneLiveCountdown, [Next]_vars
                 PROVE  OneLiveCountdown'
      BY StepType
    <2> USE DEF OneLiveCountdown, At, procVars, streamVars, restartVars
    <2>1. ASSUME UNCHANGED <<thread, pending, cancelled>>
          PROVE  OneLiveCountdown'
      BY <2>1
    <2>2. ASSUME NEW t \in Threads, Moves(t), UNCHANGED <<pending, cancelled>>
          PROVE  OneLiveCountdown'
      BY <2>2 DEF Moves
    <2>3. ASSUME NEW t \in Threads, StopCancel(t) PROVE OneLiveCountdown'
      <3>1. Moves(t)
        BY <2>3, StopMoves DEF StopStep
      <3> QED BY <2>3, <3>1 DEF Moves, StopCancel, TypeOK
    <2>4. ASSUME NEW t \in Threads, WorkerRelease(t) PROVE OneLiveCountdown'
      <3>1. Moves(t)
        BY <2>4, RestartMoves DEF RestartStep
      <3> QED BY <2>4, <3>1 DEF Moves, WorkerRelease, TypeOK
    <2>5. ASSUME NEW t \in Threads, QueueRestart(t) PROVE OneLiveCountdown'
      <3>1. pending = None /\ pending' = t /\ cancelled' = cancelled
        BY <2>5 DEF QueueRestart, RestartSlotFree
      <3> QED BY <2>5, <3>1, QueueMoves, LifecycleAssumption
    <2>6. ASSUME NEW t \in Threads, StartStep(t) PROVE OneLiveCountdown'
      BY <2>6, StartLeavesTokens
    <2>7. ASSUME NEW t \in Threads, StopStep(t), ~StopCancel(t) PROVE OneLiveCountdown'
      <3>1. UNCHANGED <<pending, cancelled>>
        BY <2>7 DEF StopStep, StopLookup, StopExternal, StopMark, StopWait, StopCleanup, StopWrite
      <3> QED BY <2>2, <2>7, <3>1, StopMoves
    <2>8. ASSUME NEW t \in Threads, RestartStep(t), ~WorkerRelease(t) PROVE OneLiveCountdown'
      <3>1. UNCHANGED <<pending, cancelled>>
        BY <2>8 DEF RestartStep, WorkerStops, WorkerProceeds, RestartMark, RestartRefresh
      <3> QED BY <2>2, <2>8, <3>1, RestartMoves
    <2>9. ASSUME NEW t \in Threads, RefreshStep(t) PROVE OneLiveCountdown'
      <3>1. UNCHANGED <<pending, cancelled>>
        BY <2>9 DEF RefreshStep, RefreshProbe, RefreshUp, RefreshDown, RefreshCleanup, RefreshCommit
      <3> QED BY <2>2, <2>9, <3>1, RefreshMoves
    <2>10. ASSUME NEW t \in Threads,
                  \/ (\E m \in RequestKinds : Begin(t, m)) \/ ConsoleStop(t) \/ Shutdown(t)
                  \/ AutostartKill(t) \/ AutostartMark(t)
           PROVE  OneLiveCountdown'
      <3>1. UNCHANGED <<pending, cancelled>>
        BY <2>10 DEF Begin, ConsoleStop, Shutdown, AutostartKill, AutostartMark
      <3> QED BY <2>2, <2>10, <3>1, OtherMoves
    <2>11. ASSUME Boot PROVE OneLiveCountdown'
      BY <2>11 DEF Boot, IdleThread
    <2>12. ASSUME NEW p \in Procs, StreamReady(p) \/ StreamEnds(p) \/ StreamStep(p) \/ ProcessExit(p)
           PROVE  OneLiveCountdown'
      BY <2>1, <2>12 DEF StreamReady, StreamEnds, StreamStep, StreamMarkRunning, StreamCleanup,
                         StreamLoad, StreamMarkStopped, ProcessExit
    <2>13. CASE UNCHANGED vars
      BY <2>1, <2>13 DEF vars
    <2>14. CASE Next
      BY <2>3, <2>4, <2>5, <2>6, <2>7, <2>8, <2>9, <2>10, <2>11, <2>12, <2>14
         DEF Next, ManagerRuns, ManagerEnds, CallStep, ProcessStep, ShutdownExit,
            ManagerCrash
    <2> QED BY <2>13, <2>14
  <1>3. Inv => OneLiveCountdown
    OBVIOUS
  <1> QED BY <1>1, <1>2, <1>3, PTL DEF Spec
=============================================================================
