-------------------------- MODULE ServerLifecycle --------------------------
(***************************************************************************)
(* The life cycle of ONE managed Minecraft server, as process_service runs *)
(* it: any number of threads (web requests, restart workers, the autostart *)
(* worker, page views that refresh the status) and one output thread per   *)
(* process share the process registry, the start slot, the pending-restart *)
(* token and the status column of the database.  Each action is one access *)
(* to that shared state: what the code does under one lock, one commit of  *)
(* a session, one look at the processes of the operating system.           *)
(*                                                                         *)
(* Servers share nothing but the locks, so one server is enough.           *)
(***************************************************************************)
EXTENDS Naturals, FiniteSets

CONSTANTS
  Threads,       (* threads that run requests or workers for this server    *)
  Autostarter,   (* the one of them that runs the autostart worker          *)
  Procs,         (* the Popen objects that may ever be created (bound)      *)
  None,          (* no process, no token, no verdict                        *)
  Requests,      (* the requests that arrive, a subset of RequestKinds      *)
  Faults,        (* what may go wrong, a subset of FaultKinds               *)
  AutoStart,     (* servers.auto_start_with_manager                         *)
  CallerLabels   (* program points of the modules that call this one        *)

RequestKinds == {"start", "stop", "restart", "queue", "console", "refresh", "shutdown"}
FaultKinds == {"prepare", "duplication", "log_dir", "stream_io", "manager_crash"}

ASSUME LifecycleAssumption ==
  /\ None \notin Procs \cup Threads
  /\ Autostarter \in Threads
  /\ Requests \subseteq RequestKinds
  /\ Faults \subseteq FaultKinds
  /\ AutoStart \in BOOLEAN

-----------------------------------------------------------------------------
VARIABLES
  status,      (* servers.status, the committed column                      *)
  registry,    (* _PROCESS_REGISTRY[server_id].process, or None             *)
  ready,       (* ManagedProcess.ready of that entry                        *)
  alive,       (* processes of this server the operating system runs        *)
  spawned,     (* Popen objects created so far                              *)
  stream,      (* where the output thread of each process is                *)
  seen,        (* the status that output thread's own session loaded        *)
  startSlot,   (* server_id \in _START_SLOTS                                *)
  pending,     (* the worker whose token is in _PENDING_RESTARTS, or None   *)
  cancelled,   (* workers whose token is set                                *)
  thread       (* what each thread is doing, see Thread                     *)

procVars    == <<registry, ready, alive, spawned>>
streamVars  == <<stream, seen>>
restartVars == <<pending, cancelled>>
vars == <<status, registry, ready, alive, spawned, stream, seen, startSlot,
          pending, cancelled, thread>>

Status == {"stopped", "starting", "running", "stopping", "restarting",
           "crashed", "error", "provisioning", "backup_running"}

ActiveStatuses == {"running", "starting", "restarting", "stopping"}
BlockedStatuses == {"starting", "provisioning", "backup_running"}

Modes == RequestKinds \cup {"idle", "autostart", "caller"}

StopLabels  == {"stop_cancel", "stop_lookup", "stop_external", "stop_mark",
                "stop_wait", "stop_cleanup", "stop_write"}
StartLabels == {"start_check", "start_scan", "start_external", "start_mark",
                "start_prepare", "start_fail", "start_launch", "start_register",
                "start_release"}
OtherLabels == {"idle", "start_slot", "restart_mark", "restart_refresh",
                "countdown", "worker_release", "console", "shutdown", "shutdown_exit",
                "autostart_kill", "autostart_mark",
                "refresh_probe", "refresh_up", "refresh_down",
                "refresh_cleanup", "refresh_commit"}
OwnLabels == StopLabels \cup StartLabels \cup OtherLabels
Labels == OwnLabels \cup CallerLabels
ReturnLabels == {"idle", "restart_refresh", "shutdown_exit", "refresh_commit"} \cup CallerLabels

ASSUME CallerAssumption == CallerLabels \cap OwnLabels = {}

Thread == [
  pc     : Labels,               (* where it is                              *)
  ret    : ReturnLabels,         (* where the call it is in returns to       *)
  mode   : Modes,                (* what it was asked to do                  *)
  local  : Status,               (* server.status in its session, which does *)
                                 (* not expire on commit and may be stale    *)
  target : Procs \cup {None}]    (* its local variable `process`             *)

IdleThread == [pc |-> "idle", ret |-> "idle", mode |-> "idle",
               local |-> "stopped", target |-> None]

StreamLabels == {"none", "reading", "marking", "eof", "exited", "loaded", "done"}

TypeOK ==
  /\ status \in Status
  /\ registry \in Procs \cup {None}
  /\ ready \in BOOLEAN
  /\ alive \subseteq spawned
  /\ spawned \subseteq Procs
  /\ stream \in [Procs -> StreamLabels]
  /\ seen \in [Procs -> Status \cup {None}]
  /\ startSlot \in BOOLEAN
  /\ pending \in Threads \cup {None}
  /\ cancelled \subseteq Threads
  /\ thread \in [Threads -> Thread]

Init ==
  /\ status = "stopped"
  /\ registry = None
  /\ ready = FALSE
  /\ alive = {}
  /\ spawned = {}
  /\ stream = [p \in Procs |-> "none"]
  /\ seen = [p \in Procs |-> None]
  /\ startSlot = FALSE
  /\ pending = None
  /\ cancelled = {}
  /\ thread = [t \in Threads |-> IdleThread]

-----------------------------------------------------------------------------
(* Helpers.                                                                *)

IsRunning == registry # None /\ registry \in alive

(* _PROCESS_REGISTRY.pop: the entry goes, and with it its ready flag.      *)
DropEntry == registry' = None /\ ready' = FALSE

At(t, label) == thread[t].pc = label

(* Thread t goes on with state r, of which it keeps what it still reads:   *)
(* a process until it is waited for or registered, a loaded status until   *)
(* it is loaded again or the last commit is done.                          *)
KeepsTarget == {"stop_mark", "stop_wait", "start_register"} \cup CallerLabels
LosesLocal == {"countdown", "worker_release", "restart_refresh", "shutdown",
               "shutdown_exit", "start_register"}

Kept(r) ==
  IF r.pc = "idle" THEN IdleThread
  ELSE [r EXCEPT
          !.target = IF r.pc \in KeepsTarget THEN @ ELSE None,
          !.local = IF r.pc \in LosesLocal \/ (r.pc = "start_release" /\ r.mode # "caller")
                    THEN IdleThread.local ELSE @]

Enter(t, r) == thread' = [thread EXCEPT ![t] = Kept(r)]

Goto(t, label) == Enter(t, [thread[t] EXCEPT !.pc = label])

(* A session writes a column only if the value it holds changes: assigning *)
(* the value it already has emits no UPDATE, whatever the table says now.  *)
Commit(t, s, label) ==
  /\ status' = IF thread[t].local = s THEN status ELSE s
  /\ Enter(t, [thread[t] EXCEPT !.pc = label, !.local = s])

ForRestart(t) == thread[t].mode \in {"restart", "queue", "shutdown"}
AllowRestarting(t) == thread[t].mode \in {"restart", "queue"}

(* Where a thread ends: a restart worker still has to release its token.   *)
EndOf(m) == IF m = "queue" THEN "worker_release" ELSE "idle"

-----------------------------------------------------------------------------
(* Requests arrive.  The handler loads the server, then calls the service. *)

EntryOf(m) ==
  CASE m = "start"    -> "start_slot"
    [] m = "stop"     -> "stop_cancel"
    [] m = "restart"  -> "restart_mark"
    [] m = "queue"    -> "countdown"
    [] m = "console"  -> "console"
    [] m = "refresh"  -> "refresh_probe"
    [] m = "shutdown" -> "shutdown"

ReturnOf(m) ==
  CASE m \in {"restart", "queue"} -> "restart_refresh"
    [] m = "shutdown" -> "shutdown_exit"
    [] OTHER -> "idle"

(* A request of kind m reaches thread t.                                   *)
Begin(t, m) ==
  /\ At(t, "idle")
  /\ m \in Requests \ {"queue"}
  /\ Enter(t, [pc |-> EntryOf(m), ret |-> ReturnOf(m), mode |-> m,
               local |-> status, target |-> None])
  /\ UNCHANGED <<status, procVars, streamVars, startSlot, restartVars>>

(* queue_restart: refused while a restart is pending, else a worker thread *)
(* starts with the token.  The caller (a request, the schedule, a console  *)
(* command or the output thread that read "/restart") returns at once.     *)
RestartSlotIgnored == TRUE
RestartSlotFree == pending = None

QueueRestart(t) ==
  /\ "queue" \in Requests
  /\ At(t, "idle")
  /\ RestartSlotFree
  /\ pending' = t
  /\ Enter(t, [IdleThread EXCEPT !.pc = "countdown", !.ret = ReturnOf("queue"),
                                !.mode = "queue"])
  /\ UNCHANGED <<status, procVars, streamVars, startSlot, cancelled>>

-----------------------------------------------------------------------------
(* stop_server                                                             *)

StopCancelUnguarded(t) ==
  /\ At(t, "stop_cancel")
  /\ pending' = None
  /\ cancelled' = cancelled \cup {pending}
  /\ Goto(t, "stop_lookup")
  /\ UNCHANGED <<status, procVars, streamVars, startSlot>>

StopCancel(t) ==
  /\ At(t, "stop_cancel")
  /\ pending' = None
  /\ cancelled' = cancelled \cup ({pending} \ {None})
  /\ Goto(t, "stop_lookup")
  /\ UNCHANGED <<status, procVars, streamVars, startSlot>>

StopLookup(t) ==
  /\ At(t, "stop_lookup")
  /\ Enter(t, [thread[t] EXCEPT !.target = registry,
                                !.pc = IF registry = None THEN "stop_external"
                                       ELSE IF registry \in alive THEN "stop_mark"
                                       ELSE "stop_cleanup"])
  /\ UNCHANGED <<status, procVars, streamVars, startSlot, restartVars>>

(* Nothing is registered: every process found under the server's folder is *)
(* ended (terminate_processes_for_server_path).                            *)
StopExternal(t) ==
  /\ At(t, "stop_external")
  /\ alive' = {}
  /\ Goto(t, "stop_write")
  /\ UNCHANGED <<status, registry, ready, spawned, streamVars, startSlot, restartVars>>

StopMark(t) ==
  /\ At(t, "stop_mark")
  /\ Commit(t, IF ForRestart(t) THEN "restarting" ELSE "stopping", "stop_wait")
  /\ UNCHANGED <<procVars, streamVars, startSlot, restartVars>>

(* "stop" on stdin, a bounded wait, then terminate and kill: either way    *)
(* the process is gone when the thread goes on.                            *)
StopWait(t) ==
  /\ At(t, "stop_wait")
  /\ alive' = alive \ {thread[t].target}
  /\ Goto(t, "stop_cleanup")
  /\ UNCHANGED <<status, registry, ready, spawned, streamVars, startSlot, restartVars>>

(* _cleanup_process_registry without expected_process.                     *)
StopCleanup(t) ==
  /\ At(t, "stop_cleanup")
  /\ DropEntry
  /\ Goto(t, "stop_write")
  /\ UNCHANGED <<status, alive, spawned, streamVars, startSlot, restartVars>>

StopWrite(t) ==
  /\ At(t, "stop_write")
  /\ Commit(t, IF ForRestart(t) THEN "restarting" ELSE "stopped", thread[t].ret)
  /\ UNCHANGED <<procVars, streamVars, startSlot, restartVars>>

-----------------------------------------------------------------------------
(* start_server                                                            *)

(* Where start_server returns to: it is the last call of every request     *)
(* but a caller module's.                                                  *)
StartReturn(t) == IF thread[t].mode = "caller" THEN thread[t].ret ELSE EndOf(thread[t].mode)

SlotNeverTaken == FALSE
SlotTaken == startSlot

StartSlot(t) ==
  /\ At(t, "start_slot")
  /\ startSlot' = TRUE
  /\ Goto(t, IF SlotTaken THEN StartReturn(t) ELSE "start_check")
  /\ UNCHANGED <<status, procVars, streamVars, restartVars>>

(* Refused: already running, or the session's status says that another     *)
(* start or a maintenance is under way.                                    *)
StartRefused(t) ==
  \/ IsRunning
  \/ thread[t].local \in BlockedStatuses
  \/ thread[t].local = "restarting" /\ ~AllowRestarting(t)

(* The start may also find the folder being duplicated (refused) or gone   *)
(* (an error).                                                             *)
StartCheck(t) ==
  /\ At(t, "start_check")
  /\ \/ StartRefused(t) /\ Goto(t, "start_release")
     \/ "duplication" \in Faults /\ Goto(t, "start_release")
     \/ ~StartRefused(t) /\ "prepare" \in Faults /\ Goto(t, "start_fail")
     \/ ~StartRefused(t) /\ Goto(t, "start_scan")
  /\ UNCHANGED <<status, procVars, streamVars, startSlot, restartVars>>

(* find_process_ids_for_server_path                                        *)
ExternalPidsMissed == {}
ExternalPids == alive

StartScan(t) ==
  /\ At(t, "start_scan")
  /\ Goto(t, IF ExternalPids = {} THEN "start_mark" ELSE "start_external")
  /\ UNCHANGED <<status, procVars, streamVars, startSlot, restartVars>>

(* A process runs outside the registry: the status says so, no start.      *)
StartExternal(t) ==
  /\ At(t, "start_external")
  /\ Commit(t, "running", "start_release")
  /\ UNCHANGED <<procVars, streamVars, startSlot, restartVars>>

StartMark(t) ==
  /\ At(t, "start_mark")
  /\ Commit(t, "starting", "start_prepare")
  /\ UNCHANGED <<procVars, streamVars, startSlot, restartVars>>

(* Modpack installation, Java, loader, BuildTools, ports, forwarding,      *)
(* access lists, the start command: any of the first four and the last may *)
(* fail, which the status records.  When the folder of the session log     *)
(* cannot be created, the exception leaves by the finally clause.          *)
StartPrepare(t) ==
  /\ At(t, "start_prepare")
  /\ \/ Goto(t, "start_launch")
     \/ "prepare" \in Faults /\ Goto(t, "start_fail")
     \/ "log_dir" \in Faults /\ Goto(t, "start_release")
  /\ UNCHANGED <<status, procVars, streamVars, startSlot, restartVars>>

StartFail(t) ==
  /\ At(t, "start_fail")
  /\ Commit(t, "error", "start_release")
  /\ UNCHANGED <<procVars, streamVars, startSlot, restartVars>>

(* Popen: a new process, or an exception the code turns into an error.     *)
StartLaunch(t) ==
  /\ At(t, "start_launch")
  /\ \/ \E p \in Procs \ spawned :
          /\ spawned' = spawned \cup {p}
          /\ alive' = alive \cup {p}
          /\ Enter(t, [thread[t] EXCEPT !.pc = "start_register", !.target = p])
     \/ /\ Goto(t, "start_fail")
        /\ UNCHANGED <<spawned, alive>>
  /\ UNCHANGED <<status, registry, ready, streamVars, startSlot, restartVars>>

(* The process enters the registry and its output thread starts.           *)
StartRegister(t) ==
  /\ At(t, "start_register")
  /\ registry' = thread[t].target
  /\ ready' = FALSE
  /\ stream' = [stream EXCEPT ![thread[t].target] = "reading"]
  /\ Goto(t, "start_release")
  /\ UNCHANGED <<status, alive, spawned, seen, startSlot, restartVars>>

(* The finally clause, which an exception reaches too.                     *)
StartRelease(t) ==
  /\ At(t, "start_release")
  /\ startSlot' = FALSE
  /\ Goto(t, StartReturn(t))
  /\ UNCHANGED <<status, procVars, streamVars, restartVars>>

-----------------------------------------------------------------------------
(* restart_server and its worker                                           *)

(* The worker looks at its token once a second and once more at the end.   *)
WorkerStops(t) ==
  /\ At(t, "countdown")
  /\ t \in cancelled
  /\ Goto(t, "worker_release")
  /\ UNCHANGED <<status, procVars, streamVars, startSlot, restartVars>>

WorkerProceeds(t) ==
  /\ At(t, "countdown")
  /\ t \notin cancelled
  /\ Enter(t, [thread[t] EXCEPT !.pc = "restart_mark", !.local = status])
  /\ UNCHANGED <<status, procVars, streamVars, startSlot, restartVars>>

RestartMark(t) ==
  /\ At(t, "restart_mark")
  /\ Commit(t, "restarting", "stop_cancel")
  /\ UNCHANGED <<procVars, streamVars, startSlot, restartVars>>

(* db.refresh(server) between the stop and the start.                      *)
RestartRefresh(t) ==
  /\ At(t, "restart_refresh")
  /\ Enter(t, [thread[t] EXCEPT !.pc = "start_slot", !.local = status])
  /\ UNCHANGED <<status, procVars, streamVars, startSlot, restartVars>>

(* _release_restart_slot: only the worker's own token is taken out.        *)
WorkerRelease(t) ==
  /\ At(t, "worker_release")
  /\ pending' = IF pending = t THEN None ELSE pending
  /\ cancelled' = cancelled \ {t}
  /\ Goto(t, "idle")
  /\ UNCHANGED <<status, procVars, streamVars, startSlot>>

-----------------------------------------------------------------------------
(* send_console_command("stop"): the status is set if the session believes *)
(* the server runs; the process, if there is one, then ends by itself.     *)
ConsoleStop(t) ==
  /\ At(t, "console")
  /\ Commit(t, IF thread[t].local = "running" THEN "stopping" ELSE thread[t].local, "idle")
  /\ UNCHANGED <<procVars, streamVars, startSlot, restartVars>>

-----------------------------------------------------------------------------
(* refresh_runtime_states, on every page that lists servers                *)

RefreshProbe(t) ==
  /\ At(t, "refresh_probe")
  /\ Goto(t, IF IsRunning THEN "refresh_up" ELSE "refresh_down")
  /\ UNCHANGED <<status, procVars, streamVars, startSlot, restartVars>>

RuntimeReady == IsRunning /\ ready

(* The status a session that holds s arrives at.                           *)
Refreshed(s, up, isReady) ==
  IF up /\ s \in {"stopping", "restarting"} THEN s
  ELSE IF up /\ s = "starting" /\ ~isReady THEN s
  ELSE IF up THEN "running"
  ELSE IF s = "running" THEN "crashed"
  ELSE IF s = "stopping" THEN "stopped"
  ELSE s

AfterVerdict(t, verdict) == IF verdict = thread[t].local THEN "idle" ELSE "refresh_commit"

(* The scan of the system's processes lies between the look at the         *)
(* registry and what is done about it.  A verdict is kept in the session   *)
(* until the commit.                                                       *)
RefreshUp(t) ==
  /\ At(t, "refresh_up")
  /\ LET verdict == Refreshed(thread[t].local, TRUE, RuntimeReady)
     IN  Enter(t, [thread[t] EXCEPT !.local = verdict,
                                    !.pc = AfterVerdict(t, verdict)])
  /\ UNCHANGED <<status, procVars, streamVars, startSlot, restartVars>>

(* The last step for a server that was not running: the registry entry, if *)
(* there is one, is dropped, whatever it is by now.                        *)
RefreshDown(t) ==
  /\ At(t, "refresh_down")
  /\ LET verdict == Refreshed(thread[t].local, ExternalPids # {}, RuntimeReady)
     IN  Enter(t, [thread[t] EXCEPT !.local = verdict, !.pc = "refresh_cleanup",
                                    !.ret = AfterVerdict(t, verdict)])
  /\ UNCHANGED <<status, procVars, streamVars, startSlot, restartVars>>

RefreshCleanup(t) ==
  /\ At(t, "refresh_cleanup")
  /\ DropEntry
  /\ Goto(t, thread[t].ret)
  /\ UNCHANGED <<status, alive, spawned, streamVars, startSlot, restartVars>>

RefreshCommit(t) ==
  /\ At(t, "refresh_commit")
  /\ status' = thread[t].local
  /\ Goto(t, "idle")
  /\ UNCHANGED <<procVars, streamVars, startSlot, restartVars>>

-----------------------------------------------------------------------------
(* The output thread of a process (_stream_output)                         *)

(* Minecraft's "Done" line: _mark_server_running looks the server's CURRENT *)
(* registry entry up, which need not be this thread's process.             *)
StreamReady(p) ==
  /\ stream[p] = "reading"
  /\ IsRunning
  /\ ~ready
  /\ ready' = TRUE
  /\ seen' = [seen EXCEPT ![p] = status]
  /\ stream' = [stream EXCEPT ![p] = "marking"]
  /\ UNCHANGED <<status, registry, alive, spawned, startSlot, restartVars, thread>>

StreamMarkRunning(p) ==
  /\ stream[p] = "marking"
  /\ status' = IF seen[p] \in {"stopping", "restarting", "running"} THEN status ELSE "running"
  /\ stream' = [stream EXCEPT ![p] = "reading"]
  /\ seen' = [seen EXCEPT ![p] = None]
  /\ UNCHANGED <<procVars, startSlot, restartVars, thread>>

(* The end of the output, or (a log file that cannot be written) an        *)
(* exception while the process still runs; both reach the finally clause.  *)
StreamEnds(p) ==
  /\ stream[p] = "reading"
  /\ p \notin alive \/ "stream_io" \in Faults
  /\ stream' = [stream EXCEPT ![p] = "eof"]
  /\ UNCHANGED <<status, procVars, seen, startSlot, restartVars, thread>>

RemovesNothing(p) == FALSE
Removes(p) == registry = p

(* _cleanup_process_registry with this thread's process; only if that      *)
(* removed the entry is the end of the process recorded.                   *)
StreamCleanup(p) ==
  /\ stream[p] = "eof"
  /\ IF Removes(p)
     THEN DropEntry /\ stream' = [stream EXCEPT ![p] = "exited"]
     ELSE stream' = [stream EXCEPT ![p] = "done"] /\ UNCHANGED <<registry, ready>>
  /\ UNCHANGED <<status, alive, spawned, seen, startSlot, restartVars, thread>>

(* _mark_server_stopped loads the server in a session of its own.          *)
StreamLoad(p) ==
  /\ stream[p] = "exited"
  /\ stream' = [stream EXCEPT ![p] = "loaded"]
  /\ seen' = [seen EXCEPT ![p] = status]
  /\ UNCHANGED <<status, procVars, startSlot, restartVars, thread>>

(* What the end of the process means for a server whose status is s.       *)
StartingSurvivesExit(s) ==
  CASE s \in {"starting", "restarting"} -> s
    [] s = "running" -> "crashed"
    [] s = "provisioning" -> "error"
    [] OTHER -> "stopped"

StatusAfterExit(s) ==
  CASE s = "restarting" -> "restarting"
    [] s \in {"starting", "running"} -> "crashed"
    [] s = "provisioning" -> "error"
    [] OTHER -> "stopped"

StreamMarkStopped(p) ==
  /\ stream[p] = "loaded"
  /\ status' = IF StatusAfterExit(seen[p]) = seen[p] THEN status ELSE StatusAfterExit(seen[p])
  /\ stream' = [stream EXCEPT ![p] = "done"]
  /\ seen' = [seen EXCEPT ![p] = None]
  /\ UNCHANGED <<procVars, startSlot, restartVars, thread>>

-----------------------------------------------------------------------------
(* The operating system, and the manager's own end and start               *)

(* The Minecraft process ends: a crash, or "stop" typed in the game or at  *)
(* the console.                                                            *)
ProcessExit(p) ==
  /\ p \in alive
  /\ alive' = alive \ {p}
  /\ UNCHANGED <<status, registry, ready, spawned, streamVars, startSlot, restartVars, thread>>

NormalizedKeepsMark(s) ==
  CASE s \in {"running", "starting", "stopping", "restarting"} -> "stopped"
    [] s = "provisioning" -> "error"
    [] OTHER -> s

(* init_db forgets what was under way when the manager ended.              *)
Normalized(s) ==
  CASE s \in {"running", "starting", "stopping", "restarting", "backup_running"} -> "stopped"
    [] s = "provisioning" -> "error"
    [] OTHER -> s

(* The manager goes and comes back: memory is new, the processes and the   *)
(* database stay; init_db and then reconcile_runtime_states_on_manager_    *)
(* startup set the status before anything else runs, and the autostart     *)
(* worker takes the server up if it starts with the manager or if a        *)
(* process that outlived the manager makes it count as active.             *)
NormalizedLast == Normalized(Refreshed(status, ExternalPids # {}, FALSE))
BootStatus == Refreshed(Normalized(status), ExternalPids # {}, FALSE)

Boot ==
  /\ DropEntry
  /\ stream' = [p \in Procs |-> IF p \in spawned THEN "done" ELSE "none"]
  /\ seen' = [p \in Procs |-> None]
  /\ startSlot' = FALSE
  /\ pending' = None
  /\ cancelled' = {}
  /\ status' = BootStatus
  /\ LET first == CASE BootStatus \in ActiveStatuses -> "autostart_kill"
                    [] BootStatus \notin ActiveStatuses /\ AutoStart -> "start_slot"
                    [] OTHER -> "idle"
     IN  thread' = [t \in Threads |->
                      IF t = Autostarter /\ first # "idle"
                      THEN [IdleThread EXCEPT !.pc = first, !.mode = "autostart",
                                              !.local = BootStatus]
                      ELSE IdleThread]
  /\ UNCHANGED <<alive, spawned>>

ManagerCrash ==
  /\ "manager_crash" \in Faults
  /\ Boot

(* An orderly end: shutdown_all_managed_processes(preserve_for_restart)    *)
(* stops a registered server and leaves it "restarting".                   *)
Shutdown(t) ==
  /\ At(t, "shutdown")
  /\ Enter(t, [thread[t] EXCEPT !.local = status,
                 !.pc = IF registry = None THEN "shutdown_exit" ELSE "stop_cancel"])
  /\ UNCHANGED <<status, procVars, streamVars, startSlot, restartVars>>

ShutdownExit(t) ==
  /\ At(t, "shutdown_exit")
  /\ Boot

(* What a previous run of the manager left behind is ended, so that the    *)
(* server can start under this one.                                        *)
AutostartKill(t) ==
  /\ At(t, "autostart_kill")
  /\ alive' = {}
  /\ Goto(t, "autostart_mark")
  /\ UNCHANGED <<status, registry, ready, spawned, streamVars, startSlot, restartVars>>

AutostartMark(t) ==
  /\ At(t, "autostart_mark")
  /\ DropEntry
  /\ Commit(t, "stopped", "start_slot")
  /\ UNCHANGED <<alive, spawned, streamVars, startSlot, restartVars>>

-----------------------------------------------------------------------------
StopStep(t) ==
  \/ StopCancel(t) \/ StopLookup(t) \/ StopExternal(t) \/ StopMark(t)
  \/ StopWait(t) \/ StopCleanup(t) \/ StopWrite(t)

StartStep(t) ==
  \/ StartSlot(t) \/ StartCheck(t) \/ StartScan(t) \/ StartExternal(t)
  \/ StartMark(t) \/ StartPrepare(t) \/ StartFail(t) \/ StartLaunch(t)
  \/ StartRegister(t) \/ StartRelease(t)

RestartStep(t) ==
  \/ WorkerStops(t) \/ WorkerProceeds(t) \/ RestartMark(t) \/ RestartRefresh(t)
  \/ WorkerRelease(t)

RefreshStep(t) ==
  \/ RefreshProbe(t) \/ RefreshUp(t) \/ RefreshDown(t) \/ RefreshCleanup(t)
  \/ RefreshCommit(t)

(* What a thread does once it has been called.                             *)
CallStep(t) ==
  \/ StopStep(t) \/ StartStep(t) \/ RestartStep(t) \/ RefreshStep(t)
  \/ ConsoleStop(t) \/ Shutdown(t) \/ AutostartKill(t) \/ AutostartMark(t)

(* What an output thread does without waiting for a line of the server.    *)
StreamStep(p) ==
  StreamMarkRunning(p) \/ StreamCleanup(p) \/ StreamLoad(p) \/ StreamMarkStopped(p)

ProcessStep(p) == StreamReady(p) \/ StreamEnds(p) \/ StreamStep(p) \/ ProcessExit(p)

ManagerRuns ==
  \/ \E t \in Threads : \/ \E m \in RequestKinds : Begin(t, m)
                        \/ QueueRestart(t)
                        \/ CallStep(t)
  \/ \E p \in Procs : ProcessStep(p)

ManagerEnds == ManagerCrash \/ \E t \in Threads : ShutdownExit(t)

Next == ManagerRuns \/ ManagerEnds

Spec == Init /\ [][Next]_vars

(* Threads that have been called and output threads are scheduled; that a  *)
(* request arrives, a process ends or something fails is up to the world.  *)
Fairness ==
  /\ \A t \in Threads : WF_vars(CallStep(t) \/ ShutdownExit(t))
  /\ \A p \in Procs : WF_vars(StreamStep(p)) /\ WF_vars(p \notin alive /\ StreamEnds(p))

FairSpec == Spec /\ Fairness
-----------------------------------------------------------------------------
(* Properties                                                              *)

(* However start, stop, restart, autostart and page views interleave, the  *)
(* system never runs two processes of one server: two would write the same *)
(* world.  The start slot and the scan for processes outside the registry  *)
(* have to hold together for this, for the registry alone loses processes. *)
SingleInstance == \A p, q \in alive : p = q

(* The abstract specification, with the process that runs as its instance: *)
(* the life cycle implements ServerInstance, a process starts only when    *)
(* none runs and is never replaced in one step.                            *)
Instance == IF alive = {} THEN None ELSE CHOOSE p \in alive : TRUE

Abstract == INSTANCE ServerInstance WITH instance <- Instance, past <- spawned

ImplementsInstance == Abstract!Spec

(* Why: the start slot admits one thread to start_server, and from the     *)
(* moment that thread has found no process of the server until it has      *)
(* registered its own, nobody else can have started one.                   *)
InStart(t) == thread[t].pc \in StartLabels

SlotExclusive ==
  \A t \in Threads : InStart(t) => startSlot /\ \A u \in Threads : InStart(u) => u = t

ScanHolds ==
  \A t \in Threads :
    /\ thread[t].pc \in {"start_mark", "start_prepare", "start_launch"} => alive = {}
    /\ At(t, "start_register") => alive \subseteq {thread[t].target}

IInv == TypeOK /\ SlotExclusive /\ ScanHolds /\ SingleInstance

(* A process in the registry has an output thread that will still take it  *)
(* out: no dead process can stay registered and block every later start.   *)
RegisteredIsWatched ==
  registry # None => stream[registry] \in {"reading", "marking", "eof"}

(* A restart that is counting down either holds the pending slot or has    *)
(* been cancelled: a stop in between (_cancel_pending_restart) followed by *)
(* a new queue_restart never leaves two countdowns that will both restart. *)
OneLiveCountdown ==
  \A t \in Threads : At(t, "countdown") /\ pending # t => t \in cancelled

(* ready is set for a process only when the output thread of that process  *)
(* reads the "Done" line, as is_server_ready says.                         *)
ReadyMeansDoneSeen ==
  [][ready' /\ ~ready => stream[registry] = "reading" /\ stream'[registry] = "marking"]_vars

(* "starting" blocks every later start, so it may not outlive the attempt: *)
(* when nothing is under way and no process runs, the crash of a starting  *)
(* server has been recorded (by _mark_server_stopped, says the comment in  *)
(* refresh_runtime_states).                                                *)
Quiet ==
  /\ \A t \in Threads : At(t, "idle")
  /\ \A p \in Procs : stream[p] \in {"none", "done"}

StartingIsTransient == Quiet /\ alive = {} => status # "starting"

(* An orderly end of the manager keeps the servers it stops "restarting",  *)
(* "preserved for the restart", and the next autostart worker takes up     *)
(* what is marked active.                                                  *)
PreservedForRestart ==
  [][\A t \in Threads :
       At(t, "shutdown_exit") /\ ~At(t, "shutdown_exit")' /\ status = "restarting"
         => ~At(Autostarter, "idle")']_vars

(* Every attempt to start ends and gives the slot back, whatever fails.    *)
StartAttemptEnds == startSlot ~> ~startSlot

(* A process that has ended leaves the registry without anyone's request.  *)
DeadProcessLeavesRegistry ==
  \A p \in Procs : (registry = p /\ p \notin alive) ~> (registry # p)

(* Neither a start nor a dead process blocks the server for ever.          *)
NothingHangs == StartAttemptEnds /\ DeadProcessLeavesRegistry

(* A process that no output thread of this manager reads (it outlived the  *)
(* manager that started it) is ended by the autostart worker, whatever     *)
(* status it had in the database.                                          *)
OrphansAreEnded ==
  \A p \in Procs : (p \in alive /\ stream[p] = "done") ~> (p \notin alive)
=============================================================================
