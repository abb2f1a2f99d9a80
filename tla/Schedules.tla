------------------------------ MODULE Schedules ------------------------------
(***************************************************************************)
(* Scheduled jobs (schedule_service.py, the schedules router): rows of     *)
(* scheduled_jobs and the entries of the scheduler library that are to     *)
(* fire for them.  An entry carries a row number and a trigger; what it    *)
(* runs is read from the row when it fires.                                *)
(*                                                                         *)
(* Requests run in threads, firings in the scheduler's pool.  Deleting a   *)
(* server deletes its rows and leaves the entries; SQLite gives a new row  *)
(* the number after the largest one, so it may get the number of such an   *)
(* entry.                                                                  *)
(***************************************************************************)
EXTENDS Naturals, FiniteSetsExt

CONSTANTS
  Owners,       \* servers that have schedules
  Triggers,     \* schedule expressions
  Once,         \* those that name one moment
  Hands,        \* threads of requests
  MaxJobs,      \* bound on row numbers
  MaxOrders     \* bound on requests

ASSUME ScheduleAssumption == Triggers # {} /\ Once \subseteq Triggers /\ MaxJobs \in Nat

VARIABLES
  jobs,         \* rows of scheduled_jobs
  timers,       \* the scheduler's entries
  past,         \* the moments that are over
  hand,         \* requests
  firings,      \* firings at work, at most one for an entry
  boot,         \* rows the start of the manager has yet to enter
  crossed,      \* row numbers two requests worked on at once
  orders        \* how many requests there were

scheduleVars == <<jobs, timers, past, hand, firings, boot, crossed, orders>>

Idle == [pc |-> "idle", id |-> 0, enabled |-> FALSE, trigger |-> CHOOSE x \in Triggers : TRUE]

JobIds == {j.id : j \in jobs}

ScheduleTypeOK ==
  /\ \A j \in jobs : j.id \in 1..MaxJobs /\ j.trigger \in Triggers /\ j.owner \in Owners
  /\ \A j, k \in jobs : j.id = k.id => j = k
  /\ \A e \in timers : e.id \in 1..MaxJobs /\ e.trigger \in Triggers
  /\ \A e, f \in timers : e.id = f.id => e = f
  /\ past \subseteq Once
  /\ \A f, g \in firings : f.id = g.id => f = g
  /\ boot \subseteq JobIds /\ crossed \subseteq 1..MaxJobs

ScheduleInit ==
  /\ jobs = {}
  /\ timers = {}
  /\ past = {}
  /\ hand = [t \in Hands |-> Idle]
  /\ firings = {}
  /\ boot = {}
  /\ crossed = {}
  /\ orders = 0

NewJobId == 1 + Max(JobIds \cup {0})
Job(i) == CHOOSE j \in jobs : j.id = i
Switched(i, enabled) == {j \in jobs : j.id # i} \cup {[Job(i) EXCEPT !.enabled = enabled]}
Untimed(i) == {e \in timers : e.id # i}

Turns(t, h) == hand' = [hand EXCEPT ![t] = h]
AtWorkOn(i) == \E t \in Hands : hand[t].pc # "idle" /\ hand[t].id = i
\* Requests are served once the start is over.
Order(t) == hand[t].pc = "idle" /\ boot = {} /\ orders < MaxOrders /\ orders' = orders + 1
\* A request meets others at its rows, and firings that are about to load them.
Crosses(ids) ==
  /\ crossed' = crossed \cup {i \in ids : AtWorkOn(i)}
  /\ firings' = {[f EXCEPT !.alone = @ /\ (f.id \in ids => f.pc # "load")] : f \in firings}

\* create_job: the row is there before its entry.
CreateJob(t, o, x) ==
  /\ Order(t) /\ NewJobId <= MaxJobs
  /\ jobs' = jobs \cup {[id |-> NewJobId, owner |-> o, trigger |-> x, enabled |-> TRUE]}
  /\ Turns(t, [pc |-> "sync", id |-> NewJobId, enabled |-> TRUE, trigger |-> x])
  /\ Crosses({NewJobId})
  /\ UNCHANGED <<timers, past, boot>>

\* set_job_enabled: the row is written, read again, and its entry made to follow.
ToggleJob(t, i) ==
  /\ Order(t)
  /\ Turns(t, [pc |-> "set", id |-> i, enabled |-> ~Job(i).enabled, trigger |-> Job(i).trigger])
  /\ Crosses({i})
  /\ UNCHANGED <<jobs, timers, past, boot>>

SetEnabled(t) ==
  /\ hand[t].pc = "set"
  /\ IF hand[t].id \in JobIds
     THEN /\ jobs' = Switched(hand[t].id, hand[t].enabled)
          /\ Turns(t, [hand[t] EXCEPT !.pc = "refresh"])
     ELSE Turns(t, Idle) /\ UNCHANGED jobs
  /\ UNCHANGED <<timers, past, firings, boot, crossed, orders>>

Refresh(t) ==
  /\ hand[t].pc = "refresh"
  /\ IF hand[t].id \in JobIds
     THEN Turns(t, [hand[t] EXCEPT !.pc = "sync", !.enabled = Job(hand[t].id).enabled,
                                   !.trigger = Job(hand[t].id).trigger])
     ELSE Turns(t, Idle)
  /\ UNCHANGED <<jobs, timers, past, firings, boot, crossed, orders>>

\* A bug: an entry of this number is left as it is.
EnteredIfNew(i, enabled, x) ==
  IF ~enabled THEN Untimed(i)
  ELSE IF \E e \in timers : e.id = i THEN timers ELSE timers \cup {[id |-> i, trigger |-> x]}

\* _sync_single_job: the entry goes, or replaces what was entered under this number.
Entered(i, enabled, x) ==
  IF enabled THEN Untimed(i) \cup {[id |-> i, trigger |-> x]} ELSE Untimed(i)

SyncJob(t) ==
  /\ hand[t].pc = "sync"
  /\ timers' = Entered(hand[t].id, hand[t].enabled, hand[t].trigger)
  /\ Turns(t, Idle)
  /\ UNCHANGED <<jobs, past, firings, boot, crossed, orders>>

\* delete_job: the entry first, then the row.
DeleteJob(t, i) ==
  /\ Order(t)
  /\ timers' = Untimed(i)
  /\ Turns(t, [Idle EXCEPT !.pc = "drop", !.id = i])
  /\ Crosses({i})
  /\ UNCHANGED <<jobs, past, boot>>

DropJob(t) ==
  /\ hand[t].pc = "drop"
  /\ jobs' = {j \in jobs : j.id # hand[t].id}
  /\ Turns(t, Idle)
  /\ UNCHANGED <<timers, past, firings, boot, crossed, orders>>

\* delete_server_action: only the rows go.
DeleteOwner(t, o) ==
  /\ Order(t)
  /\ jobs' = {j \in jobs : j.owner # o}
  /\ Crosses({j.id : j \in {k \in jobs : k.owner = o}})
  /\ UNCHANGED <<timers, past, hand, boot>>

\* A bug: the copies are active like the originals.
CopiesAsTheyAre(o, p) ==
  LET mine == {j \in jobs : j.owner = o}
      number == CHOOSE g \in [mine -> NewJobId..(NewJobId + Cardinality(mine) - 1)] :
                  \A j, k \in mine : j # k => g[j] # g[k]
  IN {[j EXCEPT !.id = number[j], !.owner = p] : j \in mine}
\* _copy_server_relations: the clone's jobs are paused.
Copies(o, p) == {[j EXCEPT !.enabled = FALSE] : j \in CopiesAsTheyAre(o, p)}

DuplicateOwner(t, o, p) ==
  /\ Order(t)
  /\ \E j \in jobs : j.owner = o
  /\ NewJobId + Cardinality({j \in jobs : j.owner = o}) <= MaxJobs + 1
  /\ jobs' = jobs \cup Copies(o, p)
  /\ UNCHANGED <<timers, past, hand, firings, boot, crossed>>

---------------------------------------------------------------------------
(* Firing.  An entry of one moment is gone when it fires; one whose moment *)
(* is over misfires and goes, too.                                         *)

\* Whether there is a row with the entry's number that is due when the entry is.
ForItsJob(e) == \E j \in jobs : j.id = e.id /\ j.trigger = e.trigger

Fire(e) ==
  /\ e.trigger \notin past
  /\ ~\E f \in firings : f.id = e.id
  /\ firings' = firings \cup {[id |-> e.id, pc |-> "load", own |-> ForItsJob(e), alone |-> ~AtWorkOn(e.id)]}
  /\ IF e.trigger \in Once
     THEN past' = past \cup {e.trigger} /\ timers' = timers \ {e}
     ELSE UNCHANGED <<past, timers>>
  /\ UNCHANGED <<jobs, hand, boot, crossed, orders>>

Misfire(e) ==
  /\ e.trigger \in past
  /\ timers' = timers \ {e}
  /\ UNCHANGED <<jobs, past, hand, firings, boot, crossed, orders>>

Moves(f, g) == firings' = (firings \ {f}) \cup g

\* _run_job_by_id: a row that is gone or paused is passed over.
Load(f) ==
  /\ f.pc = "load"
  /\ IF \E j \in jobs : j.id = f.id /\ j.enabled
     THEN Moves(f, {[f EXCEPT !.pc = "execute"]})
     ELSE Moves(f, {})
  /\ UNCHANGED <<jobs, timers, past, hand, boot, crossed, orders>>

\* _execute_job and the end of _run_job_by_id: a moment's job is paused unless it is entered
\* again; without its row nothing is noted.
Finish(f) ==
  /\ f.pc = "execute"
  /\ IF f.id \in JobIds /\ Job(f.id).trigger \in Once /\ ~\E e \in timers : e.id = f.id
     THEN jobs' = Switched(f.id, FALSE)
     ELSE UNCHANGED jobs
  /\ Moves(f, {})
  /\ UNCHANGED <<timers, past, hand, boot, crossed, orders>>

\* The manager ends, however, and starts again; the scheduler remembers nothing.
ManagerRestarts ==
  /\ timers' = {}
  /\ hand' = [t \in Hands |-> Idle]
  /\ firings' = {}
  /\ boot' = JobIds
  /\ crossed' = {}
  /\ UNCHANGED <<jobs, past, orders>>

\* sync_all_jobs
SyncAtStart ==
  /\ \E i \in boot :
       /\ boot' = boot \ {i}
       /\ timers' = Entered(i, Job(i).enabled, Job(i).trigger)
  /\ UNCHANGED <<jobs, past, hand, firings, crossed, orders>>

ScheduleNext ==
  \/ \E t \in Hands : \/ SetEnabled(t) \/ Refresh(t) \/ SyncJob(t) \/ DropJob(t)
                      \/ \E o \in Owners, x \in Triggers : CreateJob(t, o, x)
                      \/ \E i \in JobIds : ToggleJob(t, i) \/ DeleteJob(t, i)
                      \/ \E o \in Owners : DeleteOwner(t, o)
                      \/ \E o, p \in Owners : o # p /\ DuplicateOwner(t, o, p)
  \/ \E e \in timers : Fire(e) \/ Misfire(e)
  \/ \E f \in firings : Load(f) \/ Finish(f)
  \/ ManagerRestarts \/ SyncAtStart

ScheduleSpec == ScheduleInit /\ [][ScheduleNext]_scheduleVars

---------------------------------------------------------------------------
(* Properties.                                                             *)

\* Whatever is created, copied, toggled and deleted: once nobody is at work on it, an active
\* job is entered with its own trigger, unless its moment is over or two requests worked on
\* it at once.
ActiveJobsAreTimed ==
  \A j \in jobs :
    j.enabled /\ j.trigger \notin past /\ j.id \notin crossed \cup boot /\ ~AtWorkOn(j.id)
    => [id |-> j.id, trigger |-> j.trigger] \in timers

\* No job runs at the times of another one, of which only the entry and the number are left,
\* unless requests met each other at its row or met the firing before it had loaded the row.
JobsRunAtTheirTimes ==
  \A f \in firings : f.pc = "execute" /\ f.alone /\ f.id \notin crossed => f.own

\* Rows and entries belong together: nothing due is forgotten, nothing runs for another.
TimersFollowJobs == ActiveJobsAreTimed /\ JobsRunAtTheirTimes

=============================================================================
