----------------------------- MODULE NetworkDoors -----------------------------
(* The doors of the network follow its settings: the sleep proxies, the     *)
(* gateway, the hub of the lobby, ViaProxy and Velocity are each brought in *)
(* line with the settings by a reconcile that reads them first and acts on  *)
(* what it read.  The idle monitor runs all of them every 15 seconds, one   *)
(* after the other; a form that saves settings runs some in other threads.  *)
(* Velocity is prepared without the lock that guards its process: minutes   *)
(* may pass between the settings it read, velocity.toml and its start.      *)
EXTENDS Naturals, Sequences

CONSTANTS
  TickOrder, \* the doors in the order of _idle_tick
  Configs,   \* settings a door can be open with: ports, worlds, files
  MaxSaves   \* bound: changes of the settings; after the last one no port is
             \* taken, no process ends and no download fails any more

DoorNames == {TickOrder[i] : i \in 1..Len(TickOrder)}

ASSUME DoorsAssumption ==
  /\ TickOrder \in Seq(STRING) /\ {"velocity", "viaproxy"} \subseteq DoorNames
  /\ "rest" \notin DoorNames /\ "shut" \notin Configs /\ MaxSaves \in Nat

VARIABLES
  wish,      \* the settings: every door shut, or open with a configuration
  saves,     \* how often they were changed
  door,      \* what each listener and process really runs with
  toml,      \* velocity.toml on the disk
  sign,      \* _STATE of Velocity: what its process is said to run with
  crew       \* the threads that reconcile: their door, their step, what they read

doorsVars == <<wish, saves, door, toml, sign, crew>>

Wishes == Configs \cup {"shut"}
Crew == {"monitor", "form"}
AtRest == [door |-> "rest", step |-> "read", read |-> "shut"]

DoorsTypeOK ==
  /\ wish \in Wishes /\ saves \in 0..MaxSaves
  /\ door \in [DoorNames -> Wishes]
  /\ toml \in Wishes /\ sign \in Wishes
  /\ crew \in [Crew -> [door : DoorNames \cup {"rest"}, step : {"read", "act", "swap"}, read : Wishes]]

DoorsInit ==
  /\ wish = "shut" /\ saves = 0
  /\ door = [d \in DoorNames |-> "shut"]
  /\ toml = "shut" /\ sign = "shut"
  /\ crew = [t \in Crew |-> AtRest]

Troubled == saves < MaxSaves
-----------------------------------------------------------------------------
\* _idle_tick: the doors in their order.
After(d) ==
  LET i == CHOOSE i \in 1..Len(TickOrder) : TickOrder[i] = d
  IN IF i = Len(TickOrder) THEN AtRest ELSE [AtRest EXCEPT !.door = TickOrder[i + 1]]
DoneWith(t) == [crew EXCEPT ![t] = IF t = "monitor" THEN After(@.door) ELSE AtRest]

\* A tick begins; a form that was saved calls a reconcile.
BeginReconcile(t, d) ==
  /\ crew[t] = AtRest
  /\ t = "monitor" => d = TickOrder[1]
  /\ crew' = [crew EXCEPT ![t].door = d]
  /\ UNCHANGED <<wish, saves, door, toml, sign>>

SaveSettings(w) ==
  /\ Troubled /\ w # wish /\ wish' = w /\ saves' = saves + 1
  /\ UNCHANGED <<door, toml, sign, crew>>

\* The settings, the servers in the database, the jar, Java.
ReadWish(t) ==
  /\ crew[t].door # "rest" /\ crew[t].step = "read"
  /\ crew' = [crew EXCEPT ![t].step = "act", ![t].read = wish]
  /\ UNCHANGED <<wish, saves, door, toml, sign>>

At(t, d, step) == crew[t].door = d /\ crew[t].step = step
-----------------------------------------------------------------------------
\* Mutant of Fits: a door that is open is left alone.
FitsIfOpen(d, w) == door[d] # "shut"

\* start_proxy, start_gateway, start_hub_lobby, start_viaproxy: a door that
\* is open with this very configuration stays as it is.
Fits(d, w) == door[d] = w

\* Otherwise the old one closes, and the new one opens if its port is free,
\* its files are there and its process starts.
Apply(t, d) ==
  /\ d # "velocity" /\ At(t, d, "act")
  /\ LET w == crew[t].read
     IN \/ door' = IF w # "shut" /\ Fits(d, w) THEN door ELSE [door EXCEPT ![d] = w]
        \/ /\ Troubled /\ ~Fits(d, w)
           /\ door' = [door EXCEPT ![d] = "shut"]
  /\ crew' = DoneWith(t)
  /\ UNCHANGED <<wish, saves, toml, sign>>
-----------------------------------------------------------------------------
(* reconcile_velocity                                                      *)
SignedFor(w) == door["velocity"] # "shut" /\ sign = w

\* stop_velocity
ShutVelocity ==
  /\ door' = [door EXCEPT !["velocity"] = "shut"]
  /\ sign' = "shut"

\* The mode is another one: stop.
VelocityOff(t) ==
  /\ At(t, "velocity", "act") /\ crew[t].read = "shut"
  /\ ShutVelocity
  /\ crew' = DoneWith(t)
  /\ UNCHANGED <<wish, saves, toml>>

\* Held back after a crash, no jar or no Java.
VelocityFails(t) ==
  /\ At(t, "velocity", "act") /\ crew[t].read # "shut" /\ Troubled
  /\ crew' = DoneWith(t)
  /\ UNCHANGED <<wish, saves, door, toml, sign>>

\* _write_runtime_config, then the first look at _STATE.
VelocityWrites(t) ==
  /\ At(t, "velocity", "act") /\ crew[t].read # "shut"
  /\ toml' = crew[t].read
  /\ crew' = IF SignedFor(crew[t].read) THEN DoneWith(t) ELSE [crew EXCEPT ![t].step = "swap"]
  /\ UNCHANGED <<wish, saves, door, sign>>

\* The plugins are there: under the lock the second look, then the new
\* process, which reads what lies on the disk.
VelocitySwaps(t) ==
  /\ At(t, "velocity", "swap")
  /\ \/ SignedFor(crew[t].read) /\ UNCHANGED <<door, sign>>
     \/ /\ ~SignedFor(crew[t].read)
        /\ door' = [door EXCEPT !["velocity"] = toml] /\ sign' = crew[t].read
     \/ ~SignedFor(crew[t].read) /\ Troubled /\ ShutVelocity
  /\ crew' = DoneWith(t)
  /\ UNCHANGED <<wish, saves, toml>>

\* Velocity or ViaProxy ends by itself.
ProcessEnds(d) ==
  /\ Troubled /\ d \in {"velocity", "viaproxy"} /\ door[d] # "shut"
  /\ door' = [door EXCEPT ![d] = "shut"]
  /\ UNCHANGED <<wish, saves, toml, sign, crew>>
-----------------------------------------------------------------------------
CrewStep(t) ==
  \/ ReadWish(t) \/ \E d \in DoorNames : Apply(t, d)
  \/ VelocityOff(t) \/ VelocityFails(t) \/ VelocityWrites(t) \/ VelocitySwaps(t)

DoorsNext ==
  \/ \E t \in Crew, d \in DoorNames : BeginReconcile(t, d)
  \/ \E t \in Crew : CrewStep(t)
  \/ \E w \in Wishes : SaveSettings(w)
  \/ \E d \in DoorNames : ProcessEnds(d)

\* Threads run, and the monitor ticks.
MonitorTicks == \E d \in DoorNames : BeginReconcile("monitor", d)
DoorsFairness == WF_doorsVars(MonitorTicks) /\ \A t \in Crew : WF_doorsVars(CrewStep(t))

DoorsSpec == DoorsInit /\ [][DoorsNext]_doorsVars /\ DoorsFairness
-----------------------------------------------------------------------------
(* When the settings rest, every listener and ViaProxy come to run with     *)
(* them and stay so, whatever older settings other threads still acted on;  *)
(* Velocity comes to rest in a mode without it, also when a start was being *)
(* prepared as the mode changed.                                            *)
DoorsFollow ==
  /\ \A d \in DoorNames \ {"velocity"} : <>[]~Troubled => <>[](door[d] = wish)
  /\ <>[](~Troubled /\ wish = "shut") => <>[](door["velocity"] = "shut")

(* "Velocity-Prozess an network_mode == velocity + Config angleichen        *)
(* (selbstheilend)" (reconcile_velocity, proxy_service.py): when the        *)
(* settings rest, Velocity comes to run with them.  A thread with older     *)
(* settings that rewrites velocity.toml between another's writing and its   *)
(* start leaves a process of the old file signed with the new settings.     *)
VelocityHasItsConfig == <>[]~Troubled => <>[](door["velocity"] = wish)
=============================================================================
