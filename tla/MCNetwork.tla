------------------------------- MODULE MCNetwork -------------------------------
(* The parts of the network, each on its own: a behaviour is one of the     *)
(* part that "part" names, in which the others rest.  The presence bridge   *)
(* has three scenes: the hub's player and a switch of the setting, the      *)
(* Paper lobby's player, and two connections of the plugin.                 *)
EXTENDS PresenceBus, LobbyWait, Entrance, NetworkDoors, AccessLists

CONSTANT Parts

VARIABLE part
networkVars == <<part, presenceVars, lobbyVars, entranceVars, doorsVars, accessVars>>

MCBarred == {<<"g", "t">>}
MCMisfits == {<<"g", "s">>}

MCNative == [s \in Servers |-> IF s = "p" THEN "other" ELSE "767"]
MCClients ==
  {[proto |-> "other", pack |-> "vanilla", fit |-> "missing"],
   [proto |-> "767", pack |-> "f", fit |-> "fits"],
   [proto |-> "767", pack |-> "f", fit |-> "foreign"]}

\* One listener stands for the sleep proxies, the gateway and the hub.
MCTickOrder == <<"velocity", "gateway", "viaproxy">>

Scenes == {"hub", "paper", "links"}

NetworkInit ==
  /\ part \in Parts
  /\ PresenceInit /\ LobbyInit /\ EntranceInit /\ DoorsInit /\ AccessInit
  /\ part # "entrance" =>
       /\ netSettings = [NoRoutes EXCEPT !.mode = "gateway"] /\ helping
       /\ trip.client = CHOOSE c \in Clients : TRUE
  /\ part # "access" => \A l \in ListKeys : everywhere[l] = {}

InScene ==
  \/ part = "hub" /\ enabled' /\ paper' = {} /\ handler'["d"] = "closed"
  \/ part = "paper" /\ session' = session /\ handler'["d"] = "closed"
  \/ /\ part = "links" /\ session' = session /\ enabled' /\ "hub" \notin subs'
     /\ \A u \in DOMAIN presences' : presences'[u].fresh
Meeting == PresenceNext /\ InScene /\ UNCHANGED <<lobbyVars, entranceVars, doorsVars, accessVars>>

Waiting == LobbyNext /\ UNCHANGED <<presenceVars, entranceVars, doorsVars, accessVars>>
Travelling == EntranceNext /\ UNCHANGED <<presenceVars, lobbyVars, doorsVars, accessVars>>
Reconciling == DoorsNext /\ UNCHANGED <<presenceVars, lobbyVars, entranceVars, accessVars>>
Granting == AccessNext /\ UNCHANGED <<presenceVars, lobbyVars, entranceVars, doorsVars>>

NetworkNext ==
  /\ UNCHANGED part
  /\ \/ part \in Scenes /\ Meeting
     \/ part = "lobby" /\ Waiting
     \/ part = "entrance" /\ Travelling
     \/ part = "doors" /\ Reconciling
     \/ part = "access" /\ Granting

\* The fairness of the modules, each in its part.
NetworkFairness ==
  /\ \A t \in Threads : WF_presenceVars(part = "hub" /\ BusStep(t))
  /\ \A u \in HubPlayers : WF_presenceVars(part = "hub" /\ Age(u))
  /\ \A c \in Links : WF_presenceVars(part = "hub" /\ HandlerStep(c))
  /\ WF_presenceVars(part = "hub" /\ (Attach \/ AttachSnapshot))
  /\ WF_presenceVars(part = "hub" /\ Sweep) /\ WF_presenceVars(part = "hub" /\ Keepalive)
  /\ \A g \in Guests :
       WF_lobbyVars(part = "lobby" /\ \E loop \in loops : loop.guest = g /\ LoopRound(loop))
  /\ WF_entranceVars(part = "entrance" /\ Travel)
  /\ WF_entranceVars(part = "entrance" /\ ReconcileRoutes)
  /\ WF_doorsVars(part = "doors" /\ MonitorTicks)
  /\ \A t \in Crew : WF_doorsVars(part = "doors" /\ CrewStep(t))
  /\ WF_accessVars(part = "access" /\ GameObeys)
  /\ \A p \in FixedOps :
       /\ WF_accessVars(part = "access" /\ TimeGoesOn(p))
       /\ WF_accessVars(part = "access" /\ Reop(p)) /\ WF_accessVars(part = "access" /\ Watch(p))

NetworkSpec == NetworkInit /\ [][NetworkNext]_networkVars /\ NetworkFairness

(* Nobody is kept for ever, neither in the hub's waiting loop nor between  *)
(* the gateway, ViaProxy and the dispatcher.                               *)
NobodyIsStuck == WaitsEnd /\ TripsEnd

=============================================================================
