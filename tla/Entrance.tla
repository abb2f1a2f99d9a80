------------------------------- MODULE Entrance -------------------------------
(* The way of a connection into the network: the gateway                    *)
(* (app/services/gateway_service.py) reads the handshake and sends the      *)
(* client to a server, to Velocity, to ViaProxy, to the lobby hub or to the *)
(* dispatcher (dispatcher_service.py); ViaProxy comes back to the gateway   *)
(* with the translated stream, the dispatcher transfers the client to       *)
(* another name of the network.  The gateway decides by routes it copied    *)
(* from the settings at the last reconcile, the dispatcher by the settings. *)
(*                                                                          *)
(* Host names are what they stand for: a server's alias, the bare domain    *)
(* ("apex"), the aliases of the lobby, an alias nobody has, a name outside  *)
(* the domain.  Bytes of the protocol are left out.                         *)
EXTENDS Naturals, FiniteSets

CONSTANTS
  Servers,   \* servers with gateway_enabled; each is named by its alias
  Portless,  \* those without a port
  Backends,  \* those of the Paper family
  Lobby,     \* the server with gateway_is_default, or "none"
  Native,    \* the protocol of each server
  MaxEdits,  \* bound: changes of the settings while a client travels
  Clients    \* [proto, pack, fit]: the client's protocol, the server its mods
             \* match ("vanilla" without mods, or "none"), and whether the
             \* recorded replay "fits", is "foreign" or "missing"

Protocols == {"767", "other"}
Names == {"apex", "foreign", "unknown", "modlobby", "vanlobby"}

ASSUME EntranceAssumption ==
  /\ Portless \subseteq Servers /\ Backends \subseteq Servers
  /\ Lobby \in Servers \cup {"none"} /\ Native \in [Servers -> Protocols]
  /\ Servers \cap (Names \cup {"none", "vanilla"}) = {}
  /\ MaxEdits \in Nat
  /\ Clients \subseteq [proto : Protocols, pack : Servers \cup {"vanilla", "none"},
                        fit : {"fits", "foreign", "missing"}]

VARIABLES
  netSettings, \* the settings of the network in the database
  routes,      \* _ROUTES_CACHE, copied from them
  edits,       \* history: how often an administrator changed the settings
  helping,     \* Velocity or ViaProxy, whichever the mode uses, runs
  trip         \* one connection: where it is, and how it came there

entranceVars == <<netSettings, edits, routes, helping, trip>>

NetSettings ==
  {s \in [mode : {"off", "gateway", "velocity"}, domain : BOOLEAN, dispatcher : BOOLEAN,
          hub : BOOLEAN, via : BOOLEAN, replay : BOOLEAN] :
     (s.via => s.mode = "gateway") /\ (s.replay => s.hub)}
NoRoutes == [mode |-> "off", domain |-> FALSE, dispatcher |-> FALSE, hub |-> FALSE,
             via |-> FALSE, replay |-> FALSE]
Ends == {"server", "velocity", "hub", "told", "answered", "lost"}
Trips == [at : Ends \cup {"out", "gateway", "viaproxy", "dispatcher"}, host : Servers \cup Names,
          proto : Protocols, join : BOOLEAN, client : Clients, first : Servers \cup Names,
          server : Servers \cup {"none"}]

EntranceTypeOK ==
  /\ netSettings \in NetSettings /\ routes \in NetSettings /\ edits \in 0..MaxEdits
  /\ helping \in BOOLEAN
  /\ trip \in Trips

EntranceInit ==
  /\ netSettings \in {s \in NetSettings : s.mode # "off"}
  /\ routes = netSettings /\ edits = 0
  /\ helping \in BOOLEAN
  /\ \E c \in Clients :
       trip = [at |-> "out", host |-> "apex", proto |-> c.proto, join |-> TRUE, client |-> c,
               first |-> "apex", server |-> "none"]
-----------------------------------------------------------------------------
(* decide_route                                                            *)

\* build_gateway_routes: servers without a port have no route.
Routed == Servers \ Portless
UniqueVersion(p) ==
  LET speaking == {s \in Routed : Native[s] = p}
  IN IF Cardinality(speaking) = 1 THEN CHOOSE s \in speaking : TRUE ELSE "none"

Decision(r, leg) ==
  IF leg.host \in Routed THEN [reason |-> "alias", server |-> leg.host]
  ELSE IF Lobby \in Routed THEN [reason |-> "default", server |-> Lobby]
  ELSE IF r.dispatcher THEN [reason |-> "default", server |-> "none"]
  ELSE IF UniqueVersion(leg.proto) # "none" THEN [reason |-> "version", server |-> UniqueVersion(leg.proto)]
  ELSE [reason |-> "none", server |-> "none"]

\* alias_unbekannt: under our domain, and nobody's.
UnknownAlias(r, leg) == r.domain /\ leg.host = "unknown"
-----------------------------------------------------------------------------
(* _handle_gateway_connection                                              *)
\* Mutant of Foreign767: every join, also one that was translated already.
EveryJoin(leg) == leg.join

Foreign767(leg) == leg.join /\ leg.proto # "767"

\* Other protocols are translated where the lobby is meant: a server that
\* was named speaks them itself.
Translated(r, leg) == Decision(r, leg).reason = "default" /\ Foreign767(leg)

\* The aliases of the hub never reach the dispatcher, which would send the
\* client to them again.
LobbyAlias(r, leg) ==
  leg.join /\ r.domain /\ (r.hub \/ r.mode = "velocity") /\ leg.host \in {"modlobby", "vanlobby"}

\* Mutant of BehindVelocity: the gateway goes straight to every server.
NothingBehindVelocity(r, leg) == FALSE

BehindVelocity(r, leg) == r.mode = "velocity" /\ Decision(r, leg).server \in Backends

Helped(helper, otherwise) == IF helping THEN helper ELSE otherwise

Way(r, leg) ==
  LET d == Decision(r, leg)
  IN IF Translated(r, leg) /\ r.mode = "velocity" THEN Helped("velocity", "told")
     ELSE IF Translated(r, leg) /\ r.via THEN Helped("viaproxy", "told")
     ELSE IF LobbyAlias(r, leg) /\ leg.host = "modlobby" THEN (IF r.hub THEN "hub" ELSE "told")
     ELSE IF LobbyAlias(r, leg) /\ r.mode = "velocity" THEN Helped("velocity", "lost")
     ELSE IF LobbyAlias(r, leg) THEN "hub"
     ELSE IF r.dispatcher /\ d.reason = "default" /\ leg.join THEN "dispatcher"
     ELSE IF ~leg.join /\ UnknownAlias(r, leg) THEN "answered"
     ELSE IF ~leg.join /\ d.reason = "alias" THEN "server"
     ELSE IF BehindVelocity(r, leg) THEN Helped("velocity", "told")
     ELSE IF d.server = "none" THEN (IF leg.join THEN "told" ELSE "answered")
     ELSE "server"

\* A connection meets routes: those of the cache, or new ones.
Handle ==
  /\ trip.at = "gateway"
  /\ routes' = IF routes = NoRoutes THEN netSettings ELSE routes
  /\ LET way == Way(routes', trip)
     IN trip' = [trip EXCEPT !.at = way,
                             !.server = IF way = "server" THEN Decision(routes', trip).server ELSE @]
  /\ UNCHANGED <<netSettings, edits, helping>>

Connect(host, join) ==
  /\ trip.at = "out" /\ netSettings.mode # "off"
  /\ trip' = [trip EXCEPT !.at = "gateway", !.host = host, !.join = join, !.first = host]
  /\ UNCHANGED <<netSettings, edits, routes, helping>>

\* ViaProxy sends the translated stream to the gateway, with the same host.
Translate ==
  /\ trip.at = "viaproxy"
  /\ trip' = [trip EXCEPT !.at = IF netSettings.mode = "off" THEN "lost" ELSE "gateway", !.proto = "767"]
  /\ UNCHANGED <<netSettings, edits, routes, helping>>
-----------------------------------------------------------------------------
(* dispatch                                                                *)
TransferTo(host) ==
  IF host = "none" \/ ~netSettings.domain THEN "told" ELSE host

\* Mutant of PackHost: the recording of a server is taken for its pack.
PackHostOfMatch(c) == IF c.fit = "missing" THEN "told" ELSE TransferTo("modlobby")

\* A pack meets the hub only with a replay its client covers: its server's,
\* or the default one; otherwise its recording is asked for.
PackHost(c) == IF c.fit = "fits" THEN TransferTo("modlobby") ELSE "told"

Target(c) ==
  IF c.pack = "vanilla" /\ netSettings.mode = "velocity" THEN TransferTo("vanlobby")
  ELSE IF c.pack = "vanilla" /\ netSettings.hub /\ netSettings.replay THEN TransferTo("vanlobby")
  ELSE IF c.pack = "vanilla" THEN TransferTo(Lobby)
  ELSE IF netSettings.hub THEN PackHost(c)
  ELSE TransferTo(c.pack)

\* The client follows the transfer in its own protocol, or it cannot.
Dispatch ==
  /\ trip.at = "dispatcher"
  /\ LET host == Target(trip.client)
     IN \/ /\ host = "told" \/ netSettings.mode = "off"
           /\ trip' = [trip EXCEPT !.at = "told"]
        \/ /\ host # "told" /\ netSettings.mode # "off"
           /\ trip' = [trip EXCEPT !.at = "gateway", !.host = host, !.proto = trip.client.proto]
        \/ /\ trip.client.proto # "767"
           /\ trip' = [trip EXCEPT !.at = "lost"]
  /\ UNCHANGED <<netSettings, edits, routes, helping>>
-----------------------------------------------------------------------------
\* An administrator saves another setting while a client travels.
ChangeNetSettings ==
  /\ trip.at \notin Ends \cup {"out"} /\ edits < MaxEdits /\ edits' = edits + 1
  /\ netSettings' \in
       {s \in NetSettings : Cardinality({f \in DOMAIN s : s[f] # netSettings[f]}) = 1}
  /\ UNCHANGED <<routes, helping, trip>>

\* reconcile_gateway
ReconcileRoutes ==
  /\ routes # (IF netSettings.mode = "off" THEN NoRoutes ELSE netSettings)
  /\ routes' = IF netSettings.mode = "off" THEN NoRoutes ELSE netSettings
  /\ UNCHANGED <<netSettings, edits, helping, trip>>

HelperEnds ==
  /\ trip.at \notin Ends
  /\ helping /\ helping' = FALSE
  /\ UNCHANGED <<netSettings, edits, routes, trip>>

EntranceNext ==
  \/ \E host \in Servers \cup Names, join \in BOOLEAN : Connect(host, join)
  \/ Handle \/ Translate \/ Dispatch
  \/ ChangeNetSettings \/ ReconcileRoutes \/ HelperEnds

Travel == Handle \/ Translate \/ Dispatch

\* The manager serves its connections and reconciles every 15 seconds.
EntranceFairness == WF_entranceVars(Travel) /\ WF_entranceVars(ReconcileRoutes)

EntranceSpec == EntranceInit /\ [][EntranceNext]_entranceVars /\ EntranceFairness
-----------------------------------------------------------------------------
(* A player who names a server gets there, behind Velocity or directly, or  *)
(* is told why not; neither the translation nor the dispatcher nor the hub  *)
(* takes him, whatever settings change on the way.                          *)
AliasIsMeant ==
  trip.join /\ trip.first \in Routed =>
    /\ trip.at \in {"out", "gateway", "server", "velocity", "told"}
    /\ trip.at = "server" => trip.server = trip.first

(* Behind Velocity a server trusts what Velocity says of a player: no way   *)
(* through the gateway, by its alias, as the lobby, by its version, after a *)
(* translation or a transfer, leads a player to it past Velocity.           *)
BackendsBehindVelocity ==
  [][trip.at = "gateway" /\ trip'.at = "server" /\ trip.join
       => ~(routes'.mode = "velocity" /\ trip'.server \in Backends)]_entranceVars

(* The hub shows a pack the registry of the replay; a client of mods the    *)
(* replay does not cover is never led there, only the player's own choice   *)
(* of the name brings it.                                                   *)
PacksMeetTheirReplay ==
  trip.at = "hub" /\ trip.host = "modlobby" /\ trip.first # "modlobby"
    => trip.client.fit = "fits"

(* Both of a trip: the name he gave and the replay he is shown.             *)
NamesLeadRight == AliasIsMeant /\ PacksMeetTheirReplay

(* Whatever names translations and transfers lead to, a trip comes to an    *)
(* end: the gateway, ViaProxy and the dispatcher do not pass a player       *)
(* around for ever.                                                         *)
TripsEnd == trip.at # "out" ~> trip.at \in Ends
=============================================================================
