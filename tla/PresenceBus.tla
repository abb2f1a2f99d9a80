----------------------------- MODULE PresenceBus -----------------------------
(* The presence bridge (app/services/presence_bridge_service.py): the lobby *)
(* hub and the plugin of the Paper lobby tell a bus who is with them, and   *)
(* each shows the other's players as avatars.  The bus changes its table    *)
(* under a lock and tells its subscribers after the lock is given back, so  *)
(* what several threads tell may arrive in any order.                       *)
(*                                                                          *)
(* Coordinates, skins and chat are left out, and so are numbers of updates: *)
(* an update that comes after a newer one meets an entry that is fresh.     *)
(* Only where the numbering starts again, at a new connection of the        *)
(* plugin, an update may be ignored.                                        *)
EXTENDS Naturals, Sequences, Functions

CONSTANTS
  HubPlayers,    \* sessions of the hub; a player who returns is a new one
  PaperPlayers,  \* players of the Paper lobby
  Links,         \* connections of the plugin
  MaxInbox       \* bound: messages of the plugin under way

ASSUME PresenceAssumption ==
  /\ HubPlayers \cap PaperPlayers = {} /\ MaxInbox \in Nat
  /\ {"hub", "keepalive", "attach", "monitor", "none"}
       \cap (HubPlayers \cup PaperPlayers \cup Links) = {}
  /\ Links \cap (HubPlayers \cup PaperPlayers) = {}

VARIABLES
  enabled,    \* presence_bridge_enabled
  session,    \* sessions of the hub: "out", "in" or "left"
  paper,      \* players of the Paper lobby
  link,       \* the connection the plugin uses
  handler,    \* _handle_plugin_client of each connection
  inbox,      \* what a handler has not read yet
  published,  \* the players a handler has put on the bus
  presences,  \* the bus: who is present, from whom, and since the last TTL
  subs,       \* its subscribers
  avatars,    \* whom each subscriber shows
  telling     \* what each thread is doing at the bus

hubVars   == <<enabled, session>>
paperVars == <<paper, link, inbox>>
linkVars  == <<handler, published>>
busVars   == <<presences, subs, avatars, telling>>
presenceVars == <<hubVars, paperVars, linkVars, busVars>>

Uuids == HubPlayers \cup PaperPlayers
Consumers == {"hub"} \cup Links
Threads == HubPlayers \cup Links \cup {"keepalive", "attach", "monitor"}
Nobody == "none"

\* What a thread still has to do at the bus, and the event it is telling to
\* the subscribers left: what was done to whom.
Doing == [act : {"none", "up", "rm", "swept", "subscribed", "show"}, todo : SUBSET Uuids,
          event : {"none", "up", "rm"}, who : Uuids \cup {Nobody}, to : SUBSET Consumers]
Resting == [act |-> "none", todo |-> {}, event |-> "none", who |-> Nobody, to |-> {}]
Start(act, who) == [Resting EXCEPT !.act = act, !.todo = who]
Rested(d) ==
  LET told == IF d.to = {} THEN [d EXCEPT !.event = "none", !.who = Nobody] ELSE d
  IN IF told.todo = {} /\ told.event = "none" /\ told.act # "subscribed" THEN Resting ELSE told

Free(t) == telling[t] = Resting
OnBus == DOMAIN presences

PresenceTypeOK ==
  /\ enabled \in BOOLEAN
  /\ session \in [HubPlayers -> {"out", "in", "left"}]
  /\ paper \subseteq PaperPlayers /\ link \in Links \cup {Nobody}
  /\ handler \in [Links -> {"closed", "welcomed", "reading"}]
  /\ inbox \in [Links -> Seq([t : {"up", "rm"}, who : PaperPlayers])]
  /\ published \in [Links -> SUBSET PaperPlayers]
  /\ OnBus \subseteq Uuids /\ \A u \in OnBus : presences[u] \in [from : {"hub"} \cup Links, fresh : BOOLEAN]
  /\ subs \subseteq Consumers
  /\ avatars \in [Consumers -> SUBSET Uuids]
  /\ telling \in [Threads -> Doing]

PresenceInit ==
  /\ enabled = TRUE
  /\ session = [h \in HubPlayers |-> "out"]
  /\ paper = {} /\ link = Nobody
  /\ handler = [c \in Links |-> "closed"]
  /\ inbox = [c \in Links |-> <<>>]
  /\ published = [c \in Links |-> {}]
  /\ presences = [u \in {} |-> [from |-> "hub", fresh |-> TRUE]]
  /\ subs = {} /\ avatars = [c \in Consumers |-> {}]
  /\ telling = [t \in Threads |-> Resting]
-----------------------------------------------------------------------------
(* The bus.  A thread changes the table under the lock, copies the list of  *)
(* subscribers, and calls them one by one without it.                       *)
Source(t) == IF t \in Links THEN t ELSE "hub"
Event(t, u, kind) ==
  Rested([telling[t] EXCEPT !.todo = @ \ {u}, !.event = kind, !.who = u, !.to = subs])
Passed(t, u) == Rested([telling[t] EXCEPT !.todo = @ \ {u}])

\* PresenceBus.upsert.  The numbering of another connection may be ahead.
Ignored(t, u) == u \in OnBus /\ Source(t) # presences[u].from
Upsert(t, u) ==
  \/ /\ presences' = [v \in OnBus \cup {u} |->
           IF v = u THEN [from |-> Source(t), fresh |-> TRUE] ELSE presences[v]]
     /\ telling' = [telling EXCEPT ![t] = Event(t, u, "up")]
  \/ /\ Ignored(t, u)
     /\ telling' = [telling EXCEPT ![t] = Passed(t, u)]
     /\ UNCHANGED presences

\* PresenceBus.remove
Remove(t, u) ==
  /\ presences' = Restrict(presences, OnBus \ {u})
  /\ telling' = [telling EXCEPT ![t] = IF u \in OnBus THEN Event(t, u, "rm") ELSE Passed(t, u)]

\* The next entry of a thread that has told about the one before.
AtBus(t) ==
  /\ telling[t].event = "none"
  /\ \E u \in telling[t].todo :
       \/ telling[t].act = "up" /\ Upsert(t, u) /\ UNCHANGED avatars
       \/ telling[t].act = "rm" /\ Remove(t, u) /\ UNCHANGED avatars
       \/ /\ telling[t].act = "swept"
          /\ telling' = [telling EXCEPT ![t] = Event(t, u, "rm")]
          /\ UNCHANGED <<presences, avatars>>
       \/ /\ telling[t].act = "show"
          /\ avatars' = [avatars EXCEPT ![IF t = "attach" THEN "hub" ELSE t] = @ \cup {u}]
          /\ telling' = [telling EXCEPT ![t] = Passed(t, u)]
          /\ UNCHANGED presences
  /\ UNCHANGED <<hubVars, paperVars, linkVars, subs>>

\* _on_bridge_event of the hub, on_bus of a handler: not one's own players.
Foreign(c, u) == u \in (IF c = "hub" THEN PaperPlayers ELSE HubPlayers)

\* Mutant of Shown: an update of one who is not shown is dropped.
ShownOnlyBySnapshot(c, u, kind) == IF kind = "rm" THEN avatars[c] \ {u} ELSE avatars[c]

\* An update of one who is not shown shows him, too.
Shown(c, u, kind) == IF kind = "rm" THEN avatars[c] \ {u} ELSE avatars[c] \cup {u}

Tell(t) ==
  /\ \E c \in telling[t].to :
       LET e == telling[t]
       IN /\ avatars' = [avatars EXCEPT ![c] =
               IF Foreign(c, e.who) /\ c \in {"hub", link} THEN Shown(c, e.who, e.event) ELSE @]
          /\ telling' = [telling EXCEPT ![t] = Rested([e EXCEPT !.to = @ \ {c}])]
  /\ UNCHANGED <<hubVars, paperVars, linkVars, presences, subs>>

\* 30 seconds without an update.
Age(u) ==
  /\ u \in OnBus /\ presences[u].fresh
  /\ presences' = [presences EXCEPT ![u].fresh = FALSE]
  /\ UNCHANGED <<hubVars, paperVars, linkVars, subs, avatars, telling>>

\* Mutant of Stale: only the plugin's players are swept.
StaleOfPaper == {u \in OnBus \cap PaperPlayers : ~presences[u].fresh}

\* PresenceBus.sweep, every tick of the monitor while the bridge is enabled.
Stale == {u \in OnBus : ~presences[u].fresh}
Sweep ==
  /\ enabled /\ Free("monitor") /\ Stale # {}
  /\ presences' = Restrict(presences, OnBus \ Stale)
  /\ telling' = [telling EXCEPT !["monitor"] = Start("swept", Stale)]
  /\ UNCHANGED <<hubVars, paperVars, linkVars, subs, avatars>>
-----------------------------------------------------------------------------
(* The hub                                                                 *)
Attached == "hub" \in subs
Begin(t, d) ==
  /\ Free(t)
  /\ telling' = [telling EXCEPT ![t] = IF Attached THEN d ELSE @]
  /\ UNCHANGED <<enabled, paperVars, linkVars, presences, subs, avatars>>

\* A player joins, moves and leaves in the thread of his session.
HubJoin(h) ==
  /\ session[h] = "out" /\ session' = [session EXCEPT ![h] = "in"]
  /\ Begin(h, Start("up", {h}))

HubMove(h) ==
  /\ session[h] = "in" /\ Attached /\ UNCHANGED session
  /\ Begin(h, Start("up", {h}))

HubLeave(h) ==
  /\ session[h] = "in" /\ session' = [session EXCEPT ![h] = "left"]
  /\ Begin(h, Start("rm", {h}))

\* The keepalive lists the sessions under the lock, the thread that fetched
\* a skin asks whether its session is alive; they publish afterwards.
Keepalive ==
  /\ Attached /\ UNCHANGED session
  /\ \E h \in HubPlayers : session[h] = "in"
  /\ Begin("keepalive", Start("up", {h \in HubPlayers : session[h] = "in"}))

\* _sync_bridge: attach_bridge subscribes, then shows whom the bus knows.
Attach ==
  /\ enabled /\ ~Attached /\ Free("attach")
  /\ subs' = subs \cup {"hub"}
  /\ telling' = [telling EXCEPT !["attach"] = Start("subscribed", {})]
  /\ UNCHANGED <<hubVars, paperVars, linkVars, presences, avatars>>

Snapshot(t, who) ==
  /\ telling[t].act = "subscribed"
  /\ telling' = [telling EXCEPT ![t] = Rested(Start("show", who))]
  /\ UNCHANGED <<hubVars, paperVars, linkVars, presences, subs, avatars>>
AttachSnapshot == Snapshot("attach", PaperPlayers \cap OnBus)

Detach ==
  /\ ~enabled /\ Attached /\ Free("attach")
  /\ subs' = subs \ {"hub"}
  /\ avatars' = [avatars EXCEPT !["hub"] = {}]
  /\ UNCHANGED <<hubVars, paperVars, linkVars, presences, telling>>

SetEnabled ==
  /\ enabled' = ~enabled
  /\ UNCHANGED <<session, paperVars, linkVars, busVars>>
-----------------------------------------------------------------------------
(* The plugin of the Paper lobby and its connection                        *)

\* The plugin connects and is authenticated; its handler subscribes.
PluginConnects(c) ==
  /\ enabled /\ link = Nobody /\ handler[c] = "closed" /\ Free(c)
  /\ link' = c /\ handler' = [handler EXCEPT ![c] = "welcomed"]
  /\ inbox' = [inbox EXCEPT ![c] = <<>>]
  /\ subs' = subs \cup {c}
  /\ telling' = [telling EXCEPT ![c] = Start("subscribed", {})]
  /\ UNCHANGED <<hubVars, paper, published, presences, avatars>>

HandlerSnapshot(c) == Snapshot(c, HubPlayers \cap OnBus)

HandlerListens(c) ==
  /\ handler[c] = "welcomed" /\ Free(c)
  /\ handler' = [handler EXCEPT ![c] = "reading"]
  /\ UNCHANGED <<hubVars, paperVars, published, busVars>>

\* The connection breaks: the plugin drops its avatars and connects again.
LinkBreaks ==
  /\ link # Nobody /\ link' = Nobody
  /\ avatars' = [avatars EXCEPT ![link] = {}]
  /\ UNCHANGED <<hubVars, paper, inbox, linkVars, presences, subs, telling>>

\* Messages go through the connection, in order; without one they are lost.
Sends(m) ==
  IF link = Nobody THEN UNCHANGED inbox
  ELSE /\ Len(inbox[link]) < MaxInbox
       /\ inbox' = [inbox EXCEPT ![link] = Append(@, m)]

PaperJoin(p) ==
  /\ p \notin paper /\ paper' = paper \cup {p}
  /\ UNCHANGED <<hubVars, link, inbox, linkVars, busVars>>

PaperQuit(p) ==
  /\ p \in paper /\ paper' = paper \ {p}
  /\ Sends([t |-> "rm", who |-> p])
  /\ UNCHANGED <<hubVars, link, linkVars, busVars>>

PaperPublishes(p) ==
  /\ p \in paper /\ link # Nobody
  /\ Sends([t |-> "up", who |-> p])
  /\ UNCHANGED <<hubVars, paper, link, linkVars, busVars>>

HandlerReads(c) ==
  /\ handler[c] = "reading" /\ Free(c) /\ inbox[c] # <<>>
  /\ LET m == Head(inbox[c])
     IN /\ published' = [published EXCEPT ![c] = IF m.t = "up" THEN @ \cup {m.who} ELSE @ \ {m.who}]
        /\ telling' = [telling EXCEPT ![c] = Start(m.t, {m.who})]
  /\ inbox' = [inbox EXCEPT ![c] = Tail(@)]
  /\ UNCHANGED <<hubVars, paper, link, handler, presences, subs, avatars>>

\* Mutant of Withdrawn: only who is still in the lobby's list is withdrawn.
WithdrawnOfPaper(c) == published[c] \cap paper

\* The players a handler takes off the bus when its connection ends.
Withdrawn(c) == published[c]

\* A read that ends or times out, at the latest 65 seconds after the break.
HandlerEnds(c) ==
  /\ handler[c] \in {"welcomed", "reading"} /\ link # c /\ Free(c)
  /\ handler' = [handler EXCEPT ![c] = "closed"]
  /\ published' = [published EXCEPT ![c] = {}]
  /\ inbox' = [inbox EXCEPT ![c] = <<>>]
  /\ subs' = subs \ {c}
  /\ telling' = [telling EXCEPT ![c] = Rested(Start("rm", Withdrawn(c)))]
  /\ UNCHANGED <<hubVars, paper, link, presences, avatars>>
-----------------------------------------------------------------------------
BusStep(t) == AtBus(t) \/ Tell(t)
HandlerStep(c) == HandlerSnapshot(c) \/ HandlerListens(c) \/ HandlerReads(c) \/ HandlerEnds(c)

PresenceNext ==
  \/ \E t \in Threads : BusStep(t)
  \/ \E u \in Uuids : Age(u)
  \/ Sweep \/ Keepalive \/ Attach \/ AttachSnapshot \/ Detach \/ SetEnabled
  \/ \E h \in HubPlayers : HubJoin(h) \/ HubMove(h) \/ HubLeave(h)
  \/ \E c \in Links : PluginConnects(c) \/ HandlerStep(c)
  \/ LinkBreaks
  \/ \E p \in PaperPlayers : PaperJoin(p) \/ PaperQuit(p) \/ PaperPublishes(p)

\* Threads run; the keepalive and the monitor have their beats; the plugin
\* sends every player again after 10 seconds at the latest.
PresenceFairness ==
  /\ \A t \in Threads : WF_presenceVars(BusStep(t))
  /\ \A u \in Uuids : WF_presenceVars(Age(u))
  /\ \A c \in Links : WF_presenceVars(HandlerStep(c))
  /\ \A p \in PaperPlayers : WF_presenceVars(PaperPublishes(p))
  /\ WF_presenceVars((Attach \/ AttachSnapshot))
  /\ WF_presenceVars(Sweep) /\ WF_presenceVars(Keepalive)

PresenceSpec == PresenceInit /\ [][PresenceNext]_presenceVars /\ PresenceFairness
-----------------------------------------------------------------------------
(* Every player of the Paper lobby on the bus is there by a connection      *)
(* whose handler will take him off again, or is about to: whatever          *)
(* connections overlap and break, the bus keeps no one whose connection is  *)
(* over and done with.                                                      *)
PaperPresencesAreOwned ==
  \A p \in PaperPlayers \cap OnBus :
    \E c \in Links : p \in published[c] \/ (telling[c].act = "rm" /\ p \in telling[c].todo)

(* Who left the hub is off the bus for good at some time: what keepalive    *)
(* and skin threads still publish of him ages and is swept, and nobody      *)
(* publishes him again.                                                     *)
LeaversFade ==
  \A h \in HubPlayers : <>[]enabled => (session[h] = "left" ~> [](h \notin OnBus))

(* Who stays in the hub is shown in the Paper lobby again and again while   *)
(* the connection stands, whatever removals came late: an update of someone *)
(* who is not shown shows him.                                              *)
StayersAreShown ==
  \A h \in HubPlayers, c \in Links :
    <>[](enabled /\ session[h] = "in" /\ link = c) => []<>(h \in avatars[c])

(* "verwaiste Avatare (Crash/Server-Wechsel) aufraeumen" (head of           *)
(* presence_bridge_service.py): the avatar of a player who left goes away.  *)
(* An update of the keepalive told after the removal brings it back, and    *)
(* when the bus entry is gone nothing takes it away.                        *)
AvatarsFade ==
  \A h \in HubPlayers :
    <>[]enabled => (session[h] = "left" ~> \A c \in Links : h \notin avatars[c])

(* Both together: whatever order the threads publish, age and remove in,   *)
(* the bus comes to show the hub as it is.                                 *)
PresencesSettle == LeaversFade /\ StayersAreShown

=============================================================================
