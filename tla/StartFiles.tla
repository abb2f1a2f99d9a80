------------------------------ MODULE StartFiles ------------------------------
(* What a server's game reads when it is launched: server.properties and    *)
(* Paper's and Spigot's own files.  A start, the settings pages and a       *)
(* capture of the server's first packets write them (server_service.py,     *)
(* properties_service.py, hub_capture_service.py, content_service.py).      *)
(*                                                                          *)
(* Every value is written by reading the whole file and writing it back;    *)
(* nothing locks it, and a write that fails is a warning nobody reads.  A   *)
(* capture turns the login check off, restarts the server, records one      *)
(* client and puts back what it found; it remembers that in its thread.     *)
EXTENDS Naturals, Sequences

CONSTANTS
  Captures,   \* threads that capture
  ServerPacks,
  Hitches,    \* of "locked", "raises", "ends"
  MaxWishes   \* bound on requests

ASSUME StartAssumption ==
  {"start", "page"} \cap Captures = {} /\ "" \notin ServerPacks

VARIABLES
  props,    \* server.properties
  yaml,     \* forwarding in paper-global.yml, bungeecord in spigot.yml
  backend,  \* is_velocity_backend
  packRow,  \* the row of the server's resource pack
  doing,    \* the threads
  game,     \* what the running game has read
  session,  \* _SESSIONS: the status of the last capture
  meant,    \* history: who last decided on the login check, and how
  excuse,   \* history: what went wrong
  wishes
startVars == <<props, yaml, backend, packRow, doing, game, session, meant, excuse, wishes>>

Jobs == {"start", "page"} \cup Captures
Properties ==
  [online : {"unset", "true", "false"}, threshold : {"unset", "256", "-1"},
   bind : {"", "loopback"}, url : ServerPacks \cup {""}, sha : ServerPacks \cup {""}]
NoTask == [stage |-> "off", todo |-> <<>>, inside |-> FALSE,
         base |-> [online |-> "unset", threshold |-> "unset", bind |-> "", url |-> "", sha |-> ""],
         old |-> [online |-> "unset", threshold |-> "unset"], pack |-> ""]
NoGame == [on |-> FALSE, offline |-> FALSE, bind |-> "", forward |-> FALSE, bungee |-> FALSE,
           captured |-> FALSE, wanted |-> FALSE]
Offline(p) == p.online = "false"

StartTypeOK ==
  /\ props \in Properties /\ yaml \in [forward : BOOLEAN, bungee : BOOLEAN]
  /\ DOMAIN doing = Jobs /\ \A t \in Jobs : doing[t].base \in Properties
  /\ packRow \in ServerPacks \cup {""}
  /\ session \in {"none", "active", "error", "done"}
  /\ excuse \subseteq {"lost", "locked", "raised", "ended", "overtaken", "recaptured"}

\* A server of its own, whose owner may want no login check, or a backend as its last start
\* left it; bungeecord may be left from another time.
StartInit ==
  /\ backend \in BOOLEAN
  /\ props \in {p \in Properties : p.threshold = "unset" /\ p.url = "" /\ p.sha = ""}
  /\ yaml \in [forward : {backend}, bungee : BOOLEAN]
  /\ IF backend THEN Offline(props) /\ props.bind = "loopback" ELSE props.bind = ""
  /\ meant = [by |-> IF backend THEN "start" ELSE "page", off |-> Offline(props)]
  /\ packRow = "" /\ doing = [t \in Jobs |-> NoTask] /\ game = NoGame
  /\ session = "none" /\ excuse = {} /\ wishes = 0

Does(t, w) == doing' = [doing EXCEPT ![t] = w]
AtStage(t, stage) == doing[t].stage = stage /\ doing[t].todo = <<>>
Then(t, stage, todo) == [doing[t] EXCEPT !.stage = stage, !.todo = todo]
Wishes == wishes < MaxWishes /\ wishes' = wishes + 1
Capturing(c) == doing[c].stage # "off"
\* Between its first write and its last a capture has changed the file.
Turned(c) ==
  \/ doing[c].stage \in {"prepared", "starting", "waiting", "ending"}
  \/ doing[c].stage = "restored" /\ doing[c].todo # <<>>
-----------------------------------------------------------------------------
(* One value: schreibe_wert reads the file, and writes it back             *)

\* The keys nobody asks about here (ports, transfers, the pause, the whitelist, the number
\* of players, the message of the day) are "other".
Put(p, key, value) == IF key = "other" THEN p ELSE [p EXCEPT ![key] = value]
OtherKey == <<"other", "">>

ReadProps(t) ==
  /\ doing[t].todo # <<>> /\ ~doing[t].inside
  /\ Does(t, [doing[t] EXCEPT !.inside = TRUE, !.base = props])
  /\ UNCHANGED <<props, yaml, backend, packRow, game, session, meant, excuse, wishes>>

\* Whoever writes between, his value is lost.  What a capture writes is meant by nobody.
WriteProps(t) ==
  /\ doing[t].inside
  /\ LET key == Head(doing[t].todo)[1]
         value == Head(doing[t].todo)[2]
         decides == key = "online" /\ t \notin Captures
     IN /\ props' = Put(doing[t].base, key, value)
        /\ meant' = IF decides THEN [by |-> t, off |-> value = "false"] ELSE meant
        /\ excuse' = excuse
             \cup (IF doing[t].base # props THEN {"lost"} ELSE {})
             \cup (IF meant'.off # meant.off /\ \E c \in Captures : Capturing(c)
                   THEN {"overtaken"} ELSE {})
  /\ Does(t, [doing[t] EXCEPT !.todo = Tail(@), !.inside = FALSE, !.base = NoTask.base])
  /\ UNCHANGED <<yaml, backend, packRow, game, session, wishes>>

\* The file is in use: a warning.
WriteRefused(t) ==
  /\ "locked" \in Hitches /\ doing[t].inside
  /\ excuse' = excuse \cup {"locked"}
  /\ Does(t, [doing[t] EXCEPT !.todo = Tail(@), !.inside = FALSE, !.base = NoTask.base])
  /\ UNCHANGED <<props, yaml, backend, packRow, game, session, meant, wishes>>
-----------------------------------------------------------------------------
(* The start                                                               *)

\* prepare_ports_before_start
Starting == [NoTask EXCEPT !.stage = "ports", !.todo = <<OtherKey>>]
StartBegins ==
  /\ doing["start"].stage = "off" /\ ~game.on
  /\ Does("start", Starting)
  /\ UNCHANGED <<props, yaml, backend, packRow, game, session, meant, excuse, wishes>>

\* A bug: the login check goes although the forwarding could not be written.
OfflineAnyway(written) == <<<<"online", "false">>, <<"bind", "loopback">>, OtherKey>>
\* First the forwarding; only if it is written the login check goes and the server binds
\* loopback.  Then accept-transfers and the pause.
AfterForwarding(written) ==
  IF written THEN <<<<"online", "false">>, <<"bind", "loopback">>, OtherKey>>
  ELSE <<<<"online", "true">>, OtherKey>>

\* apply_velocity_backend_forwarding; bungeecord is put off as well as it goes.
Forward ==
  /\ AtStage("start", "ports") /\ backend
  /\ \E written, unset \in BOOLEAN :
       /\ yaml' = [forward |-> written \/ yaml.forward,
                   bungee |-> yaml.bungee /\ ~(written /\ unset)]
       /\ excuse' = IF written /\ yaml.bungee /\ ~unset THEN excuse \cup {"locked"} ELSE excuse
       /\ Does("start", Then("start", "tail", AfterForwarding(written)))
  /\ UNCHANGED <<props, backend, packRow, game, session, meant, wishes>>

\* cleanup_velocity_leftovers: the manager knows its own work by the loopback bind.
Cleanup ==
  /\ AtStage("start", "ports") /\ ~backend
  /\ Does("start",
          IF props.bind = "loopback"
          THEN Then("start", "leftovers", <<<<"online", "true">>, <<"bind", "">>>>)
          ELSE Then("start", "forwarding", <<>>))
  /\ UNCHANGED <<props, yaml, backend, packRow, game, session, meant, excuse, wishes>>

CleanYaml ==
  /\ AtStage("start", "leftovers") \/ AtStage("start", "forwarding")
  /\ \E forward, bungee \in BOOLEAN :
       yaml' = [forward |-> yaml.forward /\ forward,
                bungee |-> yaml.bungee /\ (bungee \/ doing["start"].stage = "forwarding")]
  /\ Does("start", Then("start", "tail", <<OtherKey>>))
  /\ UNCHANGED <<props, backend, packRow, game, session, meant, excuse, wishes>>

\* The game reads its files, or the start fails after all.
GameReads ==
  /\ AtStage("start", "tail") /\ Does("start", NoTask)
  /\ game' \in {NoGame, [on |-> TRUE, offline |-> Offline(props), bind |-> props.bind,
                         forward |-> yaml.forward, bungee |-> yaml.bungee,
                         captured |-> \E c \in Captures : Turned(c),
                         wanted |-> meant.by = "page" /\ meant.off]}
  /\ UNCHANGED <<props, yaml, backend, packRow, session, meant, excuse, wishes>>

GameStops ==
  /\ game.on /\ game' = NoGame
  /\ UNCHANGED <<props, yaml, backend, packRow, doing, session, meant, excuse, wishes>>
-----------------------------------------------------------------------------
(* The settings                                                            *)

\* The network's mode or the server's part in it.
SwitchRole ==
  /\ Wishes /\ backend' = ~backend
  /\ UNCHANGED <<props, yaml, packRow, doing, game, session, meant, excuse>>

Page(stage, p, todo) ==
  /\ Wishes /\ doing["page"].stage = "off"
  /\ Does("page", [NoTask EXCEPT !.stage = stage, !.pack = p, !.todo = todo])
  /\ UNCHANGED <<props, yaml, backend, packRow, game, session, meant, excuse>>

PackKeys(p) == <<<<"url", p>>, <<"sha", p>>, OtherKey>>
\* set_server_resource_pack, and delete_installed_content of the pack
SetPack(p) == Page("pack", p, PackKeys(p))
DeletePack == packRow # "" /\ Page("pack", "", PackKeys(""))
PackStored ==
  /\ AtStage("page", "pack") /\ packRow' = doing["page"].pack
  /\ Does("page", NoTask)
  /\ UNCHANGED <<props, yaml, backend, game, session, meant, excuse, wishes>>

\* The editor saves the text its page was opened with, changed.
EditLogin(value) == Page("edit", "", <<<<"online", value>>>>)
\* access_whitelist_toggle_action
ToggleWhitelist == Page("edit", "", <<OtherKey>>)
\* update_server_settings: the number of players, the message of the day.
SaveSettings == Page("edit", "", <<OtherKey, OtherKey>>)
PageEnds ==
  /\ AtStage("page", "edit") /\ Does("page", NoTask)
  /\ UNCHANGED <<props, yaml, backend, packRow, game, session, meant, excuse, wishes>>
-----------------------------------------------------------------------------
(* The capture                                                             *)

\* start_capture_for_server, by a form or by a client of a pack nobody knows.  A capture
\* that has failed is no longer active, though it has yet to put the file back.
BeginCapture(c) ==
  /\ Wishes /\ doing[c].stage = "off" /\ session # "active"
  /\ session' = "active" /\ Does(c, [NoTask EXCEPT !.stage = "remember"])
  /\ excuse' = IF \E d \in Captures : Capturing(d) THEN excuse \cup {"recaptured"} ELSE excuse
  /\ UNCHANGED <<props, yaml, backend, packRow, game, meant>>

\* A bug: what was not set is put back as it is found while the capture lasts.
RememberedLate(p) == [online |-> "unset", threshold |-> p.threshold]
Remembered(p) == [online |-> p.online, threshold |-> p.threshold]

\* _prepare
Remember(c) ==
  /\ AtStage(c, "remember")
  /\ Does(c, [Then(c, "prepared", <<<<"online", "false">>, <<"threshold", "-1">>>>)
                EXCEPT !.old = Remembered(props)])
  /\ UNCHANGED <<props, yaml, backend, packRow, game, session, meant, excuse, wishes>>

\* restart_server: stop, then start; with a start at work it is refused, and nobody asks.
Restart(c, from, to) ==
  /\ AtStage(c, from)
  /\ IF doing["start"].stage = "off"
     THEN /\ game' = NoGame
          /\ doing' = [doing EXCEPT ![c].stage = to, !["start"] = Starting]
     ELSE UNCHANGED game /\ Does(c, Then(c, to, <<>>))
  /\ UNCHANGED <<props, yaml, backend, packRow, session, meant, excuse, wishes>>

\* The restart raises: what was there is forgotten.
PrepareRaises(c) ==
  /\ "raises" \in Hitches /\ AtStage(c, "prepared")
  /\ Does(c, NoTask) /\ session' = "error" /\ excuse' = excuse \cup {"raised"}
  /\ UNCHANGED <<props, yaml, backend, packRow, game, meant, wishes>>

Started(c) ==
  /\ AtStage(c, "starting") /\ doing["start"].stage = "off"
  /\ Does(c, Then(c, "waiting", <<>>))
  /\ UNCHANGED <<props, yaml, backend, packRow, game, session, meant, excuse, wishes>>

\* record_capture: a client came or none did.
Recorded(c) ==
  /\ AtStage(c, "waiting") /\ session' \in {session, "error"}
  /\ Does(c, Then(c, "ending", <<>>))
  /\ UNCHANGED <<props, yaml, backend, packRow, game, meant, excuse, wishes>>

\* _restore: what was not set becomes the default.
Restore(c) ==
  /\ AtStage(c, "ending")
  /\ LET old == doing[c].old IN
     Does(c, Then(c, "restored",
       <<<<"online", IF old.online = "unset" THEN "true" ELSE old.online>>,
         <<"threshold", IF old.threshold = "unset" THEN "256" ELSE old.threshold>>>>))
  /\ UNCHANGED <<props, yaml, backend, packRow, game, session, meant, excuse, wishes>>

\* _run_capture ends: the status is that of whatever session there is.
CaptureEnds(c) ==
  /\ AtStage(c, "restarting") /\ doing["start"].stage = "off"
  /\ Does(c, NoTask) /\ session' = IF session = "error" THEN "error" ELSE "done"
  /\ UNCHANGED <<props, yaml, backend, packRow, game, meant, excuse, wishes>>

\* The manager ends, and its servers with it.
ManagerEnds ==
  /\ "ends" \in Hitches /\ \E t \in Jobs : doing[t].stage # "off"
  /\ doing' = [t \in Jobs |-> NoTask] /\ game' = NoGame /\ session' = "none"
  /\ excuse' = excuse \cup {"ended"}
  /\ UNCHANGED <<props, yaml, backend, packRow, meant, wishes>>

CaptureStep(c) ==
  \/ BeginCapture(c) \/ Remember(c) \/ PrepareRaises(c) \/ Started(c) \/ Recorded(c)
  \/ Restore(c) \/ CaptureEnds(c)
  \/ Restart(c, "prepared", "starting") \/ Restart(c, "restored", "restarting")

StartNext ==
  \/ \E t \in Jobs : ReadProps(t) \/ WriteProps(t) \/ WriteRefused(t)
  \/ StartBegins \/ Forward \/ Cleanup \/ CleanYaml \/ GameReads \/ GameStops
  \/ \E p \in ServerPacks : SetPack(p)
  \/ DeletePack \/ PackStored \/ \E v \in {"true", "false"} : EditLogin(v)
  \/ ToggleWhitelist \/ SaveSettings \/ PageEnds \/ SwitchRole \/ ManagerEnds
  \/ \E c \in Captures : CaptureStep(c)

StartSpec == StartInit /\ [][StartNext]_startVars
-----------------------------------------------------------------------------
(* Properties                                                              *)

\* apply_velocity_backend_forwarding: no game runs without the login check unless Velocity
\* stands before it, a capture is at work, or the owner wanted it so; and a backend's game
\* forwards in one way only.
OfflineIsForwarded ==
  game.on /\ excuse = {} =>
    /\ game.offline =>
         \/ game.forward /\ game.bind = "loopback"
         \/ game.captured \/ game.wanted
    /\ game.offline /\ game.forward => ~game.bungee \/ game.captured \/ game.wanted

\* _run_capture: when it is over the file says of the login check what somebody meant, and
\* packets are compressed again.
CaptureLeavesNoTrace ==
  excuse = {} /\ (\A c \in Captures : ~Capturing(c)) =>
    Offline(props) = meant.off /\ props.threshold # "-1"

\* apply_server_resource_pack: the pack's address, its checksum and its row belong together.
PackMatchesItsHash ==
  excuse = {} /\ doing["page"].stage # "pack" =>
    props.url = packRow /\ props.sha = packRow

SettingsSurvive == CaptureLeavesNoTrace /\ PackMatchesItsHash

=============================================================================
