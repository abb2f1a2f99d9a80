--------------------------- MODULE ServerRecords ---------------------------
(***************************************************************************)
(* The servers of the database (server_service.py, provisioning_service.py,*)
(* lobby_service.py, port_service.py, the servers router): what creating,  *)
(* importing, duplicating, renaming, setting up and deleting a server      *)
(* write, beside each other.                                               *)
(*                                                                         *)
(* A request runs in a thread of the pool; a duplication's thread goes on  *)
(* as the copy in the background.  A session reads its row once and writes *)
(* the attributes it changed.  SQLite gives a new row the number after the *)
(* largest one.  Names and folders are numbered: <<base, 1>> is the base   *)
(* itself.                                                                 *)
(***************************************************************************)
EXTENDS Naturals, FiniteSetsExt

CONSTANTS
  Clerks,       \* threads
  Bases,        \* names users give
  Ports,        \* the range ports are taken from
  Front,        \* the port of the network's front door
  Forms,        \* what users enter in the settings
  MaxServers,   \* bound on row numbers
  MaxTasks      \* bound on requests

\* The first servers find two ports.
ASSUME RecordsAssumption ==
  /\ MaxServers \in Nat \ {0, 1} /\ Bases # {}
  /\ Ports \subseteq Nat \ {0} /\ \E p, q \in Ports \ {Front} : p # q
  /\ Forms \subseteq [alias : {f.alias : f \in Forms}, default : BOOLEAN, port : Ports \cup {0}, sleep : BOOLEAN]
  /\ "nobody" \notin Clerks

VARIABLES
  servers,      \* committed rows
  folders,      \* folders under the storage root
  allocLock,    \* holder of _SERVER_ALLOC_LOCK
  copies,       \* _ACTIVE_DUP_CLONES and _CANCEL_DUP_CLONES
  clerk,        \* the threads
  menu,         \* the servers the lobby's menu shows
  spoilt,       \* a menu was written late, or not at all
  stranded,     \* clones whose copy was called off or never began
  tasks         \* how many requests there were

recordsVars == <<servers, folders, allocLock, copies, clerk, menu, spoilt, stranded, tasks>>

Nobody == "nobody"
NoAlias == "none"
Nowhere == <<"nowhere", 0>>
NoForm == [alias |-> NoAlias, default |-> FALSE, port |-> 0, sleep |-> FALSE]
NewRow(i, name, slug, dir, port, given) ==
  [id |-> i, name |-> name, slug |-> slug, dir |-> dir, port |-> port, given |-> given, inner |-> 0,
   sleep |-> FALSE, gateway |-> FALSE, alias |-> NoAlias, default |-> FALSE, status |-> "stopped"]
Unread == NewRow(0, Nowhere, Nowhere, Nowhere, 0, FALSE)
\* "loaded" is the row as the session read it, "wanted" as it is to be.
AtRest == [pc |-> "idle", what |-> "none", id |-> 0, source |-> 0, name |-> Nowhere, dir |-> Nowhere,
           port |-> 0, inner |-> 0, named |-> FALSE, form |-> NoForm, loaded |-> Unread, wanted |-> Unread,
           seen |-> {}, former |-> {}]

RecordsTypeOK ==
  /\ \A r \in servers : r.id \in 1..MaxServers /\ {r.port, r.inner} \subseteq Ports \cup {0, Front}
  /\ \A r \in servers : r.status \in {"stopped", "provisioning", "error"}
  /\ \A r, s \in servers : r # s => r.id # s.id /\ r.name # s.name /\ r.slug # s.slug
  /\ allocLock \in Clerks \cup {Nobody}
  /\ copies.active \subseteq 1..MaxServers /\ copies.cancel \subseteq 1..MaxServers

\* The lobby of the network alone, or with a server beside it, which may sleep and keep an
\* internal port from before the network took that one.
RecordsInit ==
  /\ LET b == CHOOSE x \in Bases : TRUE
         free == Ports \ {Front}
         lobby == [NewRow(1, <<b, 1>>, <<b, 1>>, <<b, 1>>, Min(free), FALSE)
                   EXCEPT !.gateway = TRUE, !.alias = b, !.default = TRUE]
         other == NewRow(2, <<b, 2>>, <<b, 2>>, <<b, 2>>, Min(free \ {Min(free)}), FALSE)
         asleep == [other EXCEPT !.sleep = TRUE, !.inner = Front]
     IN  servers \in {{lobby}, {lobby, other}, {lobby, asleep}}
  /\ folders = {r.dir : r \in servers}
  /\ allocLock = Nobody
  /\ copies = [active |-> {}, cancel |-> {}]
  /\ clerk = [t \in Clerks |-> AtRest]
  /\ menu = {[id |-> r.id, name |-> r.name, alias |-> r.alias] : r \in servers}
  /\ spoilt = FALSE
  /\ stranded = {}
  /\ tasks = 0

Ids == {r.id : r \in servers}
NewId == 1 + Max(Ids \cup {0})
Server(i) == CHOOSE r \in servers : r.id = i
\* The first number that is free; there is one before as many are passed over as are taken.
FreeNumber(b, from, taken) == Min({k \in from..(from + Cardinality(taken)) : <<b, k>> \notin taken})
UniqueName(b) == <<b, FreeNumber(b, 1, {r.name : r \in servers})>>
UniqueSlug(n) == <<n[1], FreeNumber(n[1], n[2], {r.slug : r \in servers})>>
UniqueDir(n) == <<n[1], FreeNumber(n[1], n[2], folders)>>
AliasTaken(a, but) == \E r \in servers : r.id # but /\ r.alias = a

UsedPorts(but) == UNION {{r.port, r.inner} : r \in {s \in servers : s.id # but}}
\* A port of the range that no other row has; the host may hold some of them, too.
FreePorts(but, exclude) == Ports \ (UsedPorts(but) \cup exclude)

Goes(t, c) == clerk' = [clerk EXCEPT ![t] = c]
Request(t) == clerk[t].pc = "idle" /\ tasks < MaxTasks /\ tasks' = tasks + 1
Change(i, r) == servers' = {s \in servers : s.id # i} \cup {r}

---------------------------------------------------------------------------
(* Creating a server: a folder nobody has yet, the provider's files in it, *)
(* a name, then port and row under the lock.                               *)

ResolveDirectory(t, b) ==
  /\ Request(t)
  /\ Goes(t, [AtRest EXCEPT !.pc = "provision", !.what = "create", !.name = <<b, 1>>, !.dir = UniqueDir(<<b, 1>>)])
  /\ UNCHANGED <<servers, folders, allocLock, copies, menu, spoilt, stranded>>

\* An import brings its folder, and its port if server.properties has one.
ImportServer(t, b) ==
  /\ Request(t)
  /\ \E dir \in folders, p \in {0, Min(Ports)} :
       Goes(t, [AtRest EXCEPT !.pc = "name", !.what = "create", !.name = <<b, 1>>, !.dir = dir, !.port = p])
  /\ UNCHANGED <<servers, folders, allocLock, copies, menu, spoilt, stranded>>

\* The folder stays if the provider fails.
Provision(t) ==
  /\ clerk[t].pc = "provision"
  /\ folders' = folders \cup {clerk[t].dir}
  /\ Goes(t, [clerk[t] EXCEPT !.pc = "name"]) \/ Goes(t, AtRest)
  /\ UNCHANGED <<servers, allocLock, copies, menu, spoilt, stranded, tasks>>

ChooseName(t) ==
  /\ clerk[t].pc = "name"
  /\ Goes(t, [clerk[t] EXCEPT !.pc = "allocate", !.name = UniqueName(clerk[t].name[1])])
  /\ UNCHANGED <<servers, folders, allocLock, copies, menu, spoilt, stranded, tasks>>

\* A port for the clone, and an internal one if its source may sleep.
ClonePorts(c) ==
  {x \in FreePorts(0, {}) \X (FreePorts(0, {}) \cup {0}) :
     IF c.form.sleep THEN x[2] \in FreePorts(0, {x[1]}) ELSE x[2] = 0}

\* create_server and duplicate_server under the lock: without a free port a server is
\* created portless, but not duplicated.
AllocateUnlocked(t) ==
  /\ clerk[t].pc = "allocate"
  /\ NewId <= MaxServers
  /\ LET c == clerk[t]
     IN \/ /\ c.what # "clone"
           /\ \E p \in IF c.port # 0 THEN {c.port}
                        ELSE IF FreePorts(0, {}) = {} THEN {0} ELSE FreePorts(0, {}) :
                Goes(t, [c EXCEPT !.pc = "insert", !.named = (c.port # 0), !.port = p])
           /\ allocLock' = t
        \/ /\ c.what = "clone"
           /\ \E x \in ClonePorts(c) :
                Goes(t, [c EXCEPT !.pc = "insert", !.name = UniqueName("clone"), !.port = x[1], !.inner = x[2],
                                  !.dir = UniqueDir(UniqueSlug(UniqueName("clone")))])
           /\ allocLock' = t
        \/ /\ c.what = "clone" /\ ClonePorts(c) = {}
           /\ Goes(t, AtRest)
           /\ UNCHANGED allocLock
  /\ UNCHANGED <<servers, folders, copies, menu, spoilt, stranded, tasks>>
Allocate(t) == allocLock = Nobody /\ AllocateUnlocked(t)

\* The UNIQUE columns refuse a name that another request took meanwhile.
Insert(t) ==
  /\ clerk[t].pc = "insert"
  /\ LET c == clerk[t]
         row == NewRow(NewId, c.name, UniqueSlug(c.name), c.dir, c.port, c.named)
     IN IF \E r \in servers : r.name = c.name
        THEN Goes(t, AtRest) /\ UNCHANGED servers
        ELSE /\ servers' = servers \cup
                  {IF c.what = "clone"
                   THEN [row EXCEPT !.status = "provisioning", !.sleep = c.form.sleep, !.inner = c.inner]
                   ELSE row}
             /\ Goes(t, CASE c.what = "clone" -> [c EXCEPT !.pc = "mark", !.id = NewId]
                          [] c.what = "create" -> AtRest
                          [] OTHER -> [c EXCEPT !.pc = "decide", !.id = NewId, !.loaded = row])
  /\ allocLock' = Nobody
  /\ UNCHANGED <<folders, copies, menu, spoilt, stranded, tasks>>

---------------------------------------------------------------------------
(* Duplicating.                                                            *)

Copying(t) == clerk[t].what = "clone" /\ clerk[t].pc \in {"mark", "begin", "mkdir", "copy", "relations"}

DuplicateRequest(t, r) ==
  /\ Request(t)
  /\ r.status # "provisioning"
  /\ ~\E u \in Clerks : Copying(u) /\ clerk[u].source = r.id /\ clerk[u].pc # "mark"
  /\ Goes(t, [AtRest EXCEPT !.pc = "allocate", !.what = "clone", !.source = r.id,
                          !.form = [NoForm EXCEPT !.sleep = r.sleep]])
  /\ UNCHANGED <<servers, folders, allocLock, copies, menu, spoilt, stranded>>

CopyMarked(t) ==
  /\ clerk[t].pc = "mark"
  /\ copies' = [copies EXCEPT !.active = @ \cup {clerk[t].id}]
  /\ Goes(t, [clerk[t] EXCEPT !.pc = "begin"])
  /\ UNCHANGED <<servers, folders, allocLock, menu, spoilt, stranded, tasks>>

\* The finally of _perform_duplicate.
CopyOver(t) ==
  /\ copies' = [active |-> copies.active \ {clerk[t].id}, cancel |-> copies.cancel \ {clerk[t].id}]
  /\ Goes(t, AtRest)

\* Both rows must be there when the copy begins; a clone without its source is left as it is.
CopyBegins(t) ==
  /\ clerk[t].pc = "begin"
  /\ IF {clerk[t].source, clerk[t].id} \subseteq Ids
     THEN Goes(t, [clerk[t] EXCEPT !.pc = "mkdir"]) /\ UNCHANGED <<copies, stranded>>
     ELSE CopyOver(t) /\ stranded' = stranded \cup ({clerk[t].id} \cap Ids)
  /\ UNCHANGED <<servers, folders, allocLock, menu, spoilt, tasks>>

\* A bug: the failed clone keeps its status.
CopyFailsQuietly(t) ==
  /\ clerk[t].what = "clone" /\ clerk[t].pc \in {"mkdir", "copy", "relations"}
  /\ folders' = folders \ {clerk[t].dir}
  /\ CopyOver(t)
  /\ UNCHANGED <<servers, allocLock, menu, spoilt, stranded, tasks>>

\* An exception: the half copy is removed, the row - whoever has the number now - is marked.
CopyFails(t) ==
  /\ clerk[t].what = "clone" /\ clerk[t].pc \in {"mkdir", "copy", "relations"}
  /\ folders' = folders \ {clerk[t].dir}
  /\ IF clerk[t].id \in Ids
     THEN Change(clerk[t].id, [Server(clerk[t].id) EXCEPT !.status = "error"])
     ELSE UNCHANGED servers
  /\ CopyOver(t)
  /\ UNCHANGED <<allocLock, menu, spoilt, stranded, tasks>>

\* Each directory and file is copied only if nobody called the copy off.
CopyGoesOn(t) ==
  /\ clerk[t].pc \in {"mkdir", "copy"} /\ clerk[t].id \notin copies.cancel
  /\ folders' = folders \cup {clerk[t].dir}
  /\ Goes(t, [clerk[t] EXCEPT !.pc = IF @ = "mkdir" THEN "copy" ELSE "relations"])
  /\ UNCHANGED <<servers, allocLock, copies, menu, spoilt, stranded, tasks>>

CopyCancelled(t) ==
  /\ clerk[t].pc \in {"mkdir", "copy"} /\ clerk[t].id \in copies.cancel
  /\ CopyOver(t)
  /\ UNCHANGED <<servers, folders, allocLock, menu, spoilt, stranded, tasks>>

\* Contents, rights, schedules, server.properties and backups, then the status; without
\* the row this fails instead.
CopyFinishes(t) ==
  /\ clerk[t].pc = "relations" /\ clerk[t].id \in Ids
  /\ Change(clerk[t].id, [Server(clerk[t].id) EXCEPT !.status = "stopped"])
  /\ CopyOver(t)
  /\ UNCHANGED <<folders, allocLock, menu, spoilt, stranded, tasks>>

---------------------------------------------------------------------------
(* Deleting: a running copy is called off before the name is compared, and *)
(* waited for at most eight seconds.                                       *)

DeleteRequest(t, r, named) ==
  /\ Request(t)
  /\ copies' = IF r.id \in copies.active THEN [copies EXCEPT !.cancel = @ \cup {r.id}] ELSE copies
  /\ Goes(t, [AtRest EXCEPT !.pc = "confirm", !.what = "delete", !.id = r.id, !.dir = r.dir, !.named = named,
                          !.source = IF r.id \in copies.active THEN r.id ELSE 0])
  /\ UNCHANGED <<servers, folders, allocLock, menu, spoilt, stranded>>

DeleteConfirmed(t) ==
  /\ clerk[t].pc = "confirm"
  /\ IF clerk[t].named
     THEN Goes(t, [clerk[t] EXCEPT !.pc = "erase"]) /\ UNCHANGED stranded
     ELSE Goes(t, AtRest) /\ stranded' = stranded \cup ({clerk[t].source} \cap Ids)
  /\ UNCHANGED <<servers, folders, allocLock, copies, menu, spoilt, tasks>>

DeleteErases(t) ==
  /\ clerk[t].pc = "erase"
  /\ folders' = folders \ {clerk[t].dir} \/ UNCHANGED folders
  /\ Goes(t, [clerk[t] EXCEPT !.pc = "drop"])
  /\ UNCHANGED <<servers, allocLock, copies, menu, spoilt, stranded, tasks>>

DeleteDrops(t) ==
  /\ clerk[t].pc = "drop"
  /\ servers' = {r \in servers : r.id # clerk[t].id}
  /\ stranded' = stranded \ {clerk[t].id}
  /\ Goes(t, AtRest)
  /\ UNCHANGED <<folders, allocLock, copies, menu, spoilt, tasks>>

---------------------------------------------------------------------------
(* Settings, internal ports and names.                                     *)

SettingsRequest(t, r, form) ==
  /\ Request(t)
  /\ Goes(t, [AtRest EXCEPT !.pc = "decide", !.what = "settings", !.id = r.id, !.loaded = r, !.form = form])
  /\ UNCHANGED <<servers, folders, allocLock, copies, menu, spoilt, stranded>>

NeedsInner(r) == r.inner \in {0, r.port, Front}

\* The row as the session means it to be: what the form asks for, as far as it may be had.
RowWanted(t) ==
  LET f == clerk[t].form
      port == IF f.port = 0 THEN clerk[t].loaded.port ELSE f.port
      door == f.alias # NoAlias /\ ~AliasTaken(f.alias, clerk[t].id) /\ port # Front
  IN [clerk[t].loaded EXCEPT !.port = port, !.sleep = f.sleep /\ port # 0, !.gateway = door,
                       !.alias = IF door THEN f.alias ELSE NoAlias, !.default = door /\ f.default]

SettingsDecide(t) ==
  /\ clerk[t].pc = "decide"
  /\ LET w == RowWanted(t)
         free == FreePorts(w.id, {w.port, Front})
         keeps(r) == Goes(t, [clerk[t] EXCEPT !.pc = "save", !.wanted = r])
     IN IF ~(w.sleep /\ NeedsInner(w)) THEN keeps(w)
        ELSE IF free = {} THEN keeps([w EXCEPT !.sleep = FALSE])
        ELSE \E p \in free : keeps([w EXCEPT !.inner = p])
  /\ UNCHANGED <<servers, folders, allocLock, copies, menu, spoilt, stranded, tasks>>

\* Only attributes that differ from what was loaded are written.
Assigned(now, old, new) == IF new # old THEN new ELSE now
Written(now, old, new) ==
  [now EXCEPT !.port = Assigned(@, old.port, new.port), !.given = @ \/ new.port # old.port,
              !.inner = Assigned(@, old.inner, new.inner), !.sleep = Assigned(@, old.sleep, new.sleep),
              !.gateway = Assigned(@, old.gateway, new.gateway), !.alias = Assigned(@, old.alias, new.alias),
              !.default = Assigned(@, old.default, new.default)]

\* One transaction: the other defaults go, the row is written; without the row nothing is.
SettingsSave(t) ==
  /\ clerk[t].pc = "save"
  /\ LET i == clerk[t].id
         wanted == clerk[t].wanted
         next == [clerk[t] EXCEPT !.loaded = Unread, !.wanted = Unread, !.pc = IF clerk[t].what = "velocity" THEN "demote" ELSE "sync"]
     IN IF i \in Ids
        THEN /\ servers' =
                  {IF r.id = i THEN Written(r, clerk[t].loaded, wanted)
                   ELSE IF wanted.default THEN [r EXCEPT !.default = FALSE] ELSE r : r \in servers}
             /\ Goes(t, next)
        ELSE Goes(t, AtRest) /\ UNCHANGED servers
  /\ UNCHANGED <<folders, allocLock, copies, menu, spoilt, stranded, tasks>>

\* prepare_ports_before_start: a server behind the proxy whose internal port is none of its own.
PreparePorts(t, r) ==
  /\ Request(t)
  /\ r.sleep /\ NeedsInner(r)
  /\ \E p \in FreePorts(r.id, {r.port, Front}) :
       Goes(t, [AtRest EXCEPT !.pc = "inner", !.what = "start", !.id = r.id, !.port = p])
  /\ UNCHANGED <<servers, folders, allocLock, copies, menu, spoilt, stranded>>

PreparedPorts(t) ==
  /\ clerk[t].pc = "inner"
  /\ IF clerk[t].id \in Ids
     THEN Change(clerk[t].id, [Server(clerk[t].id) EXCEPT !.inner = clerk[t].port])
     ELSE UNCHANGED servers
  /\ Goes(t, AtRest)
  /\ UNCHANGED <<folders, allocLock, copies, menu, spoilt, stranded, tasks>>

RenameRequest(t, r, b) ==
  /\ Request(t)
  /\ r.name # <<b, 1>>
  /\ Goes(t, [AtRest EXCEPT !.pc = "rename", !.what = "rename", !.id = r.id, !.name = <<b, 1>>])
  /\ UNCHANGED <<servers, folders, allocLock, copies, menu, spoilt, stranded>>

\* A bug: renaming leaves the menus alone.
RenameAlone(t) ==
  /\ clerk[t].pc = "rename" /\ allocLock = Nobody
  /\ LET i == clerk[t].id
     IN IF i \in Ids /\ ~\E r \in servers : r.id # i /\ r.name = clerk[t].name
        THEN Change(i, [Server(i) EXCEPT !.name = clerk[t].name])
        ELSE UNCHANGED servers
  /\ Goes(t, AtRest)
  /\ UNCHANGED <<folders, allocLock, copies, menu, spoilt, stranded, tasks>>

RenameServer(t) ==
  /\ clerk[t].pc = "rename" /\ allocLock = Nobody
  /\ LET i == clerk[t].id
     IN IF i \in Ids /\ ~\E r \in servers : r.id # i /\ r.name = clerk[t].name
        THEN /\ Change(i, [Server(i) EXCEPT !.name = clerk[t].name])
             /\ Goes(t, [clerk[t] EXCEPT !.pc = "sync"])
        ELSE Goes(t, AtRest) /\ UNCHANGED servers
  /\ UNCHANGED <<folders, allocLock, copies, menu, spoilt, stranded, tasks>>

---------------------------------------------------------------------------
(* The lobby's menu and the lobby itself.                                  *)

Listing == {[id |-> r.id, name |-> r.name, alias |-> r.alias] :
              r \in {s \in servers : s.gateway /\ s.port # 0}}

\* Rows are read once for all configurations; nothing is written without a default lobby.
SyncReads(t) ==
  /\ clerk[t].pc = "sync"
  /\ IF \E r \in servers : r.default
     THEN /\ Goes(t, [clerk[t] EXCEPT !.pc = "write", !.seen = Listing])
          /\ spoilt' = (spoilt \/ \E u \in Clerks : clerk[u].pc = "write")
     ELSE Goes(t, AtRest) /\ UNCHANGED spoilt
  /\ UNCHANGED <<servers, folders, allocLock, copies, menu, stranded, tasks>>

SyncWrites(t) ==
  /\ clerk[t].pc = "write"
  /\ \/ menu' = clerk[t].seen /\ UNCHANGED spoilt
     \/ spoilt' = TRUE /\ UNCHANGED menu
  /\ Goes(t, AtRest)
  /\ UNCHANGED <<servers, folders, allocLock, copies, stranded, tasks>>

Defaults == {r.id : r \in {s \in servers : s.default}}

\* create_auto_lobby takes any default lobby, create_velocity_lobby one of the newest version;
\* alias and port are chosen before the server is provisioned, outside the lock.
CreateLobby(t, kind) ==
  /\ Request(t)
  /\ \/ /\ Defaults # {}
        /\ \E i \in Defaults :
             Goes(t, [AtRest EXCEPT !.pc = IF kind = "velocity" THEN "demote" ELSE "sync",
                                    !.what = kind, !.id = i, !.former = Defaults])
     \/ /\ kind = "velocity" \/ Defaults = {}
        /\ \E p \in IF FreePorts(0, {Front}) # {} THEN FreePorts(0, {Front})
                    ELSE IF kind = "velocity" THEN {} ELSE {0} :
             Goes(t, [AtRest EXCEPT
               !.pc = "provision", !.what = kind, !.name = <<"lobby", 1>>, !.dir = UniqueDir(<<"lobby", 1>>),
               !.port = p, !.former = Defaults,
               !.form = [alias |-> IF AliasTaken("lobby", 0) THEN "lobby2" ELSE "lobby",
                         default |-> TRUE, port |-> 0, sleep |-> FALSE]])
  /\ UNCHANGED <<servers, folders, allocLock, copies, menu, spoilt, stranded>>

\* _demote_other_default_lobbies
DemoteLobbies(t) ==
  /\ clerk[t].pc = "demote"
  /\ servers' = {IF r.default /\ r.id # clerk[t].id THEN [r EXCEPT !.default = FALSE, !.gateway = FALSE]
                 ELSE r : r \in servers}
  /\ Goes(t, [clerk[t] EXCEPT !.pc = "sync"])
  /\ UNCHANGED <<folders, allocLock, copies, menu, spoilt, stranded, tasks>>

---------------------------------------------------------------------------

RecordsStep(t) ==
  \/ Provision(t) \/ ChooseName(t) \/ Allocate(t) \/ Insert(t)
  \/ CopyMarked(t) \/ CopyBegins(t) \/ CopyFails(t) \/ CopyGoesOn(t) \/ CopyCancelled(t) \/ CopyFinishes(t)
  \/ DeleteConfirmed(t) \/ DeleteErases(t) \/ DeleteDrops(t)
  \/ SettingsDecide(t) \/ SettingsSave(t) \/ PreparedPorts(t) \/ RenameServer(t)
  \/ SyncReads(t) \/ SyncWrites(t) \/ DemoteLobbies(t)

RecordsNext ==
  \E t \in Clerks :
    \/ RecordsStep(t)
    \/ \E b \in Bases : ResolveDirectory(t, b) \/ ImportServer(t, b)
    \/ \E kind \in {"auto", "velocity"} : CreateLobby(t, kind)
    \/ \E r \in servers : \/ DuplicateRequest(t, r) \/ PreparePorts(t, r)
                          \/ \E named \in BOOLEAN : DeleteRequest(t, r, named)
                          \/ \E form \in Forms : SettingsRequest(t, r, form)
                          \/ \E b \in Bases : RenameRequest(t, r, b)

RecordsSpec == RecordsInit /\ [][RecordsNext]_recordsVars

---------------------------------------------------------------------------
(* Properties.                                                             *)

\* Two servers whose public ports the manager chose itself never have the same one.
PortsDiffer ==
  \A r, s \in servers : r # s /\ r.port # 0 /\ r.port = s.port => r.given \/ s.given

\* A server that shows "provisioning" is being copied or deleted at this moment, unless its
\* deletion was broken off or its source was deleted before the copy began: no failure and
\* no reuse of a row number leaves one behind.
ClonesAreWorkedOn ==
  \A r \in servers : r.status = "provisioning" =>
    \/ r.id \in stranded
    \/ \E t \in Clerks : clerk[t].id = r.id /\ (Copying(t) \/ clerk[t].what = "delete")

\* Once everything has settled, the lobby's menu shows every server of the network under its
\* present name and alias, unless two updates overlapped or one could not be written.
MenusShowNames ==
  /\ (\A t \in Clerks : clerk[t].pc = "idle") /\ ~spoilt /\ Defaults # {}
  => Listing \subseteq menu

\* "Alte Default-Lobbys werden AUCH aus dem Netzwerk genommen" (lobby_service.py): when the new
\* Velocity lobby stands, the former one is out of the network.
FormerLobbyLeaves ==
  \A t \in Clerks : clerk[t].what = "velocity" /\ clerk[t].pc = "sync" =>
    \A r \in servers : r.id \in clerk[t].former \ {clerk[t].id} => ~r.gateway

\* Refuted: no two servers share a folder, none in the network an alias.
FoldersAreOwn == \A r, s \in servers : r # s => r.dir # s.dir
AliasesDiffer == \A r, s \in servers : r # s /\ r.gateway /\ s.gateway => r.alias # s.alias

=============================================================================
