----------------------------- MODULE AccessLists -----------------------------
(* Who may do what on a server: its list files (ops.json,                   *)
(* banned-players.json ...), the lists the running game holds in memory,    *)
(* and the manager's own rows that hold for every server                    *)
(* (global_access_service.py, file_service.py, routers/files.py).           *)
(*                                                                          *)
(* The game reads the files when it boots and writes a whole file whenever  *)
(* a command changes its list.  The manager reads a file, changes the list  *)
(* and writes it back, in requests, in every start and for all servers at   *)
(* once; nothing locks the files.  A watch puts the fixed operators back.   *)
EXTENDS Naturals, Sequences

CONSTANTS
  ListKeys,          \* of LISTEN: the lists looked at, "ops" among them
  Persons,
  FixedOps,       \* UNVERAENDERLICHE_OPS
  Administrators, \* threads of requests
  Tries,          \* _MAX_VERSUCHE in a _VERSUCHSFENSTER
  MaxCalls,       \* bound on requests
  MaxPlays        \* bound on commands given inside the game

ASSUME AccessAssumption ==
  /\ "ops" \in ListKeys /\ FixedOps \subseteq Persons
  /\ Tries \in Nat \ {0} /\ "start" \notin Administrators

VARIABLES
  listFiles,  \* the files
  inGame,     \* the lists of the running game
  run,        \* "off", "starting" (the manager prepares), "booting", "running"
  everywhere, \* rows of global_access_entries
  worker,     \* requests, and the start
  listed,     \* history: the rows the start found for a list
  missed,     \* history: <<list, person>> the start could not write
  console,    \* commands the game has yet to read
  reops,      \* threads that put an operator back
  tries,      \* _VERSUCHE: tries inside the window
  apart,      \* history: files written behind the game's back
  meddled,    \* history: files written by another one during a start
  calls, plays

gameVars   == <<inGame, run, console, plays>>
watchVars  == <<reops, tries>>
bookVars   == <<listed, missed, meddled>>
accessVars == <<listFiles, everywhere, worker, apart, calls, gameVars, watchVars, bookVars>>

Workers == Administrators \cup {"start"}
Levels  == {0, 2, 4}
FileEntries == [who : Persons, level : Levels]
Entry(l, p, level) == [who |-> p, level |-> IF l = "ops" THEN level ELSE 0]
Who(es) == {e.who : e \in es}
NoList == "none"
NoWork == [task |-> "none", step |-> "", list |-> NoList, entry |-> {}, base |-> {},
           todo |-> {}, lists |-> {}]
Alive == run \in {"booting", "running"}

AccessTypeOK ==
  /\ listFiles \in [ListKeys -> SUBSET FileEntries] /\ inGame \in [ListKeys -> SUBSET FileEntries]
  /\ run \in {"off", "starting", "booting", "running"}
  /\ everywhere \in [ListKeys -> SUBSET FileEntries]
  /\ DOMAIN worker = Workers
  /\ tries \in [FixedOps -> 0..Tries]
  /\ apart \subseteq ListKeys /\ meddled \subseteq ListKeys

\* Some rows are there, no file is yet.
AccessInit ==
  /\ listFiles = [l \in ListKeys |-> {}] /\ inGame = [l \in ListKeys |-> {}]
  /\ run = "off"
  /\ \E P \in SUBSET Persons : everywhere = [l \in ListKeys |-> {Entry(l, p, 4) : p \in P}]
  /\ worker = [t \in Workers |-> NoWork]
  /\ listed = [l \in ListKeys |-> {}] /\ missed = {} /\ meddled = {}
  /\ console = <<>>
  /\ reops = [p \in FixedOps |-> 0] /\ tries = [p \in FixedOps |-> 0]
  /\ apart = {} /\ calls = 0 /\ plays = 0

\* liste: the fixed operators, and the rows but for those of fixed operators.
Listed(l) ==
  IF l # "ops" THEN everywhere[l]
  ELSE {Entry(l, p, 4) : p \in FixedOps} \cup {e \in everywhere[l] : e.who \notin FixedOps}

\* upsert_access_entry: an older entry of the person goes.
WithEntry(es, e) == {x \in es : x.who # e.who} \cup {e}
-----------------------------------------------------------------------------
(* The rows of the manager                                                 *)

Calls == calls < MaxCalls /\ calls' = calls + 1
Works(t, w) == worker' = [worker EXCEPT ![t] = w]
Begins(t, w) == Calls /\ worker[t] = NoWork /\ Works(t, w)

\* hinzufuegen
AddEverywhere(l, e) ==
  /\ Calls
  /\ everywhere' = [everywhere EXCEPT ![l] = WithEntry(@, e)]
  /\ UNCHANGED <<listFiles, worker, apart, gameVars, watchVars, bookVars>>

\* entfernen: not a fixed one, and no file is touched.
RemoveEverywhere(l, e) ==
  /\ Calls /\ e \in everywhere[l] /\ ~(l = "ops" /\ e.who \in FixedOps)
  /\ everywhere' = [everywhere EXCEPT ![l] = @ \ {e}]
  /\ UNCHANGED <<listFiles, worker, apart, gameVars, watchVars, bookVars>>
-----------------------------------------------------------------------------
(* Requests of the access page, of the editor and of the settings          *)

Task(task, step, l, es) == [NoWork EXCEPT !.task = task, !.step = step, !.list = l, !.entry = es]

AddEntry(t, l, e) == Begins(t, Task("add", "read", l, {e}))
RemoveEntry(t, l, e) == Begins(t, Task("remove", "read", l, {e}))
\* Nothing is sent to the game: there is no command for a level.
UpdateOpLevel(t, e) == Begins(t, Task("level", "read", "ops", {e}))
\* The editor's page: the text the file had when it was opened is what is saved, but for
\* one entry the user writes or takes away.
OpenFile(t, l, e) == Begins(t, [Task("save", "write", l, {e}) EXCEPT !.base = listFiles[l]])
\* auf_alle_server_anwenden: a running server is left out.
ApplyEverywhere(t) ==
  ~Alive /\ Begins(t, [NoWork EXCEPT !.task = "apply", !.step = "next", !.lists = ListKeys])

AccessRequest(t) ==
  /\ \/ \E l \in ListKeys, p \in Persons :
          \/ AddEntry(t, l, Entry(l, p, 4)) \/ RemoveEntry(t, l, Entry(l, p, 4))
          \/ OpenFile(t, l, Entry(l, p, 4))
     \/ \E p \in Persons : UpdateOpLevel(t, Entry("ops", p, 2))
     \/ ApplyEverywhere(t)
  /\ UNCHANGED <<listFiles, everywhere, apart, gameVars, watchVars, bookVars>>

Spread(w) == w.task \in {"apply", "start"}
\* What a worker does after an entry is written or given up.
Onward(w) ==
  IF Spread(w) THEN [w EXCEPT !.step = "next"]
  ELSE IF w.task \in {"add", "remove"} THEN [w EXCEPT !.step = "send"]
  ELSE NoWork

\* A bug: the list is read once for all the entries written to it.
ReadOnce(t) ==
  LET w == worker[t] IN
  /\ w.step = "read"
  /\ \E e \in w.entry :
       IF w.task \in {"remove", "level"} /\ e.who \notin Who(listFiles[w.list])
       THEN Works(t, NoWork)
       ELSE Works(t, [w EXCEPT !.step = "write",
                               !.base = IF Spread(w) /\ @ # {} THEN @ ELSE listFiles[w.list]])
  /\ UNCHANGED <<listFiles, everywhere, apart, calls, gameVars, watchVars, bookVars>>
\* _read_json_list_file; what is not there is neither removed nor changed.
ReadFile(t) ==
  LET w == worker[t] IN
  /\ w.step = "read"
  /\ \E e \in w.entry :
       IF w.task \in {"remove", "level"} /\ e.who \notin Who(listFiles[w.list])
       THEN Works(t, NoWork)
       ELSE Works(t, [w EXCEPT !.step = "write", !.base = listFiles[w.list]])
  /\ UNCHANGED <<listFiles, everywhere, apart, calls, gameVars, watchVars, bookVars>>

\* The list that is written: without the entry, or with it in the place of an older one.
Changed(w, e) ==
  CASE w.task = "remove" -> {{x \in w.base : x.who # e.who}}
    [] w.task = "save" -> {{x \in w.base : x.who # e.who}, WithEntry(w.base, e)}
    [] OTHER -> {WithEntry(w.base, e)}

\* _write_json_list_file.  Behind the game's back is what no command follows, and what rests
\* on a file that was another meanwhile.
WriteFile(t) ==
  LET w == worker[t] IN
  /\ w.step = "write"
  /\ \E e \in w.entry : \E es \in Changed(w, e) : listFiles' = [listFiles EXCEPT ![w.list] = es]
  /\ Works(t, Onward(w))
  /\ apart' = IF run = "running" /\ (w.task \notin {"add", "remove"} \/ w.base # listFiles[w.list])
              THEN apart \cup {w.list} ELSE apart
  /\ meddled' = IF t # "start" /\ run \in {"starting", "booting"}
                THEN meddled \cup {w.list} ELSE meddled
  /\ UNCHANGED <<everywhere, calls, gameVars, watchVars, listed, missed>>

\* The file is in use: a request ends, a spread goes on and warns.
WriteFails(t) ==
  LET w == worker[t] IN
  /\ w.step = "write"
  /\ Works(t, IF Spread(w) THEN Onward(w) ELSE NoWork)
  /\ missed' = IF t = "start" THEN missed \cup ({w.list} \X Who(w.entry)) ELSE missed
  /\ UNCHANGED <<listFiles, everywhere, apart, calls, gameVars, watchVars, listed, meddled>>

\* auf_server_anwenden: list by list, entry by entry; the rows of a list are read when it is
\* its turn.
NextEntry(t) ==
  LET w == worker[t] IN
  /\ w.step = "next" /\ (w.todo # {} \/ w.lists # {})
  /\ IF w.todo # {}
     THEN LET e == CHOOSE x \in w.todo : TRUE IN
          /\ Works(t, [w EXCEPT !.step = "read", !.entry = {e}, !.todo = @ \ {e}])
          /\ UNCHANGED listed
     ELSE LET l == CHOOSE x \in w.lists : TRUE IN
          /\ Works(t, [w EXCEPT !.list = l, !.lists = @ \ {l}, !.base = {}, !.todo = Listed(l)])
          /\ listed' = IF t = "start" THEN [listed EXCEPT ![l] = Listed(l)] ELSE listed
  /\ UNCHANGED <<listFiles, everywhere, apart, calls, gameVars, watchVars, missed, meddled>>

Says(l, put, p) == [list |-> l, put |-> put, who |-> p]

\* A bug: only what is added is told to the game.
OnlyAdditionsAreSent(t) ==
  LET w == worker[t] IN
  /\ w.step = "send"
  /\ \E e \in w.entry :
       console' = IF Alive /\ w.task = "add" THEN Append(console, Says(w.list, TRUE, e.who))
                  ELSE console
  /\ Works(t, NoWork)
  /\ UNCHANGED <<listFiles, everywhere, apart, calls, inGame, run, plays, watchVars, bookVars>>
\* _build_access_runtime_command, _try_send_runtime_command: to a process that is there.
SendCommand(t) ==
  LET w == worker[t] IN
  /\ w.step = "send"
  /\ \E e \in w.entry :
       console' = IF Alive THEN Append(console, Says(w.list, w.task = "add", e.who)) ELSE console
  /\ Works(t, NoWork)
  /\ UNCHANGED <<listFiles, everywhere, apart, calls, inGame, run, plays, watchVars, bookVars>>

\* global_access_apply ends with a message.
AppliedEverywhere(t) ==
  /\ t # "start" /\ worker[t].step = "next" /\ worker[t].todo = {} /\ worker[t].lists = {}
  /\ Works(t, NoWork)
  /\ UNCHANGED <<listFiles, everywhere, apart, calls, gameVars, watchVars, bookVars>>
-----------------------------------------------------------------------------
(* The start, and the game                                                 *)

BeginStart ==
  /\ run = "off" /\ run' = "starting"
  /\ Works("start", [NoWork EXCEPT !.task = "start", !.step = "next", !.lists = ListKeys])
  /\ missed' = {} /\ meddled' = {}
  /\ UNCHANGED <<listFiles, everywhere, apart, calls, inGame, console, plays, watchVars, listed>>

Launch ==
  /\ worker["start"].step = "next" /\ worker["start"].todo = {} /\ worker["start"].lists = {}
  /\ Works("start", NoWork) /\ run' = "booting"
  /\ UNCHANGED <<listFiles, everywhere, apart, calls, inGame, console, plays, watchVars, bookVars>>

Boot ==
  /\ run = "booting" /\ run' = "running"
  /\ inGame' = listFiles /\ apart' = {}
  /\ listed' = [l \in ListKeys |-> {}] /\ missed' = {} /\ meddled' = {}
  /\ UNCHANGED <<listFiles, everywhere, worker, calls, console, plays, watchVars>>

GameEnds ==
  /\ Alive /\ run' = "off"
  /\ inGame' = [l \in ListKeys |-> {}] /\ console' = <<>> /\ apart' = {}
  /\ UNCHANGED <<listFiles, everywhere, worker, calls, plays, watchVars, bookVars>>

\* A command in the game.  What changes nothing is refused and writes nothing.
GameDoes(c) ==
  IF c.put = (c.who \in Who(inGame[c.list]))
  THEN UNCHANGED <<inGame, listFiles, apart>>
  ELSE LET l == c.list
           es == IF c.put THEN inGame[l] \cup {Entry(l, c.who, 4)}
                 ELSE {e \in inGame[l] : e.who # c.who}
       IN /\ inGame' = [inGame EXCEPT ![l] = es]
          /\ listFiles' = [listFiles EXCEPT ![l] = es]
          /\ apart' = apart \ {l}

\* erkenne_deop, _schuetze_feste_ops: the line of a deop starts a thread.
LineRead(c, loud) ==
  reops' = IF loud /\ c.list = "ops" /\ ~c.put /\ c.who \in FixedOps \cap Who(inGame["ops"])
           THEN [reops EXCEPT ![c.who] = @ + 1] ELSE reops

GameObeys ==
  /\ run = "running" /\ console # <<>>
  /\ GameDoes(Head(console)) /\ LineRead(Head(console), TRUE)
  /\ console' = Tail(console)
  /\ UNCHANGED <<everywhere, worker, calls, run, plays, tries, bookVars>>

\* A player's command, or a plugin that says nothing.
Played(c, loud) ==
  /\ run = "running" /\ plays < MaxPlays /\ plays' = plays + 1
  /\ GameDoes(c) /\ LineRead(c, loud)
  /\ UNCHANGED <<everywhere, worker, calls, run, console, tries, bookVars>>
-----------------------------------------------------------------------------
(* The watch over the fixed operators                                      *)

\* A bug: the tries of an older window count for ever.
NoWindow(p) == UNCHANGED tries
\* _darf_versuchen: a try that is older than the window is dropped.  The game has read its
\* commands long before.
WindowMoves(p) == tries[p] > 0 /\ tries' = [tries EXCEPT ![p] = @ - 1]

TimeGoesOn(p) ==
  /\ console = <<>> /\ WindowMoves(p)
  /\ UNCHANGED <<listFiles, everywhere, worker, apart, calls, gameVars, reops, bookVars>>

\* erzwinge_op
Enforce(p) ==
  /\ tries' = IF tries[p] < Tries THEN [tries EXCEPT ![p] = @ + 1] ELSE tries
  /\ console' = IF tries[p] < Tries /\ Alive THEN Append(console, Says("ops", TRUE, p)) ELSE console
  /\ UNCHANGED <<listFiles, everywhere, worker, apart, calls, inGame, run, plays, bookVars>>

Reop(p) == reops[p] > 0 /\ reops' = [reops EXCEPT ![p] = @ - 1] /\ Enforce(p)

\* pruefe_server: every minute, by the file.  A missing level counts like a missing entry.
Watch(p) ==
  /\ Alive /\ Entry("ops", p, 4) \notin listFiles["ops"]
  /\ tries[p] < Tries
  /\ UNCHANGED reops /\ Enforce(p)

WorkerStep(t) ==
  \/ ReadFile(t) \/ WriteFile(t) \/ WriteFails(t) \/ NextEntry(t) \/ SendCommand(t)
  \/ AppliedEverywhere(t)

AccessNext ==
  \/ \E l \in ListKeys, p \in Persons :
       AddEverywhere(l, Entry(l, p, 4)) \/ RemoveEverywhere(l, Entry(l, p, 4))
  \/ \E t \in Administrators : AccessRequest(t)
  \/ \E t \in Workers : WorkerStep(t)
  \/ BeginStart \/ Launch \/ Boot \/ GameEnds \/ GameObeys
  \/ \E l \in ListKeys, p \in Persons, put, loud \in BOOLEAN : Played(Says(l, put, p), loud)
  \/ \E p \in FixedOps : TimeGoesOn(p) \/ Reop(p) \/ Watch(p)

\* The game works on, the watch and its threads run, time passes.
AccessFairness ==
  /\ WF_accessVars(GameObeys)
  /\ \A p \in FixedOps :
       WF_accessVars(TimeGoesOn(p)) /\ WF_accessVars(Reop(p)) /\ WF_accessVars(Watch(p))

AccessSpec == AccessInit /\ [][AccessNext]_accessVars /\ AccessFairness
-----------------------------------------------------------------------------
(* Properties                                                              *)

\* While nobody is at work and nothing was written behind its back, the running game knows
\* whom the file names: a request's write, its command and the game's own writes may
\* interleave as they like.
FilesAreKnown ==
  run = "running" /\ console = <<>> /\ (\A t \in Workers : worker[t].step # "send")
  => \A l \in ListKeys \ apart : Who(listFiles[l]) = Who(inGame[l])

\* What the rows of the manager said when a start read them is in the files the game boots
\* from, but for what could not be written, unless another writer meddled the start.
RowsReachTheGame ==
  run = "booting" =>
    \A l \in ListKeys \ meddled : \A e \in listed[l] : e \in listFiles[l] \/ <<l, e.who>> \in missed

AccessHolds == FilesAreKnown /\ RowsReachTheGame

\* A fixed operator is an operator again, however often and however quietly he was taken the
\* right, if the server stays up and its file says what the game does.
FixedOpsStand ==
  \A p \in FixedOps :
    <>[](run = "running" /\ Who(listFiles["ops"]) = Who(inGame["ops"]))
    => <>[](p \in Who(inGame["ops"]))

=============================================================================
