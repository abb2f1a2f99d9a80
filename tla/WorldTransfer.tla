---------------------------- MODULE WorldTransfer ----------------------------
(***************************************************************************)
(* What a transfer moves (transfer_service.py, world_identity_service.py,  *)
(* player_data_service.py, world_merge_service.py): the world of one       *)
(* server to the place and into the shape another one reads, its players   *)
(* under the accounts that one uses, and what lies beside the world.       *)
(* Who may transfer when is the matter of FileOperations.                  *)
(*                                                                         *)
(* A world is a set of files.  "top" is the folder beside the server: the  *)
(* world itself or the shell of a dimension ("<world>_nether",             *)
(* "<world>_the_end"); "dir" a folder in it; "of" what the file holds:     *)
(* the dimension as the source server reads it ("real"), a placeholder     *)
(* ("blank"), a rest of an earlier installation ("left"), what the target  *)
(* had ("former"), or how late a player's state was written.               *)
(***************************************************************************)
EXTENDS FiniteSets, Naturals

CONSTANTS
  Layouts,      \* shapes of the two servers
  Ticks,        \* what was ticked
  Oddities,     \* what may be special about the two servers' files
  MaxOddities,  \* bound on these at once
  Players

ASSUME TransferAssumption ==
  /\ Layouts \subseteq [from_apart : BOOLEAN, to_apart : BOOLEAN, new : BOOLEAN,
                       dims : SUBSET {"nether", "end"}, art : {"v3", "v4"}]
  /\ Ticks \subseteq [players : BOOLEAN, further : BOOLEAN, extensions : BOOLEAN, lists : BOOLEAN]

VARIABLES
  deal,         \* the two servers and what was ticked
  pc,
  original,     \* the source's world
  temp,         \* the folder the world is prepared in
  ready,        \* what it held when the exchange began
  place,        \* the target's world
  aside,        \* the target's former folders under their passing name
  moved,        \* folders that were moved in
  mapping,      \* _LETZTE_ZUORDNUNG: players who get another account
  asked,        \* what Mojang said about each of them, so far
  texts,        \* accounts in lists, plugin data and further worlds of the target
  mishap        \* what went wrong

transferVars == <<deal, pc, original, temp, ready, place, aside, moved, mapping, asked, texts, mishap>>

Tops == <<"world", "nether", "end">>
Shells == {"nether", "end"}
\* DIM_PFADE
DimPaths == [nether |-> <<"DIM-1", "the_nether">>, end |-> <<"DIM1", "the_end">>]
AllDimPaths == {"DIM-1", "the_nether", "DIM1", "the_end"}
DataNames == {<<"raids">>, <<"fight">>}
Kinds == {"inventory", "stats"}

\* Whose animal it is, inside of a region; whose state, in the name of a file.
PetName(p, art) == <<"pet", p, art>>
StateName(k, p, art) == <<"state", k, p, art>>
File(top, dir, name, of) == [top |-> top, dir |-> dir, name |-> name, of |-> of]
In(files, top, dir) == {f \in files : f.top = top /\ f.dir = dir}
Of(files, top) == {f \in files : f.top = top}
Has(x) == x \in deal.odd

---------------------------------------------------------------------------
(* The two servers.                                                        *)

\* stil_aus_typ: where the software of a server looks for a dimension.
Home(apart, d) == IF apart THEN d ELSE "world"
Path(new, d) == DimPaths[d][IF new THEN 2 ELSE 1]
Other(art) == IF art = "v4" THEN "v3" ELSE "v4"

SourceFiles(x, odd) ==
  LET home(d) == Home(x.from_apart, d)
      path(d) == Path(x.new, d)
      tops == {"world"} \cup {home(d) : d \in x.dims}
      old == Other(x.art)
  IN  {File(t, "root", n, "real") : t \in tops, n \in {<<"level">>, <<"uid">>}}
      \cup {File(home(d), path(d), n, "real") : d \in x.dims, n \in {<<"region">>} \cup {PetName(p, old) : p \in Players}}
      \cup {File(home(d), IF x.from_apart THEN "data" ELSE path(d), <<"raids">>, "real") : d \in x.dims}
      \cup {File("world", "players", StateName(k, p, old), "late") : k \in Kinds, p \in Players}
      \cup (IF "two_states" \in odd
            THEN {File("world", "players", StateName(k, p, x.art), "early") : p \in Players,
                    k \in IF "late_inventory" \in odd THEN {"stats"} ELSE Kinds} ELSE {})
      \cup (IF "late_inventory" \in odd
            THEN {File("world", "players", StateName("inventory", p, x.art), "latest") : p \in Players} ELSE {})
      \cup (IF "inner_data" \in odd /\ x.from_apart
            THEN {File(d, path(d), <<"raids">>, "blank") : d \in x.dims} ELSE {})
      \cup (IF "end_in_nether" \in odd /\ x.from_apart /\ "nether" \in x.dims
            THEN {File("nether", "the_end", <<"fight">>, "blank")} ELSE {})
      \cup (IF "nether_in_end" \in odd /\ x.from_apart /\ "end" \in x.dims
            THEN {File("end", "the_nether", <<"region">>, "blank")} ELSE {})
      \cup (IF "dragon" \in odd /\ x.from_apart /\ "end" \in x.dims
            THEN {File("end", "root", <<"dragon">>, "real")} ELSE {})
      \cup (IF "unknown" \in odd /\ x.from_apart
            THEN {File(d, "unknown", <<"thing">>, "real") : d \in x.dims} ELSE {})
      \cup {File(t, "datapacks", <<"pack">>, "real") : t \in IF "packs" \in odd THEN tops ELSE {"world"}}
      \cup (IF "leftover" \in odd
            THEN {File(Home(~x.from_apart, "nether"), path("nether"), <<"region">>, "left")} ELSE {})
      \cup (IF "paper_rules" \in odd /\ ~x.from_apart
            THEN {File("world", "overworld_data", <<"rules">>, "real")} ELSE {})

TargetFiles(x, odd) ==
  LET tops == {"world"} \cup (IF x.to_apart \/ "former_shells" \in odd THEN Shells ELSE {})
  IN  {File(t, "root", n, "former") : t \in tops, n \in {<<"level">>, <<"uid">>}}
      \cup {File("world", "players", StateName(k, p, x.art), "former") : k \in Kinds, p \in Players}

Account(where, from, p, art) == [where |-> where, from |-> from, player |-> p, art |-> art]

TransferInit ==
  /\ deal \in [layout : Layouts, ticked : Ticks, odd : {s \in SUBSET Oddities : Cardinality(s) <= MaxOddities}]
  /\ pc = "backup"
  /\ original = SourceFiles(deal.layout, deal.odd)
  /\ place = TargetFiles(deal.layout, deal.odd)
  /\ temp = {} /\ ready = {} /\ aside = {} /\ moved = {} /\ mapping = {}
  /\ asked = [p \in Players |-> {}]
  /\ texts = {Account(w, "target", p, deal.layout.art) : w \in {"lists", "plugins"}, p \in Players}
  /\ mishap = "none"

---------------------------------------------------------------------------
(* Reading the source.                                                     *)

IsApart(files) == \E f \in files : f.top \in Shells
IsTogether(files) == \E f \in files : f.top = "world" /\ f.dir \in AllDimPaths
\* hat_zwei_strukturen
TwoShapes(files) == IsApart(files) /\ IsTogether(files)

\* stil: the folders say it, and the type of the server where they do not.
SourceApart ==
  IF IsApart(original) = IsTogether(original) THEN deal.layout.from_apart ELSE IsApart(original)

Proceed(to) == pc' = to
\* Something outside goes wrong, once in a transfer.
Befalls(x) == mishap = "none" /\ mishap' = x
\* Before the exchange a failure only costs the prepared folder.
GivesUp == Proceed("failed") /\ temp' = {}

\* No transfer without a backup of the target.
Backup ==
  /\ pc = "backup"
  /\ \/ Proceed("copy") /\ UNCHANGED <<temp, mishap>>
     \/ Befalls("backup") /\ GivesUp
  /\ UNCHANGED <<deal, original, ready, place, aside, moved, mapping, asked, texts>>

\* welt_ordner, _welt_filter: a rest of the other structure stays, players come if ticked.
ChosenFor ==
  {f \in original :
     /\ f.top = "world" \/ SourceApart
     /\ f.dir = "players" => deal.ticked.players
     /\ ~(SourceApart /\ TwoShapes(original) /\ f.top = "world" /\ f.dir \in AllDimPaths)}

\* fuehre_level_dat_zusammen: the dragon's fight is told by the end's own level.dat only.
Merged(files) ==
  IF SourceApart /\ ~deal.layout.to_apart
  THEN files \cup {[f EXCEPT !.top = "world"] : f \in {g \in In(files, "end", "root") : g.name = <<"dragon">>}}
  ELSE files

\* Files that are locked stay out; without a .dat or .mca file there is no transfer.
Copy ==
  /\ pc = "copy"
  /\ \/ temp' = Merged(ChosenFor) /\ Proceed("shape") /\ UNCHANGED mishap
     \/ /\ deal.ticked.players
        /\ Befalls("gap")
        /\ temp' = Merged({f \in ChosenFor : ~(f.dir = "players" /\ f.name[2] = "stats")})
        /\ Proceed("shape")
     \/ Befalls("locked") /\ GivesUp
  /\ UNCHANGED <<deal, original, ready, place, aside, moved, mapping, asked, texts>>

---------------------------------------------------------------------------
(* _baue_stil_um                                                           *)

\* _verschiebe: a folder at the new place goes.
Moved(files, top, dir, ntop, ndir) ==
  IF In(files, top, dir) = {} THEN files
  ELSE ((files \ In(files, top, dir)) \ In(files, ntop, ndir))
         \cup {[f EXCEPT !.top = ntop, !.dir = ndir] : f \in In(files, top, dir)}

PathsMoved(files, d, top, ntop) ==
  LET first == Moved(files, top, DimPaths[d][1], ntop, DimPaths[d][1])
  IN  Moved(first, top, DimPaths[d][2], ntop, DimPaths[d][2])

\* The dimension's folder that was found last, which takes the shell's data.
LastPath(files, d) == {i \in 1..2 : In(files, d, DimPaths[d][i]) # {} /\ \A j \in (i + 1)..2 : In(files, d, DimPaths[d][j]) = {}}
\* What the world has under this name stays.
Joined(files, moving, ndir) ==
  LET fits == {f \in moving : ~\E g \in files : g.top = "world" /\ g.dir = ndir[f] /\ g.name = f.name}
  IN  (files \ fits) \cup {[f EXCEPT !.top = "world", !.dir = ndir[f]] : f \in fits}

\* _huelle_reste
Remains(files, d) == {f \in Of(files, d) : f.dir # "root"}

\* Out of a shell into the world: the dimension, its data, and whatever else the world lacks.
IntoWorld(files, d) ==
  LET dims == PathsMoved(files, d, d, "world")
      data == IF LastPath(files, d) = {} THEN dims
              ELSE LET last == DimPaths[d][CHOOSE i \in LastPath(files, d) : TRUE]
                   IN  {f \in Joined(dims, In(dims, d, "data"), [f \in In(dims, d, "data") |-> last]) : ~(f.top = d /\ f.dir = "data")}
  IN  Joined(data, Remains(data, d), [f \in Remains(data, d) |-> f.dir])

\* Out of the world into a shell; data lies beside the dimension there, with a level.dat.
IntoShell(files, d) ==
  LET out == PathsMoved(files, d, "world", d)
      data == {f \in Of(out, d) : f.dir \in AllDimPaths /\ f.name \in DataNames}
  IN  IF Of(out, d) = Of(files, d) THEN files
      ELSE (out \ data) \cup {[f EXCEPT !.dir = "data"] : f \in data} \cup {File(d, "root", <<"level">>, "real")}

\* Paper's files of the whole world lie elsewhere (_sortiere_paper_weltglobal); a target
\* with one folder is of the Vanilla family here.
PaperSorted(files) ==
  IF deal.layout.to_apart THEN files
  ELSE Joined(files, In(files, "world", "overworld_data"), [f \in In(files, "world", "overworld_data") |-> "data"])

Shaped(files) ==
  LET apart == deal.layout.to_apart
      nether == IntoWorld(files, "nether")
      end == IntoWorld(nether \ Of(nether, "nether"), "end")
  IN  CASE SourceApart = apart -> [files |-> files, remains |-> {}]
        [] SourceApart /\ ~apart -> [files |-> end \ Of(end, "end"),
                                     remains |-> Remains(nether, "nether") \cup Remains(end, "end")]
        [] OTHER -> [files |-> IntoShell(IntoShell(files, "nether"), "end"), remains |-> {}]

\* _uebernimm_welt between the copy and the accounts; without the source's players the
\* target's stay.
Shape ==
  /\ pc = "shape"
  /\ IF Shaped(temp).remains # {}
     THEN Proceed("refused") /\ temp' = {}
     ELSE /\ Proceed("accounts")
          /\ temp' = PaperSorted(Shaped(temp).files)
                       \cup (IF deal.ticked.players THEN {} ELSE In(place, "world", "players"))
  /\ UNCHANGED <<deal, original, ready, place, aside, moved, mapping, asked, texts, mishap>>

---------------------------------------------------------------------------
(* Accounts.  A server with Mojang's login knows a player as "v4", one     *)
(* without as "v3".                                                        *)

Old == Other(deal.layout.art)
Converts == deal.ticked.players /\ ~Has("unclear_login")
\* usercache.json of the source
Named == IF Has("unnamed") THEN {} ELSE Players

\* baue_zuordnung: from "v3" to "v4" only Mojang knows the way, and may not answer.
Mapped(answers) == {p \in Named : deal.layout.art = "v3" \/ answers}
Asks(answers) == asked' = [p \in Players |-> IF p \in Named THEN asked[p] \cup {answers} ELSE asked[p]]
MayBeSilent(answers) == answers = TRUE \/ deal.layout.art = "v4"

Later(f, g) == \/ f.of = "latest" /\ g.of # "latest"
               \/ f.of = "late" /\ g.of = "early"
Twins(files, f) ==
  {g \in files : g.dir = "players" /\ g.name[1] = "state" /\ f.name[2] = g.name[2]
                 /\ f.name[3] = g.name[3] /\ f.name[4] # g.name[4]}

\* A bug: what lies under the new name stays, whichever was written last.
RenamedUnlessThere(files, f) ==
  IF f.name[4] # deal.layout.art /\ Twins(files, f) # {}
  THEN [f EXCEPT !.name[1] = "replaced"] ELSE [f EXCEPT !.name[4] = deal.layout.art]

\* benenne_spielerdateien_um, _loese_doppelten_stand_auf: of two states the one written
\* last counts, the other one is kept beside it.
Renamed(files, f) ==
  LET art == deal.layout.art
      loses == \E g \in Twins(files, f) : IF f.name[4] = art THEN Later(g, f) ELSE ~Later(f, g)
  IN  IF loses THEN [f EXCEPT !.name[1] = "replaced"] ELSE [f EXCEPT !.name[4] = art]

\* schreibe_welt_um: the files' names, and the accounts inside of regions.
Rewritten(files, m) ==
  {CASE f.dir = "players" /\ f.name[1] = "state" /\ f.name[3] \in m -> Renamed(files, f)
     [] f.name[1] = "pet" /\ f.name[2] \in m -> [f EXCEPT !.name[3] = deal.layout.art]
     [] OTHER -> f : f \in files}

\* _passe_identitaet_an
Accounts ==
  /\ pc = "accounts"
  /\ Proceed("aside")
  /\ IF Converts
     THEN \E answers \in BOOLEAN :
            /\ MayBeSilent(answers)
            /\ Asks(answers)
            /\ mapping' = Mapped(answers)
            /\ temp' = Rewritten(temp, Mapped(answers))
     ELSE UNCHANGED <<mapping, asked, temp>>
  /\ ready' = temp'
  /\ UNCHANGED <<deal, original, place, aside, moved, texts, mishap>>

---------------------------------------------------------------------------
(* _tausche_welt: the former folders go aside one by one, then the new     *)
(* ones come in.                                                           *)

Next1(files) == CHOOSE i \in 1..3 : Of(files, Tops[i]) # {} /\ \A j \in 1..(i - 1) : Of(files, Tops[j]) = {}

PutAside ==
  /\ pc = "aside"
  /\ IF place = {}
     THEN Proceed("movein") /\ UNCHANGED <<place, aside, mishap>>
     ELSE LET t == Tops[Next1(place)]
          IN \/ /\ place' = place \ Of(place, t)
                /\ aside' = aside \cup Of(place, t)
                /\ UNCHANGED <<pc, mishap>>
             \/ Befalls("rename") /\ Proceed("rollback") /\ UNCHANGED <<place, aside>>
  /\ UNCHANGED <<deal, original, temp, ready, moved, mapping, asked, texts>>

\* A move may fail before it began, or when the copy is there and the original stays.
MoveIn ==
  /\ pc = "movein"
  /\ IF temp = {}
     THEN Proceed("drop") /\ UNCHANGED <<place, temp, moved, mishap>>
     ELSE LET t == Tops[Next1(temp)]
          IN \/ /\ place' = place \cup Of(temp, t)
                /\ temp' = temp \ Of(temp, t)
                /\ moved' = moved \cup {t}
                /\ UNCHANGED <<pc, mishap>>
             \/ Befalls("move") /\ Proceed("rollback") /\ UNCHANGED <<place, temp, moved>>
             \/ /\ Befalls("half_moved") /\ Proceed("rollback")
                /\ place' = place \cup Of(temp, t)
                /\ UNCHANGED <<temp, moved>>
  /\ UNCHANGED <<deal, original, ready, aside, mapping, asked, texts>>

\* A bug: all three names are cleared, those that were never put aside, too.
RollbackClearsAll ==
  /\ pc = "rollback"
  /\ \E stuck \in {{}, {f.top : f \in aside}} :
       /\ place' = {f \in aside : f.top \notin stuck}
       /\ aside' = {f \in aside : f.top \in stuck}
  /\ GivesUp
  /\ UNCHANGED <<deal, original, ready, moved, mapping, asked, texts, mishap>>

\* _stelle_welt_wieder_her: only what this exchange did is undone.  What cannot be renamed
\* stays under its passing name, which the message tells.
Rollback ==
  /\ pc = "rollback"
  /\ \E stuck \in {{}, {f.top : f \in aside}} :
       /\ place' = {f \in place : f.top \notin moved \cup {g.top : g \in aside}} \cup {f \in aside : f.top \notin stuck}
       /\ aside' = {f \in aside : f.top \in stuck}
  /\ GivesUp
  /\ UNCHANGED <<deal, original, ready, moved, mapping, asked, texts, mishap>>

Drop ==
  /\ pc = "drop"
  /\ aside' = {}
  /\ Proceed("uid")
  /\ UNCHANGED <<deal, original, temp, ready, place, moved, mapping, asked, texts, mishap>>

\* The identity of the world has moved; the source gets another one.
LoseUid ==
  /\ pc = "uid"
  /\ \E kept \in BOOLEAN :
       original' = IF kept THEN original
                   ELSE {f \in original : f.name # <<"uid">> \/ (f.top \in Shells /\ ~SourceApart)}
  /\ Proceed("texts")
  /\ UNCHANGED <<deal, temp, ready, place, aside, moved, mapping, asked, texts, mishap>>

---------------------------------------------------------------------------
(* What lies beside the world, at the target.                              *)

\* stelle_zugangslisten_um, stelle_plugin_daten_um
Converted(accounts, places, m) ==
  {IF a.where \in places /\ a.player \in m THEN [a EXCEPT !.art = deal.layout.art] ELSE a : a \in accounts}
FromSource(where) == {Account(where, "source", p, Old) : p \in Players}

Texts ==
  /\ pc = "texts"
  /\ texts' = IF deal.ticked.players THEN Converted(texts, {"lists", "plugins"}, mapping) ELSE texts
  /\ Proceed("further")
  /\ UNCHANGED <<deal, original, temp, ready, place, aside, moved, mapping, asked, mishap>>

\* _uebernimm_zusatzwelten: the accounts are asked for again; a world that fails is skipped.
FurtherWorld ==
  /\ pc = "further"
  /\ IF deal.ticked.further
     THEN /\ IF Converts
             THEN \E answers \in BOOLEAN : MayBeSilent(answers) /\ Asks(answers) /\ mapping' = Mapped(answers)
             ELSE UNCHANGED <<mapping, asked>>
          /\ \/ texts' = texts \cup Converted(FromSource("further"), {"further"}, mapping') /\ UNCHANGED mishap
             \/ Befalls("further") /\ UNCHANGED texts
     ELSE UNCHANGED <<mapping, asked, texts, mishap>>
  /\ Proceed("extensions")
  /\ UNCHANGED <<deal, original, temp, ready, place, aside, moved>>

\* _uebernimm_erweiterungen: the plugins' data comes along and is converted.
Extensions ==
  /\ pc = "extensions"
  /\ texts' = IF deal.ticked.extensions
              THEN Converted(texts \cup FromSource("plugins"), {"lists", "plugins"}, mapping) ELSE texts
  /\ Proceed("lists")
  /\ UNCHANGED <<deal, original, temp, ready, place, aside, moved, mapping, asked, mishap>>

\* A bug: the lists are copied after the accounts were converted.
ListsUnconverted ==
  /\ pc = "lists"
  /\ texts' = IF deal.ticked.lists
              THEN {a \in texts : a.where # "lists"} \cup FromSource("lists") ELSE texts
  /\ mapping' = {}
  /\ Proceed("done")
  /\ UNCHANGED <<deal, original, temp, ready, place, aside, moved, asked, mishap>>

\* uebernimm_zugangslisten, and the end of _fuehre_aus.
Lists ==
  /\ pc = "lists"
  /\ texts' = IF deal.ticked.lists
              THEN Converted({a \in texts : a.where # "lists"} \cup FromSource("lists"), {"lists"}, mapping)
              ELSE texts
  /\ mapping' = {}
  /\ Proceed("done")
  /\ UNCHANGED <<deal, original, temp, ready, place, aside, moved, asked, mishap>>

\* The manager ends in the middle; what it prepared is left where it is.
TransferDies ==
  /\ pc \notin {"done", "failed", "refused", "dead"}
  /\ Proceed("dead")
  /\ mapping' = {}
  /\ UNCHANGED <<deal, original, temp, ready, place, aside, moved, asked, texts, mishap>>

TransferNext ==
  \/ Backup \/ Copy \/ Shape \/ Accounts
  \/ PutAside \/ MoveIn \/ Rollback \/ Drop \/ LoseUid
  \/ Texts \/ FurtherWorld \/ Extensions \/ Lists
  \/ TransferDies

TransferSpec == TransferInit /\ [][TransferNext]_transferVars

---------------------------------------------------------------------------
(* Properties.                                                             *)

TransferTypeOK ==
  /\ moved \subseteq {"world", "nether", "end"}
  /\ mapping \subseteq Players
  /\ \A f, g \in temp : f.top = g.top /\ f.dir = g.dir /\ f.name = g.name => f = g
  /\ \A f, g \in place : f.top = g.top /\ f.dir = g.dir /\ f.name = g.name => f = g

\* What a server of this kind finds of a dimension.
Reads(files, apart, d) ==
  LET at == Path(deal.layout.new, d)
  IN  {f \in In(files, Home(apart, d), at) : apart => f.name \notin DataNames}
      \cup (IF apart THEN In(files, d, "data") ELSE {})

\* Where a transfer came to its end, the target's software finds every dimension the source's
\* software found, with its data, and nothing of what the source's software did not read.
DimensionsArrive ==
  \A d \in deal.layout.dims :
    /\ \A f \in Reads(SourceFiles(deal.layout, deal.odd), deal.layout.from_apart, d) :
         \E g \in Reads(place, deal.layout.to_apart, d) :
           /\ g.name[1] = f.name[1]
           /\ g.of = f.of \/ (Has("inner_data") /\ f.name \in DataNames)
    /\ \A g \in Reads(place, deal.layout.to_apart, d) : g.of \notin {"left", "former"}

\* The same transfer: no state of a player is lost unless a file was locked, and a player who
\* has another account now finds the state that was written last.
StatesArrive ==
  LET here == In(place, "world", "players")
      there == In(SourceFiles(deal.layout, deal.odd), "world", "players")
  IN  /\ deal.ticked.players /\ mishap # "gap" =>
           \A f \in there : \E g \in here : g.name[2] = f.name[2] /\ g.name[3] = f.name[3] /\ g.of = f.of
      /\ Converts => \A f \in here : f.name[1] = "state" /\ asked[f.name[3]] = {TRUE} =>
                       /\ f.name[4] = deal.layout.art
                       /\ \A g \in there : g.name[2] = f.name[2] /\ g.name[3] = f.name[3] => ~Later(g, f)
      /\ ~deal.ticked.players => here = In(TargetFiles(deal.layout, deal.odd), "world", "players")

\* What a transfer that came to its end brought is the whole world.
WorldArrives == pc = "done" => DimensionsArrive /\ StatesArrive

\* At every moment, a crash or a failed move included, the target's former world is there
\* whole, if only under its passing name, or the new one is; and a transfer that failed left
\* nothing beside the former world but a folder whose move broke off halfway.
NoWorldLost ==
  LET former == TargetFiles(deal.layout, deal.odd)
  IN  /\ former \subseteq place \cup aside \/ (ready # {} /\ ready \subseteq place)
      /\ pc = "failed" => \A f \in place \ former : mishap = "half_moved" /\ Of(former, f.top) = {}

\* Everything that came from the source calls a player by the account the target uses, in
\* every world, in the plugins' data and in the lists, unless Mojang answered once and then
\* did not.
IdentityFollows ==
  pc = "done" /\ Converts =>
    \A p \in Players : asked[p] = {TRUE} =>
      /\ \A f \in place : f.name[1] = "pet" /\ f.name[2] = p => f.name[3] = deal.layout.art
      /\ \A a \in texts : a.player = p => a.art = deal.layout.art

\* A transfer is refused for what it cannot place, not because two folders have a file of the
\* same name: what is there already is skipped.
NamesakesDoNotStop ==
  [][pc = "shape" /\ pc' = "refused" =>
       \E f \in Shaped(temp).remains : ~\E g \in temp : g.top = "world" /\ g.dir = f.dir /\ g.name = f.name]_transferVars

=============================================================================
