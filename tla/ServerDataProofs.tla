---------------------------- MODULE ServerDataProofs ----------------------------
(* What the manager keeps of its servers: rows that stay apart, ports that  *)
(* differ, clones that somebody works on and a menu that follows; and worlds *)
(* that are never lost in a transfer.  One part for each module.             *)
EXTENDS ServerRecords, WorldTransfer, FiniteSetTheorems, WellFoundedInduction, TLAPS

-----------------------------------------------------------------------------
(* Numbers                                                                   *)

\* A set of numbers that does not go on for ever has a largest one.
LEMMA MaxFacts ==
  ASSUME NEW n \in Nat, NEW S \in SUBSET (0..n), S # {}
  PROVE  Max(S) \in S /\ \A y \in S : y <= Max(S)
  <1> DEFINE T == {n - x : x \in S}
  <1>0. \A x \in S : x \in Nat /\ n - x \in Nat
    OBVIOUS
  <1>1. T \subseteq Nat /\ T # {}
    BY <1>0
  <1>2. PICK m \in T : \A y \in T : ~(<<y, m>> \in OpToRel(<, Nat))
    BY <1>1, NatLessThanWellFounded, WFMin
  <1>3. PICK x \in S : m = n - x
    OBVIOUS
  <1>4. \A y \in S : x >= y
    <2> TAKE y \in S
    <2>1. n - y \in T /\ n - y \in Nat /\ m \in Nat
      BY <1>1
    <2>2. ~(n - y < m)
      BY <1>2, <2>1 DEF OpToRel
    <2> QED
      BY <1>3, <2>2
  <1>5. Max(S) \in S /\ \A y \in S : Max(S) >= y
    BY <1>3, <1>4 DEF Max
  <1> QED
    BY <1>5
-----------------------------------------------------------------------------
(* The invariant                                                             *)

Names == (Bases \cup {"clone", "lobby", "nowhere"}) \X Nat
Aliases == {f.alias : f \in Forms} \cup Bases \cup {NoAlias, "lobby", "lobby2"}
AnyPort == Ports \cup {0, Front}
ServerRows == [id : 0..MaxServers, name : Names, slug : Names, dir : Names, port : AnyPort, given : BOOLEAN,
               inner : AnyPort, sleep : BOOLEAN, gateway : BOOLEAN, alias : Aliases, default : BOOLEAN,
               status : {"stopped", "provisioning", "error"}]
MenuRows == [id : 0..MaxServers, name : Names, alias : Aliases]
CopyStages == {"mark", "begin", "mkdir", "copy", "relations"}
DeleteStages == {"confirm", "erase", "drop"}
MenuStages == {"sync", "demote"}
ClerkStages == {"idle", "provision", "name", "allocate", "insert", "decide", "save", "inner", "rename", "write"}
               \cup CopyStages \cup DeleteStages \cup MenuStages
Work == [pc : ClerkStages, id : 0..MaxServers, source : 0..MaxServers, name : Names, dir : Names,
         what : {"none", "create", "clone", "delete", "settings", "start", "rename", "auto", "velocity"},
         port : AnyPort, inner : AnyPort, named : BOOLEAN, loaded : ServerRows, wanted : ServerRows,
         form : [alias : Aliases, default : BOOLEAN, port : AnyPort, sleep : BOOLEAN],
         seen : SUBSET MenuRows, former : SUBSET (0..MaxServers)]
Apart(rows) == \A r, s \in rows : r # s => r.id # s.id /\ r.name # s.name /\ r.slug # s.slug

RecordsTypes ==
  /\ servers \subseteq ServerRows /\ (\A r \in servers : r.id # 0) /\ Apart(servers)
  /\ folders \subseteq Names /\ IsFiniteSet(folders)
  /\ allocLock \in Clerks \cup {Nobody} /\ clerk \in [Clerks -> Work]
  /\ copies \in [active : SUBSET (1..MaxServers), cancel : SUBSET (1..MaxServers)]
  /\ menu \subseteq MenuRows /\ spoilt \in BOOLEAN

\* Who inserts holds the lock, has found room, and a port that nobody was given.
InsertsAreLocked == \A t \in Clerks : clerk[t].pc = "insert" <=> allocLock = t
RoomIsLeft == \A t \in Clerks, r \in servers : clerk[t].pc = "insert" => r.id # MaxServers
PortsStayFree ==
  \A t \in Clerks, r \in servers :
    clerk[t].pc = "insert" /\ ~clerk[t].named /\ clerk[t].port # 0 /\ r.port = clerk[t].port => r.given

StagesFit ==
  \A t \in Clerks : /\ clerk[t].pc \in CopyStages => clerk[t].what = "clone" /\ clerk[t].id # 0
                    /\ clerk[t].pc \in DeleteStages <=> clerk[t].what = "delete"

CopiesClone(t, i) == Copying(t) /\ clerk[t].id = i
\* A copy is called off only while one is marked, and a mark is one of a copy at work.
MarksAreCopies ==
  /\ copies.cancel \subseteq copies.active
  /\ \A i \in copies.active : \E t \in Clerks : CopiesClone(t, i) /\ clerk[t].pc # "mark"

\* Somebody is about to delete the clone who will not leave it as it is, or copies it who is
\* not called off; of two copies under one number only one meets the call.
DeletesClone(t, i) ==
  clerk[t].what = "delete" /\ clerk[t].id = i /\ (clerk[t].source = i \/ clerk[t].pc \in {"erase", "drop"})
ClonesHold ==
  \A r \in servers : r.status = "provisioning" /\ r.id \notin stranded =>
    \/ \E t \in Clerks : DeletesClone(t, r.id)
    \/ \E t \in Clerks : /\ CopiesClone(t, r.id)
                         /\ r.id \notin copies.cancel \/ \E u \in Clerks : u # t /\ CopiesClone(u, r.id)

\* Without an update to come, the menu or the one update at work is up to date.
OneWrites == \A t, u \in Clerks : clerk[t].pc = "write" /\ clerk[u].pc = "write" => t = u
Awaited == \E t \in Clerks : clerk[t].pc \in MenuStages
MenuFollows ==
  ~spoilt => /\ OneWrites
             /\ Defaults # {} /\ ~Awaited =>
                  /\ \A t \in Clerks : clerk[t].pc = "write" => Listing \subseteq clerk[t].seen
                  /\ (\A t \in Clerks : clerk[t].pc # "write") => Listing \subseteq menu

RecordsInv ==
  /\ RecordsTypes /\ InsertsAreLocked /\ RoomIsLeft /\ PortsStayFree /\ PortsDiffer
  /\ StagesFit /\ MarksAreCopies /\ ClonesHold /\ MenuFollows

-----------------------------------------------------------------------------
(* Rows, numbers and names                                                   *)

LEMMA RoomConstants == MaxServers \in Nat /\ MaxServers >= 2
  BY RecordsAssumption

LEMMA PortFacts == {0, Front} \subseteq AnyPort /\ Ports \subseteq AnyPort /\ NoAlias \in Aliases
  BY DEF AnyPort, Aliases

LEMMA NewRowFacts ==
  ASSUME NEW i \in 0..MaxServers, NEW n \in Names, NEW s \in Names, NEW d \in Names, NEW p \in AnyPort,
         NEW g \in BOOLEAN
  PROVE  LET r == NewRow(i, n, s, d, p, g)
         IN  /\ r \in ServerRows /\ r.id = i /\ r.name = n /\ r.slug = s /\ r.port = p /\ r.given = g
             /\ r.dir = d /\ r.gateway = FALSE /\ r.default = FALSE /\ r.status = "stopped" /\ r.alias = NoAlias
  BY PortFacts DEF NewRow, ServerRows

LEMMA NoRowFacts == Unread \in ServerRows
  <1>1. Nowhere \in Names /\ 0 \in 0..MaxServers /\ 0 \in AnyPort
    BY RecordsAssumption, PortFacts DEF Nowhere, Names
  <1> QED
    BY <1>1, NewRowFacts DEF Unread

LEMMA AtRestFacts == AtRest \in Work /\ AtRest.pc = "idle" /\ AtRest.what = "none"
  <1>1. Nowhere \in Names /\ 0 \in 0..MaxServers
    BY RecordsAssumption DEF Nowhere, Names
  <1>2. NoForm \in [alias : Aliases, default : BOOLEAN, port : AnyPort, sleep : BOOLEAN]
    BY PortFacts DEF NoForm
  <1> QED
    BY <1>1, <1>2, NoRowFacts, PortFacts DEF AtRest, Work, ClerkStages

LEMMA ServerFacts ==
  ASSUME RecordsTypes, NEW i \in Ids
  PROVE  /\ Server(i) \in servers /\ Server(i).id = i /\ Server(i) \in ServerRows
         /\ \A r \in servers : r.id = i => r = Server(i)
  BY DEF RecordsTypes, Ids, Server, Apart

LEMMA NewIdFacts ==
  ASSUME RecordsTypes
  PROVE  NewId \in Nat /\ NewId >= 1 /\ \A r \in servers : r.id \in Nat /\ r.id < NewId
  <1> DEFINE S == Ids \cup {0}
  <1>1. S \in SUBSET (0..MaxServers) /\ S # {} /\ MaxServers \in Nat
    BY RecordsAssumption DEF RecordsTypes, ServerRows, Ids
  <1>2. Max(S) \in S /\ \A y \in S : y <= Max(S)
    BY <1>1, MaxFacts
  <1>3. NewId = 1 + Max(S)
    BY DEF NewId
  <1>4. \A r \in servers : r.id \in S
    BY DEF Ids
  <1>5. \A y \in S : y \in Nat
    BY <1>1
  <1> HIDE DEF S
  <1> DEFINE m == Max(S)
  <1>6. m \in Nat /\ \A r \in servers : r.id \in Nat /\ r.id <= m
    BY <1>2, <1>4, <1>5
  <1>7. NewId = 1 + m
    BY <1>3
  <1> HIDE DEF m
  <1> QED
    BY <1>6, <1>7

\* A row with room behind it: the next number is still one of ours.
LEMMA RoomFacts ==
  ASSUME RecordsTypes, \A r \in servers : r.id # MaxServers
  PROVE  NewId \in 1..MaxServers /\ NewId \notin Ids
  <1> DEFINE S == Ids \cup {0}
  <1>1. S \in SUBSET (0..MaxServers) /\ S # {} /\ MaxServers \in Nat /\ MaxServers # 0
    BY RecordsAssumption DEF RecordsTypes, ServerRows, Ids
  <1>2. Max(S) \in S
    BY <1>1, MaxFacts
  <1>3. NewId = 1 + Max(S)
    BY DEF NewId
  <1>4. MaxServers \notin S
    BY <1>1 DEF Ids
  <1> DEFINE m == Max(S)
  <1>5. m \in 0..MaxServers /\ m # MaxServers
    BY <1>1, <1>2, <1>4
  <1>6. NewId = 1 + m
    BY <1>3
  <1> HIDE DEF m
  <1>7. NewId \in 1..MaxServers
    BY <1>1, <1>5, <1>6
  <1>8. NewId \notin Ids
    BY NewIdFacts DEF Ids
  <1> QED
    BY <1>7, <1>8

LEMMA MinFacts ==
  ASSUME NEW S \in SUBSET Nat, S # {}
  PROVE  Min(S) \in S
  <1>1. PICK m \in S : \A y \in S : ~(<<y, m>> \in OpToRel(<, Nat))
    BY NatLessThanWellFounded, WFMin
  <1>2. \A y \in S : m <= y
    <2> TAKE y \in S
    <2>1. ~(y < m) /\ y \in Nat /\ m \in Nat
      BY <1>1 DEF OpToRel
    <2> QED
      BY <2>1
  <1> QED
    BY <1>2 DEF Min

LEMMA ServersAreFinite ==
  ASSUME RecordsTypes
  PROVE  IsFiniteSet(servers)
  <1> DEFINE g == [r \in servers |-> r.id]
  <1>1. g \in [servers -> 0..MaxServers] /\ \A r, s \in servers : g[r] = g[s] => r = s
    BY DEF RecordsTypes, ServerRows, Apart
  <1>2. g \in Injection(servers, 0..MaxServers)
    BY <1>1 DEF Injection, IsInjective
  <1> QED
    BY <1>2, FS_Interval, FS_Injection, RoomConstants

\* Of one more number than there are taken ones, one is free.
LEMMA FreeNumberFacts ==
  ASSUME NEW b, NEW from \in Nat, NEW taken, IsFiniteSet(taken)
  PROVE  FreeNumber(b, from, taken) \in Nat /\ <<b, FreeNumber(b, from, taken)>> \notin taken
  <1> DEFINE c == Cardinality(taken)
             N == from..(from + c)
             S == {k \in N : <<b, k>> \notin taken}
  <1>1. c \in Nat
    BY FS_CardinalityType
  <1>2. IsFiniteSet(N) /\ Cardinality(N) = c + 1
    <2> HIDE DEF c
    <2> DEFINE e == from + c
    <2>1. ~(from > e) /\ e - from + 1 = c + 1 /\ from \in Int /\ e \in Int
      BY <1>1
    <2>2. N = from..e
      OBVIOUS
    <2> HIDE DEF e, N
    <2>3. IsFiniteSet(from..e) /\ Cardinality(from..e) = IF from > e THEN 0 ELSE e - from + 1
      BY <2>1, FS_Interval
    <2> QED
      BY <2>1, <2>2, <2>3
  <1>3. S # {}
    <2> SUFFICES ASSUME \A k \in N : <<b, k>> \in taken
                 PROVE  FALSE
      OBVIOUS
    <2> DEFINE g == [k \in N |-> <<b, k>>]
    <2>1. g \in [N -> taken] /\ \A j, k \in N : g[j] = g[k] => j = k
      OBVIOUS
    <2>2. g \in Injection(N, taken)
      BY <2>1 DEF Injection, IsInjective
    <2>3. Cardinality(N) <= c
      BY <2>2, FS_Injection
    <2> HIDE DEF c, N, g
    <2> QED
      BY <1>1, <1>2, <2>3
  <1>4. S \in SUBSET Nat
    <2> HIDE DEF c
    <2> QED
      BY <1>1
  <1>5. Min(S) \in S
    BY <1>3, <1>4, MinFacts
  <1> QED
    BY <1>4, <1>5 DEF FreeNumber

LEMMA NamesFacts ==
  ASSUME RecordsTypes
  PROVE  /\ \A b \in Bases \cup {"clone", "lobby", "nowhere"} : UniqueName(b) \in Names
         /\ \A n \in Names : /\ UniqueSlug(n) \in Names /\ UniqueDir(n) \in Names
                             /\ \A r \in servers : r.slug # UniqueSlug(n)
  <1>1. IsFiniteSet({r.name : r \in servers}) /\ IsFiniteSet({r.slug : r \in servers})
    <2> DEFINE g == [r \in servers |-> r.name]
               h == [r \in servers |-> r.slug]
    <2>1. g \in Surjection(servers, {r.name : r \in servers}) /\ h \in Surjection(servers, {r.slug : r \in servers})
      BY DEF Surjection
    <2> QED
      BY <2>1, ServersAreFinite, FS_Surjection
  <1>2. ASSUME NEW b \in Bases \cup {"clone", "lobby", "nowhere"}
        PROVE  UniqueName(b) \in Names
    BY <1>1, FreeNumberFacts DEF UniqueName, Names
  <1>3. ASSUME NEW n \in Names
        PROVE  UniqueSlug(n) \in Names /\ UniqueDir(n) \in Names /\ \A r \in servers : r.slug # UniqueSlug(n)
    <2>1. n[1] \in Bases \cup {"clone", "lobby", "nowhere"} /\ n[2] \in Nat
      BY DEF Names
    <2>2. /\ FreeNumber(n[1], n[2], {r.slug : r \in servers}) \in Nat
          /\ <<n[1], FreeNumber(n[1], n[2], {r.slug : r \in servers})>> \notin {r.slug : r \in servers}
      BY <1>1, <2>1, FreeNumberFacts
    <2>3. FreeNumber(n[1], n[2], folders) \in Nat
      BY <2>1, FreeNumberFacts DEF RecordsTypes
    <2>4. UniqueSlug(n) \in Names /\ \A r \in servers : r.slug # UniqueSlug(n)
      BY <2>1, <2>2 DEF UniqueSlug, Names
    <2>5. UniqueDir(n) \in Names
      BY <2>1, <2>3 DEF UniqueDir, Names
    <2> QED
      BY <2>4, <2>5
  <1> QED
    BY <1>2, <1>3

LEMMA WrittenFacts ==
  ASSUME NEW now \in ServerRows, NEW old \in ServerRows, NEW new \in ServerRows
  PROVE  LET r == Written(now, old, new)
         IN  /\ r \in ServerRows /\ r.id = now.id /\ r.name = now.name /\ r.slug = now.slug /\ r.status = now.status
             /\ r.given \/ (r.port = now.port /\ ~now.given)
  <1>1. \A x, y, z : Assigned(x, y, z) \in {x, z} /\ (z = y => Assigned(x, y, z) = x)
    BY DEF Assigned
  <1> DEFINE r == Written(now, old, new)
  <1>2. /\ now.port \in AnyPort /\ new.port \in AnyPort /\ now.inner \in AnyPort /\ new.inner \in AnyPort
        /\ now.sleep \in BOOLEAN /\ new.sleep \in BOOLEAN /\ now.gateway \in BOOLEAN /\ new.gateway \in BOOLEAN
        /\ now.alias \in Aliases /\ new.alias \in Aliases /\ now.default \in BOOLEAN /\ new.default \in BOOLEAN
        /\ now.given \in BOOLEAN
    BY DEF ServerRows
  <1> DEFINE g == now.given \/ new.port # old.port
             p == Assigned(now.port, old.port, new.port)
             i == Assigned(now.inner, old.inner, new.inner)
             l == Assigned(now.sleep, old.sleep, new.sleep)
             w == Assigned(now.gateway, old.gateway, new.gateway)
             a == Assigned(now.alias, old.alias, new.alias)
             d == Assigned(now.default, old.default, new.default)
  <1>3. /\ p \in AnyPort /\ i \in AnyPort /\ l \in BOOLEAN /\ w \in BOOLEAN /\ a \in Aliases /\ d \in BOOLEAN
        /\ g \in BOOLEAN /\ (new.port = old.port => p = now.port)
    BY <1>1, <1>2
  <1>w. r = [now EXCEPT !.port = p, !.given = g, !.inner = i, !.sleep = l, !.gateway = w, !.alias = a,
                        !.default = d]
    BY Zenon DEF Written
  <1>g. g <=> now.given \/ new.port # old.port
    OBVIOUS
  <1> HIDE DEF g, p, i, l, w, a, d, r
  <1> DEFINE q == [now EXCEPT !.port = p, !.given = g, !.inner = i]
             t == [q EXCEPT !.sleep = l, !.gateway = w]
  <1>q. /\ q \in ServerRows /\ q.id = now.id /\ q.name = now.name /\ q.slug = now.slug /\ q.status = now.status
        /\ q.port = p /\ q.given = g
    BY <1>3 DEF ServerRows
  <1>r. r = [t EXCEPT !.alias = a, !.default = d]
    BY <1>w, Zenon
  <1> HIDE DEF q
  <1>t. /\ t \in ServerRows /\ t.id = now.id /\ t.name = now.name /\ t.slug = now.slug /\ t.status = now.status
        /\ t.port = p /\ t.given = g
    BY <1>q, <1>3 DEF ServerRows
  <1> HIDE DEF t
  <1>4. /\ r \in ServerRows /\ r.id = now.id /\ r.name = now.name /\ r.slug = now.slug /\ r.status = now.status
        /\ r.port = p /\ r.given = g
    BY <1>t, <1>r, <1>3 DEF ServerRows
  <1>5. r.given \/ (r.port = now.port /\ ~now.given)
    <2>1. CASE new.port = old.port /\ ~now.given
      BY <1>3, <1>4, <2>1
    <2>2. CASE new.port # old.port \/ now.given
      BY <1>4, <1>g, <2>2
    <2> QED
      BY <2>1, <2>2
  <1> QED
    BY <1>4, <1>5 DEF r

-----------------------------------------------------------------------------
(* What a step leaves as it was. *)

\* Of the rows: each stems from one; its port is the same, or was given to it.
RowsFollow ==
  \A r \in servers' : \E s \in servers :
    /\ r.id = s.id
    /\ r.status = "provisioning" => s.status = "provisioning"
    /\ r.given \/ (r.port = s.port /\ ~s.given)

OthersRest(t) == \A u \in Clerks : u # t => clerk'[u] = clerk[u]
Quiet == {"idle", "provision", "name", "allocate", "decide", "save", "inner", "rename"}

LEMMA SameRowsFollow ==
  ASSUME RecordsTypes, servers' = servers
  PROVE  RowsFollow /\ Apart(servers)' /\ Ids' = Ids /\ Listing' = Listing /\ Defaults' = Defaults
  <1>1. \A r \in servers : r.given \in BOOLEAN
    BY DEF RecordsTypes, ServerRows
  <1> QED
    BY <1>1 DEF RowsFollow, RecordsTypes, Apart, Ids, Listing, Defaults

LEMMA GoesFacts ==
  ASSUME RecordsTypes, NEW t \in Clerks, NEW c \in Work, Goes(t, c)
  PROVE  clerk' \in [Clerks -> Work] /\ clerk'[t] = c /\ OthersRest(t)
  BY DEF RecordsTypes, Goes, OthersRest

LEMMA LedgerKeeps ==
  ASSUME InsertsAreLocked, RoomIsLeft, PortsStayFree, PortsDiffer, RowsFollow, Apart(servers)', allocLock' = allocLock,
         NEW t \in Clerks, OthersRest(t), clerk[t].pc # "insert", clerk'[t].pc # "insert"
  PROVE  InsertsAreLocked' /\ RoomIsLeft' /\ PortsStayFree' /\ PortsDiffer'
  <1>1. InsertsAreLocked'
    BY DEF InsertsAreLocked, OthersRest
  <1>2. RoomIsLeft'
    BY DEF RoomIsLeft, RowsFollow, OthersRest
  <1>3. PortsStayFree'
    <2> SUFFICES ASSUME NEW u \in Clerks, NEW r \in servers', clerk'[u].pc = "insert", ~clerk'[u].named,
                        clerk'[u].port # 0, r.port = clerk'[u].port, ~r.given
                 PROVE  FALSE
      BY DEF PortsStayFree
    <2>1. PICK s \in servers : r.id = s.id /\ r.port = s.port /\ ~s.given
      BY DEF RowsFollow
    <2>2. clerk'[u] = clerk[u]
      BY DEF OthersRest
    <2> QED
      BY <2>1, <2>2 DEF PortsStayFree
  <1>4. PortsDiffer'
    <2> SUFFICES ASSUME NEW r \in servers', NEW s \in servers', r # s, r.port # 0, r.port = s.port,
                        ~r.given, ~s.given
                 PROVE  FALSE
      BY DEF PortsDiffer
    <2>1. PICK a \in servers : r.id = a.id /\ r.port = a.port /\ ~a.given
      BY DEF RowsFollow
    <2>2. PICK b \in servers : s.id = b.id /\ s.port = b.port /\ ~b.given
      BY DEF RowsFollow
    <2>3. r.id # s.id
      BY DEF Apart
    <2> QED
      BY <2>1, <2>2, <2>3 DEF PortsDiffer
  <1> QED
    BY <1>1, <1>2, <1>3, <1>4

LEMMA CopiesKeep ==
  ASSUME StagesFit, MarksAreCopies, ClonesHold, RowsFollow, copies' = copies, stranded' = stranded,
         NEW t \in Clerks, OthersRest(t),
         clerk[t].pc \notin CopyStages \cup DeleteStages, clerk'[t].pc \notin CopyStages \cup DeleteStages,
         clerk'[t].what # "delete"
  PROVE  StagesFit' /\ MarksAreCopies' /\ ClonesHold'
  <1>1. StagesFit'
    BY DEF StagesFit, OthersRest
  <1>2. /\ \A u \in Clerks : \A i : CopiesClone(u, i) => u # t /\ CopiesClone(u, i)' /\ clerk'[u].pc = clerk[u].pc
        /\ \A u \in Clerks : \A i : DeletesClone(u, i) => DeletesClone(u, i)'
    BY DEF StagesFit, CopiesClone, Copying, CopyStages, DeletesClone, OthersRest
  <1>3. MarksAreCopies'
    BY <1>2 DEF MarksAreCopies
  <1>4. ClonesHold'
    <2> SUFFICES ASSUME NEW r \in servers', r.status = "provisioning", r.id \notin stranded'
                 PROVE  \/ \E u \in Clerks : DeletesClone(u, r.id)'
                        \/ \E u \in Clerks : /\ CopiesClone(u, r.id)'
                                             /\ \/ r.id \notin copies'.cancel
                                                \/ \E v \in Clerks : v # u /\ CopiesClone(v, r.id)'
      BY DEF ClonesHold
    <2>1. PICK s \in servers : r.id = s.id /\ s.status = "provisioning"
      BY DEF RowsFollow
    <2>2. \/ \E u \in Clerks : DeletesClone(u, r.id)
          \/ \E u \in Clerks : /\ CopiesClone(u, r.id)
                               /\ r.id \notin copies.cancel \/ \E v \in Clerks : v # u /\ CopiesClone(v, r.id)
      BY <2>1 DEF ClonesHold
    <2> QED
      BY <1>2, <2>2
  <1> QED
    BY <1>1, <1>3, <1>4

LEMMA MenuKeeps ==
  ASSUME MenuFollows, menu' = menu, spoilt' = spoilt, NEW t \in Clerks, OthersRest(t),
         clerk[t].pc \notin MenuStages \cup {"write"}, clerk'[t].pc \notin MenuStages \cup {"write"},
         Listing' \subseteq Listing, Defaults' # {} => Defaults # {}
  PROVE  MenuFollows'
  <1>1. OneWrites => OneWrites'
    BY DEF OneWrites, OthersRest
  <1>2. Awaited => Awaited'
    BY DEF Awaited, OthersRest
  <1>3. \A u \in Clerks : clerk'[u].pc = "write" => clerk'[u] = clerk[u]
    BY DEF OthersRest
  <1>4. (\A u \in Clerks : clerk'[u].pc # "write") => (\A u \in Clerks : clerk[u].pc # "write")
    BY DEF OthersRest
  <1> QED
    BY <1>1, <1>2, <1>3, <1>4 DEF MenuFollows

LEMMA MenuAwaits ==
  ASSUME MenuFollows, spoilt' = spoilt, NEW t \in Clerks, OthersRest(t), clerk'[t].pc \in MenuStages
  PROVE  MenuFollows'
  <1>1. OneWrites => OneWrites'
    BY DEF OneWrites, OthersRest, MenuStages
  <1>2. Awaited'
    BY DEF Awaited
  <1> QED
    BY <1>1, <1>2 DEF MenuFollows

\* A step of somebody who neither inserts, copies nor deletes.
LEMMA OutsideStep ==
  ASSUME RecordsInv, NEW t \in Clerks, NEW c \in Work, Goes(t, c),
         clerk[t].pc \notin CopyStages \cup DeleteStages \cup {"insert"},
         c.pc \notin CopyStages \cup DeleteStages \cup {"insert"}, c.what # "delete",
         servers' \subseteq ServerRows, \A r \in servers' : r.id # 0, Apart(servers)', RowsFollow,
         folders' \subseteq Names, IsFiniteSet(folders)', menu' \subseteq MenuRows, spoilt' \in BOOLEAN,
         UNCHANGED <<allocLock, copies, stranded>>, MenuFollows'
  PROVE  RecordsInv'
  <1>1. /\ RecordsTypes /\ InsertsAreLocked /\ RoomIsLeft /\ PortsStayFree /\ PortsDiffer
        /\ StagesFit /\ MarksAreCopies /\ ClonesHold
    BY DEF RecordsInv
  <1>2. clerk' \in [Clerks -> Work] /\ clerk'[t] = c /\ OthersRest(t)
    BY <1>1, GoesFacts
  <1>3. InsertsAreLocked' /\ RoomIsLeft' /\ PortsStayFree' /\ PortsDiffer'
    BY <1>1, <1>2, LedgerKeeps
  <1>4. StagesFit' /\ MarksAreCopies' /\ ClonesHold'
    BY <1>1, <1>2, CopiesKeep
  <1>5. RecordsTypes'
    BY <1>1, <1>2 DEF RecordsTypes
  <1> QED
    BY <1>3, <1>4, <1>5 DEF RecordsInv

LEMMA QuietStep ==
  ASSUME RecordsInv, NEW t \in Clerks, NEW c \in Work, Goes(t, c), clerk[t].pc \in Quiet,
         c.pc \in Quiet \cup MenuStages, c.what # "delete",
         folders' \subseteq Names, IsFiniteSet(folders)',
         UNCHANGED <<servers, allocLock, copies, menu, spoilt, stranded>>
  PROVE  RecordsInv'
  <1>1. RecordsTypes /\ MenuFollows
    BY DEF RecordsInv
  <1>2. clerk'[t] = c /\ OthersRest(t)
    BY <1>1, GoesFacts
  <1>3. RowsFollow /\ Apart(servers)' /\ Listing' = Listing /\ Defaults' = Defaults
    BY <1>1, SameRowsFollow
  <1>4. MenuFollows'
    <2>1. CASE c.pc \in MenuStages
      BY <1>1, <1>2, <2>1, MenuAwaits
    <2>2. CASE c.pc \in Quiet
      <3>1. clerk[t].pc \notin MenuStages \cup {"write"} /\ clerk'[t].pc \notin MenuStages \cup {"write"}
        BY <1>2, <2>2 DEF Quiet, MenuStages
      <3> QED
        BY <1>1, <1>2, <1>3, <3>1, MenuKeeps
    <2> QED
      BY <2>1, <2>2
  <1>5. /\ clerk[t].pc \notin CopyStages \cup DeleteStages \cup {"insert"}
        /\ c.pc \notin CopyStages \cup DeleteStages \cup {"insert"}
    BY DEF Quiet, MenuStages, CopyStages, DeleteStages
  <1>6. servers' \subseteq ServerRows /\ (\A r \in servers' : r.id # 0) /\ menu' \subseteq MenuRows /\ spoilt' \in BOOLEAN
    BY <1>1 DEF RecordsTypes
  <1> QED
    BY <1>3, <1>4, <1>5, <1>6, OutsideStep

LEMMA ClerkFacts ==
  ASSUME RecordsTypes, NEW t \in Clerks
  PROVE  clerk[t] \in Work
  BY DEF RecordsTypes

LEMMA FolderFacts ==
  ASSUME RecordsTypes, NEW d \in Names
  PROVE  /\ folders \cup {d} \subseteq Names /\ IsFiniteSet(folders \cup {d})
         /\ folders \ {d} \subseteq Names /\ IsFiniteSet(folders \ {d})
  BY FS_AddElement, FS_RemoveElement DEF RecordsTypes

LEMMA FreePortFacts ==
  ASSUME RecordsTypes, NEW but, NEW exclude, NEW p \in FreePorts(but, exclude)
  PROVE  p \in AnyPort /\ \A r \in servers : r.id # but => r.port # p
  BY DEF FreePorts, UsedPorts, AnyPort

-----------------------------------------------------------------------------
(* The steps that change nothing but a clerk's own papers.                 *)

LEMMA ResolveDirectoryStep ==
  ASSUME RecordsInv, NEW t \in Clerks, NEW b \in Bases, ResolveDirectory(t, b)
  PROVE  RecordsInv'
  <1> DEFINE c == [AtRest EXCEPT !.pc = "provision", !.what = "create", !.name = <<b, 1>>, !.dir = UniqueDir(<<b, 1>>)]
  <1>1. RecordsTypes
    BY DEF RecordsInv
  <1>2. <<b, 1>> \in Names
    BY DEF Names
  <1>3. UniqueDir(<<b, 1>>) \in Names
    BY <1>1, <1>2, NamesFacts
  <1>4. c \in Work /\ c.pc = "provision" /\ c.what = "create"
    BY <1>2, <1>3, AtRestFacts DEF Work, ClerkStages
  <1>5. Goes(t, c) /\ clerk[t].pc = "idle" /\ UNCHANGED <<servers, folders, allocLock, copies, menu, spoilt, stranded>>
    BY DEF ResolveDirectory, Request
  <1> HIDE DEF c
  <1>6. folders' \subseteq Names /\ IsFiniteSet(folders)'
    BY <1>1, <1>5 DEF RecordsTypes
  <1> QED
    BY <1>4, <1>5, <1>6, QuietStep DEF Quiet

LEMMA ImportServerStep ==
  ASSUME RecordsInv, NEW t \in Clerks, NEW b \in Bases, ImportServer(t, b)
  PROVE  RecordsInv'
  <1>1. RecordsTypes
    BY DEF RecordsInv
  <1>2. PICK dir \in folders, p \in {0, Min(Ports)} :
          Goes(t, [AtRest EXCEPT !.pc = "name", !.what = "create", !.name = <<b, 1>>, !.dir = dir, !.port = p])
    BY DEF ImportServer
  <1> DEFINE c == [AtRest EXCEPT !.pc = "name", !.what = "create", !.name = <<b, 1>>, !.dir = dir, !.port = p]
  <1>3. <<b, 1>> \in Names /\ dir \in Names
    BY <1>1 DEF Names, RecordsTypes
  <1>4. p \in AnyPort
    <2>1. Ports \in SUBSET Nat /\ Ports # {}
      BY RecordsAssumption
    <2> QED
      BY <2>1, MinFacts DEF AnyPort
  <1>5. c \in Work /\ c.pc = "name" /\ c.what = "create"
    BY <1>3, <1>4, AtRestFacts DEF Work, ClerkStages
  <1>6. Goes(t, c) /\ clerk[t].pc = "idle" /\ UNCHANGED <<servers, folders, allocLock, copies, menu, spoilt, stranded>>
    BY <1>2 DEF ImportServer, Request
  <1> HIDE DEF c
  <1>7. folders' \subseteq Names /\ IsFiniteSet(folders)'
    BY <1>1, <1>6 DEF RecordsTypes
  <1> QED
    BY <1>5, <1>6, <1>7, QuietStep DEF Quiet

LEMMA ProvisionStep ==
  ASSUME RecordsInv, NEW t \in Clerks, Provision(t)
  PROVE  RecordsInv'
  <1>1. RecordsTypes /\ StagesFit
    BY DEF RecordsInv
  <1>2. clerk[t] \in Work /\ clerk[t].dir \in Names
    BY <1>1, ClerkFacts DEF Work
  <1>3. clerk[t].pc = "provision" /\ UNCHANGED <<servers, allocLock, copies, menu, spoilt, stranded>>
    BY DEF Provision
  <1>4. folders' \subseteq Names /\ IsFiniteSet(folders)'
    BY <1>1, <1>2, FolderFacts DEF Provision
  <1>5. clerk[t].what # "delete"
    BY <1>1, <1>3 DEF StagesFit, DeleteStages
  <1> DEFINE c == [clerk[t] EXCEPT !.pc = "name"]
  <1>6. c \in Work /\ c.pc = "name" /\ c.what # "delete"
    BY <1>2, <1>5 DEF Work, ClerkStages
  <1>7. Goes(t, c) \/ Goes(t, AtRest)
    BY DEF Provision
  <1> HIDE DEF c
  <1> QED
    BY <1>3, <1>4, <1>6, <1>7, AtRestFacts, QuietStep DEF Quiet

LEMMA ChooseNameStep ==
  ASSUME RecordsInv, NEW t \in Clerks, ChooseName(t)
  PROVE  RecordsInv'
  <1>1. RecordsTypes /\ StagesFit
    BY DEF RecordsInv
  <1>2. clerk[t] \in Work /\ clerk[t].name \in Names
    BY <1>1, ClerkFacts DEF Work
  <1>3. clerk[t].pc = "name" /\ UNCHANGED <<servers, folders, allocLock, copies, menu, spoilt, stranded>>
    BY DEF ChooseName
  <1>4. UniqueName(clerk[t].name[1]) \in Names
    <2>1. clerk[t].name[1] \in Bases \cup {"clone", "lobby", "nowhere"}
      BY <1>2 DEF Names
    <2> QED
      BY <1>1, <2>1, NamesFacts
  <1>5. clerk[t].what # "delete"
    BY <1>1, <1>3 DEF StagesFit, DeleteStages
  <1> DEFINE n == UniqueName(clerk[t].name[1])
             c == [clerk[t] EXCEPT !.pc = "allocate", !.name = n]
  <1>6. Goes(t, c)
    BY DEF ChooseName
  <1> HIDE DEF n
  <1>7. c \in Work /\ c.pc = "allocate" /\ c.what # "delete"
    BY <1>2, <1>4, <1>5 DEF Work, ClerkStages, n
  <1>8. folders' \subseteq Names /\ IsFiniteSet(folders)'
    BY <1>1, <1>3 DEF RecordsTypes
  <1> HIDE DEF c
  <1> QED
    BY <1>3, <1>6, <1>7, <1>8, QuietStep DEF Quiet

LEMMA DuplicateRequestStep ==
  ASSUME RecordsInv, NEW t \in Clerks, NEW r \in servers, DuplicateRequest(t, r)
  PROVE  RecordsInv'
  <1> DEFINE f == [NoForm EXCEPT !.sleep = r.sleep]
             c == [AtRest EXCEPT !.pc = "allocate", !.what = "clone", !.source = r.id, !.form = f]
  <1>1. RecordsTypes
    BY DEF RecordsInv
  <1>2. r.id \in 0..MaxServers /\ r.sleep \in BOOLEAN
    BY <1>1 DEF RecordsTypes, ServerRows
  <1>3. f \in [alias : Aliases, default : BOOLEAN, port : AnyPort, sleep : BOOLEAN]
    BY <1>2, PortFacts DEF NoForm
  <1>4. Goes(t, c) /\ clerk[t].pc = "idle" /\ UNCHANGED <<servers, folders, allocLock, copies, menu, spoilt, stranded>>
    BY DEF DuplicateRequest, Request
  <1> HIDE DEF f
  <1>5. c \in Work /\ c.pc = "allocate" /\ c.what = "clone"
    BY <1>2, <1>3, AtRestFacts DEF Work, ClerkStages
  <1> HIDE DEF c
  <1>6. folders' \subseteq Names /\ IsFiniteSet(folders)'
    BY <1>1, <1>4 DEF RecordsTypes
  <1> QED
    BY <1>4, <1>5, <1>6, QuietStep DEF Quiet

LEMMA SettingsRequestStep ==
  ASSUME RecordsInv, NEW t \in Clerks, NEW r \in servers, NEW form \in Forms, SettingsRequest(t, r, form)
  PROVE  RecordsInv'
  <1> DEFINE c == [AtRest EXCEPT !.pc = "decide", !.what = "settings", !.id = r.id, !.loaded = r, !.form = form]
  <1>1. RecordsTypes
    BY DEF RecordsInv
  <1>2. r.id \in 0..MaxServers /\ r \in ServerRows
    BY <1>1 DEF RecordsTypes, ServerRows
  <1>3. form \in [alias : Aliases, default : BOOLEAN, port : AnyPort, sleep : BOOLEAN]
    <2>1. form \in [alias : {f.alias : f \in Forms}, default : BOOLEAN, port : Ports \cup {0}, sleep : BOOLEAN]
      BY RecordsAssumption
    <2> QED
      BY <2>1 DEF AnyPort, Aliases
  <1>4. Goes(t, c) /\ clerk[t].pc = "idle" /\ UNCHANGED <<servers, folders, allocLock, copies, menu, spoilt, stranded>>
    BY DEF SettingsRequest, Request
  <1>5. c \in Work /\ c.pc = "decide" /\ c.what = "settings"
    BY <1>2, <1>3, AtRestFacts DEF Work, ClerkStages
  <1> HIDE DEF c
  <1>6. folders' \subseteq Names /\ IsFiniteSet(folders)'
    BY <1>1, <1>4 DEF RecordsTypes
  <1> QED
    BY <1>4, <1>5, <1>6, QuietStep DEF Quiet

LEMMA RowWantedFacts ==
  ASSUME RecordsTypes, NEW t \in Clerks
  PROVE  RowWanted(t) \in ServerRows
  <1> DEFINE f == clerk[t].form
             l == clerk[t].loaded
             p == IF f.port = 0 THEN l.port ELSE f.port
             door == f.alias # NoAlias /\ ~AliasTaken(f.alias, clerk[t].id) /\ p # Front
             s == f.sleep /\ p # 0
             a == IF door THEN f.alias ELSE NoAlias
             d == door /\ f.default
  <1>1. l \in ServerRows /\ f \in [alias : Aliases, default : BOOLEAN, port : AnyPort, sleep : BOOLEAN]
    BY ClerkFacts DEF Work
  <1>2. p \in AnyPort /\ a \in Aliases /\ door \in BOOLEAN /\ s \in BOOLEAN /\ d \in BOOLEAN
    <2>1. f.port \in AnyPort /\ f.alias \in Aliases /\ f.sleep \in BOOLEAN /\ f.default \in BOOLEAN /\ l.port \in AnyPort
      BY <1>1 DEF ServerRows
    <2> HIDE DEF f, l
    <2> QED
      BY <2>1, PortFacts
  <1>3. RowWanted(t) = [l EXCEPT !.port = p, !.sleep = s, !.gateway = door, !.alias = a, !.default = d]
    BY Zenon DEF RowWanted
  <1> HIDE DEF f, l, p, door, s, a, d
  <1> DEFINE q == [l EXCEPT !.port = p, !.sleep = s, !.gateway = door]
  <1>4. q \in ServerRows
    BY <1>1, <1>2 DEF ServerRows
  <1>5. RowWanted(t) = [q EXCEPT !.alias = a, !.default = d]
    BY <1>3, Zenon
  <1> HIDE DEF q
  <1> QED
    BY <1>2, <1>4, <1>5 DEF ServerRows

LEMMA SettingsDecideStep ==
  ASSUME RecordsInv, NEW t \in Clerks, SettingsDecide(t)
  PROVE  RecordsInv'
  <1>1. RecordsTypes /\ StagesFit
    BY DEF RecordsInv
  <1>2. clerk[t] \in Work /\ RowWanted(t) \in ServerRows
    BY <1>1, ClerkFacts, RowWantedFacts
  <1>3. PICK r \in ServerRows : Goes(t, [clerk[t] EXCEPT !.pc = "save", !.wanted = r])
    <2> DEFINE w == RowWanted(t)
               free == FreePorts(w.id, {w.port, Front})
               keeps(r) == Goes(t, [clerk[t] EXCEPT !.pc = "save", !.wanted = r])
    <2>1. \/ keeps(w)
          \/ keeps([w EXCEPT !.sleep = FALSE])
          \/ \E p \in free : keeps([w EXCEPT !.inner = p])
      BY DEF SettingsDecide
    <2>2. \A p \in free : p \in AnyPort
      BY <1>1, FreePortFacts
    <2> HIDE DEF w, free, keeps
    <2>3. [w EXCEPT !.sleep = FALSE] \in ServerRows /\ \A p \in free : [w EXCEPT !.inner = p] \in ServerRows
      BY <1>2, <2>2 DEF ServerRows, w
    <2>4. \E r \in ServerRows : keeps(r)
      BY <1>2, <2>1, <2>3 DEF w
    <2> QED
      BY <2>4 DEF keeps
  <1> DEFINE c == [clerk[t] EXCEPT !.pc = "save", !.wanted = r]
  <1>4. clerk[t].pc = "decide" /\ UNCHANGED <<servers, folders, allocLock, copies, menu, spoilt, stranded>>
    BY DEF SettingsDecide
  <1>5. clerk[t].what # "delete"
    BY <1>1, <1>4 DEF StagesFit, DeleteStages
  <1>6. c \in Work /\ c.pc = "save" /\ c.what # "delete"
    BY <1>2, <1>5 DEF Work, ClerkStages
  <1>7. folders' \subseteq Names /\ IsFiniteSet(folders)'
    BY <1>1, <1>4 DEF RecordsTypes
  <1>8. Goes(t, c)
    BY <1>3
  <1> HIDE DEF c
  <1> QED
    BY <1>4, <1>6, <1>7, <1>8, QuietStep DEF Quiet

LEMMA PreparePortsStep ==
  ASSUME RecordsInv, NEW t \in Clerks, NEW r \in servers, PreparePorts(t, r)
  PROVE  RecordsInv'
  <1>1. RecordsTypes
    BY DEF RecordsInv
  <1>2. PICK p \in FreePorts(r.id, {r.port, Front}) :
          Goes(t, [AtRest EXCEPT !.pc = "inner", !.what = "start", !.id = r.id, !.port = p])
    BY DEF PreparePorts
  <1> DEFINE c == [AtRest EXCEPT !.pc = "inner", !.what = "start", !.id = r.id, !.port = p]
  <1>3. r.id \in 0..MaxServers /\ p \in AnyPort
    BY <1>1, FreePortFacts DEF RecordsTypes, ServerRows
  <1>4. c \in Work /\ c.pc = "inner" /\ c.what = "start"
    BY <1>3, AtRestFacts DEF Work, ClerkStages
  <1>5. Goes(t, c) /\ clerk[t].pc = "idle" /\ UNCHANGED <<servers, folders, allocLock, copies, menu, spoilt, stranded>>
    BY <1>2 DEF PreparePorts, Request
  <1> HIDE DEF c
  <1>6. folders' \subseteq Names /\ IsFiniteSet(folders)'
    BY <1>1, <1>5 DEF RecordsTypes
  <1> QED
    BY <1>4, <1>5, <1>6, QuietStep DEF Quiet

LEMMA RenameRequestStep ==
  ASSUME RecordsInv, NEW t \in Clerks, NEW r \in servers, NEW b \in Bases, RenameRequest(t, r, b)
  PROVE  RecordsInv'
  <1> DEFINE c == [AtRest EXCEPT !.pc = "rename", !.what = "rename", !.id = r.id, !.name = <<b, 1>>]
  <1>1. RecordsTypes
    BY DEF RecordsInv
  <1>2. r.id \in 0..MaxServers /\ <<b, 1>> \in Names
    BY <1>1 DEF RecordsTypes, ServerRows, Names
  <1>3. c \in Work /\ c.pc = "rename" /\ c.what = "rename"
    BY <1>2, AtRestFacts DEF Work, ClerkStages
  <1>4. Goes(t, c) /\ clerk[t].pc = "idle" /\ UNCHANGED <<servers, folders, allocLock, copies, menu, spoilt, stranded>>
    BY DEF RenameRequest, Request
  <1> HIDE DEF c
  <1>5. folders' \subseteq Names /\ IsFiniteSet(folders)'
    BY <1>1, <1>4 DEF RecordsTypes
  <1> QED
    BY <1>3, <1>4, <1>5, QuietStep DEF Quiet

LEMMA CreateLobbyStep ==
  ASSUME RecordsInv, NEW t \in Clerks, NEW kind \in {"auto", "velocity"}, CreateLobby(t, kind)
  PROVE  RecordsInv'
  <1>1. RecordsTypes
    BY DEF RecordsInv
  <1>2. Defaults \in SUBSET (0..MaxServers)
    BY <1>1 DEF Defaults, RecordsTypes, ServerRows
  <1>3. PICK c \in Work : Goes(t, c) /\ c.pc \in {"provision"} \cup MenuStages /\ c.what # "delete"
    <2>1. CASE \E i \in Defaults : Goes(t, [AtRest EXCEPT !.pc = IF kind = "velocity" THEN "demote" ELSE "sync",
                                                          !.what = kind, !.id = i, !.former = Defaults])
      <3>1. PICK i \in Defaults : Goes(t, [AtRest EXCEPT !.pc = IF kind = "velocity" THEN "demote" ELSE "sync",
                                                         !.what = kind, !.id = i, !.former = Defaults])
        BY <2>1
      <3> DEFINE p == IF kind = "velocity" THEN "demote" ELSE "sync"
                 d == Defaults
                 c == [AtRest EXCEPT !.pc = p, !.what = kind, !.id = i, !.former = d]
      <3>2. p \in MenuStages /\ d \in SUBSET (0..MaxServers) /\ i \in 0..MaxServers
        BY <1>2 DEF MenuStages
      <3>3. Goes(t, c)
        BY <3>1
      <3> HIDE DEF p, d
      <3>4. c \in Work /\ c.pc = p /\ c.what = kind
        BY <3>2, AtRestFacts DEF Work, ClerkStages
      <3> HIDE DEF c
      <3> QED
        BY <3>2, <3>3, <3>4
    <2>2. CASE \E p \in IF FreePorts(0, {Front}) # {} THEN FreePorts(0, {Front})
                        ELSE IF kind = "velocity" THEN {} ELSE {0} :
                 Goes(t, [AtRest EXCEPT
                   !.pc = "provision", !.what = kind, !.name = <<"lobby", 1>>, !.dir = UniqueDir(<<"lobby", 1>>),
                   !.port = p, !.former = Defaults,
                   !.form = [alias |-> IF AliasTaken("lobby", 0) THEN "lobby2" ELSE "lobby",
                             default |-> TRUE, port |-> 0, sleep |-> FALSE]])
      <3> DEFINE d == Defaults
                 n == <<"lobby", 1>>
                 u == UniqueDir(<<"lobby", 1>>)
                 f == [alias |-> IF AliasTaken("lobby", 0) THEN "lobby2" ELSE "lobby",
                       default |-> TRUE, port |-> 0, sleep |-> FALSE]
      <3>1. PICK p \in FreePorts(0, {Front}) \cup {0} :
              Goes(t, [AtRest EXCEPT !.pc = "provision", !.what = kind, !.name = n, !.dir = u,
                                     !.port = p, !.former = d, !.form = f])
        BY <2>2
      <3>2. n \in Names
        BY DEF Names
      <3>3. u \in Names /\ d \in SUBSET (0..MaxServers) /\ p \in AnyPort
        BY <1>1, <1>2, <3>2, NamesFacts, FreePortFacts, PortFacts
      <3>4. f \in [alias : Aliases, default : BOOLEAN, port : AnyPort, sleep : BOOLEAN]
        BY PortFacts DEF Aliases
      <3> DEFINE q == [AtRest EXCEPT !.pc = "provision", !.what = kind, !.name = n, !.dir = u]
                 c == [q EXCEPT !.port = p, !.former = d, !.form = f]
      <3> HIDE DEF d, n, u, f
      <3>5. Goes(t, c)
        BY <3>1, Zenon
      <3>6. q \in Work /\ q.pc = "provision" /\ q.what = kind
        BY <3>2, <3>3, AtRestFacts DEF Work, ClerkStages
      <3> HIDE DEF q
      <3>7. c \in Work /\ c.pc = "provision" /\ c.what = kind
        BY <3>3, <3>4, <3>6 DEF Work
      <3> HIDE DEF c
      <3> QED
        BY <3>5, <3>7
    <2> QED
      BY <2>1, <2>2 DEF CreateLobby
  <1>4. clerk[t].pc = "idle" /\ UNCHANGED <<servers, folders, allocLock, copies, menu, spoilt, stranded>>
    BY DEF CreateLobby, Request
  <1>5. folders' \subseteq Names /\ IsFiniteSet(folders)'
    BY <1>1, <1>4 DEF RecordsTypes
  <1> QED
    BY <1>3, <1>4, <1>5, QuietStep DEF Quiet

-----------------------------------------------------------------------------
(* The steps that write rows and neither insert, copy nor delete.          *)

\* What the menu tells of a row changes only when an update is to follow.
SameListing ==
  \A r \in servers' : \E s \in servers :
    /\ r.id = s.id /\ r.name = s.name /\ r.alias = s.alias /\ r.port = s.port
    /\ r.gateway => s.gateway
    /\ r.default => s.default

LEMMA ListingFacts ==
  ASSUME SameListing
  PROVE  Listing' \subseteq Listing /\ (Defaults' # {} => Defaults # {})
  <1>1. ASSUME NEW x \in Listing'
        PROVE  x \in Listing
    <2>1. PICK r \in servers' : r.gateway /\ r.port # 0 /\ x = [id |-> r.id, name |-> r.name, alias |-> r.alias]
      BY DEF Listing
    <2>2. PICK s \in servers : r.id = s.id /\ r.name = s.name /\ r.alias = s.alias /\ r.port = s.port /\ s.gateway
      BY <2>1 DEF SameListing
    <2>3. s.gateway /\ s.port # 0 /\ x = [id |-> s.id, name |-> s.name, alias |-> s.alias]
      BY <2>1, <2>2
    <2> QED
      BY <2>3 DEF Listing
  <1>2. Defaults' # {} => Defaults # {}
    BY DEF SameListing, Defaults
  <1> QED
    BY <1>1, <1>2

LEMMA ChangeFacts ==
  ASSUME RecordsTypes, NEW i \in Ids, NEW q \in ServerRows, Change(i, q),
         q.id = i, q.slug = Server(i).slug, \A s \in servers : s.id # i => s.name # q.name,
         q.given \/ (q.port = Server(i).port /\ ~Server(i).given),
         q.status = "provisioning" => Server(i).status = "provisioning"
  PROVE  /\ servers' \subseteq ServerRows /\ (\A r \in servers' : r.id # 0) /\ Apart(servers)' /\ RowsFollow
         /\ servers' = {s \in servers : s.id # i} \cup {q}
  <1>1. Server(i) \in servers /\ Server(i).id = i /\ \A r \in servers : r.id = i => r = Server(i)
    BY ServerFacts
  <1>2. servers' = {s \in servers : s.id # i} \cup {q}
    BY DEF Change
  <1>3. servers' \subseteq ServerRows /\ \A r \in servers' : r.id # 0
    BY <1>1, <1>2 DEF RecordsTypes
  <1>4. Apart(servers')
    BY <1>1, <1>2 DEF RecordsTypes, Apart
  <1>5. RowsFollow
    <2> SUFFICES ASSUME NEW r \in servers'
                 PROVE  \E s \in servers : /\ r.id = s.id
                                           /\ r.status = "provisioning" => s.status = "provisioning"
                                           /\ r.given \/ (r.port = s.port /\ ~s.given)
      BY DEF RowsFollow
    <2>1. CASE r = q
      BY <1>1, <2>1
    <2>2. CASE r \in servers
      <3>1. r.given \in BOOLEAN
        BY <2>2 DEF RecordsTypes, ServerRows
      <3> QED
        BY <2>2, <3>1
    <2> QED
      BY <1>2, <2>1, <2>2
  <1> QED
    BY <1>2, <1>3, <1>4, <1>5

\* Every row is written for itself.
LEMMA MappedFacts ==
  ASSUME RecordsTypes, NEW f, servers' = {f[r] : r \in servers},
         \A r \in servers : /\ f[r] \in ServerRows /\ f[r].id = r.id /\ f[r].name = r.name /\ f[r].slug = r.slug
                            /\ f[r].status = r.status
                            /\ f[r].given \/ (f[r].port = r.port /\ ~r.given)
  PROVE  servers' \subseteq ServerRows /\ (\A r \in servers' : r.id # 0) /\ Apart(servers)' /\ RowsFollow
  <1>1. servers' \subseteq ServerRows /\ \A r \in servers' : r.id # 0
    BY DEF RecordsTypes
  <1>2. Apart(servers')
    BY DEF RecordsTypes, Apart
  <1>3. RowsFollow
    BY DEF RowsFollow
  <1> QED
    BY <1>1, <1>2, <1>3

LEMMA SettingsSaveStep ==
  ASSUME RecordsInv, NEW t \in Clerks, SettingsSave(t)
  PROVE  RecordsInv'
  <1>1. RecordsTypes /\ StagesFit /\ MenuFollows
    BY DEF RecordsInv
  <1>2. clerk[t] \in Work
    BY <1>1, ClerkFacts
  <1>3. clerk[t].pc = "save" /\ UNCHANGED <<folders, allocLock, copies, menu, spoilt, stranded>>
    BY DEF SettingsSave
  <1>4. clerk[t].what # "delete"
    BY <1>1, <1>3 DEF StagesFit, DeleteStages
  <1>5. folders' \subseteq Names /\ IsFiniteSet(folders)'
    BY <1>1, <1>3 DEF RecordsTypes
  <1>6. CASE clerk[t].id \notin Ids
    <2>1. Goes(t, AtRest) /\ servers' = servers
      BY <1>6 DEF SettingsSave
    <2> QED
      BY <1>3, <1>5, <2>1, AtRestFacts, QuietStep DEF Quiet
  <1>7. CASE clerk[t].id \in Ids
    <2> DEFINE i == clerk[t].id
               old == clerk[t].loaded
               new == clerk[t].wanted
               p == IF clerk[t].what = "velocity" THEN "demote" ELSE "sync"
               c == [clerk[t] EXCEPT !.loaded = Unread, !.wanted = Unread, !.pc = p]
               f == [r \in servers |-> IF r.id = i THEN Written(r, old, new)
                                       ELSE IF new.default THEN [r EXCEPT !.default = FALSE] ELSE r]
    <2>1. /\ servers' = {IF r.id = i THEN Written(r, old, new)
                         ELSE IF new.default THEN [r EXCEPT !.default = FALSE] ELSE r : r \in servers}
          /\ Goes(t, c)
      BY <1>7, Zenon DEF SettingsSave
    <2>2. old \in ServerRows /\ new \in ServerRows
      BY <1>2 DEF Work
    <2>3. p \in MenuStages
      BY DEF MenuStages
    <2> HIDE DEF p
    <2>4. c \in Work /\ c.pc \in MenuStages /\ c.what # "delete"
      BY <1>2, <1>4, <2>3, NoRowFacts DEF Work, ClerkStages
    <2> HIDE DEF c, i, old, new
    <2>5. ASSUME NEW r \in servers
          PROVE  /\ f[r] \in ServerRows /\ f[r].id = r.id /\ f[r].name = r.name /\ f[r].slug = r.slug
                 /\ f[r].status = r.status
                 /\ f[r].given \/ (f[r].port = r.port /\ ~r.given)
      <3>1. r \in ServerRows
        BY <1>1 DEF RecordsTypes
      <3>2. CASE r.id = i
        <4>1. f[r] = Written(r, old, new)
          BY <3>2
        <4> HIDE DEF f
        <4> QED
          BY <2>2, <3>1, <4>1, WrittenFacts
      <3>3. CASE r.id # i
        <4>1. f[r] \in {r, [r EXCEPT !.default = FALSE]}
          BY <3>3
        <4> HIDE DEF f
        <4>2. r.given \in BOOLEAN
          BY <3>1 DEF ServerRows
        <4> QED
          BY <3>1, <4>1, <4>2 DEF ServerRows
      <3> QED
        BY <3>2, <3>3
    <2>6. servers' = {f[r] : r \in servers}
      BY <2>1
    <2> HIDE DEF f
    <2>7. servers' \subseteq ServerRows /\ (\A r \in servers' : r.id # 0) /\ Apart(servers)' /\ RowsFollow
      BY <1>1, <2>5, <2>6, MappedFacts
    <2>8. MenuFollows'
      <3>1. clerk'[t] = c /\ OthersRest(t)
        BY <1>1, <2>1, <2>4, GoesFacts
      <3> QED
        BY <1>1, <1>3, <2>4, <3>1, MenuAwaits
    <2>9. /\ clerk[t].pc \notin CopyStages \cup DeleteStages \cup {"insert"}
          /\ c.pc \notin CopyStages \cup DeleteStages \cup {"insert"}
      BY <1>3, <2>4 DEF MenuStages, CopyStages, DeleteStages
    <2>10. menu' \subseteq MenuRows /\ spoilt' \in BOOLEAN
      BY <1>1, <1>3 DEF RecordsTypes
    <2> QED
      BY <1>3, <1>5, <2>1, <2>4, <2>7, <2>8, <2>9, <2>10, OutsideStep
  <1> QED
    BY <1>6, <1>7

LEMMA PreparedPortsStep ==
  ASSUME RecordsInv, NEW t \in Clerks, PreparedPorts(t)
  PROVE  RecordsInv'
  <1>1. RecordsTypes /\ MenuFollows
    BY DEF RecordsInv
  <1>2. clerk[t].pc = "inner" /\ Goes(t, AtRest) /\ UNCHANGED <<folders, allocLock, copies, menu, spoilt, stranded>>
    BY DEF PreparedPorts
  <1>3. folders' \subseteq Names /\ IsFiniteSet(folders)'
    BY <1>1, <1>2 DEF RecordsTypes
  <1>4. CASE clerk[t].id \notin Ids
    <2>1. servers' = servers
      BY <1>4 DEF PreparedPorts
    <2> QED
      BY <1>2, <1>3, <2>1, AtRestFacts, QuietStep DEF Quiet
  <1>5. CASE clerk[t].id \in Ids
    <2> DEFINE i == clerk[t].id
               s == Server(i)
               p == clerk[t].port
               q == [s EXCEPT !.inner = p]
    <2>1. Change(i, q)
      BY <1>5 DEF PreparedPorts
    <2>2. s \in servers /\ s.id = i /\ s \in ServerRows /\ \A r \in servers : r.id = i => r = s
      BY <1>1, <1>5, ServerFacts
    <2>3. p \in AnyPort
      BY <1>1, ClerkFacts DEF Work
    <2> HIDE DEF p
    <2>4. /\ q \in ServerRows /\ q.id = i /\ q.slug = s.slug /\ q.name = s.name /\ q.port = s.port /\ q.given = s.given
          /\ q.status = s.status /\ q.gateway = s.gateway /\ q.alias = s.alias /\ q.default = s.default
      BY <2>2, <2>3 DEF ServerRows
    <2>5. s.given \in BOOLEAN /\ s.gateway \in BOOLEAN /\ s.default \in BOOLEAN
      BY <2>2 DEF ServerRows
    <2> HIDE DEF q
    <2>6. \A r \in servers : r.id # i => r.name # q.name
      BY <1>1, <2>2, <2>4 DEF RecordsTypes, Apart
    <2>7. q.given \/ (q.port = s.port /\ ~s.given)
      BY <2>4, <2>5
    <2>8. /\ servers' \subseteq ServerRows /\ (\A r \in servers' : r.id # 0) /\ Apart(servers)' /\ RowsFollow
          /\ servers' = {r \in servers : r.id # i} \cup {q}
      BY <1>1, <1>5, <2>1, <2>4, <2>6, <2>7, ChangeFacts
    <2>9. SameListing
      BY <2>2, <2>4, <2>8 DEF SameListing
    <2>10. MenuFollows'
      <3>1. clerk'[t] = AtRest /\ OthersRest(t)
        BY <1>1, <1>2, AtRestFacts, GoesFacts
      <3>2. clerk[t].pc \notin MenuStages \cup {"write"} /\ clerk'[t].pc \notin MenuStages \cup {"write"}
        BY <1>2, <3>1, AtRestFacts DEF MenuStages
      <3> QED
        BY <1>1, <1>2, <2>9, <3>1, <3>2, ListingFacts, MenuKeeps
    <2>11. /\ clerk[t].pc \notin CopyStages \cup DeleteStages \cup {"insert"}
           /\ AtRest.pc \notin CopyStages \cup DeleteStages \cup {"insert"}
      BY <1>2, AtRestFacts DEF CopyStages, DeleteStages
    <2>12. menu' \subseteq MenuRows /\ spoilt' \in BOOLEAN
      BY <1>1, <1>2 DEF RecordsTypes
    <2> QED
      BY <1>2, <1>3, <2>8, <2>10, <2>11, <2>12, AtRestFacts, OutsideStep
  <1> QED
    BY <1>4, <1>5

LEMMA RenameServerStep ==
  ASSUME RecordsInv, NEW t \in Clerks, RenameServer(t)
  PROVE  RecordsInv'
  <1>1. RecordsTypes /\ StagesFit /\ MenuFollows
    BY DEF RecordsInv
  <1>2. clerk[t].pc = "rename" /\ UNCHANGED <<folders, allocLock, copies, menu, spoilt, stranded>>
    BY DEF RenameServer
  <1>3. folders' \subseteq Names /\ IsFiniteSet(folders)'
    BY <1>1, <1>2 DEF RecordsTypes
  <1> DEFINE i == clerk[t].id
             n == clerk[t].name
             may == i \in Ids /\ ~\E r \in servers : r.id # i /\ r.name = n
             c == [clerk[t] EXCEPT !.pc = "sync"]
  <1>4. CASE ~may
    <2>1. Goes(t, AtRest) /\ servers' = servers
      BY <1>4 DEF RenameServer
    <2> QED
      BY <1>2, <1>3, <2>1, AtRestFacts, QuietStep DEF Quiet
  <1>5. CASE may
    <2> DEFINE s == Server(i)
               q == [s EXCEPT !.name = n]
    <2>1. Change(i, q) /\ Goes(t, c)
      BY <1>5 DEF RenameServer
    <2>2. s \in servers /\ s.id = i /\ s \in ServerRows
      BY <1>1, <1>5, ServerFacts
    <2>3. clerk[t] \in Work /\ n \in Names /\ clerk[t].what # "delete"
      BY <1>1, <1>2, ClerkFacts DEF Work, StagesFit, DeleteStages
    <2>4. c \in Work /\ c.pc = "sync" /\ c.what # "delete"
      BY <2>3 DEF Work, ClerkStages, MenuStages
    <2>5. \A r \in servers : r.id # i => r.name # n
      BY <1>5
    <2> HIDE DEF n, c
    <2>6. /\ q \in ServerRows /\ q.id = i /\ q.slug = s.slug /\ q.name = n /\ q.port = s.port /\ q.given = s.given
          /\ q.status = s.status
      BY <2>2, <2>3 DEF ServerRows
    <2>7. s.given \in BOOLEAN
      BY <2>2 DEF ServerRows
    <2> HIDE DEF q
    <2>8. q.given \/ (q.port = s.port /\ ~s.given)
      BY <2>6, <2>7
    <2>9. servers' \subseteq ServerRows /\ (\A r \in servers' : r.id # 0) /\ Apart(servers)' /\ RowsFollow
      BY <1>1, <1>5, <2>1, <2>5, <2>6, <2>8, ChangeFacts
    <2>10. MenuFollows'
      <3>1. clerk'[t] = c /\ OthersRest(t)
        BY <1>1, <2>1, <2>4, GoesFacts
      <3> QED
        BY <1>1, <1>2, <2>4, <3>1, MenuAwaits DEF MenuStages
    <2>11. /\ clerk[t].pc \notin CopyStages \cup DeleteStages \cup {"insert"}
           /\ c.pc \notin CopyStages \cup DeleteStages \cup {"insert"}
      BY <1>2, <2>4 DEF CopyStages, DeleteStages
    <2>12. menu' \subseteq MenuRows /\ spoilt' \in BOOLEAN
      BY <1>1, <1>2 DEF RecordsTypes
    <2> QED
      BY <1>2, <1>3, <2>1, <2>4, <2>9, <2>10, <2>11, <2>12, OutsideStep
  <1> QED
    BY <1>4, <1>5

LEMMA DemoteLobbiesStep ==
  ASSUME RecordsInv, NEW t \in Clerks, DemoteLobbies(t)
  PROVE  RecordsInv'
  <1>1. RecordsTypes /\ StagesFit /\ MenuFollows
    BY DEF RecordsInv
  <1> DEFINE c == [clerk[t] EXCEPT !.pc = "sync"]
             f == [r \in servers |-> IF r.default /\ r.id # clerk[t].id
                                     THEN [r EXCEPT !.default = FALSE, !.gateway = FALSE] ELSE r]
  <1>2. /\ clerk[t].pc = "demote" /\ Goes(t, c)
        /\ UNCHANGED <<folders, allocLock, copies, menu, spoilt, stranded>>
    BY DEF DemoteLobbies
  <1>3. folders' \subseteq Names /\ IsFiniteSet(folders)'
    BY <1>1, <1>2 DEF RecordsTypes
  <1>4. clerk[t] \in Work /\ clerk[t].what # "delete"
    BY <1>1, <1>2, ClerkFacts DEF StagesFit, DeleteStages
  <1>5. c \in Work /\ c.pc = "sync" /\ c.what # "delete"
    BY <1>4 DEF Work, ClerkStages, MenuStages
  <1>6. servers' = {f[r] : r \in servers}
    BY DEF DemoteLobbies
  <1>7. ASSUME NEW r \in servers
        PROVE  /\ f[r] \in ServerRows /\ f[r].id = r.id /\ f[r].name = r.name /\ f[r].slug = r.slug
               /\ f[r].status = r.status
               /\ f[r].given \/ (f[r].port = r.port /\ ~r.given)
    <2>1. f[r] \in {r, [r EXCEPT !.default = FALSE, !.gateway = FALSE]}
      OBVIOUS
    <2>2. r \in ServerRows /\ r.given \in BOOLEAN
      BY <1>1 DEF RecordsTypes, ServerRows
    <2> HIDE DEF f
    <2> QED
      BY <2>1, <2>2 DEF ServerRows
  <1> HIDE DEF c, f
  <1>8. servers' \subseteq ServerRows /\ (\A r \in servers' : r.id # 0) /\ Apart(servers)' /\ RowsFollow
    BY <1>1, <1>6, <1>7, MappedFacts
  <1>9. MenuFollows'
    <2>1. clerk'[t] = c /\ OthersRest(t)
      BY <1>1, <1>2, <1>5, GoesFacts
    <2> QED
      BY <1>1, <1>2, <1>5, <2>1, MenuAwaits DEF MenuStages
  <1>10. /\ clerk[t].pc \notin CopyStages \cup DeleteStages \cup {"insert"}
         /\ c.pc \notin CopyStages \cup DeleteStages \cup {"insert"}
    BY <1>2, <1>5 DEF CopyStages, DeleteStages
  <1>11. menu' \subseteq MenuRows /\ spoilt' \in BOOLEAN
    BY <1>1, <1>2 DEF RecordsTypes
  <1> QED
    BY <1>2, <1>3, <1>5, <1>8, <1>9, <1>10, <1>11, OutsideStep

\* Who reads the rows while nobody writes will write them as they are.
LEMMA SyncReadsStep ==
  ASSUME RecordsInv, NEW t \in Clerks, SyncReads(t)
  PROVE  RecordsInv'
  <1>1. RecordsTypes /\ StagesFit /\ MenuFollows
    BY DEF RecordsInv
  <1>2. clerk[t].pc = "sync" /\ UNCHANGED <<servers, folders, allocLock, copies, menu, stranded>>
    BY DEF SyncReads
  <1>3. folders' \subseteq Names /\ IsFiniteSet(folders)'
    BY <1>1, <1>2 DEF RecordsTypes
  <1>4. clerk[t] \in Work /\ clerk[t].what # "delete"
    BY <1>1, <1>2, ClerkFacts DEF StagesFit, DeleteStages
  <1>5. /\ servers' \subseteq ServerRows /\ (\A r \in servers' : r.id # 0) /\ Apart(servers)' /\ RowsFollow
        /\ Listing' = Listing /\ Defaults' = Defaults
    BY <1>1, <1>2, SameRowsFollow DEF RecordsTypes
  <1>6. menu' \subseteq MenuRows
    BY <1>1, <1>2 DEF RecordsTypes
  <1>7. CASE \E r \in servers : r.default
    <2> DEFINE l == Listing
               c == [clerk[t] EXCEPT !.pc = "write", !.seen = l]
    <2>1. Goes(t, c) /\ spoilt' = (spoilt \/ \E u \in Clerks : clerk[u].pc = "write")
      BY <1>7 DEF SyncReads
    <2>2. l \subseteq MenuRows
      BY <1>1 DEF RecordsTypes, ServerRows, Listing, MenuRows
    <2>3. l = Listing'
      BY <1>5
    <2> HIDE DEF l
    <2>4. c \in Work /\ c.pc = "write" /\ c.seen = l /\ c.what # "delete"
      BY <1>4, <2>2 DEF Work, ClerkStages
    <2> HIDE DEF c
    <2>5. clerk'[t] = c /\ OthersRest(t)
      BY <1>1, <2>1, <2>4, GoesFacts
    <2>6. MenuFollows'
      <3>1. SUFFICES ASSUME ~spoilt'
                     PROVE  /\ OneWrites'
                            /\ \A u \in Clerks : clerk'[u].pc = "write" => Listing' \subseteq clerk'[u].seen
                            /\ ~(\A u \in Clerks : clerk'[u].pc # "write")
        BY DEF MenuFollows
      <3>2. \A u \in Clerks : clerk'[u].pc = "write" => u = t
        BY <2>1, <2>5, <3>1 DEF OthersRest
      <3>3. OneWrites'
        BY <3>2 DEF OneWrites
      <3> QED
        BY <2>3, <2>4, <2>5, <3>2, <3>3
    <2>7. /\ clerk[t].pc \notin CopyStages \cup DeleteStages \cup {"insert"}
          /\ c.pc \notin CopyStages \cup DeleteStages \cup {"insert"}
      BY <1>2, <2>4 DEF CopyStages, DeleteStages
    <2>8. spoilt' \in BOOLEAN
      BY <1>1, <2>1 DEF RecordsTypes
    <2> QED
      BY <1>2, <1>3, <1>5, <1>6, <2>1, <2>4, <2>6, <2>7, <2>8, OutsideStep
  <1>8. CASE ~\E r \in servers : r.default
    <2>1. Goes(t, AtRest) /\ spoilt' = spoilt
      BY <1>8 DEF SyncReads
    <2>2. clerk'[t] = AtRest /\ OthersRest(t)
      BY <1>1, <2>1, AtRestFacts, GoesFacts
    <2>3. MenuFollows'
      <3>1. Defaults' = {}
        BY <1>5, <1>8 DEF Defaults
      <3>2. OneWrites => OneWrites'
        BY <2>2, AtRestFacts DEF OneWrites, OthersRest
      <3> QED
        BY <1>1, <2>1, <3>1, <3>2 DEF MenuFollows
    <2>4. /\ clerk[t].pc \notin CopyStages \cup DeleteStages \cup {"insert"}
          /\ AtRest.pc \notin CopyStages \cup DeleteStages \cup {"insert"}
      BY <1>2, AtRestFacts DEF CopyStages, DeleteStages
    <2>5. spoilt' \in BOOLEAN
      BY <1>1, <2>1 DEF RecordsTypes
    <2> QED
      BY <1>2, <1>3, <1>5, <1>6, <2>1, <2>3, <2>4, <2>5, AtRestFacts, OutsideStep
  <1> QED
    BY <1>7, <1>8

LEMMA SyncWritesStep ==
  ASSUME RecordsInv, NEW t \in Clerks, SyncWrites(t)
  PROVE  RecordsInv'
  <1>1. RecordsTypes /\ MenuFollows
    BY DEF RecordsInv
  <1>2. /\ clerk[t].pc = "write" /\ Goes(t, AtRest) /\ UNCHANGED <<servers, folders, allocLock, copies, stranded>>
        /\ \/ menu' = clerk[t].seen /\ spoilt' = spoilt
           \/ spoilt' = TRUE /\ menu' = menu
    BY DEF SyncWrites
  <1>3. folders' \subseteq Names /\ IsFiniteSet(folders)'
    BY <1>1, <1>2 DEF RecordsTypes
  <1>4. /\ servers' \subseteq ServerRows /\ (\A r \in servers' : r.id # 0) /\ Apart(servers)' /\ RowsFollow
        /\ Listing' = Listing /\ Defaults' = Defaults
    BY <1>1, <1>2, SameRowsFollow DEF RecordsTypes
  <1>5. clerk[t] \in Work /\ clerk[t].seen \subseteq MenuRows
    BY <1>1, ClerkFacts DEF Work
  <1>6. menu' \subseteq MenuRows /\ spoilt' \in BOOLEAN
    BY <1>1, <1>2, <1>5 DEF RecordsTypes
  <1>7. clerk'[t] = AtRest /\ OthersRest(t)
    BY <1>1, <1>2, AtRestFacts, GoesFacts
  <1>8. MenuFollows'
    <2>1. SUFFICES ASSUME ~spoilt'
                   PROVE  /\ OneWrites'
                          /\ \A u \in Clerks : clerk'[u].pc # "write"
                          /\ Defaults # {} /\ ~Awaited' => Listing \subseteq menu'
      BY <1>4 DEF MenuFollows
    <2>2. ~spoilt /\ menu' = clerk[t].seen
      BY <1>2, <2>1
    <2>3. \A u \in Clerks : clerk[u].pc = "write" => u = t
      BY <1>1, <1>2, <2>2 DEF MenuFollows, OneWrites
    <2>4. \A u \in Clerks : clerk'[u].pc # "write"
      BY <1>7, <2>3, AtRestFacts DEF OthersRest
    <2>5. Awaited => Awaited'
      <3> SUFFICES ASSUME NEW u \in Clerks, clerk[u].pc \in MenuStages
                   PROVE  Awaited'
        BY DEF Awaited
      <3>1. u # t
        BY <1>2 DEF MenuStages
      <3> QED
        BY <1>7, <3>1 DEF Awaited, OthersRest
    <2> QED
      BY <1>1, <1>2, <2>2, <2>4, <2>5 DEF MenuFollows, OneWrites
  <1>9. /\ clerk[t].pc \notin CopyStages \cup DeleteStages \cup {"insert"}
        /\ AtRest.pc \notin CopyStages \cup DeleteStages \cup {"insert"}
    BY <1>2, AtRestFacts DEF CopyStages, DeleteStages
  <1> QED
    BY <1>2, <1>3, <1>4, <1>6, <1>8, <1>9, AtRestFacts, OutsideStep

-----------------------------------------------------------------------------
(* Under the lock.                                                         *)

LEMMA AllocateStep ==
  ASSUME RecordsInv, NEW t \in Clerks, Allocate(t)
  PROVE  RecordsInv'
  <1>1. /\ RecordsTypes /\ InsertsAreLocked /\ PortsDiffer /\ StagesFit /\ MarksAreCopies /\ ClonesHold
        /\ MenuFollows
    BY DEF RecordsInv
  <1>2. /\ clerk[t].pc = "allocate" /\ allocLock = Nobody /\ NewId <= MaxServers
        /\ UNCHANGED <<servers, folders, copies, menu, spoilt, stranded>>
    BY DEF Allocate, AllocateUnlocked
  <1>3. folders' \subseteq Names /\ IsFiniteSet(folders)'
    BY <1>1, <1>2 DEF RecordsTypes
  <1>4. clerk[t] \in Work /\ clerk[t].what # "delete"
    BY <1>1, <1>2, ClerkFacts DEF StagesFit, DeleteStages
  <1>5. CASE allocLock' = t /\ \E c \in Work :
               /\ Goes(t, c) /\ c.pc = "insert" /\ c.what = clerk[t].what
               /\ c.named \/ c.port = 0 \/ \A r \in servers : r.port # c.port
    <2>1. PICK c \in Work : /\ Goes(t, c) /\ c.pc = "insert" /\ c.what = clerk[t].what
                            /\ c.named \/ c.port = 0 \/ \A r \in servers : r.port # c.port
      BY <1>5
    <2>2. clerk' \in [Clerks -> Work] /\ clerk'[t] = c /\ OthersRest(t)
      BY <1>1, <2>1, GoesFacts
    <2>3. RowsFollow /\ Apart(servers)' /\ Listing' = Listing /\ Defaults' = Defaults
      BY <1>1, <1>2, SameRowsFollow
    <2>4. \A u \in Clerks : u # Nobody
      BY RecordsAssumption DEF Nobody
    <2>5. \A u \in Clerks : clerk'[u].pc = "insert" <=> u = t
      BY <1>1, <1>2, <2>1, <2>2, <2>4 DEF InsertsAreLocked, OthersRest
    <2>6. InsertsAreLocked'
      BY <1>5, <2>5 DEF InsertsAreLocked
    <2>7. RoomIsLeft'
      <3>1. \A r \in servers : r.id # MaxServers
        BY <1>1, <1>2, NewIdFacts, RoomConstants
      <3> QED
        BY <1>2, <3>1 DEF RoomIsLeft
    <2>8. PortsStayFree'
      BY <1>2, <2>1, <2>2, <2>5 DEF PortsStayFree
    <2>9. PortsDiffer'
      BY <1>1, <1>2 DEF PortsDiffer
    <2>10. /\ clerk[t].pc \notin CopyStages \cup DeleteStages /\ clerk'[t].pc \notin CopyStages \cup DeleteStages
           /\ clerk[t].pc \notin MenuStages \cup {"write"} /\ clerk'[t].pc \notin MenuStages \cup {"write"}
           /\ clerk'[t].what # "delete"
      BY <1>2, <1>4, <2>1, <2>2 DEF CopyStages, DeleteStages, MenuStages
    <2>11. StagesFit' /\ MarksAreCopies' /\ ClonesHold'
      BY <1>1, <1>2, <2>2, <2>3, <2>10, CopiesKeep
    <2>12. MenuFollows'
      BY <1>1, <1>2, <2>2, <2>3, <2>10, MenuKeeps
    <2>13. RecordsTypes'
      BY <1>1, <1>2, <1>3, <1>5, <2>2, <2>3 DEF RecordsTypes
    <2> QED
      BY <2>6, <2>7, <2>8, <2>9, <2>11, <2>12, <2>13 DEF RecordsInv
  <1>6. CASE allocLock' = allocLock /\ Goes(t, AtRest)
    BY <1>2, <1>3, <1>6, AtRestFacts, QuietStep DEF Quiet
  <1>7. \/ allocLock' = t /\ \E c \in Work :
              /\ Goes(t, c) /\ c.pc = "insert" /\ c.what = clerk[t].what
              /\ c.named \/ c.port = 0 \/ \A r \in servers : r.port # c.port
        \/ allocLock' = allocLock /\ Goes(t, AtRest)
    <2> DEFINE w == clerk[t]
    <2>1. CASE /\ w.what # "clone" /\ allocLock' = t
               /\ \E p \in IF w.port # 0 THEN {w.port}
                           ELSE IF FreePorts(0, {}) = {} THEN {0} ELSE FreePorts(0, {}) :
                    Goes(t, [w EXCEPT !.pc = "insert", !.named = (w.port # 0), !.port = p])
      <3>1. PICK p \in IF w.port # 0 THEN {w.port} ELSE IF FreePorts(0, {}) = {} THEN {0} ELSE FreePorts(0, {}) :
                   Goes(t, [w EXCEPT !.pc = "insert", !.named = (w.port # 0), !.port = p])
        BY <2>1
      <3> DEFINE b == w.port # 0
                 c == [w EXCEPT !.pc = "insert", !.named = b, !.port = p]
      <3>2. w.port \in AnyPort
        BY <1>4 DEF Work
      <3>3. b \/ p = 0 \/ p \in FreePorts(0, {})
        OBVIOUS
      <3>4. p \in AnyPort
        BY <1>1, <3>1, <3>2, FreePortFacts, PortFacts
      <3>5. Goes(t, c) /\ b \in BOOLEAN
        BY <3>1
      <3>6. b \/ p = 0 \/ \A r \in servers : r.port # p
        BY <1>1, <3>3, FreePortFacts DEF RecordsTypes
      <3> HIDE DEF b
      <3>7. c \in Work /\ c.pc = "insert" /\ c.what = w.what /\ c.named = b /\ c.port = p
        BY <1>4, <3>4, <3>5 DEF Work, ClerkStages
      <3> HIDE DEF c
      <3>8. c.named \/ c.port = 0 \/ \A r \in servers : r.port # c.port
        BY <3>6, <3>7
      <3> QED
        BY <2>1, <3>5, <3>7, <3>8
    <2>2. CASE /\ w.what = "clone" /\ allocLock' = t
               /\ \E x \in ClonePorts(w) :
                    Goes(t, [w EXCEPT !.pc = "insert", !.name = UniqueName("clone"), !.port = x[1], !.inner = x[2],
                                      !.dir = UniqueDir(UniqueSlug(UniqueName("clone")))])
      <3> DEFINE n == UniqueName("clone")
                 d == UniqueDir(UniqueSlug(UniqueName("clone")))
      <3>1. PICK x \in ClonePorts(w) :
              Goes(t, [w EXCEPT !.pc = "insert", !.name = n, !.port = x[1], !.inner = x[2], !.dir = d])
        BY <2>2
      <3> DEFINE p == x[1]
                 q == x[2]
                 m == [w EXCEPT !.pc = "insert", !.name = n]
                 c == [m EXCEPT !.port = p, !.inner = q, !.dir = d]
      <3>2. p \in FreePorts(0, {}) /\ q \in FreePorts(0, {}) \cup {0}
        BY DEF ClonePorts
      <3>3. n \in Names
        BY <1>1, NamesFacts
      <3>4. d \in Names
        BY <1>1, <3>3, NamesFacts
      <3> HIDE DEF n, d, p, q
      <3>5. Goes(t, c)
        BY <3>1, Zenon DEF p, q
      <3>6. p \in AnyPort /\ q \in AnyPort /\ \A r \in servers : r.port # p
        BY <1>1, <3>2, FreePortFacts, PortFacts DEF RecordsTypes
      <3>7. m \in Work /\ m.pc = "insert" /\ m.what = w.what
        BY <1>4, <3>3 DEF Work, ClerkStages
      <3> HIDE DEF m
      <3>8. c \in Work /\ c.pc = "insert" /\ c.what = w.what /\ c.port = p
        BY <3>4, <3>6, <3>7 DEF Work
      <3> HIDE DEF c
      <3> QED
        BY <2>2, <3>5, <3>6, <3>8
    <2>3. CASE allocLock' = allocLock /\ Goes(t, AtRest)
      BY <2>3
    <2> QED
      BY <2>1, <2>2, <2>3 DEF Allocate, AllocateUnlocked
  <1> QED
    BY <1>5, <1>6, <1>7

\* Whoever waits with the lock leaves it.
LEMMA LockIsLeft ==
  ASSUME InsertsAreLocked, NEW t \in Clerks, clerk[t].pc = "insert", OthersRest(t), clerk'[t].pc # "insert",
         allocLock' = Nobody
  PROVE  InsertsAreLocked' /\ RoomIsLeft' /\ PortsStayFree'
  <1>1. \A u \in Clerks : u # Nobody
    BY RecordsAssumption DEF Nobody
  <1>2. \A u \in Clerks : clerk'[u].pc # "insert"
    BY DEF InsertsAreLocked, OthersRest
  <1> QED
    BY <1>1, <1>2 DEF InsertsAreLocked, RoomIsLeft, PortsStayFree

LEMMA InsertStep ==
  ASSUME RecordsInv, NEW t \in Clerks, Insert(t)
  PROVE  RecordsInv'
  <1>1. /\ RecordsTypes /\ InsertsAreLocked /\ RoomIsLeft /\ PortsStayFree /\ PortsDiffer
        /\ StagesFit /\ MarksAreCopies /\ ClonesHold /\ MenuFollows
    BY DEF RecordsInv
  <1>2. /\ clerk[t].pc = "insert" /\ allocLock' = Nobody
        /\ UNCHANGED <<folders, copies, menu, spoilt, stranded>>
    BY DEF Insert
  <1> DEFINE w == clerk[t]
             sl == UniqueSlug(w.name)
             row == NewRow(NewId, w.name, sl, w.dir, w.port, w.named)
             cloned == [row EXCEPT !.status = "provisioning", !.sleep = w.form.sleep, !.inner = w.inner]
  <1>3. w \in Work /\ w.what # "delete"
    BY <1>1, <1>2, ClerkFacts DEF StagesFit, DeleteStages
  <1>4. /\ w.name \in Names /\ w.dir \in Names /\ w.port \in AnyPort /\ w.named \in BOOLEAN /\ w.inner \in AnyPort
        /\ w.form.sleep \in BOOLEAN
    BY <1>3 DEF Work
  <1>5. clerk[t].pc \notin CopyStages \cup DeleteStages /\ clerk[t].pc \notin MenuStages \cup {"write"}
    BY <1>2 DEF CopyStages, DeleteStages, MenuStages
  <1>6. CASE \E r \in servers : r.name = w.name
    <2>1. Goes(t, AtRest) /\ servers' = servers
      BY <1>6 DEF Insert
    <2>2. clerk' \in [Clerks -> Work] /\ clerk'[t] = AtRest /\ OthersRest(t)
      BY <1>1, <2>1, AtRestFacts, GoesFacts
    <2>3. RowsFollow /\ Apart(servers)' /\ Listing' = Listing /\ Defaults' = Defaults
      BY <1>1, <2>1, SameRowsFollow
    <2>4. /\ clerk'[t].pc \notin CopyStages \cup DeleteStages /\ clerk'[t].pc \notin MenuStages \cup {"write"}
          /\ clerk'[t].what # "delete" /\ clerk'[t].pc # "insert"
      BY <2>2, AtRestFacts DEF CopyStages, DeleteStages, MenuStages
    <2>5. InsertsAreLocked' /\ RoomIsLeft' /\ PortsStayFree'
      BY <1>1, <1>2, <2>2, <2>4, LockIsLeft
    <2>6. PortsDiffer'
      BY <1>1, <2>1 DEF PortsDiffer
    <2>7. StagesFit' /\ MarksAreCopies' /\ ClonesHold'
      BY <1>1, <1>2, <1>5, <2>2, <2>3, <2>4, CopiesKeep
    <2>8. MenuFollows'
      BY <1>1, <1>2, <1>5, <2>2, <2>3, <2>4, MenuKeeps
    <2>9. RecordsTypes'
      BY <1>1, <1>2, <2>1, <2>2 DEF RecordsTypes
    <2> QED
      BY <2>5, <2>6, <2>7, <2>8, <2>9 DEF RecordsInv
  <1>7. CASE ~\E r \in servers : r.name = w.name
    <2> DEFINE q == IF w.what = "clone" THEN cloned ELSE row
               c == CASE w.what = "clone" -> [w EXCEPT !.pc = "mark", !.id = NewId]
                      [] w.what = "create" -> AtRest
                      [] OTHER -> [w EXCEPT !.pc = "decide", !.id = NewId, !.loaded = row]
    <2>1. servers' = servers \cup {q} /\ Goes(t, c)
      BY <1>7 DEF Insert
    <2>2. NewId \in 1..MaxServers /\ NewId \notin Ids
      BY <1>1, <1>2, RoomFacts DEF RoomIsLeft
    <2>3. NewId \in 0..MaxServers /\ NewId # 0
      BY <2>2, RoomConstants
    <2>4. sl \in Names /\ \A r \in servers : r.slug # sl
      BY <1>1, <1>4, NamesFacts
    <2> DEFINE n == NewId
    <2>n. row = NewRow(n, w.name, sl, w.dir, w.port, w.named)
      BY Zenon
    <2>5. /\ row \in ServerRows /\ row.id = n /\ row.name = w.name /\ row.slug = sl /\ row.port = w.port
          /\ row.given = w.named /\ row.gateway = FALSE /\ row.default = FALSE /\ row.status = "stopped"
      <3>1. n \in 0..MaxServers
        BY <2>3
      <3>2. sl \in Names
        BY <2>4
      <3> HIDE DEF n, sl, row
      <3> QED
        BY <1>4, <2>n, <3>1, <3>2, PortFacts DEF NewRow, ServerRows
    <2> HIDE DEF row, n, sl
    <2>6. /\ cloned \in ServerRows /\ cloned.id = row.id /\ cloned.name = row.name /\ cloned.slug = row.slug
          /\ cloned.port = row.port /\ cloned.given = row.given /\ cloned.gateway = row.gateway
          /\ cloned.default = row.default
      BY <1>4, <2>5 DEF ServerRows
    <2> HIDE DEF cloned
    <2>7. /\ q \in ServerRows /\ q.id = n /\ q.name = w.name /\ q.slug = sl /\ q.port = w.port /\ q.given = w.named
          /\ q.gateway = FALSE /\ q.default = FALSE
      BY <2>5, <2>6
    <2>8. q.status = "provisioning" => w.what = "clone"
      BY <2>5
    <2> HIDE DEF q
    <2>9. /\ c \in Work
          /\ \/ w.what = "clone" /\ c.pc = "mark" /\ c.what = "clone" /\ c.id = n
             \/ w.what # "clone" /\ c.pc \in {"idle", "decide"} /\ c.what # "delete"
      <3>1. CASE w.what = "clone"
        <4>1. c = [w EXCEPT !.pc = "mark", !.id = n]
          BY <3>1 DEF n
        <4> HIDE DEF c
        <4> QED
          BY <1>3, <2>3, <3>1, <4>1 DEF Work, ClerkStages, CopyStages, n
      <3>2. CASE w.what = "create"
        <4>1. c = AtRest
          BY <3>2
        <4> HIDE DEF c
        <4> QED
          BY <3>2, <4>1, AtRestFacts
      <3>3. CASE w.what \notin {"clone", "create"}
        <4>1. c = [w EXCEPT !.pc = "decide", !.id = n, !.loaded = row]
          BY <3>3 DEF n
        <4> HIDE DEF c
        <4> QED
          BY <1>3, <2>3, <2>5, <3>3, <4>1 DEF Work, ClerkStages, n
      <3> QED
        BY <3>1, <3>2, <3>3
    <2> HIDE DEF c
    <2>10. clerk' \in [Clerks -> Work] /\ clerk'[t] = c /\ OthersRest(t)
      BY <1>1, <2>1, <2>9, GoesFacts
    <2>11. clerk'[t].pc # "insert" /\ clerk'[t].pc \notin MenuStages \cup {"write"} /\ clerk'[t].pc \notin DeleteStages
      BY <2>9, <2>10 DEF MenuStages, DeleteStages
    <2>12. n \in 1..MaxServers /\ n # 0 /\ \A r \in servers : r.id # n
      BY <2>2, <2>3 DEF Ids, n
    <2>13. InsertsAreLocked' /\ RoomIsLeft' /\ PortsStayFree'
      BY <1>1, <1>2, <2>10, <2>11, LockIsLeft
    <2>14. PortsDiffer'
      <3>1. \A r \in servers : r.port # 0 /\ r.port = q.port => r.given \/ q.given
        BY <1>1, <1>2, <2>7 DEF PortsStayFree
      <3> QED
        BY <1>1, <2>1, <3>1 DEF PortsDiffer
    <2>15. RecordsTypes'
      <3>1. Apart(servers')
        BY <1>1, <1>7, <2>1, <2>4, <2>7, <2>12 DEF RecordsTypes, Apart
      <3>2. servers' \subseteq ServerRows /\ \A r \in servers' : r.id # 0
        BY <1>1, <2>1, <2>7, <2>12 DEF RecordsTypes
      <3> QED
        BY <1>1, <1>2, <2>10, <3>1, <3>2 DEF RecordsTypes
    <2>16. StagesFit'
      <3>1. CASE w.what = "clone"
        BY <1>1, <2>9, <2>10, <2>12, <3>1 DEF StagesFit, OthersRest, CopyStages, DeleteStages
      <3>2. CASE w.what # "clone"
        <4>1. c.pc \notin CopyStages \cup DeleteStages /\ c.what # "delete"
          BY <2>9, <3>2 DEF CopyStages, DeleteStages
        <4> QED
          BY <1>1, <2>10, <4>1 DEF StagesFit, OthersRest
      <3> QED
        BY <3>1, <3>2
    <2>17. /\ \A u \in Clerks : \A i : CopiesClone(u, i) => u # t /\ CopiesClone(u, i)' /\ clerk'[u].pc = clerk[u].pc
           /\ \A u \in Clerks : \A i : DeletesClone(u, i) => DeletesClone(u, i)'
      BY <1>3, <1>5, <2>10 DEF CopiesClone, Copying, CopyStages, DeletesClone, OthersRest
    <2>18. MarksAreCopies'
      BY <1>1, <1>2, <2>17 DEF MarksAreCopies
    <2>19. ClonesHold'
      <3> SUFFICES ASSUME NEW r \in servers', r.status = "provisioning", r.id \notin stranded'
                   PROVE  \/ \E u \in Clerks : DeletesClone(u, r.id)'
                          \/ \E u \in Clerks : /\ CopiesClone(u, r.id)'
                                               /\ \/ r.id \notin copies'.cancel
                                                  \/ \E v \in Clerks : v # u /\ CopiesClone(v, r.id)'
        BY DEF ClonesHold
      <3>1. CASE r \in servers
        <4>1. \/ \E u \in Clerks : DeletesClone(u, r.id)
              \/ \E u \in Clerks : /\ CopiesClone(u, r.id)
                                   /\ r.id \notin copies.cancel \/ \E v \in Clerks : v # u /\ CopiesClone(v, r.id)
          BY <1>1, <1>2, <3>1 DEF ClonesHold
        <4> QED
          BY <1>2, <2>17, <4>1
      <3>2. CASE r = q
        <4>1. CopiesClone(t, r.id)'
          BY <2>7, <2>8, <2>9, <2>10, <3>2 DEF CopiesClone, Copying
        <4>2. r.id \in copies.cancel => \E v \in Clerks : v # t /\ CopiesClone(v, r.id)'
          BY <1>1, <2>17 DEF MarksAreCopies
        <4> QED
          BY <1>2, <4>1, <4>2
      <3> QED
        BY <2>1, <3>1, <3>2
    <2>20. MenuFollows'
      <3>1. Listing' = Listing /\ Defaults' = Defaults
        BY <2>1, <2>7 DEF Listing, Defaults
      <3> QED
        BY <1>1, <1>2, <1>5, <2>10, <2>11, <3>1, MenuKeeps
    <2> QED
      BY <2>13, <2>14, <2>15, <2>16, <2>18, <2>19, <2>20 DEF RecordsInv
  <1> QED
    BY <1>6, <1>7

-----------------------------------------------------------------------------
(* Copying and deleting.                                                   *)

\* A step of somebody who copies or deletes, but inserts nothing and updates no menu.
LEMMA CopyStep ==
  ASSUME RecordsInv, NEW t \in Clerks, NEW c \in Work, Goes(t, c),
         clerk[t].pc \notin MenuStages \cup {"write", "insert"}, c.pc \notin MenuStages \cup {"write", "insert"},
         servers' \subseteq ServerRows, \A r \in servers' : r.id # 0, Apart(servers)', RowsFollow, SameListing,
         folders' \subseteq Names, IsFiniteSet(folders)',
         copies' \in [active : SUBSET (1..MaxServers), cancel : SUBSET (1..MaxServers)],
         UNCHANGED <<allocLock, menu, spoilt>>,
         StagesFit', MarksAreCopies', ClonesHold'
  PROVE  RecordsInv'
  <1>1. RecordsTypes /\ InsertsAreLocked /\ RoomIsLeft /\ PortsStayFree /\ PortsDiffer /\ MenuFollows
    BY DEF RecordsInv
  <1>2. clerk' \in [Clerks -> Work] /\ clerk'[t] = c /\ OthersRest(t)
    BY <1>1, GoesFacts
  <1>3. InsertsAreLocked' /\ RoomIsLeft' /\ PortsStayFree' /\ PortsDiffer'
    BY <1>1, <1>2, LedgerKeeps
  <1>4. MenuFollows'
    BY <1>1, <1>2, ListingFacts, MenuKeeps
  <1>5. RecordsTypes'
    BY <1>1, <1>2 DEF RecordsTypes
  <1> QED
    BY <1>3, <1>4, <1>5 DEF RecordsInv

LEMMA SameRowsTold ==
  ASSUME RecordsTypes, servers' = servers
  PROVE  /\ servers' \subseteq ServerRows /\ (\A r \in servers' : r.id # 0) /\ Apart(servers)' /\ RowsFollow
         /\ SameListing
  BY SameRowsFollow DEF SameListing, RecordsTypes

LEMMA StagesKeep ==
  ASSUME StagesFit, NEW t \in Clerks, OthersRest(t),
         clerk'[t].pc \in CopyStages => clerk'[t].what = "clone" /\ clerk'[t].id # 0,
         clerk'[t].pc \in DeleteStages <=> clerk'[t].what = "delete"
  PROVE  StagesFit'
  BY DEF StagesFit, OthersRest

\* The others copy and delete what they did.
LEMMA OthersGoOn ==
  ASSUME NEW t \in Clerks, OthersRest(t)
  PROVE  \A u \in Clerks : \A i : u # t => /\ CopiesClone(u, i) <=> CopiesClone(u, i)'
                                           /\ DeletesClone(u, i) <=> DeletesClone(u, i)'
                                           /\ clerk'[u].pc = clerk[u].pc
  BY DEF OthersRest, CopiesClone, Copying, DeletesClone

\* What is left of ClonesHold when a step keeps every copier and deleter of a row.
LEMMA ClonesStillHold ==
  ASSUME ClonesHold, RowsFollow, copies'.cancel \subseteq copies.cancel, stranded \subseteq stranded',
         \A u \in Clerks : \A i : CopiesClone(u, i) => CopiesClone(u, i)',
         \A u \in Clerks : \A i : DeletesClone(u, i) => DeletesClone(u, i)' \/ i \in stranded' \/ i \notin Ids
  PROVE  ClonesHold'
  <1> SUFFICES ASSUME NEW r \in servers', r.status = "provisioning", r.id \notin stranded'
               PROVE  \/ \E u \in Clerks : DeletesClone(u, r.id)'
                      \/ \E u \in Clerks : /\ CopiesClone(u, r.id)'
                                           /\ \/ r.id \notin copies'.cancel
                                              \/ \E v \in Clerks : v # u /\ CopiesClone(v, r.id)'
    BY DEF ClonesHold
  <1>1. PICK s \in servers : r.id = s.id /\ s.status = "provisioning"
    BY DEF RowsFollow
  <1>2. r.id \in Ids /\ r.id \notin stranded
    BY <1>1 DEF Ids
  <1>3. \/ \E u \in Clerks : DeletesClone(u, r.id)
        \/ \E u \in Clerks : /\ CopiesClone(u, r.id)
                             /\ r.id \notin copies.cancel \/ \E v \in Clerks : v # u /\ CopiesClone(v, r.id)
    BY <1>1, <1>2 DEF ClonesHold
  <1> QED
    BY <1>2, <1>3

LEMMA CopyMarkedStep ==
  ASSUME RecordsInv, NEW t \in Clerks, CopyMarked(t)
  PROVE  RecordsInv'
  <1>1. RecordsTypes /\ StagesFit /\ MarksAreCopies /\ ClonesHold
    BY DEF RecordsInv
  <1> DEFINE i == clerk[t].id
             c == [clerk[t] EXCEPT !.pc = "begin"]
  <1>2. /\ clerk[t].pc = "mark" /\ Goes(t, c) /\ copies' = [copies EXCEPT !.active = @ \cup {i}]
        /\ UNCHANGED <<servers, folders, allocLock, menu, spoilt, stranded>>
    BY DEF CopyMarked
  <1>3. clerk[t] \in Work /\ clerk[t].what = "clone" /\ i # 0
    BY <1>1, <1>2, ClerkFacts DEF StagesFit, CopyStages
  <1>4. i \in 1..MaxServers
    BY <1>3, RoomConstants DEF Work
  <1>5. c \in Work /\ c.pc = "begin" /\ c.what = "clone" /\ c.id = i
    BY <1>3 DEF Work, ClerkStages, CopyStages
  <1> HIDE DEF c
  <1>6. clerk'[t] = c /\ OthersRest(t)
    BY <1>1, <1>2, <1>5, GoesFacts
  <1>7. /\ servers' \subseteq ServerRows /\ (\A r \in servers' : r.id # 0) /\ Apart(servers)' /\ RowsFollow
        /\ SameListing
    BY <1>1, <1>2, SameRowsTold
  <1>8. /\ copies' \in [active : SUBSET (1..MaxServers), cancel : SUBSET (1..MaxServers)]
        /\ copies'.cancel = copies.cancel /\ copies'.active = copies.active \cup {i}
    BY <1>1, <1>2, <1>4 DEF RecordsTypes
  <1>9. StagesFit'
    BY <1>1, <1>3, <1>5, <1>6, StagesKeep DEF CopyStages, DeleteStages
  <1>10. /\ \A u \in Clerks : \A k : CopiesClone(u, k) => CopiesClone(u, k)'
         /\ \A u \in Clerks : \A k : DeletesClone(u, k) => DeletesClone(u, k)'
         /\ \A u \in Clerks : clerk[u].pc # "mark" => clerk'[u].pc # "mark"
    <2>1. \A k : /\ CopiesClone(t, k) => CopiesClone(t, k)'
                 /\ ~DeletesClone(t, k)
      BY <1>2, <1>3, <1>5, <1>6 DEF CopiesClone, Copying, DeletesClone
    <2>2. clerk'[t].pc # "mark"
      BY <1>5, <1>6
    <2> QED
      BY <1>6, <2>1, <2>2, OthersGoOn
  <1>11. MarksAreCopies'
    <2>1. ASSUME NEW k \in copies'.active
          PROVE  \E u \in Clerks : CopiesClone(u, k)' /\ clerk'[u].pc # "mark"
      <3>1. CASE k = i
        <4>1. CopiesClone(t, k)' /\ clerk'[t].pc # "mark"
          BY <1>5, <1>6, <3>1 DEF CopiesClone, Copying
        <4> QED
          BY <4>1
      <3>2. CASE k \in copies.active
        BY <1>1, <1>10, <3>2 DEF MarksAreCopies
      <3> QED
        BY <1>8, <3>1, <3>2
    <2> QED
      BY <1>1, <1>8, <2>1 DEF MarksAreCopies
  <1>12. ClonesHold'
    BY <1>1, <1>2, <1>7, <1>8, <1>10, ClonesStillHold
  <1>13. folders' \subseteq Names /\ IsFiniteSet(folders)'
    BY <1>1, <1>2 DEF RecordsTypes
  <1>14. clerk[t].pc \notin MenuStages \cup {"write", "insert"} /\ c.pc \notin MenuStages \cup {"write", "insert"}
    BY <1>2, <1>5 DEF MenuStages
  <1> QED
    BY <1>2, <1>5, <1>7, <1>8, <1>9, <1>11, <1>12, <1>13, <1>14, CopyStep

\* A copy that goes on to its next stage.
LEMMA CopyProceeds ==
  ASSUME RecordsInv, NEW t \in Clerks, NEW p \in CopyStages \ {"mark"}, clerk[t].pc \in CopyStages,
         Goes(t, [clerk[t] EXCEPT !.pc = p]), folders' \subseteq Names, IsFiniteSet(folders)',
         UNCHANGED <<servers, allocLock, copies, menu, spoilt, stranded>>
  PROVE  RecordsInv'
  <1>1. RecordsTypes /\ StagesFit /\ MarksAreCopies /\ ClonesHold
    BY DEF RecordsInv
  <1> DEFINE c == [clerk[t] EXCEPT !.pc = p]
  <1>2. clerk[t] \in Work /\ clerk[t].what = "clone" /\ clerk[t].id # 0 /\ Goes(t, c)
    BY <1>1, ClerkFacts DEF StagesFit
  <1>3. c \in Work /\ c.pc = p /\ c.what = "clone" /\ c.id = clerk[t].id
    BY <1>2 DEF Work, ClerkStages
  <1> HIDE DEF c
  <1>4. clerk'[t] = c /\ OthersRest(t)
    BY <1>1, <1>2, <1>3, GoesFacts
  <1>5. /\ servers' \subseteq ServerRows /\ (\A r \in servers' : r.id # 0) /\ Apart(servers)' /\ RowsFollow
        /\ SameListing
    BY <1>1, SameRowsTold
  <1>6. StagesFit'
    BY <1>1, <1>2, <1>3, <1>4, StagesKeep DEF CopyStages, DeleteStages
  <1>7. /\ \A u \in Clerks : \A k : CopiesClone(u, k) => CopiesClone(u, k)'
        /\ \A u \in Clerks : \A k : DeletesClone(u, k) => DeletesClone(u, k)'
        /\ \A u \in Clerks : clerk[u].pc # "mark" => clerk'[u].pc # "mark"
    <2>1. \A k : /\ CopiesClone(t, k) => CopiesClone(t, k)'
                 /\ ~DeletesClone(t, k)
      BY <1>2, <1>3, <1>4 DEF CopiesClone, Copying, DeletesClone, CopyStages
    <2>2. clerk'[t].pc # "mark"
      BY <1>3, <1>4
    <2> QED
      BY <1>4, <2>1, <2>2, OthersGoOn
  <1>8. MarksAreCopies'
    BY <1>1, <1>7 DEF MarksAreCopies
  <1>9. ClonesHold'
    BY <1>1, <1>5, <1>7, ClonesStillHold
  <1>10. copies' \in [active : SUBSET (1..MaxServers), cancel : SUBSET (1..MaxServers)]
    BY <1>1 DEF RecordsTypes
  <1>11. clerk[t].pc \notin MenuStages \cup {"write", "insert"} /\ c.pc \notin MenuStages \cup {"write", "insert"}
    BY <1>3 DEF MenuStages, CopyStages
  <1> QED
    BY <1>2, <1>3, <1>5, <1>6, <1>8, <1>9, <1>10, <1>11, CopyStep

\* A copy that is over.
LEMMA CopyEnds ==
  ASSUME RecordsInv, NEW t \in Clerks, clerk[t].pc \in CopyStages, CopyOver(t),
         servers' \subseteq ServerRows, \A r \in servers' : r.id # 0, Apart(servers)', RowsFollow, SameListing,
         folders' \subseteq Names, IsFiniteSet(folders)', UNCHANGED <<allocLock, menu, spoilt>>,
         stranded \subseteq stranded',
         \/ clerk[t].id \in copies.cancel
         \/ \A r \in servers' : r.id = clerk[t].id => r.status # "provisioning" \/ r.id \in stranded'
  PROVE  RecordsInv'
  <1>1. RecordsTypes /\ StagesFit /\ MarksAreCopies /\ ClonesHold
    BY DEF RecordsInv
  <1> DEFINE i == clerk[t].id
  <1>2. Goes(t, AtRest) /\ copies' = [active |-> copies.active \ {i}, cancel |-> copies.cancel \ {i}]
    BY DEF CopyOver
  <1>3. clerk'[t] = AtRest /\ OthersRest(t)
    BY <1>1, <1>2, AtRestFacts, GoesFacts
  <1>4. clerk[t].what = "clone"
    BY <1>1 DEF StagesFit
  <1>5. \A u \in Clerks : \A k : u # t => /\ CopiesClone(u, k) => CopiesClone(u, k)'
                                          /\ DeletesClone(u, k) => DeletesClone(u, k)'
                                          /\ clerk'[u].pc = clerk[u].pc
    BY <1>3, OthersGoOn
  <1>6. \A k : ~DeletesClone(t, k) /\ (CopiesClone(t, k) => k = i)
    BY <1>4 DEF DeletesClone, CopiesClone
  <1>7. copies'.active = copies.active \ {i} /\ copies'.cancel = copies.cancel \ {i}
    BY <1>2
  <1>8. copies' \in [active : SUBSET (1..MaxServers), cancel : SUBSET (1..MaxServers)]
    <2>1. copies.active \subseteq 1..MaxServers /\ copies.cancel \subseteq 1..MaxServers
      BY <1>1 DEF RecordsTypes
    <2> QED
      BY <1>2, <2>1
  <1>9. StagesFit'
    BY <1>1, <1>3, AtRestFacts, StagesKeep DEF CopyStages, DeleteStages
  <1> HIDE DEF i
  <1>10. MarksAreCopies'
    <2>1. copies'.cancel \subseteq copies'.active
      BY <1>1, <1>7 DEF MarksAreCopies
    <2>2. ASSUME NEW k \in copies'.active
          PROVE  \E u \in Clerks : CopiesClone(u, k)' /\ clerk'[u].pc # "mark"
      <3>1. k \in copies.active /\ k # i
        BY <1>7
      <3>2. PICK u \in Clerks : CopiesClone(u, k) /\ clerk[u].pc # "mark"
        BY <1>1, <3>1 DEF MarksAreCopies
      <3> QED
        BY <1>5, <1>6, <3>1, <3>2
    <2> QED
      BY <2>1, <2>2 DEF MarksAreCopies
  <1>11. ClonesHold'
    <2> SUFFICES ASSUME NEW r \in servers', r.status = "provisioning", r.id \notin stranded'
                 PROVE  \/ \E u \in Clerks : DeletesClone(u, r.id)'
                        \/ \E u \in Clerks : /\ CopiesClone(u, r.id)'
                                             /\ \/ r.id \notin copies'.cancel
                                                \/ \E v \in Clerks : v # u /\ CopiesClone(v, r.id)'
      BY DEF ClonesHold
    <2>1. PICK s \in servers : r.id = s.id /\ s.status = "provisioning"
      BY DEF RowsFollow
    <2>2. \/ \E u \in Clerks : DeletesClone(u, r.id)
          \/ \E u \in Clerks : /\ CopiesClone(u, r.id)
                               /\ r.id \notin copies.cancel \/ \E v \in Clerks : v # u /\ CopiesClone(v, r.id)
      BY <1>1, <2>1 DEF ClonesHold
    <2>3. CASE \E u \in Clerks : DeletesClone(u, r.id)
      BY <1>5, <1>6, <2>3
    <2>4. CASE \E u \in Clerks : /\ CopiesClone(u, r.id)
                                 /\ r.id \notin copies.cancel \/ \E v \in Clerks : v # u /\ CopiesClone(v, r.id)
      <3>1. CASE r.id # i
        BY <1>5, <1>6, <1>7, <2>4, <3>1
      <3>2. CASE r.id = i
        \* The copy that is called off is not the only one.
        <4>1. r.id \in copies.cancel
          BY <3>2 DEF i
        <4>2. PICK u \in Clerks, v \in Clerks : u # v /\ CopiesClone(u, r.id) /\ CopiesClone(v, r.id)
          BY <2>4, <4>1
        <4>3. \E w \in Clerks : CopiesClone(w, r.id)'
          BY <1>5, <4>2
        <4>4. r.id \notin copies'.cancel
          BY <1>7, <3>2
        <4> QED
          BY <4>3, <4>4
      <3> QED
        BY <3>1, <3>2
    <2> QED
      BY <2>2, <2>3, <2>4
  <1>12. clerk[t].pc \notin MenuStages \cup {"write", "insert"} /\ AtRest.pc \notin MenuStages \cup {"write", "insert"}
    BY AtRestFacts DEF MenuStages, CopyStages
  <1> QED
    BY <1>2, <1>8, <1>9, <1>10, <1>11, <1>12, AtRestFacts, CopyStep

LEMMA CopyBeginsStep ==
  ASSUME RecordsInv, NEW t \in Clerks, CopyBegins(t)
  PROVE  RecordsInv'
  <1>1. RecordsTypes
    BY DEF RecordsInv
  <1>2. clerk[t].pc = "begin" /\ UNCHANGED <<servers, folders, allocLock, menu, spoilt>>
    BY DEF CopyBegins
  <1>3. folders' \subseteq Names /\ IsFiniteSet(folders)'
    BY <1>1, <1>2 DEF RecordsTypes
  <1>4. CASE {clerk[t].source, clerk[t].id} \subseteq Ids
    <2>1. Goes(t, [clerk[t] EXCEPT !.pc = "mkdir"]) /\ UNCHANGED <<copies, stranded>>
      BY <1>4 DEF CopyBegins
    <2>2. "mkdir" \in CopyStages \ {"mark"} /\ clerk[t].pc \in CopyStages
      BY <1>2 DEF CopyStages
    <2> QED
      BY <1>2, <1>3, <2>1, <2>2, CopyProceeds
  <1>5. CASE ~({clerk[t].source, clerk[t].id} \subseteq Ids)
    <2>1. CopyOver(t) /\ stranded' = stranded \cup ({clerk[t].id} \cap Ids)
      BY <1>5 DEF CopyBegins
    <2>2. \A r \in servers' : r.id = clerk[t].id => r.id \in stranded'
      BY <1>2, <2>1 DEF Ids
    <2>3. clerk[t].pc \in CopyStages
      BY <1>2 DEF CopyStages
    <2>4. /\ servers' \subseteq ServerRows /\ (\A r \in servers' : r.id # 0) /\ Apart(servers)' /\ RowsFollow
          /\ SameListing
      BY <1>1, <1>2, SameRowsTold
    <2> QED
      BY <1>2, <1>3, <2>1, <2>2, <2>3, <2>4, CopyEnds
  <1> QED
    BY <1>4, <1>5

\* The status of the row a copy is for, whoever has the number now.
LEMMA StatusFacts ==
  ASSUME RecordsTypes, NEW i \in Ids, NEW st \in {"stopped", "error"},
         Change(i, [Server(i) EXCEPT !.status = st])
  PROVE  /\ servers' \subseteq ServerRows /\ (\A r \in servers' : r.id # 0) /\ Apart(servers)' /\ RowsFollow
         /\ SameListing /\ \A r \in servers' : r.id = i => r.status # "provisioning"
  <1> DEFINE s == Server(i)
             q == [s EXCEPT !.status = st]
  <1>1. s \in servers /\ s.id = i /\ s \in ServerRows /\ Change(i, q)
    BY ServerFacts
  <1>2. /\ q \in ServerRows /\ q.id = i /\ q.slug = s.slug /\ q.name = s.name /\ q.port = s.port /\ q.given = s.given
        /\ q.status = st /\ q.gateway = s.gateway /\ q.alias = s.alias /\ q.default = s.default
    BY <1>1 DEF ServerRows
  <1>3. s.given \in BOOLEAN /\ s.gateway \in BOOLEAN /\ s.default \in BOOLEAN
    BY <1>1 DEF ServerRows
  <1> HIDE DEF q
  <1>4. \A r \in servers : r.id # i => r.name # q.name
    BY <1>1, <1>2 DEF RecordsTypes, Apart
  <1>5. q.given \/ (q.port = s.port /\ ~s.given)
    BY <1>2, <1>3
  <1>6. q.status # "provisioning"
    BY <1>2
  <1>7. /\ servers' \subseteq ServerRows /\ (\A r \in servers' : r.id # 0) /\ Apart(servers)' /\ RowsFollow
        /\ servers' = {r \in servers : r.id # i} \cup {q}
    BY <1>1, <1>2, <1>4, <1>5, <1>6, ChangeFacts
  <1>8. SameListing
    BY <1>1, <1>2, <1>7 DEF SameListing
  <1> QED
    BY <1>6, <1>7, <1>8

LEMMA CopyFailsStep ==
  ASSUME RecordsInv, NEW t \in Clerks, CopyFails(t)
  PROVE  RecordsInv'
  <1>1. RecordsTypes
    BY DEF RecordsInv
  <1>2. /\ clerk[t].pc \in CopyStages /\ folders' = folders \ {clerk[t].dir} /\ CopyOver(t)
        /\ UNCHANGED <<allocLock, menu, spoilt, stranded>>
    BY DEF CopyFails, CopyStages
  <1>3. clerk[t].dir \in Names
    BY <1>1, ClerkFacts DEF Work
  <1>4. folders' \subseteq Names /\ IsFiniteSet(folders)'
    BY <1>1, <1>2, <1>3, FolderFacts
  <1>5. /\ servers' \subseteq ServerRows /\ (\A r \in servers' : r.id # 0) /\ Apart(servers)' /\ RowsFollow
        /\ SameListing /\ \A r \in servers' : r.id = clerk[t].id => r.status # "provisioning"
    <2>1. CASE clerk[t].id \in Ids
      <3>1. Change(clerk[t].id, [Server(clerk[t].id) EXCEPT !.status = "error"])
        BY <2>1 DEF CopyFails
      <3> DEFINE i == clerk[t].id
      <3>2. i \in Ids /\ Change(i, [Server(i) EXCEPT !.status = "error"])
        BY <2>1, <3>1
      <3> QED
        BY <1>1, <3>2, StatusFacts
    <2>2. CASE clerk[t].id \notin Ids
      <3>1. servers' = servers
        BY <2>2 DEF CopyFails
      <3> QED
        BY <1>1, <2>2, <3>1, SameRowsTold DEF Ids
    <2> QED
      BY <2>1, <2>2
  <1> QED
    BY <1>2, <1>4, <1>5, CopyEnds

LEMMA CopyFinishesStep ==
  ASSUME RecordsInv, NEW t \in Clerks, CopyFinishes(t)
  PROVE  RecordsInv'
  <1>1. RecordsTypes
    BY DEF RecordsInv
  <1>2. clerk[t].pc \in CopyStages /\ CopyOver(t) /\ UNCHANGED <<folders, allocLock, menu, spoilt, stranded>>
    BY DEF CopyFinishes, CopyStages
  <1>3. folders' \subseteq Names /\ IsFiniteSet(folders)'
    BY <1>1, <1>2 DEF RecordsTypes
  <1>4. /\ servers' \subseteq ServerRows /\ (\A r \in servers' : r.id # 0) /\ Apart(servers)' /\ RowsFollow
        /\ SameListing /\ \A r \in servers' : r.id = clerk[t].id => r.status # "provisioning"
    <2>1. clerk[t].id \in Ids /\ Change(clerk[t].id, [Server(clerk[t].id) EXCEPT !.status = "stopped"])
      BY DEF CopyFinishes
    <2> QED
      BY <1>1, <2>1, StatusFacts
  <1> QED
    BY <1>2, <1>3, <1>4, CopyEnds

LEMMA CopyCancelledStep ==
  ASSUME RecordsInv, NEW t \in Clerks, CopyCancelled(t)
  PROVE  RecordsInv'
  <1>1. RecordsTypes
    BY DEF RecordsInv
  <1>2. /\ clerk[t].pc \in CopyStages /\ clerk[t].id \in copies.cancel /\ CopyOver(t)
        /\ UNCHANGED <<servers, folders, allocLock, menu, spoilt, stranded>>
    BY DEF CopyCancelled, CopyStages
  <1>3. folders' \subseteq Names /\ IsFiniteSet(folders)'
    BY <1>1, <1>2 DEF RecordsTypes
  <1>4. /\ servers' \subseteq ServerRows /\ (\A r \in servers' : r.id # 0) /\ Apart(servers)' /\ RowsFollow
        /\ SameListing
    BY <1>1, <1>2, SameRowsTold
  <1> QED
    BY <1>2, <1>3, <1>4, CopyEnds

LEMMA CopyGoesOnStep ==
  ASSUME RecordsInv, NEW t \in Clerks, CopyGoesOn(t)
  PROVE  RecordsInv'
  <1>1. RecordsTypes
    BY DEF RecordsInv
  <1> DEFINE p == IF clerk[t].pc = "mkdir" THEN "copy" ELSE "relations"
  <1>2. /\ clerk[t].pc \in CopyStages /\ folders' = folders \cup {clerk[t].dir}
        /\ Goes(t, [clerk[t] EXCEPT !.pc = p]) /\ UNCHANGED <<servers, allocLock, copies, menu, spoilt, stranded>>
    BY DEF CopyGoesOn, CopyStages
  <1>3. clerk[t].dir \in Names
    BY <1>1, ClerkFacts DEF Work
  <1>4. folders' \subseteq Names /\ IsFiniteSet(folders)'
    BY <1>1, <1>2, <1>3, FolderFacts
  <1>5. p \in CopyStages \ {"mark"}
    BY DEF CopyStages
  <1> HIDE DEF p
  <1>6. PICK s \in CopyStages \ {"mark"} : Goes(t, [clerk[t] EXCEPT !.pc = s])
    BY <1>2, <1>5
  <1> QED
    BY <1>2, <1>4, <1>6, CopyProceeds

LEMMA DeleteRequestStep ==
  ASSUME RecordsInv, NEW t \in Clerks, NEW r \in servers, NEW named \in BOOLEAN, DeleteRequest(t, r, named)
  PROVE  RecordsInv'
  <1>1. RecordsTypes /\ StagesFit /\ MarksAreCopies /\ ClonesHold
    BY DEF RecordsInv
  <1> DEFINE s == IF r.id \in copies.active THEN r.id ELSE 0
             q == [AtRest EXCEPT !.pc = "confirm", !.what = "delete", !.id = r.id]
             c == [q EXCEPT !.dir = r.dir, !.named = named, !.source = s]
  <1>2. /\ clerk[t].pc = "idle" /\ Goes(t, c)
        /\ copies' = IF r.id \in copies.active THEN [copies EXCEPT !.cancel = @ \cup {r.id}] ELSE copies
        /\ UNCHANGED <<servers, folders, allocLock, menu, spoilt, stranded>>
    BY DEF DeleteRequest, Request
  <1>3. r.id \in 0..MaxServers /\ r.dir \in Names
    BY <1>1 DEF RecordsTypes, ServerRows
  <1>4. s \in 0..MaxServers
    BY <1>3, RoomConstants
  <1>5. q \in Work /\ q.pc = "confirm" /\ q.what = "delete" /\ q.id = r.id
    BY <1>3, AtRestFacts DEF Work, ClerkStages, DeleteStages
  <1> HIDE DEF q
  <1>6. /\ c \in Work /\ c.pc = "confirm" /\ c.what = "delete" /\ c.id = r.id
        /\ (r.id \in copies.active => c.source = r.id)
    BY <1>3, <1>4, <1>5 DEF Work
  <1> HIDE DEF c
  <1>7. clerk'[t] = c /\ OthersRest(t)
    BY <1>1, <1>2, <1>6, GoesFacts
  <1>8. /\ copies.active \subseteq 1..MaxServers /\ copies.cancel \subseteq 1..MaxServers
        /\ copies \in [active : SUBSET (1..MaxServers), cancel : SUBSET (1..MaxServers)]
    BY <1>1 DEF RecordsTypes
  <1>9. /\ copies' \in [active : SUBSET (1..MaxServers), cancel : SUBSET (1..MaxServers)]
        /\ copies'.active = copies.active
        /\ copies'.cancel = copies.cancel \/ (r.id \in copies.active /\ copies'.cancel = copies.cancel \cup {r.id})
    <2>1. CASE r.id \in copies.active
      BY <1>2, <1>8, <2>1
    <2>2. CASE r.id \notin copies.active
      BY <1>2, <1>8, <2>2
    <2> QED
      BY <2>1, <2>2
  <1>10. /\ servers' \subseteq ServerRows /\ (\A x \in servers' : x.id # 0) /\ Apart(servers)' /\ RowsFollow
         /\ SameListing
    BY <1>1, <1>2, SameRowsTold
  <1>11. StagesFit'
    BY <1>1, <1>6, <1>7, StagesKeep DEF CopyStages, DeleteStages
  <1>12. /\ \A u \in Clerks : \A k : CopiesClone(u, k) => CopiesClone(u, k)' /\ clerk'[u].pc = clerk[u].pc
         /\ \A u \in Clerks : \A k : DeletesClone(u, k) => DeletesClone(u, k)'
    <2>1. \A k : ~CopiesClone(t, k) /\ ~DeletesClone(t, k)
      BY <1>1, <1>2 DEF CopiesClone, Copying, DeletesClone, StagesFit, DeleteStages
    <2> QED
      BY <1>7, <2>1, OthersGoOn
  <1>13. MarksAreCopies'
    BY <1>1, <1>9, <1>12 DEF MarksAreCopies
  <1>14. ClonesHold'
    <2> SUFFICES ASSUME NEW x \in servers', x.status = "provisioning", x.id \notin stranded'
                 PROVE  \/ \E u \in Clerks : DeletesClone(u, x.id)'
                        \/ \E u \in Clerks : /\ CopiesClone(u, x.id)'
                                             /\ \/ x.id \notin copies'.cancel
                                                \/ \E v \in Clerks : v # u /\ CopiesClone(v, x.id)'
      BY DEF ClonesHold
    <2>1. \/ \E u \in Clerks : DeletesClone(u, x.id)
          \/ \E u \in Clerks : /\ CopiesClone(u, x.id)
                               /\ x.id \notin copies.cancel \/ \E v \in Clerks : v # u /\ CopiesClone(v, x.id)
      BY <1>1, <1>2 DEF ClonesHold
    <2>2. CASE x.id = r.id /\ r.id \in copies.active
      <3>1. DeletesClone(t, x.id)'
        BY <1>6, <1>7, <2>2 DEF DeletesClone
      <3> QED
        BY <3>1
    <2>3. CASE ~(x.id = r.id /\ r.id \in copies.active)
      BY <1>9, <1>12, <2>1, <2>3
    <2> QED
      BY <2>2, <2>3
  <1>15. folders' \subseteq Names /\ IsFiniteSet(folders)'
    BY <1>1, <1>2 DEF RecordsTypes
  <1>16. clerk[t].pc \notin MenuStages \cup {"write", "insert"} /\ c.pc \notin MenuStages \cup {"write", "insert"}
    BY <1>2, <1>6 DEF MenuStages
  <1> QED
    BY <1>2, <1>6, <1>9, <1>10, <1>11, <1>13, <1>14, <1>15, <1>16, CopyStep

\* A deletion that goes on or is broken off, while the rows and the copies stay.
LEMMA DeleteProceeds ==
  ASSUME RecordsInv, NEW t \in Clerks, NEW c \in Work, Goes(t, c), clerk[t].pc \in DeleteStages,
         \/ c = AtRest /\ \A i \in Ids : DeletesClone(t, i) => i \in stranded'
         \/ c.pc \in {"erase", "drop"} /\ c.what = "delete" /\ c.id = clerk[t].id,
         stranded \subseteq stranded', folders' \subseteq Names, IsFiniteSet(folders)',
         UNCHANGED <<servers, allocLock, copies, menu, spoilt>>
  PROVE  RecordsInv'
  <1>1. RecordsTypes /\ StagesFit /\ MarksAreCopies /\ ClonesHold
    BY DEF RecordsInv
  <1>2. clerk'[t] = c /\ OthersRest(t)
    BY <1>1, GoesFacts
  <1>3. clerk[t].what = "delete"
    BY <1>1 DEF StagesFit
  <1>4. /\ servers' \subseteq ServerRows /\ (\A r \in servers' : r.id # 0) /\ Apart(servers)' /\ RowsFollow
        /\ SameListing
    BY <1>1, SameRowsTold
  <1>5. c.pc \notin CopyStages /\ (c.pc \in DeleteStages <=> c.what = "delete")
    BY AtRestFacts DEF CopyStages, DeleteStages
  <1>6. StagesFit'
    BY <1>1, <1>2, <1>5, StagesKeep
  <1>7. \A u \in Clerks : \A i : CopiesClone(u, i) => CopiesClone(u, i)' /\ clerk'[u].pc = clerk[u].pc
    <2>1. \A i : ~CopiesClone(t, i)
      BY <1>3 DEF CopiesClone, Copying
    <2> QED
      BY <1>2, <2>1, OthersGoOn
  <1>8. \A u \in Clerks : \A i : DeletesClone(u, i) => DeletesClone(u, i)' \/ i \in stranded' \/ i \notin Ids
    <2>1. \A i : DeletesClone(t, i) => DeletesClone(t, i)' \/ i \in stranded' \/ i \notin Ids
      BY <1>2 DEF DeletesClone
    <2> QED
      BY <1>2, <2>1, OthersGoOn
  <1>9. MarksAreCopies'
    BY <1>1, <1>7 DEF MarksAreCopies
  <1>10. ClonesHold'
    BY <1>1, <1>4, <1>7, <1>8, ClonesStillHold
  <1>11. copies' \in [active : SUBSET (1..MaxServers), cancel : SUBSET (1..MaxServers)]
    BY <1>1 DEF RecordsTypes
  <1>12. clerk[t].pc \notin MenuStages \cup {"write", "insert"} /\ c.pc \notin MenuStages \cup {"write", "insert"}
    BY AtRestFacts DEF MenuStages, DeleteStages
  <1> QED
    BY <1>4, <1>6, <1>9, <1>10, <1>11, <1>12, CopyStep

LEMMA DeleteConfirmedStep ==
  ASSUME RecordsInv, NEW t \in Clerks, DeleteConfirmed(t)
  PROVE  RecordsInv'
  <1>1. RecordsTypes /\ StagesFit
    BY DEF RecordsInv
  <1>2. clerk[t].pc = "confirm" /\ UNCHANGED <<servers, folders, allocLock, copies, menu, spoilt>>
    BY DEF DeleteConfirmed
  <1>3. folders' \subseteq Names /\ IsFiniteSet(folders)'
    BY <1>1, <1>2 DEF RecordsTypes
  <1>4. clerk[t] \in Work /\ clerk[t].what = "delete" /\ clerk[t].pc \in DeleteStages
    BY <1>1, <1>2, ClerkFacts DEF StagesFit, DeleteStages
  <1>5. CASE clerk[t].named
    <2> DEFINE c == [clerk[t] EXCEPT !.pc = "erase"]
    <2>1. Goes(t, c) /\ stranded' = stranded
      BY <1>5 DEF DeleteConfirmed
    <2>2. c \in Work /\ c.pc = "erase" /\ c.what = "delete" /\ c.id = clerk[t].id
      BY <1>4 DEF Work, ClerkStages, DeleteStages
    <2> HIDE DEF c
    <2> QED
      BY <1>2, <1>3, <1>4, <2>1, <2>2, DeleteProceeds
  <1>6. CASE ~clerk[t].named
    <2>1. Goes(t, AtRest) /\ stranded' = stranded \cup ({clerk[t].source} \cap Ids)
      BY <1>6 DEF DeleteConfirmed
    <2>2. \A i \in Ids : DeletesClone(t, i) => i \in stranded'
      BY <1>2, <2>1 DEF DeletesClone
    <2> QED
      BY <1>2, <1>3, <1>4, <2>1, <2>2, AtRestFacts, DeleteProceeds
  <1> QED
    BY <1>5, <1>6

LEMMA DeleteErasesStep ==
  ASSUME RecordsInv, NEW t \in Clerks, DeleteErases(t)
  PROVE  RecordsInv'
  <1>1. RecordsTypes /\ StagesFit
    BY DEF RecordsInv
  <1> DEFINE c == [clerk[t] EXCEPT !.pc = "drop"]
  <1>2. /\ clerk[t].pc = "erase" /\ Goes(t, c) /\ UNCHANGED <<servers, allocLock, copies, menu, spoilt, stranded>>
        /\ folders' = folders \ {clerk[t].dir} \/ folders' = folders
    BY DEF DeleteErases
  <1>3. clerk[t] \in Work /\ clerk[t].dir \in Names /\ clerk[t].what = "delete" /\ clerk[t].pc \in DeleteStages
    BY <1>1, <1>2, ClerkFacts DEF StagesFit, DeleteStages, Work
  <1>4. folders' \subseteq Names /\ IsFiniteSet(folders)'
    <2>1. folders \subseteq Names /\ IsFiniteSet(folders)
      BY <1>1 DEF RecordsTypes
    <2>2. CASE folders' = folders
      BY <2>1, <2>2
    <2>3. CASE folders' = folders \ {clerk[t].dir}
      BY <1>1, <1>3, <2>3, FolderFacts
    <2> QED
      BY <1>2, <2>2, <2>3
  <1>5. c \in Work /\ c.pc = "drop" /\ c.what = "delete" /\ c.id = clerk[t].id
    BY <1>3 DEF Work, ClerkStages, DeleteStages
  <1> HIDE DEF c
  <1> QED
    BY <1>2, <1>3, <1>4, <1>5, DeleteProceeds

LEMMA DeleteDropsStep ==
  ASSUME RecordsInv, NEW t \in Clerks, DeleteDrops(t)
  PROVE  RecordsInv'
  <1>1. RecordsTypes /\ StagesFit /\ MarksAreCopies /\ ClonesHold
    BY DEF RecordsInv
  <1> DEFINE i == clerk[t].id
  <1>2. /\ clerk[t].pc = "drop" /\ Goes(t, AtRest) /\ UNCHANGED <<folders, allocLock, copies, menu, spoilt>>
        /\ servers' = {r \in servers : r.id # i} /\ stranded' = stranded \ {i}
    BY DEF DeleteDrops
  <1>3. clerk'[t] = AtRest /\ OthersRest(t)
    BY <1>1, <1>2, AtRestFacts, GoesFacts
  <1>4. clerk[t].what = "delete"
    BY <1>1, <1>2 DEF StagesFit, DeleteStages
  <1>5. servers' \subseteq ServerRows /\ (\A r \in servers' : r.id # 0)
    BY <1>1, <1>2 DEF RecordsTypes
  <1>6. Apart(servers')
    BY <1>1, <1>2 DEF RecordsTypes, Apart
  <1>7. RowsFollow /\ SameListing
    <2>1. \A r \in servers : r.given \in BOOLEAN
      BY <1>1 DEF RecordsTypes, ServerRows
    <2> QED
      BY <1>2, <2>1 DEF RowsFollow, SameListing
  <1>8. StagesFit'
    BY <1>1, <1>3, AtRestFacts, StagesKeep DEF CopyStages, DeleteStages
  <1>9. \A u \in Clerks : \A k : /\ CopiesClone(u, k) => CopiesClone(u, k)' /\ clerk'[u].pc = clerk[u].pc
                                 /\ DeletesClone(u, k) /\ k # i => DeletesClone(u, k)'
    <2>1. \A k : ~CopiesClone(t, k) /\ (DeletesClone(t, k) => k = i)
      BY <1>4 DEF CopiesClone, Copying, DeletesClone
    <2> QED
      BY <1>3, <2>1, OthersGoOn
  <1>10. MarksAreCopies'
    BY <1>1, <1>2, <1>9 DEF MarksAreCopies
  <1>11. ClonesHold'
    <2> SUFFICES ASSUME NEW r \in servers', r.status = "provisioning", r.id \notin stranded'
                 PROVE  \/ \E u \in Clerks : DeletesClone(u, r.id)'
                        \/ \E u \in Clerks : /\ CopiesClone(u, r.id)'
                                             /\ \/ r.id \notin copies'.cancel
                                                \/ \E v \in Clerks : v # u /\ CopiesClone(v, r.id)'
      BY DEF ClonesHold
    <2>1. r \in servers /\ r.id # i /\ r.id \notin stranded
      BY <1>2
    <2>2. \/ \E u \in Clerks : DeletesClone(u, r.id)
          \/ \E u \in Clerks : /\ CopiesClone(u, r.id)
                               /\ r.id \notin copies.cancel \/ \E v \in Clerks : v # u /\ CopiesClone(v, r.id)
      BY <1>1, <2>1 DEF ClonesHold
    <2> QED
      BY <1>2, <1>9, <2>1, <2>2
  <1>12. folders' \subseteq Names /\ IsFiniteSet(folders)'
    BY <1>1, <1>2 DEF RecordsTypes
  <1>13. copies' \in [active : SUBSET (1..MaxServers), cancel : SUBSET (1..MaxServers)]
    BY <1>1, <1>2 DEF RecordsTypes
  <1>14. clerk[t].pc \notin MenuStages \cup {"write", "insert"} /\ AtRest.pc \notin MenuStages \cup {"write", "insert"}
    BY <1>2, AtRestFacts DEF MenuStages
  <1> QED
    BY <1>2, <1>5, <1>6, <1>7, <1>8, <1>10, <1>11, <1>12, <1>13, <1>14, AtRestFacts, CopyStep

-----------------------------------------------------------------------------
(* The specification                                                         *)

LEMMA RecordsStart == RecordsInit => RecordsInv
  <1> SUFFICES ASSUME RecordsInit
               PROVE  RecordsInv
    OBVIOUS
  <1> DEFINE b == CHOOSE x \in Bases : TRUE
             free == Ports \ {Front}
             p == Min(free)
             rest == free \ {Min(free)}
             q == Min(rest)
             first == NewRow(1, <<b, 1>>, <<b, 1>>, <<b, 1>>, p, FALSE)
             lobby == [first EXCEPT !.gateway = TRUE, !.alias = b, !.default = TRUE]
             other == NewRow(2, <<b, 2>>, <<b, 2>>, <<b, 2>>, q, FALSE)
             asleep == [other EXCEPT !.sleep = TRUE, !.inner = Front]
  <1>1. /\ servers \in {{lobby}, {lobby, other}, {lobby, asleep}}
        /\ folders = {r.dir : r \in servers} /\ allocLock = Nobody
        /\ copies = [active |-> {}, cancel |-> {}] /\ clerk = [t \in Clerks |-> AtRest]
        /\ menu = {[id |-> r.id, name |-> r.name, alias |-> r.alias] : r \in servers}
        /\ spoilt = FALSE
    BY DEF RecordsInit
  <1>2. b \in Bases /\ <<b, 1>> \in Names /\ <<b, 2>> \in Names
    BY RecordsAssumption DEF Names
  <1>3. p \in AnyPort /\ q \in AnyPort /\ p # q
    <2>1. free \in SUBSET Nat /\ free # {}
      BY RecordsAssumption
    <2>2. p \in free
      BY <2>1, MinFacts
    <2>3. rest \in SUBSET Nat /\ rest # {}
      <3>1. \E x, y \in free : x # y
        BY RecordsAssumption
      <3> QED
        BY <2>1, <2>2, <3>1
    <2>4. q \in rest
      BY <2>3, MinFacts
    <2> QED
      BY <2>2, <2>4 DEF AnyPort
  <1>4. 1 \in 0..MaxServers /\ 2 \in 0..MaxServers
    BY RoomConstants
  <1>b. b \in Aliases
    BY <1>2 DEF Aliases
  <1> HIDE DEF b, p, q
  <1>5. /\ first \in ServerRows /\ first.id = 1 /\ first.name = <<b, 1>> /\ first.slug = <<b, 1>> /\ first.dir = <<b, 1>>
        /\ first.port = p /\ first.status = "stopped"
    BY <1>2, <1>3, <1>4, PortFacts DEF NewRow, ServerRows
  <1>6. /\ other \in ServerRows /\ other.id = 2 /\ other.name = <<b, 2>> /\ other.slug = <<b, 2>> /\ other.dir = <<b, 2>>
        /\ other.port = q /\ other.status = "stopped"
    BY <1>2, <1>3, <1>4, PortFacts DEF NewRow, ServerRows
  <1> HIDE DEF first, other
  <1>7. /\ lobby \in ServerRows /\ lobby.id = 1 /\ lobby.name = <<b, 1>> /\ lobby.slug = <<b, 1>> /\ lobby.dir = <<b, 1>>
        /\ lobby.port = p /\ lobby.status = "stopped"
    BY <1>b, <1>5 DEF ServerRows
  <1>8. /\ asleep \in ServerRows /\ asleep.id = 2 /\ asleep.name = <<b, 2>> /\ asleep.slug = <<b, 2>>
        /\ asleep.dir = <<b, 2>> /\ asleep.port = q /\ asleep.status = "stopped"
    BY <1>6, PortFacts DEF ServerRows
  <1> HIDE DEF lobby, asleep
  <1>9. \A r \in servers : /\ r \in ServerRows /\ r.id # 0 /\ r.status = "stopped" /\ r.id \in 0..MaxServers
                           /\ r.name \in Names /\ r.dir \in Names /\ r.alias \in Aliases
    <2>1. \A r \in servers : r \in ServerRows /\ r.id # 0 /\ r.status = "stopped"
      BY <1>1, <1>6, <1>7, <1>8
    <2> QED
      BY <2>1 DEF ServerRows
  <1>10. \A r, s \in servers : r # s => r.id # s.id /\ r.name # s.name /\ r.slug # s.slug /\ r.port # s.port
    BY <1>1, <1>3, <1>6, <1>7, <1>8
  <1>11. RecordsTypes
    <2>1. IsFiniteSet({lobby, other, asleep})
      <3>1. IsFiniteSet({lobby})
        BY FS_Singleton
      <3>2. IsFiniteSet({lobby} \cup {other})
        BY <3>1, FS_AddElement
      <3>3. IsFiniteSet(({lobby} \cup {other}) \cup {asleep})
        BY <3>2, FS_AddElement
      <3>4. {lobby, other, asleep} = ({lobby} \cup {other}) \cup {asleep}
        OBVIOUS
      <3> QED
        BY <3>3, <3>4
    <2>2. IsFiniteSet(servers)
      <3>1. servers \subseteq {lobby, other, asleep}
        BY <1>1
      <3> QED
        BY <2>1, <3>1, FS_Subset
    <2>3. IsFiniteSet(folders)
      <3> DEFINE g == [r \in servers |-> r.dir]
      <3>1. g \in Surjection(servers, folders)
        BY <1>1 DEF Surjection
      <3> QED
        BY <2>2, <3>1, FS_Surjection
    <2>4. copies \in [active : SUBSET (1..MaxServers), cancel : SUBSET (1..MaxServers)]
      BY <1>1
    <2>5. menu \subseteq MenuRows
      BY <1>1, <1>9 DEF MenuRows
    <2>6. clerk \in [Clerks -> Work]
      BY <1>1, AtRestFacts
    <2> QED
      BY <1>1, <1>9, <1>10, <2>3, <2>4, <2>5, <2>6 DEF RecordsTypes, Apart
  <1>12. \A t \in Clerks : clerk[t].pc = "idle" /\ clerk[t].what = "none"
    BY <1>1, AtRestFacts
  <1>13. InsertsAreLocked /\ RoomIsLeft /\ PortsStayFree
    BY <1>1, <1>12, RecordsAssumption DEF InsertsAreLocked, RoomIsLeft, PortsStayFree, Nobody
  <1>14. PortsDiffer
    BY <1>10 DEF PortsDiffer
  <1>15. StagesFit /\ MarksAreCopies /\ ClonesHold
    BY <1>1, <1>9, <1>12 DEF StagesFit, CopyStages, DeleteStages, MarksAreCopies, ClonesHold
  <1>16. MenuFollows
    BY <1>1, <1>12 DEF MenuFollows, OneWrites, Listing
  <1> QED
    BY <1>11, <1>13, <1>14, <1>15, <1>16 DEF RecordsInv

LEMMA RecordsGoOn == RecordsInv /\ [RecordsNext]_recordsVars => RecordsInv'
  <1> SUFFICES ASSUME RecordsInv, [RecordsNext]_recordsVars
               PROVE  RecordsInv'
    OBVIOUS
  <1>1. ASSUME NEW t \in Clerks, RecordsStep(t)
        PROVE  RecordsInv'
    BY <1>1, ProvisionStep, ChooseNameStep, AllocateStep, InsertStep, CopyMarkedStep, CopyBeginsStep, CopyFailsStep,
       CopyGoesOnStep, CopyCancelledStep, CopyFinishesStep, DeleteConfirmedStep, DeleteErasesStep, DeleteDropsStep,
       SettingsDecideStep, SettingsSaveStep, PreparedPortsStep, RenameServerStep, SyncReadsStep, SyncWritesStep,
       DemoteLobbiesStep DEF RecordsStep
  <1>2. ASSUME NEW t \in Clerks, NEW b \in Bases, ResolveDirectory(t, b) \/ ImportServer(t, b)
        PROVE  RecordsInv'
    BY <1>2, ResolveDirectoryStep, ImportServerStep
  <1>3. ASSUME NEW t \in Clerks, NEW kind \in {"auto", "velocity"}, CreateLobby(t, kind)
        PROVE  RecordsInv'
    BY <1>3, CreateLobbyStep
  <1>4. ASSUME NEW t \in Clerks, NEW r \in servers, DuplicateRequest(t, r) \/ PreparePorts(t, r)
        PROVE  RecordsInv'
    BY <1>4, DuplicateRequestStep, PreparePortsStep
  <1>5. ASSUME NEW t \in Clerks, NEW r \in servers, NEW named \in BOOLEAN, DeleteRequest(t, r, named)
        PROVE  RecordsInv'
    BY <1>5, DeleteRequestStep
  <1>6. ASSUME NEW t \in Clerks, NEW r \in servers, NEW form \in Forms, SettingsRequest(t, r, form)
        PROVE  RecordsInv'
    BY <1>6, SettingsRequestStep
  <1>7. ASSUME NEW t \in Clerks, NEW r \in servers, NEW b \in Bases, RenameRequest(t, r, b)
        PROVE  RecordsInv'
    BY <1>7, RenameRequestStep
  <1>8. CASE UNCHANGED recordsVars
    BY <1>8 DEF recordsVars, RecordsInv, RecordsTypes, InsertsAreLocked, RoomIsLeft, PortsStayFree, PortsDiffer,
                StagesFit, MarksAreCopies, ClonesHold, CopiesClone, Copying, DeletesClone, MenuFollows, OneWrites,
                Awaited, Listing, Defaults
  <1> QED
    BY <1>1, <1>2, <1>3, <1>4, <1>5, <1>6, <1>7, <1>8 DEF RecordsNext

LEMMA RecordsAlwaysKept == RecordsSpec => []RecordsInv
  BY RecordsStart, RecordsGoOn, PTL DEF RecordsSpec

\* The records of servers, threads, copies and menus always have their types, and no two
\* servers share a number, a name or a slug: whatever numbers SQLite gives again, and
\* however creating, duplicating, renaming and deleting interleave.
THEOREM RecordsKeepTheirTypes == RecordsSpec => []RecordsTypeOK
  <1>1. RecordsInv => RecordsTypeOK
    <2> SUFFICES ASSUME RecordsInv
                 PROVE  RecordsTypeOK
      OBVIOUS
    <2>1. RecordsTypes
      BY DEF RecordsInv
    <2>2. \A r \in servers : r.id \in 1..MaxServers /\ {r.port, r.inner} \subseteq Ports \cup {0, Front}
      BY <2>1, RoomConstants DEF RecordsTypes, ServerRows, AnyPort
    <2>3. \A r \in servers : r.status \in {"stopped", "provisioning", "error"}
      BY <2>1 DEF RecordsTypes, ServerRows
    <2> QED
      BY <2>1, <2>2, <2>3 DEF RecordsTypeOK, RecordsTypes, Apart
  <1> QED
    BY <1>1, RecordsAlwaysKept, PTL

\* Two servers whose ports the manager chose itself never get the same one, for any number
\* of threads, servers and ports: the lock holds from the choice to the row.
THEOREM PortsAlwaysDiffer == RecordsSpec => []PortsDiffer
  BY RecordsAlwaysKept, PTL DEF RecordsInv

\* No clone is left showing "provisioning" with nobody at work on it.
THEOREM ClonesAreAlwaysWorkedOn == RecordsSpec => []ClonesAreWorkedOn
  <1>1. RecordsInv => ClonesAreWorkedOn
    <2> SUFFICES ASSUME RecordsInv, NEW r \in servers, r.status = "provisioning", r.id \notin stranded
                 PROVE  \E t \in Clerks : clerk[t].id = r.id /\ (Copying(t) \/ clerk[t].what = "delete")
      BY DEF ClonesAreWorkedOn
    <2> QED
      BY DEF RecordsInv, ClonesHold, CopiesClone, DeletesClone
  <1> QED
    BY <1>1, RecordsAlwaysKept, PTL

\* Once everything has settled, the lobby's menu shows every server of the network under its
\* present name and alias, unless two updates overlapped or one could not be written.
THEOREM MenusAlwaysShowNames == RecordsSpec => []MenusShowNames
  <1>1. RecordsInv => MenusShowNames
    <2> SUFFICES ASSUME RecordsInv, \A t \in Clerks : clerk[t].pc = "idle", ~spoilt, Defaults # {}
                 PROVE  Listing \subseteq menu
      BY DEF MenusShowNames
    <2>1. ~Awaited
      BY DEF Awaited, MenuStages
    <2> QED
      BY <2>1 DEF RecordsInv, MenuFollows
  <1> QED
    BY <1>1, RecordsAlwaysKept, PTL

(***************************************************************************)
(* WorldTransfer: no world is lost in an exchange, and the players'        *)
(* accounts are converted wherever they are named.                         *)
(***************************************************************************)

TopNames == {"world", "nether", "end"}
Arts == {"v3", "v4"}
PlainNames == {<<"level">>, <<"uid">>, <<"region">>, <<"raids">>, <<"fight">>, <<"dragon">>, <<"thing">>, <<"pack">>, <<"rules">>}
PetNames == {<<"pet", p, a>> : p \in Players, a \in Arts}
StateNames == {<<s, k, p, a>> : s \in {"state", "replaced"}, k \in Kinds, p \in Players, a \in Arts}
FileNames == PlainNames \cup PetNames \cup StateNames
DirNames == {"root", "players", "data", "datapacks", "unknown", "overworld_data", "DIM-1", "the_nether", "DIM1", "the_end"}
Contents == {"real", "blank", "left", "former", "late", "early", "latest"}
AnyFile == [top : TopNames, dir : DirNames, name : FileNames, of : Contents]

\* What a world is told by.
LevelFile == File("world", "root", <<"level">>, "real")
AWorld(files) == files \subseteq AnyFile /\ LevelFile \in files

LEMMA DealFacts ==
  /\ \A x \in Layouts : /\ x.from_apart \in BOOLEAN /\ x.to_apart \in BOOLEAN /\ x.new \in BOOLEAN
                        /\ x.dims \subseteq Shells /\ x.art \in Arts
  /\ \A c \in Ticks : c.players \in BOOLEAN /\ c.further \in BOOLEAN /\ c.extensions \in BOOLEAN /\ c.lists \in BOOLEAN
  BY TransferAssumption DEF Shells, Arts

LEMMA DimFacts ==
  /\ \A d \in Shells, i \in 1..2 : DimPaths[d][i] \in AllDimPaths
  /\ AllDimPaths \subseteq DirNames /\ AllDimPaths \cap {"root", "data", "players"} = {}
  /\ Shells \subseteq TopNames /\ "world" \notin Shells /\ "world" \in TopNames
  <1>1. ASSUME NEW d \in Shells, NEW i \in 1..2 PROVE DimPaths[d][i] \in AllDimPaths
    <2>1. CASE d = "nether"
      BY <2>1 DEF DimPaths, AllDimPaths
    <2>2. CASE d = "end"
      BY <2>2 DEF DimPaths, AllDimPaths
    <2> QED
      BY <2>1, <2>2 DEF Shells
  <1> QED
    BY <1>1 DEF AllDimPaths, DirNames, Shells, TopNames

LEMMA NameFacts ==
  /\ \A n \in FileNames : n[1] = "pet" => n \in PetNames
  /\ \A n \in FileNames : n[1] = "state" => n \in StateNames
  /\ \A n \in PetNames, a \in Arts : LET m == [n EXCEPT ![3] = a]
                                     IN  m \in PetNames /\ m[1] = "pet" /\ m[2] = n[2] /\ m[3] = a
  /\ \A n \in StateNames, a \in Arts : LET m == [n EXCEPT ![4] = a] IN m \in StateNames /\ m[1] = n[1]
  /\ \A n \in StateNames : LET m == [n EXCEPT ![1] = "replaced"] IN m \in StateNames /\ m[1] = "replaced"
  /\ \A n \in StateNames : n[1] # "pet"
  <1>1. \A n \in FileNames : n[1] = "pet" => n \in PetNames
    BY DEF FileNames, PlainNames, StateNames
  <1>2. \A n \in FileNames : n[1] = "state" => n \in StateNames
    BY DEF FileNames, PlainNames, PetNames
  <1>3. ASSUME NEW n \in PetNames, NEW a \in Arts
        PROVE  LET m == [n EXCEPT ![3] = a] IN m \in PetNames /\ m[1] = "pet" /\ m[2] = n[2] /\ m[3] = a
    <2>1. PICK p \in Players, b \in Arts : n = <<"pet", p, b>>
      BY DEF PetNames
    <2>2. [n EXCEPT ![3] = a] = <<"pet", p, a>>
      BY <2>1
    <2> QED
      BY <2>1, <2>2 DEF PetNames
  <1>4. ASSUME NEW n \in StateNames, NEW a \in Arts
        PROVE  LET m == [n EXCEPT ![4] = a] IN m \in StateNames /\ m[1] = n[1]
    <2>1. PICK s \in {"state", "replaced"}, k \in Kinds, p \in Players, b \in Arts : n = <<s, k, p, b>>
      BY DEF StateNames
    <2>2. [n EXCEPT ![4] = a] = <<s, k, p, a>>
      BY <2>1
    <2> QED
      BY <2>1, <2>2 DEF StateNames
  <1>5. ASSUME NEW n \in StateNames
        PROVE  LET m == [n EXCEPT ![1] = "replaced"] IN m \in StateNames /\ m[1] = "replaced"
    <2>1. PICK s \in {"state", "replaced"}, k \in Kinds, p \in Players, b \in Arts : n = <<s, k, p, b>>
      BY DEF StateNames
    <2>2. [n EXCEPT ![1] = "replaced"] = <<"replaced", k, p, b>>
      BY <2>1
    <2> QED
      BY <2>1, <2>2 DEF StateNames
  <1>6. \A n \in StateNames : n[1] # "pet"
    BY DEF StateNames
  <1> QED
    BY <1>1, <1>2, <1>3, <1>4, <1>5, <1>6

\* A file elsewhere, or of another name.
LEMMA FileMoved ==
  ASSUME NEW f \in AnyFile
  PROVE  /\ \A t \in TopNames : [f EXCEPT !.top = t] \in AnyFile
         /\ \A t \in TopNames, d \in DirNames : [f EXCEPT !.top = t, !.dir = d] \in AnyFile
         /\ \A d \in DirNames : [f EXCEPT !.dir = d] \in AnyFile
         /\ f.dir \in DirNames /\ f.top \in TopNames /\ f.name \in FileNames
  BY DEF AnyFile

LEMMA LevelIsAFile == LevelFile \in AnyFile
  <1>1. <<"level">> \in FileNames
    BY DEF FileNames, PlainNames
  <1> QED
    BY <1>1 DEF LevelFile, File, AnyFile, TopNames, DirNames, Contents

LEMMA StatesAreFiles ==
  ASSUME NEW a \in Arts, NEW o \in Contents
  PROVE  /\ \A k \in Kinds, p \in Players : File("world", "players", StateName(k, p, a), o) \in AnyFile
         /\ \A some \in SUBSET Kinds :
              /\ {File("world", "players", StateName(k, p, a), o) : k \in some, p \in Players} \subseteq AnyFile
              /\ {File("world", "players", StateName(k, p, a), o) : p \in Players, k \in some} \subseteq AnyFile
         /\ \A k \in Kinds : {File("world", "players", StateName(k, p, a), o) : p \in Players} \subseteq AnyFile
  <1>1. ASSUME NEW k \in Kinds, NEW p \in Players
        PROVE  File("world", "players", StateName(k, p, a), o) \in AnyFile
    <2>1. StateName(k, p, a) \in FileNames
      BY DEF FileNames, StateNames, StateName
    <2> QED
      BY <2>1 DEF File, AnyFile, TopNames, DirNames
  <1> QED
    BY <1>1

LEMMA SourceIsAWorld ==
  ASSUME NEW x \in Layouts, NEW odd
  PROVE  AWorld(SourceFiles(x, odd))
  <1> DEFINE home(d) == Home(x.from_apart, d)
             path(d) == Path(x.new, d)
             tops == {"world"} \cup {home(d) : d \in x.dims}
             old == Other(x.art)
  <1>1. /\ \A d \in x.dims : home(d) \in TopNames /\ path(d) \in DirNames /\ d \in TopNames
        /\ old \in Arts /\ x.art \in Arts
        /\ Home(~x.from_apart, "nether") \in TopNames /\ path("nether") \in DirNames
    BY DealFacts, DimFacts DEF Home, Path, Other, Arts, Shells
  <1>2. ASSUME NEW t \in TopNames, NEW d \in DirNames, NEW n \in FileNames, NEW o \in Contents
        PROVE  File(t, d, n, o) \in AnyFile
    BY <1>2 DEF File, AnyFile
  <1>3. PlainNames \subseteq FileNames /\ PetNames \subseteq FileNames /\ StateNames \subseteq FileNames
    BY DEF FileNames
  <1>4. \A p \in Players : PetName(p, old) \in FileNames
    BY <1>1, <1>3 DEF PetNames, PetName
  <1>5. \A k \in Kinds, p \in Players : StateName(k, p, old) \in FileNames /\ StateName(k, p, x.art) \in FileNames
    BY <1>1, <1>3 DEF StateNames, StateName
  <1> DEFINE Roots == {File(t, "root", n, "real") : t \in tops, n \in {<<"level">>, <<"uid">>}}
             Dims == {File(home(d), path(d), n, "real") : d \in x.dims, n \in {<<"region">>} \cup {PetName(p, old) : p \in Players}}
             Data == {File(home(d), IF x.from_apart THEN "data" ELSE path(d), <<"raids">>, "real") : d \in x.dims}
             States == {File("world", "players", StateName(k, p, old), "late") : k \in Kinds, p \in Players}
             Early == {File("world", "players", StateName(k, p, x.art), "early") : p \in Players,
                         k \in IF "late_inventory" \in odd THEN {"stats"} ELSE Kinds}
             Latest == {File("world", "players", StateName("inventory", p, x.art), "latest") : p \in Players}
             Inner == {File(d, path(d), <<"raids">>, "blank") : d \in x.dims}
             Blanks == {File("nether", "the_end", <<"fight">>, "blank"), File("end", "the_nether", <<"region">>, "blank"),
                        File("end", "root", <<"dragon">>, "real")}
             Things == {File(d, "unknown", <<"thing">>, "real") : d \in x.dims}
             Datapacks == {File(t, "datapacks", <<"pack">>, "real") : t \in IF "packs" \in odd THEN tops ELSE {"world"}}
             Rest == {File(Home(~x.from_apart, "nether"), path("nether"), <<"region">>, "left"),
                      File("world", "overworld_data", <<"rules">>, "real")}
  <1>6. SourceFiles(x, odd) \subseteq Roots \cup Dims \cup Data \cup States \cup Early \cup Latest \cup Inner \cup Blanks
                                     \cup Things \cup Datapacks \cup Rest
    BY DEF SourceFiles
  <1>7. Roots \subseteq AnyFile /\ Datapacks \subseteq AnyFile
    <2>1. \A t \in tops : t \in TopNames
      BY <1>1 DEF TopNames
    <2>2. \A t \in TopNames : File(t, "datapacks", <<"pack">>, "real") \in AnyFile /\ "world" \in TopNames
      BY <1>2, <1>3 DEF PlainNames, DirNames, Contents, TopNames
    <2>3. \A t \in TopNames, n \in {<<"level">>, <<"uid">>} : File(t, "root", n, "real") \in AnyFile
      BY <1>2, <1>3 DEF PlainNames, DirNames, Contents
    <2>4. Roots \subseteq AnyFile
      BY <2>1, <2>3
    <2>5. Datapacks \subseteq AnyFile
      BY <2>1, <2>2
    <2> QED
      BY <2>4, <2>5
  <1>8. Dims \subseteq AnyFile /\ Data \subseteq AnyFile /\ Inner \subseteq AnyFile /\ Things \subseteq AnyFile
    <2>1. \A t \in TopNames, d \in DirNames, n \in {<<"region">>, <<"raids">>, <<"thing">>} :
            File(t, d, n, "real") \in AnyFile /\ File(t, d, n, "blank") \in AnyFile
      BY <1>2, <1>3 DEF PlainNames, Contents
    <2>2. \A t \in TopNames, d \in DirNames, p \in Players : File(t, d, PetName(p, old), "real") \in AnyFile
      BY <1>2, <1>4 DEF Contents
    <2>3. "data" \in DirNames /\ "unknown" \in DirNames
      BY DEF DirNames
    <2>4. Dims \subseteq AnyFile
      BY <1>1, <2>1, <2>2
    <2> QED
      BY <1>1, <2>1, <2>3, <2>4
  <1>9. States \subseteq AnyFile /\ Early \subseteq AnyFile /\ Latest \subseteq AnyFile
    <2>1. Kinds \subseteq Kinds /\ {"stats"} \subseteq Kinds /\ "inventory" \in Kinds
      BY DEF Kinds
    <2>2. {"late", "early", "latest"} \subseteq Contents
      BY DEF Contents
    <2>3. States \subseteq AnyFile
      BY <1>1, <2>1, <2>2, StatesAreFiles
    <2>4. Early \subseteq AnyFile
      BY <1>1, <2>1, <2>2, StatesAreFiles
    <2>5. Latest \subseteq AnyFile
      BY <1>1, <2>1, <2>2, StatesAreFiles
    <2> QED
      BY <2>3, <2>4, <2>5
  <1>10. Blanks \subseteq AnyFile /\ Rest \subseteq AnyFile
    BY <1>1, <1>2, <1>3 DEF PlainNames, TopNames, DirNames, Contents
  <1>11. LevelFile \in SourceFiles(x, odd)
    BY DEF SourceFiles, LevelFile
  <1> HIDE DEF Roots, Dims, Data, States, Early, Latest, Inner, Blanks, Things, Datapacks, Rest
  <1> QED
    BY <1>6, <1>7, <1>8, <1>9, <1>10, <1>11 DEF AWorld

LEMMA TargetIsOfFiles ==
  ASSUME NEW x \in Layouts, NEW odd
  PROVE  /\ TargetFiles(x, odd) \subseteq AnyFile
         /\ \A f \in TargetFiles(x, odd) : f.name[1] # "pet"
  <1>1. x.art \in Arts
    BY DealFacts
  <1> SUFFICES ASSUME NEW f \in TargetFiles(x, odd) PROVE f \in AnyFile /\ f.name[1] # "pet"
    OBVIOUS
  <1>2. CASE \E t \in TopNames, n \in {<<"level">>, <<"uid">>} : f = File(t, "root", n, "former")
    <2>1. PICK t \in TopNames, n \in {<<"level">>, <<"uid">>} : f = File(t, "root", n, "former")
      BY <1>2
    <2>2. n \in FileNames /\ n[1] # "pet"
      BY DEF FileNames, PlainNames
    <2> QED
      BY <2>1, <2>2 DEF File, AnyFile, DirNames, Contents
  <1>3. CASE \E k \in Kinds, p \in Players : f = File("world", "players", StateName(k, p, x.art), "former")
    <2>1. PICK k \in Kinds, p \in Players : f = File("world", "players", StateName(k, p, x.art), "former")
      BY <1>3
    <2>2. f \in AnyFile
      BY <1>1, <2>1, StatesAreFiles DEF Contents
    <2>3. f.name = StateName(k, p, x.art)
      BY <2>1 DEF File
    <2> QED
      BY <2>2, <2>3 DEF StateName
  <1> QED
    BY <1>2, <1>3 DEF TargetFiles, TopNames, Shells
-----------------------------------------------------------------------------
(* A world stays one in every shape.                                       *)

LEMMA LevelFacts ==
  /\ LevelFile \in AnyFile /\ LevelFile.top = "world" /\ LevelFile.dir = "root"
  /\ LevelFile.name = <<"level">> /\ LevelFile.name \notin DataNames /\ LevelFile.name[1] = "level"
  BY LevelIsAFile DEF LevelFile, File, DataNames

LEMMA MovedIsAWorld ==
  ASSUME NEW files, AWorld(files), NEW t \in TopNames, NEW u \in TopNames,
         NEW d \in AllDimPaths, NEW e \in AllDimPaths
  PROVE  AWorld(Moved(files, t, d, u, e))
  <1>1. d \in DirNames /\ e \in DirNames /\ d # "root" /\ e # "root"
    BY DimFacts
  <1>2. \A f \in files : [f EXCEPT !.top = u, !.dir = e] \in AnyFile
    BY <1>1, FileMoved DEF AWorld
  <1>3. LevelFile \notin In(files, t, d) /\ LevelFile \notin In(files, u, e)
    BY <1>1, LevelFacts DEF In
  <1> QED
    BY <1>2, <1>3 DEF AWorld, Moved, In

LEMMA PathsMovedIsAWorld ==
  ASSUME NEW files, AWorld(files), NEW d \in Shells, NEW t \in TopNames, NEW u \in TopNames
  PROVE  AWorld(PathsMoved(files, d, t, u))
  <1>1. DimPaths[d][1] \in AllDimPaths /\ DimPaths[d][2] \in AllDimPaths
    BY DimFacts
  <1> QED
    BY <1>1, MovedIsAWorld DEF PathsMoved

LEMMA JoinedIsAWorld ==
  ASSUME NEW files, AWorld(files), NEW moving \in SUBSET files, NEW ndir,
         \A f \in moving : f.dir # "root" /\ ndir[f] \in DirNames
  PROVE  AWorld(Joined(files, moving, ndir))
  <1>1. "world" \in TopNames
    BY DimFacts
  <1>2. \A f \in moving : [f EXCEPT !.top = "world", !.dir = ndir[f]] \in AnyFile
    BY <1>1, FileMoved DEF AWorld
  <1>3. LevelFile \notin moving
    BY LevelFacts
  <1> QED
    BY <1>2, <1>3 DEF AWorld, Joined

LEMMA IntoWorldIsAWorld ==
  ASSUME NEW files, AWorld(files), NEW d \in Shells
  PROVE  AWorld(IntoWorld(files, d))
  <1> DEFINE dims == PathsMoved(files, d, d, "world")
             last == DimPaths[d][CHOOSE i \in LastPath(files, d) : TRUE]
             joined == Joined(dims, In(dims, d, "data"), [f \in In(dims, d, "data") |-> last])
             data == IF LastPath(files, d) = {} THEN dims ELSE {f \in joined : ~(f.top = d /\ f.dir = "data")}
             rest == Remains(data, d)
  <1>1. AWorld(dims)
    BY DimFacts, PathsMovedIsAWorld
  <1>2. AWorld(data)
    <2>1. ASSUME LastPath(files, d) # {} PROVE AWorld({f \in joined : ~(f.top = d /\ f.dir = "data")})
      <3>1. last \in DirNames
        BY <2>1, DimFacts DEF LastPath
      <3>2. In(dims, d, "data") \subseteq dims /\ \A f \in In(dims, d, "data") : f.dir # "root"
        BY DEF In
      <3> HIDE DEF dims, last
      <3>3. AWorld(joined)
        BY <1>1, <3>1, <3>2, JoinedIsAWorld
      <3> HIDE DEF joined
      <3> QED
        BY <3>3, LevelFacts DEF AWorld
    <2> QED
      BY <1>1, <2>1
  <1>3. rest \subseteq data /\ \A f \in rest : f.dir # "root" /\ [g \in rest |-> g.dir][f] \in DirNames
    <2> HIDE DEF data
    <2>1. \A f \in data : f.dir \in DirNames
      BY <1>2, FileMoved DEF AWorld
    <2> QED
      BY <2>1 DEF Remains, Of
  <1>4. IntoWorld(files, d) = Joined(data, rest, [f \in rest |-> f.dir])
    BY DEF IntoWorld
  <1> HIDE DEF data, rest
  <1> QED
    BY <1>2, <1>3, <1>4, JoinedIsAWorld

LEMMA IntoShellIsAWorld ==
  ASSUME NEW files, AWorld(files), NEW d \in Shells
  PROVE  AWorld(IntoShell(files, d))
  <1> DEFINE out == PathsMoved(files, d, "world", d)
             data == {f \in Of(out, d) : f.dir \in AllDimPaths /\ f.name \in DataNames}
  <1>1. AWorld(out)
    BY DimFacts, PathsMovedIsAWorld
  <1>2. File(d, "root", <<"level">>, "real") \in AnyFile
    <2>1. <<"level">> \in FileNames /\ d \in TopNames
      BY DimFacts DEF FileNames, PlainNames
    <2> QED
      BY <2>1 DEF File, AnyFile, DirNames, Contents
  <1>3. \A f \in out : [f EXCEPT !.dir = "data"] \in AnyFile
    BY <1>1, FileMoved DEF AWorld, DirNames
  <1>4. IntoShell(files, d) =
          IF Of(out, d) = Of(files, d) THEN files
          ELSE (out \ data) \cup {[f EXCEPT !.dir = "data"] : f \in data} \cup {File(d, "root", <<"level">>, "real")}
    BY DEF IntoShell
  <1>5. data \subseteq out /\ LevelFile \notin data
    BY LevelFacts DEF Of
  <1> HIDE DEF out, data
  <1> QED
    BY <1>1, <1>2, <1>3, <1>4, <1>5 DEF AWorld

LEMMA WithoutShell ==
  ASSUME NEW files, AWorld(files), NEW d \in Shells
  PROVE  AWorld(files \ Of(files, d))
  BY DimFacts, LevelFacts DEF AWorld, Of

LEMMA ShapedIsAWorld ==
  ASSUME NEW files, AWorld(files)
  PROVE  AWorld(PaperSorted(Shaped(files).files))
  <1>1. "nether" \in Shells /\ "end" \in Shells
    BY DEF Shells
  <1> DEFINE nether == IntoWorld(files, "nether")
             end == IntoWorld(nether \ Of(nether, "nether"), "end")
             apart == deal.layout.to_apart
  <1>2. AWorld(end \ Of(end, "end"))
    <2>1. AWorld(nether \ Of(nether, "nether"))
      BY <1>1, IntoWorldIsAWorld, WithoutShell
    <2> HIDE DEF nether
    <2>2. AWorld(end)
      BY <1>1, <2>1, IntoWorldIsAWorld
    <2> HIDE DEF end
    <2> QED
      BY <1>1, <2>2, WithoutShell
  <1>3. AWorld(IntoShell(IntoShell(files, "nether"), "end"))
    BY <1>1, IntoShellIsAWorld
  <1>4. AWorld(Shaped(files).files)
    <2> HIDE DEF end, nether
    <2>1. CASE SourceApart = apart
      BY <2>1 DEF Shaped
    <2>2. CASE SourceApart # apart /\ SourceApart /\ ~apart
      <3>1. Shaped(files).files = end \ Of(end, "end")
        BY <2>2 DEF Shaped, end, nether
      <3> QED
        BY <1>2, <3>1
    <2>3. CASE SourceApart # apart /\ ~(SourceApart /\ ~apart)
      BY <1>3, <2>3 DEF Shaped
    <2> QED
      BY <2>1, <2>2, <2>3
  <1> DEFINE shaped == Shaped(files).files
             sorted == In(shaped, "world", "overworld_data")
  <1>5. sorted \subseteq shaped /\ \A f \in sorted : f.dir # "root" /\ [g \in sorted |-> "data"][f] \in DirNames
    BY DEF In, DirNames
  <1>6. PaperSorted(shaped) = IF apart THEN shaped ELSE Joined(shaped, sorted, [f \in sorted |-> "data"])
    BY DEF PaperSorted
  <1> HIDE DEF shaped, sorted
  <1>7. AWorld(shaped)
    BY <1>4 DEF shaped
  <1> QED
    BY <1>5, <1>6, <1>7, JoinedIsAWorld DEF shaped

\* What is copied of the source.
LEMMA CopyIsAWorld ==
  ASSUME AWorld(original)
  PROVE  /\ AWorld(Merged(ChosenFor))
         /\ AWorld(Merged({f \in ChosenFor : ~(f.dir = "players" /\ f.name[2] = "stats")}))
  <1>1. AWorld(ChosenFor)
    <2>1. LevelFile.top = "world" /\ LevelFile.dir # "players" /\ LevelFile.dir \notin AllDimPaths
      BY LevelFacts, DimFacts
    <2> QED
      BY <2>1 DEF AWorld, ChosenFor
  <1>2. AWorld({f \in ChosenFor : ~(f.dir = "players" /\ f.name[2] = "stats")})
    BY <1>1, LevelFacts DEF AWorld
  <1>3. ASSUME NEW files, AWorld(files) PROVE AWorld(Merged(files))
    <2>1. \A f \in files : [f EXCEPT !.top = "world"] \in AnyFile
      BY <1>3, DimFacts, FileMoved DEF AWorld
    <2> QED
      BY <1>3, <2>1 DEF AWorld, Merged, In
  <1> QED
    BY <1>1, <1>2, <1>3

\* Under the target's accounts it is the same world, and its pets follow.
LEMMA RewrittenIsAWorld ==
  ASSUME NEW files, AWorld(files), NEW m, deal.layout.art \in Arts
  PROVE  /\ AWorld(Rewritten(files, m))
         /\ \A g \in Rewritten(files, m) : g.name[1] = "pet" /\ g.name[2] \in m => g.name[3] = deal.layout.art
  <1> DEFINE art == deal.layout.art
             new(f) == CASE f.dir = "players" /\ f.name[1] = "state" /\ f.name[3] \in m -> Renamed(files, f)
                         [] f.name[1] = "pet" /\ f.name[2] \in m -> [f EXCEPT !.name[3] = art]
                         [] OTHER -> f
  <1>1. Rewritten(files, m) = {new(f) : f \in files}
    BY DEF Rewritten
  <1>2. ASSUME NEW f \in files
        PROVE  /\ new(f) \in AnyFile
               /\ new(f).name[1] = "pet" /\ new(f).name[2] \in m => new(f).name[3] = art
    <2>1. f \in AnyFile /\ f.name \in FileNames
      BY FileMoved DEF AWorld
    <2>2. \A n : n \in FileNames => [f EXCEPT !.name = n] \in AnyFile /\ [f EXCEPT !.name = n].name = n
      BY <2>1 DEF AnyFile
    <2>3. StateNames \subseteq FileNames /\ PetNames \subseteq FileNames
      BY DEF FileNames
    <2>4. CASE f.dir = "players" /\ f.name[1] = "state" /\ f.name[3] \in m
      <3>1. f.name \in StateNames
        BY <2>1, <2>4, NameFacts
      <3>2. \/ Renamed(files, f) = [f EXCEPT !.name = [f.name EXCEPT ![1] = "replaced"]]
            \/ Renamed(files, f) = [f EXCEPT !.name = [f.name EXCEPT ![4] = art]]
        BY DEF Renamed
      <3>3. [f.name EXCEPT ![1] = "replaced"] \in StateNames /\ [f.name EXCEPT ![4] = art] \in StateNames
        BY <3>1, NameFacts
      <3>4. Renamed(files, f) \in AnyFile /\ Renamed(files, f).name \in StateNames
        BY <2>2, <2>3, <3>2, <3>3
      <3>5. new(f) = Renamed(files, f)
        BY <2>4
      <3> QED
        BY <3>4, <3>5, NameFacts
    <2>5. CASE f.name[1] = "pet" /\ f.name[2] \in m
      <3>1. f.name \in PetNames
        BY <2>1, <2>5, NameFacts
      <3>2. new(f) = [f EXCEPT !.name = [f.name EXCEPT ![3] = art]]
        BY <2>5
      <3>3. [f.name EXCEPT ![3] = art] \in PetNames /\ [f.name EXCEPT ![3] = art][3] = art
        BY <3>1, NameFacts
      <3>4. [f.name EXCEPT ![3] = art] \in FileNames
        BY <2>3, <3>3
      <3>5. new(f) \in AnyFile /\ new(f).name = [f.name EXCEPT ![3] = art]
        BY <2>2, <3>2, <3>4
      <3> QED
        BY <3>3, <3>5
    <2>6. CASE ~(f.dir = "players" /\ f.name[1] = "state" /\ f.name[3] \in m) /\ ~(f.name[1] = "pet" /\ f.name[2] \in m)
      BY <2>1, <2>6
    <2> QED
      BY <2>4, <2>5, <2>6
  <1>3. new(LevelFile) = LevelFile
    BY LevelFacts
  <1> HIDE DEF new
  <1> QED
    BY <1>1, <1>2, <1>3 DEF AWorld
-----------------------------------------------------------------------------
(* The exchange.                                                           *)

Unexchanged == {"backup", "copy", "shape", "accounts"}
AfterMoves == {"uid", "texts", "further", "extensions", "lists", "done"}
Stations == Unexchanged \cup AfterMoves \cup {"aside", "movein", "rollback", "drop", "failed", "refused", "dead"}

Former == TargetFiles(deal.layout, deal.odd)
\* No folder has files in both.
Parted(files, others) == \A f \in files, g \in others : f.top # g.top

TransferTypes ==
  /\ deal.layout \in Layouts /\ deal.ticked \in Ticks /\ pc \in Stations
  /\ original \subseteq AnyFile /\ temp \subseteq AnyFile /\ ready \subseteq AnyFile
  /\ pc \in {"backup", "copy"} => LevelFile \in original
  /\ pc \in {"shape", "accounts"} => LevelFile \in temp
  /\ pc \in {"aside", "movein", "drop"} \cup AfterMoves => LevelFile \in ready

\* How far the exchange is, and what is where.
ExchangeFits ==
  /\ pc \in Unexchanged => place = Former /\ aside = {} /\ moved = {}
  /\ pc = "aside" => temp = ready /\ moved = {} /\ Parted(place, aside) /\ place \cup aside = Former
  /\ pc = "movein" => aside = Former /\ place \cup temp = ready /\ Parted(place, temp) /\ \A f \in place : f.top \in moved
  /\ pc = "rollback" =>
       \/ moved = {} /\ Parted(place, aside) /\ place \cup aside = Former
       \/ aside = Former /\ \A f \in place : f.top \in moved \/ mishap = "half_moved"
  /\ pc \in {"drop"} \cup AfterMoves => place = ready

\* Whom the mapping knows, and who has been converted.
MappingFits ==
  Converts =>
    /\ \A p \in Players : p \notin Named => asked[p] = {}
    /\ pc \in Unexchanged => \A p \in Players : asked[p] = {}
    /\ pc \in {"aside", "movein", "drop"} \cup (AfterMoves \ {"done"}) =>
         \A p \in Players : (p \in Named => asked[p] # {}) /\ (asked[p] = {TRUE} => p \in mapping)
    /\ \A f \in ready : f.name[1] = "pet" /\ asked[f.name[2]] = {TRUE} => f.name[3] = deal.layout.art
    /\ \A a \in texts : asked[a.player] = {TRUE} => a.art = deal.layout.art
    /\ pc \in Unexchanged => ready = {} /\ \A a \in texts : a.art = deal.layout.art

AccountRows == [where : {"lists", "plugins", "further"}, from : {"target", "source"}, player : Players, art : Arts]

TransferInv ==
  TransferTypes /\ asked \in [Players -> SUBSET BOOLEAN] /\ mapping \subseteq Players
  /\ texts \subseteq AccountRows
  /\ ExchangeFits /\ MappingFits /\ NoWorldLost
-----------------------------------------------------------------------------
LEMMA ConversionKeeps ==
  ASSUME NEW accounts, NEW places, NEW m, deal.layout.art \in Arts,
         accounts \subseteq AccountRows
  PROVE  /\ Converted(accounts, places, m) \subseteq AccountRows
         /\ \A b \in Converted(accounts, places, m) : \E a \in accounts :
              /\ b.player = a.player /\ b.where = a.where
              /\ b.art = IF a.where \in places /\ a.player \in m THEN deal.layout.art ELSE a.art
  BY DEF Converted, AccountRows

LEMMA FromSourceRows ==
  ASSUME deal.layout.art \in Arts, NEW w \in {"lists", "plugins", "further"}
  PROVE  FromSource(w) \subseteq AccountRows /\ \A a \in FromSource(w) : a.where = w
  BY DEF FromSource, Account, AccountRows, Old, Other, Arts

LEMMA TransferInitInv == TransferInit => TransferInv
  <1> SUFFICES ASSUME TransferInit PROVE TransferInv
    OBVIOUS
  <1>1. deal.layout \in Layouts /\ deal.ticked \in Ticks /\ deal.layout.art \in Arts
    BY DealFacts DEF TransferInit
  <1>2. TransferTypes
    BY <1>1, SourceIsAWorld DEF TransferInit, TransferTypes, AWorld, Stations, Unexchanged, AfterMoves
  <1>3. asked \in [Players -> SUBSET BOOLEAN] /\ mapping \subseteq Players
    BY DEF TransferInit
  <1>4. texts \subseteq AccountRows /\ \A a \in texts : a.art = deal.layout.art
    BY <1>1 DEF TransferInit, Account, AccountRows
  <1>5. ExchangeFits
    BY DEF TransferInit, ExchangeFits, Former, Unexchanged, AfterMoves
  <1>6. MappingFits
    BY <1>4 DEF TransferInit, MappingFits, Unexchanged, AfterMoves
  <1>7. NoWorldLost
    BY DEF TransferInit, NoWorldLost
  <1> QED
    BY <1>2, <1>3, <1>4, <1>5, <1>6, <1>7 DEF TransferInv

\* What stands still with the deal.
LEMMA DealKeeps ==
  ASSUME UNCHANGED deal
  PROVE  UNCHANGED <<Former, Converts, Named, Old>> /\ \A w : FromSource(w)' = FromSource(w)
  BY DEF Former, Converts, Named, Old, Has, FromSource

LEMMA PrepareKeeps ==
  ASSUME TransferInv, Backup \/ Copy \/ Shape
  PROVE  TransferInv'
  <1>1. /\ UNCHANGED <<deal, original, ready, place, aside, moved, mapping, asked, texts>>
        /\ pc \in Unexchanged /\ pc' \in {"copy", "shape", "accounts", "failed", "refused"}
    BY DEF Backup, Copy, Shape, Proceed, GivesUp, Unexchanged
  <1> USE DealKeeps
  <1>2. temp' \subseteq AnyFile /\ (pc' \in {"shape", "accounts"} => LevelFile \in temp')
        /\ (pc' \in {"backup", "copy"} => pc \in {"backup", "copy"})
    <2>1. CASE Backup
      BY <2>1 DEF Backup, Proceed, GivesUp, TransferInv, TransferTypes
    <2>2. CASE Copy
      <3>1. AWorld(original)
        BY <2>2 DEF Copy, TransferInv, TransferTypes, AWorld
      <3> QED
        BY <2>2, <3>1, CopyIsAWorld DEF Copy, Proceed, GivesUp, AWorld
    <2>3. CASE Shape
      <3>1. AWorld(temp)
        BY <2>3 DEF Shape, TransferInv, TransferTypes, AWorld
      <3>2. In(place, "world", "players") \subseteq AnyFile
        <4>1. place = Former /\ deal.layout \in Layouts
          BY <1>1 DEF TransferInv, TransferTypes, ExchangeFits
        <4> QED
          BY <4>1, TargetIsOfFiles DEF Former, In
      <3> QED
        BY <2>3, <3>1, <3>2, ShapedIsAWorld DEF Shape, Proceed, AWorld
    <2> QED
      BY <2>1, <2>2, <2>3
  <1>3. TransferTypes'
    BY <1>1, <1>2 DEF TransferInv, TransferTypes, Stations, Unexchanged, AfterMoves
  <1>4. ExchangeFits'
    BY <1>1 DEF TransferInv, ExchangeFits, Unexchanged, AfterMoves
  <1>5. MappingFits'
    BY <1>1 DEF TransferInv, MappingFits, Unexchanged, AfterMoves
  <1>6. NoWorldLost'
    BY <1>1 DEF TransferInv, NoWorldLost, ExchangeFits, Former
  <1> QED
    BY <1>1, <1>3, <1>4, <1>5, <1>6 DEF TransferInv

LEMMA AccountsKeep ==
  ASSUME TransferInv, Accounts
  PROVE  TransferInv'
  <1> USE DealKeeps
  <1>1. /\ UNCHANGED <<deal, original, place, aside, moved, texts, mishap>>
        /\ pc = "accounts" /\ pc' = "aside" /\ ready' = temp' /\ deal.layout.art \in Arts
        /\ AWorld(temp) /\ texts \subseteq AccountRows
    BY DealFacts DEF Accounts, Proceed, TransferInv, TransferTypes, AWorld
  <1>2. CASE ~Converts
    <2>1. UNCHANGED <<mapping, asked, temp>>
      BY <1>2 DEF Accounts
    <2>2. TransferTypes' /\ ExchangeFits'
      BY <1>1, <2>1 DEF TransferInv, TransferTypes, ExchangeFits, AWorld, Parted, Stations, Unexchanged, AfterMoves
    <2>3. MappingFits'
      BY <1>1, <1>2 DEF MappingFits
    <2>4. NoWorldLost'
      BY <1>1 DEF TransferInv, NoWorldLost, ExchangeFits, Former, Unexchanged
    <2> QED
      BY <1>1, <2>1, <2>2, <2>3, <2>4 DEF TransferInv
  <1>3. CASE Converts
    <2>1. PICK answers \in BOOLEAN :
            MayBeSilent(answers) /\ Asks(answers) /\ mapping' = Mapped(answers) /\ temp' = Rewritten(temp, Mapped(answers))
      BY <1>3 DEF Accounts
    <2>2. AWorld(temp') /\ \A g \in temp' : g.name[1] = "pet" /\ g.name[2] \in mapping' => g.name[3] = deal.layout.art
      BY <1>1, <2>1, RewrittenIsAWorld
    <2>3. TransferTypes' /\ ExchangeFits'
      BY <1>1, <2>2 DEF TransferInv, TransferTypes, ExchangeFits, AWorld, Parted, Stations, Unexchanged, AfterMoves
    <2>4. /\ mapping' \subseteq Players /\ asked' \in [Players -> SUBSET BOOLEAN]
          /\ \A p \in Players : p \notin Named => asked'[p] = {}
          /\ \A p \in Players : (p \in Named => asked'[p] # {}) /\ (asked'[p] = {TRUE} => p \in mapping')
      <3>1. Named \subseteq Players /\ asked \in [Players -> SUBSET BOOLEAN] /\ \A p \in Players : asked[p] = {}
        BY <1>1, <1>3 DEF Named, TransferInv, MappingFits, Unexchanged
      <3>2. asked' = [p \in Players |-> IF p \in Named THEN {answers} ELSE {}]
        BY <2>1, <3>1 DEF Asks
      <3> QED
        BY <2>1, <3>1, <3>2 DEF Mapped
    <2>5. MappingFits'
      <3>1. \A f \in temp' : f.name[1] = "pet" => f.name[2] \in Players
        <4> SUFFICES ASSUME NEW f \in temp', f.name[1] = "pet" PROVE f.name[2] \in Players
          OBVIOUS
        <4>1. f.name \in PetNames
          BY <2>2, FileMoved, NameFacts DEF AWorld
        <4> QED
          BY <4>1 DEF PetNames
      <3>2. \A a \in texts : a.art = deal.layout.art
        BY <1>1, <1>3 DEF TransferInv, MappingFits, Unexchanged
      <3> QED
        BY <1>1, <2>2, <2>4, <3>1, <3>2 DEF MappingFits, Unexchanged, AfterMoves
    <2>6. NoWorldLost'
      BY <1>1 DEF TransferInv, NoWorldLost, ExchangeFits, Former, Unexchanged
    <2> QED
      BY <1>1, <2>3, <2>4, <2>5, <2>6 DEF TransferInv
  <1> QED
    BY <1>2, <1>3

\* A step of the exchange leaves the accounts alone.
LEMMA AccountsRest ==
  ASSUME TransferInv, UNCHANGED <<deal, ready, mapping, asked, texts>>,
         pc \in {"aside", "movein", "drop", "uid", "rollback"}, pc' \in {"aside", "movein", "rollback", "drop", "failed", "uid", "texts"},
         pc = "rollback" => pc' = "failed"
  PROVE  /\ MappingFits' /\ texts' \subseteq AccountRows /\ mapping' \subseteq Players
         /\ asked' \in [Players -> SUBSET BOOLEAN] /\ pc' \in Stations
         /\ deal'.layout \in Layouts /\ deal'.ticked \in Ticks /\ ready' \subseteq AnyFile
         /\ pc' \in {"aside", "movein", "drop"} \cup AfterMoves => LevelFile \in ready'
  <1>1. MappingFits'
    BY DealKeeps DEF TransferInv, MappingFits, Unexchanged, AfterMoves
  <1> QED
    BY <1>1 DEF TransferInv, TransferTypes, Stations, AfterMoves, Unexchanged

LEMMA ExchangeKeeps ==
  ASSUME TransferInv, PutAside \/ MoveIn \/ Rollback \/ Drop \/ LoseUid
  PROVE  TransferInv'
  <1> USE DealKeeps
  <1>1. CASE PutAside
    <2>1. UNCHANGED <<deal, original, temp, ready, moved, mapping, asked, texts>>
          /\ pc = "aside" /\ pc' \in {"aside", "movein", "rollback"}
      BY <1>1 DEF PutAside, Proceed
    <2>2. /\ temp = ready /\ moved = {} /\ Parted(place, aside) /\ place \cup aside = Former
      BY <2>1 DEF TransferInv, ExchangeFits
    <2>3. Parted(place', aside') /\ place' \cup aside' = Former /\ (pc' = "movein" => place' = {} /\ aside' = Former)
      <3>1. CASE place = {}
        BY <1>1, <2>2, <3>1 DEF PutAside, Proceed
      <3>2. CASE place # {}
        <4> DEFINE t == Tops[Next1(place)]
        <4>1. (place' = place \ Of(place, t) /\ aside' = aside \cup Of(place, t)) \/ UNCHANGED <<place, aside>>
          BY <1>1, <3>2 DEF PutAside
        <4>2. pc' # "movein"
          BY <1>1, <3>2, <2>1 DEF PutAside, Proceed
        <4> HIDE DEF t
        <4> QED
          BY <2>2, <4>1, <4>2 DEF Parted, Of
      <3> QED
        BY <3>1, <3>2
    <2>4. ExchangeFits'
      BY <2>1, <2>2, <2>3 DEF ExchangeFits, Parted, Unexchanged, AfterMoves
    <2>5. NoWorldLost'
      BY <2>1, <2>3 DEF NoWorldLost, Former
    <2>6. TransferTypes'
      BY <2>1, AccountsRest DEF TransferTypes, TransferInv, AfterMoves
    <2> QED
      BY <2>1, <2>4, <2>5, <2>6, AccountsRest DEF TransferInv
  <1>2. CASE MoveIn
    <2>1. UNCHANGED <<deal, original, ready, aside, mapping, asked, texts>>
          /\ pc = "movein" /\ pc' \in {"movein", "drop", "rollback"}
      BY <1>2 DEF MoveIn, Proceed
    <2>2. aside = Former /\ place \cup temp = ready /\ Parted(place, temp) /\ \A f \in place : f.top \in moved
      BY <2>1 DEF TransferInv, ExchangeFits
    <2>3. /\ pc' = "movein" => place' \cup temp' = ready /\ Parted(place', temp') /\ \A f \in place' : f.top \in moved'
          /\ pc' = "drop" => place' = ready
          /\ pc' = "rollback" => \A f \in place' : f.top \in moved' \/ mishap' = "half_moved"
          /\ temp' \subseteq temp
      <3>1. CASE temp = {}
        BY <1>2, <2>1, <2>2, <3>1 DEF MoveIn, Proceed
      <3>2. CASE temp # {}
        <4> DEFINE t == Tops[Next1(temp)]
        <4>1. \/ place' = place \cup Of(temp, t) /\ temp' = temp \ Of(temp, t) /\ moved' = moved \cup {t} /\ pc' = "movein"
              \/ pc' = "rollback" /\ UNCHANGED <<place, temp, moved>>
              \/ pc' = "rollback" /\ mishap' = "half_moved" /\ UNCHANGED <<temp, moved>>
          BY <1>2, <2>1, <3>2 DEF MoveIn, Proceed, Befalls
        <4> HIDE DEF t
        <4> QED
          BY <2>2, <4>1 DEF Parted, Of
      <3> QED
        BY <3>1, <3>2
    <2>4. ExchangeFits'
      BY <2>1, <2>2, <2>3 DEF ExchangeFits, Unexchanged, AfterMoves
    <2>5. NoWorldLost'
      BY <2>1, <2>2 DEF NoWorldLost, Former
    <2>6. TransferTypes'
      BY <2>1, <2>3, AccountsRest DEF TransferTypes, TransferInv, AfterMoves
    <2> QED
      BY <2>1, <2>4, <2>5, <2>6, AccountsRest DEF TransferInv
  <1>3. CASE Rollback
    <2>1. UNCHANGED <<deal, original, ready, moved, mapping, asked, texts, mishap>> /\ temp' = {}
          /\ pc = "rollback" /\ pc' = "failed"
      BY <1>3 DEF Rollback, GivesUp, Proceed
    <2>2. \/ moved = {} /\ Parted(place, aside) /\ place \cup aside = Former
          \/ aside = Former /\ \A f \in place : f.top \in moved \/ mishap = "half_moved"
      BY <2>1 DEF TransferInv, ExchangeFits
    <2>3. PICK stuck \in {{}, {f.top : f \in aside}} :
            /\ place' = {f \in place : f.top \notin moved \cup {g.top : g \in aside}} \cup {f \in aside : f.top \notin stuck}
            /\ aside' = {f \in aside : f.top \in stuck}
      BY <1>3 DEF Rollback
    <2>4. aside \subseteq place' \cup aside' /\ \A f \in place' : f \in aside \/ (f.top \notin moved \cup {g.top : g \in aside} /\ f \in place)
      <3>1. ASSUME NEW f \in aside PROVE f \in place' \/ f \in aside'
        <4>1. CASE f.top \in stuck
          BY <2>3, <4>1
        <4>2. CASE f.top \notin stuck
          BY <2>3, <4>2
        <4> QED
          BY <4>1, <4>2
      <3>2. \A f \in place' : f \in aside \/ (f.top \notin moved \cup {g.top : g \in aside} /\ f \in place)
        BY <2>3
      <3> QED
        BY <3>1, <3>2
    <2>5. Former \subseteq place' \cup aside' /\ \A f \in place' \ Former : mishap = "half_moved" /\ Of(Former, f.top) = {}
      <3>1. CASE moved = {} /\ Parted(place, aside) /\ place \cup aside = Former
        <4>1. \A f \in place : f \in place'
          BY <2>3, <3>1 DEF Parted
        <4> QED
          BY <2>4, <3>1, <4>1
      <3>2. CASE aside = Former /\ \A f \in place : f.top \in moved \/ mishap = "half_moved"
        BY <2>4, <3>2 DEF Of
      <3> QED
        BY <2>2, <3>1, <3>2
    <2>6. NoWorldLost'
      BY <2>1, <2>5 DEF NoWorldLost, Former
    <2>7. ExchangeFits' /\ TransferTypes'
      BY <2>1, AccountsRest DEF ExchangeFits, TransferTypes, TransferInv, Unexchanged, AfterMoves
    <2> QED
      BY <2>1, <2>6, <2>7, AccountsRest DEF TransferInv
  <1>4. CASE Drop
    <2>1. UNCHANGED <<deal, original, temp, ready, place, moved, mapping, asked, texts, mishap>>
          /\ pc = "drop" /\ pc' = "uid"
      BY <1>4 DEF Drop, Proceed
    <2>2. place = ready /\ ready # {}
      BY <2>1 DEF TransferInv, ExchangeFits, TransferTypes
    <2>3. ExchangeFits' /\ NoWorldLost' /\ TransferTypes'
      BY <2>1, <2>2, AccountsRest DEF ExchangeFits, NoWorldLost, TransferTypes, TransferInv, Unexchanged, AfterMoves
    <2> QED
      BY <2>1, <2>3, AccountsRest DEF TransferInv
  <1>5. CASE LoseUid
    <2>1. UNCHANGED <<deal, temp, ready, place, aside, moved, mapping, asked, texts, mishap>>
          /\ pc = "uid" /\ pc' = "texts" /\ original' \subseteq original
      BY <1>5 DEF LoseUid, Proceed
    <2>2. ExchangeFits' /\ NoWorldLost' /\ TransferTypes'
      BY <2>1, AccountsRest DEF ExchangeFits, NoWorldLost, Former, TransferTypes, TransferInv, Unexchanged, AfterMoves
    <2> QED
      BY <2>1, <2>2, AccountsRest DEF TransferInv
  <1> QED
    BY <1>1, <1>2, <1>3, <1>4, <1>5

\* A step beside the world leaves the worlds alone.
LEMMA WorldsRest ==
  ASSUME TransferInv, UNCHANGED <<deal, original, temp, ready, place, aside, moved>>,
         pc \in AfterMoves, pc' \in AfterMoves
  PROVE  TransferTypes' /\ ExchangeFits' /\ NoWorldLost'
  BY DealKeeps DEF TransferInv, TransferTypes, ExchangeFits, NoWorldLost, Former, Stations, Unexchanged, AfterMoves

LEMMA BesidesKeep ==
  ASSUME TransferInv, Texts \/ FurtherWorld \/ Extensions \/ Lists
  PROVE  TransferInv'
  <1> USE DealKeeps
  <1>1. /\ UNCHANGED <<deal, original, temp, ready, place, aside, moved>>
        /\ pc \in AfterMoves \ {"uid", "done"} /\ pc' \in AfterMoves /\ pc' # "uid"
        /\ deal.layout.art \in Arts /\ texts \subseteq AccountRows /\ mapping \subseteq Players
        /\ asked \in [Players -> SUBSET BOOLEAN]
    BY DealFacts DEF Texts, FurtherWorld, Extensions, Lists, Proceed, AfterMoves, TransferInv, TransferTypes
  <1>2. TransferTypes' /\ ExchangeFits' /\ NoWorldLost'
    BY <1>1, WorldsRest
  <1>3. ASSUME Converts
        PROVE  /\ \A p \in Players : p \notin Named => asked[p] = {}
               /\ \A p \in Players : (p \in Named => asked[p] # {}) /\ (asked[p] = {TRUE} => p \in mapping)
               /\ \A f \in ready : f.name[1] = "pet" /\ asked[f.name[2]] = {TRUE} => f.name[3] = deal.layout.art
               /\ \A a \in texts : asked[a.player] = {TRUE} => a.art = deal.layout.art
    BY <1>1, <1>3 DEF TransferInv, MappingFits, AfterMoves
  <1>4. \A a \in AccountRows : a.player \in Players
    BY DEF AccountRows
  <1>5. CASE FurtherWorld
    <2> DEFINE added == Converted(FromSource("further"), {"further"}, mapping')
    <2>1. /\ mapping' \subseteq Players /\ asked' \in [Players -> SUBSET BOOLEAN]
          /\ texts' \in {texts, texts \cup added}
      BY <1>1, <1>5 DEF FurtherWorld, Asks, Mapped, Named
    <2>2. FromSource("further") \subseteq AccountRows /\ \A a \in FromSource("further") : a.where = "further"
      BY <1>1, FromSourceRows
    <2>3. /\ added \subseteq AccountRows
          /\ \A b \in added : b.player \in mapping' => b.art = deal.layout.art
      <3> HIDE DEF added
      <3>1. /\ added \subseteq AccountRows
            /\ \A b \in added : \E a \in FromSource("further") :
                 /\ b.player = a.player /\ b.where = a.where
                 /\ b.art = IF a.where \in {"further"} /\ a.player \in mapping' THEN deal.layout.art ELSE a.art
        BY <1>1, <2>2, ConversionKeeps DEF added
      <3> QED
        BY <2>2, <3>1
    <2> HIDE DEF added
    <2>4. texts' \subseteq AccountRows
      BY <1>1, <2>1, <2>3
    <2>5. ASSUME Converts
          PROVE  \A p \in Players :
                   /\ p \notin Named => asked'[p] = {}
                   /\ p \in Named => asked'[p] # {}
                   /\ asked'[p] = {TRUE} => p \in mapping' /\ asked[p] = {TRUE}
      <3> SUFFICES ASSUME NEW p \in Players
                   PROVE  /\ p \notin Named => asked'[p] = {}
                          /\ p \in Named => asked'[p] # {}
                          /\ asked'[p] = {TRUE} => p \in mapping' /\ asked[p] = {TRUE}
        OBVIOUS
      <3>1. asked[p] \subseteq BOOLEAN /\ (p \notin Named => asked[p] = {}) /\ (p \in Named => asked[p] # {})
            /\ (asked[p] = {TRUE} => p \in mapping)
        BY <1>1, <1>3, <2>5
      <3>2. CASE UNCHANGED <<mapping, asked>>
        BY <3>1, <3>2
      <3>3. CASE \E answers \in BOOLEAN : MayBeSilent(answers) /\ Asks(answers) /\ mapping' = Mapped(answers)
        <4>1. PICK answers \in BOOLEAN : Asks(answers) /\ mapping' = Mapped(answers)
          BY <3>3
        <4>2. asked'[p] = IF p \in Named THEN asked[p] \cup {answers} ELSE asked[p]
          BY <4>1 DEF Asks
        <4>3. CASE p \notin Named
          BY <3>1, <4>2, <4>3
        <4>4. CASE p \in Named
          <5>1. answers \in asked'[p] /\ asked[p] \subseteq asked'[p]
            BY <4>2, <4>4
          <5>2. ASSUME asked'[p] = {TRUE} PROVE p \in mapping' /\ asked[p] = {TRUE}
            <6>1. answers = TRUE
              BY <5>1, <5>2
            <6>2. asked[p] = {TRUE}
              BY <3>1, <4>4, <5>1, <5>2
            <6> QED
              BY <4>1, <4>4, <6>1, <6>2 DEF Mapped
          <5> QED
            BY <4>4, <5>1, <5>2
        <4> QED
          BY <4>3, <4>4
      <3> QED
        BY <1>5, <3>2, <3>3 DEF FurtherWorld
    <2>6. MappingFits'
      <3> SUFFICES ASSUME Converts PROVE MappingFits'
        BY <1>1 DEF MappingFits
      <3>1. \A a \in texts' : asked'[a.player] = {TRUE} => a.art = deal.layout.art
        <4>1. \A a \in texts : a.player \in Players
          BY <1>1, <1>4
        <4>2. \A a \in added : a.player \in Players
          BY <1>4, <2>3
        <4>3. \A a \in texts : asked'[a.player] = {TRUE} => a.art = deal.layout.art
          BY <1>3, <2>5, <4>1
        <4>4. \A a \in added : asked'[a.player] = {TRUE} => a.art = deal.layout.art
          BY <2>3, <2>5, <4>2
        <4> QED
          BY <2>1, <4>3, <4>4
      <3>2. \A f \in ready : f.name[1] = "pet" /\ asked'[f.name[2]] = {TRUE} => f.name[3] = deal.layout.art
        <4> SUFFICES ASSUME NEW f \in ready, f.name[1] = "pet", asked'[f.name[2]] = {TRUE} PROVE f.name[3] = deal.layout.art
          OBVIOUS
        <4>1. f.name \in PetNames
          BY FileMoved, NameFacts DEF TransferInv, TransferTypes
        <4>2. f.name[2] \in Players
          BY <4>1 DEF PetNames
        <4> QED
          BY <1>3, <2>5, <4>2
      <3> QED
        BY <1>1, <2>5, <3>1, <3>2 DEF MappingFits, Unexchanged, AfterMoves
    <2> QED
      BY <1>1, <1>2, <2>1, <2>4, <2>6 DEF TransferInv
  \* The other three convert with the mapping there is.
  <1>6. ASSUME UNCHANGED asked, UNCHANGED mapping \/ pc' = "done",
               NEW accounts \in SUBSET AccountRows, NEW places,
               texts' \in {texts, Converted(accounts, places, mapping)},
               \A a \in accounts : a \in texts \/ a.where \in places, mapping' \subseteq Players
        PROVE  TransferInv'
    <2>1. /\ Converted(accounts, places, mapping) \subseteq AccountRows
          /\ \A b \in Converted(accounts, places, mapping) : \E a \in accounts :
               /\ b.player = a.player /\ b.where = a.where
               /\ b.art = IF a.where \in places /\ a.player \in mapping THEN deal.layout.art ELSE a.art
      BY <1>1, ConversionKeeps
    <2>2. texts' \subseteq AccountRows
      BY <1>1, <1>6, <2>1
    <2>3. ASSUME Converts PROVE \A b \in texts' : asked[b.player] = {TRUE} => b.art = deal.layout.art
      <3> SUFFICES ASSUME NEW b \in texts', asked[b.player] = {TRUE} PROVE b.art = deal.layout.art
        OBVIOUS
      <3>1. CASE b \in texts
        BY <1>3, <2>3, <3>1
      <3>2. CASE b \in Converted(accounts, places, mapping)
        <4>1. PICK a \in accounts :
                /\ b.player = a.player
                /\ b.art = IF a.where \in places /\ a.player \in mapping THEN deal.layout.art ELSE a.art
          BY <2>1, <3>2
        <4>2. a.player \in mapping
          BY <1>3, <1>4, <2>3, <4>1
        <4> QED
          BY <1>3, <1>6, <2>3, <4>1, <4>2
      <3> QED
        BY <1>6, <3>1, <3>2
    <2>4. MappingFits'
      BY <1>1, <1>3, <1>6, <2>3 DEF MappingFits, Unexchanged, AfterMoves
    <2> QED
      BY <1>1, <1>2, <1>6, <2>2, <2>4 DEF TransferInv
  <1>7. CASE Texts
    <2>1. UNCHANGED <<asked, mapping>> /\ texts' \in {texts, Converted(texts, {"lists", "plugins"}, mapping)}
      BY <1>7 DEF Texts
    <2> QED
      BY <1>1, <1>6, <2>1
  <1>8. CASE Extensions
    <2> DEFINE accounts == texts \cup FromSource("plugins")
    <2>1. UNCHANGED <<asked, mapping>> /\ texts' \in {texts, Converted(accounts, {"lists", "plugins"}, mapping)}
      BY <1>8 DEF Extensions
    <2>2. accounts \in SUBSET AccountRows /\ \A a \in accounts : a \in texts \/ a.where \in {"lists", "plugins"}
      BY <1>1, FromSourceRows
    <2> HIDE DEF accounts
    <2> QED
      BY <1>1, <1>6, <2>1, <2>2
  <1>9. CASE Lists
    <2> DEFINE accounts == {a \in texts : a.where # "lists"} \cup FromSource("lists")
    <2>1. UNCHANGED asked /\ mapping' = {} /\ pc' = "done" /\ texts' \in {texts, Converted(accounts, {"lists"}, mapping)}
      BY <1>9 DEF Lists, Proceed
    <2>2. accounts \in SUBSET AccountRows /\ \A a \in accounts : a \in texts \/ a.where \in {"lists"}
      BY <1>1, FromSourceRows
    <2> HIDE DEF accounts
    <2> QED
      BY <1>6, <2>1, <2>2
  <1> QED
    BY <1>5, <1>7, <1>8, <1>9

LEMMA TransferStepInv == TransferInv /\ [TransferNext]_transferVars => TransferInv'
  <1> SUFFICES ASSUME TransferInv, [TransferNext]_transferVars PROVE TransferInv'
    OBVIOUS
  <1>1. CASE TransferDies
    <2>1. UNCHANGED <<deal, original, temp, ready, place, aside, moved, asked, texts, mishap>> /\ pc' = "dead" /\ mapping' = {}
      BY <1>1 DEF TransferDies, Proceed
    <2>2. TransferTypes' /\ ExchangeFits' /\ NoWorldLost'
      BY <2>1 DEF TransferInv, TransferTypes, ExchangeFits, NoWorldLost, Stations, Unexchanged, AfterMoves
    <2>3. MappingFits'
      BY <2>1, DealKeeps DEF TransferInv, MappingFits, Unexchanged, AfterMoves
    <2> QED
      BY <2>1, <2>2, <2>3 DEF TransferInv
  <1>2. CASE UNCHANGED transferVars
    <2> USE <1>2, DealKeeps DEF transferVars
    <2>1. TransferTypes'
      BY DEF TransferInv, TransferTypes
    <2>2. ExchangeFits'
      BY DEF TransferInv, ExchangeFits, Parted
    <2>3. MappingFits'
      BY DEF TransferInv, MappingFits
    <2>4. NoWorldLost'
      BY DEF TransferInv, NoWorldLost
    <2> QED
      BY <2>1, <2>2, <2>3, <2>4 DEF TransferInv
  <1> QED
    BY <1>1, <1>2, PrepareKeeps, AccountsKeep, ExchangeKeeps, BesidesKeep DEF TransferNext

THEOREM TransferTypesHold == TransferSpec => []TransferTypes
  <1>1. TransferInv => TransferTypes
    BY DEF TransferInv
  <1> QED
    BY <1>1, TransferInitInv, TransferStepInv, PTL DEF TransferSpec

\* The target's former world is there whole, or the new one, however the moves of the
\* exchange fail or are cut off (_tausche_welt, _stelle_welt_wieder_her).
THEOREM NoWorldIsEverLost == TransferSpec => []NoWorldLost
  <1>1. TransferInv => NoWorldLost
    BY DEF TransferInv
  <1> QED
    BY <1>1, TransferInitInv, TransferStepInv, PTL DEF TransferSpec

\* What came from the source calls a player by the target's account, wherever it lies
\* (_passe_identitaet_an and the four places that convert after it).
THEOREM IdentityAlwaysFollows == TransferSpec => []IdentityFollows
  <1>1. TransferInv => IdentityFollows
    <2> SUFFICES ASSUME TransferInv, pc = "done", Converts, NEW p \in Players, asked[p] = {TRUE}
                 PROVE  /\ \A f \in place : f.name[1] = "pet" /\ f.name[2] = p => f.name[3] = deal.layout.art
                        /\ \A a \in texts : a.player = p => a.art = deal.layout.art
      BY DEF IdentityFollows
    <2>1. place = ready
      BY DEF TransferInv, ExchangeFits, AfterMoves
    <2> QED
      BY <2>1 DEF TransferInv, MappingFits
  <1> QED
    BY <1>1, TransferInitInv, TransferStepInv, PTL DEF TransferSpec
-----------------------------------------------------------------------------
(* What the source's world consists of.                                     *)

DirsOf(d) == {DimPaths[d][1], DimPaths[d][2]}

LEMMA DirFacts ==
  /\ DirsOf("nether") = {"DIM-1", "the_nether"} /\ DirsOf("end") = {"DIM1", "the_end"}
  /\ \A d \in Shells : /\ DimPaths[d][1] # DimPaths[d][2] /\ DirsOf(d) \subseteq AllDimPaths
                       /\ \A new \in BOOLEAN : Path(new, d) \in DirsOf(d)
  /\ AllDimPaths \subseteq DirNames
  /\ AllDimPaths \cap {"root", "data", "players", "datapacks", "unknown", "overworld_data"} = {}
  <1>1. DimPaths["nether"] = <<"DIM-1", "the_nether">> /\ DimPaths["end"] = <<"DIM1", "the_end">>
    BY DEF DimPaths
  <1>2. \A d \in Shells : /\ DimPaths[d][1] # DimPaths[d][2] /\ DirsOf(d) \subseteq AllDimPaths
                          /\ \A new \in BOOLEAN : Path(new, d) \in DirsOf(d)
    BY <1>1 DEF Shells, DirsOf, AllDimPaths, Path
  <1> QED
    BY <1>1, <1>2 DEF DirsOf, AllDimPaths, DirNames

\* What the source holds of a player, and when it was written.
IsState(f, x, odd) ==
  \E k \in Kinds, p \in Players :
    \/ f.name = StateName(k, p, Other(x.art)) /\ f.of = "late"
    \/ f.name = StateName(k, p, x.art) /\ f.of = IF "late_inventory" \in odd /\ k = "inventory" THEN "latest" ELSE "early"

\* The kinds of files a source may have.
SourceFile(f, x, odd) ==
  \/ /\ f.top = "world" \/ (x.from_apart /\ f.top \in x.dims)
     /\ f.dir \in {"root", "datapacks", "unknown", "overworld_data"} /\ f.of = "real"
  \/ \E d \in x.dims : /\ f.top = Home(x.from_apart, d) /\ f.dir = Path(x.new, d)
                       /\ f.name[1] \in {"region", "pet"} /\ f.of = "real"
  \/ \E d \in x.dims : /\ f.top = Home(x.from_apart, d) /\ f.dir = (IF x.from_apart THEN "data" ELSE Path(x.new, d))
                       /\ f.name = <<"raids">> /\ f.of = "real"
  \/ f.top = "world" /\ f.dir = "players" /\ f.of \in {"late", "early", "latest"} /\ IsState(f, x, odd)
  \/ /\ x.from_apart /\ "inner_data" \in odd /\ f.top \in x.dims /\ f.dir = Path(x.new, f.top)
     /\ f.name = <<"raids">> /\ f.of = "blank"
  \/ /\ x.from_apart /\ f.top \in x.dims /\ f.of = "blank"
     /\ (f.top = "nether" /\ f.dir = "the_end") \/ (f.top = "end" /\ f.dir = "the_nether")
  \/ f.top = Home(~x.from_apart, "nether") /\ f.dir = Path(x.new, "nether") /\ f.of = "left"

LEMMA SourceMembers ==
  ASSUME NEW x \in Layouts, NEW odd, NEW f \in SourceFiles(x, odd)
  PROVE  SourceFile(f, x, odd)
  <1> DEFINE home(d) == Home(x.from_apart, d)
             path(d) == Path(x.new, d)
             tops == {"world"} \cup {home(d) : d \in x.dims}
             old == Other(x.art)
             Roots == {File(t, "root", n, "real") : t \in tops, n \in {<<"level">>, <<"uid">>}}
             Dims == {File(home(d), path(d), n, "real") : d \in x.dims, n \in {<<"region">>} \cup {PetName(p, old) : p \in Players}}
             Data == {File(home(d), IF x.from_apart THEN "data" ELSE path(d), <<"raids">>, "real") : d \in x.dims}
             States == {File("world", "players", StateName(k, p, old), "late") : k \in Kinds, p \in Players}
             Early == {File("world", "players", StateName(k, p, x.art), "early") : p \in Players,
                         k \in IF "late_inventory" \in odd THEN {"stats"} ELSE Kinds}
             Latest == IF "late_inventory" \in odd
                       THEN {File("world", "players", StateName("inventory", p, x.art), "latest") : p \in Players} ELSE {}
             Inner == IF "inner_data" \in odd /\ x.from_apart
                      THEN {File(d, path(d), <<"raids">>, "blank") : d \in x.dims} ELSE {}
             Fight == IF "end_in_nether" \in odd /\ x.from_apart /\ "nether" \in x.dims
                      THEN {File("nether", "the_end", <<"fight">>, "blank")} ELSE {}
             Region == IF "nether_in_end" \in odd /\ x.from_apart /\ "end" \in x.dims
                       THEN {File("end", "the_nether", <<"region">>, "blank")} ELSE {}
             Dragon == IF "dragon" \in odd /\ x.from_apart /\ "end" \in x.dims
                       THEN {File("end", "root", <<"dragon">>, "real")} ELSE {}
             Things == IF "unknown" \in odd /\ x.from_apart
                       THEN {File(d, "unknown", <<"thing">>, "real") : d \in x.dims} ELSE {}
             Datapacks == {File(t, "datapacks", <<"pack">>, "real") : t \in IF "packs" \in odd THEN tops ELSE {"world"}}
             Left == {File(Home(~x.from_apart, "nether"), path("nether"), <<"region">>, "left")}
             Rules == {File("world", "overworld_data", <<"rules">>, "real")}
  <1>1. f \in Roots \cup Dims \cup Data \cup States \cup Early \cup Latest \cup Inner \cup Fight \cup Region \cup Dragon
              \cup Things \cup Datapacks \cup Left \cup Rules
    BY DEF SourceFiles
  <1>2. /\ \A d \in x.dims : home(d) = IF x.from_apart THEN d ELSE "world"
        /\ x.dims \subseteq Shells /\ x.from_apart \in BOOLEAN
        /\ \A t \in tops : t = "world" \/ (x.from_apart /\ t \in x.dims)
    BY DealFacts DEF Home
  <1>3. CASE f \in Roots \cup Datapacks \cup Rules \cup Dragon \cup Things
    <2>1. (f.top = "world" \/ (x.from_apart /\ f.top \in x.dims)) /\ f.dir \in {"root", "datapacks", "unknown", "overworld_data"} /\ f.of = "real"
      <3> HIDE DEF tops
      <3>1. CASE f \in Roots
        BY <1>2, <3>1 DEF File
      <3>2. CASE f \in Datapacks
        BY <1>2, <3>2 DEF File, tops
      <3>3. CASE f \in Rules \cup Dragon \cup Things
        BY <3>3 DEF File
      <3> QED
        BY <1>3, <3>1, <3>2, <3>3
    <2> QED
      BY <2>1 DEF SourceFile
  <1>4. CASE f \in Dims
    <2>1. PICK d \in x.dims, n \in {<<"region">>} \cup {PetName(p, old) : p \in Players} : f = File(home(d), path(d), n, "real")
      BY <1>4
    <2>2. n[1] \in {"region", "pet"}
      BY DEF PetName
    <2>3. f.top = Home(x.from_apart, d) /\ f.dir = Path(x.new, d) /\ f.name = n /\ f.of = "real"
      BY <2>1 DEF File
    <2> QED
      BY <2>2, <2>3 DEF SourceFile
  <1>5. CASE f \in Data
    <2>1. PICK d \in x.dims : f = File(home(d), IF x.from_apart THEN "data" ELSE path(d), <<"raids">>, "real")
      BY <1>5
    <2>2. f.top = Home(x.from_apart, d) /\ f.dir = (IF x.from_apart THEN "data" ELSE Path(x.new, d)) /\ f.name = <<"raids">> /\ f.of = "real"
      BY <2>1 DEF File
    <2> QED
      BY <2>2 DEF SourceFile
  <1>6. CASE f \in States \cup Early \cup Latest
    <2>1. f.top = "world" /\ f.dir = "players" /\ f.of \in {"late", "early", "latest"}
      BY <1>6 DEF File
    <2>2. IsState(f, x, odd)
      <3>1. CASE f \in States
        BY <3>1 DEF File, IsState
      <3>2. CASE f \in Early
        <4>1. PICK p \in Players, k \in IF "late_inventory" \in odd THEN {"stats"} ELSE Kinds :
                f = File("world", "players", StateName(k, p, x.art), "early")
          BY <3>2
        <4>2. k \in Kinds /\ ("late_inventory" \in odd => k # "inventory")
          BY DEF Kinds
        <4>3. f.name = StateName(k, p, x.art) /\ f.of = "early"
          BY <4>1 DEF File
        <4> QED
          BY <4>2, <4>3 DEF IsState
      <3>3. CASE f \in Latest
        <4>1. PICK p \in Players : f = File("world", "players", StateName("inventory", p, x.art), "latest") /\ "late_inventory" \in odd
          BY <3>3
        <4>2. f.name = StateName("inventory", p, x.art) /\ f.of = "latest" /\ "inventory" \in Kinds
          BY <4>1 DEF File, Kinds
        <4> QED
          BY <4>1, <4>2 DEF IsState
      <3> QED
        BY <1>6, <3>1, <3>2, <3>3
    <2> QED
      BY <2>1, <2>2 DEF SourceFile
  <1>7. CASE f \in Inner
    <2>1. PICK d \in x.dims : f = File(d, path(d), <<"raids">>, "blank") /\ "inner_data" \in odd /\ x.from_apart
      BY <1>7
    <2>2. f.top = d /\ f.dir = Path(x.new, d) /\ f.name = <<"raids">> /\ f.of = "blank"
      BY <2>1 DEF File
    <2> QED
      BY <2>1, <2>2 DEF SourceFile
  <1>8. CASE f \in Fight \cup Region
    <2>1. x.from_apart /\ f.of = "blank" /\ f.top \in x.dims /\ ((f.top = "nether" /\ f.dir = "the_end") \/ (f.top = "end" /\ f.dir = "the_nether"))
      BY <1>8 DEF File
    <2> QED
      BY <2>1 DEF SourceFile
  <1>9. CASE f \in Left
    <2>1. f.top = Home(~x.from_apart, "nether") /\ f.dir = Path(x.new, "nether") /\ f.of = "left"
      BY <1>9 DEF File
    <2> QED
      BY <2>1 DEF SourceFile
  <1> QED
    BY <1>1, <1>3, <1>4, <1>5, <1>6, <1>7, <1>8, <1>9

Source == SourceFiles(deal.layout, deal.odd)
There == In(Source, "world", "players")

LEMMA DataNamesFacts == \A f : f \in DataNames => f[1] \in {"raids", "fight"}
  BY DEF DataNames

LEMMA SourceFacts ==
  ASSUME deal.layout \in Layouts
  PROVE  /\ \A f \in Source : /\ f.of # "former" /\ (f.dir = "players" => f.top = "world")
                              /\ f.of = "left" => /\ f.top = Home(~deal.layout.from_apart, "nether")
                                                  /\ f.dir = Path(deal.layout.new, "nether")
                              /\ f.top # "world" => f.top \in Shells /\ (deal.layout.from_apart \/ f.of = "left")
         /\ \A d \in deal.layout.dims : \A f \in Reads(Source, deal.layout.from_apart, d) :
              /\ f \in Source /\ f.of = "real" /\ f.top = Home(deal.layout.from_apart, d)
              /\ f.dir \in {Path(deal.layout.new, d), "data"} /\ f.name[1] \in {"region", "pet", "raids"}
              /\ f.dir = "data" => deal.layout.from_apart /\ f.name = <<"raids">>
              /\ ~deal.layout.from_apart => f.dir = Path(deal.layout.new, d)
              /\ f.name[1] = "raids" => f.name = <<"raids">>
              /\ f.name[1] = "raids" /\ deal.layout.from_apart => f.dir = "data"
         /\ deal.layout.from_apart => \A d \in deal.layout.dims, f \in Source : f.top = d /\ f.dir \in DirsOf(d) =>
              f.dir = Path(deal.layout.new, d) /\ (f.name \in DataNames => Has("inner_data"))
         /\ \A d \in deal.layout.dims : In(Source, Home(deal.layout.from_apart, d), Path(deal.layout.new, d)) # {}
  <1> DEFINE x == deal.layout
  <1>1. /\ x.dims \subseteq Shells /\ x.from_apart \in BOOLEAN /\ x.new \in BOOLEAN
        /\ \A d \in x.dims : d \in {"nether", "end"}
        /\ \A d \in Shells : Path(x.new, d) \in DirsOf(d) /\ Path(x.new, d) \in AllDimPaths
        /\ \A d \in Shells, b \in BOOLEAN : Home(b, d) = IF b THEN d ELSE "world"
        /\ \A d \in Shells, b \in BOOLEAN : Home(b, d) \in {"world", "nether", "end"}
    BY DealFacts, DirFacts DEF Home, Shells
  <1>2. \A f \in Source : SourceFile(f, x, deal.odd)
    BY SourceMembers DEF Source
  <1>3. /\ AllDimPaths \cap {"root", "data", "players", "datapacks", "unknown", "overworld_data"} = {}
        /\ DirsOf("nether") = {"DIM-1", "the_nether"} /\ DirsOf("end") = {"DIM1", "the_end"}
        /\ "nether" \in Shells /\ "world" \notin Shells
    BY DirFacts DEF Shells
  <1>4. ASSUME NEW f \in Source
        PROVE  /\ f.of # "former" /\ (f.dir = "players" => f.top = "world")
               /\ f.of = "left" => f.top = Home(~x.from_apart, "nether") /\ f.dir = Path(x.new, "nether")
               /\ f.top # "world" => f.top \in Shells /\ (x.from_apart \/ f.of = "left")
    <2>1. SourceFile(f, x, deal.odd)
      BY <1>2
    <2>2. \A t \in {"world", "nether", "end"} : t # "world" => t \in Shells
      BY DEF Shells
    <2>3. \A d \in Shells : Path(x.new, d) # "players" /\ d \in {"world", "nether", "end"}
      BY <1>1, <1>3 DEF Shells
    <2>4. \A d \in x.dims : d \in Shells
      BY <1>1
    <2> HIDE DEF x
    <2>5. CASE f.of \in {"late", "early", "latest"}
      BY <2>1, <2>5 DEF SourceFile
    <2>6. CASE f.of = "left"
      <3>1. f.top = Home(~x.from_apart, "nether") /\ f.dir = Path(x.new, "nether")
        BY <2>1, <2>6 DEF SourceFile
      <3>2. Home(~x.from_apart, "nether") \in {"world", "nether", "end"} /\ Path(x.new, "nether") # "players"
        BY <1>1, <1>3, <2>3
      <3> QED
        BY <2>2, <2>6, <3>1, <3>2
    <2>7. CASE f.of = "blank"
      BY <1>1, <1>3, <2>1, <2>2, <2>3, <2>4, <2>7 DEF SourceFile
    <2>8. CASE f.of = "real"
      <3>1. f.dir # "players" /\ (f.top # "world" => x.from_apart /\ f.top \in Shells)
        BY <1>1, <1>3, <2>1, <2>2, <2>3, <2>4, <2>8 DEF SourceFile
      <3> QED
        BY <2>8, <3>1
    <2>9. f.of \in {"late", "early", "latest", "left", "blank", "real"}
      BY <2>1 DEF SourceFile
    <2> QED
      BY <2>5, <2>6, <2>7, <2>8, <2>9 DEF x
  <1>5. ASSUME NEW d \in x.dims, NEW f \in Reads(Source, x.from_apart, d)
        PROVE  /\ f \in Source /\ f.of = "real" /\ f.top = Home(x.from_apart, d)
               /\ f.dir \in {Path(x.new, d), "data"} /\ f.name[1] \in {"region", "pet", "raids"}
               /\ f.dir = "data" => x.from_apart /\ f.name = <<"raids">>
               /\ ~x.from_apart => f.dir = Path(x.new, d)
               /\ f.name[1] = "raids" => f.name = <<"raids">>
               /\ f.name[1] = "raids" /\ x.from_apart => f.dir = "data"
    <2>1. /\ f \in Source /\ f.top = Home(x.from_apart, d)
          /\ \/ f.dir = Path(x.new, d) /\ (x.from_apart => f.name \notin DataNames)
             \/ f.dir = "data" /\ x.from_apart
      <3>1. d \in Shells /\ (x.from_apart => Home(x.from_apart, d) = d)
        BY <1>1
      <3>2. CASE f \in In(Source, Home(x.from_apart, d), Path(x.new, d)) /\ (x.from_apart => f.name \notin DataNames)
        BY <3>2 DEF In
      <3>3. CASE f \in In(Source, d, "data") /\ x.from_apart
        BY <3>1, <3>3 DEF In
      <3> QED
        BY <3>2, <3>3 DEF Reads
    <2>2. SourceFile(f, x, deal.odd) /\ <<"raids">> \in DataNames /\ <<"raids">>[1] = "raids"
      BY <1>2, <2>1 DEF DataNames
    <2>3. Path(x.new, d) # "data" /\ d \in Shells /\ d # "world" /\ d \in {"nether", "end"}
      BY <1>1, <1>3
    <2> HIDE DEF x
    <2>4. CASE f.dir = Path(x.new, d) /\ (x.from_apart => f.name \notin DataNames)
      <3>1. /\ \A e \in x.dims : Path(x.new, e) = Path(x.new, d) => e = d
            /\ Path(x.new, d) \notin {"root", "data", "players", "datapacks", "unknown", "overworld_data"}
        <4>1. \A e \in x.dims : Path(x.new, e) = Path(x.new, d) => e = d
          <5> SUFFICES ASSUME NEW e \in x.dims, e # d PROVE Path(x.new, e) # Path(x.new, d)
            OBVIOUS
          <5>1. e \in {"nether", "end"} /\ Path(x.new, e) \in DirsOf(e) /\ Path(x.new, d) \in DirsOf(d)
            BY <1>1
          <5> QED
            BY <1>3, <2>3, <5>1
        <4>2. Path(x.new, d) \in AllDimPaths
          BY <1>1, <2>3
        <4> QED
          BY <1>3, <4>1, <4>2
      <3>2. /\ x.from_apart => Home(x.from_apart, d) = d /\ Home(~x.from_apart, "nether") = "world"
            /\ ~x.from_apart => Home(x.from_apart, d) = "world" /\ Home(~x.from_apart, "nether") = "nether"
        BY DEF Home
      <3>3. f.of = "real"
        <4>1. CASE f.of = "blank"
          <5>1. /\ x.from_apart /\ f.top = d
                /\ \/ f.name = <<"raids">>
                   \/ d = "nether" /\ f.dir = "the_end"
                   \/ d = "end" /\ f.dir = "the_nether"
            BY <2>1, <2>2, <3>2, <4>1 DEF SourceFile
          <5>2. ~(d = "nether" /\ f.dir = "the_end") /\ ~(d = "end" /\ f.dir = "the_nether")
            <6>1. Path(x.new, d) \in DirsOf(d)
              BY <1>1, <2>3
            <6> QED
              BY <1>3, <2>4, <6>1
          <5> QED
            BY <2>2, <2>4, <5>1, <5>2
        <4>2. CASE f.of = "left"
          <5>1. f.top = Home(~x.from_apart, "nether")
            BY <2>2, <4>2 DEF SourceFile
          <5> QED
            BY <1>1, <2>1, <2>3, <3>2, <5>1
        <4>3. f.of \in {"late", "early", "latest"} => f.dir = "players"
          BY <2>2 DEF SourceFile
        <4>4. f.of \in {"late", "early", "latest", "left", "blank", "real"}
          BY <2>2 DEF SourceFile
        <4> QED
          BY <2>4, <3>1, <4>1, <4>2, <4>3, <4>4
      <3>4. f.name[1] \in {"region", "pet"} \/ (f.name = <<"raids">> /\ ~x.from_apart)
        BY <2>1, <2>2, <2>3, <2>4, <3>1, <3>3 DEF SourceFile
      <3> QED
        BY <2>1, <2>2, <2>3, <2>4, <3>1, <3>3, <3>4 DEF x
    <2>5. CASE f.dir = "data" /\ x.from_apart
      <3>1. f.name = <<"raids">> /\ f.of = "real"
        <4>1. \A e \in Shells : Path(x.new, e) # "data"
          BY <1>1, <1>3
        <4>2. x.dims \subseteq Shells /\ "nether" \in Shells
          BY <1>1, <1>3
        <4> QED
          BY <2>2, <2>5, <4>1, <4>2 DEF SourceFile
      <3> QED
        BY <2>1, <2>2, <2>3, <2>5, <3>1 DEF x
    <2> QED
      BY <2>1, <2>4, <2>5
  <1>6. ASSUME x.from_apart, NEW d \in x.dims, NEW f \in Source, f.top = d, f.dir \in DirsOf(d)
        PROVE  f.dir = Path(x.new, d) /\ (f.name \in DataNames => Has("inner_data"))
    <2>1. SourceFile(f, x, deal.odd) /\ <<"raids">> \in DataNames /\ (f.name \in DataNames => f.name[1] \in {"raids", "fight"})
      BY <1>2, DataNamesFacts DEF DataNames
    <2>2. f.dir \in AllDimPaths /\ d \in Shells /\ d # "world" /\ d \in {"nether", "end"}
      BY <1>1, <1>3, <1>6, DirFacts
    <2> HIDE DEF x
    <2> QED
      BY <1>1, <1>3, <1>6, <2>1, <2>2 DEF SourceFile, Has
  <1>7. ASSUME NEW d \in x.dims PROVE In(Source, Home(x.from_apart, d), Path(x.new, d)) # {}
    <2>1. File(Home(x.from_apart, d), Path(x.new, d), <<"region">>, "real") \in Source
      BY DEF Source, SourceFiles
    <2> QED
      BY <2>1 DEF In, File
  <1> QED
    BY <1>4, <1>5, <1>6, <1>7

\* The source is read in the shape it has.
LEMMA SourceIsRead ==
  ASSUME deal.layout \in Layouts, original = Source, deal.layout.dims # {}
  PROVE  /\ SourceApart = deal.layout.from_apart
         /\ \A f \in Source : f.of = "left" /\ deal.layout.from_apart =>
              TwoShapes(original) /\ f.top = "world" /\ f.dir \in AllDimPaths
  <1> DEFINE x == deal.layout
  <1>1. PICK d \in x.dims : TRUE
    OBVIOUS
  <1>2. /\ d \in Shells /\ x.from_apart \in BOOLEAN /\ Path(x.new, d) \in AllDimPaths /\ Path(x.new, "nether") \in AllDimPaths
        /\ Home(x.from_apart, d) = (IF x.from_apart THEN d ELSE "world")
        /\ (x.from_apart => Home(~x.from_apart, "nether") = "world")
    BY DealFacts, DirFacts DEF Home, Shells
  <1>3. PICK f \in Source : f.top = Home(x.from_apart, d) /\ f.dir = Path(x.new, d)
    BY SourceFacts DEF In
  <1>4. (x.from_apart => IsApart(original)) /\ (~x.from_apart => IsTogether(original))
    BY <1>2, <1>3 DEF IsApart, IsTogether
  <1>5. SourceApart = x.from_apart
    <2>1. IsApart(original) \in BOOLEAN /\ IsTogether(original) \in BOOLEAN
      BY DEF IsApart, IsTogether
    <2> QED
      BY <1>2, <1>4, <2>1 DEF SourceApart
  <1>6. ASSUME NEW g \in Source, g.of = "left", x.from_apart
        PROVE  TwoShapes(original) /\ g.top = "world" /\ g.dir \in AllDimPaths
    <2>1. g.top = "world" /\ g.dir = Path(x.new, "nether")
      BY <1>2, <1>6, SourceFacts
    <2>2. IsTogether(original)
      BY <1>2, <2>1 DEF IsTogether
    <2> QED
      BY <1>2, <1>4, <1>6, <2>1, <2>2 DEF TwoShapes
  <1> QED
    BY <1>5, <1>6

\* What the copy of a world with dimensions is.
CopiedWorld(files) ==
  /\ SourceApart = deal.layout.from_apart
  /\ \A f \in files : f.of \notin {"left", "former"} /\ (f.top # "world" => deal.layout.from_apart)
  /\ \A d \in deal.layout.dims :
       /\ Reads(Source, deal.layout.from_apart, d) \subseteq files
       /\ deal.layout.from_apart =>
            /\ In(files, d, Path(deal.layout.new, d)) # {}
            /\ \A f \in files : f.top = d /\ f.dir \in DirsOf(d) =>
                 f.dir = Path(deal.layout.new, d) /\ (f.name \in DataNames => Has("inner_data"))

\* Reading brings all of that.
LEMMA CopyBrings ==
  ASSUME deal.layout \in Layouts, original = Source, NEW chosen \in SUBSET ChosenFor,
         \A f \in ChosenFor : f \notin chosen => f.dir = "players"
  PROVE  /\ deal.layout.dims # {} => CopiedWorld(Merged(chosen))
         /\ \A f \in Merged(chosen) : f.dir = "players" => f.top = "world"
         /\ In(Merged(chosen), "world", "players") = {f \in chosen : f.dir = "players"}
  <1> DEFINE W == Merged(chosen)
             x == deal.layout
  <1>1. \A f \in chosen : /\ f \in Source /\ (f.top = "world" \/ SourceApart)
                          /\ ~(SourceApart /\ TwoShapes(original) /\ f.top = "world" /\ f.dir \in AllDimPaths)
    BY DEF ChosenFor
  <1>2. chosen \subseteq AnyFile
    <2>1. Source \subseteq AnyFile
      BY SourceIsAWorld DEF Source, AWorld
    <2> QED
      BY <1>1, <2>1
  <1>3. chosen \subseteq W /\ \A g \in W : g \in chosen \/ \E f \in chosen : g = [f EXCEPT !.top = "world"] /\ f.dir = "root"
    BY DEF Merged, In
  <1>4. ASSUME NEW g \in W, g \notin chosen
        PROVE  g.top = "world" /\ g.dir = "root" /\ \E f \in chosen : g.of = f.of
    BY <1>2, <1>3, <1>4 DEF AnyFile
  <1> HIDE DEF W
  <1>5. \A f \in chosen : f.dir = "players" => f.top = "world"
    BY <1>1, SourceFacts
  <1>6. \A f \in W : f.dir = "players" => f.top = "world"
    BY <1>4, <1>5
  <1>7. In(W, "world", "players") = {f \in chosen : f.dir = "players"}
    BY <1>3, <1>4, <1>5 DEF In
  <1>8. ASSUME x.dims # {} PROVE CopiedWorld(W)
    <2>1. /\ SourceApart = x.from_apart /\ x.from_apart \in BOOLEAN /\ x.dims \subseteq Shells /\ "world" \notin Shells
          /\ \A f \in Source : f.of = "left" /\ x.from_apart => TwoShapes(original) /\ f.top = "world" /\ f.dir \in AllDimPaths
          /\ Home(TRUE, "nether") = "nether"
      BY <1>8, SourceIsRead, DealFacts DEF Home, Shells
    <2>2. ASSUME NEW f \in chosen PROVE f.of \notin {"left", "former"} /\ (f.top # "world" => x.from_apart)
      <3>1. f.of # "former" /\ (f.of = "left" => f.top = Home(~x.from_apart, "nether"))
        BY <1>1, SourceFacts
      <3>2. CASE x.from_apart
        BY <1>1, <2>1, <3>1, <3>2
      <3>3. CASE ~x.from_apart
        <4>1. f.top = "world" /\ (f.of = "left" => f.top = "nether")
          BY <1>1, <2>1, <3>1, <3>3
        <4> QED
          BY <3>1, <4>1
      <3> QED
        BY <3>2, <3>3
    <2>3. \A f \in W : f.of \notin {"left", "former"} /\ (f.top # "world" => x.from_apart)
      BY <1>4, <2>2
    <2>4. ASSUME NEW d \in x.dims, NEW f \in Source, f.top = Home(x.from_apart, d), f.dir \in {Path(x.new, d), "data"}
          PROVE  f \in W
      <3>1. d \in Shells /\ Path(x.new, d) # "players"
        <4>1. d \in Shells /\ x.new \in BOOLEAN
          BY <2>1, DealFacts
        <4> QED
          BY <4>1, DirFacts
      <3>2. f \in ChosenFor
        <4>1. CASE x.from_apart
          <5>1. f.top = d /\ d # "world"
            BY <2>1, <2>4, <3>1, <4>1 DEF Home
          <5> QED
            BY <2>1, <2>4, <3>1, <4>1, <5>1 DEF ChosenFor
        <4>2. CASE ~x.from_apart
          <5>1. f.top = "world"
            BY <2>4, <4>2 DEF Home
          <5> QED
            BY <2>1, <2>4, <3>1, <4>2, <5>1 DEF ChosenFor
        <4> QED
          BY <4>1, <4>2
      <3> QED
        BY <1>3, <2>4, <3>1, <3>2
    <2>5. ASSUME NEW d \in x.dims
          PROVE  /\ Reads(Source, x.from_apart, d) \subseteq W
                 /\ x.from_apart =>
                      /\ In(W, d, Path(x.new, d)) # {}
                      /\ \A f \in W : f.top = d /\ f.dir \in DirsOf(d) =>
                           f.dir = Path(x.new, d) /\ (f.name \in DataNames => Has("inner_data"))
      <3>1. Reads(Source, x.from_apart, d) \subseteq W
        BY <2>4, SourceFacts
      <3>2. ASSUME x.from_apart PROVE In(W, d, Path(x.new, d)) # {}
        <4>1. PICK f \in Source : f.top = Home(x.from_apart, d) /\ f.dir = Path(x.new, d)
          BY SourceFacts DEF In
        <4>2. f \in W /\ f.top = d
          BY <2>4, <3>2, <4>1 DEF Home
        <4> QED
          BY <4>1, <4>2 DEF In
      <3>3. ASSUME x.from_apart, NEW f \in W, f.top = d, f.dir \in DirsOf(d)
            PROVE  f.dir = Path(x.new, d) /\ (f.name \in DataNames => Has("inner_data"))
        <4>1. d # "world"
          BY <2>1
        <4>2. f \in Source
          BY <1>1, <1>4, <3>3, <4>1
        <4> QED
          BY <3>3, <4>2, SourceFacts
      <3> QED
        BY <3>1, <3>2, <3>3
    <2> QED
      BY <2>1, <2>3, <2>5 DEF CopiedWorld
  <1> QED
    BY <1>6, <1>7, <1>8 DEF W
-----------------------------------------------------------------------------
(* What becomes of each file when a world changes its shape.                *)

AtTop(f, t) == [f EXCEPT !.top = t]
AtPlace(f, t, e) == [f EXCEPT !.top = t, !.dir = e]

LEMMA PlacedFacts ==
  ASSUME NEW f \in AnyFile
  PROVE  /\ f.dir \in DirNames /\ f.top \in TopNames
         /\ \A t \in TopNames :
              LET g == AtTop(f, t)
              IN  g \in AnyFile /\ g.top = t /\ g.dir = f.dir /\ g.of = f.of /\ g.name = f.name
         /\ \A t \in TopNames, e \in DirNames :
              LET g == AtPlace(f, t, e)
              IN  g \in AnyFile /\ g.top = t /\ g.dir = e /\ g.of = f.of /\ g.name = f.name
         /\ \A t \in TopNames : AtPlace(f, t, f.dir) = AtTop(f, t)
  BY DEF AnyFile, AtTop, AtPlace

\* A file that came from another folder.
Brought(g, files, dirs, t, u) == \E f \in files : f.top = t /\ f.dir \in dirs /\ g = AtTop(f, u)

LEMMA PathsMovedFacts ==
  ASSUME NEW files \in SUBSET AnyFile, NEW d \in Shells, NEW t \in TopNames, NEW u \in TopNames, t # u
  PROVE  LET R == PathsMoved(files, d, t, u)
         IN  /\ \A g \in files : g.dir \notin DirsOf(d) \/ g.top \notin {t, u} => g \in R
             /\ \A f \in files : f.top = t /\ f.dir \in DirsOf(d) => AtTop(f, u) \in R
             /\ \A g \in R : (g \in files /\ (g.top = t => g.dir \notin DirsOf(d))) \/ Brought(g, files, DirsOf(d), t, u)
             /\ \A e \in DirsOf(d), g \in R : g.top = u /\ g.dir = e /\ In(files, t, e) # {} => Brought(g, files, {e}, t, u)
  <1> DEFINE a == DimPaths[d][1]
             b == DimPaths[d][2]
             first == Moved(files, t, a, u, a)
             R == Moved(first, t, b, u, b)
  <1>1. a # b /\ DirsOf(d) = {a, b}
    BY DirFacts DEF DirsOf
  <1>2. PathsMoved(files, d, t, u) = R
    BY DEF PathsMoved
  <1> HIDE DEF a, b
  <1>3. ASSUME NEW some \in SUBSET AnyFile, NEW e \in {a, b}
        PROVE  /\ \A g \in some : g.dir # e \/ g.top \notin {t, u} => g \in Moved(some, t, e, u, e)
               /\ \A f \in some : f.top = t /\ f.dir = e => AtTop(f, u) \in Moved(some, t, e, u, e)
               /\ \A g \in Moved(some, t, e, u, e) :
                    \/ g \in some /\ (g.top = t => g.dir # e)
                    \/ \E f \in some : f.top = t /\ f.dir = e /\ g = AtTop(f, u)
               /\ \A g \in Moved(some, t, e, u, e) : g.top = u /\ g.dir = e /\ In(some, t, e) # {} =>
                    \E f \in some : f.top = t /\ f.dir = e /\ g = AtTop(f, u)
    <2>1. \A f \in In(some, t, e) : f \in some /\ f.top = t /\ f.dir = e /\ AtPlace(f, u, e) = AtTop(f, u)
      BY PlacedFacts DEF In
    <2>2. CASE In(some, t, e) = {}
      <3>1. Moved(some, t, e, u, e) = some
        BY <2>2 DEF Moved
      <3> QED
        BY <2>2, <3>1 DEF In
    <2>3. CASE In(some, t, e) # {}
      <3>1. Moved(some, t, e, u, e) = ((some \ In(some, t, e)) \ In(some, u, e)) \cup {AtTop(f, u) : f \in In(some, t, e)}
        <4>1. Moved(some, t, e, u, e) = ((some \ In(some, t, e)) \ In(some, u, e)) \cup {AtPlace(f, u, e) : f \in In(some, t, e)}
          BY <2>3 DEF Moved, AtPlace
        <4> QED
          BY <2>1, <4>1
      <3>2. \A f \in some : f.top = t /\ f.dir = e => f \in In(some, t, e)
        BY DEF In
      <3>3. \A f \in some : f \in In(some, t, e) \cup In(some, u, e) => f.dir = e /\ f.top \in {t, u}
        BY DEF In
      <3>4. \A f \in some : f.top = u /\ f.dir = e => f \in In(some, u, e)
        BY DEF In
      <3> QED
        BY <2>1, <3>1, <3>2, <3>3, <3>4
    <2> QED
      BY <2>2, <2>3
  <1>4. /\ \A g \in files : g.dir # a \/ g.top \notin {t, u} => g \in first
        /\ \A f \in files : f.top = t /\ f.dir = a => AtTop(f, u) \in first
        /\ \A g \in first : \/ g \in files /\ (g.top = t => g.dir # a)
                            \/ \E f \in files : f.top = t /\ f.dir = a /\ g = AtTop(f, u)
        /\ \A g \in first : g.top = u /\ g.dir = a /\ In(files, t, a) # {} =>
             \E f \in files : f.top = t /\ f.dir = a /\ g = AtTop(f, u)
    BY <1>3
  <1>5. \A f \in AnyFile : LET g == AtTop(f, u) IN g \in AnyFile /\ g.top = u /\ g.dir = f.dir /\ g.of = f.of /\ g.name = f.name
    BY PlacedFacts
  <1> HIDE DEF first
  <1>6. first \in SUBSET AnyFile
    BY <1>4, <1>5
  <1>7. /\ \A g \in first : g.dir # b \/ g.top \notin {t, u} => g \in R
        /\ \A f \in first : f.top = t /\ f.dir = b => AtTop(f, u) \in R
        /\ \A g \in R : \/ g \in first /\ (g.top = t => g.dir # b)
                        \/ \E f \in first : f.top = t /\ f.dir = b /\ g = AtTop(f, u)
        /\ \A g \in R : g.top = u /\ g.dir = b /\ In(first, t, b) # {} =>
             \E f \in first : f.top = t /\ f.dir = b /\ g = AtTop(f, u)
    BY <1>3, <1>6
  <1> HIDE DEF R
  <1>8. \A g \in files : g.dir \notin {a, b} \/ g.top \notin {t, u} => g \in R
    BY <1>4, <1>7
  <1>9. ASSUME NEW f \in files, f.top = t, f.dir \in {a, b} PROVE AtTop(f, u) \in R
    <2>1. CASE f.dir = a
      BY <1>1, <1>4, <1>5, <1>7, <1>9, <2>1
    <2>2. CASE f.dir = b
      BY <1>1, <1>4, <1>7, <1>9, <2>2
    <2> QED
      BY <1>9, <2>1, <2>2
  <1>10. ASSUME NEW g \in R
         PROVE  \/ g \in files /\ (g.top = t => g.dir \notin {a, b})
                \/ \E f \in files : f.top = t /\ f.dir \in {a, b} /\ g = AtTop(f, u)
    <2>1. CASE g \in first /\ (g.top = t => g.dir # b)
      BY <1>4, <2>1
    <2>2. ASSUME NEW f \in first, f.top = t, f.dir = b, g = AtTop(f, u)
          PROVE  \E h \in files : h.top = t /\ h.dir \in {a, b} /\ g = AtTop(h, u)
      BY <1>4, <1>5, <2>2
    <2> QED
      BY <1>7, <2>1, <2>2
  <1>11. ASSUME NEW e \in {a, b}, NEW g \in R, g.top = u, g.dir = e, In(files, t, e) # {}
         PROVE  \E f \in files : f.top = t /\ f.dir = e /\ g = AtTop(f, u)
    <2>1. CASE e = a
      <3>1. g \in first
        BY <1>1, <1>5, <1>6, <1>7, <1>11, <2>1
      <3> QED
        BY <1>4, <1>11, <2>1, <3>1
    <2>2. CASE e = b
      <3>1. In(first, t, b) # {}
        <4>1. PICK h \in files : h.top = t /\ h.dir = b
          BY <1>11, <2>2 DEF In
        <4> QED
          BY <1>1, <1>4, <4>1 DEF In
      <3>2. PICK f \in first : f.top = t /\ f.dir = b /\ g = AtTop(f, u)
        BY <1>7, <1>11, <2>2, <3>1
      <3>3. f \in files
        BY <1>4, <1>5, <3>2
      <3> QED
        BY <2>2, <3>2, <3>3
    <2> QED
      BY <2>1, <2>2
  <1>12. /\ \A g \in R : (g \in files /\ (g.top = t => g.dir \notin {a, b})) \/ Brought(g, files, {a, b}, t, u)
         /\ \A e \in {a, b}, g \in R : g.top = u /\ g.dir = e /\ In(files, t, e) # {} => Brought(g, files, {e}, t, u)
    BY <1>10, <1>11 DEF Brought
  <1> QED
    BY <1>1, <1>2, <1>8, <1>9, <1>12

LEMMA JoinedFacts ==
  ASSUME NEW files \in SUBSET AnyFile, NEW moving \in SUBSET files, NEW ndir
  PROVE  LET R == Joined(files, moving, ndir)
         IN  /\ \A g \in files : g.top = "world" /\ g \notin moving => g \in R
             /\ \A g \in files : g \notin moving => g \in R
             /\ \A f \in moving : \/ AtPlace(f, "world", ndir[f]) \in R
                                  \/ \E g \in files : g.top = "world" /\ g.dir = ndir[f] /\ g.name = f.name
             /\ \A g \in R : g \in files \/ \E f \in moving : g = AtPlace(f, "world", ndir[f])
  BY DEF Joined, AtPlace

\* A file that came from the shell.
FromShell(g, f, d) ==
  /\ f.top = d /\ f.dir # "root" /\ g.top = "world" /\ g.name = f.name /\ g.of = f.of
  /\ g.dir = f.dir \/ g.dir \in AllDimPaths

LEMMA IntoWorldFacts ==
  ASSUME NEW files \in SUBSET AnyFile, NEW d \in Shells
  PROVE  LET R == IntoWorld(files, d)
         IN  /\ R \subseteq AnyFile
             /\ \A g \in files : g.top # d /\ ~(g.top = "world" /\ g.dir \in DirsOf(d)) => g \in R
             /\ \A f \in files : f.top = d /\ f.dir \in DirsOf(d) => AtTop(f, "world") \in R
             /\ \A e \in DirsOf(d) : In(files, d, e) # {} /\ (\A f \in files : f.top = d /\ f.dir \in DirsOf(d) => f.dir = e) =>
                  \A f \in files : f.top = d /\ f.dir = "data" =>
                    \/ AtPlace(f, "world", e) \in R
                    \/ \E h \in files : h.top = d /\ h.dir = e /\ h.name = f.name
             /\ \A g \in R : g \in files \/ \E f \in files : FromShell(g, f, d)
  <1> DEFINE dims == PathsMoved(files, d, d, "world")
             last == DimPaths[d][CHOOSE i \in LastPath(files, d) : TRUE]
             moving == In(dims, d, "data")
             joined == Joined(dims, moving, [f \in moving |-> last])
             kept == {f \in joined : ~(f.top = d /\ f.dir = "data")}
             data == IF LastPath(files, d) = {} THEN dims ELSE kept
             rest == Remains(data, d)
             R == Joined(data, rest, [f \in rest |-> f.dir])
  <1>1. IntoWorld(files, d) = R
    BY DEF IntoWorld
  <1>2. /\ d \in TopNames /\ "world" \in TopNames /\ d # "world" /\ DirsOf(d) \subseteq AllDimPaths
        /\ DirsOf(d) = {DimPaths[d][1], DimPaths[d][2]} /\ AllDimPaths \subseteq DirNames
        /\ AllDimPaths \cap {"root", "data", "players", "datapacks", "unknown", "overworld_data"} = {}
    BY DimFacts, DirFacts DEF DirsOf
  <1>3. /\ \A g \in files : g.dir \notin DirsOf(d) \/ g.top \notin {d, "world"} => g \in dims
        /\ \A f \in files : f.top = d /\ f.dir \in DirsOf(d) => AtTop(f, "world") \in dims
        /\ \A g \in dims : \/ g \in files /\ (g.top = d => g.dir \notin DirsOf(d))
                           \/ \E f \in files : f.top = d /\ f.dir \in DirsOf(d) /\ g = AtTop(f, "world")
        /\ \A e \in DirsOf(d), g \in dims : g.top = "world" /\ g.dir = e /\ In(files, d, e) # {} =>
             \E f \in files : f.top = d /\ f.dir = e /\ g = AtTop(f, "world")
    <2>1. d \in TopNames /\ "world" \in TopNames /\ d # "world"
      BY <1>2
    <2>2. /\ \A g \in files : g.dir \notin DirsOf(d) \/ g.top \notin {d, "world"} => g \in dims
          /\ \A f \in files : f.top = d /\ f.dir \in DirsOf(d) => AtTop(f, "world") \in dims
          /\ \A g \in dims : (g \in files /\ (g.top = d => g.dir \notin DirsOf(d))) \/ Brought(g, files, DirsOf(d), d, "world")
          /\ \A e \in DirsOf(d), g \in dims :
               g.top = "world" /\ g.dir = e /\ In(files, d, e) # {} => Brought(g, files, {e}, d, "world")
      BY <2>1, PathsMovedFacts
    <2> HIDE DEF dims
    <2> QED
      BY <2>2 DEF Brought
  <1>4. \A f \in AnyFile : /\ LET g == AtTop(f, "world")
                              IN  g \in AnyFile /\ g.top = "world" /\ g.dir = f.dir /\ g.of = f.of /\ g.name = f.name
                           /\ \A e \in DirNames :
                                LET g == AtPlace(f, "world", e)
                                IN  g \in AnyFile /\ g.top = "world" /\ g.dir = e /\ g.of = f.of /\ g.name = f.name
                           /\ f.dir \in DirNames
    BY <1>2, PlacedFacts
  <1>5. LastPath(files, d) # {} => last \in DirsOf(d)
    BY <1>2 DEF LastPath
  <1> HIDE DEF dims, last
  <1>6. dims \in SUBSET AnyFile /\ moving \in SUBSET dims
    BY <1>3, <1>4 DEF In
  <1>7. ASSUME NEW g \in dims, ~(g.top = d /\ g.dir = "data") PROVE g \in data
    <2>1. g \in joined
      BY <1>6, <1>7, JoinedFacts DEF In
    <2> QED
      BY <1>7, <2>1
  <1>8. ASSUME NEW g \in data
        PROVE  g \in dims \/ \E f \in dims : /\ f.top = d /\ f.dir = "data" /\ LastPath(files, d) # {}
                                             /\ g = AtPlace(f, "world", last)
    <2>1. CASE LastPath(files, d) = {}
      BY <2>1
    <2>2. CASE LastPath(files, d) # {}
      <3>1. g \in joined
        BY <2>2
      <3>2. g \in dims \/ \E f \in moving : g = AtPlace(f, "world", [h \in moving |-> last][f])
        BY <1>6, <3>1, JoinedFacts
      <3> QED
        BY <2>2, <3>2 DEF In
    <2> QED
      BY <2>1, <2>2
  <1>9. ASSUME LastPath(files, d) # {}, NEW f \in dims, f.top = d, f.dir = "data"
        PROVE  \/ AtPlace(f, "world", last) \in data
               \/ \E g \in dims : g.top = "world" /\ g.dir = last /\ g.name = f.name
    <2>1. f \in moving
      BY <1>9 DEF In
    <2>2. \/ AtPlace(f, "world", [h \in moving |-> last][f]) \in joined
          \/ \E g \in dims : g.top = "world" /\ g.dir = [h \in moving |-> last][f] /\ g.name = f.name
      BY <1>6, <2>1, JoinedFacts
    <2>3. [h \in moving |-> last][f] = last
      BY <2>1
    <2>4. AtPlace(f, "world", last).top = "world"
      BY <1>2, <1>4, <1>5, <1>6, <1>9
    <2> HIDE DEF joined
    <2> QED
      BY <1>2, <1>9, <2>2, <2>3, <2>4
  <1> HIDE DEF data
  <1>10. data \in SUBSET AnyFile
    BY <1>2, <1>4, <1>5, <1>6, <1>8
  <1>11. rest \in SUBSET data /\ \A f \in rest : f.top = d /\ f.dir # "root" /\ [h \in rest |-> h.dir][f] = f.dir
    BY DEF Remains, Of
  <1> HIDE DEF rest
  <1>12. \A g \in data : g.top # d => g \in R
    BY <1>10, <1>11, JoinedFacts
  <1>13. \A g \in R : g \in data \/ \E f \in rest : g = AtPlace(f, "world", f.dir)
    BY <1>10, <1>11, JoinedFacts
  <1> HIDE DEF R
  <1>14. \A g \in files : g.top # d /\ ~(g.top = "world" /\ g.dir \in DirsOf(d)) => g \in R
    BY <1>2, <1>3, <1>7, <1>12
  <1>15. ASSUME NEW f \in files, f.top = d, f.dir \in DirsOf(d) PROVE AtTop(f, "world") \in R
    <2>1. AtTop(f, "world") \in dims /\ AtTop(f, "world").top = "world"
      BY <1>3, <1>4, <1>15
    <2> QED
      BY <1>2, <1>7, <1>12, <2>1
  <1>16. ASSUME NEW e \in DirsOf(d), In(files, d, e) # {}, \A f \in files : f.top = d /\ f.dir \in DirsOf(d) => f.dir = e,
                NEW f \in files, f.top = d, f.dir = "data"
         PROVE  \/ AtPlace(f, "world", e) \in R
                \/ \E h \in files : h.top = d /\ h.dir = e /\ h.name = f.name
    <2>1. LastPath(files, d) # {} /\ last = e
      <3>1. \A i \in 1..2 : In(files, d, DimPaths[d][i]) # {} <=> DimPaths[d][i] = e
        <4> SUFFICES ASSUME NEW i \in 1..2 PROVE In(files, d, DimPaths[d][i]) # {} <=> DimPaths[d][i] = e
          OBVIOUS
        <4>1. DimPaths[d][i] \in DirsOf(d)
          BY <1>2
        <4> QED
          BY <1>16, <4>1 DEF In
      <3>2. PICK i \in 1..2 : DimPaths[d][i] = e
        BY <1>2
      <3>3. DimPaths[d][1] # DimPaths[d][2]
        BY DirFacts
      <3>4. i \in LastPath(files, d)
        <4>1. \A j \in (i + 1)..2 : j \in 1..2 /\ j # i
          OBVIOUS
        <4>2. \A j \in (i + 1)..2 : DimPaths[d][j] # e
          <5>1. i = 1 \/ i = 2
            OBVIOUS
          <5> QED
            BY <3>2, <3>3, <4>1
        <4> QED
          BY <3>1, <3>2, <4>1, <4>2 DEF LastPath
      <3>5. (CHOOSE j \in LastPath(files, d) : TRUE) \in LastPath(files, d)
        BY <3>4
      <3> QED
        BY <3>1, <3>4, <3>5 DEF LastPath, last
    <2>2. f \in dims
      BY <1>2, <1>3, <1>16
    <2>3. CASE AtPlace(f, "world", e) \in data
      BY <1>2, <1>4, <1>12, <2>3
    <2>4. ASSUME NEW g \in dims, g.top = "world", g.dir = e, g.name = f.name
          PROVE  \E h \in files : h.top = d /\ h.dir = e /\ h.name = f.name
      BY <1>3, <1>4, <1>16, <2>4
    <2> QED
      BY <1>9, <1>16, <2>1, <2>2, <2>3, <2>4
  <1>17. ASSUME NEW g \in R PROVE g \in files \/ \E f \in files : FromShell(g, f, d)
    <2>1. ASSUME NEW h \in dims PROVE h \in files \/ \E f \in files : FromShell(h, f, d)
      BY <1>2, <1>3, <1>4 DEF FromShell
    <2>2. ASSUME NEW h \in data PROVE h \in files \/ \E f \in files : FromShell(h, f, d)
      <3>1. ASSUME NEW f \in dims, f.top = d, f.dir = "data", LastPath(files, d) # {}, h = AtPlace(f, "world", last)
            PROVE  \E k \in files : FromShell(h, k, d)
        <4>1. f \in files
          BY <1>2, <1>3, <1>4, <3>1
        <4>2. FromShell(h, f, d)
          <5>1. last \in AllDimPaths /\ last \in DirNames
            BY <1>2, <1>5, <3>1
          <5> QED
            BY <1>4, <3>1, <4>1, <5>1 DEF FromShell
        <4> QED
          BY <4>1, <4>2
      <3> QED
        BY <1>8, <2>1, <3>1
    <2>3. ASSUME NEW f \in rest, g = AtPlace(f, "world", f.dir)
          PROVE  \E k \in files : FromShell(g, k, d)
      <3>1. f \in data /\ f.top = d /\ f.dir # "root" /\ f \in AnyFile
        BY <1>10, <1>11
      <3>2. f \in files
        BY <1>2, <2>2, <3>1 DEF FromShell
      <3> QED
        BY <1>4, <2>3, <3>1, <3>2 DEF FromShell
    <2> QED
      BY <1>13, <2>2, <2>3
  <1>18. R \subseteq AnyFile
    BY <1>4, <1>10, <1>11, <1>13
  <1> QED
    BY <1>1, <1>14, <1>15, <1>16, <1>17, <1>18

\* What the shell holds then: a file of the dimension, its level.dat.
FromFolder(g, files, d) == g.top = d /\ g.dir # "players" /\ (g.of = "real" \/ \E f \in files : g.of = f.of)
InShell(f, d) == IF f.name \in DataNames THEN AtPlace(f, d, "data") ELSE AtTop(f, d)

LEMMA IntoShellFacts ==
  ASSUME NEW files \in SUBSET AnyFile, NEW d \in Shells, \A f \in files : f.top # d
  PROVE  LET R == IntoShell(files, d)
         IN  /\ R \subseteq AnyFile
             /\ \A g \in files : ~(g.top = "world" /\ g.dir \in DirsOf(d)) => g \in R
             /\ \A f \in files : f.top = "world" /\ f.dir \in DirsOf(d) =>
                  InShell(f, d) \in R
             /\ \A g \in R : g \in files \/ FromFolder(g, files, d)
  <1> DEFINE out == PathsMoved(files, d, "world", d)
             data == {f \in Of(out, d) : f.dir \in AllDimPaths /\ f.name \in DataNames}
             level == File(d, "root", <<"level">>, "real")
             R == IntoShell(files, d)
  <1>1. R = IF Of(out, d) = Of(files, d) THEN files
            ELSE (out \ data) \cup {[f EXCEPT !.dir = "data"] : f \in data} \cup {level}
    BY DEF IntoShell
  <1>2. /\ d \in TopNames /\ "world" \in TopNames /\ "world" # d /\ DirsOf(d) \subseteq AllDimPaths /\ AllDimPaths \subseteq DirNames
        /\ AllDimPaths \cap {"root", "data", "players", "datapacks", "unknown", "overworld_data"} = {} /\ "data" \in DirNames
    BY DimFacts, DirFacts DEF DirNames
  <1>3. /\ \A g \in files : g.dir \notin DirsOf(d) \/ g.top \notin {"world", d} => g \in out
        /\ \A f \in files : f.top = "world" /\ f.dir \in DirsOf(d) => AtTop(f, d) \in out
        /\ \A g \in out : \/ g \in files /\ (g.top = "world" => g.dir \notin DirsOf(d))
                          \/ \E f \in files : f.top = "world" /\ f.dir \in DirsOf(d) /\ g = AtTop(f, d)
    <2>1. d \in TopNames /\ "world" \in TopNames /\ "world" # d
      BY <1>2
    <2>2. /\ \A g \in files : g.dir \notin DirsOf(d) \/ g.top \notin {"world", d} => g \in out
          /\ \A f \in files : f.top = "world" /\ f.dir \in DirsOf(d) => AtTop(f, d) \in out
          /\ \A g \in out : (g \in files /\ (g.top = "world" => g.dir \notin DirsOf(d))) \/ Brought(g, files, DirsOf(d), "world", d)
      BY <2>1, PathsMovedFacts
    <2> HIDE DEF out
    <2> QED
      BY <2>2 DEF Brought
  <1>4. level \in AnyFile /\ level.top = d /\ level.dir = "root" /\ level.of = "real"
    <2>1. <<"level">> \in FileNames
      BY DEF FileNames, PlainNames
    <2> QED
      BY <1>2, <2>1 DEF File, AnyFile, DirNames, Contents
  <1>5. \A f \in AnyFile : f.top = d => [f EXCEPT !.dir = "data"] = AtPlace(f, d, "data")
    BY DEF AnyFile, AtPlace
  <1>6. \A f \in AnyFile : AtPlace(AtTop(f, d), d, "data") = AtPlace(f, d, "data")
    BY <1>2 DEF AnyFile, AtTop, AtPlace
  <1> HIDE DEF out, level, R
  <1>7. ASSUME NEW g \in out
        PROVE  g \in AnyFile /\ (g \in files \/ (g.top = d /\ g.dir \in DirsOf(d) /\ \E f \in files : g.of = f.of))
    <2>1. ASSUME NEW f \in files, f.top = "world", f.dir \in DirsOf(d), g = AtTop(f, d)
          PROVE  g \in AnyFile /\ g.top = d /\ g.dir \in DirsOf(d) /\ g.of = f.of
      <3>1. f \in AnyFile /\ d \in TopNames
        BY <1>2
      <3> QED
        BY <2>1, <3>1, PlacedFacts
    <2> QED
      BY <1>3, <2>1
  <1>8. CASE Of(out, d) = Of(files, d)
    <2>1. \A g \in out : g.top # d
      BY <1>8 DEF Of
    <2>2. \A f \in files : ~(f.top = "world" /\ f.dir \in DirsOf(d))
      BY <1>2, <1>3, <2>1, PlacedFacts
    <2> QED
      BY <1>1, <1>8, <2>2 DEF R
  <1>9. CASE Of(out, d) # Of(files, d)
    <2>1. \A f \in data : f \in out /\ f.top = d /\ f \in AnyFile /\ f.dir \in AllDimPaths /\ f.name \in DataNames
      BY <1>7 DEF Of
    <2>2. \A f \in out : f.top = d /\ f.dir \in AllDimPaths /\ f.name \in DataNames => f \in data
      BY DEF Of
    <2> HIDE DEF data
    <2>3. R = (out \ data) \cup {AtPlace(f, d, "data") : f \in data} \cup {level}
      <3>1. R = (out \ data) \cup {[f EXCEPT !.dir = "data"] : f \in data} \cup {level}
        BY <1>1, <1>9
      <3>2. {[f EXCEPT !.dir = "data"] : f \in data} = {AtPlace(f, d, "data") : f \in data}
        BY <1>5, <2>1
      <3> QED
        BY <3>1, <3>2
    <2>4. \A g \in files : ~(g.top = "world" /\ g.dir \in DirsOf(d)) => g \in R
      BY <1>2, <1>3, <2>1, <2>3
    <2>5. ASSUME NEW f \in files, f.top = "world", f.dir \in DirsOf(d)
          PROVE  IF f.name \in DataNames THEN AtPlace(f, d, "data") \in R ELSE AtTop(f, d) \in R
      <3>1. AtTop(f, d) \in out /\ AtTop(f, d).top = d /\ AtTop(f, d).dir = f.dir /\ AtTop(f, d).name = f.name
        BY <1>2, <1>3, <2>5, PlacedFacts
      <3>2. CASE f.name \in DataNames
        <4>1. AtTop(f, d) \in data
          BY <1>2, <2>2, <2>5, <3>1, <3>2
        <4>2. AtPlace(AtTop(f, d), d, "data") = AtPlace(f, d, "data")
          BY <1>6
        <4> QED
          BY <2>3, <3>2, <4>1, <4>2
      <3>3. CASE f.name \notin DataNames
        BY <2>1, <2>3, <3>1, <3>3
      <3> QED
        BY <3>2, <3>3
    <2>6. ASSUME NEW g \in R
          PROVE  /\ g \in AnyFile
                 /\ \/ g \in files
                    \/ g.top = d /\ g.dir # "players" /\ (g.of = "real" \/ \E f \in files : g.of = f.of)
      <3>1. CASE g \in out
        BY <1>2, <1>7, <3>1
      <3>2. ASSUME NEW f \in data, g = AtPlace(f, d, "data")
            PROVE  g \in AnyFile /\ g.top = d /\ g.dir = "data" /\ \E h \in files : g.of = h.of
        <4>1. \E h \in files : f.of = h.of
          BY <1>7, <2>1
        <4>2. f \in AnyFile /\ d \in TopNames /\ "data" \in DirNames
          BY <1>2, <2>1
        <4>3. g \in AnyFile /\ g.top = d /\ g.dir = "data" /\ g.of = f.of
          BY <3>2, <4>2, PlacedFacts
        <4> QED
          BY <4>1, <4>3
      <3> QED
        BY <1>4, <2>3, <3>1, <3>2
    <2> QED
      BY <2>4, <2>5, <2>6 DEF R, FromFolder, InShell
  <1> QED
    BY <1>8, <1>9

LEMMA PaperSortedFacts ==
  ASSUME NEW files \in SUBSET AnyFile
  PROVE  LET R == PaperSorted(files)
         IN  /\ R \subseteq AnyFile
             /\ \A g \in files : g.dir # "overworld_data" => g \in R
             /\ \A g \in R : g \in files \/ \E f \in files : g.of = f.of /\ g.dir = "data" /\ g.top = "world"
  <1> DEFINE some == In(files, "world", "overworld_data")
             J == Joined(files, some, [f \in some |-> "data"])
  <1>1. PaperSorted(files) = IF deal.layout.to_apart THEN files ELSE J
    BY DEF PaperSorted
  <1>2. some \in SUBSET files /\ \A f \in some : f.dir = "overworld_data" /\ [g \in some |-> "data"][f] = "data"
    BY DEF In
  <1> HIDE DEF some
  <1>3. /\ \A g \in files : g \notin some => g \in J
        /\ \A g \in J : g \in files \/ \E f \in some : g = AtPlace(f, "world", [h \in some |-> "data"][f])
    BY <1>2, JoinedFacts
  <1> HIDE DEF J
  <1>4. ASSUME NEW g \in J PROVE g \in AnyFile /\ (g \in files \/ \E f \in files : g.of = f.of /\ g.dir = "data" /\ g.top = "world")
    <2>1. ASSUME NEW f \in some, g = AtPlace(f, "world", "data")
          PROVE  g \in AnyFile /\ g.of = f.of /\ g.dir = "data" /\ g.top = "world" /\ f \in files
      <3>1. f \in AnyFile /\ "data" \in DirNames /\ "world" \in TopNames
        BY <1>2 DEF DirNames, TopNames
      <3> QED
        BY <1>2, <2>1, <3>1, PlacedFacts
    <2> QED
      BY <1>2, <1>3, <2>1
  <1> QED
    BY <1>1, <1>2, <1>3, <1>4
-----------------------------------------------------------------------------
(* Every dimension arrives.                                                 *)

LEMMA ReadsAre ==
  ASSUME NEW files, NEW d \in Shells, NEW apart \in BOOLEAN, NEW g
  PROVE  g \in Reads(files, apart, d) <=>
           /\ g \in files /\ g.top = Home(apart, d)
           /\ \/ g.dir = Path(deal.layout.new, d) /\ (apart => g.name \notin DataNames)
              \/ apart /\ g.dir = "data"
  <1>1. apart => Home(apart, d) = d
    BY DEF Home
  <1>2. g \in Reads(files, apart, d) <=>
          \/ g \in In(files, Home(apart, d), Path(deal.layout.new, d)) /\ (apart => g.name \notin DataNames)
          \/ apart /\ g \in In(files, d, "data")
    BY DEF Reads
  <1> QED
    BY <1>1, <1>2 DEF In

\* What stands for a file of the source.
StandsFor(g, f) == g.name[1] = f.name[1] /\ (g.of = f.of \/ (Has("inner_data") /\ f.name \in DataNames))

\* Every dimension the source's software reads is in these files, where the target's reads it.
Found(files) ==
  \A d \in deal.layout.dims : \A f \in Reads(Source, deal.layout.from_apart, d) :
    \E g \in Reads(files, deal.layout.to_apart, d) : StandsFor(g, f)
Clean(files) == \A f \in files : f.of \in {"left", "former"} => f.dir = "players"

\* Out of a shell, into the world.
LEMMA ShellArrives ==
  ASSUME deal.layout \in Layouts, deal.layout.from_apart, NEW d \in deal.layout.dims, NEW files \in SUBSET AnyFile,
         NEW f \in Reads(Source, deal.layout.from_apart, d), f \in files,
         In(files, d, Path(deal.layout.new, d)) # {},
         \A g \in files : g.top = d /\ g.dir \in DirsOf(d) =>
           g.dir = Path(deal.layout.new, d) /\ (g.name \in DataNames => Has("inner_data"))
  PROVE  \E g \in IntoWorld(files, d) : g.top = "world" /\ g.dir = Path(deal.layout.new, d) /\ StandsFor(g, f)
  <1> DEFINE P == Path(deal.layout.new, d)
             R == IntoWorld(files, d)
  <1>1. /\ d \in Shells /\ P \in DirsOf(d) /\ P \in DirNames /\ "world" \in TopNames /\ d # "world"
        /\ Home(deal.layout.from_apart, d) = d
    BY DealFacts, DirFacts, DimFacts DEF Home
  <1>2. /\ f.top = d /\ f.dir \in {P, "data"} /\ (f.dir = "data" => f.name = <<"raids">>)
    BY <1>1, SourceFacts
  <1>3. /\ \A g \in files : g.top = d /\ g.dir \in DirsOf(d) => AtTop(g, "world") \in R
        /\ \/ f.dir # "data" \/ AtPlace(f, "world", P) \in R
           \/ \E h \in files : h.top = d /\ h.dir = P /\ h.name = f.name
    BY <1>1, <1>2, IntoWorldFacts
  <1> HIDE DEF P, R
  <1>4. CASE f.dir = P
    <2>1. AtTop(f, "world") \in R /\ f \in AnyFile
      BY <1>1, <1>2, <1>3, <1>4
    <2>2. AtTop(f, "world").top = "world" /\ AtTop(f, "world").dir = P /\ StandsFor(AtTop(f, "world"), f)
      BY <1>1, <1>4, <2>1, PlacedFacts DEF StandsFor
    <2> QED
      BY <2>1, <2>2 DEF P, R
  <1>5. CASE f.dir = "data" /\ AtPlace(f, "world", P) \in R
    <2>1. f \in AnyFile
      OBVIOUS
    <2>2. AtPlace(f, "world", P).top = "world" /\ AtPlace(f, "world", P).dir = P /\ StandsFor(AtPlace(f, "world", P), f)
      BY <1>1, <2>1, PlacedFacts DEF StandsFor
    <2> QED
      BY <1>5, <2>2 DEF P, R
  <1>6. ASSUME f.dir = "data", NEW h \in files, h.top = d, h.dir = P, h.name = f.name
        PROVE  \E g \in R : g.top = "world" /\ g.dir = P /\ StandsFor(g, f)
    <2>1. AtTop(h, "world") \in R /\ h \in AnyFile
      BY <1>1, <1>3, <1>6
    <2>2. f.name \in DataNames /\ Has("inner_data")
      BY <1>1, <1>2, <1>6 DEF DataNames
    <2>3. AtTop(h, "world").top = "world" /\ AtTop(h, "world").dir = P /\ AtTop(h, "world").name = f.name
      BY <1>1, <1>6, <2>1, PlacedFacts
    <2> QED
      BY <2>1, <2>2, <2>3 DEF StandsFor
  <1> QED
    BY <1>2, <1>3, <1>4, <1>5, <1>6 DEF P, R

\* What a world is in its new shape: nothing of another structure, and every dimension in its place.
ShapedWorld(S) ==
  /\ S \subseteq AnyFile
  /\ \A g \in S : g.of \notin {"left", "former"}
  /\ \A d \in deal.layout.dims : \A f \in Reads(Source, deal.layout.from_apart, d) :
       \E g \in Reads(S, deal.layout.to_apart, d) : StandsFor(g, f)

LEMMA IntoOneFolder ==
  ASSUME deal.layout \in Layouts, NEW W \in SUBSET AnyFile, CopiedWorld(W),
         deal.layout.from_apart, ~deal.layout.to_apart
  PROVE  LET nether == IntoWorld(W, "nether")
             end == IntoWorld(nether \ Of(nether, "nether"), "end")
         IN  ShapedWorld(end \ Of(end, "end"))
  <1> DEFINE n == IntoWorld(W, "nether")
             w == n \ Of(n, "nether")
             e == IntoWorld(w, "end")
             S == e \ Of(e, "end")
             x == deal.layout
  <1>1. /\ "nether" \in Shells /\ "end" \in Shells /\ x.dims \subseteq Shells /\ x.new \in BOOLEAN
        /\ \A d \in Shells : d = "nether" \/ d = "end"
        /\ DirsOf("nether") \cap DirsOf("end") = {} /\ \A d \in Shells : Path(x.new, d) \in DirsOf(d) /\ Home(FALSE, d) = "world"
    BY DealFacts, DirFacts DEF Shells, Home
  <1>2. /\ n \subseteq AnyFile
        /\ \A g \in W : g.top # "nether" /\ ~(g.top = "world" /\ g.dir \in DirsOf("nether")) => g \in n
        /\ \A g \in n : g \in W \/ \E f \in W : FromShell(g, f, "nether")
    BY <1>1, IntoWorldFacts
  <1>3. w \subseteq n /\ \A g \in n : g.top # "nether" => g \in w
    BY DEF Of
  <1> HIDE DEF n, w
  <1>4. /\ e \subseteq AnyFile
        /\ \A g \in w : g.top # "end" /\ ~(g.top = "world" /\ g.dir \in DirsOf("end")) => g \in e
        /\ \A g \in e : g \in w \/ \E f \in w : FromShell(g, f, "end")
    BY <1>1, <1>2, <1>3, IntoWorldFacts
  <1>5. S \subseteq e /\ \A g \in e : g.top # "end" => g \in S
    BY DEF Of
  <1> HIDE DEF e, S
  <1>6. \A g \in S : g.of \notin {"left", "former"}
    <2>1. \A g \in W : g.of \notin {"left", "former"}
      BY DEF CopiedWorld
    <2>2. \A g \in n : g.of \notin {"left", "former"}
      BY <1>2, <2>1 DEF FromShell
    <2> QED
      BY <1>3, <1>4, <1>5, <2>2 DEF FromShell
  <1>7. \A d \in x.dims : /\ Reads(Source, x.from_apart, d) \subseteq W
                          /\ In(W, d, Path(x.new, d)) # {}
                          /\ \A f \in W : f.top = d /\ f.dir \in DirsOf(d) =>
                               f.dir = Path(x.new, d) /\ (f.name \in DataNames => Has("inner_data"))
    BY DEF CopiedWorld
  <1>8. ASSUME NEW d \in x.dims, NEW f \in Reads(Source, x.from_apart, d)
        PROVE  \E g \in S : g.top = "world" /\ g.dir = Path(x.new, d) /\ StandsFor(g, f)
    <2>1. CASE d = "nether"
      <3>1. PICK g \in n : g.top = "world" /\ g.dir = Path(x.new, d) /\ StandsFor(g, f)
        BY <1>7, <1>8, <2>1, ShellArrives DEF n
      <3>2. g \in w
        BY <1>3, <3>1
      <3>3. g.dir \notin DirsOf("end")
        BY <1>1, <2>1, <3>1
      <3> QED
        BY <1>4, <1>5, <3>1, <3>2, <3>3
    <2>2. CASE d = "end"
      <3>1. \A g \in w : g.top = "end" => g \in W
        BY <1>2, <1>3 DEF FromShell
      <3>2. \A g \in W : g.top = "end" => g \in w
        BY <1>2, <1>3
      <3>3. f \in W /\ f.top = "end"
        <4>1. f.top = Home(x.from_apart, d)
          BY <1>8, SourceFacts
        <4> QED
          BY <1>7, <1>8, <2>2, <4>1 DEF Home
      <3>4. f \in w /\ w \in SUBSET AnyFile
        BY <1>2, <1>3, <3>2, <3>3
      <3>5. In(w, d, Path(x.new, d)) # {}
        <4>1. PICK h \in W : h.top = d /\ h.dir = Path(x.new, d)
          BY <1>7, <1>8 DEF In
        <4> QED
          BY <2>2, <3>2, <4>1 DEF In
      <3>6. \A g \in w : g.top = d /\ g.dir \in DirsOf(d) =>
              g.dir = Path(x.new, d) /\ (g.name \in DataNames => Has("inner_data"))
        BY <1>7, <2>2, <3>1
      <3>7. PICK g \in IntoWorld(w, d) : g.top = "world" /\ g.dir = Path(x.new, d) /\ StandsFor(g, f)
        BY <1>8, <3>4, <3>5, <3>6, ShellArrives
      <3> QED
        BY <1>5, <2>2, <3>7 DEF e
    <2> QED
      BY <1>1, <2>1, <2>2
  <1>9. \A d \in x.dims : \A f \in Reads(Source, x.from_apart, d) : \E g \in Reads(S, x.to_apart, d) : StandsFor(g, f)
    <2> TAKE d \in x.dims
    <2> TAKE f \in Reads(Source, x.from_apart, d)
    <2>1. PICK g \in S : g.top = "world" /\ g.dir = Path(x.new, d) /\ StandsFor(g, f)
      BY <1>8
    <2>2. g \in Reads(S, x.to_apart, d)
      <3>1. d \in Shells /\ x.to_apart = FALSE
        BY <1>1, DealFacts
      <3>2. g \in Reads(S, FALSE, d)
        BY <1>1, <2>1, <3>1, ReadsAre
      <3> QED
        BY <3>1, <3>2
    <2> QED
      BY <2>1, <2>2
  <1>10. S \subseteq AnyFile
    BY <1>4, <1>5
  <1> QED
    BY <1>6, <1>9, <1>10 DEF ShapedWorld, S, e, w, n

LEMMA IntoShells ==
  ASSUME deal.layout \in Layouts, NEW W \in SUBSET AnyFile, CopiedWorld(W),
         ~deal.layout.from_apart, deal.layout.to_apart
  PROVE  ShapedWorld(IntoShell(IntoShell(W, "nether"), "end"))
  <1> DEFINE n == IntoShell(W, "nether")
             S == IntoShell(n, "end")
             x == deal.layout
  <1>1. /\ "nether" \in Shells /\ "end" \in Shells /\ x.dims \subseteq Shells /\ x.new \in BOOLEAN
        /\ \A d \in Shells : d = "nether" \/ d = "end"
        /\ DirsOf("nether") \cap DirsOf("end") = {}
        /\ \A d \in Shells : Path(x.new, d) \in DirsOf(d) /\ Home(TRUE, d) = d /\ Home(x.from_apart, d) = "world" /\ d # "world"
        /\ \A d \in Shells : d \in TopNames /\ Path(x.new, d) \in DirNames /\ "data" \in DirNames
    BY DealFacts, DirFacts, DimFacts DEF Shells, Home, DirNames
  <1>2. \A f \in W : f.top = "world" /\ f.of \notin {"left", "former"}
    BY DEF CopiedWorld
  <1>3. /\ n \subseteq AnyFile
        /\ \A g \in W : ~(g.top = "world" /\ g.dir \in DirsOf("nether")) => g \in n
        /\ \A f \in W : f.top = "world" /\ f.dir \in DirsOf("nether") =>
             InShell(f, "nether") \in n
        /\ \A g \in n : g \in W \/ FromFolder(g, W, "nether")
    BY <1>1, <1>2, IntoShellFacts
  <1> HIDE DEF n
  <1>4. \A g \in n : g.top # "end" /\ g.of \notin {"left", "former"}
    BY <1>1, <1>2, <1>3 DEF FromFolder
  <1>5. /\ S \subseteq AnyFile
        /\ \A g \in n : ~(g.top = "world" /\ g.dir \in DirsOf("end")) => g \in S
        /\ \A f \in n : f.top = "world" /\ f.dir \in DirsOf("end") =>
             InShell(f, "end") \in S
        /\ \A g \in S : g \in n \/ FromFolder(g, n, "end")
    BY <1>1, <1>3, <1>4, IntoShellFacts
  <1> HIDE DEF S
  <1>6. \A g \in S : g.of \notin {"left", "former"}
    BY <1>4, <1>5 DEF FromFolder
  <1>7. ASSUME NEW d \in x.dims, NEW f \in Reads(Source, x.from_apart, d)
        PROVE  \E g \in S : /\ g.top = d /\ StandsFor(g, f)
                            /\ \/ g.dir = Path(x.new, d) /\ g.name \notin DataNames
                               \/ g.dir = "data"
    <2>1. d \in Shells /\ f \in W /\ f.top = "world" /\ f.dir = Path(x.new, d) /\ f \in AnyFile
      <3>1. f \in W
        BY <1>7 DEF CopiedWorld
      <3>2. f.dir = Path(x.new, d)
        BY <1>7, SourceFacts
      <3> QED
        BY <1>1, <1>2, <3>1, <3>2
    <2> DEFINE g == InShell(f, d)
    <2>2. /\ g.top = d /\ StandsFor(g, f) /\ g.name = f.name
          /\ g.dir = IF f.name \in DataNames THEN "data" ELSE Path(x.new, d)
      <3>1. d \in TopNames /\ "data" \in DirNames
        BY <1>1, <2>1
      <3>2. CASE f.name \in DataNames
        <4>1. g = AtPlace(f, d, "data")
          BY <3>2 DEF InShell
        <4> HIDE DEF g
        <4> QED
          BY <2>1, <3>1, <3>2, <4>1, PlacedFacts DEF StandsFor
      <3>3. CASE f.name \notin DataNames
        <4>1. g = AtTop(f, d)
          BY <3>3 DEF InShell
        <4> HIDE DEF g
        <4> QED
          BY <2>1, <3>1, <3>3, <4>1, PlacedFacts DEF StandsFor
      <3> QED
        BY <3>2, <3>3
    <2>3. g \in S
      <3>1. CASE d = "nether"
        <4>1. g \in n
          BY <1>1, <1>3, <2>1, <3>1
        <4> QED
          BY <1>1, <1>5, <2>1, <2>2, <4>1
      <3>2. CASE d = "end"
        <4>1. f \in n
          BY <1>1, <1>3, <2>1, <3>2
        <4> QED
          BY <1>1, <1>5, <2>1, <3>2, <4>1
      <3> QED
        BY <1>1, <2>1, <3>1, <3>2
    <2> HIDE DEF g
    <2> QED
      BY <2>2, <2>3
  <1>8. \A d \in x.dims : \A f \in Reads(Source, x.from_apart, d) : \E g \in Reads(S, x.to_apart, d) : StandsFor(g, f)
    <2> TAKE d \in x.dims
    <2> TAKE f \in Reads(Source, x.from_apart, d)
    <2>1. PICK g \in S : /\ g.top = d /\ StandsFor(g, f)
                         /\ \/ g.dir = Path(x.new, d) /\ g.name \notin DataNames
                            \/ g.dir = "data"
      BY <1>7
    <2>2. g \in Reads(S, x.to_apart, d)
      <3>1. d \in Shells /\ x.to_apart = TRUE /\ Home(TRUE, d) = d
        BY <1>1, DealFacts
      <3>2. g \in Reads(S, TRUE, d)
        BY <2>1, <3>1, ReadsAre
      <3> QED
        BY <3>1, <3>2
    <2> QED
      BY <2>1, <2>2
  <1> QED
    BY <1>5, <1>6, <1>8 DEF ShapedWorld, S, n

\* Whatever the two structures are, a copy arrives in the one the target reads.
LEMMA CopyArrives ==
  ASSUME deal.layout \in Layouts, NEW W \in SUBSET AnyFile, CopiedWorld(W),
         NEW X, \A f \in X : f.dir = "players"
  PROVE  LET R == PaperSorted(Shaped(W).files) \cup X IN Found(R) /\ Clean(R)
  <1> DEFINE S == Shaped(W).files
             T == PaperSorted(S)
             x == deal.layout
  <1>1. x.from_apart \in BOOLEAN /\ x.to_apart \in BOOLEAN /\ x.dims \subseteq Shells /\ SourceApart = x.from_apart
    BY DealFacts DEF CopiedWorld
  <1>2. ShapedWorld(S)
    <2>1. CASE x.from_apart = x.to_apart
      <3>1. S = W
        BY <1>1, <2>1 DEF Shaped
      <3>2. \A d \in x.dims : \A f \in Reads(Source, x.from_apart, d) : f \in Reads(W, x.to_apart, d) /\ StandsFor(f, f)
        <4> TAKE d \in x.dims
        <4> TAKE f \in Reads(Source, x.from_apart, d)
        <4>1. f \in W /\ d \in Shells
          BY <1>1 DEF CopiedWorld
        <4>2. f \in Reads(W, x.from_apart, d)
          BY <1>1, <4>1, ReadsAre
        <4> QED
          BY <2>1, <4>2 DEF StandsFor
      <3>3. \A g \in W : g.of \notin {"left", "former"}
        BY DEF CopiedWorld
      <3> HIDE DEF S
      <3> QED
        BY <3>1, <3>2, <3>3 DEF ShapedWorld
    <2>2. CASE x.from_apart /\ ~x.to_apart
      <3> DEFINE nether == IntoWorld(W, "nether")
                 end == IntoWorld(nether \ Of(nether, "nether"), "end")
      <3>1. S = end \ Of(end, "end")
        BY <1>1, <2>2 DEF Shaped
      <3> HIDE DEF S
      <3> QED
        BY <2>2, <3>1, IntoOneFolder
    <2>3. CASE ~x.from_apart /\ x.to_apart
      <3>1. S = IntoShell(IntoShell(W, "nether"), "end")
        BY <1>1, <2>3 DEF Shaped
      <3> HIDE DEF S
      <3> QED
        BY <2>3, <3>1, IntoShells
    <2> QED
      BY <1>1, <2>1, <2>2, <2>3
  <1> HIDE DEF S
  <1>3. /\ \A g \in S : g.dir # "overworld_data" => g \in T
        /\ \A g \in T : g \in S \/ \E f \in S : g.of = f.of /\ g.dir = "data" /\ g.top = "world"
    BY <1>2, PaperSortedFacts DEF ShapedWorld
  <1> HIDE DEF T
  <1>4. \A g \in T \cup X : g.of \in {"left", "former"} => g.dir = "players"
    BY <1>2, <1>3 DEF ShapedWorld
  <1>5. \A d \in x.dims : \A f \in Reads(Source, x.from_apart, d) : \E g \in Reads(T \cup X, x.to_apart, d) : StandsFor(g, f)
    <2> TAKE d \in x.dims
    <2> TAKE f \in Reads(Source, x.from_apart, d)
    <2>1. PICK g \in Reads(S, x.to_apart, d) : StandsFor(g, f)
      BY <1>2 DEF ShapedWorld
    <2>2. d \in Shells /\ Path(x.new, d) # "overworld_data"
      <3>1. d \in Shells /\ x.new \in BOOLEAN
        BY <1>1, DealFacts
      <3> QED
        BY <3>1, DirFacts
    <2>3. g \in S /\ g.dir # "overworld_data"
      BY <1>1, <2>1, <2>2, ReadsAre
    <2>4. g \in T \cup X
      BY <1>3, <2>3
    <2>5. g \in Reads(T \cup X, x.to_apart, d)
      BY <1>1, <2>1, <2>2, <2>4, ReadsAre
    <2> QED
      BY <2>1, <2>5
  <1> QED
    BY <1>4, <1>5 DEF Found, Clean, T, S
-----------------------------------------------------------------------------
(* The players' states.                                                     *)

States(files) == In(files, "world", "players")
StatesAtTop(files) == \A f \in files : f.dir = "players" => f.top = "world"

LEMMA ThereFacts ==
  ASSUME deal.layout \in Layouts
  PROVE  /\ There \subseteq AnyFile
         /\ \A f \in There : f.name \in StateNames /\ f.name[1] = "state" /\ f.of \in {"late", "early", "latest"}
         /\ \A f, g \in There : f.name[2] = g.name[2] /\ f.name[3] = g.name[3] /\ f.name[4] = g.name[4] => f.of = g.of
  <1> DEFINE x == deal.layout
             when(k, a) == IF a # x.art THEN "late"
                           ELSE IF "late_inventory" \in deal.odd /\ k = "inventory" THEN "latest" ELSE "early"
  <1>1. x.art \in Arts /\ Other(x.art) \in Arts /\ Other(x.art) # x.art
    BY DealFacts DEF Arts, Other
  <1>2. There \subseteq AnyFile
    BY SourceIsAWorld DEF There, Source, AWorld, In
  <1>3. ASSUME NEW f \in There
        PROVE  f.name \in StateNames /\ f.name[1] = "state" /\ f.of = when(f.name[2], f.name[4])
    <2>1. SourceFile(f, x, deal.odd) /\ f.dir = "players"
      BY SourceMembers DEF There, Source, In
    <2>2. \A d \in x.dims \cup {"nether"} : Path(x.new, d) # "players"
      <3>1. \A d \in x.dims \cup {"nether"} : d \in Shells /\ x.new \in BOOLEAN
        BY DealFacts DEF Shells
      <3> QED
        BY <3>1, DirFacts
    <2>3. IsState(f, x, deal.odd)
      <3> HIDE DEF x
      <3> QED
        BY <2>1, <2>2 DEF SourceFile
    <2>4. PICK k \in Kinds, p \in Players :
            \/ f.name = StateName(k, p, Other(x.art)) /\ f.of = "late"
            \/ f.name = StateName(k, p, x.art) /\ f.of = IF "late_inventory" \in deal.odd /\ k = "inventory" THEN "latest" ELSE "early"
      BY <2>3 DEF IsState
    <2>5. \A a \in Arts : LET n == StateName(k, p, a) IN n \in StateNames /\ n[1] = "state" /\ n[2] = k /\ n[4] = a
      BY DEF StateName, StateNames
    <2> HIDE DEF x
    <2> QED
      BY <1>1, <2>4, <2>5
  <1>4. \A f \in There : f.of \in {"late", "early", "latest"}
    BY <1>3
  <1> HIDE DEF when
  <1> QED
    BY <1>2, <1>3, <1>4

\* A change of shape leaves the players alone.
LEMMA StatesStay ==
  ASSUME deal.layout \in Layouts, NEW W, AWorld(W), StatesAtTop(W)
  PROVE  LET R == PaperSorted(Shaped(W).files)
         IN  /\ R \subseteq AnyFile
             /\ \A g : g.dir = "players" => (g \in R <=> g \in W)
  <1> DEFINE Kept(A) == A \subseteq AnyFile /\ \A g : g.dir = "players" => (g \in A <=> g \in W)
             S == Shaped(W).files
  <1>1. "nether" \in Shells /\ "end" \in Shells /\ (\A d \in Shells : d # "world") /\ "players" \notin AllDimPaths
        /\ \A d \in Shells : "players" \notin DirsOf(d)
    BY DirFacts DEF Shells
  <1>2. Kept(W)
    BY DEF AWorld
  <1>3. ASSUME NEW A, Kept(A), NEW d \in Shells PROVE Kept(IntoWorld(A, d) \ Of(IntoWorld(A, d), d))
    <2> DEFINE R == IntoWorld(A, d)
    <2>1. /\ R \subseteq AnyFile
          /\ \A g \in A : g.top # d /\ ~(g.top = "world" /\ g.dir \in DirsOf(d)) => g \in R
          /\ \A g \in R : g \in A \/ \E f \in A : FromShell(g, f, d)
      BY <1>3, IntoWorldFacts
    <2> HIDE DEF R
    <2>2. \A g \in A : g.dir = "players" => g.top = "world"
      BY <1>3 DEF StatesAtTop
    <2>3. \A g \in R : g.dir = "players" => g \in A
      BY <1>1, <2>1, <2>2 DEF FromShell
    <2>4. \A g \in A : g.dir = "players" => g \in R /\ g \notin Of(R, d)
      BY <1>1, <2>1, <2>2 DEF Of
    <2> QED
      BY <1>3, <2>1, <2>3, <2>4 DEF R
  <1>4. ASSUME NEW A, Kept(A), NEW d \in Shells PROVE Kept(IntoShell(A, d))
    <2> DEFINE out == PathsMoved(A, d, "world", d)
               data == {f \in Of(out, d) : f.dir \in AllDimPaths /\ f.name \in DataNames}
               level == File(d, "root", <<"level">>, "real")
    <2>1. d \in TopNames /\ "world" \in TopNames /\ d # "world"
      BY <1>1, DimFacts
    <2>2. /\ \A g \in A : g.dir \notin DirsOf(d) \/ g.top \notin {"world", d} => g \in out
          /\ \A g \in out : (g \in A /\ (g.top = "world" => g.dir \notin DirsOf(d))) \/ Brought(g, A, DirsOf(d), "world", d)
      BY <1>4, <2>1, PathsMovedFacts
    <2>3. IntoShell(A, d) = IF Of(out, d) = Of(A, d) THEN A
                            ELSE (out \ data) \cup {[f EXCEPT !.dir = "data"] : f \in data} \cup {level}
      BY DEF IntoShell
    <2>4. data \subseteq out /\ \A f \in data : f.dir # "players"
      BY <1>1 DEF Of
    <2> HIDE DEF out, data
    <2>5. ASSUME NEW g \in out PROVE g \in AnyFile /\ (g.dir = "players" => g \in A)
      <3>1. ASSUME NEW f \in A, f.dir \in DirsOf(d), g = AtTop(f, d) PROVE g \in AnyFile /\ g.dir # "players"
        BY <1>1, <1>4, <2>1, <3>1, PlacedFacts
      <3> QED
        BY <1>4, <2>2, <3>1 DEF Brought
    <2>6. \A f \in data : [f EXCEPT !.dir = "data"] \in AnyFile /\ [f EXCEPT !.dir = "data"].dir = "data"
      <3>1. \A f \in data : f \in AnyFile /\ "data" \in DirNames
        BY <2>4, <2>5 DEF DirNames
      <3> QED
        BY <3>1 DEF AnyFile
    <2>7. level \in AnyFile /\ level.dir = "root"
      <3>1. <<"level">> \in FileNames
        BY DEF FileNames, PlainNames
      <3> QED
        BY <2>1, <3>1 DEF File, AnyFile, DirNames, Contents
    <2>8. \A g : g.dir = "players" => (g \in out <=> g \in A)
      BY <1>1, <2>2, <2>5
    <2> HIDE DEF level
    <2> QED
      BY <1>4, <2>3, <2>4, <2>5, <2>6, <2>7, <2>8
  <1>5. Kept(S)
    <2>1. CASE SourceApart = deal.layout.to_apart
      BY <1>2, <2>1 DEF Shaped
    <2>2. CASE SourceApart /\ ~deal.layout.to_apart
      <3> DEFINE nether == IntoWorld(W, "nether")
                 w == nether \ Of(nether, "nether")
                 end == IntoWorld(w, "end")
      <3>1. S = end \ Of(end, "end")
        BY <2>2 DEF Shaped
      <3>2. Kept(w)
        BY <1>1, <1>2, <1>3
      <3> HIDE DEF w, Kept, S
      <3> QED
        BY <1>1, <1>3, <3>1, <3>2
    <2>3. CASE ~SourceApart /\ deal.layout.to_apart
      <3>1. S = IntoShell(IntoShell(W, "nether"), "end")
        BY <2>3 DEF Shaped
      <3>2. Kept(IntoShell(W, "nether"))
        BY <1>1, <1>2, <1>4
      <3> HIDE DEF Kept, S
      <3> QED
        BY <1>1, <1>4, <3>1, <3>2
    <2>4. SourceApart \in BOOLEAN /\ deal.layout.to_apart \in BOOLEAN
      BY DealFacts DEF SourceApart, IsApart, IsTogether
    <2> QED
      BY <2>1, <2>2, <2>3, <2>4
  <1> HIDE DEF S
  <1>6. /\ PaperSorted(S) \subseteq AnyFile
        /\ \A g \in S : g.dir # "overworld_data" => g \in PaperSorted(S)
        /\ \A g \in PaperSorted(S) : g \in S \/ \E f \in S : g.of = f.of /\ g.dir = "data" /\ g.top = "world"
    BY <1>5, PaperSortedFacts
  <1>7. Kept(PaperSorted(S))
    BY <1>5, <1>6
  <1> QED
    BY <1>7 DEF S
-----------------------------------------------------------------------------
(* Under the target's accounts.                                             *)

Loses(files, f) ==
  \E g \in Twins(files, f) : IF f.name[4] = deal.layout.art THEN Later(g, f) ELSE ~Later(f, g)
Renewed(files, m, f) ==
  CASE f.dir = "players" /\ f.name[1] = "state" /\ f.name[3] \in m -> Renamed(files, f)
    [] f.name[1] = "pet" /\ f.name[2] \in m -> [f EXCEPT !.name[3] = deal.layout.art]
    [] OTHER -> f

LEMMA RenewedFacts ==
  ASSUME deal.layout.art \in Arts, NEW files, NEW m, NEW f \in AnyFile
  PROVE  LET g == Renewed(files, m, f)
         IN  /\ g.top = f.top /\ g.dir = f.dir /\ g.of = f.of
             /\ f.dir # "players" => g.name[1] = f.name[1] /\ (f.name[1] # "pet" => g.name = f.name)
             /\ f.name \in StateNames =>
                  /\ g.name \in StateNames /\ g.name[2] = f.name[2] /\ g.name[3] = f.name[3]
                  /\ f.dir = "players" /\ g.name[1] = "state" /\ g.name[3] \in m =>
                       f.name[1] = "state" /\ g.name[4] = deal.layout.art /\ ~Loses(files, f)
  <1> DEFINE art == deal.layout.art
             g == Renewed(files, m, f)
  <1>1. f.name \in FileNames
    BY FileMoved
  <1>2. \A n : LET h == [f EXCEPT !.name = n] IN h.top = f.top /\ h.dir = f.dir /\ h.of = f.of /\ h.name = n
    BY DEF AnyFile
  <1>3. \A n \in StateNames : /\ LET o == [n EXCEPT ![1] = "replaced"]
                                 IN  o \in StateNames /\ o[1] = "replaced" /\ o[2] = n[2] /\ o[3] = n[3]
                              /\ LET o == [n EXCEPT ![4] = art]
                                 IN  o \in StateNames /\ o[1] = n[1] /\ o[2] = n[2] /\ o[3] = n[3] /\ o[4] = art
    <2> SUFFICES ASSUME NEW n \in StateNames
                 PROVE  /\ LET o == [n EXCEPT ![1] = "replaced"]
                           IN  o \in StateNames /\ o[1] = "replaced" /\ o[2] = n[2] /\ o[3] = n[3]
                        /\ LET o == [n EXCEPT ![4] = art]
                           IN  o \in StateNames /\ o[1] = n[1] /\ o[2] = n[2] /\ o[3] = n[3] /\ o[4] = art
      OBVIOUS
    <2>1. PICK s \in {"state", "replaced"}, k \in Kinds, p \in Players, b \in Arts : n = <<s, k, p, b>>
      BY DEF StateNames
    <2>2. [n EXCEPT ![1] = "replaced"] = <<"replaced", k, p, b>> /\ [n EXCEPT ![4] = art] = <<s, k, p, art>>
      BY <2>1
    <2> QED
      BY <2>1, <2>2 DEF StateNames
  <1>4. CASE f.dir = "players" /\ f.name[1] = "state" /\ f.name[3] \in m
    <2>1. g = IF Loses(files, f) THEN [f EXCEPT !.name = [f.name EXCEPT ![1] = "replaced"]]
              ELSE [f EXCEPT !.name = [f.name EXCEPT ![4] = art]]
      BY <1>4 DEF Renewed, Renamed, Loses
    <2>2. f.name \in StateNames
      BY <1>1, <1>4, NameFacts
    <2> HIDE DEF g
    <2>3. CASE Loses(files, f)
      <3>1. g.name = [f.name EXCEPT ![1] = "replaced"] /\ g.top = f.top /\ g.dir = f.dir /\ g.of = f.of
        BY <1>2, <2>1, <2>3
      <3> QED
        BY <1>3, <1>4, <2>2, <3>1 DEF g
    <2>4. CASE ~Loses(files, f)
      <3>1. g.name = [f.name EXCEPT ![4] = art] /\ g.top = f.top /\ g.dir = f.dir /\ g.of = f.of
        BY <1>2, <2>1, <2>4
      <3> QED
        BY <1>3, <1>4, <2>2, <2>4, <3>1 DEF g
    <2> QED
      BY <2>3, <2>4
  <1>5. CASE ~(f.dir = "players" /\ f.name[1] = "state" /\ f.name[3] \in m) /\ f.name[1] = "pet" /\ f.name[2] \in m
    <2>1. g = [f EXCEPT !.name = [f.name EXCEPT ![3] = art]]
      BY <1>5 DEF Renewed
    <2> HIDE DEF g
    <2>2. g.name = [f.name EXCEPT ![3] = art] /\ g.top = f.top /\ g.dir = f.dir /\ g.of = f.of
      BY <1>2, <2>1
    <2>3. f.name \in PetNames /\ f.name \notin StateNames /\ g.name[1] = "pet"
      BY <1>1, <1>5, <2>2, NameFacts
    <2> QED
      BY <1>5, <2>2, <2>3 DEF g
  <1>6. CASE ~(f.dir = "players" /\ f.name[1] = "state" /\ f.name[3] \in m) /\ ~(f.name[1] = "pet" /\ f.name[2] \in m)
    <2>1. g = f
      BY <1>6 DEF Renewed
    <2> HIDE DEF g
    <2> QED
      BY <1>6, <2>1 DEF g
  <1> QED
    BY <1>4, <1>5, <1>6

\* Wherever a dimension is, it is after its pets have got another owner.
LEMMA RewrittenArrives ==
  ASSUME deal.layout \in Layouts, NEW files \in SUBSET AnyFile, NEW m
  PROVE  /\ Found(files) => Found(Rewritten(files, m))
         /\ Clean(files) => Clean(Rewritten(files, m))
  <1> DEFINE R == Rewritten(files, m)
             x == deal.layout
  <1>1. R = {Renewed(files, m, f) : f \in files}
    BY DEF Rewritten, Renewed
  <1>2. /\ x.art \in Arts /\ x.dims \subseteq Shells /\ x.to_apart \in BOOLEAN /\ x.new \in BOOLEAN
        /\ \A d \in Shells : Path(x.new, d) # "players"
    BY DealFacts, DirFacts
  <1> HIDE DEF R
  <1>3. ASSUME Clean(files), NEW g \in R, g.of \in {"left", "former"} PROVE g.dir = "players"
    <2>1. PICK f \in files : g = Renewed(files, m, f)
      BY <1>1
    <2>2. g.dir = f.dir /\ g.of = f.of
      BY <1>2, <2>1, RenewedFacts
    <2> QED
      BY <1>3, <2>2 DEF Clean
  <1>4. ASSUME Found(files), NEW d \in x.dims, NEW f \in Reads(Source, x.from_apart, d)
        PROVE  \E g \in Reads(R, x.to_apart, d) : StandsFor(g, f)
    <2>1. PICK g \in Reads(files, x.to_apart, d) : StandsFor(g, f)
      BY <1>4 DEF Found
    <2> DEFINE h == Renewed(files, m, g)
    <2>2. /\ g \in files /\ g.top = Home(x.to_apart, d) /\ d \in Shells
          /\ \/ g.dir = Path(x.new, d) /\ (x.to_apart => g.name \notin DataNames)
             \/ x.to_apart /\ g.dir = "data"
      BY <1>2, ReadsAre
    <2>3. g \in AnyFile /\ g.dir # "players"
      BY <1>2, <2>2
    <2>4. h.top = g.top /\ h.dir = g.dir /\ h.of = g.of /\ h.name[1] = g.name[1] /\ (g.name[1] # "pet" => h.name = g.name)
      BY <1>2, <2>3, RenewedFacts
    <2>5. h \in R
      BY <1>1, <2>2
    <2> HIDE DEF h
    <2>6. g.name \notin DataNames => h.name \notin DataNames
      BY <2>4, DataNamesFacts
    <2>7. h \in Reads(R, x.to_apart, d)
      BY <1>2, <2>2, <2>4, <2>5, <2>6, ReadsAre
    <2>8. StandsFor(h, f)
      BY <2>1, <2>4 DEF StandsFor
    <2> QED
      BY <2>7, <2>8
  <1> QED
    BY <1>3, <1>4 DEF Found, Clean, R

\* What was copied of the players: all of it, or without what was locked.
CopiedStates(files) ==
  deal.ticked.players =>
    \/ States(files) = There
    \/ mishap = "gap" /\ States(files) = {f \in There : f.name[2] # "stats"}

\* No state is lost, and a player who has another account finds the last one.
NoneLost(files) ==
  deal.ticked.players /\ mishap # "gap" =>
    \A f \in There : \E g \in States(files) : g.name[2] = f.name[2] /\ g.name[3] = f.name[3] /\ g.of = f.of
LastOnes(files, converted) ==
  \A f \in States(files) : f.name[1] = "state" /\ f.name[3] \in converted =>
    /\ f.name[4] = deal.layout.art
    /\ \A g \in There : g.name[2] = f.name[2] /\ g.name[3] = f.name[3] => ~Later(g, f)

LEMMA RewrittenStates ==
  ASSUME deal.layout \in Layouts, deal.ticked.players, NEW files \in SUBSET AnyFile, StatesAtTop(files), CopiedStates(files), NEW m
  PROVE  NoneLost(Rewritten(files, m)) /\ LastOnes(Rewritten(files, m), m)
  <1> DEFINE R == Rewritten(files, m)
             art == deal.layout.art
  <1>1. R = {Renewed(files, m, f) : f \in files}
    BY DEF Rewritten, Renewed
  <1>2. art \in Arts
    BY DealFacts
  <1> HIDE DEF R
  <1>3. ASSUME NEW f \in States(files)
        PROVE  /\ f \in There /\ f \in files /\ f \in AnyFile /\ f.name \in StateNames /\ f.name[1] = "state"
               /\ f.dir = "players" /\ f.top = "world"
    BY ThereFacts DEF CopiedStates, States, In
  <1>4. ASSUME NEW f \in States(files), NEW g, g = Renewed(files, m, f)
        PROVE  /\ g \in States(R) /\ g.of = f.of /\ g.name[2] = f.name[2] /\ g.name[3] = f.name[3]
               /\ g.name[1] = "state" /\ g.name[3] \in m => g.name[4] = art /\ ~Loses(files, f)
    <2>1. /\ g.top = f.top /\ g.dir = f.dir /\ g.of = f.of /\ g.name[2] = f.name[2] /\ g.name[3] = f.name[3]
          /\ g.name[1] = "state" /\ g.name[3] \in m => g.name[4] = art /\ ~Loses(files, f)
      BY <1>2, <1>3, <1>4, RenewedFacts
    <2>2. g \in R
      BY <1>1, <1>3, <1>4
    <2> QED
      BY <1>3, <2>1, <2>2 DEF States, In
  <1>5. ASSUME deal.ticked.players, mishap # "gap", NEW f \in There
        PROVE  \E g \in States(R) : g.name[2] = f.name[2] /\ g.name[3] = f.name[3] /\ g.of = f.of
    <2>1. f \in States(files)
      BY <1>5 DEF CopiedStates
    <2> QED
      BY <1>4, <2>1
  <1>6. ASSUME NEW h \in States(R), h.name[1] = "state", h.name[3] \in m
        PROVE  /\ h.name[4] = art
               /\ \A g \in There : g.name[2] = h.name[2] /\ g.name[3] = h.name[3] => ~Later(g, h)
    <2>1. PICK f \in files : h = Renewed(files, m, f)
      BY <1>1, <1>6 DEF States, In
    <2>2. f \in States(files)
      <3>1. f.top = h.top /\ f.dir = h.dir
        BY <1>2, <2>1, RenewedFacts
      <3> QED
        BY <1>6, <3>1 DEF States, In
    <2>3. h.of = f.of /\ h.name[2] = f.name[2] /\ h.name[3] = f.name[3] /\ h.name[4] = art /\ ~Loses(files, f)
      BY <1>4, <1>6, <2>1, <2>2
    <2>4. ASSUME NEW g \in There, g.name[2] = f.name[2], g.name[3] = f.name[3] PROVE ~Later(g, f)
      <3>1. f \in There
        BY <1>3, <2>2
      <3>2. g \in States(files)
        BY <2>2, <2>4 DEF CopiedStates
      <3>3. CASE g.name[4] = f.name[4]
        <4>1. g.of = f.of
          BY <2>4, <3>1, <3>3, ThereFacts
        <4> QED
          BY <4>1 DEF Later
      <3>4. CASE g.name[4] # f.name[4]
        <4>1. g \in Twins(files, f)
          BY <1>3, <2>4, <3>2, <3>4 DEF Twins
        <4>2. ~(IF f.name[4] = art THEN Later(g, f) ELSE ~Later(f, g))
          BY <2>3, <4>1 DEF Loses
        <4>3. Later(f, g) => ~Later(g, f)
          BY DEF Later
        <4> QED
          BY <4>2, <4>3
      <3> QED
        BY <3>3, <3>4
    <2>5. \A g : Later(g, h) <=> Later(g, f)
      BY <2>3 DEF Later
    <2> QED
      BY <2>3, <2>4, <2>5
  <1> QED
    BY <1>5, <1>6 DEF NoneLost, LastOnes, R
-----------------------------------------------------------------------------
(* What arrives, station by station.                                        *)

Arrives(files) == Found(files) /\ (deal.layout.dims # {} => Clean(files))
FormerStates == States(Former)
Exchanged == {"aside", "movein", "drop"} \cup AfterMoves
\* Who has been asked about has another account.
Told == {p \in Players : asked[p] = {TRUE}}
StatesFit(files) ==
  /\ NoneLost(files)
  /\ Converts => LastOnes(files, Told)
  /\ ~deal.ticked.players => States(files) = FormerStates

ArrivalInv ==
  /\ pc \in {"backup", "copy", "shape"} => original = Source
  /\ pc = "shape" => /\ StatesAtTop(temp) /\ CopiedStates(temp) /\ (~deal.ticked.players => States(temp) = {})
                     /\ deal.layout.dims # {} => CopiedWorld(temp)
  /\ pc = "accounts" => /\ StatesAtTop(temp) /\ CopiedStates(temp) /\ (~deal.ticked.players => States(temp) = FormerStates)
                        /\ Arrives(temp)
  /\ pc \in Exchanged => StatesFit(ready) /\ Arrives(ready)

LEMMA ArrivalStays ==
  ASSUME UNCHANGED deal
  PROVE  /\ UNCHANGED <<Source, There, FormerStates>>
         /\ (Found(ready)' <=> Found(ready')) /\ (Clean(ready)' <=> Clean(ready'))
         /\ (Found(temp)' <=> Found(temp')) /\ (Clean(temp)' <=> Clean(temp'))
         /\ (Arrives(ready)' <=> Arrives(ready')) /\ (Arrives(temp)' <=> Arrives(temp'))
  BY DEF Source, There, FormerStates, Former, States, Found, Clean, Arrives, StandsFor, Has, Reads

LEMMA CopiedArrives ==
  ASSUME TransferInv, ArrivalInv, Copy
  PROVE  ArrivalInv'
  <1>1. deal.layout \in Layouts /\ original = Source /\ UNCHANGED <<deal, original>> /\ deal.ticked.players \in BOOLEAN
    BY DealFacts DEF Copy, TransferInv, TransferTypes, ArrivalInv
  <1>2. ASSUME NEW chosen \in SUBSET ChosenFor, temp' = Merged(chosen), pc' = "shape",
               \/ chosen = ChosenFor
               \/ mishap' = "gap" /\ deal.ticked.players /\ chosen = {f \in ChosenFor : ~(f.dir = "players" /\ f.name[2] = "stats")}
        PROVE  ArrivalInv'
    <2>1. \A f \in ChosenFor : f \notin chosen => f.dir = "players"
      BY <1>2
    <2>2. /\ deal.layout.dims # {} => CopiedWorld(temp')
          /\ StatesAtTop(temp')
          /\ States(temp') = {f \in chosen : f.dir = "players"}
      BY <1>1, <1>2, <2>1, CopyBrings DEF StatesAtTop, States
    <2>3. {f \in ChosenFor : f.dir = "players"} = IF deal.ticked.players THEN There ELSE {}
      <3>1. \A f \in Source : f.dir = "players" => f.top = "world"
        BY <1>1, SourceFacts
      <3>2. \A f \in Source : f.dir = "players" => f.dir \notin AllDimPaths
        BY DirFacts
      <3> QED
        BY <1>1, <3>1, <3>2 DEF ChosenFor, There, In
    <2>4. ~deal.ticked.players => States(temp') = {}
      BY <1>2, <2>2, <2>3
    <2>5. deal.ticked.players => \/ States(temp') = There
                                 \/ mishap' = "gap" /\ States(temp') = {f \in There : f.name[2] # "stats"}
      <3>1. CASE chosen = ChosenFor
        BY <2>2, <2>3, <3>1
      <3>2. CASE mishap' = "gap" /\ chosen = {f \in ChosenFor : ~(f.dir = "players" /\ f.name[2] = "stats")}
        <4>1. States(temp') = {f \in {g \in ChosenFor : g.dir = "players"} : f.name[2] # "stats"}
          BY <2>2, <3>2
        <4> QED
          BY <2>3, <3>2, <4>1
      <3> QED
        BY <1>2, <3>1, <3>2
    <2>6. (deal.layout.dims # {} => CopiedWorld(temp))' /\ StatesAtTop(temp)'
      BY <1>1, <2>2 DEF CopiedWorld, Reads, SourceApart, Source, Has, StatesAtTop
    <2>7. CopiedStates(temp)' /\ (~deal.ticked.players => States(temp) = {})'
      BY <1>1, <2>4, <2>5 DEF CopiedStates, There, Source, States
    <2>8. (original = Source)'
      BY <1>1 DEF Source
    <2> QED
      BY <1>2, <2>6, <2>7, <2>8 DEF ArrivalInv, Exchanged, AfterMoves
  <1>3. CASE temp' = Merged(ChosenFor) /\ Proceed("shape") /\ UNCHANGED mishap
    BY <1>2, <1>3 DEF Proceed
  <1>4. CASE /\ deal.ticked.players /\ Befalls("gap") /\ Proceed("shape")
             /\ temp' = Merged({f \in ChosenFor : ~(f.dir = "players" /\ f.name[2] = "stats")})
    <2> DEFINE some == {f \in ChosenFor : ~(f.dir = "players" /\ f.name[2] = "stats")}
    <2>1. some \in SUBSET ChosenFor /\ temp' = Merged(some) /\ pc' = "shape" /\ mishap' = "gap"
      BY <1>4 DEF Proceed, Befalls
    <2> QED
      BY <1>2, <1>4, <2>1
  <1>5. CASE GivesUp
    BY <1>5 DEF GivesUp, Proceed, ArrivalInv, Exchanged, AfterMoves
  <1>6. \/ temp' = Merged(ChosenFor) /\ Proceed("shape") /\ UNCHANGED mishap
        \/ /\ deal.ticked.players /\ Befalls("gap") /\ Proceed("shape")
           /\ temp' = Merged({f \in ChosenFor : ~(f.dir = "players" /\ f.name[2] = "stats")})
        \/ GivesUp
    BY DEF Copy
  <1> QED
    BY <1>3, <1>4, <1>5, <1>6

LEMMA ShapedArrives ==
  ASSUME TransferInv, ArrivalInv, Shape
  PROVE  ArrivalInv'
  <1> DEFINE X == IF deal.ticked.players THEN {} ELSE In(place, "world", "players")
             S == PaperSorted(Shaped(temp).files)
  <1>1. /\ deal.layout \in Layouts /\ AWorld(temp) /\ UNCHANGED <<deal, original, mishap>>
        /\ original = Source /\ StatesAtTop(temp) /\ CopiedStates(temp) /\ place = Former
        /\ ~deal.ticked.players => States(temp) = {}
        /\ deal.layout.dims # {} => CopiedWorld(temp)
    BY DEF Shape, TransferInv, TransferTypes, ExchangeFits, Unexchanged, ArrivalInv, AWorld
  <1>2. CASE pc' = "refused"
    BY <1>2 DEF ArrivalInv, Exchanged, AfterMoves
  <1>3. CASE pc' = "accounts" /\ temp' = S \cup X
    <2>1. \A f \in X : f.dir = "players" /\ f.top = "world"
      BY DEF In
    <2>2. S \subseteq AnyFile /\ \A g : g.dir = "players" => (g \in S <=> g \in temp)
      BY <1>1, StatesStay
    <2>3. Arrives(temp')
      <3>1. CASE deal.layout.dims = {}
        BY <3>1 DEF Arrives, Found
      <3>2. CASE deal.layout.dims # {}
        <4>1. temp \in SUBSET AnyFile /\ CopiedWorld(temp)
          BY <1>1, <3>2 DEF AWorld
        <4>2. Found(S \cup X) /\ Clean(S \cup X)
          <5> HIDE DEF X
          <5> QED
            BY <1>1, <2>1, <4>1, CopyArrives
        <4> QED
          BY <1>3, <4>2 DEF Arrives
      <3> QED
        BY <3>1, <3>2
    <2> HIDE DEF S
    <2>4. StatesAtTop(temp')
      BY <1>1, <1>3, <2>1, <2>2 DEF StatesAtTop
    <2>5. States(S) = States(temp)
      BY <2>2 DEF States, In
    <2>6. CASE deal.ticked.players
      <3>1. States(temp') = States(temp)
        BY <1>3, <2>5, <2>6
      <3>2. CopiedStates(temp)'
        BY <1>1, <3>1 DEF CopiedStates, There, Source, States
      <3> QED
        BY <1>1, <1>3, <2>3, <2>4, <2>6, <3>2, ArrivalStays DEF ArrivalInv, StatesAtTop, Exchanged, AfterMoves
    <2>7. CASE ~deal.ticked.players
      <3>1. X = FormerStates
        BY <1>1, <2>7 DEF FormerStates, States
      <3>2. States(temp') = FormerStates
        BY <1>1, <1>3, <2>1, <2>5, <2>7, <3>1 DEF States, In
      <3>3. States(temp)' = FormerStates'
        BY <1>1, <3>2, ArrivalStays DEF States
      <3>4. CopiedStates(temp)'
        BY <1>1, <2>7 DEF CopiedStates
      <3> QED
        BY <1>1, <1>3, <2>3, <2>4, <3>3, <3>4, ArrivalStays DEF ArrivalInv, StatesAtTop, Exchanged, AfterMoves
    <2> QED
      BY <2>6, <2>7
  <1> QED
    BY <1>2, <1>3 DEF Shape, Proceed

LEMMA ConvertedArrives ==
  ASSUME TransferInv, ArrivalInv, Accounts
  PROVE  ArrivalInv'
  <1>1. /\ deal.layout \in Layouts /\ temp \in SUBSET AnyFile /\ UNCHANGED <<deal, original, mishap>>
        /\ StatesAtTop(temp) /\ CopiedStates(temp) /\ (~deal.ticked.players => States(temp) = FormerStates)
        /\ Arrives(temp) /\ ready' = temp' /\ pc' = "aside"
    BY DEF Accounts, Proceed, TransferInv, TransferTypes, ArrivalInv
  <1>2. ASSUME StatesFit(ready)', Arrives(ready') PROVE ArrivalInv'
    BY <1>1, <1>2, ArrivalStays DEF ArrivalInv
  <1>3. CASE Converts
    <2>1. PICK answers \in BOOLEAN : /\ Asks(answers) /\ temp' = Rewritten(temp, Mapped(answers))
      BY <1>3 DEF Accounts
    <2> DEFINE m == Mapped(answers)
    <2>2. deal.ticked.players
      BY <1>3 DEF Converts
    <2>3. Arrives(ready')
      BY <1>1, <2>1, RewrittenArrives DEF Arrives
    <2>4. NoneLost(ready') /\ LastOnes(ready', m)
      BY <1>1, <2>1, <2>2, RewrittenStates
    <2>5. \A p \in Told' : p \in m
      <3> SUFFICES ASSUME NEW p \in Players, asked'[p] = {TRUE} PROVE p \in m
        BY DEF Told
      <3>1. asked \in [Players -> SUBSET BOOLEAN] /\ asked[p] = {}
        BY <1>3 DEF Accounts, TransferInv, MappingFits, Unexchanged
      <3>2. asked'[p] = IF p \in Named THEN asked[p] \cup {answers} ELSE asked[p]
        BY <2>1 DEF Asks
      <3> QED
        BY <3>1, <3>2 DEF Mapped
    <2>6. NoneLost(ready)'
      BY <1>1, <2>4 DEF NoneLost, There, Source, States
    <2>7. LastOnes(ready, Told)'
      BY <1>1, <2>4, <2>5 DEF LastOnes, There, Source, States, Later
    <2>8. StatesFit(ready)'
      BY <1>1, <2>2, <2>6, <2>7 DEF StatesFit
    <2> QED
      BY <1>2, <2>3, <2>8
  <1>4. CASE ~Converts
    <2>1. ready' = temp
      BY <1>1, <1>4 DEF Accounts
    <2>2. NoneLost(temp)
      BY <1>1 DEF NoneLost, CopiedStates
    <2>3. NoneLost(ready)'
      BY <1>1, <2>1, <2>2 DEF NoneLost, There, Source, States
    <2>4. ~Converts'
      BY <1>1, <1>4, DealKeeps
    <2>5. (~deal.ticked.players => States(ready) = FormerStates)'
      BY <1>1, <2>1, ArrivalStays DEF States
    <2>6. StatesFit(ready)'
      BY <2>3, <2>4, <2>5 DEF StatesFit
    <2> QED
      BY <1>1, <1>2, <2>1, <2>6
  <1> QED
    BY <1>3, <1>4

\* What arrived stays: what went wrong stays told, and nobody is asked about less.
LEMMA LaterSteps ==
  ASSUME TransferInv, ArrivalInv, UNCHANGED <<deal, ready>>, pc \in Exchanged \cup {"rollback"},
         pc' \in Exchanged \cup {"rollback", "failed", "dead"}, pc = "rollback" => pc' \notin Exchanged,
         mishap = "gap" => mishap' = "gap",
         Converts /\ pc' \in Exchanged => \A p \in Players : asked'[p] = {TRUE} => asked[p] = {TRUE}
  PROVE  ArrivalInv'
  <1>1. CASE pc' \in Exchanged
    <2>1. StatesFit(ready) /\ Arrives(ready)
      BY <1>1 DEF ArrivalInv
    <2>2. NoneLost(ready)'
      BY <2>1 DEF StatesFit, NoneLost, There, Source, States
    <2>3. ASSUME Converts PROVE LastOnes(ready, Told)'
      <3>1. Told' \subseteq Told
        BY <1>1, <2>3 DEF Told
      <3>2. LastOnes(ready, Told)
        BY <2>1, <2>3 DEF StatesFit
      <3> QED
        BY <3>1, <3>2 DEF LastOnes, There, Source, States, Later
    <2>4. (~deal.ticked.players => States(ready) = FormerStates)'
      BY <2>1, ArrivalStays DEF StatesFit, States
    <2>5. StatesFit(ready)'
      BY <2>2, <2>3, <2>4, DealKeeps DEF StatesFit
    <2>6. Arrives(ready)'
      BY <2>1, ArrivalStays
    <2> QED
      BY <1>1, <2>5, <2>6 DEF ArrivalInv, Exchanged, AfterMoves
  <1>2. CASE pc' \notin Exchanged
    BY <1>2 DEF ArrivalInv, Exchanged, AfterMoves
  <1> QED
    BY <1>1, <1>2

LEMMA ArrivalInitInv == TransferInit => ArrivalInv
  BY DEF TransferInit, ArrivalInv, Source, Exchanged, AfterMoves

LEMMA ArrivalStepInv == TransferInv /\ ArrivalInv /\ [TransferNext]_transferVars => ArrivalInv'
  <1> SUFFICES ASSUME TransferInv, ArrivalInv, [TransferNext]_transferVars PROVE ArrivalInv'
    OBVIOUS
  <1>1. CASE Backup
    BY <1>1 DEF Backup, Proceed, GivesUp, ArrivalInv, Source, Exchanged, AfterMoves
  <1>2. CASE PutAside \/ MoveIn \/ Rollback \/ Drop \/ LoseUid
    <2>1. /\ UNCHANGED <<deal, ready, asked>> /\ pc \in Exchanged \cup {"rollback"}
          /\ pc' \in Exchanged \cup {"rollback", "failed"} /\ (pc = "rollback" => pc' \notin Exchanged)
          /\ mishap = "gap" => mishap' = "gap"
      BY <1>2 DEF PutAside, MoveIn, Rollback, Drop, LoseUid, Befalls, Proceed, GivesUp, Exchanged, AfterMoves
    <2> QED
      BY <2>1, LaterSteps
  <1>3. CASE Texts \/ Extensions \/ Lists
    <2>1. /\ UNCHANGED <<deal, ready, asked, mishap>> /\ pc \in Exchanged /\ pc' \in Exchanged
      BY <1>3 DEF Texts, Extensions, Lists, Proceed, Exchanged, AfterMoves
    <2> QED
      BY <2>1, LaterSteps DEF Exchanged, AfterMoves
  <1>4. CASE FurtherWorld
    <2>1. /\ UNCHANGED <<deal, ready>> /\ pc = "further" /\ pc' = "extensions" /\ (mishap = "gap" => mishap' = "gap")
      BY <1>4 DEF FurtherWorld, Proceed, Befalls
    <2>2. ASSUME Converts, NEW p \in Players, asked'[p] = {TRUE} PROVE asked[p] = {TRUE}
      <3>1. /\ asked \in [Players -> SUBSET BOOLEAN] /\ (p \in Named => asked[p] # {}) /\ (p \notin Named => asked[p] = {})
        BY <2>1, <2>2 DEF TransferInv, MappingFits, AfterMoves
      <3>2. UNCHANGED asked \/ \E answers \in BOOLEAN : Asks(answers)
        BY <1>4 DEF FurtherWorld
      <3>3. UNCHANGED asked \/ \E answers \in BOOLEAN : asked'[p] = IF p \in Named THEN asked[p] \cup {answers} ELSE asked[p]
        BY <3>2 DEF Asks
      <3> QED
        BY <2>2, <3>1, <3>3
    <2> QED
      BY <2>1, <2>2, LaterSteps DEF Exchanged, AfterMoves
  <1>5. CASE TransferDies
    BY <1>5 DEF TransferDies, Proceed, ArrivalInv, Exchanged, AfterMoves
  <1>6. CASE UNCHANGED transferVars
    <2>1. UNCHANGED <<deal, original, temp, ready, pc, mishap, asked>>
      BY <1>6 DEF transferVars
    <2>2. StatesAtTop(temp)' = StatesAtTop(temp) /\ States(temp)' = States(temp) /\ States(ready)' = States(ready)
      BY <2>1 DEF StatesAtTop, States
    <2>3. UNCHANGED <<Source, There, FormerStates, Converts>>
      BY <2>1, ArrivalStays, DealKeeps
    <2>4. CopiedStates(temp)' = CopiedStates(temp) /\ NoneLost(ready)' = NoneLost(ready)
      BY <2>1, <2>2, <2>3 DEF CopiedStates, NoneLost
    <2>5. LastOnes(ready, Told)' = LastOnes(ready, Told)
      BY <2>1, <2>2, <2>3 DEF LastOnes, Told, Later
    <2>6. StatesFit(ready)' = StatesFit(ready)
      BY <2>1, <2>2, <2>3, <2>4, <2>5 DEF StatesFit
    <2>7. (Arrives(ready)' <=> Arrives(ready)) /\ (Arrives(temp)' <=> Arrives(temp))
      BY <2>1, ArrivalStays
    <2>8. CopiedWorld(temp)' = CopiedWorld(temp)
      BY <2>1, <2>3 DEF CopiedWorld, Reads, SourceApart, Has
    <2> QED
      BY <2>1, <2>2, <2>3, <2>4, <2>6, <2>7, <2>8 DEF ArrivalInv
  <1>7. CASE Copy \/ Shape \/ Accounts
    BY <1>7, CopiedArrives, ShapedArrives, ConvertedArrives
  <1> QED
    BY <1>1, <1>2, <1>3, <1>4, <1>5, <1>6, <1>7 DEF TransferNext

\* Whatever the two structures are, a transfer that came to its end brought every dimension, its
\* data and the players' last states, and nothing of what the source's software did not read
\* (_baue_stil_um, _loese_doppelten_stand_auf).
THEOREM WorldAlwaysArrives == TransferSpec => []WorldArrives
  <1>1. ASSUME TransferInv, ArrivalInv, pc = "done" PROVE DimensionsArrive /\ StatesArrive
    <2>1. /\ deal.layout \in Layouts /\ place = ready /\ ready \subseteq AnyFile
          /\ StatesFit(place) /\ Found(place) /\ (deal.layout.dims # {} => Clean(place))
      BY <1>1 DEF TransferInv, TransferTypes, ExchangeFits, AfterMoves, ArrivalInv, Exchanged, Arrives
    <2>2. DimensionsArrive
      <3>1. ASSUME NEW d \in deal.layout.dims, NEW g \in Reads(place, deal.layout.to_apart, d)
            PROVE  g.of \notin {"left", "former"}
        <4>1. d \in Shells /\ deal.layout.to_apart \in BOOLEAN /\ deal.layout.new \in BOOLEAN
          BY <2>1, DealFacts
        <4>2. g \in place /\ g.dir \in {Path(deal.layout.new, d), "data"}
          BY <4>1, ReadsAre
        <4>3. g.dir # "players"
          BY <4>1, <4>2, DirFacts
        <4> QED
          BY <2>1, <4>2, <4>3 DEF Clean
      <3> QED
        BY <2>1, <3>1 DEF DimensionsArrive, Found, StandsFor, Source
    <2>3. StatesArrive
      <3>1. NoneLost(place) /\ (Converts => LastOnes(place, Told)) /\ (~deal.ticked.players => States(place) = FormerStates)
        BY <2>1 DEF StatesFit
      <3>2. ASSUME NEW f \in States(place), f.name[1] = "state" PROVE f.name[3] \in Players
        <4>1. f.name \in FileNames
          BY <2>1, <3>2, FileMoved DEF States, In
        <4>2. f.name \in StateNames
          BY <3>2, <4>1, NameFacts
        <4> QED
          BY <4>2 DEF StateNames
      <3>3. Converts => \A f \in States(place) : f.name[1] = "state" /\ asked[f.name[3]] = {TRUE} =>
              /\ f.name[4] = deal.layout.art
              /\ \A g \in There : g.name[2] = f.name[2] /\ g.name[3] = f.name[3] => ~Later(g, f)
        BY <3>1, <3>2 DEF LastOnes, Told
      <3> QED
        BY <3>1, <3>3 DEF StatesArrive, NoneLost, States, There, Source, FormerStates, Former
    <2> QED
      BY <2>2, <2>3
  <1>2. TransferInv /\ ArrivalInv => WorldArrives
    BY <1>1 DEF WorldArrives
  <1> QED
    BY <1>2, TransferInitInv, TransferStepInv, ArrivalInitInv, ArrivalStepInv, PTL DEF TransferSpec
=============================================================================
