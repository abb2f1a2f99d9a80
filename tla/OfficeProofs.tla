----------------------------- MODULE OfficeProofs -----------------------------
(* The office of the manager: an active super admin stays (Accounts), the limits of the AI *)
(* hold together (AiAgent), the timers follow the jobs (Schedules), the listing of the     *)
(* mods is true and what they require is there (ContentLibrary), for any number of         *)
(* requests, desks, threads, pages and orders at once.                                     *)
EXTENDS Accounts, AiAgent, Schedules, ContentLibrary, FiniteSetTheorems, WellFoundedInduction, TLAPS

-----------------------------------------------------------------------------
(* Accounts: what is counted and what is written                             *)

Rows == {NoAccount} \cup [role : {"super_admin", "admin"}, active : BOOLEAN]
Requests == [what : {"none", "create", "deactivate", "role", "delete"}, target : Accountants,
             role : {"none", "super_admin", "admin"}, read : Rows, seen : SUBSET Accountants]

AccountTypes ==
  /\ accounts \in [Accountants -> Rows] /\ miscounted \in BOOLEAN
  /\ counter \in [Counters -> Requests]
  /\ \A t \in Counters : counter[t].what \in {"create", "role"} => counter[t].role # "none"

\* A request that takes an admin away had counted another one.
Takes(r) == r.what \in {"deactivate", "delete"} \/ (r.what = "role" /\ r.role # "super_admin")
HasCounted(r) == Takes(r) => r.target \notin r.seen \/ \E u \in r.seen : u # r.target

AccountsInv == AccountTypes /\ (\A t \in Counters : HasCounted(counter[t])) /\ AnAdminStays
-----------------------------------------------------------------------------
LEMMA RowFacts ==
  /\ NoAccount \in Rows /\ SuperAdmin \in Rows /\ NoAccount # SuperAdmin
  /\ SuperAdmin.role = "super_admin" /\ SuperAdmin.active = TRUE
  BY DEF Rows, NoAccount, SuperAdmin, AccountRow

LEMMA NoRequestFacts == NoRequest \in Requests /\ HasCounted(NoRequest) /\ NoRequest.what = "none"
  BY RowFacts, AccountAssumption DEF NoRequest, Requests, HasCounted, Takes

\* _seed_super_admin takes nobody away.
LEMMA SeededFacts ==
  ASSUME NEW rows \in [Accountants -> Rows]
  PROVE  /\ Seeded(rows) \in [Accountants -> Rows]
         /\ ActiveSuperAdmins(rows) \subseteq ActiveSuperAdmins(Seeded(rows))
  BY RowFacts, AccountAssumption DEF Seeded, ActiveSuperAdmins

\* Who is not the last one leaves another one behind.
LEMMA AnotherOne ==
  ASSUME NEW target \in Accountants, ~IsLast(target)
  PROVE  \/ target \notin ActiveSuperAdmins(accounts)
         \/ \E u \in ActiveSuperAdmins(accounts) : u # target
  <1> SUFFICES ASSUME target \in ActiveSuperAdmins(accounts),
                      \A u \in ActiveSuperAdmins(accounts) : u = target
               PROVE  FALSE
    OBVIOUS
  <1>1. ActiveSuperAdmins(accounts) = {target}
    OBVIOUS
  <1>2. Cardinality({target}) = 1
    BY FS_Singleton
  <1>3. Cardinality(ActiveSuperAdmins(accounts)) <= 1
    BY <1>1, <1>2
  <1>4. accounts[target] = SuperAdmin
    BY DEF ActiveSuperAdmins
  <1> QED
    BY <1>3, <1>4 DEF IsLast

LEMMA AccountsStart == AccountsInit => AccountsInv
  <1> SUFFICES ASSUME AccountsInit PROVE AccountsInv
    OBVIOUS
  <1> DEFINE empty == [u \in Accountants |-> NoAccount]
  <1>1. empty \in [Accountants -> Rows] /\ accounts = Seeded(empty)
    BY RowFacts DEF AccountsInit
  <1>2. AccountTypes
    BY <1>1, SeededFacts, NoRequestFacts DEF AccountsInit, AccountTypes
  <1>3. Initial \in ActiveSuperAdmins(accounts)
    BY <1>1, AccountAssumption DEF Seeded, ActiveSuperAdmins
  <1> QED
    BY <1>2, <1>3, NoRequestFacts DEF AccountsInit, AccountsInv, AnAdminStays

\* A request comes in; what it counted is what there is.
LEMMA EntersInv ==
  ASSUME AccountsInv, NEW t \in Counters, NEW by \in Accountants, NEW target \in Accountants,
         NEW what \in {"create", "deactivate", "role", "delete"}, NEW role \in {"none", "super_admin", "admin"},
         Enters(t, by, what, target, role), what \in {"create", "role"} => role # "none",
         what \in {"deactivate", "delete"} \/ (what = "role" /\ role # "super_admin") => ~IsLast(target)
  PROVE  AccountsInv'
  <1> DEFINE r == [what |-> what, target |-> target, role |-> role, read |-> accounts[target],
                   seen |-> ActiveSuperAdmins(accounts)]
  <1>1. counter' = [counter EXCEPT ![t] = r] /\ UNCHANGED <<accounts, miscounted>>
    BY DEF Enters
  <1>2. r \in Requests /\ r.what = what /\ r.role = role
    BY DEF AccountsInv, AccountTypes, Requests, ActiveSuperAdmins
  <1>3. HasCounted(r)
    BY AnotherOne DEF HasCounted, Takes
  <1> HIDE DEF r
  <1>4. AccountTypes'
    BY <1>1, <1>2 DEF AccountsInv, AccountTypes
  <1>5. \A s \in Counters : HasCounted(counter'[s])
    BY <1>1, <1>3 DEF AccountsInv, AccountTypes
  <1>6. AnAdminStays'
    BY <1>1 DEF AccountsInv, AnAdminStays, ActiveSuperAdmins
  <1> QED
    BY <1>4, <1>5, <1>6 DEF AccountsInv, HasCounted, Takes

\* What a request writes is a row, and takes an admin away only if the request counted another.
LEMMA WrittenRow ==
  ASSUME NEW r \in Requests, NEW row \in Rows, r.what # "none", r.what \in {"create", "role"} => r.role # "none",
         r.what = "create" <=> row = NoAccount
  PROVE  /\ AsWritten(r, row) \in Rows
         /\ row = SuperAdmin /\ AsWritten(r, row) # SuperAdmin => Takes(r)
  <1>1. r.role \in {"none", "super_admin", "admin"} /\ r.read \in Rows
    BY DEF Requests
  <1>2. CASE r.what = "create"
    BY <1>1, <1>2, RowFacts DEF AsWritten, AccountRow, Rows
  <1>3. CASE r.what = "deactivate"
    BY <1>1, <1>3, RowFacts DEF AsWritten, Rows, Takes
  <1>4. CASE r.what = "role"
    <2>1. row \in [role : {"super_admin", "admin"}, active : BOOLEAN]
      BY <1>4 DEF Rows
    <2>2. row = SuperAdmin /\ r.role = "super_admin" => [row EXCEPT !.role = r.role] = SuperAdmin
      BY DEF SuperAdmin, AccountRow
    <2> QED
      BY <1>1, <1>4, <2>1, <2>2 DEF AsWritten, Rows, Takes
  <1>5. CASE r.what = "delete"
    BY <1>5, RowFacts DEF AsWritten, Takes
  <1> QED
    BY <1>2, <1>3, <1>4, <1>5 DEF Requests

LEMMA CommitsInv ==
  ASSUME AccountsInv, NEW t \in Counters, Commits(t)
  PROVE  AccountsInv'
  <1> DEFINE r == counter[t]
             row == accounts[r.target]
             fails == (r.what = "create") # (row = NoAccount)
             now == ActiveSuperAdmins(accounts)
  <1>1. r \in Requests /\ r.target \in Accountants /\ row \in Rows /\ HasCounted(r)
        /\ (r.what \in {"create", "role"} => r.role # "none")
    BY DEF AccountsInv, AccountTypes, Requests
  <1>2. /\ r.what # "none"
        /\ accounts' = IF fails THEN accounts ELSE [accounts EXCEPT ![r.target] = AsWritten(r, row)]
        /\ miscounted' = (miscounted \/ (accounts' # accounts /\ r.seen # now))
        /\ counter' = [counter EXCEPT ![t] = NoRequest]
    BY DEF Commits
  <1> HIDE DEF r
  <1>3. CASE accounts' = accounts
    <2>1. AnAdminStays'
      BY <1>2, <1>3 DEF AccountsInv, AccountTypes, AnAdminStays, ActiveSuperAdmins
    <2>2. AccountTypes'
      BY <1>2, <1>3, NoRequestFacts DEF AccountsInv, AccountTypes
    <2>3. \A s \in Counters : HasCounted(counter'[s])
      BY <1>2, NoRequestFacts DEF AccountsInv, AccountTypes
    <2> QED
      BY <2>1, <2>2, <2>3 DEF AccountsInv, HasCounted, Takes
  <1>4. CASE accounts' # accounts
    <2>1. ~fails /\ accounts' = [accounts EXCEPT ![r.target] = AsWritten(r, row)]
      BY <1>2, <1>4
    <2>2. /\ AsWritten(r, row) \in Rows
          /\ row = SuperAdmin /\ AsWritten(r, row) # SuperAdmin => Takes(r)
      BY <1>1, <1>2, <2>1, WrittenRow
    <2>3. AccountTypes'
      BY <1>1, <1>2, <2>1, <2>2, NoRequestFacts DEF AccountsInv, AccountTypes
    <2>4. \A s \in Counters : HasCounted(counter'[s])
      BY <1>2, NoRequestFacts DEF AccountsInv, AccountTypes
    <2>5. ASSUME ~miscounted' PROVE ActiveSuperAdmins(accounts') # {}
      <3>1. r.seen = now /\ now # {}
        BY <1>2, <1>4, <2>5 DEF AccountsInv, AccountTypes, AnAdminStays
      <3>2. \A u \in Accountants : u # r.target => accounts'[u] = accounts[u]
        BY <1>1, <2>1 DEF AccountsInv, AccountTypes
      <3>3. accounts'[r.target] = AsWritten(r, row)
        BY <1>1, <2>1 DEF AccountsInv, AccountTypes
      <3>4. \A u \in now : u # r.target => u \in ActiveSuperAdmins(accounts')
        BY <3>2 DEF ActiveSuperAdmins
      <3>5. CASE r.target \notin now
        BY <3>1, <3>4, <3>5
      <3>6. CASE r.target \in now /\ Takes(r)
        BY <1>1, <3>1, <3>4, <3>6 DEF HasCounted
      <3>7. CASE r.target \in now /\ ~Takes(r)
        <4>1. row = SuperAdmin
          BY <3>7 DEF ActiveSuperAdmins
        <4>2. r.target \in ActiveSuperAdmins(accounts')
          BY <1>1, <2>2, <3>3, <3>7, <4>1 DEF ActiveSuperAdmins
        <4> QED
          BY <4>2
      <3> QED
        BY <3>5, <3>6, <3>7
    <2> QED
      BY <2>3, <2>4, <2>5 DEF AccountsInv, AnAdminStays, HasCounted, Takes, ActiveSuperAdmins
  <1> QED
    BY <1>3, <1>4

LEMMA AnewInv ==
  ASSUME AccountsInv, ManagerAnew
  PROVE  AccountsInv'
  <1>1. /\ accounts' = Seeded(accounts) /\ counter' = [t \in Counters |-> NoRequest]
        /\ miscounted' = miscounted
    BY DEF ManagerAnew
  <1>2. /\ accounts' \in [Accountants -> Rows]
        /\ ActiveSuperAdmins(accounts) \subseteq ActiveSuperAdmins(accounts')
    BY <1>1, SeededFacts DEF AccountsInv, AccountTypes
  <1>3. AccountTypes'
    BY <1>1, <1>2, NoRequestFacts DEF AccountsInv, AccountTypes
  <1>4. \A s \in Counters : HasCounted(counter'[s])
    BY <1>1, NoRequestFacts
  <1>5. ActiveSuperAdmins(accounts') # {} \/ miscounted'
    BY <1>1, <1>2 DEF AccountsInv, AnAdminStays
  <1> QED
    BY <1>3, <1>4, <1>5 DEF AccountsInv, AnAdminStays, ActiveSuperAdmins, HasCounted, Takes

LEMMA AccountsGoOn == AccountsInv /\ [AccountsNext]_accountVars => AccountsInv'
  <1> SUFFICES ASSUME AccountsInv, [AccountsNext]_accountVars PROVE AccountsInv'
    OBVIOUS
  <1>1. ASSUME NEW t \in Counters, NEW by \in Accountants, NEW u \in Accountants, NEW role \in {"super_admin", "admin"},
               CreateUser(t, by, u, role)
        PROVE  AccountsInv'
    BY <1>1, EntersInv DEF CreateUser
  <1>2. ASSUME NEW t \in Counters, NEW by \in Accountants, NEW u \in Accountants, NEW role \in {"super_admin", "admin"},
               UpdateRole(t, by, u, role)
        PROVE  AccountsInv'
    BY <1>2, EntersInv DEF UpdateRole
  <1>3. ASSUME NEW t \in Counters, NEW by \in Accountants, NEW u \in Accountants, Deactivate(t, by, u)
        PROVE  AccountsInv'
    BY <1>3, EntersInv DEF Deactivate
  <1>4. ASSUME NEW t \in Counters, NEW by \in Accountants, NEW u \in Accountants, Delete(t, by, u)
        PROVE  AccountsInv'
    BY <1>4, EntersInv DEF Delete
  <1>5. CASE UNCHANGED accountVars
    BY <1>5 DEF accountVars, AccountsInv, AccountTypes, HasCounted, Takes, AnAdminStays, ActiveSuperAdmins
  <1> QED
    BY <1>1, <1>2, <1>3, <1>4, <1>5, CommitsInv, AnewInv DEF AccountsNext
-----------------------------------------------------------------------------
LEMMA InvariantOfAccounts == AccountsSpec => []AccountsInv
  BY AccountsStart, AccountsGoOn, PTL DEF AccountsSpec

\* Rows and requests keep their types, whatever crosses (user_service.py, routers/users.py).
THEOREM AccountTypesHold == AccountsSpec => []AccountsTypeOK
  <1>1. AccountsInv => AccountsTypeOK
    BY DEF AccountsInv, AccountTypes, AccountsTypeOK, Rows, Requests
  <1> QED
    BY <1>1, InvariantOfAccounts, PTL

\* No sequence of requests takes the last active super admin away; only requests that cross
\* can, which each count the one the other takes (routers/users.py).
THEOREM AnAdminAlwaysStays == AccountsSpec => []AnAdminStays
  <1>1. AccountsInv => AnAdminStays
    BY DEF AccountsInv
  <1> QED
    BY <1>1, InvariantOfAccounts, PTL

-----------------------------------------------------------------------------
(* The AI: the bookings                                                      *)

BookingRows ==
  [id : 1..MaxBookings, user : Users, est : Nat, cent : Nat,
   status : {"running", "done", "failed", "refused"}, age : {"new", "old", "past"}]
DeskStates ==
  [pc : {"idle", "check", "book", "call", "settle", "turn"}, user : Users \cup {NoDesk},
   agent : BOOLEAN, round : Nat, row : Nat, price : Nat]

AiTypes ==
  /\ IsFiniteSet(usage) /\ usage \subseteq BookingRows
  /\ bookingLock \in Desks \cup {NoDesk}
  /\ desk \in [Desks -> DeskStates]
  /\ \A t \in Desks : desk[t].pc # "idle" => desk[t].user \in Users
  /\ spent \in Nat

InHour(rows, u) == {r \in rows : r.user = u /\ r.age # "past" /\ r.est > 0}

\* Between the check and the booking a thread has the lock, and a call is left to its user.
Reserved ==
  \A t \in Desks : desk[t].pc = "book" =>
    bookingLock = t /\ Cardinality(InHour(usage, desk[t].user)) < Limit

AiInv == AiTypes /\ Reserved /\ HourHolds
-----------------------------------------------------------------------------
(* The bookings of an hour                                                  *)

LEMMA HourFacts ==
  ASSUME IsFiniteSet(usage), NEW u
  PROVE  IsFiniteSet(InHour(usage, u)) /\ Cardinality(InHour(usage, u)) \in Nat
  BY FS_Subset, FS_CardinalityType DEF InHour

\* No more than are counted.
LEMMA CountedMore ==
  ASSUME AiTypes, NEW u \in Users, Permitted(u)
  PROVE  Cardinality(InHour(usage, u)) < Limit
  <1> DEFINE all == {r \in usage : r.user = u /\ r.age # "past"}
  <1>1. IsFiniteSet(all) /\ Cardinality(all) \in Nat
    BY FS_Subset, FS_CardinalityType DEF AiTypes
  <1>2. InHour(usage, u) \in SUBSET all
    BY DEF InHour
  <1>3. Cardinality(InHour(usage, u)) <= Cardinality(all)
    BY <1>1, <1>2, FS_Subset
  <1>4. Cardinality(all) < Limit
    BY DEF Permitted, CallsInHour
  <1> QED
    BY <1>1, <1>3, <1>4, HourFacts, AiAssumption DEF AiTypes

\* The image of a finite set is not larger.
LEMMA ImageBound ==
  ASSUME NEW S, NEW T, NEW g, IsFiniteSet(S), T \subseteq {g[x] : x \in S}
  PROVE  IsFiniteSet(T) /\ Cardinality(T) <= Cardinality(S)
  <1> DEFINE image == {g[x] : x \in S}
             h == [x \in S |-> g[x]]
  <1>1. h \in Surjection(S, image)
    BY DEF Surjection
  <1> HIDE DEF h
  <1>2. IsFiniteSet(image) /\ Cardinality(image) <= Cardinality(S)
    BY <1>1, FS_Surjection
  <1>3. IsFiniteSet(T) /\ Cardinality(T) <= Cardinality(image)
    BY <1>2, FS_Subset
  <1> HIDE DEF image
  <1> QED
    BY <1>2, <1>3, FS_CardinalityType

\* Rewriting rows books no call.
LEMMA RowsRewritten ==
  ASSUME AiTypes, NEW g \in [usage -> BookingRows], usage' = {g[r] : r \in usage},
         \A r \in usage : g[r].user = r.user /\ g[r].est = r.est /\ (r.age = "past" => g[r].age = "past")
  PROVE  /\ IsFiniteSet(usage') /\ usage' \subseteq BookingRows
         /\ \A u \in Users : Cardinality(InHour(usage', u)) <= Cardinality(InHour(usage, u))
  <1>1. IsFiniteSet(usage')
    BY ImageBound DEF AiTypes
  <1>2. ASSUME NEW u \in Users PROVE Cardinality(InHour(usage', u)) <= Cardinality(InHour(usage, u))
    <2>1. InHour(usage', u) \subseteq {g[r] : r \in InHour(usage, u)}
      BY DEF InHour, AiTypes
    <2>2. IsFiniteSet(InHour(usage, u))
      BY HourFacts DEF AiTypes
    <2> QED
      BY <2>1, <2>2, ImageBound
  <1> QED
    BY <1>1, <1>2

LEMMA RebookedRows ==
  ASSUME AiTypes, NEW i, NEW cent \in Nat, NEW status \in {"done", "failed"}, Rebooked(i, cent, status)
  PROVE  /\ IsFiniteSet(usage') /\ usage' \subseteq BookingRows
         /\ \A u \in Users : Cardinality(InHour(usage', u)) <= Cardinality(InHour(usage, u))
  <1> DEFINE g == [r \in usage |-> IF r.id = i THEN [r EXCEPT !.cent = cent, !.status = status] ELSE r]
  <1>1. ASSUME NEW r \in usage
        PROVE  /\ g[r] \in BookingRows /\ g[r].user = r.user /\ g[r].est = r.est /\ g[r].age = r.age
    BY <1>1 DEF AiTypes, BookingRows
  <1>2. g \in [usage -> BookingRows]
    BY <1>1
  <1>3. usage' = {g[r] : r \in usage}
    BY DEF Rebooked
  <1> HIDE DEF g
  <1> QED
    BY <1>1, <1>2, <1>3, RowsRewritten

\* A row without an estimate is no call.
LEMMA RefusedRows ==
  ASSUME AiTypes, NextRow <= MaxBookings, NEW u \in Users, NEW status \in {"done", "refused"},
         Booked(u, 0, status)
  PROVE  /\ IsFiniteSet(usage') /\ usage' \subseteq BookingRows
         /\ \A v \in Users : InHour(usage', v) = InHour(usage, v)
  <1> DEFINE new == [id |-> NextRow, user |-> u, est |-> 0, cent |-> 0, status |-> status, age |-> "new"]
  <1>1. usage' = usage \cup {new} /\ NextRow \in 1..MaxBookings
    BY FS_CardinalityType, AiAssumption DEF Booked, NextRow, AiTypes
  <1>2. new \in BookingRows
    BY <1>1 DEF BookingRows
  <1>3. IsFiniteSet(usage')
    BY <1>1, FS_AddElement DEF AiTypes
  <1> QED
    BY <1>1, <1>2, <1>3 DEF AiTypes, InHour

\* A call adds one to its user's hour.
LEMMA BookedRows ==
  ASSUME AiTypes, NextRow <= MaxBookings, NEW u \in Users, NEW e \in Nat, Booked(u, e, "running")
  PROVE  /\ IsFiniteSet(usage') /\ usage' \subseteq BookingRows
         /\ Cardinality(InHour(usage', u)) <= Cardinality(InHour(usage, u)) + 1
         /\ \A v \in Users : v # u => InHour(usage', v) = InHour(usage, v)
  <1> DEFINE new == [id |-> NextRow, user |-> u, est |-> e, cent |-> e, status |-> "running", age |-> "new"]
  <1>1. usage' = usage \cup {new} /\ NextRow \in 1..MaxBookings
    BY FS_CardinalityType, AiAssumption DEF Booked, NextRow, AiTypes
  <1>2. new \in BookingRows
    BY <1>1 DEF BookingRows
  <1>3. IsFiniteSet(usage')
    BY <1>1, FS_AddElement DEF AiTypes
  <1>4. usage' \subseteq BookingRows /\ \A v \in Users : v # u => InHour(usage', v) = InHour(usage, v)
    BY <1>1, <1>2 DEF AiTypes, InHour
  <1>5. Cardinality(InHour(usage', u)) <= Cardinality(InHour(usage, u)) + 1
    <2>1. InHour(usage', u) \subseteq InHour(usage, u) \cup {new}
      BY <1>1 DEF InHour
    <2> HIDE DEF new
    <2>2. IsFiniteSet(InHour(usage, u)) /\ Cardinality(InHour(usage, u)) \in Nat
      BY HourFacts DEF AiTypes
    <2>3. /\ IsFiniteSet(InHour(usage, u) \cup {new})
          /\ Cardinality(InHour(usage, u) \cup {new}) \in {Cardinality(InHour(usage, u)), Cardinality(InHour(usage, u)) + 1}
      BY <2>2, FS_AddElement
    <2>4. Cardinality(InHour(usage', u)) <= Cardinality(InHour(usage, u) \cup {new})
      BY <2>1, <2>3, FS_Subset
    <2>5. Cardinality(InHour(usage', u)) \in Nat
      BY <2>1, <2>3, FS_Subset, FS_CardinalityType
    <2> QED
      BY <2>2, <2>3, <2>4, <2>5
  <1> QED
    BY <1>3, <1>4, <1>5
-----------------------------------------------------------------------------
(* The steps                                                                *)

LEMMA WaitingFacts == Waiting \in DeskStates /\ Waiting.pc = "idle"
  BY DEF Waiting, DeskStates

\* What is left of the invariant when no call is booked and no check is passed.
LEMMA NothingBooked ==
  ASSUME AiInv, IsFiniteSet(usage'), usage' \subseteq BookingRows,
         \A u \in Users : Cardinality(InHour(usage', u)) <= Cardinality(InHour(usage, u)),
         desk' \in [Desks -> DeskStates], \A t \in Desks : desk'[t].pc # "idle" => desk'[t].user \in Users,
         spent' \in Nat, UNCHANGED bookingLock,
         \A t \in Desks : desk'[t].pc = "book" => desk[t].pc = "book" /\ desk'[t].user = desk[t].user
  PROVE  AiInv'
  <1>1. AiTypes'
    BY DEF AiInv, AiTypes
  <1>2. \A u \in Users : Cardinality(InHour(usage, u)) \in Nat /\ Cardinality(InHour(usage', u)) \in Nat
    BY <1>1, HourFacts, FS_Subset, FS_CardinalityType DEF AiInv, AiTypes, InHour
  <1>3. Reserved'
    <2> SUFFICES ASSUME NEW t \in Desks, desk'[t].pc = "book"
                 PROVE  bookingLock' = t /\ Cardinality(InHour(usage', desk'[t].user)) < Limit
      BY DEF Reserved, InHour
    <2>1. desk[t].pc = "book" /\ desk'[t].user = desk[t].user /\ desk[t].user \in Users
      BY DEF AiInv, AiTypes
    <2>2. bookingLock = t /\ Cardinality(InHour(usage, desk[t].user)) < Limit
      BY <2>1 DEF AiInv, Reserved
    <2> QED
      BY <1>2, <2>1, <2>2, AiAssumption
  <1>4. HourHolds'
    <2> SUFFICES ASSUME NEW u \in Users PROVE Cardinality(InHour(usage', u)) <= Limit
      BY DEF HourHolds, InHour
    <2>1. Cardinality(InHour(usage, u)) <= Limit
      BY DEF AiInv, HourHolds, InHour
    <2> QED
      BY <1>2, <2>1, AiAssumption
  <1> QED
    BY <1>1, <1>3, <1>4 DEF AiInv

LEMMA CallsStart == AiInit => AiInv
  <1> SUFFICES ASSUME AiInit PROVE AiInv
    OBVIOUS
  <1>1. IsFiniteSet(usage) /\ \A u : InHour(usage, u) = {}
    BY FS_EmptySet DEF AiInit, InHour
  <1>2. AiTypes /\ Reserved
    BY <1>1, WaitingFacts DEF AiInit, AiTypes, Reserved
  <1>3. HourHolds
    BY <1>1, FS_EmptySet, AiAssumption DEF HourHolds, InHour
  <1> QED
    BY <1>2, <1>3 DEF AiInv

\* Who has the lock is the only one between check and booking.
LEMMA OneReserves ==
  ASSUME AiInv, NEW t \in Desks, bookingLock \in {t, NoDesk}
  PROVE  \A s \in Desks : s # t => desk[s].pc # "book"
  BY AiAssumption DEF AiInv, Reserved

LEMMA AskInv ==
  ASSUME AiInv, NEW t \in Desks, NEW u \in Users, NEW agent \in BOOLEAN, Ask(t, u, agent)
  PROVE  AiInv'
  <1>1. UNCHANGED <<bookingLock, spent>> /\ NextRow <= MaxBookings /\ desk[t].pc = "idle"
    BY DEF Ask
  <1>2. CASE At(t, [Waiting EXCEPT !.pc = "check", !.user = u, !.agent = agent, !.round = 1]) /\ UNCHANGED usage
    <2> DEFINE d == [Waiting EXCEPT !.pc = "check", !.user = u, !.agent = agent, !.round = 1]
    <2>1. ASSUME NEW w \in DeskStates
          PROVE  LET v == [w EXCEPT !.pc = "check", !.user = u, !.agent = agent, !.round = 1]
                 IN  v \in DeskStates /\ v.pc = "check" /\ v.user = u
      BY DEF DeskStates
    <2>2. d \in DeskStates /\ d.pc = "check" /\ d.user = u
      BY <2>1, WaitingFacts
    <2> HIDE DEF d
    <2>3. desk' = [desk EXCEPT ![t] = d]
      BY <1>2 DEF At, d
    <2>4. \A v \in Users : Cardinality(InHour(usage', v)) <= Cardinality(InHour(usage, v))
      BY <1>2, HourFacts DEF AiInv, AiTypes
    <2> QED
      BY <1>1, <1>2, <2>2, <2>3, <2>4, NothingBooked DEF AiInv, AiTypes
  <1>3. CASE Booked(u, 0, "refused") /\ UNCHANGED desk
    <2>1. /\ IsFiniteSet(usage') /\ usage' \subseteq BookingRows
          /\ \A v \in Users : InHour(usage', v) = InHour(usage, v)
      BY <1>1, <1>3, RefusedRows DEF AiInv
    <2>2. \A v \in Users : Cardinality(InHour(usage', v)) <= Cardinality(InHour(usage, v))
      BY <2>1, HourFacts DEF AiInv, AiTypes
    <2> QED
      BY <1>1, <1>3, <2>1, <2>2, NothingBooked DEF AiInv, AiTypes
  <1> QED
    BY <1>2, <1>3 DEF Ask

LEMMA CheckInv ==
  ASSUME AiInv, NEW t \in Desks, Check(t)
  PROVE  AiInv'
  <1> DEFINE u == desk[t].user
  <1>1. bookingLock = NoDesk /\ desk[t].pc = "check" /\ NextRow <= MaxBookings /\ UNCHANGED spent /\ u \in Users
    BY DEF Check, CheckUnlocked, AiInv, AiTypes
  <1>2. CASE Permitted(u)
    <2> DEFINE d == [desk[t] EXCEPT !.pc = "book"]
    <2>1. desk' = [desk EXCEPT ![t] = d] /\ bookingLock' = t /\ UNCHANGED usage
      BY <1>2 DEF Check, CheckUnlocked, At
    <2>2. d \in DeskStates /\ d.pc = "book" /\ d.user = u
      BY DEF AiInv, AiTypes, DeskStates
    <2> HIDE DEF d
    <2>3. Cardinality(InHour(usage, u)) < Limit
      BY <1>1, <1>2, CountedMore DEF AiInv
    <2>4. AiTypes'
      BY <1>1, <2>1, <2>2 DEF AiInv, AiTypes
    <2>5. Reserved'
      <3>1. \A s \in Desks : desk'[s].pc = "book" => s = t
        BY <1>1, <2>1, OneReserves DEF AiInv, AiTypes
      <3>2. desk'[t].user = u
        BY <2>1, <2>2 DEF AiInv, AiTypes
      <3> QED
        BY <2>1, <2>3, <3>1, <3>2 DEF Reserved, InHour
    <2>6. HourHolds'
      BY <2>1 DEF AiInv, HourHolds
    <2> QED
      BY <2>4, <2>5, <2>6 DEF AiInv
  <1>3. CASE ~Permitted(u)
    <2>1. Booked(u, 0, "refused") /\ desk' = [desk EXCEPT ![t] = Waiting] /\ UNCHANGED bookingLock
      BY <1>3 DEF Check, CheckUnlocked, At
    <2>2. /\ IsFiniteSet(usage') /\ usage' \subseteq BookingRows
          /\ \A v \in Users : InHour(usage', v) = InHour(usage, v)
      BY <1>1, <2>1, RefusedRows DEF AiInv
    <2>3. \A v \in Users : Cardinality(InHour(usage', v)) <= Cardinality(InHour(usage, v))
      BY <2>2, HourFacts DEF AiInv, AiTypes
    <2> QED
      BY <1>1, <2>1, <2>2, <2>3, WaitingFacts, NothingBooked DEF AiInv, AiTypes
  <1> QED
    BY <1>2, <1>3

LEMMA BookInv ==
  ASSUME AiInv, NEW t \in Desks, Book(t)
  PROVE  AiInv'
  <1> DEFINE u == desk[t].user
  <1>1. desk[t].pc = "book" /\ NextRow <= MaxBookings /\ UNCHANGED spent /\ bookingLock' = NoDesk /\ u \in Users
    BY DEF Book, AiInv, AiTypes
  <1>2. bookingLock = t /\ Cardinality(InHour(usage, u)) < Limit
    BY <1>1 DEF AiInv, Reserved
  <1>3. \A s \in Desks : s # t => desk[s].pc # "book"
    BY <1>2, OneReserves
  <1>4. CASE Booked(u, 0, "refused") /\ At(t, Waiting)
    <2>1. desk' = [desk EXCEPT ![t] = Waiting]
      BY <1>4 DEF At
    <2>2. /\ IsFiniteSet(usage') /\ usage' \subseteq BookingRows
          /\ \A v \in Users : InHour(usage', v) = InHour(usage, v)
      BY <1>1, <1>4, RefusedRows DEF AiInv
    <2>3. AiTypes'
      BY <1>1, <2>1, <2>2, WaitingFacts DEF AiInv, AiTypes
    <2>4. Reserved'
      BY <1>3, <2>1, WaitingFacts DEF Reserved, AiInv, AiTypes
    <2>5. HourHolds'
      BY <2>2 DEF AiInv, HourHolds, InHour
    <2> QED
      BY <2>3, <2>4, <2>5 DEF AiInv
  <1>5. ASSUME NEW e \in Estimates, Booked(u, e, "running"),
               At(t, [desk[t] EXCEPT !.pc = "call", !.row = NextRow, !.price = e])
        PROVE  AiInv'
    <2> DEFINE d == [desk[t] EXCEPT !.pc = "call", !.row = NextRow, !.price = e]
    <2>1. desk' = [desk EXCEPT ![t] = d]
      BY <1>5 DEF At
    <2>2. NextRow \in Nat /\ e \in Nat
      BY FS_CardinalityType, AiAssumption DEF NextRow, AiInv, AiTypes
    <2>3. d \in DeskStates /\ d.pc = "call" /\ d.user = u
      BY <2>2 DEF AiInv, AiTypes, DeskStates
    <2> HIDE DEF d
    <2>4. /\ IsFiniteSet(usage') /\ usage' \subseteq BookingRows
          /\ Cardinality(InHour(usage', u)) <= Cardinality(InHour(usage, u)) + 1
          /\ \A v \in Users : v # u => InHour(usage', v) = InHour(usage, v)
      BY <1>1, <1>5, <2>2, BookedRows DEF AiInv
    <2>5. AiTypes'
      BY <1>1, <2>1, <2>3, <2>4 DEF AiInv, AiTypes
    <2>6. Reserved'
      BY <1>3, <2>1, <2>3 DEF Reserved, AiInv, AiTypes
    <2>7. Cardinality(InHour(usage', u)) <= Limit
      <3>1. Cardinality(InHour(usage, u)) \in Nat
        BY HourFacts DEF AiInv, AiTypes
      <3>2. IsFiniteSet(InHour(usage', u))
        BY <2>4, FS_Subset DEF InHour
      <3>3. Cardinality(InHour(usage', u)) \in Nat
        BY <3>2, FS_CardinalityType
      <3> QED
        BY <1>2, <2>4, <3>1, <3>3, AiAssumption
    <2>8. HourHolds'
      BY <2>4, <2>7 DEF AiInv, HourHolds, InHour
    <2> QED
      BY <2>5, <2>6, <2>8 DEF AiInv
  <1> QED
    BY <1>4, <1>5 DEF Book

\* The call under way is over: the desk changes its place, and its booking perhaps its price.
LEMMA DeskMoves ==
  ASSUME AiInv, NEW t \in Desks, NEW d \in DeskStates,
         d.pc \notin {"idle", "book"} => d.user \in Users, d.pc # "book",
         desk' = [desk EXCEPT ![t] = d], UNCHANGED bookingLock, spent' \in Nat,
         \/ UNCHANGED usage
         \/ \E i, cent \in Nat, status \in {"done", "failed"} : Rebooked(i, cent, status)
  PROVE  AiInv'
  <1> DEFINE kept == /\ IsFiniteSet(usage') /\ usage' \subseteq BookingRows
                     /\ \A u \in Users : Cardinality(InHour(usage', u)) <= Cardinality(InHour(usage, u))
  <1>1. kept
    <2>1. CASE UNCHANGED usage
      BY <2>1, HourFacts DEF AiInv, AiTypes
    <2>2. ASSUME NEW i \in Nat, NEW cent \in Nat, NEW status \in {"done", "failed"}, Rebooked(i, cent, status)
          PROVE  kept
      BY <2>2, RebookedRows DEF AiInv
    <2> QED
      BY <2>1, <2>2
  <1> QED
    BY <1>1, NothingBooked DEF AiInv, AiTypes

LEMMA CallInv ==
  ASSUME AiInv, NEW t \in Desks, Answered(t) \/ CallFails(t) \/ Settle(t) \/ Turn(t)
  PROVE  AiInv'
  <1> DEFINE now == desk[t]
  <1>1. now \in DeskStates /\ (now.pc # "idle" => now.user \in Users) /\ spent \in Nat
    BY DEF AiInv, AiTypes
  <1>2. now.row \in Nat /\ now.price \in Nat
    BY <1>1 DEF DeskStates
  <1>3. CASE Answered(t)
    <2>1. PICK price \in 0..(now.price + IF now.agent THEN 1 ELSE 0) :
            spent' = spent + price /\ At(t, [now EXCEPT !.pc = "settle", !.price = price])
      BY <1>3 DEF Answered
    <2>2. price \in Nat
      OBVIOUS
    <2> DEFINE d == [now EXCEPT !.pc = "settle", !.price = price]
    <2>3. d \in DeskStates /\ d.pc = "settle" /\ d.user = now.user
      BY <1>1, <2>2 DEF DeskStates
    <2>4. desk' = [desk EXCEPT ![t] = d] /\ UNCHANGED <<usage, bookingLock>> /\ now.pc = "call"
      BY <1>3, <2>1 DEF Answered, At
    <2>5. spent' \in Nat
      BY <1>1, <2>1, <2>2
    <2> HIDE DEF d
    <2> QED
      BY <1>1, <2>3, <2>4, <2>5, DeskMoves
  <1>4. CASE CallFails(t)
    <2>1. desk' = [desk EXCEPT ![t] = Waiting] /\ UNCHANGED <<bookingLock, spent>>
          /\ (Rebooked(now.row, 0, "failed") \/ UNCHANGED usage)
      BY <1>4 DEF CallFails, At
    <2> QED
      BY <1>1, <1>2, <2>1, WaitingFacts, DeskMoves
  <1>5. CASE Settle(t)
    <2> DEFINE turn == [now EXCEPT !.pc = "turn"]
               d == IF now.agent THEN turn ELSE Waiting
    <2>1. turn \in DeskStates /\ turn.pc = "turn" /\ turn.user = now.user
      BY <1>1 DEF DeskStates
    <2>2. desk' = [desk EXCEPT ![t] = d] /\ UNCHANGED <<bookingLock, spent>> /\ now.pc = "settle"
          /\ (Rebooked(now.row, now.price, "done") \/ UNCHANGED usage)
      BY <1>5 DEF Settle, At, Settled
    <2> HIDE DEF turn
    <2>3. d \in DeskStates /\ d.pc # "book" /\ (d.pc # "idle" => d.user = now.user)
      BY <2>1, WaitingFacts
    <2> HIDE DEF d
    <2>4. now.user \in Users
      BY <1>1, <2>2
    <2>5. \/ UNCHANGED usage
          \/ \E i, cent \in Nat, status \in {"done", "failed"} : Rebooked(i, cent, status)
      BY <1>2, <2>2
    <2> QED
      BY <1>1, <2>2, <2>3, <2>4, <2>5, DeskMoves
  <1>6. CASE Turn(t)
    <2> DEFINE next == [now EXCEPT !.pc = "check", !.round = @ + 1, !.row = 0, !.price = 0]
    <2>1. next \in DeskStates /\ next.pc = "check" /\ next.user = now.user
      <3> DEFINE half == [now EXCEPT !.pc = "check", !.round = @ + 1]
      <3>1. half \in DeskStates /\ half.pc = "check" /\ half.user = now.user
        <4>1. ASSUME NEW w \in DeskStates, NEW k \in Nat
              PROVE  LET v == [w EXCEPT !.pc = "check", !.round = k]
                     IN  v \in DeskStates /\ v.pc = "check" /\ v.user = w.user
          BY DEF DeskStates
        <4>2. now.round + 1 \in Nat
          BY <1>1 DEF DeskStates
        <4> QED
          BY <1>1, <4>1, <4>2
      <3>2. ASSUME NEW w \in DeskStates
            PROVE  LET v == [w EXCEPT !.row = 0, !.price = 0]
                   IN  v \in DeskStates /\ v.pc = w.pc /\ v.user = w.user
        BY DEF DeskStates
      <3>3. next = [half EXCEPT !.row = 0, !.price = 0]
        OBVIOUS
      <3> HIDE DEF half
      <3> QED
        BY <3>1, <3>2, <3>3
    <2> HIDE DEF next
    <2>2. UNCHANGED <<usage, bookingLock, spent>> /\ now.pc = "turn"
      BY <1>6 DEF Turn
    <2>3. desk' = [desk EXCEPT ![t] = Waiting] \/ desk' = [desk EXCEPT ![t] = next]
      BY <1>6 DEF Turn, At, next
    <2>4. CASE desk' = [desk EXCEPT ![t] = Waiting]
      BY <1>1, <2>2, <2>4, WaitingFacts, DeskMoves
    <2>5. CASE desk' = [desk EXCEPT ![t] = next]
      BY <1>1, <2>1, <2>2, <2>5, DeskMoves
    <2> QED
      BY <2>3, <2>4, <2>5
  <1> QED
    BY <1>3, <1>4, <1>5, <1>6

LEMMA TableInv ==
  ASSUME AiInv, TimePasses \/ SweepStuck \/ \E u \in Users : CheckConnection(u)
  PROVE  AiInv'
  <1>1. UNCHANGED <<bookingLock, desk, spent>>
    BY DEF TimePasses, SweepStuck, CheckConnection
  <1> DEFINE kept == /\ IsFiniteSet(usage') /\ usage' \subseteq BookingRows
                     /\ \A v \in Users : Cardinality(InHour(usage', v)) <= Cardinality(InHour(usage, v))
  <1>2. kept
    <2>1. CASE TimePasses
      <3> DEFINE g == [r \in usage |-> [r EXCEPT !.age = Older(r.age)]]
      <3>1. ASSUME NEW r \in usage
            PROVE  /\ g[r] \in BookingRows /\ g[r].user = r.user /\ g[r].est = r.est
                   /\ (r.age = "past" => g[r].age = "past")
        BY <3>1 DEF AiInv, AiTypes, BookingRows, Older
      <3>2. usage' = {g[r] : r \in usage} /\ g \in [usage -> BookingRows]
        BY <2>1, <3>1 DEF TimePasses
      <3> HIDE DEF g
      <3> QED
        BY <3>1, <3>2, RowsRewritten DEF AiInv
    <2>2. CASE SweepStuck
      <3> DEFINE g == [r \in usage |-> IF r.status = "running" /\ r.age # "new"
                                      THEN [r EXCEPT !.status = "failed", !.cent = 0] ELSE r]
      <3>1. ASSUME NEW r \in usage
            PROVE  /\ g[r] \in BookingRows /\ g[r].user = r.user /\ g[r].est = r.est
                   /\ (r.age = "past" => g[r].age = "past")
        BY <3>1 DEF AiInv, AiTypes, BookingRows
      <3>2. g \in [usage -> BookingRows]
        BY <3>1
      <3>3. usage' = {g[r] : r \in usage}
        BY <2>2 DEF SweepStuck
      <3> HIDE DEF g
      <3> QED
        BY <3>1, <3>2, <3>3, RowsRewritten DEF AiInv
    <2>3. ASSUME NEW u \in Users, CheckConnection(u) PROVE kept
      <3>1. NextRow <= MaxBookings /\ Booked(u, 0, "done")
        BY <2>3 DEF CheckConnection
      <3>2. /\ IsFiniteSet(usage') /\ usage' \subseteq BookingRows
            /\ \A v \in Users : InHour(usage', v) = InHour(usage, v)
        BY <3>1, RefusedRows DEF AiInv
      <3> QED
        BY <3>2, HourFacts DEF AiInv, AiTypes
    <2> QED
      BY <2>1, <2>2, <2>3
  <1> QED
    BY <1>1, <1>2, NothingBooked DEF AiInv, AiTypes

LEMMA CallsGoOn == AiInv /\ [AiNext]_aiVars => AiInv'
  <1> SUFFICES ASSUME AiInv, [AiNext]_aiVars PROVE AiInv'
    OBVIOUS
  <1>1. ASSUME NEW t \in Desks, NEW u \in Users, NEW agent \in BOOLEAN, Ask(t, u, agent) PROVE AiInv'
    BY <1>1, AskInv
  <1>2. ASSUME NEW t \in Desks, Check(t) \/ Book(t) PROVE AiInv'
    BY <1>2, CheckInv, BookInv
  <1>3. ASSUME NEW t \in Desks, Answered(t) \/ CallFails(t) \/ Settle(t) \/ Turn(t) PROVE AiInv'
    BY <1>3, CallInv
  <1>4. CASE TimePasses \/ SweepStuck \/ \E u \in Users : CheckConnection(u)
    BY <1>4, TableInv
  <1>5. CASE UNCHANGED aiVars
    BY <1>5, HourFacts, NothingBooked DEF aiVars, AiInv, AiTypes
  <1> QED
    BY <1>1, <1>2, <1>3, <1>4, <1>5 DEF AiNext
-----------------------------------------------------------------------------
LEMMA InvariantOfCalls == AiSpec => []AiInv
  BY CallsStart, CallsGoOn, PTL DEF AiSpec

\* Rows, desks and the lock keep their types (ai_usage, ai_budget_service.py).
THEOREM AiTypesHold == AiSpec => []AiTypeOK
  <1>1. AiInv => AiTypeOK
    BY DEF AiInv, AiTypes, AiTypeOK, BookingRows
  <1> QED
    BY <1>1, InvariantOfCalls, PTL

\* However many threads check and book at once, no user makes more calls in an hour than he
\* may (pruefe_und_reserviere, ai_budget_service.py): the check and the booking are under one lock.
THEOREM HourlyLimitHolds == AiSpec => []HourHolds
  <1>1. AiInv => HourHolds
    BY DEF AiInv
  <1> QED
    BY <1>1, InvariantOfCalls, PTL

-----------------------------------------------------------------------------
(* The month's money                                                         *)

\* The largest of finitely many numbers.
LEMMA FiniteMax ==
  ASSUME NEW S \in SUBSET Nat, S # {}, IsFiniteSet(S)
  PROVE  Max(S) \in S /\ \A y \in S : y <= Max(S)
  <1>1. PICK n \in Nat : ExistsSurjection(1..n, S)
    BY FS_NatSurjection
  <1>2. PICK f \in [1..n -> S] : \A y \in S : \E i \in 1..n : f[i] = y
    BY <1>1 DEF ExistsSurjection, Surjection
  <1> DEFINE Bad == {k \in Nat : ~\E m \in Nat : \A i \in 1..n : i <= k => f[i] <= m}
  <1>3. Bad = {}
    <2> SUFFICES ASSUME Bad # {}
                 PROVE  FALSE
      OBVIOUS
    <2>1. PICK k \in Bad : \A y \in Bad : ~(<<y, k>> \in OpToRel(<, Nat))
      BY NatLessThanWellFounded, WFMin
    <2>2. k # 0
      <3>1. \A i \in 1..n : i <= 0 => f[i] <= 0
        OBVIOUS
      <3> QED
        BY <3>1
    <2>3. k - 1 \in Nat /\ k - 1 < k
      BY <2>2
    <2>4. k - 1 \notin Bad
      BY <2>1, <2>3 DEF OpToRel
    <2>5. PICK m \in Nat : \A i \in 1..n : i <= k - 1 => f[i] <= m
      BY <2>3, <2>4
    <2>6. \E b \in Nat : b >= m /\ (k \in 1..n => b >= f[k])
      <3>1. CASE k \in 1..n /\ f[k] > m
        <4>1. f[k] \in Nat
          BY <3>1
        <4> DEFINE v == f[k]
        <4>2. v \in Nat /\ v > m
          BY <3>1, <4>1
        <4> HIDE DEF v
        <4>3. v >= m /\ v >= v
          BY <4>2
        <4> QED
          BY <4>2, <4>3 DEF v
      <3>2. CASE ~(k \in 1..n /\ f[k] > m)
        <4>1. k \in 1..n => f[k] \in Nat
          OBVIOUS
        <4>2. m >= m /\ (k \in 1..n => m >= f[k])
          BY <3>2, <4>1
        <4> QED
          BY <4>2
      <3> QED
        BY <3>1, <3>2
    <2>7. PICK b \in Nat : b >= m /\ (k \in 1..n => b >= f[k])
      BY <2>6
    <2>8. ASSUME NEW i \in 1..n, i <= k
          PROVE  f[i] <= b
      <3>1. f[i] \in Nat /\ k \in Nat
        OBVIOUS
      <3>2. CASE i = k
        BY <2>7, <3>1, <3>2
      <3>3. CASE i # k
        <4>1. i <= k - 1
          BY <2>8, <3>1, <3>3
        <4>2. f[i] <= m
          BY <2>5, <4>1
        <4> QED
          BY <2>7, <3>1, <4>2
      <3> QED
        BY <3>2, <3>3
    <2> QED
      BY <2>8
  <1>4. PICK m \in Nat : \A i \in 1..n : i <= n => f[i] <= m
    BY <1>3
  <1>5. \A y \in S : y <= m
    BY <1>2, <1>4
  <1> DEFINE T == {m - x : x \in S}
  <1>6. \A x \in S : x \in Nat /\ m - x \in Nat
    BY <1>5
  <1>7. T \subseteq Nat /\ T # {}
    BY <1>6
  <1>8. PICK l \in T : \A y \in T : ~(<<y, l>> \in OpToRel(<, Nat))
    BY <1>7, NatLessThanWellFounded, WFMin
  <1>9. PICK x \in S : l = m - x
    OBVIOUS
  <1>10. \A y \in S : x >= y
    <2> TAKE y \in S
    <2>1. m - y \in T /\ m - y \in Nat /\ l \in Nat
      BY <1>6, <1>7
    <2>2. ~(m - y < l)
      BY <1>8, <2>1 DEF OpToRel
    <2> QED
      BY <1>6, <1>9, <2>2
  <1>11. Max(S) \in S /\ \A y \in S : Max(S) >= y
    BY <1>9, <1>10 DEF Max
  <1> QED
    BY <1>11

LEMMA EstimateFacts ==
  /\ Max(Estimates) \in Nat /\ Budget \in Nat /\ Budget > 0
  /\ \A e \in Estimates : e \in Nat /\ e <= Max(Estimates)
  <1>1. Estimates \in SUBSET Nat /\ Estimates # {} /\ IsFiniteSet(Estimates) /\ Budget \in Nat /\ Budget > 0
    BY AiAssumption
  <1>2. Max(Estimates) \in Estimates /\ \A e \in Estimates : e <= Max(Estimates)
    BY <1>1, FiniteMax
  <1> QED
    BY <1>1, <1>2

\* Rows are numbered in the order of booking, and keep their number.
Numbered ==
  /\ \A r \in usage : r.id <= Cardinality(usage)
  /\ \A r, s \in usage : r.id = s.id => r = s

\* A call under way has a row of its own, booked at the estimate.
OnCall(t) == desk[t].pc \in {"call", "settle"}
CallsHaveRows ==
  \A t \in Desks : OnCall(t) =>
    /\ \E r \in usage : /\ r.id = desk[t].row /\ r.status = "running" /\ r.age = "new"
                        /\ IF desk[t].pc = "call" THEN r.cent = desk[t].price ELSE desk[t].price <= r.cent
    /\ \A s \in Desks : OnCall(s) /\ desk[s].row = desk[t].row => s = t

\* What the provider charged: what is settled, and what is about to be.
Charged ==
  Units({r \in usage : r.status = "done"})
  \cup UNION {{desk[t].row} \X (1..desk[t].price) : t \in {s \in Desks : desk[s].pc = "settle"}}

BudgetInv ==
  /\ Numbered
  /\ ~loose =>
       /\ CallsHaveRows
       /\ spent = Cardinality(Charged)
       /\ MonthSpend < Budget + Max(Estimates)
       /\ \A t \in Desks : desk[t].pc = "book" => MonthSpend < Budget

LEMMA UnitFacts ==
  ASSUME NEW rows
  PROVE  \A x : x \in Units(rows) <=> \E r \in rows : x \in {r.id} \X (1..r.cent)
  BY DEF Units

LEMMA UnitsAreFinite ==
  ASSUME NEW rows, IsFiniteSet(rows), rows \subseteq BookingRows
  PROVE  IsFiniteSet(Units(rows)) /\ Cardinality(Units(rows)) \in Nat
  <1> DEFINE g == [r \in rows |-> {r.id} \X (1..r.cent)]
             sets == {g[r] : r \in rows}
  <1>1. IsFiniteSet(sets)
    <2>1. g \in Surjection(rows, sets)
      BY DEF Surjection
    <2> QED
      BY <2>1, FS_Surjection
  <1>2. ASSUME NEW r \in rows
        PROVE  IsFiniteSet(g[r])
    <2>1. 1 \in Int /\ r.cent \in Int
      BY DEF BookingRows
    <2>2. IsFiniteSet({r.id}) /\ IsFiniteSet(1..r.cent)
      BY <2>1, FS_Singleton, FS_Interval
    <2> QED
      BY <2>2, FS_Product
  <1>3. IsFiniteSet(UNION sets)
    BY <1>1, <1>2, FS_UNION
  <1>4. Units(rows) = UNION sets
    BY DEF Units
  <1> QED
    BY <1>3, <1>4, FS_CardinalityType

LEMMA CountedFacts ==
  ASSUME AiTypes
  PROVE  /\ Counted \subseteq BookingRows /\ IsFiniteSet(Counted)
         /\ IsFiniteSet(Units(Counted)) /\ MonthSpend = Cardinality(Units(Counted)) /\ MonthSpend \in Nat
  <1>1. Counted \in SUBSET usage
    BY DEF Counted
  <1>2. Counted \subseteq BookingRows /\ IsFiniteSet(Counted)
    BY <1>1, FS_Subset DEF AiTypes
  <1> QED
    BY <1>2, UnitsAreFinite DEF MonthSpend

\* What was charged is among what counts.
LEMMA ChargedIsCounted ==
  ASSUME AiTypes, CallsHaveRows
  PROVE  Charged \subseteq Units(Counted) /\ IsFiniteSet(Charged) /\ Cardinality(Charged) <= MonthSpend
  <1>1. ASSUME NEW x \in Charged
        PROVE  x \in Units(Counted)
    <2>1. CASE x \in Units({r \in usage : r.status = "done"})
      <3>1. PICK r \in usage : r.status = "done" /\ x \in {r.id} \X (1..r.cent)
        BY <2>1, UnitFacts
      <3>2. r \in Counted
        BY <3>1 DEF Counted
      <3> QED
        BY <3>1, <3>2, UnitFacts
    <2>2. CASE x \in UNION {{desk[t].row} \X (1..desk[t].price) : t \in {s \in Desks : desk[s].pc = "settle"}}
      <3>1. PICK t \in Desks : desk[t].pc = "settle" /\ x \in {desk[t].row} \X (1..desk[t].price)
        BY <2>2
      <3>2. PICK r \in usage : r.id = desk[t].row /\ r.status = "running" /\ r.age = "new" /\ desk[t].price <= r.cent
        BY <3>1 DEF CallsHaveRows, OnCall
      <3>3. r \in Counted /\ r.cent \in Nat /\ desk[t].price \in Nat
        BY <3>2 DEF Counted, AiTypes, BookingRows, DeskStates
      <3>4. x \in {r.id} \X (1..r.cent)
        BY <3>1, <3>2, <3>3
      <3> QED
        BY <3>3, <3>4, UnitFacts
    <2> QED
      BY <2>1, <2>2 DEF Charged
  <1>2. Charged \in SUBSET Units(Counted)
    BY <1>1
  <1> QED
    BY <1>2, CountedFacts, FS_Subset

LEMMA BudgetFollows ==
  ASSUME AiTypes, BudgetInv
  PROVE  BudgetHolds
  <1> SUFFICES ASSUME ~loose
               PROVE  spent < Budget + Max(Estimates)
    BY DEF BudgetHolds
  <1>1. spent <= MonthSpend /\ MonthSpend < Budget + Max(Estimates) /\ spent \in Nat
    BY ChargedIsCounted DEF BudgetInv, AiTypes
  <1> QED
    BY <1>1, CountedFacts, EstimateFacts

-----------------------------------------------------------------------------
(* What the steps do to the month's money                                    *)

DoneRows == {r \in usage : r.status = "done"}

LEMMA RowAdded ==
  ASSUME AiTypes, Numbered, NextRow <= MaxBookings, NEW u, NEW e \in Nat, NEW status, Booked(u, e, status)
  PROVE  /\ Numbered' /\ usage \subseteq usage'
         /\ status # "done" \/ e = 0 => Units(DoneRows') = Units(DoneRows)
         /\ \A x : x \in Units(Counted') => x \in Units(Counted) \/ x \in {NextRow} \X (1..e)
  <1> DEFINE n == NextRow
             new == [id |-> n, user |-> u, est |-> e, cent |-> e, status |-> status, age |-> "new"]
  <1>1. usage' = usage \cup {new}
    BY DEF Booked
  <1>2. Cardinality(usage) \in Nat /\ n = Cardinality(usage) + 1 /\ IsFiniteSet(usage)
    BY FS_CardinalityType DEF NextRow, AiTypes
  <1>3. new.id = n /\ new.cent = e /\ new.status = status
    OBVIOUS
  <1> HIDE DEF n, new
  <1>4. \A r \in usage : r.id \in Nat /\ r.id < n
    BY <1>2 DEF Numbered, AiTypes, BookingRows
  <1>5. new \notin usage
    BY <1>2, <1>3, <1>4
  <1>6. Cardinality(usage') = n
    BY <1>1, <1>2, <1>5, FS_AddElement
  <1>7. Numbered'
    <2>1. \A r \in usage' : r.id <= Cardinality(usage')
      BY <1>1, <1>2, <1>3, <1>4, <1>6
    <2>2. \A r, s \in usage' : r.id = s.id => r = s
      BY <1>1, <1>2, <1>3, <1>4 DEF Numbered
    <2> QED
      BY <2>1, <2>2 DEF Numbered
  <1>8. ASSUME status # "done" \/ e = 0
        PROVE  Units(DoneRows') = Units(DoneRows)
    <2>1. \A x : ~(x \in {new.id} \X (1..new.cent)) \/ status # "done"
      BY <1>3, <1>8
    <2>2. DoneRows' \subseteq DoneRows \cup {new} /\ DoneRows \subseteq DoneRows'
      BY <1>1 DEF DoneRows
    <2>3. new \in DoneRows' => status = "done"
      BY <1>3 DEF DoneRows
    <2>4. \A x : x \in Units(DoneRows') => x \in Units(DoneRows)
      BY <2>1, <2>2, <2>3, UnitFacts
    <2>5. \A x : x \in Units(DoneRows) => x \in Units(DoneRows')
      BY <2>2, UnitFacts
    <2> QED
      BY <2>4, <2>5
  <1>9. ASSUME NEW x \in Units(Counted')
        PROVE  x \in Units(Counted) \/ x \in {n} \X (1..e)
    <2>1. PICK r \in Counted' : x \in {r.id} \X (1..r.cent)
      BY UnitFacts
    <2>2. r = new \/ r \in Counted
      BY <1>1 DEF Counted
    <2> QED
      BY <1>3, <2>1, <2>2, UnitFacts
  <1> QED
    BY <1>1, <1>7, <1>8, <1>9 DEF n

LEMMA NumbersKept ==
  ASSUME AiTypes, Numbered, NEW g \in [usage -> BookingRows], usage' = {g[r] : r \in usage},
         \A r \in usage : g[r].id = r.id
  PROVE  Numbered'
  <1>1. g \in Surjection(usage, usage') /\ g \in Injection(usage, usage')
    BY DEF Surjection, Injection, IsInjective, Numbered
  <1>2. Cardinality(usage') = Cardinality(usage)
    BY <1>1, FS_Surjection DEF AiTypes
  <1> QED
    BY <1>2 DEF Numbered

\* Rewriting a row and no other.
LEMMA RowRebooked ==
  ASSUME AiTypes, Numbered, NEW i, NEW cent \in Nat, NEW status \in {"done", "failed"}, Rebooked(i, cent, status)
  PROVE  /\ Numbered'
         /\ \A r \in usage : r.id # i => r \in usage'
         /\ \A q \in usage' : \/ q \in usage /\ q.id # i
                              \/ q.id = i /\ q.cent = cent /\ q.status = status
         /\ (\E r \in usage : r.id = i) => \E q \in usage' : q.id = i /\ q.cent = cent /\ q.status = status
  <1> DEFINE g == [r \in usage |-> IF r.id = i THEN [r EXCEPT !.cent = cent, !.status = status] ELSE r]
  <1>1. ASSUME NEW r \in usage
        PROVE  /\ g[r] \in BookingRows /\ g[r].id = r.id /\ (r.id # i => g[r] = r)
               /\ (r.id = i => g[r].cent = cent /\ g[r].status = status)
    BY <1>1 DEF AiTypes, BookingRows
  <1>2. g \in [usage -> BookingRows]
    BY <1>1
  <1>3. usage' = {g[r] : r \in usage}
    BY DEF Rebooked
  <1> HIDE DEF g
  <1>4. Numbered'
    BY <1>1, <1>2, <1>3, NumbersKept
  <1>5. \A q \in usage' : \/ q \in usage /\ q.id # i
                          \/ q.id = i /\ q.cent = cent /\ q.status = status
    BY <1>1, <1>3
  <1>6. (\A r \in usage : r.id # i => r \in usage')
        /\ ((\E r \in usage : r.id = i) => \E q \in usage' : q.id = i /\ q.cent = cent /\ q.status = status)
    BY <1>1, <1>3
  <1> QED
    BY <1>4, <1>5, <1>6

\* A step that neither books nor answers a call.
LEMMA BudgetKeeps ==
  ASSUME AiTypes, AiTypes', BudgetInv, Numbered', loose => loose',
         ~loose' => /\ CallsHaveRows' /\ Charged' = Charged /\ spent' = spent
                    /\ Units(Counted') \subseteq Units(Counted)
                    /\ \A t \in Desks : desk'[t].pc = "book" => desk[t].pc = "book"
  PROVE  BudgetInv'
  <1> SUFFICES ASSUME ~loose'
               PROVE  /\ CallsHaveRows'
                      /\ spent' = Cardinality(Charged')
                      /\ MonthSpend' < Budget + Max(Estimates)
                      /\ \A t \in Desks : desk'[t].pc = "book" => MonthSpend' < Budget
    BY DEF BudgetInv
  <1>1. MonthSpend \in Nat /\ MonthSpend' \in Nat /\ MonthSpend' <= MonthSpend
    <2>1. /\ IsFiniteSet(Units(Counted)) /\ MonthSpend = Cardinality(Units(Counted)) /\ MonthSpend \in Nat
          /\ MonthSpend' = Cardinality(Units(Counted')) /\ MonthSpend' \in Nat
      <3>1. /\ IsFiniteSet(Units(Counted)) /\ MonthSpend = Cardinality(Units(Counted)) /\ MonthSpend \in Nat
        BY CountedFacts
      <3>2. Counted' \in SUBSET usage' /\ IsFiniteSet(usage') /\ usage' \subseteq BookingRows
        BY DEF Counted, AiTypes
      <3>3. IsFiniteSet(Counted') /\ Counted' \subseteq BookingRows
        BY <3>2, FS_Subset
      <3>4. IsFiniteSet(Units(Counted')) /\ Cardinality(Units(Counted')) \in Nat
        BY <3>3, UnitsAreFinite
      <3> QED
        BY <3>1, <3>4 DEF MonthSpend, Units
    <2>2. Units(Counted') \in SUBSET Units(Counted)
      OBVIOUS
    <2> QED
      BY <2>1, <2>2, FS_Subset
  <1> QED
    BY <1>1, EstimateFacts DEF BudgetInv

\* A step of a desk that is not on call, before or after it.
LEMMA OffCall ==
  ASSUME CallsHaveRows, NEW t \in Desks, \A s \in Desks : s # t => desk'[s] = desk[s],
         desk'[t].pc \notin {"call", "settle"},
         \A s \in Desks \ {t} : \A r \in usage : OnCall(s) /\ r.id = desk[s].row => r \in usage'
  PROVE  CallsHaveRows'
  BY DEF CallsHaveRows, OnCall

LEMMA ChargedStays ==
  ASSUME Units(DoneRows') = Units(DoneRows),
         \A s \in Desks : desk'[s].pc = "settle" <=> desk[s].pc = "settle",
         \A s \in Desks : desk[s].pc = "settle" => desk'[s] = desk[s]
  PROVE  Charged' = Charged
  <1>1. Charged = Units(DoneRows) \cup UNION {{desk[t].row} \X (1..desk[t].price) : t \in {s \in Desks : desk[s].pc = "settle"}}
    BY DEF Charged, DoneRows
  <1>2. Charged' = Units(DoneRows') \cup UNION {{desk'[t].row} \X (1..desk'[t].price) : t \in {s \in Desks : desk'[s].pc = "settle"}}
    BY DEF Charged, DoneRows, Units
  <1>3. \A t \in Desks : desk[t].pc = "settle" => desk'[t].row = desk[t].row /\ desk'[t].price = desk[t].price
    OBVIOUS
  <1> QED
    BY <1>1, <1>2, <1>3

LEMMA SameUsage ==
  ASSUME usage' = usage
  PROVE  /\ Units(DoneRows') = Units(DoneRows) /\ Units(Counted') = Units(Counted)
         /\ (Numbered => Numbered') /\ MonthSpend' = MonthSpend
  BY DEF DoneRows, Counted, Numbered, MonthSpend, Units

LEMMA SettledSame ==
  ASSUME NEW t \in Desks, \A s \in Desks : s # t => desk'[s] = desk[s],
         desk[t].pc # "settle", desk'[t].pc # "settle"
  PROVE  /\ \A s \in Desks : desk'[s].pc = "settle" <=> desk[s].pc = "settle"
         /\ \A s \in Desks : desk[s].pc = "settle" => desk'[s] = desk[s]
  OBVIOUS

\* Rows that stand for no more money.
LEMMA UnitsOf ==
  ASSUME NEW rows, NEW others,
         \A r \in rows : r.cent = 0 \/ \E s \in others : s.id = r.id /\ s.cent \in Nat /\ r.cent \in 0..s.cent
  PROVE  Units(rows) \subseteq Units(others)
  <1> SUFFICES ASSUME NEW x \in Units(rows)
               PROVE  x \in Units(others)
    OBVIOUS
  <1>1. PICK r \in rows : x \in {r.id} \X (1..r.cent)
    BY UnitFacts
  <1>2. r.cent # 0
    BY <1>1
  <1>3. PICK s \in others : s.id = r.id /\ s.cent \in Nat /\ r.cent \in 0..s.cent
    BY <1>2
  <1>4. x \in {s.id} \X (1..s.cent)
    <2> DEFINE c == r.cent
               m == s.cent
    <2>1. \A y \in 1..c : y \in 1..m
      BY <1>3
    <2> QED
      BY <1>1, <1>3, <2>1
  <1> QED
    BY <1>4, UnitFacts

LEMMA DeskSet ==
  ASSUME AiTypes, NEW t \in Desks, NEW d, At(t, d)
  PROVE  desk'[t] = d /\ \A s \in Desks : s # t => desk'[s] = desk[s]
  BY DEF At, AiTypes

\* A step of a desk that is neither answered nor settled, and passes no check.
LEMMA QuietStep ==
  ASSUME AiTypes, AiTypes', BudgetInv, Numbered', NEW t \in Desks, UNCHANGED <<spent, loose>>,
         \A s \in Desks : s # t => desk'[s] = desk[s],
         desk[t].pc # "settle", desk'[t].pc \notin {"call", "settle"},
         desk'[t].pc = "book" => desk[t].pc = "book",
         Units(Counted') \subseteq Units(Counted),
         CallsHaveRows =>
           /\ Units(DoneRows') = Units(DoneRows)
           /\ \A s \in Desks \ {t} : \A r \in usage : OnCall(s) /\ r.id = desk[s].row => r \in usage'
  PROVE  BudgetInv'
  <1>1. ASSUME ~loose
        PROVE  CallsHaveRows' /\ Charged' = Charged
    <2>1. CallsHaveRows
      BY <1>1 DEF BudgetInv
    <2>2. CallsHaveRows'
      BY <2>1, OffCall
    <2>3. /\ \A s \in Desks : desk'[s].pc = "settle" <=> desk[s].pc = "settle"
          /\ \A s \in Desks : desk[s].pc = "settle" => desk'[s] = desk[s]
      BY SettledSame
    <2>4. Charged' = Charged
      BY <2>1, <2>3, ChargedStays
    <2> QED
      BY <2>2, <2>4
  <1>2. \A s \in Desks : desk'[s].pc = "book" => desk[s].pc = "book"
    OBVIOUS
  <1> QED
    BY <1>1, <1>2, BudgetKeeps

\* A step that only concerns the table.
LEMMA TableStep ==
  ASSUME AiTypes, AiTypes', BudgetInv, Numbered', UNCHANGED <<desk, spent, loose>>,
         Units(Counted') \subseteq Units(Counted), Units(DoneRows') = Units(DoneRows),
         \A r \in usage : r.status = "running" /\ r.age = "new" => r \in usage'
  PROVE  BudgetInv'
  <1>1. ASSUME CallsHaveRows
        PROVE  CallsHaveRows'
    BY <1>1 DEF CallsHaveRows, OnCall
  <1>2. Charged' = Charged
    BY ChargedStays
  <1> QED
    BY <1>1, <1>2, BudgetKeeps DEF BudgetInv

LEMMA NoMoney == \A n, x : ~(x \in {n} \X (1..0))
  OBVIOUS

LEMMA AskBudget ==
  ASSUME AiTypes, AiTypes', BudgetInv, NEW t \in Desks, NEW u \in Users, NEW agent \in BOOLEAN, Ask(t, u, agent)
  PROVE  BudgetInv'
  <1>1. desk[t].pc = "idle" /\ NextRow <= MaxBookings /\ UNCHANGED <<spent, loose>> /\ Numbered
    BY DEF Ask, BudgetInv
  <1>2. CASE At(t, [Waiting EXCEPT !.pc = "check", !.user = u, !.agent = agent, !.round = 1]) /\ UNCHANGED usage
    <2> DEFINE d == [Waiting EXCEPT !.pc = "check", !.user = u, !.agent = agent, !.round = 1]
    <2>1. d.pc = "check"
      BY DEF Waiting
    <2>2. At(t, d)
      BY <1>2
    <2> HIDE DEF d
    <2>3. desk'[t] = d /\ \A s \in Desks : s # t => desk'[s] = desk[s]
      BY <2>2, DeskSet
    <2>4. Units(DoneRows') = Units(DoneRows) /\ Units(Counted') = Units(Counted) /\ Numbered'
      BY <1>1, <1>2, SameUsage
    <2> QED
      BY <1>1, <1>2, <2>1, <2>3, <2>4, QuietStep
  <1>3. CASE Booked(u, 0, "refused") /\ UNCHANGED desk
    <2>1. /\ Numbered' /\ usage \subseteq usage' /\ Units(DoneRows') = Units(DoneRows)
          /\ \A x : x \in Units(Counted') => x \in Units(Counted) \/ x \in {NextRow} \X (1..0)
      BY <1>1, <1>3, RowAdded
    <2>2. Units(Counted') \subseteq Units(Counted)
      BY <2>1, NoMoney
    <2> QED
      BY <1>1, <1>3, <2>1, <2>2, TableStep
  <1> QED
    BY <1>2, <1>3 DEF Ask

\* A row without money, while a desk goes back to waiting.
LEMMA RefusedBudget ==
  ASSUME AiTypes, AiTypes', BudgetInv, NEW t \in Desks, desk[t].pc # "settle", NextRow <= MaxBookings,
         UNCHANGED <<spent, loose>>, NEW u, Booked(u, 0, "refused"), At(t, Waiting)
  PROVE  BudgetInv'
  <1>1. desk'[t] = Waiting /\ \A s \in Desks : s # t => desk'[s] = desk[s]
    BY DeskSet
  <1>2. /\ Numbered' /\ usage \subseteq usage' /\ Units(DoneRows') = Units(DoneRows)
        /\ \A x : x \in Units(Counted') => x \in Units(Counted) \/ x \in {NextRow} \X (1..0)
    BY RowAdded DEF BudgetInv
  <1>3. Units(Counted') \subseteq Units(Counted)
    BY <1>2, NoMoney
  <1> QED
    BY <1>1, <1>2, <1>3, WaitingFacts, QuietStep

LEMMA CheckBudget ==
  ASSUME AiTypes, AiTypes', BudgetInv, NEW t \in Desks, Check(t)
  PROVE  BudgetInv'
  <1>1. desk[t].pc = "check" /\ NextRow <= MaxBookings /\ UNCHANGED <<spent, loose>> /\ Numbered
    BY DEF Check, CheckUnlocked, BudgetInv
  <1>2. CASE Permitted(desk[t].user)
    <2> DEFINE d == [desk[t] EXCEPT !.pc = "book"]
    <2>1. d.pc = "book"
      BY DEF AiTypes, DeskStates
    <2>2. At(t, d) /\ UNCHANGED usage /\ MonthSpend < Budget
      BY <1>2 DEF Check, CheckUnlocked, Permitted
    <2> HIDE DEF d
    <2>3. desk'[t] = d /\ \A s \in Desks : s # t => desk'[s] = desk[s]
      BY <2>2, DeskSet
    <2>4. Units(DoneRows') = Units(DoneRows) /\ Numbered' /\ MonthSpend' = MonthSpend
      BY <1>1, <2>2, SameUsage
    <2>5. ASSUME ~loose
          PROVE  CallsHaveRows' /\ spent' = Cardinality(Charged') /\ MonthSpend' < Budget + Max(Estimates)
      <3>1. CallsHaveRows /\ spent = Cardinality(Charged) /\ MonthSpend < Budget + Max(Estimates)
        BY <2>5 DEF BudgetInv
      <3>2. CallsHaveRows'
        BY <2>1, <2>2, <2>3, <3>1, OffCall
      <3>3. /\ \A s \in Desks : desk'[s].pc = "settle" <=> desk[s].pc = "settle"
            /\ \A s \in Desks : desk[s].pc = "settle" => desk'[s] = desk[s]
        BY <1>1, <2>1, <2>3, SettledSame
      <3>4. Charged' = Charged
        BY <2>4, <3>3, ChargedStays
      <3> QED
        BY <1>1, <2>4, <3>1, <3>2, <3>4
    <2> QED
      BY <1>1, <2>2, <2>4, <2>5 DEF BudgetInv
  <1>3. CASE ~Permitted(desk[t].user)
    <2>1. Booked(desk[t].user, 0, "refused") /\ At(t, Waiting)
      BY <1>3 DEF Check, CheckUnlocked
    <2> QED
      BY <1>1, <2>1, RefusedBudget
  <1> QED
    BY <1>2, <1>3

\* The booking of a call, at its estimate.
LEMMA BookBudget ==
  ASSUME AiInv, AiTypes', BudgetInv, NEW t \in Desks, Book(t)
  PROVE  BudgetInv'
  <1>1. /\ desk[t].pc = "book" /\ NextRow <= MaxBookings /\ UNCHANGED <<spent, loose>>
        /\ AiTypes /\ Numbered /\ bookingLock = t
    BY DEF Book, BudgetInv, AiInv, Reserved
  <1>2. CASE Booked(desk[t].user, 0, "refused") /\ At(t, Waiting)
    BY <1>1, <1>2, RefusedBudget
  <1>3. ASSUME NEW e \in Estimates, Booked(desk[t].user, e, "running"),
               At(t, [desk[t] EXCEPT !.pc = "call", !.row = NextRow, !.price = e])
        PROVE  BudgetInv'
    <2> DEFINE n == NextRow
               d == [desk[t] EXCEPT !.pc = "call", !.row = n, !.price = e]
    <2>1. d.pc = "call" /\ d.row = n /\ d.price = e
      BY <1>1 DEF AiTypes, DeskStates
    <2>2. At(t, d)
      BY <1>3
    <2> HIDE DEF d
    <2>3. desk'[t] = d /\ \A s \in Desks : s # t => desk'[s] = desk[s]
      BY <1>1, <2>2, DeskSet
    <2>4. e \in Nat /\ e <= Max(Estimates) /\ Max(Estimates) \in Nat /\ Budget \in Nat
      BY EstimateFacts
    <2>5. /\ Numbered' /\ usage \subseteq usage' /\ Units(DoneRows') = Units(DoneRows)
          /\ \A x : x \in Units(Counted') => x \in Units(Counted) \/ x \in {n} \X (1..e)
      <3> DEFINE u == desk[t].user
      <3>1. Booked(u, e, "running") /\ e \in Nat /\ "running" # "done"
        BY <1>3, <2>4
      <3> HIDE DEF u
      <3> QED
        BY <1>1, <3>1, RowAdded
    <2>6. \E r \in usage' : r.id = n /\ r.status = "running" /\ r.age = "new" /\ r.cent = e
      <3> DEFINE r == [id |-> n, user |-> desk[t].user, est |-> e, cent |-> e,
                       status |-> "running", age |-> "new"]
      <3>1. r \in usage'
        BY <1>3 DEF Booked
      <3>2. r.id = n /\ r.status = "running" /\ r.age = "new" /\ r.cent = e
        OBVIOUS
      <3> QED
        BY <3>1, <3>2
    <2>7. \A r \in usage : r.id # n
      <3>1. Cardinality(usage) \in Nat /\ n = Cardinality(usage) + 1
        BY <1>1, FS_CardinalityType DEF AiTypes, NextRow
      <3>2. \A r \in usage : r.id \in Nat /\ r.id <= Cardinality(usage)
        BY <1>1 DEF Numbered, AiTypes, BookingRows
      <3> HIDE DEF n
      <3> QED
        BY <3>1, <3>2
    <2> HIDE DEF n
    <2>8. \A s \in Desks : desk'[s].pc # "book"
      <3>1. \A s \in Desks : s # t => desk[s].pc # "book"
        BY <1>1, OneReserves
      <3> QED
        BY <2>1, <2>3, <3>1
    <2>9. ASSUME ~loose
          PROVE  CallsHaveRows' /\ spent' = Cardinality(Charged') /\ MonthSpend' < Budget + Max(Estimates)
      <3>1. CallsHaveRows /\ spent = Cardinality(Charged) /\ MonthSpend < Budget
        BY <1>1, <2>9 DEF BudgetInv
      <3>2. CallsHaveRows'
        <4>1. ASSUME NEW s \in Desks, s # t, OnCall(s)'
              PROVE  /\ \E r \in usage' : /\ r.id = desk'[s].row /\ r.status = "running" /\ r.age = "new"
                                          /\ IF desk'[s].pc = "call" THEN r.cent = desk'[s].price
                                                                     ELSE desk'[s].price <= r.cent
                     /\ desk'[s].row # n
                     /\ \A o \in Desks : OnCall(o) /\ desk[o].row = desk[s].row => o = s
          <5>1. OnCall(s) /\ desk'[s] = desk[s]
            BY <2>3, <4>1 DEF OnCall
          <5> QED
            BY <2>5, <2>7, <3>1, <5>1 DEF CallsHaveRows
        <4>2. desk'[t].row = n /\ desk'[t].pc = "call" /\ desk'[t].price = e
          BY <2>1, <2>3
        <4>3. ASSUME NEW s \in Desks, OnCall(s)', NEW o \in Desks, OnCall(o)', desk'[o].row = desk'[s].row
              PROVE  o = s
          <5>1. CASE s = t
            BY <4>1, <4>2, <4>3, <5>1
          <5>2. CASE s # t
            <6>1. o # t
              BY <4>1, <4>2, <4>3, <5>2
            <6> QED
              BY <2>3, <4>1, <4>3, <5>2, <6>1 DEF OnCall
          <5> QED
            BY <5>1, <5>2
        <4> QED
          BY <2>6, <4>1, <4>2, <4>3 DEF CallsHaveRows, OnCall
      <3>3. Charged' = Charged
        <4>1. /\ \A s \in Desks : desk'[s].pc = "settle" <=> desk[s].pc = "settle"
              /\ \A s \in Desks : desk[s].pc = "settle" => desk'[s] = desk[s]
          BY <1>1, <2>1, <2>3, SettledSame
        <4> QED
          BY <2>5, <4>1, ChargedStays
      <3>4. MonthSpend' < Budget + Max(Estimates)
        <4> DEFINE more == {n} \X (1..e)
        <4>1. IsFiniteSet(more) /\ Cardinality(more) = e
          <5>1. IsFiniteSet({n}) /\ Cardinality({n}) = 1
            BY FS_Singleton
          <5>2. IsFiniteSet(1..e) /\ Cardinality(1..e) = e
            BY <2>4, FS_Interval
          <5>3. IsFiniteSet(more) /\ Cardinality(more) = Cardinality({n}) * Cardinality(1..e)
            BY <5>1, <5>2, FS_Product
          <5> HIDE DEF more
          <5> QED
            BY <2>4, <5>1, <5>2, <5>3
        <4> HIDE DEF more
        <4>2. IsFiniteSet(Units(Counted)) /\ MonthSpend = Cardinality(Units(Counted)) /\ MonthSpend \in Nat
          BY <1>1, CountedFacts
        <4>3. /\ IsFiniteSet(Units(Counted) \cup more)
              /\ Cardinality(Units(Counted) \cup more) <= MonthSpend + e
          <5>1. /\ IsFiniteSet(Units(Counted) \cup more)
                /\ Cardinality(Units(Counted) \cup more) =
                     Cardinality(Units(Counted)) + Cardinality(more) - Cardinality(Units(Counted) \cap more)
            BY <4>1, <4>2, FS_Union
          <5>2. Cardinality(Units(Counted) \cap more) \in Nat
            BY <4>1, FS_Subset, FS_CardinalityType
          <5> QED
            BY <2>4, <4>1, <4>2, <5>1, <5>2
        <4>4. Units(Counted') \in SUBSET (Units(Counted) \cup more)
          BY <2>5 DEF more
        <4>5. /\ Cardinality(Units(Counted')) <= Cardinality(Units(Counted) \cup more)
              /\ Cardinality(Units(Counted')) \in Nat
          BY <4>3, <4>4, FS_Subset, FS_CardinalityType
        <4>6. MonthSpend' = Cardinality(Units(Counted'))
          BY DEF MonthSpend, Units
        <4>7. Cardinality(Units(Counted) \cup more) \in Nat
          BY <4>3, FS_CardinalityType
        <4> QED
          BY <2>4, <3>1, <4>2, <4>3, <4>5, <4>6, <4>7
      <3> QED
        BY <1>1, <3>1, <3>2, <3>3, <3>4
    <2> QED
      BY <1>1, <2>5, <2>8, <2>9 DEF BudgetInv
  <1> QED
    BY <1>2, <1>3 DEF Book

\* The provider's answer is charged, and from then on is about to be settled.
LEMMA AnsweredBudget ==
  ASSUME AiTypes, AiTypes', BudgetInv, NEW t \in Desks, Answered(t)
  PROVE  BudgetInv'
  <1>1. desk[t].pc = "call" /\ UNCHANGED <<usage, bookingLock>> /\ Numbered
    BY DEF Answered, BudgetInv
  <1>2. PICK price \in 0..(desk[t].price + IF desk[t].agent THEN 1 ELSE 0) :
          /\ spent' = spent + price
          /\ loose' = (loose \/ price > desk[t].price)
          /\ At(t, [desk[t] EXCEPT !.pc = "settle", !.price = price])
    BY DEF Answered
  <1> DEFINE d == [desk[t] EXCEPT !.pc = "settle", !.price = price]
             row == desk[t].row
             booked == desk[t].price
  <1>3. /\ d.pc = "settle" /\ d.row = row /\ d.price = price
        /\ row \in Nat /\ booked \in Nat /\ price \in Nat /\ spent \in Nat
    BY DEF AiTypes, DeskStates
  <1>4. desk'[t] = d /\ \A s \in Desks : s # t => desk'[s] = desk[s]
    BY <1>2, DeskSet
  <1>5. Numbered' /\ Units(DoneRows') = Units(DoneRows) /\ MonthSpend' = MonthSpend
    BY <1>1, SameUsage
  <1>6. loose' = (loose \/ price > booked)
    BY <1>2
  <1> HIDE DEF d, row, booked
  <1>7. ASSUME ~loose'
        PROVE  /\ CallsHaveRows' /\ spent' = Cardinality(Charged')
               /\ MonthSpend' < Budget + Max(Estimates)
               /\ \A s \in Desks : desk'[s].pc = "book" => MonthSpend' < Budget
    <2>1. ~loose /\ price <= booked
      <3>1. ~loose /\ ~(price > booked)
        BY <1>6, <1>7, Zenon
      <3> QED
        BY <1>3, <3>1
    <2>2. CallsHaveRows /\ spent = Cardinality(Charged)
      BY <2>1 DEF BudgetInv
    <2>3. PICK r \in usage : r.id = row /\ r.status = "running" /\ r.age = "new" /\ r.cent = booked
      BY <1>1, <2>2 DEF CallsHaveRows, OnCall, row, booked
    <2>4. \A s \in Desks : s # t /\ OnCall(s) => desk[s].row # row
      BY <1>1, <2>2 DEF CallsHaveRows, OnCall, row
    <2>5. CallsHaveRows'
      <3>1. \A s \in Desks : OnCall(s)' => OnCall(s) /\ desk'[s].row = desk[s].row
        BY <1>1, <1>3, <1>4 DEF OnCall, row
      <3>2. ASSUME NEW s \in Desks, OnCall(s)'
            PROVE  \E q \in usage' : /\ q.id = desk'[s].row /\ q.status = "running" /\ q.age = "new"
                                     /\ IF desk'[s].pc = "call" THEN q.cent = desk'[s].price
                                                                ELSE desk'[s].price <= q.cent
        <4>1. CASE s = t
          BY <1>1, <1>3, <1>4, <2>1, <2>3, <4>1
        <4>2. CASE s # t
          BY <1>1, <1>4, <2>2, <3>1, <3>2, <4>2 DEF CallsHaveRows
        <4> QED
          BY <4>1, <4>2
      <3>3. \A s, o \in Desks : OnCall(s)' /\ OnCall(o)' /\ desk'[o].row = desk'[s].row => o = s
        BY <2>2, <3>1 DEF CallsHaveRows
      <3> QED
        BY <3>2, <3>3 DEF CallsHaveRows, OnCall
    <2> DEFINE more == {row} \X (1..price)
    <2>6. Charged' = Charged \cup more
      <3> DEFINE old == {s \in Desks : desk[s].pc = "settle"}
      <3>1. {s \in Desks : desk'[s].pc = "settle"} = old \cup {t}
        BY <1>3, <1>4
      <3>2. \A s \in old : desk'[s] = desk[s]
        BY <1>1, <1>4
      <3> DEFINE was == UNION {{desk[s].row} \X (1..desk[s].price) : s \in old}
                 is == UNION {{desk'[s].row} \X (1..desk'[s].price) : s \in old}
                 all == UNION {{desk'[s].row} \X (1..desk'[s].price) : s \in old \cup {t}}
      <3>3. Charged = Units(DoneRows) \cup was
        BY DEF Charged, DoneRows
      <3>4. Charged' = Units(DoneRows') \cup all
        <4>1. Charged' = Units(DoneRows') \cup UNION {{desk'[s].row} \X (1..desk'[s].price) : s \in {s \in Desks : desk'[s].pc = "settle"}}
          BY DEF Charged, DoneRows, Units
        <4> HIDE DEF old
        <4> QED
          BY <3>1, <4>1
      <3> HIDE DEF old
      <3>5. is = was
        BY <3>2
      <3>6. {desk'[t].row} \X (1..desk'[t].price) = more
        BY <1>3, <1>4
      <3>7. all = is \cup ({desk'[t].row} \X (1..desk'[t].price))
        OBVIOUS
      <3> HIDE DEF was, is, all, more
      <3> QED
        BY <1>5, <3>3, <3>4, <3>5, <3>6, <3>7
    <2>7. Charged \cap more = {}
      <3> SUFFICES ASSUME NEW x \in Charged, x \in more
                   PROVE  FALSE
        OBVIOUS
      <3>1. CASE x \in Units({q \in usage : q.status = "done"})
        <4>1. PICK q \in usage : q.status = "done" /\ x \in {q.id} \X (1..q.cent)
          BY <3>1, UnitFacts
        <4>2. q.id = row
          BY <4>1
        <4>3. q = r
          BY <1>1, <2>3, <4>2 DEF Numbered
        <4> QED
          BY <2>3, <4>1, <4>3
      <3>2. CASE x \in UNION {{desk[s].row} \X (1..desk[s].price) : s \in {s \in Desks : desk[s].pc = "settle"}}
        <4>1. PICK s \in Desks : desk[s].pc = "settle" /\ x \in {desk[s].row} \X (1..desk[s].price)
          BY <3>2
        <4>2. desk[s].row = row
          BY <4>1
        <4>3. s # t /\ OnCall(s)
          BY <1>1, <4>1 DEF OnCall
        <4> QED
          BY <2>4, <4>2, <4>3
      <3> QED
        BY <3>1, <3>2 DEF Charged
    <2>8. IsFiniteSet(more) /\ Cardinality(more) = price
      <3>1. IsFiniteSet({row}) /\ Cardinality({row}) = 1
        BY FS_Singleton
      <3>2. IsFiniteSet(1..price) /\ Cardinality(1..price) = price
        BY <1>3, FS_Interval
      <3>3. IsFiniteSet(more) /\ Cardinality(more) = Cardinality({row}) * Cardinality(1..price)
        BY <3>1, <3>2, FS_Product
      <3> HIDE DEF more
      <3> QED
        BY <1>3, <3>1, <3>2, <3>3
    <2> HIDE DEF more
    <2>9. Cardinality(Charged') = spent + price
      <3>1. IsFiniteSet(Charged)
        BY <2>2, ChargedIsCounted
      <3>2. Cardinality(Charged \cup more) = Cardinality(Charged) + Cardinality(more) - Cardinality(Charged \cap more)
        BY <2>8, <3>1, FS_Union
      <3>3. Cardinality(Charged \cap more) = 0
        BY <2>7, FS_EmptySet
      <3> QED
        BY <1>3, <2>2, <2>6, <2>8, <3>2, <3>3
    <2>10. \A s \in Desks : desk'[s].pc = "book" => desk[s].pc = "book"
      BY <1>3, <1>4
    <2> QED
      BY <1>2, <1>5, <2>1, <2>5, <2>9, <2>10 DEF BudgetInv
  <1> QED
    BY <1>5, <1>7 DEF BudgetInv

\* A call without an answer gives its booking back, or leaves it running.
LEMMA CallFailsBudget ==
  ASSUME AiTypes, AiTypes', BudgetInv, NEW t \in Desks, CallFails(t)
  PROVE  BudgetInv'
  <1> DEFINE row == desk[t].row
  <1>1. desk[t].pc = "call" /\ UNCHANGED <<spent, loose>> /\ At(t, Waiting) /\ Numbered
    BY DEF CallFails, BudgetInv
  <1>2. desk'[t] = Waiting /\ \A s \in Desks : s # t => desk'[s] = desk[s]
    BY <1>1, DeskSet
  <1>3. Waiting.pc = "idle"
    BY WaitingFacts
  <1>4. CASE UNCHANGED usage
    <2>1. Numbered' /\ Units(DoneRows') = Units(DoneRows) /\ Units(Counted') = Units(Counted)
      BY <1>1, <1>4, SameUsage
    <2> QED
      BY <1>1, <1>2, <1>3, <1>4, <2>1, QuietStep
  <1>5. CASE Rebooked(row, 0, "failed")
    <2>1. /\ Numbered'
          /\ \A r \in usage : r.id # row => r \in usage'
          /\ \A q \in usage' : \/ q \in usage /\ q.id # row
                               \/ q.id = row /\ q.cent = 0 /\ q.status = "failed"
      BY <1>1, <1>5, RowRebooked
    <2>2. Units(Counted') \subseteq Units(Counted)
      <3>1. \A q \in Counted' : q.cent = 0 \/ q \in Counted
        BY <2>1 DEF Counted
      <3>2. \A q \in Counted : q.cent \in Nat
        BY DEF Counted, AiTypes, BookingRows
      <3> QED
        BY <3>1, <3>2, UnitsOf
    <2>3. ASSUME CallsHaveRows
          PROVE  /\ Units(DoneRows') = Units(DoneRows)
                 /\ \A s \in Desks \ {t} : \A r \in usage : OnCall(s) /\ r.id = desk[s].row => r \in usage'
      <3>1. \A r \in DoneRows : r.id # row
        BY <1>1, <2>3 DEF CallsHaveRows, OnCall, Numbered, DoneRows
      <3>2. DoneRows' = DoneRows
        BY <2>1, <3>1 DEF DoneRows
      <3>3. \A s \in Desks \ {t} : OnCall(s) => desk[s].row # row
        BY <1>1, <2>3 DEF CallsHaveRows, OnCall
      <3> QED
        BY <2>1, <3>2, <3>3
    <2> HIDE DEF row
    <2> QED
      BY <1>1, <1>2, <1>3, <2>1, <2>2, <2>3, QuietStep
  <1> QED
    BY <1>4, <1>5 DEF CallFails

\* The settled row carries what was about to be settled.
LEMMA SettleBudget ==
  ASSUME AiTypes, AiTypes', BudgetInv, NEW t \in Desks, Settle(t)
  PROVE  BudgetInv'
  <1> DEFINE row == desk[t].row
             price == desk[t].price
             d == IF desk[t].agent THEN [desk[t] EXCEPT !.pc = "turn"] ELSE Waiting
  <1>1. desk[t].pc = "settle" /\ UNCHANGED spent /\ At(t, d) /\ Numbered /\ row \in Nat /\ price \in Nat
    BY DEF Settle, BudgetInv, AiTypes, DeskStates
  <1>2. d.pc \in {"turn", "idle"}
    BY WaitingFacts DEF AiTypes, DeskStates
  <1>3. desk'[t] = d /\ \A s \in Desks : s # t => desk'[s] = desk[s]
    BY <1>1, DeskSet
  <1>4. \/ Settled(t) /\ UNCHANGED loose
        \/ UNCHANGED usage /\ loose' = TRUE
    BY DEF Settle
  <1> HIDE DEF d
  <1>5. CASE UNCHANGED usage /\ loose' = TRUE
    BY <1>1, <1>5, SameUsage DEF BudgetInv
  <1>6. CASE Settled(t) /\ UNCHANGED loose
    <2>1. Rebooked(row, price, "done")
      BY <1>6 DEF Settled
    <2> HIDE DEF row, price
    <2>2. /\ Numbered'
          /\ \A r \in usage : r.id # row => r \in usage'
          /\ \A q \in usage' : \/ q \in usage /\ q.id # row
                               \/ q.id = row /\ q.cent = price /\ q.status = "done"
          /\ (\E r \in usage : r.id = row) => \E q \in usage' : q.id = row /\ q.cent = price /\ q.status = "done"
      BY <1>1, <2>1, RowRebooked
    <2>3. ASSUME ~loose
          PROVE  CallsHaveRows' /\ Charged' = Charged /\ Units(Counted') \subseteq Units(Counted)
      <3>1. CallsHaveRows
        BY <2>3 DEF BudgetInv
      <3>2. PICK r \in usage : r.id = row /\ r.status = "running" /\ r.age = "new" /\ price <= r.cent
        BY <1>1, <3>1 DEF CallsHaveRows, OnCall, row, price
      <3>3. PICK q \in usage' : q.id = row /\ q.cent = price /\ q.status = "done"
        BY <2>2, <3>2
      <3>4. \A p \in usage' : p = q \/ (p \in usage /\ p.id # row)
        BY <2>2, <3>3 DEF Numbered
      <3>5. \A s \in Desks \ {t} : OnCall(s) => desk[s].row # row
        BY <1>1, <3>1 DEF CallsHaveRows, OnCall, row
      <3>6. CallsHaveRows'
        <4>1. \A s \in Desks \ {t} : \A p \in usage : OnCall(s) /\ p.id = desk[s].row => p \in usage'
          BY <2>2, <3>5
        <4> QED
          BY <1>2, <1>3, <3>1, <4>1, OffCall
      <3>7. Units(Counted') \subseteq Units(Counted)
        <4>1. r \in Counted /\ r.cent \in Nat /\ price \in 0..r.cent
          BY <1>1, <3>2 DEF Counted, AiTypes, BookingRows
        <4>2. \A p \in Counted' : p = q \/ p \in Counted
          BY <3>4 DEF Counted
        <4>3. \A p \in Counted : p.cent \in Nat /\ p.cent \in 0..p.cent
          BY DEF Counted, AiTypes, BookingRows
        <4>4. \A p \in Counted' : \E s \in Counted : s.id = p.id /\ s.cent \in Nat /\ p.cent \in 0..s.cent
          BY <3>2, <3>3, <4>1, <4>2, <4>3
        <4> QED
          BY <4>4, UnitsOf
      <3>8. Charged' = Charged
        <4> DEFINE more == {row} \X (1..price)
                   left == {s \in Desks : desk[s].pc = "settle"} \ {t}
                   Waits == UNION {{desk[s].row} \X (1..desk[s].price) : s \in left}
        <4>1. DoneRows' = DoneRows \cup {q}
          <5>1. \A p \in DoneRows' : p = q \/ p \in DoneRows
            BY <3>4 DEF DoneRows
          <5>2. r.status # "done" /\ \A p \in usage : p.id = row => p = r
            BY <1>1, <3>2 DEF Numbered
          <5>3. \A p \in DoneRows : p.id # row /\ p \in usage
            BY <5>2 DEF DoneRows
          <5>4. \A p \in DoneRows : p \in DoneRows'
            BY <2>2, <5>3 DEF DoneRows
          <5>5. q \in DoneRows'
            BY <3>3 DEF DoneRows
          <5> QED
            BY <5>1, <5>4, <5>5
        <4>2. Units(DoneRows') = Units(DoneRows) \cup more
          BY <3>3, <4>1 DEF Units
        <4>3. Charged = Units(DoneRows) \cup (more \cup Waits)
          <5>1. {s \in Desks : desk[s].pc = "settle"} = left \cup {t}
            BY <1>1
          <5>2. Charged = Units(DoneRows) \cup UNION {{desk[s].row} \X (1..desk[s].price) : s \in {s \in Desks : desk[s].pc = "settle"}}
            BY DEF Charged, DoneRows
          <5> HIDE DEF left
          <5>3. UNION {{desk[s].row} \X (1..desk[s].price) : s \in left \cup {t}} = more \cup Waits
            BY DEF row, price
          <5> QED
            BY <5>1, <5>2, <5>3
        <4>4. Charged' = Units(DoneRows') \cup Waits
          <5>1. {s \in Desks : desk'[s].pc = "settle"} = left
            BY <1>2, <1>3
          <5>2. \A s \in left : desk'[s] = desk[s]
            BY <1>3
          <5>3. Charged' = Units(DoneRows') \cup UNION {{desk'[s].row} \X (1..desk'[s].price) : s \in {s \in Desks : desk'[s].pc = "settle"}}
            BY DEF Charged, DoneRows, Units
          <5> HIDE DEF left
          <5>4. UNION {{desk'[s].row} \X (1..desk'[s].price) : s \in left} = Waits
            BY <5>2
          <5> QED
            BY <5>1, <5>3, <5>4
        <4> HIDE DEF more, Waits
        <4> QED
          BY <4>2, <4>3, <4>4
      <3> QED
        BY <3>6, <3>7, <3>8
    <2>4. \A s \in Desks : desk'[s].pc = "book" => desk[s].pc = "book"
      BY <1>2, <1>3
    <2> QED
      BY <1>1, <1>6, <2>2, <2>3, <2>4, BudgetKeeps
  <1> QED
    BY <1>4, <1>5, <1>6

LEMMA TurnBudget ==
  ASSUME AiTypes, AiTypes', BudgetInv, NEW t \in Desks, Turn(t)
  PROVE  BudgetInv'
  <1>1. desk[t].pc = "turn" /\ UNCHANGED <<usage, spent, loose>> /\ Numbered
    BY DEF Turn, BudgetInv
  <1>2. desk'[t].pc \in {"idle", "check"} /\ \A s \in Desks : s # t => desk'[s] = desk[s]
    <2>1. CASE At(t, Waiting)
      BY <2>1, DeskSet, WaitingFacts
    <2>2. CASE At(t, [desk[t] EXCEPT !.pc = "check", !.round = @ + 1, !.row = 0, !.price = 0])
      <3> DEFINE d == [desk[t] EXCEPT !.pc = "check", !.round = @ + 1, !.row = 0, !.price = 0]
      <3>1. d.pc = "check"
        BY DEF AiTypes, DeskStates
      <3>2. At(t, d)
        BY <2>2
      <3> HIDE DEF d
      <3> QED
        BY <3>1, <3>2, DeskSet
    <2> QED
      BY <2>1, <2>2 DEF Turn
  <1>3. Numbered' /\ Units(DoneRows') = Units(DoneRows) /\ Units(Counted') = Units(Counted)
    BY <1>1, SameUsage
  <1> QED
    BY <1>1, <1>2, <1>3, QuietStep

LEMMA CheckConnectionBudget ==
  ASSUME AiTypes, AiTypes', BudgetInv, NEW u \in Users, CheckConnection(u)
  PROVE  BudgetInv'
  <1>1. NextRow <= MaxBookings /\ Booked(u, 0, "done") /\ UNCHANGED <<desk, spent, loose>> /\ Numbered
    BY DEF CheckConnection, BudgetInv
  <1>2. /\ Numbered' /\ usage \subseteq usage' /\ Units(DoneRows') = Units(DoneRows)
        /\ \A x : x \in Units(Counted') => x \in Units(Counted) \/ x \in {NextRow} \X (1..0)
    BY <1>1, RowAdded
  <1>3. Units(Counted') \subseteq Units(Counted)
    BY <1>2, NoMoney
  <1> QED
    BY <1>1, <1>2, <1>3, TableStep

\* Bookings grow old; of those still running the money is counted no longer.
LEMMA TimePassesBudget ==
  ASSUME AiTypes, AiTypes', BudgetInv, TimePasses
  PROVE  BudgetInv'
  <1> DEFINE g == [r \in usage |-> [r EXCEPT !.age = Older(r.age)]]
  <1>1. usage' = {g[r] : r \in usage} /\ UNCHANGED <<desk, spent>> /\ Numbered
        /\ loose' = (loose \/ \E t \in Desks : desk[t].pc \in {"call", "settle"})
    BY DEF TimePasses, BudgetInv
  <1>2. ASSUME NEW r \in usage
        PROVE  /\ g[r] \in BookingRows /\ g[r].id = r.id /\ g[r].cent = r.cent
               /\ g[r].status = r.status /\ g[r].age # "new" /\ r.cent \in Nat
    BY <1>2 DEF AiTypes, BookingRows, Older
  <1>3. g \in [usage -> BookingRows]
    BY <1>2
  <1> HIDE DEF g
  <1>4. Numbered'
    BY <1>1, <1>2, <1>3, NumbersKept
  <1>5. Units(Counted') \subseteq Units(Counted)
    <2>1. \A q \in Counted' : \E r \in Counted : r.id = q.id /\ r.cent = q.cent /\ r.cent \in Nat
      BY <1>1, <1>2 DEF Counted
    <2>2. \A q \in Counted' : \E r \in Counted : r.id = q.id /\ r.cent \in Nat /\ q.cent \in 0..r.cent
      BY <2>1
    <2> QED
      BY <2>2, UnitsOf
  <1>6. Units(DoneRows') = Units(DoneRows)
    <2>1. /\ \A q \in DoneRows' : \E r \in DoneRows : r.id = q.id /\ r.cent = q.cent /\ r.cent \in Nat
          /\ \A q \in DoneRows : \E r \in DoneRows' : r.id = q.id /\ r.cent = q.cent /\ r.cent \in Nat
      BY <1>1, <1>2 DEF DoneRows
    <2>2. /\ \A q \in DoneRows' : \E r \in DoneRows : r.id = q.id /\ r.cent \in Nat /\ q.cent \in 0..r.cent
          /\ \A q \in DoneRows : \E r \in DoneRows' : r.id = q.id /\ r.cent \in Nat /\ q.cent \in 0..r.cent
      BY <2>1
    <2>3. Units(DoneRows') \subseteq Units(DoneRows)
      BY <2>2, UnitsOf
    <2>4. Units(DoneRows) \subseteq Units(DoneRows')
      BY <2>2, UnitsOf
    <2> QED
      BY <2>3, <2>4
  <1>7. ASSUME ~loose'
        PROVE  CallsHaveRows' /\ Charged' = Charged
    <2>1. CallsHaveRows'
      BY <1>1, <1>7 DEF CallsHaveRows, OnCall
    <2>2. Charged' = Charged
      BY <1>1, <1>6, ChargedStays
    <2> QED
      BY <2>1, <2>2
  <1> QED
    BY <1>1, <1>4, <1>5, <1>7, BudgetKeeps

LEMMA SweepStuckBudget ==
  ASSUME AiTypes, AiTypes', BudgetInv, SweepStuck
  PROVE  BudgetInv'
  <1> DEFINE stuck == {r \in usage : r.status = "running" /\ r.age # "new"}
             g == [r \in usage |-> IF r \in stuck THEN [r EXCEPT !.status = "failed", !.cent = 0] ELSE r]
  <1>1. usage' = {g[r] : r \in usage} /\ UNCHANGED <<desk, spent, loose>> /\ Numbered
    BY DEF SweepStuck, BudgetInv
  <1>2. ASSUME NEW r \in usage
        PROVE  /\ g[r] \in BookingRows /\ g[r].id = r.id /\ r.cent \in Nat
               /\ r \in stuck => g[r].status = "failed" /\ g[r].cent = 0
               /\ r \notin stuck => g[r] = r
    BY <1>2 DEF AiTypes, BookingRows
  <1>3. g \in [usage -> BookingRows]
    BY <1>2
  <1> HIDE DEF g
  <1>4. Numbered'
    BY <1>1, <1>2, <1>3, NumbersKept
  <1>5. \A q \in usage' : (q.cent = 0 /\ q.status = "failed") \/ q \in usage
    BY <1>1, <1>2
  <1>6. \A r \in usage : r \notin stuck => r \in usage'
    BY <1>1, <1>2
  <1>7. Units(Counted') \subseteq Units(Counted)
    <2>1. \A q \in Counted' : q.cent = 0 \/ q \in Counted
      BY <1>5 DEF Counted
    <2>2. \A q \in Counted : q.cent \in Nat
      BY DEF Counted, AiTypes, BookingRows
    <2> QED
      BY <2>1, <2>2, UnitsOf
  <1>8. DoneRows' = DoneRows
    BY <1>5, <1>6 DEF DoneRows
  <1> QED
    BY <1>1, <1>4, <1>6, <1>7, <1>8, TableStep

LEMMA BudgetAtStart == AiInit => BudgetInv
  <1> SUFFICES ASSUME AiInit
               PROVE  BudgetInv
    OBVIOUS
  <1>1. usage = {} /\ spent = 0 /\ \A t \in Desks : desk[t] = Waiting
    BY DEF AiInit
  <1>2. Units(Counted) = {}
    BY <1>1 DEF Units, Counted
  <1>3. MonthSpend = 0
    BY <1>2, FS_EmptySet DEF MonthSpend
  <1>4. \A t \in Desks : desk[t].pc = "idle"
    BY <1>1, WaitingFacts
  <1>5. Charged = {}
    BY <1>1, <1>4 DEF Charged, Units
  <1>6. Cardinality(Charged) = 0
    BY <1>5, FS_EmptySet
  <1>7. Numbered /\ CallsHaveRows
    BY <1>1, <1>4 DEF Numbered, CallsHaveRows, OnCall
  <1> QED
    BY <1>1, <1>3, <1>4, <1>6, <1>7, EstimateFacts DEF BudgetInv

LEMMA BudgetGoesOn ==
  ASSUME AiInv, AiInv', BudgetInv, [AiNext]_aiVars
  PROVE  BudgetInv'
  <1>1. AiTypes /\ AiTypes'
    BY DEF AiInv
  <1>2. ASSUME NEW t \in Desks, NEW u \in Users, NEW agent \in BOOLEAN, Ask(t, u, agent)
        PROVE  BudgetInv'
    BY <1>1, <1>2, AskBudget
  <1>3. ASSUME NEW t \in Desks,
               Check(t) \/ Book(t) \/ Answered(t) \/ CallFails(t) \/ Settle(t) \/ Turn(t)
        PROVE  BudgetInv'
    BY <1>1, <1>3, CheckBudget, BookBudget, AnsweredBudget, CallFailsBudget, SettleBudget, TurnBudget
  <1>4. CASE TimePasses
    BY <1>1, <1>4, TimePassesBudget
  <1>5. CASE SweepStuck
    BY <1>1, <1>5, SweepStuckBudget
  <1>6. ASSUME NEW u \in Users, CheckConnection(u)
        PROVE  BudgetInv'
    BY <1>1, <1>6, CheckConnectionBudget
  <1>7. CASE UNCHANGED aiVars
    <2>1. UNCHANGED <<usage, desk, spent, loose>>
      BY <1>7 DEF aiVars
    <2>2. Numbered' /\ Units(DoneRows') = Units(DoneRows) /\ Units(Counted') = Units(Counted)
      BY <2>1, SameUsage DEF BudgetInv
    <2> QED
      BY <1>1, <2>1, <2>2, TableStep
  <1> QED
    BY <1>2, <1>3, <1>4, <1>5, <1>6, <1>7 DEF AiNext

\* The month's money is overdrawn by less than one call, and no user's hour is, whatever
\* desks ask at once, fail or leave their booking behind: what the provider charged is
\* always among what the table counts, row by row (ai_budget_service.py).
THEOREM LimitsAlwaysHold == AiSpec => []LimitsHold
  <1>1. AiInit => AiInv /\ BudgetInv
    BY CallsStart, BudgetAtStart
  <1>2. AiInv /\ BudgetInv /\ [AiNext]_aiVars => AiInv' /\ BudgetInv'
    BY CallsGoOn, BudgetGoesOn
  <1>3. AiInv /\ BudgetInv => LimitsHold
    BY BudgetFollows DEF AiInv, LimitsHold
  <1> QED
    BY <1>1, <1>2, <1>3, PTL DEF AiSpec

-----------------------------------------------------------------------------
(* Schedules: the jobs and their timers                                      *)

\* A bounded set of numbers has a largest one.
LEMMA MaxFacts ==
  ASSUME NEW n \in Nat, NEW S \in SUBSET (0..n), S # {}
  PROVE  Max(S) \in S /\ \A y \in S : y <= Max(S)
  <1> DEFINE T == {n - x : x \in S}
  <1>0. \A x \in S : x \in Nat /\ n - x \in Nat
    OBVIOUS
  <1>1. T \subseteq Nat /\ T # {}
    BY <1>0
  <1>2. PICK m \in T : \A y \in T : ~(<<y, m>> \in OpToRel(<, Nat))
    BY <1>1, NatLessThanWellFounded, WFMin
  <1>3. PICK x \in S : m = n - x
    OBVIOUS
  <1>4. \A y \in S : x >= y
    <2> TAKE y \in S
    <2>1. n - y \in T /\ n - y \in Nat /\ m \in Nat
      BY <1>1
    <2>2. ~(n - y < m)
      BY <1>2, <2>1 DEF OpToRel
    <2> QED
      BY <1>3, <2>2
  <1>5. Max(S) \in S /\ \A y \in S : Max(S) >= y
    BY <1>3, <1>4 DEF Max
  <1> QED
    BY <1>5

JobRows == [id : 1..MaxJobs, owner : Owners, trigger : Triggers, enabled : BOOLEAN]
Entries == [id : 1..MaxJobs, trigger : Triggers]
Errands == [pc : {"idle", "set", "refresh", "sync", "drop"}, id : 0..MaxJobs, enabled : BOOLEAN,
            trigger : Triggers]
Runs == [id : 1..MaxJobs, pc : {"load", "execute"}, own : BOOLEAN, alone : BOOLEAN]
Alike(rows) == \A j, k \in rows : j.id = k.id => j = k

ScheduleTypes ==
  /\ jobs \subseteq JobRows /\ Alike(jobs)
  /\ timers \subseteq Entries /\ Alike(timers)
  /\ firings \subseteq Runs /\ Alike(firings)
  /\ hand \in [Hands -> Errands]
  /\ past \subseteq Once /\ boot \subseteq JobIds /\ crossed \subseteq 1..MaxJobs

\* Two requests at one row have crossed, and only such a row goes while one is at work on it.
RequestsMeet ==
  \A t \in Hands : hand[t].pc # "idle" /\ hand[t].id \notin crossed =>
    /\ hand[t].id \in JobIds
    /\ \A u \in Hands : hand[u].pc # "idle" /\ hand[u].id = hand[t].id => u = t

\* What a request is about to enter is what the row says; a firing may have paused the row.
SyncsFit ==
  \A t \in Hands, j \in jobs : hand[t].pc = "sync" /\ j.id = hand[t].id /\ j.id \notin crossed =>
    hand[t].trigger = j.trigger /\ (j.enabled => hand[t].enabled)

\* Requests are not served before the start is over.
StartIsQuiet == boot # {} => \A t \in Hands : hand[t].pc = "idle"

\* An entry of another job than the row with its number meets a paused row only.
EntriesFit ==
  \A e \in timers, j \in jobs :
    j.id = e.id /\ j.enabled /\ j.id \notin crossed /\ ~AtWorkOn(j.id) => j.trigger = e.trigger

\* So does a firing, until somebody works on the row.
FiringsFit ==
  \A f \in firings : f.pc = "load" /\ f.alone /\ f.id \notin crossed =>
    /\ ~AtWorkOn(f.id)
    /\ f.own \/ \A j \in jobs : j.id = f.id => ~j.enabled

ScheduleInv ==
  /\ ScheduleTypes /\ RequestsMeet /\ SyncsFit /\ StartIsQuiet /\ EntriesFit /\ FiringsFit
  /\ ActiveJobsAreTimed /\ JobsRunAtTheirTimes
-----------------------------------------------------------------------------
LEMMA JobFacts ==
  ASSUME ScheduleTypes, NEW i \in JobIds
  PROVE  /\ Job(i) \in jobs /\ Job(i).id = i /\ Job(i) \in JobRows
         /\ \A j \in jobs : j.id = i => j = Job(i)
  BY DEF ScheduleTypes, JobIds, Job, Alike

LEMMA SwitchedFacts ==
  ASSUME ScheduleTypes, NEW i \in JobIds, NEW b \in BOOLEAN
  PROVE  /\ Switched(i, b) \subseteq JobRows /\ Alike(Switched(i, b))
         /\ {j.id : j \in Switched(i, b)} = JobIds
         /\ \A j \in Switched(i, b) : j.id # i => j \in jobs
         /\ \A j \in Switched(i, b) : j.id = i => j.enabled = b
         /\ \A j \in Switched(i, b) : \E k \in jobs : k.id = j.id /\ k.trigger = j.trigger
  <1> DEFINE w == [Job(i) EXCEPT !.enabled = b]
  <1>1. Job(i) \in jobs /\ Job(i).id = i /\ Job(i) \in JobRows
    BY JobFacts
  <1>2. w \in JobRows /\ w.id = i /\ w.trigger = Job(i).trigger /\ w.enabled = b
    BY <1>1 DEF JobRows
  <1>3. Switched(i, b) = {k \in jobs : k.id # i} \cup {w}
    BY DEF Switched
  <1> HIDE DEF w
  <1>4. Switched(i, b) \subseteq JobRows /\ Alike(Switched(i, b))
    BY <1>2, <1>3 DEF ScheduleTypes, Alike
  <1>5. {j.id : j \in Switched(i, b)} = JobIds
    BY <1>1, <1>2, <1>3 DEF JobIds
  <1>6. \A j \in Switched(i, b) : (j.id # i => j \in jobs) /\ (j.id = i => j.enabled = b)
    BY <1>2, <1>3
  <1>7. \A j \in Switched(i, b) : \E k \in jobs : k.id = j.id /\ k.trigger = j.trigger
    BY <1>1, <1>2, <1>3
  <1> QED
    BY <1>4, <1>5, <1>6, <1>7

LEMMA NewJobFacts ==
  ASSUME ScheduleTypes
  PROVE  NewJobId \in Nat /\ NewJobId >= 1 /\ \A j \in jobs : j.id \in Nat /\ j.id < NewJobId
  <1> DEFINE S == JobIds \cup {0}
  <1>1. S \in SUBSET (0..MaxJobs) /\ S # {} /\ MaxJobs \in Nat
    BY ScheduleAssumption DEF ScheduleTypes, JobRows, JobIds
  <1>2. Max(S) \in S /\ \A y \in S : y <= Max(S)
    BY <1>1, MaxFacts
  <1>3. NewJobId = 1 + Max(S)
    BY DEF NewJobId
  <1>4. \A j \in jobs : j.id \in S
    BY DEF JobIds
  <1>5. \A y \in S : y \in Nat
    BY <1>1
  <1> HIDE DEF S
  <1> DEFINE m == Max(S)
  <1>6. m \in Nat /\ \A j \in jobs : j.id \in Nat /\ j.id <= m
    BY <1>2, <1>4, <1>5
  <1>7. NewJobId = 1 + m
    BY <1>3
  <1> HIDE DEF m
  <1> QED
    BY <1>6, <1>7

LEMMA IdleFacts == Idle \in Errands /\ Idle.pc = "idle"
  BY ScheduleAssumption DEF Idle, Errands

\* What a request at rows "ids" leaves of the firings.
FiringsMeet(ids) ==
  /\ firings' \subseteq Runs /\ Alike(firings)'
  /\ \A g \in firings' : g.alone /\ g.pc = "load" => g.id \notin ids
  /\ \A g \in firings' : \E f \in firings :
       f.id = g.id /\ f.pc = g.pc /\ (f.own => g.own) /\ (g.alone => f.alone)

LEMMA DropFacts ==
  ASSUME NEW i \in 1..MaxJobs
  PROVE  LET h == [Idle EXCEPT !.pc = "drop", !.id = i]
         IN  h \in Errands /\ h.pc = "drop" /\ h.id = i
  <1>1. i \in 0..MaxJobs
    BY ScheduleAssumption
  <1> QED
    BY <1>1, IdleFacts DEF Errands

LEMMA CrossFacts ==
  ASSUME ScheduleTypes, NEW ids, ids \subseteq 1..MaxJobs, Crosses(ids)
  PROVE  /\ crossed' \subseteq 1..MaxJobs /\ crossed \subseteq crossed'
         /\ \A i \in ids : AtWorkOn(i) => i \in crossed'
         /\ FiringsMeet(ids)
  <1> DEFINE Met(f) == [f EXCEPT !.alone = @ /\ (f.id \in ids => f.pc # "load")]
  <1>1. \A f \in firings : /\ Met(f) \in Runs /\ Met(f).id = f.id /\ Met(f).pc = f.pc /\ Met(f).own = f.own
                          /\ Met(f).alone = (f.alone /\ (f.id \in ids => f.pc # "load"))
    BY DEF ScheduleTypes, Runs
  <1>2. firings' = {Met(f) : f \in firings} /\ crossed' = crossed \cup {i \in ids : AtWorkOn(i)}
    BY DEF Crosses
  <1> HIDE DEF Met
  <1>3. \A g \in firings' : \E f \in firings : g = Met(f)
    BY <1>2
  <1>4. firings' \subseteq Runs /\ Alike(firings)'
    BY <1>1, <1>3 DEF Alike, ScheduleTypes
  <1>5. /\ \A g \in firings' : g.alone /\ g.pc = "load" => g.id \notin ids
        /\ \A g \in firings' : \E f \in firings :
             f.id = g.id /\ f.pc = g.pc /\ (f.own => g.own) /\ (g.alone => f.alone)
    BY <1>1, <1>3
  <1> QED
    BY <1>2, <1>4, <1>5 DEF ScheduleTypes, FiringsMeet

LEMMA MetFirings ==
  ASSUME NEW ids, FiringsMeet(ids), crossed \subseteq crossed', FiringsFit, JobsRunAtTheirTimes,
         \A i : i \notin ids /\ AtWorkOn(i)' => AtWorkOn(i),
         \A j \in jobs' : j.id \notin ids => j \in jobs
  PROVE  FiringsFit' /\ JobsRunAtTheirTimes'
  <1>1. JobsRunAtTheirTimes'
    <2> SUFFICES ASSUME NEW g \in firings', g.pc = "execute", g.alone, g.id \notin crossed'
                 PROVE  g.own
      BY DEF JobsRunAtTheirTimes
    <2>1. PICK f \in firings : f.id = g.id /\ f.pc = g.pc /\ (f.own => g.own) /\ (g.alone => f.alone)
      BY DEF FiringsMeet
    <2>2. f.pc = "execute" /\ f.alone /\ f.id \notin crossed
      BY <2>1
    <2> QED
      BY <2>1, <2>2 DEF JobsRunAtTheirTimes
  <1>2. FiringsFit'
    <2> SUFFICES ASSUME NEW g \in firings', g.pc = "load", g.alone, g.id \notin crossed'
                 PROVE  ~AtWorkOn(g.id)' /\ (g.own \/ \A j \in jobs' : j.id = g.id => ~j.enabled)
      BY DEF FiringsFit
    <2>1. PICK f \in firings : f.id = g.id /\ f.pc = g.pc /\ (f.own => g.own) /\ (g.alone => f.alone)
      BY DEF FiringsMeet
    <2>2. f.pc = "load" /\ f.alone /\ f.id \notin crossed /\ g.id \notin ids
      BY <2>1 DEF FiringsMeet
    <2>3. ~AtWorkOn(f.id) /\ (f.own \/ \A j \in jobs : j.id = f.id => ~j.enabled)
      BY <2>2 DEF FiringsFit
    <2> QED
      BY <2>1, <2>2, <2>3
  <1> QED
    BY <1>1, <1>2

\* A request begins at row i.
LEMMA MetRequests ==
  ASSUME NEW t \in Hands, NEW i, RequestsMeet, SyncsFit, hand[t].pc = "idle",
         \A u \in Hands : u # t => hand'[u] = hand[u],
         hand'[t].pc # "idle", hand'[t].id = i, i \in JobIds', JobIds \subseteq JobIds',
         crossed \subseteq crossed', AtWorkOn(i) => i \in crossed',
         \A j \in jobs' : j \in jobs \/ j.id = i,
         \A j \in jobs' : hand'[t].pc = "sync" /\ j.id = i =>
           hand'[t].trigger = j.trigger /\ (j.enabled => hand'[t].enabled)
  PROVE  RequestsMeet' /\ SyncsFit'
  <1>1. \A u \in Hands : u # t /\ hand'[u].pc # "idle" /\ hand'[u].id \notin crossed' =>
          hand'[u].id # i /\ hand[u].pc # "idle" /\ hand[u].id \notin crossed
    BY DEF AtWorkOn
  <1>2. RequestsMeet'
    <2> SUFFICES ASSUME NEW u \in Hands, hand'[u].pc # "idle", hand'[u].id \notin crossed',
                        NEW v \in Hands, hand'[v].pc # "idle", hand'[v].id = hand'[u].id
                 PROVE  hand'[u].id \in JobIds' /\ v = u
      BY DEF RequestsMeet
    <2>1. CASE u = t
      BY <2>1, <1>1
    <2>2. CASE u # t
      <3>1. hand'[u].id # i /\ hand[u].pc # "idle" /\ hand[u].id \notin crossed /\ hand'[u] = hand[u]
        BY <2>2, <1>1
      <3>2. v # t /\ hand'[v] = hand[v]
        BY <3>1
      <3> QED
        BY <3>1, <3>2 DEF RequestsMeet
    <2> QED
      BY <2>1, <2>2
  <1>3. SyncsFit'
    <2> SUFFICES ASSUME NEW u \in Hands, NEW j \in jobs', hand'[u].pc = "sync", j.id = hand'[u].id,
                        j.id \notin crossed'
                 PROVE  hand'[u].trigger = j.trigger /\ (j.enabled => hand'[u].enabled)
      BY DEF SyncsFit
    <2>1. CASE u = t
      BY <2>1
    <2>2. CASE u # t
      <3>1. hand'[u].id # i /\ hand'[u] = hand[u] /\ j \in jobs /\ j.id \notin crossed
        BY <2>2, <1>1
      <3> QED
        BY <3>1 DEF SyncsFit
    <2> QED
      BY <2>1, <2>2
  <1> QED
    BY <1>2, <1>3

LEMMA JobsAreFinite ==
  ASSUME ScheduleTypes
  PROVE  IsFiniteSet(jobs)
  <1> DEFINE g == [j \in jobs |-> j.id]
  <1>1. g \in [jobs -> 1..MaxJobs] /\ \A j, k \in jobs : g[j] = g[k] => j = k
    BY DEF ScheduleTypes, JobRows, Alike
  <1>2. g \in Injection(jobs, 1..MaxJobs)
    BY <1>1 DEF Injection, IsInjective
  <1> QED
    BY <1>2, FS_Interval, FS_Injection, ScheduleAssumption

\* The copies have numbers of their own, and are paused.
LEMMA CopyFacts ==
  ASSUME ScheduleTypes, NEW o \in Owners, NEW p \in Owners,
         NewJobId + Cardinality({j \in jobs : j.owner = o}) <= MaxJobs + 1
  PROVE  /\ Copies(o, p) \subseteq JobRows /\ Alike(Copies(o, p))
         /\ \A k \in Copies(o, p) : k.id \notin JobIds /\ ~k.enabled
  <1> DEFINE mine == {j \in jobs : j.owner = o}
             c == Cardinality(mine)
             N == NewJobId
             Good(g) == \A j, k \in mine : j # k => g[j] # g[k]
             number == CHOOSE g \in [mine -> N..(N + c - 1)] : Good(g)
             AsTheyAre(j) == [j EXCEPT !.id = number[j], !.owner = p]
             Paused(j) == [j EXCEPT !.enabled = FALSE]
  <1>1. IsFiniteSet(mine)
    BY JobsAreFinite, FS_Subset
  <1>2. c \in Nat /\ ExistsBijection(1..c, mine)
    BY <1>1, FS_CardinalityType
  <1>3. PICK b : b \in Bijection(1..c, mine)
    BY <1>2 DEF ExistsBijection
  <1>4. N \in Nat /\ N >= 1
    BY NewJobFacts
  <1>5. \E g \in [mine -> N..(N + c - 1)] : Good(g)
    <2> DEFINE back == [j \in mine |-> CHOOSE i \in 1..c : b[i] = j]
    <2>1. \A j \in mine : back[j] \in 1..c /\ b[back[j]] = j
      BY <1>3 DEF Bijection, Surjection
    <2> HIDE DEF back, mine, c, N
    <2> DEFINE g == [j \in mine |-> N - 1 + back[j]]
    <2>2. g \in [mine -> N..(N + c - 1)]
      BY <2>1, <1>2, <1>4
    <2>3. Good(g)
      <3> TAKE j, k \in mine
      <3> HAVE j # k
      <3>1. back[j] # back[k] /\ back[j] \in Int /\ back[k] \in Int
        BY <2>1, <1>2
      <3>2. \A x, y \in Int : x # y => N - 1 + x # N - 1 + y
        BY <1>4
      <3>3. g[j] = N - 1 + back[j] /\ g[k] = N - 1 + back[k]
        OBVIOUS
      <3> QED
        BY <3>1, <3>2, <3>3
    <2> QED
      BY <2>2, <2>3
  <1>6. number \in [mine -> N..(N + c - 1)] /\ Good(number)
    BY <1>5
  <1>7. CopiesAsTheyAre(o, p) = {AsTheyAre(j) : j \in mine}
    BY DEF CopiesAsTheyAre
  <1>8. c + N <= MaxJobs + 1 /\ MaxJobs \in Nat
    BY ScheduleAssumption, <1>2, <1>4
  <1>9. \A j \in mine : j \in JobRows /\ number[j] \in N..(N + c - 1)
    BY <1>6 DEF ScheduleTypes
  <1> HIDE DEF number, mine, c, N
  <1>10. \A j \in mine : number[j] \in 1..MaxJobs /\ number[j] >= N
    BY <1>8, <1>9, <1>4, <1>2
  <1>11. \A j \in mine : AsTheyAre(j) \in JobRows /\ AsTheyAre(j).id = number[j]
    BY <1>9, <1>10 DEF JobRows
  <1>12. \A k \in JobRows : Paused(k) \in JobRows /\ Paused(k).id = k.id /\ ~Paused(k).enabled
    BY DEF JobRows
  <1> HIDE DEF AsTheyAre, Paused
  <1>13. \A k \in Copies(o, p) : \E j \in mine : k = Paused(AsTheyAre(j))
    BY <1>7 DEF Copies, Paused
  <1>14. \A k \in Copies(o, p) : k \in JobRows /\ ~k.enabled /\ \E j \in mine : k.id = number[j]
    BY <1>11, <1>12, <1>13
  <1>15. \A k \in Copies(o, p) : k.id \notin JobIds
    BY <1>14, <1>10, <1>4, NewJobFacts DEF N, JobIds
  <1>16. Alike(Copies(o, p))
    BY <1>11, <1>12, <1>13, <1>6 DEF Alike
  <1> QED
    BY <1>14, <1>15, <1>16

LEMMA CreateKeeps ==
  ASSUME ScheduleInv, NEW t \in Hands, NEW o \in Owners, NEW x \in Triggers, CreateJob(t, o, x)
  PROVE  ScheduleInv'
  <1>i. /\ ScheduleTypes /\ RequestsMeet /\ SyncsFit /\ StartIsQuiet /\ EntriesFit /\ FiringsFit
        /\ ActiveJobsAreTimed /\ JobsRunAtTheirTimes
    BY DEF ScheduleInv
  <1>1. NewJobId \in 1..MaxJobs /\ NewJobId \notin JobIds
    BY <1>i, NewJobFacts, ScheduleAssumption DEF CreateJob, JobIds
  <1>2. /\ crossed' \subseteq 1..MaxJobs /\ crossed \subseteq crossed'
        /\ AtWorkOn(NewJobId) => NewJobId \in crossed'
        /\ FiringsMeet({NewJobId})
    BY <1>i, <1>1, CrossFacts DEF CreateJob
  <1>3. /\ hand' \in [Hands -> Errands] /\ \A u \in Hands : u # t => hand'[u] = hand[u]
        /\ hand'[t].pc = "sync" /\ hand'[t].id = NewJobId /\ hand'[t].enabled = TRUE /\ hand'[t].trigger = x
    BY <1>i, <1>1 DEF CreateJob, Turns, ScheduleTypes, Errands
  <1>4. /\ [id |-> NewJobId, owner |-> o, trigger |-> x, enabled |-> TRUE] \in JobRows
        /\ [id |-> NewJobId, owner |-> o, trigger |-> x, enabled |-> TRUE].id = NewJobId
        /\ [id |-> NewJobId, owner |-> o, trigger |-> x, enabled |-> TRUE].trigger = x
    BY <1>1 DEF JobRows
  <1>5. PICK w \in JobRows : jobs' = jobs \cup {w} /\ w.id = NewJobId /\ w.trigger = x
    BY <1>4 DEF CreateJob
  <1>6. hand[t].pc = "idle" /\ boot = {} /\ JobIds' = JobIds \cup {NewJobId}
    BY <1>5 DEF CreateJob, Order, JobIds
  <1>7. \A j \in jobs' : ~AtWorkOn(j.id)' => j \in jobs /\ ~AtWorkOn(j.id)
    BY <1>3, <1>5, <1>6 DEF AtWorkOn
  <1>8. FiringsFit' /\ JobsRunAtTheirTimes'
    BY <1>i, <1>2, <1>3, <1>5, MetFirings DEF AtWorkOn
  <1>9. RequestsMeet' /\ SyncsFit'
    BY <1>i, <1>1, <1>2, <1>3, <1>5, <1>6, MetRequests DEF JobIds
  <1>10. UNCHANGED <<timers, past, boot>>
    BY DEF CreateJob
  <1>c1. ScheduleTypes'
    BY <1>i, <1>1, <1>2, <1>3, <1>4, <1>5, <1>6, <1>7, <1>8, <1>9, <1>10 DEF ScheduleTypes, FiringsMeet, JobIds, JobRows, Alike, Entries
  <1>c2. RequestsMeet'
    BY <1>i, <1>1, <1>2, <1>3, <1>4, <1>5, <1>6, <1>7, <1>8, <1>9, <1>10 DEF RequestsMeet, JobIds, AtWorkOn
  <1>c3. SyncsFit'
    BY <1>i, <1>1, <1>2, <1>3, <1>4, <1>5, <1>6, <1>7, <1>8, <1>9, <1>10 DEF SyncsFit, RequestsMeet, AtWorkOn
  <1>c4. StartIsQuiet'
    BY <1>i, <1>1, <1>2, <1>3, <1>4, <1>5, <1>6, <1>7, <1>8, <1>9, <1>10 DEF StartIsQuiet
  <1>c5. EntriesFit'
    BY <1>i, <1>1, <1>2, <1>3, <1>4, <1>5, <1>6, <1>7, <1>8, <1>9, <1>10 DEF EntriesFit, AtWorkOn
  <1>c6. FiringsFit'
    BY <1>i, <1>1, <1>2, <1>3, <1>4, <1>5, <1>6, <1>7, <1>8, <1>9, <1>10 DEF FiringsFit, AtWorkOn, FiringsMeet
  <1>c7. ActiveJobsAreTimed'
    BY <1>i, <1>1, <1>2, <1>3, <1>4, <1>5, <1>6, <1>7, <1>8, <1>9, <1>10 DEF ActiveJobsAreTimed, AtWorkOn, JobIds
  <1>c8. JobsRunAtTheirTimes'
    BY <1>i, <1>1, <1>2, <1>3, <1>4, <1>5, <1>6, <1>7, <1>8, <1>9, <1>10 DEF JobsRunAtTheirTimes, FiringsMeet
  <1> QED
    BY <1>c1, <1>c2, <1>c3, <1>c4, <1>c5, <1>c6, <1>c7, <1>c8 DEF ScheduleInv

LEMMA ToggleKeeps ==
  ASSUME ScheduleInv, NEW t \in Hands, NEW i \in JobIds, ToggleJob(t, i)
  PROVE  ScheduleInv'
  <1>i. /\ ScheduleTypes /\ RequestsMeet /\ SyncsFit /\ StartIsQuiet /\ EntriesFit /\ FiringsFit
        /\ ActiveJobsAreTimed /\ JobsRunAtTheirTimes
    BY DEF ScheduleInv
  <1>1. i \in 1..MaxJobs
    BY <1>i DEF ScheduleTypes, JobRows, JobIds
  <1>2. /\ crossed' \subseteq 1..MaxJobs /\ crossed \subseteq crossed'
        /\ AtWorkOn(i) => i \in crossed'
        /\ FiringsMeet({i})
    BY <1>i, <1>1, CrossFacts DEF ToggleJob
  <1>3. Job(i) \in JobRows
    BY <1>i, JobFacts
  <1>4. /\ hand' \in [Hands -> Errands] /\ hand'[t].pc = "set" /\ hand'[t].id = i
        /\ \A u \in Hands : u # t => hand'[u] = hand[u]
    BY <1>i, <1>1, <1>3, DropFacts, ScheduleAssumption DEF ToggleJob, Turns, ScheduleTypes, Errands, JobRows
  <1>5. hand[t].pc = "idle" /\ boot = {} /\ UNCHANGED <<jobs, past, boot>> /\ timers' \subseteq timers /\ \A e \in timers : e.id # i => e \in timers'
    BY DEF ToggleJob, Order, Untimed
  <1>6. \A j : ~AtWorkOn(j)' => j # i /\ ~AtWorkOn(j)
    BY <1>4, <1>5 DEF AtWorkOn
  <1>7. JobIds' = JobIds
    BY <1>5 DEF JobIds
  <1>8. FiringsFit' /\ JobsRunAtTheirTimes'
    BY <1>i, <1>2, <1>4, <1>5, MetFirings DEF AtWorkOn
  <1>9. RequestsMeet' /\ SyncsFit'
    BY <1>i, <1>2, <1>4, <1>5, <1>7, MetRequests
  <1>c1. ScheduleTypes'
    BY <1>i, <1>1, <1>2, <1>3, <1>4, <1>5, <1>6, <1>7, <1>8, <1>9 DEF ScheduleTypes, FiringsMeet, JobIds, JobRows, Alike, Entries
  <1>c2. RequestsMeet'
    BY <1>i, <1>1, <1>2, <1>3, <1>4, <1>5, <1>6, <1>7, <1>8, <1>9 DEF RequestsMeet, JobIds, AtWorkOn
  <1>c3. SyncsFit'
    BY <1>i, <1>1, <1>2, <1>3, <1>4, <1>5, <1>6, <1>7, <1>8, <1>9 DEF SyncsFit, RequestsMeet, AtWorkOn
  <1>c4. StartIsQuiet'
    BY <1>i, <1>1, <1>2, <1>3, <1>4, <1>5, <1>6, <1>7, <1>8, <1>9 DEF StartIsQuiet
  <1>c5. EntriesFit'
    BY <1>i, <1>1, <1>2, <1>3, <1>4, <1>5, <1>6, <1>7, <1>8, <1>9 DEF EntriesFit, AtWorkOn
  <1>c6. FiringsFit'
    BY <1>i, <1>1, <1>2, <1>3, <1>4, <1>5, <1>6, <1>7, <1>8, <1>9 DEF FiringsFit, AtWorkOn, FiringsMeet
  <1>c7. ActiveJobsAreTimed'
    BY <1>i, <1>1, <1>2, <1>3, <1>4, <1>5, <1>6, <1>7, <1>8, <1>9 DEF ActiveJobsAreTimed, AtWorkOn, JobIds
  <1>c8. JobsRunAtTheirTimes'
    BY <1>i, <1>1, <1>2, <1>3, <1>4, <1>5, <1>6, <1>7, <1>8, <1>9 DEF JobsRunAtTheirTimes, FiringsMeet
  <1> QED
    BY <1>c1, <1>c2, <1>c3, <1>c4, <1>c5, <1>c6, <1>c7, <1>c8 DEF ScheduleInv

LEMMA DeleteKeeps ==
  ASSUME ScheduleInv, NEW t \in Hands, NEW i \in JobIds, DeleteJob(t, i)
  PROVE  ScheduleInv'
  <1>i. /\ ScheduleTypes /\ RequestsMeet /\ SyncsFit /\ StartIsQuiet /\ EntriesFit /\ FiringsFit
        /\ ActiveJobsAreTimed /\ JobsRunAtTheirTimes
    BY DEF ScheduleInv
  <1>1. i \in 1..MaxJobs
    BY <1>i DEF ScheduleTypes, JobRows, JobIds
  <1>2. /\ crossed' \subseteq 1..MaxJobs /\ crossed \subseteq crossed'
        /\ AtWorkOn(i) => i \in crossed'
        /\ FiringsMeet({i})
    BY <1>i, <1>1, CrossFacts DEF DeleteJob
  <1>3. Job(i) \in JobRows
    BY <1>i, JobFacts
  <1>4. /\ hand' \in [Hands -> Errands] /\ hand'[t].pc = "drop" /\ hand'[t].id = i
        /\ \A u \in Hands : u # t => hand'[u] = hand[u]
    BY <1>i, <1>1, <1>3, DropFacts, ScheduleAssumption DEF DeleteJob, Turns, ScheduleTypes, Errands, JobRows
  <1>5. hand[t].pc = "idle" /\ boot = {} /\ UNCHANGED <<jobs, past, boot>> /\ timers' \subseteq timers /\ \A e \in timers : e.id # i => e \in timers'
    BY DEF DeleteJob, Order, Untimed
  <1>6. \A j : ~AtWorkOn(j)' => j # i /\ ~AtWorkOn(j)
    BY <1>4, <1>5 DEF AtWorkOn
  <1>7. JobIds' = JobIds
    BY <1>5 DEF JobIds
  <1>8. FiringsFit' /\ JobsRunAtTheirTimes'
    BY <1>i, <1>2, <1>4, <1>5, MetFirings DEF AtWorkOn
  <1>9. RequestsMeet' /\ SyncsFit'
    BY <1>i, <1>2, <1>4, <1>5, <1>7, MetRequests
  <1>c1. ScheduleTypes'
    BY <1>i, <1>1, <1>2, <1>3, <1>4, <1>5, <1>6, <1>7, <1>8, <1>9 DEF ScheduleTypes, FiringsMeet, JobIds, JobRows, Alike, Entries
  <1>c2. RequestsMeet'
    BY <1>i, <1>1, <1>2, <1>3, <1>4, <1>5, <1>6, <1>7, <1>8, <1>9 DEF RequestsMeet, JobIds, AtWorkOn
  <1>c3. SyncsFit'
    BY <1>i, <1>1, <1>2, <1>3, <1>4, <1>5, <1>6, <1>7, <1>8, <1>9 DEF SyncsFit, RequestsMeet, AtWorkOn
  <1>c4. StartIsQuiet'
    BY <1>i, <1>1, <1>2, <1>3, <1>4, <1>5, <1>6, <1>7, <1>8, <1>9 DEF StartIsQuiet
  <1>c5. EntriesFit'
    BY <1>i, <1>1, <1>2, <1>3, <1>4, <1>5, <1>6, <1>7, <1>8, <1>9 DEF EntriesFit, AtWorkOn
  <1>c6. FiringsFit'
    BY <1>i, <1>1, <1>2, <1>3, <1>4, <1>5, <1>6, <1>7, <1>8, <1>9 DEF FiringsFit, AtWorkOn, FiringsMeet
  <1>c7. ActiveJobsAreTimed'
    BY <1>i, <1>1, <1>2, <1>3, <1>4, <1>5, <1>6, <1>7, <1>8, <1>9 DEF ActiveJobsAreTimed, AtWorkOn, JobIds
  <1>c8. JobsRunAtTheirTimes'
    BY <1>i, <1>1, <1>2, <1>3, <1>4, <1>5, <1>6, <1>7, <1>8, <1>9 DEF JobsRunAtTheirTimes, FiringsMeet
  <1> QED
    BY <1>c1, <1>c2, <1>c3, <1>c4, <1>c5, <1>c6, <1>c7, <1>c8 DEF ScheduleInv

LEMMA SetKeeps ==
  ASSUME ScheduleInv, NEW t \in Hands, SetEnabled(t)
  PROVE  ScheduleInv'
  <1>i. /\ ScheduleTypes /\ RequestsMeet /\ SyncsFit /\ StartIsQuiet /\ EntriesFit /\ FiringsFit
        /\ ActiveJobsAreTimed /\ JobsRunAtTheirTimes
    BY DEF ScheduleInv
  <1>1. hand[t].pc = "set" /\ hand[t] \in Errands
    BY <1>i DEF SetEnabled, ScheduleTypes
  <1>2. UNCHANGED <<timers, past, firings, boot, crossed>> /\ boot = {}
    BY <1>i, <1>1 DEF SetEnabled, StartIsQuiet
  <1>3. \/ /\ hand[t].id \in JobIds
           /\ jobs' = Switched(hand[t].id, hand[t].enabled)
           /\ hand' \in [Hands -> Errands] /\ hand'[t].pc = "refresh" /\ hand'[t].id = hand[t].id
        \/ hand[t].id \notin JobIds /\ jobs' = jobs /\ hand' \in [Hands -> Errands] /\ hand'[t].pc = "idle"
    BY <1>i, <1>1, IdleFacts DEF SetEnabled, Turns, ScheduleTypes, Errands
  <1>4. \A u \in Hands : u # t => hand'[u] = hand[u]
    BY <1>i DEF SetEnabled, Turns, ScheduleTypes
  <1>5. /\ jobs' \subseteq JobRows /\ Alike(jobs)' /\ JobIds' = JobIds
        /\ \A j \in jobs' : j.id # hand[t].id => j \in jobs
        /\ \A j \in jobs' : \E k \in jobs : k.id = j.id /\ k.trigger = j.trigger
    <2>1. CASE hand[t].id \in JobIds
      <3>1. JobIds' = {j.id : j \in Switched(hand[t].id, hand[t].enabled)} /\ hand[t].enabled \in BOOLEAN
        BY <1>1, <1>3, <2>1 DEF JobIds, Errands
      <3> QED
        BY <3>1, <1>i, <1>3, <2>1, SwitchedFacts DEF Alike
    <2>2. CASE hand[t].id \notin JobIds
      BY <2>2, <1>i, <1>3 DEF ScheduleTypes, Alike, JobIds
    <2> QED
      BY <2>1, <2>2
  <1>6. \A j \in jobs' : ~AtWorkOn(j.id)' => j \in jobs /\ ~AtWorkOn(j.id)
    BY <1>1, <1>3, <1>4, <1>5 DEF AtWorkOn, JobIds
  <1>c1. ScheduleTypes'
    BY <1>i, <1>1, <1>2, <1>3, <1>4, <1>5, <1>6 DEF ScheduleTypes, FiringsMeet, JobIds, JobRows, Alike, Entries
  <1>c2. RequestsMeet'
    BY <1>i, <1>1, <1>2, <1>3, <1>4, <1>5 DEF RequestsMeet, AtWorkOn
  <1>c3. SyncsFit'
    BY <1>i, <1>1, <1>2, <1>3, <1>4, <1>5, <1>6 DEF SyncsFit, RequestsMeet, AtWorkOn
  <1>c4. StartIsQuiet'
    BY <1>i, <1>1, <1>2, <1>3, <1>4, <1>5, <1>6 DEF StartIsQuiet
  <1>c5. EntriesFit'
    BY <1>i, <1>1, <1>2, <1>3, <1>4, <1>5, <1>6 DEF EntriesFit, AtWorkOn
  <1>c6. FiringsFit'
    BY <1>i, <1>1, <1>2, <1>3, <1>4, <1>5, <1>6 DEF FiringsFit, AtWorkOn, FiringsMeet
  <1>c7. ActiveJobsAreTimed'
    BY <1>i, <1>1, <1>2, <1>3, <1>4, <1>5, <1>6 DEF ActiveJobsAreTimed, AtWorkOn, JobIds
  <1>c8. JobsRunAtTheirTimes'
    BY <1>i, <1>1, <1>2, <1>3, <1>4, <1>5, <1>6 DEF JobsRunAtTheirTimes, FiringsMeet
  <1> QED
    BY <1>c1, <1>c2, <1>c3, <1>c4, <1>c5, <1>c6, <1>c7, <1>c8 DEF ScheduleInv

LEMMA RefreshKeeps ==
  ASSUME ScheduleInv, NEW t \in Hands, Refresh(t)
  PROVE  ScheduleInv'
  <1>i. /\ ScheduleTypes /\ RequestsMeet /\ SyncsFit /\ StartIsQuiet /\ EntriesFit /\ FiringsFit
        /\ ActiveJobsAreTimed /\ JobsRunAtTheirTimes
    BY DEF ScheduleInv
  <1>1. hand[t].pc = "refresh" /\ hand[t] \in Errands
    BY <1>i DEF Refresh, ScheduleTypes
  <1>2. UNCHANGED <<jobs, timers, past, firings, boot, crossed>>
    BY DEF Refresh
  <1>3. hand[t].id \in JobIds => Job(hand[t].id) \in JobRows
    BY <1>i, JobFacts
  <1>4. hand[t].id \in JobIds =>
          LET w == [hand[t] EXCEPT !.pc = "sync", !.enabled = Job(hand[t].id).enabled,
                                   !.trigger = Job(hand[t].id).trigger]
          IN  /\ w \in Errands /\ w.pc = "sync" /\ w.id = hand[t].id
              /\ w.enabled = Job(hand[t].id).enabled /\ w.trigger = Job(hand[t].id).trigger
    BY <1>1, <1>3 DEF Errands, JobRows
  <1>5. \/ /\ hand[t].id \in JobIds /\ hand' \in [Hands -> Errands] /\ hand'[t].pc = "sync" /\ hand'[t].id = hand[t].id
           /\ hand'[t].enabled = Job(hand[t].id).enabled /\ hand'[t].trigger = Job(hand[t].id).trigger
        \/ hand[t].id \notin JobIds /\ hand' \in [Hands -> Errands] /\ hand'[t].pc = "idle"
    BY <1>i, <1>4, IdleFacts DEF Refresh, Turns, ScheduleTypes
  <1>6. \A u \in Hands : u # t => hand'[u] = hand[u]
    BY <1>i DEF Refresh, Turns, ScheduleTypes
  <1>7. hand[t].id \in JobIds => Job(hand[t].id) \in jobs /\ \A j \in jobs : j.id = hand[t].id => j = Job(hand[t].id)
    BY <1>i, JobFacts
  <1>8. \A j \in jobs : ~AtWorkOn(j.id)' => ~AtWorkOn(j.id)
    BY <1>1, <1>5, <1>6 DEF AtWorkOn, JobIds
  <1>c1. ScheduleTypes'
    BY <1>i, <1>1, <1>2, <1>3, <1>4, <1>5, <1>6, <1>7, <1>8 DEF ScheduleTypes, FiringsMeet, JobIds, JobRows, Alike, Entries
  <1>c2. RequestsMeet'
    BY <1>i, <1>1, <1>2, <1>3, <1>4, <1>5, <1>6, <1>7, <1>8 DEF RequestsMeet, JobIds, AtWorkOn
  <1>c3. SyncsFit'
    BY <1>i, <1>1, <1>2, <1>3, <1>4, <1>5, <1>6, <1>7, <1>8 DEF SyncsFit, RequestsMeet, AtWorkOn
  <1>c4. StartIsQuiet'
    BY <1>i, <1>1, <1>2, <1>3, <1>4, <1>5, <1>6, <1>7, <1>8 DEF StartIsQuiet
  <1>c5. EntriesFit'
    BY <1>i, <1>1, <1>2, <1>3, <1>4, <1>5, <1>6, <1>7, <1>8 DEF EntriesFit, AtWorkOn
  <1>c6. FiringsFit'
    BY <1>i, <1>1, <1>2, <1>3, <1>4, <1>5, <1>6, <1>7, <1>8 DEF FiringsFit, AtWorkOn, FiringsMeet
  <1>c7. ActiveJobsAreTimed'
    BY <1>i, <1>1, <1>2, <1>3, <1>4, <1>5, <1>6, <1>7, <1>8 DEF ActiveJobsAreTimed, AtWorkOn, JobIds
  <1>c8. JobsRunAtTheirTimes'
    BY <1>i, <1>1, <1>2, <1>3, <1>4, <1>5, <1>6, <1>7, <1>8 DEF JobsRunAtTheirTimes, FiringsMeet
  <1> QED
    BY <1>c1, <1>c2, <1>c3, <1>c4, <1>c5, <1>c6, <1>c7, <1>c8 DEF ScheduleInv

LEMMA SyncKeeps ==
  ASSUME ScheduleInv, NEW t \in Hands, SyncJob(t)
  PROVE  ScheduleInv'
  <1>i. /\ ScheduleTypes /\ RequestsMeet /\ SyncsFit /\ StartIsQuiet /\ EntriesFit /\ FiringsFit
        /\ ActiveJobsAreTimed /\ JobsRunAtTheirTimes
    BY DEF ScheduleInv
  <1>1. hand[t].pc = "sync" /\ hand[t] \in Errands
    BY <1>i DEF SyncJob, ScheduleTypes
  <1>2. UNCHANGED <<jobs, past, firings, boot, crossed>>
    BY DEF SyncJob
  <1>3. /\ hand' \in [Hands -> Errands] /\ hand'[t].pc = "idle"
        /\ \A u \in Hands : u # t => hand'[u] = hand[u]
    BY <1>i, IdleFacts DEF SyncJob, Turns, ScheduleTypes
  <1>4. hand[t].id # 0
    BY <1>i, <1>1 DEF RequestsMeet, JobIds, ScheduleTypes, JobRows, Errands
  <1>5. /\ \A e \in timers' : (e \in timers /\ e.id # hand[t].id)
             \/ (e = [id |-> hand[t].id, trigger |-> hand[t].trigger] /\ hand[t].enabled)
        /\ \A e \in timers : e.id # hand[t].id => e \in timers'
        /\ hand[t].enabled => [id |-> hand[t].id, trigger |-> hand[t].trigger] \in timers'
    BY <1>1 DEF SyncJob, Entered, Untimed, Errands
  <1>6. LET w == [id |-> hand[t].id, trigger |-> hand[t].trigger]
        IN  w \in Entries /\ w.id = hand[t].id /\ w.trigger = hand[t].trigger
    BY <1>1, <1>4, ScheduleAssumption DEF Errands, Entries
  <1>7. \A i : ~AtWorkOn(i)' /\ i # hand[t].id => ~AtWorkOn(i)
    BY <1>3 DEF AtWorkOn
  <1>c1. ScheduleTypes'
    BY <1>i, <1>1, <1>2, <1>3, <1>4, <1>5, <1>6, <1>7 DEF ScheduleTypes, FiringsMeet, JobIds, JobRows, Alike, Entries
  <1>c2. RequestsMeet'
    BY <1>i, <1>1, <1>2, <1>3, <1>4, <1>5, <1>6, <1>7 DEF RequestsMeet, JobIds, AtWorkOn
  <1>c3. SyncsFit'
    BY <1>i, <1>1, <1>2, <1>3, <1>4, <1>5, <1>6, <1>7 DEF SyncsFit, RequestsMeet, AtWorkOn
  <1>c4. StartIsQuiet'
    BY <1>i, <1>1, <1>2, <1>3, <1>4, <1>5, <1>6, <1>7 DEF StartIsQuiet
  <1>c5. EntriesFit'
    <2> SUFFICES ASSUME NEW e \in timers', NEW j \in jobs, j.id = e.id, j.enabled, j.id \notin crossed,
                        ~AtWorkOn(j.id)'
                 PROVE  j.trigger = e.trigger
      BY <1>2 DEF EntriesFit
    <2>1. CASE e.id = hand[t].id
      <3>1. e = [id |-> hand[t].id, trigger |-> hand[t].trigger]
        BY <1>5, <2>1
      <3>2. e.trigger = hand[t].trigger
        BY <3>1
      <3> QED
        BY <1>i, <1>1, <2>1, <3>2 DEF SyncsFit
    <2>2. CASE e.id # hand[t].id
      <3>1. e \in timers /\ ~AtWorkOn(j.id)
        BY <1>5, <1>6, <1>7, <2>2
      <3> QED
        BY <1>i, <3>1 DEF EntriesFit
    <2> QED
      BY <2>1, <2>2
  <1>c6. FiringsFit'
    BY <1>i, <1>1, <1>2, <1>3, <1>4, <1>5, <1>6, <1>7 DEF FiringsFit, AtWorkOn, FiringsMeet
  <1>c7. ActiveJobsAreTimed'
    <2> SUFFICES ASSUME NEW j \in jobs, j.enabled, j.trigger \notin past, j.id \notin crossed \cup boot,
                        ~AtWorkOn(j.id)'
                 PROVE  [id |-> j.id, trigger |-> j.trigger] \in timers'
      BY <1>2 DEF ActiveJobsAreTimed
    <2>1. CASE j.id = hand[t].id
      <3>1. j.trigger = hand[t].trigger /\ hand[t].enabled
        BY <1>i, <1>1, <2>1 DEF SyncsFit
      <3> QED
        BY <1>5, <2>1, <3>1
    <2>2. CASE j.id # hand[t].id
      <3>1. ~AtWorkOn(j.id)
        BY <1>7, <2>2
      <3>2. [id |-> j.id, trigger |-> j.trigger] \in timers
        BY <1>i, <3>1 DEF ActiveJobsAreTimed
      <3> QED
        BY <1>5, <2>2, <3>2
    <2> QED
      BY <2>1, <2>2
  <1>c8. JobsRunAtTheirTimes'
    BY <1>i, <1>1, <1>2, <1>3, <1>4, <1>5, <1>6, <1>7 DEF JobsRunAtTheirTimes, FiringsMeet
  <1> QED
    BY <1>c1, <1>c2, <1>c3, <1>c4, <1>c5, <1>c6, <1>c7, <1>c8 DEF ScheduleInv

LEMMA DropKeeps ==
  ASSUME ScheduleInv, NEW t \in Hands, DropJob(t)
  PROVE  ScheduleInv'
  <1>i. /\ ScheduleTypes /\ RequestsMeet /\ SyncsFit /\ StartIsQuiet /\ EntriesFit /\ FiringsFit
        /\ ActiveJobsAreTimed /\ JobsRunAtTheirTimes
    BY DEF ScheduleInv
  <1>1. hand[t].pc = "drop" /\ hand[t] \in Errands /\ boot = {}
    BY <1>i DEF DropJob, ScheduleTypes, StartIsQuiet
  <1>2. jobs' = {j \in jobs : j.id # hand[t].id} /\ UNCHANGED <<timers, past, firings, boot, crossed>>
    BY DEF DropJob
  <1>3. /\ hand' \in [Hands -> Errands] /\ hand'[t].pc = "idle"
        /\ \A u \in Hands : u # t => hand'[u] = hand[u]
    BY <1>i, IdleFacts DEF DropJob, Turns, ScheduleTypes
  <1>c1. ScheduleTypes'
    BY <1>i, <1>1, <1>2, <1>3 DEF ScheduleTypes, FiringsMeet, JobIds, JobRows, Alike, Entries
  <1>c2. RequestsMeet'
    BY <1>i, <1>1, <1>2, <1>3 DEF RequestsMeet, JobIds, AtWorkOn
  <1>c3. SyncsFit'
    BY <1>i, <1>1, <1>2, <1>3 DEF SyncsFit, RequestsMeet, AtWorkOn
  <1>c4. StartIsQuiet'
    BY <1>i, <1>1, <1>2, <1>3 DEF StartIsQuiet
  <1>c5. EntriesFit'
    BY <1>i, <1>1, <1>2, <1>3 DEF EntriesFit, AtWorkOn
  <1>c6. FiringsFit'
    BY <1>i, <1>1, <1>2, <1>3 DEF FiringsFit, AtWorkOn, FiringsMeet
  <1>c7. ActiveJobsAreTimed'
    BY <1>i, <1>1, <1>2, <1>3 DEF ActiveJobsAreTimed, AtWorkOn, JobIds
  <1>c8. JobsRunAtTheirTimes'
    BY <1>i, <1>1, <1>2, <1>3 DEF JobsRunAtTheirTimes, FiringsMeet
  <1> QED
    BY <1>c1, <1>c2, <1>c3, <1>c4, <1>c5, <1>c6, <1>c7, <1>c8 DEF ScheduleInv

LEMMA DeleteOwnerKeeps ==
  ASSUME ScheduleInv, NEW t \in Hands, NEW o \in Owners, DeleteOwner(t, o)
  PROVE  ScheduleInv'
  <1>i. /\ ScheduleTypes /\ RequestsMeet /\ SyncsFit /\ StartIsQuiet /\ EntriesFit /\ FiringsFit
        /\ ActiveJobsAreTimed /\ JobsRunAtTheirTimes
    BY DEF ScheduleInv
  <1>1. {j.id : j \in {k \in jobs : k.owner = o}} \subseteq 1..MaxJobs
    BY <1>i DEF ScheduleTypes, JobRows
  <1>2. /\ crossed' \subseteq 1..MaxJobs /\ crossed \subseteq crossed'
        /\ \A j \in jobs : j.owner = o /\ AtWorkOn(j.id) => j.id \in crossed'
        /\ FiringsMeet({j.id : j \in {k \in jobs : k.owner = o}})
    BY <1>i, <1>1, CrossFacts DEF DeleteOwner
  <1>3. jobs' = {j \in jobs : j.owner # o} /\ UNCHANGED <<timers, past, hand, boot>> /\ boot = {}
    BY DEF DeleteOwner, Order
  <1>4. FiringsFit' /\ JobsRunAtTheirTimes'
    BY <1>i, <1>2, <1>3, MetFirings DEF AtWorkOn
  <1>c1. ScheduleTypes'
    BY <1>i, <1>1, <1>2, <1>3, <1>4 DEF ScheduleTypes, FiringsMeet, JobIds, JobRows, Alike, Entries
  <1>c2. RequestsMeet'
    <2> SUFFICES ASSUME NEW u \in Hands, hand[u].pc # "idle", hand[u].id \notin crossed'
                 PROVE  /\ hand[u].id \in JobIds'
                        /\ \A v \in Hands : hand[v].pc # "idle" /\ hand[v].id = hand[u].id => v = u
      BY <1>3 DEF RequestsMeet
    <2>1. PICK j \in jobs : j.id = hand[u].id
      BY <1>i, <1>2 DEF RequestsMeet, JobIds
    <2>2. j \in jobs'
      BY <1>2, <1>3, <2>1 DEF AtWorkOn
    <2> QED
      BY <1>i, <1>2, <2>1, <2>2 DEF RequestsMeet, JobIds
  <1>c3. SyncsFit'
    BY <1>i, <1>1, <1>2, <1>3, <1>4 DEF SyncsFit, RequestsMeet, AtWorkOn
  <1>c4. StartIsQuiet'
    BY <1>i, <1>1, <1>2, <1>3, <1>4 DEF StartIsQuiet
  <1>c5. EntriesFit'
    BY <1>i, <1>1, <1>2, <1>3, <1>4 DEF EntriesFit, AtWorkOn
  <1>c6. FiringsFit'
    BY <1>i, <1>1, <1>2, <1>3, <1>4 DEF FiringsFit, AtWorkOn, FiringsMeet
  <1>c7. ActiveJobsAreTimed'
    BY <1>i, <1>1, <1>2, <1>3, <1>4 DEF ActiveJobsAreTimed, AtWorkOn, JobIds
  <1>c8. JobsRunAtTheirTimes'
    BY <1>i, <1>1, <1>2, <1>3, <1>4 DEF JobsRunAtTheirTimes, FiringsMeet
  <1> QED
    BY <1>c1, <1>c2, <1>c3, <1>c4, <1>c5, <1>c6, <1>c7, <1>c8 DEF ScheduleInv

LEMMA DuplicateKeeps ==
  ASSUME ScheduleInv, NEW t \in Hands, NEW o \in Owners, NEW p \in Owners, DuplicateOwner(t, o, p)
  PROVE  ScheduleInv'
  <1>i. /\ ScheduleTypes /\ RequestsMeet /\ SyncsFit /\ StartIsQuiet /\ EntriesFit /\ FiringsFit
        /\ ActiveJobsAreTimed /\ JobsRunAtTheirTimes
    BY DEF ScheduleInv
  <1>1. /\ Copies(o, p) \subseteq JobRows /\ Alike(Copies(o, p))
        /\ \A k \in Copies(o, p) : k.id \notin JobIds /\ ~k.enabled
    BY <1>i, CopyFacts DEF DuplicateOwner
  <1>2. jobs' = jobs \cup Copies(o, p) /\ UNCHANGED <<timers, past, hand, firings, boot, crossed>>
    BY DEF DuplicateOwner
  <1>3. /\ jobs' \subseteq JobRows /\ JobIds \subseteq JobIds' /\ Alike(jobs)'
        /\ \A j \in jobs' : j \in jobs \/ (j.id \notin JobIds /\ ~j.enabled)
    BY <1>i, <1>1, <1>2 DEF Alike, JobIds, ScheduleTypes
  <1>c1. ScheduleTypes'
    BY <1>i, <1>1, <1>2, <1>3 DEF ScheduleTypes, FiringsMeet, JobIds, JobRows, Alike, Entries
  <1>c2. RequestsMeet'
    BY <1>i, <1>1, <1>2, <1>3 DEF RequestsMeet, JobIds, AtWorkOn
  <1>c3. SyncsFit'
    BY <1>i, <1>1, <1>2, <1>3 DEF SyncsFit, RequestsMeet, AtWorkOn
  <1>c4. StartIsQuiet'
    BY <1>i, <1>1, <1>2, <1>3 DEF StartIsQuiet
  <1>c5. EntriesFit'
    BY <1>i, <1>1, <1>2, <1>3 DEF EntriesFit, AtWorkOn
  <1>c6. FiringsFit'
    BY <1>i, <1>1, <1>2, <1>3 DEF FiringsFit, AtWorkOn, FiringsMeet
  <1>c7. ActiveJobsAreTimed'
    BY <1>i, <1>1, <1>2, <1>3 DEF ActiveJobsAreTimed, AtWorkOn, JobIds
  <1>c8. JobsRunAtTheirTimes'
    BY <1>i, <1>1, <1>2, <1>3 DEF JobsRunAtTheirTimes, FiringsMeet
  <1> QED
    BY <1>c1, <1>c2, <1>c3, <1>c4, <1>c5, <1>c6, <1>c7, <1>c8 DEF ScheduleInv

LEMMA FireKeeps ==
  ASSUME ScheduleInv, NEW e \in timers, Fire(e)
  PROVE  ScheduleInv'
  <1>i. /\ ScheduleTypes /\ RequestsMeet /\ SyncsFit /\ StartIsQuiet /\ EntriesFit /\ FiringsFit
        /\ ActiveJobsAreTimed /\ JobsRunAtTheirTimes
    BY DEF ScheduleInv
  <1>1. UNCHANGED <<jobs, hand, boot, crossed>> /\ e \in Entries /\ ~\E f \in firings : f.id = e.id
    BY <1>i DEF Fire, ScheduleTypes
  <1>2. /\ timers' \subseteq timers /\ past \subseteq past' /\ past' \subseteq Once
        /\ \A x \in timers : x \in timers' \/ (x = e /\ e.trigger \in past')
    BY <1>i DEF Fire, ScheduleTypes
  <1>3. ForItsJob(e) \in BOOLEAN /\ AtWorkOn(e.id) \in BOOLEAN
    BY DEF ForItsJob, AtWorkOn
  <1>4. LET w == [id |-> e.id, pc |-> "load", own |-> ForItsJob(e), alone |-> ~AtWorkOn(e.id)]
        IN  /\ w \in Runs /\ w.id = e.id /\ w.pc = "load"
            /\ w.own = ForItsJob(e) /\ w.alone = ~AtWorkOn(e.id)
    BY <1>1, <1>3 DEF Runs, Entries
  <1>5. PICK w \in Runs : /\ firings' = firings \cup {w} /\ w.id = e.id /\ w.pc = "load"
                       /\ w.own = ForItsJob(e) /\ w.alone = ~AtWorkOn(e.id)
    BY <1>4 DEF Fire
  <1>6. \/ ForItsJob(e) \/ AtWorkOn(e.id) \/ e.id \in crossed
        \/ \A j \in jobs : j.id = e.id => ~j.enabled
    BY <1>i DEF EntriesFit, ForItsJob
  <1>c1. ScheduleTypes'
    BY <1>i, <1>1, <1>2, <1>3, <1>4, <1>5, <1>6 DEF ScheduleTypes, FiringsMeet, JobIds, JobRows, Alike, Entries
  <1>c2. RequestsMeet'
    BY <1>i, <1>1, <1>2, <1>3, <1>4, <1>5, <1>6 DEF RequestsMeet, JobIds, AtWorkOn
  <1>c3. SyncsFit'
    BY <1>i, <1>1, <1>2, <1>3, <1>4, <1>5, <1>6 DEF SyncsFit, RequestsMeet, AtWorkOn
  <1>c4. StartIsQuiet'
    BY <1>i, <1>1, <1>2, <1>3, <1>4, <1>5, <1>6 DEF StartIsQuiet
  <1>c5. EntriesFit'
    BY <1>i, <1>1, <1>2, <1>3, <1>4, <1>5, <1>6 DEF EntriesFit, AtWorkOn
  <1>c6. FiringsFit'
    BY <1>i, <1>1, <1>2, <1>3, <1>4, <1>5, <1>6 DEF FiringsFit, AtWorkOn, FiringsMeet
  <1>c7. ActiveJobsAreTimed'
    BY <1>i, <1>1, <1>2, <1>3, <1>4, <1>5, <1>6 DEF ActiveJobsAreTimed, AtWorkOn, JobIds
  <1>c8. JobsRunAtTheirTimes'
    BY <1>i, <1>1, <1>2, <1>3, <1>4, <1>5, <1>6 DEF JobsRunAtTheirTimes, FiringsMeet
  <1> QED
    BY <1>c1, <1>c2, <1>c3, <1>c4, <1>c5, <1>c6, <1>c7, <1>c8 DEF ScheduleInv

LEMMA MisfireKeeps ==
  ASSUME ScheduleInv, NEW e \in timers, Misfire(e)
  PROVE  ScheduleInv'
  <1>i. /\ ScheduleTypes /\ RequestsMeet /\ SyncsFit /\ StartIsQuiet /\ EntriesFit /\ FiringsFit
        /\ ActiveJobsAreTimed /\ JobsRunAtTheirTimes
    BY DEF ScheduleInv
  <1>1. e.trigger \in past /\ timers' = timers \ {e} /\ UNCHANGED <<jobs, past, hand, firings, boot, crossed>>
    BY DEF Misfire
  <1>c1. ScheduleTypes'
    BY <1>i, <1>1 DEF ScheduleTypes, FiringsMeet, JobIds, JobRows, Alike, Entries
  <1>c2. RequestsMeet'
    BY <1>i, <1>1 DEF RequestsMeet, JobIds, AtWorkOn
  <1>c3. SyncsFit'
    BY <1>i, <1>1 DEF SyncsFit, RequestsMeet, AtWorkOn
  <1>c4. StartIsQuiet'
    BY <1>i, <1>1 DEF StartIsQuiet
  <1>c5. EntriesFit'
    BY <1>i, <1>1 DEF EntriesFit, AtWorkOn
  <1>c6. FiringsFit'
    BY <1>i, <1>1 DEF FiringsFit, AtWorkOn, FiringsMeet
  <1>c7. ActiveJobsAreTimed'
    BY <1>i, <1>1 DEF ActiveJobsAreTimed, AtWorkOn, JobIds
  <1>c8. JobsRunAtTheirTimes'
    BY <1>i, <1>1 DEF JobsRunAtTheirTimes, FiringsMeet
  <1> QED
    BY <1>c1, <1>c2, <1>c3, <1>c4, <1>c5, <1>c6, <1>c7, <1>c8 DEF ScheduleInv

LEMMA LoadKeeps ==
  ASSUME ScheduleInv, NEW f \in firings, Load(f)
  PROVE  ScheduleInv'
  <1>i. /\ ScheduleTypes /\ RequestsMeet /\ SyncsFit /\ StartIsQuiet /\ EntriesFit /\ FiringsFit
        /\ ActiveJobsAreTimed /\ JobsRunAtTheirTimes
    BY DEF ScheduleInv
  <1>1. f.pc = "load" /\ UNCHANGED <<jobs, timers, past, hand, boot, crossed>> /\ f \in Runs
    BY <1>i DEF Load, ScheduleTypes
  <1>2. \/ firings' = firings \ {f}
        \/ /\ firings' = (firings \ {f}) \cup {[f EXCEPT !.pc = "execute"]}
           /\ \E j \in jobs : j.id = f.id /\ j.enabled
    BY DEF Load, Moves
  <1>3. /\ [f EXCEPT !.pc = "execute"] \in Runs /\ [f EXCEPT !.pc = "execute"].id = f.id
        /\ [f EXCEPT !.pc = "execute"].pc = "execute" /\ [f EXCEPT !.pc = "execute"].own = f.own
        /\ [f EXCEPT !.pc = "execute"].alone = f.alone
    BY <1>1 DEF Runs
  <1>c1. ScheduleTypes'
    BY <1>i, <1>1, <1>2, <1>3 DEF ScheduleTypes, FiringsMeet, JobIds, JobRows, Alike, Entries
  <1>c2. RequestsMeet'
    BY <1>i, <1>1, <1>2, <1>3 DEF RequestsMeet, JobIds, AtWorkOn
  <1>c3. SyncsFit'
    BY <1>i, <1>1, <1>2, <1>3 DEF SyncsFit, RequestsMeet, AtWorkOn
  <1>c4. StartIsQuiet'
    BY <1>i, <1>1, <1>2, <1>3 DEF StartIsQuiet
  <1>c5. EntriesFit'
    BY <1>i, <1>1, <1>2, <1>3 DEF EntriesFit, AtWorkOn
  <1>c6. FiringsFit'
    BY <1>i, <1>1, <1>2, <1>3 DEF FiringsFit, AtWorkOn, FiringsMeet
  <1>c7. ActiveJobsAreTimed'
    BY <1>i, <1>1, <1>2, <1>3 DEF ActiveJobsAreTimed, AtWorkOn, JobIds
  <1>c8. JobsRunAtTheirTimes'
    BY <1>i, <1>1, <1>2, <1>3 DEF JobsRunAtTheirTimes, FiringsFit
  <1> QED
    BY <1>c1, <1>c2, <1>c3, <1>c4, <1>c5, <1>c6, <1>c7, <1>c8 DEF ScheduleInv

LEMMA FinishKeeps ==
  ASSUME ScheduleInv, NEW f \in firings, Finish(f)
  PROVE  ScheduleInv'
  <1>i. /\ ScheduleTypes /\ RequestsMeet /\ SyncsFit /\ StartIsQuiet /\ EntriesFit /\ FiringsFit
        /\ ActiveJobsAreTimed /\ JobsRunAtTheirTimes
    BY DEF ScheduleInv
  <1>1. firings' = firings \ {f} /\ UNCHANGED <<timers, past, hand, boot, crossed>>
    BY DEF Finish, Moves
  <1>2. \/ jobs' = jobs
        \/ f.id \in JobIds /\ jobs' = Switched(f.id, FALSE)
    BY DEF Finish
  <1>3. /\ jobs' \subseteq JobRows /\ Alike(jobs)' /\ JobIds' = JobIds
        /\ \A j \in jobs' : \E k \in jobs : j.id = k.id /\ j.trigger = k.trigger /\ (j.enabled => k.enabled)
    BY <1>i, <1>2, SwitchedFacts DEF ScheduleTypes, Alike, JobIds
  <1>c1. ScheduleTypes'
    BY <1>i, <1>1, <1>2, <1>3 DEF ScheduleTypes, FiringsMeet, JobIds, JobRows, Alike, Entries
  <1>c2. RequestsMeet'
    BY <1>i, <1>1, <1>2, <1>3 DEF RequestsMeet, JobIds, AtWorkOn
  <1>c3. SyncsFit'
    BY <1>i, <1>1, <1>2, <1>3 DEF SyncsFit, RequestsMeet, AtWorkOn
  <1>c4. StartIsQuiet'
    BY <1>i, <1>1, <1>2, <1>3 DEF StartIsQuiet
  <1>c5. EntriesFit'
    BY <1>i, <1>1, <1>2, <1>3 DEF EntriesFit, AtWorkOn
  <1>c6. FiringsFit'
    BY <1>i, <1>1, <1>2, <1>3 DEF FiringsFit, AtWorkOn, FiringsMeet
  <1>c7. ActiveJobsAreTimed'
    BY <1>i, <1>1, <1>2, <1>3 DEF ActiveJobsAreTimed, AtWorkOn, JobIds
  <1>c8. JobsRunAtTheirTimes'
    BY <1>i, <1>1, <1>2, <1>3 DEF JobsRunAtTheirTimes, FiringsMeet
  <1> QED
    BY <1>c1, <1>c2, <1>c3, <1>c4, <1>c5, <1>c6, <1>c7, <1>c8 DEF ScheduleInv

LEMMA RestartKeeps ==
  ASSUME ScheduleInv, ManagerRestarts
  PROVE  ScheduleInv'
  <1>i. /\ ScheduleTypes /\ RequestsMeet /\ SyncsFit /\ StartIsQuiet /\ EntriesFit /\ FiringsFit
        /\ ActiveJobsAreTimed /\ JobsRunAtTheirTimes
    BY DEF ScheduleInv
  <1>1. timers' = {} /\ firings' = {} /\ boot' = JobIds /\ crossed' = {} /\ UNCHANGED <<jobs, past>>
    BY DEF ManagerRestarts
  <1>2. hand' \in [Hands -> Errands] /\ \A t \in Hands : hand'[t].pc = "idle"
    BY IdleFacts DEF ManagerRestarts
  <1>c1. ScheduleTypes'
    BY <1>i, <1>1, <1>2 DEF ScheduleTypes, FiringsMeet, JobIds, JobRows, Alike, Entries
  <1>c2. RequestsMeet'
    BY <1>i, <1>1, <1>2 DEF RequestsMeet, JobIds, AtWorkOn
  <1>c3. SyncsFit'
    BY <1>i, <1>1, <1>2 DEF SyncsFit, RequestsMeet, AtWorkOn
  <1>c4. StartIsQuiet'
    BY <1>i, <1>1, <1>2 DEF StartIsQuiet
  <1>c5. EntriesFit'
    BY <1>i, <1>1, <1>2 DEF EntriesFit, AtWorkOn
  <1>c6. FiringsFit'
    BY <1>i, <1>1, <1>2 DEF FiringsFit, AtWorkOn, FiringsMeet
  <1>c7. ActiveJobsAreTimed'
    BY <1>i, <1>1, <1>2 DEF ActiveJobsAreTimed, AtWorkOn, JobIds
  <1>c8. JobsRunAtTheirTimes'
    BY <1>i, <1>1, <1>2 DEF JobsRunAtTheirTimes, FiringsMeet
  <1> QED
    BY <1>c1, <1>c2, <1>c3, <1>c4, <1>c5, <1>c6, <1>c7, <1>c8 DEF ScheduleInv

LEMMA StartKeeps ==
  ASSUME ScheduleInv, SyncAtStart
  PROVE  ScheduleInv'
  <1>i. /\ ScheduleTypes /\ RequestsMeet /\ SyncsFit /\ StartIsQuiet /\ EntriesFit /\ FiringsFit
        /\ ActiveJobsAreTimed /\ JobsRunAtTheirTimes
    BY DEF ScheduleInv
  <1>1. PICK i \in boot : boot' = boot \ {i} /\ timers' = Entered(i, Job(i).enabled, Job(i).trigger)
    BY DEF SyncAtStart
  <1>2. UNCHANGED <<jobs, past, hand, firings, crossed>>
    BY DEF SyncAtStart
  <1>3. i \in JobIds /\ Job(i) \in jobs /\ Job(i).id = i /\ Job(i) \in JobRows /\ \A j \in jobs : j.id = i => j = Job(i)
    BY <1>i, JobFacts DEF ScheduleTypes
  <1>4. /\ \A e \in timers' : (e \in timers /\ e.id # i) \/ e = [id |-> i, trigger |-> Job(i).trigger]
        /\ \A e \in timers : e.id # i => e \in timers'
        /\ Job(i).enabled => [id |-> i, trigger |-> Job(i).trigger] \in timers'
    BY <1>1 DEF Entered, Untimed
  <1>c1. ScheduleTypes'
    BY <1>i, <1>1, <1>2, <1>3, <1>4 DEF ScheduleTypes, FiringsMeet, JobIds, JobRows, Alike, Entries
  <1>c2. RequestsMeet'
    BY <1>i, <1>1, <1>2, <1>3, <1>4 DEF RequestsMeet, JobIds, AtWorkOn
  <1>c3. SyncsFit'
    BY <1>i, <1>1, <1>2, <1>3, <1>4 DEF SyncsFit, RequestsMeet, AtWorkOn
  <1>c4. StartIsQuiet'
    BY <1>i, <1>1, <1>2, <1>3, <1>4 DEF StartIsQuiet
  <1>c5. EntriesFit'
    BY <1>i, <1>1, <1>2, <1>3, <1>4 DEF EntriesFit, AtWorkOn
  <1>c6. FiringsFit'
    BY <1>i, <1>1, <1>2, <1>3, <1>4 DEF FiringsFit, AtWorkOn, FiringsMeet
  <1>c7. ActiveJobsAreTimed'
    BY <1>i, <1>1, <1>2, <1>3, <1>4 DEF ActiveJobsAreTimed, AtWorkOn, JobIds
  <1>c8. JobsRunAtTheirTimes'
    BY <1>i, <1>1, <1>2, <1>3, <1>4 DEF JobsRunAtTheirTimes, FiringsMeet
  <1> QED
    BY <1>c1, <1>c2, <1>c3, <1>c4, <1>c5, <1>c6, <1>c7, <1>c8 DEF ScheduleInv

LEMMA ScheduleStarts == ScheduleInit => ScheduleInv
  <1> SUFFICES ASSUME ScheduleInit PROVE ScheduleInv
    OBVIOUS
  <1>1. /\ jobs = {} /\ timers = {} /\ past = {} /\ firings = {} /\ boot = {} /\ crossed = {}
        /\ hand \in [Hands -> Errands] /\ \A t \in Hands : hand[t].pc = "idle"
    BY IdleFacts DEF ScheduleInit
  <1>2. ScheduleTypes /\ RequestsMeet /\ SyncsFit /\ StartIsQuiet
    BY <1>1 DEF ScheduleTypes, Alike, RequestsMeet, SyncsFit, StartIsQuiet
  <1>3. EntriesFit /\ FiringsFit /\ ActiveJobsAreTimed /\ JobsRunAtTheirTimes
    BY <1>1 DEF EntriesFit, FiringsFit, ActiveJobsAreTimed, JobsRunAtTheirTimes
  <1> QED
    BY <1>2, <1>3 DEF ScheduleInv

LEMMA ScheduleKeeps == ScheduleInv /\ [ScheduleNext]_scheduleVars => ScheduleInv'
  <1> SUFFICES ASSUME ScheduleInv, [ScheduleNext]_scheduleVars PROVE ScheduleInv'
    OBVIOUS
  <1>1. ASSUME NEW t \in Hands, SetEnabled(t) \/ Refresh(t) \/ SyncJob(t) \/ DropJob(t) PROVE ScheduleInv'
    BY <1>1, SetKeeps, RefreshKeeps, SyncKeeps, DropKeeps
  <1>2. ASSUME NEW t \in Hands, NEW o \in Owners, NEW x \in Triggers, CreateJob(t, o, x) PROVE ScheduleInv'
    BY <1>2, CreateKeeps
  <1>3. ASSUME NEW t \in Hands, NEW i \in JobIds, ToggleJob(t, i) \/ DeleteJob(t, i) PROVE ScheduleInv'
    BY <1>3, ToggleKeeps, DeleteKeeps
  <1>4. ASSUME NEW t \in Hands, NEW o \in Owners, DeleteOwner(t, o) PROVE ScheduleInv'
    BY <1>4, DeleteOwnerKeeps
  <1>5. ASSUME NEW t \in Hands, NEW o \in Owners, NEW p \in Owners, DuplicateOwner(t, o, p) PROVE ScheduleInv'
    BY <1>5, DuplicateKeeps
  <1>6. ASSUME NEW e \in timers, Fire(e) \/ Misfire(e) PROVE ScheduleInv'
    BY <1>6, FireKeeps, MisfireKeeps
  <1>7. ASSUME NEW f \in firings, Load(f) \/ Finish(f) PROVE ScheduleInv'
    BY <1>7, LoadKeeps, FinishKeeps
  <1>8. CASE ManagerRestarts \/ SyncAtStart
    BY <1>8, RestartKeeps, StartKeeps
  <1>9. CASE UNCHANGED scheduleVars
    BY <1>9 DEF scheduleVars, ScheduleInv, ScheduleTypes, RequestsMeet, SyncsFit, StartIsQuiet, EntriesFit,
                FiringsFit, ActiveJobsAreTimed, JobsRunAtTheirTimes, JobIds, AtWorkOn, Alike
  <1> QED
    BY <1>1, <1>2, <1>3, <1>4, <1>5, <1>6, <1>7, <1>8, <1>9 DEF ScheduleNext

THEOREM SchedulesKeepTheirTypes == ScheduleSpec => []ScheduleTypeOK
  <1>1. ScheduleInv => ScheduleTypeOK
    BY DEF ScheduleInv, ScheduleTypes, ScheduleTypeOK, JobRows, Entries, Alike
  <1> QED
    BY <1>1, ScheduleStarts, ScheduleKeeps, PTL DEF ScheduleSpec

THEOREM TimersAlwaysFollowJobs == ScheduleSpec => []TimersFollowJobs
  <1>1. ScheduleInv => TimersFollowJobs
    BY DEF ScheduleInv, TimersFollowJobs
  <1> QED
    BY <1>1, ScheduleStarts, ScheduleKeeps, PTL DEF ScheduleSpec

-----------------------------------------------------------------------------
(* The listing and what the mods require: ContentLibrary                     *)

ContentRows ==
  [id : 1..MaxRows, proj : Projects \cup {NoProject}, ver : Versions \cup {0}, file : AllFiles,
   mark : {"none", "unmatched"}, unread : BOOLEAN]
Required == [proj : Projects \ Packs, ver : Versions \cup {0}]
Frames == [proj : Projects, ver : Versions, todo : Seq(Required)]
Pipeline == {"fetch", "deps", "download", "commit"}
Packing == {"generate", "swap", "enter"}
OneRowEach(rows) == \A r, s \in rows : r.id = s.id => r = s
FilesOf(rows) == {r.file : r \in rows}
Named(list) == {list[i].proj : i \in DOMAIN list}

\* Rows keep their numbers to themselves, in the table and in a page's session.
RowTypes ==
  /\ installed \subseteq ContentRows /\ OneRowEach(installed)
  /\ onDisk \subseteq AllFiles
  /\ touched \subseteq Actors

PageType(g) ==
  /\ g \in [pc : {"idle", "scan", "adopt", "settle", "look", "heal", "shown", "unlinked"},
            seen : {g.seen}, ids : SUBSET (1..MaxRows), target : 0..MaxRows]
  /\ g.pc = "settle" => /\ g.seen \subseteq ContentRows /\ OneRowEach(g.seen)
                        /\ \A r \in g.seen : r.proj = NoProject
PageTypes ==
  /\ DOMAIN page = Pages
  /\ \A t \in Pages : PageType(page[t])

JobRecords ==
  [pc : Pipeline \cup Packing \cup {"idle", "next", "done"}, queue : SUBSET ContentRows,
   stack : Seq(Frames), optional : BOOLEAN, alone : BOOLEAN, failed : SUBSET Projects,
   pack : 0..MaxRows]
JobShape(j) ==
  LET top == j.stack[Len(j.stack)]
  IN  /\ j \in JobRecords
      /\ \A r \in j.queue : r.proj # NoProject
      /\ j.pc \in Pipeline \cup Packing \cup {"done"} => j.stack # <<>>
      /\ j.pc \in {"download", "commit"} => top.todo = <<>>
      /\ j.pc \in Packing => top.proj \in Packs
JobTypes == JobShape(job) /\ doomed \subseteq 1..MaxRows

\* What an undisturbed page knows, from one of its steps to the next.
CalmPage(t) ==
  LET g == page[t]
  IN  /\ g.pc = "scan" => g.seen = FilesOf(installed)
      /\ g.pc \in {"adopt", "settle", "look", "heal"} => onDisk \subseteq FilesOf(installed)
      /\ g.pc = "settle" => g.seen \subseteq installed
      /\ g.pc = "heal" => g.ids = Gone
      /\ g.pc = "shown" => FilesOf(installed) = onDisk
CalmPages == \A t \in Pages \ touched : CalmPage(t)

\* A row is written off only if nobody who was asked knows its file.
StaysOpen(r) ==
  r.mark = "unmatched" =>
    Knows[r.file] \cap Consulted(r.file) \subseteq IF r.unread THEN {"curseforge"} ELSE {}
OpenRows ==
  /\ \A r \in installed : StaysOpen(r)
  /\ \A t \in Pages : page[t].pc = "settle" => \A r \in page[t].seen : StaysOpen(r)

\* The rows an undisturbed job means to delete are of projects that failed, of packs, or of the
\* one it is installing.
DoomedRows ==
  \A r \in installed : r.id \in doomed =>
    \/ r.proj \in job.failed \cup Packs
    \/ job.pc \in {"download", "commit"} /\ r.proj = TopFrame.proj

\* Of what a frame requires, all is there, or failed, or still to do, or being done above it.
Held == {r.proj : r \in installed} \cup job.failed
FrameStands(k) ==
  LET f == job.stack[k]
  IN Named(Requires[f.proj, f.ver])
       \subseteq Held \cup Named(f.todo)
                 \cup (IF k < Len(job.stack) THEN {job.stack[k + 1].proj} ELSE {})
JobStands ==
  "job" \notin touched /\ ~job.optional /\ ~job.alone =>
    /\ job.pc # "idle" => DoomedRows
    /\ job.pc \in Pipeline => \A k \in DOMAIN job.stack : FrameStands(k)
    /\ job.pc = "done" => Named(Requires[TopFrame.proj, TopFrame.ver]) \subseteq Held

ContentInv == RowTypes /\ PageTypes /\ JobTypes /\ CalmPages /\ OpenRows /\ JobStands

LEMMA NamedFacts ==
  /\ Named(<<>>) = {}
  /\ \A s \in Seq(Required) : s # <<>> =>
       /\ Head(s) \in Required /\ Tail(s) \in Seq(Required)
       /\ Named(s) = {Head(s).proj} \cup Named(Tail(s))
  <1>1. Named(<<>>) = {}
    BY DEF Named
  <1>2. ASSUME NEW s \in Seq(Required), s # <<>>
        PROVE  /\ Head(s) \in Required /\ Tail(s) \in Seq(Required)
               /\ Named(s) = {Head(s).proj} \cup Named(Tail(s))
    <2> DEFINE t == Tail(s)
    <2>1. /\ s[1] = Head(s) /\ Len(s) \in Nat \ {0}
          /\ t \in Seq(Required) /\ Len(t) = Len(s) - 1
          /\ DOMAIN s = 1..Len(s) /\ DOMAIN t = 1..Len(t)
          /\ \A i \in 1..Len(t) : t[i] = s[i + 1]
          /\ \A i \in 1..Len(s) : s[i] \in Required
      BY <1>2
    <2> HIDE DEF t
    <2>2. ASSUME NEW p \in Named(s)  PROVE p \in {Head(s).proj} \cup Named(t)
      <3>1. PICK i \in 1..Len(s) : p = s[i].proj
        BY <2>1 DEF Named
      <3>2. CASE i = 1
        BY <2>1, <3>1, <3>2
      <3>3. CASE i # 1
        <4>1. i - 1 \in 1..Len(t) /\ t[i - 1] = s[i]
          BY <2>1, <3>3
        <4> QED
          BY <2>1, <3>1, <4>1 DEF Named
      <3> QED
        BY <3>2, <3>3
    <2>3. ASSUME NEW p \in {Head(s).proj} \cup Named(t)  PROVE p \in Named(s)
      <3>1. CASE p = Head(s).proj
        <4>1. 1 \in 1..Len(s)
          BY <2>1
        <4> QED
          BY <2>1, <3>1, <4>1 DEF Named
      <3>2. CASE p \in Named(t)
        <4>1. PICK i \in 1..Len(t) : p = t[i].proj
          BY <2>1, <3>2 DEF Named
        <4>2. i + 1 \in 1..Len(s) /\ t[i] = s[i + 1]
          BY <2>1
        <4> QED
          BY <2>1, <4>1, <4>2 DEF Named
      <3> QED
        BY <2>3, <3>1, <3>2
    <2>4. Named(s) = {Head(s).proj} \cup Named(t)
      BY <2>2, <2>3
    <2>5. Head(s) \in Required
      <3>1. 1 \in 1..Len(s)
        BY <2>1
      <3> QED
        BY <2>1, <3>1
    <2> QED
      BY <2>1, <2>4, <2>5 DEF t
  <1> QED
    BY <1>1, <1>2

\* A new row gets a number of its own, and there is one as long as the bound allows it.
LEMMA NextIds ==
  ASSUME RowTypes
  PROVE  /\ NextRowId \in Nat \ {0} /\ NextRowId <= MaxRows + 1
         /\ \A r \in installed : r.id \in Nat /\ r.id < NextRowId
  <1> DEFINE S == {r.id : r \in installed} \cup {0}
  <1>1. MaxRows \in Nat
    BY ContentAssumption
  <1>2. \A r \in installed : r.id \in 1..MaxRows
    BY DEF RowTypes, ContentRows
  <1>3. S \in SUBSET (0..MaxRows) /\ S # {}
    BY <1>1, <1>2
  <1>4. Max(S) \in S /\ \A y \in S : y <= Max(S)
    BY <1>1, <1>3, MaxFacts
  <1>5. NextRowId = 1 + Max(S)
    BY DEF NextRowId
  <1>6. \A r \in installed : r.id \in S
    OBVIOUS
  <1> DEFINE m == Max(S)
  <1>7. m \in 0..MaxRows /\ \A r \in installed : r.id <= m
    BY <1>3, <1>4, <1>6
  <1>8. NextRowId = 1 + m
    BY <1>5
  <1> HIDE DEF m
  <1> QED
    BY <1>1, <1>2, <1>7, <1>8

\* What is offered newest is a version.
LEMMA Offers ==
  /\ Max(Versions) \in Versions
  /\ \A p : Offered(p) # {} => Max(Offered(p)) \in Versions
  <1>1. /\ IsFiniteSet(Versions) /\ Versions # {} /\ Versions = 1..Cardinality(Versions)
    BY ContentAssumption
  <1>2. PICK n \in Nat : Versions = 1..n
    BY <1>1, FS_CardinalityType
  <1>3. ASSUME NEW S \in SUBSET Versions, S # {}  PROVE Max(S) \in Versions
    <2>1. S \in SUBSET (0..n)
      BY <1>2
    <2> QED
      BY <1>3, <2>1, MaxFacts
  <1>4. \A p : Offered(p) \in SUBSET Versions
    BY DEF Offered
  <1> QED
    BY <1>1, <1>3, <1>4

LEMMA FilesAreFinite == IsFiniteSet(AllFiles)
  <1> DEFINE X == Projects \X Versions
             T == {FileOf[x] : x \in X}
             f == [x \in X |-> FileOf[x]]
  <1>1. IsFiniteSet(X)
    BY ContentAssumption, FS_Product
  <1> HIDE DEF X
  <1>2. f \in [X -> T]
    OBVIOUS
  <1>3. \A y \in T : \E x \in X : f[x] = y
    OBVIOUS
  <1>4. f \in Surjection(X, T)
    BY <1>2, <1>3 DEF Surjection
  <1> HIDE DEF f, T
  <1>5. IsFiniteSet(T)
    BY <1>1, <1>4, FS_Surjection
  <1>6. IsFiniteSet(T \cup HandFiles)
    BY <1>5, ContentAssumption, FS_Union
  <1> QED
    BY <1>6 DEF AllFiles, T, X

\* Finitely many things can be numbered from n on.
LEMMA Numbering ==
  ASSUME NEW S, IsFiniteSet(S), NEW n \in Nat
  PROVE  /\ Cardinality(S) \in Nat
         /\ \E g \in [S -> n..(n + Cardinality(S))] : \A f, h \in S : f # h => g[f] # g[h]
  <1> DEFINE c == Cardinality(S)
  <1>1. c \in Nat /\ ExistsBijection(1..c, S)
    BY FS_CardinalityType
  <1> HIDE DEF c
  <1>2. PICK b \in Bijection(1..c, S) : TRUE
    BY <1>1 DEF ExistsBijection
  <1>3. /\ b \in [1..c -> S]
        /\ \A f \in S : \E i \in 1..c : b[i] = f
    BY <1>2 DEF Bijection, Injection, Surjection
  <1> DEFINE pos(f) == CHOOSE i \in 1..c : b[i] = f
             g == [f \in S |-> n + pos(f)]
  <1>4. \A f \in S : pos(f) \in 1..c /\ b[pos(f)] = f
    BY <1>3
  <1>5. \A f \in S : n + pos(f) \in n..(n + c)
    <2> TAKE f \in S
    <2>1. pos(f) \in 1..c
      BY <1>4
    <2> HIDE DEF pos
    <2> QED
      BY <1>1, <2>1
  <1>6. \A f, h \in S : f # h => n + pos(f) # n + pos(h)
    <2> TAKE f, h \in S
    <2>1. /\ pos(f) \in 1..c /\ b[pos(f)] = f
          /\ pos(h) \in 1..c /\ b[pos(h)] = h
      BY <1>4
    <2> HIDE DEF pos
    <2> QED
      BY <1>1, <2>1
  <1> HIDE DEF pos
  <1>7. g \in [S -> n..(n + c)] /\ \A f \in S : g[f] = n + pos(f)
    BY <1>5
  <1>8. \A f, h \in S : f # h => g[f] # g[h]
    BY <1>6, <1>7
  <1> QED
    BY <1>1, <1>7, <1>8 DEF c

\* The rows a page makes of files it did not know.
LEMMA LocalRowFacts ==
  ASSUME RowTypes, NEW t \in Pages, NextRowId + Cardinality(onDisk) < MaxRows
  PROVE  /\ LocalRows(t) \subseteq ContentRows /\ OneRowEach(LocalRows(t))
         /\ \A r \in LocalRows(t) : r.id >= NextRowId /\ r.mark = "none"
         /\ FilesOf(LocalRows(t)) = onDisk \ page[t].seen
  <1> DEFINE new == onDisk \ page[t].seen
             n == NextRowId
             Good(g) == \A f, h \in new : f # h => g[f] # g[h]
             numbers == CHOOSE g \in [new -> n..(n + Cardinality(new))] : Good(g)
  <1>1. n \in Nat \ {0} /\ MaxRows \in Nat
    BY NextIds, ContentAssumption
  <1>2. IsFiniteSet(onDisk)
    BY FilesAreFinite, FS_Subset DEF RowTypes
  <1>3. new \in SUBSET onDisk
    OBVIOUS
  <1>4. IsFiniteSet(new) /\ Cardinality(new) <= Cardinality(onDisk)
    BY <1>2, <1>3, FS_Subset
  <1>5. Cardinality(onDisk) \in Nat /\ Cardinality(new) \in Nat
    BY <1>2, <1>4, FS_CardinalityType
  <1>6. \E g \in [new -> n..(n + Cardinality(new))] : Good(g)
    BY <1>1, <1>4, Numbering
  <1>7. numbers \in [new -> n..(n + Cardinality(new))] /\ Good(numbers)
    BY <1>6
  <1>8. LocalRows(t) = {ContentRow(numbers[f], NoProject, 0, f) : f \in new}
    BY DEF LocalRows
  <1>9. n + Cardinality(new) <= MaxRows
    <2> HIDE DEF n, new
    <2> QED
      BY <1>1, <1>4, <1>5 DEF n
  <1> HIDE DEF numbers, n
  <1>10. \A f \in new : numbers[f] \in n..(n + Cardinality(new))
    BY <1>7
  <1>11. \A f \in new : numbers[f] \in 1..MaxRows /\ numbers[f] >= n
    <2> HIDE DEF new
    <2> QED
      BY <1>1, <1>5, <1>9, <1>10
  <1>12. \A f \in new : f \in AllFiles
    BY DEF RowTypes
  <1> HIDE DEF new
  <1>13. ASSUME NEW r \in LocalRows(t)
         PROVE  \E f \in new : r = ContentRow(numbers[f], NoProject, 0, f)
    BY <1>8
  <1>14. ASSUME NEW f \in new
         PROVE  LET r == ContentRow(numbers[f], NoProject, 0, f)
                IN  r \in LocalRows(t) /\ r \in ContentRows /\ r.file = f /\ r.id = numbers[f]
                    /\ r.id >= n /\ r.mark = "none"
    BY <1>8, <1>11, <1>12 DEF ContentRows, ContentRow
  <1>15. OneRowEach(LocalRows(t))
    <2>1. SUFFICES ASSUME NEW r \in LocalRows(t), NEW s \in LocalRows(t), r.id = s.id
                   PROVE  r = s
      BY DEF OneRowEach
    <2>2. PICK f \in new : r = ContentRow(numbers[f], NoProject, 0, f)
      BY <1>13
    <2>3. PICK h \in new : s = ContentRow(numbers[h], NoProject, 0, h)
      BY <1>13
    <2>4. numbers[f] = numbers[h]
      BY <1>14, <2>1, <2>2, <2>3
    <2> QED
      BY <1>7, <2>2, <2>3, <2>4
  <1>16. FilesOf(LocalRows(t)) = new
    BY <1>13, <1>14 DEF FilesOf
  <1>17. /\ LocalRows(t) \subseteq ContentRows
         /\ \A r \in LocalRows(t) : r.id >= n /\ r.mark = "none"
    BY <1>13, <1>14
  <1> QED
    BY <1>15, <1>16, <1>17 DEF new, n

-----------------------------------------------------------------------------
(* Page views and deletions                                                  *)

\* The job goes on undisturbed only if nothing it looks at changed.
LEMMA JobRests ==
  ASSUME JobTypes, JobStands, UNCHANGED <<job, doomed>>,
         \/ "job" \in touched'
         \/ installed' = installed /\ ("job" \in touched => "job" \in touched')
  PROVE  JobTypes' /\ JobStands'
  <1>1. JobTypes'
    BY DEF JobTypes
  <1>2. CASE "job" \in touched'
    BY <1>1, <1>2 DEF JobStands
  <1>3. CASE installed' = installed /\ "job" \notin touched' /\ "job" \notin touched
    BY <1>1, <1>3 DEF JobStands, DoomedRows, FrameStands, Held, TopFrame
  <1> QED
    BY <1>2, <1>3

\* The step of one page: the others saw it happen, or it changed nothing.
LEMMA PageMoves ==
  ASSUME PageTypes, CalmPages, NEW t \in Pages, NEW g, PageGoes(t, g), PageType(g),
         touched \ {t} \subseteq touched',
         \/ Pages \ {t} \subseteq touched'
         \/ UNCHANGED <<installed, onDisk>>,
         t \notin touched' => CalmPage(t)'
  PROVE  PageTypes' /\ CalmPages'
  <1>1. page' = [page EXCEPT ![t] = g] /\ DOMAIN page = Pages
    BY DEF PageGoes, PageTypes
  <1>2. DOMAIN page' = Pages /\ page'[t] = g /\ \A u \in Pages \ {t} : page'[u] = page[u]
    BY <1>1
  <1>3. PageTypes'
    BY <1>2 DEF PageTypes, PageType
  <1>4. ASSUME NEW u \in Pages \ touched'  PROVE CalmPage(u)'
    <2>1. CASE u = t
      BY <1>4, <2>1
    <2>2. CASE u # t
      <3>1. u \notin touched /\ UNCHANGED <<installed, onDisk>> /\ page'[u] = page[u]
        BY <1>2, <1>4, <2>2
      <3>2. CalmPage(u)
        BY <3>1 DEF CalmPages
      <3> QED
        BY <3>1, <3>2 DEF CalmPage, Gone, FilesOf
    <2> QED
      BY <2>1, <2>2
  <1>5. CalmPages'
    BY <1>4 DEF CalmPages
  <1> QED
    BY <1>3, <1>5

\* The page's rows, and those of the others, stay as open as they were.
LEMMA PagesOpen ==
  ASSUME PageTypes, OpenRows, NEW t \in Pages, NEW g, PageGoes(t, g),
         g.pc = "settle" => \A r \in g.seen : StaysOpen(r),
         \A r \in installed' : r \in installed \/ StaysOpen(r)
  PROVE  OpenRows'
  <1>1. page' = [page EXCEPT ![t] = g] /\ DOMAIN page = Pages
    BY DEF PageGoes, PageTypes
  <1>2. page'[t] = g /\ \A u \in Pages \ {t} : page'[u] = page[u]
    BY <1>1
  <1>3. \A r \in installed' : StaysOpen(r)
    BY DEF OpenRows
  <1>4. ASSUME NEW u \in Pages, page'[u].pc = "settle", NEW r \in page'[u].seen
        PROVE  StaysOpen(r)
    <2>1. CASE u = t
      BY <1>2, <1>4, <2>1
    <2>2. CASE u # t
      BY <1>2, <1>4, <2>2 DEF OpenRows
    <2> QED
      BY <2>1, <2>2
  <1> QED
    BY <1>3, <1>4 DEF OpenRows

\* What Disturbs means for the two kinds of actors.
LEMMA Disturbing ==
  /\ \A t \in Pages : Disturbs(t) => /\ "job" \in touched' /\ Pages \ {t} \subseteq touched'
                                     /\ touched' \subseteq Actors \cup touched /\ touched \subseteq touched'
                                     /\ (t \in touched' => t \in touched)
  /\ Disturbs("job") => /\ Pages \subseteq touched' /\ touched \subseteq touched'
                        /\ touched' \subseteq Actors \cup touched
                        /\ ("job" \in touched' => "job" \in touched)
  BY ContentAssumption DEF Disturbs, Actors

\* What a page knows after it went on.
PageRecord(where, files, numbers, row) ==
  [pc : {where}, seen : {files}, ids : {numbers}, target : {row}]
LEMMA PageRecords ==
  ASSUME NEW where, NEW some,
         NEW A, NEW B, NEW C, NEW D, NEW p \in [pc : A, seen : B, ids : C, target : D]
  PROVE  /\ [p EXCEPT !.pc = where] \in PageRecord(where, p.seen, p.ids, p.target)
         /\ [p EXCEPT !.pc = where, !.seen = some] \in PageRecord(where, some, p.ids, p.target)
         /\ [p EXCEPT !.pc = where, !.ids = some] \in PageRecord(where, p.seen, some, p.target)
         /\ [p EXCEPT !.pc = where, !.target = some] \in PageRecord(where, p.seen, p.ids, some)
  <1>1. [p EXCEPT !.pc = where] \in PageRecord(where, p.seen, p.ids, p.target)
    BY DEF PageRecord
  <1>2. [p EXCEPT !.pc = where, !.seen = some] \in PageRecord(where, some, p.ids, p.target)
    BY DEF PageRecord
  <1>3. [p EXCEPT !.pc = where, !.ids = some] \in PageRecord(where, p.seen, some, p.target)
    BY DEF PageRecord
  <1>4. [p EXCEPT !.pc = where, !.target = some] \in PageRecord(where, p.seen, p.ids, some)
    BY DEF PageRecord
  <1> QED
    BY <1>1, <1>2, <1>3, <1>4

LEMMA PageFields ==
  ASSUME PageTypes, NEW t \in Pages
  PROVE  /\ PageType(page[t])
         /\ page[t].ids \subseteq 1..MaxRows /\ page[t].target \in 0..MaxRows
         /\ \A where, some :
              /\ [page[t] EXCEPT !.pc = where]
                   \in PageRecord(where, page[t].seen, page[t].ids, page[t].target)
              /\ [page[t] EXCEPT !.pc = where, !.seen = some]
                   \in PageRecord(where, some, page[t].ids, page[t].target)
              /\ [page[t] EXCEPT !.pc = where, !.ids = some]
                   \in PageRecord(where, page[t].seen, some, page[t].target)
              /\ [Away EXCEPT !.pc = where, !.seen = some] \in PageRecord(where, some, {}, 0)
              /\ [Away EXCEPT !.pc = where, !.target = some] \in PageRecord(where, {}, {}, some)
         /\ \A g : PageGoes(t, g) => page'[t] = g
  <1>1. PageType(page[t]) /\ DOMAIN page = Pages
    BY DEF PageTypes
  <1>2. page[t] \in [pc : {"idle", "scan", "adopt", "settle", "look", "heal", "shown", "unlinked"},
                    seen : {page[t].seen}, ids : SUBSET (1..MaxRows), target : 0..MaxRows]
    BY <1>1 DEF PageType
  <1>3. Away \in [pc : {"idle"}, seen : {{}}, ids : {{}}, target : {0}]
    BY DEF Away
  <1>4. Away.seen = {} /\ Away.ids = {} /\ Away.target = 0
    BY DEF Away
  <1>5. page[t].ids \subseteq 1..MaxRows /\ page[t].target \in 0..MaxRows
    BY <1>2
  <1>6. ASSUME NEW where, NEW some,
               NEW A, NEW B, NEW C, NEW D, page[t] \in [pc : A, seen : B, ids : C, target : D]
        PROVE  /\ [page[t] EXCEPT !.pc = where]
                    \in PageRecord(where, page[t].seen, page[t].ids, page[t].target)
               /\ [page[t] EXCEPT !.pc = where, !.seen = some]
                    \in PageRecord(where, some, page[t].ids, page[t].target)
               /\ [page[t] EXCEPT !.pc = where, !.ids = some]
                    \in PageRecord(where, page[t].seen, some, page[t].target)
    BY <1>6, PageRecords, Zenon
  <1>7. ASSUME NEW where, NEW some
        PROVE  /\ [Away EXCEPT !.pc = where, !.seen = some] \in PageRecord(where, some, {}, 0)
               /\ [Away EXCEPT !.pc = where, !.target = some] \in PageRecord(where, {}, {}, some)
    BY <1>3, <1>4, PageRecords
  <1>8. \A g : PageGoes(t, g) => page'[t] = g
    BY <1>1 DEF PageGoes
  <1> QED
    BY <1>1, <1>2, <1>5, <1>6, <1>7, <1>8

LEMMA ReadsKeep ==
  ASSUME ContentInv, NEW t \in Pages, PageReads(t)
  PROVE  ContentInv'
  <1> DEFINE g == [Away EXCEPT !.pc = "scan", !.seen = {r.file : r \in installed}]
  <1>1. /\ PageGoes(t, g) /\ touched' = touched \ {t}
        /\ UNCHANGED <<installed, onDisk, doomed, job>>
    BY DEF PageReads
  <1>2. g.pc = "scan" /\ g.seen = FilesOf(installed) /\ PageType(g)
    <2> DEFINE files == FilesOf(installed)
    <2>1. g \in PageRecord("scan", files, {}, 0)
      BY PageFields DEF ContentInv, FilesOf
    <2> HIDE DEF g, files
    <2>2. g.pc = "scan" /\ g.seen = files /\ PageType(g)
      BY <2>1, ContentAssumption DEF PageType, PageRecord
    <2> QED
      BY <2>2 DEF files
  <1> HIDE DEF g
  <1>3. page'[t] = g
    BY <1>1, PageFields DEF ContentInv
  <1>4. CalmPage(t)'
    BY <1>1, <1>2, <1>3 DEF CalmPage, FilesOf
  <1>5. PageTypes' /\ CalmPages'
    BY <1>1, <1>2, <1>4, PageMoves DEF ContentInv
  <1>6. OpenRows'
    BY <1>1, <1>2, PagesOpen DEF ContentInv
  <1>7. RowTypes'
    BY <1>1 DEF ContentInv, RowTypes, OneRowEach
  <1>8. JobTypes' /\ JobStands'
    <2>1. "job" # t
      BY ContentAssumption
    <2> QED
      BY <1>1, <2>1, JobRests DEF ContentInv
  <1> QED
    BY <1>5, <1>6, <1>7, <1>8 DEF ContentInv

LEMMA ScansKeep ==
  ASSUME ContentInv, NEW t \in Pages, PageScans(t)
  PROVE  ContentInv'
  <1> DEFINE g == [page[t] EXCEPT !.pc = "adopt"]
  <1>1. /\ page[t].pc = "scan" /\ NextRowId + Cardinality(onDisk) < MaxRows
        /\ installed' = installed \cup LocalRows(t)
        /\ Disturbs(t) /\ PageGoes(t, g)
        /\ UNCHANGED <<onDisk, doomed, job>>
    BY DEF PageScans
  <1>2. g \in PageRecord("adopt", page[t].seen, page[t].ids, page[t].target)
    BY PageFields DEF ContentInv
  <1> HIDE DEF g
  <1>3. g.pc = "adopt" /\ PageType(g) /\ page'[t] = g
    BY <1>1, <1>2, PageFields DEF ContentInv, PageType, PageRecord
  <1>4. /\ LocalRows(t) \subseteq ContentRows /\ OneRowEach(LocalRows(t))
        /\ \A r \in LocalRows(t) : r.id >= NextRowId /\ r.mark = "none"
        /\ FilesOf(LocalRows(t)) = onDisk \ page[t].seen
    BY <1>1, LocalRowFacts DEF ContentInv
  <1>5. OneRowEach(installed')
    <2>1. SUFFICES ASSUME NEW r \in installed', NEW s \in installed', r.id = s.id  PROVE r = s
      BY DEF OneRowEach
    <2>2. OneRowEach(installed)
      BY DEF ContentInv, RowTypes
    <2>3. /\ NextRowId \in Nat
          /\ \A x \in installed : x.id \in Nat /\ x.id < NextRowId
      BY NextIds DEF ContentInv
    <2>4. \A x \in LocalRows(t) : x.id \in Nat
      BY <1>4, ContentAssumption DEF ContentRows
    <2>5. \A x \in installed, y \in LocalRows(t) : x.id # y.id
      BY <1>4, <2>3, <2>4
    <2>6. CASE r \in installed /\ s \in installed
      BY <2>1, <2>2, <2>6 DEF OneRowEach
    <2>7. CASE r \in LocalRows(t) /\ s \in LocalRows(t)
      BY <1>4, <2>1, <2>7 DEF OneRowEach
    <2> QED
      BY <1>1, <2>1, <2>5, <2>6, <2>7
  <1>6. RowTypes'
    BY <1>1, <1>4, <1>5, Disturbing DEF ContentInv, RowTypes
  <1>7. t \notin touched' => CalmPage(t)'
    <2>1. SUFFICES ASSUME t \notin touched  PROVE onDisk \subseteq FilesOf(installed')
      BY <1>1, <1>3, Disturbing DEF CalmPage
    <2>2. page[t].seen = FilesOf(installed)
      BY <1>1, <2>1 DEF ContentInv, CalmPages, CalmPage
    <2> QED
      BY <1>1, <1>4, <2>2 DEF FilesOf
  <1>8. PageTypes' /\ CalmPages'
    BY <1>1, <1>3, <1>7, PageMoves, Disturbing DEF ContentInv
  <1>9. OpenRows'
    <2>1. \A r \in LocalRows(t) : StaysOpen(r)
      BY <1>4 DEF StaysOpen
    <2> QED
      BY <1>1, <1>3, <2>1, PagesOpen DEF ContentInv
  <1>10. JobTypes' /\ JobStands'
    BY <1>1, JobRests, Disturbing DEF ContentInv
  <1> QED
    BY <1>6, <1>8, <1>9, <1>10 DEF ContentInv

LEMMA AdoptsKeep ==
  ASSUME ContentInv, NEW t \in Pages, PageAdopts(t)
  PROVE  ContentInv'
  <1>1. /\ page[t].pc = "adopt" /\ UNCHANGED <<installed, onDisk, doomed, job, touched>>
    BY DEF PageAdopts
  <1>2. PICK recheck \in BOOLEAN :
          PageGoes(t, [page[t] EXCEPT !.pc = "settle",
             !.seen = {r \in installed : /\ r.proj = NoProject /\ r.file \in onDisk
                                         /\ recheck \/ r.mark = "none"}])
    BY DEF PageAdopts
  <1> DEFINE rows == {r \in installed : /\ r.proj = NoProject /\ r.file \in onDisk
                                        /\ recheck \/ r.mark = "none"}
             g == [page[t] EXCEPT !.pc = "settle", !.seen = rows]
  <1>3. rows \subseteq installed /\ \A r \in rows : r.proj = NoProject
    OBVIOUS
  <1>4. PageGoes(t, g)
    BY <1>2
  <1> HIDE DEF rows
  <1>5. g.pc = "settle" /\ g.seen = rows /\ PageType(g)
    <2>1. page[t].ids \subseteq 1..MaxRows /\ page[t].target \in 0..MaxRows
      BY PageFields DEF ContentInv
    <2>2. g \in PageRecord("settle", rows, page[t].ids, page[t].target)
      BY PageFields DEF ContentInv
    <2>3. rows \subseteq ContentRows /\ OneRowEach(rows)
      BY <1>3 DEF ContentInv, RowTypes, OneRowEach
    <2> HIDE DEF g
    <2> QED
      BY <1>3, <2>1, <2>2, <2>3 DEF PageType, PageRecord
  <1> HIDE DEF g
  <1>6. page'[t] = g
    BY <1>4, PageFields DEF ContentInv
  <1>7. t \notin touched' => CalmPage(t)'
    <2>1. t \notin touched => onDisk \subseteq FilesOf(installed)
      BY <1>1 DEF ContentInv, CalmPages, CalmPage
    <2> QED
      BY <1>1, <1>3, <1>5, <1>6, <2>1 DEF CalmPage, FilesOf
  <1>8. PageTypes' /\ CalmPages'
    BY <1>1, <1>4, <1>5, <1>7, PageMoves DEF ContentInv
  <1>9. OpenRows'
    <2>1. \A r \in rows : StaysOpen(r)
      BY <1>3 DEF ContentInv, OpenRows
    <2> QED
      BY <1>1, <1>4, <1>5, <2>1, PagesOpen DEF ContentInv
  <1>10. RowTypes' /\ JobTypes' /\ JobStands'
    BY <1>1, JobRests DEF ContentInv, RowTypes, OneRowEach
  <1> QED
    BY <1>8, <1>9, <1>10 DEF ContentInv

\* What the providers' answers make of a row.
LEMMA JudgedFacts ==
  ASSUME NEW r \in ContentRows, StaysOpen(r), NEW answered, NEW unread \in BOOLEAN
  PROVE  /\ Judged(r, answered, unread) \in ContentRows
         /\ Judged(r, answered, unread).id = r.id
         /\ Judged(r, answered, unread).file = r.file
         /\ StaysOpen(Judged(r, answered, unread))
  <1> DEFINE heard == IF unread THEN answered \ {"curseforge"} ELSE answered
             x == ProjectOf(r.file)
             kept == [r EXCEPT !.proj = x[1], !.ver = x[2], !.mark = "none"]
             off == [r EXCEPT !.mark = "unmatched", !.unread = unread]
  <1>1. CASE Adopted(r, heard)
    <2>1. Judged(r, answered, unread) = kept
      BY <1>1 DEF Judged
    <2>2. \E y \in Projects \X Versions : FileOf[y] = r.file
      <3>1. Knows[r.file] # {} /\ r.file \in AllFiles
        BY <1>1 DEF Adopted, ContentRows
      <3> QED
        BY <3>1, ContentAssumption
    <2>3. x \in Projects \X Versions
      BY <2>2 DEF ProjectOf
    <2> HIDE DEF x
    <2>4. x[1] \in Projects /\ x[2] \in Versions
      BY <2>3
    <2>5. kept \in ContentRows /\ kept.id = r.id /\ kept.file = r.file /\ kept.mark = "none"
      BY <2>4 DEF ContentRows
    <2> QED
      BY <2>1, <2>5 DEF StaysOpen
  <1>2. CASE ~Adopted(r, heard) /\ Definitive(r, answered)
    <2>1. Judged(r, answered, unread) = off
      BY <1>2 DEF Judged
    <2>2. off \in ContentRows /\ off.id = r.id /\ off.file = r.file /\ off.unread = unread
      BY DEF ContentRows
    <2>3. Consulted(r.file) \subseteq answered
      BY <1>2 DEF Definitive
    <2>4. \A q \in heard \cap Consulted(r.file) : q \notin Knows[r.file]
      BY <1>2 DEF Adopted
    <2>5. Knows[r.file] \cap Consulted(r.file) \subseteq IF unread THEN {"curseforge"} ELSE {}
      BY <2>3, <2>4
    <2>6. StaysOpen(off)
      BY <2>2, <2>5 DEF StaysOpen
    <2> QED
      BY <2>1, <2>2, <2>6
  <1>3. CASE ~Adopted(r, heard) /\ ~Definitive(r, answered)
    BY <1>3 DEF Judged
  <1> QED
    BY <1>1, <1>2, <1>3

LEMMA SettlesKeep ==
  ASSUME ContentInv, NEW t \in Pages, PageSettles(t)
  PROVE  ContentInv'
  <1> DEFINE seen == page[t].seen
             g == [page[t] EXCEPT !.pc = "look", !.seen = {}]
  <1>1. /\ page[t].pc = "settle" /\ PageGoes(t, g) /\ UNCHANGED <<onDisk, doomed, job>>
        /\ IF installed' = installed THEN UNCHANGED touched ELSE Disturbs(t)
    BY DEF PageSettles
  <1>2. PICK answered \in SUBSET Enabled, bad \in SUBSET seen :
          installed' =
            IF {r.id : r \in seen} \subseteq {r.id : r \in installed}
            THEN {r \in installed : r.id \notin {s.id : s \in seen}}
                 \cup {Judged(r, answered, r \in bad) : r \in seen}
            ELSE installed
    BY DEF PageSettles
  <1>3. g \in PageRecord("look", {}, page[t].ids, page[t].target)
    BY PageFields DEF ContentInv
  <1>4. /\ seen \subseteq ContentRows /\ OneRowEach(seen) /\ \A r \in seen : StaysOpen(r)
        /\ t \notin touched => seen \subseteq installed /\ onDisk \subseteq FilesOf(installed)
    <2>1. PageType(page[t])
      BY PageFields DEF ContentInv
    <2> QED
      BY <1>1, <2>1 DEF ContentInv, PageType, OpenRows, CalmPages, CalmPage
  <1> HIDE DEF g, seen
  <1>5. g.pc = "look" /\ PageType(g) /\ page'[t] = g
    BY <1>1, <1>3, PageFields DEF ContentInv, PageType, PageRecord
  <1> DEFINE J(r) == Judged(r, answered, r \in bad)
  <1>6. \A r \in seen : J(r) \in ContentRows /\ J(r).id = r.id /\ J(r).file = r.file /\ StaysOpen(J(r))
    <2> TAKE r \in seen
    <2> DEFINE u == r \in bad
    <2>1. u \in BOOLEAN /\ r \in ContentRows /\ StaysOpen(r)
      BY <1>4
    <2> HIDE DEF u
    <2>2. LET j == Judged(r, answered, u)
          IN  j \in ContentRows /\ j.id = r.id /\ j.file = r.file /\ StaysOpen(j)
      BY <2>1, JudgedFacts
    <2> QED
      BY <2>2 DEF u
  <1> HIDE DEF J
  <1>7. CASE installed' = installed
    <2>1. UNCHANGED touched
      BY <1>1, <1>7
    <2>2. t \notin touched' => CalmPage(t)'
      BY <1>1, <1>4, <1>5, <1>7, <2>1 DEF CalmPage, FilesOf
    <2>3. PageTypes' /\ CalmPages'
      BY <1>1, <1>5, <1>7, <2>1, <2>2, PageMoves DEF ContentInv
    <2>4. OpenRows'
      BY <1>1, <1>5, <1>7, PagesOpen DEF ContentInv
    <2>5. RowTypes' /\ JobTypes' /\ JobStands'
      BY <1>1, <1>7, <2>1, JobRests DEF ContentInv, RowTypes, OneRowEach
    <2> QED
      BY <2>3, <2>4, <2>5 DEF ContentInv
  <1>8. CASE installed' # installed
    <2>1. Disturbs(t)
      BY <1>1, <1>8
    <2>2. /\ \A r \in installed' : \/ r \in installed /\ \A s \in seen : r.id # s.id
                                   \/ \E s \in seen : r = J(s)
          /\ \A r \in installed : (\A s \in seen : r.id # s.id) => r \in installed'
          /\ \A s \in seen : J(s) \in installed'
      BY <1>2, <1>8 DEF J
    <2>3. installed \subseteq ContentRows /\ OneRowEach(installed)
      BY DEF ContentInv, RowTypes
    <2>4. installed' \subseteq ContentRows
      BY <1>6, <2>2, <2>3
    <2>5. OneRowEach(installed')
      <3>1. SUFFICES ASSUME NEW r \in installed', NEW s \in installed', r.id = s.id  PROVE r = s
        BY DEF OneRowEach
      <3>2. CASE r \in installed /\ s \in installed
        BY <2>3, <3>1, <3>2 DEF OneRowEach
      <3>3. CASE (\E x \in seen : r = J(x)) /\ (\E y \in seen : s = J(y))
        <4>1. PICK x \in seen, y \in seen : r = J(x) /\ s = J(y)
          BY <3>3
        <4>2. x.id = y.id
          BY <1>6, <3>1, <4>1
        <4> QED
          BY <1>4, <4>1, <4>2 DEF OneRowEach
      <3> QED
        BY <1>6, <2>2, <3>1, <3>2, <3>3
    <2>6. RowTypes'
      BY <1>1, <2>1, <2>4, <2>5, Disturbing DEF ContentInv, RowTypes
    <2>7. t \notin touched' => CalmPage(t)'
      <3>1. SUFFICES ASSUME t \notin touched  PROVE onDisk \subseteq FilesOf(installed')
        BY <1>1, <1>5, <2>1, Disturbing DEF CalmPage
      <3>2. SUFFICES ASSUME NEW f \in onDisk  PROVE \E r \in installed' : r.file = f
        BY DEF FilesOf
      <3>3. PICK r \in installed : r.file = f
        BY <1>4, <3>1 DEF FilesOf
      <3>4. CASE \A s \in seen : r.id # s.id
        BY <2>2, <3>3, <3>4
      <3>5. CASE \E s \in seen : r.id = s.id
        <4>1. PICK s \in seen : r.id = s.id
          BY <3>5
        <4>2. s = r
          BY <1>4, <2>3, <3>1, <4>1 DEF OneRowEach
        <4> QED
          BY <1>6, <2>2, <3>3, <4>2
      <3> QED
        BY <3>4, <3>5
    <2>8. PageTypes' /\ CalmPages'
      BY <1>1, <1>5, <2>1, <2>7, PageMoves, Disturbing DEF ContentInv
    <2>9. OpenRows'
      <3>1. \A r \in installed' : r \in installed \/ StaysOpen(r)
        BY <1>6, <2>2
      <3> QED
        BY <1>1, <1>5, <3>1, PagesOpen DEF ContentInv
    <2>10. JobTypes' /\ JobStands'
      BY <1>1, <2>1, JobRests, Disturbing DEF ContentInv
    <2> QED
      BY <2>6, <2>8, <2>9, <2>10 DEF ContentInv
  <1> QED
    BY <1>7, <1>8

LEMMA LooksKeep ==
  ASSUME ContentInv, NEW t \in Pages, PageLooks(t)
  PROVE  ContentInv'
  <1> DEFINE g == [page[t] EXCEPT !.pc = "heal", !.ids = Gone]
  <1>1. /\ page[t].pc = "look" /\ PageGoes(t, g)
        /\ UNCHANGED <<installed, onDisk, doomed, job, touched>>
    BY DEF PageLooks
  <1>2. g \in PageRecord("heal", page[t].seen, Gone, page[t].target)
    BY PageFields DEF ContentInv
  <1> HIDE DEF g
  <1>3. Gone \subseteq 1..MaxRows
    BY DEF Gone, ContentInv, RowTypes, ContentRows
  <1>4. g.pc = "heal" /\ g.ids = Gone /\ PageType(g) /\ page'[t] = g
    BY <1>1, <1>2, <1>3, PageFields DEF ContentInv, PageType, PageRecord
  <1>5. t \notin touched' => CalmPage(t)'
    <2>1. Gone' = Gone
      BY <1>1 DEF Gone
    <2>2. t \notin touched => onDisk \subseteq FilesOf(installed)
      BY <1>1 DEF ContentInv, CalmPages, CalmPage
    <2> QED
      BY <1>1, <1>4, <2>1, <2>2 DEF CalmPage, FilesOf
  <1>6. PageTypes' /\ CalmPages'
    BY <1>1, <1>4, <1>5, PageMoves DEF ContentInv
  <1>7. OpenRows'
    BY <1>1, <1>4, PagesOpen DEF ContentInv
  <1>8. RowTypes' /\ JobTypes' /\ JobStands'
    BY <1>1, JobRests DEF ContentInv, RowTypes, OneRowEach
  <1> QED
    BY <1>6, <1>7, <1>8 DEF ContentInv

LEMMA HealsKeep ==
  ASSUME ContentInv, NEW t \in Pages, PageHeals(t)
  PROVE  ContentInv'
  <1> DEFINE g == [page[t] EXCEPT !.pc = "shown"]
  <1>1. /\ page[t].pc = "heal" /\ PageGoes(t, g)
        /\ installed' = {r \in installed : r.id \notin page[t].ids}
        /\ IF page[t].ids = {} THEN UNCHANGED touched ELSE Disturbs(t)
        /\ UNCHANGED <<onDisk, doomed, job>>
    BY DEF PageHeals
  <1>2. g \in PageRecord("shown", page[t].seen, page[t].ids, page[t].target)
    BY PageFields DEF ContentInv
  <1> HIDE DEF g
  <1>3. g.pc = "shown" /\ PageType(g) /\ page'[t] = g
    <2>1. page[t].ids \subseteq 1..MaxRows /\ page[t].target \in 0..MaxRows
      BY PageFields DEF ContentInv
    <2> QED
      BY <1>1, <1>2, <2>1, PageFields DEF ContentInv, PageType, PageRecord
  <1>4. touched \subseteq touched' /\ touched' \subseteq touched \cup Actors /\ (t \in touched' => t \in touched)
    BY <1>1, Disturbing
  <1>5. t \notin touched' => CalmPage(t)'
    <2>1. SUFFICES ASSUME t \notin touched  PROVE FilesOf(installed') = onDisk
      BY <1>1, <1>3, <1>4 DEF CalmPage
    <2>2. onDisk \subseteq FilesOf(installed) /\ page[t].ids = Gone
      BY <1>1, <2>1 DEF ContentInv, CalmPages, CalmPage
    <2>3. OneRowEach(installed)
      BY DEF ContentInv, RowTypes
    <2>4. ASSUME NEW f \in onDisk  PROVE f \in FilesOf(installed')
      <3>1. PICK r \in installed : r.file = f
        BY <2>2 DEF FilesOf
      <3>2. r.id \notin Gone
        BY <2>3, <3>1 DEF Gone, OneRowEach
      <3> QED
        BY <1>1, <2>2, <3>1, <3>2 DEF FilesOf
    <2>5. ASSUME NEW f \in FilesOf(installed')  PROVE f \in onDisk
      <3>1. PICK r \in installed : r.file = f /\ r.id \notin Gone
        BY <1>1, <2>2 DEF FilesOf
      <3> QED
        BY <3>1 DEF Gone
    <2> QED
      BY <2>4, <2>5
  <1>6. (Pages \ {t} \subseteq touched' /\ "job" \in touched') \/ (installed' = installed /\ touched' = touched)
    BY <1>1, Disturbing
  <1>7. PageTypes' /\ CalmPages'
    BY <1>1, <1>3, <1>4, <1>5, <1>6, PageMoves DEF ContentInv
  <1>8. OpenRows'
    BY <1>1, <1>3, PagesOpen DEF ContentInv
  <1>9. RowTypes'
    BY <1>1, <1>4 DEF ContentInv, RowTypes, OneRowEach
  <1>10. JobTypes' /\ JobStands'
    BY <1>1, <1>4, <1>6, JobRests DEF ContentInv
  <1> QED
    BY <1>7, <1>8, <1>9, <1>10 DEF ContentInv

LEMMA ShownKeeps ==
  ASSUME ContentInv, NEW t \in Pages, PageShown(t)
  PROVE  ContentInv'
  <1>1. PageGoes(t, Away) /\ UNCHANGED <<installed, onDisk, doomed, job, touched>>
    BY DEF PageShown
  <1>2. Away.pc = "idle" /\ PageType(Away)
    BY ContentAssumption DEF PageType, Away
  <1>3. page'[t] = Away
    BY <1>1, PageFields DEF ContentInv
  <1>4. CalmPage(t)'
    BY <1>2, <1>3 DEF CalmPage
  <1>5. PageTypes' /\ CalmPages'
    BY <1>1, <1>2, <1>4, PageMoves DEF ContentInv
  <1>6. OpenRows'
    BY <1>1, <1>2, PagesOpen DEF ContentInv
  <1>7. RowTypes' /\ JobTypes' /\ JobStands'
    BY <1>1, JobRests DEF ContentInv, RowTypes, OneRowEach
  <1> QED
    BY <1>5, <1>6, <1>7 DEF ContentInv

LEMMA DeletionsKeep ==
  ASSUME ContentInv, NEW t \in Pages, DeleteFile(t) \/ DeleteRow(t)
  PROVE  ContentInv'
  <1>1. /\ Disturbs(t) /\ UNCHANGED <<doomed, job>>
        /\ installed' \subseteq installed /\ onDisk' \subseteq onDisk
    BY DEF DeleteFile, DeleteRow
  <1>2. PICK g : PageGoes(t, g) /\ PageType(g) /\ g.pc \in {"unlinked", "idle"}
    <2>1. CASE DeleteRow(t)
      <3>1. PageType(Away) /\ Away.pc = "idle"
        BY ContentAssumption DEF PageType, Away
      <3> QED
        BY <2>1, <3>1 DEF DeleteRow
    <2>2. CASE DeleteFile(t)
      <3>1. PICK r \in installed : PageGoes(t, [Away EXCEPT !.pc = "unlinked", !.target = r.id])
        BY <2>2 DEF DeleteFile
      <3> DEFINE g == [Away EXCEPT !.pc = "unlinked", !.target = r.id]
      <3>2. g \in PageRecord("unlinked", {}, {}, r.id)
        BY PageFields DEF ContentInv
      <3>3. r.id \in 0..MaxRows
        BY ContentAssumption DEF ContentInv, RowTypes, ContentRows
      <3>4. PageGoes(t, g)
        BY <3>1
      <3> HIDE DEF g
      <3>5. PageType(g) /\ g.pc = "unlinked"
        BY <3>2, <3>3 DEF PageType, PageRecord
      <3> QED
        BY <3>4, <3>5
    <2> QED
      BY <2>1, <2>2
  <1>3. page'[t] = g
    BY <1>2, PageFields DEF ContentInv
  <1>4. CalmPage(t)'
    BY <1>2, <1>3 DEF CalmPage
  <1>5. PageTypes' /\ CalmPages'
    BY <1>1, <1>2, <1>4, PageMoves, Disturbing DEF ContentInv
  <1>6. OpenRows'
    BY <1>1, <1>2, PagesOpen DEF ContentInv
  <1>7. RowTypes'
    BY <1>1, Disturbing DEF ContentInv, RowTypes, OneRowEach
  <1>8. JobTypes' /\ JobStands'
    BY <1>1, JobRests, Disturbing DEF ContentInv
  <1> QED
    BY <1>5, <1>6, <1>7, <1>8 DEF ContentInv

LEMMA UploadKeeps == ContentInv /\ Upload => ContentInv'
  <1> SUFFICES ASSUME ContentInv, Upload  PROVE ContentInv'
    OBVIOUS
  <1>1. /\ touched' = Actors /\ UNCHANGED <<installed, doomed, job, page>>
        /\ \E f \in HandFiles : onDisk' = onDisk \cup {f}
    BY DEF Upload
  <1>2. onDisk' \subseteq AllFiles
    BY <1>1 DEF ContentInv, RowTypes, AllFiles
  <1>3. RowTypes' /\ PageTypes' /\ CalmPages' /\ OpenRows'
    BY <1>1, <1>2 DEF ContentInv, RowTypes, OneRowEach, PageTypes, PageType, CalmPages, OpenRows, Actors
  <1>4. JobTypes' /\ JobStands'
    BY <1>1, JobRests DEF ContentInv, Actors
  <1> QED
    BY <1>3, <1>4 DEF ContentInv

-----------------------------------------------------------------------------
(* The job: requests, updates, exceptions                                    *)

\* Pages see every file and row the job touches.
LEMMA PagesSee ==
  ASSUME PageTypes, CalmPages, OpenRows, page' = page,
         \/ UNCHANGED <<installed, onDisk>> /\ Pages \cap touched \subseteq touched'
         \/ Pages \subseteq touched',
         \A r \in installed' : r \in installed \/ StaysOpen(r)
  PROVE  PageTypes' /\ CalmPages' /\ OpenRows'
  <1>1. PageTypes' /\ OpenRows'
    BY DEF PageTypes, OpenRows
  <1>2. ASSUME NEW t \in Pages \ touched'  PROVE CalmPage(t)'
    <2>1. t \notin touched /\ UNCHANGED <<installed, onDisk>>
      BY <1>2
    <2>2. CalmPage(t)
      BY <2>1 DEF CalmPages
    <2> QED
      BY <2>1, <2>2 DEF CalmPage, Gone, FilesOf
  <1> QED
    BY <1>1, <1>2 DEF CalmPages

LEMMA StackFacts ==
  ASSUME NEW s \in Seq(Frames), s # <<>>
  PROVE  /\ Len(s) \in Nat \ {0} /\ DOMAIN s = 1..Len(s) /\ s[Len(s)] \in Frames
         /\ \A k \in 1..Len(s) : s[k] \in Frames
         /\ Len(s) > 1 =>
              LET p == SubSeq(s, 1, Len(s) - 1)
              IN  /\ p \in Seq(Frames) /\ p # <<>> /\ Len(p) = Len(s) - 1
                  /\ \A k \in 1..Len(p) : p[k] = s[k]
  <1>1. Len(s) \in Nat \ {0} /\ DOMAIN s = 1..Len(s)
    OBVIOUS
  <1>2. \A k \in 1..Len(s) : s[k] \in Frames
    BY <1>1
  <1>3. Len(s) \in 1..Len(s)
    BY <1>1
  <1> DEFINE n == Len(s) - 1
             p == SubSeq(s, 1, n)
  <1>4. ASSUME Len(s) > 1
        PROVE  /\ p \in Seq(Frames) /\ p # <<>> /\ Len(p) = n
               /\ \A k \in 1..Len(p) : p[k] = s[k]
    <2>1. n \in Nat \ {0} /\ n \in 1..Len(s)
      <3> DEFINE m == Len(s)
      <3>1. m \in Nat \ {0} /\ m > 1 /\ n = m - 1
        BY <1>1, <1>4
      <3> HIDE DEF m, n
      <3>2. n \in Nat \ {0} /\ n \in 1..m
        BY <3>1
      <3> QED
        BY <3>2 DEF m
    <2> HIDE DEF n
    <2>2. Len(p) = n /\ DOMAIN p = 1..n
      BY <2>1
    <2>3. \A k \in 1..n : p[k] = s[k]
      BY <2>1
    <2>4. p \in Seq(Frames)
      BY <2>1
    <2> QED
      BY <2>1, <2>2, <2>3, <2>4
  <1> QED
    BY <1>1, <1>2, <1>3, <1>4

LEMMA FrameFacts ==
  ASSUME NEW p \in Projects, NEW v \in Versions
  PROVE  /\ Frame(p, v) \in Frames /\ FrameAlone(p, v) \in Frames
         /\ Frame(p, v).proj = p /\ Frame(p, v).ver = v /\ Frame(p, v).todo = Requires[p, v]
         /\ FrameAlone(p, v).proj = p /\ FrameAlone(p, v).ver = v
         /\ Requires[p, v] \in Seq(Required)
         /\ Named(Requires[p, v]) \cap Packs = {}
         /\ p \in Packs => Named(Requires[p, v]) = {}
         /\ FileOf[p, v] \in AllFiles
  <1>1. <<p, v>> \in Projects \X Versions
    OBVIOUS
  <1>2. Requires[<<p, v>>] \in Seq(Required)
    BY <1>1, ContentAssumption DEF Required
  <1>3. Frame(p, v) = [proj |-> p, ver |-> v, todo |-> Requires[<<p, v>>]]
    BY DEF Frame
  <1>4. /\ Frame(p, v) \in Frames /\ Frame(p, v).proj = p /\ Frame(p, v).ver = v
        /\ Frame(p, v).todo = Requires[<<p, v>>]
    BY <1>2, <1>3 DEF Frames
  <1>5. /\ FrameAlone(p, v) \in Frames
        /\ FrameAlone(p, v).proj = p /\ FrameAlone(p, v).ver = v
    <2>1. <<>> \in Seq(Required)
      OBVIOUS
    <2>2. FrameAlone(p, v) = [Frame(p, v) EXCEPT !.todo = <<>>]
      BY DEF FrameAlone
    <2> DEFINE f == Frame(p, v)
    <2>3. f \in [proj : Projects, ver : Versions, todo : Seq(Required)] /\ f.proj = p /\ f.ver = v
      BY <1>4 DEF Frames
    <2> HIDE DEF f
    <2>4. /\ [f EXCEPT !.todo = <<>>] \in [proj : Projects, ver : Versions, todo : Seq(Required)]
          /\ [f EXCEPT !.todo = <<>>].proj = p /\ [f EXCEPT !.todo = <<>>].ver = v
      BY <2>1, <2>3
    <2> QED
      BY <2>2, <2>4 DEF f, Frames
  <1>6. Named(Requires[<<p, v>>]) \cap Packs = {}
    <2> DEFINE s == Requires[<<p, v>>]
    <2>1. \A i \in DOMAIN s : s[i] \in Required
      BY <1>2
    <2> QED
      BY <2>1 DEF Named, Required
  <1>7. p \in Packs => Named(Requires[<<p, v>>]) = {}
    <2>1. p \in Packs => Requires[<<p, v>>] = <<>>
      BY ContentAssumption
    <2> QED
      BY <2>1, NamedFacts
  <1>8. FileOf[<<p, v>>] \in AllFiles
    BY <1>1 DEF AllFiles
  <1> QED
    BY <1>2, <1>4, <1>5, <1>6, <1>7, <1>8

\* A job that begins one project has all of it before it.
LEMMA FreshStands ==
  ASSUME NEW p \in Projects, NEW v \in Versions,
         job'.stack = <<Frame(p, v)>> \/ job'.alone,
         job'.pc \notin {"done", "download", "commit"},
         ("job" \notin touched' /\ ~job'.optional /\ ~job'.alone /\ job'.pc # "idle") => DoomedRows'
  PROVE  JobStands'
  <1>1. SUFFICES ASSUME "job" \notin touched', ~job'.optional, ~job'.alone, job'.pc \in Pipeline
                 PROVE  \A k \in DOMAIN job'.stack : FrameStands(k)'
    BY DEF JobStands
  <1> DEFINE s == <<Frame(p, v)>>
  <1>2. job'.stack = s /\ Len(s) = 1 /\ DOMAIN s = {1} /\ s[1] = Frame(p, v)
    BY <1>1
  <1>3. FrameStands(1)'
    <2>1. job'.stack[1].proj = p /\ job'.stack[1].ver = v /\ job'.stack[1].todo = Requires[p, v]
      <3>1. job'.stack[1] = Frame(p, v)
        BY <1>2
      <3>2. Frame(p, v).proj = p /\ Frame(p, v).ver = v /\ Frame(p, v).todo = Requires[p, v]
        BY DEF Frame
      <3> QED
        BY <3>1, <3>2
    <2> QED
      BY <2>1 DEF FrameStands
  <1> QED
    BY <1>2, <1>3

\* Nothing is left of the former job when a request begins.
LEMMA RequestKeeps ==
  ASSUME ContentInv, JobShape(job'), doomed' = {}, touched' = touched \ {"job"},
         UNCHANGED <<installed, onDisk, page>>,
         \/ job'.pc = "next"
         \/ job'.pc \in {"fetch", "generate"} /\ \E p \in Projects, v \in Versions : job'.stack = <<Frame(p, v)>>
  PROVE  ContentInv'
  <1>1. RowTypes'
    BY DEF ContentInv, RowTypes, OneRowEach
  <1>2. PageTypes' /\ CalmPages' /\ OpenRows'
    <2>1. Pages \cap touched \subseteq touched'
      BY ContentAssumption
    <2> QED
      BY <2>1, PagesSee DEF ContentInv
  <1>3. JobTypes'
    BY DEF JobTypes
  <1>4. DoomedRows'
    BY DEF DoomedRows
  <1>5. JobStands'
    <2>1. CASE job'.pc = "next"
      BY <1>4, <2>1 DEF JobStands, Pipeline
    <2>2. CASE job'.pc # "next"
      BY <1>4, <2>2, FreshStands
    <2> QED
      BY <2>1, <2>2
  <1> QED
    BY <1>1, <1>2, <1>3, <1>5 DEF ContentInv

\* The job of a request, of a pack's and of an update.
Fetching(p, v, o) == [NoJob EXCEPT !.pc = "fetch", !.stack = <<Frame(p, v)>>, !.optional = o]
Generating(p, v) == [NoJob EXCEPT !.pc = "generate", !.stack = <<Frame(p, v)>>]
Queueing(rows, a) == [NoJob EXCEPT !.pc = "next", !.queue = rows, !.alone = a]
Begun(j, where, p, v) == JobShape(j) /\ j.pc = where /\ j.stack = <<Frame(p, v)>>

LEMMA JobBegins ==
  /\ NoJob \in JobRecords /\ JobShape(NoJob)
  /\ \A p \in Projects, v \in Versions, o \in BOOLEAN : Begun(Fetching(p, v, o), "fetch", p, v)
  /\ \A p \in Packs, v \in Versions : Begun(Generating(p, v), "generate", p, v)
  /\ \A rows \in SUBSET ContentRows, a \in BOOLEAN :
       (\A r \in rows : r.proj # NoProject)
         => JobShape(Queueing(rows, a)) /\ Queueing(rows, a).pc = "next"
  <1>1. NoJob \in JobRecords /\ NoJob.pc = "idle" /\ NoJob.queue = {}
    BY ContentAssumption DEF NoJob, JobRecords, Pipeline, Packing
  <1>2. JobShape(NoJob)
    BY <1>1 DEF JobShape, Pipeline, Packing
  <1>3. ASSUME NEW p \in Projects, NEW v \in Versions
        PROVE  LET s == <<Frame(p, v)>>
               IN  s \in Seq(Frames) /\ s # <<>> /\ Len(s) = 1 /\ s[Len(s)].proj = p
    <2>1. Frame(p, v) \in Frames /\ Frame(p, v).proj = p
      BY FrameFacts
    <2> DEFINE f == Frame(p, v)
    <2> HIDE DEF f
    <2>2. <<f>> \in Seq(Frames) /\ <<f>> # <<>> /\ Len(<<f>>) = 1 /\ <<f>>[1] = f
      BY <2>1 DEF f
    <2> QED
      BY <2>1, <2>2 DEF f
  <1>4. ASSUME NEW p \in Projects, NEW v \in Versions, NEW o \in BOOLEAN
        PROVE  Begun(Fetching(p, v, o), "fetch", p, v)
    <2> DEFINE s == <<Frame(p, v)>>
               j == Fetching(p, v, o)
    <2>1. s \in Seq(Frames) /\ s # <<>> /\ j = [NoJob EXCEPT !.pc = "fetch", !.stack = s, !.optional = o]
      BY <1>3 DEF Fetching
    <2> HIDE DEF j
    <2> HIDE DEF s
    <2>2. j \in JobRecords /\ j.pc = "fetch" /\ j.stack = s /\ j.queue = {}
      BY <1>1, <2>1 DEF JobRecords, Pipeline
    <2> QED
      BY <2>1, <2>2 DEF JobShape, Packing, s, j, Begun
  <1>5. ASSUME NEW p \in Packs, NEW v \in Versions
        PROVE  Begun(Generating(p, v), "generate", p, v)
    <2> DEFINE s == <<Frame(p, v)>>
               j == Generating(p, v)
    <2>1. /\ s \in Seq(Frames) /\ s # <<>> /\ s[Len(s)].proj = p
          /\ j = [NoJob EXCEPT !.pc = "generate", !.stack = s]
      BY <1>3, ContentAssumption DEF Generating
    <2> HIDE DEF s, j
    <2>2. j \in JobRecords /\ j.pc = "generate" /\ j.stack = s /\ j.queue = {}
      BY <1>1, <2>1 DEF JobRecords, Packing
    <2> QED
      BY <2>1, <2>2 DEF JobShape, s, j, Begun
  <1>6. ASSUME NEW rows \in SUBSET ContentRows, NEW a \in BOOLEAN,
               \A r \in rows : r.proj # NoProject
        PROVE  JobShape(Queueing(rows, a)) /\ Queueing(rows, a).pc = "next"
    <2> DEFINE j == Queueing(rows, a)
    <2>1. j \in JobRecords /\ j.pc = "next" /\ j.queue = rows
      BY <1>1, <1>6 DEF JobRecords, Queueing
    <2> HIDE DEF j
    <2> QED
      BY <1>6, <2>1 DEF JobShape, Pipeline, Packing, j
  <1> QED
    BY <1>1, <1>2, <1>4, <1>5, <1>6

LEMMA RequestsKeep ==
  ASSUME ContentInv,
         \/ \E w \in Wanted, o \in BOOLEAN : InstallRequest(w[1], w[2], o)
         \/ UpdateRequest \/ VersionUpdateRequest \/ PackUpdateRequest
         \/ \E p \in Packs : PackRequest(p)
  PROVE  ContentInv'
  <1>1. CASE \E w \in Wanted, o \in BOOLEAN : InstallRequest(w[1], w[2], o)
    <2>1. PICK w \in Wanted, o \in BOOLEAN : InstallRequest(w[1], w[2], o)
      BY <1>1
    <2>2. w[1] \in Projects /\ w[2] \in Versions
      BY ContentAssumption
    <2>3. job' = Fetching(w[1], w[2], o)
      BY <2>1 DEF InstallRequest, Fetching
    <2>4. JobShape(job') /\ job'.pc = "fetch" /\ job'.stack = <<Frame(w[1], w[2])>>
      BY <2>2, <2>3, JobBegins DEF Begun
    <2> QED
      BY <2>1, <2>2, <2>4, RequestKeeps DEF InstallRequest
  <1>2. ASSUME NEW rows, NEW a \in BOOLEAN, Update(rows, a), rows \subseteq installed,
               \A r \in rows : r.proj # NoProject
        PROVE  ContentInv'
    <2>1. rows \subseteq ContentRows
      BY <1>2 DEF ContentInv, RowTypes
    <2>2. job' = Queueing(rows, a)
      BY <1>2 DEF Update, Queueing
    <2>3. JobShape(job') /\ job'.pc = "next"
      BY <1>2, <2>1, <2>2, JobBegins
    <2> QED
      BY <1>2, <2>3, RequestKeeps DEF Update
  <1>3. CASE UpdateRequest
    <2>1. /\ Update({r \in installed : r.proj # NoProject}, FALSE)
          /\ {r \in installed : r.proj # NoProject} \subseteq installed
          /\ \A r \in {r \in installed : r.proj # NoProject} : r.proj # NoProject
      BY <1>3 DEF UpdateRequest
    <2> QED
      BY <1>2, <2>1
  <1>4. CASE VersionUpdateRequest
    BY <1>2, <1>4 DEF VersionUpdateRequest
  <1>5. CASE PackUpdateRequest
    <2>1. /\ Update({r \in installed : r.proj \in Packs}, FALSE)
          /\ {r \in installed : r.proj \in Packs} \subseteq installed
          /\ \A r \in {r \in installed : r.proj \in Packs} : r.proj # NoProject
      BY <1>5, ContentAssumption DEF PackUpdateRequest
    <2> QED
      BY <1>2, <2>1
  <1>6. CASE \E p \in Packs : PackRequest(p)
    <2>1. PICK p \in Packs : PackRequest(p)
      BY <1>6
    <2>2. p \in Projects /\ Max(Versions) \in Versions
      BY ContentAssumption, Offers
    <2>3. job' = Generating(p, Max(Versions))
      BY <2>1 DEF PackRequest, Generating
    <2>4. JobShape(job') /\ job'.pc = "generate" /\ job'.stack = <<Frame(p, Max(Versions))>>
      BY <2>2, <2>3, JobBegins DEF Begun
    <2> QED
      BY <2>1, <2>2, <2>4, RequestKeeps DEF PackRequest
  <1> QED
    BY <1>1, <1>3, <1>4, <1>5, <1>6

\* What an exception in the middle of a project leaves: the rows it meant to delete are of a
\* project that failed.
LEMMA RaiseKeeps ==
  ASSUME JobTypes, JobStands, job.pc \in Pipeline, NEW d, Raise(d), d \subseteq 1..MaxRows,
         installed' = installed, touched \subseteq touched',
         "job" \notin touched /\ ~job.optional /\ ~job.alone =>
           \A r \in installed : r.id \in d => r.proj \in job.failed \cup Packs \cup {TopFrame.proj}
  PROVE  JobTypes' /\ JobStands'
  <1> DEFINE fails == job.failed \cup {TopFrame.proj}
             s == job.stack
             p == SubSeq(s, 1, Len(s) - 1)
  <1>1. job \in JobRecords /\ s \in Seq(Frames) /\ s # <<>> /\ \A r \in job.queue : r.proj # NoProject
    BY DEF JobTypes, JobShape, JobRecords
  <1>2. fails \subseteq Projects
    BY <1>1, StackFacts DEF JobRecords, Frames, TopFrame
  <1>3. CASE job.optional /\ Len(s) > 1
    <2>1. p \in Seq(Frames) /\ p # <<>>
      BY <1>1, <1>3, StackFacts
    <2>2. job' = [job EXCEPT !.stack = p, !.pc = "deps", !.failed = fails] /\ doomed' = d
      BY <1>3 DEF Raise
    <2> HIDE DEF fails, p
    <2>3. /\ job' \in JobRecords /\ job'.pc = "deps" /\ job'.stack = p /\ job'.queue = job.queue
          /\ job'.optional
      BY <1>1, <1>2, <1>3, <2>1, <2>2 DEF JobRecords, Pipeline
    <2> QED
      BY <1>1, <2>1, <2>2, <2>3 DEF JobTypes, JobShape, JobStands, Packing
  <1>4. CASE ~(job.optional /\ Len(s) > 1) /\ job.queue # {}
    <2>1. job' = [job EXCEPT !.stack = <<>>, !.pc = "next", !.failed = fails] /\ doomed' = d
      BY <1>4 DEF Raise
    <2> HIDE DEF fails
    <2>2. /\ job' \in JobRecords /\ job'.pc = "next" /\ job'.queue = job.queue
          /\ job'.failed = fails /\ job'.optional = job.optional /\ job'.alone = job.alone
      <3>1. <<>> \in Seq(Frames)
        OBVIOUS
      <3> QED
        BY <1>1, <1>2, <2>1, <3>1 DEF JobRecords
    <2>3. JobTypes'
      BY <1>1, <2>1, <2>2 DEF JobTypes, JobShape, Pipeline, Packing
    <2>4. "job" \notin touched' /\ ~job'.optional /\ ~job'.alone => DoomedRows'
      BY <2>1, <2>2 DEF DoomedRows, fails
    <2> QED
      BY <2>2, <2>3, <2>4 DEF JobStands, Pipeline
  <1>5. CASE ~(job.optional /\ Len(s) > 1) /\ job.queue = {}
    <2>1. job' = NoJob /\ doomed' = {}
      BY <1>5 DEF Raise
    <2> QED
      BY <2>1, JobBegins DEF JobTypes, JobStands, NoJob, Pipeline
  <1> QED
    BY <1>3, <1>4, <1>5

-----------------------------------------------------------------------------
(* The job: its steps                                                        *)

\* Steps that leave rows and files alone.
LEMMA QuietJob ==
  ASSUME ContentInv, UNCHANGED <<installed, onDisk, page, touched>>, JobTypes' /\ JobStands'
  PROVE  ContentInv'
  <1>1. PageTypes' /\ CalmPages' /\ OpenRows'
    BY PagesSee DEF ContentInv
  <1>2. RowTypes'
    BY DEF ContentInv, RowTypes, OneRowEach
  <1> QED
    BY <1>1, <1>2 DEF ContentInv

\* Steps that every page sees.
LEMMA LoudStep ==
  ASSUME ContentInv, Disturbs("job"), page' = page, installed' \subseteq ContentRows, OneRowEach(installed'),
         onDisk' \subseteq AllFiles, \A r \in installed' : r \in installed \/ r.mark = "none",
         JobTypes' /\ JobStands'
  PROVE  ContentInv'
  <1>1. Pages \subseteq touched' /\ touched' \subseteq Actors
    BY Disturbing DEF ContentInv, RowTypes
  <1>2. \A r \in installed' : r \in installed \/ StaysOpen(r)
    BY DEF StaysOpen
  <1>3. PageTypes' /\ CalmPages' /\ OpenRows'
    BY <1>1, <1>2, PagesSee DEF ContentInv
  <1> QED
    BY <1>1, <1>3 DEF ContentInv, RowTypes

LEMMA TheJob ==
  ASSUME JobTypes
  PROVE  /\ job \in JobRecords /\ job.stack \in Seq(Frames)
         /\ \A r \in job.queue : r.proj # NoProject
         /\ job.pc \in Pipeline \cup Packing \cup {"done"} =>
              /\ job.stack # <<>> /\ Len(job.stack) \in Nat \ {0}
              /\ DOMAIN job.stack = 1..Len(job.stack)
              /\ TopFrame \in Frames /\ TopFrame = job.stack[Len(job.stack)]
              /\ \A k \in 1..Len(job.stack) : job.stack[k] \in Frames
  <1>1. JobShape(job) /\ job \in JobRecords /\ job.stack \in Seq(Frames)
    BY DEF JobTypes, JobShape, JobRecords
  <1> QED
    BY <1>1, StackFacts DEF JobShape, TopFrame

LEMMA UpdateGoesOn == ContentInv /\ UpdateNext => ContentInv'
  <1> SUFFICES ASSUME ContentInv, UpdateNext  PROVE ContentInv'
    OBVIOUS
  <1>1. /\ job.pc = "next" /\ UNCHANGED <<installed, onDisk, page, touched>>
        /\ JobTypes /\ JobStands /\ installed \subseteq ContentRows
    BY DEF UpdateNext, ContentInv, RowTypes
  <1>2. job \in JobRecords /\ \A r \in job.queue : r.proj # NoProject /\ r \in ContentRows
    BY <1>1, TheJob DEF JobRecords
  <1>3. CASE job' = NoJob /\ doomed' = {}
    <2>1. JobTypes' /\ JobStands'
      BY <1>3, JobBegins DEF JobTypes, JobStands, NoJob, Pipeline
    <2> QED
      BY <1>1, <2>1, QuietJob
  <1>4. CASE ~(job' = NoJob /\ doomed' = {})
    <2>1. UNCHANGED doomed
      BY <1>4 DEF UpdateNext
    <2>2. PICK r \in job.queue :
            LET rest == [job EXCEPT !.queue = @ \ {r}]
                v == Max(Offered(r.proj))
            IN \/ job' = rest
               \/ /\ Offered(r.proj) # {}
                  /\ job' = IF r.ver = v THEN rest
                            ELSE [rest EXCEPT !.stack = <<IF job.alone THEN FrameAlone(r.proj, v)
                                                          ELSE Frame(r.proj, v)>>,
                                              !.pc = IF r.proj \in Packs THEN "generate" ELSE "fetch",
                                              !.pack = IF r.proj \in Packs THEN r.id ELSE 0]
      BY <1>4 DEF UpdateNext
    <2> DEFINE rest == [job EXCEPT !.queue = @ \ {r}]
               p == r.proj
               v == Max(Offered(r.proj))
               f == IF job.alone THEN FrameAlone(p, v) ELSE Frame(p, v)
               s == <<f>>
               where == IF p \in Packs THEN "generate" ELSE "fetch"
               row == IF p \in Packs THEN r.id ELSE 0
    <2>3. /\ rest \in JobRecords /\ rest.pc = "next" /\ rest.queue \subseteq job.queue
          /\ rest.failed = job.failed /\ rest.optional = job.optional /\ rest.alone = job.alone
      BY <1>1, <1>2 DEF JobRecords
    <2>4. ("job" \notin touched /\ ~job.optional /\ ~job.alone) => DoomedRows
      BY <1>1 DEF JobStands
    <2>5. CASE job' = rest
      <3>1. JobTypes'
        BY <1>1, <1>2, <2>1, <2>3, <2>5 DEF JobTypes, JobShape, Pipeline, Packing
      <3>2. JobStands'
        BY <1>1, <2>1, <2>3, <2>4, <2>5 DEF JobStands, DoomedRows, Pipeline
      <3> QED
        BY <1>1, <3>1, <3>2, QuietJob
    <2>6. CASE job' # rest
      <3>1. /\ Offered(p) # {} /\ p \in Projects /\ r.id \in 1..MaxRows
            /\ job' = [rest EXCEPT !.stack = s, !.pc = where, !.pack = row]
        BY <1>2, <2>2, <2>6 DEF ContentRows
      <3>2. v \in Versions
        BY <3>1, Offers
      <3>3. f \in Frames /\ f.proj = p
        BY <3>1, <3>2, FrameFacts
      <3> HIDE DEF rest
      <3>4. s = <<Frame(p, v)>> \/ job.alone
        OBVIOUS
      <3> HIDE DEF f, v
      <3>5. s \in Seq(Frames) /\ s # <<>> /\ Len(s) = 1 /\ s[1] = f
        BY <3>3
      <3> HIDE DEF s, p
      <3>6. where \in {"generate", "fetch"} /\ (where = "generate" => p \in Packs) /\ row \in 0..MaxRows
        BY <3>1, ContentAssumption DEF p
      <3> HIDE DEF where, row
      <3>7. /\ job' \in JobRecords /\ job'.pc = where /\ job'.stack = s /\ job'.queue = rest.queue
            /\ job'.failed = job.failed /\ job'.optional = job.optional /\ job'.alone = job.alone
        BY <2>3, <3>1, <3>5, <3>6 DEF JobRecords, Pipeline, Packing
      <3>8. JobTypes'
        BY <1>1, <1>2, <2>1, <2>3, <3>3, <3>5, <3>6, <3>7 DEF JobTypes, JobShape, Pipeline, Packing
      <3>9. ("job" \notin touched' /\ ~job'.optional /\ ~job'.alone /\ job'.pc # "idle") => DoomedRows'
        BY <1>1, <2>1, <2>4, <3>7 DEF DoomedRows
      <3>10. JobStands'
        BY <3>1, <3>2, <3>4, <3>6, <3>7, <3>9, FreshStands DEF p
      <3> QED
        BY <1>1, <3>8, <3>10, QuietJob
    <2> QED
      BY <2>5, <2>6
  <1> QED
    BY <1>3, <1>4

LEMMA FetchKeeps == ContentInv /\ InstallFetch => ContentInv'
  <1> SUFFICES ASSUME ContentInv, InstallFetch  PROVE ContentInv'
    OBVIOUS
  <1>1. /\ job.pc = "fetch" /\ UNCHANGED <<installed, onDisk, page, touched>>
        /\ JobTypes /\ JobStands
    BY DEF InstallFetch, ContentInv
  <1>2. CASE job' = [job EXCEPT !.pc = "deps"] /\ UNCHANGED doomed
    <2>1. job \in JobRecords /\ job.stack # <<>>
      BY <1>1, TheJob DEF Pipeline
    <2>2. /\ job' \in JobRecords /\ job'.pc = "deps" /\ job'.queue = job.queue /\ job'.stack = job.stack
          /\ job'.failed = job.failed /\ job'.optional = job.optional /\ job'.alone = job.alone
      BY <1>2, <2>1 DEF JobRecords, Pipeline
    <2>3. JobTypes'
      BY <1>1, <1>2, <2>1, <2>2 DEF JobTypes, JobShape, Packing
    <2>4. JobStands'
      BY <1>1, <1>2, <2>2 DEF JobStands, DoomedRows, FrameStands, Held, Pipeline
    <2> QED
      BY <1>1, <2>3, <2>4, QuietJob
  <1>3. CASE Raise(doomed)
    <2>1. /\ doomed \subseteq 1..MaxRows
          /\ "job" \notin touched /\ ~job.optional /\ ~job.alone => DoomedRows
      BY <1>1 DEF JobTypes, JobStands
    <2>2. JobTypes' /\ JobStands'
      BY <1>1, <1>3, <2>1, RaiseKeeps DEF Pipeline, DoomedRows
    <2> QED
      BY <1>1, <2>2, QuietJob
  <1> QED
    BY <1>2, <1>3 DEF InstallFetch

LEMMA OneMoreFrame ==
  ASSUME NEW s \in Seq(Frames), NEW f \in Frames
  PROVE  LET z == Append(s, f)
         IN  /\ z \in Seq(Frames) /\ z # <<>> /\ Len(z) = Len(s) + 1 /\ z[Len(s) + 1] = f
             /\ \A k \in 1..Len(s) : z[k] = s[k]
  OBVIOUS

LEMMA DependencyKeeps == ContentInv /\ InstallDependency => ContentInv'
  <1> SUFFICES ASSUME ContentInv, InstallDependency  PROVE ContentInv'
    OBVIOUS
  <1> DEFINE d == Head(TopFrame.todo)
             n == Len(job.stack)
             rest == [job EXCEPT !.stack[n].todo = Tail(@)]
             v == IF d.ver = 0 THEN Max(Offered(d.proj)) ELSE d.ver
  <1>1. /\ job.pc = "deps" /\ TopFrame.todo # <<>>
        /\ UNCHANGED <<installed, onDisk, page, touched>>
        /\ JobTypes /\ JobStands
    BY DEF InstallDependency, ContentInv
  <1>2. /\ job \in JobRecords /\ job.stack \in Seq(Frames) /\ job.stack # <<>>
        /\ n \in Nat \ {0} /\ DOMAIN job.stack = 1..n
        /\ TopFrame \in Frames /\ TopFrame = job.stack[n] /\ \A k \in 1..n : job.stack[k] \in Frames
        /\ \A r \in job.queue : r.proj # NoProject
    BY <1>1, TheJob DEF Pipeline
  <1>3. /\ TopFrame.todo \in Seq(Required) /\ d \in Required /\ Tail(TopFrame.todo) \in Seq(Required)
        /\ Named(TopFrame.todo) = {d.proj} \cup Named(Tail(TopFrame.todo))
    BY <1>1, <1>2, NamedFacts DEF Frames
  <1>4. d.proj \in Projects /\ ((d.ver = 0 /\ Offered(d.proj) # {}) \/ d.ver # 0 => v \in Versions)
    BY <1>3, Offers DEF Required
  <1> DEFINE s == [job.stack EXCEPT ![n].todo = Tail(@)]
  <1>5. rest = [job EXCEPT !.stack = s]
    BY <1>2
  <1>6. /\ s \in Seq(Frames) /\ Len(s) = n /\ s # <<>>
        /\ \A k \in 1..n : k # n => s[k] = job.stack[k]
        /\ s[n].proj = TopFrame.proj /\ s[n].ver = TopFrame.ver /\ s[n].todo = Tail(TopFrame.todo)
    <2> DEFINE f == [TopFrame EXCEPT !.todo = Tail(TopFrame.todo)]
    <2>1. /\ f \in Frames
          /\ f.proj = TopFrame.proj /\ f.ver = TopFrame.ver /\ f.todo = Tail(TopFrame.todo)
      BY <1>2, <1>3 DEF Frames
    <2>2. s = [job.stack EXCEPT ![n] = f]
      BY <1>2
    <2> HIDE DEF f, s, n
    <2>3. s \in Seq(Frames) /\ Len(s) = n /\ s[n] = f /\ \A k \in 1..n : k # n => s[k] = job.stack[k]
      BY <1>2, <2>1, <2>2 DEF n
    <2> QED
      BY <1>2, <2>1, <2>3
  <1> HIDE DEF s, rest
  <1>7. /\ rest \in JobRecords /\ rest.pc = "deps" /\ rest.stack = s /\ rest.queue = job.queue
        /\ rest.failed = job.failed /\ rest.optional = job.optional /\ rest.alone = job.alone
    BY <1>1, <1>2, <1>5, <1>6 DEF JobRecords
  <1>8. \/ job' = rest /\ UNCHANGED doomed /\ (RowsOf(d.proj) # {} \/ job.optional)
        \/ Raise(doomed)
        \/ /\ v \in Versions /\ UNCHANGED doomed
           /\ job' = [rest EXCEPT !.stack = Append(@, Frame(d.proj, v)), !.pc = "fetch"]
    BY <1>4 DEF InstallDependency, Satisfied, rest
  <1> HIDE DEF v, d, n
  <1>9. \A p : RowsOf(p) # {} => p \in Held
    BY DEF RowsOf, Held
  <1>10. "job" \notin touched /\ ~job.optional /\ ~job.alone
           => DoomedRows /\ \A k \in 1..n : FrameStands(k)
    BY <1>1, <1>2 DEF JobStands, Pipeline
  <1>11. CASE job' = rest /\ UNCHANGED doomed /\ (RowsOf(d.proj) # {} \/ job.optional)
    <2>1. JobTypes'
      BY <1>1, <1>2, <1>6, <1>7, <1>11 DEF JobTypes, JobShape, Packing
    <2>2. SUFFICES ASSUME "job" \notin touched, ~job.optional, ~job.alone
                   PROVE  DoomedRows' /\ \A k \in DOMAIN job'.stack : FrameStands(k)'
      BY <1>1, <1>7, <1>11, <2>1, QuietJob DEF JobStands, Pipeline
    <2>3. DoomedRows'
      BY <1>1, <1>7, <1>10, <1>11, <2>2 DEF DoomedRows
    <2>4. Held' = Held /\ d.proj \in Held
      BY <1>1, <1>7, <1>9, <1>11, <2>2 DEF Held
    <2>5. ASSUME NEW k \in 1..n  PROVE FrameStands(k)'
      <3>1. FrameStands(k)
        BY <1>10, <2>2
      <3>2. CASE k = n
        <4>1. /\ job'.stack[k].proj = TopFrame.proj /\ job'.stack[k].ver = TopFrame.ver
              /\ job'.stack[k].todo = Tail(TopFrame.todo)
          BY <1>6, <1>7, <1>11, <3>2
        <4>2. job.stack[k] = TopFrame /\ ~(k < Len(job.stack))
          BY <1>2, <3>2 DEF n
        <4>3. Named(Requires[TopFrame.proj, TopFrame.ver]) \subseteq Held \cup Named(TopFrame.todo)
          BY <3>1, <4>2 DEF FrameStands
        <4>4. Named(Requires[job'.stack[k].proj, job'.stack[k].ver])
                \subseteq Held' \cup Named(job'.stack[k].todo)
          BY <1>3, <2>4, <4>1, <4>3
        <4> QED
          BY <4>4 DEF FrameStands
      <3>3. CASE k # n
        <4>1. k + 1 \in 1..n /\ k < n
          BY <1>2, <3>3
        <4>2. job'.stack[k] = job.stack[k] /\ job'.stack[k + 1].proj = job.stack[k + 1].proj
          BY <1>2, <1>6, <1>7, <1>11, <3>3, <4>1
        <4> QED
          BY <1>6, <1>7, <1>11, <2>4, <3>1, <4>1, <4>2 DEF FrameStands, n
      <3> QED
        BY <3>2, <3>3
    <2>6. DOMAIN job'.stack = 1..n
      BY <1>6, <1>7, <1>11
    <2> QED
      BY <2>3, <2>5, <2>6
  <1>12. CASE Raise(doomed)
    <2>1. /\ doomed \subseteq 1..MaxRows
          /\ "job" \notin touched /\ ~job.optional /\ ~job.alone => DoomedRows
      BY <1>1, <1>10 DEF JobTypes
    <2>2. JobTypes' /\ JobStands'
      BY <1>1, <1>12, <2>1, RaiseKeeps DEF Pipeline, DoomedRows
    <2> QED
      BY <1>1, <2>2, QuietJob
  <1>13. CASE /\ v \in Versions /\ UNCHANGED doomed
              /\ job' = [rest EXCEPT !.stack = Append(@, Frame(d.proj, v)), !.pc = "fetch"]
    <2> DEFINE f == Frame(d.proj, v)
               z == Append(s, f)
    <2>1. f \in Frames /\ f.proj = d.proj /\ f.todo = Requires[f.proj, f.ver]
      <3>1. Frame(d.proj, v) \in Frames
        BY <1>4, <1>13, FrameFacts
      <3> QED
        BY <3>1 DEF Frame
    <2>2. job' = [rest EXCEPT !.stack = z, !.pc = "fetch"]
      BY <1>7, <1>13
    <2> HIDE DEF f
    <2>3. /\ z \in Seq(Frames) /\ z # <<>> /\ Len(z) = n + 1 /\ z[n + 1] = f
          /\ \A k \in 1..n : z[k] = s[k]
      <3>1. s \in Seq(Frames) /\ Len(s) = n /\ n \in Nat /\ f \in Frames
        BY <1>2, <1>6, <2>1
      <3> QED
        BY <3>1, OneMoreFrame
    <2> HIDE DEF z
    <2>4. /\ job' \in JobRecords /\ job'.pc = "fetch" /\ job'.stack = z /\ job'.queue = job.queue
          /\ job'.failed = job.failed /\ job'.optional = job.optional /\ job'.alone = job.alone
      BY <1>7, <2>2, <2>3 DEF JobRecords, Pipeline
    <2>5. JobTypes'
      BY <1>1, <1>2, <1>13, <2>3, <2>4 DEF JobTypes, JobShape, Packing
    <2>6. SUFFICES ASSUME "job" \notin touched, ~job.optional, ~job.alone
                   PROVE  DoomedRows' /\ \A k \in DOMAIN job'.stack : FrameStands(k)'
      BY <1>1, <2>4, <2>5, QuietJob DEF JobStands, Pipeline
    <2>7. DoomedRows'
      BY <1>1, <1>10, <1>13, <2>4, <2>6 DEF DoomedRows
    <2>8. Held' = Held
      BY <1>1, <2>4 DEF Held
    <2>9. ASSUME NEW k \in 1..n  PROVE FrameStands(k)'
      <3>1. FrameStands(k)
        BY <1>10, <2>6
      <3>2. k + 1 \in 1..(n + 1) /\ k < n + 1
        BY <1>2
      <3>3. CASE k = n
        <4>1. /\ job'.stack[k].proj = TopFrame.proj /\ job'.stack[k].ver = TopFrame.ver
              /\ job'.stack[k].todo = Tail(TopFrame.todo) /\ job'.stack[k + 1].proj = d.proj
          BY <1>2, <1>6, <2>1, <2>3, <2>4, <3>3
        <4>2. Named(Requires[TopFrame.proj, TopFrame.ver])
                \subseteq Held \cup {d.proj} \cup Named(Tail(TopFrame.todo))
          <5>1. job.stack[k] = TopFrame /\ ~(k < Len(job.stack))
            BY <1>2, <3>3 DEF n
          <5>2. Named(Requires[TopFrame.proj, TopFrame.ver]) \subseteq Held \cup Named(TopFrame.todo)
            BY <3>1, <5>1 DEF FrameStands
          <5> QED
            BY <1>3, <5>2
        <4>3. k < Len(job'.stack)
          BY <2>3, <2>4, <3>2
        <4>4. Named(Requires[job'.stack[k].proj, job'.stack[k].ver])
                \subseteq Held' \cup Named(job'.stack[k].todo) \cup {job'.stack[k + 1].proj}
          BY <2>8, <4>1, <4>2
        <4> QED
          BY <4>3, <4>4 DEF FrameStands
      <3>4. CASE k # n
        <4>1. k + 1 \in 1..n /\ k < n
          BY <1>2, <3>4
        <4>2. job'.stack[k] = job.stack[k] /\ job'.stack[k + 1].proj = job.stack[k + 1].proj
          BY <1>2, <1>6, <2>3, <2>4, <3>4, <4>1
        <4>3. k < Len(job'.stack) /\ k < Len(job.stack)
          BY <1>2, <2>3, <2>4, <3>2, <4>1 DEF n
        <4> QED
          BY <2>8, <3>1, <4>2, <4>3 DEF FrameStands
      <3> QED
        BY <3>3, <3>4
    <2>10. ASSUME NEW k, k = n + 1  PROVE FrameStands(k)'
      <3>1. job'.stack[k].todo = Requires[job'.stack[k].proj, job'.stack[k].ver]
        BY <2>1, <2>3, <2>4, <2>10
      <3>2. Named(Requires[job'.stack[k].proj, job'.stack[k].ver]) \subseteq Named(job'.stack[k].todo)
        BY <3>1
      <3> QED
        BY <3>2 DEF FrameStands
    <2>11. DOMAIN job'.stack = 1..(n + 1)
      BY <1>2, <2>3, <2>4
    <2>12. \A k \in 1..(n + 1) : k \in 1..n \/ k = n + 1
      BY <1>2
    <2>13. ASSUME NEW k \in 1..(n + 1)  PROVE FrameStands(k)'
      <3>1. CASE k = n + 1
        BY <2>10, <3>1
      <3>2. CASE k \in 1..n
        BY <2>9, <3>2
      <3> QED
        BY <2>12, <3>1, <3>2
    <2> QED
      BY <2>7, <2>11, <2>13
  <1> QED
    BY <1>8, <1>11, <1>12, <1>13

LEMMA JobMoves ==
  ASSUME JobTypes, NEW x \in Pipeline \cup Packing \cup {"idle", "next", "done"},
         job' = [job EXCEPT !.pc = x]
  PROVE  /\ job' \in JobRecords /\ job'.pc = x /\ job'.queue = job.queue /\ job'.stack = job.stack
         /\ job'.failed = job.failed /\ job'.optional = job.optional /\ job'.alone = job.alone
         /\ \A k : FrameStands(k) /\ Held \subseteq Held' => FrameStands(k)'
  <1>1. job \in JobRecords
    BY TheJob
  <1>2. /\ job' \in JobRecords /\ job'.pc = x /\ job'.queue = job.queue /\ job'.stack = job.stack
        /\ job'.failed = job.failed /\ job'.optional = job.optional /\ job'.alone = job.alone
    BY <1>1 DEF JobRecords
  <1>3. ASSUME NEW k, FrameStands(k), Held \subseteq Held'
        PROVE  FrameStands(k)'
    BY <1>2, <1>3 DEF FrameStands
  <1> QED
    BY <1>2, <1>3

LEMMA RemoveKeeps == ContentInv /\ InstallRemove => ContentInv'
  <1> SUFFICES ASSUME ContentInv, InstallRemove  PROVE ContentInv'
    OBVIOUS
  <1>1. /\ job.pc = "deps" /\ TopFrame.todo = <<>> /\ Disturbs("job")
        /\ UNCHANGED <<installed, page>>
        /\ JobTypes /\ JobStands /\ RowTypes
    BY DEF InstallRemove, ContentInv
  <1>2. /\ job \in JobRecords /\ job.stack # <<>> /\ \A r \in job.queue : r.proj # NoProject
        /\ TopFrame = job.stack[Len(job.stack)]
    BY <1>1, TheJob DEF Pipeline
  <1> DEFINE old == RowsOf(TopFrame.proj)
  <1>3. \A some \in SUBSET old :
          /\ {r.id : r \in some} \subseteq 1..MaxRows
          /\ doomed \cup {r.id : r \in some} \subseteq 1..MaxRows
          /\ \A r \in installed : r.id \in {s.id : s \in some} => r.proj = TopFrame.proj
    BY <1>1 DEF RowTypes, JobTypes, RowsOf, ContentRows, OneRowEach
  <1>4. "job" \notin touched /\ ~job.optional /\ ~job.alone
          => DoomedRows /\ \A k \in DOMAIN job.stack : FrameStands(k)
    BY <1>1 DEF JobStands, Pipeline
  <1>5. touched \subseteq touched' /\ ("job" \in touched' <=> "job" \in touched)
    BY <1>1 DEF Disturbs
  <1>6. onDisk' \subseteq AllFiles
    BY <1>1 DEF InstallRemove, RowTypes
  <1>7. SUFFICES JobTypes' /\ JobStands'
    BY <1>1, <1>6, LoudStep DEF RowTypes
  <1>8. CASE doomed' = doomed \cup {r.id : r \in old} /\ job' = [job EXCEPT !.pc = "download"]
    <2> DEFINE x == "download"
    <2>0. x \in Pipeline \cup Packing \cup {"idle", "next", "done"} /\ job' = [job EXCEPT !.pc = x]
      BY <1>8 DEF Pipeline
    <2>1. /\ job' \in JobRecords /\ job'.pc = x /\ job'.queue = job.queue /\ job'.stack = job.stack
          /\ job'.failed = job.failed /\ job'.optional = job.optional /\ job'.alone = job.alone
          /\ \A k : FrameStands(k) /\ Held \subseteq Held' => FrameStands(k)'
      BY <1>1, <2>0, JobMoves
    <2>2. JobTypes'
      BY <1>1, <1>2, <1>3, <1>8, <2>1 DEF JobTypes, JobShape, Packing
    <2>3. Held' = Held /\ TopFrame' = TopFrame
      BY <1>1, <2>1 DEF Held, TopFrame
    <2>4. "job" \notin touched /\ ~job.optional /\ ~job.alone => DoomedRows'
      BY <1>1, <1>3, <1>4, <1>8, <2>1, <2>3 DEF DoomedRows
    <2>5. JobStands'
      BY <1>4, <1>5, <2>1, <2>3, <2>4 DEF JobStands
    <2> QED
      BY <2>2, <2>5
  <1>9. ASSUME NEW some \in SUBSET old, Raise(doomed \cup {r.id : r \in some})
        PROVE  JobTypes' /\ JobStands'
    <2> DEFINE e == doomed \cup {r.id : r \in some}
    <2>1. /\ e \subseteq 1..MaxRows
          /\ "job" \notin touched /\ ~job.optional /\ ~job.alone =>
               \A r \in installed : r.id \in e => r.proj \in job.failed \cup Packs \cup {TopFrame.proj}
      BY <1>1, <1>3, <1>4 DEF DoomedRows
    <2> QED
      BY <1>1, <1>5, <1>9, <2>1, RaiseKeeps DEF Pipeline
  <1>10. \/ doomed' = doomed \cup {r.id : r \in old} /\ job' = [job EXCEPT !.pc = "download"]
         \/ Raise(doomed)
         \/ \E some \in SUBSET old : Raise(doomed \cup {r.id : r \in some})
    BY DEF InstallRemove
  <1>11. CASE Raise(doomed)
    <2>1. doomed \cup {r.id : r \in {}} = doomed /\ {} \in SUBSET old
      OBVIOUS
    <2> QED
      BY <1>9, <1>11, <2>1
  <1> QED
    BY <1>8, <1>9, <1>10, <1>11

LEMMA DownloadKeeps == ContentInv /\ InstallDownload => ContentInv'
  <1> SUFFICES ASSUME ContentInv, InstallDownload  PROVE ContentInv'
    OBVIOUS
  <1>1. /\ job.pc = "download" /\ Disturbs("job") /\ UNCHANGED <<installed, page>>
        /\ JobTypes /\ JobStands /\ RowTypes
    BY DEF InstallDownload, ContentInv
  <1>2. /\ job \in JobRecords /\ job.stack # <<>> /\ \A r \in job.queue : r.proj # NoProject
        /\ TopFrame = job.stack[Len(job.stack)] /\ TopFrame \in Frames
    BY <1>1, TheJob DEF Pipeline
  <1>3. FileOf[TopFrame.proj, TopFrame.ver] \in AllFiles
    BY <1>2, FrameFacts DEF Frames
  <1>4. onDisk' \subseteq AllFiles
    BY <1>1, <1>3 DEF InstallDownload, RowTypes
  <1>5. touched \subseteq touched' /\ ("job" \in touched' <=> "job" \in touched)
    BY <1>1 DEF Disturbs
  <1>6. SUFFICES JobTypes' /\ JobStands'
    BY <1>1, <1>4, LoudStep DEF RowTypes
  <1>7. CASE job' = [job EXCEPT !.pc = "commit"] /\ UNCHANGED doomed
    <2> DEFINE x == "commit"
    <2>0. x \in Pipeline \cup Packing \cup {"idle", "next", "done"} /\ job' = [job EXCEPT !.pc = x]
      BY <1>7 DEF Pipeline
    <2>1. /\ job' \in JobRecords /\ job'.pc = x /\ job'.queue = job.queue /\ job'.stack = job.stack
          /\ job'.failed = job.failed /\ job'.optional = job.optional /\ job'.alone = job.alone
          /\ \A k : FrameStands(k) /\ Held \subseteq Held' => FrameStands(k)'
      BY <1>1, <2>0, JobMoves
    <2>2. JobTypes'
      BY <1>1, <1>2, <1>7, <2>1 DEF JobTypes, JobShape, Packing
    <2>3. Held' = Held /\ TopFrame' = TopFrame
      BY <1>1, <2>1 DEF Held, TopFrame
    <2>4. JobStands'
      BY <1>1, <1>5, <1>7, <2>1, <2>3 DEF JobStands, DoomedRows, Pipeline
    <2> QED
      BY <2>2, <2>4
  <1>8. CASE Raise(doomed)
    <2>1. /\ doomed \subseteq 1..MaxRows
          /\ "job" \notin touched /\ ~job.optional /\ ~job.alone =>
               \A r \in installed : r.id \in doomed => r.proj \in job.failed \cup Packs \cup {TopFrame.proj}
      BY <1>1 DEF JobTypes, JobStands, DoomedRows
    <2> QED
      BY <1>1, <1>5, <1>8, <2>1, RaiseKeeps DEF Pipeline
  <1> QED
    BY <1>7, <1>8 DEF InstallDownload

RowFor(i, p, v) == ContentRow(i, p, v, FileOf[p, v])

\* A row written for the project on top, under a number no other row keeps.
LEMMA RowEntered ==
  ASSUME RowTypes, NEW p \in Projects, NEW v \in Versions, NEW i \in 1..MaxRows,
         NEW rows \in SUBSET installed, \A r \in rows : r.id # i,
         installed' = rows \cup {RowFor(i, p, v)}
  PROVE  /\ installed' \subseteq ContentRows /\ OneRowEach(installed')
         /\ \A r \in installed' : r \in rows \/ (r.proj = p /\ r.mark = "none")
         /\ \E r \in installed' : r.proj = p
  <1> DEFINE new == RowFor(i, p, v)
  <1>1. FileOf[p, v] \in AllFiles
    BY FrameFacts
  <1>2. new \in ContentRows /\ new.id = i /\ new.proj = p /\ new.mark = "none"
    BY <1>1 DEF RowFor, ContentRow, ContentRows
  <1> HIDE DEF new
  <1>3. installed' = rows \cup {new}
    BY DEF new
  <1>4. OneRowEach(installed')
    BY <1>2, <1>3 DEF RowTypes, OneRowEach
  <1> QED
    BY <1>2, <1>3, <1>4 DEF RowTypes

LEMMA CommitKeeps == ContentInv /\ InstallCommit => ContentInv'
  <1> SUFFICES ASSUME ContentInv, InstallCommit  PROVE ContentInv'
    OBVIOUS
  <1> DEFINE n == Len(job.stack)
             p == SubSeq(job.stack, 1, n - 1)
             kept == {r \in installed : r.id \notin doomed}
  <1>1. /\ job.pc = "commit" /\ NextRowId <= MaxRows /\ doomed' = {} /\ Disturbs("job")
        /\ UNCHANGED <<onDisk, page>>
        /\ installed' = kept \cup {RowFor(NextRowId, TopFrame.proj, TopFrame.ver)}
        /\ JobTypes /\ JobStands /\ RowTypes
    BY DEF InstallCommit, AfterCommit, ContentInv, RowFor
  <1>2. /\ job \in JobRecords /\ job.stack \in Seq(Frames) /\ job.stack # <<>>
        /\ \A r \in job.queue : r.proj # NoProject
        /\ n \in Nat \ {0} /\ DOMAIN job.stack = 1..n
        /\ TopFrame = job.stack[n] /\ TopFrame \in Frames /\ \A k \in 1..n : job.stack[k] \in Frames
    BY <1>1, TheJob DEF Pipeline
  <1>3. TopFrame.proj \in Projects /\ TopFrame.ver \in Versions /\ TopFrame.todo = <<>>
    BY <1>1, <1>2 DEF Frames, JobTypes, JobShape
  <1>4. NextRowId \in 1..MaxRows /\ \A r \in kept : r.id # NextRowId
    <2>1. MaxRows \in Nat
      BY ContentAssumption
    <2>2. NextRowId \in Nat \ {0} /\ \A r \in installed : r.id \in Nat /\ r.id < NextRowId
      BY <1>1, NextIds
    <2>3. \A r \in kept : r.id # NextRowId
      BY <2>2
    <2> HIDE DEF kept
    <2> QED
      BY <1>1, <2>1, <2>2, <2>3
  <1>5. /\ installed' \subseteq ContentRows /\ OneRowEach(installed')
        /\ \A r \in installed' : r \in kept \/ r.mark = "none"
        /\ \E r \in installed' : r.proj = TopFrame.proj
    <2> DEFINE q == TopFrame.proj
               v == TopFrame.ver
               i == NextRowId
    <2>1. kept \in SUBSET installed /\ \A r \in kept : r.id # i
      BY <1>4
    <2>2. q \in Projects /\ v \in Versions /\ i \in 1..MaxRows
      BY <1>3, <1>4
    <2>3. installed' = kept \cup {RowFor(i, q, v)}
      BY <1>1
    <2> HIDE DEF kept, q, v, i
    <2>4. /\ installed' \subseteq ContentRows /\ OneRowEach(installed')
          /\ \A r \in installed' : r \in kept \/ (r.proj = q /\ r.mark = "none")
          /\ \E r \in installed' : r.proj = q
      BY <1>1, <2>1, <2>2, <2>3, RowEntered
    <2> QED
      BY <2>4 DEF q
  <1>6. "job" \in touched' <=> "job" \in touched
    BY <1>1 DEF Disturbs
  <1>7. SUFFICES JobTypes' /\ JobStands'
    BY <1>1, <1>5, LoudStep DEF RowTypes
  <1>8. DoomedRows' /\ doomed' \subseteq 1..MaxRows
    BY <1>1 DEF DoomedRows
  <1>9. ASSUME job'.failed = job.failed, "job" \notin touched, ~job.optional, ~job.alone
        PROVE  Held \ Packs \subseteq Held' /\ TopFrame.proj \in Held'
    <2>1. DoomedRows
      BY <1>1, <1>9 DEF JobStands
    <2>2. \A r \in installed : r \in kept \/ r.proj \in job.failed \cup Packs \cup {TopFrame.proj}
      BY <2>1 DEF DoomedRows
    <2>3. TopFrame.proj \in {r.proj : r \in installed'}
      BY <1>5
    <2>4. kept \subseteq installed'
      BY <1>1
    <2> QED
      BY <1>9, <2>2, <2>3, <2>4 DEF Held
  <1>10. ASSUME NEW k \in 1..n
         PROVE  Named(Requires[job.stack[k].proj, job.stack[k].ver]) \cap Packs = {}
    <2>1. job.stack[k].proj \in Projects /\ job.stack[k].ver \in Versions
      BY <1>2 DEF Frames
    <2> QED
      BY <2>1, FrameFacts
  <1>11. ASSUME "job" \notin touched, ~job.optional, ~job.alone, NEW k \in 1..n
         PROVE  FrameStands(k)
    BY <1>1, <1>2, <1>11 DEF JobStands, Pipeline
  <1>12. CASE n > 1
    <2>1. /\ p \in Seq(Frames) /\ p # <<>> /\ Len(p) = n - 1
          /\ \A k \in 1..Len(p) : p[k] = job.stack[k]
      BY <1>2, <1>12, StackFacts
    <2>2. job' = [job EXCEPT !.stack = p, !.pc = "deps"]
      BY <1>12 DEF InstallCommit
    <2> HIDE DEF p
    <2>3. /\ job' \in JobRecords /\ job'.pc = "deps" /\ job'.queue = job.queue /\ job'.stack = p
          /\ job'.failed = job.failed /\ job'.optional = job.optional /\ job'.alone = job.alone
      BY <1>2, <2>1, <2>2 DEF JobRecords, Pipeline
    <2>4. JobTypes'
      BY <1>2, <1>8, <2>1, <2>3 DEF JobTypes, JobShape, Packing
    <2> HIDE DEF n
    <2>5. Len(job'.stack) = n - 1 /\ DOMAIN job'.stack = 1..(n - 1)
      BY <1>2, <2>1, <2>3
    <2>6. ASSUME "job" \notin touched', ~job'.optional, ~job'.alone, NEW k \in 1..(n - 1)
          PROVE  FrameStands(k)'
      <3>1. "job" \notin touched /\ ~job.optional /\ ~job.alone
        BY <1>6, <2>3, <2>6
      <3>2. k \in 1..n /\ k < n
        BY <1>2
      <3>3. FrameStands(k) /\ Named(Requires[job.stack[k].proj, job.stack[k].ver]) \cap Packs = {}
        BY <1>10, <1>11, <3>1, <3>2
      <3>4. job'.stack[k] = job.stack[k]
        BY <2>1, <2>3
      <3>5. Held \ Packs \subseteq Held' /\ TopFrame.proj \in Held'
        BY <1>9, <2>3, <3>1
      <3>6. Named(Requires[job.stack[k].proj, job.stack[k].ver])
              \subseteq Held \cup Named(job.stack[k].todo) \cup {job.stack[k + 1].proj}
        BY <3>2, <3>3 DEF FrameStands, n
      <3>7. CASE k = n - 1
        <4>1. job.stack[k + 1].proj = TopFrame.proj
          BY <1>2, <3>7
        <4>2. Named(Requires[job'.stack[k].proj, job'.stack[k].ver])
                \subseteq Held' \cup Named(job'.stack[k].todo)
          BY <3>3, <3>4, <3>5, <3>6, <4>1
        <4> QED
          BY <4>2 DEF FrameStands
      <3>8. CASE k # n - 1
        <4>1. k < n - 1 /\ k + 1 \in 1..(n - 1)
          BY <1>2, <3>8
        <4>2. job'.stack[k + 1] = job.stack[k + 1] /\ k < Len(job'.stack)
          BY <2>1, <2>3, <2>5, <4>1
        <4>3. Named(Requires[job'.stack[k].proj, job'.stack[k].ver])
                \subseteq Held' \cup Named(job'.stack[k].todo) \cup {job'.stack[k + 1].proj}
          BY <3>3, <3>4, <3>5, <3>6, <4>2
        <4> QED
          BY <4>2, <4>3 DEF FrameStands
      <3> QED
        BY <3>7, <3>8
    <2>7. JobStands'
      BY <1>8, <2>3, <2>5, <2>6 DEF JobStands
    <2> QED
      BY <2>4, <2>7
  <1>13. CASE ~(n > 1)
    <2> DEFINE x == "done"
    <2>0. x \in Pipeline \cup Packing \cup {"idle", "next", "done"} /\ job' = [job EXCEPT !.pc = x]
      BY <1>13 DEF InstallCommit
    <2>1. /\ job' \in JobRecords /\ job'.pc = x /\ job'.queue = job.queue /\ job'.stack = job.stack
          /\ job'.failed = job.failed /\ job'.optional = job.optional /\ job'.alone = job.alone
      BY <1>1, <2>0, JobMoves
    <2>2. JobTypes'
      BY <1>2, <1>8, <2>1 DEF JobTypes, JobShape, Packing
    <2>3. TopFrame' = TopFrame
      BY <2>1 DEF TopFrame
    <2>4. ASSUME "job" \notin touched, ~job.optional, ~job.alone
          PROVE  Named(Requires[TopFrame.proj, TopFrame.ver]) \subseteq Held'
      <3>1. n \in 1..n /\ ~(n < n)
        BY <1>2
      <3>2. FrameStands(n) /\ Named(Requires[TopFrame.proj, TopFrame.ver]) \cap Packs = {}
        BY <1>2, <1>10, <1>11, <2>4, <3>1
      <3>3. Named(Requires[TopFrame.proj, TopFrame.ver]) \subseteq Held \cup Named(TopFrame.todo)
        BY <1>2, <3>1, <3>2 DEF FrameStands
      <3> QED
        BY <1>3, <1>9, <2>1, <2>4, <3>2, <3>3, NamedFacts
    <2>5. JobStands'
      BY <1>6, <1>8, <2>1, <2>3, <2>4 DEF JobStands, Pipeline
    <2> QED
      BY <2>2, <2>5
  <1> QED
    BY <1>12, <1>13

LEMMA DoneKeeps == ContentInv /\ InstallDone => ContentInv'
  <1> SUFFICES ASSUME ContentInv, InstallDone  PROVE ContentInv'
    OBVIOUS
  <1>1. /\ job.pc = "done" /\ UNCHANGED <<installed, onDisk, doomed, page, touched>>
        /\ JobTypes /\ JobStands
    BY DEF InstallDone, ContentInv
  <1>2. job \in JobRecords /\ \A r \in job.queue : r.proj # NoProject
    BY <1>1, TheJob
  <1>3. CASE job' = [job EXCEPT !.pc = "next", !.stack = <<>>]
    <2>1. <<>> \in Seq(Frames)
      OBVIOUS
    <2>2. /\ job' \in JobRecords /\ job'.pc = "next" /\ job'.queue = job.queue
          /\ job'.failed = job.failed /\ job'.optional = job.optional /\ job'.alone = job.alone
      BY <1>2, <1>3, <2>1 DEF JobRecords
    <2>3. JobTypes'
      BY <1>1, <1>2, <2>2 DEF JobTypes, JobShape, Pipeline, Packing
    <2>4. JobStands'
      BY <1>1, <2>2 DEF JobStands, DoomedRows, Pipeline
    <2> QED
      BY <1>1, <2>3, <2>4, QuietJob
  <1>4. CASE job' = NoJob
    <2>1. JobTypes' /\ JobStands'
      BY <1>1, <1>4, JobBegins DEF JobTypes, JobStands, NoJob, Pipeline
    <2> QED
      BY <1>1, <2>1, QuietJob
  <1> QED
    BY <1>3, <1>4 DEF InstallDone

\* A pack requires nothing.
LEMMA PackEnds ==
  ASSUME JobTypes, JobStands, job.pc \in Packing, job' = PackOver, doomed' = doomed,
         "job" \in touched' <=> "job" \in touched,
         \A r \in installed' : r \in installed \/ r.proj = TopFrame.proj
  PROVE  JobTypes' /\ JobStands'
  <1>1. /\ job \in JobRecords /\ job.stack # <<>> /\ \A r \in job.queue : r.proj # NoProject
        /\ TopFrame = job.stack[Len(job.stack)] /\ TopFrame \in Frames /\ TopFrame.proj \in Packs
    BY TheJob DEF JobTypes, JobShape
  <1>2. 0 \in 0..MaxRows
    BY ContentAssumption
  <1>3. /\ job' \in JobRecords /\ job'.pc = "done" /\ job'.queue = job.queue /\ job'.stack = job.stack
        /\ job'.failed = job.failed /\ job'.optional = job.optional /\ job'.alone = job.alone
    BY <1>1, <1>2 DEF PackOver, JobRecords
  <1>4. JobTypes'
    BY <1>1, <1>3 DEF JobTypes, JobShape, Packing
  <1>5. "job" \notin touched /\ ~job.optional /\ ~job.alone => DoomedRows'
    BY <1>1, <1>3 DEF JobStands, DoomedRows, Packing
  <1>6. Named(Requires[TopFrame.proj, TopFrame.ver]) = {}
    BY <1>1, FrameFacts DEF Frames
  <1>7. TopFrame' = TopFrame
    BY <1>3 DEF TopFrame
  <1> QED
    BY <1>3, <1>4, <1>5, <1>6, <1>7 DEF JobStands, Pipeline

LEMMA PackWritesKeeps == ContentInv /\ PackWrites => ContentInv'
  <1> SUFFICES ASSUME ContentInv, PackWrites  PROVE ContentInv'
    OBVIOUS
  <1>1. /\ job.pc = "generate" /\ Disturbs("job") /\ UNCHANGED <<installed, doomed, page>>
        /\ JobTypes /\ JobStands /\ RowTypes
    BY DEF PackWrites, ContentInv
  <1>2. /\ job \in JobRecords /\ job.stack # <<>> /\ \A r \in job.queue : r.proj # NoProject
        /\ TopFrame = job.stack[Len(job.stack)] /\ TopFrame \in Frames /\ TopFrame.proj \in Packs
    BY <1>1, TheJob DEF Packing, JobTypes, JobShape
  <1>3. FileOf[TopFrame.proj, TopFrame.ver] \in AllFiles
    BY <1>2, FrameFacts DEF Frames
  <1>4. onDisk' \subseteq AllFiles
    BY <1>1, <1>3 DEF PackWrites, RowTypes
  <1>5. "job" \in touched' <=> "job" \in touched
    BY <1>1 DEF Disturbs
  <1>6. SUFFICES JobTypes' /\ JobStands'
    BY <1>1, <1>4, LoudStep DEF RowTypes
  <1>7. CASE \E x \in {"enter", "swap"} : job' = [job EXCEPT !.pc = x]
    <2>1. PICK x \in {"enter", "swap"} : job' = [job EXCEPT !.pc = x]
      BY <1>7
    <2>2. /\ job' \in JobRecords /\ job'.pc = x /\ job'.queue = job.queue /\ job'.stack = job.stack
          /\ job'.failed = job.failed /\ job'.optional = job.optional /\ job'.alone = job.alone
      BY <1>1, <2>1, JobMoves DEF Packing
    <2>3. JobTypes'
      BY <1>1, <1>2, <2>2 DEF JobTypes, JobShape, Pipeline
    <2>4. JobStands'
      BY <1>1, <1>5, <2>2 DEF JobStands, DoomedRows, Pipeline
    <2> QED
      BY <2>3, <2>4
  <1>8. CASE job' = PackOver
    BY <1>1, <1>2, <1>5, <1>8, PackEnds DEF Packing
  <1> QED
    BY <1>7, <1>8 DEF PackWrites

LEMMA PackSwapsKeeps == ContentInv /\ PackSwaps => ContentInv'
  <1> SUFFICES ASSUME ContentInv, PackSwaps  PROVE ContentInv'
    OBVIOUS
  <1>1. /\ job.pc = "swap" /\ Disturbs("job") /\ UNCHANGED <<installed, doomed, page>>
        /\ job' = [job EXCEPT !.pc = "enter"]
        /\ JobTypes /\ JobStands /\ RowTypes
    BY DEF PackSwaps, ContentInv
  <1>2. /\ job \in JobRecords /\ job.stack # <<>> /\ \A r \in job.queue : r.proj # NoProject
        /\ TopFrame = job.stack[Len(job.stack)] /\ TopFrame.proj \in Packs
    BY <1>1, TheJob DEF Packing, JobTypes, JobShape
  <1>3. onDisk' \subseteq AllFiles
    BY <1>1 DEF PackSwaps, RowTypes
  <1>4. "job" \in touched' <=> "job" \in touched
    BY <1>1 DEF Disturbs
  <1> DEFINE x == "enter"
  <1>5. x \in Pipeline \cup Packing \cup {"idle", "next", "done"} /\ job' = [job EXCEPT !.pc = x]
    BY <1>1 DEF Packing
  <1>6. /\ job' \in JobRecords /\ job'.pc = x /\ job'.queue = job.queue /\ job'.stack = job.stack
        /\ job'.failed = job.failed /\ job'.optional = job.optional /\ job'.alone = job.alone
    BY <1>1, <1>5, JobMoves
  <1>7. JobTypes'
    BY <1>1, <1>2, <1>6 DEF JobTypes, JobShape, Pipeline
  <1>8. JobStands'
    BY <1>1, <1>4, <1>6 DEF JobStands, DoomedRows, Pipeline
  <1> QED
    BY <1>1, <1>3, <1>7, <1>8, LoudStep DEF RowTypes

LEMMA PackEntersKeeps == ContentInv /\ PackEnters => ContentInv'
  <1> SUFFICES ASSUME ContentInv, PackEnters  PROVE ContentInv'
    OBVIOUS
  <1> DEFINE q == TopFrame.proj
             v == TopFrame.ver
             f == FileOf[q, v]
             i == IF job.pack = 0 THEN NextRowId ELSE job.pack
             kept == {r \in installed : r.file # f /\ r.id # i}
  <1>1. /\ job.pc = "enter" /\ NextRowId <= MaxRows /\ Disturbs("job")
        /\ UNCHANGED <<onDisk, doomed, page>>
        /\ job' \in {PackOver, NoJob}
        /\ \/ UNCHANGED installed
           \/ job' = PackOver /\ installed' = kept \cup {RowFor(i, q, v)}
        /\ JobTypes /\ JobStands /\ RowTypes
    BY DEF PackEnters, ContentInv, RowFor
  <1> HIDE DEF kept
  <1>2. /\ job \in JobRecords /\ job.stack # <<>> /\ \A r \in job.queue : r.proj # NoProject
        /\ TopFrame = job.stack[Len(job.stack)] /\ TopFrame \in Frames /\ q \in Packs
    BY <1>1, TheJob DEF Packing, JobTypes, JobShape
  <1>3. q \in Projects /\ v \in Versions /\ i \in 1..MaxRows
    <2>1. q \in Projects /\ v \in Versions /\ job.pack \in 0..MaxRows
      BY <1>2 DEF Frames, JobRecords
    <2>2. MaxRows \in Nat /\ NextRowId \in Nat \ {0}
      BY <1>1, NextIds, ContentAssumption
    <2>3. NextRowId \in 1..MaxRows
      BY <1>1, <2>2
    <2>4. job.pack # 0 => job.pack \in 1..MaxRows
      BY <2>1, <2>2
    <2> QED
      BY <2>1, <2>3, <2>4
  <1>4. "job" \in touched' <=> "job" \in touched
    BY <1>1 DEF Disturbs
  <1>5. /\ installed' \subseteq ContentRows /\ OneRowEach(installed')
        /\ \A r \in installed' : r \in installed \/ (r.proj = q /\ r.mark = "none")
    <2>1. CASE UNCHANGED installed
      BY <1>1, <2>1 DEF RowTypes, OneRowEach
    <2>2. CASE installed' = kept \cup {RowFor(i, q, v)}
      <3>1. kept \in SUBSET installed /\ \A r \in kept : r.id # i
        BY DEF kept
      <3>2. RowTypes /\ q \in Projects /\ v \in Versions /\ i \in 1..MaxRows
        BY <1>1, <1>3
      <3> HIDE DEF q, v, i
      <3>3. /\ installed' \subseteq ContentRows /\ OneRowEach(installed')
            /\ \A r \in installed' : r \in kept \/ (r.proj = q /\ r.mark = "none")
            /\ \E r \in installed' : r.proj = q
        BY <2>2, <3>1, <3>2, RowEntered
      <3> QED
        BY <3>1, <3>3
    <2> QED
      BY <1>1, <2>1, <2>2
  <1>6. JobTypes' /\ JobStands'
    <2>1. CASE job' = NoJob
      BY <1>1, <2>1, JobBegins DEF JobTypes, JobStands, NoJob, Pipeline
    <2>2. CASE job' = PackOver
      BY <1>1, <1>2, <1>4, <1>5, <2>2, PackEnds DEF Packing
    <2> QED
      BY <1>1, <2>1, <2>2
  <1> QED
    BY <1>1, <1>5, <1>6, LoudStep DEF RowTypes

-----------------------------------------------------------------------------

\* The rows a server begins with.
FirstRows(number) == {ContentRow(number[p], p, 1, FileOf[p, 1]) : p \in Before}

LEMMA FirstRowFacts ==
  ASSUME NEW number \in [Before -> 1..Cardinality(Before)],
         \A p, q \in Before : p # q => number[p] # number[q]
  PROVE  /\ FirstRows(number) \subseteq ContentRows /\ OneRowEach(FirstRows(number))
         /\ \A r \in FirstRows(number) : r.mark = "none"
  <1> DEFINE row(p) == RowFor(number[p], p, 1)
  <1>1. 1 \in Versions
    <2> DEFINE c == Cardinality(Versions)
    <2>1. Versions # {} /\ Versions = 1..c /\ c \in Nat
      BY ContentAssumption, FS_CardinalityType
    <2> HIDE DEF c
    <2> QED
      BY <2>1
  <1>2. Before \subseteq Projects /\ Cardinality(Before) <= MaxRows /\ MaxRows \in Nat
    BY ContentAssumption
  <1>3. Cardinality(Before) \in Nat
    BY <1>2, ContentAssumption, FS_Subset, FS_CardinalityType
  <1>4. ASSUME NEW p \in Before
        PROVE  row(p) \in ContentRows /\ row(p).id = number[p] /\ row(p).mark = "none"
    <2>1. p \in Projects /\ FileOf[p, 1] \in AllFiles
      BY <1>1, <1>2, FrameFacts
    <2>2. number[p] \in 1..MaxRows
      <3> DEFINE c == Cardinality(Before)
      <3>1. number[p] \in 1..c /\ c \in Nat /\ c <= MaxRows /\ MaxRows \in Nat
        BY <1>2, <1>3
      <3> HIDE DEF c
      <3> QED
        BY <3>1
    <2> QED
      BY <1>1, <2>1, <2>2 DEF RowFor, ContentRow, ContentRows
  <1>5. FirstRows(number) = {row(p) : p \in Before}
    BY DEF FirstRows, RowFor
  <1> HIDE DEF row
  <1> QED
    BY <1>4, <1>5 DEF OneRowEach

LEMMA ContentBegins == ContentInit => ContentInv
  <1> SUFFICES ASSUME ContentInit  PROVE ContentInv
    OBVIOUS
  <1>1. PICK number \in [Before -> 1..Cardinality(Before)] :
          /\ \A p, q \in Before : p # q => number[p] # number[q]
          /\ installed = {ContentRow(number[p], p, 1, FileOf[p, 1]) : p \in Before}
    BY DEF ContentInit
  <1>2. installed = FirstRows(number)
    BY <1>1 DEF FirstRows
  <1>3. installed \subseteq ContentRows /\ OneRowEach(installed) /\ \A r \in installed : r.mark = "none"
    BY <1>1, <1>2, FirstRowFacts
  <1>4. /\ onDisk = {r.file : r \in installed} /\ doomed = {} /\ job = NoJob
        /\ page = [t \in Pages |-> Away] /\ touched = {}
    BY DEF ContentInit
  <1>5. RowTypes
    BY <1>3, <1>4 DEF RowTypes, ContentRows
  <1>6. JobTypes /\ JobStands
    BY <1>4, JobBegins DEF JobTypes, JobStands, NoJob, Pipeline
  <1>7. PageType(Away)
    BY ContentAssumption DEF PageType, Away
  <1>8. PageTypes
    BY <1>4, <1>7 DEF PageTypes
  <1>9. CalmPages
    BY <1>4 DEF CalmPages, CalmPage, Away
  <1>10. OpenRows
    BY <1>3, <1>4 DEF OpenRows, StaysOpen, Away
  <1> QED
    BY <1>5, <1>6, <1>8, <1>9, <1>10 DEF ContentInv

LEMMA ContentStays == ContentInv /\ [ContentNext]_contentVars => ContentInv'
  <1> SUFFICES ASSUME ContentInv, [ContentNext]_contentVars  PROVE ContentInv'
    OBVIOUS
  <1>1. CASE \/ \E w \in Wanted, o \in BOOLEAN : InstallRequest(w[1], w[2], o)
             \/ UpdateRequest \/ VersionUpdateRequest \/ PackUpdateRequest
             \/ \E p \in Packs : PackRequest(p)
    BY <1>1, RequestsKeep
  <1>2. CASE UpdateNext \/ InstallFetch \/ InstallDependency
    BY <1>2, UpdateGoesOn, FetchKeeps, DependencyKeeps
  <1>3. CASE InstallRemove \/ InstallDownload \/ InstallCommit \/ InstallDone
    BY <1>3, RemoveKeeps, DownloadKeeps, CommitKeeps, DoneKeeps
  <1>4. CASE PackWrites \/ PackSwaps \/ PackEnters
    BY <1>4, PackWritesKeeps, PackSwapsKeeps, PackEntersKeeps
  <1>5. ASSUME NEW t \in Pages,
               \/ PageReads(t) \/ PageScans(t) \/ PageAdopts(t) \/ PageSettles(t)
               \/ PageLooks(t) \/ PageHeals(t) \/ PageShown(t)
               \/ DeleteFile(t) \/ DeleteRow(t)
        PROVE  ContentInv'
    BY <1>5, ReadsKeep, ScansKeep, AdoptsKeep, SettlesKeep, LooksKeep, HealsKeep, ShownKeeps,
       DeletionsKeep
  <1>6. CASE Upload
    BY <1>6, UploadKeeps
  <1>7. CASE UNCHANGED contentVars
    <2>1. UNCHANGED <<installed, onDisk, doomed, job, page, touched>>
      BY <1>7 DEF contentVars
    <2>2. JobTypes' /\ JobStands'
      BY <2>1 DEF ContentInv, JobTypes, JobStands, DoomedRows, FrameStands, Held, TopFrame
    <2> QED
      BY <2>1, <2>2, QuietJob
  <1> QED
    BY <1>1, <1>2, <1>3, <1>4, <1>5, <1>6, <1>7 DEF ContentNext

THEOREM ContentStands == ContentSpec => []ContentInv
  BY ContentBegins, ContentStays, PTL DEF ContentSpec

\* Rows stay rows of the server's projects and files, and what a job failed on are projects.
THEOREM ContentTypesHold == ContentSpec => []ContentTypeOK
  <1>1. ContentInv => ContentTypeOK
    <2> SUFFICES ASSUME ContentInv  PROVE ContentTypeOK
      OBVIOUS
    <2>1. job.failed \subseteq Projects
      BY TheJob DEF ContentInv, JobRecords
    <2> QED
      BY <2>1 DEF ContentInv, RowTypes, JobTypes, ContentTypeOK, ContentRows
  <1> QED
    BY <1>1, ContentStands, PTL

\* list_installed_content: after a page view that nobody disturbed, rows and files stand for
\* each other, whatever failed before; and no row is written off while a provider that is
\* switched on and was asked knows its file (auto_adopt_local_content).
THEOREM ListingIsAlwaysTrue == ContentSpec => []ListingIsTrue
  <1>1. ContentInv => ListingIsTrue
    <2> SUFFICES ASSUME ContentInv  PROVE ListingIsTrue
      OBVIOUS
    <2>1. CalmListingIsTrue
      BY DEF ContentInv, CalmPages, CalmPage, CalmListingIsTrue, FilesOf
    <2>2. KnownFileStaysOpen
      BY DEF ContentInv, OpenRows, StaysOpen, KnownFileStaysOpen
    <2> QED
      BY <2>1, <2>2 DEF ListingIsTrue
  <1> QED
    BY <1>1, ContentStands, PTL

\* install_content: a mod that was installed undisturbed has every project it requires, however
\* deep the chain, unless the run failed on that project or passed over it.
THEOREM DependenciesAlwaysStand == ContentSpec => []DependenciesStand
  <1>1. ContentInv => DependenciesStand
    <2> SUFFICES ASSUME ContentInv, job.pc = "done", "job" \notin touched, ~job.optional, ~job.alone,
                        NEW i \in DOMAIN Requires[TopFrame.proj, TopFrame.ver]
                 PROVE  LET p == Requires[TopFrame.proj, TopFrame.ver][i].proj
                        IN  RowsOf(p) # {} \/ p \in job.failed
      BY DEF DependenciesStand
    <2> DEFINE p == Requires[TopFrame.proj, TopFrame.ver][i].proj
    <2>1. p \in Named(Requires[TopFrame.proj, TopFrame.ver])
      BY DEF Named
    <2>2. p \in Held
      BY <2>1 DEF ContentInv, JobStands
    <2> HIDE DEF p
    <2>3. RowsOf(p) # {} \/ p \in job.failed
      BY <2>2 DEF Held, RowsOf
    <2> QED
      BY <2>3 DEF p
  <1> QED
    BY <1>1, ContentStands, PTL
=============================================================================
