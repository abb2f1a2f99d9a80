------------------------------- MODULE Accounts -------------------------------
(* The accounts of the manager's own users.  Only a super admin changes     *)
(* them, and the last active one must stay.  Every request looks first and  *)
(* writes later, in a session of its own (routers/users.py,                 *)
(* user_service.py, auth_service.py, init_db.py).                           *)
EXTENDS Naturals, FiniteSets

CONSTANTS
  Accountants,  \* the users there may be, named for what they are called
  Initial,      \* initial_superadmin_username
  Counters,     \* threads that serve requests
  MaxChanges    \* bound on requests and restarts

ASSUME AccountAssumption == Initial \in Accountants

VARIABLES
  accounts,   \* the rows
  counter,    \* the requests at work
  miscounted, \* history: a request wrote though the admins it had counted were others by then
  changes
accountVars == <<accounts, counter, miscounted, changes>>

AccountRow(role, active) == [role |-> role, active |-> active]
NoAccount == AccountRow("none", FALSE)
SuperAdmin == AccountRow("super_admin", TRUE)
ActiveSuperAdmins(rows) == {u \in Accountants : rows[u] = SuperAdmin}
NoRequest == [what |-> "none", target |-> Initial, role |-> "none", read |-> NoAccount, seen |-> {}]

AccountsTypeOK ==
  /\ accounts \in [Accountants -> {NoAccount} \cup [role : {"super_admin", "admin"}, active : BOOLEAN]]
  /\ DOMAIN counter = Counters /\ miscounted \in BOOLEAN
  /\ \A t \in Counters : counter[t].what \in {"none", "create", "deactivate", "role", "delete"}

\* _seed_super_admin
Seeded(rows) ==
  IF rows[Initial] = NoAccount THEN [rows EXCEPT ![Initial] = SuperAdmin] ELSE rows
AccountsInit ==
  /\ accounts = Seeded([u \in Accountants |-> NoAccount])
  /\ counter = [t \in Counters |-> NoRequest] /\ miscounted = FALSE /\ changes = 0

\* _require_super_admin: the session's user, as his row says now.
MayManage(by) == accounts[by] = SuperAdmin

Enters(t, by, what, target, role) ==
  /\ counter[t] = NoRequest /\ changes < MaxChanges /\ changes' = changes + 1
  /\ MayManage(by)
  /\ counter' = [counter EXCEPT ![t] =
       [what |-> what, target |-> target, role |-> role, read |-> accounts[target],
        seen |-> ActiveSuperAdmins(accounts)]]
  /\ UNCHANGED <<accounts, miscounted>>

\* A bug: the admins are not counted.
NobodyIsLast(u) == FALSE
IsLast(u) == accounts[u] = SuperAdmin /\ Cardinality(ActiveSuperAdmins(accounts)) <= 1

CreateUser(t, by, name, role) ==
  accounts[name] = NoAccount /\ Enters(t, by, "create", name, role)
Deactivate(t, by, target) ==
  /\ accounts[target] # NoAccount /\ target # by /\ ~IsLast(target)
  /\ Enters(t, by, "deactivate", target, "none")
\* One's own role too.
UpdateRole(t, by, target, role) ==
  /\ accounts[target] # NoAccount
  /\ role # "super_admin" => ~IsLast(target)
  /\ Enters(t, by, "role", target, role)
Delete(t, by, target) ==
  /\ accounts[target] # NoAccount /\ target # by /\ ~IsLast(target)
  /\ Enters(t, by, "delete", target, "none")

\* What the session writes: the columns that differ from what it read.
AsWritten(r, row) ==
  CASE r.what = "create" -> AccountRow(r.role, TRUE)
    [] r.what = "deactivate" -> IF r.read.active THEN [row EXCEPT !.active = FALSE] ELSE row
    [] r.what = "role" -> IF r.read.role # r.role THEN [row EXCEPT !.role = r.role] ELSE row
    [] r.what = "delete" -> NoAccount

\* A name given away meanwhile, or a row that is gone, is an error.
Commits(t) ==
  LET r == counter[t]
      row == accounts[r.target]
      fails == (r.what = "create") # (row = NoAccount)
  IN
  /\ r.what # "none"
  /\ accounts' = IF fails THEN accounts ELSE [accounts EXCEPT ![r.target] = AsWritten(r, row)]
  /\ miscounted' = (miscounted \/ (accounts' # accounts /\ r.seen # ActiveSuperAdmins(accounts)))
  /\ counter' = [counter EXCEPT ![t] = NoRequest]
  /\ UNCHANGED changes

\* The manager begins anew.
ManagerAnew ==
  /\ changes < MaxChanges /\ changes' = changes + 1
  /\ accounts' = Seeded(accounts)
  /\ counter' = [t \in Counters |-> NoRequest]
  /\ UNCHANGED miscounted

AccountsNext ==
  \/ \E t \in Counters, by, u \in Accountants :
       \/ \E role \in {"super_admin", "admin"} : CreateUser(t, by, u, role) \/ UpdateRole(t, by, u, role)
       \/ Deactivate(t, by, u) \/ Delete(t, by, u)
  \/ \E t \in Counters : Commits(t)
  \/ ManagerAnew

AccountsSpec == AccountsInit /\ [][AccountsNext]_accountVars
-----------------------------------------------------------------------------
(* Properties                                                              *)

\* "Der letzte aktive Super Admin kann nicht geloescht werden" (routers/users.py), nor
\* deactivated or degraded, by no sequence of requests, unless two of them cross: then each
\* may have counted the admin the other one takes away.
AnAdminStays == ActiveSuperAdmins(accounts) # {} \/ miscounted

=============================================================================
