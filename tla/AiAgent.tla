------------------------------ MODULE AiAgent ------------------------------
(***************************************************************************)
(* Calls to the AI provider (ai_service.py, ai_budget_service.py,          *)
(* ai_agent_service.py): every call is booked with an estimate before it   *)
(* is made and with its real price after it, in one table that all limits  *)
(* are computed from.  An agent's order takes several calls; what would    *)
(* change something is proposed to the user and ends the order.            *)
(*                                                                         *)
(* One month; money in units.  A booking is "new" for fifteen minutes,     *)
(* "old" for the rest of its hour, then "past".                            *)
(***************************************************************************)
EXTENDS Naturals, FiniteSets, FiniteSetsExt

CONSTANTS
  Users,        \* who may use the AI
  Desks,        \* threads that make calls
  Limit,        \* calls per user and hour
  Budget,       \* money per month
  Estimates,    \* what a call may be estimated at
  MaxRounds,    \* MAX_SCHRITTE: calls of one order
  MaxBookings       \* bound on rows of the table

NoDesk == "nobody"

\* A budget of 0 in the settings stands for the usual one.
ASSUME AiAssumption ==
  /\ Limit \in Nat /\ Budget \in Nat \ {0} /\ MaxBookings \in Nat /\ NoDesk \notin Desks
  /\ Estimates \subseteq Nat /\ Estimates # {} /\ IsFiniteSet(Estimates)

VARIABLES
  usage,        \* the table ai_usage
  bookingLock,  \* holder of _BUCHUNG_SPERRE
  desk,         \* the threads
  spent,        \* what the provider charged
  loose         \* a booking was lost sight of: too old, never settled, or too low

aiVars == <<usage, bookingLock, desk, spent, loose>>

Waiting == [pc |-> "idle", user |-> NoDesk, agent |-> FALSE, round |-> 0, row |-> 0, price |-> 0]

AiTypeOK ==
  /\ \A r \in usage : /\ r.id \in 1..MaxBookings /\ r.user \in Users /\ r.cent \in Nat
                      /\ r.status \in {"running", "done", "failed", "refused"}
                      /\ r.age \in {"new", "old", "past"}
  /\ bookingLock \in Desks \cup {NoDesk}
  /\ spent \in Nat

AiInit ==
  /\ usage = {}
  /\ bookingLock = NoDesk
  /\ desk = [t \in Desks |-> Waiting]
  /\ spent = 0
  /\ loose = FALSE

NextRow == Cardinality(usage) + 1
Booked(u, cent, status) ==
  usage' = usage \cup {[id |-> NextRow, user |-> u, est |-> cent, cent |-> cent,
                        status |-> status, age |-> "new"]}
At(t, d) == desk' = [desk EXCEPT ![t] = d]
Rebooked(i, cent, status) ==
  usage' = {IF r.id = i THEN [r EXCEPT !.cent = cent, !.status = status] ELSE r : r \in usage}

\* A bug: only settled calls count.
CountedSettled == {r \in usage : r.status # "running"}

\* verbrauch_monat_cent: calls under way count with their estimate, for fifteen minutes.
Counted == {r \in usage : r.status # "running" \/ r.age = "new"}
\* The sum of the rows' money, as so many units of each.
Units(rows) == UNION {{r.id} \X (1..r.cent) : r \in rows}
MonthSpend == Cardinality(Units(Counted))
\* aufrufe_seit: refused calls and calls under way count, too.
CallsInHour(u) == Cardinality({r \in usage : r.user = u /\ r.age # "past"})
Permitted(u) == CallsInHour(u) < Limit /\ MonthSpend < Budget

\* frage: the limits, and for an agent's first call the topic; a refusal is booked.
Ask(t, u, agent) ==
  /\ desk[t].pc = "idle" /\ NextRow <= MaxBookings
  /\ \/ /\ Permitted(u)
        /\ At(t, [Waiting EXCEPT !.pc = "check", !.user = u, !.agent = agent, !.round = 1])
        /\ UNCHANGED usage
     \/ /\ ~Permitted(u) \/ agent
        /\ Booked(u, 0, "refused")
        /\ UNCHANGED desk
  /\ UNCHANGED <<bookingLock, spent, loose>>

\* pruefe_und_reserviere: the limits once more and the booking, under the lock.
CheckUnlocked(t) ==
  /\ desk[t].pc = "check" /\ NextRow <= MaxBookings
  /\ IF Permitted(desk[t].user)
     THEN At(t, [desk[t] EXCEPT !.pc = "book"]) /\ bookingLock' = t /\ UNCHANGED usage
     ELSE /\ Booked(desk[t].user, 0, "refused")
          /\ At(t, Waiting)
          /\ UNCHANGED bookingLock
  /\ UNCHANGED <<spent, loose>>
Check(t) == bookingLock = NoDesk /\ CheckUnlocked(t)

\* A call that cannot be booked is not made.
Book(t) ==
  /\ desk[t].pc = "book" /\ NextRow <= MaxBookings
  /\ \/ \E e \in Estimates : /\ Booked(desk[t].user, e, "running")
                             /\ At(t, [desk[t] EXCEPT !.pc = "call", !.row = NextRow, !.price = e])
     \/ Booked(desk[t].user, 0, "refused") /\ At(t, Waiting)
  /\ bookingLock' = NoDesk
  /\ UNCHANGED <<spent, loose>>

\* The provider's price; the tools an agent's call carries are not in the estimate.
Answered(t) ==
  /\ desk[t].pc = "call"
  /\ \E price \in 0..(desk[t].price + IF desk[t].agent THEN 1 ELSE 0) :
       /\ spent' = spent + price
       /\ loose' = (loose \/ price > desk[t].price)
       /\ At(t, [desk[t] EXCEPT !.pc = "settle", !.price = price])
  /\ UNCHANGED <<usage, bookingLock>>

\* KiFehler: the booking is taken back.  Any other exception, or the end of the service,
\* leaves it "running".
CallFails(t) ==
  /\ desk[t].pc = "call"
  /\ Rebooked(desk[t].row, 0, "failed") \/ UNCHANGED usage
  /\ At(t, Waiting)
  /\ UNCHANGED <<bookingLock, spent, loose>>

Settled(t) == Rebooked(desk[t].row, desk[t].price, "done")

\* buche_ab: the real price; if it cannot be written the estimate stays, "running".
Settle(t) ==
  /\ desk[t].pc = "settle"
  /\ \/ Settled(t) /\ UNCHANGED loose
     \/ UNCHANGED usage /\ loose' = TRUE
  /\ At(t, IF desk[t].agent THEN [desk[t] EXCEPT !.pc = "turn"] ELSE Waiting)
  /\ UNCHANGED <<bookingLock, spent>>

\* beauftrage: an answer ends the order, so does a tool that changes something, which is
\* only shown; reading tools lead to the next call, up to MAX_SCHRITTE.
Turn(t) ==
  /\ desk[t].pc = "turn"
  /\ \/ At(t, Waiting)
     \/ /\ desk[t].round < MaxRounds
        /\ At(t, [desk[t] EXCEPT !.pc = "check", !.round = @ + 1, !.row = 0, !.price = 0])
  /\ UNCHANGED <<usage, bookingLock, spent, loose>>

\* pruefe_verbindung is booked, not limited.
CheckConnection(u) ==
  /\ NextRow <= MaxBookings
  /\ Booked(u, 0, "done")
  /\ UNCHANGED <<bookingLock, desk, spent, loose>>

\* Time passes for all bookings.
Older(a) == IF a = "new" THEN "old" ELSE "past"
TimePasses ==
  /\ \E r \in usage : r.age # "past"
  /\ usage' = {[r EXCEPT !.age = Older(r.age)] : r \in usage}
  /\ loose' = (loose \/ \E t \in Desks : desk[t].pc \in {"call", "settle"})
  /\ UNCHANGED <<bookingLock, desk, spent>>

\* raeume_haengende_auf
SweepStuck ==
  /\ \E r \in usage : r.status = "running" /\ r.age # "new"
  /\ usage' = {IF r.status = "running" /\ r.age # "new" THEN [r EXCEPT !.status = "failed", !.cent = 0]
               ELSE r : r \in usage}
  /\ UNCHANGED <<bookingLock, desk, spent, loose>>

AiNext ==
  \/ \E t \in Desks : \/ \E u \in Users, agent \in BOOLEAN : Ask(t, u, agent)
                      \/ Check(t) \/ Book(t) \/ Answered(t) \/ CallFails(t) \/ Settle(t) \/ Turn(t)
  \/ TimePasses \/ SweepStuck
  \/ \E u \in Users : CheckConnection(u)

AiSpec == AiInit /\ [][AiNext]_aiVars

---------------------------------------------------------------------------
(* Properties.                                                             *)

\* However many calls run at once, the month's money is overdrawn by less than one call -
\* as long as every call is settled within fifteen minutes and for no more than estimated.
BudgetHolds ==
  ~loose => spent < Budget + Max(Estimates)

\* No user makes more calls in an hour than he may, whatever runs at once.
HourHolds ==
  \A u \in Users : Cardinality({r \in usage : r.user = u /\ r.age # "past" /\ r.est > 0}) <= Limit

\* All limits hold together, which one table and one lock are to ensure.
LimitsHold == BudgetHolds /\ HourHolds

=============================================================================
