------------------------------ MODULE LobbyWait ------------------------------
(* Players who wait for a server that sleeps.  A player of the lobby hub    *)
(* (app/services/hub_service.py) chooses a server in the menu; the verdict  *)
(* about his transfer (lobby_service.py) wakes a sleeping server and says   *)
(* "not yet", and a loop of his session asks again until he can be sent.    *)
(* A player who connects directly is held by the sleep proxy                *)
(* (sleep_proxy_service.py, its bytes are LoginHold).  Both share one       *)
(* worker per server that starts it, and one place for its error.           *)
EXTENDS Naturals, FiniteSets

CONSTANTS
  Guests,     \* sessions of the hub
  Directs,    \* clients of the sleep proxy
  Targets,    \* servers
  Sleepers,   \* those with sleep_enabled
  Barred,     \* <<guest, target>>: banned there, or missing on its whitelist
  Misfits,    \* <<guest, target>>: the guest's client does not fit
  MaxRounds   \* _WAIT_MAX_ROUNDS

ASSUME LobbyAssumption ==
  /\ Sleepers \subseteq Targets /\ MaxRounds \in Nat \ {0}
  /\ Barred \subseteq Guests \X Targets /\ Misfits \subseteq Guests \X Targets
  /\ "none" \notin Targets

VARIABLES
  machine,    \* the server: "off", "starting" or "ready" (it accepts logins)
  crowded,    \* servers that are full
  wakers,     \* _WAKE_PENDING: a worker starts the server
  wakeErrors, \* _WAKE_ERRORS: why the last start failed
  present,    \* guests whose session is alive
  question,   \* pending_confirm: the question put to the guest, and its age
  agreed,     \* history: what a guest agreed to by a second choice in time
  waitingFor, \* session.waiting_for
  loops,      \* the waiting loops that run
  sent,       \* transfers a guest has been sent
  unchecked,  \* history: those that passed because the check itself failed
  held        \* what a direct client waits for, or how it ended

machineVars == <<machine, crowded>>
wakeVars    == <<wakers, wakeErrors>>
guestVars   == <<present, question, agreed, waitingFor, loops, sent, unchecked>>
lobbyVars   == <<machineVars, wakeVars, guestVars, held>>

NoTarget == "none"
Loop == [guest : Guests, target : Targets, override : BOOLEAN, run : 1..MaxRounds + 1]

LobbyTypeOK ==
  /\ machine \in [Targets -> {"off", "starting", "ready"}] /\ crowded \subseteq Targets
  /\ wakers \subseteq Targets /\ wakeErrors \subseteq Targets
  /\ present \subseteq Guests
  /\ question \in [Guests -> [Targets -> {"none", "open", "expired"}]]
  /\ agreed \subseteq Guests \X Targets
  /\ waitingFor \in [Guests -> Targets \cup {NoTarget}]
  /\ loops \subseteq Loop
  /\ sent \subseteq Guests \X Targets /\ unchecked \subseteq sent
  /\ held \in [Directs -> Targets \cup {"away", "through", "told"}]

LobbyInit ==
  /\ machine = [t \in Targets |-> "off"] /\ crowded = {}
  /\ wakers = {} /\ wakeErrors = {}
  /\ present = Guests
  /\ question = [g \in Guests |-> [t \in Targets |-> "none"]]
  /\ agreed = {}
  /\ waitingFor = [g \in Guests |-> NoTarget]
  /\ loops = {} /\ sent = {} /\ unchecked = {}
  /\ held = [d \in Directs |-> "away"]
-----------------------------------------------------------------------------
(* Waking                                                                  *)
Up(t) == machine[t] # "off"

\* request_wake: one worker at a time, and an older error is forgotten.
Wake(t) ==
  /\ wakers' = IF Up(t) THEN wakers ELSE wakers \cup {t}
  /\ wakeErrors' = IF Up(t) \/ t \in wakers THEN wakeErrors ELSE wakeErrors \ {t}

\* _wake_worker: start_server succeeds, finds a start under way, or fails.
WakeWorkerEnds(t) ==
  /\ t \in wakers
  /\ wakers' = wakers \ {t}
  /\ \/ /\ machine' = [machine EXCEPT ![t] = IF Up(t) THEN @ ELSE "starting"]
        /\ UNCHANGED wakeErrors
     \/ /\ ~Up(t) /\ wakeErrors' = wakeErrors \cup {t}
        /\ UNCHANGED machine
  /\ UNCHANGED <<crowded, guestVars, held>>

\* The server gets ready, fills, empties, and ends.
MachineMoves(t) ==
  /\ \/ /\ machine[t] = "starting" /\ machine' = [machine EXCEPT ![t] = "ready"]
        /\ UNCHANGED crowded
     \/ /\ Up(t) /\ machine' = [machine EXCEPT ![t] = "off"]
        /\ crowded' = crowded \ {t}
     \/ /\ machine[t] = "ready" /\ UNCHANGED machine
        /\ crowded' = IF t \in crowded THEN crowded \ {t} ELSE crowded \cup {t}
  /\ UNCHANGED <<wakeVars, guestVars, held>>
-----------------------------------------------------------------------------
(* The verdict                                                             *)

\* _hard_join_verdict: the reasons no consent overrides, in their order.
HardVerdict(g, t) ==
  IF ~Up(t) /\ t \notin Sleepers THEN "offline"
  ELSE IF <<g, t>> \in Barred THEN "barred"
  ELSE IF machine[t] # "ready" THEN "retry"
  ELSE IF t \in crowded THEN "full"
  ELSE "ok"

\* evaluate_join: only who passes may be asked whether he is sure.
Verdict(g, t, override) ==
  IF HardVerdict(g, t) = "ok" /\ <<g, t>> \in Misfits /\ ~override
  THEN "confirm" ELSE HardVerdict(g, t)

\* A verdict of "retry" about a sleeping server has asked for its wake.  A
\* check that fails itself lets the guest pass.
Judged(g, t, override, verdict) ==
  \/ /\ verdict = Verdict(g, t, override)
     /\ IF verdict = "retry" /\ ~Up(t) THEN Wake(t) ELSE UNCHANGED wakeVars
     /\ UNCHANGED unchecked
  \/ /\ verdict = "ok" /\ unchecked' = unchecked \cup {<<g, t>>} /\ UNCHANGED wakeVars
-----------------------------------------------------------------------------
(* The session of a guest                                                  *)

Busy(g) == waitingFor[g] # NoTarget

\* A new loop begins with its first question, unless one runs.
StartWait(g, t, override) ==
  IF Busy(g) THEN UNCHANGED <<waitingFor, loops>>
  ELSE /\ waitingFor' = [waitingFor EXCEPT ![g] = t]
       /\ loops' = loops \cup {[guest |-> g, target |-> t, override |-> override, run |-> 1]}

\* _try_transfer: a choice in the menu, or /server.
Choose(g, t) ==
  /\ g \in present
  /\ \E verdict \in {"ok", "retry", "confirm", "barred", "offline", "full"} :
       LET override == question[g][t] = "open"
       IN /\ Judged(g, t, override, verdict)
          /\ agreed' = IF override THEN agreed \cup {<<g, t>>} ELSE agreed
          /\ question' = [question EXCEPT ![g][t] = IF verdict = "confirm" THEN "open" ELSE "none"]
          /\ sent' = IF verdict = "ok" THEN sent \cup {<<g, t>>} ELSE sent
          /\ IF verdict = "retry" THEN StartWait(g, t, override)
                                  ELSE UNCHANGED <<waitingFor, loops>>
  /\ UNCHANGED <<machineVars, present, held>>

\* _CONFIRM_TTL passes.
QuestionExpires(g, t) ==
  /\ question[g][t] = "open"
  /\ question' = [question EXCEPT ![g][t] = "expired"]
  /\ UNCHANGED <<machineVars, wakeVars, present, agreed, waitingFor, loops, sent, unchecked, held>>

GuestLeaves(g) ==
  /\ g \in present /\ present' = present \ {g}
  /\ UNCHANGED <<machineVars, wakeVars, question, agreed, waitingFor, loops, sent, unchecked, held>>

\* Mutant of Consent: the waiting loop does not ask about the client.
ConsentForAll(loop) == TRUE

\* What the choice that started a loop says to the verdicts of the loop.
Consent(loop) == loop.override

\* Mutant of Released: the session is only freed when the guest was sent.
ReleasedIfSent(loop) ==
  IF <<loop.guest, loop.target>> \in sent' THEN [waitingFor EXCEPT ![loop.guest] = NoTarget]
  ELSE waitingFor

\* The end of a loop frees the session for its next choice.
Released(loop) ==
  IF waitingFor[loop.guest] = loop.target THEN [waitingFor EXCEPT ![loop.guest] = NoTarget]
  ELSE waitingFor

\* One round of _wait_loop; the last ends the loop after its pause.
LoopRound(loop) ==
  LET g == loop.guest
      End == loops' = loops \ {loop} /\ waitingFor' = Released(loop)
  IN /\ loop \in loops
     /\ \/ /\ loop.run > MaxRounds \/ g \notin present
           /\ UNCHANGED <<wakeVars, sent, unchecked>> /\ End
        \/ /\ loop.run <= MaxRounds /\ g \in present
           /\ \E verdict \in {"ok", "retry", "confirm", "barred", "offline", "full"} :
                /\ Judged(g, loop.target, Consent(loop), verdict)
                /\ sent' = IF verdict = "ok" THEN sent \cup {<<g, loop.target>>} ELSE sent
                /\ IF verdict = "retry"
                   THEN /\ loops' = (loops \ {loop}) \cup {[loop EXCEPT !.run = @ + 1]}
                        /\ UNCHANGED waitingFor
                   ELSE End
     /\ UNCHANGED <<machineVars, present, question, agreed, held>>
-----------------------------------------------------------------------------
(* A direct client: request_wake once, then it waits.                      *)
DirectArrives(d, t) ==
  /\ held[d] = "away" /\ t \in Sleepers
  /\ Wake(t)
  /\ held' = [held EXCEPT ![d] = t]
  /\ UNCHANGED <<machineVars, guestVars>>

Waits(d) == held[d] \in Targets

\* One round of _wake_server's loop: the server is ready, or _take_wake_error.
DirectRound(d) ==
  /\ Waits(d)
  /\ LET t == held[d]
     IN \/ /\ machine[t] = "ready"
           /\ held' = [held EXCEPT ![d] = "through"] /\ UNCHANGED wakeErrors
        \/ /\ machine[t] # "ready" /\ t \in wakeErrors
           /\ held' = [held EXCEPT ![d] = "told"] /\ wakeErrors' = wakeErrors \ {t}
  /\ UNCHANGED <<machineVars, wakers, guestVars>>

\* Its budget is used up, or the player gives up.
DirectGivesUp(d) ==
  /\ Waits(d)
  /\ held' = [held EXCEPT ![d] = "told"]
  /\ UNCHANGED <<machineVars, wakeVars, guestVars>>
-----------------------------------------------------------------------------
LobbyNext ==
  \/ \E t \in Targets : WakeWorkerEnds(t) \/ MachineMoves(t)
  \/ \E g \in Guests : \E t \in Targets : Choose(g, t) \/ QuestionExpires(g, t)
  \/ \E g \in Guests : GuestLeaves(g)
  \/ \E loop \in loops : LoopRound(loop)
  \/ \E d \in Directs : \E t \in Targets : DirectArrives(d, t)
  \/ \E d \in Directs : DirectRound(d) \/ DirectGivesUp(d)

\* The loops of the sessions run.
LobbyFairness == \A g \in Guests : WF_lobbyVars(\E loop \in loops : loop.guest = g /\ LoopRound(loop))

LobbySpec == LobbyInit /\ [][LobbyNext]_lobbyVars /\ LobbyFairness
-----------------------------------------------------------------------------
(* However often a guest chooses and whoever wakes what: he has at most one *)
(* waiting loop, and the session is taken exactly while it runs.            *)
OneLoopPerGuest ==
  \A g \in Guests :
    LET mine == {loop \in loops : loop.guest = g}
    IN /\ Cardinality(mine) <= 1
       /\ {loop.target : loop \in mine} = {waitingFor[g]} \ {NoTarget}

(* Nobody is sent to a server his client does not fit unless he was asked   *)
(* about that very server and chose it again in time; a loop that waits for *)
(* minutes does not stand in for his answer.                                *)
SentOnlyByConsent == sent \cap Misfits \subseteq agreed \cup unchecked

(* A guest's waiting is his own: one loop, and no server he did not agree to. *)
GuestsDecide == OneLoopPerGuest /\ SentOnlyByConsent

(* Every waiting loop ends and frees its session, whatever the server does, *)
(* whoever leaves, and however verdicts change meanwhile.                   *)
WaitsEnd == \A g \in Guests : Busy(g) ~> ~Busy(g)

(* "die Warteschleife holt ihn hier ab und sagt dem Spieler sofort          *)
(* Bescheid, statt das ganze Zeitbudget abzuwarten" (_WAKE_ERRORS in        *)
(* sleep_proxy_service.py): a client waits only while a start is under way, *)
(* the server runs, or an error is there for it.  There is one error per    *)
(* server: the first who takes it, or a new wake, leaves the others none.   *)
WaitersHaveHope ==
  \A d \in Directs : Waits(d) => Up(held[d]) \/ held[d] \in wakers \/ held[d] \in wakeErrors
=============================================================================
