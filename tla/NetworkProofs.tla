----------------------------- MODULE NetworkProofs -----------------------------
(* The parts of the network one by one: the waiting loops of the lobby, the *)
(* presence bus, the way a client takes through the doors, and the lists of *)
(* who may do what; for any players, servers, connections and rounds.       *)
EXTENDS LobbyWait, PresenceBus, Entrance, AccessLists, FiniteSetTheorems, TLAPS
-----------------------------------------------------------------------------
(* The waiting loops of the lobby                                          *)

\* The loop of a guest is the only one he has.
Alone == \A l, k \in loops : l.guest = k.guest => l = k

\* The session is taken by the loop that runs, and by nothing else.
Taken ==
  /\ \A l \in loops : waitingFor[l.guest] = l.target
  /\ \A g \in Guests : Busy(g) => \E l \in loops : l.guest = g

\* A loop that overrides was begun by a guest who agreed.
AgreedBefore == \A l \in loops : l.override => <<l.guest, l.target>> \in agreed

LobbyInv == LobbyTypeOK /\ Alone /\ Taken /\ AgreedBefore /\ SentOnlyByConsent
-----------------------------------------------------------------------------
LEMMA TargetFacts == NoTarget \notin Targets /\ MaxRounds \in Nat \ {0}
  BY LobbyAssumption DEF NoTarget

LEMMA LoopFacts ==
  ASSUME NEW l \in Loop
  PROVE  /\ l.guest \in Guests /\ l.target \in Targets /\ l.override \in BOOLEAN /\ l.run \in 1..MaxRounds + 1
         /\ l.run <= MaxRounds => [l EXCEPT !.run = @ + 1] \in Loop
  BY TargetFacts DEF Loop

LEMMA LobbyInitInv == LobbyInit => LobbyInv
  BY TargetFacts DEF LobbyInit, LobbyInv, LobbyTypeOK, Alone, Taken, Busy, AgreedBefore, SentOnlyByConsent, Loop

\* Who waits and who is sent depends on nothing else.
LEMMA SessionsKeep ==
  ASSUME LobbyInv, LobbyTypeOK', UNCHANGED <<waitingFor, loops, sent>>, agreed \subseteq agreed', unchecked \subseteq unchecked'
  PROVE  LobbyInv'
  BY DEF LobbyInv, Alone, Taken, Busy, AgreedBefore, SentOnlyByConsent

LEMMA WakeTypes ==
  ASSUME LobbyTypeOK, NEW t \in Targets, Wake(t) \/ UNCHANGED wakeVars
  PROVE  wakers' \subseteq Targets /\ wakeErrors' \subseteq Targets
  BY DEF LobbyTypeOK, Wake, wakeVars

\* A verdict that lets a guest pass to a server that does not fit him had his consent, or was
\* none at all.
LEMMA JudgedFacts ==
  ASSUME LobbyTypeOK, NEW g \in Guests, NEW t \in Targets, NEW override \in BOOLEAN, NEW verdict,
         Judged(g, t, override, verdict)
  PROVE  /\ wakers' \subseteq Targets /\ wakeErrors' \subseteq Targets
         /\ unchecked \subseteq unchecked' /\ unchecked' \subseteq unchecked \cup {<<g, t>>}
         /\ verdict # "ok" => unchecked' = unchecked
         /\ verdict = "ok" /\ <<g, t>> \in Misfits /\ ~override => <<g, t>> \in unchecked'
  <1>1. CASE verdict = Verdict(g, t, override) /\ (IF verdict = "retry" /\ ~Up(t) THEN Wake(t) ELSE UNCHANGED wakeVars)
             /\ UNCHANGED unchecked
    <2>1. Wake(t) \/ UNCHANGED wakeVars
      BY <1>1
    <2>2. verdict = "ok" => ~(<<g, t>> \in Misfits /\ ~override)
      BY <1>1 DEF Verdict
    <2> QED
      BY <1>1, <2>1, <2>2, WakeTypes
  <1>2. CASE verdict = "ok" /\ unchecked' = unchecked \cup {<<g, t>>} /\ UNCHANGED wakeVars
    BY <1>2, WakeTypes
  <1> QED
    BY <1>1, <1>2 DEF Judged
-----------------------------------------------------------------------------
LEMMA ChooseInv ==
  ASSUME LobbyInv, NEW g \in Guests, NEW t \in Targets, Choose(g, t)
  PROVE  LobbyInv'
  <1> DEFINE override == question[g][t] = "open"
  <1>1. PICK verdict \in {"ok", "retry", "confirm", "barred", "offline", "full"} :
          /\ Judged(g, t, override, verdict)
          /\ agreed' = IF override THEN agreed \cup {<<g, t>>} ELSE agreed
          /\ question' = [question EXCEPT ![g][t] = IF verdict = "confirm" THEN "open" ELSE "none"]
          /\ sent' = IF verdict = "ok" THEN sent \cup {<<g, t>>} ELSE sent
          /\ IF verdict = "retry" THEN StartWait(g, t, override) ELSE UNCHANGED <<waitingFor, loops>>
    BY DEF Choose
  <1>2. override \in BOOLEAN /\ UNCHANGED <<machineVars, present, held>>
    BY DEF Choose
  <1> HIDE DEF override
  <1>3. /\ wakers' \subseteq Targets /\ wakeErrors' \subseteq Targets
        /\ unchecked \subseteq unchecked' /\ unchecked' \subseteq unchecked \cup {<<g, t>>}
        /\ verdict # "ok" => unchecked' = unchecked
        /\ verdict = "ok" /\ <<g, t>> \in Misfits /\ ~override => <<g, t>> \in unchecked'
    BY <1>1, <1>2, JudgedFacts DEF LobbyInv
  <1>4. agreed \subseteq agreed' /\ (override => <<g, t>> \in agreed')
    BY <1>1
  <1>5. SentOnlyByConsent'
    BY <1>1, <1>3, <1>4 DEF LobbyInv, SentOnlyByConsent
  <1>6. /\ agreed' \subseteq Guests \X Targets
        /\ sent' \subseteq Guests \X Targets /\ unchecked' \subseteq sent'
        /\ question' \in [Guests -> [Targets -> {"none", "open", "expired"}]]
        /\ machine' \in [Targets -> {"off", "starting", "ready"}] /\ crowded' \subseteq Targets
        /\ present' \subseteq Guests
        /\ held' \in [Directs -> Targets \cup {"away", "through", "told"}]
    BY <1>1, <1>2, <1>3 DEF LobbyInv, LobbyTypeOK, machineVars
  <1>7. CASE verdict = "retry" /\ ~Busy(g)
    <2> DEFINE new == [guest |-> g, target |-> t, override |-> override, run |-> 1]
    <2>1. waitingFor' = [waitingFor EXCEPT ![g] = t] /\ loops' = loops \cup {new}
      BY <1>1, <1>7 DEF StartWait
    <2>2. new \in Loop /\ new.guest = g /\ new.target = t /\ new.override = override
      BY <1>2, TargetFacts DEF Loop
    <2> HIDE DEF new
    <2>3. ASSUME NEW l \in loops PROVE l.guest # g /\ l.guest \in Guests
      <3>1. l \in Loop
        BY DEF LobbyInv, LobbyTypeOK
      <3>2. l.guest \in Guests /\ l.target # NoTarget
        BY <3>1, LoopFacts, TargetFacts
      <3>3. waitingFor[l.guest] = l.target /\ waitingFor[g] = NoTarget
        BY <1>7 DEF LobbyInv, Taken, Busy
      <3> QED
        BY <3>2, <3>3
    <2>4. LobbyTypeOK'
      BY <1>3, <1>6, <2>1, <2>2 DEF LobbyInv, LobbyTypeOK
    <2>5. Alone'
      BY <2>1, <2>2, <2>3 DEF LobbyInv, Alone
    <2>6. Taken'
      BY <2>1, <2>2, <2>3 DEF LobbyInv, LobbyTypeOK, Taken, Busy
    <2>7. AgreedBefore'
      BY <1>4, <2>1, <2>2 DEF LobbyInv, AgreedBefore
    <2> QED
      BY <1>5, <2>4, <2>5, <2>6, <2>7 DEF LobbyInv
  <1>8. CASE ~(verdict = "retry" /\ ~Busy(g))
    <2>1. UNCHANGED <<waitingFor, loops>>
      BY <1>1, <1>8 DEF StartWait
    <2>2. LobbyTypeOK'
      BY <1>3, <1>6, <2>1 DEF LobbyInv, LobbyTypeOK
    <2> QED
      BY <1>4, <1>5, <2>1, <2>2 DEF LobbyInv, Alone, Taken, Busy, AgreedBefore
  <1> QED
    BY <1>7, <1>8

LEMMA RoundInv ==
  ASSUME LobbyInv, NEW loop \in loops, LoopRound(loop)
  PROVE  LobbyInv'
  <1> DEFINE g == loop.guest
             t == loop.target
             End == loops' = loops \ {loop} /\ waitingFor' = Released(loop)
  <1>1. /\ loop \in Loop /\ g \in Guests /\ t \in Targets /\ loop.override \in BOOLEAN
        /\ waitingFor[g] = t /\ \A l \in loops : l.guest = g => l = loop
    BY LoopFacts DEF LobbyInv, LobbyTypeOK, Alone, Taken
  <1>2. UNCHANGED <<machineVars, present, question, agreed, held>>
    BY DEF LoopRound
  \* The session is free again, and no loop of this guest is left.
  <1>3. ASSUME End, UNCHANGED agreed
        PROVE  /\ Alone' /\ Taken' /\ AgreedBefore'
               /\ loops' \subseteq Loop /\ waitingFor' \in [Guests -> Targets \cup {NoTarget}]
    <2>1. waitingFor' = [waitingFor EXCEPT ![g] = NoTarget] /\ loops' = loops \ {loop}
      BY <1>1, <1>3 DEF Released
    <2>2. \A l \in loops' : l \in loops /\ l.guest # g /\ l.guest \in Guests
      BY <1>1, <2>1, LoopFacts DEF LobbyInv, LobbyTypeOK
    <2>3. Taken'
      BY <1>1, <2>1, <2>2 DEF LobbyInv, LobbyTypeOK, Taken, Busy
    <2> QED
      BY <1>3, <2>1, <2>2, <2>3 DEF LobbyInv, LobbyTypeOK, Alone, AgreedBefore
  <1>4. CASE (loop.run > MaxRounds \/ g \notin present) /\ UNCHANGED <<wakeVars, sent, unchecked>> /\ End
    <2>1. LobbyTypeOK'
      BY <1>2, <1>3, <1>4 DEF LobbyInv, LobbyTypeOK, machineVars, wakeVars
    <2>2. SentOnlyByConsent'
      BY <1>2, <1>4 DEF LobbyInv, SentOnlyByConsent
    <2> QED
      BY <1>2, <1>3, <1>4, <2>1, <2>2 DEF LobbyInv
  <1>5. CASE /\ loop.run <= MaxRounds /\ g \in present
             /\ \E verdict \in {"ok", "retry", "confirm", "barred", "offline", "full"} :
                  /\ Judged(g, t, Consent(loop), verdict)
                  /\ sent' = IF verdict = "ok" THEN sent \cup {<<g, t>>} ELSE sent
                  /\ IF verdict = "retry"
                     THEN loops' = (loops \ {loop}) \cup {[loop EXCEPT !.run = @ + 1]} /\ UNCHANGED waitingFor
                     ELSE End
    <2>1. PICK verdict \in {"ok", "retry", "confirm", "barred", "offline", "full"} :
            /\ Judged(g, t, loop.override, verdict)
            /\ sent' = IF verdict = "ok" THEN sent \cup {<<g, t>>} ELSE sent
            /\ IF verdict = "retry"
               THEN loops' = (loops \ {loop}) \cup {[loop EXCEPT !.run = @ + 1]} /\ UNCHANGED waitingFor
               ELSE End
      BY <1>5 DEF Consent
    <2>2. /\ wakers' \subseteq Targets /\ wakeErrors' \subseteq Targets
          /\ unchecked \subseteq unchecked' /\ unchecked' \subseteq unchecked \cup {<<g, t>>}
          /\ verdict # "ok" => unchecked' = unchecked
          /\ verdict = "ok" /\ <<g, t>> \in Misfits /\ ~loop.override => <<g, t>> \in unchecked'
      BY <1>1, <2>1, JudgedFacts DEF LobbyInv
    <2>3. loop.override => <<g, t>> \in agreed
      BY DEF LobbyInv, AgreedBefore
    <2>4. SentOnlyByConsent'
      BY <1>2, <2>1, <2>2, <2>3 DEF LobbyInv, SentOnlyByConsent
    <2>5. Alone' /\ Taken' /\ AgreedBefore' /\ loops' \subseteq Loop
          /\ waitingFor' \in [Guests -> Targets \cup {NoTarget}]
      <3>1. CASE verdict # "retry"
        BY <1>2, <1>3, <2>1, <3>1
      <3>2. CASE verdict = "retry"
        <4> DEFINE next == [loop EXCEPT !.run = @ + 1]
        <4>1. /\ next \in Loop /\ next.guest = g /\ next.target = t /\ next.override = loop.override
              /\ loops' = (loops \ {loop}) \cup {next} /\ waitingFor' = waitingFor
          BY <1>1, <1>5, <2>1, <3>2, LoopFacts DEF Loop
        <4> HIDE DEF next
        <4>2. Alone' /\ AgreedBefore' /\ loops' \subseteq Loop
          BY <1>1, <1>2, <2>3, <4>1 DEF LobbyInv, LobbyTypeOK, Alone, AgreedBefore
        <4>3. \A h \in Guests : Busy(h) => \E l \in loops' : l.guest = h
          BY <1>1, <4>1 DEF LobbyInv, Taken
        <4>4. Taken'
          BY <1>1, <4>1, <4>3 DEF LobbyInv, Taken, Busy
        <4> QED
          BY <4>1, <4>2, <4>4 DEF LobbyInv, LobbyTypeOK
      <3> QED
        BY <3>1, <3>2
    <2>6. LobbyTypeOK'
      BY <1>1, <1>2, <2>1, <2>2, <2>5 DEF LobbyInv, LobbyTypeOK, machineVars
    <2> QED
      BY <2>4, <2>5, <2>6 DEF LobbyInv
  <1> QED
    BY <1>4, <1>5 DEF LoopRound

LEMMA LobbyNextInv == LobbyInv /\ [LobbyNext]_lobbyVars => LobbyInv'
  <1> SUFFICES ASSUME LobbyInv, [LobbyNext]_lobbyVars PROVE LobbyInv'
    OBVIOUS
  <1> USE DEF machineVars, wakeVars, guestVars
  <1>1. ASSUME NEW t \in Targets, WakeWorkerEnds(t) PROVE LobbyInv'
    <2>1. LobbyTypeOK'
      BY <1>1 DEF WakeWorkerEnds, LobbyInv, LobbyTypeOK
    <2> QED
      BY <1>1, <2>1, SessionsKeep DEF WakeWorkerEnds
  <1>2. ASSUME NEW t \in Targets, MachineMoves(t) PROVE LobbyInv'
    <2>1. LobbyTypeOK'
      BY <1>2 DEF MachineMoves, LobbyInv, LobbyTypeOK
    <2> QED
      BY <1>2, <2>1, SessionsKeep DEF MachineMoves
  <1>3. ASSUME NEW g \in Guests, NEW t \in Targets, QuestionExpires(g, t) PROVE LobbyInv'
    <2>1. LobbyTypeOK'
      BY <1>3 DEF QuestionExpires, LobbyInv, LobbyTypeOK
    <2> QED
      BY <1>3, <2>1, SessionsKeep DEF QuestionExpires
  <1>4. ASSUME NEW g \in Guests, GuestLeaves(g) PROVE LobbyInv'
    <2>1. LobbyTypeOK'
      BY <1>4 DEF GuestLeaves, LobbyInv, LobbyTypeOK
    <2> QED
      BY <1>4, <2>1, SessionsKeep DEF GuestLeaves
  <1>5. ASSUME NEW d \in Directs, NEW t \in Targets, DirectArrives(d, t) PROVE LobbyInv'
    <2>1. LobbyTypeOK'
      BY <1>5, WakeTypes DEF DirectArrives, LobbyInv, LobbyTypeOK
    <2> QED
      BY <1>5, <2>1, SessionsKeep DEF DirectArrives
  <1>6. ASSUME NEW d \in Directs, DirectRound(d) \/ DirectGivesUp(d) PROVE LobbyInv'
    <2>1. LobbyTypeOK'
      BY <1>6 DEF DirectRound, DirectGivesUp, LobbyInv, LobbyTypeOK
    <2> QED
      BY <1>6, <2>1, SessionsKeep DEF DirectRound, DirectGivesUp
  <1>7. CASE UNCHANGED lobbyVars
    BY <1>7 DEF lobbyVars, LobbyInv, LobbyTypeOK, Alone, Taken, Busy, AgreedBefore, SentOnlyByConsent
  <1> QED
    BY <1>1, <1>2, <1>3, <1>4, <1>5, <1>6, <1>7, ChooseInv, RoundInv DEF LobbyNext

\* One loop at most, and the session is taken exactly while it runs.
LEMMA OneLoop == LobbyInv => OneLoopPerGuest
  <1> SUFFICES ASSUME LobbyInv, NEW g \in Guests
               PROVE  /\ Cardinality({l \in loops : l.guest = g}) <= 1
                      /\ {l.target : l \in {k \in loops : k.guest = g}} = {waitingFor[g]} \ {NoTarget}
    BY DEF OneLoopPerGuest
  <1> DEFINE mine == {l \in loops : l.guest = g}
  <1>1. CASE mine = {}
    <2>1. Cardinality(mine) = 0
      BY <1>1, FS_EmptySet
    <2>2. waitingFor[g] = NoTarget
      BY <1>1 DEF LobbyInv, Taken, Busy
    <2> QED
      BY <1>1, <2>1, <2>2
  <1>2. CASE mine # {}
    <2>1. PICK l \in loops : l.guest = g
      BY <1>2
    <2>2. mine = {l}
      BY <2>1 DEF LobbyInv, Alone
    <2>3. Cardinality({l}) = 1
      BY FS_Singleton
    <2>4. waitingFor[g] = l.target /\ l.target # NoTarget
      BY <2>1, LoopFacts, TargetFacts DEF LobbyInv, LobbyTypeOK, Taken
    <2> QED
      BY <2>2, <2>3, <2>4
  <1> QED
    BY <1>1, <1>2
-----------------------------------------------------------------------------
LEMMA InvariantOfLobby == LobbySpec => []LobbyInv
  BY LobbyInitInv, LobbyNextInv, PTL DEF LobbySpec

\* Sessions, questions, loops and waiting clients keep their types; a loop never passes
\* _WAIT_MAX_ROUNDS (hub_service.py).
THEOREM LobbyTypesHold == LobbySpec => []LobbyTypeOK
  <1>1. LobbyInv => LobbyTypeOK
    BY DEF LobbyInv
  <1> QED
    BY <1>1, InvariantOfLobby, PTL

\* Whatever is chosen, woken, cancelled and judged anew meanwhile: a guest has one waiting loop
\* at most, the session knows it, and he is sent to a server that does not fit his client only
\* after he agreed to that server, or when the check itself failed (hub_service.py).
THEOREM GuestsAlwaysDecide == LobbySpec => []GuestsDecide
  <1>1. LobbyInv => GuestsDecide
    BY OneLoop DEF LobbyInv, GuestsDecide
  <1> QED
    BY <1>1, InvariantOfLobby, PTL

-----------------------------------------------------------------------------
(* The presence bus                                                        *)

\* What a thread still puts on the bus is the hub's, or published by its connection.
Published ==
  /\ \A c \in Links : telling[c].act = "up" => telling[c].todo \subseteq published[c]
  /\ \A t \in Threads \ Links : telling[t].act = "up" => telling[t].todo \subseteq HubPlayers

PresenceInv == PresenceTypeOK /\ Published /\ PaperPresencesAreOwned
-----------------------------------------------------------------------------
LEMMA ThreadFacts ==
  /\ HubPlayers \subseteq Threads \ Links /\ Links \subseteq Threads
  /\ {"keepalive", "attach", "monitor"} \subseteq Threads \ Links
  /\ HubPlayers \cap PaperPlayers = {} /\ Nobody \notin Uuids \cup Links /\ "hub" \notin Links
  BY PresenceAssumption DEF Threads, Uuids, Nobody

LEMMA RestingFacts == Resting \in Doing /\ Resting.act = "none" /\ Resting.todo = {}
  BY DEF Resting, Doing

LEMMA StartFacts ==
  ASSUME NEW act \in {"up", "rm", "swept", "subscribed", "show"}, NEW who \in SUBSET Uuids
  PROVE  Start(act, who) \in Doing /\ Start(act, who).act = act /\ Start(act, who).todo = who
  BY DEF Start, Resting, Doing

\* A thread at rest has told everyone of everything it had to do.
LEMMA RestedFacts ==
  ASSUME NEW d \in Doing
  PROVE  /\ Rested(d) \in Doing /\ Rested(d).todo = d.todo
         /\ Rested(d).act \in {d.act, "none"} /\ (d.todo # {} => Rested(d).act = d.act)
  <1> DEFINE told == IF d.to = {} THEN [d EXCEPT !.event = "none", !.who = Nobody] ELSE d
  <1>1. told \in Doing /\ told.todo = d.todo /\ told.act = d.act
    BY DEF Doing
  <1>2. Rested(d) = IF told.todo = {} /\ told.event = "none" /\ told.act # "subscribed" THEN Resting ELSE told
    BY DEF Rested
  <1> QED
    BY <1>1, <1>2, RestingFacts

LEMMA PassedFacts ==
  ASSUME PresenceTypeOK, NEW t \in Threads, NEW u \in Uuids, NEW kind \in {"up", "rm"}, NEW d \in {Passed(t, u), Event(t, u, kind)}
  PROVE  /\ d \in Doing /\ d.todo = telling[t].todo \ {u} /\ d.act \in {telling[t].act, "none"}
         /\ telling[t].todo \ {u} # {} => d.act = telling[t].act
  <1>1. telling[t] \in Doing /\ subs \subseteq Consumers
    BY DEF PresenceTypeOK
  <1>2. [telling[t] EXCEPT !.todo = @ \ {u}] \in Doing
        /\ [telling[t] EXCEPT !.todo = @ \ {u}, !.event = kind, !.who = u, !.to = subs] \in Doing
    BY <1>1 DEF Doing
  <1>3. [telling[t] EXCEPT !.todo = @ \ {u}].todo = telling[t].todo \ {u}
        /\ [telling[t] EXCEPT !.todo = @ \ {u}].act = telling[t].act
        /\ [telling[t] EXCEPT !.todo = @ \ {u}, !.event = kind, !.who = u, !.to = subs].todo = telling[t].todo \ {u}
        /\ [telling[t] EXCEPT !.todo = @ \ {u}, !.event = kind, !.who = u, !.to = subs].act = telling[t].act
    BY <1>1 DEF Doing
  <1> QED
    BY <1>2, <1>3, RestedFacts DEF Passed, Event

\* A thread goes on: what it puts on the bus is published, and whom it was to take off is
\* off, or still to be taken off.
LEMMA MovesOn ==
  ASSUME PresenceInv, NEW t \in Threads, NEW d \in Doing, telling' = [telling EXCEPT ![t] = d],
         \A c \in Links : published[c] \subseteq published'[c],
         d.act = "up" => d.todo \subseteq (IF t \in Links THEN published'[t] ELSE HubPlayers),
         \A p \in PaperPlayers \cap OnBus' :
           \/ \E c \in Links : p \in published'[c]
           \/ p \in OnBus /\ (t \in Links /\ telling[t].act = "rm" /\ p \in telling[t].todo => d.act = "rm" /\ p \in d.todo)
  PROVE  telling' \in [Threads -> Doing] /\ Published' /\ PaperPresencesAreOwned'
  <1>1. telling \in [Threads -> Doing]
    BY DEF PresenceInv, PresenceTypeOK
  <1>2. telling' \in [Threads -> Doing] /\ telling'[t] = d /\ \A s \in Threads : s # t => telling'[s] = telling[s]
    BY <1>1
  <1>3. Published'
    BY <1>2, ThreadFacts DEF PresenceInv, Published
  <1>4. PaperPresencesAreOwned'
    <2> SUFFICES ASSUME NEW p \in PaperPlayers \cap OnBus'
                 PROVE  \E c \in Links : p \in published'[c] \/ (telling'[c].act = "rm" /\ p \in telling'[c].todo)
      BY DEF PaperPresencesAreOwned
    <2>1. CASE \E c \in Links : p \in published'[c]
      BY <2>1
    <2>2. CASE p \in OnBus /\ (t \in Links /\ telling[t].act = "rm" /\ p \in telling[t].todo => d.act = "rm" /\ p \in d.todo)
      <3>1. PICK c \in Links : p \in published[c] \/ (telling[c].act = "rm" /\ p \in telling[c].todo)
        BY <2>2 DEF PresenceInv, PaperPresencesAreOwned
      <3> QED
        BY <1>2, <2>2, <3>1, ThreadFacts
    <2> QED
      BY <2>1, <2>2
  <1> QED
    BY <1>2, <1>3, <1>4

LEMMA AtBusInv ==
  ASSUME PresenceInv, NEW t \in Threads, AtBus(t)
  PROVE  PresenceInv'
  <1>1. PresenceTypeOK /\ Published
    BY DEF PresenceInv
  <1>2. /\ UNCHANGED <<enabled, session, paper, link, inbox, handler, published, subs>>
    BY DEF AtBus, hubVars, paperVars, linkVars
  <1>3. PICK u \in telling[t].todo :
       \/ telling[t].act = "up" /\ Upsert(t, u) /\ UNCHANGED avatars
       \/ telling[t].act = "rm" /\ Remove(t, u) /\ UNCHANGED avatars
       \/ /\ telling[t].act = "swept"
          /\ telling' = [telling EXCEPT ![t] = Event(t, u, "rm")]
          /\ UNCHANGED <<presences, avatars>>
       \/ /\ telling[t].act = "show"
          /\ avatars' = [avatars EXCEPT ![IF t = "attach" THEN "hub" ELSE t] = @ \cup {u}]
          /\ telling' = [telling EXCEPT ![t] = Passed(t, u)]
          /\ UNCHANGED presences
    BY DEF AtBus
  <1>4. telling[t] \in Doing /\ u \in Uuids
    BY <1>1 DEF PresenceTypeOK, Doing
  <1>5. avatars' \in [Consumers -> SUBSET Uuids]
    BY <1>1, <1>3, <1>4 DEF PresenceTypeOK
  <1>6. CASE telling[t].act = "up" /\ Upsert(t, u)
    <2>1. (t \in Links => u \in published[t]) /\ (t \notin Links => u \in HubPlayers)
      BY <1>1, <1>6 DEF Published
    <2>2. Source(t) \in {"hub"} \cup Links
      BY DEF Source
    <2>3. CASE UNCHANGED presences /\ telling' = [telling EXCEPT ![t] = Passed(t, u)]
      <3>1. /\ Passed(t, u) \in Doing /\ Passed(t, u).todo = telling[t].todo \ {u} /\ Passed(t, u).act \in {telling[t].act, "none"}
        BY <1>1, <1>4, PassedFacts
      <3>2. OnBus' = OnBus
        BY <2>3 DEF OnBus
      <3>3. telling' \in [Threads -> Doing] /\ Published' /\ PaperPresencesAreOwned'
        BY <1>1, <1>2, <1>6, <2>3, <3>1, <3>2, MovesOn DEF Published
      <3> QED
        BY <1>1, <1>2, <1>5, <2>3, <3>2, <3>3 DEF PresenceInv, PresenceTypeOK
    <2>4. CASE /\ presences' = [v \in OnBus \cup {u} |-> IF v = u THEN [from |-> Source(t), fresh |-> TRUE] ELSE presences[v]]
               /\ telling' = [telling EXCEPT ![t] = Event(t, u, "up")]
      <3>1. /\ Event(t, u, "up") \in Doing /\ Event(t, u, "up").todo = telling[t].todo \ {u} /\ Event(t, u, "up").act \in {telling[t].act, "none"}
        BY <1>1, <1>4, PassedFacts
      <3>2. OnBus' = OnBus \cup {u} /\ \A v \in OnBus' : presences'[v] \in [from : {"hub"} \cup Links, fresh : BOOLEAN]
        BY <1>1, <2>2, <2>4 DEF PresenceTypeOK, OnBus
      <3>3. \A p \in PaperPlayers \cap OnBus' : p \in OnBus \/ (t \in Links /\ p \in published[t])
        BY <2>1, <3>2, ThreadFacts
      <3>4. telling' \in [Threads -> Doing] /\ Published' /\ PaperPresencesAreOwned'
        BY <1>1, <1>2, <1>6, <2>4, <3>1, <3>3, MovesOn DEF Published
      <3> QED
        BY <1>1, <1>2, <1>4, <1>5, <3>2, <3>4 DEF PresenceInv, PresenceTypeOK
    <2> QED
      BY <1>6, <2>3, <2>4 DEF Upsert
  <1>7. CASE telling[t].act = "rm" /\ Remove(t, u)
    <2>1. PICK d \in {Passed(t, u), Event(t, u, "rm")} : telling' = [telling EXCEPT ![t] = d]
      BY <1>7 DEF Remove
    <2>2. d \in Doing /\ d.todo = telling[t].todo \ {u} /\ (telling[t].todo \ {u} # {} => d.act = telling[t].act)
          /\ d.act # "up"
      BY <1>1, <1>4, <1>7, PassedFacts
    <2>3. presences' = [v \in OnBus \ {u} |-> presences[v]]
      BY <1>7 DEF Remove, Restrict
    <2>4. OnBus' = OnBus \ {u} /\ \A v \in OnBus' : presences'[v] = presences[v]
      BY <2>3 DEF OnBus
    <2>5. telling' \in [Threads -> Doing] /\ Published' /\ PaperPresencesAreOwned'
      BY <1>2, <1>7, <2>1, <2>2, <2>4, MovesOn
    <2> QED
      BY <1>1, <1>2, <1>5, <2>4, <2>5 DEF PresenceInv, PresenceTypeOK
  <1>8. CASE UNCHANGED presences /\ telling[t].act \in {"swept", "show"}
             /\ telling' \in {[telling EXCEPT ![t] = Event(t, u, "rm")], [telling EXCEPT ![t] = Passed(t, u)]}
    <2>1. PICK d \in {Passed(t, u), Event(t, u, "rm")} : telling' = [telling EXCEPT ![t] = d]
      BY <1>8
    <2>2. d \in Doing /\ d.act # "up"
      BY <1>1, <1>4, <1>8, PassedFacts
    <2>3. OnBus' = OnBus
      BY <1>8 DEF OnBus
    <2>5. telling' \in [Threads -> Doing] /\ Published' /\ PaperPresencesAreOwned'
      BY <1>2, <1>8, <2>1, <2>2, <2>3, MovesOn
    <2> QED
      BY <1>1, <1>2, <1>5, <1>8, <2>3, <2>5 DEF PresenceInv, PresenceTypeOK
  <1> QED
    BY <1>3, <1>6, <1>7, <1>8

LEMMA TellInv ==
  ASSUME PresenceInv, NEW t \in Threads, Tell(t)
  PROVE  PresenceInv'
  <1>1. PresenceTypeOK /\ Published /\ telling[t] \in Doing
    BY DEF PresenceInv, PresenceTypeOK
  <1>2. PICK c \in telling[t].to :
          /\ avatars' = [avatars EXCEPT ![c] = IF Foreign(c, telling[t].who) /\ c \in {"hub", link}
                                               THEN Shown(c, telling[t].who, telling[t].event) ELSE @]
          /\ telling' = [telling EXCEPT ![t] = Rested([telling[t] EXCEPT !.to = @ \ {c}])]
    BY DEF Tell
  <1>3. UNCHANGED <<enabled, session, paper, link, inbox, handler, published, presences, subs>> /\ OnBus' = OnBus
    BY DEF Tell, hubVars, paperVars, linkVars, OnBus
  <1> DEFINE e == [telling[t] EXCEPT !.to = @ \ {c}]
  <1>4. e \in Doing /\ e.todo = telling[t].todo /\ e.act = telling[t].act /\ c \in Consumers
    BY <1>1 DEF Doing
  <1> HIDE DEF e
  <1>5. Rested(e) \in Doing /\ Rested(e).todo = telling[t].todo /\ Rested(e).act \in {telling[t].act, "none"}
        /\ (telling[t].todo # {} => Rested(e).act = telling[t].act)
    BY <1>4, RestedFacts
  <1>6. telling' \in [Threads -> Doing] /\ Published' /\ PaperPresencesAreOwned'
    <2>1. Rested(e).act = "up" => Rested(e).todo \subseteq (IF t \in Links THEN published'[t] ELSE HubPlayers)
      BY <1>1, <1>3, <1>5 DEF Published
    <2>2. telling' = [telling EXCEPT ![t] = Rested(e)]
      BY <1>2 DEF e
    <2> QED
      BY <1>3, <1>5, <2>1, <2>2, MovesOn
  <1>7. avatars' \in [Consumers -> SUBSET Uuids]
    <2>1. avatars[c] \subseteq Uuids /\ (Foreign(c, telling[t].who) => telling[t].who \in Uuids)
      BY <1>1, <1>4 DEF PresenceTypeOK, Foreign, Uuids
    <2>2. Foreign(c, telling[t].who) => Shown(c, telling[t].who, telling[t].event) \subseteq Uuids
      BY <2>1 DEF Shown
    <2> QED
      BY <1>1, <1>2, <1>4, <2>1, <2>2 DEF PresenceTypeOK
  <1> QED
    BY <1>1, <1>3, <1>6, <1>7 DEF PresenceInv, PresenceTypeOK

\* Nothing is done at the bus.
LEMMA BusRests ==
  ASSUME PresenceInv, PresenceTypeOK', UNCHANGED <<published, telling>>, OnBus' \subseteq OnBus
  PROVE  PresenceInv'
  BY DEF PresenceInv, Published, PaperPresencesAreOwned

LEMMA AgeInv ==
  ASSUME PresenceInv, NEW u \in Uuids, Age(u)
  PROVE  PresenceInv'
  <1>1. presences' = [presences EXCEPT ![u].fresh = FALSE] /\ u \in OnBus
        /\ UNCHANGED <<enabled, session, paper, link, inbox, handler, published, subs, avatars, telling>>
    BY DEF Age, hubVars, paperVars, linkVars
  <1>2. presences[u] \in [from : {"hub"} \cup Links, fresh : BOOLEAN]
    BY <1>1 DEF PresenceInv, PresenceTypeOK
  <1>3. OnBus' = OnBus /\ presences'[u] \in [from : {"hub"} \cup Links, fresh : BOOLEAN]
        /\ \A v \in OnBus \ {u} : presences'[v] = presences[v]
    BY <1>1, <1>2 DEF OnBus
  <1>4. PresenceTypeOK'
    BY <1>1, <1>3 DEF PresenceInv, PresenceTypeOK
  <1> QED
    BY <1>1, <1>3, <1>4, BusRests

LEMMA SweepInv ==
  ASSUME PresenceInv, Sweep
  PROVE  PresenceInv'
  <1>1. /\ presences' = [v \in OnBus \ Stale |-> presences[v]]
        /\ telling' = [telling EXCEPT !["monitor"] = Start("swept", Stale)]
        /\ UNCHANGED <<enabled, session, paper, link, inbox, handler, published, subs, avatars>>
    BY DEF Sweep, Restrict, hubVars, paperVars, linkVars
  <1>2. Stale \in SUBSET Uuids
    BY DEF Stale, PresenceInv, PresenceTypeOK
  <1>3. Start("swept", Stale) \in Doing /\ Start("swept", Stale).act = "swept"
    BY <1>2, StartFacts
  <1>4. OnBus' = OnBus \ Stale /\ \A v \in OnBus' : presences'[v] = presences[v]
    BY <1>1 DEF OnBus
  <1>5. telling' \in [Threads -> Doing] /\ Published' /\ PaperPresencesAreOwned'
    BY <1>1, <1>3, <1>4, ThreadFacts, MovesOn
  <1> QED
    BY <1>1, <1>4, <1>5 DEF PresenceInv, PresenceTypeOK

\* The hub begins something in one of its own threads.
LEMMA HubInv ==
  ASSUME PresenceInv, NEW t \in Threads \ Links, NEW d \in Doing, Begin(t, d), d.act = "up" => d.todo \subseteq HubPlayers,
         session' \in [HubPlayers -> {"out", "in", "left"}]
  PROVE  PresenceInv'
  <1>1. /\ telling' = [telling EXCEPT ![t] = IF Attached THEN d ELSE @]
        /\ UNCHANGED <<enabled, paper, link, inbox, handler, published, presences, subs, avatars>> /\ OnBus' = OnBus
    BY DEF Begin, paperVars, linkVars, OnBus
  <1>2. telling[t] \in Doing /\ (telling[t].act = "up" => telling[t].todo \subseteq HubPlayers)
    BY DEF PresenceInv, PresenceTypeOK, Published
  <1>3. PICK k \in Doing : telling' = [telling EXCEPT ![t] = k] /\ (k.act = "up" => k.todo \subseteq HubPlayers)
    BY <1>1, <1>2
  <1>4. telling' \in [Threads -> Doing] /\ Published' /\ PaperPresencesAreOwned'
    BY <1>1, <1>3, MovesOn
  <1> QED
    BY <1>1, <1>4 DEF PresenceInv, PresenceTypeOK

LEMMA SessionsInv ==
  ASSUME PresenceInv, NEW h \in HubPlayers, HubJoin(h) \/ HubMove(h) \/ HubLeave(h)
  PROVE  PresenceInv'
  <1>1. session' \in [HubPlayers -> {"out", "in", "left"}]
    BY DEF PresenceInv, PresenceTypeOK, HubJoin, HubMove, HubLeave
  <1>2. PICK act \in {"up", "rm"} : Begin(h, Start(act, {h}))
    BY DEF HubJoin, HubMove, HubLeave
  <1>3. {h} \in SUBSET Uuids /\ h \in Threads \ Links
    BY ThreadFacts DEF Uuids
  <1>4. Start(act, {h}) \in Doing /\ Start(act, {h}).todo = {h}
    BY <1>3, StartFacts
  <1> QED
    BY <1>1, <1>2, <1>3, <1>4, HubInv

LEMMA KeepaliveInv ==
  ASSUME PresenceInv, Keepalive
  PROVE  PresenceInv'
  <1> DEFINE who == {h \in HubPlayers : session[h] = "in"}
  <1>1. Begin("keepalive", Start("up", who)) /\ session' = session
    BY DEF Keepalive
  <1>2. who \in SUBSET Uuids /\ "keepalive" \in Threads \ Links
    BY ThreadFacts DEF Uuids
  <1>3. Start("up", who) \in Doing /\ Start("up", who).todo = who
    BY <1>2, StartFacts
  <1>4. session' \in [HubPlayers -> {"out", "in", "left"}]
    BY <1>1 DEF PresenceInv, PresenceTypeOK
  <1> QED
    BY <1>1, <1>2, <1>3, <1>4, HubInv

LEMMA EmptyQueue ==
  ASSUME NEW M
  PROVE  <<>> \in Seq(M)
  OBVIOUS

LEMMA QueueFacts ==
  ASSUME NEW M, NEW s \in Seq(M)
  PROVE  /\ \A m \in M : Append(s, m) \in Seq(M)
         /\ s # <<>> => Head(s) \in M /\ Tail(s) \in Seq(M)
  OBVIOUS

\* One connection's queue is another one.
LEMMA InboxFacts ==
  ASSUME PresenceTypeOK, NEW c \in Links, NEW q \in Seq([t : {"up", "rm"}, who : PaperPlayers]), inbox' = [inbox EXCEPT ![c] = q]
  PROVE  inbox' \in [Links -> Seq([t : {"up", "rm"}, who : PaperPlayers])]
  <1> DEFINE Queue == Seq([t : {"up", "rm"}, who : PaperPlayers])
  <1>1. inbox \in [Links -> Queue] /\ q \in Queue
    BY DEF PresenceTypeOK
  <1> HIDE DEF Queue
  <1>2. inbox' \in [Links -> Queue]
    BY <1>1
  <1> QED
    BY <1>2 DEF Queue

\* A subscriber is entered, or shows whom the bus knows.
LEMMA SubscribesInv ==
  ASSUME PresenceInv, NEW t \in Threads, telling[t].act # "rm", NEW d \in Doing, d.act \notin {"up", "rm"},
         telling' = [telling EXCEPT ![t] = d], UNCHANGED <<enabled, session, paper, published, presences, avatars>>,
         link' \in Links \cup {Nobody}, handler' \in [Links -> {"closed", "welcomed", "reading"}],
         inbox' \in [Links -> Seq([t : {"up", "rm"}, who : PaperPlayers])], subs' \subseteq Consumers
  PROVE  PresenceInv'
  <1>1. OnBus' = OnBus
    BY DEF OnBus
  <1>2. telling' \in [Threads -> Doing] /\ Published' /\ PaperPresencesAreOwned'
    BY <1>1, MovesOn
  <1> QED
    BY <1>1, <1>2 DEF PresenceInv, PresenceTypeOK

LEMMA AttachInv ==
  ASSUME PresenceInv, Attach
  PROVE  PresenceInv'
  <1>1. Start("subscribed", {}) \in Doing /\ Start("subscribed", {}).act = "subscribed"
    BY StartFacts
  <1>2. telling["attach"].act # "rm" /\ "attach" \in Threads
    BY RestingFacts, ThreadFacts DEF Attach, Free
  <1> QED
    BY <1>1, <1>2, SubscribesInv
       DEF Attach, Consumers, hubVars, paperVars, linkVars, PresenceInv, PresenceTypeOK

LEMMA ConnectsInv ==
  ASSUME PresenceInv, NEW c \in Links, PluginConnects(c)
  PROVE  PresenceInv'
  <1>1. Start("subscribed", {}) \in Doing /\ Start("subscribed", {}).act = "subscribed"
    BY StartFacts
  <1>2. telling[c].act # "rm" /\ c \in Threads
    BY RestingFacts, ThreadFacts DEF PluginConnects, Free
  <1>3. /\ link' \in Links \cup {Nobody} /\ handler' \in [Links -> {"closed", "welcomed", "reading"}]
        /\ subs' \subseteq Consumers
    BY DEF PluginConnects, Consumers, PresenceInv, PresenceTypeOK
  <1>4. inbox' \in [Links -> Seq([t : {"up", "rm"}, who : PaperPlayers])]
    BY InboxFacts, EmptyQueue DEF PluginConnects, PresenceInv
  <1> QED
    BY <1>1, <1>2, <1>3, <1>4, SubscribesInv DEF PluginConnects, hubVars

LEMMA SnapshotInv ==
  ASSUME PresenceInv, NEW t \in Threads, NEW who \in SUBSET Uuids, Snapshot(t, who)
  PROVE  PresenceInv'
  <1>1. Start("show", who) \in Doing /\ Start("show", who).act = "show"
    BY StartFacts
  <1>2. Rested(Start("show", who)) \in Doing /\ Rested(Start("show", who)).act \notin {"up", "rm"}
    BY <1>1, RestedFacts
  <1> QED
    BY <1>2, SubscribesInv DEF Snapshot, hubVars, paperVars, linkVars, PresenceInv, PresenceTypeOK

\* What leaves the bus and its threads alone.
LEMMA RestInv ==
  ASSUME PresenceInv,
         \/ Detach \/ SetEnabled \/ LinkBreaks
         \/ \E p \in PaperPlayers : PaperJoin(p) \/ PaperQuit(p) \/ PaperPublishes(p)
         \/ \E c \in Links : HandlerListens(c)
  PROVE  PresenceInv'
  <1>1. PresenceTypeOK
    BY DEF PresenceInv
  <1>2. UNCHANGED <<published, telling, presences>> /\ OnBus' = OnBus
    BY DEF Detach, SetEnabled, LinkBreaks, PaperJoin, PaperQuit, PaperPublishes, HandlerListens,
           paperVars, linkVars, busVars, OnBus
  <1>3. CASE Detach \/ SetEnabled \/ LinkBreaks
    <2>1. /\ enabled' \in BOOLEAN /\ link' \in Links \cup {Nobody} /\ subs' \subseteq Consumers
          /\ avatars' \in [Consumers -> SUBSET Uuids] /\ UNCHANGED <<session, paper, handler, inbox>>
      BY <1>1, <1>3 DEF Detach, SetEnabled, LinkBreaks, hubVars, paperVars, linkVars, busVars, PresenceTypeOK
    <2> QED
      BY <1>1, <1>2, <2>1, BusRests DEF PresenceTypeOK
  <1>4. ASSUME NEW p \in PaperPlayers, PaperJoin(p) \/ PaperQuit(p) \/ PaperPublishes(p)
        PROVE  PresenceInv'
    <2>1. paper' \subseteq PaperPlayers /\ UNCHANGED <<enabled, session, link, handler, subs, avatars>>
      BY <1>1, <1>4 DEF PaperJoin, PaperQuit, PaperPublishes, hubVars, linkVars, busVars, PresenceTypeOK
    <2>2. inbox' \in [Links -> Seq([t : {"up", "rm"}, who : PaperPlayers])]
      <3>1. CASE UNCHANGED inbox
        BY <1>1, <3>1 DEF PresenceTypeOK
      <3>2. CASE \E m \in [t : {"up", "rm"}, who : PaperPlayers] :
                   link # Nobody /\ inbox' = [inbox EXCEPT ![link] = Append(@, m)]
        <4>1. link \in Links /\ inbox[link] \in Seq([t : {"up", "rm"}, who : PaperPlayers])
          BY <1>1, <3>2 DEF PresenceTypeOK
        <4>2. PICK m \in [t : {"up", "rm"}, who : PaperPlayers] : inbox' = [inbox EXCEPT ![link] = Append(inbox[link], m)]
          BY <3>2
        <4>3. Append(inbox[link], m) \in Seq([t : {"up", "rm"}, who : PaperPlayers])
          BY <4>1, QueueFacts
        <4> QED
          BY <1>1, <4>1, <4>2, <4>3, InboxFacts
      <3> QED
        BY <1>4, <3>1, <3>2 DEF PaperJoin, PaperQuit, PaperPublishes, Sends
    <2> QED
      BY <1>1, <1>2, <2>1, <2>2, BusRests DEF PresenceTypeOK
  <1>5. ASSUME NEW c \in Links, HandlerListens(c)
        PROVE  PresenceInv'
    <2>1. handler' \in [Links -> {"closed", "welcomed", "reading"}]
          /\ UNCHANGED <<enabled, session, paper, link, inbox, subs, avatars>>
      BY <1>1, <1>5 DEF HandlerListens, hubVars, paperVars, busVars, PresenceTypeOK
    <2> QED
      BY <1>1, <1>2, <2>1, BusRests DEF PresenceTypeOK
  <1> QED
    BY <1>3, <1>4, <1>5

\* Who is published is the connection's; who is withdrawn is to be taken off.
LEMMA ReadsInv ==
  ASSUME PresenceInv, NEW c \in Links, HandlerReads(c)
  PROVE  PresenceInv'
  <1> DEFINE m == Head(inbox[c])
  <1>1. PresenceTypeOK /\ c \in Threads /\ telling[c] = Resting /\ inbox[c] # <<>>
    BY ThreadFacts DEF PresenceInv, HandlerReads, Free
  <1>2. inbox[c] \in Seq([t : {"up", "rm"}, who : PaperPlayers])
    BY <1>1 DEF PresenceTypeOK
  <1>3. m \in [t : {"up", "rm"}, who : PaperPlayers] /\ Tail(inbox[c]) \in Seq([t : {"up", "rm"}, who : PaperPlayers])
    BY <1>1, <1>2, QueueFacts
  <1>4. m.t \in {"up", "rm"} /\ m.who \in PaperPlayers /\ {m.who} \in SUBSET Uuids
    BY <1>3 DEF Uuids
  <1>5. /\ published' = [published EXCEPT ![c] = IF m.t = "up" THEN @ \cup {m.who} ELSE @ \ {m.who}]
        /\ telling' = [telling EXCEPT ![c] = Start(m.t, {m.who})]
        /\ inbox' = [inbox EXCEPT ![c] = Tail(@)]
        /\ UNCHANGED <<enabled, session, paper, link, handler, presences, subs, avatars>> /\ OnBus' = OnBus
    BY DEF HandlerReads, hubVars, OnBus
  <1> HIDE DEF m
  <1>6. Start(m.t, {m.who}) \in Doing /\ Start(m.t, {m.who}).act = m.t /\ Start(m.t, {m.who}).todo = {m.who}
    BY <1>4, StartFacts
  <1>7. /\ published' \in [Links -> SUBSET PaperPlayers] /\ inbox' \in [Links -> Seq([t : {"up", "rm"}, who : PaperPlayers])]
        /\ telling' \in [Threads -> Doing]
    <2>1. inbox' = [inbox EXCEPT ![c] = Tail(inbox[c])]
      BY <1>5
    <2>2. inbox' \in [Links -> Seq([t : {"up", "rm"}, who : PaperPlayers])]
      BY <1>1, <1>3, <2>1, InboxFacts
    <2> QED
      BY <1>1, <1>4, <1>5, <1>6, <2>2 DEF PresenceTypeOK
  <1>8. PresenceTypeOK'
    BY <1>1, <1>5, <1>7 DEF PresenceTypeOK
  <1>9. /\ telling'[c] = Start(m.t, {m.who}) /\ \A s \in Threads : s # c => telling'[s] = telling[s]
        /\ \A b \in Links : b # c => published'[b] = published[b]
        /\ published[c] \subseteq published'[c] \cup {m.who} /\ (m.t = "up" => m.who \in published'[c])
    BY <1>1, <1>5 DEF PresenceTypeOK
  <1>10. Published'
    BY <1>6, <1>9, ThreadFacts DEF PresenceInv, Published
  <1>11. PaperPresencesAreOwned'
    <2> SUFFICES ASSUME NEW p \in PaperPlayers \cap OnBus
                 PROVE  \E b \in Links : p \in published'[b] \/ (telling'[b].act = "rm" /\ p \in telling'[b].todo)
      BY <1>5 DEF PaperPresencesAreOwned
    <2>1. PICK b \in Links : p \in published[b] \/ (telling[b].act = "rm" /\ p \in telling[b].todo)
      BY DEF PresenceInv, PaperPresencesAreOwned
    <2>2. CASE b # c
      BY <1>9, <2>1, <2>2, ThreadFacts
    <2>3. CASE b = c
      <3>1. p \in published[c]
        BY <1>1, <2>1, <2>3, RestingFacts
      <3> QED
        BY <1>4, <1>6, <1>9, <3>1
    <2> QED
      BY <2>2, <2>3
  <1> QED
    BY <1>8, <1>10, <1>11 DEF PresenceInv

LEMMA EndsInv ==
  ASSUME PresenceInv, NEW c \in Links, HandlerEnds(c)
  PROVE  PresenceInv'
  <1> DEFINE d == Rested(Start("rm", published[c]))
  <1>1. PresenceTypeOK /\ c \in Threads /\ telling[c] = Resting
    BY ThreadFacts DEF PresenceInv, HandlerEnds, Free
  <1>2. /\ handler' = [handler EXCEPT ![c] = "closed"] /\ published' = [published EXCEPT ![c] = {}]
        /\ inbox' = [inbox EXCEPT ![c] = <<>>] /\ subs' = subs \ {c}
        /\ telling' = [telling EXCEPT ![c] = d]
        /\ UNCHANGED <<enabled, session, paper, link, presences, avatars>> /\ OnBus' = OnBus
    BY DEF HandlerEnds, Withdrawn, hubVars, OnBus
  <1>3. published[c] \in SUBSET PaperPlayers /\ published[c] \in SUBSET Uuids
    BY <1>1 DEF PresenceTypeOK, Uuids
  <1>4. Start("rm", published[c]) \in Doing /\ Start("rm", published[c]).act = "rm" /\ Start("rm", published[c]).todo = published[c]
    BY <1>3, StartFacts
  <1>5. d \in Doing /\ d.todo = published[c] /\ d.act # "up" /\ (published[c] # {} => d.act = "rm")
    BY <1>4, RestedFacts
  <1> HIDE DEF d
  <1>6. PresenceTypeOK'
    <2>1. inbox' \in [Links -> Seq([t : {"up", "rm"}, who : PaperPlayers])]
      BY <1>1, <1>2, InboxFacts, EmptyQueue
    <2> QED
      BY <1>1, <1>2, <1>5, <2>1 DEF PresenceTypeOK
  <1>7. /\ telling'[c] = d /\ \A s \in Threads : s # c => telling'[s] = telling[s]
        /\ \A b \in Links : b # c => published'[b] = published[b]
    BY <1>1, <1>2 DEF PresenceTypeOK
  <1>8. Published'
    BY <1>5, <1>7, ThreadFacts DEF PresenceInv, Published
  <1>9. PaperPresencesAreOwned'
    <2> SUFFICES ASSUME NEW p \in PaperPlayers \cap OnBus
                 PROVE  \E b \in Links : p \in published'[b] \/ (telling'[b].act = "rm" /\ p \in telling'[b].todo)
      BY <1>2 DEF PaperPresencesAreOwned
    <2>1. PICK b \in Links : p \in published[b] \/ (telling[b].act = "rm" /\ p \in telling[b].todo)
      BY DEF PresenceInv, PaperPresencesAreOwned
    <2>2. CASE b # c
      BY <1>7, <2>1, <2>2, ThreadFacts
    <2>3. CASE b = c
      BY <1>1, <1>5, <1>7, <2>1, <2>3, RestingFacts
    <2> QED
      BY <2>2, <2>3
  <1> QED
    BY <1>6, <1>8, <1>9 DEF PresenceInv

LEMMA PresenceInitInv == PresenceInit => PresenceInv
  <1> SUFFICES ASSUME PresenceInit PROVE PresenceInv
    OBVIOUS
  <1>1. OnBus = {} /\ \A t \in Threads : telling[t] = Resting
    BY DEF PresenceInit, OnBus
  <1>2. PresenceTypeOK
    BY <1>1, RestingFacts DEF PresenceInit, PresenceTypeOK
  <1> QED
    BY <1>1, <1>2, RestingFacts, ThreadFacts DEF PresenceInv, Published, PaperPresencesAreOwned

LEMMA PresenceNextInv == PresenceInv /\ [PresenceNext]_presenceVars => PresenceInv'
  <1> SUFFICES ASSUME PresenceInv, [PresenceNext]_presenceVars PROVE PresenceInv'
    OBVIOUS
  <1>1. ASSUME NEW t \in Threads, BusStep(t)
        PROVE  PresenceInv'
    BY <1>1, AtBusInv, TellInv DEF BusStep
  <1>2. CASE AttachSnapshot
    <2>1. PaperPlayers \cap OnBus \in SUBSET Uuids /\ "attach" \in Threads
      BY ThreadFacts DEF Uuids
    <2> QED
      BY <1>2, <2>1, SnapshotInv DEF AttachSnapshot
  <1>3. ASSUME NEW c \in Links, HandlerStep(c)
        PROVE  PresenceInv'
    <2>1. HubPlayers \cap OnBus \in SUBSET Uuids /\ c \in Threads
      BY ThreadFacts DEF Uuids
    <2> QED
      BY <1>3, <2>1, SnapshotInv, RestInv, ReadsInv, EndsInv DEF HandlerStep, HandlerSnapshot
  <1>4. CASE UNCHANGED presenceVars
    BY <1>4 DEF presenceVars, hubVars, paperVars, linkVars, busVars, PresenceInv, PresenceTypeOK, Published,
                PaperPresencesAreOwned, OnBus
  <1> QED
    BY <1>1, <1>2, <1>3, <1>4, AgeInv, SweepInv, KeepaliveInv, AttachInv, SessionsInv, ConnectsInv, RestInv
       DEF PresenceNext

LEMMA InvariantOfPresence == PresenceSpec => []PresenceInv
  BY PresenceInitInv, PresenceNextInv, PTL DEF PresenceSpec

\* The bus, its subscribers and its threads keep their types.
THEOREM PresenceTypesHold == PresenceSpec => []PresenceTypeOK
  <1>1. PresenceInv => PresenceTypeOK
    BY DEF PresenceInv
  <1> QED
    BY <1>1, InvariantOfPresence, PTL

\* Whatever connections overlap and break, for any number of players, connections and threads:
\* who is on the bus from the Paper lobby has a connection that will take him off again.
THEOREM PresencesStayOwned == PresenceSpec => []PaperPresencesAreOwned
  <1>1. PresenceInv => PaperPresencesAreOwned
    BY DEF PresenceInv
  <1> QED
    BY <1>1, InvariantOfPresence, PTL

-----------------------------------------------------------------------------
(* The way a client takes                                                  *)

\* A player who named a server still goes under that name.
NameIsKept ==
  trip.join /\ trip.first \in Routed =>
    /\ trip.at \in {"out", "gateway", "server", "velocity", "told"} /\ trip.host = trip.first
    /\ trip.at = "server" => trip.server = trip.first

\* Who is led to the modded lobby by another name is covered by its replay.
LedToTheLobby ==
  trip.host = "modlobby" /\ trip.first # "modlobby" => trip.client.fit = "fits"

EntranceInv == EntranceTypeOK /\ NameIsKept /\ LedToTheLobby
-----------------------------------------------------------------------------
LEMMA NameFacts ==
  /\ Routed \subseteq Servers /\ Lobby \in Servers \cup {"none"} /\ MaxEdits \in Nat
  /\ \A s \in Servers : s \notin Names \cup {"none", "vanilla"}
  /\ Clients \subseteq [proto : Protocols, pack : Servers \cup {"vanilla", "none"}, fit : {"fits", "foreign", "missing"}]
  BY EntranceAssumption DEF Routed

LEMMA SettingFacts ==
  /\ NoRoutes \in NetSettings
  /\ \A s \in NetSettings :
       /\ s.mode \in {"off", "gateway", "velocity"}
       /\ {s.domain, s.dispatcher, s.hub, s.via, s.replay} \subseteq BOOLEAN
  BY DEF NoRoutes, NetSettings

\* A trip of which the place, the name or the protocol is another one.
LEMMA TripFacts ==
  ASSUME trip \in Trips
  PROVE  /\ trip.at \in Ends \cup {"out", "gateway", "viaproxy", "dispatcher"} /\ trip.host \in Servers \cup Names
         /\ trip.join \in BOOLEAN /\ trip.client \in Clients /\ trip.first \in Servers \cup Names
         /\ trip.server \in Servers \cup {"none"} /\ trip.proto \in Protocols
  BY DEF Trips

LEMMA DecisionFacts ==
  ASSUME trip \in Trips, NEW r
  PROVE  /\ Decision(r, trip).server \in Servers \cup {"none"}
         /\ trip.host \in Routed => Decision(r, trip) = [reason |-> "alias", server |-> trip.host]
         /\ Decision(r, trip).reason \in {"alias", "default", "version", "none"}
  <1>1. UniqueVersion(trip.proto) \in Routed \cup {"none"}
    <2> DEFINE speaking == {s \in Routed : Native[s] = trip.proto}
    <2>1. CASE Cardinality(speaking) = 1 /\ speaking # {}
      <3>1. (CHOOSE s \in speaking : TRUE) \in speaking
        BY <2>1
      <3> QED
        BY <2>1, <3>1 DEF UniqueVersion
    <2>2. CASE Cardinality(speaking) # 1
      BY <2>2 DEF UniqueVersion
    <2>3. CASE speaking = {}
      BY <2>3, FS_EmptySet DEF UniqueVersion
    <2> QED
      BY <2>1, <2>2, <2>3
  <1> QED
    BY <1>1, NameFacts, TripFacts DEF Decision

LEMMA WayFacts ==
  ASSUME trip \in Trips, NEW r
  PROVE  Way(r, trip) \in Ends \cup {"viaproxy", "dispatcher"}
  BY DEF Way, Helped, Ends

\* A name of a server leads to that server, to Velocity, or to a word why not.
LEMMA NamedWay ==
  ASSUME trip \in Trips, NEW r, trip.join, trip.host \in Routed
  PROVE  Way(r, trip) \in {"server", "velocity", "told"}
  <1>1. Decision(r, trip).reason = "alias" /\ Decision(r, trip).server = trip.host
    BY DecisionFacts
  <1>2. trip.host \notin {"modlobby", "vanlobby"} /\ trip.host # "none"
    BY NameFacts DEF Names
  <1> QED
    BY <1>1, <1>2 DEF Way, Translated, LobbyAlias, Helped

LEMMA HandleInv ==
  ASSUME EntranceInv, Handle
  PROVE  EntranceInv'
  <1> DEFINE way == Way(routes', trip)
  <1>1. EntranceTypeOK /\ trip \in Trips /\ trip.at = "gateway"
    BY DEF EntranceInv, EntranceTypeOK, Handle
  <1>2. /\ trip' = [trip EXCEPT !.at = way, !.server = IF way = "server" THEN Decision(routes', trip).server ELSE @]
        /\ routes' \in NetSettings /\ UNCHANGED <<netSettings, edits, helping>>
    BY <1>1 DEF Handle, EntranceTypeOK
  <1>3. way \in Ends \cup {"viaproxy", "dispatcher"} /\ Decision(routes', trip).server \in Servers \cup {"none"}
    BY <1>1, WayFacts, DecisionFacts
  <1>4. trip.join /\ trip.host \in Routed => way \in {"server", "velocity", "told"} /\ Decision(routes', trip).server = trip.host
    BY <1>1, NamedWay, DecisionFacts
  <1> HIDE DEF way
  <1>5. /\ trip' \in Trips /\ trip'.at = way /\ trip'.host = trip.host /\ trip'.join = trip.join
        /\ trip'.first = trip.first /\ trip'.client = trip.client
        /\ (way = "server" => trip'.server = Decision(routes', trip).server)
    BY <1>1, <1>2, <1>3 DEF Trips
  <1>6. EntranceTypeOK'
    BY <1>1, <1>2, <1>5 DEF EntranceTypeOK
  <1>7. NameIsKept'
    BY <1>4, <1>5 DEF EntranceInv, NameIsKept, Routed
  <1>8. LedToTheLobby'
    BY <1>5 DEF EntranceInv, LedToTheLobby
  <1> QED
    BY <1>6, <1>7, <1>8 DEF EntranceInv

LEMMA ConnectInv ==
  ASSUME EntranceInv, NEW host \in Servers \cup Names, NEW join \in BOOLEAN, Connect(host, join)
  PROVE  EntranceInv'
  <1>1. trip \in Trips /\ EntranceTypeOK
    BY DEF EntranceInv, EntranceTypeOK
  <1>2. trip' \in Trips /\ trip'.at = "gateway" /\ trip'.host = host /\ trip'.first = host
    BY <1>1 DEF Connect, Trips
  <1> QED
    BY <1>1, <1>2 DEF Connect, EntranceInv, EntranceTypeOK, NameIsKept, LedToTheLobby

LEMMA TranslateInv ==
  ASSUME EntranceInv, Translate
  PROVE  EntranceInv'
  <1>1. trip \in Trips /\ EntranceTypeOK /\ trip.at = "viaproxy"
    BY DEF EntranceInv, EntranceTypeOK, Translate
  <1>2. /\ trip' \in Trips /\ trip'.at \in {"lost", "gateway"}
        /\ trip'.host = trip.host /\ trip'.join = trip.join /\ trip'.first = trip.first /\ trip'.client = trip.client
    BY <1>1 DEF Translate, Trips, Ends, Protocols
  <1> QED
    BY <1>1, <1>2 DEF Translate, EntranceInv, EntranceTypeOK, NameIsKept, LedToTheLobby, Routed

\* Where a dispatcher sends a client: to a server or a name, and to the modded lobby only
\* with a replay that fits.
LEMMA LeadFacts ==
  ASSUME NEW c \in Clients, Target(c) # "told"
  PROVE  /\ Target(c) \in Servers \cup Names
         /\ Target(c) = "modlobby" => c.fit = "fits"
  <1>1. c.pack \in Servers \cup {"vanilla", "none"}
    BY NameFacts
  <1> QED
    BY <1>1, NameFacts DEF Target, PackHost, TransferTo, Names

LEMMA DispatchInv ==
  ASSUME EntranceInv, Dispatch
  PROVE  EntranceInv'
  <1> DEFINE host == Target(trip.client)
  <1>1. trip \in Trips /\ EntranceTypeOK /\ trip.at = "dispatcher" /\ trip.client \in Clients /\ trip.client.proto \in Protocols
    BY NameFacts, TripFacts DEF EntranceInv, EntranceTypeOK, Dispatch
  <1>2. ~(trip.join /\ trip.first \in Routed)
    BY <1>1 DEF EntranceInv, NameIsKept
  <1>3. UNCHANGED <<netSettings, edits, routes, helping>>
    BY DEF Dispatch
  <1>4. CASE trip' \in {[trip EXCEPT !.at = "told"], [trip EXCEPT !.at = "lost"]}
    <2>1. /\ trip' \in Trips /\ trip'.host = trip.host /\ trip'.join = trip.join
          /\ trip'.first = trip.first /\ trip'.client = trip.client
      BY <1>1, <1>4 DEF Trips, Ends
    <2> QED
      BY <1>1, <1>2, <1>3, <2>1 DEF EntranceInv, EntranceTypeOK, NameIsKept, LedToTheLobby, Routed
  <1>5. CASE host # "told" /\ trip' = [trip EXCEPT !.at = "gateway", !.host = host, !.proto = trip.client.proto]
    <2>1. host \in Servers \cup Names /\ (host = "modlobby" => trip.client.fit = "fits")
      BY <1>1, <1>5, LeadFacts
    <2> HIDE DEF host
    <2>2. /\ trip' \in Trips /\ trip'.host = host /\ trip'.join = trip.join
          /\ trip'.first = trip.first /\ trip'.client = trip.client
      BY <1>1, <1>5, <2>1 DEF Trips, Ends
    <2> QED
      BY <1>1, <1>2, <1>3, <2>1, <2>2 DEF EntranceInv, EntranceTypeOK, NameIsKept, LedToTheLobby, Routed
  <1> QED
    BY <1>4, <1>5 DEF Dispatch

LEMMA SettingsInv ==
  ASSUME EntranceInv, ChangeNetSettings \/ ReconcileRoutes \/ HelperEnds \/ UNCHANGED entranceVars
  PROVE  EntranceInv'
  <1>1. UNCHANGED trip /\ EntranceTypeOK
    BY DEF ChangeNetSettings, ReconcileRoutes, HelperEnds, entranceVars, EntranceInv
  <1>2. netSettings' \in NetSettings /\ routes' \in NetSettings /\ helping' \in BOOLEAN
    BY <1>1, SettingFacts DEF ChangeNetSettings, ReconcileRoutes, HelperEnds, entranceVars, EntranceTypeOK
  <1>3. edits' \in 0..MaxEdits
    BY <1>1, NameFacts DEF ChangeNetSettings, ReconcileRoutes, HelperEnds, entranceVars, EntranceTypeOK
  <1> QED
    BY <1>1, <1>2, <1>3 DEF EntranceInv, EntranceTypeOK, NameIsKept, LedToTheLobby

LEMMA EntranceInitInv == EntranceInit => EntranceInv
  <1> SUFFICES ASSUME EntranceInit PROVE EntranceInv
    OBVIOUS
  <1>1. PICK c \in Clients :
          trip = [at |-> "out", host |-> "apex", proto |-> c.proto, join |-> TRUE, client |-> c,
                  first |-> "apex", server |-> "none"]
    BY DEF EntranceInit
  <1>2. c.proto \in Protocols
    BY NameFacts
  <1>3. EntranceTypeOK
    BY <1>1, <1>2, NameFacts DEF EntranceInit, EntranceTypeOK, Trips, Names
  <1> QED
    BY <1>1, <1>3 DEF EntranceInv, NameIsKept, LedToTheLobby

LEMMA EntranceNextInv == EntranceInv /\ [EntranceNext]_entranceVars => EntranceInv'
  BY HandleInv, ConnectInv, TranslateInv, DispatchInv, SettingsInv DEF EntranceNext

LEMMA InvariantOfEntrance == EntranceSpec => []EntranceInv
  BY EntranceInitInv, EntranceNextInv, PTL DEF EntranceSpec

\* Whatever settings change on the way, for any servers and clients: who names a server gets
\* there or is told why not, and a pack is only led to a lobby whose replay it covers.
THEOREM NamesAlwaysLeadRight == EntranceSpec => []NamesLeadRight
  <1>1. EntranceInv => NamesLeadRight
    BY DEF EntranceInv, NameIsKept, LedToTheLobby, NamesLeadRight, AliasIsMeant, PacksMeetTheirReplay
  <1> QED
    BY <1>1, InvariantOfEntrance, PTL

\* No join passes Velocity by on its way to a server that trusts it.
THEOREM NoWayPastVelocity == EntranceSpec => BackendsBehindVelocity
  <1> DEFINE Step ==
        trip.at = "gateway" /\ trip'.at = "server" /\ trip.join => ~(routes'.mode = "velocity" /\ trip'.server \in Backends)
  <1>1. ASSUME EntranceInv, [EntranceNext]_entranceVars
        PROVE  [Step]_entranceVars
    <2>1. trip \in Trips
      BY <1>1 DEF EntranceInv, EntranceTypeOK
    <2>2. CASE Handle
      <3>1. /\ trip'.at = Way(routes', trip)
            /\ trip'.at = "server" => trip'.server = Decision(routes', trip).server
        BY <2>1, <2>2 DEF Handle, Trips
      <3>2. trip.join /\ Way(routes', trip) = "server" => ~BehindVelocity(routes', trip)
        BY DEF Way, Helped
      <3> QED
        BY <3>1, <3>2 DEF BehindVelocity
    <2>3. CASE ~Handle
      <3>1. \/ trip'.at # "server" \/ trip'.at = trip.at
        BY <1>1, <2>1, <2>3 DEF EntranceNext, Connect, Translate, Dispatch, ChangeNetSettings, ReconcileRoutes, HelperEnds,
                          entranceVars, Trips
      <3> QED
        BY <3>1
    <2> QED
      BY <2>2, <2>3
  <1> QED
    BY <1>1, InvariantOfEntrance, PTL DEF EntranceSpec, BackendsBehindVelocity

-----------------------------------------------------------------------------
(* Who may do what                                                         *)

Commands == [list : ListKeys, put : BOOLEAN, who : Persons]
WorkRecords == [task : {"none", "add", "remove", "level", "save", "apply", "start"},
           step : {"", "read", "write", "next", "send"}, list : ListKeys \cup {NoList},
           entry : SUBSET FileEntries, base : SUBSET FileEntries, todo : SUBSET FileEntries,
           lists : SUBSET ListKeys]

\* A worker that has an entry in hand has one, of a list; the start does a start's work only.
InHand(t, w) ==
  /\ w.step \in {"read", "write", "send"} => w.list \in ListKeys /\ \E e \in FileEntries : w.entry = {e}
  /\ w.step = "send" => w.task \in {"add", "remove"}
  /\ w.todo # {} => w.list \in ListKeys
  /\ w.step = "" => w.todo = {} /\ w.lists = {}
  /\ w.task = "start" <=> (t = "start" /\ w.step # "")
  /\ t = "start" => w.task \in {"none", "start"}

HandsInv ==
  /\ listFiles \in [ListKeys -> SUBSET FileEntries] /\ inGame \in [ListKeys -> SUBSET FileEntries]
  /\ run \in {"off", "starting", "booting", "running"}
  /\ everywhere \in [ListKeys -> SUBSET FileEntries] /\ listed \in [ListKeys -> SUBSET FileEntries]
  /\ worker \in [Workers -> WorkRecords]
  /\ console \in Seq(Commands) /\ reops \in [FixedOps -> Nat] /\ tries \in [FixedOps -> 0..Tries]
  /\ apart \subseteq ListKeys /\ meddled \subseteq ListKeys /\ missed \subseteq ListKeys \X Persons
  /\ \A t \in Workers : InHand(t, worker[t])

\* The game is still to be told: a command waits, or its worker has yet to send it.
Told(l, p, put) ==
  \/ \E i \in DOMAIN console : console[i] = Says(l, put, p)
  \/ \E t \in Workers : /\ worker[t].step = "send" /\ worker[t].list = l /\ p \in Who(worker[t].entry)
                        /\ IF put THEN worker[t].task = "add" ELSE worker[t].task = "remove"

\* Where file and game differ in a person, the game is still to be told what the file says.
DifferencesAreTold ==
  run = "running" => \A l \in ListKeys \ apart, p \in Persons :
    /\ p \in Who(listFiles[l]) /\ p \notin Who(inGame[l]) => Told(l, p, TRUE)
    /\ p \notin Who(listFiles[l]) /\ p \in Who(inGame[l]) => Told(l, p, FALSE)

Unique(es) == \A e, f \in es : e.who = f.who => e = f

\* A start writes the rows it read, each on the file as it stands, unless another one meddles.
RowsOnTheirWay ==
  LET s == worker["start"] IN
  /\ \A l \in ListKeys : Unique(everywhere[l]) /\ Unique(listed[l])
  /\ s.step # "" => run = "starting"
  /\ s.todo # {} => s.todo \subseteq listed[s.list]
  /\ s.step \in {"read", "write"} => s.entry \subseteq listed[s.list]
  /\ s.step = "write" /\ s.list \notin meddled => s.base = listFiles[s.list]
  /\ run \in {"starting", "booting"} =>
       \A l \in ListKeys \ (meddled \cup s.lists) : \A e \in listed[l] :
         \/ e \in listFiles[l] \/ <<l, e.who>> \in missed
         \/ s.list = l /\ (e \in s.todo \/ (s.step \in {"read", "write"} /\ e \in s.entry))

AccessInv == HandsInv /\ DifferencesAreTold /\ RowsOnTheirWay
-----------------------------------------------------------------------------
LEMMA WorkerFacts == "start" \in Workers /\ Administrators \subseteq Workers /\ "start" \notin Administrators
  BY AccessAssumption DEF Workers

LEMMA EntryFacts ==
  ASSUME NEW l, NEW p \in Persons, NEW level \in Levels
  PROVE  Entry(l, p, level) \in FileEntries /\ Entry(l, p, level).who = p
  BY DEF Entry, FileEntries, Levels

LEMMA ListedFacts ==
  ASSUME HandsInv, NEW l \in ListKeys
  PROVE  /\ Listed(l) \subseteq FileEntries
         /\ Unique(everywhere[l]) => Unique(Listed(l))
  <1>1. \A p \in FixedOps : Entry(l, p, 4) \in FileEntries /\ Entry(l, p, 4).who = p
    BY AccessAssumption, EntryFacts DEF Levels
  <1>2. everywhere[l] \subseteq FileEntries
    BY DEF HandsInv
  <1> QED
    BY <1>1, <1>2 DEF Listed, Unique

LEMMA WithFacts ==
  ASSUME NEW es \in SUBSET FileEntries, NEW e \in FileEntries
  PROVE  /\ WithEntry(es, e) \subseteq FileEntries
         /\ Unique(es) => Unique(WithEntry(es, e))
         /\ Who(WithEntry(es, e)) = Who(es) \cup {e.who}
         /\ \A x \in es : x.who # e.who => x \in WithEntry(es, e)
         /\ e \in WithEntry(es, e)
  BY DEF WithEntry, Unique, Who

LEMMA MovedFacts ==
  ASSUME HandsInv, NEW t \in Workers, NEW w \in WorkRecords, Works(t, w)
  PROVE  /\ worker' \in [Workers -> WorkRecords] /\ worker'[t] = w
         /\ \A u \in Workers : u # t => worker'[u] = worker[u]
         /\ InHand(t, w) => \A u \in Workers : InHand(u, worker'[u])
  BY DEF HandsInv, Works

LEMMA NoWorkFacts == NoWork \in WorkRecords /\ NoWork.step = "" /\ NoWork.task = "none" /\ NoWork.todo = {} /\ NoWork.list = NoList
               /\ \A t \in Workers : InHand(t, NoWork)
  BY DEF NoWork, WorkRecords, InHand

LEMMA TaskFacts ==
  ASSUME NEW task \in {"add", "remove", "level", "save"}, NEW step \in {"read", "write"},
         NEW l \in ListKeys, NEW e \in FileEntries, NEW base \in SUBSET FileEntries,
         NEW t \in Administrators
  PROVE  LET w == Task(task, step, l, {e}) IN
         /\ w \in WorkRecords /\ [w EXCEPT !.base = base] \in WorkRecords
         /\ InHand(t, w) /\ InHand(t, [w EXCEPT !.base = base])
  <1> DEFINE w == Task(task, step, l, {e})
  <1>1. w \in WorkRecords /\ w.task = task /\ w.step = step /\ w.list = l /\ w.entry = {e}
    BY DEF Task, NoWork, WorkRecords
  <1> HIDE DEF w
  <1>2. [w EXCEPT !.base = base] \in WorkRecords
    BY <1>1 DEF WorkRecords
  <1>3. InHand(t, w) /\ InHand(t, [w EXCEPT !.base = base])
    BY <1>1, WorkerFacts DEF InHand, WorkRecords
  <1> QED
    BY <1>1, <1>2, <1>3 DEF w
-----------------------------------------------------------------------------
LEMMA AccessInitInv == AccessInit => AccessInv
  <1> SUFFICES ASSUME AccessInit PROVE AccessInv
    OBVIOUS
  <1>1. HandsInv
    <2>1. \A P \in SUBSET Persons, l \in ListKeys : {Entry(l, p, 4) : p \in P} \subseteq FileEntries
      BY EntryFacts DEF Levels
    <2>2. everywhere \in [ListKeys -> SUBSET FileEntries]
      BY <2>1 DEF AccessInit
    <2>3. worker \in [Workers -> WorkRecords] /\ \A t \in Workers : worker[t] = NoWork
      BY NoWorkFacts DEF AccessInit
    <2>4. \A t \in Workers : InHand(t, worker[t])
      BY <2>3, NoWorkFacts DEF InHand
    <2>5. console \in Seq(Commands)
      BY DEF AccessInit
    <2> QED
      BY <2>2, <2>3, <2>4, <2>5, AccessAssumption DEF AccessInit, HandsInv
  <1>2. DifferencesAreTold
    BY DEF AccessInit, DifferencesAreTold
  <1>3. RowsOnTheirWay
    <2>1. worker["start"] = NoWork
      BY WorkerFacts DEF AccessInit
    <2>2. \A P \in SUBSET Persons, l \in ListKeys : Unique({Entry(l, p, 4) : p \in P})
      BY EntryFacts DEF Levels, Unique
    <2>3. \A l \in ListKeys : Unique(everywhere[l]) /\ Unique(listed[l])
      BY <2>2 DEF AccessInit, Unique
    <2> QED
      BY <2>1, <2>3, NoWorkFacts DEF AccessInit, RowsOnTheirWay
  <1> QED
    BY <1>1, <1>2, <1>3 DEF AccessInv
-----------------------------------------------------------------------------
(* Requests                                                                *)

LEMMA ToldStays ==
  ASSUME NEW l, NEW p, NEW put \in BOOLEAN, Told(l, p, put),
         \A x : (\E i \in DOMAIN console : console[i] = x) => \E i \in DOMAIN console' : console'[i] = x,
         \A u \in Workers : worker[u].step = "send" => worker'[u] = worker[u]
  PROVE  Told(l, p, put)'
  BY DEF Told

\* A step of a worker that sends nothing and leaves files and game alone.
LEMMA QuietStep ==
  ASSUME DifferencesAreTold, NEW t \in Workers, worker[t].step # "send",
         \A u \in Workers : u # t => worker'[u] = worker[u],
         UNCHANGED <<listFiles, inGame, run, console, apart>>
  PROVE  DifferencesAreTold'
  BY ToldStays DEF DifferencesAreTold

LEMMA OtherWorker ==
  ASSUME RowsOnTheirWay, NEW t \in Workers, t # "start",
         \A u \in Workers : u # t => worker'[u] = worker[u],
         UNCHANGED <<listFiles, run, everywhere, listed, missed, meddled>>
  PROVE  RowsOnTheirWay'
  <1>1. worker'["start"] = worker["start"]
    BY WorkerFacts
  <1> QED
    BY <1>1 DEF RowsOnTheirWay, Unique

LEMMA RowInv ==
  ASSUME AccessInv, NEW l \in ListKeys, NEW p \in Persons,
         AddEverywhere(l, Entry(l, p, 4)) \/ RemoveEverywhere(l, Entry(l, p, 4))
  PROVE  AccessInv'
  <1>1. everywhere' \in [ListKeys -> SUBSET FileEntries]
        /\ ((\A k \in ListKeys : Unique(everywhere[k])) => \A k \in ListKeys : Unique(everywhere'[k]))
    <2>1. Entry(l, p, 4) \in FileEntries
      BY EntryFacts DEF Levels
    <2>2. everywhere \in [ListKeys -> SUBSET FileEntries]
      BY DEF AccessInv, HandsInv
    <2>3. CASE AddEverywhere(l, Entry(l, p, 4))
      BY <2>1, <2>2, <2>3, WithFacts DEF AddEverywhere
    <2>4. CASE RemoveEverywhere(l, Entry(l, p, 4))
      BY <2>1, <2>2, <2>4 DEF RemoveEverywhere, Unique
    <2> QED
      BY <2>3, <2>4
  <1>2. UNCHANGED <<listFiles, worker, apart, gameVars, watchVars, bookVars>>
    BY DEF AddEverywhere, RemoveEverywhere
  <1>3. HandsInv'
    BY <1>1, <1>2 DEF AccessInv, HandsInv, gameVars, watchVars, bookVars
  <1>4. DifferencesAreTold'
    BY <1>2, ToldStays DEF AccessInv, DifferencesAreTold, gameVars
  <1>5. RowsOnTheirWay'
    BY <1>1, <1>2 DEF AccessInv, RowsOnTheirWay, gameVars, bookVars, Unique
  <1> QED
    BY <1>3, <1>4, <1>5 DEF AccessInv

LEMMA RequestInv ==
  ASSUME AccessInv, NEW t \in Administrators, AccessRequest(t)
  PROVE  AccessInv'
  <1>1. PICK w \in WorkRecords : Begins(t, w) /\ InHand(t, w)
    <2>1. CASE \E l \in ListKeys, p \in Persons :
                 AddEntry(t, l, Entry(l, p, 4)) \/ RemoveEntry(t, l, Entry(l, p, 4))
      <3>1. PICK l \in ListKeys, p \in Persons :
              AddEntry(t, l, Entry(l, p, 4)) \/ RemoveEntry(t, l, Entry(l, p, 4))
        BY <2>1
      <3>2. Entry(l, p, 4) \in FileEntries
        BY EntryFacts DEF Levels
      <3>3. PICK task \in {"add", "remove"} : Begins(t, Task(task, "read", l, {Entry(l, p, 4)}))
        BY <3>1 DEF AddEntry, RemoveEntry
      <3> QED
        BY <3>2, <3>3, TaskFacts
    <2>2. CASE \E l \in ListKeys, p \in Persons : OpenFile(t, l, Entry(l, p, 4))
      <3>1. PICK l \in ListKeys, p \in Persons : OpenFile(t, l, Entry(l, p, 4))
        BY <2>2
      <3>2. Entry(l, p, 4) \in FileEntries
        BY EntryFacts DEF Levels
      <3>3. listFiles[l] \in SUBSET FileEntries
        BY DEF AccessInv, HandsInv
      <3>4. Begins(t, [Task("save", "write", l, {Entry(l, p, 4)}) EXCEPT !.base = listFiles[l]])
        BY <3>1 DEF OpenFile
      <3> QED
        BY <3>2, <3>3, <3>4, TaskFacts
    <2>3. CASE \E p \in Persons : UpdateOpLevel(t, Entry("ops", p, 2))
      <3>1. PICK p \in Persons : UpdateOpLevel(t, Entry("ops", p, 2))
        BY <2>3
      <3>2. Entry("ops", p, 2) \in FileEntries /\ "ops" \in ListKeys
        BY EntryFacts, AccessAssumption DEF Levels
      <3>3. Begins(t, Task("level", "read", "ops", {Entry("ops", p, 2)}))
        BY <3>1 DEF UpdateOpLevel
      <3> QED
        BY <3>2, <3>3, TaskFacts
    <2>4. CASE ApplyEverywhere(t)
      <3> DEFINE w == [NoWork EXCEPT !.task = "apply", !.step = "next", !.lists = ListKeys]
      <3>1. w \in WorkRecords /\ w.task = "apply" /\ w.step = "next" /\ w.todo = {}
        BY DEF NoWork, WorkRecords
      <3> QED
        BY <2>4, <3>1, WorkerFacts DEF ApplyEverywhere, InHand
    <2> QED
      BY <2>1, <2>2, <2>3, <2>4 DEF AccessRequest
  <1>2. t \in Workers /\ t # "start" /\ Works(t, w) /\ worker[t] = NoWork /\ HandsInv
    BY <1>1, WorkerFacts DEF Begins, AccessInv
  <1>3. UNCHANGED <<listFiles, everywhere, apart, gameVars, watchVars, bookVars>>
    BY DEF AccessRequest
  <1>4. HandsInv'
    BY <1>1, <1>2, <1>3, MovedFacts DEF HandsInv, gameVars, watchVars, bookVars
  <1>5. DifferencesAreTold'
    BY <1>1, <1>2, <1>3, MovedFacts, QuietStep, NoWorkFacts DEF AccessInv, gameVars
  <1>6. RowsOnTheirWay'
    BY <1>1, <1>2, <1>3, MovedFacts, OtherWorker DEF AccessInv, gameVars, bookVars
  <1> QED
    BY <1>4, <1>5, <1>6 DEF AccessInv
-----------------------------------------------------------------------------
(* A worker's steps                                                        *)

\* What the steps of a worker without a write come down to.
LEMMA WorkerMoves ==
  ASSUME AccessInv, NEW t \in Workers, NEW w \in WorkRecords, Works(t, w), InHand(t, w),
         worker[t].step # "send", t # "start",
         UNCHANGED <<listFiles, everywhere, apart, gameVars, watchVars, bookVars>>
  PROVE  AccessInv'
  <1>1. HandsInv'
    BY MovedFacts DEF AccessInv, HandsInv, gameVars, watchVars, bookVars
  <1>2. DifferencesAreTold'
    BY MovedFacts, QuietStep DEF AccessInv, gameVars
  <1>3. RowsOnTheirWay'
    BY MovedFacts, OtherWorker DEF AccessInv, gameVars, bookVars
  <1> QED
    BY <1>1, <1>2, <1>3 DEF AccessInv

\* What the steps of a start without a write come down to.
LEMMA StartMoves ==
  ASSUME AccessInv, NEW w \in WorkRecords, Works("start", w), InHand("start", w),
         UNCHANGED <<listFiles, everywhere, apart, gameVars, watchVars>>, RowsOnTheirWay',
         listed' \in [ListKeys -> SUBSET FileEntries], meddled' = meddled,
         missed' \subseteq ListKeys \X Persons
  PROVE  AccessInv'
  <1>1. HandsInv'
    BY MovedFacts, WorkerFacts DEF AccessInv, HandsInv, gameVars, watchVars
  <1>2. worker["start"].step # "send"
    BY WorkerFacts DEF AccessInv, HandsInv, InHand
  <1>3. DifferencesAreTold'
    BY <1>2, WorkerFacts, MovedFacts, QuietStep DEF AccessInv, gameVars
  <1> QED
    BY <1>1, <1>3 DEF AccessInv

LEMMA ReadInv ==
  ASSUME AccessInv, NEW t \in Workers, ReadFile(t)
  PROVE  AccessInv'
  <1> DEFINE w == worker[t]
             w1 == [w EXCEPT !.step = "write", !.base = listFiles[w.list]]
  <1>1. w \in WorkRecords /\ InHand(t, w) /\ w.step = "read" /\ HandsInv /\ w.list \in ListKeys
    BY DEF ReadFile, AccessInv, HandsInv, InHand
  <1>2. (Works(t, NoWork) /\ t # "start") \/ Works(t, w1)
    BY <1>1, WorkerFacts DEF ReadFile, InHand
  <1>3. listFiles[w.list] \in SUBSET FileEntries
    BY <1>1 DEF HandsInv
  <1>4. w1 \in WorkRecords /\ InHand(t, w1)
    BY <1>1, <1>3 DEF InHand, WorkRecords
  <1>5. UNCHANGED <<listFiles, everywhere, apart, gameVars, watchVars, bookVars>>
    BY DEF ReadFile
  <1>6. CASE t # "start"
    BY <1>1, <1>2, <1>4, <1>5, <1>6, WorkerMoves, NoWorkFacts
  <1>7. CASE t = "start"
    <2>1. Works("start", w1) /\ worker'["start"] = w1
      BY <1>1, <1>2, <1>4, <1>7, MovedFacts
    <2>4. w1.step = "write" /\ w1.base = listFiles[w.list] /\ w1.list = w.list /\ w1.entry = w.entry
          /\ w1.todo = w.todo /\ w1.lists = w.lists
      BY <1>1 DEF WorkRecords
    <2> HIDE DEF w1
    <2>5. w = worker["start"]
      BY <1>7
    <2> HIDE DEF w
    <2>2. RowsOnTheirWay'
      BY <1>1, <1>5, <2>1, <2>4, <2>5 DEF AccessInv, RowsOnTheirWay, gameVars, bookVars, Unique
    <2>3. listed' = listed /\ meddled' = meddled /\ missed' = missed
      BY <1>5 DEF bookVars
    <2> QED
      BY <1>4, <1>5, <1>7, <2>1, <2>2, <2>3, StartMoves DEF AccessInv, HandsInv
  <1> QED
    BY <1>6, <1>7

LEMMA NextEntryInv ==
  ASSUME AccessInv, NEW t \in Workers, NextEntry(t)
  PROVE  AccessInv'
  <1> DEFINE w == worker[t]
             e == CHOOSE x \in w.todo : TRUE
             l == CHOOSE x \in w.lists : TRUE
             w1 == [w EXCEPT !.step = "read", !.entry = {e}, !.todo = @ \ {e}]
             w2 == [w EXCEPT !.list = l, !.lists = @ \ {l}, !.base = {}, !.todo = Listed(l)]
  <1>1. w \in WorkRecords /\ InHand(t, w) /\ w.step = "next" /\ HandsInv
    BY DEF NextEntry, AccessInv, HandsInv
  <1>2. UNCHANGED <<listFiles, everywhere, apart, gameVars, watchVars, missed, meddled>>
    BY DEF NextEntry
  <1>3. CASE w.todo # {}
    <2>1. e \in w.todo /\ e \in FileEntries /\ Works(t, w1) /\ UNCHANGED listed
      BY <1>1, <1>3 DEF NextEntry, WorkRecords
    <2>2. /\ w1 \in WorkRecords /\ w1.step = "read" /\ w1.entry = {e} /\ w1.todo = w.todo \ {e}
          /\ w1.list = w.list /\ w1.lists = w.lists /\ w1.task = w.task
      BY <1>1, <2>1 DEF WorkRecords
    <2> HIDE DEF e, w1
    <2>3. w.list \in ListKeys /\ (t = "start" => w.todo \subseteq listed[w.list])
      BY <1>3, <1>1 DEF AccessInv, RowsOnTheirWay, InHand
    <2>4. InHand(t, w1)
      BY <1>1, <2>1, <2>2, <2>3 DEF InHand
    <2>5. CASE t # "start"
      BY <1>1, <1>2, <2>1, <2>2, <2>4, <2>5, WorkerMoves DEF bookVars
    <2>6. CASE t = "start"
      <3>1. worker'["start"] = w1 /\ w = worker["start"]
        BY <1>1, <2>1, <2>2, <2>6, MovedFacts
      <3> HIDE DEF w
      <3>2. RowsOnTheirWay'
        BY <1>1, <1>2, <2>1, <2>2, <2>3, <2>6, <3>1 DEF AccessInv, RowsOnTheirWay, gameVars, Unique
      <3> QED
        BY <1>2, <2>1, <2>2, <2>4, <2>6, <3>2, StartMoves DEF AccessInv, HandsInv
    <2> QED
      BY <2>5, <2>6
  <1>4. CASE w.todo = {}
    <2>1. l \in w.lists /\ l \in ListKeys /\ Works(t, w2)
          /\ listed' = IF t = "start" THEN [listed EXCEPT ![l] = Listed(l)] ELSE listed
      BY <1>1, <1>4 DEF NextEntry, WorkRecords
    <2>2. Listed(l) \in SUBSET FileEntries /\ (Unique(everywhere[l]) => Unique(Listed(l)))
      BY <1>1, <2>1, ListedFacts
    <2>3. /\ w2 \in WorkRecords /\ w2.step = "next" /\ w2.todo = Listed(l)
          /\ w2.list = l /\ w2.lists = w.lists \ {l} /\ w2.task = w.task
      BY <1>1, <2>1, <2>2 DEF WorkRecords
    <2> HIDE DEF l, w2
    <2>4. InHand(t, w2)
      BY <1>1, <2>1, <2>3 DEF InHand
    <2>5. CASE t # "start"
      BY <1>1, <1>2, <2>1, <2>3, <2>4, <2>5, WorkerMoves DEF bookVars
    <2>6. CASE t = "start"
      <3>1. worker'["start"] = w2 /\ w = worker["start"]
        BY <1>1, <2>1, <2>3, <2>6, MovedFacts
      <3> HIDE DEF w
      <3>2. listed \in [ListKeys -> SUBSET FileEntries]
        BY <1>1 DEF HandsInv
      <3>3. /\ listed' \in [ListKeys -> SUBSET FileEntries] /\ listed'[l] = Listed(l)
            /\ \A k \in ListKeys : k # l => listed'[k] = listed[k]
        BY <2>1, <2>2, <2>6, <3>2
      <3>4. RowsOnTheirWay'
        BY <1>1, <1>2, <1>4, <2>1, <2>2, <2>3, <3>1, <3>3 DEF AccessInv, RowsOnTheirWay, gameVars, Unique
      <3> QED
        BY <1>1, <1>2, <2>1, <2>3, <2>4, <2>6, <3>3, <3>4, StartMoves DEF AccessInv, HandsInv
    <2> QED
      BY <2>5, <2>6
  <1> QED
    BY <1>3, <1>4

LEMMA AppliedInv ==
  ASSUME AccessInv, NEW t \in Workers, AppliedEverywhere(t)
  PROVE  AccessInv'
  BY NoWorkFacts, WorkerMoves DEF AppliedEverywhere

LEMMA CallFacts ==
  ASSUME NEW c \in Commands, NEW s \in Seq(Commands)
  PROVE  /\ Append(s, c) \in Seq(Commands)
         /\ \E i \in DOMAIN Append(s, c) : Append(s, c)[i] = c
         /\ \A x : (\E i \in DOMAIN s : s[i] = x) => \E i \in DOMAIN Append(s, c) : Append(s, c)[i] = x
  <1>1. Append(s, c) \in Seq(Commands) /\ DOMAIN Append(s, c) = 1..Len(s) + 1 /\ Len(s) \in Nat /\ DOMAIN s = 1..Len(s)
    OBVIOUS
  <1>2. Append(s, c)[Len(s) + 1] = c /\ \A i \in 1..Len(s) : Append(s, c)[i] = s[i]
    OBVIOUS
  <1> QED
    BY <1>1, <1>2

LEMMA SendInv ==
  ASSUME AccessInv, NEW t \in Workers, SendCommand(t)
  PROVE  AccessInv'
  <1>1. /\ worker[t] \in WorkRecords /\ InHand(t, worker[t]) /\ worker[t].step = "send" /\ HandsInv
        /\ worker[t].list \in ListKeys /\ t # "start"
    BY DEF SendCommand, AccessInv, HandsInv, InHand
  <1>2. PICK e \in FileEntries : worker[t].entry = {e}
    BY <1>1 DEF InHand
  <1> DEFINE c == Says(worker[t].list, worker[t].task = "add", e.who)
  <1>3. Works(t, NoWork) /\ console' = IF Alive THEN Append(console, c) ELSE console
    BY <1>2 DEF SendCommand
  <1>4. UNCHANGED <<listFiles, everywhere, apart, calls, inGame, run, plays, watchVars, bookVars>>
    BY DEF SendCommand
  <1>5. c \in Commands
    <2>1. (worker[t].task = "add") \in BOOLEAN /\ e.who \in Persons
      BY DEF FileEntries
    <2> QED
      BY <1>1, <2>1 DEF Says, Commands
  <1> HIDE DEF c
  <1>6. console' \in Seq(Commands)
        /\ \A x : (\E i \in DOMAIN console : console[i] = x) => \E i \in DOMAIN console' : console'[i] = x
    <2>1. console \in Seq(Commands)
      BY <1>1 DEF HandsInv
    <2>2. CASE Alive
      BY <1>3, <1>5, <2>1, <2>2, CallFacts
    <2>3. CASE ~Alive
      BY <1>3, <2>1, <2>3
    <2> QED
      BY <2>2, <2>3
  <1>7. HandsInv'
    BY <1>1, <1>3, <1>4, <1>6, MovedFacts, NoWorkFacts DEF HandsInv, watchVars, bookVars
  <1>8. ASSUME NEW l \in ListKeys, NEW p \in Persons, NEW put \in BOOLEAN, Told(l, p, put), run = "running"
        PROVE  Told(l, p, put)'
    <2>1. CASE \E i \in DOMAIN console : console[i] = Says(l, put, p)
      BY <1>6, <2>1 DEF Told
    <2>2. CASE \E u \in Workers : /\ worker[u].step = "send" /\ worker[u].list = l /\ p \in Who(worker[u].entry)
                        /\ IF put THEN worker[u].task = "add" ELSE worker[u].task = "remove"
      <3>1. PICK u \in Workers : /\ worker[u].step = "send" /\ worker[u].list = l /\ p \in Who(worker[u].entry)
                        /\ IF put THEN worker[u].task = "add" ELSE worker[u].task = "remove"
        BY <2>2
      <3>2. CASE u # t
        BY <1>1, <1>3, <3>1, <3>2, MovedFacts, NoWorkFacts DEF Told
      <3>3. CASE u = t
        <4>1. p = e.who /\ (put <=> worker[t].task = "add")
          BY <1>2, <3>1, <3>3 DEF Who
        <4>2. c = Says(l, put, p)
          BY <3>1, <3>3, <4>1 DEF c, Says
        <4>3. Alive
          BY <1>8 DEF Alive
        <4>4. \E i \in DOMAIN console' : console'[i] = c
          BY <1>1, <1>3, <1>5, <4>3, CallFacts DEF HandsInv
        <4> QED
          BY <4>2, <4>4 DEF Told
      <3> QED
        BY <3>2, <3>3
    <2> QED
      BY <1>8, <2>1, <2>2 DEF Told
  <1>9. DifferencesAreTold'
    BY <1>4, <1>8 DEF AccessInv, DifferencesAreTold
  <1>10. RowsOnTheirWay'
    BY <1>1, <1>3, <1>4, NoWorkFacts, MovedFacts, OtherWorker DEF AccessInv, bookVars
  <1> QED
    BY <1>7, <1>9, <1>10 DEF AccessInv

LEMMA ChangedFacts ==
  ASSUME NEW w \in WorkRecords, NEW e \in FileEntries, NEW es \in Changed(w, e)
  PROVE  /\ es \in SUBSET FileEntries
         /\ \A p : p # e.who => (p \in Who(es) <=> p \in Who(w.base))
         /\ w.task = "add" => e.who \in Who(es)
         /\ w.task = "remove" => e.who \notin Who(es)
         /\ w.task = "start" => es = WithEntry(w.base, e)
  <1>1. w.base \in SUBSET FileEntries
    BY DEF WorkRecords
  <1>2. es = {x \in w.base : x.who # e.who} \/ es = WithEntry(w.base, e)
    BY DEF Changed
  <1>3. w.task \in {"add", "start"} => es = WithEntry(w.base, e)
    BY DEF Changed
  <1>4. w.task = "remove" => es = {x \in w.base : x.who # e.who}
    BY DEF Changed
  <1> HIDE DEF WithEntry
  <1>5. \A p : p # e.who => (p \in Who({x \in w.base : x.who # e.who}) <=> p \in Who(w.base))
    BY DEF Who
  <1>6. e.who \notin Who({x \in w.base : x.who # e.who})
    BY DEF Who
  <1> QED
    <2>1. {x \in w.base : x.who # e.who} \in SUBSET FileEntries
      BY <1>1
    <2>2. CASE es = {x \in w.base : x.who # e.who}
      BY <1>3, <1>5, <1>6, <2>1, <2>2, <1>1, WithFacts
    <2>3. CASE es = WithEntry(w.base, e)
      <3>1. es \in SUBSET FileEntries /\ Who(es) = Who(w.base) \cup {e.who}
        BY <1>1, <2>3, WithFacts
      <3>2. w.task = "remove" => e.who \notin Who(es)
        BY <1>4, <1>6
      <3> QED
        BY <2>3, <3>1, <3>2
    <2> QED
      BY <1>2, <2>2, <2>3

LEMMA WriteInv ==
  ASSUME AccessInv, NEW t \in Workers, WriteFile(t)
  PROVE  AccessInv'
  <1> DEFINE w == worker[t]
             w1 == Onward(w)
  <1>1. w \in WorkRecords /\ InHand(t, w) /\ w.step = "write" /\ HandsInv /\ w.list \in ListKeys
    BY DEF WriteFile, AccessInv, HandsInv, InHand
  <1>2. PICK e \in FileEntries : w.entry = {e}
    BY <1>1 DEF InHand
  <1>3. PICK es \in Changed(w, e) : listFiles' = [listFiles EXCEPT ![w.list] = es]
    BY <1>2 DEF WriteFile
  <1>4. Works(t, w1) /\ UNCHANGED <<everywhere, calls, gameVars, watchVars, listed, missed>>
        /\ apart' = (IF run = "running" /\ (w.task \notin {"add", "remove"} \/ w.base # listFiles[w.list])
                      THEN apart \cup {w.list} ELSE apart)
        /\ meddled' = IF t # "start" /\ run \in {"starting", "booting"}
                      THEN meddled \cup {w.list} ELSE meddled
    BY DEF WriteFile
  <1>5. /\ w1 \in WorkRecords /\ InHand(t, w1)
        /\ w.task \in {"add", "remove"} => w1.step = "send" /\ w1.list = w.list /\ w1.entry = w.entry /\ w1.task = w.task
        /\ w.task \notin {"add", "remove"} => w1.step # "send"
        /\ t = "start" => w1.step = "next" /\ w1.list = w.list /\ w1.lists = w.lists /\ w1.todo = w.todo
    BY <1>1, NoWorkFacts DEF Onward, Spread, InHand, WorkRecords
  <1> HIDE DEF w1
  <1>6. /\ worker' \in [Workers -> WorkRecords] /\ worker'[t] = w1
        /\ \A u \in Workers : u # t => worker'[u] = worker[u]
        /\ \A u \in Workers : InHand(u, worker'[u])
    BY <1>1, <1>4, <1>5, MovedFacts
  <1>7. /\ listFiles' \in [ListKeys -> SUBSET FileEntries] /\ listFiles'[w.list] = es
        /\ \A l \in ListKeys : l # w.list => listFiles'[l] = listFiles[l]
    BY <1>1, <1>3, ChangedFacts DEF HandsInv
  <1>8. HandsInv'
    BY <1>1, <1>4, <1>6, <1>7 DEF HandsInv, gameVars, watchVars
  <1> HIDE DEF w
  <1>9. DifferencesAreTold'
    <2> SUFFICES ASSUME run = "running", NEW l \in ListKeys \ apart', NEW p \in Persons
                 PROVE  /\ p \in Who(listFiles'[l]) /\ p \notin Who(inGame[l]) => Told(l, p, TRUE)'
                        /\ p \notin Who(listFiles'[l]) /\ p \in Who(inGame[l]) => Told(l, p, FALSE)'
      BY <1>4 DEF DifferencesAreTold, gameVars
    <2>1. l \notin apart
      BY <1>4
    <2>2. \A put \in BOOLEAN : Told(l, p, put) => Told(l, p, put)'
      BY <1>1, <1>4, <1>6, ToldStays DEF w, gameVars
    <2>3. CASE l # w.list \/ p # e.who
      <3>1. p \in Who(listFiles'[l]) <=> p \in Who(listFiles[l])
        <4>1. CASE l # w.list
          BY <1>7, <4>1
        <4>2. CASE l = w.list
          <5>1. w.base = listFiles[l]
            BY <1>4, <2>1, <4>2
          <5> QED
            BY <1>1, <1>7, <2>3, <4>2, <5>1, ChangedFacts
        <4> QED
          BY <4>1, <4>2
      <3> QED
        BY <2>1, <2>2, <3>1 DEF AccessInv, DifferencesAreTold
    <2>4. CASE l = w.list /\ p = e.who
      <3>1. w.task \in {"add", "remove"}
        BY <1>4, <2>4
      <3>2. p \in Who(w1.entry)
        BY <1>2, <1>5, <2>4, <3>1 DEF Who
      <3>3. w.task = "add" => Told(l, p, TRUE)'
        BY <1>5, <1>6, <2>4, <3>1, <3>2 DEF Told
      <3>4. w.task = "remove" => Told(l, p, FALSE)'
        BY <1>5, <1>6, <2>4, <3>1, <3>2 DEF Told
      <3> QED
        BY <1>1, <1>7, <2>4, <3>1, <3>3, <3>4, ChangedFacts
    <2> QED
      BY <2>3, <2>4
  <1>10. RowsOnTheirWay'
    <2>1. RowsOnTheirWay /\ run' = run /\ everywhere' = everywhere /\ listed' = listed /\ missed' = missed
      BY <1>4 DEF AccessInv, gameVars
    <2>2. CASE t # "start"
      <3>1. worker'["start"] = worker["start"]
        BY <1>6, <2>2, WorkerFacts
      <3>2. worker["start"].step = "write" => run = "starting"
        BY <2>1 DEF RowsOnTheirWay
      <3> QED
        <4>1. run \in {"starting", "booting"} => meddled' = meddled \cup {w.list}
          BY <1>4, <2>2
        <4>2. meddled \subseteq meddled'
          BY <1>4
        <4>3. worker["start"].step = "write" => worker["start"].list \in ListKeys
          BY <1>1, WorkerFacts DEF HandsInv, InHand
        <4>4. \A l \in ListKeys : run \in {"starting", "booting"} /\ l \notin meddled' => listFiles'[l] = listFiles[l] /\ l \notin meddled
          BY <1>7, <4>1
        <4> QED
          BY <2>1, <3>1, <3>2, <4>2, <4>3, <4>4 DEF RowsOnTheirWay, Unique
    <2>3. CASE t = "start"
      <3>1. w = worker["start"] /\ worker'["start"] = w1 /\ w.task = "start" /\ meddled' = meddled
        BY <1>1, <1>4, <1>6, <2>3 DEF w, InHand
      <3>2. es = WithEntry(w.base, e) /\ w.entry \subseteq listed[w.list]
        BY <1>1, <2>1, <3>1, ChangedFacts DEF RowsOnTheirWay
      <3>3. ASSUME w.list \notin meddled, NEW f \in listed[w.list], f \in listFiles[w.list] \/ f \in w.entry
            PROVE  f \in es
        <4>1. w.base = listFiles[w.list] /\ w.base \in SUBSET FileEntries
          BY <1>1, <2>1, <3>1, <3>3 DEF RowsOnTheirWay, WorkRecords
        <4>2. e \in listed[w.list] /\ (f.who = e.who => f = e)
          BY <1>1, <1>2, <2>1, <3>2 DEF RowsOnTheirWay, Unique
        <4> QED
          BY <1>2, <3>2, <3>3, <4>1, <4>2, WithFacts
      <3> QED
        BY <1>1, <1>5, <1>7, <2>1, <2>3, <3>1, <3>3 DEF RowsOnTheirWay, Unique
    <2> QED
      BY <2>2, <2>3
  <1> QED
    BY <1>8, <1>9, <1>10 DEF AccessInv

LEMMA WriteFailsInv ==
  ASSUME AccessInv, NEW t \in Workers, WriteFails(t)
  PROVE  AccessInv'
  <1> DEFINE w == worker[t]
             w1 == IF Spread(w) THEN Onward(w) ELSE NoWork
  <1>1. w \in WorkRecords /\ InHand(t, w) /\ w.step = "write" /\ HandsInv /\ w.list \in ListKeys
    BY DEF WriteFails, AccessInv, HandsInv, InHand
  <1>2. Works(t, w1) /\ UNCHANGED <<listFiles, everywhere, apart, calls, gameVars, watchVars, listed, meddled>>
        /\ missed' = IF t = "start" THEN missed \cup ({w.list} \X Who(w.entry)) ELSE missed
    BY DEF WriteFails
  <1>3. /\ w1 \in WorkRecords /\ InHand(t, w1)
        /\ t = "start" => w1.step = "next" /\ w1.list = w.list /\ w1.lists = w.lists /\ w1.todo = w.todo
    BY <1>1, NoWorkFacts DEF Onward, Spread, InHand, WorkRecords
  <1> HIDE DEF w1
  <1>4. CASE t # "start"
    BY <1>1, <1>2, <1>3, <1>4, WorkerMoves DEF bookVars
  <1>5. CASE t = "start"
    <2>1. w = worker["start"] /\ worker'["start"] = w1
      BY <1>1, <1>2, <1>3, <1>5, MovedFacts
    <2>2. Who(w.entry) \subseteq Persons
      BY <1>1 DEF WorkRecords, Who, FileEntries
    <2>3. missed' \subseteq ListKeys \X Persons
      BY <1>1, <1>2, <2>2 DEF HandsInv
    <2>4. \A f \in w.entry : <<w.list, f.who>> \in missed'
      BY <1>2, <1>5 DEF Who
    <2>5. missed \subseteq missed'
      BY <1>2
    <2> HIDE DEF w
    <2>6. RowsOnTheirWay'
      BY <1>1, <1>2, <1>3, <1>5, <2>1, <2>4, <2>5 DEF AccessInv, RowsOnTheirWay, gameVars, Unique
    <2> QED
      BY <1>1, <1>2, <1>3, <1>5, <2>3, <2>6, StartMoves DEF AccessInv, HandsInv
  <1> QED
    BY <1>4, <1>5
-----------------------------------------------------------------------------
(* The start, the game and the watch                                       *)

LEMMA BeginStartInv == ASSUME AccessInv, BeginStart PROVE AccessInv'
  <1> DEFINE w == [NoWork EXCEPT !.task = "start", !.step = "next", !.lists = ListKeys]
  <1>1. Works("start", w) /\ run = "off" /\ run' = "starting" /\ missed' = {} /\ meddled' = {}
        /\ UNCHANGED <<listFiles, everywhere, apart, calls, inGame, console, plays, watchVars, listed>>
    BY DEF BeginStart
  <1>2. w \in WorkRecords /\ w.task = "start" /\ w.step = "next" /\ w.lists = ListKeys /\ w.todo = {}
    BY DEF NoWork, WorkRecords
  <1> HIDE DEF w
  <1>3. InHand("start", w)
    BY <1>2 DEF InHand
  <1>4. worker'["start"] = w
    BY <1>1, <1>2, MovedFacts, WorkerFacts DEF AccessInv
  <1>5. HandsInv'
    BY <1>1, <1>2, <1>3, MovedFacts, WorkerFacts DEF AccessInv, HandsInv, watchVars
  <1>6. DifferencesAreTold'
    BY <1>1 DEF DifferencesAreTold
  <1>7. RowsOnTheirWay'
    BY <1>1, <1>2, <1>4 DEF AccessInv, RowsOnTheirWay, Unique
  <1> QED
    BY <1>5, <1>6, <1>7 DEF AccessInv

LEMMA LaunchInv == ASSUME AccessInv, Launch PROVE AccessInv'
  <1>1. Works("start", NoWork) /\ run' = "booting" /\ worker["start"].step = "next"
        /\ worker["start"].todo = {} /\ worker["start"].lists = {}
        /\ UNCHANGED <<listFiles, everywhere, apart, calls, inGame, console, plays, watchVars, bookVars>>
    BY DEF Launch
  <1>2. worker'["start"] = NoWork
    BY <1>1, MovedFacts, WorkerFacts, NoWorkFacts DEF AccessInv
  <1>3. HandsInv'
    BY <1>1, NoWorkFacts, MovedFacts, WorkerFacts DEF AccessInv, HandsInv, watchVars, bookVars
  <1>4. DifferencesAreTold'
    BY <1>1 DEF DifferencesAreTold
  <1>5. run = "starting"
    BY <1>1 DEF AccessInv, RowsOnTheirWay
  <1>6. RowsOnTheirWay'
    BY <1>1, <1>2, <1>5, NoWorkFacts DEF AccessInv, RowsOnTheirWay, Unique, bookVars
  <1> QED
    BY <1>3, <1>4, <1>6 DEF AccessInv

LEMMA BootInv == ASSUME AccessInv, Boot PROVE AccessInv'
  <1>1. HandsInv'
    BY DEF Boot, AccessInv, HandsInv, watchVars
  <1>2. DifferencesAreTold'
    BY DEF Boot, DifferencesAreTold
  <1>3. RowsOnTheirWay'
    <2>1. \A l \in ListKeys : listed'[l] = {}
      BY DEF Boot
    <2>2. worker["start"].step = "" /\ worker["start"].todo = {}
      BY WorkerFacts DEF Boot, AccessInv, RowsOnTheirWay, HandsInv, InHand
    <2> QED
      BY <2>1, <2>2 DEF Boot, AccessInv, RowsOnTheirWay, Unique
  <1> QED
    BY <1>1, <1>2, <1>3 DEF AccessInv

LEMMA GameEndsInv == ASSUME AccessInv, GameEnds PROVE AccessInv'
  <1>1. HandsInv'
    BY DEF GameEnds, AccessInv, HandsInv, watchVars, bookVars
  <1>2. DifferencesAreTold'
    BY DEF GameEnds, DifferencesAreTold
  <1>3. run # "starting"
    BY DEF GameEnds, Alive
  <1>4. RowsOnTheirWay'
    BY <1>3 DEF GameEnds, AccessInv, RowsOnTheirWay, Unique, bookVars
  <1> QED
    BY <1>1, <1>2, <1>4 DEF AccessInv

\* A command of the game leaves a list alone or makes its file what the game knows.
LEMMA DoesFacts ==
  ASSUME HandsInv, NEW c \in Commands, GameDoes(c)
  PROVE  /\ listFiles' \in [ListKeys -> SUBSET FileEntries] /\ inGame' \in [ListKeys -> SUBSET FileEntries]
         /\ apart' \subseteq ListKeys
         /\ \A l \in ListKeys \ apart' :
              \/ listFiles'[l] = inGame'[l]
              \/ /\ l \notin apart /\ listFiles'[l] = listFiles[l] /\ inGame'[l] = inGame[l]
                 /\ c.list = l => (c.put <=> c.who \in Who(inGame[l]))
  <1>1. c.list \in ListKeys /\ c.who \in Persons /\ c.put \in BOOLEAN
    BY DEF Commands
  <1>2. Entry(c.list, c.who, 4) \in FileEntries
    BY <1>1, EntryFacts DEF Levels
  <1>3. inGame \in [ListKeys -> SUBSET FileEntries] /\ listFiles \in [ListKeys -> SUBSET FileEntries] /\ apart \subseteq ListKeys
    BY DEF HandsInv
  <1>4. CASE c.put = (c.who \in Who(inGame[c.list]))
    BY <1>3, <1>4 DEF GameDoes
  <1>5. CASE c.put # (c.who \in Who(inGame[c.list]))
    <2>1. PICK es \in SUBSET FileEntries :
            /\ inGame' = [inGame EXCEPT ![c.list] = es]
            /\ listFiles' = [listFiles EXCEPT ![c.list] = es]
            /\ apart' = apart \ {c.list}
      <3> DEFINE es == IF c.put THEN inGame[c.list] \cup {Entry(c.list, c.who, 4)}
                       ELSE {e \in inGame[c.list] : e.who # c.who}
      <3>1. es \in SUBSET FileEntries
        BY <1>1, <1>2, <1>3
      <3> QED
        BY <1>5, <3>1 DEF GameDoes
    <2> QED
      BY <1>1, <1>3, <2>1
  <1> QED
    BY <1>4, <1>5

LEMMA GameInv ==
  ASSUME AccessInv, NEW c \in Commands, GameDoes(c), run = "running",
         \A x : (\E i \in DOMAIN console : console[i] = x)
                => x = c \/ \E i \in DOMAIN console' : console'[i] = x,
         console' \in Seq(Commands), reops' \in [FixedOps -> Nat],
         UNCHANGED <<everywhere, worker, calls, run, tries, bookVars>>
  PROVE  AccessInv'
  <1>1. HandsInv'
    BY DoesFacts DEF AccessInv, HandsInv, bookVars
  <1>2. RowsOnTheirWay'
    <2>1. worker["start"].step = ""
      BY DEF AccessInv, RowsOnTheirWay
    <2> QED
      BY <2>1 DEF AccessInv, RowsOnTheirWay, Unique, bookVars
  <1>3. ASSUME NEW l \in ListKeys \ apart', NEW p \in Persons, NEW put \in BOOLEAN,
               put <=> p \in Who(listFiles'[l]), put <=> p \notin Who(inGame'[l]),
               l \notin apart => Told(l, p, put) \/ listFiles[l] # listFiles'[l] \/ inGame[l] # inGame'[l]
        PROVE  Told(l, p, put)'
    <2>1. l \notin apart /\ inGame'[l] = inGame[l] /\ Told(l, p, put)
          /\ (c.list = l => (c.put <=> c.who \in Who(inGame[l])))
      BY <1>3, DoesFacts DEF AccessInv
    <2>2. CASE \E i \in DOMAIN console : console[i] = Says(l, put, p)
      <3>1. c # Says(l, put, p)
        BY <1>3, <2>1 DEF Says
      <3> QED
        BY <2>2, <3>1 DEF Told
    <2>3. CASE ~\E i \in DOMAIN console : console[i] = Says(l, put, p)
      BY <2>1, <2>3 DEF Told
    <2> QED
      BY <2>2, <2>3
  <1>4. DifferencesAreTold'
    BY <1>3 DEF AccessInv, DifferencesAreTold
  <1> QED
    BY <1>1, <1>2, <1>4 DEF AccessInv

LEMMA ReadFacts ==
  ASSUME HandsInv, NEW c \in Commands, NEW loud \in BOOLEAN, LineRead(c, loud)
  PROVE  reops' \in [FixedOps -> Nat]
  BY DEF HandsInv, LineRead

LEMMA ObeysInv == ASSUME AccessInv, GameObeys PROVE AccessInv'
  <1>1. console \in Seq(Commands) /\ console # <<>> /\ console' = Tail(console)
    BY DEF GameObeys, AccessInv, HandsInv
  <1>2. Head(console) \in Commands /\ Tail(console) \in Seq(Commands)
    BY <1>1
  <1>3. ASSUME NEW x, NEW i \in DOMAIN console, console[i] = x
        PROVE  x = Head(console) \/ \E j \in DOMAIN console' : console'[j] = x
    <2>1. i \in 1..Len(console) /\ DOMAIN console' = 1..Len(console) - 1 /\ Len(console) \in Nat \ {0}
      BY <1>1
    <2>2. CASE i = 1
      BY <1>1, <1>3, <2>2
    <2>3. CASE i # 1
      <3>1. i - 1 \in DOMAIN console' /\ console'[i - 1] = x
        BY <1>1, <1>3, <2>1, <2>3
      <3> QED
        BY <3>1
    <2> QED
      BY <2>2, <2>3
  <1> QED
    BY <1>1, <1>2, <1>3, GameInv, ReadFacts DEF GameObeys, AccessInv

LEMMA PlayedInv ==
  ASSUME AccessInv, NEW l \in ListKeys, NEW p \in Persons, NEW put \in BOOLEAN, NEW loud \in BOOLEAN,
         Played(Says(l, put, p), loud)
  PROVE  AccessInv'
  <1>1. Says(l, put, p) \in Commands
    BY DEF Says, Commands
  <1> QED
    BY <1>1, GameInv, ReadFacts DEF Played, AccessInv, HandsInv

LEMMA WatchInv ==
  ASSUME AccessInv, NEW p \in FixedOps, TimeGoesOn(p) \/ Reop(p) \/ Watch(p)
  PROVE  AccessInv'
  <1>1. UNCHANGED <<listFiles, everywhere, worker, apart, inGame, run, bookVars>>
    BY DEF TimeGoesOn, Reop, Watch, Enforce, gameVars
  <1>2. reops' \in [FixedOps -> Nat] /\ tries' \in [FixedOps -> 0..Tries]
    <2>1. reops \in [FixedOps -> Nat] /\ tries \in [FixedOps -> 0..Tries] /\ Tries \in Nat \ {0}
      BY AccessAssumption DEF AccessInv, HandsInv
    <2>2. tries' \in [FixedOps -> 0..Tries]
      <3>1. CASE TimeGoesOn(p)
        BY <2>1, <3>1 DEF TimeGoesOn, WindowMoves
      <3>2. CASE Enforce(p)
        BY <2>1, <3>2 DEF Enforce
      <3> QED
        BY <3>1, <3>2 DEF Reop, Watch
    <2>3. reops' \in [FixedOps -> Nat]
      BY <2>1 DEF TimeGoesOn, Reop, Watch
    <2> QED
      BY <2>2, <2>3
  <1>3. console' \in Seq(Commands)
        /\ \A x : (\E i \in DOMAIN console : console[i] = x) => \E i \in DOMAIN console' : console'[i] = x
    <2>1. Says("ops", TRUE, p) \in Commands
      BY AccessAssumption DEF Says, Commands
    <2>2. console \in Seq(Commands)
      BY DEF AccessInv, HandsInv
    <2>3. console' = console \/ console' = Append(console, Says("ops", TRUE, p))
      BY DEF TimeGoesOn, Reop, Watch, Enforce, gameVars
    <2> QED
      <3>1. CASE console' = console
        BY <2>2, <3>1
      <3>2. CASE console' = Append(console, Says("ops", TRUE, p))
        <4> DEFINE c == Says("ops", TRUE, p)
        <4> HIDE DEF c
        <4>1. c \in Commands /\ console' = Append(console, c)
          BY <2>1, <3>2 DEF c
        <4> QED
          BY <2>2, <4>1, CallFacts
      <3> QED
        BY <2>3, <3>1, <3>2
  <1>4. HandsInv'
    BY <1>1, <1>2, <1>3 DEF AccessInv, HandsInv, bookVars
  <1>5. DifferencesAreTold'
    BY <1>1, <1>3, ToldStays DEF AccessInv, DifferencesAreTold
  <1>6. RowsOnTheirWay'
    BY <1>1 DEF AccessInv, RowsOnTheirWay, Unique, bookVars
  <1> QED
    BY <1>4, <1>5, <1>6 DEF AccessInv

LEMMA AccessNextInv == AccessInv /\ [AccessNext]_accessVars => AccessInv'
  <1> SUFFICES ASSUME AccessInv, [AccessNext]_accessVars PROVE AccessInv'
    OBVIOUS
  <1>1. CASE \E t \in Workers : WorkerStep(t)
    BY <1>1, ReadInv, WriteInv, WriteFailsInv, NextEntryInv, SendInv, AppliedInv DEF WorkerStep
  <1>2. CASE UNCHANGED accessVars
    <2>1. HandsInv'
      BY <1>2 DEF accessVars, gameVars, watchVars, bookVars, AccessInv, HandsInv
    <2>2. DifferencesAreTold'
      BY <1>2, ToldStays DEF accessVars, gameVars, AccessInv, DifferencesAreTold
    <2>3. RowsOnTheirWay'
      BY <1>2 DEF accessVars, gameVars, bookVars, AccessInv, RowsOnTheirWay, Unique
    <2> QED
      BY <2>1, <2>2, <2>3 DEF AccessInv
  <1> QED
    BY <1>1, <1>2, RowInv, RequestInv, BeginStartInv, LaunchInv, BootInv, GameEndsInv, ObeysInv, PlayedInv,
       WatchInv DEF AccessNext

LEMMA InvariantOfAccess == AccessSpec => []AccessInv
  BY AccessInitInv, AccessNextInv, PTL DEF AccessSpec

LEMMA AccessHoldsThen == AccessInv => AccessHolds
  <1> SUFFICES ASSUME AccessInv PROVE AccessHolds
    OBVIOUS
  <1>1. FilesAreKnown
    <2> SUFFICES ASSUME run = "running", console = <<>>, \A t \in Workers : worker[t].step # "send",
                        NEW l \in ListKeys \ apart
                 PROVE  Who(listFiles[l]) = Who(inGame[l])
      BY DEF FilesAreKnown
    <2>1. Who(listFiles[l]) \subseteq Persons /\ Who(inGame[l]) \subseteq Persons
      BY DEF AccessInv, HandsInv, Who, FileEntries
    <2>2. \A p \in Persons, put \in BOOLEAN : ~Told(l, p, put)
      BY DEF Told
    <2> QED
      BY <2>1, <2>2 DEF AccessInv, DifferencesAreTold
  <1>2. RowsReachTheGame
    <2> SUFFICES ASSUME run = "booting" PROVE RowsReachTheGame
      BY DEF RowsReachTheGame
    <2>1. worker["start"].todo = {} /\ worker["start"].lists = {} /\ worker["start"].step = ""
      BY WorkerFacts DEF AccessInv, HandsInv, InHand, RowsOnTheirWay
    <2> QED
      BY <2>1 DEF AccessInv, RowsOnTheirWay, RowsReachTheGame
  <1> QED
    BY <1>1, <1>2 DEF AccessHolds

\* The lists and the rows keep their types, a try of the watch stays inside its window.
THEOREM AccessTypesHold == AccessSpec => []AccessTypeOK
  <1>1. AccessInv => AccessTypeOK
    BY DEF AccessInv, HandsInv, AccessTypeOK
  <1> QED
    BY <1>1, InvariantOfAccess, PTL

\* However requests, commands and the game's own writes cross: an idle game knows whom the
\* files name, and a start boots with the rows it read (global_access_service.py).
THEOREM AccessAlwaysHolds == AccessSpec => []AccessHolds
  BY AccessHoldsThen, InvariantOfAccess, PTL
=============================================================================
