--------------------------- MODULE LoginHoldProofs ---------------------------
(* A held client hears from the proxy before its read timeout, for every    *)
(* choice of times that satisfies PatienceAssumption; and none of its own   *)
(* bytes is lost, doubled or reordered, however TCP splits them.            *)
EXTENDS LoginHold, SequenceTheorems, WellFoundedInduction, TLAPS

LEMMA Times ==
  /\ Patience \in Nat /\ ReadTimeout \in Nat \ {0} /\ BeatInterval \in Nat \ {0}
  /\ ReadyTimeout \in Nat \ {0} /\ HoldTimeout \in Nat \ {0}
  /\ 2 * ReadTimeout + BeatInterval < Patience /\ ReadyTimeout < Patience
  BY TimesAssumption, PatienceAssumption

StreamsOK ==
  /\ script \in Seq(Unit) /\ wire \in Seq(Unit)
  /\ pc = "handshake" => pending \in Seq(Unit)

ClocksOK ==
  /\ waited \in Nat /\ quiet \in Nat /\ beatIn \in Nat /\ readIn \in Nat
  /\ quiet <= waited

\* While the handshake is read, the recv under way is paid for.
HandshakePaid ==
  pc = "handshake" =>
    /\ Len(pending) = 0 => waited + readIn <= ReadTimeout
    /\ Len(pending) # 0 => waited + readIn <= 2 * ReadTimeout

WakePaid == pc = "wake" => waited <= 2 * ReadTimeout

\* A modern client has been quiet no longer than since the last heartbeat.
BeatPaid ==
  modern /\ pc \in {"check", "recv"} => quiet + beatIn <= 2 * ReadTimeout + BeatInterval

\* A recv of the hold is over by the next heartbeat ...
RecvPaid == pc = "recv" => readIn <= 1 /\ (modern => readIn <= beatIn)

\* ... and, for a client that cannot be held, by the end of its budget.
BudgetPaid ==
  ~modern /\ pc \in {"check", "recv"} =>
    /\ waited <= 2 * ReadTimeout \/ waited <= ReadyTimeout
    /\ pc = "recv" => waited + readIn <= ReadyTimeout

ConnectPaid == pc = "connect" => quiet < Patience

HoldInv ==
  /\ pc \in Places /\ modern \in BOOLEAN
  /\ StreamsOK /\ ClocksOK
  /\ HandshakePaid /\ WakePaid /\ BeatPaid /\ RecvPaid /\ BudgetPaid /\ ConnectPaid
-----------------------------------------------------------------------------
LEMMA UnitsOfPackets ==
  ASSUME NEW p \in Packets
  PROVE  Whole(p) \in Seq(Unit)
  BY DEF Whole, Unit

\* Reading a part of the wire leaves the rest of it.
LEMMA ChunkOfWire ==
  ASSUME wire \in Seq(Unit), NEW n \in 1..Len(wire)
  PROVE  /\ Chunk(n) \in Seq(Unit) /\ Len(Chunk(n)) = n
         /\ SubSeq(wire, n + 1, Len(wire)) \in Seq(Unit)
  BY DEF Chunk

LEMMA Appended ==
  ASSUME NEW S, NEW a \in Seq(S), NEW b \in Seq(S)
  PROVE  a \o b \in Seq(S) /\ Len(a \o b) = Len(a) + Len(b) /\ Len(a) \in Nat
  OBVIOUS

LEMMA InitHolds == Init => HoldInv
<1> SUFFICES ASSUME Init PROVE HoldInv
  OBVIOUS
<1>1. Script \in Seq(Unit)
  <2>1. Whole("handshake") \in Seq(Unit) /\ Whole("login") \in Seq(Unit)
    BY UnitsOfPackets DEF Packets
  <2>2. QED
    BY <2>1 DEF Script
<1>2. StreamsOK
  BY <1>1 DEF Init, StreamsOK
<1>3. ClocksOK /\ HandshakePaid
  BY Times DEF Init, ClocksOK, HandshakePaid
<1>4. QED
  BY <1>2, <1>3 DEF Init, HoldInv, Places, WakePaid, BeatPaid, RecvPaid, BudgetPaid, ConnectPaid

\* The bound on a held client's silence, wherever its connection is held.
LEMMA SilenceIsBounded ==
  ASSUME HoldInv, ~Ended
  PROVE  quiet < Patience
<1> USE Times
<1>1. CASE pc = "handshake"
  BY <1>1 DEF HoldInv, ClocksOK, HandshakePaid
<1>2. CASE pc = "wake"
  BY <1>2 DEF HoldInv, ClocksOK, WakePaid
<1>3. CASE pc \in {"check", "recv"}
  BY <1>3 DEF HoldInv, ClocksOK, BeatPaid, BudgetPaid
<1>4. CASE pc = "connect"
  BY <1>4 DEF HoldInv, ConnectPaid
<1>5. QED
  BY <1>1, <1>2, <1>3, <1>4 DEF HoldInv, Places, Ended

\* An action that leaves the proxy's thread and its clocks alone.
LEMMA WorldSteps ==
  ASSUME HoldInv, ClientSends \/ ClientAnswers \/ ClientLeaves \/ WorkerEnds \/ ServerMoves
  PROVE  HoldInv'
<1>1. /\ UNCHANGED <<pc, modern, pending, waited, quiet, beatIn, readIn>>
  BY DEF ClientSends, ClientAnswers, ClientLeaves, WorkerEnds, ServerMoves,
         clientVars, bufferVars, streamVars, timeVars
<1>2. script' \in Seq(Unit) /\ wire' \in Seq(Unit)
  <2> USE DEF HoldInv, StreamsOK
  <2>1. CASE ClientSends
    BY <2>1 DEF ClientSends
  <2>2. CASE ClientAnswers
    <3>1. Whole("answer") \in Seq(Unit)
      BY UnitsOfPackets DEF Packets
    <3>2. QED
      BY <2>2, <3>1 DEF ClientAnswers
  <2>3. CASE ClientLeaves \/ WorkerEnds \/ ServerMoves
    BY <2>3 DEF ClientLeaves, WorkerEnds, ServerMoves, streamVars
  <2>4. QED
    BY <2>1, <2>2, <2>3
<1>3. QED
  BY <1>1, <1>2 DEF HoldInv, StreamsOK, ClocksOK, HandshakePaid, WakePaid, BeatPaid,
                    RecvPaid, BudgetPaid, ConnectPaid

LEMMA TickKeeps ==
  ASSUME HoldInv, Tick
  PROVE  HoldInv'
<1> USE Times DEF HoldInv
<1>1. /\ UNCHANGED <<pc, modern, script, wire, pending>>
      /\ pc \in {"handshake", "recv"} /\ readIn > 0
      /\ readIn' = readIn - 1 /\ waited' = waited + 1
      /\ beatIn' = IF beatIn > 0 THEN beatIn - 1 ELSE 0
      /\ quiet' = quiet \/ quiet' = quiet + 1
  BY DEF Tick, clientVars, streamVars, bufferVars
<1>2. StreamsOK' /\ ClocksOK'
  BY <1>1 DEF StreamsOK, ClocksOK
<1>3. HandshakePaid' /\ WakePaid' /\ ConnectPaid'
  BY <1>1 DEF ClocksOK, HandshakePaid, WakePaid, ConnectPaid
<1>4. RecvPaid' /\ BeatPaid'
  BY <1>1 DEF ClocksOK, RecvPaid, BeatPaid
<1>5. BudgetPaid'
  BY <1>1 DEF ClocksOK, BudgetPaid
<1>6. QED
  BY <1>1, <1>2, <1>3, <1>4, <1>5

LEMMA HandshakeKeeps ==
  ASSUME HoldInv, ReadHandshake
  PROVE  HoldInv'
<1> USE Times DEF HoldInv
<1>1. PICK n \in 1..Len(wire) :
        /\ Received(n)
        /\ pending' = pending \o Chunk(n)
        /\ IF HandshakeDone(pending \o Chunk(n))
           THEN pc' = Route /\ UNCHANGED readIn
           ELSE readIn' = ReadTimeout /\ UNCHANGED pc
  BY DEF ReadHandshake
<1>2. /\ pc = "handshake" /\ UNCHANGED <<modern, script, waited, quiet, beatIn>>
      /\ wire' = SubSeq(wire, n + 1, Len(wire))
  BY <1>1 DEF ReadHandshake, Received, clientVars
<1>3. /\ pending \in Seq(Unit) /\ wire \in Seq(Unit) /\ Len(pending) \in Nat
      /\ pending' \in Seq(Unit) /\ Len(pending') = Len(pending) + n
      /\ wire' \in Seq(Unit)
  <2>1. pending \in Seq(Unit) /\ wire \in Seq(Unit)
    BY <1>2 DEF StreamsOK
  <2>2. Chunk(n) \in Seq(Unit) /\ Len(Chunk(n)) = n /\ wire' \in Seq(Unit)
    BY <1>2, <2>1, ChunkOfWire
  <2>3. /\ pending \o Chunk(n) \in Seq(Unit) /\ Len(pending) \in Nat
        /\ Len(pending \o Chunk(n)) = Len(pending) + n
    <3>1. Len(pending \o Chunk(n)) = Len(pending) + Len(Chunk(n))
      BY <2>1, <2>2, Appended
    <3>2. QED
      BY <2>1, <2>2, <3>1, Appended
  <2>4. QED
    BY <1>1, <2>1, <2>2, <2>3
<1>4. StreamsOK'
  BY <1>2, <1>3 DEF StreamsOK
<1>5. CASE HandshakeDone(pending \o Chunk(n))
  <2>1. pc' \in {"connect", "wake", "closed"} /\ readIn' = readIn
    BY <1>1, <1>5 DEF Route
  <2>2. waited <= 2 * ReadTimeout /\ quiet < Patience
    BY <1>2, <1>3 DEF ClocksOK, HandshakePaid
  <2>3. QED
    BY <1>2, <1>4, <2>1, <2>2 DEF ClocksOK, HandshakePaid, WakePaid, BeatPaid, RecvPaid,
                                  BudgetPaid, ConnectPaid, Places
<1>6. CASE ~HandshakeDone(pending \o Chunk(n))
  <2>1. pc' = "handshake" /\ readIn' = ReadTimeout
    BY <1>1, <1>2, <1>6
  <2>2. Len(pending) = 0
    BY <1>1, <1>3, <1>6 DEF HandshakeDone
  <2>3. HandshakePaid' /\ ClocksOK'
    BY <1>2, <1>3, <2>1, <2>2 DEF ClocksOK, HandshakePaid
  <2>4. QED
    BY <1>2, <1>4, <2>1, <2>3 DEF WakePaid, BeatPaid, RecvPaid, BudgetPaid, ConnectPaid, Places
<1>7. QED
  BY <1>5, <1>6

LEMMA WakeKeeps ==
  ASSUME HoldInv, RequestWake
  PROVE  HoldInv'
<1> USE Times DEF HoldInv
<1>1. /\ pc = "wake" /\ pc' = "check" /\ beatIn' = BeatInterval
      /\ UNCHANGED <<modern, script, wire, pending, waited, quiet, readIn>>
  BY DEF RequestWake, clientVars, streamVars, bufferVars
<1>2. StreamsOK' /\ ClocksOK'
  BY <1>1 DEF StreamsOK, ClocksOK
<1>3. BeatPaid' /\ BudgetPaid'
  BY <1>1 DEF ClocksOK, WakePaid, BeatPaid, BudgetPaid
<1>4. QED
  BY <1>1, <1>2, <1>3 DEF HandshakePaid, WakePaid, RecvPaid, ConnectPaid, Places

LEMMA RoundKeeps ==
  ASSUME HoldInv, HoldRound
  PROVE  HoldInv'
<1> USE Times DEF HoldInv
<1>1. /\ pc = "check" /\ waited < Budget /\ readIn' = 1
      /\ UNCHANGED <<modern, script, wire, pending, waited>>
  BY DEF HoldRound, clientVars, bufferVars
<1>2. StreamsOK'
  BY <1>1 DEF HoldRound, HoldBeats, Close, StreamsOK
<1>3. CASE HoldBeats
  <2>1. CASE pc' = "closed" /\ UNCHANGED <<quiet, beatIn>>
    BY <1>1, <1>2, <2>1 DEF ClocksOK, HandshakePaid, WakePaid, BeatPaid, RecvPaid,
                            BudgetPaid, ConnectPaid, Places
  <2>2. CASE modern /\ quiet' = 0 /\ beatIn' = BeatInterval /\ pc' = "recv"
    BY <1>1, <1>2, <2>2 DEF ClocksOK, HandshakePaid, WakePaid, BeatPaid, RecvPaid,
                            BudgetPaid, ConnectPaid, Places
  <2>3. QED
    BY <1>3, <2>1, <2>2 DEF HoldBeats, Close
<1>4. CASE ~(modern /\ beatIn = 0) /\ pc' = "recv" /\ UNCHANGED <<quiet, beatIn>>
  <2>1. ClocksOK' /\ RecvPaid'
    BY <1>1, <1>4 DEF ClocksOK, RecvPaid
  <2>2. BeatPaid' /\ BudgetPaid'
    BY <1>1, <1>4 DEF ClocksOK, BeatPaid, BudgetPaid, Budget
  <2>3. QED
    BY <1>1, <1>2, <1>4, <2>1, <2>2 DEF HandshakePaid, WakePaid, ConnectPaid, Places
<1>5. QED
  BY <1>3, <1>4 DEF HoldRound

\* A round that ends, and the end of the hold.
LEMMA HoldEndsKeep ==
  ASSUME HoldInv,
         \/ HandshakeEnds \/ HoldTimesOut \/ HoldServerReady \/ HoldTakesError
         \/ HoldReadTimesOut \/ HoldClientGone \/ HandOver \/ ConnectFails
  PROVE  HoldInv'
<1>1. UNCHANGED <<modern, script, wire, pending, waited, quiet, beatIn, readIn>>
  BY DEF HandshakeEnds, HoldTimesOut, HoldServerReady, HoldTakesError, HoldReadTimesOut,
         HoldClientGone, HandOver, ConnectFails, clientVars, streamVars, bufferVars, timeVars
<1>2. \/ pc' \in {"closed", "forward"}
      \/ pc = "check" /\ pc' = "connect"
      \/ pc = "recv" /\ pc' = "check"
  BY DEF HandshakeEnds, HoldTimesOut, HoldServerReady, HoldTakesError, HoldReadTimesOut,
         HoldClientGone, HandOver, ConnectFails, Close
<1>3. quiet < Patience \/ pc' \in {"closed", "forward"}
  BY <1>2, SilenceIsBounded DEF Ended
<1>4. QED
  BY <1>1, <1>2, <1>3 DEF HoldInv, StreamsOK, ClocksOK, HandshakePaid, WakePaid, BeatPaid,
                          RecvPaid, BudgetPaid, ConnectPaid, Places

LEMMA ReadsKeep ==
  ASSUME HoldInv, HoldReads \/ PipeUp
  PROVE  HoldInv'
<1> USE DEF HoldInv
<1>1. /\ UNCHANGED <<modern, script, waited, quiet, beatIn, readIn>>
      /\ \/ pc = "recv" /\ pc' \in {"closed", "check"}
         \/ pc = "forward" /\ pc' = "forward"
  BY DEF HoldReads, PipeUp, Received, clientVars, timeVars
<1>2. PICK n \in 1..Len(wire) : wire' = SubSeq(wire, n + 1, Len(wire))
  BY DEF HoldReads, PipeUp, Received
<1>3. StreamsOK'
  BY <1>1, <1>2, ChunkOfWire DEF StreamsOK
<1>4. QED
  BY <1>1, <1>3 DEF ClocksOK, HandshakePaid, WakePaid, BeatPaid, RecvPaid, BudgetPaid,
                    ConnectPaid, Places

LEMMA NextKeeps == HoldInv /\ [Next]_vars => HoldInv'
<1> SUFFICES ASSUME HoldInv, [Next]_vars PROVE HoldInv'
  OBVIOUS
<1>1. CASE UNCHANGED vars
  BY <1>1 DEF vars, clientVars, streamVars, bufferVars, timeVars, HoldInv, StreamsOK, ClocksOK,
              HandshakePaid, WakePaid, BeatPaid, RecvPaid, BudgetPaid, ConnectPaid
<1>2. CASE Next
  BY <1>2, WorldSteps, TickKeeps, HandshakeKeeps, WakeKeeps, RoundKeeps, HoldEndsKeep,
     ReadsKeep DEF Next
<1>3. QED
  BY <1>1, <1>2

(* A client the proxy holds is told something before its read timeout      *)
(* fires, whatever the times, as long as the handshake's reads and one      *)
(* heartbeat interval, and the budget of an old client, are shorter.        *)
THEOREM HeldClientAlwaysHears == Spec => []HeldClientHears
<1>1. HoldInv => HeldClientHears
  BY SilenceIsBounded DEF HeldClientHears
<1>2. QED
  BY <1>1, InitHolds, NextKeeps, PTL DEF Spec

-----------------------------------------------------------------------------
(* Sequences.                                                               *)

\* What holds of the empty sequence and goes on with every element holds of all.
LEMMA SequencesGrow ==
  ASSUME NEW S, NEW Good, <<>> \in Good,
         \A s \in Seq(S), e \in S : s \in Good => Append(s, e) \in Good
  PROVE  Seq(S) \subseteq Good
  <1> DEFINE T == {Len(s) : s \in Seq(S) \ Good}
  <1>1. T \subseteq Nat
    BY LenProperties
  <1>2. SUFFICES ASSUME T # {}  PROVE FALSE
    OBVIOUS
  <1>3. PICK m \in T : \A y \in T : ~(<<y, m>> \in OpToRel(<, Nat))
    BY <1>1, <1>2, NatLessThanWellFounded, WFMin
  <1>4. PICK s \in Seq(S) \ Good : m = Len(s)
    OBVIOUS
  <1>5. PICK f \in Seq(S), e \in S : s = Append(f, e)
    BY <1>4, SequenceEmptyOrAppend
  <1>6. f \notin Good
    BY <1>4, <1>5
  <1>7. Len(f) \in T /\ Len(f) \in Nat /\ m = Len(f) + 1
    BY <1>4, <1>5, <1>6, AppendProperties, LenProperties
  <1> HIDE DEF T
  <1>8. Len(f) < m /\ m \in Nat
    BY <1>7
  <1> QED
    BY <1>3, <1>7, <1>8 DEF OpToRel

\* One step of Only's count.
Upto(s, A, f, i) ==
  IF i = 0 THEN <<>> ELSE IF s[i].packet \in A THEN Append(f[i - 1], s[i]) ELSE f[i - 1]
Counts(s, A, f) ==
  f \in [0..Len(s) -> Seq(Unit)] /\ \A i \in 0..Len(s) : f[i] = Upto(s, A, f, i)

\* A count goes on for one more unit.
LEMMA CountGoesOn ==
  ASSUME NEW s \in Seq(Unit), NEW u \in Unit, NEW A, NEW f, Counts(s, A, f)
  PROVE  LET n == Len(s) + 1
             last == IF u.packet \in A THEN Append(f[n - 1], u) ELSE f[n - 1]
         IN  Counts(Append(s, u), A, [i \in 0..n |-> IF i = n THEN last ELSE f[i]])
  <1> DEFINE n == Len(s) + 1
             last == IF u.packet \in A THEN Append(f[n - 1], u) ELSE f[n - 1]
             t == Append(s, u)
             g == [i \in 0..n |-> IF i = n THEN last ELSE f[i]]
  <1>1. /\ Len(s) \in Nat /\ n \in Nat \ {0} /\ n - 1 = Len(s) /\ Len(t) = n
        /\ t[n] = u /\ \A i \in 1..(n - 1) : t[i] = s[i]
    BY AppendProperties, LenProperties
  <1>2. f \in [0..(n - 1) -> Seq(Unit)] /\ \A i \in 0..(n - 1) : f[i] = Upto(s, A, f, i)
    BY <1>1 DEF Counts
  <1> HIDE DEF n, t
  <1>3. n - 1 \in 0..(n - 1)
    BY <1>1
  <1>4. f[n - 1] \in Seq(Unit)
    BY <1>2, <1>3
  <1>5. last \in Seq(Unit)
    BY <1>4
  <1> HIDE DEF last
  <1>6. \A i \in 0..n : i = n \/ i \in 0..(n - 1)
    BY <1>1
  <1>7. g \in [0..n -> Seq(Unit)]
    BY <1>2, <1>5, <1>6
  <1>8. ASSUME NEW i \in 0..n  PROVE g[i] = Upto(t, A, g, i)
    <2>1. CASE i = n
      <3>1. g[n] = last /\ g[n - 1] = f[n - 1] /\ n # 0
        <4>1. n \in 0..n /\ n - 1 \in 0..n /\ n - 1 # n /\ n # 0
          BY <1>1
        <4> QED
          BY <4>1
      <3> HIDE DEF g
      <3> QED
        BY <1>1, <2>1, <3>1 DEF Upto, last
    <2>2. CASE i = 0
      <3>1. 0 \in 0..n /\ 0 # n /\ 0 \in 0..(n - 1)
        BY <1>1
      <3>2. g[0] = f[0]
        BY <3>1
      <3>3. f[0] = <<>>
        BY <1>2, <3>1 DEF Upto
      <3> HIDE DEF g
      <3> QED
        BY <2>2, <3>2, <3>3 DEF Upto
    <2>3. CASE i \in 1..(n - 1)
      <3>1. i \in 0..n /\ i # n /\ i - 1 \in 0..n /\ i - 1 # n /\ i \in 0..(n - 1) /\ i # 0
        BY <1>1, <2>3
      <3>2. g[i] = f[i] /\ g[i - 1] = f[i - 1]
        BY <3>1
      <3>3. t[i] = s[i]
        BY <1>1, <2>3
      <3>4. f[i] = Upto(s, A, f, i)
        BY <1>2, <3>1
      <3> HIDE DEF g
      <3> QED
        BY <3>1, <3>2, <3>3, <3>4 DEF Upto
    <2>4. i = n \/ i = 0 \/ i \in 1..(n - 1)
      BY <1>1
    <2> QED
      BY <2>1, <2>2, <2>3, <2>4
  <1>9. Len(t) = n
    BY <1>1
  <1>10. Counts(t, A, g)
    <2> HIDE DEF g
    <2> QED
      BY <1>7, <1>8, <1>9 DEF Counts
  <1> QED
    BY <1>10 DEF t, last, n

\* There is one count only.
LEMMA OneCount ==
  ASSUME NEW s \in Seq(Unit), NEW A, NEW f, Counts(s, A, f)
  PROVE  Only(s, A) = f[Len(s)] /\ Only(s, A) \in Seq(Unit)
  <1> DEFINE n == Len(s)
             c == CHOOSE g : g = [i \in 0..n |-> Upto(s, A, g, i)]
  <1>1. n \in Nat /\ n \in 0..n
    BY LenProperties
  <1>2. f \in [0..n -> Seq(Unit)] /\ \A i \in 0..n : f[i] = Upto(s, A, f, i)
    BY DEF Counts
  <1>3. Only(s, A) = c[n]
    BY DEF Only, Upto
  <1> HIDE DEF n
  <1>4. f = [i \in 0..n |-> Upto(s, A, f, i)]
    BY <1>2
  <1>5. c = [i \in 0..n |-> Upto(s, A, c, i)]
    BY <1>4
  <1> HIDE DEF c
  <1>6. \A i \in 0..n : c[i] = Upto(s, A, c, i)
    BY <1>5
  <1>7. \A i \in 0..n : c[i] = f[i]
    <2> DEFINE T == {i \in 0..n : c[i] # f[i]}
    <2>1. SUFFICES ASSUME T # {}  PROVE FALSE
      OBVIOUS
    <2>2. T \subseteq Nat
      BY <1>1
    <2>3. PICK m \in T : \A y \in T : ~(<<y, m>> \in OpToRel(<, Nat))
      BY <2>1, <2>2, NatLessThanWellFounded, WFMin
    <2>4. m \in 0..n /\ c[m] # f[m]
      OBVIOUS
    <2>5. m # 0
      <3>1. c[0] = <<>> /\ f[0] = <<>>
        BY <1>1, <1>2, <1>6 DEF Upto
      <3> QED
        BY <2>4, <3>1
    <2>6. m - 1 \in 0..n /\ m - 1 \in Nat /\ m \in Nat /\ m - 1 < m
      BY <1>1, <2>4, <2>5
    <2>7. m - 1 \notin T
      BY <2>3, <2>6 DEF OpToRel
    <2>8. c[m - 1] = f[m - 1]
      BY <2>6, <2>7
    <2>9. c[m] = Upto(s, A, c, m) /\ f[m] = Upto(s, A, f, m)
      BY <1>2, <1>6, <2>4
    <2> QED
      BY <2>4, <2>5, <2>8, <2>9 DEF Upto
  <1> QED
    BY <1>1, <1>2, <1>3, <1>7 DEF n

\* Every sequence has a count.
LEMMA EveryCount == \A s \in Seq(Unit) : \A A : \E f : Counts(s, A, f)
  <1> DEFINE Good == {s \in Seq(Unit) : \A A : \E f : Counts(s, A, f)}
  <1>1. <<>> \in Good
    <2>1. ASSUME NEW A  PROVE \E f : Counts(<<>>, A, f)
      <3> DEFINE f == [i \in 0..0 |-> <<>>]
      <3>1. <<>> \in Seq(Unit) /\ Len(<<>>) = 0 /\ 0..0 = {0}
        OBVIOUS
      <3>2. f \in [0..0 -> Seq(Unit)] /\ f[0] = <<>>
        BY <3>1
      <3> HIDE DEF f
      <3>3. Counts(<<>>, A, f)
        BY <3>1, <3>2 DEF Counts, Upto
      <3> QED
        BY <3>3
    <2> QED
      BY <2>1
  <1>2. ASSUME NEW s \in Seq(Unit), NEW u \in Unit, s \in Good  PROVE Append(s, u) \in Good
    <2>1. ASSUME NEW A  PROVE \E f : Counts(Append(s, u), A, f)
      <3>1. PICK f : Counts(s, A, f)
        BY <1>2
      <3> QED
        BY <3>1, CountGoesOn
    <2>2. Append(s, u) \in Seq(Unit)
      OBVIOUS
    <2> QED
      BY <2>1, <2>2
  <1> HIDE DEF Good
  <1>3. Seq(Unit) \subseteq Good
    BY <1>1, <1>2, SequencesGrow
  <1> QED
    BY <1>3 DEF Good

\* Unit by unit, Only takes or leaves.
LEMMA OnlyGrows ==
  /\ \A A : Only(<<>>, A) = <<>>
  /\ \A s \in Seq(Unit) : \A A : Only(s, A) \in Seq(Unit)
  /\ \A s \in Seq(Unit), u \in Unit : \A A :
       Only(Append(s, u), A) = IF u.packet \in A THEN Append(Only(s, A), u) ELSE Only(s, A)
  <1>1. ASSUME NEW A  PROVE Only(<<>>, A) = <<>>
    <2>1. <<>> \in Seq(Unit) /\ Len(<<>>) = 0
      OBVIOUS
    <2>2. PICK f : Counts(<<>>, A, f)
      BY <2>1, EveryCount
    <2> DEFINE e == <<>>
    <2>3. Only(e, A) = f[0] /\ f[0] = Upto(e, A, f, 0)
      <3>1. e \in Seq(Unit) /\ Len(e) = 0 /\ 0 \in 0..0 /\ Counts(e, A, f)
        BY <2>1, <2>2
      <3> HIDE DEF e
      <3> QED
        BY <3>1, OneCount DEF Counts
    <2> QED
      BY <2>3 DEF Upto
  <1>2. ASSUME NEW s \in Seq(Unit), NEW A  PROVE Only(s, A) \in Seq(Unit)
    BY EveryCount, OneCount
  <1>3. ASSUME NEW s \in Seq(Unit), NEW u \in Unit, NEW A
        PROVE  Only(Append(s, u), A) = IF u.packet \in A THEN Append(Only(s, A), u) ELSE Only(s, A)
    <2>1. PICK f : Counts(s, A, f)
      BY EveryCount
    <2> DEFINE n == Len(s) + 1
               last == IF u.packet \in A THEN Append(f[n - 1], u) ELSE f[n - 1]
               g == [i \in 0..n |-> IF i = n THEN last ELSE f[i]]
               t == Append(s, u)
    <2>2. Counts(t, A, g)
      BY <2>1, CountGoesOn
    <2>3. t \in Seq(Unit) /\ Len(t) = n /\ n \in Nat /\ n - 1 = Len(s)
      BY AppendProperties, LenProperties
    <2>4. g[n] = last
      BY <2>3
    <2> HIDE DEF g
    <2>5. Only(t, A) = g[Len(t)]
      BY <2>2, <2>3, OneCount
    <2>6. Only(s, A) = f[n - 1]
      BY <2>1, <2>3, OneCount
    <2> HIDE DEF n, t
    <2> QED
      BY <2>3, <2>4, <2>5, <2>6 DEF t
  <1> QED
    BY <1>1, <1>2, <1>3

\* Concatenation and its laws, for sequences of units.
LEMMA ConcatAppend ==
  \A s, t \in Seq(Unit), u \in Unit : s \o Append(t, u) = Append(s \o t, u)
  <1> TAKE s, t \in Seq(Unit), u \in Unit
  <1>1. <<u>> \in Seq(Unit) /\ s \o t \in Seq(Unit)
    BY ConcatProperties
  <1>2. Append(t, u) = t \o <<u>> /\ Append(s \o t, u) = (s \o t) \o <<u>>
    BY <1>1, AppendIsConcat
  <1> QED
    BY <1>1, <1>2, ConcatAssociative

LEMMA Joined ==
  /\ \A s, t \in Seq(Unit) : s \o t \in Seq(Unit)
  /\ \A r, s, t \in Seq(Unit) : (r \o s) \o t = r \o (s \o t)
  BY ConcatProperties, ConcatAssociative

\* What is picked from two parts is what is picked from each.
LEMMA OnlyOfBoth ==
  \A s, t \in Seq(Unit) : \A A : Only(s \o t, A) = Only(s, A) \o Only(t, A)
  <1> SUFFICES ASSUME NEW s \in Seq(Unit), NEW A
               PROVE  \A t \in Seq(Unit) : Only(s \o t, A) = Only(s, A) \o Only(t, A)
    OBVIOUS
  <1> DEFINE Good == {t \in Seq(Unit) : Only(s \o t, A) = Only(s, A) \o Only(t, A)}
  <1>1. <<>> \in Good
    <2>1. s \o <<>> = s /\ Only(<<>>, A) = <<>> /\ Only(s, A) \in Seq(Unit) /\ <<>> \in Seq(Unit)
      BY OnlyGrows, ConcatEmptySeq
    <2>2. Only(s, A) \o <<>> = Only(s, A)
      BY <2>1, ConcatEmptySeq
    <2> QED
      BY <2>1, <2>2
  <1>2. ASSUME NEW t \in Seq(Unit), NEW u \in Unit, t \in Good  PROVE Append(t, u) \in Good
    <2> DEFINE p == Only(s, A)
               q == Only(t, A)
    <2>1. p \in Seq(Unit) /\ q \in Seq(Unit) /\ s \o t \in Seq(Unit) /\ Append(t, u) \in Seq(Unit)
      BY OnlyGrows, ConcatProperties
    <2>2. s \o Append(t, u) = Append(s \o t, u)
      BY ConcatAppend
    <2>3. Only(s \o Append(t, u), A) = IF u.packet \in A THEN Append(p \o q, u) ELSE p \o q
      <3>1. Only(s \o t, A) = p \o q
        BY <1>2
      <3> HIDE DEF p, q
      <3>2. Only(Append(s \o t, u), A)
              = IF u.packet \in A THEN Append(Only(s \o t, A), u) ELSE Only(s \o t, A)
        BY <2>1, OnlyGrows
      <3> QED
        BY <2>2, <3>1, <3>2
    <2>4. Only(Append(t, u), A) = IF u.packet \in A THEN Append(q, u) ELSE q
      BY OnlyGrows
    <2>5. p \o Append(q, u) = Append(p \o q, u)
      BY <2>1, ConcatAppend
    <2> HIDE DEF p, q
    <2>6. Only(s \o Append(t, u), A) = p \o Only(Append(t, u), A)
      BY <2>3, <2>4, <2>5
    <2> QED
      BY <2>1, <2>6 DEF p
  <1> HIDE DEF Good
  <1>3. Seq(Unit) \subseteq Good
    BY <1>1, <1>2, SequencesGrow
  <1> QED
    BY <1>3 DEF Good

\* What was picked once is all picked again.
LEMMA OnlyOnce ==
  \A s \in Seq(Unit) : \A A : Only(Only(s, A), A) = Only(s, A)
  <1> SUFFICES ASSUME NEW A  PROVE \A s \in Seq(Unit) : Only(Only(s, A), A) = Only(s, A)
    OBVIOUS
  <1> DEFINE Good == {s \in Seq(Unit) : Only(Only(s, A), A) = Only(s, A)}
  <1>1. <<>> \in Good
    BY OnlyGrows
  <1>2. ASSUME NEW s \in Seq(Unit), NEW u \in Unit, s \in Good  PROVE Append(s, u) \in Good
    <2>1. Append(s, u) \in Seq(Unit) /\ Only(s, A) \in Seq(Unit)
      BY OnlyGrows
    <2>2. CASE u.packet \in A
      <3>1. Only(Append(s, u), A) = Append(Only(s, A), u)
        BY <2>2, OnlyGrows
      <3>2. Only(Append(Only(s, A), u), A) = Append(Only(Only(s, A), A), u)
        BY <2>1, <2>2, OnlyGrows
      <3> QED
        BY <1>2, <2>1, <3>1, <3>2
    <2>3. CASE u.packet \notin A
      <3>1. Only(Append(s, u), A) = Only(s, A)
        BY <2>3, OnlyGrows
      <3> QED
        BY <1>2, <2>1, <3>1
    <2> QED
      BY <2>2, <2>3
  <1> HIDE DEF Good
  <1>3. Seq(Unit) \subseteq Good
    BY <1>1, <1>2, SequencesGrow
  <1> QED
    BY <1>3 DEF Good

-----------------------------------------------------------------------------
(* The client's own bytes.                                                  *)

OwnUnits == {u \in Unit : u.packet # "answer"}

\* What Own does to the parts of a stream.
LEMMA OwnFacts ==
  /\ Own(<<>>) = <<>>
  /\ \A s \in Seq(Unit) : Own(s) \in Seq(Unit) /\ Own(Own(s)) = Own(s)
  /\ \A s, t \in Seq(Unit) : Own(s \o t) = Own(s) \o Own(t)
  /\ \A s \in Seq(Unit), u \in OwnUnits : Own(Append(s, u)) = Append(Own(s), u)
  /\ Own(Whole("answer")) = <<>>
  <1>1. Own(<<>>) = <<>>
    BY OnlyGrows DEF Own
  <1>2. \A s \in Seq(Unit) : Own(s) \in Seq(Unit) /\ Own(Own(s)) = Own(s)
    BY OnlyGrows, OnlyOnce DEF Own
  <1>3. \A s, t \in Seq(Unit) : Own(s \o t) = Own(s) \o Own(t)
    BY OnlyOfBoth DEF Own
  <1>4. \A s \in Seq(Unit), u \in OwnUnits : Own(Append(s, u)) = Append(Own(s), u)
    <2> TAKE s \in Seq(Unit), u \in OwnUnits
    <2>1. u \in Unit /\ u.packet \in Packets \ {"answer"}
      BY DEF OwnUnits, Unit
    <2> QED
      BY <2>1, OnlyGrows DEF Own
  <1>5. Own(Whole("answer")) = <<>>
    <2> DEFINE u == [packet |-> "answer", half |-> 1]
               v == [packet |-> "answer", half |-> 2]
    <2>1. /\ u \in Unit /\ v \in Unit /\ u.packet \notin Packets \ {"answer"} /\ v.packet \notin Packets \ {"answer"}
      BY DEF Unit, Packets
    <2>2. Whole("answer") = <<u, v>>
      BY DEF Whole
    <2> HIDE DEF u, v
    <2>3. <<u, v>> = Append(Append(<<>>, u), v) /\ Append(<<>>, u) \in Seq(Unit) /\ <<>> \in Seq(Unit)
      BY <2>1
    <2>4. Own(Append(<<>>, u)) = Own(<<>>)
      BY <2>1, <2>3, OnlyGrows DEF Own
    <2>5. Own(Append(Append(<<>>, u), v)) = Own(Append(<<>>, u))
      BY <2>1, <2>3, OnlyGrows DEF Own
    <2> QED
      BY <1>1, <2>2, <2>3, <2>4, <2>5
  <1> QED
    BY <1>1, <1>2, <1>3, <1>4, <1>5

\* Sorting loses nothing but answers.
LEMMA SortingKeepsOwn ==
  ASSUME NEW s \in Seq(Unit)
  PROVE  /\ Kept(s) \in Seq(Unit) /\ Rest(s) \in Seq(Unit)
         /\ Own(Kept(s)) \o Own(Rest(s)) = Own(s)
  <1> DEFINE n == Len(s)
             k == Sorted(s)
             sorted == SubSeq(s, 1, k)
  <1>1. n \in Nat /\ (s = <<>> => n = 0)
    BY LenProperties
  <1>2. k \in 0..n
    <2>1. n \div 2 \in Nat /\ 2 * (n \div 2) <= n
      <3> HIDE DEF n
      <3> QED
        BY <1>1
    <2> DEFINE h == n \div 2
    <2>2. k \in {0, 2 * h, n}
      BY DEF Sorted
    <2> HIDE DEF h, k, n
    <2>3. h \in Nat /\ 2 * h <= n
      BY <2>1 DEF h
    <2> QED
      BY <1>1, <2>2, <2>3
  <1>3. Rest(s) = SubSeq(s, k + 1, n)
    BY DEF Rest
  <1>4. sorted \o Rest(s) = s
    <2>1. 1 \in 1..(n + 1) /\ k \in (1 - 1)..n /\ n \in k..n
      <3> HIDE DEF n, k
      <3> QED
        BY <1>1, <1>2
    <2>2. SubSeq(s, 1, k) \o SubSeq(s, k + 1, n) = SubSeq(s, 1, n)
      BY <2>1, ConcatAdjacentSubSeq
    <2>3. SubSeq(s, 1, n) = s
      BY SubSeqFull
    <2> QED
      BY <1>3, <2>2, <2>3
  <1>5. sorted \in Seq(Unit) /\ Rest(s) \in Seq(Unit)
    <2>1. \A i \in 1..n : s[i] \in Unit
      BY ElementOfSeq
    <2> HIDE DEF n, k
    <2>2. k \in Int /\ n \in Int /\ k + 1 \in Int /\ (\A i \in 1..k : i \in 1..n) /\ (\A i \in (k + 1)..n : i \in 1..n)
      BY <1>1, <1>2
    <2>3. sorted \in Seq(Unit)
      BY <2>1, <2>2, SubSeqProperties
    <2>4. SubSeq(s, k + 1, n) \in Seq(Unit)
      BY <2>1, <2>2, SubSeqProperties
    <2> QED
      BY <1>3, <2>3, <2>4
  <1>6. Kept(s) \in {Own(sorted), sorted}
    BY DEF Kept
  <1> HIDE DEF sorted
  <1>7. Kept(s) \in Seq(Unit) /\ Own(Kept(s)) = Own(sorted)
    BY <1>5, <1>6, OwnFacts
  <1>8. Own(sorted) \o Own(Rest(s)) = Own(s)
    BY <1>4, <1>5, OwnFacts
  <1> QED
    BY <1>5, <1>7, <1>8

\* A recv cuts the wire in two.
LEMMA WireIsRead ==
  ASSUME wire \in Seq(Unit), NEW n \in 1..Len(wire)
  PROVE  /\ Chunk(n) \in Seq(Unit) /\ SubSeq(wire, n + 1, Len(wire)) \in Seq(Unit)
         /\ Chunk(n) \o SubSeq(wire, n + 1, Len(wire)) = wire
  <1> DEFINE m == Len(wire)
  <1>1. m \in Nat /\ n \in 1..m
    BY LenProperties
  <1>2. Chunk(n) \in Seq(Unit) /\ SubSeq(wire, n + 1, m) \in Seq(Unit)
    <2>1. \A i \in 1..m : wire[i] \in Unit
      BY ElementOfSeq
    <2> HIDE DEF m
    <2>2. n \in Int /\ m \in Int /\ n + 1 \in Int /\ (\A i \in 1..n : i \in 1..m) /\ (\A i \in (n + 1)..m : i \in 1..m)
      BY <1>1
    <2> QED
      BY <2>1, <2>2, SubSeqProperties DEF Chunk
  <1>3. SubSeq(wire, 1, n) \o SubSeq(wire, n + 1, m) = SubSeq(wire, 1, m)
    <2>1. 1 \in 1..(m + 1) /\ n \in (1 - 1)..m /\ m \in n..m
      <3> HIDE DEF m
      <3> QED
        BY <1>1
    <2> QED
      BY <2>1, ConcatAdjacentSubSeq
  <1> QED
    BY <1>2, <1>3, SubSeqFull DEF Chunk

\* What is held, in the order in which it was sent.
StreamInv ==
  /\ modern \in BOOLEAN
  /\ script \in Seq(OwnUnits) /\ wire \in Seq(Unit)
  /\ pending \in Seq(Unit) /\ scratch \in Seq(Unit)
  /\ pc = "handshake" \/ ~modern => scratch = <<>>
  /\ OwnBytesKept

LEMMA OwnUnitsAreUnits == Seq(OwnUnits) \subseteq Seq(Unit)
  BY SeqMonotonic DEF OwnUnits

LEMMA StreamBegins == Init => StreamInv
  <1> SUFFICES ASSUME Init  PROVE StreamInv
    OBVIOUS
  <1>1. <<>> \in Seq(Unit)
    OBVIOUS
  <1>2. Script \in Seq(OwnUnits)
    <2> DEFINE h == [packet |-> "handshake", half |-> 1]
               i == [packet |-> "handshake", half |-> 2]
               l == [packet |-> "login", half |-> 1]
               m == [packet |-> "login", half |-> 2]
    <2>1. h \in OwnUnits /\ i \in OwnUnits /\ l \in OwnUnits /\ m \in OwnUnits
      BY DEF OwnUnits, Unit, Packets
    <2>2. Script = <<h, i>> \o <<l, m>>
      BY DEF Script, Whole
    <2> HIDE DEF h, i, l, m
    <2>3. <<h, i>> \in Seq(OwnUnits) /\ <<l, m>> \in Seq(OwnUnits)
      BY <2>1
    <2> QED
      BY <2>2, <2>3, ConcatProperties
  <1>3. OwnBytesKept
    <2>1. pending \o scratch \o wire = <<>>
      BY <1>1, ConcatEmptySeq DEF Init
    <2>2. <<>> \o Script = Script
      BY <1>2, ConcatEmptySeq
    <2> QED
      BY <2>1, <2>2, OwnFacts DEF Init, OwnBytesKept
  <1> QED
    BY <1>1, <1>2, <1>3 DEF Init, StreamInv

\* What the client sends goes from its script to the wire.
LEMMA SendsKeepOwn ==
  ASSUME StreamInv, ClientSends \/ ClientAnswers
  PROVE  StreamInv'
  <1> DEFINE held == pending \o scratch \o wire
  <1>1. /\ held \in Seq(Unit) /\ pending \o scratch \in Seq(Unit)
        /\ script \in Seq(Unit) /\ script \in Seq(OwnUnits) /\ Own(held) \in Seq(Unit)
    BY OwnUnitsAreUnits, Joined, OwnFacts DEF StreamInv
  <1>2. UNCHANGED <<pc, modern, pending, scratch>>
    BY DEF ClientSends, ClientAnswers, clientVars, bufferVars
  <1>3. SUFFICES /\ script' \in Seq(OwnUnits) /\ wire' \in Seq(Unit)
                 /\ Own((pending \o scratch) \o wire') \o script' = Own(held) \o script
    BY <1>2 DEF StreamInv, OwnBytesKept
  <1>4. CASE ClientSends
    <2> DEFINE u == Head(script)
               t == Tail(script)
    <2>1. script # <<>> /\ wire' = Append(wire, u) /\ script' = t
      BY <1>4 DEF ClientSends
    <2>2. u \in OwnUnits /\ t \in Seq(OwnUnits) /\ script = <<u>> \o t
      BY <1>1, <2>1
    <2> HIDE DEF u, t
    <2>3. u \in Unit /\ t \in Seq(Unit) /\ wire \in Seq(Unit)
      BY <2>2, OwnUnitsAreUnits DEF OwnUnits, StreamInv
    <2>4. (pending \o scratch) \o Append(wire, u) = Append(held, u)
      BY <1>1, <2>3, ConcatAppend
    <2> HIDE DEF held
    <2>5. Own(Append(held, u)) = Append(Own(held), u)
      BY <1>1, <2>2, OwnFacts
    <2>6. Append(Own(held), u) \o t = Own(held) \o (<<u>> \o t)
      <3>1. <<u>> \in Seq(Unit)
        BY <2>3
      <3>2. Append(Own(held), u) = Own(held) \o <<u>>
        BY <1>1, <2>3, AppendIsConcat
      <3> QED
        BY <1>1, <2>3, <3>1, <3>2, Joined
    <2>7. Append(wire, u) \in Seq(Unit)
      BY <2>3
    <2> QED
      BY <2>1, <2>2, <2>4, <2>5, <2>6, <2>7
  <1>5. CASE ClientAnswers
    <2> DEFINE a == Whole("answer")
    <2>1. a \in Seq(Unit) /\ wire \in Seq(Unit)
      BY UnitsOfPackets DEF StreamInv, Packets
    <2>2. wire' = wire \o a /\ script' = script
      BY <1>5 DEF ClientAnswers
    <2>3. Own(a) = <<>>
      BY OwnFacts
    <2> HIDE DEF a
    <2>4. (pending \o scratch) \o (wire \o a) = held \o a
      <3>1. pending \o scratch \in Seq(Unit)
        BY <1>1
      <3> QED
        BY <2>1, <3>1, Joined
    <2> HIDE DEF held
    <2>5. Own(held \o a) = Own(held) \o <<>>
      <3>1. Own(held \o a) = Own(held) \o Own(a)
        BY <1>1, <2>1, OwnFacts
      <3> QED
        BY <2>3, <3>1
    <2>6. Own(held) \o <<>> = Own(held)
      BY <1>1, ConcatEmptySeq
    <2>7. wire \o a \in Seq(Unit)
      BY <2>1, Joined
    <2> QED
      BY <1>1, <2>2, <2>4, <2>5, <2>6, <2>7
  <1> QED
    BY <1>4, <1>5

\* What the proxy reads goes from the wire to its buffers.
LEMMA ReadsKeepOwn ==
  ASSUME StreamInv, ReadHandshake \/ HoldReads
  PROVE  StreamInv'
  <1>1. /\ wire \in Seq(Unit) /\ pending \in Seq(Unit) /\ scratch \in Seq(Unit) /\ modern \in BOOLEAN
        /\ UNCHANGED <<modern, script>> /\ script \in Seq(OwnUnits)
        /\ pc \notin {"forward", "closed"}
        /\ Own((pending \o scratch) \o wire) \o script = Script
    BY DEF StreamInv, ReadHandshake, HoldReads, Received, clientVars, OwnBytesKept
  <1>2. PICK n \in 1..Len(wire) :
          /\ wire' = SubSeq(wire, n + 1, Len(wire))
          /\ \/ scratch = <<>> /\ pending' = pending \o Chunk(n) /\ scratch' = scratch
             \/ /\ modern /\ pc = "recv" /\ pc' \in {"closed", "check"}
                /\ pending' = pending \o Kept(scratch \o Chunk(n))
                /\ scratch' = Rest(scratch \o Chunk(n))
    BY DEF ReadHandshake, HoldReads, Received, StreamInv
  <1> DEFINE c == Chunk(n)
             w == SubSeq(wire, n + 1, Len(wire))
  <1>3. c \in Seq(Unit) /\ w \in Seq(Unit) /\ c \o w = wire /\ wire' = w
    BY <1>1, <1>2, WireIsRead
  <1> HIDE DEF c, w
  <1>7. ASSUME NEW s \in Seq(Unit)
        PROVE  (s \o c) \o w = s \o wire /\ s \o c \in Seq(Unit)
    <2>1. c \in Seq(Unit) /\ w \in Seq(Unit)
      BY <1>3
    <2>2. (s \o c) \o w = s \o (c \o w) /\ s \o c \in Seq(Unit)
      BY <2>1, Joined
    <2> QED
      BY <1>3, <2>2
  <1>4. SUFFICES /\ pending' \in Seq(Unit) /\ scratch' \in Seq(Unit)
                 /\ pc' = "handshake" \/ ~modern => scratch' = <<>>
                 /\ Own((pending' \o scratch') \o wire') = Own((pending \o scratch) \o wire)
    BY <1>1, <1>3 DEF StreamInv, OwnBytesKept
  <1>5. CASE scratch = <<>> /\ pending' = pending \o c /\ scratch' = scratch
    <2>1. pending \o c \in Seq(Unit)
      BY <1>1, <1>3, Joined
    <2>2. pending \o scratch = pending /\ (pending \o c) \o scratch = pending \o c
      BY <1>1, <1>5, <2>1, ConcatEmptySeq
    <2>3. (pending \o c) \o w = pending \o wire
      BY <1>1, <1>7
    <2> QED
      BY <1>1, <1>3, <1>5, <2>1, <2>2, <2>3
  <1>6. CASE /\ modern /\ pc' \in {"closed", "check"}
             /\ pending' = pending \o Kept(scratch \o c) /\ scratch' = Rest(scratch \o c)
    <2> DEFINE x == scratch \o c
               k == Kept(x)
               r == Rest(x)
    <2>1. x \in Seq(Unit)
      BY <1>1, <1>3, Joined
    <2>2. k \in Seq(Unit) /\ r \in Seq(Unit) /\ Own(k) \o Own(r) = Own(x)
      BY <2>1, SortingKeepsOwn
    <2>3. (pending \o scratch) \o wire = pending \o (x \o w)
      <3>1. pending \in Seq(Unit) /\ scratch \in Seq(Unit) /\ wire \in Seq(Unit)
        BY <1>1
      <3>2. (pending \o scratch) \o wire = pending \o (scratch \o wire)
        BY <3>1, Joined
      <3>3. scratch \o wire = x \o w
        BY <1>7, <3>1
      <3> QED
        BY <3>2, <3>3
    <2> HIDE DEF x
    <2>4. Own(pending \o (x \o w)) = Own(pending) \o (Own(x) \o Own(w))
      <3> DEFINE y == x \o w
      <3>1. y \in Seq(Unit) /\ Own(y) = Own(x) \o Own(w)
        BY <1>3, <2>1, Joined, OwnFacts
      <3> HIDE DEF y
      <3>2. Own(pending \o y) = Own(pending) \o Own(y)
        BY <1>1, <3>1, OwnFacts
      <3> QED
        BY <3>1, <3>2 DEF y
    <2> HIDE DEF k, r
    <2>5. Own(((pending \o k) \o r) \o w) = ((Own(pending) \o Own(k)) \o Own(r)) \o Own(w)
      <3> DEFINE y == pending \o k
                 z == y \o r
      <3>1. y \in Seq(Unit) /\ Own(y) = Own(pending) \o Own(k)
        BY <1>1, <2>2, Joined, OwnFacts
      <3> HIDE DEF y
      <3>2. z \in Seq(Unit) /\ Own(z) = Own(y) \o Own(r)
        BY <2>2, <3>1, Joined, OwnFacts
      <3> HIDE DEF z
      <3>3. Own(z \o w) = Own(z) \o Own(w)
        BY <1>3, <3>2, OwnFacts
      <3> QED
        BY <3>1, <3>2, <3>3 DEF z, y
    <2>6. Own(pending) \in Seq(Unit) /\ Own(k) \in Seq(Unit) /\ Own(r) \in Seq(Unit) /\ Own(w) \in Seq(Unit) /\ Own(x) \in Seq(Unit)
      BY <1>1, <1>3, <2>1, <2>2, OwnFacts
    <2> DEFINE op == Own(pending)
               ok == Own(k)
               or == Own(r)
               ow == Own(w)
               ox == Own(x)
    <2>7. ok \o or = ox
      BY <2>2
    <2> HIDE DEF op, ok, or, ow, ox
    <2>8. op \in Seq(Unit) /\ ok \in Seq(Unit) /\ or \in Seq(Unit) /\ ow \in Seq(Unit)
      BY <2>6 DEF op, ok, or, ow
    <2>9. ((op \o ok) \o or) \o ow = op \o (ox \o ow)
      <3>1. (op \o ok) \o or = op \o (ok \o or) /\ ok \o or \in Seq(Unit)
        BY <2>8, Joined
      <3>2. (op \o (ok \o or)) \o ow = op \o ((ok \o or) \o ow)
        BY <2>8, <3>1, Joined
      <3> QED
        BY <2>7, <3>1, <3>2
    <2>10. Own(((pending \o k) \o r) \o w) = Own(pending \o (x \o w))
      BY <2>4, <2>5, <2>9 DEF op, ok, or, ow, ox
    <2>11. pending' = pending \o k /\ scratch' = r
      BY <1>6 DEF k, r, x
    <2>12. pending \o k \in Seq(Unit)
      BY <1>1, <2>2, Joined
    <2> QED
      BY <1>3, <1>6, <2>2, <2>3, <2>10, <2>11, <2>12
  <1> QED
    BY <1>2, <1>5, <1>6 DEF c

\* No other step touches the streams.
LEMMA OthersKeepOwn ==
  ASSUME StreamInv, UNCHANGED <<modern, script, wire, pending, scratch>>,
         pc' = pc \/ pc' \in {"forward", "closed"} \/ pc \in {"wake", "check", "recv"},
         pc' = "handshake" => pc = "handshake"
  PROVE  StreamInv'
  BY DEF StreamInv, OwnBytesKept

LEMMA StreamStays == StreamInv /\ [Next]_vars => StreamInv'
  <1> SUFFICES ASSUME StreamInv, [Next]_vars  PROVE StreamInv'
    OBVIOUS
  <1> USE DEF clientVars, streamVars, bufferVars
  <1>1. CASE UNCHANGED vars
    BY <1>1, OthersKeepOwn DEF vars
  <1>2. CASE ClientLeaves \/ WorkerEnds \/ ServerMoves \/ Tick
    BY <1>2, OthersKeepOwn DEF ClientLeaves, WorkerEnds, ServerMoves, Tick
  <1>3. CASE HandshakeEnds \/ RequestWake \/ HoldTimesOut \/ HoldServerReady \/ HoldTakesError
    BY <1>3, OthersKeepOwn DEF HandshakeEnds, RequestWake, HoldTimesOut, HoldServerReady, HoldTakesError, Close
  <1>4. CASE HoldRound
    BY <1>4, OthersKeepOwn DEF HoldRound, HoldBeats, Close
  <1>5. CASE HoldReadTimesOut \/ HoldClientGone \/ HandOver \/ ConnectFails
    BY <1>5, OthersKeepOwn DEF HoldReadTimesOut, HoldClientGone, HandOver, ConnectFails, Close
  <1>6. CASE PipeUp
    <2>1. PICK n \in 1..Len(wire) : wire' = SubSeq(wire, n + 1, Len(wire))
      BY <1>6 DEF PipeUp, Received
    <2>2. wire' \in Seq(Unit)
      BY <2>1, WireIsRead DEF StreamInv
    <2>3. UNCHANGED <<modern, script, pending, scratch, pc>> /\ pc = "forward"
      BY <1>6 DEF PipeUp, Received
    <2> QED
      BY <2>2, <2>3 DEF StreamInv, OwnBytesKept
  <1> QED
    BY <1>1, <1>2, <1>3, <1>4, <1>5, <1>6, SendsKeepOwn, ReadsKeepOwn DEF Next

(* However TCP splits the client's packets, and whatever the proxy takes    *)
(* out of them, no byte of the client's own is lost, doubled or reordered   *)
(* while it is held (_consume_client_packets, the buffers of _wake_server). *)
THEOREM OwnBytesAlwaysKept == Spec => []OwnBytesKept
  <1>1. StreamInv => OwnBytesKept
    BY DEF StreamInv
  <1> QED
    BY <1>1, StreamBegins, StreamStays, PTL DEF Spec
=============================================================================
