------------------------------ MODULE LoginHold ------------------------------
(* One connection of the sleep proxy (app/services/sleep_proxy_service.py): *)
(* the proxy reads the handshake of a client, wakes the sleeping server,    *)
(* holds the client until the server is ready and then passes the bytes on. *)
(* A client leaves when it has heard nothing for Patience; the proxy resets *)
(* that clock by asking a question of its own, whose answer it must take    *)
(* out of the client's bytes again.                                         *)
(*                                                                          *)
(* A packet is two units, its first and its second half, for what the code  *)
(* tells apart is whole packets from parts of one.  Time is counted in      *)
(* steps; a recv of the hold (_WAKE_POLL_INTERVAL, half a second) takes at  *)
(* most one.                                                               *)
EXTENDS Naturals, Sequences

CONSTANTS
  Patience,       \* the client's read timeout (ReadTimeoutHandler)
  ReadTimeout,    \* _HANDSHAKE_READ_TIMEOUT
  BeatInterval,   \* _HEARTBEAT_INTERVAL
  ReadyTimeout,   \* _WAKE_READY_TIMEOUT, for a client that cannot be held
  HoldTimeout,    \* _HOLD_READY_TIMEOUT, for one that can
  MaxBuffer,      \* bound: units after which the proxy gives a client up
  MaxWire         \* bound: units under way at one time

ASSUME TimesAssumption ==
  /\ {Patience, ReadTimeout, BeatInterval, ReadyTimeout, HoldTimeout} \subseteq Nat \ {0}
  /\ MaxBuffer \in Nat /\ MaxWire \in Nat

\* The code's choice of times: 2 * 5 + 8 < 30 and 15 < 30 seconds; the
\* handshake is read in at most two pieces.
ASSUME PatienceAssumption ==
  /\ 2 * ReadTimeout + BeatInterval < Patience
  /\ ReadyTimeout < Patience

VARIABLES
  pc,         \* where the connection's thread is
  modern,     \* protocol_version >= _PROTOCOL_LOGIN_PLUGIN
  join,       \* next_state is a login or a transfer, not a status ping
  remains,    \* what a varint read inside a packet yields: "long" or "bad"
  script,     \* what the client will still send of its own
  wire,       \* what is under way from the client to the proxy
  asked,      \* questions of the proxy the client has not answered
  gone,       \* the client has closed the connection
  pending,    \* buffer of _handle_connection, pending of _wake_server
  scratch,    \* what _consume_client_packets could not yet sort
  cut,        \* the read that completed the handshake ended inside a packet
  backend,    \* what the Minecraft server has received
  server,     \* the server's process: "off", "starting" or "ready"
  waking,     \* _wake_worker runs for this server
  wakeError,  \* _WAKE_ERRORS holds an error of this server
  waited,     \* time since the connection was accepted
  quiet,      \* time since the client last received a packet
  beatIn,     \* time until next_beat
  readIn      \* time until the recv under way times out

clientVars == <<modern, join, remains>>
streamVars == <<script, wire, asked, gone>>
bufferVars == <<pending, scratch, cut, backend>>
serverVars == <<server, waking, wakeError>>
timeVars   == <<waited, quiet, beatIn, readIn>>
vars == <<pc, clientVars, streamVars, bufferVars, serverVars, timeVars>>
-----------------------------------------------------------------------------
Packets == {"handshake", "login", "answer"}
Unit == [packet : Packets, half : 1..2]
Whole(p) == <<[packet |-> p, half |-> 1], [packet |-> p, half |-> 2]>>
\* The units of some packets, in their order.  (As a function that counts up, not with
\* SelectSeq: so that it can be proved about.)
Only(units, packets) ==
  LET upto[i \in 0..Len(units)] ==
        IF i = 0 THEN <<>>
        ELSE IF units[i].packet \in packets THEN Append(upto[i - 1], units[i]) ELSE upto[i - 1]
  IN  upto[Len(units)]
Own(units) == Only(units, Packets \ {"answer"})
Answers(units) == Only(units, {"answer"})

\* A status ping sends no login; what it sends after is a ping packet.
Script == Whole("handshake") \o Whole("login")

Places == {"handshake", "wake", "check", "recv", "connect", "forward", "closed"}
Running == server # "off"
Ready == server = "ready"
Ended == pc \in {"forward", "closed"}

\* Mutant of Budget: holds a client of any version.
BudgetOfAnyVersion == HoldTimeout

\* The time a client is kept, measured from accept.
Budget == IF modern THEN HoldTimeout ELSE ReadyTimeout

Init ==
  /\ pc = "handshake"
  /\ modern \in BOOLEAN /\ join \in BOOLEAN
  /\ remains \in {"long", "bad"}
  /\ script = Script /\ wire = <<>> /\ asked = 0 /\ gone = FALSE
  /\ pending = <<>> /\ scratch = <<>> /\ cut = FALSE /\ backend = <<>>
  /\ server \in {"off", "starting", "ready"} /\ waking = FALSE /\ wakeError \in BOOLEAN
  /\ waited = 0 /\ quiet = 0 /\ beatIn = 0 /\ readIn = ReadTimeout
-----------------------------------------------------------------------------
(* The world: the client, the network and the server.                      *)
ClientSends ==
  /\ ~gone /\ script # <<>> /\ Len(wire) < MaxWire
  /\ wire' = Append(wire, Head(script))
  /\ script' = Tail(script)
  /\ UNCHANGED <<pc, clientVars, asked, gone, bufferVars, serverVars, timeVars>>

\* A client answers every Login Plugin Request and stays in the login.
ClientAnswers ==
  /\ ~gone /\ asked > 0 /\ script = <<>> /\ Len(wire) + 2 <= MaxWire
  /\ wire' = wire \o Whole("answer")
  /\ asked' = asked - 1
  /\ UNCHANGED <<pc, clientVars, script, gone, bufferVars, serverVars, timeVars>>

\* The player gives up, or the client's read timeout fires.
ClientLeaves ==
  /\ ~gone /\ ~Ended
  /\ gone' = TRUE
  /\ UNCHANGED <<pc, clientVars, script, wire, asked, bufferVars, serverVars, timeVars>>

\* start_server by the wake's worker succeeds or fails.
WorkerEnds ==
  /\ waking
  /\ waking' = FALSE
  /\ \/ server' = (IF Running THEN server ELSE "starting") /\ UNCHANGED wakeError
     \/ ~Running /\ wakeError' = TRUE /\ UNCHANGED server
  /\ UNCHANGED <<pc, clientVars, streamVars, bufferVars, timeVars>>

ServerMoves ==
  /\ ~Ended
  /\ \/ server = "starting" /\ server' = "ready"
     \/ Running /\ server' = "off"
     \/ server = "off" /\ server' = "starting"
  /\ UNCHANGED <<pc, clientVars, streamVars, bufferVars, waking, wakeError, timeVars>>

\* Time passes only while the proxy waits for the client.
Tick ==
  /\ pc \in {"handshake", "recv"} /\ readIn > 0
  /\ gone \/ quiet < Patience
  /\ readIn' = readIn - 1
  /\ beatIn' = IF beatIn > 0 THEN beatIn - 1 ELSE 0
  /\ waited' = waited + 1
  /\ quiet' = IF gone THEN quiet ELSE quiet + 1
  /\ UNCHANGED <<pc, clientVars, streamVars, bufferVars, serverVars>>
-----------------------------------------------------------------------------
(* _handle_connection                                                      *)
Close == pc' = "closed"

\* A recv returns any part of what has arrived: the first n units.
Chunk(n) == SubSeq(wire, 1, n)
Received(n) ==
  /\ wire' = SubSeq(wire, n + 1, Len(wire))
  /\ UNCHANGED <<script, asked, gone>>

HandshakeDone(buffer) == Len(buffer) >= 2

\* Where a connection goes whose handshake is complete.
Route ==
  IF Running THEN "connect"
  ELSE IF join THEN "wake" ELSE "closed"   \* _respond_sleeping_status

ReadHandshake ==
  /\ pc = "handshake"
  /\ \E n \in 1..Len(wire) :
       /\ Received(n)
       /\ pending' = pending \o Chunk(n)
       /\ IF HandshakeDone(pending \o Chunk(n))
          THEN /\ pc' = Route
               /\ cut' = (wire[n].half = 1)
               /\ UNCHANGED readIn
          ELSE /\ readIn' = ReadTimeout
               /\ UNCHANGED <<pc, cut>>
  /\ UNCHANGED <<clientVars, scratch, backend, serverVars, waited, quiet, beatIn>>

HandshakeEnds ==
  /\ pc = "handshake"
  /\ readIn = 0 \/ (gone /\ wire = <<>>)
  /\ Close
  /\ UNCHANGED <<clientVars, streamVars, bufferVars, serverVars, timeVars>>
-----------------------------------------------------------------------------
(* _wake_server calls request_wake, which starts one worker for all who     *)
(* wait and forgets an older error, unless the server runs by now.          *)
RequestWake ==
  /\ pc = "wake"
  /\ pc' = "check"
  /\ beatIn' = BeatInterval
  /\ waking' = (waking \/ ~Running)
  /\ wakeError' = (wakeError /\ (waking \/ Running))
  /\ UNCHANGED <<clientVars, streamVars, bufferVars, server, waited, quiet, readIn>>

(* One round of its loop looks at the clock, the server, the error and the  *)
(* next heartbeat, and reads for _WAKE_POLL_INTERVAL at most.               *)
HoldTimesOut ==
  /\ pc = "check" /\ waited >= Budget
  /\ Close
  /\ UNCHANGED <<clientVars, streamVars, bufferVars, serverVars, timeVars>>

HoldServerReady ==
  /\ pc = "check" /\ waited < Budget /\ Ready
  /\ pc' = "connect"
  /\ UNCHANGED <<clientVars, streamVars, bufferVars, serverVars, timeVars>>

HoldTakesError ==
  /\ pc = "check" /\ waited < Budget /\ ~Ready
  /\ wakeError /\ wakeError' = FALSE
  /\ Close
  /\ UNCHANGED <<clientVars, streamVars, bufferVars, server, waking, timeVars>>

\* Sending to a client that is gone may raise.
HoldBeats ==
  /\ modern /\ beatIn = 0
  /\ \/ /\ quiet' = 0 /\ beatIn' = BeatInterval
        /\ asked' = asked + 1
        /\ pc' = "recv"
     \/ /\ gone /\ Close
        /\ UNCHANGED <<quiet, beatIn, asked>>

HoldRound ==
  /\ pc = "check" /\ waited < Budget /\ ~Ready /\ ~wakeError
  /\ \/ HoldBeats
     \/ /\ ~(modern /\ beatIn = 0)
        /\ pc' = "recv"
        /\ UNCHANGED <<quiet, beatIn, asked>>
  /\ readIn' = 1
  /\ UNCHANGED <<clientVars, script, wire, gone, bufferVars, serverVars, waited>>

\* The units of scratch that _consume_client_packets sorts: whole packets, or
\* all of it when the first bytes are no length at all.  It takes bytes inside
\* a packet for the length of one, which may ask for more than ever comes.
Sorted(s) ==
  IF s = <<>> THEN 0
  ELSE IF Head(s).half = 1 THEN 2 * (Len(s) \div 2)
  ELSE IF remains = "bad" THEN Len(s) ELSE 0

\* Mutant of Kept: the answers stay in the buffer.
KeptWithAnswers(s) == SubSeq(s, 1, Sorted(s))

\* What of the sorted units goes on to pending.
Kept(s) ==
  LET sorted == SubSeq(s, 1, Sorted(s))
  IN IF s # <<>> /\ Head(s).half = 1 THEN Own(sorted) ELSE sorted

\* Mutant of Rest: forgets the part of a packet.
RestForgotten(s) == <<>>

Rest(s) == SubSeq(s, Sorted(s) + 1, Len(s))

TooMuch == Len(pending') > MaxBuffer \/ Len(scratch') > MaxBuffer

HoldReads ==
  /\ pc = "recv"
  /\ \E n \in 1..Len(wire) :
       /\ Received(n)
       /\ IF modern THEN /\ pending' = pending \o Kept(scratch \o Chunk(n))
                         /\ scratch' = Rest(scratch \o Chunk(n))
                    ELSE pending' = pending \o Chunk(n) /\ UNCHANGED scratch
  /\ pc' = IF TooMuch THEN "closed" ELSE "check"
  /\ UNCHANGED <<clientVars, cut, backend, serverVars, timeVars>>

HoldReadTimesOut ==
  /\ pc = "recv" /\ readIn = 0
  /\ pc' = "check"
  /\ UNCHANGED <<clientVars, streamVars, bufferVars, serverVars, timeVars>>

HoldClientGone ==
  /\ pc = "recv" /\ gone /\ wire = <<>>
  /\ Close
  /\ UNCHANGED <<clientVars, streamVars, bufferVars, serverVars, timeVars>>
-----------------------------------------------------------------------------
(* _forward_to_backend: bytes(buffer) first, then what the pipe reads.      *)
HandOver ==
  /\ pc = "connect"
  /\ Running
  /\ backend' = pending
  /\ pc' = "forward"
  /\ UNCHANGED <<clientVars, streamVars, pending, scratch, cut, serverVars, timeVars>>

\* The port is not open yet, or not any more.
ConnectFails ==
  /\ pc = "connect"
  /\ ~Ready
  /\ Close
  /\ UNCHANGED <<clientVars, streamVars, bufferVars, serverVars, timeVars>>

PipeUp ==
  /\ pc = "forward"
  /\ \E n \in 1..Len(wire) : Received(n) /\ backend' = backend \o Chunk(n)
  /\ UNCHANGED <<pc, clientVars, pending, scratch, cut, serverVars, timeVars>>
-----------------------------------------------------------------------------
Next ==
  \/ ClientSends \/ ClientAnswers \/ ClientLeaves
  \/ WorkerEnds \/ ServerMoves \/ Tick
  \/ ReadHandshake \/ HandshakeEnds \/ RequestWake
  \/ HoldTimesOut \/ HoldServerReady \/ HoldTakesError \/ HoldRound
  \/ HoldReads \/ HoldReadTimesOut \/ HoldClientGone
  \/ HandOver \/ ConnectFails \/ PipeUp

Spec == Init /\ [][Next]_vars
-----------------------------------------------------------------------------
(* Properties                                                              *)

(* Whatever the client's bytes and the server do, a client the proxy still  *)
(* holds is told something before its read timeout fires: an old client     *)
(* within ReadyTimeout of the accept, a modern one by a heartbeat at least  *)
(* every BeatInterval, for as long as the start takes.                      *)
HeldClientHears == ~Ended /\ ~gone => quiet < Patience

(* However TCP splits them, no byte the client sent of its own is lost,     *)
(* doubled or reordered while it is held: the two buffers, the wire and     *)
(* what is still to be sent are the client's own stream.                    *)
OwnBytesKept ==
  pc \notin {"forward", "closed"} => Own(pending \o scratch \o wire) \o script = Script

(* The buffer that goes to the server holds no answer to a heartbeat,       *)
(* unless the read that ended the handshake also took part of a packet.     *)
BufferIsClean == ~cut => Answers(pending) = <<>>

(* "Seine Antworten auf UNSERE Heartbeats erreichen das Backend NIE" (head  *)
(* of tests/test_sleep_proxy_hold.py): no answer to a heartbeat ever        *)
(* reaches the server.  _consume_client_packets sees to it only while the   *)
(* client is held; the answer to the last heartbeat may come later.         *)
AnswersStayHere == Answers(backend) = <<>>

(* "Gelesene Bytes gehoeren zum Login-Strom und duerfen NICHT verworfen     *)
(* werden" (_client_still_waiting): what was read of the client's own bytes *)
(* reaches the server.  scratch is left behind when the server is ready.    *)
ReadBytesArrive ==
  pc = "forward" => Own(backend \o wire) \o script = Script
=============================================================================
