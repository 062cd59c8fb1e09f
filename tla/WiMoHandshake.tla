---------------------------- MODULE WiMoHandshake ----------------------------
(***************************************************************************)
(* The handshake of one CWiMoNetwork object with the receiving devices of  *)
(* the local network: HandshakeThread sends a request and waits,           *)
(* NetworkRecvThread takes the answer.  IOCtrlStep says where they are:    *)
(* the even steps are the sender's, the receiver advances 3, 5 and 7.      *)
(* Both change it with ++ and no lock, so that an increment is a load and  *)
(* a store.  After 500 ms without the answer the sender starts again.      *)
(*                                                                         *)
(* Packets go through UDP: a request or an answer may be lost, answers may *)
(* come twice and, in a late network, to a request of an attempt that was  *)
(* given up.  In a slow program the receive thread may sleep inside a      *)
(* handler for longer than a turn of the sender's loop (5 ms).             *)
(***************************************************************************)
EXTENDS Integers

CONSTANTS
  Devices,     \* the devices that answer a discovery
  All,         \* the broadcast address of the subnet
  Timings,     \* which of "prompt", "late" and "slow" may be the case
  NoSize,      \* the frame's size may never be known (GetAlignedWidth stays 0)
  MaxRestarts  \* bound: how often 500 ms pass without an answer

ASSUME AllAssumption == All \notin Devices
ASSUME TimingsAssumption == Timings \subseteq {"prompt", "late", "slow"}
ASSUME NoSizeAssumption == NoSize \in BOOLEAN
ASSUME MaxRestartsAssumption == MaxRestarts \in Nat

Requests == {"discover", "connect", "password", "announce"}
Answers == {"discover", "connect", "password"}

VARIABLES
  timing,    \* how old answers may be, and how slow the receive thread
  status,    \* statusWiMo
  step,      \* IOCtrlStep
  server,    \* server.sin_addr: where requests, and later the video, are sent
  runFirstTime, \* as in HandshakeThread
  hs,        \* the place of HandshakeThread
  hsStep,    \* what it has loaded from IOCtrlStep
  rx,        \* the place of NetworkRecvThread
  rxStep,    \* what it has loaded from IOCtrlStep
  packet,    \* what it has received: the answer and its sender
  asked,     \* requests a device may still answer
  granted,   \* history: devices whose password answer was taken
  connected, \* history: CONNECTING was stored
  restarts   \* how often the handshake started again for lack of an answer

hsVars == <<runFirstTime, hs, hsStep, asked, connected, restarts>>
rxVars == <<rx, rxStep, packet, granted>>
vars == <<timing, status, step, server, hsVars, rxVars>>

TypeOK ==
  /\ timing \in Timings
  /\ status \in {"INITING", "CONNECTING", "FINISH"}
  /\ step \in Nat /\ hsStep \in Nat /\ rxStep \in Nat
  /\ timing # "slow" => step \in 1..11 /\ hsStep \in 1..10 /\ rxStep \in 1..10
  /\ server \in Devices \cup {All}
  /\ runFirstTime \in BOOLEAN /\ connected \in BOOLEAN
  /\ hs \in {"test", "turn", "load", "store", "reset", "done"}
  /\ rx \in {"test", "recv", "take", "load", "store", "done"}
  /\ packet \in Answers \X (Devices \cup {All})
  /\ asked \subseteq Requests \X Devices
  /\ granted \subseteq Devices
  /\ restarts \in 0..MaxRestarts

Init ==
  /\ timing \in Timings
  /\ status = "INITING"
  /\ step = 1 /\ server = All /\ runFirstTime = TRUE
  /\ hs = "test" /\ hsStep = 1
  /\ rx = "test" /\ rxStep = 1 /\ packet = <<"discover", All>>
  /\ asked = {} /\ granted = {} /\ connected = FALSE /\ restarts = 0

\* StopWiMo, the timeout thread or a capture error (WiMoControl).
SessionEnds ==
  /\ status' = "FINISH"
  /\ UNCHANGED <<timing, step, server, hsVars, rxVars>>

\* Mutant: the connect answer is expected one step early.
ExpectedEarly == [discover |-> 3, connect |-> 4, password |-> 7]
Expected == [discover |-> 3, connect |-> 5, password |-> 7]

Awaited(answer) == answer \in Answers /\ step = Expected[answer]
\* Mutant: an answer is taken whenever the handshake waits for one.
TakesAny(answer) == step \in {3, 5, 7}
\* An answer is looked at only in the step that waits for it.
Takes(answer) == step = Expected[answer]

-----------------------------------------------------------------------------
(* HandshakeThread *)

HsMove(from, to) == hs = from /\ hs' = to
Handling == rx \in {"take", "load", "store"}
\* The sender has read IOCtrlStep and acts on it.
Turn(n, to) == HsMove("turn", to) /\ step = n /\ (Handling => timing = "slow")

\* sendto(server).
Ask(request) ==
  asked' = asked \cup {<<request, d>> : d \in IF server = All THEN Devices ELSE {server}}

HandshakeTests ==
  /\ HsMove("test", IF status = "INITING" THEN "turn" ELSE "done")
  /\ UNCHANGED <<timing, status, step, server, runFirstTime, hsStep, asked, connected, restarts, rxVars>>

\* The discovery goes to 255.255.255.255 and then to the subnet, whose address remains.
SendDiscovery ==
  /\ Turn(2, "load")
  /\ server' = All
  /\ asked' = asked \cup ({"discover"} \X Devices)
  /\ UNCHANGED <<timing, status, step, runFirstTime, hsStep, connected, restarts, rxVars>>

\* SendDisconnectCmd, for the device may still hold an earlier session.
StartAfresh ==
  /\ Turn(4, "reset")
  /\ runFirstTime
  /\ runFirstTime' = FALSE
  /\ UNCHANGED <<timing, status, step, server, hsStep, asked, connected, restarts, rxVars>>

\* After 1.5 s without the size of a frame: handshake_quit_loop.
QuitWithoutSize ==
  /\ Turn(4, "done")
  /\ ~runFirstTime /\ NoSize
  /\ status' = "FINISH"
  /\ UNCHANGED <<timing, step, server, runFirstTime, hsStep, asked, connected, restarts, rxVars>>

\* Mutant: the first answer is met with a connect request at once.
SendConnectAtOnce ==
  /\ Turn(4, "load")
  /\ Ask("connect")
  /\ UNCHANGED <<timing, status, step, server, runFirstTime, hsStep, connected, restarts, rxVars>>
SendConnect ==
  /\ Turn(4, "load")
  /\ ~runFirstTime
  /\ Ask("connect")
  /\ UNCHANGED <<timing, status, step, server, runFirstTime, hsStep, connected, restarts, rxVars>>

SendPassword ==
  /\ Turn(6, "load")
  /\ Ask("password")
  /\ UNCHANGED <<timing, status, step, server, runFirstTime, hsStep, connected, restarts, rxVars>>

SendSourceStatus ==
  /\ Turn(8, "load")
  /\ Ask("announce")
  /\ UNCHANGED <<timing, status, step, server, runFirstTime, hsStep, connected, restarts, rxVars>>

\* Nothing is sent in step 1, and the answer to the source status is not waited for.
PassStep ==
  /\ Turn(1, "load") \/ Turn(9, "load") \/ Turn(10, "load")
  /\ UNCHANGED <<timing, status, step, server, runFirstTime, hsStep, asked, connected, restarts, rxVars>>

\* Mutant: the loop is not left.
ConnectStays ==
  /\ Turn(11, "load")
  /\ status' = "CONNECTING" /\ connected' = TRUE
  /\ UNCHANGED <<timing, step, server, runFirstTime, hsStep, asked, restarts, rxVars>>
Connect ==
  /\ Turn(11, "done")
  /\ status' = "CONNECTING" /\ connected' = TRUE
  /\ UNCHANGED <<timing, step, server, runFirstTime, hsStep, asked, restarts, rxVars>>

\* Another look after 5 ms; a step beyond 11 would be looked at for ever.
Wait ==
  /\ \E n \in {3, 5, 7, 12} : Turn(n, "test")
  /\ UNCHANGED <<timing, status, step, server, runFirstTime, hsStep, asked, connected, restarts, rxVars>>

\* The bound: then the network answers in time, if it was asked at all.
MayGiveUp == restarts < MaxRestarts \/ \A request \in asked : ~Awaited(request[1])
\* Mutant: a password that is not answered in time counts as granted.
GiveUpLeniently ==
  /\ MayGiveUp /\ restarts' = IF restarts < MaxRestarts THEN restarts + 1 ELSE restarts
  /\ Turn(3, "reset") \/ Turn(5, "reset") \/ Turn(7, "load")
  /\ UNCHANGED <<timing, status, step, server, runFirstTime, hsStep, asked, connected, rxVars>>
GiveUp ==
  /\ MayGiveUp /\ restarts' = IF restarts < MaxRestarts THEN restarts + 1 ELSE restarts
  /\ Turn(3, "reset") \/ Turn(5, "reset") \/ Turn(7, "reset")
  /\ UNCHANGED <<timing, status, step, server, runFirstTime, hsStep, asked, connected, rxVars>>

\* IOCtrlStep = 1.  What the attempt asked for is answered later only by a late network.
ResetStep ==
  /\ HsMove("reset", "test")
  /\ step' = 1
  /\ asked' = IF timing # "prompt" THEN asked ELSE {}
  /\ UNCHANGED <<timing, status, server, runFirstTime, hsStep, connected, restarts, rxVars>>

\* IOCtrlStep++
HandshakeLoads ==
  /\ HsMove("load", "store")
  /\ hsStep' = step
  /\ UNCHANGED <<timing, status, step, server, runFirstTime, asked, connected, restarts, rxVars>>

HandshakeStores ==
  /\ HsMove("store", "test")
  /\ step' = hsStep + 1
  /\ UNCHANGED <<timing, status, server, runFirstTime, hsStep, asked, connected, restarts, rxVars>>

Handshake ==
  \/ HandshakeTests \/ SendDiscovery \/ StartAfresh \/ QuitWithoutSize
  \/ SendConnect \/ SendPassword \/ SendSourceStatus \/ PassStep \/ Connect
  \/ Wait \/ GiveUp \/ ResetStep \/ HandshakeLoads \/ HandshakeStores

-----------------------------------------------------------------------------
(* NetworkRecvThread *)

RxMove(from, to) == rx = from /\ rx' = to

RecvTests ==
  /\ RxMove("test", IF status = "FINISH" THEN "done" ELSE "recv")
  /\ UNCHANGED <<timing, status, step, server, hsVars, rxStep, packet, granted>>

\* Half a second without a packet.
RecvNothing ==
  /\ RxMove("recv", "test")
  /\ UNCHANGED <<timing, status, step, server, hsVars, rxStep, packet, granted>>

RecvAnswer(answer, d) ==
  /\ <<answer, d>> \in asked
  /\ rx = "recv"
  /\ IF Takes(answer)
     THEN /\ rx' = "take" /\ packet' = <<answer, d>>
          /\ granted' = IF answer = "password" THEN granted \cup {d} ELSE granted
     ELSE rx' = "test" /\ UNCHANGED <<timing, packet, granted>>
  /\ UNCHANGED <<timing, status, step, server, hsVars, rxStep>>

\* Mutant: the device is noted with its connect answer only.
TakeServerLate ==
  /\ RxMove("take", "load")
  /\ server' = IF packet[1] = "connect" THEN packet[2] ELSE server
  /\ UNCHANGED <<timing, status, step, hsVars, rxStep, packet, granted>>
\* The device that answers the discovery becomes the server.
TakeServer ==
  /\ RxMove("take", "load")
  /\ server' = IF packet[1] = "discover" THEN packet[2] ELSE server
  /\ UNCHANGED <<timing, status, step, hsVars, rxStep, packet, granted>>

\* IOCtrlStep++, after the check and the copy of the packet.
RecvLoads ==
  /\ RxMove("load", "store")
  /\ rxStep' = step
  /\ UNCHANGED <<timing, status, step, server, hsVars, packet, granted>>

RecvStores ==
  /\ RxMove("store", "test")
  /\ step' = rxStep + 1
  /\ UNCHANGED <<timing, status, server, hsVars, rxStep, packet, granted>>

Recv == RecvTests \/ RecvNothing \/ TakeServer \/ RecvLoads \/ RecvStores
RecvSome == \E answer \in Answers, d \in Devices : RecvAnswer(answer, d)

-----------------------------------------------------------------------------
Quiet == hs = "done" /\ rx = "done" /\ UNCHANGED vars

Next == SessionEnds \/ Handshake \/ Recv \/ RecvSome \/ Quiet

Spec == Init /\ [][Next]_vars

\* Both threads run, and an answer that is waited for again and again comes at last.
FairSpec ==
  Spec /\ WF_vars(Handshake) /\ WF_vars(Recv)
       /\ SF_vars(\E answer \in Answers, d \in Devices :
                    Awaited(answer) /\ RecvAnswer(answer, d))

-----------------------------------------------------------------------------
\* A session is connected only after the disconnect command that ends what the device
\* held before, however the two threads take increments from each other.
FreshSession == connected => ~runFirstTime

\* The steps after the password are reached only when a device granted it, however
\* late answers are.  In a slow program the two threads' increments add up, and the
\* handshake may skip the answer.
StepNeedsGrant == step >= 8 /\ timing # "slow" => granted # {}

\* From the connect request on everything is sent to the one device that answered the
\* discovery, and not to the subnet, unless the program is slow.
ServerIsDevice == step >= 4 /\ timing # "slow" => server \in Devices

\* The source status, and then the video, go to a device that granted the password,
\* if no answer outlives its attempt.
VideoGoesToGranted == step >= 8 /\ timing = "prompt" => server \in granted

\* The handshake connects, or the session has been ended: no update of IOCtrlStep that
\* the threads take from each other stops it for good, unless the program is slow: then
\* it may step over 11, and it is the timeout thread that ends it.
Decides == <>(connected \/ status = "FINISH" \/ timing = "slow")

\* What the session relies on.  Of a slow program nothing is promised.
Relied(value, else) == IF timing = "slow" THEN else ELSE value
Promise == INSTANCE Pairing WITH
  status <- Relied(status, "INITING"),
  granted <- Relied(granted, {}),
  connected <- Relied(connected, FALSE)
PairingSpec == Promise!Spec
=============================================================================
