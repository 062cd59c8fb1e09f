------------------------- MODULE WiMoHandshakeProofs -------------------------
(***************************************************************************)
(* For any devices, any number of restarts and answers of any age: unless  *)
(* the program is slow, IOCtrlStep stays in 1..11, the steps after the     *)
(* password need a granted password, and the handshake implements Pairing. *)
(* An attempt begins with nothing of the one before, whatever the timing,  *)
(* and in prompt timing the video goes to the device that granted it.      *)
(*                                                                         *)
(* The argument: between the receiver's check of the step and its          *)
(* increment the sender can only reset the step (Separate, Received), and  *)
(* an increment of the sender never meets one of the receiver (Counting).  *)
(***************************************************************************)
EXTENDS WiMoHandshake, TLAPS

\* While a packet is handled the sender is in no increment.
Separate == Handling => hs \notin {"load", "store"}

\* An increment of the sender starts from a step of its own, and nothing changes it.
Counting ==
  /\ hs \in {"load", "store"} => step \in {1, 2, 4, 6, 8, 9, 10}
  /\ hs = "store" => hsStep = step

\* The receiver increments the step it checked, unless the sender has reset it.
Received ==
  /\ rx \in {"take", "load"} => step \in {1, Expected[packet[1]]}
  /\ rx = "store" => rxStep \in {1, Expected[packet[1]]}

\* A granted password is remembered while its answer is handled, and after.
Granted ==
  /\ (Handling /\ packet[1] = "password") => granted # {}
  /\ StepNeedsGrant

\* From the answer to the discovery on there is a server, while a later answer is
\* handled as well; the answer being handled names one.
Addressed ==
  /\ ServerIsDevice
  /\ Handling => packet[2] \in Devices
  /\ Handling => server \in Devices \/ (rx = "take" /\ packet[1] = "discover")

\* CONNECTING is the last thing the sender stores.
Once == connected => hs = "done"

\* What holds of a program that is not slow.
Quick == Separate /\ Counting /\ Received /\ Granted /\ Addressed

IInv == TypeOK /\ Once /\ (timing # "slow" => Quick)

LEMMA ExpectedSteps ==
  /\ Expected["discover"] = 3 /\ Expected["connect"] = 5 /\ Expected["password"] = 7
  BY DEF Expected

LEMMA InitIInv == Init => IInv
  <1> SUFFICES ASSUME Init PROVE IInv
    OBVIOUS
  <1> USE DEF Init
  <1>1. TypeOK
    <2>1. restarts \in 0..MaxRestarts
      BY MaxRestartsAssumption
    <2>2. packet \in Answers \X (Devices \cup {All})
      BY DEF Answers
    <2>3. runFirstTime \in BOOLEAN /\ connected \in BOOLEAN
      OBVIOUS
    <2> QED
      BY <2>1, <2>2, <2>3, TimingsAssumption DEF TypeOK
  <1>2. Separate /\ Counting /\ Received
    BY DEF Separate, Counting, Received, Handling
  <1>3. Granted /\ Addressed /\ Once
    BY DEF Granted, Addressed, Once, Handling, StepNeedsGrant, ServerIsDevice
  <1> QED
    BY <1>1, <1>2, <1>3 DEF IInv, Quick

\* Type correctness needs to know which steps are incremented.
LEMMA TypeStep == IInv /\ [Next]_vars => TypeOK'
  <1> SUFFICES ASSUME IInv, [Next]_vars PROVE TypeOK'
    OBVIOUS
  <1> USE MaxRestartsAssumption DEF IInv, TypeOK, Quick
  <1>1. CASE SessionEnds
    BY <1>1 DEF SessionEnds, hsVars, rxVars
  <1>2. CASE Handshake
    <2>1. CASE HandshakeTests \/ PassStep \/ Wait \/ Connect \/ StartAfresh \/ QuitWithoutSize
      BY ZenonT(60), <1>2, <2>1 DEF HandshakeTests, PassStep, Wait, Connect, StartAfresh, QuitWithoutSize,
         Turn, HsMove, rxVars
    <2>2. CASE SendDiscovery \/ SendConnect \/ SendPassword \/ SendSourceStatus
      BY <1>2, <2>2 DEF SendDiscovery, SendConnect, SendPassword, SendSourceStatus, Ask,
         Turn, HsMove, rxVars, Requests
    <2>3. CASE GiveUp \/ ResetStep
      BY <1>2, <2>3 DEF GiveUp, ResetStep, MayGiveUp, Turn, HsMove, rxVars
    <2>4. CASE HandshakeLoads \/ HandshakeStores
      BY <1>2, <2>4 DEF HandshakeLoads, HandshakeStores, HsMove, rxVars, Counting
    <2> QED
      BY <1>2, <2>1, <2>2, <2>3, <2>4 DEF Handshake
  <1>3. CASE Recv
    <2>1. CASE RecvTests \/ RecvNothing \/ TakeServer
      BY <1>3, <2>1 DEF RecvTests, RecvNothing, TakeServer, RxMove, hsVars
    <2>2. CASE RecvLoads
      <3>1. packet[1] \in Answers
        OBVIOUS
      <3>2. timing # "slow" => step \in 1..10
        BY <2>2, <3>1, ExpectedSteps DEF RecvLoads, RxMove, Received, Answers
      <3> QED
        BY <2>2, <3>2 DEF RecvLoads, RxMove, hsVars
    <2>3. CASE RecvStores
      BY <2>3 DEF RecvStores, RxMove, hsVars
    <2> QED
      BY <1>3, <2>1, <2>2, <2>3 DEF Recv
  <1>4. CASE RecvSome
    BY <1>4 DEF RecvSome, RecvAnswer, hsVars, Answers
  <1>5. CASE Quiet \/ UNCHANGED vars
    BY <1>5 DEF Quiet, vars, hsVars, rxVars
  <1> QED
    BY <1>1, <1>2, <1>3, <1>4, <1>5 DEF Next

LEMMA SeparateStep ==
  ASSUME timing # "slow", IInv, [Next]_vars
  PROVE  Separate' /\ Counting'
  <1> USE DEF IInv, Quick, Separate, Counting, Handling
  <1>1. CASE SessionEnds
    BY <1>1 DEF SessionEnds, hsVars, rxVars
  <1>2. CASE Handshake
    BY <1>2 DEF Handshake, HandshakeTests, SendDiscovery, StartAfresh, QuitWithoutSize,
       SendConnect, SendPassword, SendSourceStatus, PassStep, Connect, Wait, GiveUp, ResetStep,
       HandshakeLoads, HandshakeStores, Turn, HsMove, rxVars
  <1>3. CASE Recv
    BY <1>3 DEF Recv, RecvTests, RecvNothing, TakeServer, RecvLoads, RecvStores, RxMove, hsVars
  <1>4. CASE RecvSome
    <2> PICK answer \in Answers, d \in Devices : RecvAnswer(answer, d)
      BY <1>4 DEF RecvSome
    <2>1. Takes(answer) => step \notin {1, 2, 4, 6, 8, 9, 10}
      BY ExpectedSteps DEF Takes, Answers
    <2> QED
      BY <2>1 DEF RecvAnswer, hsVars
  <1>5. CASE Quiet \/ UNCHANGED vars
    BY <1>5 DEF Quiet, vars, hsVars, rxVars
  <1> QED
    BY <1>1, <1>2, <1>3, <1>4, <1>5 DEF Next

LEMMA ReceivedStep ==
  ASSUME timing # "slow", IInv, [Next]_vars
  PROVE  Received'
  <1> USE DEF IInv, Quick, Received, Separate, Handling
  <1>1. CASE SessionEnds
    BY <1>1 DEF SessionEnds, hsVars, rxVars
  <1>2. CASE Handshake
    BY <1>2 DEF Handshake, HandshakeTests, SendDiscovery, StartAfresh, QuitWithoutSize,
       SendConnect, SendPassword, SendSourceStatus, PassStep, Connect, Wait, GiveUp, ResetStep,
       HandshakeLoads, HandshakeStores, Turn, HsMove, rxVars
  <1>3. CASE Recv
    BY <1>3 DEF Recv, RecvTests, RecvNothing, TakeServer, RecvLoads, RecvStores, RxMove, hsVars
  <1>4. CASE RecvSome
    <2> PICK answer \in Answers, d \in Devices : RecvAnswer(answer, d)
      BY <1>4 DEF RecvSome
    <2> QED
      BY DEF RecvAnswer, Takes, hsVars
  <1>5. CASE Quiet \/ UNCHANGED vars
    BY <1>5 DEF Quiet, vars, hsVars, rxVars
  <1> QED
    BY <1>1, <1>2, <1>3, <1>4, <1>5 DEF Next

LEMMA GrantedStep ==
  ASSUME timing # "slow", IInv, [Next]_vars
  PROVE  Granted'
  <1> USE DEF IInv, Quick, TypeOK, Granted, Handling, StepNeedsGrant
  <1>1. CASE SessionEnds
    BY <1>1 DEF SessionEnds, hsVars, rxVars
  <1>2. CASE Handshake
    <2>1. CASE HandshakeStores
      BY <2>1 DEF HandshakeStores, HsMove, Counting, rxVars
    <2>2. CASE ResetStep
      BY <2>2 DEF ResetStep, HsMove, rxVars
    <2>3. CASE ~HandshakeStores /\ ~ResetStep
      BY <1>2, <2>3 DEF Handshake, HandshakeTests, SendDiscovery, StartAfresh, QuitWithoutSize,
         SendConnect, SendPassword, SendSourceStatus, PassStep, Connect, Wait, GiveUp,
         HandshakeLoads, rxVars
    <2> QED
      BY <2>1, <2>2, <2>3
  <1>3. CASE Recv
    <2>1. CASE RecvStores
      <3>1. rxStep + 1 >= 8 => packet[1] = "password"
        BY <2>1, ExpectedSteps DEF RecvStores, RxMove, Received, Answers
      <3> QED
        BY <2>1, <3>1 DEF RecvStores, RxMove
    <2>2. CASE RecvTests \/ RecvNothing \/ TakeServer \/ RecvLoads
      BY <2>2 DEF RecvTests, RecvNothing, TakeServer, RecvLoads, RxMove, hsVars
    <2> QED
      BY <1>3, <2>1, <2>2 DEF Recv
  <1>4. CASE RecvSome
    <2> PICK answer \in Answers, d \in Devices : RecvAnswer(answer, d)
      BY <1>4 DEF RecvSome
    <2> QED
      BY DEF RecvAnswer
  <1>5. CASE Quiet \/ UNCHANGED vars
    BY <1>5 DEF Quiet, vars, hsVars, rxVars
  <1> QED
    BY <1>1, <1>2, <1>3, <1>4, <1>5 DEF Next

LEMMA AddressedStep ==
  ASSUME timing # "slow", IInv, [Next]_vars
  PROVE  Addressed'
  <1> USE DEF IInv, Quick, TypeOK, Addressed, Handling, ServerIsDevice
  <1>1. CASE SessionEnds
    BY <1>1 DEF SessionEnds, hsVars, rxVars
  <1>2. CASE Handshake
    <2>1. CASE HandshakeStores
      \* Of the steps incremented only those from 4 on lead to 4 and beyond.
      BY <2>1 DEF HandshakeStores, HsMove, Counting, Separate, rxVars
    <2>2. CASE SendDiscovery
      BY <2>2 DEF SendDiscovery, Turn, HsMove, rxVars
    <2>3. CASE ResetStep
      BY <2>3 DEF ResetStep, HsMove, rxVars
    <2>4. CASE ~HandshakeStores /\ ~SendDiscovery /\ ~ResetStep
      BY <1>2, <2>4 DEF Handshake, HandshakeTests, StartAfresh, QuitWithoutSize, SendConnect,
         SendPassword, SendSourceStatus, PassStep, Connect, Wait, GiveUp, HandshakeLoads, rxVars
    <2> QED
      BY <2>1, <2>2, <2>3, <2>4
  <1>3. CASE Recv
    BY <1>3 DEF Recv, RecvTests, RecvNothing, TakeServer, RecvLoads, RecvStores, RxMove, hsVars
  <1>4. CASE RecvSome
    <2> PICK answer \in Answers, d \in Devices : RecvAnswer(answer, d)
      BY <1>4 DEF RecvSome
    <2>1. Takes(answer) => answer = "discover" \/ server \in Devices
      BY ExpectedSteps DEF Takes, Answers
    <2> QED
      BY <2>1 DEF RecvAnswer, hsVars
  <1>5. CASE Quiet \/ UNCHANGED vars
    BY <1>5 DEF Quiet, vars, hsVars, rxVars
  <1> QED
    BY <1>1, <1>2, <1>3, <1>4, <1>5 DEF Next

LEMMA OnceStep == IInv /\ [Next]_vars => Once'
  BY DEF IInv, Once, Next, SessionEnds, Handshake, HandshakeTests, SendDiscovery, StartAfresh,
     QuitWithoutSize, SendConnect, SendPassword, SendSourceStatus, PassStep, Connect, Wait,
     GiveUp, ResetStep, HandshakeLoads, HandshakeStores, Turn, HsMove, Recv, RecvTests,
     RecvNothing, TakeServer, RecvLoads, RecvStores, RecvSome, RecvAnswer, Quiet, vars, hsVars

LEMMA TimingStays == [Next]_vars => timing' = timing
  BY DEF Next, SessionEnds, Handshake, HandshakeTests, SendDiscovery, StartAfresh,
     QuitWithoutSize, SendConnect, SendPassword, SendSourceStatus, PassStep, Connect, Wait,
     GiveUp, ResetStep, HandshakeLoads, HandshakeStores, Recv, RecvTests, RecvNothing,
     TakeServer, RecvLoads, RecvStores, RecvSome, RecvAnswer, Quiet, vars

THEOREM Invariant == Spec => []IInv
  <1>1. IInv /\ [Next]_vars => IInv'
    BY TypeStep, OnceStep, TimingStays, SeparateStep, ReceivedStep, GrantedStep, AddressedStep
    DEF IInv, Quick
  <1> QED
    BY InitIInv, <1>1, PTL DEF Spec

\* IOCtrlStep stays in 1..11: the loop of HandshakeThread knows every step it meets,
\* unless the program is slow.
THEOREM TypeCorrect == Spec => []TypeOK
  BY Invariant, PTL DEF IInv

\* Nothing after the password is sent, and no session connected, before a device has
\* granted it.
THEOREM GrantIsNeeded == Spec => []StepNeedsGrant
  <1>1. IInv => StepNeedsGrant
    BY DEF IInv, Quick, Granted, StepNeedsGrant
  <1> QED
    BY Invariant, <1>1, PTL

\* Connect and password requests, the source status and the video have one receiver.
THEOREM RequestsHaveOneReceiver == Spec => []ServerIsDevice
  <1>1. IInv => ServerIsDevice
    BY DEF IInv, Quick, Addressed, ServerIsDevice
  <1> QED
    BY Invariant, <1>1, PTL

-----------------------------------------------------------------------------
(* The disconnect command that starts a session afresh. *)

\* Until the disconnect command is sent the devices are asked for nothing but discovery,
\* and the step gets no further than 5: the increments of the two threads add up, but there
\* is one answer to take for each turn of the sender.
Unasked ==
  runFirstTime =>
    /\ ~connected /\ step \in 1..5
    /\ \A q \in asked : q[1] = "discover"
    /\ hs = "load" => step <= (IF Handling THEN 3 ELSE 4)
    /\ hs = "store" => hsStep <= 4 /\ (hsStep = 4 => step = 4)
    /\ Handling => step <= 4 /\ (step = 4 => hs \in {"test", "turn", "done"})
    /\ rx = "store" => rxStep <= 4 /\ (rxStep = 4 => step = 4)

\* No step of either thread brings the handshake past 5 with the command unsent.
LEMMA UnaskedStep == TypeOK /\ Unasked /\ [Next]_vars => Unasked'
  <1> SUFFICES ASSUME TypeOK, Unasked, [Next]_vars, runFirstTime' PROVE Unasked'
    BY DEF Unasked
  <1>1. runFirstTime
    BY DEF Next, SessionEnds, Handshake, HandshakeTests, SendDiscovery, StartAfresh,
       QuitWithoutSize, SendConnect, SendPassword, SendSourceStatus, PassStep, Connect, Wait,
       GiveUp, ResetStep, HandshakeLoads, HandshakeStores, Recv, RecvTests, RecvNothing,
       TakeServer, RecvLoads, RecvStores, RecvSome, RecvAnswer, Quiet, vars, hsVars, TypeOK
  <1> USE <1>1 DEF TypeOK, Unasked, Handling
  <1>2. CASE SessionEnds
    BY <1>2 DEF SessionEnds, hsVars, rxVars
  <1>3. CASE Handshake
    <2>1. CASE HandshakeTests \/ PassStep \/ Wait \/ GiveUp \/ ResetStep
      BY <2>1 DEF HandshakeTests, PassStep, Wait, GiveUp, ResetStep, Turn, HsMove, rxVars
    <2>2. CASE SendDiscovery
      BY <2>2 DEF SendDiscovery, Turn, HsMove, rxVars
    <2>3. CASE HandshakeLoads \/ HandshakeStores
      BY <2>3 DEF HandshakeLoads, HandshakeStores, HsMove, rxVars
    <2>4. ~SendPassword /\ ~SendSourceStatus /\ ~Connect /\ ~SendConnect /\ ~QuitWithoutSize
          /\ ~StartAfresh
      BY DEF SendPassword, SendSourceStatus, Connect, SendConnect, QuitWithoutSize, StartAfresh,
             Turn
    <2> QED
      BY <1>3, <2>1, <2>2, <2>3, <2>4 DEF Handshake
  <1>4. CASE Recv
    BY <1>4 DEF Recv, RecvTests, RecvNothing, TakeServer, RecvLoads, RecvStores, RxMove, hsVars
  <1>5. CASE RecvSome
    <2> PICK answer \in Answers, d \in Devices : RecvAnswer(answer, d)
      BY <1>5 DEF RecvSome
    <2>1. answer = "discover"
      BY DEF RecvAnswer
    <2>2. Takes(answer) => step = 3
      BY <2>1, ExpectedSteps DEF Takes
    <2> QED
      BY <2>2 DEF RecvAnswer, hsVars
  <1>6. CASE Quiet \/ UNCHANGED vars
    BY <1>6 DEF Quiet, vars, hsVars, rxVars
  <1> QED
    BY <1>2, <1>3, <1>4, <1>5, <1>6 DEF Next

\* HandshakeThread never stores CONNECTING before it has sent the disconnect command that
\* ends what the device held, not even in a slow program.
THEOREM SessionsStartAfresh == Spec => []FreshSession
  <1>1. Init => Unasked
    BY DEF Init, Unasked, Handling
  <1>2. TypeOK /\ Unasked /\ [Next]_vars => Unasked'
    BY UnaskedStep
  <1>3. Unasked => FreshSession
    BY DEF Unasked, FreshSession
  <1> QED
    BY TypeCorrect, <1>1, <1>2, <1>3, PTL DEF Spec

-----------------------------------------------------------------------------
(* Who gets the video, when no answer outlives its attempt. *)

\* The receiver increments the step it loaded, or the sender has reset it since.
Undone == rx = "store" => step \in {1, rxStep}

\* Whatever was asked beyond discovery in this attempt was asked of the server, and the
\* answer being handled is the server's.
OneReceiver ==
  /\ \A q \in asked : q[1] # "discover" => q[2] = server /\ step >= 4
  /\ (Handling /\ packet[1] # "discover") => packet[2] = server

\* The device whose password answer is handled is among those that granted it.
GrantedIsServer ==
  /\ (Handling /\ packet[1] = "password") => packet[2] \in granted
  /\ step >= 8 => server \in granted

Prompt == Undone /\ OneReceiver /\ GrantedIsServer

\* The part about the threads' increments.
LEMMA UndoneStep ==
  ASSUME timing = "prompt", IInv, Undone, [Next]_vars
  PROVE  Undone'
  <1> USE DEF IInv, Quick, Separate, Counting, Handling, Undone
  <1>1. CASE SessionEnds
    BY <1>1 DEF SessionEnds, hsVars, rxVars
  <1>2. CASE Handshake
    BY <1>2 DEF Handshake, HandshakeTests, SendDiscovery, StartAfresh, QuitWithoutSize,
       SendConnect, SendPassword, SendSourceStatus, PassStep, Connect, Wait, GiveUp, ResetStep,
       HandshakeLoads, HandshakeStores, Turn, HsMove, rxVars
  <1>3. CASE Recv
    BY <1>3 DEF Recv, RecvTests, RecvNothing, TakeServer, RecvLoads, RecvStores, RxMove, hsVars
  <1>4. CASE RecvSome
    BY <1>4 DEF RecvSome, RecvAnswer, hsVars
  <1>5. CASE Quiet \/ UNCHANGED vars
    BY <1>5 DEF Quiet, vars, hsVars, rxVars
  <1> QED
    BY <1>1, <1>2, <1>3, <1>4, <1>5 DEF Next

\* Requests after the discovery have one receiver, which does not change while they, or
\* their answers, are on their way.
LEMMA OneReceiverStep ==
  ASSUME timing = "prompt", IInv, Prompt, [Next]_vars
  PROVE  OneReceiver'
  <1> USE DEF IInv, Quick, TypeOK, Prompt, Handling, OneReceiver
  <1>1. CASE SessionEnds
    BY <1>1 DEF SessionEnds, hsVars, rxVars
  <1>2. CASE Handshake
    <2>1. CASE SendConnect \/ SendPassword \/ SendSourceStatus
      <3>1. server \in Devices /\ server # All /\ step >= 4
        BY <2>1, AllAssumption DEF SendConnect, SendPassword, SendSourceStatus, Turn, Addressed,
           ServerIsDevice
      <3>2. \E request \in Requests : asked' = asked \cup {<<request, server>>}
        BY <2>1, <3>1 DEF SendConnect, SendPassword, SendSourceStatus, Ask, Requests
      <3> QED
        BY <2>1, <3>1, <3>2 DEF SendConnect, SendPassword, SendSourceStatus, Turn, HsMove, rxVars
    <2>2. CASE SendDiscovery
      BY <2>2 DEF SendDiscovery, Turn, HsMove, rxVars
    <2>3. CASE ResetStep
      BY <2>3 DEF ResetStep, HsMove, rxVars
    <2>4. CASE HandshakeStores
      BY <2>4 DEF HandshakeStores, HsMove, Counting, Separate, rxVars
    <2>5. CASE HandshakeTests \/ StartAfresh \/ QuitWithoutSize \/ PassStep \/ Connect \/ Wait
                 \/ GiveUp \/ HandshakeLoads
      BY <2>5 DEF HandshakeTests, StartAfresh, QuitWithoutSize, PassStep, Connect, Wait, GiveUp,
         HandshakeLoads, rxVars
    <2> QED
      BY <1>2, <2>1, <2>2, <2>3, <2>4, <2>5 DEF Handshake
  <1>3. CASE Recv
    <2>1. CASE TakeServer
      <3>1. packet[1] = "discover" => step <= 3
        BY <2>1, ExpectedSteps DEF TakeServer, RxMove, Received
      <3> QED
        BY <2>1, <3>1 DEF TakeServer, RxMove, hsVars
    <2>2. CASE RecvStores
      BY <2>2, ExpectedSteps DEF RecvStores, RxMove, hsVars, Undone
    <2>3. CASE RecvTests \/ RecvNothing \/ RecvLoads
      BY <2>3 DEF RecvTests, RecvNothing, RecvLoads, RxMove, hsVars
    <2> QED
      BY <1>3, <2>1, <2>2, <2>3 DEF Recv
  <1>4. CASE RecvSome
    <2> PICK answer \in Answers, d \in Devices : RecvAnswer(answer, d)
      BY <1>4 DEF RecvSome
    <2> QED
      BY DEF RecvAnswer, hsVars
  <1>5. CASE Quiet \/ UNCHANGED vars
    BY <1>5 DEF Quiet, vars, hsVars, rxVars
  <1> QED
    BY <1>1, <1>2, <1>3, <1>4, <1>5 DEF Next

\* The password that brings the handshake to its last steps is the server's.
LEMMA GrantedIsServerStep ==
  ASSUME timing = "prompt", IInv, Prompt, [Next]_vars
  PROVE  GrantedIsServer'
  <1> USE DEF IInv, Quick, TypeOK, Prompt, Handling, GrantedIsServer
  <1>1. CASE SessionEnds
    BY <1>1 DEF SessionEnds, hsVars, rxVars
  <1>2. CASE Handshake
    <2>1. CASE HandshakeStores
      BY <2>1 DEF HandshakeStores, HsMove, Counting, rxVars
    <2>2. CASE SendDiscovery
      BY <2>2 DEF SendDiscovery, Turn, HsMove, rxVars
    <2>3. CASE ResetStep
      BY <2>3 DEF ResetStep, HsMove, rxVars
    <2>4. CASE ~HandshakeStores /\ ~SendDiscovery /\ ~ResetStep
      BY <1>2, <2>4 DEF Handshake, HandshakeTests, StartAfresh, QuitWithoutSize, SendConnect,
         SendPassword, SendSourceStatus, PassStep, Connect, Wait, GiveUp, HandshakeLoads, rxVars
    <2> QED
      BY <2>1, <2>2, <2>3, <2>4
  <1>3. CASE Recv
    <2>1. CASE TakeServer
      <3>1. packet[1] = "discover" => step <= 3
        BY <2>1, ExpectedSteps DEF TakeServer, RxMove, Received
      <3> QED
        BY <2>1, <3>1 DEF TakeServer, RxMove, hsVars
    <2>2. CASE RecvStores
      <3>1. rxStep + 1 >= 8 => packet[1] = "password"
        BY <2>2, ExpectedSteps DEF RecvStores, RxMove, Received, Answers
      <3> QED
        BY <2>2, <3>1 DEF RecvStores, RxMove, hsVars, OneReceiver
    <2>3. CASE RecvTests \/ RecvNothing \/ RecvLoads
      BY <2>3 DEF RecvTests, RecvNothing, RecvLoads, RxMove, hsVars
    <2> QED
      BY <1>3, <2>1, <2>2, <2>3 DEF Recv
  <1>4. CASE RecvSome
    <2> PICK answer \in Answers, d \in Devices : RecvAnswer(answer, d)
      BY <1>4 DEF RecvSome
    <2> QED
      BY DEF RecvAnswer, hsVars
  <1>5. CASE Quiet \/ UNCHANGED vars
    BY <1>5 DEF Quiet, vars, hsVars, rxVars
  <1> QED
    BY <1>1, <1>2, <1>3, <1>4, <1>5 DEF Next

\* With a prompt network the source status and the video go to a device that granted the
\* password itself, and not to the one that was quickest to answer something.
THEOREM VideoHasItsReceiver == Spec => []VideoGoesToGranted
  <1>1. Init => (timing = "prompt" => Prompt)
    BY DEF Init, Prompt, Undone, OneReceiver, GrantedIsServer, Handling
  <1>2. IInv /\ (timing = "prompt" => Prompt) /\ [Next]_vars => (timing = "prompt" => Prompt)'
    BY TimingStays, UndoneStep, OneReceiverStep, GrantedIsServerStep DEF Prompt
  <1>3. (timing = "prompt" => Prompt) => VideoGoesToGranted
    BY DEF Prompt, GrantedIsServer, VideoGoesToGranted
  <1> QED
    BY Invariant, <1>1, <1>2, <1>3, PTL DEF Spec

-----------------------------------------------------------------------------
\* The handshake is a Pairing.
THEOREM HandshakePairs == Spec => PairingSpec
  <1> USE DEF Relied
  <1>1. Init => Promise!Init
    BY DEF Init, Promise!Init
  <1>2. IInv /\ [Next]_vars => [Promise!Next]_(Promise!vars)
    <2> SUFFICES ASSUME IInv, [Next]_vars PROVE [Promise!Next]_(Promise!vars)
      OBVIOUS
    <2> USE TimingStays DEF Promise!Next, Promise!vars
    <2>0. CASE timing = "slow"
      BY <2>0
    <2>1. CASE timing # "slow" /\ SessionEnds
      BY <2>1 DEF SessionEnds, hsVars, rxVars, Promise!End
    <2>2. CASE timing # "slow" /\ Handshake
      <3>1. CASE Connect
        <4>1. granted # {}
          BY <2>2, <3>1 DEF Connect, Turn, IInv, Quick, Granted, StepNeedsGrant
        <4>2. ~connected
          BY <3>1 DEF Connect, Turn, HsMove, IInv, Once
        <4> QED
          BY <2>2, <3>1, <4>1, <4>2 DEF Connect, rxVars, Promise!Connect
      <3>2. CASE QuitWithoutSize
        BY <2>2, <3>2 DEF QuitWithoutSize, rxVars, Promise!End
      <3>3. CASE ~Connect /\ ~QuitWithoutSize
        BY <2>2, <3>3 DEF Handshake, HandshakeTests, SendDiscovery, StartAfresh, SendConnect,
           SendPassword, SendSourceStatus, PassStep, Wait, GiveUp, ResetStep, HandshakeLoads,
           HandshakeStores, rxVars
      <3> QED
        BY <3>1, <3>2, <3>3
    <2>3. CASE timing # "slow" /\ Recv
      BY <2>3 DEF Recv, RecvTests, RecvNothing, TakeServer, RecvLoads, RecvStores, hsVars
    <2>4. CASE timing # "slow" /\ RecvSome
      <3> PICK answer \in Answers, d \in Devices : RecvAnswer(answer, d)
        BY <2>4 DEF RecvSome
      <3> QED
        BY <2>4 DEF RecvAnswer, hsVars, Promise!Grant
    <2>5. CASE Quiet \/ UNCHANGED vars
      BY <2>5 DEF Quiet, vars, hsVars, rxVars
    <2> QED
      BY <2>0, <2>1, <2>2, <2>3, <2>4, <2>5 DEF Next
  <1> QED
    BY Invariant, <1>1, <1>2, PTL DEF Spec, PairingSpec, Promise!Spec
=============================================================================
