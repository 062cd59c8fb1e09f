------------------------- MODULE WiMoControlProofs -------------------------
(***************************************************************************)
(* Proofs about WiMoControl for any number of sessions, every capture and  *)
(* audio method, and whatever the device and the system do.                *)
(*                                                                         *)
(* Why no thread outlives the object it runs on, although StopWiMo and a   *)
(* timer thread may both be in UnInit and a new session may have begun:    *)
(* only a published network object is ever taken apart, its threads are    *)
(* not created again once they have ended, and UnInitNet deletes it after  *)
(* joining both; the handle of the one other thread is stored in the step  *)
(* that creates it.  The capture threads are only ever started for the     *)
(* objects of the latest session while that session's handle is current.   *)
(*                                                                         *)
(* The other properties are about sessions that do not overlap.  Whatever  *)
(* exists then is of the session at hand (OnlyOurs): StopWiMo joins the    *)
(* timer before its own UnInit, so that only one UnInit runs (OneUnInit),  *)
(* and a network object is deleted after its threads, so that none is left *)
(* when pCNetwork is null again.  From that follow what a StopWiMo leaves, *)
(* whose object a thread finds behind pCNetwork, and of whom the status    *)
(* and the reason speak when the application is told (Honest).             *)
(***************************************************************************)
EXTENDS WiMoControl, TLAPS

\* StartWiMo leaves room for a session, and has begun the one whose number Init uses.
Begun ==
  /\ ui = "begin" => started < MaxSessions
  /\ ui \in {"objects", "network", "publish", "timer", "failed"} => started \in Sessions

\* InitNet of session s is over: its threads are not created again.
Born(s) == s < started \/ (s = started /\ ui \notin {"objects", "network"})

\* Pointers lead to sessions that have begun, and pCNetwork to a network object that is born.
PointersBegun ==
  /\ \A k \in Objects : ptr[k] <= started /\ (ui = "objects" => ptr[k] < started)
  /\ ptr["network"] # NULL => Born(ptr["network"])
  /\ \A s \in Sessions : life["network"][s] = "deleted" => Born(s)

\* A session that has not begun has no threads, one that is not born no network threads.
NoThreadsYet ==
  /\ \A s \in Sessions : s > started => \A t \in Threads : pc[t][s] = "none"
  /\ ui = "objects" => \A t \in {"video", "cpu"} : pc[t][started] = "none"

\* How far UnInit has come: what it deletes is born, and what it has joined has ended.
UnInitOrder ==
  \A o \in Owners :
    /\ un[o] \in {"alive", "handshake", "recv", "free"} =>
         unNet[o] \in Sessions /\ Born(unNet[o])
    /\ un[o] \in {"recv", "free"} => Ended("handshake", unNet[o])
    /\ un[o] = "free" => Ended("recv", unNet[o])

\* A deleted network object has no thread but one whose handle is set.
NetworkThreads ==
  \A s \in Sessions :
    /\ life["network"][s] = "deleted" => Ended("handshake", s) /\ Ended("recv", s)
    /\ Ended("alive", s) \/ aliveHnd[s]

\* A capture thread of the latest session was started for the object that is still
\* pointed to, or that is gone, and its handle is kept until it has been joined.
CaptureThreads ==
  \A t \in {"video", "cpu"}, s \in Sessions : s = started =>
    /\ pc[t][s] # "none" => ptr[t] \in {NULL, s}
    /\ Ended(t, s) \/ hnd[t] = s

Safe == PointersBegun /\ NoThreadsYet /\ UnInitOrder /\ NetworkThreads /\ CaptureThreads

IInv == TypeOK /\ Begun /\ Safe

-----------------------------------------------------------------------------
(* Types. *)

PcOK == DOMAIN pc = Threads /\ \A t \in Threads : pc[t] \in [Sessions -> Places[t]]

\* A thread that goes to one of its places keeps the places typed.
LEMMA MoveTyped ==
  ASSUME PcOK, NEW t \in Threads, NEW s \in Sessions, NEW from, NEW to \in Places[t],
         Move(t, s, from, to)
  PROVE  PcOK'
  BY DEF PcOK, Move

\* As MoveTyped, for a step that moves, or creates, two threads of a session.
LEMMA TwoMovesTyped ==
  ASSUME PcOK, NEW t \in Threads, NEW u \in Threads, t # u, NEW s \in Sessions,
         NEW at \in Places[t], NEW to \in Places[u],
         pc' = [pc EXCEPT ![t][s] = at, ![u][s] = to]
  PROVE  PcOK'
  <1>1. DOMAIN pc' = Threads
    BY DEF PcOK
  <1>2. ASSUME NEW v \in Threads PROVE pc'[v] \in [Sessions -> Places[v]]
    <2>1. pc[v] \in [Sessions -> Places[v]]
      BY DEF PcOK
    <2>2. CASE v = t
      <3>1. pc'[t] = [pc[t] EXCEPT ![s] = at]
        BY DEF PcOK
      <3> QED
        BY ZenonT(60), <2>1, <2>2, <3>1
    <2>3. CASE v = u
      <3>1. pc'[u] = [pc[u] EXCEPT ![s] = to]
        BY DEF PcOK
      <3> QED
        BY ZenonT(60), <2>1, <2>3, <3>1
    <2>4. CASE v # t /\ v # u
      <3>1. pc'[v] = pc[v]
        BY <2>4 DEF PcOK
      <3> QED
        BY <2>1, <3>1
    <2> QED
      BY <2>2, <2>3, <2>4
  <1> QED
    BY <1>1, <1>2 DEF PcOK

\* What NotifyUIStop, SendDisconnectCmd and the start of UnInit write is typed.
LEMMA TellTyped ==
  ASSUME callbacks \in [Sessions -> Seq({"FAIL", "SUCCESS", "KICKED", "TIMEOUT"})],
         NEW s \in Sessions, NEW code \in {"FAIL", "SUCCESS", "KICKED", "TIMEOUT"},
         Tell(s, code)
  PROVE  callbacks' \in [Sessions -> Seq({"FAIL", "SUCCESS", "KICKED", "TIMEOUT"})]
  <1>1. Append(callbacks[s], code) \in Seq({"FAIL", "SUCCESS", "KICKED", "TIMEOUT"})
    OBVIOUS
  <1> QED
    BY <1>1 DEF Tell

\* NotifyUIStop has one of three things to tell.
LEMMA StopCodeTyped == StopCode \in {"FAIL", "KICKED", "TIMEOUT"}
  BY DEF StopCode

\* The byte of the disconnect command is a byte.
LEMMA SaidTyped ==
  ASSUME said \in [Sessions -> {NOTHING} \cup 0..255], NEW s \in Sessions,
         NEW r \in {"ERROR", "TIMEOUT", "KICKED", "DATALOST"}, SendDisconnectCmd(s, r)
  PROVE  said' \in [Sessions -> {NOTHING} \cup 0..255]
  <1>1. Number[r] \in 0..255
    BY DEF Number
  <1>2. Number[r] % 256 \in Nat /\ Number[r] \div 256 \in Nat
    BY <1>1
  <1>3. Htons(Number[r]) \in Nat
    BY <1>2 DEF Htons
  <1>4. Htons(Number[r]) % 256 \in 0..255
    BY <1>3
  <1> QED
    BY <1>4 DEF SendDisconnectCmd

UnOK ==
  /\ un \in [Owners -> {"none", "alive", "handshake", "recv", "free", "null", "rest"}]
  /\ unNet \in [Owners -> Sessions \cup {NULL}]

\* UnInit starts within its types.
LEMMA BeginTyped ==
  ASSUME UnOK, ptr \in [Objects -> Sessions \cup {NULL}], NEW o \in Owners, BeginUnInit(o)
  PROVE  UnOK'
  BY DEF UnOK, BeginUnInit, Objects

\* The types hold at the start.
LEMMA InitTyped == Init => TypeOK
  <1> SUFFICES ASSUME Init PROVE TypeOK
    OBVIOUS
  <1>1. PcOK
    BY DEF Init, PcOK, Threads, Places
  <1>2. started \in 0..MaxSessions
    BY MaxSessionsAssumption DEF Init
  <1>3. callbacks \in [Sessions -> Seq({"FAIL", "SUCCESS", "KICKED", "TIMEOUT"})]
    BY DEF Init
  <1>4. UnOK
    BY DEF Init, UnOK
  <1> QED
    BY <1>1, <1>2, <1>3, <1>4 DEF Init, TypeOK, PcOK, UnOK

\* What the caller's thread does outside UnInit keeps the types.
LEMMA CallerTyped == ASSUME TypeOK, Begun, Start \/ Stop PROVE TypeOK'
  <1>0. PcOK /\ UnOK
    BY DEF TypeOK, PcOK, UnOK
  <1> USE DEF TypeOK, objVars, netVars, hndVars, unVars, sessionVars, callVars, histVars, Call
  <1>1. CASE StartSetIniting
    <2>1. started' \in 0..MaxSessions
      <3>1. started \in 0..MaxSessions /\ started < MaxSessions /\ started' = started + 1
        BY <1>1 DEF StartSetIniting, Begun
      <3> HIDE DEF TypeOK
      <3> QED
        BY <3>1, MaxSessionsAssumption
    <2> QED
      BY <1>1, <2>1 DEF StartSetIniting
  <1>12. CASE StartWiMo
    BY <1>12 DEF StartWiMo
  <1>2. CASE InitFails
    BY <1>2 DEF InitFails
  <1>3. CASE InitObjects
    BY <1>3 DEF InitObjects, Begun
  <1>4. CASE InitNewNetwork
    <2>1. PcOK'
      <3>1. started \in Sessions
        BY <1>4 DEF InitNewNetwork, Begun
      <3>2. "test" \in Places["recv"] /\ "test" \in Places["handshake"]
        BY DEF Places
      <3>3. CASE pc' = [pc EXCEPT !["recv"][started] = "test", !["handshake"][started] = "test"]
        BY <1>0, <3>1, <3>2, <3>3, TwoMovesTyped DEF Threads
      <3>4. CASE UNCHANGED pc
        BY <1>0, <3>4 DEF PcOK
      <3> QED
        BY <1>4, <3>3, <3>4 DEF InitNewNetwork
    <2>2. life' \in [Objects -> [Sessions -> {"unborn", "alive", "deleted"}]]
      BY <1>4 DEF InitNewNetwork, Objects
    <2>3. ui' = "publish"
      BY <1>4 DEF InitNewNetwork
    <2>4. UNCHANGED <<status, ptr, service, netVars, hndVars, unVars, sessionVars, histVars>>
      BY <1>4 DEF InitNewNetwork
    <2> QED
      BY <2>1, <2>2, <2>3, <2>4 DEF PcOK
  <1>5. CASE InitPublish
    BY <1>5 DEF InitPublish, Begun
  <1>6. CASE StartTimer
    <2>1. PcOK'
      BY <1>0, <1>6, MoveTyped DEF StartTimer, Begun, Threads, Places
    <2> QED
      BY <1>6, <2>1 DEF StartTimer, Begun, PcOK
  <1>7. CASE StartFailed
    <2>1. callbacks' \in [Sessions -> Seq({"FAIL", "SUCCESS", "KICKED", "TIMEOUT"})]
      BY <1>7, TellTyped, StopCodeTyped DEF StartFailed, NotifyUIStop, Begun
    <2>2. UnOK'
      BY <1>0, <1>7, BeginTyped DEF StartFailed, Owners
    <2>3. service' = FALSE /\ ui' = "uninit"
      BY <1>7 DEF StartFailed, NotifyUIStop, StopService
    <2>4. UNCHANGED <<status, ptr, life, netVars, pc, hndVars, sessionVars, said,
                      kicked, overwritten>>
      BY <1>7 DEF StartFailed
    <2> QED
      BY <2>1, <2>2, <2>3, <2>4 DEF UnOK
  <1>8. CASE StopWiMo
    BY <1>8 DEF StopWiMo
  <1>9. CASE StopSetFinish
    BY <1>9 DEF StopSetFinish
  <1>10. CASE StopJoinsCapture
    BY ZenonT(60), <1>10 DEF StopJoinsCapture, Join
  <1>11. CASE StopJoinsTimer
    <2>1. UnOK'
      BY <1>0, <1>11, BeginTyped DEF StopJoinsTimer, Owners
    <2> QED
      BY <1>11, <2>1 DEF StopJoinsTimer, Join, UnOK
  <1> QED
    BY <1>1, <1>2, <1>3, <1>4, <1>5, <1>6, <1>7, <1>8, <1>9, <1>10, <1>11, <1>12
       DEF Start, Stop

\* The steps of UnInit keep the types.
LEMMA UnInitTyped == ASSUME TypeOK, NEW o \in Owners, UnInit(o) PROVE TypeOK'
  <1>0. PcOK /\ UnOK
    BY DEF TypeOK, PcOK, UnOK
  <1> USE DEF TypeOK, objVars, netVars, hndVars, unVars, sessionVars, callVars, histVars, Call,
              UnInitStep
  <1>1. CASE JoinCheckAlive(o)
    BY ZenonT(60), <1>1 DEF JoinCheckAlive
  <1>2. CASE JoinNetworkThreads(o)
    <2>1. \E to \in {"recv", "free"} : un' = [un EXCEPT ![o] = to]
      BY <1>2 DEF JoinNetworkThreads
    <2>2. un' \in [Owners -> {"none", "alive", "handshake", "recv", "free", "null", "rest"}]
      BY <2>1
    <2>3. UNCHANGED <<status, objVars, netVars, pc, hndVars, unNet, callVars, histVars>>
      BY <1>2 DEF JoinNetworkThreads
    <2> QED
      BY <2>2, <2>3
  <1>3. CASE DeleteNetwork(o)
    <2>1. life' \in [Objects -> [Sessions -> {"unborn", "alive", "deleted"}]]
      BY <1>3 DEF DeleteNetwork, Objects
    <2> QED
      BY <1>3, <2>1 DEF DeleteNetwork
  <1>4. CASE ForgetNetwork(o)
    BY ZenonT(60), <1>4 DEF ForgetNetwork
  <1>5. CASE DeleteRest(o)
    <2>1. ptr' \in [Objects -> Sessions \cup {NULL}]
      BY <1>5 DEF DeleteRest
    <2>2. life' \in [Objects -> [Sessions -> {"unborn", "alive", "deleted"}]]
      BY <1>5 DEF DeleteRest
    <2>3. service' \in BOOLEAN /\ UNCHANGED <<status, netVars, hndVars, unNet, histVars>>
      BY <1>5 DEF DeleteRest, StopService
    <2>4. un' = [un EXCEPT ![o] = "none"]
      BY <1>5 DEF DeleteRest
    <2>5. CASE o = Caller
      BY <1>5, <2>1, <2>2, <2>3, <2>4, <2>5 DEF DeleteRest
    <2>6. CASE o # Caller
      <3>1. o \in Sessions /\ Move("timer", o, "uninit", "done") /\ UNCHANGED callVars
        BY <1>5, <2>6 DEF DeleteRest, Owners
      <3>2. PcOK'
        BY <1>0, <3>1, MoveTyped DEF Threads, Places
      <3> QED
        BY <2>1, <2>2, <2>3, <2>4, <3>1, <3>2 DEF PcOK
    <2> QED
      BY <2>5, <2>6
  <1> QED
    BY <1>1, <1>2, <1>3, <1>4, <1>5 DEF UnInit

\* What the timer thread does keeps the types.
LEMMA TimerTyped == ASSUME TypeOK, NEW s \in Sessions, Timer(s) PROVE TypeOK'
  <1>0. PcOK /\ UnOK
    BY DEF TypeOK, PcOK, UnOK
  <1> USE DEF TypeOK, objVars, netVars, hndVars, unVars, sessionVars, callVars, histVars, restVars
  <1>1. CASE TimerPolls(s)
    <2>1. PcOK'
      BY <1>0, <1>1, MoveTyped DEF TimerPolls, Threads, Places
    <2> QED
      BY ZenonT(60), <1>1, <2>1 DEF TimerPolls, PcOK
  <1>2. CASE TimerSetsReason(s)
    <2>1. PcOK'
      BY <1>0, <1>2, MoveTyped DEF TimerSetsReason, Threads, Places
    <2> QED
      BY ZenonT(60), <1>2, <2>1 DEF TimerSetsReason, PcOK
  <1>3. CASE TimerChecks(s)
    <2>1. PcOK'
      BY <1>0, <1>3, MoveTyped DEF TimerChecks, Threads, Places
    <2> QED
      BY ZenonT(60), <1>3, <2>1 DEF TimerChecks, PcOK
  <1>4. CASE TimerReportsSuccess(s)
    <2>1. PcOK'
      BY <1>0, <1>4, MoveTyped DEF TimerReportsSuccess, Threads, Places
    <2>2. callbacks' \in [Sessions -> Seq({"FAIL", "SUCCESS", "KICKED", "TIMEOUT"})]
      BY <1>4, TellTyped DEF TimerReportsSuccess
    <2> QED
      BY ZenonT(60), <1>4, <2>1, <2>2 DEF TimerReportsSuccess, PcOK
  <1>5. CASE TimerStartsCapture(s)
    <2>1. PcOK'
      <3> DEFINE new == {t \in {"video", "cpu"} \cap Made : ptr[t] # NULL}
      <3>1. pc' = [t \in Threads |->
                     IF t = "timer" THEN [pc[t] EXCEPT ![s] = "done"]
                     ELSE IF t \in new THEN [pc[t] EXCEPT ![ptr[t]] = "loop"] ELSE pc[t]]
        BY <1>5 DEF TimerStartsCapture
      <3>2. "done" \in Places["timer"]
        BY DEF Places
      <3>3. \A t \in new : t \in {"video", "cpu"} /\ "loop" \in Places[t]
        BY DEF Places
      <3>4. ASSUME NEW t \in Threads PROVE pc'[t] \in [Sessions -> Places[t]]
        <4> HIDE DEF new
        <4>1. pc[t] \in [Sessions -> Places[t]]
          BY <1>0 DEF PcOK
        <4>2. CASE t = "timer"
          BY <3>1, <3>2, <4>1, <4>2
        <4>3. CASE t # "timer" /\ t \in new
          BY <3>1, <3>3, <4>1, <4>3
        <4>4. CASE t # "timer" /\ t \notin new
          BY <3>1, <4>1, <4>4
        <4> QED
          BY <4>2, <4>3, <4>4
      <3> QED
        BY <3>1, <3>4 DEF PcOK
    <2> QED
      <3>1. hnd' \in [{"timer", "video", "cpu"} -> Sessions \cup {NULL}]
        BY <1>5 DEF TimerStartsCapture, Objects
      <3> QED
        BY ZenonT(60), <1>5, <2>1, <3>1 DEF TimerStartsCapture, PcOK
  <1>6. CASE TimerSetsFinish(s)
    <2>1. PcOK'
      BY <1>0, <1>6, MoveTyped DEF TimerSetsFinish, Threads, Places
    <2>2. UnOK'
      BY <1>0, <1>6, BeginTyped DEF TimerSetsFinish, Owners
    <2> QED
      BY <1>6, <2>1, <2>2 DEF TimerSetsFinish, PcOK, UnOK
  <1> QED
    BY <1>1, <1>2, <1>3, <1>4, <1>5, <1>6 DEF Timer

\* What HandshakeThread does keeps the types.
LEMMA HandshakeTyped == ASSUME TypeOK, NEW s \in Sessions, Handshake(s) PROVE TypeOK'
  <1>0. PcOK /\ UnOK
    BY DEF TypeOK, PcOK, UnOK
  <1> USE DEF TypeOK, objVars, netVars, hndVars, unVars, sessionVars, callVars, histVars, restVars
  <1>1. CASE HandshakeTests(s)
    <2>1. PcOK'
      BY <1>0, <1>1, MoveTyped DEF HandshakeTests, Threads, Places
    <2> QED
      BY ZenonT(60), <1>1, <2>1 DEF HandshakeTests, PcOK
  <1>2. CASE HandshakeTurns(s)
    <2>1. PcOK'
      <3>1. PICK to \in {"test", "set"} \cup (Events \cap {"quit"}) :
              Move("handshake", s, "turn", to)
        BY <1>2 DEF HandshakeTurns
      <3>2. to \in Places["handshake"]
        BY <3>1 DEF Places
      <3> QED
        BY <1>0, <3>1, <3>2, MoveTyped DEF Threads
    <2> QED
      BY ZenonT(60), <1>2, <2>1 DEF HandshakeTurns, PcOK
  <1>3. CASE HandshakeStartsAfresh(s)
    <2>1. PcOK'
      BY <1>0, <1>3, MoveTyped DEF HandshakeStartsAfresh, Threads, Places
    <2>2. said' \in [Sessions -> {NOTHING} \cup 0..255]
      BY <1>3, SaidTyped DEF HandshakeStartsAfresh
    <2> QED
      BY ZenonT(60), <1>3, <2>1, <2>2 DEF HandshakeStartsAfresh, PcOK
  <1>4. CASE HandshakeConnects(s)
    <2>1. PcOK'
      BY <1>0, <1>4, MoveTyped DEF HandshakeConnects, Threads, Places
    <2> QED
      BY ZenonT(60), <1>4, <2>1 DEF HandshakeConnects, PcOK
  <1>5. CASE HandshakeStartsCheckAlive(s)
    <2>1. PcOK'
      <3>1. (IF Method = "TS" THEN "done" ELSE "send") \in Places["handshake"]
        BY DEF Places
      <3>2. "test" \in Places["alive"]
        BY DEF Places
      <3> QED
        BY <1>0, <1>5, <3>1, <3>2, TwoMovesTyped DEF HandshakeStartsCheckAlive, Threads
    <2> QED
      BY ZenonT(60), <1>5, <2>1 DEF HandshakeStartsCheckAlive, PcOK
  <1>6. CASE HandshakeStopsSending(s)
    <2>1. PcOK'
      BY <1>0, <1>6, MoveTyped DEF HandshakeStopsSending, Threads, Places
    <2> QED
      BY ZenonT(60), <1>6, <2>1 DEF HandshakeStopsSending, PcOK
  <1>7. CASE HandshakeQuits(s)
    <2>1. PcOK'
      BY <1>0, <1>7, MoveTyped DEF HandshakeQuits, Threads, Places
    <2> QED
      BY ZenonT(60), <1>7, <2>1 DEF HandshakeQuits, PcOK
  <1> QED
    BY <1>1, <1>2, <1>3, <1>4, <1>5, <1>6, <1>7 DEF Handshake

\* What NetworkRecvThread does keeps the types.
LEMMA RecvTyped == ASSUME TypeOK, NEW s \in Sessions, Recv(s) PROVE TypeOK'
  <1>0. PcOK /\ UnOK
    BY DEF TypeOK, PcOK, UnOK
  <1> USE DEF TypeOK, objVars, netVars, hndVars, unVars, sessionVars, callVars, histVars, restVars
  <1>1. CASE RecvTests(s)
    <2>1. PcOK'
      BY <1>0, <1>1, MoveTyped DEF RecvTests, Threads, Places
    <2> QED
      BY ZenonT(60), <1>1, <2>1 DEF RecvTests, PcOK
  <1>2. CASE RecvNothing(s)
    <2>1. PcOK'
      BY <1>0, <1>2, MoveTyped DEF RecvNothing, Threads, Places
    <2> QED
      BY ZenonT(60), <1>2, <2>1 DEF RecvNothing, PcOK
  <1>3. CASE RecvSetsKicked(s)
    <2>1. PcOK'
      BY <1>0, <1>3, MoveTyped DEF RecvSetsKicked, Threads, Places
    <2> QED
      BY ZenonT(60), <1>3, <2>1 DEF RecvSetsKicked, PcOK
  <1>4. CASE RecvSetsFinish(s)
    <2>1. PcOK'
      BY <1>0, <1>4, MoveTyped DEF RecvSetsFinish, Threads, Places
    <2> QED
      BY ZenonT(60), <1>4, <2>1 DEF RecvSetsFinish, PcOK
  <1>5. CASE RecvSays(s)
    <2>1. PcOK'
      BY <1>0, <1>5, MoveTyped DEF RecvSays, Threads, Places
    <2>2. said' \in [Sessions -> {NOTHING} \cup 0..255]
      <3>1. reason[s] \in {"ERROR", "TIMEOUT", "KICKED", "DATALOST"}
        OBVIOUS
      <3>2. said \in [Sessions -> {NOTHING} \cup 0..255]
        OBVIOUS
      <3>3. SendDisconnectCmd(s, reason[s])
        BY <1>5 DEF RecvSays
      <3> HIDE DEF TypeOK
      <3> QED
        BY <3>1, <3>2, <3>3, SaidTyped
    <2> QED
      BY ZenonT(60), <1>5, <2>1, <2>2 DEF RecvSays, PcOK
  <1>6. CASE RecvNotifies(s)
    <2>1. PcOK'
      BY <1>0, <1>6, MoveTyped DEF RecvNotifies, Threads, Places
    <2>2. callbacks' \in [Sessions -> Seq({"FAIL", "SUCCESS", "KICKED", "TIMEOUT"})]
      BY <1>6, TellTyped, StopCodeTyped DEF RecvNotifies, NotifyUIStop
    <2> QED
      BY ZenonT(60), <1>6, <2>1, <2>2 DEF RecvNotifies, PcOK, NotifyUIStop, StopService
  <1> QED
    BY <1>1, <1>2, <1>3, <1>4, <1>5, <1>6 DEF Recv

\* What the device sends keeps the types.
LEMMA DeviceEndsTyped == ASSUME TypeOK, NEW s \in Sessions, DeviceEnds(s) PROVE TypeOK'
  <1>0. PcOK /\ UnOK
    BY DEF TypeOK, PcOK, UnOK
  <1> USE DEF TypeOK, objVars, netVars, hndVars, unVars, sessionVars, callVars, histVars, restVars
  <1>1. CASE RecvDisconnect(s)
    <2>1. PcOK'
      BY <1>0, <1>1, MoveTyped DEF RecvDisconnect, Threads, Places
    <2> QED
      BY ZenonT(60), <1>1, <2>1 DEF RecvDisconnect, PcOK
  <1>2. CASE RecvDataLost(s)
    <2>1. PcOK'
      BY <1>0, <1>2, MoveTyped DEF RecvDataLost, Threads, Places
    <2> QED
      BY ZenonT(60), <1>2, <2>1 DEF RecvDataLost, PcOK
  <1> QED
    BY <1>1, <1>2 DEF DeviceEnds

\* What the alive thread does keeps the types.
LEMMA CheckAliveTyped == ASSUME TypeOK, NEW s \in Sessions, CheckAlive(s) PROVE TypeOK'
  <1>0. PcOK /\ UnOK
    BY DEF TypeOK, PcOK, UnOK
  <1> USE DEF TypeOK, objVars, netVars, hndVars, unVars, sessionVars, callVars, histVars, restVars
  <1>1. CASE AliveTests(s)
    <2>1. PcOK'
      BY <1>0, <1>1, MoveTyped DEF AliveTests, Threads, Places
    <2> QED
      BY <1>1, <2>1 DEF AliveTests, PcOK
  <1>2. CASE AliveHeard(s)
    <2>1. PcOK'
      BY <1>0, <1>2, MoveTyped DEF AliveHeard, Threads, Places
    <2> QED
      BY ZenonT(60), <1>2, <2>1 DEF AliveHeard, PcOK
  <1>3. CASE AliveExpires(s)
    <2>1. PcOK'
      BY <1>0, <1>3, MoveTyped DEF AliveExpires, Threads, Places
    <2> QED
      BY ZenonT(60), <1>3, <2>1 DEF AliveExpires, PcOK
  <1>4. CASE AliveSetsReason(s)
    <2>1. PcOK'
      BY <1>0, <1>4, MoveTyped DEF AliveSetsReason, Threads, Places
    <2> QED
      BY ZenonT(60), <1>4, <2>1 DEF AliveSetsReason, PcOK
  <1> QED
    BY <1>1, <1>2, <1>3, <1>4 DEF CheckAlive

\* What the capture and load threads do keeps the types.
LEMMA CaptureTyped ==
  ASSUME TypeOK, NEW s \in Sessions, CaptureEnds(s) \/ CaptureFails(s) PROVE TypeOK'
  <1>0. PcOK /\ UnOK
    BY DEF TypeOK, PcOK, UnOK
  <1> USE DEF TypeOK, objVars, netVars, hndVars, unVars, sessionVars, callVars, histVars, restVars
  <1>1. CASE CaptureEnds(s)
    <2>1. PcOK'
      BY <1>0, <1>1, MoveTyped DEF CaptureEnds, Threads, Places
    <2> QED
      BY ZenonT(60), <1>1, <2>1 DEF CaptureEnds, PcOK
  <1>2. CASE CaptureFails(s)
    <2>1. PcOK'
      <3>1. PICK t \in {"video", "cpu"} : Move(t, s, "loop", "done")
        BY <1>2 DEF CaptureFails
      <3>2. "done" \in Places[t]
        BY DEF Places
      <3> QED
        BY <1>0, <3>1, <3>2, MoveTyped DEF Threads
    <2> QED
      BY ZenonT(60), <1>2, <2>1 DEF CaptureFails, PcOK
  <1> QED
    BY <1>1, <1>2

\* Begun stays: a session begins with its number.
LEMMA BegunStep == ASSUME TypeOK, Begun, [Next]_vars PROVE Begun'
  <1> USE DEF Begun, Call, objVars, netVars, hndVars, unVars, sessionVars, callVars, histVars,
              restVars
  <1>1. CASE StartSetIniting
    <2>1. /\ started \in 0..MaxSessions /\ started < MaxSessions /\ started' = started + 1
          /\ ui' = "objects"
      BY <1>1 DEF StartSetIniting, TypeOK
    <2> QED
      BY <2>1, MaxSessionsAssumption DEF Sessions
  <1>2. CASE (Start /\ ~StartSetIniting) \/ Stop
    BY <1>2 DEF Start, Stop, StartWiMo, InitFails, InitObjects, InitNewNetwork, InitPublish,
                StartTimer, StartFailed, StopWiMo, StopSetFinish, StopJoinsCapture, StopJoinsTimer
  <1>3. ASSUME NEW o \in Owners, UnInit(o) PROVE Begun'
    <2>1. ui' = "idle" \/ UNCHANGED <<ui, started>>
      BY <1>3 DEF UnInit, JoinCheckAlive, JoinNetworkThreads, DeleteNetwork, ForgetNetwork,
                  DeleteRest
    <2> QED
      BY <2>1
  <1>4. ASSUME NEW s \in Sessions,
               \/ Timer(s) \/ Handshake(s) \/ Recv(s) \/ DeviceEnds(s)
               \/ CheckAlive(s) \/ CaptureEnds(s) \/ CaptureFails(s)
        PROVE  Begun'
    <2>1. UNCHANGED <<ui, started>>
      BY <1>4 DEF Timer, TimerPolls, TimerSetsReason, TimerChecks, TimerReportsSuccess,
                  TimerStartsCapture, TimerSetsFinish, Handshake, HandshakeTests,
                  HandshakeTurns, HandshakeStartsAfresh, HandshakeConnects,
                  HandshakeStartsCheckAlive, HandshakeStopsSending, HandshakeQuits, Recv,
                  RecvTests, RecvNothing, RecvSetsKicked, RecvSetsFinish, RecvSays,
                  RecvNotifies, DeviceEnds, RecvDisconnect, RecvDataLost, CheckAlive,
                  AliveTests, AliveHeard, AliveExpires, AliveSetsReason, CaptureEnds,
                  CaptureFails
    <2> QED
      BY <2>1
  <1>5. CASE UNCHANGED vars
    BY <1>5 DEF vars
  <1> QED
    BY <1>1, <1>2, <1>3, <1>4, <1>5 DEF Next, Quiet

\* Every step keeps the types.
LEMMA TypeStep == ASSUME TypeOK, Begun, [Next]_vars PROVE TypeOK'
  <1>1. CASE UNCHANGED vars
    BY <1>1 DEF TypeOK, vars, objVars, netVars, hndVars, unVars, sessionVars, callVars, histVars
  <1> QED
    BY <1>1, CallerTyped, UnInitTyped, TimerTyped, HandshakeTyped, RecvTyped, DeviceEndsTyped,
       CheckAliveTyped, CaptureTyped DEF Next, Quiet

\* Every variable keeps to its values, for any number of sessions and any method: among
\* them the places of all threads, the pointers, and the byte sent to the device.
THEOREM TypeCorrect == Spec => []TypeOK
  <1>1. Init => TypeOK /\ Begun
    BY InitTyped DEF Init, Begun
  <1>2. TypeOK /\ Begun /\ [Next]_vars => (TypeOK /\ Begun)'
    BY TypeStep, BegunStep
  <1> QED
    BY <1>1, <1>2, PTL DEF Spec

-----------------------------------------------------------------------------
(* No thread outlives its object. *)

\* A thread that has ended, or was never created, does not move.
KeepsEnded == \A t \in Threads, s \in Sessions : Ended(t, s) => pc'[t][s] = pc[t][s]

\* A move from a place where a thread runs moves no thread that has ended.
LEMMA MoveKeepsEnded ==
  ASSUME PcOK, NEW t \in Threads, NEW s \in Sessions, NEW to,
         NEW from, from \notin {"none", "expired", "done"}, Move(t, s, from, to)
  PROVE  KeepsEnded
  BY DEF PcOK, Move, KeepsEnded, Ended

\* What a move leaves alone, and where it leads.
LEMMA MoveOthers ==
  ASSUME PcOK, NEW t \in Threads, NEW s \in Sessions, NEW from, NEW to, Move(t, s, from, to)
  PROVE  /\ \A u \in Threads, q \in Sessions : u # t \/ q # s => pc'[u][q] = pc[u][q]
         /\ pc'[t][s] = to
  BY DEF PcOK, Move

\* From where it leads, and to where.
LEMMA MovePlaces ==
  ASSUME PcOK, NEW t \in Threads, NEW s \in Sessions, NEW from, NEW to, Move(t, s, from, to)
  PROVE  pc[t][s] = from /\ pc'[t][s] = to
  BY DEF PcOK, Move

\* Two threads of session s move at once, or are created.
TwoMoves(t, at, u, to, s) == pc' = [pc EXCEPT ![t][s] = at, ![u][s] = to]

\* What such a step leaves alone, and where it leads.
LEMMA TwoMovesOthers ==
  ASSUME PcOK, NEW t \in Threads, NEW u \in Threads, t # u, NEW s \in Sessions, NEW at, NEW to,
         TwoMoves(t, at, u, to, s)
  PROVE  /\ \A v \in Threads, q \in Sessions :
               (v \notin {t, u} \/ q # s) => pc'[v][q] = pc[v][q]
         /\ pc'[t][s] = at /\ pc'[u][s] = to
  <1>1. ASSUME NEW v \in Threads, NEW q \in Sessions, v \notin {t, u} \/ q # s
        PROVE  pc'[v][q] = pc[v][q]
    <2>1. pc[v] \in [Sessions -> Places[v]]
      BY DEF PcOK, TwoMoves
    <2>2. CASE v = t
      BY <1>1, <2>1, <2>2 DEF PcOK, TwoMoves
    <2>3. CASE v = u
      BY <1>1, <2>1, <2>3 DEF PcOK, TwoMoves
    <2>4. CASE v \notin {t, u}
      BY <2>4 DEF PcOK, TwoMoves
    <2> QED
      BY <2>2, <2>3, <2>4
  <1>2. pc'[t][s] = at /\ pc'[u][s] = to
    BY DEF PcOK, TwoMoves
  <1> QED
    BY <1>1, <1>2

\* What a step must not do to sessions that have not begun, or have no objects yet.
NotYet(t, q) == q > started \/ (ui = "objects" /\ t \in {"video", "cpu"} /\ q = started)

\* NoThreadsYet stays if the threads it is about are left alone.
LEMMA NoThreadsKept ==
  ASSUME NoThreadsYet, started' = started, ui' = ui \/ ui' # "objects",
         ui = "objects" => started \in Sessions,
         \A t \in Threads, q \in Sessions :
           NotYet(t, q) /\ pc[t][q] = "none" => pc'[t][q] = "none"
  PROVE  NoThreadsYet'
  <1>1. ASSUME NEW q \in Sessions, q > started, NEW t \in Threads PROVE pc'[t][q] = "none"
    BY <1>1 DEF NoThreadsYet, NotYet
  <1>2. ASSUME ui' = "objects", NEW t \in {"video", "cpu"} PROVE pc'[t][started] = "none"
    BY <1>2 DEF NoThreadsYet, NotYet, Threads
  <1> QED
    BY <1>1, <1>2 DEF NoThreadsYet

\* Steps that create no thread and leave the pointers, the objects, the handles, UnInit
\* and the caller alone change nothing of what Safe says.
LEMMA SteadySafe ==
  ASSUME Begun, Safe, KeepsEnded,
         UNCHANGED <<ptr, life, hnd, aliveHnd, un, unNet, ui, started>>
  PROVE  Safe'
  <1>1. \A s : Born(s) <=> Born(s)'
    BY DEF Born
  <1>2. \A t \in Threads, s \in Sessions : Ended(t, s) => Ended(t, s)'
    BY DEF KeepsEnded, Ended
  <1>3. PointersBegun'
    BY <1>1 DEF Safe, PointersBegun
  <1>4. NoThreadsYet'
    BY DEF Safe, NoThreadsYet, KeepsEnded, Ended, Threads, Begun
  <1>5. UnInitOrder'
    BY <1>1, <1>2 DEF Safe, UnInitOrder, Threads
  <1>6. NetworkThreads'
    BY <1>2 DEF Safe, NetworkThreads, Threads
  <1>7. CaptureThreads'
    BY <1>2 DEF Safe, CaptureThreads, KeepsEnded, Ended, Threads
  <1> QED
    BY <1>3, <1>4, <1>5, <1>6, <1>7 DEF Safe

\* The steps of one thread that create none and start no UnInit.
Alone(s) ==
  \/ TimerPolls(s) \/ TimerSetsReason(s) \/ TimerChecks(s)
  \/ TimerReportsSuccess(s) \/ HandshakeTests(s) \/ HandshakeTurns(s)
  \/ HandshakeStartsAfresh(s) \/ HandshakeConnects(s) \/ HandshakeStopsSending(s)
  \/ HandshakeQuits(s) \/ RecvTests(s) \/ RecvNothing(s)
  \/ RecvSetsKicked(s) \/ RecvSetsFinish(s) \/ RecvSays(s)
  \/ RecvNotifies(s) \/ RecvDisconnect(s) \/ RecvDataLost(s)
  \/ AliveTests(s) \/ AliveHeard(s) \/ AliveExpires(s)
  \/ AliveSetsReason(s) \/ CaptureEnds(s) \/ CaptureFails(s)

\* The timer of session q is on its way to a decision.
Deciding(q) == pc["timer"][q] \notin {"none", "uninit", "done"}

\* No timer is created, goes to UnInit, or ends.
TimersStay ==
  \A q \in Sessions : pc'["timer"][q] = pc["timer"][q] \/ (Deciding(q) /\ Deciding(q)')

\* What such a step leaves alone.
LEMMA AloneSteps ==
  ASSUME TypeOK, NEW s \in Sessions, Alone(s)
  PROVE  /\ KeepsEnded /\ TimersStay /\ service' \in {service, FALSE}
         /\ UNCHANGED <<ptr, life, hnd, aliveHnd, un, unNet, ui, started, stopped, overlapped>>
  <1> USE DEF Alone, TimerPolls, TimerSetsReason, TimerChecks, TimerReportsSuccess, HandshakeTests,
              HandshakeTurns, HandshakeStartsAfresh, HandshakeConnects, HandshakeStopsSending,
              HandshakeQuits, RecvTests, RecvNothing, RecvSetsKicked, RecvSetsFinish, RecvSays,
              RecvNotifies, RecvDisconnect, RecvDataLost, AliveTests, AliveHeard, AliveExpires,
              AliveSetsReason, CaptureEnds, CaptureFails
  <1>1. /\ UNCHANGED <<ptr, life, hnd, aliveHnd, un, unNet, ui, started, stopped, overlapped>>
        /\ service' \in {service, FALSE}
    BY DEF objVars, hndVars, unVars, sessionVars, callVars, restVars, NotifyUIStop, StopService
  <1> DEFINE Moves(t) ==
        \E from, to : /\ from \notin {"none", "expired", "done"} /\ Move(t, s, from, to)
                      /\ t = "timer" => {from, to} \cap {"none", "uninit", "done"} = {}
  <1>2. \E t \in Threads : Moves(t)
    <2>1. CASE \/ TimerPolls(s) \/ TimerSetsReason(s) \/ TimerChecks(s)
               \/ TimerReportsSuccess(s)
      <3>1. Moves("timer")
        BY <2>1
      <3> QED
        BY <3>1 DEF Threads
    <2>2. CASE \/ HandshakeTests(s) \/ HandshakeTurns(s) \/ HandshakeStartsAfresh(s)
               \/ HandshakeConnects(s) \/ HandshakeStopsSending(s) \/ HandshakeQuits(s)
      <3>1. Moves("handshake")
        BY <2>2
      <3> QED
        BY <3>1 DEF Threads
    <2>3. CASE \/ RecvTests(s) \/ RecvNothing(s) \/ RecvSetsKicked(s)
               \/ RecvSetsFinish(s) \/ RecvSays(s) \/ RecvNotifies(s)
               \/ RecvDisconnect(s) \/ RecvDataLost(s)
      <3>1. Moves("recv")
        BY <2>3
      <3> QED
        BY <3>1 DEF Threads
    <2>4. CASE \/ AliveTests(s) \/ AliveHeard(s) \/ AliveExpires(s)
               \/ AliveSetsReason(s)
      <3>1. Moves("alive")
        BY <2>4
      <3> QED
        BY <3>1 DEF Threads
    <2>5. CASE CaptureEnds(s) \/ CaptureFails(s)
      <3>1. Moves("video") \/ Moves("cpu")
        BY <2>5
      <3> QED
        BY <3>1 DEF Threads
    <2> QED
      BY <2>1, <2>2, <2>3, <2>4, <2>5
  <1> HIDE DEF Alone, TimerPolls, TimerSetsReason, TimerChecks, TimerReportsSuccess, HandshakeTests,
               HandshakeTurns, HandshakeStartsAfresh, HandshakeConnects, HandshakeStopsSending,
               HandshakeQuits, RecvTests, RecvNothing, RecvSetsKicked, RecvSetsFinish,
               RecvSays, RecvNotifies, RecvDisconnect, RecvDataLost, AliveTests, AliveHeard,
               AliveExpires, AliveSetsReason, CaptureEnds, CaptureFails
  <1>3. PcOK
    BY DEF TypeOK, PcOK
  <1>4. PICK t \in Threads : Moves(t)
    BY <1>2
  <1>5. KeepsEnded
    BY <1>3, <1>4, MoveKeepsEnded
  <1>6. TimersStay
    <2>1. PICK from, to : /\ Move(t, s, from, to)
                          /\ t = "timer" => {from, to} \cap {"none", "uninit", "done"} = {}
      BY <1>4
    <2>2. /\ \A u \in Threads, q \in Sessions : u # t \/ q # s => pc'[u][q] = pc[u][q]
          /\ pc'[t][s] = to
      BY <1>3, <2>1, MoveOthers
    <2>3. pc[t][s] = from
      BY <2>1 DEF Move
    <2> QED
      BY <2>1, <2>2, <2>3 DEF TimersStay, Deciding, Threads
  <1> QED
    BY <1>1, <1>5, <1>6

\* Such steps keep the invariant.
LEMMA AloneSafe == ASSUME TypeOK, Begun, Safe, NEW s \in Sessions, Alone(s) PROVE Safe'
  BY AloneSteps, SteadySafe

\* UnInit starts with the object pCNetwork points to, which is born.
LEMMA BeginUnInitOrder ==
  ASSUME UnInitOrder, PointersBegun, NEW o \in Owners, BeginUnInit(o), UNCHANGED pc,
         ptr["network"] \in Sessions \cup {NULL}, \A s \in Sessions : Born(s) => Born(s)',
         un \in [Owners -> {"none", "alive", "handshake", "recv", "free", "null", "rest"}],
         unNet \in [Owners -> Sessions \cup {NULL}]
  PROVE  UnInitOrder'
  <1>1. ASSUME NEW p \in Owners, p # o
        PROVE  un'[p] = un[p] /\ unNet'[p] = unNet[p]
    BY <1>1 DEF BeginUnInit
  <1>2. /\ un'[o] \in {"alive", "rest"} /\ unNet'[o] = ptr["network"]
        /\ un'[o] = "alive" => ptr["network"] \in Sessions /\ Born(ptr["network"])
    BY DEF BeginUnInit, PointersBegun
  <1> QED
    BY <1>1, <1>2 DEF UnInitOrder, Ended

\* Steps of the caller that touch no thread, pointer or object.
LEMMA CallerMovesSafe ==
  ASSUME Safe, ptr["network"] \in Sessions \cup {NULL},
         UNCHANGED <<pc, ptr, life, aliveHnd, started>>, ui' # "objects",
         \A s \in Sessions : Born(s) => Born(s)', UnInitOrder',
         \A t \in {"video", "cpu"}, s \in Sessions :
           hnd[t] = s => hnd'[t] = s \/ Ended(t, s)
  PROVE  Safe'
  <1>1. PointersBegun'
    BY DEF Safe, PointersBegun
  <1>2. NoThreadsYet'
    BY DEF Safe, NoThreadsYet
  <1>3. NetworkThreads'
    BY DEF Safe, NetworkThreads, Ended
  <1>4. CaptureThreads'
    BY DEF Safe, CaptureThreads, Ended
  <1> QED
    BY <1>1, <1>2, <1>3, <1>4 DEF Safe

\* StartWiMo and StopWiMo keep it.
LEMMA CallerSafe ==
  ASSUME TypeOK, Begun, Safe, Start \/ Stop PROVE Safe'
  <1>0. /\ PointersBegun /\ NoThreadsYet /\ UnInitOrder /\ NetworkThreads /\ CaptureThreads
        /\ PcOK /\ started \in 0..MaxSessions /\ MaxSessions \in Nat
        /\ ptr \in [Objects -> Sessions \cup {NULL}]
        /\ life \in [Objects -> [Sessions -> {"unborn", "alive", "deleted"}]]
        /\ hnd \in [{"timer", "video", "cpu"} -> Sessions \cup {NULL}]
        /\ aliveHnd \in [Sessions -> BOOLEAN]
        /\ un \in [Owners -> {"none", "alive", "handshake", "recv", "free", "null", "rest"}]
        /\ unNet \in [Owners -> Sessions \cup {NULL}]
    BY MaxSessionsAssumption DEF Safe, TypeOK, PcOK
  <1> USE DEF objVars, netVars, hndVars, unVars, sessionVars, callVars, histVars, restVars,
              Call, Begun
  <1>1. CASE StartSetIniting
    <2>0. \A s \in Sessions : Born(s) => Born(s)'
      BY <1>1, <1>0 DEF StartSetIniting, Born, Sessions
    <2>1. PointersBegun'
      BY <1>1, <1>0, <2>0 DEF StartSetIniting, PointersBegun, Sessions, NULL, Objects
    <2>2. NoThreadsYet'
      BY <1>1, <1>0 DEF StartSetIniting, NoThreadsYet, Sessions, Threads
    <2>3. UnInitOrder'
      BY <1>1, <1>0, <2>0 DEF StartSetIniting, UnInitOrder, PointersBegun, Ended
    <2>4. NetworkThreads'
      BY <1>1, <1>0 DEF StartSetIniting, NetworkThreads, Ended
    <2>5. CaptureThreads'
      BY <1>1, <1>0 DEF StartSetIniting, CaptureThreads, NoThreadsYet, PointersBegun, Ended, Threads
    <2> QED
      BY <2>1, <2>2, <2>3, <2>4, <2>5 DEF Safe
  <1>12. CASE StartWiMo
    <2>1. \A s \in Sessions : Born(s) => Born(s)'
      BY <1>12 DEF StartWiMo, Born
    <2>2. UnInitOrder'
      BY <1>12, <1>0, <2>1 DEF StartWiMo, UnInitOrder, Ended
    <2>3. /\ UNCHANGED <<pc, ptr, life, aliveHnd, started>> /\ ui' # "objects"
          /\ \A t \in {"video", "cpu"}, s \in Sessions :
               hnd[t] = s => hnd'[t] = s \/ Ended(t, s)
      BY <1>12, <1>0 DEF StartWiMo
    <2> QED
      BY <1>0, <2>1, <2>2, <2>3, CallerMovesSafe DEF Objects
  <1>2. CASE InitFails
    <2>1. \A s \in Sessions : Born(s) => Born(s)'
      BY <1>2 DEF InitFails, Born
    <2>2. UnInitOrder'
      BY <1>2, <1>0, <2>1 DEF InitFails, UnInitOrder, Ended
    <2>3. /\ UNCHANGED <<pc, ptr, life, aliveHnd, started>> /\ ui' # "objects"
          /\ \A t \in {"video", "cpu"}, s \in Sessions :
               hnd[t] = s => hnd'[t] = s \/ Ended(t, s)
      BY <1>2, <1>0 DEF InitFails
    <2> QED
      BY <1>0, <2>1, <2>2, <2>3, CallerMovesSafe DEF Objects
  <1>3. CASE InitObjects
    <2>a. life'["network"] = life["network"] /\ ptr'["network"] = ptr["network"]
      BY <1>3, <1>0 DEF InitObjects, Made, Objects
    <2>b. \A k \in Objects : ptr'[k] \in {ptr[k], started}
      BY <1>3, <1>0 DEF InitObjects
    <2>0. \A s \in Sessions : Born(s) => Born(s)'
      BY <1>3, <1>0 DEF InitObjects, Born
    <2>1. PointersBegun'
      BY <2>a, <2>b, <1>3, <1>0, <2>0 DEF InitObjects, PointersBegun, Born
    <2>2. NoThreadsYet'
      BY <1>3, <1>0 DEF InitObjects, NoThreadsYet
    <2>3. UnInitOrder'
      BY <1>3, <1>0, <2>0 DEF InitObjects, UnInitOrder, Ended
    <2>4. NetworkThreads'
      BY <2>a, <2>b, <1>3, <1>0 DEF InitObjects, NetworkThreads, Ended
    <2>5. CaptureThreads'
      BY <1>3, <1>0 DEF InitObjects, CaptureThreads, PointersBegun, Ended, Objects
    <2> QED
      BY <2>1, <2>2, <2>3, <2>4, <2>5 DEF Safe
  <1>4. CASE InitNewNetwork
    <2>a. \A u \in Threads, q \in Sessions :
            (u \notin {"recv", "handshake"} \/ q # started) => pc'[u][q] = pc[u][q]
      <3>1. started \in Sessions
        BY <1>4 DEF InitNewNetwork
      <3>2. CASE pc' = [pc EXCEPT !["recv"][started] = "test", !["handshake"][started] = "test"]
        <4>1. TwoMoves("recv", "test", "handshake", "test", started)
          BY <3>2 DEF TwoMoves
        <4>2. "recv" \in Threads /\ "handshake" \in Threads
          BY DEF Threads
        <4> QED
          BY <1>0, <3>1, <4>1, <4>2, TwoMovesOthers
      <3>3. CASE UNCHANGED pc
        BY <3>3
      <3> QED
        BY <1>4, <3>2, <3>3 DEF InitNewNetwork
    <2>b. /\ life'["network"][started] = "alive"
          /\ \A q \in Sessions : q # started => life'["network"][q] = life["network"][q]
      BY <1>4, <1>0 DEF InitNewNetwork, Objects
    <2>c. ~Born(started) /\ started \in Sessions
      BY <1>4, <1>0 DEF InitNewNetwork, Born
    <2>0. \A s \in Sessions : Born(s) => Born(s)'
      BY <1>4, <1>0 DEF InitNewNetwork, Born, Sessions
    <2>1. PointersBegun'
      BY <1>4, <1>0, <2>0 DEF InitNewNetwork, PointersBegun, Born
    <2>2. NoThreadsYet'
      BY <2>a, <2>b, <2>c, <1>4, <1>0 DEF InitNewNetwork, NoThreadsYet
    <2>3. UnInitOrder'
      BY <2>a, <2>b, <2>c, <1>4, <1>0, <2>0 DEF InitNewNetwork, UnInitOrder, Ended, Threads
    <2>4. NetworkThreads'
      BY <2>a, <2>b, <2>c, <1>4, <1>0 DEF InitNewNetwork, NetworkThreads, Ended, Threads
    <2>5. CaptureThreads'
      BY <2>a, <2>b, <2>c, <1>4, <1>0 DEF InitNewNetwork, CaptureThreads, PointersBegun, Ended,
                                          NULL, Threads
    <2> QED
      BY <2>1, <2>2, <2>3, <2>4, <2>5 DEF Safe
  <1>5. CASE InitPublish
    <2>0. \A s \in Sessions : Born(s) => Born(s)'
      BY <1>5, <1>0 DEF InitPublish, Born
    <2>1. PointersBegun'
      BY <1>5, <1>0, <2>0 DEF InitPublish, PointersBegun, Born
    <2>2. NoThreadsYet'
      BY <1>5, <1>0 DEF InitPublish, NoThreadsYet
    <2>3. UnInitOrder'
      BY <1>5, <1>0, <2>0 DEF InitPublish, UnInitOrder, Ended
    <2>4. NetworkThreads'
      BY <1>5, <1>0 DEF InitPublish, NetworkThreads, Ended
    <2>5. CaptureThreads'
      BY <1>5, <1>0 DEF InitPublish, CaptureThreads, PointersBegun, Ended
    <2> QED
      BY <2>1, <2>2, <2>3, <2>4, <2>5 DEF Safe
  <1>6. CASE StartTimer
    <2>a. started \in Sessions /\ pc["timer"][started] = "none"
      BY <1>6 DEF StartTimer, Move
    <2>b. \A u \in Threads, q \in Sessions : u # "timer" \/ q # started => pc'[u][q] = pc[u][q]
      BY <1>6, <1>0, <2>a, MoveOthers DEF StartTimer, Threads
    <2>c. \A t \in {"video", "cpu"} : hnd'[t] = hnd[t]
      BY <1>6, <1>0 DEF StartTimer
    <2>0. \A s \in Sessions : Born(s) => Born(s)'
      BY <1>6, <1>0 DEF StartTimer, Born
    <2>1. PointersBegun'
      BY <1>6, <1>0, <2>0 DEF StartTimer, PointersBegun, Born
    <2>d. ui' = "idle" /\ UNCHANGED <<started, un, unNet>>
      BY <1>6 DEF StartTimer
    <2>2. NoThreadsYet'
      <3>1. ASSUME NEW q \in Sessions, q > started', NEW u \in Threads
            PROVE  pc'[u][q] = "none"
        <4>1. q # started /\ q > started
          BY <2>d, <3>1, <1>0 DEF Sessions
        <4> QED
          BY <4>1, <2>b, <1>0 DEF NoThreadsYet
      <3> QED
        BY <3>1, <2>d DEF NoThreadsYet
    <2>3. UnInitOrder'
      <3>1. \A q \in Sessions : \A u \in {"handshake", "recv"} : Ended(u, q) => Ended(u, q)'
        BY <2>b DEF Ended, Threads
      <3> QED
        BY <2>0, <2>d, <3>1, <1>0 DEF UnInitOrder
    <2>4. NetworkThreads'
      BY <2>a, <2>b, <2>c, <1>6, <1>0 DEF StartTimer, NetworkThreads, Ended, Threads
    <2>5. CaptureThreads'
      BY <2>a, <2>b, <2>c, <1>6, <1>0 DEF StartTimer, CaptureThreads, PointersBegun, Ended,
                                          NULL, Threads
    <2> QED
      BY <2>1, <2>2, <2>3, <2>4, <2>5 DEF Safe
  <1>7. CASE StartFailed
    <2>1. \A s \in Sessions : Born(s) => Born(s)'
      BY <1>7 DEF StartFailed, Born
    <2>2. UnInitOrder'
      BY <1>7, <1>0, <2>1, BeginUnInitOrder DEF StartFailed, Objects, Owners
    <2>3. /\ UNCHANGED <<pc, ptr, life, aliveHnd, started>> /\ ui' # "objects"
          /\ \A t \in {"video", "cpu"}, s \in Sessions :
               hnd[t] = s => hnd'[t] = s \/ Ended(t, s)
      BY <1>7, <1>0 DEF StartFailed
    <2> QED
      BY <1>0, <2>1, <2>2, <2>3, CallerMovesSafe DEF Objects
  <1>8. CASE StopWiMo
    <2>1. \A s \in Sessions : Born(s) => Born(s)'
      BY <1>8 DEF StopWiMo, Born
    <2>2. UnInitOrder'
      BY <1>8, <1>0, <2>1 DEF StopWiMo, UnInitOrder, Ended
    <2>3. /\ UNCHANGED <<pc, ptr, life, aliveHnd, started>> /\ ui' # "objects"
          /\ \A t \in {"video", "cpu"}, s \in Sessions :
               hnd[t] = s => hnd'[t] = s \/ Ended(t, s)
      BY <1>8, <1>0 DEF StopWiMo
    <2> QED
      BY <1>0, <2>1, <2>2, <2>3, CallerMovesSafe DEF Objects
  <1>9. CASE StopSetFinish
    <2>1. \A s \in Sessions : Born(s) => Born(s)'
      BY <1>9 DEF StopSetFinish, Born
    <2>2. UnInitOrder'
      BY <1>9, <1>0, <2>1 DEF StopSetFinish, UnInitOrder, Ended
    <2>3. /\ UNCHANGED <<pc, ptr, life, aliveHnd, started>> /\ ui' # "objects"
          /\ \A t \in {"video", "cpu"}, s \in Sessions :
               hnd[t] = s => hnd'[t] = s \/ Ended(t, s)
      BY <1>9, <1>0 DEF StopSetFinish
    <2> QED
      BY <1>0, <2>1, <2>2, <2>3, CallerMovesSafe DEF Objects
  <1>10. CASE StopJoinsCapture
    <2>1. \A s \in Sessions : Born(s) => Born(s)'
      BY <1>10 DEF StopJoinsCapture, Born
    <2>2. UnInitOrder'
      BY <1>10, <1>0, <2>1 DEF StopJoinsCapture, UnInitOrder, Ended
    <2>3. /\ UNCHANGED <<pc, ptr, life, aliveHnd, started>> /\ ui' # "objects"
          /\ \A t \in {"video", "cpu"}, s \in Sessions :
               hnd[t] = s => hnd'[t] = s \/ Ended(t, s)
      BY <1>10, <1>0 DEF StopJoinsCapture, Join, Joined
    <2> QED
      BY <1>0, <2>1, <2>2, <2>3, CallerMovesSafe DEF Objects
  <1>11. CASE StopJoinsTimer
    <2>1. \A s \in Sessions : Born(s) => Born(s)'
      BY <1>11 DEF StopJoinsTimer, Born
    <2>2. UnInitOrder'
      BY <1>11, <1>0, <2>1, BeginUnInitOrder DEF StopJoinsTimer, Objects, Owners
    <2>3. /\ UNCHANGED <<pc, ptr, life, aliveHnd, started>> /\ ui' # "objects"
          /\ \A t \in {"video", "cpu"}, s \in Sessions :
               hnd[t] = s => hnd'[t] = s \/ Ended(t, s)
      BY <1>11, <1>0 DEF StopJoinsTimer, Join
    <2> QED
      BY <1>0, <2>1, <2>2, <2>3, CallerMovesSafe DEF Objects
  <1> QED
    BY <1>1, <1>2, <1>3, <1>4, <1>5, <1>6, <1>7, <1>8, <1>9, <1>10, <1>11, <1>12
       DEF Start, Stop

\* UnInit keeps it, whichever thread runs it and whoever else does.
LEMMA UnInitSafe ==
  ASSUME TypeOK, Begun, Safe, NEW o \in Owners, UnInit(o) PROVE Safe'
  <1>0. /\ PointersBegun /\ NoThreadsYet /\ UnInitOrder /\ NetworkThreads /\ CaptureThreads
        /\ PcOK /\ started \in 0..MaxSessions /\ MaxSessions \in Nat
        /\ ptr \in [Objects -> Sessions \cup {NULL}]
        /\ life \in [Objects -> [Sessions -> {"unborn", "alive", "deleted"}]]
        /\ hnd \in [{"timer", "video", "cpu"} -> Sessions \cup {NULL}]
        /\ aliveHnd \in [Sessions -> BOOLEAN]
        /\ un \in [Owners -> {"none", "alive", "handshake", "recv", "free", "null", "rest"}]
        /\ unNet \in [Owners -> Sessions \cup {NULL}]
    BY MaxSessionsAssumption DEF Safe, TypeOK, PcOK
  <1> USE DEF objVars, netVars, hndVars, unVars, sessionVars, callVars, histVars, restVars,
              Call, UnInitStep
  <1>1. CASE JoinCheckAlive(o)
    <2>0. \A s \in Sessions : Born(s) => Born(s)'
      BY <1>1, <1>0 DEF JoinCheckAlive, Born
    <2>1. PointersBegun'
      BY <1>1, <1>0, <2>0 DEF JoinCheckAlive, Joined, PointersBegun, Born
    <2>2. NoThreadsYet'
      BY <1>1, <1>0 DEF JoinCheckAlive, NoThreadsYet
    <2>3. UnInitOrder'
      BY <1>1, <1>0, <2>0 DEF JoinCheckAlive, UnInitOrder, Ended
    <2>4. NetworkThreads'
      BY <1>1, <1>0 DEF JoinCheckAlive, Joined, NetworkThreads, Ended
    <2>5. CaptureThreads'
      BY <1>1, <1>0 DEF JoinCheckAlive, Joined, CaptureThreads, PointersBegun, Ended
    <2> QED
      BY <2>1, <2>2, <2>3, <2>4, <2>5 DEF Safe
  <1>2. CASE JoinNetworkThreads(o)
    <2>0. \A s \in Sessions : Born(s) => Born(s)'
      BY <1>2, <1>0 DEF JoinNetworkThreads, Born
    <2>1. PointersBegun'
      BY <1>2, <1>0, <2>0 DEF JoinNetworkThreads, Joined, PointersBegun, Born
    <2>2. NoThreadsYet'
      BY <1>2, <1>0 DEF JoinNetworkThreads, NoThreadsYet
    <2>3. UnInitOrder'
      BY <1>2, <1>0, <2>0 DEF JoinNetworkThreads, Joined, UnInitOrder, Ended
    <2>4. NetworkThreads'
      BY <1>2, <1>0 DEF JoinNetworkThreads, Joined, NetworkThreads, Ended
    <2>5. CaptureThreads'
      BY <1>2, <1>0 DEF JoinNetworkThreads, CaptureThreads, PointersBegun, Ended
    <2> QED
      BY <2>1, <2>2, <2>3, <2>4, <2>5 DEF Safe
  <1>3. CASE DeleteNetwork(o)
    <2>a. \A q \in Sessions :
            life'["network"][q] = IF q = unNet[o] THEN "deleted" ELSE life["network"][q]
      BY <1>3, <1>0 DEF DeleteNetwork, Objects
    <2>b. unNet[o] \in Sessions /\ Born(unNet[o])
      BY <1>3, <1>0 DEF DeleteNetwork, UnInitOrder
    <2>c. Ended("handshake", unNet[o]) /\ Ended("recv", unNet[o])
      BY <1>3, <1>0 DEF DeleteNetwork, UnInitOrder
    <2>0. \A s \in Sessions : Born(s) => Born(s)'
      BY <1>3, <1>0 DEF DeleteNetwork, Born
    <2>1. PointersBegun'
      BY <2>a, <2>b, <2>c, <1>3, <1>0, <2>0 DEF DeleteNetwork, PointersBegun, Born
    <2>2. NoThreadsYet'
      BY <1>3, <1>0 DEF DeleteNetwork, NoThreadsYet
    <2>3. UnInitOrder'
      BY <1>3, <1>0, <2>0 DEF DeleteNetwork, UnInitOrder, Ended
    <2>4. NetworkThreads'
      BY <2>a, <2>b, <2>c, <1>3, <1>0 DEF DeleteNetwork, NetworkThreads, Ended
    <2>5. CaptureThreads'
      BY <1>3, <1>0 DEF DeleteNetwork, CaptureThreads, PointersBegun, Ended
    <2> QED
      BY <2>1, <2>2, <2>3, <2>4, <2>5 DEF Safe
  <1>4. CASE ForgetNetwork(o)
    <2>0. \A s \in Sessions : Born(s) => Born(s)'
      BY <1>4, <1>0 DEF ForgetNetwork, Born
    <2>1. PointersBegun'
      BY <1>4, <1>0, <2>0 DEF ForgetNetwork, PointersBegun, Sessions, NULL, Born
    <2>2. NoThreadsYet'
      BY <1>4, <1>0 DEF ForgetNetwork, NoThreadsYet, Sessions, Threads
    <2>3. UnInitOrder'
      BY <1>4, <1>0, <2>0 DEF ForgetNetwork, UnInitOrder, Ended
    <2>4. NetworkThreads'
      BY <1>4, <1>0 DEF ForgetNetwork, NetworkThreads, Ended
    <2>5. CaptureThreads'
      BY <1>4, <1>0 DEF ForgetNetwork, CaptureThreads, PointersBegun, Ended
    <2> QED
      BY <2>1, <2>2, <2>3, <2>4, <2>5 DEF Safe
  <1>5. CASE DeleteRest(o)
    <2>a. /\ \A u \in Threads, q \in Sessions : u # "timer" => pc'[u][q] = pc[u][q]
          /\ \A q \in Sessions : pc["timer"][q] = "none" => pc'["timer"][q] = "none"
      <3>1. CASE o = Caller
        BY <1>5, <3>1 DEF DeleteRest
      <3>2. CASE o # Caller
        <4>1. o \in Sessions /\ Move("timer", o, "uninit", "done")
          BY <1>5, <3>2 DEF DeleteRest, Owners
        <4>2. pc["timer"][o] = "uninit"
          BY <4>1 DEF Move
        <4> QED
          BY <1>0, <4>1, <4>2, MoveOthers DEF Threads
      <3> QED
        BY <3>1, <3>2
    <2>b. (ui' = "idle" /\ ui = "uninit") \/ ui' = ui
      BY <1>5 DEF DeleteRest
    <2>c. life'["network"] = life["network"] /\ ptr'["network"] = ptr["network"]
      BY <1>5, <1>0 DEF DeleteRest, Freed, Made, Objects
    <2>d. /\ started' = started /\ un' = [un EXCEPT ![o] = "none"]
          /\ UNCHANGED <<unNet, hnd, aliveHnd>> /\ \A k \in Objects : ptr'[k] \in {ptr[k], NULL}
      BY <1>5, <1>0 DEF DeleteRest
    <2>0. \A s \in Sessions : Born(s) => Born(s)'
      BY <1>5, <1>0 DEF DeleteRest, Born
    <2>1. PointersBegun'
      BY <1>5, <1>0, <2>0 DEF DeleteRest, PointersBegun, Sessions, NULL, Objects
    <2>2. NoThreadsYet'
      <3>1. ASSUME NEW t \in Threads, NEW q \in Sessions, pc[t][q] = "none"
            PROVE  pc'[t][q] = "none"
        BY <3>1, <2>a
      <3> QED
        BY <3>1, <2>b, <2>d, <1>0, NoThreadsKept DEF Begun
    <2>3. UnInitOrder'
      BY <2>a, <2>b, <2>c, <2>d, <1>5, <1>0, <2>0 DEF UnInitOrder, Ended, Threads
    <2>4. NetworkThreads'
      BY <2>a, <2>b, <2>c, <2>d, <1>5, <1>0 DEF NetworkThreads, Ended, Threads
    <2>5. CaptureThreads'
      BY <2>a, <2>b, <2>c, <2>d, <1>5, <1>0 DEF CaptureThreads, PointersBegun, Ended, NULL,
                                                Threads, Objects
    <2> QED
      BY <2>1, <2>2, <2>3, <2>4, <2>5 DEF Safe
  <1> QED
    BY <1>1, <1>2, <1>3, <1>4, <1>5 DEF UnInit

\* The steps that create threads, or begin an UnInit on a timer thread, keep it.
LEMMA CreatorSafe ==
  ASSUME TypeOK, Begun, Safe, NEW s \in Sessions,
         TimerStartsCapture(s) \/ TimerSetsFinish(s) \/ HandshakeStartsCheckAlive(s) PROVE Safe'
  <1>0. /\ PointersBegun /\ NoThreadsYet /\ UnInitOrder /\ NetworkThreads /\ CaptureThreads
        /\ PcOK /\ started \in 0..MaxSessions /\ MaxSessions \in Nat
        /\ ptr \in [Objects -> Sessions \cup {NULL}]
        /\ life \in [Objects -> [Sessions -> {"unborn", "alive", "deleted"}]]
        /\ hnd \in [{"timer", "video", "cpu"} -> Sessions \cup {NULL}]
        /\ aliveHnd \in [Sessions -> BOOLEAN]
        /\ un \in [Owners -> {"none", "alive", "handshake", "recv", "free", "null", "rest"}]
        /\ unNet \in [Owners -> Sessions \cup {NULL}]
    BY MaxSessionsAssumption DEF Safe, TypeOK, PcOK
  <1> USE DEF objVars, netVars, hndVars, unVars, sessionVars, callVars, histVars, restVars,
              Call, Move
  <1>1. CASE TimerStartsCapture(s)
    <2>a. \A t \in Threads, q \in Sessions :
            \/ pc'[t][q] = pc[t][q]
            \/ t = "timer" /\ q = s
            \/ t \in {"video", "cpu"} /\ q = ptr[t]
      BY <1>1, <1>0 DEF TimerStartsCapture
    <2>b. pc["timer"][s] # "none"
      BY <1>1 DEF TimerStartsCapture
    <2>0. \A q \in Sessions : Born(q) => Born(q)'
      BY <1>1, <1>0 DEF TimerStartsCapture, Born
    <2>1. PointersBegun'
      BY <1>1, <1>0, <2>0 DEF TimerStartsCapture, PointersBegun, Born
    <2>c. UNCHANGED <<ui, started>>
      BY <1>1 DEF TimerStartsCapture
    <2>2. NoThreadsYet'
      <3>1. ASSUME NEW t \in Threads, NEW q \in Sessions, NotYet(t, q), pc[t][q] = "none"
            PROVE  pc'[t][q] = "none"
        <4>1. t = "timer" => q # s
          BY <2>b, <3>1
        <4>2. t \in {"video", "cpu"} => q # ptr[t]
          BY <3>1, <1>0 DEF PointersBegun, Objects, Sessions, NotYet
        <4> QED
          BY <2>a, <3>1, <4>1, <4>2
      <3> QED
        BY <3>1, <2>c, <1>0, NoThreadsKept DEF Begun
    <2>3. UnInitOrder'
      BY <1>1, <1>0, <2>0 DEF TimerStartsCapture, UnInitOrder, Ended, Threads
    <2>4. NetworkThreads'
      BY <1>1, <1>0 DEF TimerStartsCapture, NetworkThreads, Ended, Threads
    <2>5. CaptureThreads'
      BY <1>1, <1>0 DEF TimerStartsCapture, CaptureThreads, PointersBegun, Ended, NULL, Threads
    <2> QED
      BY <2>1, <2>2, <2>3, <2>4, <2>5 DEF Safe
  <1>2. CASE TimerSetsFinish(s)
    <2>0. \A q \in Sessions : Born(q) => Born(q)'
      BY <1>2, <1>0 DEF TimerSetsFinish, Born
    <2>1. PointersBegun'
      BY <1>2, <1>0, <2>0 DEF TimerSetsFinish, BeginUnInit, PointersBegun, Born
    <2>2. NoThreadsYet'
      BY <1>2, <1>0 DEF TimerSetsFinish, NoThreadsYet
    <2>3. UnInitOrder'
      BY <1>2, <1>0, <2>0 DEF TimerSetsFinish, BeginUnInit, UnInitOrder, PointersBegun, Ended,
                              Objects
    <2>4. NetworkThreads'
      BY <1>2, <1>0 DEF TimerSetsFinish, BeginUnInit, NetworkThreads, PointersBegun, Ended,
                        Threads
    <2>5. CaptureThreads'
      BY <1>2, <1>0 DEF TimerSetsFinish, CaptureThreads, PointersBegun, Ended
    <2> QED
      BY <2>1, <2>2, <2>3, <2>4, <2>5 DEF Safe
  <1>3. CASE HandshakeStartsCheckAlive(s)
    <2>a. \A u \in Threads, q \in Sessions :
            (u \notin {"handshake", "alive"} \/ q # s) => pc'[u][q] = pc[u][q]
      <3>1. PICK at : TwoMoves("handshake", at, "alive", "test", s)
        BY <1>3 DEF HandshakeStartsCheckAlive, TwoMoves
      <3>2. "handshake" \in Threads /\ "alive" \in Threads
        BY DEF Threads
      <3> QED
        BY <1>0, <3>1, <3>2, TwoMovesOthers
    <2>b. /\ pc["handshake"][s] = "spawn" /\ aliveHnd' = [aliveHnd EXCEPT ![s] = TRUE]
          /\ UNCHANGED <<ptr, life, hnd, un, unNet, ui, started>>
      BY <1>3 DEF HandshakeStartsCheckAlive
    <2>c. s <= started /\ ~Ended("handshake", s)
      BY <2>b, <1>0 DEF NoThreadsYet, Threads, Ended, Sessions
    <2>0. \A q \in Sessions : Born(q) => Born(q)'
      BY <1>3, <1>0 DEF HandshakeStartsCheckAlive, Born, Sessions
    <2>1. PointersBegun'
      BY <1>3, <1>0, <2>0 DEF HandshakeStartsCheckAlive, PointersBegun, Born
    <2>2. NoThreadsYet'
      <3>1. ASSUME NEW t \in Threads, NEW q \in Sessions, NotYet(t, q), pc[t][q] = "none"
            PROVE  pc'[t][q] = "none"
        <4>1. t \notin {"handshake", "alive"} \/ q # s
          BY <2>c, <3>1, <1>0 DEF NotYet, Sessions
        <4> QED
          BY <2>a, <3>1, <4>1
      <3> QED
        BY <3>1, <2>b, <1>0, NoThreadsKept DEF Begun
    <2>3. UnInitOrder'
      <3>1. \A q \in Sessions : \A u \in {"handshake", "recv"} : Ended(u, q) => Ended(u, q)'
        BY <2>a, <2>c DEF Ended, Threads
      <3> QED
        BY <2>0, <2>b, <3>1, <1>0 DEF UnInitOrder
    <2>4. NetworkThreads'
      BY <2>a, <2>b, <2>c, <1>0 DEF NetworkThreads, Ended, Threads
    <2>5. CaptureThreads'
      BY <2>a, <2>b, <1>0 DEF CaptureThreads, Ended, Threads
    <2> QED
      BY <2>1, <2>2, <2>3, <2>4, <2>5 DEF Safe
  <1> QED
    BY <1>1, <1>2, <1>3

\* It holds before anything was started.
LEMMA InitSafe == Init => Safe
  BY DEF Init, Safe, PointersBegun, NoThreadsYet, UnInitOrder, NetworkThreads, CaptureThreads,
         Ended, Sessions, Objects, Owners, Threads, NULL, Caller

\* The invariant is inductive.
LEMMA SafeStep == ASSUME IInv, [Next]_vars PROVE Safe'
  <1> USE DEF IInv
  <1>1. CASE Start \/ Stop
    BY <1>1, CallerSafe
  <1>2. ASSUME NEW o \in Owners, UnInit(o) PROVE Safe'
    BY <1>2, UnInitSafe
  <1>3. ASSUME NEW s \in Sessions,
               \/ Timer(s) \/ Handshake(s) \/ Recv(s) \/ DeviceEnds(s)
               \/ CheckAlive(s) \/ CaptureEnds(s) \/ CaptureFails(s)
        PROVE  Safe'
    <2>1. \/ Alone(s)
          \/ TimerStartsCapture(s) \/ TimerSetsFinish(s) \/ HandshakeStartsCheckAlive(s)
      BY <1>3 DEF Timer, Handshake, Recv, DeviceEnds, CheckAlive, Alone
    <2> QED
      BY <2>1, AloneSafe, CreatorSafe
  <1>4. CASE UNCHANGED vars
    <2>1. KeepsEnded /\ UNCHANGED <<ptr, life, hnd, aliveHnd, un, unNet, ui, started>>
      BY <1>4 DEF KeepsEnded, vars, objVars, hndVars, unVars, callVars, sessionVars
    <2> QED
      BY <2>1, SteadySafe
  <1> QED
    BY <1>1, <1>2, <1>3, <1>4 DEF Next, Quiet

\* No thread outlives the object it runs on, for any number of sessions, also when they
\* overlap, except the one of each object whose handle was stored after the join had looked.
THEOREM NoThreadOutlives == Spec => []ThreadsOutliveNothing
  <1>1. Init => IInv
    BY InitTyped, InitSafe DEF Init, IInv, Begun
  <1>2. IInv /\ [Next]_vars => IInv'
    BY TypeStep, BegunStep, SafeStep DEF IInv
  <1>3. IInv => ThreadsOutliveNothing
    BY DEF IInv, Safe, NetworkThreads, CaptureThreads, ThreadsOutliveNothing
  <1> QED
    BY <1>1, <1>2, <1>3, PTL DEF Spec

-----------------------------------------------------------------------------
(* One session at a time: what StopWiMo finds and leaves while every session is stopped
   before the next one starts. *)

\* The session that was started last and not stopped.
Ours(s) == s = started /\ ~stopped

\* The objects UnInit knows of: its list of audio methods is shorter than Init's.
Counts(k) == ~(Audio = "ZTE" /\ k = "audio")

Starting == ui \in {"objects", "network", "publish", "timer", "failed"}

\* Threads, pointers and objects are of the session at hand, and an object is pointed to
\* but for the moment in which Init has made it and not yet stored it.
OnlyOurs ==
  /\ \A t \in {"handshake", "recv", "timer"}, s \in Sessions : Ended(t, s) \/ Ours(s)
  /\ \A k \in Objects : Counts(k) =>
       /\ ptr[k] # NULL => Ours(ptr[k]) /\ k \in Made \cup {"network"}
       /\ \A s \in Sessions : life[k][s] = "alive" =>
            Ours(s) /\ (ptr[k] = s \/ (k = "network" /\ ui = "publish"))
  /\ service => ~stopped

\* Init begins with nothing and stores the network object before it creates the timer.
Begins ==
  Starting =>
    /\ ~stopped /\ pc["timer"][started] = "none"
    /\ ui \in {"objects", "failed"} => \A k \in Objects : Counts(k) => ptr[k] = NULL
    /\ ui \in {"network", "publish"} => ptr["network"] = NULL
    /\ ui = "publish" => life["network"][started] = "alive"
    /\ ui = "timer" => ptr["network"] = started /\ life["network"][started] = "alive"

\* StopWiMo joins the timer before its own UnInit, a timer that is not in UnInit finds
\* pCNetwork as Init left it, and un says who is in UnInit.
TimerOwn ==
  /\ \A s \in Sessions :
       /\ Ended("timer", s) \/ (hnd["timer"] = s /\ ui # "uninit")
       /\ Deciding(s) => ptr["network"] = s /\ life["network"][s] = "alive"
       /\ un[s] # "none" <=> pc["timer"][s] = "uninit"
  /\ un[Caller] # "none" <=> ui = "uninit"

\* How far UnInit has come with the object pCNetwork points to.
Apart ==
  /\ \A o \in Owners :
       /\ un[o] \in {"alive", "handshake", "recv", "free"} =>
            /\ unNet[o] # NULL /\ ptr["network"] = unNet[o]
            /\ life["network"][unNet[o]] = "alive"
       /\ un[o] = "null" =>
            /\ unNet[o] # NULL /\ ptr["network"] = unNet[o]
            /\ life["network"][unNet[o]] = "deleted"
       /\ un[o] = "rest" => ptr["network"] = NULL
  /\ ptr["network"] # NULL =>
       life["network"][ptr["network"]] = "alive" \/ \E o \in Owners : un[o] = "null"

Tidy == OnlyOurs /\ Begins /\ TimerOwn /\ Apart

\* The threads of a network object run on an object that is alive.
NetAlive ==
  \A s \in Sessions : \A t \in {"handshake", "recv"} :
    Ended(t, s) \/ life["network"][s] = "alive"

\* Init has not created the network threads of the session it starts.
Fresh ==
  ui \in {"objects", "network"} =>
    \A t \in {"handshake", "recv"} : pc[t][started] = "none"

\* The types these arguments need.
Typed ==
  /\ PcOK /\ UnOK /\ started \in 0..MaxSessions /\ MaxSessions \in Nat
  /\ ptr \in [Objects -> Sessions \cup {NULL}]
  /\ life \in [Objects -> [Sessions -> {"unborn", "alive", "deleted"}]]
  /\ hnd \in [{"timer", "video", "cpu"} -> Sessions \cup {NULL}]
  /\ service \in BOOLEAN /\ stopped \in BOOLEAN /\ overlapped \in BOOLEAN

\* They are among those of TypeOK.
LEMMA TypesTyped == TypeOK => Typed
  BY MaxSessionsAssumption DEF TypeOK, Typed, PcOK, UnOK

\* UnInit runs on one thread, and not while a session is started.
LEMMA OneUnInit ==
  ASSUME Typed, Tidy, NEW o \in Owners, un[o] # "none"
  PROVE  ~Starting /\ \A p \in Owners : un[p] # "none" => p = o
  <1>1. ASSUME NEW s \in Sessions, un[s] # "none"
        PROVE  s = started /\ ~Starting /\ ui # "uninit"
    <2>1. pc["timer"][s] = "uninit"
      BY <1>1 DEF Tidy, TimerOwn
    <2>2. ~Ended("timer", s)
      BY <2>1 DEF Ended
    <2> QED
      BY <2>1, <2>2 DEF Tidy, OnlyOurs, Ours, Begins, TimerOwn
  <1>2. un[Caller] # "none" => ui = "uninit"
    BY DEF Tidy, TimerOwn
  <1>3. ui = "uninit" => ~Starting
    BY DEF Starting
  <1> QED
    BY <1>1, <1>2, <1>3 DEF Owners
\* Steps that create no thread and leave the pointers, the objects, UnInit and the caller
\* alone keep all of this.
LEMMA SteadyTidy ==
  ASSUME Begun, Tidy, KeepsEnded, TimersStay, service' \in {service, FALSE},
         UNCHANGED <<ptr, life, hnd, un, unNet, ui, started, stopped>>
  PROVE  Tidy'
  <1>1. \A t \in Threads, s \in Sessions : Ended(t, s) => Ended(t, s)'
    BY DEF KeepsEnded, Ended
  <1>2. OnlyOurs'
    <2>1. service' => ~stopped'
      BY Zenon DEF Tidy, OnlyOurs
    <2>2. \A t \in {"handshake", "recv", "timer"}, s \in Sessions : (Ended(t, s) \/ Ours(s))'
      BY <1>1 DEF Tidy, OnlyOurs, Ours, Threads
    <2> QED
      BY <2>1, <2>2 DEF Tidy, OnlyOurs, Ours, Counts
  <1>3. Begins'
    <2>1. pc["timer"][started] = "none" /\ started \in Sessions
            => pc'["timer"][started] = "none"
      BY DEF TimersStay, Deciding
    <2>2. Starting => started \in Sessions
      BY DEF Begun, Starting
    <2> QED
      BY <2>1, <2>2 DEF Tidy, Begins, Starting
  <1>4. TimerOwn'
    BY <1>1 DEF Tidy, TimerOwn, TimersStay, Deciding, Threads
  <1>5. Apart'
    BY DEF Tidy, Apart
  <1> QED
    BY <1>2, <1>3, <1>4, <1>5 DEF Tidy

\* StartWiMo and Init keep it, if StopWiMo has cleaned up before.
LEMMA StartTidy ==
  ASSUME Typed, Begun, Safe, NetAlive, Tidy, Start, StartSetIniting => stopped PROVE Tidy'
  <1>0. NoThreadsYet /\ PcOK /\ UnOK
    BY DEF Typed, Safe
  <1>c. \A k \in {"network"} : k \in Objects /\ Counts(k)
    BY DEF Objects, Counts
  <1>e. Starting => \A s \in Sessions : Ended("timer", s) /\ un[s] = "none"
    <2>1. ASSUME Starting, NEW s \in Sessions PROVE Ended("timer", s)
      BY <2>1 DEF Tidy, OnlyOurs, Begins, Ours, Ended
    <2>2. ASSUME Starting, NEW s \in Sessions PROVE un[s] = "none"
      BY <2>2, <2>1 DEF Tidy, TimerOwn, Ended
    <2> QED
      BY <2>1, <2>2
  <1>u. Starting => un[Caller] = "none"
    BY DEF Tidy, TimerOwn, Starting
  <1>n. Starting => started \in Sessions
    BY DEF Begun, Starting
  <1> USE DEF objVars, netVars, hndVars, unVars, sessionVars, callVars, histVars, restVars, Call
  <1>1. CASE StartSetIniting
    <2>a. stopped /\ ui = "begin" /\ ui' = "objects" /\ ~stopped' /\ started' = started + 1
      BY <1>1 DEF StartSetIniting
    <2>b. UNCHANGED <<pc, ptr, life, service, hnd, un, unNet>>
      BY <1>1 DEF StartSetIniting
    <2>t. \A s \in Sessions : pc["timer"][s] \in {"none", "done"}
      BY <2>a, <1>0 DEF Tidy, OnlyOurs, Ours, Ended, PcOK, Places, Threads
    <2>1. OnlyOurs'
      BY <2>a, <2>b DEF Tidy, OnlyOurs, Ours, Ended
    <2>2. Begins'
      <3>1. pc["timer"][started + 1] = "none"
        <4>1. started + 1 \in Sessions /\ started + 1 > started
          BY <1>1 DEF StartSetIniting, Begun, Typed, Sessions
        <4> QED
          BY <4>1, <1>0 DEF NoThreadsYet, Threads
      <3>2. \A k \in Objects : Counts(k) => ptr[k] = NULL
        BY <2>a DEF Tidy, OnlyOurs, Ours
      <3> QED
        BY <2>a, <2>b, <3>1, <3>2 DEF Begins, Counts
    <2>3. TimerOwn'
      BY <2>a, <2>b, <2>t DEF Tidy, TimerOwn, Ended, Deciding
    <2>4. Apart'
      BY <2>b DEF Tidy, Apart
    <2> QED
      BY <2>1, <2>2, <2>3, <2>4 DEF Tidy
  <1>8. CASE StartWiMo
    <2>a. /\ ui = "idle" /\ ui' = "begin" /\ ~Starting'
          /\ UNCHANGED <<pc, ptr, life, service, hnd, un, unNet, started, stopped>>
      BY <1>8 DEF StartWiMo, Starting
    <2>1. OnlyOurs'
      BY <2>a DEF Tidy, OnlyOurs, Ours, Ended, Counts
    <2>2. Begins'
      BY <2>a DEF Begins
    <2>3. TimerOwn'
      BY <2>a DEF Tidy, TimerOwn, Ended, Deciding
    <2>4. Apart'
      BY <2>a DEF Tidy, Apart
    <2> QED
      BY <2>1, <2>2, <2>3, <2>4 DEF Tidy
  <1>2. CASE InitFails
    <2>a. /\ ui = "objects" /\ ui' = "failed"
          /\ UNCHANGED <<pc, ptr, life, service, hnd, un, unNet, started, stopped>>
      BY <1>2 DEF InitFails
    <2>1. OnlyOurs'
      BY <2>a DEF Tidy, OnlyOurs, Ours, Ended
    <2>2. Begins'
      BY <2>a DEF Tidy, Begins, Starting
    <2>3. TimerOwn'
      BY <2>a DEF Tidy, TimerOwn, Ended, Deciding
    <2>4. Apart'
      BY <2>a DEF Tidy, Apart
    <2> QED
      BY <2>1, <2>2, <2>3, <2>4 DEF Tidy
  <1>3. CASE InitObjects
    <2>a. /\ ui = "objects" /\ ui' = "network" /\ Starting
          /\ UNCHANGED <<pc, hnd, un, unNet, started, stopped>>
      BY <1>3 DEF InitObjects, Starting
    <2>b. /\ life'["network"] = life["network"] /\ ptr'["network"] = ptr["network"]
          /\ service' \in BOOLEAN
      BY <1>3 DEF InitObjects, Made, Objects, Typed
    <2>c. \A k \in Objects :
            /\ ptr'[k] = IF k \in Made THEN started ELSE ptr[k]
            /\ k \notin Made => life'[k] = life[k]
            /\ k \in Made => \A s \in Sessions : s # started => life'[k][s] = life[k][s]
      BY <1>3 DEF InitObjects, Typed
    <2>d. ~stopped /\ \A k \in Objects : Counts(k) => ptr[k] = NULL
      BY <2>a DEF Tidy, Begins
    <2>1. OnlyOurs'
      <3>1. \A t \in {"handshake", "recv", "timer"}, s \in Sessions : (Ended(t, s) \/ Ours(s))'
        BY <2>a DEF Tidy, OnlyOurs, Ours, Ended
      <3>2. ASSUME NEW k \in Objects, Counts(k), NEW s \in Sessions PROVE life[k][s] # "alive"
        <4>1. ptr[k] = NULL /\ s # NULL
          BY <2>d, <3>2 DEF NULL, Sessions
        <4> QED
          BY <4>1, <2>a, <3>2 DEF Tidy, OnlyOurs
      <3>3. ASSUME NEW k \in Objects, Counts(k)
            PROVE  /\ ptr'[k] # NULL => Ours(ptr[k])' /\ k \in Made \cup {"network"}
                   /\ \A s \in Sessions : life'[k][s] = "alive" => Ours(s)' /\ ptr'[k] = s
        BY <2>a, <2>c, <2>d, <3>2, <3>3 DEF Ours
      <3> QED
        BY <2>a, <2>d, <3>1, <3>3 DEF OnlyOurs, Counts
    <2>2. Begins'
      BY <2>a, <2>b, <2>d, <1>c DEF Tidy, Begins, Starting
    <2>3. TimerOwn'
      BY <2>a, <2>b DEF Tidy, TimerOwn, Ended, Deciding
    <2>4. Apart'
      BY <2>a, <2>b DEF Tidy, Apart
    <2> QED
      BY <2>1, <2>2, <2>3, <2>4 DEF Tidy
  <1>4. CASE InitNewNetwork
    <2>a. /\ ui = "network" /\ ui' = "publish" /\ Starting /\ started \in Sessions
          /\ UNCHANGED <<ptr, service, hnd, un, unNet, started, stopped>>
      BY <1>4, <1>n DEF InitNewNetwork, Starting
    <2>b. \A u \in Threads, q \in Sessions :
            (u \notin {"recv", "handshake"} \/ q # started) => pc'[u][q] = pc[u][q]
      <3>1. CASE pc' = [pc EXCEPT !["recv"][started] = "test", !["handshake"][started] = "test"]
        <4>1. TwoMoves("recv", "test", "handshake", "test", started)
          BY <3>1 DEF TwoMoves
        <4> QED
          BY <1>0, <2>a, <4>1, TwoMovesOthers DEF Threads
      <3>2. CASE UNCHANGED pc
        BY <3>2
      <3> QED
        BY <1>4, <3>1, <3>2 DEF InitNewNetwork
    <2>c. /\ \A k \in Objects : k # "network" => life'[k] = life[k]
          /\ \A q \in Sessions : q # started => life'["network"][q] = life["network"][q]
          /\ life'["network"][started] = "alive"
      BY <1>4, <2>a DEF InitNewNetwork, Typed, Objects
    <2>d. ~stopped /\ ptr["network"] = NULL /\ pc'["timer"] = pc["timer"]
      <3>1. pc'["timer"] = pc["timer"]
        BY <1>4, <1>0 DEF InitNewNetwork, PcOK, Threads
      <3> QED
        BY <2>a, <3>1 DEF Tidy, Begins
    <2>1. OnlyOurs'
      <3>1. \A t \in {"handshake", "recv", "timer"}, s \in Sessions : (Ended(t, s) \/ Ours(s))'
        BY <2>a, <2>b, <2>d DEF Tidy, OnlyOurs, Ours, Ended, Threads
      <3>2. ASSUME NEW k \in Objects, Counts(k)
            PROVE  /\ ptr'[k] # NULL => Ours(ptr[k])' /\ k \in Made \cup {"network"}
                   /\ \A s \in Sessions : life'[k][s] = "alive" =>
                        Ours(s)' /\ (ptr'[k] = s \/ k = "network")
        BY <2>a, <2>c, <2>d, <3>2 DEF Tidy, OnlyOurs, Ours
      <3> QED
        BY <2>a, <2>d, <3>1, <3>2 DEF OnlyOurs, Counts
    <2>2. Begins'
      BY <2>a, <2>c, <2>d DEF Tidy, Begins, Starting
    <2>3. TimerOwn'
      BY <2>a, <2>d, <1>e, <1>0 DEF Tidy, TimerOwn, Ended, Deciding, PcOK, Places, Threads
    <2>4. Apart'
      BY <2>a, <2>d, <1>e, <1>u DEF Tidy, Apart, Owners
    <2> QED
      BY <2>1, <2>2, <2>3, <2>4 DEF Tidy
  <1>5. CASE InitPublish
    <2>a. /\ ui = "publish" /\ ui' = "timer" /\ Starting /\ started \in Sessions
          /\ UNCHANGED <<pc, life, service, hnd, un, unNet, started, stopped>>
      BY <1>5, <1>n DEF InitPublish, Starting
    <2>b. /\ ptr'["network"] = started
          /\ \A k \in Objects : k # "network" => ptr'[k] = ptr[k]
      BY <1>5 DEF InitPublish, Typed, Objects
    <2>c. ~stopped /\ life["network"][started] = "alive"
      BY <2>a DEF Tidy, Begins
    <2>1. OnlyOurs'
      BY <2>a, <2>b, <2>c DEF Tidy, OnlyOurs, Ours, Ended, Counts
    <2>2. Begins'
      BY <2>a, <2>b, <2>c DEF Tidy, Begins, Starting
    <2>3. TimerOwn'
      BY <2>a, <1>e, <1>0 DEF Tidy, TimerOwn, Ended, Deciding, PcOK, Places, Threads
    <2>4. Apart'
      BY <2>a, <2>b, <2>c, <1>e, <1>u DEF Apart, Owners
    <2> QED
      BY <2>1, <2>2, <2>3, <2>4 DEF Tidy
  <1>6. CASE StartTimer
    <2>a. /\ ui = "timer" /\ ui' = "idle" /\ Starting /\ started \in Sessions
          /\ UNCHANGED <<ptr, life, service, un, unNet, started, stopped>>
      BY <1>6, <1>n DEF StartTimer, Starting
    <2>b. /\ \A u \in Threads, q \in Sessions :
               u # "timer" \/ q # started => pc'[u][q] = pc[u][q]
          /\ pc'["timer"][started] = "poll"
      BY <1>6, <1>0, <2>a, MoveOthers DEF StartTimer, Threads
    <2>c. hnd'["timer"] = started
      BY <1>6 DEF StartTimer, Typed
    <2>d. ~stopped /\ ptr["network"] = started /\ life["network"][started] = "alive"
      BY <2>a DEF Tidy, Begins
    <2>1. OnlyOurs'
      <3>1. \A t \in {"handshake", "recv", "timer"}, s \in Sessions : (Ended(t, s) \/ Ours(s))'
        BY <2>a, <2>b, <2>d DEF Tidy, OnlyOurs, Ours, Ended, Threads
      <3> QED
        BY <3>1, <2>a DEF Tidy, OnlyOurs, Ours, Counts
    <2>2. Begins'
      BY <2>a DEF Begins, Starting
    <2>3. TimerOwn'
      <3>1. ASSUME NEW s \in Sessions, s # started
            PROVE  pc'["timer"][s] \in {"none", "done"} /\ un'[s] = "none"
        BY <3>1, <2>a, <2>b, <1>e, <1>0 DEF Ended, PcOK, Places, Threads
      <3>2. un'[started] = "none" /\ un'[Caller] = "none"
        BY <2>a, <1>e, <1>u
      <3> QED
        BY <3>1, <3>2, <2>a, <2>b, <2>c, <2>d DEF TimerOwn, Ended, Deciding
    <2>4. Apart'
      BY <2>a DEF Tidy, Apart
    <2> QED
      BY <2>1, <2>2, <2>3, <2>4 DEF Tidy
  <1>7. CASE StartFailed
    <2>a. /\ ui = "failed" /\ ui' = "uninit" /\ Starting /\ service' = FALSE
          /\ UNCHANGED <<pc, ptr, life, hnd, started, stopped>>
      BY <1>7 DEF StartFailed, Starting, NotifyUIStop, StopService
    <2>b. ptr["network"] = NULL
      BY <2>a, <1>c DEF Tidy, Begins
    <2>c. /\ un'[Caller] = "rest" /\ unNet'[Caller] = NULL
          /\ \A p \in Sessions : un'[p] = un[p] /\ unNet'[p] = unNet[p]
      BY <1>7, <1>0, <2>b DEF StartFailed, BeginUnInit, UnOK, Owners, Caller, Sessions
    <2>1. OnlyOurs'
      BY <2>a DEF Tidy, OnlyOurs, Ours, Ended, Counts
    <2>2. Begins'
      BY <2>a DEF Begins, Starting
    <2>3. TimerOwn'
      BY <2>a, <2>c, <1>e, <1>0 DEF Tidy, TimerOwn, Ended, Deciding, PcOK, Places, Threads
    <2>4. Apart'
      BY <2>a, <2>b, <2>c, <1>e DEF Apart, Owners
    <2> QED
      BY <2>1, <2>2, <2>3, <2>4 DEF Tidy
  <1> QED
    BY <1>1, <1>2, <1>3, <1>4, <1>5, <1>6, <1>7, <1>8 DEF Start

\* StopWiMo keeps it up to its UnInit.
LEMMA StopTidy == ASSUME Typed, Tidy, Stop PROVE Tidy'
  <1>0. PcOK /\ UnOK
    BY DEF Typed
  <1> USE DEF objVars, netVars, hndVars, unVars, sessionVars, callVars, histVars, restVars, Call
  <1>1. CASE StopWiMo \/ StopSetFinish \/ StopJoinsCapture
    <2>a. /\ ~Starting' /\ ui \notin {"publish", "uninit"} /\ ui' \notin {"publish", "uninit"}
          /\ UNCHANGED <<pc, ptr, life, service, un, unNet, started, stopped>>
          /\ hnd'["timer"] = hnd["timer"]
      BY <1>1 DEF StopWiMo, StopSetFinish, StopJoinsCapture, Join, Starting, Typed
    <2>1. OnlyOurs'
      BY <2>a DEF Tidy, OnlyOurs, Ours, Ended, Counts
    <2>2. Begins'
      BY <2>a DEF Begins
    <2>3. TimerOwn'
      BY <2>a DEF Tidy, TimerOwn, Ended, Deciding
    <2>4. Apart'
      BY <2>a DEF Tidy, Apart
    <2> QED
      BY <2>1, <2>2, <2>3, <2>4 DEF Tidy
  <1>2. CASE StopJoinsTimer
    <2>a. /\ ui = "joinTimer" /\ ui' = "uninit"
          /\ UNCHANGED <<pc, ptr, life, service, started, stopped>>
          /\ hnd["timer"] # NULL => Ended("timer", hnd["timer"])
      BY <1>2 DEF StopJoinsTimer, Join, Joined
    <2>b. \A s \in Sessions : Ended("timer", s) /\ un[s] = "none"
      <3>1. ASSUME NEW s \in Sessions PROVE Ended("timer", s)
        <4>1. s # NULL
          BY DEF NULL, Sessions
        <4> QED
          BY <4>1, <2>a DEF Tidy, TimerOwn
      <3> QED
        BY <3>1 DEF Tidy, TimerOwn, Ended
    <2>c. un[Caller] = "none"
      BY <2>a DEF Tidy, TimerOwn
    <2>d. /\ un'[Caller] = (IF ptr["network"] # NULL THEN "alive" ELSE "rest")
          /\ unNet'[Caller] = ptr["network"]
          /\ \A p \in Sessions : un'[p] = "none"
      BY <1>2, <1>0, <2>b DEF StopJoinsTimer, BeginUnInit, UnOK, Owners, Caller, Sessions
    <2>1. OnlyOurs'
      BY <2>a DEF Tidy, OnlyOurs, Ours, Ended, Counts
    <2>2. Begins'
      BY <2>a DEF Begins, Starting
    <2>3. TimerOwn'
      BY <2>a, <2>b, <2>d, <1>0 DEF TimerOwn, Ended, Deciding, PcOK, Places, Threads
    <2>4. Apart'
      <3>1. ptr["network"] # NULL => life["network"][ptr["network"]] = "alive"
        BY <2>b, <2>c DEF Tidy, Apart, Owners
      <3> QED
        BY <3>1, <2>a, <2>d DEF Apart, Owners
    <2> QED
      BY <2>1, <2>2, <2>3, <2>4 DEF Tidy
  <1> QED
    BY <1>1, <1>2 DEF Stop

\* UnInit keeps it; StopWiMo's leaves nothing.
LEMMA UnInitTidy ==
  ASSUME Typed, Safe, NetAlive, Tidy, NEW o \in Owners, UnInit(o) PROVE Tidy'
  <1>0. PcOK /\ UnOK
    BY DEF Typed
  <1>a. un[o] # "none"
    BY DEF UnInit, JoinCheckAlive, JoinNetworkThreads, DeleteNetwork, ForgetNetwork, DeleteRest,
           UnInitStep
  <1>b. ~Starting /\ \A p \in Owners : p # o => un[p] = "none"
    BY <1>a, OneUnInit
  <1>c. "network" \in Objects /\ Counts("network")
    BY DEF Objects, Counts
  <1> USE DEF objVars, netVars, hndVars, unVars, sessionVars, callVars, histVars, restVars, Call
  <1>1. CASE JoinCheckAlive(o) \/ JoinNetworkThreads(o)
    <2>a. /\ UNCHANGED <<pc, ptr, life, service, hnd, unNet, ui, started, stopped>>
          /\ un[o] \in {"alive", "handshake", "recv"}
          /\ un'[o] \in {"handshake", "recv", "free"}
          /\ \A p \in Owners : p # o => un'[p] = un[p]
      BY <1>1, <1>0 DEF JoinCheckAlive, JoinNetworkThreads, UnInitStep, UnOK
    <2>1. OnlyOurs'
      BY <2>a DEF Tidy, OnlyOurs, Ours, Ended, Counts
    <2>2. Begins'
      BY <2>a, <1>b DEF Begins, Starting
    <2>3. TimerOwn'
      BY <2>a DEF Tidy, TimerOwn, Ended, Deciding, Owners
    <2>4. Apart'
      BY <2>a, <1>b DEF Tidy, Apart
    <2> QED
      BY <2>1, <2>2, <2>3, <2>4 DEF Tidy
  <1>2. CASE DeleteNetwork(o)
    <2>a. /\ UNCHANGED <<pc, ptr, service, hnd, unNet, ui, started, stopped>>
          /\ un[o] = "free" /\ un'[o] = "null"
          /\ \A p \in Owners : p # o => un'[p] = un[p]
      BY <1>2, <1>0 DEF DeleteNetwork, UnInitStep, UnOK
    <2>b. /\ unNet[o] # NULL /\ ptr["network"] = unNet[o] /\ unNet[o] \in Sessions
      BY <2>a, <1>0 DEF Tidy, Apart, UnOK
    <2>c. /\ \A k \in Objects : k # "network" => life'[k] = life[k]
          /\ \A q \in Sessions : life'["network"][q] =
               IF q = unNet[o] THEN "deleted" ELSE life["network"][q]
      BY <1>2, <2>b DEF DeleteNetwork, Typed, Objects
    <2>1. OnlyOurs'
      BY <2>a, <2>c DEF Tidy, OnlyOurs, Ours, Ended, Counts
    <2>2. Begins'
      BY <2>a, <1>b DEF Begins, Starting
    <2>3. TimerOwn'
      <3>1. ASSUME NEW s \in Sessions, Deciding(s) PROVE FALSE
        <4>1. s = started /\ ui # "uninit" /\ un[s] = "none"
          <5>1. ~Ended("timer", s)
            BY <3>1, <1>0 DEF Ended, Deciding, PcOK, Places, Threads
          <5>2. pc["timer"][s] # "uninit"
            BY <3>1 DEF Deciding
          <5> QED
            BY <5>1, <5>2 DEF Tidy, OnlyOurs, Ours, TimerOwn
        <4>2. o = Caller \/ (o \in Sessions /\ un[o] # "none")
          BY <1>a DEF Owners
        <4>3. o # Caller
          BY <4>1, <1>a DEF Tidy, TimerOwn
        <4>4. pc["timer"][o] = "uninit"
          BY <4>2, <4>3 DEF Tidy, TimerOwn
        <4>5. o = started
          BY <4>2, <4>3, <4>4 DEF Tidy, OnlyOurs, Ours, Ended
        <4> QED
          BY <4>1, <4>5, <1>a
      <3>2. \A s \in Sessions : ~Deciding(s)'
        BY <3>1, <2>a DEF Deciding
      <3> QED
        BY <2>a, <3>2 DEF Tidy, TimerOwn, Ended, Owners
    <2>4. Apart'
      BY <2>a, <2>b, <2>c, <1>b DEF Apart
    <2> QED
      BY <2>1, <2>2, <2>3, <2>4 DEF Tidy
  <1>3. CASE ForgetNetwork(o)
    <2>a. /\ UNCHANGED <<pc, life, service, hnd, unNet, ui, started, stopped>>
          /\ un[o] = "null" /\ un'[o] = "rest"
          /\ \A p \in Owners : p # o => un'[p] = un[p]
          /\ ptr'["network"] = NULL /\ \A k \in Objects : k # "network" => ptr'[k] = ptr[k]
      BY <1>3, <1>0, <1>c DEF ForgetNetwork, UnInitStep, UnOK, Typed
    <2>b. \A s \in Sessions : life["network"][s] # "alive"
      <3>1. ptr["network"] = unNet[o] /\ life["network"][unNet[o]] = "deleted"
        BY <2>a DEF Tidy, Apart
      <3> QED
        BY <3>1, <1>b, <1>c DEF Tidy, OnlyOurs, Starting
    <2>1. OnlyOurs'
      BY <2>a, <2>b DEF Tidy, OnlyOurs, Ours, Ended, Counts
    <2>2. Begins'
      BY <2>a, <1>b DEF Begins, Starting
    <2>3. TimerOwn'
      <3>1. \A s \in Sessions : ~Deciding(s)
        BY <2>b DEF Tidy, TimerOwn
      <3> QED
        BY <2>a, <3>1 DEF Tidy, TimerOwn, Ended, Owners, Deciding
    <2>4. Apart'
      BY <2>a, <1>b DEF Apart
    <2> QED
      BY <2>1, <2>2, <2>3, <2>4 DEF Tidy
  <1>4. CASE DeleteRest(o)
    <2>a. /\ UNCHANGED <<hnd, unNet, started>>
          /\ un[o] = "rest" /\ \A p \in Owners : un'[p] = "none"
          /\ service' = FALSE
      BY <1>4, <1>0, <1>b DEF DeleteRest, UnInitStep, UnOK, StopService
    <2>b. \A k \in Objects :
            /\ ptr'[k] = IF k \in Freed THEN NULL ELSE ptr[k]
            /\ life'[k] = IF k \in Freed /\ ptr[k] # NULL
                          THEN [life[k] EXCEPT ![ptr[k]] = "deleted"] ELSE life[k]
      BY <1>4 DEF DeleteRest
    <2>c. "network" \notin Freed
      BY DEF Freed, Made
    <2>d. /\ ptr["network"] = NULL /\ ptr'["network"] = NULL
          /\ life'["network"] = life["network"]
      BY <2>a, <2>b, <2>c, <1>c DEF Tidy, Apart
    <2>e. \A s \in Sessions : life["network"][s] # "alive" /\ ~Deciding(s)
      <3>1. ASSUME NEW s \in Sessions PROVE life["network"][s] # "alive"
        <4>1. s # NULL
          BY DEF NULL, Sessions
        <4> QED
          BY <4>1, <2>d, <1>b, <1>c DEF Tidy, OnlyOurs, Starting
      <3> QED
        BY <3>1 DEF Tidy, TimerOwn
    <2>f. \A t \in {"handshake", "recv"}, s \in Sessions : Ended(t, s)
      BY <2>e DEF NetAlive
    <2>g. ASSUME NEW k \in Objects, Counts(k)
          PROVE  ptr'[k] = NULL /\ \A s \in Sessions : life'[k][s] # "alive"
      <3>1. CASE k = "network"
        BY <3>1, <2>d, <2>e
      <3>2. CASE k # "network"
        <4>1. ptr[k] # NULL => k \in Freed
          BY <2>g, <3>2 DEF Tidy, OnlyOurs, Freed, Counts
        <4>2. ASSUME NEW s \in Sessions PROVE life'[k][s] # "alive"
          <5>1. s # NULL
            BY DEF NULL, Sessions
          <5>2. life[k][s] = "alive" => ptr[k] = s
            BY <2>g, <3>2 DEF Tidy, OnlyOurs
          <5>3. life[k] \in [Sessions -> {"unborn", "alive", "deleted"}]
            BY DEF Typed
          <5> QED
            BY <4>1, <5>1, <5>2, <5>3, <2>b
        <4> QED
          BY <4>1, <4>2, <2>b
      <3> QED
        BY <3>1, <3>2
    <2>4. Apart'
      BY <2>a, <2>d DEF Apart
    <2>5. CASE o = Caller
      <3>a. ui = "uninit" /\ ui' = "idle" /\ stopped' = TRUE /\ UNCHANGED pc
        BY <1>4, <2>5 DEF DeleteRest
      <3>1. \A s \in Sessions : Ended("timer", s)
        BY <3>a DEF Tidy, TimerOwn
      <3>2. OnlyOurs'
        <4>1. \A t \in {"handshake", "recv", "timer"}, s \in Sessions : Ended(t, s)'
          BY <3>a, <3>1, <2>f DEF Ended
        <4> QED
          BY <4>1, <2>a, <2>g DEF OnlyOurs, Counts
      <3>3. Begins'
        BY <3>a DEF Begins, Starting
      <3>4. TimerOwn'
        <4>1. \A s \in Sessions : pc'["timer"][s] \in {"none", "done"}
          BY <3>a, <3>1, <1>0 DEF Ended, PcOK, Places, Threads
        <4> QED
          BY <4>1, <3>a, <2>a DEF TimerOwn, Ended, Deciding, Owners
      <3> QED
        BY <2>4, <3>2, <3>3, <3>4 DEF Tidy
    <2>6. CASE o # Caller
      <3>a. /\ o \in Sessions /\ Move("timer", o, "uninit", "done")
            /\ UNCHANGED <<ui, stopped>>
        BY <1>4, <2>6 DEF DeleteRest, Owners
      <3>b. /\ \A u \in Threads, q \in Sessions : u # "timer" \/ q # o => pc'[u][q] = pc[u][q]
            /\ pc'["timer"][o] = "done"
        BY <1>0, <3>a, MoveOthers DEF Threads
      <3>1. \A q \in Sessions : pc'["timer"][q] \in {"none", "done"}
        <4>1. ASSUME NEW q \in Sessions, q # o PROVE pc["timer"][q] \in {"none", "done"}
          <5>1. un[q] = "none" /\ ~Deciding(q)
            BY <4>1, <1>b, <2>e DEF Owners
          <5> QED
            BY <5>1 DEF Tidy, TimerOwn, Deciding
        <4> QED
          BY <4>1, <3>b DEF Threads
      <3>2. OnlyOurs'
        <4>1. \A t \in {"handshake", "recv", "timer"}, s \in Sessions : Ended(t, s)'
          BY <3>1, <3>b, <2>f DEF Ended, Threads
        <4> QED
          BY <4>1, <2>a, <2>g DEF OnlyOurs, Counts
      <3>3. Begins'
        BY <3>a, <1>b DEF Begins, Starting
      <3>4. TimerOwn'
        <4>1. ui # "uninit"
          BY <2>6, <1>b DEF Tidy, TimerOwn, Owners
        <4> QED
          BY <4>1, <3>1, <3>a, <2>a DEF TimerOwn, Ended, Deciding, Owners
      <3> QED
        BY <2>4, <3>2, <3>3, <3>4 DEF Tidy
    <2> QED
      BY <2>5, <2>6
  <1> QED
    BY <1>1, <1>2, <1>3, <1>4 DEF UnInit

\* So do the steps that create threads or take the timer into UnInit.
LEMMA CreatorTidy ==
  ASSUME Typed, Begun, Safe, Tidy, NEW s \in Sessions,
         TimerStartsCapture(s) \/ TimerSetsFinish(s) \/ HandshakeStartsCheckAlive(s) PROVE Tidy'
  <1>0. PcOK /\ UnOK
    BY DEF Typed
  <1>n. Starting => started \in Sessions /\ pc["timer"][started] = "none"
    BY DEF Begun, Starting, Tidy, Begins
  <1> USE DEF objVars, netVars, hndVars, unVars, sessionVars, callVars, histVars, restVars
  <1>1. CASE TimerStartsCapture(s)
    <2>a. /\ UNCHANGED <<ptr, life, service, un, unNet, ui, started, stopped>>
          /\ hnd'["timer"] = hnd["timer"] /\ pc["timer"][s] = "spawn"
      BY <1>1 DEF TimerStartsCapture, Typed
    <2>b. /\ pc'["handshake"] = pc["handshake"] /\ pc'["recv"] = pc["recv"]
          /\ pc'["timer"] = [pc["timer"] EXCEPT ![s] = "done"]
      BY <1>1 DEF TimerStartsCapture, Threads
    <2>c. pc["timer"] \in [Sessions -> Places["timer"]]
      BY <1>0 DEF PcOK, Threads
    <2>d. \A q \in Sessions : pc'["timer"][q] = IF q = s THEN "done" ELSE pc["timer"][q]
      BY <2>b, <2>c
    <2>1. OnlyOurs'
      <3>1. \A t \in {"handshake", "recv", "timer"}, q \in Sessions : (Ended(t, q) \/ Ours(q))'
        <4>1. \A t \in {"handshake", "recv", "timer"}, q \in Sessions :
                Ended(t, q) => Ended(t, q)'
          BY <2>b, <2>d DEF Ended
        <4> QED
          BY <4>1, <2>a DEF Tidy, OnlyOurs, Ours
      <3> QED
        BY <3>1, <2>a DEF Tidy, OnlyOurs, Ours, Counts
    <2>2. Begins'
      BY <2>a, <2>d, <1>n DEF Tidy, Begins, Starting
    <2>3. TimerOwn'
      BY <2>a, <2>d DEF Tidy, TimerOwn, Ended, Deciding
    <2>4. Apart'
      BY <2>a DEF Tidy, Apart
    <2> QED
      BY <2>1, <2>2, <2>3, <2>4 DEF Tidy
  <1>2. CASE TimerSetsFinish(s)
    <2>a. /\ UNCHANGED <<ptr, life, service, hnd, ui, started, stopped>>
          /\ Move("timer", s, "fail", "uninit") /\ pc["timer"][s] = "fail"
      BY <1>2 DEF TimerSetsFinish, Move
    <2>b. /\ \A u \in Threads, q \in Sessions : u # "timer" \/ q # s => pc'[u][q] = pc[u][q]
          /\ pc'["timer"][s] = "uninit"
      BY <1>0, <2>a, MoveOthers DEF Threads
    <2>c. /\ ptr["network"] = s /\ life["network"][s] = "alive" /\ s # NULL
          /\ ~Ended("timer", s)
      BY <2>a DEF Tidy, TimerOwn, Deciding, Ended, NULL, Sessions
    <2>d. /\ un'[s] = "alive" /\ unNet'[s] = s
          /\ \A p \in Owners : p # s => un'[p] = un[p] /\ unNet'[p] = unNet[p]
      BY <1>2, <1>0, <2>c DEF TimerSetsFinish, BeginUnInit, UnOK, Owners
    <2>1. OnlyOurs'
      <3>1. \A t \in {"handshake", "recv", "timer"}, q \in Sessions : (Ended(t, q) \/ Ours(q))'
        BY <2>a, <2>b, <2>c DEF Tidy, OnlyOurs, Ours, Ended, Threads
      <3> QED
        BY <3>1, <2>a DEF Tidy, OnlyOurs, Ours, Counts
    <2>2. Begins'
      BY <2>a, <2>b, <1>n DEF Tidy, Begins, Starting, Threads
    <2>3. TimerOwn'
      <3>1. un'[Caller] = un[Caller]
        BY <2>c, <2>d DEF Owners, Caller, NULL
      <3>2. hnd["timer"] = s /\ ui # "uninit"
        BY <2>c DEF Tidy, TimerOwn
      <3>3. ASSUME NEW q \in Sessions, q # s
            PROVE  un'[q] = un[q] /\ pc'["timer"][q] = pc["timer"][q]
        BY <3>3, <2>b, <2>d DEF Owners, Threads
      <3> QED
        BY <3>1, <3>2, <3>3, <2>a, <2>b, <2>c, <2>d DEF Tidy, TimerOwn, Ended, Deciding
    <2>4. Apart'
      BY <2>a, <2>c, <2>d DEF Tidy, Apart, Owners
    <2> QED
      BY <2>1, <2>2, <2>3, <2>4 DEF Tidy
  <1>3. CASE HandshakeStartsCheckAlive(s)
    <2>a. /\ UNCHANGED <<ptr, life, service, hnd, un, unNet, ui, started, stopped>>
          /\ pc["handshake"][s] = "spawn"
      BY <1>3 DEF HandshakeStartsCheckAlive
    <2>b. \A u \in Threads, q \in Sessions :
            (u \notin {"handshake", "alive"} \/ q # s) => pc'[u][q] = pc[u][q]
      <3>1. PICK at : TwoMoves("handshake", at, "alive", "test", s)
        BY <1>3 DEF HandshakeStartsCheckAlive, TwoMoves
      <3> QED
        BY <1>0, <3>1, TwoMovesOthers DEF Threads
    <2>1. OnlyOurs'
      <3>1. \A t \in {"handshake", "recv", "timer"}, q \in Sessions : (Ended(t, q) \/ Ours(q))'
        <4>1. ~Ended("handshake", s)
          BY <2>a DEF Ended
        <4> QED
          BY <4>1, <2>a, <2>b DEF Tidy, OnlyOurs, Ours, Ended, Threads
      <3> QED
        BY <3>1, <2>a DEF Tidy, OnlyOurs, Ours, Counts
    <2>2. Begins'
      BY <2>a, <2>b, <1>n DEF Tidy, Begins, Starting, Threads
    <2>3. TimerOwn'
      BY <2>a, <2>b DEF Tidy, TimerOwn, Ended, Deciding, Threads
    <2>4. Apart'
      BY <2>a DEF Tidy, Apart
    <2> QED
      BY <2>1, <2>2, <2>3, <2>4 DEF Tidy
  <1> QED
    BY <1>1, <1>2, <1>3

\* Sessions that overlap have done so for good, and do so if the last was not stopped.
LEMMA OverlapStays ==
  ASSUME Typed, [Next]_vars, ~overlapped' PROVE ~overlapped /\ (StartSetIniting => stopped)
  <1> USE DEF objVars, netVars, hndVars, unVars, sessionVars, callVars, histVars, restVars
  <1>1. CASE StartSetIniting
    BY <1>1, Zenon DEF StartSetIniting
  <1>2. CASE ~StartSetIniting
    <2>1. CASE Start \/ Stop
      BY <2>1, <1>2 DEF Start, Stop, StartWiMo, InitFails, InitObjects, InitNewNetwork,
         InitPublish, StartTimer, StartFailed, StopWiMo, StopSetFinish, StopJoinsCapture, StopJoinsTimer
    <2>2. ASSUME NEW o \in Owners, UnInit(o) PROVE ~overlapped
      BY <2>2 DEF UnInit, JoinCheckAlive, JoinNetworkThreads, DeleteNetwork, ForgetNetwork,
                  DeleteRest
    <2>3. ASSUME NEW s \in Sessions,
                 \/ Timer(s) \/ Handshake(s) \/ Recv(s) \/ DeviceEnds(s)
                 \/ CheckAlive(s) \/ CaptureEnds(s) \/ CaptureFails(s)
          PROVE  ~overlapped
      BY <2>3 DEF Timer, TimerPolls, TimerSetsReason, TimerChecks, TimerReportsSuccess,
                  TimerStartsCapture, TimerSetsFinish, Handshake, HandshakeTests,
                  HandshakeTurns, HandshakeStartsAfresh, HandshakeConnects,
                  HandshakeStartsCheckAlive, HandshakeStopsSending, HandshakeQuits, Recv,
                  RecvTests, RecvNothing, RecvSetsKicked, RecvSetsFinish, RecvSays,
                  RecvNotifies, DeviceEnds, RecvDisconnect, RecvDataLost, CheckAlive,
                  AliveTests, AliveHeard, AliveExpires, AliveSetsReason, CaptureEnds,
                  CaptureFails
    <2>4. CASE UNCHANGED vars
      <3>1. overlapped' = overlapped
        BY <2>4 DEF vars
      <3> QED
        BY <1>2, <3>1, Zenon
    <2> QED
      BY <1>2, <2>1, <2>2, <2>3, <2>4 DEF Next, Quiet
  <1> QED
    BY <1>1, <1>2

\* All of it is inductive while sessions do not overlap.
LEMMA TidyStep ==
  ASSUME IInv, NetAlive, ~overlapped => Tidy, [Next]_vars PROVE (~overlapped => Tidy)'
  <1>0. Typed /\ Begun /\ Safe
    BY TypesTyped DEF IInv
  <1> SUFFICES ASSUME ~overlapped' PROVE Tidy'
    OBVIOUS
  <1>a. Tidy /\ (StartSetIniting => stopped)
    BY <1>0, OverlapStays
  <1>1. CASE Start \/ Stop
    BY <1>1, <1>0, <1>a, StartTidy, StopTidy
  <1>2. ASSUME NEW o \in Owners, UnInit(o) PROVE Tidy'
    BY <1>2, <1>0, <1>a, UnInitTidy
  <1>3. ASSUME NEW s \in Sessions,
               \/ Timer(s) \/ Handshake(s) \/ Recv(s) \/ DeviceEnds(s)
               \/ CheckAlive(s) \/ CaptureEnds(s) \/ CaptureFails(s)
        PROVE  Tidy'
    <2>1. \/ Alone(s)
          \/ TimerStartsCapture(s) \/ TimerSetsFinish(s) \/ HandshakeStartsCheckAlive(s)
      BY <1>3 DEF Timer, Handshake, Recv, DeviceEnds, CheckAlive, Alone
    <2>2. CASE Alone(s)
      <3>1. TypeOK
        BY DEF IInv
      <3> QED
        BY <2>2, <3>1, <1>0, <1>a, AloneSteps, SteadyTidy
    <2> QED
      BY <2>1, <2>2, <1>0, <1>a, CreatorTidy
  <1>4. CASE UNCHANGED vars
    <2>1. /\ KeepsEnded /\ TimersStay /\ service' = service
          /\ UNCHANGED <<ptr, life, hnd, un, unNet, ui, started, stopped>>
      BY <1>4 DEF KeepsEnded, TimersStay, vars, objVars, hndVars, unVars, callVars, sessionVars
    <2> QED
      BY <2>1, <1>0, <1>a, SteadyTidy
  <1> QED
    BY <1>1, <1>2, <1>3, <1>4 DEF Next, Quiet


\* No network thread runs on an object that is not alive, and none exists before Init makes
\* it: the caller and UnInit ...
LEMMA CallerNetAlive ==
  ASSUME Typed, Begun, Safe, NetAlive, Fresh,
         Start \/ Stop \/ \E o \in Owners : UnInit(o)
  PROVE  NetAlive' /\ Fresh'
  <1>0. PcOK /\ UnOK
    BY DEF Typed
  <1> USE DEF objVars, netVars, hndVars, unVars, sessionVars, callVars, histVars, restVars, Call
  <1>1. CASE StartSetIniting
    <2>1. started + 1 \in Sessions /\ started + 1 > started
      BY <1>1 DEF StartSetIniting, Begun, Typed, Sessions
    <2>2. NetAlive'
      BY <1>1 DEF StartSetIniting, NetAlive, Ended
    <2>3. Fresh'
      BY <2>1, <1>1 DEF StartSetIniting, Fresh, Safe, NoThreadsYet, Threads
    <2> QED
      BY <2>2, <2>3
  <1>2. CASE InitObjects
    <2>1. /\ UNCHANGED <<pc, started>> /\ life'["network"] = life["network"]
          /\ ui = "objects" /\ ui' = "network"
      BY <1>2 DEF InitObjects, Made, Objects
    <2> QED
      BY <2>1 DEF NetAlive, Fresh, Ended
  <1>3. CASE InitNewNetwork
    <2>1. \A u \in Threads, q \in Sessions :
            (u \notin {"recv", "handshake"} \/ q # started) => pc'[u][q] = pc[u][q]
      <3>1. started \in Sessions
        BY <1>3 DEF InitNewNetwork, Begun
      <3>2. CASE pc' = [pc EXCEPT !["recv"][started] = "test", !["handshake"][started] = "test"]
        <4>1. TwoMoves("recv", "test", "handshake", "test", started)
          BY <3>2 DEF TwoMoves
        <4> QED
          BY <1>0, <3>1, <4>1, TwoMovesOthers DEF Threads
      <3>3. CASE UNCHANGED pc
        BY <3>3
      <3> QED
        BY <1>3, <3>2, <3>3 DEF InitNewNetwork
    <2>2. /\ life'["network"][started] = "alive"
          /\ \A q \in Sessions : q # started => life'["network"][q] = life["network"][q]
      BY <1>3 DEF InitNewNetwork, Typed, Objects, Begun
    <2> QED
      BY <2>1, <2>2, <1>3 DEF InitNewNetwork, NetAlive, Fresh, Ended, Threads
  <1>4. CASE StartTimer
    <2>1. \A u \in Threads, q \in Sessions : u # "timer" => pc'[u][q] = pc[u][q]
      BY <1>4, <1>0, MoveOthers DEF StartTimer, Begun, Threads
    <2> QED
      BY <2>1, <1>4 DEF StartTimer, NetAlive, Fresh, Ended, Threads
  <1>5. CASE \/ StartWiMo \/ InitFails \/ InitPublish \/ StartFailed \/ Stop
    <2>1. UNCHANGED <<pc, life>> /\ ui' \notin {"objects", "network"}
      BY <1>5 DEF StartWiMo, InitFails, InitPublish, StartFailed, Stop, StopWiMo,
                  StopSetFinish, StopJoinsCapture, StopJoinsTimer
    <2> QED
      BY <2>1 DEF NetAlive, Fresh, Ended
  <1>6. ASSUME NEW o \in Owners, UnInit(o) PROVE NetAlive' /\ Fresh'
    <2>1. \A u \in {"handshake", "recv"}, q \in Sessions : pc'[u][q] = pc[u][q]
      <3>1. CASE DeleteRest(o) /\ o # Caller
        <4>1. o \in Sessions /\ Move("timer", o, "uninit", "done")
          BY <3>1 DEF DeleteRest, Owners
        <4> QED
          BY <4>1, <1>0, MoveOthers DEF Threads
      <3>2. CASE ~(DeleteRest(o) /\ o # Caller)
        <4>1. UNCHANGED pc
          BY <1>6, <3>2 DEF UnInit, JoinCheckAlive, JoinNetworkThreads, DeleteNetwork,
                            ForgetNetwork, DeleteRest
        <4> QED
          BY <4>1
      <3> QED
        BY <3>1, <3>2
    <2>2. ui' = "idle" \/ UNCHANGED <<ui, started>>
      BY <1>6 DEF UnInit, JoinCheckAlive, JoinNetworkThreads, DeleteNetwork, ForgetNetwork,
                  DeleteRest
    <2>3. CASE DeleteNetwork(o)
      <3>1. Ended("handshake", unNet[o]) /\ Ended("recv", unNet[o])
        BY <2>3 DEF DeleteNetwork, UnInitStep, Safe, UnInitOrder
      <3>2. \A q \in Sessions : q # unNet[o] => life'["network"][q] = life["network"][q]
        BY <2>3 DEF DeleteNetwork, Typed, Objects
      <3> QED
        BY <2>1, <2>2, <3>1, <3>2 DEF NetAlive, Fresh, Ended, Begun
    <2>4. CASE ~DeleteNetwork(o)
      <3>1. life'["network"] = life["network"]
        BY <2>4, <1>6 DEF UnInit, JoinCheckAlive, JoinNetworkThreads, ForgetNetwork, DeleteRest,
                          Freed, Made, Objects
      <3> QED
        BY <2>1, <2>2, <3>1 DEF NetAlive, Fresh, Ended, Begun
    <2> QED
      BY <2>3, <2>4
  <1> QED
    BY <1>1, <1>2, <1>3, <1>4, <1>5, <1>6 DEF Start

\* ... and every thread.
LEMMA NetAliveStep ==
  ASSUME IInv, NetAlive, Fresh, [Next]_vars PROVE NetAlive' /\ Fresh'
  <1>0. Typed /\ Begun /\ Safe /\ PcOK
    BY TypesTyped DEF IInv, Typed
  <1>1. CASE Start \/ Stop \/ \E o \in Owners : UnInit(o)
    BY <1>1, <1>0, CallerNetAlive
  <1>2. ASSUME NEW s \in Sessions, Alone(s) PROVE NetAlive' /\ Fresh'
    <2>1. KeepsEnded /\ UNCHANGED <<life, ui, started>>
      BY <1>2, AloneSteps DEF IInv
    <2> QED
      BY <2>1, <1>0 DEF KeepsEnded, NetAlive, Fresh, Ended, Begun, Threads
  <1>3. ASSUME NEW s \in Sessions, TimerStartsCapture(s) \/ TimerSetsFinish(s)
        PROVE  NetAlive' /\ Fresh'
    <2>1. \A t \in {"handshake", "recv"}, q \in Sessions : pc'[t][q] = pc[t][q]
      <3>1. CASE TimerStartsCapture(s)
        BY <3>1 DEF TimerStartsCapture, Threads
      <3>2. CASE TimerSetsFinish(s)
        BY <3>2, <1>0, MoveOthers DEF TimerSetsFinish, Threads
      <3> QED
        BY <1>3, <3>1, <3>2
    <2>2. UNCHANGED <<life, ui, started>>
      BY <1>3 DEF TimerStartsCapture, TimerSetsFinish, objVars, callVars, sessionVars
    <2> QED
      BY <2>1, <2>2, <1>0 DEF NetAlive, Fresh, Ended, Begun
  <1>4. ASSUME NEW s \in Sessions, HandshakeStartsCheckAlive(s) PROVE NetAlive' /\ Fresh'
    <2>1. \A u \in Threads, q \in Sessions :
            (u \notin {"handshake", "alive"} \/ q # s) => pc'[u][q] = pc[u][q]
      <3>1. PICK at : TwoMoves("handshake", at, "alive", "test", s)
        BY <1>4 DEF HandshakeStartsCheckAlive, TwoMoves
      <3> QED
        BY <1>0, <3>1, TwoMovesOthers DEF Threads
    <2>2. pc["handshake"][s] = "spawn" /\ UNCHANGED <<life, ui, started>>
      BY <1>4 DEF HandshakeStartsCheckAlive, objVars, callVars, sessionVars
    <2> QED
      BY <2>1, <2>2, <1>0 DEF NetAlive, Fresh, Ended, Begun, Threads
  <1>5. CASE UNCHANGED vars
    BY <1>5 DEF vars, objVars, callVars, sessionVars, NetAlive, Fresh, Ended
  <1>6. ASSUME NEW s \in Sessions,
               \/ Timer(s) \/ Handshake(s) \/ Recv(s) \/ DeviceEnds(s)
               \/ CheckAlive(s) \/ CaptureEnds(s) \/ CaptureFails(s)
        PROVE  \/ Alone(s) \/ TimerStartsCapture(s) \/ TimerSetsFinish(s)
               \/ HandshakeStartsCheckAlive(s)
    BY <1>6 DEF Timer, Handshake, Recv, DeviceEnds, CheckAlive, Alone
  <1> QED
    BY <1>1, <1>2, <1>3, <1>4, <1>5, <1>6 DEF Next, Quiet

LInv == IInv /\ NetAlive /\ Fresh /\ (~overlapped => Tidy)

\* It holds before the first session.
LEMMA InitTidy == Init => NetAlive /\ Fresh /\ Tidy
  BY DEF Init, NetAlive, Fresh, Tidy, OnlyOurs, Begins, TimerOwn, Apart, Ended, Starting,
         Deciding, Ours, Objects, Owners, Threads, Sessions, Caller, NULL

\* The session invariant is inductive.
LEMMA Lives == Spec => []LInv
  <1>1. Init => LInv
    BY InitTyped, InitSafe, InitTidy DEF Init, IInv, Begun, LInv
  <1>2. LInv /\ [Next]_vars => LInv'
    <2> SUFFICES ASSUME LInv, [Next]_vars PROVE LInv'
      OBVIOUS
    <2>1. IInv'
      BY TypeStep, BegunStep, SafeStep DEF IInv, LInv
    <2>2. NetAlive' /\ Fresh' /\ (~overlapped => Tidy)'
      BY NetAliveStep, TidyStep DEF LInv
    <2> QED
      BY <2>1, <2>2 DEF LInv
  <1> QED
    BY <1>1, <1>2, PTL DEF Spec

\* When StopWiMo has run to its end and no sessions have overlapped, no handshake, receive or
\* timer thread and no object that UnInit knows of is left, Hisense's service is stopped, and
\* an alive thread, or a capture or load thread of the last session, is left only if its
\* handle was stored after the join had looked for it.
THEOREM StopCleansUp == Spec => []StopLeavesNothing
  <1>1. LInv => StopLeavesNothing
    <2> SUFFICES ASSUME LInv, stopped, ~overlapped
                 PROVE  /\ \A s \in Sessions :
                             /\ \A t \in {"handshake", "recv", "timer"} : Ended(t, s)
                             /\ Ended("alive", s) \/ aliveHnd[s]
                             /\ \A t \in {"video", "cpu"} :
                                  s = started => Ended(t, s) \/ hnd[t] = s
                        /\ \A k \in Objects : Counts(k) =>
                             ptr[k] = NULL /\ \A s \in Sessions : life[k][s] # "alive"
                        /\ ~service
      BY DEF StopLeavesNothing, Counts
    <2>1. OnlyOurs /\ NetworkThreads /\ CaptureThreads
      BY DEF LInv, IInv, Safe, Tidy
    <2>2. ~service
      BY <2>1, Zenon DEF OnlyOurs
    <2>3. \A s \in Sessions :
            /\ Ended("alive", s) \/ aliveHnd[s]
            /\ \A t \in {"video", "cpu"} : s = started => Ended(t, s) \/ hnd[t] = s
      BY <2>1 DEF NetworkThreads, CaptureThreads
    <2> QED
      BY <2>1, <2>2, <2>3 DEF OnlyOurs, Ours
  <1> QED
    BY <1>1, Lives, PTL

\* StopWiMo's UnInit and the one of a timer thread never take the same network object apart,
\* in whatever order StopWiMo, the timeout and the device end a session.
THEOREM OnlyOneDeletes == Spec => []OneDeletes
  <1>1. LInv => OneDeletes
    <2> SUFFICES ASSUME LInv, ~overlapped, NEW o \in Owners, NEW p \in Owners, NEW s \in Sessions,
                        TakesApart(o, s), TakesApart(p, s)
                 PROVE  o = p
      BY DEF OneDeletes
    <2>1. Typed /\ Tidy
      BY TypesTyped DEF LInv, IInv
    <2>2. un[o] # "none" /\ un[p] # "none"
      BY DEF TakesApart
    <2> QED
      BY <2>1, <2>2, OneUnInit
  <1> QED
    BY <1>1, Lives, PTL

\* The timer that sets the reason of a timeout or asks for the server's address, and the
\* receive thread that reads the reason, find the network object of their own session behind pCNetwork, alive, or no object.
THEOREM PointerAlwaysOwn == Spec => []PointerIsOwn
  <1>1. LInv => PointerIsOwn
    <2> SUFFICES ASSUME LInv, ~overlapped, NEW s \in Sessions
                 PROVE  /\ pc["timer"][s] \in {"late", "success"} =>
                             ptr["network"] = s /\ life["network"][s] = "alive"
                        /\ pc["recv"][s] = "notify" =>
                             \/ ptr["network"] = NULL
                             \/ ptr["network"] = s /\ life["network"][s] = "alive"
      BY DEF PointerIsOwn
    <2>1. OnlyOurs /\ TimerOwn /\ NetAlive
      BY DEF LInv, Tidy
    <2>2. "network" \in Objects /\ Counts("network")
      BY DEF Objects, Counts
    <2>3. pc["timer"][s] \in {"late", "success"} => Deciding(s)
      BY DEF Deciding
    <2>4. pc["recv"][s] = "notify" => ~Ended("recv", s)
      BY DEF Ended
    <2> QED
      BY <2>1, <2>2, <2>3, <2>4 DEF OnlyOurs, TimerOwn, NetAlive, Ours
  <1> QED
    BY <1>1, Lives, PTL

-----------------------------------------------------------------------------
(* What the application is told. *)

\* The handshake of session s has stored CONNECTING, and the thread is past it for good.
Conn(s) ==
  \/ pc["handshake"][s] = "spawn"
  \/ pc["handshake"][s] \in {"send", "done"} /\ pc["alive"][s] # "none"

\* Only a disconnect of its device sets the reason of a session to KICKED.
KickHasReason == \A s \in Sessions : reason[s] = "KICKED" => s \in kicked

\* Once the device has ended a connected session the receive loop is over but for a last
\* test of the status, and the reason can only become the timeout.
Kicks ==
  \A s \in Sessions :
    /\ s \in kicked =>
         /\ reason[s] \in {"KICKED", "TIMEOUT"} /\ pc["recv"][s] \notin {"recv", "kick"}
         /\ pc["recv"][s] = "test" => status = "FINISH"
    /\ s \in kicked \/ pc["recv"][s] = "kick" => Conn(s)
    /\ "KICKED" \in Told(s) => s \in kicked

\* The status, and the timer that has read it, say CONNECTING only of a connected session.
Connected ==
  /\ status = "CONNECTING" => started \in Sessions /\ Conn(started)
  /\ \A s \in Sessions : pc["timer"][s] = "success" \/ "SUCCESS" \in Told(s) => Conn(s)

Honest == Kicks /\ Connected

Codes == {"FAIL", "SUCCESS", "KICKED", "TIMEOUT"}

TalkTyped ==
  /\ status \in {"INITING", "CONNECTING", "FINISH"}
  /\ reason \in [Sessions -> {"ERROR", "TIMEOUT", "KICKED", "DATALOST"}]
  /\ callbacks \in [Sessions -> Seq(Codes)]
  /\ kicked \in SUBSET Sessions

\* They are among the types of TypeOK.
LEMMA TypesTalk == TypeOK => TalkTyped
  BY DEF TypeOK, TalkTyped, Codes

\* Telling a session a code adds that code to what it was told, and tells no other session.
LEMMA TellTold ==
  ASSUME callbacks \in [Sessions -> Seq(Codes)], NEW q \in Sessions, NEW code \in Codes,
         Tell(q, code), NEW s \in Sessions, NEW x, x \in Told(s)'
  PROVE  x \in Told(s) \/ (s = q /\ x = code)
  <1>1. PICK i \in DOMAIN callbacks'[s] : x = callbacks'[s][i]
    BY DEF Told
  <1>2. CASE s # q
    <2>1. callbacks'[s] = callbacks[s]
      BY <1>2 DEF Tell
    <2> QED
      BY <1>1, <2>1 DEF Told
  <1>3. CASE s = q
    <2>1. callbacks'[s] = Append(callbacks[s], code)
      BY <1>3 DEF Tell
    <2>2. callbacks[s] \in Seq(Codes)
      OBVIOUS
    <2>3. i \in 1..(Len(callbacks[s]) + 1)
      BY <1>1, <2>1, <2>2
    <2>4. CASE i = Len(callbacks[s]) + 1
      BY <1>1, <1>3, <2>1, <2>2, <2>4
    <2>5. CASE i # Len(callbacks[s]) + 1
      <3>1. i \in 1..Len(callbacks[s]) /\ Append(callbacks[s], code)[i] = callbacks[s][i]
        BY <2>2, <2>3, <2>5
      <3>2. i \in DOMAIN callbacks[s]
        BY <2>2, <3>1
      <3> QED
        BY <1>1, <2>1, <3>1, <3>2 DEF Told
    <2> QED
      BY <2>4, <2>5
  <1> QED
    BY <1>2, <1>3

\* A step of one thread that is not the handshake's leaves a connected session connected.
LEMMA OtherMoveConn ==
  ASSUME PcOK, NEW t \in Threads \ {"handshake"}, NEW s \in Sessions, NEW from, NEW to,
         Move(t, s, from, to), to # "none", NEW q \in Sessions, Conn(q)
  PROVE  Conn(q)'
  <1>1. /\ \A u \in Threads, p \in Sessions : u # t \/ p # s => pc'[u][p] = pc[u][p]
        /\ pc'[t][s] = to
    BY MoveOthers
  <1> QED
    BY <1>1 DEF Conn, Threads

\* What neither speaks, nor touches a reason, nor stores a status other than FINISH.
LEMMA QuietHonest ==
  ASSUME Honest, UNCHANGED <<reason, kicked, callbacks, started>>, status' \in {status, "FINISH"},
         \A s \in Sessions :
           /\ Conn(s) => Conn(s)'
           /\ pc'["recv"][s] = pc["recv"][s]
           /\ pc'["timer"][s] = "success" => pc["timer"][s] = "success"
  PROVE  Honest'
  <1>1. \A s : Told(s)' = Told(s)
    BY DEF Told
  <1>2. Kicks'
    BY <1>1 DEF Honest, Kicks
  <1>3. Connected'
    BY <1>1 DEF Honest, Connected
  <1> QED
    BY <1>2, <1>3 DEF Honest

\* The caller's thread is quiet but for StartFailed, which tells a failure.
LEMMA CallerHonest ==
  ASSUME Typed, TalkTyped, Begun, Safe, Fresh, Tidy, Honest, Start \/ Stop, StartSetIniting => stopped
  PROVE  Honest'
  <1>0. PcOK
    BY DEF Typed
  <1>n. Starting => started \in Sessions
    BY DEF Begun, Starting
  <1> USE DEF objVars, netVars, hndVars, unVars, sessionVars, callVars, histVars, restVars, Call
  <1>1. CASE StartSetIniting
    <2>1. /\ UNCHANGED <<pc, reason, kicked, callbacks>> /\ status' = "INITING" /\ stopped
      BY <1>1 DEF StartSetIniting
    <2>2. \A s \in Sessions : Ended("recv", s)
      BY <2>1 DEF Tidy, OnlyOurs, Ours
    <2>3. \A s \in Sessions : Told(s)' = Told(s) /\ (Conn(s)' <=> Conn(s))
      BY <2>1 DEF Told, Conn
    <2>4. Kicks'
      BY <2>1, <2>2, <2>3 DEF Honest, Kicks, Ended
    <2>5. Connected'
      BY <2>1, <2>3 DEF Honest, Connected
    <2> QED
      BY <2>4, <2>5 DEF Honest
  <1>2. CASE InitNewNetwork
    <2>a. /\ ui = "network" /\ started \in Sessions
          /\ UNCHANGED <<status, reason, kicked, callbacks, started>>
      BY <1>2, <1>n DEF InitNewNetwork, Starting
    <2>b. ~Conn(started)
      BY <2>a DEF Fresh, Conn
    <2>c. \A u \in Threads, q \in Sessions :
            (u \notin {"recv", "handshake"} \/ q # started) => pc'[u][q] = pc[u][q]
      <3>1. CASE pc' = [pc EXCEPT !["recv"][started] = "test", !["handshake"][started] = "test"]
        <4>1. TwoMoves("recv", "test", "handshake", "test", started)
          BY <3>1 DEF TwoMoves
        <4> QED
          BY <1>0, <2>a, <4>1, TwoMovesOthers DEF Threads
      <3>2. CASE UNCHANGED pc
        BY <3>2
      <3> QED
        BY <1>2, <3>1, <3>2 DEF InitNewNetwork
    <2>d. pc'["recv"][started] \in {"test", pc["recv"][started]}
      BY <1>2, <1>0, <2>a DEF InitNewNetwork, PcOK, Threads
    <2>1. \A s \in Sessions : Told(s)' = Told(s) /\ (Conn(s) => Conn(s)')
      BY <2>a, <2>b, <2>c DEF Told, Conn, Threads
    <2>2. Kicks'
      BY <2>a, <2>b, <2>c, <2>d, <2>1 DEF Honest, Kicks, Threads
    <2>3. Connected'
      BY <2>a, <2>c, <2>1 DEF Honest, Connected, Threads
    <2> QED
      BY <2>2, <2>3 DEF Honest
  <1>3. CASE StartFailed
    <2>1. /\ UNCHANGED <<pc, status, reason, kicked, started>> /\ started \in Sessions
          /\ Tell(started, StopCode) /\ ui = "failed"
      BY <1>3, <1>n DEF StartFailed, NotifyUIStop, Starting
    <2>2. StopCode = "FAIL"
      BY <2>1 DEF Tidy, Begins, Starting, StopCode, Objects, Counts
    <2>3. \A s \in Sessions : \A x : x \in Told(s)' => x \in Told(s) \/ x = "FAIL"
      BY <2>1, <2>2, TellTold DEF TalkTyped, Codes
    <2>4. \A s \in Sessions : Conn(s) <=> Conn(s)'
      BY <2>1 DEF Conn
    <2>5. Kicks'
      BY <2>1, <2>3, <2>4 DEF Honest, Kicks
    <2>6. Connected'
      BY <2>1, <2>3, <2>4 DEF Honest, Connected
    <2> QED
      BY <2>5, <2>6 DEF Honest
  <1>4. CASE StartTimer
    <2>1. /\ UNCHANGED <<status, reason, kicked, callbacks, started>> /\ started \in Sessions
          /\ Move("timer", started, "none", "poll")
      BY <1>4, <1>n DEF StartTimer, Starting
    <2>2. /\ \A u \in Threads, p \in Sessions :
               u # "timer" \/ p # started => pc'[u][p] = pc[u][p]
          /\ pc'["timer"][started] = "poll"
      BY <2>1, <1>0, MoveOthers DEF Threads
    <2> QED
      BY <2>1, <2>2, QuietHonest DEF Conn, Threads
  <1>5. CASE StartWiMo \/ InitFails \/ InitObjects \/ InitPublish \/ Stop
    <2>1. /\ UNCHANGED <<pc, reason, kicked, callbacks, started>>
          /\ status' \in {status, "FINISH"}
      BY <1>5 DEF StartWiMo, InitFails, InitObjects, InitPublish, Stop, StopWiMo,
                  StopSetFinish, StopJoinsCapture, StopJoinsTimer
    <2> QED
      BY <2>1, QuietHonest DEF Conn
  <1> QED
    BY <1>1, <1>2, <1>3, <1>4, <1>5 DEF Start

\* UnInit is quiet, and so are the steps that create threads.
LEMMA UnInitHonest ==
  ASSUME Typed, TalkTyped, Honest, NEW o \in Owners, UnInit(o) PROVE Honest'
  <1>1. UNCHANGED <<status, reason, kicked, callbacks>> /\ started' = started
    BY DEF UnInit, JoinCheckAlive, JoinNetworkThreads, DeleteNetwork, ForgetNetwork, DeleteRest,
           netVars, histVars, callVars, sessionVars
  <1>2. CASE DeleteRest(o) /\ o # Caller
    <2>1. o \in Sessions /\ Move("timer", o, "uninit", "done")
      BY <1>2 DEF DeleteRest, Owners
    <2>2. /\ \A u \in Threads, p \in Sessions : u # "timer" \/ p # o => pc'[u][p] = pc[u][p]
          /\ pc'["timer"][o] = "done"
      BY <2>1, MoveOthers DEF Threads, Typed
    <2> QED
      BY <1>1, <2>2, QuietHonest DEF Conn, Threads
  <1>3. CASE ~(DeleteRest(o) /\ o # Caller)
    <2>1. UNCHANGED pc
      BY <1>3 DEF UnInit, JoinCheckAlive, JoinNetworkThreads, DeleteNetwork, ForgetNetwork,
                  DeleteRest, callVars
    <2> QED
      BY <1>1, <2>1, QuietHonest DEF Conn
  <1> QED
    BY <1>2, <1>3

\* See UnInitHonest.
LEMMA CreatorHonest ==
  ASSUME Typed, TalkTyped, Honest, NEW s \in Sessions,
         TimerStartsCapture(s) \/ TimerSetsFinish(s) \/ HandshakeStartsCheckAlive(s)
  PROVE  Honest'
  <1>0. PcOK
    BY DEF Typed
  <1>1. UNCHANGED <<reason, kicked, callbacks, started>> /\ status' \in {status, "FINISH"}
    BY DEF TimerStartsCapture, TimerSetsFinish, HandshakeStartsCheckAlive, netVars, histVars,
           callVars, sessionVars
  <1>2. CASE TimerStartsCapture(s)
    <2>1. /\ \A u \in {"handshake", "recv", "alive"} : pc'[u] = pc[u]
          /\ pc'["timer"] = [pc["timer"] EXCEPT ![s] = "done"]
      BY <1>2 DEF TimerStartsCapture, Threads
    <2>2. pc["timer"] \in [Sessions -> Places["timer"]]
      BY <1>0 DEF PcOK, Threads
    <2>3. \A q \in Sessions : pc'["timer"][q] = "success" => pc["timer"][q] = "success"
      BY <2>1, <2>2
    <2> QED
      BY <1>1, <2>1, <2>3, QuietHonest DEF Conn
  <1>3. CASE TimerSetsFinish(s)
    <2>1. /\ \A u \in Threads, p \in Sessions : u # "timer" \/ p # s => pc'[u][p] = pc[u][p]
          /\ pc'["timer"][s] = "uninit"
      BY <1>0, <1>3, MoveOthers DEF TimerSetsFinish, Threads
    <2> QED
      BY <1>1, <2>1, QuietHonest DEF Conn, Threads
  <1>4. CASE HandshakeStartsCheckAlive(s)
    <2>1. PICK at \in {"send", "done"} : TwoMoves("handshake", at, "alive", "test", s)
      BY <1>4 DEF HandshakeStartsCheckAlive, TwoMoves
    <2>2. /\ \A v \in Threads, q \in Sessions :
               (v \notin {"handshake", "alive"} \/ q # s) => pc'[v][q] = pc[v][q]
          /\ pc'["handshake"][s] = at /\ pc'["alive"][s] = "test"
      BY <1>0, <2>1, TwoMovesOthers DEF Threads
    <2> QED
      BY <1>1, <2>1, <2>2, QuietHonest DEF Conn, Threads
  <1> QED
    BY <1>2, <1>3, <1>4

\* CheckConnectTimeoutThread reports the success of its own session only.
LEMMA TimerHonest ==
  ASSUME Typed, TalkTyped, Tidy, Honest, NEW s \in Sessions,
         \/ TimerPolls(s) \/ TimerSetsReason(s) \/ TimerChecks(s) \/ TimerReportsSuccess(s)
  PROVE  Honest'
  <1>0. PcOK
    BY DEF Typed
  <1>a. PICK from, to : Move("timer", s, from, to) /\ from # "none" /\ to # "none"
    BY DEF TimerPolls, TimerSetsReason, TimerChecks, TimerReportsSuccess
  <1>b. /\ \A u \in Threads, p \in Sessions : u # "timer" \/ p # s => pc'[u][p] = pc[u][p]
        /\ pc'["timer"][s] = to
    BY <1>a, <1>0, MoveOthers DEF Threads
  <1>c. \A q \in Sessions : Conn(q) <=> Conn(q)'
    BY <1>b DEF Conn, Threads
  <1>d. UNCHANGED <<status, kicked, started>>
    BY DEF TimerPolls, TimerSetsReason, TimerChecks, TimerReportsSuccess, netVars, histVars,
           restVars, callVars, sessionVars
  <1>1. CASE TimerPolls(s)
    <2>1. UNCHANGED <<reason, callbacks>> /\ pc'["timer"][s] # "success"
      <3>1. Move("timer", s, "poll", "check") \/ Move("timer", s, "poll", "late")
        BY <1>1 DEF TimerPolls
      <3> QED
        BY <3>1, <1>1, <1>0, MoveOthers DEF TimerPolls, netVars, histVars, Threads
    <2> QED
      BY <2>1, <1>b, <1>c, <1>d, QuietHonest DEF Threads
  <1>2. CASE TimerSetsReason(s)
    <2>1. /\ UNCHANGED callbacks /\ pc'["timer"][s] # "success"
          /\ \A q \in Sessions : reason'[q] \in {reason[q], "TIMEOUT"}
      BY <1>2, <1>0, MoveOthers DEF TimerSetsReason, TalkTyped, histVars, Threads
    <2>2. \A q : Told(q)' = Told(q)
      BY <2>1 DEF Told
    <2>3. Kicks'
      BY <2>1, <2>2, <1>b, <1>c, <1>d DEF Honest, Kicks, Threads
    <2>4. Connected'
      BY <2>1, <2>2, <1>b, <1>c, <1>d DEF Honest, Connected, Threads
    <2> QED
      BY <2>3, <2>4 DEF Honest
  <1>3. CASE TimerChecks(s)
    <2>1. UNCHANGED <<reason, callbacks>>
      BY <1>3 DEF TimerChecks, netVars, histVars
    <2>2. ~Ended("timer", s)
      BY <1>3 DEF TimerChecks, Move, Ended
    <2>3. s = started
      BY <2>2 DEF Tidy, OnlyOurs, Ours
    <2>4. pc'["timer"][s] = "success" => Conn(s)
      <3>1. pc'["timer"][s] = "success" => status = "CONNECTING"
        BY <1>3, <1>0, MoveOthers DEF TimerChecks, Threads
      <3> QED
        BY <3>1, <2>3 DEF Honest, Connected
    <2>5. \A q : Told(q)' = Told(q)
      BY <2>1 DEF Told
    <2>6. Kicks'
      BY <2>1, <2>5, <1>b, <1>c, <1>d DEF Honest, Kicks, Threads
    <2>7. Connected'
      BY <2>1, <2>4, <2>5, <1>b, <1>c, <1>d DEF Honest, Connected, Threads
    <2> QED
      BY <2>6, <2>7 DEF Honest
  <1>4. CASE TimerReportsSuccess(s)
    <2>1. /\ UNCHANGED reason /\ Tell(s, "SUCCESS") /\ pc["timer"][s] = "success"
          /\ pc'["timer"][s] # "success"
      <3>1. pc'["timer"][s] = "spawn"
        BY <1>4, <1>0, MoveOthers DEF TimerReportsSuccess, Threads
      <3> QED
        BY <3>1, <1>4 DEF TimerReportsSuccess, netVars, Move
    <2>2. \A q \in Sessions : \A x : x \in Told(q)' => x \in Told(q) \/ (q = s /\ x = "SUCCESS")
      BY <2>1, TellTold DEF TalkTyped, Codes
    <2>3. Kicks'
      BY <2>1, <2>2, <1>b, <1>c, <1>d DEF Honest, Kicks, Threads
    <2>4. Connected'
      BY <2>1, <2>2, <1>b, <1>c, <1>d DEF Honest, Connected, Threads
    <2> QED
      BY <2>3, <2>4 DEF Honest
  <1> QED
    BY <1>1, <1>2, <1>3, <1>4

\* HandshakeThread stores CONNECTING for its own session, and a reason only before.
LEMMA HandshakeHonest ==
  ASSUME Typed, TalkTyped, Tidy, Honest, NEW s \in Sessions,
         \/ HandshakeTests(s) \/ HandshakeTurns(s) \/ HandshakeStartsAfresh(s)
         \/ HandshakeConnects(s) \/ HandshakeStopsSending(s) \/ HandshakeQuits(s)
  PROVE  Honest'
  <1>0. PcOK
    BY DEF Typed
  <1>a. PICK from, to :
          from \in {"test", "turn", "set", "send", "quit"} /\ Move("handshake", s, from, to)
    BY DEF HandshakeTests, HandshakeTurns, HandshakeStartsAfresh, HandshakeConnects,
           HandshakeStopsSending, HandshakeQuits
  <1>b. /\ \A u \in Threads, p \in Sessions : u # "handshake" \/ p # s => pc'[u][p] = pc[u][p]
        /\ pc'["handshake"][s] = to /\ pc["handshake"][s] = from
    <2>1. pc["handshake"][s] = from
      BY <1>a DEF Move
    <2> QED
      BY <2>1, <1>a, <1>0, MoveOthers DEF Threads
  <1>c. \A q \in Sessions : Conn(q) => Conn(q)'
    <2>1. from = "send" => to = "done"
      <3>1. from = "send" => HandshakeStopsSending(s)
        BY <1>b DEF HandshakeTests, HandshakeTurns, HandshakeStartsAfresh, HandshakeConnects,
           HandshakeStopsSending, HandshakeQuits, Move
      <3>2. HandshakeStopsSending(s) => pc'["handshake"][s] = "done"
        BY <1>0, MoveOthers DEF HandshakeStopsSending, Threads
      <3> QED
        BY <3>1, <3>2, <1>b
    <2> QED
      BY <2>1, <1>a, <1>b DEF Conn, Threads
  <1>d. UNCHANGED <<callbacks, kicked, started>>
    BY DEF HandshakeTests, HandshakeTurns, HandshakeStartsAfresh, HandshakeConnects,
           HandshakeStopsSending, HandshakeQuits, histVars, restVars, callVars, sessionVars
  <1>e. \A q : Told(q)' = Told(q)
    BY <1>d DEF Told
  <1>1. CASE HandshakeTests(s) \/ HandshakeTurns(s) \/ HandshakeStopsSending(s) \/ HandshakeQuits(s)
    <2>1. UNCHANGED reason /\ status' \in {status, "FINISH"}
      BY <1>1 DEF HandshakeTests, HandshakeTurns, HandshakeStopsSending, HandshakeQuits, netVars
    <2> QED
      BY <2>1, <1>b, <1>c, <1>d, QuietHonest DEF Threads
  <1>2. CASE HandshakeStartsAfresh(s)
    <2>1. /\ UNCHANGED status /\ pc["handshake"][s] = "turn"
          /\ \A q \in Sessions : q # s => reason'[q] = reason[q]
      BY <1>2 DEF HandshakeStartsAfresh, Move, TalkTyped
    <2>2. ~Conn(s)
      BY <2>1 DEF Conn
    <2>3. Kicks'
      BY <2>1, <2>2, <1>b, <1>c, <1>d, <1>e DEF Honest, Kicks, Threads
    <2>4. Connected'
      BY <2>1, <1>b, <1>c, <1>d, <1>e DEF Honest, Connected, Threads
    <2> QED
      BY <2>3, <2>4 DEF Honest
  <1>3. CASE HandshakeConnects(s)
    <2>1. /\ UNCHANGED reason /\ status' = "CONNECTING" /\ pc["handshake"][s] = "set"
          /\ pc'["handshake"][s] = "spawn"
      <3>1. pc'["handshake"][s] = "spawn"
        BY <1>3, <1>0, MoveOthers DEF HandshakeConnects, Threads
      <3> QED
        BY <3>1, <1>3 DEF HandshakeConnects, Move, netVars
    <2>2. ~Conn(s) /\ Conn(s)' /\ s = started
      BY <2>1 DEF Conn, Tidy, OnlyOurs, Ours, Ended
    <2>3. \A q \in Sessions : q # s => Ended("recv", q)
      BY <2>2 DEF Tidy, OnlyOurs, Ours
    <2>4. Kicks'
      BY <2>1, <2>2, <2>3, <1>b, <1>c, <1>d, <1>e DEF Honest, Kicks, Ended, Threads
    <2>5. Connected'
      BY <2>1, <2>2, <1>b, <1>c, <1>d, <1>e DEF Honest, Connected, Threads
    <2> QED
      BY <2>4, <2>5 DEF Honest
  <1> QED
    BY <1>1, <1>2, <1>3

\* NetworkRecvThread: a disconnect counts while connected, ends its loop, and is what the
\* application is told of the session.
LEMMA RecvHonest ==
  ASSUME Typed, TalkTyped, Tidy, KickHasReason, Honest, NEW s \in Sessions, Recv(s) \/ DeviceEnds(s)
  PROVE  Honest'
  <1>0. PcOK
    BY DEF Typed
  <1> USE DEF RecvTests, RecvNothing, RecvSetsKicked, RecvSetsFinish, RecvSays, RecvNotifies,
              RecvDisconnect, RecvDataLost
  <1>a. PICK from, to :
          from \in {"test", "recv", "kick", "finish", "say", "notify"} /\ Move("recv", s, from, to)
    BY DEF Recv, DeviceEnds
  <1>b. /\ \A u \in Threads, p \in Sessions : u # "recv" \/ p # s => pc'[u][p] = pc[u][p]
        /\ pc'["recv"][s] = to
    BY <1>a, <1>0, MoveOthers DEF Threads
  <1>f. pc["recv"][s] = from /\ s = started
    <2>1. pc["recv"][s] = from
      BY <1>a DEF Move
    <2> QED
      BY <2>1, <1>a DEF Tidy, OnlyOurs, Ours, Ended
  <1>c. \A q \in Sessions : Conn(q) <=> Conn(q)'
    BY <1>b DEF Conn, Threads
  <1>d. UNCHANGED started
    BY DEF Recv, DeviceEnds, restVars, callVars, sessionVars
  <1>1. CASE RecvTests(s) \/ RecvNothing(s) \/ RecvSetsFinish(s) \/ RecvSays(s)
    <2>1. UNCHANGED <<reason, callbacks, kicked>> /\ status' \in {status, "FINISH"}
      BY <1>1 DEF netVars, histVars
    <2>2. \A q : Told(q)' = Told(q)
      BY <2>1 DEF Told
    <2>3. to # "kick" /\ (from = "test" /\ status = "FINISH" => to # "recv")
      BY <1>1, <1>b, <1>f, <1>0, MoveOthers DEF Threads
    <2>4. \/ from = "recv"
          \/ (to = "recv" => from = "test") /\ (to = "test" => status' = "FINISH")
      <3>1. CASE RecvTests(s)
        BY <3>1, <1>b, <1>f, <1>0, MovePlaces DEF Threads
      <3>2. CASE RecvNothing(s)
        <4>1. pc["recv"][s] = "recv"
          BY <3>2 DEF Move
        <4> QED
          BY <4>1, <1>f
      <3>3. CASE RecvSetsFinish(s)
        BY <3>3, <1>b, <1>f, <1>0, MovePlaces DEF Threads
      <3>4. CASE RecvSays(s)
        BY <3>4, <1>b, <1>f, <1>0, MovePlaces DEF Threads
      <3> QED
        BY <1>1, <3>1, <3>2, <3>3, <3>4
    <2>5. Kicks'
      BY <2>1, <2>2, <2>3, <2>4, <1>b, <1>c, <1>f DEF Honest, Kicks, Threads
    <2>6. Connected'
      BY <2>1, <2>2, <1>b, <1>c, <1>d DEF Honest, Connected, Threads
    <2> QED
      BY <2>5, <2>6 DEF Honest
  <1>2. CASE RecvDisconnect(s)
    <2>1. UNCHANGED <<status, reason, callbacks, kicked>> /\ status = "CONNECTING"
      BY <1>2 DEF netVars, histVars
    <2>2. to = "kick" /\ from = "recv"
      BY <1>2, <1>b, <1>f, <1>0, MovePlaces DEF Threads
    <2>3. Conn(s)
      BY <2>1, <1>f DEF Honest, Connected
    <2>4. \A q : Told(q)' = Told(q)
      BY <2>1 DEF Told
    <2>5. Kicks'
      BY <2>1, <2>2, <2>3, <2>4, <1>b, <1>c, <1>f DEF Honest, Kicks, Threads
    <2>6. Connected'
      BY <2>1, <2>4, <1>b, <1>c, <1>d DEF Honest, Connected, Threads
    <2> QED
      BY <2>5, <2>6 DEF Honest
  <1>3. CASE RecvSetsKicked(s)
    <2>1. /\ UNCHANGED <<status, callbacks>> /\ kicked' = kicked \cup {s}
          /\ reason'[s] = "KICKED" /\ \A q \in Sessions : q # s => reason'[q] = reason[q]
      BY <1>3 DEF TalkTyped
    <2>2. to = "finish" /\ from = "kick"
      BY <1>3, <1>b, <1>f, <1>0, MovePlaces DEF Threads
    <2>3. \A q : Told(q)' = Told(q)
      BY <2>1 DEF Told
    <2>4. Kicks'
      BY <2>1, <2>2, <2>3, <1>b, <1>c, <1>f DEF Honest, Kicks, Threads
    <2>5. Connected'
      BY <2>1, <2>3, <1>b, <1>c, <1>d DEF Honest, Connected, Threads
    <2> QED
      BY <2>4, <2>5 DEF Honest
  <1>4. CASE RecvDataLost(s)
    <2>1. /\ UNCHANGED <<status, callbacks, kicked>>
          /\ \A q \in Sessions : q # s => reason'[q] = reason[q]
      BY <1>4 DEF TalkTyped, histVars
    <2>2. to = "finish" /\ from = "recv"
      BY <1>4, <1>b, <1>f, <1>0, MovePlaces DEF Threads
    <2>3. \A q : Told(q)' = Told(q)
      BY <2>1 DEF Told
    <2>4. Kicks'
      BY <2>1, <2>2, <2>3, <1>b, <1>c, <1>f DEF Honest, Kicks, Threads
    <2>5. Connected'
      BY <2>1, <2>3, <1>b, <1>c, <1>d DEF Honest, Connected, Threads
    <2> QED
      BY <2>4, <2>5 DEF Honest
  <1>5. CASE RecvNotifies(s)
    <2>1. UNCHANGED <<status, reason, kicked>> /\ Tell(s, StopCode)
      BY <1>5 DEF netVars, NotifyUIStop
    <2>2. to = "done"
      BY <1>5, <1>b, <1>0, MoveOthers DEF Threads
    <2>3. StopCode \in {"FAIL", "KICKED", "TIMEOUT"}
      BY StopCodeTyped
    <2>4. StopCode = "KICKED" => s \in kicked
      <3>1. SUFFICES ASSUME StopCode = "KICKED" PROVE s \in kicked
        OBVIOUS
      <3>2. ptr["network"] # NULL /\ reason[ptr["network"]] = "KICKED"
        BY <3>1 DEF StopCode
      <3>3. ptr["network"] = started
        BY <3>2 DEF Tidy, OnlyOurs, Ours, Objects, Counts
      <3> QED
        BY <3>2, <3>3, <1>f DEF KickHasReason
    <2>5. \A q \in Sessions : \A x : x \in Told(q)' => x \in Told(q) \/ (q = s /\ x = StopCode)
      BY <2>1, <2>3, TellTold DEF TalkTyped, Codes
    <2>6. Kicks'
      BY <2>1, <2>2, <2>4, <2>5, <1>b, <1>c DEF Honest, Kicks, Threads
    <2>7. Connected'
      BY <2>1, <2>3, <2>5, <1>b, <1>c, <1>d DEF Honest, Connected, Threads
    <2> QED
      BY <2>6, <2>7 DEF Honest
  <1> QED
    BY <1>1, <1>2, <1>3, <1>4, <1>5 DEF Recv, DeviceEnds

\* The other threads end the status, or set the reason of a timeout, and tell nothing.
LEMMA WatcherHonest ==
  ASSUME Typed, TalkTyped, Honest, NEW s \in Sessions,
         CheckAlive(s) \/ CaptureEnds(s) \/ CaptureFails(s)
  PROVE  Honest'
  <1>0. PcOK
    BY DEF Typed
  <1> USE DEF AliveTests, AliveHeard, AliveExpires, AliveSetsReason, CaptureEnds, CaptureFails
  <1>a. PICK t, from, to :
          t \in {"alive", "video", "cpu"} /\ Move(t, s, from, to) /\ to # "none"
    BY DEF CheckAlive
  <1>b. \A u \in Threads, p \in Sessions : u # t \/ p # s => pc'[u][p] = pc[u][p]
    BY <1>a, <1>0, MoveOthers DEF Threads
  <1>c. \A q \in Sessions : Conn(q) => Conn(q)'
    BY <1>a, <1>0, OtherMoveConn DEF Threads
  <1>d. UNCHANGED <<callbacks, kicked, started>> /\ status' \in {status, "FINISH"}
    BY DEF CheckAlive, histVars, restVars, callVars, sessionVars
  <1>e. \A q \in Sessions : reason'[q] \in {reason[q], "TIMEOUT"}
    BY DEF CheckAlive, netVars, TalkTyped
  <1>1. \A q : Told(q)' = Told(q)
    BY <1>d DEF Told
  <1>2. Kicks'
    BY <1>1, <1>a, <1>b, <1>c, <1>d, <1>e DEF Honest, Kicks, Threads
  <1>3. Connected'
    BY <1>1, <1>a, <1>b, <1>c, <1>d DEF Honest, Connected, Threads
  <1> QED
    BY <1>2, <1>3 DEF Honest

\* Only RecvSetsKicked stores KICKED.
LEMMA KickHasReasonStep ==
  ASSUME TalkTyped, KickHasReason, [Next]_vars PROVE KickHasReason'
  <1> USE DEF netVars, histVars, objVars, restVars
  <1>1. ASSUME NEW s \in Sessions, RecvSetsKicked(s) PROVE KickHasReason'
    BY <1>1 DEF RecvSetsKicked, KickHasReason, TalkTyped
  <1>2. ASSUME NEW s \in Sessions,
               \/ Timer(s) \/ Handshake(s) \/ (Recv(s) /\ ~RecvSetsKicked(s)) \/ DeviceEnds(s)
               \/ CheckAlive(s) \/ CaptureEnds(s) \/ CaptureFails(s)
        PROVE  KickHasReason'
    <2>1. /\ kicked' = kicked
          /\ \A q \in Sessions : reason'[q] \in {reason[q], "TIMEOUT", "ERROR", "DATALOST"}
      BY <1>2 DEF Timer, TimerPolls, TimerSetsReason, TimerChecks, TimerReportsSuccess,
                  TimerStartsCapture, TimerSetsFinish, Handshake, HandshakeTests,
                  HandshakeTurns, HandshakeStartsAfresh, HandshakeConnects,
                  HandshakeStartsCheckAlive, HandshakeStopsSending, HandshakeQuits, Recv,
                  RecvTests, RecvNothing, RecvSetsFinish, RecvSays,
                  RecvNotifies, DeviceEnds, RecvDisconnect, RecvDataLost, CheckAlive,
                  AliveTests, AliveHeard, AliveExpires, AliveSetsReason, CaptureEnds,
                  CaptureFails, TalkTyped
    <2> QED
      BY <2>1 DEF KickHasReason
  <1>3. CASE Start \/ Stop \/ (\E o \in Owners : UnInit(o)) \/ UNCHANGED vars
    <2>1. UNCHANGED <<reason, kicked>>
      BY <1>3 DEF Start, Stop, StartWiMo, StartSetIniting, InitFails, InitObjects, InitNewNetwork,
         InitPublish, StartTimer, StartFailed, StopWiMo, StopSetFinish, StopJoinsCapture,
         StopJoinsTimer, UnInit, JoinCheckAlive, JoinNetworkThreads, DeleteNetwork,
         ForgetNetwork, DeleteRest, vars
    <2> QED
      BY <2>1 DEF KickHasReason
  <1> QED
    BY <1>1, <1>2, <1>3 DEF Next, Quiet

\* What the application is told is inductive, while sessions do not overlap.
LEMMA HonestStep ==
  ASSUME LInv, KickHasReason, ~overlapped => Honest, [Next]_vars PROVE (~overlapped => Honest)'
  <1>0. Typed /\ TalkTyped /\ Begun /\ Safe /\ Fresh
    BY TypesTyped, TypesTalk DEF LInv, IInv
  <1> SUFFICES ASSUME ~overlapped' PROVE Honest'
    OBVIOUS
  <1>a. Tidy /\ Honest /\ (StartSetIniting => stopped)
    BY <1>0, OverlapStays DEF LInv
  <1>1. CASE Start \/ Stop
    BY <1>1, <1>0, <1>a, CallerHonest
  <1>2. ASSUME NEW o \in Owners, UnInit(o) PROVE Honest'
    BY <1>2, <1>0, <1>a, UnInitHonest
  <1>3. ASSUME NEW s \in Sessions, Timer(s) \/ Handshake(s) PROVE Honest'
    BY <1>3, <1>0, <1>a, TimerHonest, HandshakeHonest, CreatorHonest DEF Timer, Handshake
  <1>4. ASSUME NEW s \in Sessions,
               Recv(s) \/ DeviceEnds(s) \/ CheckAlive(s) \/ CaptureEnds(s) \/ CaptureFails(s)
        PROVE  Honest'
    BY <1>4, <1>0, <1>a, RecvHonest, WatcherHonest
  <1>5. CASE UNCHANGED vars
    <2>1. UNCHANGED <<pc, status, reason, kicked, callbacks, started>>
      BY <1>5 DEF vars, netVars, histVars, callVars, sessionVars
    <2> QED
      BY <2>1, <1>a, QuietHonest DEF Conn
  <1> QED
    BY <1>1, <1>2, <1>3, <1>4, <1>5 DEF Next, Quiet

TInv == LInv /\ KickHasReason /\ (~overlapped => Honest)

\* No session was told anything at first.
LEMMA InitHonest == Init => KickHasReason /\ Honest
  <1> SUFFICES ASSUME Init PROVE KickHasReason /\ Honest
    OBVIOUS
  <1>1. \A s \in Sessions : Told(s) = {}
    BY DEF Init, Told
  <1> QED
    BY <1>1 DEF Init, KickHasReason, Honest, Kicks, Connected, Threads

\* The invariant about what is told is inductive.
LEMMA Tells == Spec => []TInv
  <1>1. Init => TInv
    BY InitTyped, InitSafe, InitTidy, InitHonest DEF Init, IInv, Begun, LInv, TInv
  <1>2. TInv /\ [Next]_vars => TInv'
    <2> SUFFICES ASSUME TInv, [Next]_vars PROVE TInv'
      OBVIOUS
    <2>1. IInv'
      BY TypeStep, BegunStep, SafeStep DEF IInv, LInv, TInv
    <2>2. NetAlive' /\ Fresh' /\ (~overlapped => Tidy)'
      BY NetAliveStep, TidyStep DEF LInv, TInv
    <2>3. KickHasReason'
      BY TypesTalk, KickHasReasonStep DEF LInv, IInv, TInv
    <2>4. (~overlapped => Honest)'
      BY HonestStep DEF TInv
    <2> QED
      BY <2>1, <2>2, <2>3, <2>4 DEF LInv, TInv
  <1> QED
    BY <1>1, <1>2, PTL DEF Spec

\* SUCCESS is told only of a session whose own handshake stored CONNECTING, although the
\* status is shared and a handshake may store CONNECTING over a FINISH.
THEOREM SuccessTrue == Spec => []SuccessIsOfTheSession
  <1>1. TInv => SuccessIsOfTheSession
    BY DEF TInv, Honest, Connected, Conn, SuccessIsOfTheSession
  <1> QED
    BY <1>1, Tells, PTL

\* A device's disconnect is never reported as a failure once pCNetwork is stored, and nothing
\* else is reported as one, whichever other thread sets a reason at the same time.
THEOREM KickAlwaysReported == Spec => []KickIsReported
  <1>1. TInv => KickIsReported
    <2> SUFFICES ASSUME TInv, ~overlapped, NEW s \in Sessions
                 PROVE  /\ (s \in kicked /\ pc["recv"][s] = "notify" /\ ptr["network"] = s)
                             => StopCode # "FAIL"
                        /\ "KICKED" \in Told(s) => s \in kicked
      BY DEF KickIsReported
    <2>1. Kicks
      BY DEF TInv, Honest
    <2>2. s # NULL
      BY DEF NULL, Sessions
    <2> QED
      BY <2>1, <2>2 DEF Kicks, StopCode
  <1> QED
    BY <1>1, Tells, PTL

=============================================================================
