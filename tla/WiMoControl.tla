---------------------------- MODULE WiMoControl ----------------------------
(***************************************************************************)
(* The life of a mirroring session in libciwimo: CWiMoControl's StartWiMo, *)
(* StopWiMo, UnInit and CheckConnectTimeoutThread, and the threads of the  *)
(* CWiMoNetwork object they create and destroy (HandshakeThread,           *)
(* NetworkRecvThread, CheckAliveAndResponseReportThread), with the capture *)
(* thread of CWiMoVideo and the load thread of CCPUControl.  They share    *)
(* the int statusWiMo, which no lock protects: every read and every write  *)
(* of it is a step of its own.                                             *)
(*                                                                         *)
(* The step counter of the handshake (IOCtrlStep) is left to WiMoHandshake *)
(* and is here a choice between "not there yet", "done" and "failed"; the  *)
(* threads of CWiMoAudio are left to LiveDataBuffer.                       *)
(***************************************************************************)
EXTENDS Integers, Sequences

CONSTANTS
  MaxSessions,   \* bound: how often StartWiMo gets as far as Init
  Method,        \* iCaptureMethod: a transport stream, the caller's JPEGs, Hisense,
                 \* another capture loop of CWiMoVideo, the frame buffer, or none
  Audio,         \* iAudioCapMethod: none, ZTE's mixer, or one of the others
  Events         \* bound: what the device and the system may do to a session

ASSUME MaxSessionsAssumption == MaxSessions \in Nat \ {0}
ASSUME MethodAssumption == Method \in {"TS", "HW", "HS", "SW", "FB", "ERROR"}
ASSUME AudioAssumption == Audio \in {"NONE", "ZTE", "SW"}
ASSUME EventsAssumption ==
  Events \subseteq {"nosocket", "late", "quit", "kicked", "datalost", "silent", "capture"}

Sessions == 1..MaxSessions
NOTHING == 256                 \* no byte has been sent
NULL == 0                      \* the null pointer and the null thread handle
Caller == 0                    \* the application thread that calls Start and Stop
Owners == {Caller} \cup Sessions  \* who runs UnInit: the caller, or the timer of a session
Objects == {"network", "video", "cpu", "audio"}
Threads == {"handshake", "recv", "alive", "timer", "video", "cpu"}

VARIABLES
  status,    \* statusWiMo
  ptr,       \* pCNetwork, pCVideo, pCPUControl, pCAudio: the session whose object it is
  life,      \* of each session's objects
  service,   \* iHSHandle = 0: Hisense's capture service runs
  reason,    \* iDisconnectReason of each network object
  runFirstTime, \* HandshakeThread has not yet got an answer
  pc,        \* the place of each session's threads
  hnd,       \* checkTimoutThread_hnd, LoopVideoThread_hnd, checkCPUUtilization_hnd
  aliveHnd,  \* CheckAliveResponseReportThread_hnd of each network object is set
  un,        \* progress of UnInit in each owner
  unNet,     \* the network object an UnInit in progress deletes
  ui,        \* the caller's place in StartWiMo or StopWiMo
  started,   \* how many sessions StartWiMo has begun
  said,      \* history: the byte Disconnect_reason last sent to each session's device
  callbacks, \* history: the codes each session passed to javaCallback
  kicked,    \* history: the sessions a device disconnected
  stopped,   \* history: StopWiMo has cleaned up and nothing was started since
  overlapped, \* history: a session was started without that
  overwritten \* history: SetStatusWiMo(CONNECTING) replaced a FINISH

objVars  == <<ptr, life, service>>
netVars  == <<reason, runFirstTime>>
hndVars  == <<hnd, aliveHnd>>
unVars   == <<un, unNet>>
sessionVars == <<started, stopped, overlapped>>
callVars == <<ui, sessionVars>>
histVars == <<said, callbacks, kicked, overwritten>>
vars == <<status, objVars, netVars, pc, hndVars, unVars, callVars, histVars>>
\* What the threads of the network object leave alone, but for creating a thread.
restVars == <<objVars, hndVars, unVars, callVars>>

Places ==
  [handshake |-> {"none", "test", "turn", "set", "spawn", "send", "quit", "done"},
   recv      |-> {"none", "test", "recv", "kick", "finish", "say", "notify", "done"},
   alive     |-> {"none", "test", "watch", "late", "expired", "done"},
   timer     |-> {"none", "poll", "late", "check", "success", "spawn", "fail", "uninit",
                  "done"},
   video     |-> {"none", "loop", "done"},
   cpu       |-> {"none", "loop", "done"}]

TypeOK ==
  /\ status \in {"INITING", "CONNECTING", "FINISH"}
  /\ ptr \in [Objects -> Sessions \cup {NULL}]
  /\ life \in [Objects -> [Sessions -> {"unborn", "alive", "deleted"}]]
  /\ service \in BOOLEAN
  /\ reason \in [Sessions -> {"ERROR", "TIMEOUT", "KICKED", "DATALOST"}]
  /\ runFirstTime \in [Sessions -> BOOLEAN]
  /\ DOMAIN pc = Threads
  /\ \A t \in Threads : pc[t] \in [Sessions -> Places[t]]
  /\ hnd \in [{"timer", "video", "cpu"} -> Sessions \cup {NULL}]
  /\ aliveHnd \in [Sessions -> BOOLEAN]
  /\ un \in [Owners -> {"none", "alive", "handshake", "recv", "free", "null", "rest"}]
  /\ unNet \in [Owners -> Sessions \cup {NULL}]
  /\ ui \in {"idle", "begin", "objects", "network", "publish", "timer", "failed", "stop",
             "joinCpu", "joinVideo", "joinTimer", "uninit"}
  /\ started \in 0..MaxSessions
  /\ said \in [Sessions -> {NOTHING} \cup 0..255]
  /\ callbacks \in [Sessions -> Seq({"FAIL", "SUCCESS", "KICKED", "TIMEOUT"})]
  /\ kicked \in SUBSET Sessions
  /\ stopped \in BOOLEAN /\ overlapped \in BOOLEAN /\ overwritten \in BOOLEAN

Init ==
  /\ status = "FINISH"
  /\ ptr = [k \in Objects |-> NULL]
  /\ life = [k \in Objects |-> [s \in Sessions |-> "unborn"]]
  /\ service = FALSE
  /\ reason = [s \in Sessions |-> "ERROR"]
  /\ runFirstTime = [s \in Sessions |-> TRUE]
  /\ pc = [t \in Threads |-> [s \in Sessions |-> "none"]]
  /\ hnd = [t \in {"timer", "video", "cpu"} |-> NULL]
  /\ aliveHnd = [s \in Sessions |-> FALSE]
  /\ un = [o \in Owners |-> "none"] /\ unNet = [o \in Owners |-> NULL]
  /\ ui = "idle" /\ started = 0 /\ stopped = TRUE /\ overlapped = FALSE
  /\ said = [s \in Sessions |-> NOTHING] /\ callbacks = [s \in Sessions |-> <<>>]
  /\ kicked = {} /\ overwritten = FALSE

Ended(t, s) == pc[t][s] \in {"none", "expired", "done"}

\* Mutant: threads are detached, pthread_join comes back at once.
JoinedDetached(t, s) == TRUE
\* pthread_join has come back.
Joined(t, s) == Ended(t, s)

Move(t, s, from, to) == pc[t][s] = from /\ pc' = [pc EXCEPT ![t][s] = to]

Call(from, to) == ui = from /\ ui' = to
-----------------------------------------------------------------------------
(* StartWiMo and Init, on the caller's thread. *)

\* The objects Init creates beside the network object ...
Made ==
  (IF Audio # "NONE" /\ Method # "TS" THEN {"audio"} ELSE {}) \cup
  (IF Method = "FB" THEN {"cpu"} ELSE {}) \cup
  (IF Method \notin {"TS", "HW"} THEN {"video"} ELSE {})
\* ... and those UnInit deletes: its list of audio methods is shorter.
Freed == Made \ (IF Audio = "ZTE" THEN {"audio"} ELSE {})

\* StartWiMo returns at once while a session is on its way or running.
StartWiMo ==
  /\ Call("idle", "begin")
  /\ status = "FINISH" /\ started < MaxSessions
  /\ UNCHANGED <<status, objVars, netVars, pc, hndVars, unVars, sessionVars, histVars>>

\* INITING is stored whatever the status has become since the test.
StartSetIniting ==
  /\ Call("begin", "objects")
  /\ status' = "INITING"
  /\ started' = started + 1
  /\ stopped' = FALSE
  /\ overlapped' = (overlapped \/ ~stopped)
  /\ UNCHANGED <<objVars, netVars, pc, hndVars, unVars, histVars>>

\* Init gives up when Hisense's capture service refuses to start, and without a method.
InitFails ==
  /\ Method \in {"HS", "ERROR"}
  /\ Call("objects", "failed")
  /\ status' = "FINISH"
  /\ UNCHANGED <<objVars, netVars, pc, hndVars, unVars, sessionVars, histVars>>

InitObjects ==
  /\ Method # "ERROR"
  /\ Call("objects", "network")
  /\ service' = (Method = "HS")
  /\ ptr' = [k \in Objects |-> IF k \in Made THEN started ELSE ptr[k]]
  /\ life' = [k \in Objects |->
                IF k \in Made THEN [life[k] EXCEPT ![started] = "alive"] ELSE life[k]]
  /\ UNCHANGED <<status, netVars, pc, hndVars, unVars, sessionVars, histVars>>

\* The constructor of CWiMoNetwork runs InitNet, which starts both threads before
\* "new" has returned.  Without an address or a socket InitNet fails, the threads
\* do not exist, and the constructor ignores it.
InitNewNetwork ==
  /\ Call("network", "publish")
  /\ life' = [life EXCEPT !["network"][started] = "alive"]
  /\ \/ pc' = [pc EXCEPT !["recv"][started] = "test", !["handshake"][started] = "test"]
     \/ "nosocket" \in Events /\ UNCHANGED pc
  /\ UNCHANGED <<status, ptr, service, netVars, hndVars, unVars, sessionVars, histVars>>

InitPublish ==
  /\ Call("publish", "timer")
  /\ ptr' = [ptr EXCEPT !["network"] = started]
  /\ UNCHANGED <<status, life, service, netVars, pc, hndVars, unVars, sessionVars, histVars>>

StartTimer ==
  /\ Call("timer", "idle")
  /\ Move("timer", started, "none", "poll")
  /\ hnd' = [hnd EXCEPT !["timer"] = started]
  /\ UNCHANGED <<status, objVars, netVars, aliveHnd, unVars, sessionVars, histVars>>

-----------------------------------------------------------------------------
(* NotifyUIStop, and UnInit, which the caller or a timer thread runs. *)

\* Mutant: only the timeout is told apart.
StopCodeTimeoutOnly ==
  LET n == ptr["network"] IN IF n # NULL /\ reason[n] = "TIMEOUT" THEN "TIMEOUT" ELSE "FAIL"
\* What NotifyUIStop tells the application, from the object pCNetwork points to.
StopCode ==
  LET n == ptr["network"]
  IN  IF n # NULL /\ reason[n] \in {"KICKED", "TIMEOUT"} THEN reason[n] ELSE "FAIL"

Tell(s, code) == callbacks' = [callbacks EXCEPT ![s] = Append(@, code)]

\* SendDisconnectCmd: the reason's number, through htons into a field of one byte.
Number == [ERROR |-> 255, TIMEOUT |-> 0, KICKED |-> 1, DATALOST |-> 2]
Htons(x) == ((x % 256) * 256) + ((x \div 256) % 256)
\* Mutant: the field takes all of what htons returns.
SendDisconnectCmdWide(s, r) == said' = [said EXCEPT ![s] = Htons(Number[r])]
SendDisconnectCmd(s, r) == said' = [said EXCEPT ![s] = Htons(Number[r]) % 256]

\* Mutant: the capture service is left running.
StopServiceNot == UNCHANGED service
\* Stop_V, if Start_II had succeeded.
StopService == service' = FALSE

NotifyUIStop(s) == Tell(s, StopCode) /\ StopService

\* Entering UnInit: "if(pCNetwork) delete pCNetwork", or straight to the other objects.
BeginUnInit(o) ==
  /\ unNet' = [unNet EXCEPT ![o] = ptr["network"]]
  /\ un' = [un EXCEPT ![o] = IF ptr["network"] # NULL THEN "alive" ELSE "rest"]

UnInitStep(o, from, to) == un[o] = from /\ un' = [un EXCEPT ![o] = to]

\* UnInitNet joins the alive thread only if its handle is set when it looks.
JoinCheckAlive(o) ==
  /\ UnInitStep(o, "alive", "handshake")
  /\ aliveHnd[unNet[o]] => Joined("alive", unNet[o])
  /\ aliveHnd' = [aliveHnd EXCEPT ![unNet[o]] = FALSE]
  /\ UNCHANGED <<status, objVars, netVars, pc, hnd, unNet, callVars, histVars>>

JoinNetworkThreads(o) ==
  /\ \/ UnInitStep(o, "handshake", "recv") /\ Joined("handshake", unNet[o])
     \/ UnInitStep(o, "recv", "free") /\ Joined("recv", unNet[o])
  /\ UNCHANGED <<status, objVars, netVars, pc, hndVars, unNet, callVars, histVars>>

DeleteNetwork(o) ==
  /\ UnInitStep(o, "free", "null")
  /\ life' = [life EXCEPT !["network"][unNet[o]] = "deleted"]
  /\ UNCHANGED <<status, ptr, service, netVars, pc, hndVars, unNet, callVars, histVars>>

\* Mutant: the pointer keeps its value.
ForgetNetworkNot(o) ==
  /\ UnInitStep(o, "null", "rest")
  /\ UNCHANGED <<status, objVars, netVars, pc, hndVars, unNet, callVars, histVars>>
ForgetNetwork(o) ==
  /\ UnInitStep(o, "null", "rest")
  /\ ptr' = [ptr EXCEPT !["network"] = NULL]
  /\ UNCHANGED <<status, life, service, netVars, pc, hndVars, unNet, callVars, histVars>>

\* The last part of UnInit; StartWiMo or StopWiMo then returns, or the timer thread ends.
DeleteRest(o) ==
  /\ UnInitStep(o, "rest", "none")
  /\ ptr' = [k \in Objects |-> IF k \in Freed THEN NULL ELSE ptr[k]]
  /\ life' = [k \in Objects |->
                IF k \in Freed /\ ptr[k] # NULL
                THEN [life[k] EXCEPT ![ptr[k]] = "deleted"] ELSE life[k]]
  /\ StopService
  /\ IF o = Caller
     THEN /\ Call("uninit", "idle") /\ stopped' = TRUE
          /\ UNCHANGED <<pc, started, overlapped>>
     ELSE Move("timer", o, "uninit", "done") /\ UNCHANGED callVars
  /\ UNCHANGED <<status, netVars, hndVars, unNet, histVars>>

UnInit(o) ==
  \/ JoinCheckAlive(o) \/ JoinNetworkThreads(o)
  \/ DeleteNetwork(o) \/ ForgetNetwork(o) \/ DeleteRest(o)

\* INIT_FAILED_JUMP: the caller reports the failure and cleans up.
StartFailed ==
  /\ Call("failed", "uninit")
  /\ NotifyUIStop(started)
  /\ BeginUnInit(Caller)
  /\ UNCHANGED <<status, ptr, life, netVars, pc, hndVars, sessionVars, said,
                 kicked, overwritten>>

-----------------------------------------------------------------------------
(* StopWiMo, on the caller's thread.  It returns at once when status is FINISH. *)

StopWiMo ==
  /\ Call("idle", "stop")
  /\ status # "FINISH"
  /\ UNCHANGED <<status, objVars, netVars, pc, hndVars, unVars, sessionVars, histVars>>

\* Mutant: the joins start before the threads are told to end.
StopSetFinishNot ==
  /\ Call("stop", IF Method = "TS" THEN "joinTimer" ELSE "joinCpu")
  /\ UNCHANGED <<status, objVars, netVars, pc, hndVars, unVars, sessionVars, histVars>>
StopSetFinish ==
  /\ Call("stop", IF Method = "TS" THEN "joinTimer" ELSE "joinCpu")
  /\ status' = "FINISH"
  /\ UNCHANGED <<objVars, netVars, pc, hndVars, unVars, sessionVars, histVars>>

\* Mutant: the handle is forgotten without a join.
JoinForgotten(t) == hnd' = [hnd EXCEPT ![t] = NULL]
\* pthread_join, for a thread whose handle is set.
Join(t) == (hnd[t] # NULL => Joined(t, hnd[t])) /\ hnd' = [hnd EXCEPT ![t] = NULL]

StopJoinsCapture ==
  /\ \/ Call("joinCpu", "joinVideo") /\ Join("cpu")
     \/ Call("joinVideo", "joinTimer") /\ Join("video")
  /\ UNCHANGED <<status, objVars, netVars, pc, aliveHnd, unVars, sessionVars, histVars>>

StopJoinsTimer ==
  /\ Call("joinTimer", "uninit") /\ Join("timer")
  /\ BeginUnInit(Caller)
  /\ UNCHANGED <<status, objVars, netVars, pc, aliveHnd, sessionVars, histVars>>

-----------------------------------------------------------------------------
(* CheckConnectTimeoutThread of session s. *)

\* Mutant: the time is not looked at.
TimerPollsForever(s) ==
  /\ Move("timer", s, "poll", "check") /\ status # "INITING"
  /\ UNCHANGED <<status, netVars, restVars, histVars>>
\* The loop ends when the status has left INITING, or NumTimeOut has passed.
TimerPolls(s) ==
  /\ \/ Move("timer", s, "poll", "check") /\ status # "INITING"
     \/ "late" \in Events /\ Move("timer", s, "poll", "late") /\ status = "INITING"
  /\ UNCHANGED <<status, netVars, restVars, histVars>>

\* pCNetwork->SetDisconnectReason(DISCONNECT_TIMEOUT), whatever pCNetwork is by now.
TimerSetsReason(s) ==
  /\ Move("timer", s, "late", "check")
  /\ ptr["network"] # NULL
  /\ reason' = [reason EXCEPT ![ptr["network"]] = "TIMEOUT"]
  /\ UNCHANGED <<status, runFirstTime, restVars, histVars>>

TimerChecks(s) ==
  /\ Move("timer", s, "check", IF status = "CONNECTING" THEN "success" ELSE "fail")
  /\ UNCHANGED <<status, netVars, restVars, histVars>>

\* The callback of a transport stream also carries pCNetwork->GetServerIpAddr().
TimerReportsSuccess(s) ==
  /\ Move("timer", s, "success", "spawn")
  /\ Tell(s, "SUCCESS")
  /\ UNCHANGED <<status, netVars, restVars, said, kicked, overwritten>>

\* The capture threads of the objects that are there.
TimerStartsCapture(s) ==
  LET new == {t \in {"video", "cpu"} \cap Made : ptr[t] # NULL}
  IN  /\ pc["timer"][s] = "spawn"
      /\ pc' = [t \in Threads |->
                  IF t = "timer" THEN [pc[t] EXCEPT ![s] = "done"]
                  ELSE IF t \in new THEN [pc[t] EXCEPT ![ptr[t]] = "loop"] ELSE pc[t]]
      /\ hnd' = [t \in DOMAIN hnd |-> IF t \in new THEN ptr[t] ELSE hnd[t]]
      /\ UNCHANGED <<status, objVars, netVars, aliveHnd, unVars, callVars, histVars>>

\* Not connected: FINISH, then UnInit from this thread, without telling the application.
TimerSetsFinish(s) ==
  /\ Move("timer", s, "fail", "uninit")
  /\ status' = "FINISH"
  /\ BeginUnInit(s)
  /\ UNCHANGED <<objVars, netVars, hndVars, callVars, histVars>>

Timer(s) ==
  \/ TimerPolls(s) \/ TimerSetsReason(s) \/ TimerChecks(s)
  \/ TimerReportsSuccess(s) \/ TimerStartsCapture(s) \/ TimerSetsFinish(s)

-----------------------------------------------------------------------------
(* HandshakeThread of network object s. *)

HandshakeTests(s) ==
  /\ Move("handshake", s, "test", IF status = "INITING" THEN "turn" ELSE "done")
  /\ UNCHANGED <<status, netVars, restVars, histVars>>

\* One turn of the loop: another step of the handshake, the last one, or a failure.
HandshakeTurns(s) ==
  /\ \E to \in {"test", "set"} \cup (Events \cap {"quit"}) : Move("handshake", s, "turn", to)
  /\ UNCHANGED <<status, netVars, restVars, histVars>>

\* The first answer is met with a disconnect command, and the reason starts afresh.
HandshakeStartsAfresh(s) ==
  /\ Move("handshake", s, "turn", "test")
  /\ runFirstTime[s]
  /\ runFirstTime' = [runFirstTime EXCEPT ![s] = FALSE]
  /\ reason' = [reason EXCEPT ![s] = "ERROR"]
  /\ SendDisconnectCmd(s, "ERROR")
  /\ UNCHANGED <<status, restVars, callbacks, kicked, overwritten>>

\* IOCtrlStep is 11: CONNECTING is stored whatever the status has become since the test.
HandshakeConnects(s) ==
  /\ Move("handshake", s, "set", "spawn")
  /\ overwritten' = (overwritten \/ status = "FINISH")
  /\ status' = "CONNECTING"
  /\ UNCHANGED <<netVars, restVars, said, callbacks, kicked>>

HandshakeStartsCheckAlive(s) ==
  /\ pc["handshake"][s] = "spawn"
  /\ pc' = [pc EXCEPT !["handshake"][s] = IF Method = "TS" THEN "done" ELSE "send",
                      !["alive"][s] = "test"]
  /\ aliveHnd' = [aliveHnd EXCEPT ![s] = TRUE]
  /\ UNCHANGED <<status, objVars, netVars, hnd, unVars, callVars, histVars>>

\* SendJPGVideo sends frames until the status is FINISH.
HandshakeStopsSending(s) ==
  /\ Move("handshake", s, "send", "done")
  /\ status = "FINISH"
  /\ UNCHANGED <<status, netVars, restVars, histVars>>

HandshakeQuits(s) ==
  /\ Move("handshake", s, "quit", "done")
  /\ status' = "FINISH"
  /\ UNCHANGED <<netVars, restVars, histVars>>

Handshake(s) ==
  \/ HandshakeTests(s) \/ HandshakeTurns(s) \/ HandshakeStartsAfresh(s)
  \/ HandshakeConnects(s) \/ HandshakeStartsCheckAlive(s) \/ HandshakeStopsSending(s)
  \/ HandshakeQuits(s)

-----------------------------------------------------------------------------
(* NetworkRecvThread of network object s. *)

RecvTests(s) ==
  /\ Move("recv", s, "test", IF status = "FINISH" THEN "say" ELSE "recv")
  /\ UNCHANGED <<status, netVars, restVars, histVars>>

\* Mutant: the socket has no SO_RCVTIMEO.
RecvBlocks(s) == Move("recv", s, "recv", "recv") /\ UNCHANGED <<status, netVars, restVars, histVars>>
\* Nothing for half a second, or a packet that does not touch the shared state here.
RecvNothing(s) ==
  /\ Move("recv", s, "recv", "test")
  /\ UNCHANGED <<status, netVars, restVars, histVars>>

\* OPCODE_TF6x0_DISCONNECTING counts only while connected ...
RecvDisconnect(s) ==
  /\ "kicked" \in Events /\ Move("recv", s, "recv", "kick")
  /\ status = "CONNECTING"
  /\ UNCHANGED <<status, netVars, restVars, histVars>>

\* ... and then sets the reason, before the status.
RecvSetsKicked(s) ==
  /\ Move("recv", s, "kick", "finish")
  /\ reason' = [reason EXCEPT ![s] = "KICKED"]
  /\ kicked' = kicked \cup {s}
  /\ UNCHANGED <<status, runFirstTime, restVars, said, callbacks, overwritten>>

\* The fifth OPCODE_TF6x0_DATALOST_REPORT without an alive report in between.
RecvDataLost(s) ==
  /\ "datalost" \in Events /\ Move("recv", s, "recv", "finish")
  /\ reason' = [reason EXCEPT ![s] = "DATALOST"]
  /\ UNCHANGED <<status, runFirstTime, restVars, histVars>>

RecvSetsFinish(s) ==
  /\ Move("recv", s, "finish", "test")
  /\ status' = "FINISH"
  /\ UNCHANGED <<netVars, restVars, histVars>>

\* The loop is over: the device is told, and then the application.
RecvSays(s) ==
  /\ Move("recv", s, "say", "notify")
  /\ SendDisconnectCmd(s, reason[s])
  /\ UNCHANGED <<status, netVars, restVars, callbacks, kicked, overwritten>>

RecvNotifies(s) ==
  /\ Move("recv", s, "notify", "done")
  /\ NotifyUIStop(s)
  /\ UNCHANGED <<status, ptr, life, netVars, hndVars, unVars, callVars, said, kicked,
                 overwritten>>

Recv(s) ==
  \/ RecvTests(s) \/ RecvNothing(s) \/ RecvSetsKicked(s)
  \/ RecvSetsFinish(s) \/ RecvSays(s) \/ RecvNotifies(s)

\* What the device sends, and need not.
DeviceEnds(s) == RecvDisconnect(s) \/ RecvDataLost(s)

-----------------------------------------------------------------------------
(* CheckAliveAndResponseReportThread of network object s. *)

AliveTests(s) ==
  /\ Move("alive", s, "test", IF status = "CONNECTING" THEN "watch" ELSE "done")
  /\ UNCHANGED <<status, netVars, restVars, histVars>>

\* An alive report arrived in the last NumTimeOut: reports are sent and the loop goes on.
AliveHeard(s) ==
  /\ Move("alive", s, "watch", "test")
  /\ UNCHANGED <<status, netVars, restVars, histVars>>

\* The device has been silent: first the status ...
AliveExpires(s) ==
  /\ "silent" \in Events /\ Move("alive", s, "watch", "late")
  /\ status' = "FINISH"
  /\ UNCHANGED <<netVars, restVars, histVars>>

\* ... and then the reason.
AliveSetsReason(s) ==
  /\ Move("alive", s, "late", "expired")
  /\ reason' = [reason EXCEPT ![s] = "TIMEOUT"]
  /\ UNCHANGED <<status, runFirstTime, restVars, histVars>>

CheckAlive(s) ==
  AliveTests(s) \/ AliveHeard(s) \/ AliveExpires(s) \/ AliveSetsReason(s)

-----------------------------------------------------------------------------
(* LoopThread of CWiMoVideo runs while CONNECTING, LoopCheckCPUUtilization of
   CCPUControl until FINISH; an error in either ends the session. *)

CaptureEnds(s) ==
  /\ \/ Move("video", s, "loop", "done") /\ status # "CONNECTING"
     \/ Move("cpu", s, "loop", "done") /\ status = "FINISH"
  /\ UNCHANGED <<status, netVars, restVars, histVars>>

CaptureFails(s) ==
  /\ "capture" \in Events /\ \E t \in {"video", "cpu"} : Move(t, s, "loop", "done")
  /\ status' = "FINISH"
  /\ UNCHANGED <<netVars, restVars, histVars>>

-----------------------------------------------------------------------------
Start == \/ StartWiMo \/ StartSetIniting \/ InitFails \/ InitObjects
         \/ InitNewNetwork \/ InitPublish \/ StartTimer \/ StartFailed
Stop == StopWiMo \/ StopSetFinish \/ StopJoinsCapture \/ StopJoinsTimer

\* Every thread has ended and the application, which need not, can start no session.
Quiet ==
  /\ ui = "idle"
  /\ started = MaxSessions
  /\ \A t \in Threads, s \in Sessions : Ended(t, s)
  /\ UNCHANGED vars

Next ==
  \/ Start \/ Stop
  \/ \E o \in Owners : UnInit(o)
  \/ \E s \in Sessions : \/ Timer(s) \/ Handshake(s) \/ Recv(s) \/ DeviceEnds(s)
                         \/ CheckAlive(s) \/ CaptureEnds(s) \/ CaptureFails(s)
  \/ Quiet

Spec == Init /\ [][Next]_vars

\* Every thread runs; whether anyone calls Start or Stop, and what the device sends, is
\* free.  A timer that keeps seeing INITING reaches its 30 s, every receive times out.
Fairness ==
  /\ WF_vars(ui # "idle" /\ (Start \/ Stop))
  /\ \A o \in Owners : WF_vars(UnInit(o))
  /\ \A s \in Sessions :
       /\ WF_vars(Timer(s)) /\ WF_vars(Handshake(s)) /\ WF_vars(Recv(s))
       /\ WF_vars(CheckAlive(s)) /\ WF_vars(CaptureEnds(s))

FairSpec == Spec /\ Fairness

-----------------------------------------------------------------------------
(* What must be true of it.  Where the code has a race it cannot win, the property
   says what is left, and the README and the hazards say what is lost. *)

TakesApart(o, s) == un[o] \notin {"none", "rest"} /\ unNet[o] = s

\* A StopWiMo that ran to its end left no capture service, no object but ZTE's audio object,
\* which UnInit forgets, no handshake, receive or timer thread, and no alive thread and, of
\* the last session, no capture or load thread but one whose handle was stored after the
\* join had looked for it.
StopLeavesNothing ==
  stopped /\ ~overlapped =>
    /\ \A s \in Sessions :
         /\ \A t \in {"handshake", "recv", "timer"} : Ended(t, s)
         /\ Ended("alive", s) \/ aliveHnd[s]
         /\ \A t \in {"video", "cpu"} : s = started => Ended(t, s) \/ hnd[t] = s
    /\ \A k \in Objects : (Audio = "ZTE" /\ k = "audio") \/
         (ptr[k] = NULL /\ \A s \in Sessions : life[k][s] # "alive")
    /\ ~service

\* Threads never outlive the object they run on, except the one thread of each object
\* whose creator stored the handle after the join had looked for it.
ThreadsOutliveNothing ==
  \A s \in Sessions :
    /\ life["network"][s] = "deleted" =>
         /\ Ended("handshake", s) /\ Ended("recv", s)
         /\ Ended("alive", s) \/ aliveHnd[s]
    /\ \A t \in {"video", "cpu"} :
         started = s /\ life[t][s] = "deleted" => Ended(t, s) \/ hnd[t] = s

\* Two threads never take the same network object apart: StopWiMo's UnInit and the one of
\* CheckConnectTimeoutThread would join and delete it twice.  Without a StopWiMo in between,
\* the timer of the session before deletes the new session's object beside that one's timer.
OneDeletes ==
  ~overlapped =>
    \A o, p \in Owners, s \in Sessions : TakesApart(o, s) /\ TakesApart(p, s) => o = p

\* pCNetwork is used without a lock by the timer (SetDisconnectReason and, to tell where a
\* transport stream must go, GetServerIpAddr) and by the receive thread (NotifyUIStop): the
\* object it finds is alive, and is its own session's.
PointerIsOwn ==
  LET n == ptr["network"]
  IN  \A s \in Sessions : ~overlapped =>
        /\ pc["timer"][s] = "late" \/ (Method = "TS" /\ pc["timer"][s] = "success") =>
             n = s /\ life["network"][s] = "alive"
        /\ pc["recv"][s] = "notify" =>
             n = NULL \/ (n = s /\ life["network"][s] = "alive")

Told(s) == {callbacks[s][i] : i \in DOMAIN callbacks[s]}

\* SUCCESS is told only of a session whose own handshake stored CONNECTING: the timer
\* reads the status, which its session shares with every other, and not the handshake.
\* It holds although a handshake may overwrite FINISH: StopWiMo has joined it by the next Start.
SuccessIsOfTheSession ==
  \A s \in Sessions :
    "SUCCESS" \in Told(s) =>
      pc["handshake"][s] = "spawn" \/ pc["alive"][s] # "none" \/ overlapped

\* A device that disconnects a session is reported as PMSG_WIMO_SUSPEND, or as the timeout
\* that came about at the same time, and never as a failure, once pCNetwork is stored;
\* and nothing else is reported as SUSPEND, unless the reason read is another session's.
KickIsReported ==
  ~overlapped => \A s \in Sessions :
    /\ (s \in kicked /\ pc["recv"][s] = "notify" /\ ptr["network"] = s) => StopCode # "FAIL"
    /\ "KICKED" \in Told(s) => s \in kicked

\* StopWiMo returns: once it has set FINISH every thread it joins ends, unless the
\* handshake thread had read INITING before and stores CONNECTING after.
StopReturns == ui \in {"stop", "uninit"} ~> ui = "idle" \/ overwritten

\* A session that is over is told to the application, if InitNet started its threads:
\* nothing else tells it, the timer thread cleans up without a word.
EndIsTold ==
  \A s \in Sessions :
    (pc["recv"][s] # "none" /\ status = "FINISH") ~> (pc["recv"][s] = "done" \/ overwritten)

\* A session gets connected or is taken down: NumTimeOut after its start the timer thread
\* has reported success or has ended everything.
StartIsDecided ==
  \A s \in Sessions : pc["timer"][s] = "poll" ~> pc["timer"][s] = "done" \/ overwritten

-----------------------------------------------------------------------------
(* What the repository says of it and the code does not do. *)

\* WiMoInterface.java:15: "If it is PMSG_WIMO_SUCCESS, WiMo has already connected with RX,
\* and start screen transmit": it is not told of a session that was already told over.
SuccessIsNotStale ==
  \A s \in Sessions : \A i, j \in DOMAIN callbacks[s] :
    callbacks[s][j] = "SUCCESS" => i >= j

\* capture_network.h:176: "0 is timeout, 1 is user disconnect, 2 is tx datalost": the last
\* disconnect command of a session that a disconnect ended carries 1.
DisconnectIsSaid ==
  \A s \in kicked : pc["recv"][s] \in {"notify", "done"} => said[s] = Number["KICKED"]

\* capture_network.h:312: "0x0:is timeout": a session that nothing but the silence of its
\* device has ended is reported as timed out.
TimeoutIsReported ==
  \A s \in Sessions :
    (pc["alive"][s] = "expired" /\ ui = "idle" /\ ~stopped) => "FAIL" \notin Told(s)
=============================================================================
