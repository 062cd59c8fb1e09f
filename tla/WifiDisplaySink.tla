-------------------------- MODULE WifiDisplaySink --------------------------
(***************************************************************************)
(* WifiDisplaySink: the RTSP client of the WiFi Display sink, a handler of *)
(* the looper, with the life of the RTPSink and the TunnelRenderer that it *)
(* makes.  A handler is one step: its calls into ANetworkSession take the  *)
(* lock one by one, and what the network thread does between them it can   *)
(* do before or after.                                                     *)
(*                                                                         *)
(* A request of the source is the handler it calls: "OPTIONS", "REPLY"     *)
(* (GET_PARAMETER, a SET_PARAMETER without a trigger, and whatever is      *)
(* answered with an error), "SETUP" and "TEARDOWN" (the triggers).  The    *)
(* sink is started with a host and a port, not with a URI, so that it does *)
(* not describe.  All that is in a response is whether the sink can take   *)
(* it: its status is 200, its fields are well formed, and the host and the *)
(* ports that it names are such as a socket can be connected to.           *)
(***************************************************************************)
EXTENDS NetworkSession

CONSTANTS
  NoSink,
  MaxReports   \* how many reports and requests for packets an RTPSink makes

ASSUME MaxReportsAssumption == MaxReports \in Nat

VARIABLES
  looper,      \* "off", "running" or "stopped"
  state,       \* mState
  sessionID,   \* mSessionID
  nextCSeq,    \* mNextCSeq
  handlers,    \* mResponseHandlers
  rtpSink,     \* mRTPSink
  timer,       \* the message that a teardown has timed out is on its way
  replied,     \* the reply to kWhatStop was posted
  told,        \* MEDIA_PLAYBACK_COMPLETE was notified
  lost,        \* history: kWhatError of the control connection was handled
  setups,      \* history: how often the RTPSink was made
  overlap      \* history: it was made while a SETUP was not answered

sinkVars ==
  <<looper, state, sessionID, nextCSeq, handlers, rtpSink, timer, replied, told, lost, setups,
    overlap>>

Handler == [cseq : CSeq, func : {"M2", "Setup", "Play", "M8"}]

\* id: the handler, named by the id its RTP session had first; setup: the CSeq of its SETUP;
\* answer: the CSeq of the response that connected it, 0 before.
RTPSink ==
  [id : Ids, rtp : Ids \cup {0}, rtcp : Ids \cup {0}, setup : CSeq, answer : CSeq \cup {0},
   renderer : {"none", "made", "player"}, reports : 0..MaxReports]
ASSUME NoSinkAssumption == NoSink \notin RTPSink

SinkTypeOK ==
  /\ looper \in {"off", "running", "stopped"}
  /\ state \in {"UNDEFINED", "CONNECTING", "CONNECTED", "PAUSED", "PLAYING"}
  /\ sessionID \in Ids \cup {0}
  /\ nextCSeq \in 1..(MaxCSeq + 1)
  /\ handlers \subseteq Handler
  /\ rtpSink \in RTPSink \cup {NoSink}
  /\ timer \in BOOLEAN /\ replied \in BOOLEAN /\ told \in BOOLEAN /\ lost \in BOOLEAN
  /\ setups \in Nat /\ overlap \in BOOLEAN

SinkInit ==
  /\ looper = "off" /\ state = "UNDEFINED" /\ sessionID = 0
  /\ nextCSeq = 1 /\ handlers = {}
  /\ rtpSink = NoSink /\ timer = FALSE
  /\ replied = FALSE /\ told = FALSE
  /\ lost = FALSE /\ setups = 0 /\ overlap = FALSE

-----------------------------------------------------------------------------

\* A handler that runs: it takes its message out of the queue.
Comes(what) ==
  /\ looper = "running" /\ Unlocked
  /\ queue # <<>> /\ Head(queue).what = what

Handles(what) == Comes(what) /\ queue' = Tail(queue)

Aborts(check) == aborted' = check

\* What a handler leaves alone of the network.
Elsewhere == UNCHANGED <<threadVars, exiting, sourceVars>>

\* A request: written to session id, its CSeq used up.
Requests(s, id) ==
  /\ nextCSeq \in CSeq
  /\ sessions' = Sent(s, id)
  /\ unsent' = unsent \cup {nextCSeq}
  /\ nextCSeq' = nextCSeq + 1

\* ~RTPSink and, with it, ~TunnelRenderer, which stops the player it may not have.
SessionsOf(k) == IF k = NoSink THEN {} ELSE {k.rtp, k.rtcp}
NoPlayer(k) == k # NoSink /\ k.renderer = "made"

OnStart ==
  /\ Handles("start")
  /\ \/ \E f \in Fds :
          /\ Lowest(f, FreeFds(sessions)) /\ nextID \in Ids
          /\ sessions' = Created(sessions, nextID, "CONNECTING", f)
          /\ sessionID' = nextID /\ nextID' = nextID + 1
          /\ link' = "connecting" /\ state' = "CONNECTING"
          /\ Interrupt(TRUE)
          /\ UNCHANGED aborted
     \/ \* The host is not known, or there is no route to it.
        Aborts("create") /\ UNCHANGED <<sessions, nextID, sessionID, link, state, pipe>>
  /\ UNCHANGED <<threadVars, exiting, stream, reached, arrived, unsent,
                 looper, nextCSeq, handlers, rtpSink, timer, replied, told, lost, setups, overlap>>

\* Mutant: an error before the connection is made is taken for that of an earlier session.
ErrorIsOwnOnceConnected(id) == id = sessionID /\ state # "CONNECTING"
ErrorIsOwn(id) == id = sessionID

\* The control connection's error, and those of the RTPSink; errors of other sessions go
\* nowhere, or to a handler that is gone.
OnError ==
  /\ Handles("error")
  /\ LET id == Head(queue).id
         isSinks == rtpSink # NoSink /\ id \in SessionsOf(rtpSink)
     IN /\ sessions' = IF ErrorIsOwn(id) \/ isSinks THEN Destroyed(sessions, {id}) ELSE sessions
        /\ Interrupt(ErrorIsOwn(id) \/ isSinks)
        /\ sessionID' = IF ErrorIsOwn(id) THEN 0 ELSE sessionID
        /\ lost' = (lost \/ ErrorIsOwn(id))
        /\ rtpSink' = IF ~isSinks THEN rtpSink
                      ELSE IF id = rtpSink.rtp THEN [rtpSink EXCEPT !.rtp = 0]
                      ELSE [rtpSink EXCEPT !.rtcp = 0]
        /\ told' = (told \/ ErrorIsOwn(id) \/ isSinks)
        /\ unsent' = IF ErrorIsOwn(id) THEN {} ELSE unsent
  /\ Elsewhere
  /\ UNCHANGED <<nextID, aborted, looper, state, nextCSeq, handlers, timer, replied, setups,
                 overlap>>

OnConnected ==
  /\ Handles("connected")
  /\ state' = "CONNECTED"
  /\ Elsewhere
  /\ UNCHANGED <<sessions, nextID, pipe, unsent, aborted,
                 looper, sessionID, nextCSeq, handlers, rtpSink, timer, replied, told, lost,
                 setups, overlap>>

\* CHECK(sUseTCPInterleaving), which is never so.
OnBinaryData ==
  /\ Handles("binaryData")
  /\ Aborts("frame")
  /\ Elsewhere
  /\ UNCHANGED <<sessions, nextID, pipe, unsent, sinkVars>>

-----------------------------------------------------------------------------
(* onReceiveClientData. *)

HandlesRequest(r) == Handles("data") /\ Head(queue).data.what = r

\* The session is gone: the reply gives -ENOENT, which a CHECK does not let pass.
CannotReply ==
  /\ \E r \in Request : HandlesRequest(r)
  /\ ~IsOpen(sessions, 1)
  /\ Aborts("reply")
  /\ Elsewhere
  /\ UNCHANGED <<sessions, nextID, pipe, unsent, sinkVars>>

OnReplyRequest ==
  /\ HandlesRequest("REPLY") /\ IsOpen(sessions, 1)
  /\ sessions' = Sent(sessions, 1) /\ Interrupt(TRUE)
  /\ Elsewhere
  /\ UNCHANGED <<nextID, unsent, aborted, sinkVars>>

OnOptionsRequest ==
  /\ HandlesRequest("OPTIONS") /\ IsOpen(sessions, 1)
  /\ Requests(sessions, 1)
  /\ handlers' = handlers \cup {[cseq |-> nextCSeq, func |-> "M2"]}
  /\ Interrupt(TRUE)
  /\ Elsewhere
  /\ UNCHANGED <<nextID, aborted, looper, state, sessionID, rtpSink, timer, replied, told, lost,
                 setups, overlap>>

OnTeardownTrigger ==
  /\ HandlesRequest("TEARDOWN") /\ IsOpen(sessions, 1)
  /\ sessions' = Sent(sessions, 1) /\ Interrupt(TRUE)
  /\ told' = TRUE
  /\ Elsewhere
  /\ UNCHANGED <<nextID, unsent, aborted, looper, state, sessionID, nextCSeq, handlers, rtpSink,
                 timer, replied, lost, setups, overlap>>

\* Mutant: a sink that has an RTPSink keeps it.
NewSinkIfNone(id, cseq) ==
  IF rtpSink # NoSink THEN rtpSink
  ELSE [id |-> id, rtp |-> id, rtcp |-> id + 1, setup |-> cseq, answer |-> 0,
        renderer |-> "none", reports |-> 0]
NewSink(id, cseq) ==
  [id |-> id, rtp |-> id, rtcp |-> id + 1, setup |-> cseq, answer |-> 0,
   renderer |-> "none", reports |-> 0]

\* sendSetup: a new RTPSink takes the place of the one there may be, which is released with
\* its sessions; then the new one's are made.  Of a handler that is gone no message is handled.
OnSetupTrigger ==
  /\ HandlesRequest("SETUP") /\ IsOpen(sessions, 1) /\ ~NoPlayer(rtpSink)
  /\ LET s == Destroyed(sessions, SessionsOf(rtpSink)) IN
     \E f, g \in Fds :
       /\ Lowest(f, FreeFds(s)) /\ Lowest(g, FreeFds(s) \ {f})
       /\ {nextID, nextID + 1} \subseteq Ids
       /\ Requests(Created(Created(s, nextID, "DATAGRAM", f), nextID + 1, "DATAGRAM", g), 1)
  /\ nextID' = nextID + 2
  /\ rtpSink' = NewSink(nextID, nextCSeq)
  /\ handlers' = handlers \cup {[cseq |-> nextCSeq, func |-> "Setup"]}
  /\ setups' = setups + 1
  /\ overlap' = (overlap \/ \E h \in handlers : h.func = "Setup")
  /\ Interrupt(TRUE)
  /\ Elsewhere
  /\ UNCHANGED <<aborted, looper, state, sessionID, timer, replied, told, lost>>

\* destroyPlayer calls stop of a player that was never made.
SetupWithoutPlayer ==
  /\ HandlesRequest("SETUP") /\ IsOpen(sessions, 1) /\ NoPlayer(rtpSink)
  /\ Aborts("player")
  /\ Elsewhere
  /\ UNCHANGED <<sessions, nextID, pipe, unsent, sinkVars>>

\* ok: whether the sink can take the answer.
HandlesAnswer(h, ok) ==
  /\ Handles("data")
  /\ LET d == Head(queue).data IN d.what = "answer" /\ d.cseq = h.cseq /\ d.ok = ok

Unsolicited ==
  /\ Handles("data") /\ Head(queue).data.what = "answer"
  /\ \A h \in handlers : h.cseq # Head(queue).data.cseq
  /\ Elsewhere
  /\ UNCHANGED <<sessions, nextID, pipe, unsent, aborted, sinkVars>>

\* M2 and M8 have nothing to do, PLAY sets the state.
OnSimpleResponse(h) ==
  /\ HandlesAnswer(h, TRUE) /\ h.func \in {"M2", "M8", "Play"}
  /\ handlers' = handlers \ {h}
  /\ state' = IF h.func = "Play" THEN "PLAYING" ELSE state
  /\ Elsewhere
  /\ UNCHANGED <<sessions, nextID, pipe, unsent, aborted, looper, sessionID, nextCSeq, rtpSink,
                 timer, replied, told, lost, setups, overlap>>

\* The RTPSink is connected, which schedules its reports, and PLAY is sent.
CanConnect == rtpSink # NoSink /\ rtpSink.rtp # 0 /\ rtpSink.rtcp # 0
HandlesSetupAnswer(h) == HandlesAnswer(h, TRUE) /\ h.func = "Setup"
Connected(h) == rtpSink' = [rtpSink EXCEPT !.answer = h.cseq] /\ state' = "PAUSED"

OnSetupResponse(h) ==
  /\ HandlesSetupAnswer(h) /\ CanConnect /\ IsOpen(sessions, 1)
  /\ Connected(h)
  /\ Requests(sessions, 1)
  /\ handlers' = (handlers \ {h}) \cup {[cseq |-> nextCSeq, func |-> "Play"]}
  /\ Interrupt(TRUE)
  /\ Elsewhere
  /\ UNCHANGED <<nextID, aborted, looper, sessionID, timer, replied, told, lost, setups, overlap>>

\* The CHECK on what the handler returns fails: the sink cannot take the response ...
FailsOnResponse(h) ==
  /\ HandlesAnswer(h, FALSE)
  /\ Aborts("answer")
  /\ handlers' = handlers \ {h}
  /\ Elsewhere
  /\ UNCHANGED <<sessions, nextID, pipe, unsent, looper, state, sessionID, nextCSeq, rtpSink,
                 timer, replied, told, lost, setups, overlap>>

\* ... or a session of the RTPSink is gone, which gives -ENOENT for its port ...
FailsToConnect(h) ==
  /\ HandlesSetupAnswer(h) /\ ~CanConnect
  /\ Aborts("ports")
  /\ handlers' = handlers \ {h}
  /\ Elsewhere
  /\ UNCHANGED <<sessions, nextID, pipe, unsent, looper, state, sessionID, nextCSeq, rtpSink,
                 timer, replied, told, lost, setups, overlap>>

\* ... or the control connection is, which gives it for PLAY.
FailsToPlay(h) ==
  /\ HandlesSetupAnswer(h) /\ CanConnect /\ ~IsOpen(sessions, 1)
  /\ Connected(h)
  /\ Aborts("play")
  /\ handlers' = handlers \ {h}
  /\ Elsewhere
  /\ UNCHANGED <<sessions, nextID, pipe, unsent, looper, sessionID, nextCSeq, timer, replied,
                 told, lost, setups, overlap>>

OnResponse(h) ==
  \/ OnSimpleResponse(h) \/ OnSetupResponse(h)
  \/ FailsOnResponse(h) \/ FailsToConnect(h) \/ FailsToPlay(h)

OnData ==
  \/ CannotReply \/ OnReplyRequest \/ OnOptionsRequest \/ OnTeardownTrigger
  \/ OnSetupTrigger \/ SetupWithoutPlayer \/ Unsolicited
  \/ \E h \in handlers : OnResponse(h)

-----------------------------------------------------------------------------
(* RTPSink and TunnelRenderer, handlers of the same looper; see RtpSink. *)

IsHandler(id) == rtpSink # NoSink /\ rtpSink.id = id

\* Of the first datagram the renderer is made, and each is posted to it.
OnDatagram ==
  /\ Comes("datagram")
  /\ LET isRtp == rtpSink # NoSink /\ rtpSink.rtp = Head(queue).id IN
     /\ queue' = IF isRtp THEN Append(Tail(queue), [what |-> "queueBuffer", sink |-> rtpSink.id])
                 ELSE Tail(queue)
     /\ rtpSink' = IF isRtp /\ rtpSink.renderer = "none"
                   THEN [rtpSink EXCEPT !.renderer = "made"] ELSE rtpSink
  /\ Elsewhere
  /\ UNCHANGED <<sessions, nextID, pipe, unsent, aborted, looper, state, sessionID, nextCSeq,
                 handlers, timer, replied, told, lost, setups, overlap>>

\* The first packet makes the player.
OnQueueBuffer ==
  /\ Handles("queueBuffer")
  /\ rtpSink' = IF IsHandler(Head(queue).sink) THEN [rtpSink EXCEPT !.renderer = "player"]
                ELSE rtpSink
  /\ Elsewhere
  /\ UNCHANGED <<sessions, nextID, pipe, unsent, aborted, looper, state, sessionID, nextCSeq,
                 handlers, timer, replied, told, lost, setups, overlap>>

\* onSendRR, every two seconds once the RTPSink is connected, and onPacketLost, when the player
\* shows a gap: they write to the RTCP session, if it is still there.  Their messages may come
\* at any time, so that they need not be in the queue.
Reports ==
  /\ looper = "running" /\ Unlocked
  /\ rtpSink # NoSink /\ (rtpSink.answer # 0 \/ rtpSink.renderer = "player")
  /\ rtpSink.reports < MaxReports
  /\ rtpSink' = [rtpSink EXCEPT !.reports = @ + 1]
  /\ sessions' = Sent(sessions, rtpSink.rtcp)
  /\ Interrupt(IsOpen(sessions, rtpSink.rtcp))
  /\ Elsewhere
  /\ UNCHANGED <<nextID, queue, unsent, aborted, looper, state, sessionID, nextCSeq, handlers,
                 timer, replied, told, lost, setups, overlap>>

-----------------------------------------------------------------------------
(* The stop. *)

\* Mutant: only the source's answer ends the wait.
NoTeardownTimer == timer
TeardownTimer == TRUE

IsConnected == state \in {"CONNECTED", "PAUSED", "PLAYING"}

OnStopConnected ==
  /\ Handles("stop") /\ IsConnected /\ IsOpen(sessions, sessionID)
  /\ Requests(sessions, sessionID)
  /\ handlers' = handlers \cup {[cseq |-> nextCSeq, func |-> "M8"]}
  /\ timer' = TeardownTimer
  /\ Interrupt(TRUE)
  /\ Elsewhere
  /\ UNCHANGED <<nextID, aborted, looper, state, sessionID, rtpSink, replied, told, lost, setups,
                 overlap>>

OnStopAtOnce ==
  /\ Handles("stop") /\ ~(IsConnected /\ IsOpen(sessions, sessionID))
  /\ replied' = TRUE
  /\ Elsewhere
  /\ UNCHANGED <<sessions, nextID, pipe, unsent, aborted, looper, state, sessionID, nextCSeq,
                 handlers, rtpSink, timer, told, lost, setups, overlap>>

\* Whatever is in the queue before it can as well have come before the time was over.
OnTeardownTimedOut ==
  /\ looper = "running" /\ Unlocked /\ timer
  /\ timer' = FALSE /\ replied' = TRUE
  /\ Elsewhere
  /\ UNCHANGED <<sessions, nextID, queue, pipe, unsent, aborted, looper, state, sessionID,
                 nextCSeq, handlers, rtpSink, told, lost, setups, overlap>>

Looper ==
  \/ OnStart \/ OnError \/ OnConnected \/ OnBinaryData \/ OnData
  \/ OnDatagram \/ OnQueueBuffer
  \/ OnStopConnected \/ OnStopAtOnce
=============================================================================
