-------------------------- MODULE WfdPlayerProofs --------------------------
(***************************************************************************)
(* Proofs about WfdPlayer for any number of sessions, descriptors,         *)
(* requests, events and reports: the types of its state, and that the      *)
(* network thread never sleeps while a session wants what it does not wait *)
(* for.                                                                    *)
(***************************************************************************)
EXTENDS WfdPlayer, SequenceTheorems, TLAPS

Table == [Ids -> Session \cup {NoSession}]

-----------------------------------------------------------------------------
(* The messages. *)

\* What is posted is a message.
LEMMA PlainMessage ==
  ASSUME NEW w \in {"start", "stop", "connected", "binaryData"} PROVE [what |-> w] \in Message
  BY DEF Message

LEMMA DataMessage == ASSUME NEW d \in Received PROVE [what |-> "data", data |-> d] \in Message
  BY DEF Message

LEMMA NotificationMessage == ASSUME NEW d \in Received PROVE Notification(d) \in Message
  BY PlainMessage, DataMessage DEF Notification

LEMMA IdMessage ==
  ASSUME NEW w \in {"error", "datagram"}, NEW i \in Ids PROVE [what |-> w, id |-> i] \in Message
  BY DEF Message

LEMMA BufferMessage == ASSUME NEW i \in Ids PROVE [what |-> "queueBuffer", sink |-> i] \in Message
  BY DEF Message

LEMMA RequestReceived == ASSUME NEW r \in Request \cup {"frame"} PROVE [what |-> r] \in Received
  BY DEF Received

LEMMA AnswerReceived ==
  ASSUME NEW c \in CSeq, NEW ok \in BOOLEAN
  PROVE  [what |-> "answer", cseq |-> c, ok |-> ok] \in Received
  BY DEF Received

\* The queue loses its first message, or gains one.
LEMMA HandledType ==
  ASSUME TypeOK, NEW w, Handles(w)
  PROVE  queue' \in Seq(Message) /\ Head(queue) \in Message /\ Tail(queue) \in Seq(Message)
  BY HeadTailProperties DEF TypeOK, NetTypeOK, Handles, Comes

LEMMA PostedType ==
  ASSUME TypeOK, NEW m \in Message, Post(m) PROVE queue' \in Seq(Message)
  BY AppendProperties DEF TypeOK, NetTypeOK, Post

-----------------------------------------------------------------------------
(* The table of sessions. *)

\* Each operation gives a table of sessions again.
LEMMA CreatedType ==
  ASSUME NEW s \in Table, NEW id \in Ids, NEW st \in {"CONNECTING", "DATAGRAM"}, NEW f \in Fds
  PROVE  Created(s, id, st, f) \in Table
  BY DEF Created, Table, Session

LEMMA DestroyedType == ASSUME NEW s \in Table, NEW D PROVE Destroyed(s, D) \in Table
  BY DEF Destroyed, Table

LEMMA SentType == ASSUME NEW s \in Table, NEW id PROVE Sent(s, id) \in Table
  <1>1. CASE IsOpen(s, id)
    <2>1. id \in Ids /\ s[id] \in Session
      BY <1>1 DEF IsOpen, Table
    <2>2. [s[id] EXCEPT !.out = TRUE] \in Session
      BY <2>1 DEF Session
    <2> QED
      BY <1>1, <2>1, <2>2 DEF Sent, Table
  <1>2. CASE ~IsOpen(s, id)
    BY <1>2 DEF Sent
  <1> QED
    BY <1>1, <1>2

LEMMA FailsType ==
  ASSUME TypeOK, NEW i \in Open, NEW send \in BOOLEAN, Fails(i, send)
  PROVE  sessions' \in Table /\ queue' \in Seq(Message)
  <1>1. i \in Ids /\ sessions \in Table /\ sessions[i] \in Session
    BY DEF Open, IsOpen, TypeOK, NetTypeOK, Table
  <1>2. queue' \in Seq(Message)
    BY <1>1, IdMessage, PostedType DEF Fails
  <1>3. /\ [sessions[i] EXCEPT !.sawSendFailure = TRUE] \in Session
        /\ [sessions[i] EXCEPT !.sawReceiveFailure = TRUE] \in Session
    BY <1>1 DEF Session
  <1> QED
    BY <1>1, <1>2, <1>3 DEF Fails, Table
-----------------------------------------------------------------------------
(* The network thread keeps the types. *)

LEMMA NetworkTypes == ASSUME TypeOK, NetworkThread PROVE NetTypeOK'
  <1> USE DEF TypeOK, NetTypeOK
  <1>0. /\ sessions \in Table /\ Open \subseteq Ids
        /\ \A i \in Open : sessions[i] \in Session /\ sessions[i].fd \in Fds
    BY DEF Table, Open, IsOpen, Session
  <1>1. CASE Leaves
    BY <1>1 DEF Leaves, sourceVars
  <1>2. CASE Collects
    <2>1. rs' \subseteq Fds /\ ws' \subseteq Fds
      BY <1>2, <1>0 DEF Collects
    <2> QED
      BY <1>2, <2>1 DEF Collects, sourceVars
  <1>3. CASE SelectFails
    BY <1>3 DEF SelectFails, sourceVars
  <1>4. CASE Selects
    <2>1. rs' \subseteq Fds /\ ws' \subseteq Fds
      BY <1>4, <1>0 DEF Selects
    <2> QED
      BY <1>4, <2>1 DEF Selects, sourceVars
  <1>5. CASE ServedAll
    BY <1>5 DEF ServedAll, sourceVars
  <1>6. ASSUME NEW i \in Ids, ReadsDatagram(i) PROVE NetTypeOK'
    <2>1. i \in Open /\ rs' \subseteq Fds /\ thread' = "serve"
      BY <1>6 DEF ReadsDatagram, Reads, Serves, Due
    <2>2. sessions' \in Table /\ queue' \in Seq(Message)
      BY <1>6, <1>0, <2>1, FailsType, PostedType, IdMessage DEF ReadsDatagram
    <2>3. arrived' \in [Ids -> {"nothing", "datagram", "empty", "error"}]
      BY <1>6 DEF ReadsDatagram
    <2> QED
      BY <1>6, <2>1, <2>2, <2>3 DEF ReadsDatagram, Table
  <1>7. ASSUME NEW i \in Ids, ReadsStream(i) PROVE NetTypeOK'
    <2>1. i \in Open /\ rs' \subseteq Fds /\ thread' = "serve"
      BY <1>7 DEF ReadsStream, Reads, Serves, Due
    <2>2. CASE stream # <<>>
      <3>1. Head(stream) \in Received /\ stream' \in Seq(Received)
        BY <1>7, <2>2, HeadTailProperties DEF ReadsStream
      <3>2. queue' \in Seq(Message) /\ sessions' \in Table
        BY <1>7, <1>0, <2>2, <3>1, NotificationMessage, PostedType DEF ReadsStream
      <3> QED
        BY <1>7, <2>1, <3>1, <3>2 DEF ReadsStream, Table
    <2>3. CASE stream = <<>>
      <3>1. sessions' \in Table /\ queue' \in Seq(Message) /\ stream' = stream
        BY <1>7, <2>1, <2>3, FailsType DEF ReadsStream
      <3> QED
        BY <1>7, <2>1, <3>1 DEF ReadsStream, Table
    <2> QED
      BY <2>2, <2>3
  <1>8. ASSUME NEW i \in Ids, Connects(i) PROVE NetTypeOK'
    <2>1. i \in Open /\ ws' \subseteq Fds /\ thread' = "serve"
      BY <1>8 DEF Connects, Writes, Serves, Due
    <2>2. [sessions[i] EXCEPT !.state = "CONNECTED"] \in Session
      BY <1>0, <2>1 DEF Session
    <2>3. sessions' \in Table /\ queue' \in Seq(Message)
      BY <1>8, <1>0, <2>1, <2>2, FailsType, PostedType, PlainMessage DEF Connects, Table
    <2> QED
      BY <1>8, <2>1, <2>3 DEF Connects, sourceVars, Table
  <1>9. ASSUME NEW i \in Ids, FindsNothingToSend(i) PROVE NetTypeOK'
    BY <1>9 DEF FindsNothingToSend, Writes, Serves, Due, sourceVars, Outcome
  <1>10. ASSUME NEW i \in Ids, Sends(i) PROVE NetTypeOK'
    <2>1. i \in Open /\ ws' \subseteq Fds /\ thread' = "serve"
      BY <1>10 DEF Sends, Writes, Serves, Due
    <2>2. [sessions[i] EXCEPT !.out = FALSE] \in Session
      BY <1>0, <2>1 DEF Session
    <2>3. sessions' \in Table
      BY <1>10, <1>0, <2>1, <2>2 DEF Sends, Table
    <2>4. reached' \subseteq CSeq /\ unsent' \subseteq CSeq
      BY <1>10 DEF Sends
    <2> QED
      BY <1>10, <2>1, <2>3, <2>4 DEF Sends, Table
  <1>11. ASSUME NEW i \in Ids, FailsToSend(i) PROVE NetTypeOK'
    <2>1. i \in Open /\ ws' \subseteq Fds /\ thread' = "serve"
      BY <1>11 DEF FailsToSend, Writes, Serves, Due
    <2>2. sessions' \in Table /\ queue' \in Seq(Message)
      BY <1>11, <2>1, FailsType DEF FailsToSend
    <2>3. arrived' \in [Ids -> {"nothing", "datagram", "empty", "error"}]
      BY <1>11 DEF FailsToSend
    <2> QED
      BY <1>11, <2>1, <2>2, <2>3 DEF FailsToSend, Table
  <1> QED
    BY <1>1, <1>2, <1>3, <1>4, <1>5, <1>6, <1>7, <1>8, <1>9, <1>10, <1>11 DEF NetworkThread

-----------------------------------------------------------------------------
(* The handlers keep the types. *)

\* What a handler changes of the network.
LEMMA ElsewhereTypes ==
  ASSUME TypeOK, Elsewhere, sessions' \in Table, nextID' \in Nat \ {0}, pipe' \in BOOLEAN,
         queue' \in Seq(Message), unsent' \subseteq CSeq,
         aborted' \in Outcome
  PROVE  NetTypeOK'
  BY DEF TypeOK, NetTypeOK, Elsewhere, threadVars, sourceVars, Table

LEMMA NetTyped ==
  ASSUME TypeOK
  PROVE  /\ sessions \in Table /\ nextID \in Nat \ {0} /\ pipe \in BOOLEAN
         /\ queue \in Seq(Message) /\ unsent \subseteq CSeq
         /\ aborted \in Outcome
  BY DEF TypeOK, NetTypeOK, Table

LEMMA InterruptType ==
  ASSUME TypeOK, NEW any \in BOOLEAN, Interrupt(any) PROVE pipe' \in BOOLEAN
  BY DEF TypeOK, NetTypeOK, Interrupt

LEMMA RequestsType ==
  ASSUME TypeOK, NEW s \in Table, NEW id, Requests(s, id)
  PROVE  /\ sessions' \in Table /\ unsent' \subseteq CSeq
         /\ nextCSeq \in CSeq /\ nextCSeq' \in 1..(MaxCSeq + 1)
  <1>1. nextCSeq \in CSeq /\ sessions' \in Table
    BY SentType DEF Requests
  <1>2. nextCSeq' \in 1..(MaxCSeq + 1)
    BY <1>1, CSeqAssumption DEF Requests, CSeq
  <1> QED
    BY <1>1, <1>2, NetTyped DEF Requests

LEMMA OnStartTypes == ASSUME TypeOK, OnStart PROVE NetTypeOK' /\ SinkTypeOK'
  <1>1. queue' \in Seq(Message)
    BY HandledType DEF OnStart
  <1>2. CASE aborted' = "create" /\ UNCHANGED <<sessions, nextID, sessionID, link, state, pipe>>
    BY <1>1, <1>2 DEF OnStart, TypeOK, NetTypeOK, SinkTypeOK, threadVars, Outcome
  <1>3. ASSUME NEW f \in Fds, nextID \in Ids,
               sessions' = Created(sessions, nextID, "CONNECTING", f),
               sessionID' = nextID, nextID' = nextID + 1, link' = "connecting",
               state' = "CONNECTING", Interrupt(TRUE), UNCHANGED aborted
        PROVE  NetTypeOK' /\ SinkTypeOK'
    <2>1. sessions' \in Table /\ pipe' \in BOOLEAN /\ nextID' \in Nat \ {0}
      <3>1. sessions' \in Table
        BY <1>3, NetTyped, CreatedType
      <3>2. pipe' \in BOOLEAN
        BY <1>3, InterruptType
      <3>3. nextID' \in Nat \ {0}
        BY <1>3, NetTyped
      <3> QED
        BY <3>1, <3>2, <3>3
    <2>2. sessionID' \in Ids \cup {0}
      BY <1>3
    <2> QED
      BY <1>1, <1>3, <2>1, <2>2 DEF OnStart, TypeOK, NetTypeOK, SinkTypeOK, threadVars, Table
  <1> QED
    BY <1>2, <1>3 DEF OnStart, Aborts

LEMMA OnErrorTypes == ASSUME TypeOK, OnError PROVE NetTypeOK' /\ SinkTypeOK'
  <1> DEFINE id == Head(queue).id
             isSinks == rtpSink # NoSink /\ id \in SessionsOf(rtpSink)
  <1>1. queue' \in Seq(Message)
    BY HandledType DEF OnError
  <1>2. sessions' \in Table
    BY NetTyped, DestroyedType DEF OnError
  <1>3. pipe' \in BOOLEAN
    BY NetTyped DEF OnError, Interrupt, ErrorIsOwn
  <1>4. unsent' \subseteq CSeq
    BY NetTyped DEF OnError
  <1>5. NetTypeOK'
    BY <1>1, <1>2, <1>3, <1>4, NetTyped, ElsewhereTypes DEF OnError
  <1>6. rtpSink' \in RTPSink \cup {NoSink}
    <2>1. CASE isSinks
      <3>1. rtpSink \in RTPSink
        BY <2>1 DEF TypeOK, SinkTypeOK
      <3>2. [rtpSink EXCEPT !.rtp = 0] \in RTPSink /\ [rtpSink EXCEPT !.rtcp = 0] \in RTPSink
        BY <3>1 DEF RTPSink
      <3> QED
        BY <2>1, <3>2 DEF OnError
    <2>2. CASE ~isSinks
      BY <2>2 DEF OnError, TypeOK, SinkTypeOK
    <2> QED
      BY <2>1, <2>2
  <1>7. sessionID' \in Ids \cup {0} /\ lost' \in BOOLEAN /\ told' \in BOOLEAN
    BY DEF OnError, ErrorIsOwn, TypeOK, SinkTypeOK
  <1> QED
    BY <1>5, <1>6, <1>7 DEF OnError, TypeOK, SinkTypeOK

LEMMA OnSetupTypes == ASSUME TypeOK, OnSetupTrigger PROVE NetTypeOK' /\ SinkTypeOK'
  <1>1. queue' \in Seq(Message)
    BY HandledType DEF OnSetupTrigger, HandlesRequest
  <1>2. PICK f \in Fds, g \in Fds :
          /\ {nextID, nextID + 1} \subseteq Ids
          /\ Requests(Created(Created(Destroyed(sessions, SessionsOf(rtpSink)), nextID,
                                      "DATAGRAM", f), nextID + 1, "DATAGRAM", g), 1)
    BY DEF OnSetupTrigger
  <1>3. nextID \in Ids /\ nextID + 1 \in Ids
    BY <1>2
  <1>4. Created(Created(Destroyed(sessions, SessionsOf(rtpSink)), nextID, "DATAGRAM", f),
                nextID + 1, "DATAGRAM", g) \in Table
    BY <1>3, NetTyped, DestroyedType, CreatedType
  <1>5. /\ sessions' \in Table /\ unsent' \subseteq CSeq
        /\ nextCSeq \in CSeq /\ nextCSeq' \in 1..(MaxCSeq + 1)
    BY <1>2, <1>4, RequestsType
  <1>6. nextID' \in Nat \ {0}
    BY NetTyped DEF OnSetupTrigger
  <1>7. NetTypeOK'
    BY <1>1, <1>5, <1>6, NetTyped, InterruptType, ElsewhereTypes DEF OnSetupTrigger
  <1>8. rtpSink' \in RTPSink
    BY <1>3, <1>5, MaxReportsAssumption DEF OnSetupTrigger, NewSink, RTPSink
  <1>9. handlers' \subseteq Handler
    BY <1>5 DEF OnSetupTrigger, Handler, TypeOK, SinkTypeOK
  <1>10. setups' \in Nat /\ overlap' \in BOOLEAN
    BY DEF OnSetupTrigger, TypeOK, SinkTypeOK
  <1> QED
    BY <1>5, <1>7, <1>8, <1>9, <1>10 DEF OnSetupTrigger, TypeOK, SinkTypeOK

LEMMA OnSetupResponseTypes ==
  ASSUME TypeOK, NEW h \in handlers, OnSetupResponse(h) PROVE NetTypeOK' /\ SinkTypeOK'
  <1>1. queue' \in Seq(Message) /\ h \in Handler
    BY HandledType DEF OnSetupResponse, HandlesSetupAnswer, HandlesAnswer, TypeOK, SinkTypeOK
  <1>2. /\ sessions' \in Table /\ unsent' \subseteq CSeq
        /\ nextCSeq \in CSeq /\ nextCSeq' \in 1..(MaxCSeq + 1)
    BY NetTyped, RequestsType DEF OnSetupResponse
  <1>3. NetTypeOK'
    BY <1>1, <1>2, NetTyped, InterruptType, ElsewhereTypes DEF OnSetupResponse
  <1>4. rtpSink' \in RTPSink
    <2>1. rtpSink \in RTPSink /\ h.cseq \in CSeq
      BY <1>1 DEF OnSetupResponse, CanConnect, TypeOK, SinkTypeOK, Handler
    <2>2. [rtpSink EXCEPT !.answer = h.cseq] \in RTPSink
      BY <2>1 DEF RTPSink
    <2> QED
      BY <2>2 DEF OnSetupResponse, Connected
  <1>5. handlers' \subseteq Handler
    BY <1>2 DEF OnSetupResponse, Handler, TypeOK, SinkTypeOK
  <1> QED
    BY <1>2, <1>3, <1>4, <1>5 DEF OnSetupResponse, Connected, TypeOK, SinkTypeOK

LEMMA FailedResponseTypes ==
  ASSUME TypeOK, NEW h \in handlers, FailsOnResponse(h) \/ FailsToConnect(h) \/ FailsToPlay(h)
  PROVE  NetTypeOK' /\ SinkTypeOK'
  <1>1. queue' \in Seq(Message)
    BY HandledType
       DEF FailsOnResponse, FailsToConnect, FailsToPlay, HandlesSetupAnswer, HandlesAnswer
  <1>2. NetTypeOK'
    BY <1>1, NetTyped, ElsewhereTypes
       DEF FailsOnResponse, FailsToConnect, FailsToPlay, Aborts, Outcome
  <1>3. CASE FailsOnResponse(h) \/ FailsToConnect(h)
    BY <1>2, <1>3 DEF FailsOnResponse, FailsToConnect, TypeOK, SinkTypeOK
  <1>4. CASE FailsToPlay(h)
    <2>1. rtpSink \in RTPSink /\ h.cseq \in CSeq
      BY <1>4 DEF FailsToPlay, CanConnect, TypeOK, SinkTypeOK, Handler
    <2>2. [rtpSink EXCEPT !.answer = h.cseq] \in RTPSink
      BY <2>1 DEF RTPSink
    <2> QED
      BY <1>2, <1>4, <2>2 DEF FailsToPlay, Connected, TypeOK, SinkTypeOK
  <1> QED
    BY <1>3, <1>4

\* The other handlers of data.
LEMMA OnDataTypes == ASSUME TypeOK, OnData PROVE NetTypeOK' /\ SinkTypeOK'
  <1>1. CASE CannotReply
    <2>1. queue' \in Seq(Message)
      BY <1>1, HandledType DEF CannotReply, HandlesRequest
    <2>2. NetTypeOK'
      BY <1>1, <2>1, NetTyped, ElsewhereTypes DEF CannotReply, Aborts, Outcome
    <2> QED
      BY <1>1, <2>2 DEF CannotReply, sinkVars, TypeOK, SinkTypeOK
  <1>2. CASE OnReplyRequest
    <2>1. queue' \in Seq(Message) /\ sessions' \in Table /\ pipe' \in BOOLEAN
      BY <1>2, HandledType, NetTyped, SentType, InterruptType DEF OnReplyRequest, HandlesRequest
    <2>2. NetTypeOK'
      BY <1>2, <2>1, NetTyped, ElsewhereTypes DEF OnReplyRequest
    <2> QED
      BY <1>2, <2>2 DEF OnReplyRequest, sinkVars, TypeOK, SinkTypeOK
  <1>3. CASE OnOptionsRequest
    <2>1. queue' \in Seq(Message) /\ pipe' \in BOOLEAN
      BY <1>3, HandledType, InterruptType DEF OnOptionsRequest, HandlesRequest
    <2>2. /\ sessions' \in Table /\ unsent' \subseteq CSeq
          /\ nextCSeq \in CSeq /\ nextCSeq' \in 1..(MaxCSeq + 1)
      BY <1>3, NetTyped, RequestsType DEF OnOptionsRequest
    <2>3. NetTypeOK'
      BY <1>3, <2>1, <2>2, NetTyped, ElsewhereTypes DEF OnOptionsRequest
    <2>4. handlers' \subseteq Handler
      BY <1>3, <2>2 DEF OnOptionsRequest, Handler, TypeOK, SinkTypeOK
    <2> QED
      BY <1>3, <2>2, <2>3, <2>4 DEF OnOptionsRequest, TypeOK, SinkTypeOK
  <1>4. CASE OnTeardownTrigger
    <2>1. queue' \in Seq(Message) /\ sessions' \in Table /\ pipe' \in BOOLEAN
      BY <1>4, HandledType, NetTyped, SentType, InterruptType
         DEF OnTeardownTrigger, HandlesRequest
    <2>2. NetTypeOK'
      BY <1>4, <2>1, NetTyped, ElsewhereTypes DEF OnTeardownTrigger
    <2> QED
      BY <1>4, <2>2 DEF OnTeardownTrigger, TypeOK, SinkTypeOK
  <1>5. CASE OnSetupTrigger
    BY <1>5, OnSetupTypes
  <1>6. CASE SetupWithoutPlayer
    <2>1. queue' \in Seq(Message)
      BY <1>6, HandledType DEF SetupWithoutPlayer, HandlesRequest
    <2>2. NetTypeOK'
      BY <1>6, <2>1, NetTyped, ElsewhereTypes DEF SetupWithoutPlayer, Aborts, Outcome
    <2> QED
      BY <1>6, <2>2 DEF SetupWithoutPlayer, sinkVars, TypeOK, SinkTypeOK
  <1>7. CASE Unsolicited
    <2>1. queue' \in Seq(Message)
      BY <1>7, HandledType DEF Unsolicited
    <2>2. NetTypeOK'
      BY <1>7, <2>1, NetTyped, ElsewhereTypes DEF Unsolicited
    <2> QED
      BY <1>7, <2>2 DEF Unsolicited, sinkVars, TypeOK, SinkTypeOK
  <1>8. ASSUME NEW h \in handlers, OnSimpleResponse(h) PROVE NetTypeOK' /\ SinkTypeOK'
    <2>1. queue' \in Seq(Message)
      BY <1>8, HandledType DEF OnSimpleResponse, HandlesAnswer
    <2>2. NetTypeOK'
      BY <1>8, <2>1, NetTyped, ElsewhereTypes DEF OnSimpleResponse
    <2> QED
      BY <1>8, <2>2 DEF OnSimpleResponse, TypeOK, SinkTypeOK
  <1> QED
    BY <1>1, <1>2, <1>3, <1>4, <1>5, <1>6, <1>7, <1>8, OnSetupResponseTypes, FailedResponseTypes
       DEF OnData, OnResponse

LEMMA OnBinaryDataTypes == ASSUME TypeOK, OnBinaryData PROVE NetTypeOK' /\ SinkTypeOK'
  <1>1. queue' \in Seq(Message)
    BY HandledType DEF OnBinaryData
  <1>2. NetTypeOK'
    BY <1>1, NetTyped, ElsewhereTypes DEF OnBinaryData, Aborts, Outcome
  <1> QED
    BY <1>2 DEF OnBinaryData, sinkVars, TypeOK, SinkTypeOK

\* What the messages name of the RTPSink.
LEMMA OnBuffersTypes ==
  ASSUME TypeOK, OnDatagram \/ OnQueueBuffer PROVE NetTypeOK' /\ SinkTypeOK'
  <1>1. /\ rtpSink # NoSink => rtpSink \in RTPSink /\ rtpSink.id \in Ids
        /\ \A r \in {"none", "made", "player"} :
             rtpSink # NoSink => [rtpSink EXCEPT !.renderer = r] \in RTPSink
    BY DEF TypeOK, SinkTypeOK, RTPSink
  <1>2. CASE OnDatagram
    <2>1. Tail(queue) \in Seq(Message)
      BY <1>2, HeadTailProperties, NetTyped DEF OnDatagram, Comes
    <2>2. queue' \in Seq(Message)
      BY <1>1, <1>2, <2>1, BufferMessage, AppendProperties DEF OnDatagram
    <2>3. NetTypeOK'
      BY <1>2, <2>2, NetTyped, ElsewhereTypes DEF OnDatagram
    <2>4. rtpSink' \in RTPSink \cup {NoSink}
      BY <1>1, <1>2 DEF OnDatagram, TypeOK, SinkTypeOK
    <2> QED
      BY <1>2, <2>3, <2>4 DEF OnDatagram, TypeOK, SinkTypeOK
  <1>3. CASE OnQueueBuffer
    <2>1. queue' \in Seq(Message)
      BY <1>3, HandledType DEF OnQueueBuffer
    <2>2. NetTypeOK'
      BY <1>3, <2>1, NetTyped, ElsewhereTypes DEF OnQueueBuffer
    <2>3. rtpSink' \in RTPSink \cup {NoSink}
      BY <1>1, <1>3 DEF OnQueueBuffer, IsHandler, TypeOK, SinkTypeOK
    <2> QED
      BY <1>3, <2>2, <2>3 DEF OnQueueBuffer, TypeOK, SinkTypeOK
  <1> QED
    BY <1>2, <1>3

LEMMA OnStopTypes ==
  ASSUME TypeOK, OnStopConnected \/ OnStopAtOnce PROVE NetTypeOK' /\ SinkTypeOK'
  <1>1. queue' \in Seq(Message)
    BY HandledType DEF OnStopConnected, OnStopAtOnce
  <1>2. CASE OnStopConnected
    <2>1. /\ sessions' \in Table /\ unsent' \subseteq CSeq
          /\ nextCSeq \in CSeq /\ nextCSeq' \in 1..(MaxCSeq + 1)
      BY <1>2, NetTyped, RequestsType DEF OnStopConnected
    <2>2. NetTypeOK'
      BY <1>1, <1>2, <2>1, NetTyped, InterruptType, ElsewhereTypes DEF OnStopConnected
    <2>3. handlers' \subseteq Handler /\ timer' \in BOOLEAN
      BY <1>2, <2>1 DEF OnStopConnected, TeardownTimer, Handler, TypeOK, SinkTypeOK
    <2> QED
      BY <1>2, <2>1, <2>2, <2>3 DEF OnStopConnected, TypeOK, SinkTypeOK
  <1>3. CASE OnStopAtOnce
    <2>1. NetTypeOK'
      BY <1>1, <1>3, NetTyped, ElsewhereTypes DEF OnStopAtOnce
    <2> QED
      BY <1>3, <2>1 DEF OnStopAtOnce, TypeOK, SinkTypeOK
  <1> QED
    BY <1>2, <1>3

LEMMA OnConnectedTypes == ASSUME TypeOK, OnConnected PROVE NetTypeOK' /\ SinkTypeOK'
  <1>1. queue' \in Seq(Message)
    BY HandledType DEF OnConnected
  <1>2. NetTypeOK'
    BY <1>1, NetTyped, ElsewhereTypes DEF OnConnected
  <1> QED
    BY <1>2 DEF OnConnected, TypeOK, SinkTypeOK

LEMMA ReportsTypes == ASSUME TypeOK, Reports PROVE NetTypeOK' /\ SinkTypeOK'
  <1>1. rtpSink' \in RTPSink
    <2>1. rtpSink \in RTPSink /\ rtpSink.reports + 1 \in 0..MaxReports
      BY MaxReportsAssumption DEF Reports, RTPSink, TypeOK, SinkTypeOK
    <2>2. [rtpSink EXCEPT !.reports = rtpSink.reports + 1] \in RTPSink
      BY <2>1 DEF RTPSink
    <2> QED
      BY <2>2 DEF Reports
  <1>2. sessions' \in Table
    BY NetTyped, SentType DEF Reports
  <1>3. pipe' \in BOOLEAN
    BY NetTyped DEF Reports, Interrupt, IsOpen
  <1>4. NetTypeOK'
    BY <1>2, <1>3, NetTyped, ElsewhereTypes DEF Reports
  <1> QED
    BY <1>1, <1>4 DEF Reports, TypeOK, SinkTypeOK

LEMMA LooperTypes == ASSUME TypeOK, Looper PROVE NetTypeOK' /\ SinkTypeOK'
  BY OnStartTypes, OnErrorTypes, OnConnectedTypes, OnBinaryDataTypes, OnDataTypes, OnBuffersTypes, OnStopTypes
     DEF Looper
-----------------------------------------------------------------------------
(* The activity's thread and the source. *)

LEMMA UiTypes ==
  ASSUME TypeOK, Starts \/ Stops \/ StopsSink \/ JoinsThread PROVE TypeOK'
  <1> USE DEF TypeOK, NetTypeOK, SinkTypeOK, eventVars
  <1>1. CASE Starts
    <2>1. queue' \in Seq(Message)
      <3>1. <<[what |-> "start"]>> \in Seq(Message)
        BY PlainMessage
      <3>2. <<[what |-> "start"], [what |-> "stop"]>> \in Seq(Message)
        BY PlainMessage
      <3> QED
        BY <1>1, <3>1, <3>2 DEF Starts
    <2>2. /\ thread' \in {"none", "collect", "select", "lock", "serve"}
          /\ looper' \in {"off", "running", "stopped"}
          /\ ui' \in {"idle", "running", "await", "exit", "done"}
      BY <1>1 DEF Starts
    <2> QED
      BY <1>1, <2>1, <2>2 DEF Starts, sourceVars
  <1>2. CASE Stops
    <2>1. queue' \in Seq(Message)
      BY <1>2, PlainMessage, PostedType DEF Stops
    <2> QED
      BY <1>2, <2>1 DEF Stops, netVars, threadVars, sourceVars, sinkVars
  <1>3. CASE StopsSink
    <2>1. sessions' \in Table
      <3>1. CASE NoPlayer(rtpSink)
        BY <1>3, <3>1, NetTyped DEF StopsSink
      <3>2. CASE ~NoPlayer(rtpSink)
        BY <1>3, <3>2, NetTyped, DestroyedType DEF StopsSink
      <3> QED
        BY <3>1, <3>2
    <2>2. /\ queue' \in Seq(Message) /\ exiting' \in BOOLEAN /\ pipe' \in BOOLEAN
          /\ rtpSink' \in RTPSink \cup {NoSink}
          /\ ui' \in {"idle", "running", "await", "exit", "done"}
          /\ aborted' \in Outcome
      <3>1. CASE NoPlayer(rtpSink)
        BY <1>3, <3>1 DEF StopsSink, Aborts, Outcome
      <3>2. CASE ~NoPlayer(rtpSink)
        <4>1. pipe' = (pipe \/ TRUE)
          BY <1>3, <3>2 DEF StopsSink, Interrupt
        <4>2. pipe' \in BOOLEAN
          BY <4>1
        <4> QED
          BY <1>3, <3>2, <4>2 DEF StopsSink
      <3> QED
        BY <3>1, <3>2
    <2> QED
      BY <1>3, <2>1, <2>2 DEF StopsSink, threadVars, sourceVars, Table
  <1>4. CASE JoinsThread
    BY <1>4 DEF JoinsThread, threadVars, sourceVars, sinkVars
  <1> QED
    BY <1>1, <1>2, <1>3, <1>4

LEMMA HappensType == ASSUME TypeOK, Happens PROVE events' \in 0..MaxEvents
  BY BoundsAssumption DEF TypeOK, Happens

LEMMA SourceTypes == ASSUME TypeOK, Source PROVE TypeOK'
  <1> USE DEF TypeOK, NetTypeOK, SinkTypeOK, eventVars
  <1>1. CASE Connection
    BY <1>1 DEF Connection, SourceLeaves, threadVars, sinkVars
  <1>2. CASE Disconnection
    <2>1. events' \in 0..MaxEvents
      BY <1>2, HappensType DEF Disconnection
    <2> QED
      BY <1>2, <2>1 DEF Disconnection, SourceLeaves, threadVars, sinkVars
  <1>3. ASSUME NEW r \in Request, Asks(r) PROVE TypeOK'
    <2>1. events' \in 0..MaxEvents
      BY <1>3, HappensType DEF Asks
    <2>2. stream' \in Seq(Received)
      BY <1>3, RequestReceived, AppendProperties DEF Asks
    <2> QED
      BY <1>3, <2>1, <2>2 DEF Asks, SourceLeaves, threadVars, sinkVars
  <1>6. CASE Frames
    <2>1. events' \in 0..MaxEvents
      BY <1>6, HappensType DEF Frames
    <2>2. stream' \in Seq(Received)
      BY <1>6, RequestReceived, AppendProperties DEF Frames
    <2> QED
      BY <1>6, <2>1, <2>2 DEF Frames, SourceLeaves, threadVars, sinkVars
  <1>4. ASSUME NEW c \in CSeq, Answers(c) \/ Refuses(c) PROVE TypeOK'
    <2>1. events' \in 0..MaxEvents /\ faults' \subseteq {"refusal", "frame"}
      BY <1>4, HappensType DEF Answers, Refuses
    <2>2. PICK ok \in BOOLEAN : Responds(c, ok)
      BY <1>4 DEF Answers, Refuses
    <2>3. stream' \in Seq(Received) /\ reached' \subseteq CSeq
      BY <2>2, AnswerReceived, AppendProperties DEF Responds
    <2> QED
      BY <2>1, <2>2, <2>3 DEF Responds, SourceLeaves, threadVars, sinkVars
  <1>5. ASSUME NEW i \in Ids, NEW what \in {"datagram", "empty", "error"}, Arrives(i, what)
        PROVE  TypeOK'
    <2>1. events' \in 0..MaxEvents
      BY <1>5, HappensType DEF Arrives
    <2>2. arrived' \in [Ids -> {"nothing", "datagram", "empty", "error"}]
      BY <1>5 DEF Arrives
    <2> QED
      BY <1>5, <2>1, <2>2 DEF Arrives, SourceLeaves, threadVars, sinkVars
  <1> QED
    BY <1>1, <1>2, <1>3, <1>4, <1>5, <1>6 DEF Source
-----------------------------------------------------------------------------
(* The types of the state, as TypeOK of the run wfd. *)

LEMMA InitTypes == ASSUME Init PROVE TypeOK
  <1>1. /\ sessions \in [Ids -> Session \cup {NoSession}]
        /\ arrived \in [Ids -> {"nothing", "datagram", "empty", "error"}]
    BY DEF Init, NetInit
  <1>2. queue \in Seq(Message) /\ stream \in Seq(Received)
    BY EmptySeq DEF Init, NetInit
  <1>3. NetTypeOK
    <2>1. nextID = 1 /\ thread = "none" /\ exiting = FALSE /\ pipe = FALSE
      BY DEF Init, NetInit
    <2>2. rs \subseteq Fds /\ ws \subseteq Fds /\ unsent \subseteq CSeq /\ reached \subseteq CSeq
      BY DEF Init, NetInit
    <2>3. link = "idle" /\ aborted = "no"
      BY DEF Init, NetInit
    <2>4. nextID \in Nat \ {0} /\ thread \in {"none", "collect", "select", "lock", "serve"}
      BY <2>1
    <2>5. exiting \in BOOLEAN /\ pipe \in BOOLEAN
      BY <2>1
    <2>6. /\ link \in {"idle", "connecting", "refused", "up", "closed", "broken"}
          /\ aborted \in Outcome
      BY <2>3 DEF Outcome
    <2> QED
      BY <1>1, <1>2, <2>2, <2>4, <2>5, <2>6, Zenon DEF NetTypeOK
  <1>4. nextCSeq \in 1..(MaxCSeq + 1)
    BY CSeqAssumption DEF Init, SinkInit
  <1>5. SinkTypeOK
    BY <1>4 DEF Init, SinkInit, SinkTypeOK
  <1> QED
    BY <1>3, <1>5, BoundsAssumption DEF Init, TypeOK

LEMMA NextTypes == ASSUME TypeOK, [Next]_vars PROVE TypeOK'
  <1>1. CASE Network
    <2>1. NetTypeOK'
      BY <1>1, NetworkTypes DEF Network
    <2> QED
      BY <1>1, <2>1 DEF Network, sinkVars, eventVars, TypeOK, SinkTypeOK
  <1>2. CASE LooperRuns
    <2>1. NetTypeOK' /\ SinkTypeOK'
      BY <1>2, LooperTypes DEF LooperRuns
    <2> QED
      BY <1>2, <2>1 DEF LooperRuns, eventVars, TypeOK
  <1>3. CASE ReportsGo
    <2>1. NetTypeOK' /\ SinkTypeOK'
      BY <1>3, ReportsTypes DEF ReportsGo
    <2> QED
      BY <1>3, <2>1 DEF ReportsGo, eventVars, TypeOK
  <1>4. CASE TimesOut
    <2>1. OnTeardownTimedOut /\ UNCHANGED <<ui, eventVars>>
      BY <1>4 DEF TimesOut
    <2>2. NetTypeOK'
      BY <2>1, NetTyped, ElsewhereTypes DEF OnTeardownTimedOut
    <2> QED
      BY <2>1, <2>2 DEF OnTeardownTimedOut, eventVars, TypeOK, SinkTypeOK
  <1>5. CASE Completes \/ Stopping \/ Others
    BY <1>5, UiTypes, SourceTypes
       DEF Completes, PlaybackCompletes, Stopping, Others, SurfaceDestroyed
  <1>6. CASE UNCHANGED vars
    BY <1>6 DEF vars, netVars, threadVars, sourceVars, sinkVars, eventVars, TypeOK, NetTypeOK,
       SinkTypeOK
  <1> QED
    BY <1>1, <1>2, <1>3, <1>4, <1>5, <1>6 DEF Next

\* Every variable keeps to its values: what the threads, the looper and the source store is a
\* message, a session, an RTPSink or a CSeq.
THEOREM TypeCorrect == Spec => []TypeOK
  BY InitTypes, NextTypes, PTL DEF Spec
-----------------------------------------------------------------------------
(* The network thread sleeps only while it waits for all that is wanted. *)

\* Others may change a session under the sleeping thread if they wake it.
LEMMA SleepKept ==
  ASSUME NoLostInterrupt, UNCHANGED <<thread, rs, ws>>,
         pipe' = TRUE \/ UNCHANGED <<sessions, pipe>>
  PROVE  NoLostInterrupt'
  BY DEF NoLostInterrupt, Open, IsOpen, WantsToRead, WantsToWrite

LEMMA LooperWakes ==
  ASSUME TypeOK, Looper \/ Reports \/ OnTeardownTimedOut
  PROVE  UNCHANGED <<thread, rs, ws>> /\ (pipe' = TRUE \/ UNCHANGED <<sessions, pipe>>)
  <1> USE DEF Elsewhere, threadVars
  <1>0. pipe \in BOOLEAN
    BY NetTyped
  <1>1. CASE OnStart
    BY <1>1, <1>0 DEF OnStart, Interrupt
  <1>2. CASE OnError
    <2> DEFINE id == Head(queue).id
               theirs == rtpSink # NoSink /\ id \in SessionsOf(rtpSink)
    <2>1. CASE ErrorIsOwn(id) \/ theirs
      BY <1>2, <2>1 DEF OnError, Interrupt
    <2>2. CASE ~(ErrorIsOwn(id) \/ theirs)
      BY <1>2, <2>2, <1>0 DEF OnError, Interrupt
    <2> QED
      BY <1>2, <2>1, <2>2 DEF OnError
  <1>3. CASE OnConnected \/ OnBinaryData
    BY <1>3 DEF OnConnected, OnBinaryData
  <1>4. CASE OnData
    BY <1>4 DEF OnData, CannotReply, OnReplyRequest, OnOptionsRequest, OnTeardownTrigger,
       OnSetupTrigger, SetupWithoutPlayer, Unsolicited, OnResponse, OnSimpleResponse,
       OnSetupResponse, FailsOnResponse, FailsToConnect, FailsToPlay, Interrupt
  <1>5. CASE OnDatagram \/ OnQueueBuffer
    BY <1>5 DEF OnDatagram, OnQueueBuffer
  <1>6. CASE OnStopConnected \/ OnStopAtOnce \/ OnTeardownTimedOut
    BY <1>6 DEF OnStopConnected, OnStopAtOnce, OnTeardownTimedOut, Interrupt
  <1>7. CASE Reports
    <2>1. CASE IsOpen(sessions, rtpSink.rtcp)
      BY <1>7, <2>1 DEF Reports, Interrupt
    <2>2. CASE ~IsOpen(sessions, rtpSink.rtcp)
      BY <1>7, <2>2, <1>0 DEF Reports, Interrupt, Sent
    <2> QED
      BY <1>7, <2>1, <2>2 DEF Reports
  <1> QED
    BY <1>1, <1>2, <1>3, <1>4, <1>5, <1>6, <1>7 DEF Looper

\* No step leaves the network thread asleep while a session wants what it does not wait for.
LEMMA SleepInductive ==
  ASSUME TypeOK, NoLostInterrupt, [Next]_vars PROVE NoLostInterrupt'
  <1>1. CASE Network
    <2>1. CASE Collects
      BY <2>1 DEF Collects, NoLostInterrupt, Open, IsOpen, WantsToRead, WantsToWrite
    <2>2. CASE ~Collects
      <3>1. thread' # "select"
        BY <1>1, <2>2 DEF Network, NetworkThread, Leaves, SelectFails, Selects, ServedAll,
           ReadsDatagram, ReadsStream, Connects, FindsNothingToSend, Sends, FailsToSend,
           Reads, Writes
      <3> QED
        BY <3>1 DEF NoLostInterrupt
    <2> QED
      BY <2>1, <2>2
  <1>2. CASE LooperRuns \/ ReportsGo \/ TimesOut
    <2>1. UNCHANGED <<thread, rs, ws>> /\ (pipe' = TRUE \/ UNCHANGED <<sessions, pipe>>)
      BY <1>2, LooperWakes DEF LooperRuns, ReportsGo, TimesOut
    <2> QED
      BY <2>1, SleepKept
  <1>3. CASE Completes \/ (Others /\ ~Starts)
    <2>1. UNCHANGED <<thread, rs, ws, sessions, pipe>>
      BY <1>3 DEF Completes, PlaybackCompletes, Others, SurfaceDestroyed, Stops, netVars,
         threadVars, Source, Connection, Disconnection, Asks, Frames, Answers, Refuses, Responds, Arrives, SourceLeaves
    <2> QED
      BY <2>1, SleepKept
  <1>4. CASE Starts
    <2>1. CASE thread' = "collect"
      BY <2>1 DEF NoLostInterrupt
    <2>2. CASE thread' # "collect"
      <3>1. UNCHANGED <<thread, rs, ws, sessions, pipe>>
        BY <1>4, <2>2 DEF Starts
      <3> QED
        BY <3>1, SleepKept
    <2> QED
      BY <2>1, <2>2
  <1>5. CASE Stopping
    <2>1. CASE StopsSink
      <3>1. UNCHANGED <<thread, rs, ws>> /\ (pipe' = TRUE \/ UNCHANGED <<sessions, pipe>>)
        BY <2>1 DEF StopsSink, threadVars, Interrupt
      <3> QED
        BY <3>1, SleepKept
    <2>2. CASE JoinsThread
      BY <2>2 DEF JoinsThread, threadVars, NoLostInterrupt
    <2> QED
      BY <1>5, <2>1, <2>2 DEF Stopping
  <1>6. CASE UNCHANGED vars
    BY <1>6, SleepKept DEF vars, netVars, threadVars
  <1> QED
    BY <1>1, <1>2, <1>3, <1>4, <1>5, <1>6 DEF Next, Others

\* No wake-up is lost: whoever creates, destroys or writes to a session while the network thread
\* may be on its way to sleep leaves it the pipe.
THEOREM WakeUpsArrive == Spec => []NoLostInterrupt
  <1>1. Init => NoLostInterrupt
    BY DEF Init, NetInit, NoLostInterrupt
  <1>2. TypeOK /\ NoLostInterrupt /\ [Next]_vars => NoLostInterrupt'
    BY SleepInductive
  <1> QED
    BY <1>1, <1>2, TypeCorrect, PTL DEF Spec
=============================================================================
