-------------------------- MODULE WfdChecksProofs --------------------------
(***************************************************************************)
(* Proofs about WfdPlayer, for any number of sessions, descriptors, events *)
(* and reports: which CHECKs can fail and when, and whose answer connects  *)
(* an RTPSink.                                                             *)
(***************************************************************************)
EXTENDS WfdPlayerProofs

\* The messages of a queue, or of the stream.
Messages(q) == {q[k] : k \in 1..Len(q)}

\* The start is the first message, before anything was done; data and the connection's success
\* are those of session 1.
QueueInv ==
  /\ \A m \in Messages(queue) :
       /\ m.what = "start" => nextID = 1 /\ state = "UNDEFINED"
       /\ m.what \in {"data", "connected"} => nextID > 1
  /\ queue # <<>> => \A m \in Messages(Tail(queue)) : m.what # "start"

\* Ids are given out in order, and sessions have descriptors of their own; session 1 is the
\* control connection's until its loss was handled.
SessionsInv ==
  /\ \A i \in Ids : IsOpen(sessions, i) => i < nextID
  /\ \A i, j \in Ids :
       IsOpen(sessions, i) /\ IsOpen(sessions, j) /\ sessions[i].fd = sessions[j].fd => i = j
  /\ looper = "running" /\ nextID > 1 /\ ~lost => IsOpen(sessions, 1)
  /\ rtpSink # NoSink => 1 \notin SessionsOf(rtpSink)

\* The life of the player.
UiInv ==
  /\ ui = "idle" => rtpSink = NoSink /\ nextID = 1 /\ state = "UNDEFINED" /\ looper = "off"
  /\ ui = "exit" => looper = "stopped"

\* Until the RTPSink is made again, who is to be written to has something to send: no new
\* session has a descriptor that select waited for.
WritesInv ==
  /\ setups < 2 =>
       \A i \in Ids : IsOpen(sessions, i) /\ sessions[i].fd \in ws =>
                        sessions[i].state = "CONNECTING" \/ sessions[i].out
  /\ nextID = 1 => ws = {}
  /\ setups = 0 =>
       /\ rtpSink = NoSink /\ nextID < 3
       /\ IsOpen(sessions, 1) => \A f \in ws : f = sessions[1].fd

\* A renderer without a player has its first packet in the queue.
RendererInv ==
  NoPlayer(rtpSink) => [what |-> "queueBuffer", sink |-> rtpSink.id] \in Messages(queue)

\* Who waits for the answer to a SETUP made the RTPSink, unless that was made again meanwhile.
HandlersInv ==
  ~overlap => \A h \in handlers : h.func = "Setup" => rtpSink = NoSink \/ h.cseq = rtpSink.setup

\* A frame or a refusal is on its way only if the source made one, and nothing is before the
\* connection is made.
Caused(d) ==
  /\ d.what = "frame" => "frame" \in faults
  /\ d.what = "answer" => d.ok \/ "refusal" \in faults
Made == link \in {"up", "closed", "broken"}
SourceInv ==
  /\ \A d \in Messages(stream) : Caused(d) /\ Made
  /\ \A m \in Messages(queue) :
       /\ m.what = "binaryData" => "frame" \in faults
       /\ m.what = "data" => Caused(m.data)
       /\ m.what \in {"data", "binaryData"} => Made

\* Session 1 is the only one that is no UDP session.
KindInv ==
  \A i \in Ids : IsOpen(sessions, i) => (sessions[i].state = "DATAGRAM" <=> i # 1)

\* The loss of the control connection is told and handled only after its end: what select found
\* to be read of it is there until it is read.
Ended == link \in {"refused", "closed", "broken"}
LossInv ==
  /\ sessionID \in {0, 1}
  /\ lost => Ended
  /\ \A m \in Messages(queue) : m.what = "error" /\ m.id = 1 => Ended
  /\ nextID = 1 => rs = {} /\ link = "idle"
  /\ thread \in {"lock", "serve"} /\ IsOpen(sessions, 1) /\ sessions[1].fd \in rs =>
       stream # <<>> \/ link \in {"closed", "broken"}

\* The error of a UDP session has its cause in what came for it, and it is the RTPSink that
\* has it that loses it.  Who waits for the answer to a SETUP has an RTPSink.
FailedInv ==
  /\ \A i \in Ids : arrived[i] \in {"empty", "error"} => i \in failed
  /\ \A m \in Messages(queue) : m.what = "error" => m.id = 1 \/ m.id \in failed
  /\ rtpSink # NoSink =>
       /\ rtpSink.rtp # rtpSink.id => rtpSink.rtp = 0 /\ rtpSink.id \in failed
       /\ rtpSink.rtcp # rtpSink.id + 1 => rtpSink.rtcp = 0 /\ rtpSink.id + 1 \in failed
  /\ looper = "off" => handlers = {}
  /\ looper = "running" => \A h \in handlers : h.func = "Setup" => rtpSink # NoSink

-----------------------------------------------------------------------------
(* Messages. *)

LEMMA AppendMembers ==
  ASSUME NEW S, NEW q \in Seq(S), NEW m \in S
  PROVE  Messages(Append(q, m)) = Messages(q) \cup {m}
  <1>1. /\ Len(Append(q, m)) = Len(q) + 1 /\ Len(q) \in Nat
        /\ \A k \in 1..Len(q) : Append(q, m)[k] = q[k]
        /\ Append(q, m)[Len(q) + 1] = m
    BY AppendProperties, LenProperties
  <1>2. \A k \in 1..(Len(q) + 1) : k \in 1..Len(q) \/ k = Len(q) + 1
    BY <1>1
  <1>3. Len(q) + 1 \in 1..(Len(q) + 1) /\ \A k \in 1..Len(q) : k \in 1..(Len(q) + 1)
    BY <1>1
  <1> QED
    BY <1>1, <1>2, <1>3 DEF Messages

LEMMA TailMembers ==
  ASSUME NEW S, NEW q \in Seq(S), q # <<>>
  PROVE  /\ Head(q) \in Messages(q)
         /\ Messages(Tail(q)) \subseteq Messages(q)
         /\ Messages(q) \subseteq Messages(Tail(q)) \cup {Head(q)}
  <1>1. /\ Len(q) \in Nat /\ Len(q) > 0 /\ Head(q) = q[1]
        /\ Len(Tail(q)) = Len(q) - 1
        /\ \A k \in 1..(Len(q) - 1) : Tail(q)[k] = q[k + 1]
    BY HeadTailProperties, LenProperties, EmptySeq
  <1>2. \A k \in 1..(Len(q) - 1) : k + 1 \in 1..Len(q)
    BY <1>1
  <1>3. \A k \in 1..Len(q) : k = 1 \/ (k - 1 \in 1..(Len(q) - 1) /\ (k - 1) + 1 = k)
    BY <1>1
  <1>4. 1 \in 1..Len(q)
    BY <1>1
  <1>5. Messages(Tail(q)) \subseteq Messages(q)
    BY <1>1, <1>2 DEF Messages
  <1>6. Messages(q) \subseteq Messages(Tail(q)) \cup {Head(q)}
    <2> SUFFICES ASSUME NEW k \in 1..Len(q) PROVE q[k] \in Messages(Tail(q)) \cup {Head(q)}
      BY DEF Messages
    <2>1. CASE k = 1
      BY <1>1, <2>1
    <2>2. CASE k # 1
      <3>1. k - 1 \in 1..(Len(q) - 1) /\ Tail(q)[k - 1] = q[k]
        BY <1>1, <1>3, <2>2
      <3> QED
        BY <1>1, <3>1 DEF Messages
    <2> QED
      BY <2>1, <2>2
  <1> QED
    BY <1>1, <1>4, <1>5, <1>6 DEF Messages

LEMMA AppendMessages ==
  ASSUME NEW q \in Seq(Message), NEW m \in Message
  PROVE  Messages(Append(q, m)) = Messages(q) \cup {m}
  BY AppendMembers

LEMMA TailMessages ==
  ASSUME NEW q \in Seq(Message), q # <<>>
  PROVE  /\ Head(q) \in Messages(q)
         /\ Messages(Tail(q)) \subseteq Messages(q)
         /\ Messages(q) \subseteq Messages(Tail(q)) \cup {Head(q)}
  BY TailMembers

LEMMA TailOfAppend ==
  ASSUME NEW q \in Seq(Message), NEW m \in Message
  PROVE  \A x \in Messages(Tail(Append(q, m))) :
           x = m \/ (q # <<>> /\ x \in Messages(Tail(q)))
  <1>1. /\ Len(Append(q, m)) = Len(q) + 1 /\ Len(q) \in Nat
        /\ \A k \in 1..Len(q) : Append(q, m)[k] = q[k]
        /\ Append(q, m)[Len(q) + 1] = m
        /\ Append(q, m) \in Seq(Message) /\ Append(q, m) # <<>>
    BY AppendProperties, LenProperties
  <1>2. /\ Len(Tail(Append(q, m))) = Len(q)
        /\ \A k \in 1..Len(q) : Tail(Append(q, m))[k] = Append(q, m)[k + 1]
    BY <1>1, HeadTailProperties
  <1> SUFFICES ASSUME NEW k \in 1..Len(q)
               PROVE  Append(q, m)[k + 1] = m
                        \/ (q # <<>> /\ Append(q, m)[k + 1] \in Messages(Tail(q)))
    BY <1>2 DEF Messages
  <1>3. CASE k = Len(q)
    BY <1>1, <1>3
  <1>4. CASE k # Len(q)
    <2>1. k \in 1..(Len(q) - 1) /\ k + 1 \in 1..Len(q)
      BY <1>1, <1>4
    <2>2. q # <<>> /\ Len(Tail(q)) = Len(q) - 1 /\ Tail(q)[k] = q[k + 1]
      BY <2>1, HeadTailProperties, EmptySeq, LenProperties
    <2>3. q[k + 1] \in Messages(Tail(q))
      BY <2>1, <2>2 DEF Messages
    <2> QED
      BY <1>1, <2>1, <2>2, <2>3
  <1> QED
    BY <1>3, <1>4

\* What is posted keeps the order of the queue, unless it is a start.
LEMMA PostKeeps ==
  ASSUME TypeOK, QueueInv, NEW m \in Message, Post(m), m.what # "start",
         m.what \in {"data", "connected"} => nextID > 1, UNCHANGED <<nextID, state>>
  PROVE  QueueInv'
  <1>1. queue \in Seq(Message) /\ queue' = Append(queue, m)
    BY DEF TypeOK, NetTypeOK, Post
  <1>2. Messages(queue') = Messages(queue) \cup {m}
    BY <1>1, AppendMessages
  <1>3. \A x \in Messages(Tail(queue')) : x = m \/ (queue # <<>> /\ x \in Messages(Tail(queue)))
    BY <1>1, TailOfAppend
  <1> QED
    BY <1>2, <1>3 DEF QueueInv

\* When a message is handled no start is left.
LEMMA HandleKeeps ==
  ASSUME TypeOK, QueueInv, NEW w, Handles(w), nextID' \in Nat, nextID' >= nextID
  PROVE  QueueInv'
  <1>1. queue \in Seq(Message) /\ queue # <<>> /\ queue' = Tail(queue) /\ nextID \in Nat
    BY DEF TypeOK, NetTypeOK, Handles, Comes
  <1>2. \A m \in Messages(queue') : m \in Messages(queue) /\ m.what # "start"
    BY <1>1, TailMessages DEF QueueInv
  <1>3. queue' # <<>> => Messages(Tail(queue')) \subseteq Messages(queue')
    BY <1>1, TailMessages, HeadTailProperties
  <1> QED
    BY <1>1, <1>2, <1>3 DEF QueueInv

LEMMA PostKeepsRenderer ==
  ASSUME TypeOK, RendererInv, NEW m \in Message, Post(m), UNCHANGED rtpSink PROVE RendererInv'
  BY AppendMessages DEF TypeOK, NetTypeOK, Post, RendererInv, NoPlayer

LEMMA HandleKeepsRenderer ==
  ASSUME TypeOK, RendererInv, NEW w, w # "queueBuffer", Handles(w),
         NoPlayer(rtpSink') => NoPlayer(rtpSink) /\ rtpSink'.id = rtpSink.id
  PROVE  RendererInv'
  <1>1. queue \in Seq(Message) /\ queue # <<>> /\ queue' = Tail(queue) /\ Head(queue).what = w
    BY DEF TypeOK, NetTypeOK, Handles, Comes
  <1>2. Messages(queue) \subseteq Messages(queue') \cup {Head(queue)}
    BY <1>1, TailMessages
  <1> QED
    BY <1>1, <1>2 DEF RendererInv, NoPlayer

-----------------------------------------------------------------------------
(* The table of sessions. *)

LEMMA SentFrame ==
  ASSUME NEW s \in Table, NEW id, NEW i \in Ids
  PROVE  /\ IsOpen(Sent(s, id), i) <=> IsOpen(s, i)
         /\ IsOpen(s, i) => /\ Sent(s, id)[i].fd = s[i].fd /\ Sent(s, id)[i].state = s[i].state
                            /\ s[i].out => Sent(s, id)[i].out
                            /\ i = id => Sent(s, id)[i].out
  <1>1. CASE IsOpen(s, id)
    <2>1. id \in Ids /\ s[id] \in Session /\ Sent(s, id) = [s EXCEPT ![id].out = TRUE]
      BY <1>1 DEF IsOpen, Sent, Table
    <2>2. [s[id] EXCEPT !.out = TRUE] \in Session
      BY <2>1 DEF Session
    <2>3. CASE i = id
      BY <2>1, <2>2, <2>3, <1>1, NoSessionAssumption DEF IsOpen, Table, Session
    <2>4. CASE i # id
      BY <2>1, <2>4 DEF IsOpen, Table
    <2> QED
      BY <2>3, <2>4
  <1>2. CASE ~IsOpen(s, id)
    BY <1>2 DEF Sent
  <1> QED
    BY <1>1, <1>2

LEMMA DestroyedFrame ==
  ASSUME NEW s \in Table, NEW D, NEW i \in Ids
  PROVE  /\ IsOpen(Destroyed(s, D), i) <=> IsOpen(s, i) /\ i \notin D
         /\ i \notin D => Destroyed(s, D)[i] = s[i]
  BY DEF Destroyed, IsOpen

LEMMA CreatedFrame ==
  ASSUME NEW s \in Table, NEW id \in Ids, NEW st \in {"CONNECTING", "DATAGRAM"}, NEW f \in Fds,
         NEW i \in Ids
  PROVE  /\ i # id => Created(s, id, st, f)[i] = s[i]
         /\ i = id => /\ Created(s, id, st, f)[i].fd = f /\ Created(s, id, st, f)[i].state = st
         /\ IsOpen(Created(s, id, st, f), i) <=> i = id \/ IsOpen(s, i)
  <1>1. [state |-> st, fd |-> f, out |-> FALSE, sawReceiveFailure |-> FALSE,
         sawSendFailure |-> FALSE] \in Session
    BY DEF Session
  <1> QED
    BY <1>1, NoSessionAssumption DEF Created, IsOpen, Table

-----------------------------------------------------------------------------
(* The order of the messages. *)

LEMMA QueueOfNetwork ==
  ASSUME TypeOK, QueueInv, SessionsInv, NetworkThread, UNCHANGED sinkVars
  PROVE  QueueInv'
  <1>1. UNCHANGED <<nextID, state>>
    BY DEF NetworkThread, Leaves, Collects, SelectFails, Selects, ServedAll, ReadsDatagram,
       ReadsStream, Connects, FindsNothingToSend, Sends, FailsToSend, sinkVars
  <1>2. ASSUME NEW i \in Open PROVE nextID > 1 /\ i \in Ids
    BY <1>2, NetTyped, IdsAssumption DEF Open, SessionsInv
  <1>3. ASSUME UNCHANGED queue PROVE QueueInv'
    BY <1>1, <1>3 DEF QueueInv
  <1>4. ASSUME NEW i \in Open, NEW send \in BOOLEAN, Fails(i, send) PROVE QueueInv'
    BY <1>1, <1>2, <1>4, IdMessage, PostKeeps DEF Fails
  <1>5. ASSUME NEW i \in Ids, ReadsDatagram(i) PROVE QueueInv'
    <2>1. i \in Open
      BY <1>5 DEF ReadsDatagram, Reads, Serves, Due
    <2>2. ASSUME Post([what |-> "datagram", id |-> i]) PROVE QueueInv'
      BY <1>1, <2>2, IdMessage, PostKeeps
    <2> QED
      BY <1>3, <1>4, <1>5, <2>1, <2>2 DEF ReadsDatagram
  <1>6. ASSUME NEW i \in Ids, ReadsStream(i) PROVE QueueInv'
    <2>1. i \in Open
      BY <1>6 DEF ReadsStream, Reads, Serves, Due
    <2>2. CASE stream # <<>>
      <3>1. Head(stream) \in Received /\ Post(Notification(Head(stream)))
        BY <1>6, <2>2, HeadTailProperties DEF ReadsStream, TypeOK, NetTypeOK
      <3>2. Notification(Head(stream)).what # "start"
        BY DEF Notification
      <3> QED
        BY <1>1, <1>2, <2>1, <3>1, <3>2, NotificationMessage, PostKeeps
    <2> QED
      BY <1>4, <1>6, <2>1, <2>2 DEF ReadsStream
  <1>7. ASSUME NEW i \in Ids, Connects(i) PROVE QueueInv'
    <2>1. i \in Open
      BY <1>7 DEF Connects, Writes, Serves, Due
    <2>2. ASSUME Post([what |-> "connected"]) PROVE QueueInv'
      BY <1>1, <1>2, <2>1, <2>2, PlainMessage, PostKeeps
    <2> QED
      BY <1>4, <1>7, <2>1, <2>2 DEF Connects
  <1>8. ASSUME NEW i \in Ids, FailsToSend(i) PROVE QueueInv'
    BY <1>4, <1>8 DEF FailsToSend, Writes, Serves, Due
  <1> QED
    BY <1>3, <1>5, <1>6, <1>7, <1>8
       DEF NetworkThread, Leaves, Collects, SelectFails, Selects, ServedAll,
           FindsNothingToSend, Sends

\* Which message a handler takes, and the ids it gives out.
LEMMA HandlersTake ==
  ASSUME TypeOK, Looper, ~OnDatagram
  PROVE  (\E w : Handles(w)) /\ nextID' \in Nat /\ nextID' >= nextID
  <1>1. \E w : Handles(w)
    BY DEF Looper, OnStart, OnError, OnConnected, OnBinaryData, OnData, CannotReply, OnReplyRequest,
       OnOptionsRequest, OnTeardownTrigger, OnSetupTrigger, SetupWithoutPlayer, HandlesRequest,
       Unsolicited, OnResponse, OnSimpleResponse, OnSetupResponse, FailsOnResponse, FailsToConnect,
       FailsToPlay, HandlesSetupAnswer, HandlesAnswer,
       OnQueueBuffer, OnStopConnected, OnStopAtOnce
  <1>2. nextID' = nextID \/ nextID' = nextID + 1 \/ nextID' = nextID + 2
    BY DEF Looper, OnStart, OnError, OnConnected, OnBinaryData, OnData, CannotReply, OnReplyRequest,
       OnOptionsRequest, OnTeardownTrigger, OnSetupTrigger, SetupWithoutPlayer, Unsolicited,
       OnResponse, OnSimpleResponse, OnSetupResponse, FailsOnResponse, FailsToConnect,
       FailsToPlay, OnQueueBuffer, OnStopConnected,
       OnStopAtOnce
  <1>3. nextID \in Nat
    BY NetTyped
  <1> QED
    BY <1>1, <1>2, <1>3

LEMMA QueueOfLooper == ASSUME TypeOK, QueueInv, Looper PROVE QueueInv'
  <1>1. CASE ~OnDatagram
    <2>1. PICK w : Handles(w)
      BY <1>1, HandlersTake
    <2> QED
      BY <1>1, <2>1, HandlersTake, HandleKeeps
  <1>2. CASE OnDatagram
    <2>1. /\ queue \in Seq(Message) /\ queue # <<>> /\ Tail(queue) \in Seq(Message)
          /\ UNCHANGED <<nextID, state>>
      BY <1>2, NetTyped, HeadTailProperties DEF OnDatagram, Comes
    <2>2. \A m \in Messages(Tail(queue)) : m \in Messages(queue) /\ m.what # "start"
      BY <2>1, TailMessages DEF QueueInv
    <2>3. CASE queue' = Tail(queue)
      <3>1. queue' # <<>> => Messages(Tail(queue')) \subseteq Messages(queue')
        BY <2>1, <2>3, TailMessages
      <3> QED
        BY <2>1, <2>2, <2>3, <3>1 DEF QueueInv
    <2>4. CASE queue' = Append(Tail(queue), [what |-> "queueBuffer", sink |-> rtpSink.id])
               /\ rtpSink # NoSink
      <3> DEFINE m == [what |-> "queueBuffer", sink |-> rtpSink.id]
      <3>1. m \in Message
        BY <2>4, BufferMessage DEF TypeOK, SinkTypeOK, RTPSink
      <3>2. Messages(queue') = Messages(Tail(queue)) \cup {m}
        BY <2>1, <2>4, <3>1, AppendMessages
      <3>3. \A x \in Messages(Tail(queue')) :
              x = m \/ (Tail(queue) # <<>> /\ x \in Messages(Tail(Tail(queue))))
        BY <2>1, <2>4, <3>1, TailOfAppend
      <3>4. Tail(queue) # <<>> => Messages(Tail(Tail(queue))) \subseteq Messages(Tail(queue))
        BY <2>1, TailMessages
      <3>5. m.what = "queueBuffer"
        OBVIOUS
      <3> HIDE DEF m
      <3> QED
        BY <2>1, <2>2, <3>2, <3>3, <3>4, <3>5 DEF QueueInv
    <2> QED
      BY <1>2, <2>3, <2>4 DEF OnDatagram
  <1> QED
    BY <1>1, <1>2

LEMMA QueueOfUi ==
  ASSUME TypeOK, QueueInv, UiInv, Starts \/ Stops \/ StopsSink \/ JoinsThread \/ Source
  PROVE  QueueInv'
  <1>1. UNCHANGED <<nextID, state>>
    BY DEF Starts, Stops, StopsSink, JoinsThread, Source, Connection, Disconnection, Asks,
       Frames, Answers, Refuses, Responds, Arrives, SourceLeaves, netVars, sinkVars
  <1>2. ASSUME UNCHANGED queue PROVE QueueInv'
    BY <1>1, <1>2 DEF QueueInv
  <1>3. CASE Starts
    <2> DEFINE start == [what |-> "start"]
               stop == [what |-> "stop"]
    <2>1. nextID = 1 /\ state = "UNDEFINED"
      BY <1>3 DEF Starts, UiInv
    <2>2. CASE queue' = <<start>>
      <3>1. Messages(queue') = {start} /\ Tail(queue') = <<>> /\ Len(Tail(queue')) = 0
        BY <2>2 DEF Messages
      <3> QED
        BY <1>1, <2>1, <3>1 DEF QueueInv, Messages
    <2>3. CASE queue' = <<start, stop>>
      <3>1. Messages(queue') = {start, stop} /\ Messages(Tail(queue')) = {stop}
        BY <2>3 DEF Messages
      <3> QED
        BY <1>1, <2>1, <3>1 DEF QueueInv
    <2> QED
      BY <1>2, <1>3, <2>2, <2>3 DEF Starts
  <1>4. CASE Stops
    BY <1>1, <1>4, PlainMessage, PostKeeps DEF Stops
  <1>5. CASE StopsSink
    <2>1. CASE queue' = <<>>
      <3>1. Messages(queue') = {}
        BY <2>1 DEF Messages
      <3> QED
        BY <2>1, <3>1 DEF QueueInv
    <2> QED
      BY <1>2, <1>5, <2>1 DEF StopsSink
  <1>6. CASE JoinsThread \/ Source
    BY <1>2, <1>6 DEF JoinsThread, Source, Connection, Disconnection, Asks, Frames, Answers, Refuses, Responds, Arrives,
       SourceLeaves
  <1> QED
    BY <1>3, <1>4, <1>5, <1>6

-----------------------------------------------------------------------------
(* The renderer. *)

LEMMA OthersKeepRenderer ==
  ASSUME TypeOK, Looper, ~OnDatagram, ~OnQueueBuffer
  PROVE  /\ \E w : w # "queueBuffer" /\ Handles(w)
         /\ NoPlayer(rtpSink') => NoPlayer(rtpSink) /\ rtpSink'.id = rtpSink.id
  <1>1. \E w : w # "queueBuffer" /\ Handles(w)
    BY DEF Looper, OnStart, OnError, OnConnected, OnBinaryData, OnData, CannotReply, OnReplyRequest,
       OnOptionsRequest, OnTeardownTrigger, OnSetupTrigger, SetupWithoutPlayer, HandlesRequest,
       Unsolicited, OnResponse, OnSimpleResponse, OnSetupResponse, FailsOnResponse, FailsToConnect,
       FailsToPlay, HandlesSetupAnswer, HandlesAnswer,
       OnStopConnected, OnStopAtOnce
  <1> SUFFICES NoPlayer(rtpSink') => NoPlayer(rtpSink) /\ rtpSink'.id = rtpSink.id
    BY <1>1
  <1>2. rtpSink # NoSink => rtpSink \in RTPSink
    BY DEF TypeOK, SinkTypeOK
  <1>3. CASE OnError
    <2>1. CASE rtpSink' = rtpSink
      BY <2>1 DEF NoPlayer
    <2>2. CASE rtpSink # NoSink
               /\ rtpSink' \in {[rtpSink EXCEPT !.rtp = 0], [rtpSink EXCEPT !.rtcp = 0]}
      <3>1. rtpSink'.renderer = rtpSink.renderer /\ rtpSink'.id = rtpSink.id
        BY <1>2, <2>2 DEF RTPSink
      <3> QED
        BY <2>2, <3>1 DEF NoPlayer
    <2> QED
      BY <1>3, <2>1, <2>2 DEF OnError
  <1>4. CASE OnSetupTrigger
    <2>1. rtpSink'.renderer = "none"
      BY <1>4 DEF OnSetupTrigger, NewSink
    <2> QED
      BY <2>1 DEF NoPlayer
  <1>5. ASSUME NEW h \in handlers, OnSetupResponse(h) \/ FailsToPlay(h)
        PROVE  NoPlayer(rtpSink') => NoPlayer(rtpSink) /\ rtpSink'.id = rtpSink.id
    <2>1. rtpSink # NoSink /\ rtpSink' = [rtpSink EXCEPT !.answer = h.cseq]
      BY <1>5 DEF OnSetupResponse, FailsToPlay, Connected, CanConnect
    <2>2. rtpSink'.renderer = rtpSink.renderer /\ rtpSink'.id = rtpSink.id
      BY <1>2, <2>1 DEF RTPSink
    <2> QED
      BY <2>1, <2>2 DEF NoPlayer
  <1>6. CASE UNCHANGED rtpSink
    BY <1>6 DEF NoPlayer
  <1> QED
    BY <1>3, <1>4, <1>5, <1>6
       DEF Looper, OnStart, OnConnected, OnBinaryData, OnData, CannotReply, OnReplyRequest, OnOptionsRequest,
           OnTeardownTrigger, SetupWithoutPlayer, Unsolicited, OnResponse, OnSimpleResponse,
           FailsOnResponse, FailsToConnect, OnStopConnected, OnStopAtOnce, sinkVars

LEMMA RendererOfLooper == ASSUME TypeOK, RendererInv, Looper PROVE RendererInv'
  <1>0. rtpSink # NoSink => rtpSink \in RTPSink
    BY DEF TypeOK, SinkTypeOK
  <1>1. CASE ~OnDatagram /\ ~OnQueueBuffer
    <2>1. PICK w : w # "queueBuffer" /\ Handles(w)
      BY <1>1, OthersKeepRenderer
    <2> QED
      BY <1>1, <2>1, OthersKeepRenderer, HandleKeepsRenderer
  <1>2. CASE OnDatagram
    <2>1. /\ queue \in Seq(Message) /\ queue # <<>> /\ Tail(queue) \in Seq(Message)
          /\ Head(queue).what = "datagram"
      BY <1>2, NetTyped, HeadTailProperties DEF OnDatagram, Comes
    <2>2. Messages(queue) \subseteq Messages(Tail(queue)) \cup {Head(queue)}
      BY <2>1, TailMessages
    <2>3. CASE queue' = Tail(queue) /\ rtpSink' = rtpSink
      BY <2>1, <2>2, <2>3 DEF RendererInv, NoPlayer
    <2>4. CASE /\ rtpSink # NoSink
               /\ queue' = Append(Tail(queue), [what |-> "queueBuffer", sink |-> rtpSink.id])
               /\ rtpSink' \in {rtpSink, [rtpSink EXCEPT !.renderer = "made"]}
      <3>1. rtpSink.id \in Ids /\ rtpSink'.id = rtpSink.id
        BY <1>0, <2>4 DEF RTPSink
      <3>2. [what |-> "queueBuffer", sink |-> rtpSink.id] \in Messages(queue')
        BY ZenonT(60), <2>1, <2>4, <3>1, BufferMessage, AppendMessages
      <3> QED
        BY <3>1, <3>2 DEF RendererInv
    <2> QED
      BY <1>2, <2>3, <2>4 DEF OnDatagram
  <1>3. CASE OnQueueBuffer
    <2>1. /\ queue \in Seq(Message) /\ queue # <<>> /\ queue' = Tail(queue)
      BY <1>3, NetTyped DEF OnQueueBuffer, Handles, Comes
    <2>2. Messages(queue) \subseteq Messages(queue') \cup {Head(queue)}
      BY <2>1, TailMessages
    <2>3. CASE IsHandler(Head(queue).sink)
      <3>1. rtpSink'.renderer = "player"
        BY <1>0, <1>3, <2>3 DEF OnQueueBuffer, IsHandler, RTPSink
      <3> QED
        BY <3>1 DEF RendererInv, NoPlayer
    <2>4. CASE ~IsHandler(Head(queue).sink)
      <3>1. rtpSink' = rtpSink
        BY <1>3, <2>4 DEF OnQueueBuffer
      <3>2. NoPlayer(rtpSink) => [what |-> "queueBuffer", sink |-> rtpSink.id] # Head(queue)
        BY <2>4 DEF IsHandler, NoPlayer
      <3> QED
        BY <2>2, <3>1, <3>2 DEF RendererInv, NoPlayer
    <2> QED
      BY <2>3, <2>4
  <1> QED
    BY <1>1, <1>2, <1>3

LEMMA RendererOfNetwork ==
  ASSUME TypeOK, RendererInv, NetworkThread, UNCHANGED sinkVars PROVE RendererInv'
  <1>1. UNCHANGED rtpSink
    BY DEF sinkVars
  <1>2. ASSUME UNCHANGED queue PROVE RendererInv'
    BY <1>1, <1>2 DEF RendererInv
  <1>3. ASSUME NEW i \in Ids, NEW send \in BOOLEAN, Fails(i, send) PROVE RendererInv'
    BY <1>1, <1>3, IdMessage, PostKeepsRenderer DEF Fails
  <1>4. ASSUME NEW i \in Ids, ReadsDatagram(i) PROVE RendererInv'
    <2>1. ASSUME Post([what |-> "datagram", id |-> i]) PROVE RendererInv'
      BY <1>1, <2>1, IdMessage, PostKeepsRenderer
    <2> QED
      BY <1>2, <1>3, <1>4, <2>1 DEF ReadsDatagram
  <1>5. ASSUME NEW i \in Ids, ReadsStream(i) PROVE RendererInv'
    <2>1. CASE stream # <<>>
      <3>1. Head(stream) \in Received /\ Post(Notification(Head(stream)))
        BY <1>5, <2>1, HeadTailProperties DEF ReadsStream, TypeOK, NetTypeOK
      <3> QED
        BY <1>1, <3>1, NotificationMessage, PostKeepsRenderer
    <2> QED
      BY <1>3, <1>5, <2>1 DEF ReadsStream
  <1>6. ASSUME NEW i \in Ids, Connects(i) PROVE RendererInv'
    <2>1. ASSUME Post([what |-> "connected"]) PROVE RendererInv'
      BY <1>1, <2>1, PlainMessage, PostKeepsRenderer
    <2> QED
      BY <1>3, <1>6, <2>1 DEF Connects
  <1>7. ASSUME NEW i \in Ids, FailsToSend(i) PROVE RendererInv'
    BY <1>3, <1>7 DEF FailsToSend
  <1> QED
    BY <1>2, <1>4, <1>5, <1>6, <1>7
       DEF NetworkThread, Leaves, Collects, SelectFails, Selects, ServedAll,
           FindsNothingToSend, Sends

LEMMA RendererOfOthers ==
  ASSUME TypeOK, RendererInv, UiInv,
         Reports \/ Starts \/ Stops \/ StopsSink \/ JoinsThread \/ Source
  PROVE  RendererInv'
  <1>1. CASE Reports
    <2>1. rtpSink \in RTPSink /\ UNCHANGED queue
      BY <1>1 DEF Reports, TypeOK, SinkTypeOK
    <2>2. rtpSink'.renderer = rtpSink.renderer /\ rtpSink'.id = rtpSink.id
      BY <1>1, <2>1 DEF Reports, RTPSink
    <2> QED
      BY <1>1, <2>1, <2>2 DEF Reports, RendererInv, NoPlayer
  <1>2. CASE Starts
    BY <1>2 DEF Starts, UiInv, RendererInv, NoPlayer
  <1>3. CASE Stops
    <2>1. Post([what |-> "stop"]) /\ UNCHANGED rtpSink
      BY <1>3 DEF Stops, sinkVars
    <2> QED
      BY <2>1, PlainMessage, PostKeepsRenderer
  <1>4. CASE StopsSink
    BY <1>4 DEF StopsSink, RendererInv, NoPlayer
  <1>5. CASE JoinsThread \/ Source
    <2>1. UNCHANGED <<queue, rtpSink>>
      BY <1>5 DEF JoinsThread, Source, Connection, Disconnection, Asks, Frames, Answers, Refuses, Responds, Arrives,
         SourceLeaves, sinkVars
    <2> QED
      BY <2>1 DEF RendererInv
  <1> QED
    BY <1>1, <1>2, <1>3, <1>4, <1>5

-----------------------------------------------------------------------------
(* The player's life and the handlers of responses. *)

LEMMA UiKept == ASSUME UiInv, [Next]_vars PROVE UiInv'
  <1>1. CASE LooperRuns \/ ReportsGo \/ TimesOut
    <2>1. looper = "running" /\ UNCHANGED <<looper, ui>>
      BY <1>1
         DEF LooperRuns, ReportsGo, TimesOut, Reports, OnTeardownTimedOut, Looper, OnStart,
             OnError, OnConnected, OnBinaryData, OnData, CannotReply, OnReplyRequest, OnOptionsRequest,
             OnTeardownTrigger, OnSetupTrigger, SetupWithoutPlayer, HandlesRequest, Unsolicited,
             OnResponse, OnSimpleResponse, OnSetupResponse, FailsOnResponse, FailsToConnect,
       FailsToPlay, HandlesSetupAnswer, HandlesAnswer, OnDatagram,
             OnQueueBuffer, OnStopConnected, OnStopAtOnce, Handles, Comes, sinkVars
    <2> QED
      BY <2>1 DEF UiInv
  <1>2. CASE Network \/ (Others /\ Source) \/ UNCHANGED vars
    <2>1. UNCHANGED <<looper, ui, rtpSink, nextID, state>>
      BY <1>2
         DEF Network, NetworkThread, Leaves, Collects, SelectFails, Selects, ServedAll,
             ReadsDatagram, ReadsStream, Connects, FindsNothingToSend, Sends, FailsToSend,
             Source, Connection, Disconnection, Asks, Frames, Answers, Refuses, Responds, Arrives, SourceLeaves, sinkVars,
             vars, netVars
    <2> QED
      BY <2>1 DEF UiInv
  <1>3. CASE Starts \/ Stops \/ StopsSink \/ JoinsThread
    BY <1>3 DEF Starts, Stops, StopsSink, JoinsThread, UiInv, netVars, sinkVars
  <1> QED
    BY <1>1, <1>2, <1>3
       DEF Next, Completes, PlaybackCompletes, Stopping, Others, SurfaceDestroyed

\* An RTPSink and its handler are made by the same SETUP, and the handler connects it.
LEMMA TransportOfLooper ==
  ASSUME TypeOK, HandlersInv, TransportIsOwn, Looper PROVE HandlersInv' /\ TransportIsOwn'
  <1>0. /\ rtpSink # NoSink => rtpSink \in RTPSink
        /\ NoSink \notin RTPSink
    BY NoSinkAssumption DEF TypeOK, SinkTypeOK
  <1> DEFINE Same == /\ rtpSink' # NoSink =>
                          /\ rtpSink # NoSink
                          /\ rtpSink'.setup = rtpSink.setup /\ rtpSink'.answer = rtpSink.answer
                     /\ \A h \in handlers' : h.func = "Setup" => h \in handlers
                     /\ UNCHANGED overlap
  <1>1. ASSUME Same PROVE HandlersInv' /\ TransportIsOwn'
    BY <1>1 DEF HandlersInv, TransportIsOwn
  <1>2. CASE OnSetupTrigger
    <2>1. /\ rtpSink'.setup = nextCSeq /\ rtpSink'.answer = 0
      BY <1>2 DEF OnSetupTrigger, NewSink
    <2>2. /\ handlers' = handlers \cup {[cseq |-> nextCSeq, func |-> "Setup"]}
          /\ ~overlap' => \A h \in handlers : h.func # "Setup"
      BY <1>2 DEF OnSetupTrigger
    <2>3. \A h \in handlers' : ~overlap' /\ h.func = "Setup" => h.cseq = nextCSeq
      BY <2>2
    <2> QED
      BY <2>1, <2>3 DEF HandlersInv, TransportIsOwn
  <1>3. ASSUME NEW h \in handlers, OnSetupResponse(h) \/ FailsToPlay(h)
        PROVE  HandlersInv' /\ TransportIsOwn'
    <2>1. /\ rtpSink # NoSink /\ h.func = "Setup" /\ UNCHANGED overlap
          /\ rtpSink' = [rtpSink EXCEPT !.answer = h.cseq]
          /\ handlers' \subseteq handlers \cup {[cseq |-> nextCSeq, func |-> "Play"]}
      BY <1>3 DEF OnSetupResponse, FailsToPlay, Connected, CanConnect, HandlesSetupAnswer
    <2>2. rtpSink'.answer = h.cseq /\ rtpSink'.setup = rtpSink.setup
      BY <1>0, <2>1 DEF RTPSink
    <2>3. \A g \in handlers' : g.func = "Setup" => g \in handlers
      BY <2>1
    <2> QED
      BY <2>1, <2>2, <2>3 DEF HandlersInv, TransportIsOwn
  <1>4. CASE OnError
    <2>1. CASE rtpSink' = rtpSink
      BY <1>1, <1>4, <2>1 DEF OnError
    <2>2. CASE rtpSink # NoSink
               /\ rtpSink' \in {[rtpSink EXCEPT !.rtp = 0], [rtpSink EXCEPT !.rtcp = 0]}
      <3>1. rtpSink'.setup = rtpSink.setup /\ rtpSink'.answer = rtpSink.answer
        BY <1>0, <2>2 DEF RTPSink
      <3> QED
        BY <1>1, <1>4, <2>2, <3>1 DEF OnError
    <2> QED
      BY <1>4, <2>1, <2>2 DEF OnError
  <1>5. CASE OnDatagram \/ OnQueueBuffer
    <2>1. CASE rtpSink' = rtpSink
      BY <1>1, <1>5, <2>1 DEF OnDatagram, OnQueueBuffer
    <2>2. CASE /\ rtpSink # NoSink
               /\ \E r \in {"made", "player"} : rtpSink' = [rtpSink EXCEPT !.renderer = r]
      <3>1. rtpSink'.setup = rtpSink.setup /\ rtpSink'.answer = rtpSink.answer
        BY <1>0, <2>2 DEF RTPSink
      <3> QED
        BY <1>1, <1>5, <2>2, <3>1 DEF OnDatagram, OnQueueBuffer
    <2> QED
      BY <1>5, <2>1, <2>2 DEF OnDatagram, OnQueueBuffer, IsHandler
  <1>6. CASE OnOptionsRequest \/ OnStopConnected
    <2>1. ASSUME NEW w \in {"M2", "M8"}, handlers' = handlers \cup {[cseq |-> nextCSeq, func |-> w]}
          PROVE  \A h \in handlers' : h.func = "Setup" => h \in handlers
      BY <2>1
    <2>2. \A h \in handlers' : h.func = "Setup" => h \in handlers
      BY <1>6, <2>1 DEF OnOptionsRequest, OnStopConnected
    <2> QED
      BY <1>1, <1>6, <2>2 DEF OnOptionsRequest, OnStopConnected
  <1>7. CASE UNCHANGED <<rtpSink, overlap>> /\ handlers' \subseteq handlers
    BY <1>1, <1>7
  <1> QED
    BY <1>2, <1>3, <1>4, <1>5, <1>6, <1>7
       DEF Looper, OnStart, OnConnected, OnBinaryData, OnData, CannotReply, OnReplyRequest, OnTeardownTrigger,
           SetupWithoutPlayer, Unsolicited, OnResponse, OnSimpleResponse, FailsOnResponse,
           FailsToConnect, OnStopAtOnce, sinkVars

LEMMA TransportKept ==
  ASSUME TypeOK, HandlersInv, TransportIsOwn, [Next]_vars PROVE HandlersInv' /\ TransportIsOwn'
  <1>1. CASE Looper
    BY <1>1, TransportOfLooper
  <1>2. CASE Reports
    <2>1. rtpSink \in RTPSink /\ rtpSink # NoSink
      BY <1>2 DEF Reports, TypeOK, SinkTypeOK
    <2>2. rtpSink'.setup = rtpSink.setup /\ rtpSink'.answer = rtpSink.answer
      BY <1>2, <2>1 DEF Reports, RTPSink
    <2> QED
      BY <1>2, <2>1, <2>2 DEF Reports, HandlersInv, TransportIsOwn
  <1>3. CASE StopsSink
    BY <1>3 DEF StopsSink, HandlersInv, TransportIsOwn
  <1>4. CASE UNCHANGED <<rtpSink, handlers, overlap>>
    BY <1>4 DEF HandlersInv, TransportIsOwn
  <1> QED
    BY <1>1, <1>2, <1>3, <1>4
       DEF Next, Network, LooperRuns, ReportsGo, TimesOut, OnTeardownTimedOut, Completes,
           PlaybackCompletes, Stopping, Others, SurfaceDestroyed, Starts, Stops, JoinsThread,
           Source, Connection, Disconnection, Asks, Frames, Answers, Refuses, Responds, Arrives, SourceLeaves, sinkVars,
           vars

\* TransportIsOwn of the run wfd: the ports an RTPSink is connected to are those of the answer to
\* its own SETUP, for any number of SETUPs, unless one came before the last was answered.
THEOREM TransportIsRight == Spec => []TransportIsOwn
  <1>1. Init => HandlersInv /\ TransportIsOwn
    BY DEF Init, SinkInit, HandlersInv, TransportIsOwn
  <1>2. TypeOK /\ HandlersInv /\ TransportIsOwn /\ [Next]_vars => HandlersInv' /\ TransportIsOwn'
    BY TransportKept
  <1> QED
    BY <1>1, <1>2, TypeCorrect, PTL DEF Spec

-----------------------------------------------------------------------------
(* The sessions, step by step.  Most steps make none: those that are open were, with the same *)
(* descriptor.                                                                                *)

NoneMade ==
  \A i \in Ids :
    IsOpen(sessions', i) => IsOpen(sessions, i) /\ sessions'[i].fd = sessions[i].fd

NoneLost == \A i \in Ids : IsOpen(sessions, i) => IsOpen(sessions', i)

HasToSend(s, i) == s[i].state = "CONNECTING" \/ s[i].out

LEMMA SessionsKept ==
  ASSUME TypeOK, SessionsInv, NoneMade, UNCHANGED nextID,
         rtpSink' # NoSink => 1 \notin SessionsOf(rtpSink'),
         looper' = "running" /\ ~lost' /\ nextID > 1 =>
           looper = "running" /\ ~lost /\ (IsOpen(sessions, 1) => IsOpen(sessions', 1))
  PROVE  SessionsInv'
  BY DEF SessionsInv, NoneMade

LEMMA WritesKept ==
  ASSUME TypeOK, WritesInv, NoneMade, UNCHANGED <<nextID, setups>>, ws' \subseteq ws,
         \A i \in Ids : IsOpen(sessions', i) /\ sessions'[i].fd \in ws' /\ HasToSend(sessions, i)
                          => HasToSend(sessions', i),
         rtpSink = NoSink => rtpSink' = NoSink
  PROVE  WritesInv'
  BY IdsAssumption DEF WritesInv, NoneMade, HasToSend

\* A session that fails keeps all but the mark of its failure.
LEMMA FailsFrame ==
  ASSUME TypeOK, NEW i \in Open, NEW send \in BOOLEAN, Fails(i, send)
  PROVE  NoneMade /\ NoneLost /\ \A k \in Ids : HasToSend(sessions, k) => HasToSend(sessions', k)
  <1>1. i \in Ids /\ sessions \in Table /\ sessions[i] \in Session
    BY NetTyped DEF Open, IsOpen, Table
  <1>2. \/ sessions' = [sessions EXCEPT ![i] = [sessions[i] EXCEPT !.sawSendFailure = TRUE]]
        \/ sessions' = [sessions EXCEPT ![i] = [sessions[i] EXCEPT !.sawReceiveFailure = TRUE]]
    BY DEF Fails
  <1>3. \A r \in {[sessions[i] EXCEPT !.sawSendFailure = TRUE],
                  [sessions[i] EXCEPT !.sawReceiveFailure = TRUE]} :
          /\ r \in Session /\ r.fd = sessions[i].fd /\ r.out = sessions[i].out
          /\ r.state = sessions[i].state
    BY <1>1 DEF Session
  <1>4. PICK r \in Session : /\ sessions' = [sessions EXCEPT ![i] = r] /\ r.fd = sessions[i].fd
                             /\ r.out = sessions[i].out /\ r.state = sessions[i].state
    BY <1>2, <1>3
  <1>5. sessions'[i] = r /\ \A k \in Ids \ {i} : sessions'[k] = sessions[k]
    BY <1>1, <1>4 DEF Table
  <1> QED
    BY <1>1, <1>4, <1>5, NoSessionAssumption DEF NoneMade, NoneLost, HasToSend, IsOpen

LEMMA SameFrame ==
  ASSUME UNCHANGED sessions
  PROVE  NoneMade /\ NoneLost /\ \A k \in Ids : HasToSend(sessions, k) => HasToSend(sessions', k)
  BY DEF NoneMade, NoneLost, HasToSend

\* What the network thread does to the sessions.
LEMMA NetworkFrame ==
  ASSUME TypeOK, NetworkThread
  PROVE  /\ NoneMade /\ NoneLost /\ UNCHANGED nextID
         /\ ~Collects => ws' \subseteq ws
         /\ \A k \in Ids : IsOpen(sessions, k) /\ HasToSend(sessions, k) =>
              HasToSend(sessions', k) \/ (~Collects /\ sessions[k].fd \notin ws')
  <1> DEFINE Goal == /\ NoneMade /\ NoneLost /\ UNCHANGED nextID
                     /\ ~Collects => ws' \subseteq ws
                     /\ \A k \in Ids : IsOpen(sessions, k) /\ HasToSend(sessions, k) =>
                          HasToSend(sessions', k) \/ (~Collects /\ sessions[k].fd \notin ws')
  <1> SUFFICES Goal
    OBVIOUS
  <1>0. sessions \in Table /\ ws \subseteq Fds
    BY DEF TypeOK, NetTypeOK, Table
  <1>1. CASE Collects
    BY <1>1, SameFrame DEF Collects
  <1>2. ASSUME ~Collects, UNCHANGED <<sessions, nextID>>, ws' \subseteq ws PROVE Goal
    BY <1>2, SameFrame
  <1>3. ASSUME ~Collects, NEW i \in Open, NEW send \in BOOLEAN, Fails(i, send),
               UNCHANGED nextID, ws' \subseteq ws
        PROVE  Goal
    BY <1>3, FailsFrame
  <1>4. CASE ~Collects /\ (Leaves \/ SelectFails \/ Selects \/ ServedAll)
    <2>1. ws' \subseteq ws /\ UNCHANGED <<sessions, nextID>>
      BY <1>4 DEF Leaves, SelectFails, Selects, ServedAll
    <2> QED
      BY <1>2, <1>4, <2>1
  <1>5. ASSUME ~Collects, NEW i \in Ids, ReadsDatagram(i) \/ ReadsStream(i) PROVE Goal
    <2>1. i \in Open /\ UNCHANGED <<ws, nextID>>
      BY <1>5 DEF ReadsDatagram, ReadsStream, Reads, Serves, Due
    <2> QED
      BY <1>2, <1>3, <1>5, <2>1 DEF ReadsDatagram, ReadsStream
  <1>6. ASSUME ~Collects, NEW i \in Ids, Connects(i) \/ FindsNothingToSend(i) \/ Sends(i)
                                           \/ FailsToSend(i)
        PROVE  Goal
    <2>1. i \in Open /\ UNCHANGED nextID /\ ws' = ws \ {sessions[i].fd}
      BY <1>6 DEF Connects, FindsNothingToSend, Sends, FailsToSend, Writes, Serves, Due
    <2>2. ASSUME NEW r \in Session, sessions' = [sessions EXCEPT ![i] = r],
                 r.fd = sessions[i].fd
          PROVE  Goal
      <3>1. sessions'[i] = r /\ \A k \in Ids \ {i} : sessions'[k] = sessions[k]
        BY <1>0, <2>2 DEF Table
      <3>2. NoneMade /\ NoneLost
        BY <2>1, <2>2, <3>1, NoSessionAssumption DEF NoneMade, NoneLost, IsOpen, Open
      <3> QED
        BY <1>6, <2>1, <3>1, <3>2 DEF HasToSend
    <2>3. sessions[i] \in Session
      BY <1>0, <2>1 DEF Open, IsOpen, Table
    <2>4. /\ [sessions[i] EXCEPT !.state = "CONNECTED"] \in Session
          /\ [sessions[i] EXCEPT !.state = "CONNECTED"].fd = sessions[i].fd
          /\ [sessions[i] EXCEPT !.out = FALSE] \in Session
          /\ [sessions[i] EXCEPT !.out = FALSE].fd = sessions[i].fd
      BY <2>3 DEF Session
    <2>5. CASE sessions' = [sessions EXCEPT ![i].state = "CONNECTED"]
      BY <2>2, <2>4, <2>5
    <2>6. CASE sessions' = [sessions EXCEPT ![i].out = FALSE]
      BY <2>2, <2>4, <2>6
    <2>7. CASE UNCHANGED sessions
      BY <1>2, <1>6, <2>1, <2>7
    <2>8. CASE Fails(i, TRUE)
      BY <1>3, <1>6, <2>1, <2>8
    <2> QED
      BY <1>6, <2>5, <2>6, <2>7, <2>8 DEF Connects, FindsNothingToSend, Sends, FailsToSend
  <1> QED
    BY <1>1, <1>4, <1>5, <1>6 DEF NetworkThread

LEMMA SessionsOfNetwork ==
  ASSUME TypeOK, SessionsInv, WritesInv, NetworkThread, UNCHANGED sinkVars
  PROVE  SessionsInv' /\ WritesInv'
  <1>1. SessionsInv'
    BY NetworkFrame, SessionsKept, IdsAssumption DEF sinkVars, SessionsInv, NoneLost
  <1>2. CASE ~Collects
    <2>1. \A i \in Ids : IsOpen(sessions', i) /\ sessions'[i].fd \in ws' /\ HasToSend(sessions, i)
                           => HasToSend(sessions', i)
      BY <1>2, NetworkFrame DEF NoneMade
    <2> QED
      BY <1>1, <1>2, <2>1, NetworkFrame, WritesKept DEF sinkVars
  <1>3. CASE Collects
    <2>1. /\ UNCHANGED <<sessions, nextID, setups, rtpSink>>
          /\ \A f \in ws' : \E j \in Ids : /\ IsOpen(sessions, j) /\ sessions[j].fd = f
                                           /\ HasToSend(sessions, j)
      BY <1>3 DEF Collects, WantsToWrite, Open, HasToSend, sinkVars
    <2>2. \A i \in Ids : IsOpen(sessions, i) /\ sessions[i].fd \in ws' => HasToSend(sessions, i)
      BY <2>1 DEF SessionsInv
    <2>3. nextID = 1 => ws' = {}
      BY <2>1, IdsAssumption DEF SessionsInv
    <2>4. nextID < 3 => \A f \in ws' : f = sessions[1].fd
      BY <2>1, NetTyped, IdsAssumption DEF SessionsInv
    <2> QED
      BY <1>1, <2>1, <2>2, <2>3, <2>4 DEF WritesInv, HasToSend
  <1> QED
    BY <1>1, <1>2, <1>3

\* What is sent to a session, or to none.
LEMMA SendsFrame ==
  ASSUME TypeOK, NEW id, sessions' = sessions \/ sessions' = Sent(sessions, id)
  PROVE  NoneMade /\ NoneLost /\ \A k \in Ids : IsOpen(sessions', k) /\ HasToSend(sessions, k)
                                                  => HasToSend(sessions', k)
  BY SameFrame, SentFrame, NetTyped DEF NoneMade, NoneLost, HasToSend

\* A step of the looper that makes and loses no session.
LEMMA SessionsOfSending ==
  ASSUME TypeOK, SessionsInv, WritesInv, NEW id,
         sessions' = sessions \/ sessions' = Sent(sessions, id),
         UNCHANGED <<nextID, ws, looper, lost, setups>>,
         SessionsOf(rtpSink') \subseteq SessionsOf(rtpSink),
         rtpSink = NoSink <=> rtpSink' = NoSink
  PROVE  SessionsInv' /\ WritesInv'
  <1>1. SessionsInv'
    BY SendsFrame, SessionsKept, IdsAssumption DEF SessionsInv, NoneLost
  <1>2. WritesInv'
    BY SendsFrame, WritesKept
  <1> QED
    BY <1>1, <1>2

\* The RTPSink keeps its sessions when its other fields change.
LEMMA SinkFields ==
  ASSUME TypeOK, rtpSink # NoSink
  PROVE  /\ \A c \in CSeq : LET k == [rtpSink EXCEPT !.answer = c]
                            IN  k # NoSink /\ SessionsOf(k) = SessionsOf(rtpSink)
         /\ \A r \in {"none", "made", "player"} :
              LET k == [rtpSink EXCEPT !.renderer = r]
              IN  k # NoSink /\ SessionsOf(k) = SessionsOf(rtpSink)
         /\ rtpSink.reports < MaxReports =>
              LET k == [rtpSink EXCEPT !.reports = @ + 1]
              IN  k # NoSink /\ SessionsOf(k) = SessionsOf(rtpSink)
         /\ LET k == [rtpSink EXCEPT !.rtp = 0]
            IN  k # NoSink /\ SessionsOf(k) \subseteq SessionsOf(rtpSink) \cup {0}
         /\ LET k == [rtpSink EXCEPT !.rtcp = 0]
            IN  k # NoSink /\ SessionsOf(k) \subseteq SessionsOf(rtpSink) \cup {0}
  <1>1. rtpSink \in RTPSink
    BY DEF TypeOK, SinkTypeOK
  <1>2. \A c \in CSeq : /\ [rtpSink EXCEPT !.answer = c] \in RTPSink
                        /\ [rtpSink EXCEPT !.answer = c].rtp = rtpSink.rtp
                        /\ [rtpSink EXCEPT !.answer = c].rtcp = rtpSink.rtcp
    BY <1>1 DEF RTPSink
  <1>3. \A r \in {"none", "made", "player"} :
          /\ [rtpSink EXCEPT !.renderer = r] \in RTPSink
          /\ [rtpSink EXCEPT !.renderer = r].rtp = rtpSink.rtp
          /\ [rtpSink EXCEPT !.renderer = r].rtcp = rtpSink.rtcp
    BY <1>1 DEF RTPSink
  <1>4. rtpSink.reports < MaxReports =>
          /\ [rtpSink EXCEPT !.reports = @ + 1] \in RTPSink
          /\ [rtpSink EXCEPT !.reports = @ + 1].rtp = rtpSink.rtp
          /\ [rtpSink EXCEPT !.reports = @ + 1].rtcp = rtpSink.rtcp
    BY <1>1, MaxReportsAssumption DEF RTPSink
  <1>5. /\ [rtpSink EXCEPT !.rtp = 0] \in RTPSink /\ [rtpSink EXCEPT !.rtcp = 0] \in RTPSink
        /\ [rtpSink EXCEPT !.rtp = 0].rtp = 0 /\ [rtpSink EXCEPT !.rtp = 0].rtcp = rtpSink.rtcp
        /\ [rtpSink EXCEPT !.rtcp = 0].rtcp = 0 /\ [rtpSink EXCEPT !.rtcp = 0].rtp = rtpSink.rtp
    BY <1>1 DEF RTPSink
  <1> QED
    BY <1>2, <1>3, <1>4, <1>5, NoSinkAssumption DEF SessionsOf

LEMMA SessionsOfOnStart ==
  ASSUME TypeOK, QueueInv, SessionsInv, WritesInv, OnStart PROVE SessionsInv' /\ WritesInv'
  <1>1. /\ queue \in Seq(Message) /\ queue # <<>> /\ Head(queue).what = "start"
        /\ UNCHANGED <<looper, lost, ws, setups, rtpSink>>
    BY NetTyped DEF OnStart, Handles, Comes, threadVars
  <1>2. nextID = 1
    BY <1>1, TailMessages DEF QueueInv
  <1>3. CASE UNCHANGED <<sessions, nextID>>
    BY <1>1, <1>3, SessionsOfSending
  <1>4. ASSUME NEW f \in Fds, nextID \in Ids,
               sessions' = Created(sessions, nextID, "CONNECTING", f), nextID' = nextID + 1
        PROVE  SessionsInv' /\ WritesInv'
    <2>1. /\ \A i \in Ids : IsOpen(sessions', i) <=> i = 1
          /\ sessions'[1].fd = f /\ sessions'[1].state = "CONNECTING"
      <3>1. \A i \in Ids : ~IsOpen(sessions, i)
        BY <1>2, IdsAssumption DEF SessionsInv
      <3> QED
        BY <1>2, <1>4, <3>1, CreatedFrame, NetTyped
    <2>2. SessionsInv'
      <3>1. \A i \in Ids : IsOpen(sessions', i) => i < nextID'
        BY <1>2, <1>4, <2>1
      <3>2. IsOpen(sessions', 1)
        BY <2>1, IdsAssumption
      <3> QED
        BY <1>1, <2>1, <3>1, <3>2 DEF SessionsInv
    <2>3. WritesInv'
      BY <1>1, <1>2, <1>4, <2>1 DEF WritesInv
    <2> QED
      BY <2>2, <2>3
  <1> QED
    BY <1>3, <1>4 DEF OnStart

LEMMA SessionsOfOnError ==
  ASSUME TypeOK, SessionsInv, WritesInv, OnError PROVE SessionsInv' /\ WritesInv'
  <1> DEFINE id == Head(queue).id
             isSinks == rtpSink # NoSink /\ id \in SessionsOf(rtpSink)
  <1>1. /\ UNCHANGED <<looper, ws, setups, nextID>>
        /\ lost' = (lost \/ ErrorIsOwn(id))
        /\ sessions' = IF ErrorIsOwn(id) \/ isSinks THEN Destroyed(sessions, {id}) ELSE sessions
        /\ rtpSink' = IF ~isSinks THEN rtpSink
                      ELSE IF id = rtpSink.rtp THEN [rtpSink EXCEPT !.rtp = 0]
                      ELSE [rtpSink EXCEPT !.rtcp = 0]
    BY DEF OnError, Elsewhere, threadVars
  <1>2. sessions \in Table
    BY NetTyped
  <1>3. NoneMade /\ \A k \in Ids : IsOpen(sessions', k) => sessions'[k] = sessions[k]
    BY <1>1, <1>2, DestroyedFrame DEF NoneMade
  <1>4. /\ rtpSink' # NoSink => rtpSink # NoSink
        /\ SessionsOf(rtpSink') \subseteq SessionsOf(rtpSink) \cup {0}
    BY <1>1, SinkFields
  <1>5. isSinks => id # 1
    BY DEF SessionsInv
  <1>6. ~lost' => ~lost /\ (IsOpen(sessions, 1) => IsOpen(sessions', 1))
    <2>1. ~lost' => ~lost /\ ~ErrorIsOwn(id)
      BY <1>1
    <2>2. CASE isSinks
      <3>1. 1 \notin {id} /\ 1 \in Ids
        BY <1>5, <2>2, IdsAssumption
      <3>2. sessions' = Destroyed(sessions, {id})
        BY <1>1, <2>2
      <3> HIDE DEF id
      <3> QED
        BY <1>2, <2>1, <3>1, <3>2, DestroyedFrame
    <2>3. CASE ~isSinks /\ ~ErrorIsOwn(id)
      BY <1>1, <2>1, <2>3
    <2> QED
      BY <2>1, <2>2, <2>3
  <1>7. SessionsInv'
    <2>1. rtpSink' # NoSink => 1 \notin SessionsOf(rtpSink')
      BY <1>4 DEF SessionsInv
    <2> QED
      BY <1>1, <1>3, <1>6, <2>1, SessionsKept
  <1>8. WritesInv'
    BY <1>1, <1>3, <1>4, WritesKept DEF HasToSend
  <1> QED
    BY <1>7, <1>8

LEMMA SessionsOfSetup ==
  ASSUME TypeOK, SessionsInv, WritesInv, OnSetupTrigger PROVE SessionsInv' /\ WritesInv'
  <1> DEFINE D == SessionsOf(rtpSink)
             s == Destroyed(sessions, D)
             n == nextID
  <1>1. PICK f \in Fds, g \in Fds :
          /\ f \in FreeFds(s) /\ g \in FreeFds(s) \ {f}
          /\ {n, n + 1} \subseteq Ids
          /\ sessions' = Sent(Created(Created(s, n, "DATAGRAM", f), n + 1, "DATAGRAM", g), 1)
    BY DEF OnSetupTrigger, Requests, Lowest
  <1>2. /\ UNCHANGED <<ws, looper, lost>> /\ nextID' = n + 2 /\ setups' = setups + 1
        /\ rtpSink' # NoSink => SessionsOf(rtpSink') = {n, n + 1}
        /\ IsOpen(sessions, 1)
    BY DEF OnSetupTrigger, NewSink, SessionsOf, Elsewhere, threadVars
  <1>3. n \in Nat /\ n > 1 /\ 1 \in Ids /\ setups \in Nat /\ 1 \notin D
    <2>1. n \in Nat /\ n > 1 /\ 1 \in Ids
      BY <1>2, NetTyped, IdsAssumption DEF SessionsInv
    <2>2. setups \in Nat
      BY DEF TypeOK, SinkTypeOK
    <2>3. 1 \notin D
      BY DEF SessionsInv, SessionsOf
    <2> QED
      BY <2>1, <2>2, <2>3
  <1> DEFINE a == Created(s, n, "DATAGRAM", f)
             b == Created(a, n + 1, "DATAGRAM", g)
  <1>4. sessions \in Table /\ s \in Table /\ a \in Table /\ b \in Table
    BY <1>1, NetTyped, DestroyedType, CreatedType
  <1> HIDE DEF D
  <1>5. ASSUME NEW i \in Ids
        PROVE  /\ IsOpen(s, i) <=> IsOpen(sessions, i) /\ i \notin D
               /\ i \notin D => s[i] = sessions[i]
    BY <1>4, DestroyedFrame
  <1> HIDE DEF s
  <1>6. ASSUME NEW i \in Ids
        PROVE  /\ i # n => a[i] = s[i]
               /\ i = n => a[i].fd = f
               /\ IsOpen(a, i) <=> i = n \/ IsOpen(s, i)
    BY <1>1, <1>4, CreatedFrame
  <1> HIDE DEF a
  <1>7. ASSUME NEW i \in Ids
        PROVE  /\ i # n + 1 => b[i] = a[i]
               /\ i = n + 1 => b[i].fd = g
               /\ IsOpen(b, i) <=> i = n + 1 \/ IsOpen(a, i)
    BY <1>1, <1>4, CreatedFrame
  <1>8. sessions' = Sent(b, 1)
    BY <1>1 DEF a
  <1> HIDE DEF b
  <1>9. \A i \in Ids : /\ IsOpen(sessions', i) <=> IsOpen(b, i)
                       /\ IsOpen(b, i) => sessions'[i].fd = b[i].fd
                       /\ IsOpen(b, i) /\ i = 1 => sessions'[i].out
    BY <1>4, <1>8, SentFrame
  \* What is open afterwards, and with which descriptor.
  <1>10. \A i \in Ids : IsOpen(sessions', i) <=>
           i = n \/ i = n + 1 \/ (IsOpen(sessions, i) /\ i \notin D)
    BY <1>5, <1>6, <1>7, <1>9
  <1>11. /\ sessions'[n].fd = f /\ sessions'[n + 1].fd = g
         /\ \A i \in Ids : IsOpen(sessions, i) /\ i \notin D => sessions'[i].fd = sessions[i].fd
    <2>1. \A i \in Ids : IsOpen(sessions, i) => i # n /\ i # n + 1
      BY <1>3, IdsAssumption DEF SessionsInv
    <2>2. n \in Ids /\ n + 1 \in Ids /\ n # n + 1
      BY <1>1, <1>3
    <2>3. sessions'[n].fd = f /\ sessions'[n + 1].fd = g
      BY <1>6, <1>7, <1>9, <2>2
    <2>4. \A i \in Ids : IsOpen(sessions, i) /\ i \notin D => sessions'[i].fd = sessions[i].fd
      BY <1>5, <1>6, <1>7, <1>9, <2>1
    <2> QED
      BY <2>3, <2>4
  <1>12. f # g /\ \A i \in Ids : IsOpen(sessions, i) /\ i \notin D =>
           sessions[i].fd # f /\ sessions[i].fd # g
    BY <1>1, <1>5 DEF FreeFds
  <1>13. SessionsInv'
    <2>1. \A i \in Ids : IsOpen(sessions', i) => i < nextID'
      BY <1>2, <1>3, <1>10, IdsAssumption DEF SessionsInv
    <2>2. \A i, j \in Ids : IsOpen(sessions', i) /\ IsOpen(sessions', j)
                              /\ sessions'[i].fd = sessions'[j].fd => i = j
      BY <1>10, <1>11, <1>12 DEF SessionsInv
    <2>3. IsOpen(sessions', 1)
      BY <1>2, <1>3, <1>10
    <2>4. rtpSink' # NoSink => 1 \notin SessionsOf(rtpSink')
      BY <1>2, <1>3
    <2> QED
      BY <2>1, <2>2, <2>3, <2>4 DEF SessionsInv
  <1>14. WritesInv'
    <2>1. setups' # 0 /\ nextID' # 1
      BY <1>2, <1>3
    <2>2. CASE setups = 0
      <3>1. n < 3 /\ \A x \in ws : x = sessions[1].fd
        BY <1>2, <2>2 DEF WritesInv
      <3>2. \A i \in Ids : IsOpen(sessions, i) => i = 1
        BY <1>3, <3>1, IdsAssumption DEF SessionsInv
      <3>3. sessions[1].fd # f /\ sessions[1].fd # g
        BY <1>2, <1>3, <1>12
      <3>4. sessions'[1].out
        BY <1>2, <1>3, <1>5, <1>6, <1>7, <1>9
      <3>5. \A i \in Ids : IsOpen(sessions', i) /\ sessions'[i].fd \in ws => i = 1
        BY <1>10, <1>11, <3>1, <3>2, <3>3
      <3> QED
        BY <1>2, <2>1, <3>4, <3>5 DEF WritesInv
    <2>3. CASE setups # 0
      BY <1>2, <1>3, <2>1, <2>3 DEF WritesInv
    <2> QED
      BY <2>2, <2>3
  <1> QED
    BY <1>13, <1>14

LEMMA SessionsOfLooper ==
  ASSUME TypeOK, QueueInv, SessionsInv, WritesInv, Looper \/ Reports \/ OnTeardownTimedOut
  PROVE  SessionsInv' /\ WritesInv'
  <1> USE DEF Elsewhere, threadVars
  <1>1. CASE OnStart \/ OnError \/ OnSetupTrigger
    BY <1>1, SessionsOfOnStart, SessionsOfOnError, SessionsOfSetup
  <1>2. ASSUME UNCHANGED <<nextID, ws, looper, lost, setups, rtpSink>>,
               sessions' = sessions \/ \E id : sessions' = Sent(sessions, id)
        PROVE  SessionsInv' /\ WritesInv'
    BY <1>2, SessionsOfSending
  <1>3. CASE OnConnected \/ OnStopConnected \/ OnStopAtOnce \/ OnTeardownTimedOut
    BY <1>2, <1>3 DEF OnConnected, OnStopConnected, OnStopAtOnce, OnTeardownTimedOut, Requests
  <1>4. CASE /\ OnBinaryData \/ OnData
             /\ ~OnSetupTrigger /\ \A h \in handlers : ~OnSetupResponse(h) /\ ~FailsToPlay(h)
    BY <1>2, <1>4 DEF OnBinaryData, OnData, CannotReply, OnReplyRequest, OnOptionsRequest,
       OnTeardownTrigger, SetupWithoutPlayer, Unsolicited, OnResponse, OnSimpleResponse,
       FailsOnResponse, FailsToConnect, Requests, sinkVars
  <1>5. ASSUME NEW h \in handlers, OnSetupResponse(h) \/ FailsToPlay(h)
        PROVE  SessionsInv' /\ WritesInv'
    <2>1. /\ rtpSink # NoSink /\ rtpSink' = [rtpSink EXCEPT !.answer = h.cseq]
          /\ sessions' = sessions \/ sessions' = Sent(sessions, 1)
          /\ h.cseq \in CSeq
          /\ UNCHANGED <<nextID, ws, looper, lost, setups>>
      BY <1>5 DEF OnSetupResponse, FailsToPlay, Connected, CanConnect, Requests, TypeOK,
         SinkTypeOK, Handler
    <2>2. rtpSink' # NoSink /\ SessionsOf(rtpSink') = SessionsOf(rtpSink)
      BY <2>1, SinkFields
    <2> QED
      BY <2>1, <2>2, SessionsOfSending
  <1>6. CASE OnDatagram \/ OnQueueBuffer
    <2>1. UNCHANGED <<sessions, nextID, ws, looper, lost, setups>>
      BY <1>6 DEF OnDatagram, OnQueueBuffer
    <2>2. \/ rtpSink' = rtpSink
          \/ /\ rtpSink # NoSink
             /\ \E r \in {"made", "player"} : rtpSink' = [rtpSink EXCEPT !.renderer = r]
      BY <1>6 DEF OnDatagram, OnQueueBuffer, IsHandler
    <2>3. /\ SessionsOf(rtpSink') = SessionsOf(rtpSink)
          /\ rtpSink = NoSink <=> rtpSink' = NoSink
      BY <2>2, SinkFields
    <2> QED
      BY <2>1, <2>3, SessionsOfSending
  <1>7. CASE Reports
    <2>1. /\ rtpSink # NoSink /\ rtpSink' = [rtpSink EXCEPT !.reports = @ + 1]
          /\ rtpSink.reports < MaxReports /\ sessions' = Sent(sessions, rtpSink.rtcp)
          /\ UNCHANGED <<nextID, ws, looper, lost, setups>>
      BY <1>7 DEF Reports
    <2>2. rtpSink' # NoSink /\ SessionsOf(rtpSink') = SessionsOf(rtpSink)
      BY <2>1, SinkFields
    <2> QED
      BY <2>1, <2>2, SessionsOfSending
  <1> QED
    BY <1>1, <1>3, <1>4, <1>5, <1>6, <1>7 DEF Looper

LEMMA SessionsOfUi ==
  ASSUME TypeOK, UiInv, SessionsInv, WritesInv,
         Starts \/ Stops \/ StopsSink \/ JoinsThread \/ Source
  PROVE  SessionsInv' /\ WritesInv'
  <1>1. CASE Starts
    <2>1. nextID = 1 /\ UNCHANGED <<sessions, nextID, ws, lost, setups, rtpSink>>
      BY <1>1 DEF Starts, UiInv
    <2> QED
      BY <2>1 DEF SessionsInv, WritesInv
  <1>2. CASE Stops \/ Source
    <2>1. UNCHANGED <<sessions, nextID, ws, looper, lost, setups, rtpSink>>
      BY <1>2 DEF Stops, Source, Connection, Disconnection, Asks, Frames, Answers, Refuses, Responds, Arrives,
         SourceLeaves, netVars, threadVars, sinkVars
    <2> QED
      BY <2>1 DEF SessionsInv, WritesInv
  <1>3. CASE StopsSink
    <2>1. /\ looper' = "stopped" /\ UNCHANGED <<nextID, ws, lost, setups>>
          /\ rtpSink' = rtpSink \/ rtpSink' = NoSink
          /\ sessions' = sessions \/ sessions' = Destroyed(sessions, SessionsOf(rtpSink))
      BY <1>3 DEF StopsSink, threadVars
    <2>2. NoneMade /\ \A k \in Ids : IsOpen(sessions', k) => sessions'[k] = sessions[k]
      BY <2>1, NetTyped, DestroyedFrame DEF NoneMade
    <2>3. SessionsInv'
      BY <2>1, <2>2, SessionsKept DEF SessionsInv
    <2>4. WritesInv'
      BY <2>1, <2>2, WritesKept DEF HasToSend
    <2> QED
      BY <2>3, <2>4
  <1>4. CASE JoinsThread
    <2>1. /\ looper' = "stopped" /\ UNCHANGED <<nextID, ws, lost, setups, rtpSink>>
          /\ \A i \in Ids : ~IsOpen(sessions', i)
      BY <1>4 DEF JoinsThread, UiInv, threadVars, sinkVars, IsOpen
    <2>2. NoneMade
      BY <2>1 DEF NoneMade
    <2>3. SessionsInv'
      BY <2>1, <2>2, SessionsKept DEF SessionsInv
    <2>4. WritesInv'
      BY <2>1, <2>2, WritesKept
    <2> QED
      BY <2>3, <2>4
  <1> QED
    BY <1>1, <1>2, <1>3, <1>4

-----------------------------------------------------------------------------
(* What is posted, and why. *)

LEMMA LooperPosts ==
  ASSUME TypeOK, Looper
  PROVE  \A m \in Messages(queue') : m \in Messages(queue) \/ m.what = "queueBuffer"
  <1>1. CASE ~OnDatagram
    <2>1. PICK w : Handles(w)
      BY <1>1, HandlersTake
    <2> QED
      BY <2>1, NetTyped, TailMessages DEF Handles, Comes
  <1>2. CASE OnDatagram
    <2>1. queue \in Seq(Message) /\ queue # <<>> /\ Tail(queue) \in Seq(Message)
      BY <1>2, NetTyped, HeadTailProperties DEF OnDatagram, Comes
    <2>2. CASE queue' = Tail(queue)
      BY <2>1, <2>2, TailMessages
    <2>3. CASE rtpSink # NoSink
               /\ queue' = Append(Tail(queue), [what |-> "queueBuffer", sink |-> rtpSink.id])
      <3>1. [what |-> "queueBuffer", sink |-> rtpSink.id] \in Message
        BY <2>3, BufferMessage DEF TypeOK, SinkTypeOK, RTPSink
      <3>2. Messages(queue') =
              Messages(Tail(queue)) \cup {[what |-> "queueBuffer", sink |-> rtpSink.id]}
        BY ZenonT(60), <2>1, <2>3, <3>1, AppendMessages
      <3> QED
        BY <2>1, <3>2, TailMessages
    <2> QED
      BY <1>2, <2>2, <2>3 DEF OnDatagram
  <1> QED
    BY <1>1, <1>2

LEMMA OthersPost ==
  ASSUME TypeOK,
         Reports \/ OnTeardownTimedOut \/ Starts \/ Stops \/ StopsSink \/ JoinsThread \/ Source
  PROVE  \A m \in Messages(queue') : m \in Messages(queue) \/ m.what \in {"start", "stop"}
  <1>1. CASE Starts
    <2>1. CASE queue' = <<[what |-> "start"]>> \/ queue' = <<[what |-> "start"], [what |-> "stop"]>>
      BY <2>1 DEF Messages
    <2> QED
      BY <1>1, <2>1 DEF Starts
  <1>2. CASE Stops
    BY <1>2, NetTyped, PlainMessage, AppendMessages DEF Stops, Post
  <1>3. CASE StopsSink
    <2>1. CASE queue' = <<>>
      BY <2>1 DEF Messages
    <2> QED
      BY <1>3, <2>1 DEF StopsSink
  <1>4. CASE UNCHANGED queue
    BY <1>4
  <1> QED
    BY <1>1, <1>2, <1>3, <1>4 DEF Reports, OnTeardownTimedOut, JoinsThread, Source, Connection,
       Disconnection, Asks, Frames, Answers, Refuses, Responds, Arrives, SourceLeaves

\* What the network thread posts comes from the stream, or says why a session failed.
LEMMA NetworkPosts ==
  ASSUME TypeOK, KindInv, LossInv, NetworkThread
  PROVE  \A m \in Messages(queue') :
           \/ m \in Messages(queue)
           \/ m.what \in {"datagram", "connected"}
           \/ stream # <<>> /\ m = Notification(Head(stream))
           \/ /\ m.what = "error" /\ m.id \in Ids
              /\ IF m.id = 1 THEN Ended ELSE arrived[m.id] \in {"empty", "error"}
  <1> DEFINE Said(m) == \/ m.what \in {"datagram", "connected"}
                        \/ stream # <<>> /\ m = Notification(Head(stream))
                        \/ /\ m.what = "error" /\ m.id \in Ids
                           /\ IF m.id = 1 THEN Ended ELSE arrived[m.id] \in {"empty", "error"}
  <1> SUFFICES \A m \in Messages(queue') : m \in Messages(queue) \/ Said(m)
    OBVIOUS
  <1>1. ASSUME NEW m \in Message, Post(m), Said(m)
        PROVE  \A x \in Messages(queue') : x \in Messages(queue) \/ Said(x)
    BY <1>1, NetTyped, AppendMessages DEF Post
  <1>2. ASSUME NEW i \in Open, NEW send \in BOOLEAN, Fails(i, send),
               IF i = 1 THEN Ended ELSE arrived[i] \in {"empty", "error"}
        PROVE  \A x \in Messages(queue') : x \in Messages(queue) \/ Said(x)
    <2>1. i \in Ids /\ [what |-> "error", id |-> i] \in Message
      BY IdMessage DEF Open, IsOpen
    <2>2. Said([what |-> "error", id |-> i])
      BY <1>2, <2>1
    <2> QED
      BY <1>1, <1>2, <2>1, <2>2 DEF Fails
  <1>3. arrived \in [Ids -> {"nothing", "datagram", "empty", "error"}]
    BY DEF TypeOK, NetTypeOK
  <1>4. ASSUME NEW i \in Ids, ReadsDatagram(i)
        PROVE  \A x \in Messages(queue') : x \in Messages(queue) \/ Said(x)
    <2>1. i \in Open /\ i # 1
      BY <1>4 DEF ReadsDatagram, Reads, Serves, Due, Open, KindInv
    <2>2. CASE arrived[i] = "nothing"
      BY <1>4, <2>2 DEF ReadsDatagram
    <2>3. CASE arrived[i] = "datagram"
      BY <1>1, <1>4, <2>3, IdMessage DEF ReadsDatagram
    <2>4. CASE arrived[i] \in {"empty", "error"}
      BY <1>2, <1>4, <2>1, <2>4 DEF ReadsDatagram
    <2> QED
      BY <1>3, <2>2, <2>3, <2>4
  <1>5. ASSUME NEW i \in Ids, ReadsStream(i)
        PROVE  \A x \in Messages(queue') : x \in Messages(queue) \/ Said(x)
    <2>1. i \in Open /\ i = 1 /\ sessions[1].fd \in rs /\ thread \in {"lock", "serve"}
      BY <1>5 DEF ReadsStream, Reads, Serves, Due, Open, KindInv
    <2>2. CASE stream # <<>>
      <3>1. Head(stream) \in Received /\ Post(Notification(Head(stream)))
        BY <1>5, <2>2, HeadTailProperties DEF ReadsStream, TypeOK, NetTypeOK
      <3> QED
        BY <1>1, <2>2, <3>1, NotificationMessage
    <2>3. CASE stream = <<>>
      <3>1. Ended
        BY <2>1, <2>3 DEF LossInv, Open, Ended
      <3> QED
        BY <1>2, <1>5, <2>1, <2>3, <3>1 DEF ReadsStream
    <2> QED
      BY <2>2, <2>3
  <1>6. ASSUME NEW i \in Ids, Connects(i)
        PROVE  \A x \in Messages(queue') : x \in Messages(queue) \/ Said(x)
    <2>1. i \in Open /\ i = 1
      BY <1>6 DEF Connects, Writes, Serves, Due, Open, KindInv
    <2>2. CASE link \in {"refused", "broken"}
      BY <1>2, <1>6, <2>1, <2>2 DEF Connects, Ended
    <2>3. CASE link \notin {"refused", "broken"}
      BY <1>1, <1>6, <2>3, PlainMessage DEF Connects
    <2> QED
      BY <2>2, <2>3
  <1>7. ASSUME NEW i \in Ids, FailsToSend(i)
        PROVE  \A x \in Messages(queue') : x \in Messages(queue) \/ Said(x)
    <2>1. i \in Open /\ IF i = 1 THEN Ended ELSE arrived[i] \in {"empty", "error"}
      BY <1>7 DEF FailsToSend, CannotSend, Writes, Serves, Due, Ended
    <2> QED
      BY <1>2, <1>7, <2>1 DEF FailsToSend
  <1>8. CASE UNCHANGED queue
    BY <1>8
  <1> QED
    BY <1>4, <1>5, <1>6, <1>7, <1>8 DEF NetworkThread, Leaves, Collects, SelectFails, Selects,
       ServedAll, FindsNothingToSend, Sends

-----------------------------------------------------------------------------
(* The kinds of the sessions, and the control connection's descriptor. *)

\* Sessions keep their kind.
KindsKept ==
  \A i \in Ids : IsOpen(sessions', i) =>
    IsOpen(sessions, i) /\ (sessions'[i].state = "DATAGRAM" <=> sessions[i].state = "DATAGRAM")

FirstKept == IsOpen(sessions', 1) => IsOpen(sessions, 1) /\ sessions'[1].fd = sessions[1].fd

LEMMA KindsOfNetwork == ASSUME TypeOK, NetworkThread PROVE KindsKept
  <1>1. sessions \in Table
    BY NetTyped
  <1>2. ASSUME NEW i \in Open, NEW r \in Session, sessions' = [sessions EXCEPT ![i] = r],
               r.state = "DATAGRAM" <=> sessions[i].state = "DATAGRAM"
        PROVE  KindsKept
    <2>1. i \in Ids /\ IsOpen(sessions, i)
      BY DEF Open
    <2>2. sessions'[i] = r /\ \A k \in Ids \ {i} : sessions'[k] = sessions[k]
      BY <1>1, <1>2, <2>1 DEF Table
    <2> QED
      BY <1>2, <2>1, <2>2 DEF KindsKept, IsOpen
  <1>3. \A i \in Open :
          /\ [sessions[i] EXCEPT !.sawSendFailure = TRUE] \in Session
          /\ [sessions[i] EXCEPT !.sawSendFailure = TRUE].state = sessions[i].state
          /\ [sessions[i] EXCEPT !.sawReceiveFailure = TRUE] \in Session
          /\ [sessions[i] EXCEPT !.sawReceiveFailure = TRUE].state = sessions[i].state
          /\ [sessions[i] EXCEPT !.out = FALSE] \in Session
          /\ [sessions[i] EXCEPT !.out = FALSE].state = sessions[i].state
          /\ [sessions[i] EXCEPT !.state = "CONNECTED"] \in Session
          /\ [sessions[i] EXCEPT !.state = "CONNECTED"].state = "CONNECTED"
    BY <1>1 DEF Open, IsOpen, Table, Session
  <1>4. ASSUME NEW i \in Open, NEW send \in BOOLEAN, Fails(i, send) PROVE KindsKept
    BY <1>2, <1>3, <1>4 DEF Fails
  <1>5. CASE UNCHANGED sessions
    BY <1>5 DEF KindsKept
  <1>6. ASSUME NEW i \in Ids, ReadsDatagram(i) \/ ReadsStream(i) PROVE KindsKept
    <2>1. i \in Open
      BY <1>6 DEF ReadsDatagram, ReadsStream, Reads, Serves, Due
    <2> QED
      BY <1>4, <1>5, <1>6, <2>1 DEF ReadsDatagram, ReadsStream
  <1>7. ASSUME NEW i \in Ids, Connects(i) \/ Sends(i) \/ FailsToSend(i) PROVE KindsKept
    <2>1. i \in Open
      BY <1>7 DEF Connects, Sends, FailsToSend, Writes, Serves, Due
    <2>2. CASE Connects(i)
      BY <1>2, <1>3, <1>4, <2>1, <2>2 DEF Connects
    <2>3. CASE Sends(i)
      BY <1>2, <1>3, <2>1, <2>3 DEF Sends
    <2>4. CASE FailsToSend(i)
      BY <1>4, <2>1, <2>4 DEF FailsToSend
    <2> QED
      BY <1>7, <2>2, <2>3, <2>4
  <1> QED
    BY <1>5, <1>6, <1>7 DEF NetworkThread, Leaves, Collects, SelectFails, Selects, ServedAll,
       FindsNothingToSend

LEMMA KindsOfSending ==
  ASSUME TypeOK, NEW id, sessions' = sessions \/ sessions' = Sent(sessions, id)
  PROVE  KindsKept /\ FirstKept
  BY SentFrame, NetTyped, IdsAssumption DEF KindsKept, FirstKept

LEMMA KindOfLooper ==
  ASSUME TypeOK, QueueInv, SessionsInv, KindInv, Looper \/ Reports \/ OnTeardownTimedOut
  PROVE  KindInv' /\ (FirstKept \/ nextID = 1)
  <1>1. sessions \in Table /\ 1 \in Ids
    BY NetTyped, IdsAssumption
  <1>2. ASSUME KindsKept PROVE KindInv'
    BY <1>2 DEF KindsKept, KindInv
  <1>3. CASE OnStart
    <2>1. queue \in Seq(Message) /\ queue # <<>> /\ Head(queue).what = "start"
      BY <1>3, NetTyped DEF OnStart, Handles, Comes
    <2>2. nextID = 1
      BY <2>1, TailMessages DEF QueueInv
    <2>3. CASE UNCHANGED sessions
      BY <2>2, <2>3 DEF KindInv
    <2>4. ASSUME NEW f \in Fds, sessions' = Created(sessions, nextID, "CONNECTING", f)
          PROVE  KindInv'
      <3>1. \A i \in Ids : ~IsOpen(sessions, i)
        BY <2>2, IdsAssumption DEF SessionsInv
      <3> QED
        BY <1>1, <2>2, <2>4, <3>1, CreatedFrame DEF KindInv
    <2> QED
      BY <1>3, <2>2, <2>3, <2>4 DEF OnStart
  <1>4. CASE OnError
    <2>1. sessions' = sessions \/ \E D : sessions' = Destroyed(sessions, D)
      BY <1>4 DEF OnError
    <2>2. KindsKept /\ FirstKept
      BY <1>1, <2>1, DestroyedFrame DEF KindsKept, FirstKept
    <2> QED
      BY <1>2, <2>2
  <1>5. CASE OnSetupTrigger
    <2> DEFINE s == Destroyed(sessions, SessionsOf(rtpSink))
               n == nextID
    <2>1. PICK f \in Fds, g \in Fds :
            /\ {n, n + 1} \subseteq Ids
            /\ sessions' = Sent(Created(Created(s, n, "DATAGRAM", f), n + 1, "DATAGRAM", g), 1)
      BY <1>5 DEF OnSetupTrigger, Requests
    <2>2. n \in Nat /\ n > 1
      BY <1>1, <1>5, NetTyped DEF OnSetupTrigger, SessionsInv
    <2> DEFINE a == Created(s, n, "DATAGRAM", f)
               b == Created(a, n + 1, "DATAGRAM", g)
    <2>3. s \in Table /\ a \in Table /\ b \in Table /\ n \in Ids /\ n + 1 \in Ids
      BY <1>1, <2>1, DestroyedType, CreatedType
    <2>4. \A i \in Ids : IsOpen(s, i) => IsOpen(sessions, i) /\ s[i] = sessions[i]
      BY <1>1, DestroyedFrame
    <2> HIDE DEF s
    <2>5. \A i \in Ids : /\ i # n => a[i] = s[i]
                         /\ i = n => a[i].state = "DATAGRAM"
                         /\ IsOpen(a, i) <=> i = n \/ IsOpen(s, i)
      BY <2>3, CreatedFrame
    <2> HIDE DEF a
    <2>6. \A i \in Ids : /\ i # n + 1 => b[i] = a[i]
                         /\ i = n + 1 => b[i].state = "DATAGRAM"
                         /\ IsOpen(b, i) <=> i = n + 1 \/ IsOpen(a, i)
      BY <2>3, CreatedFrame
    <2>7. sessions' = Sent(b, 1)
      BY <2>1 DEF a
    <2> HIDE DEF b
    <2>8. \A i \in Ids : /\ IsOpen(sessions', i) <=> IsOpen(b, i)
                         /\ IsOpen(b, i) => /\ sessions'[i].fd = b[i].fd
                                            /\ sessions'[i].state = b[i].state
      BY <2>3, <2>7, SentFrame
    <2>9. ASSUME NEW i \in Ids, IsOpen(sessions', i)
          PROVE  \/ i > 1 /\ sessions'[i].state = "DATAGRAM"
                 \/ /\ IsOpen(sessions, i) /\ sessions'[i].state = sessions[i].state
                    /\ sessions'[i].fd = sessions[i].fd
      BY <2>2, <2>4, <2>5, <2>6, <2>8, <2>9
    <2> HIDE DEF n
    <2>10. KindInv'
      BY <2>9 DEF KindInv
    <2>11. FirstKept
      BY <1>1, <2>9 DEF FirstKept
    <2> QED
      BY <2>10, <2>11
  <1>6. CASE \E id : sessions' = sessions \/ sessions' = Sent(sessions, id)
    BY <1>2, <1>6, KindsOfSending
  <1> QED
    BY <1>3, <1>4, <1>5, <1>6
       DEF Looper, OnConnected, OnBinaryData, OnData, CannotReply, OnReplyRequest,
           OnOptionsRequest, OnTeardownTrigger, SetupWithoutPlayer, Unsolicited, OnResponse,
           OnSimpleResponse, OnSetupResponse, FailsOnResponse, FailsToConnect, FailsToPlay,
           OnDatagram, OnQueueBuffer, OnStopConnected, OnStopAtOnce, Reports,
           OnTeardownTimedOut, Requests

LEMMA KindOfUi ==
  ASSUME TypeOK, KindInv, Starts \/ Stops \/ StopsSink \/ JoinsThread \/ Source
  PROVE  KindInv' /\ FirstKept
  <1>1. \/ sessions' = sessions
        \/ \E D : sessions' = Destroyed(sessions, D)
        \/ sessions' = [i \in Ids |-> NoSession]
    BY DEF Starts, Stops, StopsSink, JoinsThread, Source, Connection, Disconnection, Asks, Frames,
       Answers, Refuses, Responds, Arrives, SourceLeaves, netVars
  <1>2. KindsKept /\ FirstKept
    <2>1. ASSUME NEW D, sessions' = Destroyed(sessions, D) PROVE KindsKept /\ FirstKept
      <3>1. \A i \in Ids : IsOpen(sessions', i) => IsOpen(sessions, i) /\ sessions'[i] = sessions[i]
        BY <2>1, NetTyped, DestroyedFrame
      <3> QED
        BY <3>1, IdsAssumption DEF KindsKept, FirstKept
    <2>2. CASE sessions' = sessions \/ sessions' = [i \in Ids |-> NoSession]
      BY <2>2, IdsAssumption DEF KindsKept, FirstKept, IsOpen
    <2> QED
      BY <1>1, <2>1, <2>2
  <1> QED
    BY <1>2 DEF KindsKept, KindInv

-----------------------------------------------------------------------------
(* What the source and the network did. *)

\* Session 1 was open before anything came on the connection.
LEMMA StreamOfNetwork ==
  ASSUME TypeOK, NetworkThread
  PROVE  /\ UNCHANGED <<link, nextID>>
         /\ stream' = stream \/ (stream # <<>> /\ stream' = Tail(stream))
         /\ arrived' = arrived \/ \E i \in Ids : arrived' = [arrived EXCEPT ![i] = "nothing"]
  BY DEF NetworkThread, Leaves, Collects, SelectFails, Selects, ServedAll, ReadsDatagram,
     ReadsStream, Connects, FindsNothingToSend, Sends, FailsToSend, sourceVars

LEMMA SourceOfNetwork ==
  ASSUME TypeOK, KindInv, LossInv, SourceInv, NetworkThread, UNCHANGED faults PROVE SourceInv'
  <1>1. stream \in Seq(Received)
    BY DEF TypeOK, NetTypeOK
  <1>2. /\ Messages(stream') \subseteq Messages(stream)
        /\ stream # <<>> => Head(stream) \in Messages(stream)
    BY <1>1, StreamOfNetwork, TailMembers
  <1>3. UNCHANGED <<link, faults>>
    BY StreamOfNetwork
  <1>4. stream # <<>> => Caused(Head(stream)) /\ Made
    BY <1>2 DEF SourceInv
  <1>5. ASSUME NEW m \in Messages(queue')
        PROVE  /\ m.what = "binaryData" => "frame" \in faults
               /\ m.what = "data" => Caused(m.data)
               /\ m.what \in {"data", "binaryData"} => Made
    <2>1. CASE m \in Messages(queue)
      BY <2>1 DEF SourceInv
    <2>2. CASE stream # <<>> /\ m = Notification(Head(stream))
      BY <1>4, <2>2 DEF Notification, Caused
    <2>3. CASE m.what \in {"datagram", "connected", "error"}
      BY <2>3
    <2> QED
      BY <2>1, <2>2, <2>3, NetworkPosts
  <1> QED
    BY <1>2, <1>3, <1>5 DEF SourceInv, Caused, Made

LEMMA SourceOfLooper ==
  ASSUME TypeOK, QueueInv, LossInv, SourceInv, Looper, UNCHANGED faults PROVE SourceInv'
  <1>1. \A m \in Messages(queue') : m \in Messages(queue) \/ m.what = "queueBuffer"
    BY LooperPosts
  <1>2. CASE UNCHANGED <<stream, link>>
    BY <1>1, <1>2 DEF SourceInv, Caused, Made
  <1>3. CASE OnStart
    <2>1. queue \in Seq(Message) /\ queue # <<>> /\ Head(queue).what = "start"
      BY <1>3, NetTyped DEF OnStart, Handles, Comes
    <2>2. link = "idle" /\ UNCHANGED stream
      BY <1>3, <2>1, TailMessages DEF OnStart, QueueInv, LossInv
    <2>3. /\ \A d \in Messages(stream) : FALSE
          /\ \A m \in Messages(queue) : m.what \notin {"data", "binaryData"}
      BY <2>2 DEF SourceInv, Made
    <2> QED
      BY <1>1, <2>2, <2>3 DEF SourceInv
  <1> QED
    BY <1>2, <1>3 DEF Looper, OnError, OnConnected, OnBinaryData, OnData, CannotReply,
       OnReplyRequest, OnOptionsRequest, OnTeardownTrigger, OnSetupTrigger, SetupWithoutPlayer,
       Unsolicited, OnResponse, OnSimpleResponse, OnSetupResponse, FailsOnResponse,
       FailsToConnect, FailsToPlay, OnDatagram, OnQueueBuffer, OnStopConnected, OnStopAtOnce,
       Elsewhere, sourceVars

LEMMA SourceOfOthers ==
  ASSUME TypeOK, SourceInv,
         \/ (Reports \/ OnTeardownTimedOut \/ Starts \/ Stops \/ StopsSink \/ JoinsThread)
              /\ UNCHANGED faults
         \/ Source
  PROVE  SourceInv'
  <1>1. \A m \in Messages(queue') : m \in Messages(queue) \/ m.what \in {"start", "stop"}
    BY OthersPost
  <1>2. stream \in Seq(Received)
    BY DEF TypeOK, NetTypeOK
  <1>3. ASSUME faults \subseteq faults', Made => Made',
               \A d \in Messages(stream') : d \in Messages(stream) \/ (Caused(d)' /\ Made')
        PROVE  SourceInv'
    <2>1. \A d : Caused(d) => Caused(d)'
      BY <1>3 DEF Caused
    <2> QED
      BY <1>1, <1>3, <2>1 DEF SourceInv
  <1>4. CASE UNCHANGED <<stream, link, faults>>
    BY <1>3, <1>4 DEF Made
  <1>5. CASE Connection \/ Disconnection
    BY <1>3, <1>5 DEF Connection, Disconnection, eventVars, Made
  <1>6. ASSUME NEW d \in Received, stream' = Append(stream, d), link = "up", UNCHANGED link,
               faults \subseteq faults', Caused(d)'
        PROVE  SourceInv'
    <2>1. Messages(stream') = Messages(stream) \cup {d}
      BY <1>2, <1>6, AppendMembers
    <2> QED
      BY <1>3, <1>6, <2>1 DEF Made
  <1>7. ASSUME NEW r \in Request, Asks(r) PROVE SourceInv'
    <2>1. [what |-> r] \in Received /\ Caused([what |-> r])'
      BY <1>7, RequestReceived, RequestAssumption DEF Caused
    <2> QED
      BY <1>6, <1>7, <2>1 DEF Asks, CanSend
  <1>8. CASE Frames
    <2>1. [what |-> "frame"] \in Received /\ Caused([what |-> "frame"])'
      BY <1>8, RequestReceived DEF Frames, Caused
    <2> QED
      BY <1>6, <1>8, <2>1 DEF Frames, CanSend
  <1>9. ASSUME NEW c \in CSeq, Answers(c) \/ Refuses(c) PROVE SourceInv'
    <2>1. PICK ok \in BOOLEAN : /\ Responds(c, ok) /\ faults \subseteq faults'
                                /\ ok \/ "refusal" \in faults'
      BY <1>9 DEF Answers, Refuses
    <2>2. /\ [what |-> "answer", cseq |-> c, ok |-> ok] \in Received
          /\ Caused([what |-> "answer", cseq |-> c, ok |-> ok])'
      BY <2>1, AnswerReceived DEF Caused
    <2> QED
      BY <1>6, <2>1, <2>2 DEF Responds, CanSend
  <1> QED
    BY <1>4, <1>5, <1>7, <1>8, <1>9 DEF Reports, OnTeardownTimedOut, Starts, Stops, StopsSink,
       JoinsThread, Source, Arrives, Elsewhere, sourceVars, netVars

-----------------------------------------------------------------------------
(* The loss of the control connection. *)

\* What select found of the control connection stays so until it is read.
FirstReadable ==
  thread \in {"lock", "serve"} /\ IsOpen(sessions, 1) /\ sessions[1].fd \in rs =>
    stream # <<>> \/ link \in {"closed", "broken"}

LEMMA ReadableOfNetwork ==
  ASSUME TypeOK, SessionsInv, KindInv, LossInv, NetworkThread
  PROVE  FirstReadable' /\ (nextID = 1 => rs' = {})
  <1>1. NoneMade /\ 1 \in Ids /\ UNCHANGED link
    BY NetworkFrame, StreamOfNetwork, IdsAssumption
  <1>2. nextID = 1 => Open = {} /\ rs = {}
    <2>1. \A i \in Ids : ~(i < 1)
      BY IdsAssumption
    <2>2. nextID = 1 => Open = {}
      BY <2>1 DEF SessionsInv, Open
    <2> QED
      BY <2>2 DEF LossInv
  <1>3. CASE Selects
    <2>1. ASSUME IsOpen(sessions, 1), sessions[1].fd \in rs'
          PROVE  stream # <<>> \/ link \in {"closed", "broken"}
      <3>1. PICK j \in Open : sessions[j].fd = sessions[1].fd /\ Readable(j)
        BY <1>3, <2>1 DEF Selects
      <3>2. j = 1
        BY <1>1, <2>1, <3>1 DEF SessionsInv, Open
      <3>3. sessions[1].state # "DATAGRAM"
        BY <1>1, <2>1 DEF KindInv
      <3> QED
        BY <3>1, <3>2, <3>3 DEF Readable
    <2> QED
      BY <1>2, <1>3, <2>1 DEF Selects, FirstReadable, sourceVars
  <1>4. CASE Collects \/ SelectFails \/ ServedAll \/ Leaves
    <2>1. thread' \notin {"lock", "serve"} /\ (nextID = 1 => rs' = {})
      BY <1>2, <1>4 DEF Collects, SelectFails, ServedAll, Leaves
    <2> QED
      BY <2>1 DEF FirstReadable
  <1>5. ASSUME NEW i \in Ids, ReadsStream(i) PROVE FirstReadable' /\ (nextID = 1 => rs' = {})
    <2>1. i = 1 /\ rs' = rs \ {sessions[1].fd}
      BY <1>5 DEF ReadsStream, Reads, Serves, Due, Open, KindInv
    <2>2. IsOpen(sessions', 1) => sessions'[1].fd = sessions[1].fd
      BY <1>1 DEF NoneMade
    <2> QED
      BY <1>2, <2>1, <2>2 DEF FirstReadable
  <1>6. ASSUME rs' \subseteq rs, thread \in {"lock", "serve"}, UNCHANGED stream
        PROVE  FirstReadable' /\ (nextID = 1 => rs' = {})
    BY <1>1, <1>2, <1>6 DEF FirstReadable, LossInv, NoneMade
  <1>7. ASSUME NEW i \in Ids,
               \/ ReadsDatagram(i) \/ Connects(i) \/ FindsNothingToSend(i) \/ Sends(i)
               \/ FailsToSend(i)
        PROVE  FirstReadable' /\ (nextID = 1 => rs' = {})
    BY <1>6, <1>7 DEF ReadsDatagram, Connects, FindsNothingToSend, Sends, FailsToSend, Reads,
       Writes, Serves, sourceVars
  <1> QED
    BY <1>3, <1>4, <1>5, <1>7 DEF NetworkThread

LEMMA LossOfNetwork ==
  ASSUME TypeOK, SessionsInv, KindInv, LossInv, NetworkThread, UNCHANGED sinkVars PROVE LossInv'
  <1>1. UNCHANGED <<link, nextID, sessionID, lost>>
    BY StreamOfNetwork DEF sinkVars
  <1>2. \A m \in Messages(queue') : m.what = "error" /\ m.id = 1 => Ended
    <2> SUFFICES ASSUME NEW m \in Messages(queue'), m.what = "error", m.id = 1 PROVE Ended
      OBVIOUS
    <2>1. m # Notification(Head(stream))
      BY DEF Notification
    <2> QED
      BY <2>1, NetworkPosts DEF LossInv
  <1> QED
    BY <1>1, <1>2, ReadableOfNetwork DEF LossInv, Ended, FirstReadable

LEMMA LossOfLooper ==
  ASSUME TypeOK, QueueInv, SessionsInv, KindInv, LossInv, Looper PROVE LossInv'
  <1>1. \A m \in Messages(queue') : m \in Messages(queue) \/ m.what = "queueBuffer"
    BY LooperPosts
  <1>2. UNCHANGED <<thread, rs, stream>> /\ (FirstKept \/ nextID = 1)
    BY KindOfLooper DEF Looper, OnStart, OnError, OnConnected, OnBinaryData, OnData, CannotReply,
       OnReplyRequest, OnOptionsRequest, OnTeardownTrigger, OnSetupTrigger, SetupWithoutPlayer,
       Unsolicited, OnResponse, OnSimpleResponse, OnSetupResponse, FailsOnResponse,
       FailsToConnect, FailsToPlay, OnDatagram, OnQueueBuffer, OnStopConnected, OnStopAtOnce,
       Elsewhere, threadVars, sourceVars
  <1>3. CASE OnStart
    <2>1. queue \in Seq(Message) /\ queue # <<>> /\ Head(queue).what = "start"
      BY <1>3, NetTyped DEF OnStart, Handles, Comes
    <2>2. nextID = 1 /\ link = "idle" /\ rs = {}
      BY <2>1, TailMessages DEF QueueInv, LossInv
    <2>3. /\ ~lost /\ UNCHANGED lost
          /\ \A m \in Messages(queue') : ~(m.what = "error" /\ m.id = 1)
      BY <1>1, <1>3, <2>2 DEF OnStart, LossInv, Ended
    <2>4. sessionID' \in {0, 1} /\ (nextID' = 1 => link' = "idle")
      <3>1. CASE UNCHANGED <<sessionID, link>>
        BY <2>2, <3>1 DEF LossInv
      <3>2. CASE sessionID' = nextID /\ nextID' = nextID + 1
        BY <2>2, <3>2
      <3> QED
        BY <1>3, <3>1, <3>2 DEF OnStart
    <2> QED
      BY <1>2, <2>2, <2>3, <2>4 DEF LossInv
  <1>4. ASSUME UNCHANGED link, nextID' = nextID \/ nextID' > nextID, sessionID' \in {0, 1},
               lost' => Ended, FirstKept
        PROVE  LossInv'
    <2>1. nextID' = 1 => nextID = 1
      BY <1>4, NetTyped
    <2>2. Ended' = Ended
      BY <1>4 DEF Ended
    <2>3. FirstReadable'
      BY <1>2, <1>4 DEF FirstReadable, LossInv, FirstKept
    <2> QED
      BY <1>1, <1>2, <1>4, <2>1, <2>2, <2>3 DEF LossInv, FirstReadable
  <1>5. CASE OnError
    <2> DEFINE id == Head(queue).id
    <2>1. /\ queue \in Seq(Message) /\ queue # <<>> /\ Head(queue).what = "error"
          /\ Head(queue) \in Messages(queue)
      BY <1>5, NetTyped, TailMessages DEF OnError, Handles, Comes
    <2>2. id \in Ids
      BY <2>1, NetTyped, HeadTailProperties DEF Message
    <2>3. ErrorIsOwn(id) => Ended
      BY <2>1, <2>2, IdsAssumption DEF ErrorIsOwn, LossInv
    <2>4. /\ lost' => Ended
          /\ sessionID' \in {0, 1}
      BY <1>5, <2>3 DEF OnError, LossInv
    <2>5. UNCHANGED <<link, nextID>>
      BY <1>5 DEF OnError, Elsewhere, sourceVars
    <2>6. FirstKept
      BY <1>5, NetTyped, DestroyedFrame, IdsAssumption DEF OnError, FirstKept
    <2> QED
      BY <1>4, <2>4, <2>5, <2>6
  <1>6. CASE ~OnStart /\ ~OnError
    <2>1. /\ UNCHANGED <<link, sessionID, lost>>
          /\ nextID' = nextID \/ nextID' = nextID + 2
      BY <1>6 DEF Looper, OnConnected, OnBinaryData, OnData, CannotReply,
       OnReplyRequest, OnOptionsRequest, OnTeardownTrigger, OnSetupTrigger, SetupWithoutPlayer,
       Unsolicited, OnResponse, OnSimpleResponse, OnSetupResponse, FailsOnResponse,
       FailsToConnect, FailsToPlay, OnDatagram, OnQueueBuffer, OnStopConnected, OnStopAtOnce,
       Elsewhere, sourceVars, sinkVars
    <2>2. nextID' = nextID \/ nextID' > nextID
      BY <2>1, NetTyped
    <2>3. lost' => Ended
      BY <2>1 DEF LossInv
    <2>4. CASE FirstKept
      BY <1>4, <2>1, <2>2, <2>3, <2>4 DEF LossInv
    <2>5. CASE nextID = 1
      <3>1. rs' = {} /\ link' = "idle"
        BY <1>2, <2>1, <2>5 DEF LossInv
      <3> QED
        BY <1>1, <2>1, <3>1 DEF LossInv, Ended
    <2> QED
      BY <1>2, <2>4, <2>5
  <1> QED
    BY <1>3, <1>5, <1>6

LEMMA LossOfOthers ==
  ASSUME TypeOK, QueueInv, SessionsInv, KindInv, LossInv,
         Reports \/ OnTeardownTimedOut \/ Starts \/ Stops \/ StopsSink \/ JoinsThread \/ Source
  PROVE  LossInv'
  <1>1. \A m \in Messages(queue') : m \in Messages(queue) \/ m.what \in {"start", "stop"}
    BY OthersPost
  <1>2. /\ UNCHANGED <<nextID, rs, sessionID, lost>>
        /\ UNCHANGED thread \/ thread' = "collect"
    BY DEF Reports, OnTeardownTimedOut, Starts, Stops, StopsSink, JoinsThread, Source, Connection,
       Disconnection, Asks, Frames, Answers, Refuses, Responds, Arrives, SourceLeaves, netVars,
       threadVars, sinkVars, Elsewhere
  <1>3. FirstKept \/ nextID = 1
    BY KindOfLooper, KindOfUi
  <1>4. /\ Ended => Ended'
        /\ link = "idle" => link' = "idle"
        /\ link \in {"closed", "broken"} => link' = link
    BY DEF Reports, OnTeardownTimedOut, Starts, Stops, StopsSink, JoinsThread, Source, Connection,
       Disconnection, Asks, Frames, Answers, Refuses, Responds, Arrives, netVars, sourceVars,
       Elsewhere, Ended
  <1>5. stream # <<>> => stream' # <<>>
    <2>1. CASE UNCHANGED stream
      BY <2>1
    <2>2. CASE \E d \in Received : stream' = Append(stream, d)
      BY <2>2, AppendProperties DEF TypeOK, NetTypeOK
    <2>3. UNCHANGED stream \/ \E d \in Received : stream' = Append(stream, d)
      BY RequestReceived, AnswerReceived
         DEF Reports, OnTeardownTimedOut, Starts, Stops, StopsSink, JoinsThread, Source,
             Connection, Disconnection, Asks, Frames, Answers, Refuses, Responds, Arrives,
             netVars, sourceVars, Elsewhere
    <2> QED
      BY <2>1, <2>2, <2>3
  <1>6. FirstReadable'
    <2>1. CASE nextID = 1
      BY <1>2, <2>1 DEF LossInv, FirstReadable
    <2>2. CASE FirstKept
      BY <1>2, <1>4, <1>5, <2>2 DEF LossInv, FirstKept, FirstReadable
    <2> QED
      BY <1>3, <2>1, <2>2
  <1> QED
    BY <1>1, <1>2, <1>4, <1>6 DEF LossInv, FirstReadable

-----------------------------------------------------------------------------
(* The sessions of the RTPSink. *)

SinkKept ==
  rtpSink # NoSink =>
    /\ rtpSink.rtp # rtpSink.id => rtpSink.rtp = 0 /\ rtpSink.id \in failed
    /\ rtpSink.rtcp # rtpSink.id + 1 => rtpSink.rtcp = 0 /\ rtpSink.id + 1 \in failed

SetupsHaveSinks ==
  /\ looper = "off" => handlers = {}
  /\ looper = "running" => \A h \in handlers : h.func = "Setup" => rtpSink # NoSink

LEMMA FailedOfNetwork ==
  ASSUME TypeOK, KindInv, LossInv, FailedInv, NetworkThread, UNCHANGED <<sinkVars, failed>>
  PROVE  FailedInv'
  <1>1. \A i \in Ids : arrived'[i] \in {"empty", "error"} => arrived[i] \in {"empty", "error"}
    <2>1. arrived \in [Ids -> {"nothing", "datagram", "empty", "error"}]
      BY DEF TypeOK, NetTypeOK
    <2> QED
      BY <2>1, StreamOfNetwork
  <1>2. \A m \in Messages(queue') : m.what = "error" => m.id = 1 \/ m.id \in failed
    <2> SUFFICES ASSUME NEW m \in Messages(queue'), m.what = "error"
                 PROVE  m.id = 1 \/ m.id \in failed
      OBVIOUS
    <2>1. m # Notification(Head(stream))
      BY DEF Notification
    <2> QED
      BY <2>1, NetworkPosts DEF FailedInv
  <1> QED
    BY <1>1, <1>2 DEF FailedInv, sinkVars

LEMMA FailedOfLooper ==
  ASSUME TypeOK, SessionsInv, FailedInv, Looper, UNCHANGED failed PROVE FailedInv'
  <1>0. /\ rtpSink # NoSink => rtpSink \in RTPSink
        /\ NoSink \notin RTPSink
    BY NoSinkAssumption DEF TypeOK, SinkTypeOK
  <1>1. \A m \in Messages(queue') : m \in Messages(queue) \/ m.what = "queueBuffer"
    BY LooperPosts
  <1>2. UNCHANGED <<arrived, looper>> /\ looper = "running"
    BY DEF Looper, OnStart, OnError, OnConnected, OnBinaryData, OnData, CannotReply,
       OnReplyRequest, OnOptionsRequest, OnTeardownTrigger, OnSetupTrigger, SetupWithoutPlayer,
       HandlesRequest, Unsolicited, OnResponse, OnSimpleResponse, OnSetupResponse,
       FailsOnResponse, FailsToConnect, FailsToPlay, HandlesSetupAnswer, HandlesAnswer,
       OnDatagram, OnQueueBuffer, OnStopConnected, OnStopAtOnce, Handles, Comes, Elsewhere,
       sourceVars, sinkVars
  <1>3. ASSUME SinkKept', SetupsHaveSinks' PROVE FailedInv'
    BY <1>1, <1>2, <1>3 DEF FailedInv, SinkKept, SetupsHaveSinks
  <1>4. ASSUME rtpSink = NoSink <=> rtpSink' = NoSink,
               \A h \in handlers' : h.func = "Setup" => h \in handlers
        PROVE  SetupsHaveSinks'
    BY <1>2, <1>4 DEF FailedInv, SetupsHaveSinks
  <1>5. ASSUME NEW k \in RTPSink, rtpSink' = k, rtpSink # NoSink,
               k.id = rtpSink.id, k.rtp = rtpSink.rtp, k.rtcp = rtpSink.rtcp
        PROVE  SinkKept' /\ (rtpSink = NoSink <=> rtpSink' = NoSink)
    BY <1>0, <1>5 DEF FailedInv, SinkKept
  <1>6. CASE OnSetupTrigger
    <2>1. /\ rtpSink'.rtp = rtpSink'.id /\ rtpSink'.rtcp = rtpSink'.id + 1
          /\ nextCSeq \in CSeq /\ {nextID, nextID + 1} \subseteq Ids
          /\ rtpSink' = NewSink(nextID, nextCSeq)
      BY <1>6 DEF OnSetupTrigger, NewSink, Requests
    <2>2. rtpSink' \in RTPSink
      BY <2>1, MaxReportsAssumption DEF NewSink, RTPSink
    <2> QED
      BY <1>0, <1>2, <1>3, <2>1, <2>2 DEF SinkKept, SetupsHaveSinks
  <1>7. CASE OnError
    <2> DEFINE id == Head(queue).id
    <2>1. /\ queue \in Seq(Message) /\ queue # <<>> /\ Head(queue).what = "error"
          /\ Head(queue) \in Messages(queue) /\ UNCHANGED handlers
      BY <1>7, NetTyped, TailMessages DEF OnError, Handles, Comes
    <2>2. id \in Ids /\ (id = 1 \/ id \in failed)
      BY <2>1, NetTyped, HeadTailProperties DEF Message, FailedInv
    <2>3. CASE rtpSink' = rtpSink
      BY <1>3, <1>4, <2>1, <2>3 DEF FailedInv, SinkKept
    <2>4. CASE rtpSink # NoSink /\ id = rtpSink.rtp /\ rtpSink' = [rtpSink EXCEPT !.rtp = 0]
      <3>1. id \in failed /\ rtpSink.rtp = rtpSink.id
        BY <2>2, <2>4, IdsAssumption DEF SessionsInv, SessionsOf, FailedInv
      <3>2. /\ rtpSink' \in RTPSink /\ rtpSink'.rtp = 0 /\ rtpSink'.id = rtpSink.id
            /\ rtpSink'.rtcp = rtpSink.rtcp
        BY <1>0, <2>4 DEF RTPSink
      <3>3. SinkKept'
        BY <2>4, <3>1, <3>2 DEF FailedInv, SinkKept
      <3> QED
        BY <1>0, <1>3, <1>4, <2>1, <2>4, <3>2, <3>3
    <2>5. CASE rtpSink # NoSink /\ id = rtpSink.rtcp /\ rtpSink' = [rtpSink EXCEPT !.rtcp = 0]
      <3>1. id \in failed /\ rtpSink.rtcp = rtpSink.id + 1
        BY <2>2, <2>5, IdsAssumption DEF SessionsInv, SessionsOf, FailedInv
      <3>2. /\ rtpSink' \in RTPSink /\ rtpSink'.rtcp = 0 /\ rtpSink'.id = rtpSink.id
            /\ rtpSink'.rtp = rtpSink.rtp
        BY <1>0, <2>5 DEF RTPSink
      <3>3. SinkKept'
        BY <2>5, <3>1, <3>2 DEF FailedInv, SinkKept
      <3> QED
        BY <1>0, <1>3, <1>4, <2>1, <2>5, <3>2, <3>3
    <2> QED
      BY <1>7, <2>3, <2>4, <2>5 DEF OnError, SessionsOf
  <1>8. ASSUME NEW h \in handlers, OnSetupResponse(h) \/ FailsToPlay(h) PROVE FailedInv'
    <2>0. /\ rtpSink # NoSink /\ rtpSink' = [rtpSink EXCEPT !.answer = h.cseq] /\ h.cseq \in CSeq
          /\ handlers' \subseteq handlers \cup {[cseq |-> nextCSeq, func |-> "Play"]}
      BY <1>8 DEF OnSetupResponse, FailsToPlay, Connected, CanConnect, TypeOK, SinkTypeOK, Handler
    <2>1. \A g \in handlers' : g.func = "Setup" => g \in handlers
      BY <2>0
    <2>2. /\ rtpSink' \in RTPSink /\ rtpSink'.id = rtpSink.id /\ rtpSink'.rtp = rtpSink.rtp
          /\ rtpSink'.rtcp = rtpSink.rtcp
      BY <1>0, <2>0 DEF RTPSink
    <2> QED
      BY <1>3, <1>4, <1>5, <2>0, <2>1, <2>2
  <1>9. CASE OnDatagram \/ OnQueueBuffer
    <2>1. UNCHANGED handlers
      BY <1>9 DEF OnDatagram, OnQueueBuffer
    <2>2. CASE rtpSink' = rtpSink
      BY <1>3, <1>4, <2>1, <2>2 DEF FailedInv, SinkKept
    <2>3. ASSUME rtpSink # NoSink, NEW r \in {"made", "player"},
                 rtpSink' = [rtpSink EXCEPT !.renderer = r]
          PROVE  FailedInv'
      <3>1. /\ rtpSink' \in RTPSink /\ rtpSink'.id = rtpSink.id /\ rtpSink'.rtp = rtpSink.rtp
            /\ rtpSink'.rtcp = rtpSink.rtcp
        BY <1>0, <2>3 DEF RTPSink
      <3> QED
        BY <1>3, <1>4, <1>5, <2>1, <2>3, <3>1
    <2> QED
      BY <1>9, <2>2, <2>3 DEF OnDatagram, OnQueueBuffer, IsHandler
  <1>10. CASE /\ UNCHANGED rtpSink
              /\ \A h \in handlers' : h.func = "Setup" => h \in handlers
    BY <1>3, <1>4, <1>10 DEF FailedInv, SinkKept
  <1>11. CASE OnOptionsRequest \/ OnStopConnected
    <2>1. UNCHANGED rtpSink /\ \E w \in {"M2", "M8"} :
            handlers' = handlers \cup {[cseq |-> nextCSeq, func |-> w]}
      BY <1>11 DEF OnOptionsRequest, OnStopConnected
    <2> QED
      BY <1>10, <2>1
  <1> QED
    BY <1>6, <1>7, <1>8, <1>9, <1>10, <1>11 DEF Looper, OnStart, OnConnected, OnBinaryData,
       OnData, CannotReply, OnReplyRequest, OnTeardownTrigger, SetupWithoutPlayer, Unsolicited,
       OnResponse, OnSimpleResponse, FailsOnResponse, FailsToConnect, OnStopAtOnce, sinkVars

LEMMA FailedOfOthers ==
  ASSUME TypeOK, UiInv, FailedInv,
         \/ /\ Reports \/ OnTeardownTimedOut \/ Starts \/ Stops \/ StopsSink \/ JoinsThread
            /\ UNCHANGED failed
         \/ Source
  PROVE  FailedInv'
  <1>1. \A m \in Messages(queue') : m \in Messages(queue) \/ m.what \in {"start", "stop"}
    BY OthersPost
  <1>2. /\ failed \subseteq failed'
        /\ \A i \in Ids : arrived'[i] \in {"empty", "error"} =>
             arrived[i] \in {"empty", "error"} \/ i \in failed'
    <2>1. ASSUME NEW i \in Ids, NEW w \in {"datagram", "empty", "error"}, Arrives(i, w)
          PROVE  /\ failed \subseteq failed'
                 /\ \A k \in Ids : arrived'[k] \in {"empty", "error"} =>
                      arrived[k] \in {"empty", "error"} \/ k \in failed'
      BY <2>1 DEF Arrives, TypeOK, NetTypeOK
    <2>2. CASE UNCHANGED <<arrived, failed>>
      BY <2>2
    <2> QED
      BY <2>1, <2>2 DEF Reports, OnTeardownTimedOut, Starts, Stops, StopsSink, JoinsThread, Source,
         Connection, Disconnection, Asks, Frames, Answers, Refuses, Responds, netVars,
         sourceVars, eventVars, Elsewhere
  <1>3. ASSUME SinkKept', SetupsHaveSinks' PROVE FailedInv'
    BY <1>1, <1>2, <1>3 DEF FailedInv, SinkKept, SetupsHaveSinks
  <1>4. CASE UNCHANGED <<rtpSink, handlers, looper>>
    BY <1>2, <1>3, <1>4 DEF FailedInv, SinkKept, SetupsHaveSinks
  <1>5. CASE Starts
    <2>1. UNCHANGED <<rtpSink, handlers>> /\ handlers = {}
      BY <1>5 DEF Starts, UiInv, FailedInv
    <2> QED
      BY <1>2, <1>3, <2>1 DEF FailedInv, SinkKept, SetupsHaveSinks
  <1>6. CASE StopsSink
    BY <1>2, <1>3, <1>6 DEF StopsSink, FailedInv, SinkKept, SetupsHaveSinks
  <1>7. CASE Reports
    <2>1. rtpSink \in RTPSink /\ rtpSink # NoSink /\ UNCHANGED <<handlers, looper>>
      BY <1>7 DEF Reports, TypeOK, SinkTypeOK
    <2>2. /\ rtpSink'.id = rtpSink.id /\ rtpSink'.rtp = rtpSink.rtp
          /\ rtpSink'.rtcp = rtpSink.rtcp /\ rtpSink' # NoSink
      <3>1. [rtpSink EXCEPT !.reports = @ + 1] \in RTPSink
        BY <1>7, <2>1, MaxReportsAssumption DEF Reports, RTPSink
      <3> QED
        BY <1>7, <2>1, <3>1, NoSinkAssumption DEF Reports, RTPSink
    <2> QED
      BY <1>2, <1>3, <2>1, <2>2 DEF FailedInv, SinkKept, SetupsHaveSinks
  <1> QED
    BY <1>4, <1>5, <1>6, <1>7 DEF OnTeardownTimedOut, Stops, JoinsThread, Source, Connection,
       Disconnection, Asks, Frames, Answers, Refuses, Responds, Arrives, SourceLeaves, sinkVars

-----------------------------------------------------------------------------
(* The CHECKs. *)

Strong ==
  /\ QueueInv /\ SessionsInv /\ UiInv /\ WritesInv /\ RendererInv
  /\ SourceInv /\ KindInv /\ LossInv /\ FailedInv

LEMMA StrongKept == ASSUME TypeOK, Strong, [Next]_vars PROVE Strong'
  <1> USE DEF Strong
  <1>1. UiInv'
    BY UiKept
  <1>2. CASE Network
    <2>1. NetworkThread /\ UNCHANGED <<sinkVars, faults, failed>>
      BY <1>2 DEF Network, eventVars
    <2>2. QueueInv' /\ SessionsInv' /\ WritesInv' /\ RendererInv'
      BY <2>1, QueueOfNetwork, SessionsOfNetwork, RendererOfNetwork
    <2>3. KindInv'
      BY <2>1, KindsOfNetwork DEF KindsKept, KindInv
    <2> QED
      BY <1>1, <2>1, <2>2, <2>3, SourceOfNetwork, LossOfNetwork, FailedOfNetwork
  <1>3. CASE LooperRuns
    <2>1. Looper /\ UNCHANGED <<faults, failed>>
      BY <1>3 DEF LooperRuns, eventVars
    <2>2. QueueInv' /\ SessionsInv' /\ WritesInv' /\ RendererInv'
      BY <2>1, QueueOfLooper, SessionsOfLooper, RendererOfLooper
    <2> QED
      BY <1>1, <2>1, <2>2, SourceOfLooper, KindOfLooper, LossOfLooper, FailedOfLooper
  <1>4. CASE (Reports \/ OnTeardownTimedOut) /\ UNCHANGED <<faults, failed>>
    <2>1. UNCHANGED <<queue, nextID, state>>
      BY <1>4 DEF Reports, OnTeardownTimedOut
    <2>2. QueueInv'
      BY <2>1 DEF QueueInv
    <2>3. RendererInv'
      BY <1>4, <2>1, RendererOfOthers DEF OnTeardownTimedOut, RendererInv
    <2> QED
      BY <1>1, <1>4, <2>2, <2>3, SessionsOfLooper, SourceOfOthers, KindOfLooper, LossOfOthers,
         FailedOfOthers
  <1>5. CASE \/ (Starts \/ Stops \/ StopsSink \/ JoinsThread) /\ UNCHANGED <<faults, failed>>
             \/ Source
    BY <1>1, <1>5, QueueOfUi, SessionsOfUi, RendererOfOthers, SourceOfOthers, KindOfUi,
       LossOfOthers, FailedOfOthers
  <1>6. CASE UNCHANGED vars
    BY <1>6 DEF vars, netVars, threadVars, sourceVars, sinkVars, eventVars, QueueInv, SessionsInv,
       UiInv, WritesInv, RendererInv, SourceInv, Caused, Made, KindInv, LossInv, Ended, FailedInv
  <1>7. \/ Network \/ LooperRuns \/ UNCHANGED vars
        \/ (Reports \/ OnTeardownTimedOut) /\ UNCHANGED <<faults, failed>>
        \/ (Starts \/ Stops \/ StopsSink \/ JoinsThread) /\ UNCHANGED <<faults, failed>>
        \/ Source
    BY DEF Next, ReportsGo, TimesOut, Completes, PlaybackCompletes, Stopping, Others,
       SurfaceDestroyed, Starts, Stops, StopsSink, JoinsThread, eventVars
  <1> QED
    BY <1>2, <1>3, <1>4, <1>5, <1>6, <1>7

LEMMA StrongInit == ASSUME Init PROVE Strong
  <1>1. queue = <<>> /\ Messages(queue) = {} /\ stream = <<>> /\ Messages(stream) = {}
    BY DEF Init, NetInit, Messages
  <1>2. \A i \in Ids : ~IsOpen(sessions, i)
    BY DEF Init, NetInit, IsOpen
  <1>3. QueueInv /\ SessionsInv /\ UiInv /\ WritesInv /\ RendererInv
    BY <1>1, <1>2 DEF Init, NetInit, SinkInit, QueueInv, SessionsInv, UiInv, WritesInv,
       RendererInv, NoPlayer
  <1>4. SourceInv /\ KindInv /\ LossInv /\ FailedInv
    BY <1>1, <1>2 DEF Init, NetInit, SinkInit, SourceInv, KindInv, LossInv, FailedInv
  <1> QED
    BY <1>3, <1>4 DEF Strong

\* What the head of the queue says of its sender.
LEMMA HeadOfQueue ==
  ASSUME TypeOK, NEW w, Handles(w)
  PROVE  looper = "running" /\ Head(queue) \in Messages(queue) /\ Head(queue).what = w
  BY NetTyped, TailMessages DEF Handles, Comes

\* A CHECK that fails in a handler.
LEMMA ChecksOfLooper ==
  ASSUME TypeOK, Strong, Strong', Looper, aborted = "no", UNCHANGED <<faults, failed>>,
         aborted' # "no"
  PROVE  ChecksHold'
  <1> USE DEF Strong
  <1>1. CASE OnStart
    BY <1>1 DEF OnStart, Aborts, ChecksHold
  <1>2. CASE CannotReply
    <2>1. /\ looper = "running" /\ ~IsOpen(sessions, 1)
          /\ Head(queue) \in Messages(queue) /\ Head(queue).what = "data"
      BY <1>2, HeadOfQueue DEF CannotReply, HandlesRequest
    <2>2. lost /\ link \in {"closed", "broken"}
      BY <2>1 DEF QueueInv, SessionsInv, SourceInv, Made, LossInv, Ended
    <2> QED
      BY <1>2, <2>2 DEF CannotReply, Aborts, ChecksHold, Elsewhere, sourceVars, sinkVars
  <1>3. CASE SetupWithoutPlayer
    <2>1. NoPlayer(rtpSink) /\ UNCHANGED rtpSink /\ aborted' = "player"
      BY <1>3 DEF SetupWithoutPlayer, Aborts, sinkVars
    <2>2. [what |-> "queueBuffer", sink |-> rtpSink'.id] \in Messages(queue')
      BY <2>1 DEF RendererInv
    <2> QED
      BY <2>1, <2>2 DEF ChecksHold, Messages
  <1>4. CASE OnBinaryData
    <2>1. Head(queue) \in Messages(queue) /\ Head(queue).what = "binaryData"
      BY <1>4, HeadOfQueue DEF OnBinaryData
    <2>2. "frame" \in faults
      BY <2>1 DEF SourceInv
    <2> QED
      BY <1>4, <2>2 DEF OnBinaryData, Aborts, ChecksHold
  <1>5. ASSUME NEW h \in handlers, FailsOnResponse(h) PROVE ChecksHold'
    <2>1. /\ Head(queue) \in Messages(queue) /\ Head(queue).what = "data"
          /\ Head(queue).data.what = "answer" /\ Head(queue).data.ok = FALSE
      BY <1>5, HeadOfQueue DEF FailsOnResponse, HandlesAnswer
    <2>2. "refusal" \in faults
      BY <2>1 DEF SourceInv, Caused
    <2> QED
      BY <1>5, <2>2 DEF FailsOnResponse, Aborts, ChecksHold
  <1>6. ASSUME NEW h \in handlers, FailsToConnect(h) PROVE ChecksHold'
    <2>1. looper = "running" /\ h.func = "Setup" /\ ~CanConnect
      BY <1>6, HeadOfQueue DEF FailsToConnect, HandlesSetupAnswer, HandlesAnswer
    <2>2. rtpSink.rtp = 0 \/ rtpSink.rtcp = 0
      BY <2>1 DEF CanConnect, FailedInv
    <2>3. rtpSink # NoSink /\ rtpSink.id # 0 /\ rtpSink.id + 1 # 0
      <3>1. rtpSink # NoSink
        BY <2>1 DEF FailedInv
      <3>2. rtpSink.id \in Ids
        BY <3>1 DEF TypeOK, SinkTypeOK, RTPSink
      <3>3. rtpSink.id \in Nat \ {0}
        BY <3>2, IdsAssumption
      <3> QED
        BY <3>1, <3>3
    <2>4. rtpSink.id \in failed \/ rtpSink.id + 1 \in failed
      BY <2>2, <2>3 DEF FailedInv
    <2> QED
      BY <1>6, <2>4 DEF FailsToConnect, Aborts, ChecksHold
  <1>7. ASSUME NEW h \in handlers, FailsToPlay(h) PROVE ChecksHold'
    <2>1. /\ looper = "running" /\ ~IsOpen(sessions, 1)
          /\ Head(queue) \in Messages(queue) /\ Head(queue).what = "data"
      BY <1>7, HeadOfQueue DEF FailsToPlay, HandlesSetupAnswer, HandlesAnswer
    <2>2. lost /\ link \in {"closed", "broken"}
      BY <2>1 DEF QueueInv, SessionsInv, SourceInv, Made, LossInv, Ended
    <2> QED
      BY <1>7, <2>2 DEF FailsToPlay, Aborts, ChecksHold, Elsewhere, sourceVars
  <1> QED
    BY <1>1, <1>2, <1>3, <1>4, <1>5, <1>6, <1>7 DEF Looper, OnError, OnConnected, OnData,
       OnReplyRequest, OnOptionsRequest, OnTeardownTrigger, OnSetupTrigger, Unsolicited,
       OnResponse, OnSimpleResponse, OnSetupResponse, OnDatagram, OnQueueBuffer,
       OnStopConnected, OnStopAtOnce

\* The step that fails a CHECK; after it there is none.
LEMMA ChecksKept ==
  ASSUME TypeOK, Strong, ChecksHold, [Next]_vars PROVE ChecksHold'
  <1> USE DEF Strong
  <1>1. CASE aborted' = "no"
    BY <1>1 DEF ChecksHold
  <1>2. CASE UNCHANGED vars
    BY <1>2 DEF vars, netVars, sourceVars, sinkVars, eventVars, ChecksHold
  <1>3. CASE Network /\ aborted' # "no"
    <2>1. PICK i \in Ids : FindsNothingToSend(i)
      BY <1>3 DEF Network, NetworkThread, Leaves, Collects, SelectFails, Selects, ServedAll,
         ReadsDatagram, ReadsStream, Connects, Sends, FailsToSend
    <2>2. /\ IsOpen(sessions, i) /\ sessions[i].fd \in ws
          /\ sessions[i].state # "CONNECTING" /\ ~sessions[i].out
      BY <2>1 DEF FindsNothingToSend, Writes, Serves, Due, Open
    <2>3. setups > 1
      BY <2>2 DEF WritesInv, TypeOK, SinkTypeOK
    <2> QED
      BY <1>3, <2>1, <2>3 DEF FindsNothingToSend, Network, sinkVars, ChecksHold
  <1>4. CASE LooperRuns /\ aborted' # "no"
    BY <1>4, StrongKept, ChecksOfLooper DEF LooperRuns, Runs, eventVars
  <1>5. CASE StopsSink /\ aborted = "no" /\ aborted' # "no"
    <2>1. NoPlayer(rtpSink) /\ UNCHANGED <<rtpSink, queue>> /\ aborted' = "player"
      BY <1>5 DEF StopsSink, Aborts
    <2>2. [what |-> "queueBuffer", sink |-> rtpSink.id] \in Messages(queue)
      BY <2>1 DEF RendererInv
    <2> QED
      BY <2>1, <2>2 DEF ChecksHold, Messages
  <1>6. CASE Next /\ ~Network /\ ~LooperRuns /\ ~StopsSink
    <2>1. aborted' = "no"
      BY <1>6 DEF Next, ReportsGo, Reports, TimesOut, OnTeardownTimedOut, Completes,
         PlaybackCompletes, Stopping, JoinsThread, Others, SurfaceDestroyed, Starts, Stops,
         Source, Connection, Disconnection, Asks, Frames, Answers, Refuses, Responds, Arrives,
         SourceLeaves, Runs, netVars
    <2> QED
      BY <1>1, <2>1
  <1>7. aborted = "no" \/ UNCHANGED vars
    BY DEF Next, Network, LooperRuns, ReportsGo, TimesOut, Completes, Stopping, Others, Runs
  <1> QED
    BY <1>1, <1>2, <1>3, <1>4, <1>5, <1>6, <1>7

\* ChecksHold of the run wfd: each CHECK that fails, and each call of a player that is not there,
\* has the cause it names and no other, for any number of sessions, descriptors, events and
\* SETUPs.
THEOREM ChecksFailAsSaid == Spec => []ChecksHold
  <1>1. Init => Strong /\ ChecksHold
    BY StrongInit DEF Init, NetInit, ChecksHold
  <1>2. TypeOK /\ Strong /\ ChecksHold /\ [Next]_vars => Strong' /\ ChecksHold'
    BY StrongKept, ChecksKept
  <1> QED
    BY <1>1, <1>2, TypeCorrect, PTL DEF Spec
=============================================================================
