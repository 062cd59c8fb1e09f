--------------------------- MODULE NetworkSession ---------------------------
(***************************************************************************)
(* ANetworkSession: the sockets of the WiFi Display sink and the thread    *)
(* that selects on them.  Its operations run on the caller's thread under  *)
(* mLock; the network thread holds mLock while it collects the sockets and *)
(* again while it serves those that select reported, and not in between:   *)
(* by then a session may be gone, and its descriptor be another session's. *)
(*                                                                         *)
(* Session 1 is the RTSP client, all others are UDP.  The servers and the  *)
(* TCP datagram sessions, which the sink never makes, are left out.  What  *)
(* a session has to send is empty or not; a socket that select calls       *)
(* writable takes all of it or fails.  A read of the RTSP socket brings    *)
(* one whole message.                                                      *)
(***************************************************************************)
EXTENDS Integers, Sequences, FiniteSets

CONSTANTS
  Ids,           \* the session ids that may be given out
  Fds,           \* the descriptors that sockets may have
  NoSession,
  Request,       \* what the source may ask for
  MaxCSeq        \* the last CSeq of the sink's requests

ASSUME IdsAssumption == Ids \subseteq Nat \ {0} /\ 1 \in Ids
ASSUME FdsAssumption == Fds \subseteq Nat
ASSUME CSeqAssumption == MaxCSeq \in Nat
ASSUME RequestAssumption == Request \subseteq {"OPTIONS", "REPLY", "SETUP", "TEARDOWN"}

VARIABLES
  sessions,   \* mSessions
  nextID,     \* mNextSessionID
  thread,     \* the network thread: its place in threadLoop, "none" without one
  exiting,    \* requestExit was called
  rs, ws,     \* the sets of descriptors
  pipe,       \* the pipe of interrupt holds bytes
  queue,      \* the looper's messages, to which sessions add what happens
  link,       \* the RTSP connection
  stream,     \* what the source sent on it and was not read yet
  unsent,     \* the CSeqs of the requests in the RTSP session's mOutBuffer
  reached,    \* the CSeqs that reached the source and were not answered
  arrived,    \* what is to be read from a UDP socket
  aborted     \* the CHECK, or the call through NULL, that ended the process

threadVars == <<thread, rs, ws>>
sourceVars == <<link, stream, reached, arrived>>
netVars == <<sessions, nextID, threadVars, exiting, pipe, sourceVars, unsent>>

CSeq == 1..MaxCSeq

Session ==
  [state : {"CONNECTING", "CONNECTED", "DATAGRAM"}, fd : Fds, out : BOOLEAN,
   sawReceiveFailure : BOOLEAN, sawSendFailure : BOOLEAN]
ASSUME NoSessionAssumption == NoSession \notin Session

\* A request, a '$' frame, or the answer to a request of the sink; ok: it is one that the sink
\* can take (see WifiDisplaySink).
Received ==
  [what : Request \cup {"frame"}] \cup [what : {"answer"}, cseq : CSeq, ok : BOOLEAN]

Message ==
  [what : {"start", "stop", "connected", "binaryData"}]
    \cup [what : {"data"}, data : Received]
    \cup [what : {"error", "datagram"}, id : Ids]
    \cup [what : {"queueBuffer"}, sink : Ids]

Outcome ==
  {"no", "create", "reply", "answer", "ports", "play", "frame", "empty", "player"}

NetTypeOK ==
  /\ sessions \in [Ids -> Session \cup {NoSession}]
  /\ nextID \in Nat \ {0}
  /\ thread \in {"none", "collect", "select", "lock", "serve"}
  /\ rs \subseteq Fds /\ ws \subseteq Fds
  /\ exiting \in BOOLEAN /\ pipe \in BOOLEAN
  /\ queue \in Seq(Message)
  /\ link \in {"idle", "connecting", "refused", "up", "closed", "broken"}
  /\ stream \in Seq(Received)
  /\ unsent \subseteq CSeq /\ reached \subseteq CSeq
  /\ arrived \in [Ids -> {"nothing", "datagram", "empty", "error"}]
  /\ aborted \in Outcome

NetInit ==
  /\ sessions = [i \in Ids |-> NoSession] /\ nextID = 1
  /\ thread = "none" /\ rs = {} /\ ws = {} /\ exiting = FALSE /\ pipe = FALSE
  /\ queue = <<>>
  /\ link = "idle" /\ stream = <<>> /\ unsent = {} /\ reached = {}
  /\ arrived = [i \in Ids |-> "nothing"]
  /\ aborted = "no"

-----------------------------------------------------------------------------
(* The operations, on the table s of sessions; they hold mLock. *)

Unlocked == thread # "serve"

IsOpen(s, i) == i \in Ids /\ s[i] # NoSession
FreeFds(s) == {f \in Fds : \A i \in Ids : IsOpen(s, i) => s[i].fd # f}

\* The kernel gives a socket the lowest free descriptor.
Lowest(f, F) == f \in F /\ \A g \in F : f <= g

Created(s, id, state, f) ==
  [s EXCEPT ![id] = [state |-> state, fd |-> f, out |-> FALSE,
                     sawReceiveFailure |-> FALSE, sawSendFailure |-> FALSE]]

Destroyed(s, D) == [i \in Ids |-> IF i \in D THEN NoSession ELSE s[i]]

\* sendRequest gives -ENOENT, and changes nothing, for a session that is not open.
Sent(s, id) == IF IsOpen(s, id) THEN [s EXCEPT ![id].out = TRUE] ELSE s

\* Mutant: sendRequest does not wake the network thread.
InterruptIdly(any) == UNCHANGED pipe
Interrupt(any) == pipe' = (pipe \/ any)

-----------------------------------------------------------------------------
(* The network thread. *)

WantsToRead(i) == ~sessions[i].sawReceiveFailure /\ sessions[i].state # "CONNECTING"

\* Mutant: a UDP session always wants to write.
WantsToWriteDatagrams(i) ==
  /\ ~sessions[i].sawSendFailure
  /\ sessions[i].state \in {"CONNECTING", "DATAGRAM"} \/ sessions[i].out
WantsToWrite(i) ==
  /\ ~sessions[i].sawSendFailure
  /\ sessions[i].state = "CONNECTING" \/ sessions[i].out

Open == {i \in Ids : IsOpen(sessions, i)}
Leaves ==
  /\ thread = "collect" /\ exiting
  /\ thread' = "none"
  /\ UNCHANGED <<sessions, nextID, rs, ws, exiting, pipe, queue, sourceVars, unsent, aborted>>

Collects ==
  /\ thread = "collect" /\ ~exiting
  /\ rs' = {sessions[i].fd : i \in {j \in Open : WantsToRead(j)}}
  /\ ws' = {sessions[i].fd : i \in {j \in Open : WantsToWrite(j)}}
  /\ thread' = "select"
  /\ UNCHANGED <<sessions, nextID, exiting, pipe, queue, sourceVars, unsent, aborted>>

\* What select finds of a session.
Readable(i) ==
  IF sessions[i].state = "DATAGRAM" THEN arrived[i] # "nothing"
  ELSE stream # <<>> \/ link \in {"closed", "broken"}
Writable(i) == sessions[i].state = "CONNECTING" => link # "connecting"

\* A descriptor that was closed after it was collected makes select fail.
SelectFails ==
  /\ thread = "select" /\ (rs \cup ws) \cap FreeFds(sessions) # {}
  /\ thread' = "collect"
  /\ UNCHANGED <<sessions, nextID, rs, ws, exiting, pipe, queue, sourceVars, unsent, aborted>>

Selects ==
  /\ thread = "select" /\ (rs \cup ws) \cap FreeFds(sessions) = {}
  /\ rs' = {sessions[i].fd : i \in {j \in Open : sessions[j].fd \in rs /\ Readable(j)}}
  /\ ws' = {sessions[i].fd : i \in {j \in Open : sessions[j].fd \in ws /\ Writable(j)}}
  /\ pipe \/ rs' \cup ws' # {}
  /\ pipe' = FALSE
  /\ thread' = "lock"
  /\ UNCHANGED <<sessions, nextID, exiting, queue, sourceVars, unsent, aborted>>

\* The sessions that are still to be served, the last first; their descriptors are compared
\* with those that select reported.
Due == {i \in Open : sessions[i].fd \in rs \cup ws}
Serves(i) == thread \in {"lock", "serve"} /\ i \in Due /\ \A j \in Due : j <= i
Reads(i) == Serves(i) /\ sessions[i].fd \in rs /\ rs' = rs \ {sessions[i].fd} /\ thread' = "serve"
Writes(i) ==
  /\ Serves(i) /\ sessions[i].fd \notin rs
  /\ ws' = ws \ {sessions[i].fd} /\ thread' = "serve"

Post(m) == queue' = Append(queue, m)
\* Mutant: the notification names the socket.
FailsNamingSocket(i, send) ==
  /\ Post([what |-> "error", id |-> sessions[i].fd])
  /\ sessions' = IF send THEN [sessions EXCEPT ![i].sawSendFailure = TRUE]
                 ELSE [sessions EXCEPT ![i].sawReceiveFailure = TRUE]
Fails(i, send) ==
  /\ Post([what |-> "error", id |-> i])
  /\ sessions' = IF send THEN [sessions EXCEPT ![i].sawSendFailure = TRUE]
                 ELSE [sessions EXCEPT ![i].sawReceiveFailure = TRUE]

\* recvfrom finds nothing when the descriptor was another session's; an empty datagram is taken
\* for a connection that was reset.
ReadsDatagram(i) ==
  /\ Reads(i) /\ sessions[i].state = "DATAGRAM"
  /\ CASE arrived[i] = "nothing" -> UNCHANGED <<sessions, queue>>
       [] arrived[i] = "datagram" -> Post([what |-> "datagram", id |-> i]) /\ UNCHANGED sessions
       [] OTHER -> Fails(i, FALSE)
  /\ arrived' = [arrived EXCEPT ![i] = "nothing"]
  /\ UNCHANGED <<nextID, ws, exiting, pipe, link, stream, reached, unsent,
                 aborted>>

\* A '$' frame is binary data to the session, whether or not the sink asked for interleaving.
Notification(d) ==
  IF d.what = "frame" THEN [what |-> "binaryData"] ELSE [what |-> "data", data |-> d]

ReadsStream(i) ==
  /\ Reads(i) /\ sessions[i].state # "DATAGRAM"
  /\ IF stream # <<>>
     THEN /\ Post(Notification(Head(stream)))
          /\ stream' = Tail(stream)
          /\ UNCHANGED sessions
     ELSE Fails(i, FALSE) /\ UNCHANGED stream
  /\ UNCHANGED <<nextID, ws, exiting, pipe, link, reached, arrived,
                 unsent, aborted>>

\* writeMore of a session that is being connected.
Connects(i) ==
  /\ Writes(i) /\ sessions[i].state = "CONNECTING"
  /\ IF link \in {"refused", "broken"}
     THEN Fails(i, TRUE)
     ELSE /\ sessions' = [sessions EXCEPT ![i].state = "CONNECTED"]
          /\ Post([what |-> "connected"])
  /\ UNCHANGED <<nextID, rs, exiting, pipe, sourceVars, unsent, aborted>>

\* CHECK(!mOutBuffer.empty()) and CHECK(!mOutDatagrams.empty()).
FindsNothingToSend(i) ==
  /\ Writes(i) /\ sessions[i].state # "CONNECTING" /\ ~sessions[i].out
  /\ aborted' = "empty"
  /\ UNCHANGED <<sessions, nextID, rs, exiting, pipe, queue, sourceVars, unsent>>

\* send fails on a broken connection, and gives the ICMP error that came for a datagram.
CannotSend(i) == IF i = 1 THEN link = "broken" ELSE arrived[i] = "error"

Sends(i) ==
  /\ Writes(i) /\ sessions[i].state # "CONNECTING" /\ sessions[i].out
  /\ ~CannotSend(i)
  /\ sessions' = [sessions EXCEPT ![i].out = FALSE]
  /\ reached' = IF i = 1 THEN reached \cup unsent ELSE reached
  /\ unsent' = IF i = 1 THEN {} ELSE unsent
  /\ UNCHANGED <<nextID, rs, exiting, pipe, queue, link, stream, arrived,
                 aborted>>

FailsToSend(i) ==
  /\ Writes(i) /\ sessions[i].state # "CONNECTING" /\ sessions[i].out
  /\ CannotSend(i)
  /\ Fails(i, TRUE)
  /\ arrived' = [arrived EXCEPT ![i] = "nothing"]
  /\ UNCHANGED <<nextID, rs, exiting, pipe, link, stream, reached, unsent,
                 aborted>>

ServedAll ==
  /\ thread \in {"lock", "serve"} /\ Due = {}
  /\ thread' = "collect" /\ rs' = {} /\ ws' = {}
  /\ UNCHANGED <<sessions, nextID, exiting, pipe, queue, sourceVars, unsent, aborted>>

NetworkThread ==
  \/ Leaves \/ Collects \/ SelectFails \/ Selects \/ ServedAll
  \/ \E i \in Ids :
       \/ ReadsDatagram(i) \/ ReadsStream(i) \/ Connects(i)
       \/ FindsNothingToSend(i) \/ Sends(i) \/ FailsToSend(i)
=============================================================================
