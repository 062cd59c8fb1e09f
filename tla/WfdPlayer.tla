----------------------------- MODULE WfdPlayer -----------------------------
(***************************************************************************)
(* The WiFi Display player as a whole: CWfdHelper, which the activity's    *)
(* thread starts and stops, the sink and its sessions, and the source at   *)
(* the other end of the RTSP connection.  The activity stops the helper    *)
(* when its surface goes or when it was told that the playback is over;    *)
(* what was made for one start is made anew for the next.                  *)
(***************************************************************************)
EXTENDS WifiDisplaySink

CONSTANTS
  MaxEvents,  \* how many requests, refusals, frames, datagrams and failures of the network come
  MaxStream   \* how many messages of the source are on their way

ASSUME BoundsAssumption == MaxEvents \in Nat /\ MaxStream \in Nat

VARIABLES
  ui,         \* the activity's thread: its place in CWfdHelper
  events,     \* how many of them came
  faults,     \* history: what the source did that a sink cannot take
  failed      \* history: the UDP sessions for which an empty datagram or an ICMP error came

eventVars == <<events, faults, failed>>
vars == <<netVars, queue, aborted, sinkVars, ui, eventVars>>

TypeOK ==
  /\ NetTypeOK /\ SinkTypeOK
  /\ ui \in {"idle", "running", "await", "exit", "done"}
  /\ events \in 0..MaxEvents /\ faults \subseteq {"refusal", "frame"} /\ failed \subseteq Ids

Init ==
  /\ NetInit /\ SinkInit
  /\ ui = "idle" /\ events = 0 /\ faults = {} /\ failed = {}

-----------------------------------------------------------------------------
(* The activity's thread. *)

\* Of what may fail only the looper's thread matters: Stop then waits for an answer of a
\* looper that does not run.
Starts ==
  /\ ui = "idle"
  /\ \/ /\ ui' = "done"
        /\ UNCHANGED <<thread, queue, looper>>
     \/ /\ ui' = "running" /\ thread' = "collect" /\ looper' = "running"
        /\ queue' = <<[what |-> "start"]>>
     \/ /\ ui' = "await" /\ thread' = "collect"
        /\ queue' = <<[what |-> "start"], [what |-> "stop"]>>
        /\ UNCHANGED looper
  /\ UNCHANGED <<sessions, nextID, rs, ws, exiting, pipe, sourceVars, unsent, aborted,
                 state, sessionID, nextCSeq, handlers, rtpSink, timer, replied, told, lost,
                 setups, overlap, eventVars>>

Stops ==
  /\ ui = "running"
  /\ ui' = "await"
  /\ Post([what |-> "stop"])
  /\ UNCHANGED <<netVars, aborted, sinkVars, eventVars>>

SurfaceDestroyed == Stops
PlaybackCompletes == told /\ Stops

\* The reply wakes it.  It stops the looper, waiting for the handler that runs, releases the
\* sink and with it the RTPSink and its sessions, and asks the network thread to end.
StopsSink ==
  /\ ui = "await" /\ replied /\ Unlocked
  /\ looper' = "stopped"
  /\ IF NoPlayer(rtpSink)
     THEN Aborts("player") /\ UNCHANGED <<sessions, rtpSink, queue, exiting, pipe, ui>>
     ELSE /\ sessions' = Destroyed(sessions, SessionsOf(rtpSink))
          /\ rtpSink' = NoSink
          /\ queue' = <<>>
          /\ exiting' = TRUE /\ Interrupt(TRUE)
          /\ ui' = "exit"
          /\ UNCHANGED aborted
  /\ UNCHANGED <<nextID, threadVars, sourceVars, unsent, state, sessionID, nextCSeq, handlers,
                 timer, replied, told, lost, setups, overlap, eventVars>>

\* requestExitAndWait, and the sessions that are left go with ANetworkSession.
JoinsThread ==
  /\ ui = "exit" /\ thread = "none"
  /\ ui' = "done"
  /\ sessions' = [i \in Ids |-> NoSession]
  /\ UNCHANGED <<nextID, threadVars, exiting, pipe, sourceVars, unsent, queue, aborted,
                 sinkVars, eventVars>>

-----------------------------------------------------------------------------
(* The source and the network. *)

SourceLeaves ==
  UNCHANGED <<sessions, nextID, threadVars, exiting, pipe, unsent, queue, aborted,
              sinkVars, ui>>

Happens == events < MaxEvents /\ events' = events + 1

Connection ==
  /\ link = "connecting" /\ link' \in {"up", "refused"}
  /\ UNCHANGED <<stream, reached, arrived, eventVars>>
  /\ SourceLeaves

\* The source ends the connection, or the network does.
Disconnection ==
  /\ link = "up" /\ IsOpen(sessions, 1) /\ link' \in {"closed", "broken"}
  /\ Happens
  /\ UNCHANGED <<stream, reached, arrived, faults, failed>>
  /\ SourceLeaves

CanSend == link = "up" /\ IsOpen(sessions, 1) /\ Len(stream) < MaxStream

Asks(r) ==
  /\ CanSend
  /\ Happens
  /\ stream' = Append(stream, [what |-> r])
  /\ UNCHANGED <<link, reached, arrived, faults, failed>>
  /\ SourceLeaves

Frames ==
  /\ CanSend
  /\ Happens /\ faults' = faults \cup {"frame"}
  /\ stream' = Append(stream, [what |-> "frame"])
  /\ UNCHANGED <<link, reached, arrived, failed>>
  /\ SourceLeaves

Responds(c, ok) ==
  /\ CanSend /\ c \in reached
  /\ stream' = Append(stream, [what |-> "answer", cseq |-> c, ok |-> ok])
  /\ reached' = reached \ {c}
  /\ UNCHANGED <<link, arrived, failed>>
  /\ SourceLeaves

Answers(c) == Responds(c, TRUE) /\ UNCHANGED <<events, faults>>
Refuses(c) == Responds(c, FALSE) /\ Happens /\ faults' = faults \cup {"refusal"}

\* A datagram for a UDP session, or an ICMP error: nobody took what the session sent.
HasSent(i) == rtpSink # NoSink /\ rtpSink.answer # 0 /\ rtpSink.reports > 0 /\ i = rtpSink.rtcp
Arrives(i, what) ==
  /\ i # 1 /\ IsOpen(sessions, i) /\ arrived[i] = "nothing"
  /\ what = "error" => HasSent(i)
  /\ Happens
  /\ arrived' = [arrived EXCEPT ![i] = what]
  /\ failed' = IF what = "datagram" THEN failed ELSE failed \cup {i}
  /\ UNCHANGED <<link, stream, reached, faults>>
  /\ SourceLeaves

Source ==
  \/ Connection \/ Disconnection \/ Frames
  \/ \E r \in Request : Asks(r)
  \/ \E c \in CSeq : Answers(c) \/ Refuses(c)
  \/ \E i \in Ids, what \in {"datagram", "empty", "error"} : Arrives(i, what)

-----------------------------------------------------------------------------

\* While the network thread serves the sessions it holds the lock: what others do then, they
\* can do before or after.
Runs == aborted = "no" /\ Unlocked
Network == aborted = "no" /\ NetworkThread /\ UNCHANGED <<sinkVars, ui, eventVars>>
LooperRuns == Runs /\ Looper /\ UNCHANGED <<ui, eventVars>>
ReportsGo == Runs /\ Reports /\ UNCHANGED <<ui, eventVars>>
TimesOut == Runs /\ OnTeardownTimedOut /\ UNCHANGED <<ui, eventVars>>
Completes == Runs /\ PlaybackCompletes
Stopping == Runs /\ (StopsSink \/ JoinsThread)
Others == Runs /\ (Starts \/ SurfaceDestroyed \/ (ui \in {"running", "await"} /\ Source))

Next == Network \/ LooperRuns \/ ReportsGo \/ TimesOut \/ Completes \/ Stopping \/ Others

\* The threads go on when they can, a message is due after its time, and the activity comes to
\* handle what it is told.  The source and the surface owe nothing.
Fairness ==
  /\ WF_vars(Network) /\ WF_vars(LooperRuns) /\ WF_vars(TimesOut)
  /\ WF_vars(Completes) /\ WF_vars(Stopping)

Spec == Init /\ [][Next]_vars
FairSpec == Spec /\ Fairness

-----------------------------------------------------------------------------

\* Each CHECK that fails, and each call of a player that is not there, has a cause outside the
\* looper.  A reply or PLAY cannot be sent only after the control connection has ended and its
\* loss was handled; a response is not taken only when the source refused; the ports of the
\* answer to SETUP cannot be connected only when an empty datagram or an ICMP error came for one
\* of the two sessions of the RTPSink that stands now, never for those of an earlier one; binary
\* data come only when the source sent a '$' frame; nothing is found to be sent only after the
\* RTPSink was made again, when a descriptor of the old one came to the new; and the player is
\* missing only while the first packet is on its way to the renderer.  Nothing is said of the
\* host at the start, which may be out of reach at any time.
ChecksHold ==
  /\ aborted \in {"reply", "play"} => lost /\ link \in {"closed", "broken"}
  /\ aborted = "answer" => "refusal" \in faults
  /\ aborted = "ports" => rtpSink.id \in failed \/ rtpSink.id + 1 \in failed
  /\ aborted = "frame" => "frame" \in faults
  /\ aborted = "empty" => setups > 1
  /\ aborted = "player" =>
       /\ NoPlayer(rtpSink)
       /\ \E i \in 1..Len(queue) : queue[i] = [what |-> "queueBuffer", sink |-> rtpSink.id]

\* The RTPSink is connected to the ports of the answer to its own SETUP, unless the source
\* had it made anew before it answered.
TransportIsOwn ==
  rtpSink # NoSink /\ rtpSink.answer # 0 /\ ~overlap => rtpSink.answer = rtpSink.setup

\* stop() returns: the activity's thread does not wait for ever, if the looper started.
StopReturns == ui = "await" /\ looper = "running" ~> ui = "done" \/ aborted # "no"

\* When the control connection fails, the activity is told and stops.
Failed == IsOpen(sessions, 1) /\ (sessions[1].sawSendFailure \/ sessions[1].sawReceiveFailure)
LossIsTold == Failed ~> ui # "running" \/ aborted # "no"

\* No wake-up is lost: while the network thread sleeps, every session that has something to
\* send, or may receive, is among those it waits for, or the pipe wakes it.
NoLostInterrupt ==
  thread = "select" =>
    \/ pipe
    \/ \A i \in Open : /\ WantsToRead(i) => sessions[i].fd \in rs
                      /\ WantsToWrite(i) => sessions[i].fd \in ws

\* The CHECKs of the handlers on what sendRequest returns, for a source that answers well.
RepliesAreSent == aborted # "reply"
=============================================================================
