------------------------------ MODULE RtpSink ------------------------------
(***************************************************************************)
(* RTPSink of the WiFi Display sink with its sources, its TunnelRenderer   *)
(* and the network in front of it.  RTPSink and the renderer are handlers  *)
(* of one looper and share its queue of messages.  The network loses       *)
(* packets, delivers them twice and out of order; the sender may start     *)
(* anew, with another SSRC or without telling.                             *)
(*                                                                         *)
(* A datagram is posted and handled in one action: between the two nothing *)
(* depends on it.  Its headers are well formed; parseRTP refuses others    *)
(* before it changes anything but the statistics of the arrival times.     *)
(***************************************************************************)
EXTENDS TunnelRenderer, RtpSource

CONSTANTS
  Ssrc,         \* the synchronisation sources
  NoSsrc,
  Starts,       \* the first sequence numbers a sender may choose
  \* Bounds of the environment.
  MaxPos,       \* the last position of the stream
  MaxStray,     \* packets that are not the next one
  MaxLoss,      \* packets lost in a row
  MaxLate,      \* by how many positions a packet is late
  MaxRestarts,  \* restarts of the sender
  MaxMail       \* a datagram is handled while the queue is shorter than this

ASSUME SinkAssumption ==
  /\ SeqNumbers = SeqMod /\ Starts \subseteq SeqNo
  /\ NoSsrc \notin Ssrc /\ NoSsrc \notin Source
  /\ MaxPos \in Nat /\ MaxStray \in Nat
  /\ MaxLoss \in Nat /\ MaxLate \in Nat /\ MaxRestarts \in Nat /\ MaxMail \in Nat

VARIABLES
  sources,   \* mSources, NoSsrc for an SSRC that is not known
  renderer,  \* the SSRC that mNotifyLost names: that of the source that made mRenderer
  open,      \* mRTPSessionID # 0; the RTCP session only carries what is sent away
  sender,    \* its SSRC, its first sequence number and the position of that
  restarts,  \* how often the sender started anew
  newest,    \* the newest position that was handled, -1 before the first
  stray,     \* how many packets were not the next one
  clean      \* history: nothing has upset the numbering

sinkVars == <<sources, renderer, open>>
netVars == <<sender, restarts, newest, stray>>
vars == <<mailbox, rendererVars, sinkVars, netVars, clean>>

TypeOK ==
  /\ RendererTypeOK
  /\ sources \in [Ssrc -> Source \cup {NoSsrc}]
  /\ renderer \in Ssrc \cup {NoSsrc}
  /\ open \in BOOLEAN
  /\ sender \in [ssrc : Ssrc, first : Starts, from : 0..MaxPos]
  /\ restarts \in 0..MaxRestarts /\ newest \in -1..MaxPos /\ stray \in 0..MaxStray
  /\ clean \in BOOLEAN

Init ==
  /\ mailbox = <<>> /\ RendererInit
  /\ sources = [s \in Ssrc |-> NoSsrc] /\ renderer = NoSsrc
  /\ open = TRUE
  /\ sender \in [ssrc : Ssrc, first : Starts, from : {0}]
  /\ restarts = 0 /\ newest = -1 /\ stray = 0
  /\ clean = TRUE

-----------------------------------------------------------------------------
(* The network and the sender. *)

NumberOf(n) == sender.first + n - sender.from
Cycle(n) == NumberOf(n) \div SeqMod

\* What the numbering does not survive, n being the position of the packet that comes:
\* an outage, a packet that is too late, a jump that the source notices, a packet from
\* before a wrap that comes after it, and a wrap while the source is on probation.
Upset(n) ==
  LET s == sources[sender.ssrc] IN
  /\ s # NoSsrc
  /\ \/ n - newest >= MaxDropout \/ newest - n >= MaxMisorder
     \/ s.probation = 0 /\ LargeJump(s, NumberOf(n) % SeqMod)
     \/ Cycle(n) < Cycle(newest)
     \/ s.probation > 0 /\ Cycle(n) # Cycle(newest)

\* The sender starts anew: with its old SSRC or another, anywhere in the numbers.
Restart ==
  /\ restarts < MaxRestarts /\ newest < MaxPos
  /\ sender' \in [ssrc : Ssrc, first : Starts, from : {newest + 1}]
  /\ restarts' = restarts + 1
  /\ clean' = FALSE
  /\ UNCHANGED <<mailbox, rendererVars, sinkVars, newest, stray>>

\* Any packet of the sender may come, again or late or after lost ones.
Comes(n) ==
  /\ n >= sender.from /\ n <= newest + 1 + MaxLoss /\ n >= newest - MaxLate
  /\ n # newest + 1 => stray < MaxStray
  /\ stray' = IF n = newest + 1 THEN stray ELSE stray + 1
  /\ newest' = IF n > newest THEN n ELSE newest
  /\ clean' = (clean /\ ~Upset(n))
  /\ UNCHANGED <<sender, restarts>>

-----------------------------------------------------------------------------
(* RTPSink, on the looper's thread. *)

\* parseRTP: the first source makes the renderer, which all others share.
OnDatagram(n) ==
  /\ pc[Looper] = "idle" /\ open /\ Len(mailbox) < MaxMail
  /\ Comes(n)
  /\ LET seq == NumberOf(n) % SeqMod
         id == sender.ssrc
         old == sources[id]
         new == IF old = NoSsrc THEN NewSource(seq) ELSE UpdateSeq(old, seq)
     IN /\ sources' = [sources EXCEPT ![id] = new]
        /\ renderer' = IF renderer = NoSsrc THEN id ELSE renderer
        /\ mailbox' = IF old = NoSsrc \/ Queues(old, seq)
                      THEN Append(mailbox, QueueBuffer([ext |-> Extended(new, seq), pos |-> n]))
                      ELSE mailbox
  /\ UNCHANGED <<rendererVars, open>>

\* A request for retransmission is sent, with the SSRC of renderer: what it brings is one
\* more packet that may come late.
OnPacketLost ==
  /\ pc[Looper] = "idle" /\ mailbox # <<>> /\ Head(mailbox).what = "packetLost"
  /\ mailbox' = Tail(mailbox)
  /\ UNCHANGED <<rendererVars, sinkVars, netVars, clean>>

\* The session fails: it is destroyed, and the player's listener is told.
OnError ==
  /\ pc[Looper] = "idle" /\ open
  /\ open' = FALSE
  /\ UNCHANGED <<mailbox, rendererVars, sources, renderer, netVars, clean>>

Renders == RendererNext /\ UNCHANGED <<sinkVars, netVars, clean>>

Next ==
  \/ Restart
  \/ \E n \in 0..MaxPos : OnDatagram(n)
  \/ OnPacketLost
  \/ OnError
  \/ Renders

Spec == Init /\ [][Next]_vars

-----------------------------------------------------------------------------

\* The queue of the renderer is in order and without duplicates.
QueueSorted ==
  \A j \in 1..Len(packets) : \A i \in 1..(j - 1) : packets[i].ext < packets[j].ext

\* Nothing is forgotten: when no thread is at work and the player has given a buffer,
\* the packet that comes next is not in the queue.
NoMissedWork ==
  (\A t \in Threads : pc[t] = "idle") /\ available > 0 =>
    \A i \in 1..Len(packets) : lastDequeued >= 0 /\ packets[i].ext # lastDequeued + 1

\* Whatever the network does, the renderer shows growing extended numbers, and passes
\* over one only after it waited.
Player == INSTANCE Playout WITH shown <- lastDequeued, patience <- firstFailed
PlayerSpec == Player!Spec

\* As long as nothing upsets the numbering the stream is shown in the order it was sent.
Shows == available' < available
SendingOrder == [][clean' /\ Shows => shown' > shown]_vars

\* As long as nothing upsets the numbering no packet is dropped as shown before which is
\* newer than all that were shown.
NothingNewDropped == clean => ~lateDrop

\* A packet is asked for once.
Asks == \E n \in SeqNo : mailbox' = Append(mailbox, PacketLost(n))
AskedOnce == [][Asks => asked' > asked]_vars

\* The class comment of TunnelRenderer: it "reassembles incoming RTP packets into the
\* correct order".
CorrectOrder == [][Shows => shown' > shown]_vars
=============================================================================
