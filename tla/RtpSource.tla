----------------------------- MODULE RtpSource -----------------------------
(***************************************************************************)
(* RTPSink::Source, the bookkeeping of one sender: the algorithm of        *)
(* RFC 3550, appendix A.1, as the code has it.  It extends the 16 bits of  *)
(* a sequence number by the cycles it has counted, and throws a packet     *)
(* away only after a very large jump.  The members are a record, a method  *)
(* is an operator on it.  The counts of the receiver reports are left out. *)
(***************************************************************************)
EXTENDS Integers

CONSTANTS
  SeqMod,       \* kRTPSeqMod
  MaxDropout,   \* kMaxDropout
  MaxMisorder   \* kMaxMisorder

ASSUME SourceAssumption ==
  /\ SeqMod \in Nat /\ MaxDropout \in Nat /\ MaxMisorder \in Nat
  /\ 0 < MaxDropout /\ MaxDropout <= SeqMod - MaxMisorder

SeqNo == 0..(SeqMod - 1)
MinSequential == 2

\* mCycles grows by SeqMod, so that mCycles | seq is a sum.
Source ==
  [maxSeq : SeqNo, cycles : Nat, badSeq : 0..(SeqMod + 1), probation : 0..MinSequential]

InitSeq(s, seq) == [s EXCEPT !.maxSeq = seq, !.cycles = 0, !.badSeq = SeqMod + 1]

\* Mutant: the number before the first one is taken without wrapping.
NewSourceUnwrapped(seq) ==
  [maxSeq |-> seq - 1, cycles |-> 0, badSeq |-> SeqMod + 1, probation |-> MinSequential]
NewSource(seq) ==
  [maxSeq |-> (seq - 1) % SeqMod, cycles |-> 0, badSeq |-> SeqMod + 1,
   probation |-> MinSequential]

UDelta(s, seq) == (seq - s.maxSeq) % SeqMod

\* int arithmetic: after 65535 nothing is in sequence.
InSequence(s, seq) == seq = s.maxSeq + 1

\* The startup phase ends with the second packet in sequence, and starts again with
\* every other one.
OnProbation(s, seq) ==
  IF ~InSequence(s, seq)
  THEN [s EXCEPT !.probation = MinSequential - 1, !.maxSeq = seq]
  ELSE IF s.probation = 1
       THEN [InitSeq(s, seq) EXCEPT !.probation = 0]
       ELSE [s EXCEPT !.probation = @ - 1, !.maxSeq = seq]

Permissible(s, seq) == UDelta(s, seq) < MaxDropout
LargeJump(s, seq) == ~Permissible(s, seq) /\ UDelta(s, seq) <= SeqMod - MaxMisorder

\* Mutant: a wrap is not noticed.
AdvanceWithoutCycle(s, seq) == [s EXCEPT !.maxSeq = seq]
\* Mutant: the highest number again counts as a wrap.
AdvanceOnEqual(s, seq) ==
  [s EXCEPT !.maxSeq = seq, !.cycles = IF seq <= s.maxSeq THEN @ + SeqMod ELSE @]
Advance(s, seq) ==
  [s EXCEPT !.maxSeq = seq, !.cycles = IF seq < s.maxSeq THEN @ + SeqMod ELSE @]

\* Two sequential packets after a jump: the sender is taken to have restarted.
Resync(s, seq) == InitSeq(s, seq)
NoteJump(s, seq) == [s EXCEPT !.badSeq = (seq + 1) % SeqMod]

UpdateSeq(s, seq) ==
  CASE s.probation > 0 -> OnProbation(s, seq)
    [] s.probation = 0 /\ Permissible(s, seq) -> Advance(s, seq)
    [] s.probation = 0 /\ LargeJump(s, seq) /\ seq = s.badSeq -> Resync(s, seq)
    [] s.probation = 0 /\ LargeJump(s, seq) /\ seq # s.badSeq -> NoteJump(s, seq)
    [] OTHER -> s

\* The first packet after a large jump is not queued.
Queues(s, seq) == ~(s.probation = 0 /\ LargeJump(s, seq) /\ seq # s.badSeq)

\* What queuePacket stores with the packet, s being the source after updateSeq.
Extended(s, seq) == s.cycles + seq
=============================================================================
