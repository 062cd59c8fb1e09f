----------------------------- MODULE VideoPath -----------------------------
(***************************************************************************)
(* The way of a frame to SendJPGVideo: JpegHandoff, whose capture thread   *)
(* has the frames from the screen or, with METHOD_GAME_INTERFACE, from the *)
(* caller.  SendVideoData copies the caller's picture into one of two      *)
(* source buffers, GetVideoDataBuff gives the capture thread the other;    *)
(* bLock is set during the copy, the capture thread tests it first, and    *)
(* nobody waits for it.                                                    *)
(*                                                                         *)
(* Of a source buffer only matters whether its picture is newer than the   *)
(* one the capture thread took last.  The source buffers are those of the  *)
(* first session: Init leaves the sizes of an earlier one as they are.     *)
(*                                                                         *)
(* The test of bLock excludes the caller only if the few instructions from *)
(* it to the switch of the index are not interrupted.  When the caller     *)
(* begins between them it may choose the buffer that is being taken, and   *)
(* write there while the capture thread reads: this too is a lost race.    *)
(***************************************************************************)
EXTENDS JpegHandoff

VARIABLES
  srcIdx,    \* iCallingSrcIndex
  writable,  \* bSrcBuffFlag1, bSrcBuffFlag2: BUFFERWRITE
  filled,    \* iVidSrcBuffSize1, iVidSrcBuffSize2 are not zero
  src,       \* what pVidSrcBuff1 and pVidSrcBuff2 hold
  caller,    \* the place of the caller in SendVideoData, "idle" outside
  callerBuf, \* the buffer it writes
  take,      \* the place of the capture thread in GetVideoDataBuff and RGB2YUV
  takeBuf,   \* the buffer it took
  picture    \* the picture it makes of that

callerVars == <<caller, callerBuf>>
takeVars == <<srcIdx, writable, take, takeBuf>>
sourceVars == <<callerVars, takeVars, filled, src, picture>>
vars == <<jpegVars, sourceVars>>

TypeOK ==
  /\ JpegTypeOK /\ raced \in BOOLEAN
  /\ srcIdx \in {FIRSTLY} \cup Buffers /\ writable \in [Buffers -> BOOLEAN]
  /\ filled \in [Buffers -> BOOLEAN]
  /\ src \in [Buffers -> {"old", "partial", "prior", "new"}]
  /\ caller \in {"idle", "choose", "copy"} /\ callerBuf \in Buffers
  /\ take \in {"none", "switch", "flags", "size", "convert", "have", "encode"}
  /\ takeBuf \in Buffers /\ picture \in {"old", "partial", "new"}

Init ==
  /\ JpegInit
  /\ srcIdx = FIRSTLY /\ writable = [b \in Buffers |-> TRUE]
  /\ filled = [b \in Buffers |-> FALSE] /\ src = [b \in Buffers |-> "old"]
  /\ caller = "idle" /\ callerBuf = 1
  /\ take = "none" /\ takeBuf = 1 /\ picture = "old"

-----------------------------------------------------------------------------
(* The caller: SendVideoData with a picture in ARGB8888. *)

bLock == caller # "idle"
CallerMove(from, to) == caller = from /\ caller' = to

CallerLocks ==
  /\ method = "game" /\ CallerMove("idle", "choose")
  /\ UNCHANGED <<raced, callerBuf, takeVars, filled, src, picture>>

\* Mutant: the caller does not look at the flags.
MayFillUnasked(b) == b = 1 \/ srcIdx = 2
MayFill(b) ==
  \/ b = 1 /\ (srcIdx = FIRSTLY \/ (writable[1] /\ srcIdx = 1))
  \/ b = 2 /\ writable[2] /\ srcIdx = 2

CallerFills(b) ==
  /\ CallerMove("choose", "copy") /\ MayFill(b)
  /\ callerBuf' = b
  /\ src' = [src EXCEPT ![b] = "partial"]
  /\ picture' = IF take = "convert" /\ takeBuf = b THEN "partial" ELSE picture
  /\ raced' = (raced \/ take = "switch")  \* the one the capture thread chose
  /\ UNCHANGED <<takeVars, filled>>

\* The lock is open again; whoever tests it has not come before.
CallerFilled ==
  /\ CallerMove("copy", "idle") /\ callerBuf' = 1
  /\ src' = [b \in Buffers |-> IF b = callerBuf THEN "new"
                               ELSE IF src[b] = "new" THEN "prior" ELSE src[b]]
  /\ filled' = [filled EXCEPT ![callerBuf] = TRUE]
  /\ UNCHANGED <<raced, takeVars, picture>>

\* A size of 0 gives the width and height of the screen, and empties the buffer.
CallerGivesSize(b) ==
  /\ CallerMove("choose", "idle") /\ MayFill(b)
  /\ filled' = [filled EXCEPT ![b] = FALSE]
  /\ UNCHANGED <<raced, callerBuf, takeVars, src, picture>>

\* No buffer is to be written: the picture is dropped.
CallerDrops ==
  /\ CallerMove("choose", "idle") /\ \A b \in Buffers : ~MayFill(b)
  /\ UNCHANGED <<raced, callerBuf, takeVars, filled, src, picture>>

Caller ==
  /\ \/ CallerLocks \/ CallerFilled \/ CallerDrops
     \/ \E b \in Buffers : CallerFills(b) \/ CallerGivesSize(b)
  /\ UNCHANGED handVars

-----------------------------------------------------------------------------
(* The capture thread: GetVideoDataBuff, RGB2YUV and YUV2JPG. *)

TakeMove(from, to) == take = from /\ take' = to
Forgets == takeBuf' = 1 /\ picture' = "old"  \* of no use any more

\* With the lock set, or nothing new, the thread looks again after 1 ms.
TakeTests(b) ==
  /\ method = "game" /\ status = "CONNECTING" /\ enc = "test"
  /\ TakeMove("none", "switch") /\ takeBuf' = b
  /\ ~bLock /\ filled[b]
  /\ srcIdx \in (IF b = 1 THEN {FIRSTLY, 1} ELSE {2})
  /\ UNCHANGED <<jpegVars, srcIdx, writable, callerVars, filled, src, picture>>

TakeSwitches ==
  /\ TakeMove("switch", "flags")
  /\ srcIdx' = Other(takeBuf)
  /\ UNCHANGED <<jpegVars, writable, takeBuf, callerVars, filled, src, picture>>

TakeFlags ==
  /\ TakeMove("flags", "size")
  /\ writable' = [b \in Buffers |-> b # takeBuf]
  /\ UNCHANGED <<jpegVars, srcIdx, takeBuf, callerVars, filled, src, picture>>

\* What the other buffer holds is old now, unless it was written after this one.
TakeEmpties ==
  /\ TakeMove("size", "convert")
  /\ filled' = [filled EXCEPT ![takeBuf] = FALSE]
  /\ picture' = IF src[takeBuf] = "prior" THEN "new" ELSE src[takeBuf]
  /\ src' = [b \in Buffers |-> IF src[b] # "partial" /\ (b = takeBuf \/ src[b] = "prior") THEN "old"
                               ELSE src[b]]
  /\ UNCHANGED <<jpegVars, srcIdx, writable, takeBuf, callerVars>>

TakeConverts ==
  /\ TakeMove("convert", "have")
  /\ UNCHANGED <<jpegVars, srcIdx, writable, takeBuf, callerVars, filled, src, picture>>

TakeEncodes(b) ==
  /\ TakeMove("have", "encode") /\ EncodesInto(b)
  /\ UNCHANGED <<srcIdx, writable, takeBuf, callerVars, filled, src, picture>>

\* Neither JPEG buffer is to be written: the picture is dropped.
TakeDrops ==
  /\ TakeMove("have", "none") /\ \A b \in Buffers : ~MayWrite(b)
  /\ Forgets
  /\ UNCHANGED <<jpegVars, srcIdx, writable, callerVars, filled, src>>

TakeEnds ==
  /\ TakeMove("encode", "none")
  /\ Encoded(CASE picture = "new" -> frame
               [] picture = "partial" -> Torn
               [] OTHER -> IF frame = 1 THEN Numbers ELSE frame - 1)
  /\ Forgets
  /\ UNCHANGED <<srcIdx, writable, callerVars, filled, src>>

Takes ==
  \/ TakeSwitches \/ TakeFlags \/ TakeEmpties \/ TakeConverts \/ TakeDrops \/ TakeEnds
  \/ \E b \in Buffers : TakeTests(b) \/ TakeEncodes(b)

-----------------------------------------------------------------------------
Quiet == enc = "done" /\ snd = "done" /\ UNCHANGED vars

Capture == ((method # "game" /\ Captures) \/ Stores) /\ UNCHANGED sourceVars
Discards == EncodeDiscards /\ UNCHANGED sourceVars
Fails ==
  /\ CaptureFails /\ take' = "none" /\ Forgets
  /\ UNCHANGED <<srcIdx, writable, callerVars, filled, src>>
Sending == Send /\ UNCHANGED sourceVars
Ends == SessionEnds /\ UNCHANGED sourceVars

Next == Ends \/ Capture \/ Takes \/ Caller \/ Discards \/ Fails \/ Sending \/ Quiet

Spec == Init /\ [][Next]_vars

\* What is encoded within calls of GetJPEGData takes its time.
InTime == within > 0 /\ enc = "write" => enc' \in {"write", "done"}

\* Both threads run, and Hisense's encoder follows the rotation at last.  The caller goes on
\* bringing pictures, not only sizes, and not in step with the capture thread's looks.  From
\* some time on encoding is in time: were it never, the sender could find the same buffer
\* again and again, the one it has sent, and send nothing any more.
Fairness ==
  /\ WF_vars(Capture) /\ SF_vars(EncodeEnds /\ UNCHANGED sourceVars) /\ WF_vars(Sending)
  /\ WF_vars(Caller) /\ SF_vars((\E b \in Buffers : CallerFills(b)) /\ Caller)
  /\ SF_vars(Takes)
  /\ <>[][InTime]_vars

FairSpec == Spec /\ Fairness

-----------------------------------------------------------------------------
\* Every frame is sent whole, with its own size: the sender copies no buffer while the
\* capture thread writes there, and the capture thread reads no picture that the caller
\* is writing.  Four cases are not so in the code: the first frame, which
\* the capture thread goes on replacing until the index leaves CALLINGENTRANCEFIRSTLY; a
\* capture error, which frees the buffers under the copy; a frame encoded as quickly as the
\* sender looks, to which a sender that saw old flags twice points the buffer that is
\* written next; and a caller that begins between the test of bLock and the switch.
WholeFrames == snd = "send" => sendSrcBuff # Torn \/ last = None \/ failed \/ raced

\* Frames leave in the order they were captured, and none twice, whichever of the flags the
\* sender saw before the capture thread changed them, and whichever source buffer the caller
\* wrote, until one of those two races is lost.
SentInOrder ==
  [][snd = "send" /\ snd' = "turn" /\ ~raced /\ {last, last'} \subseteq Frames =>
       (last' - last) % Numbers \in 1..(Numbers \div 2)]_vars

\* While the session lasts another frame is always sent: the two threads never wait for
\* each other, with the flags and the index in whatever state their races left them.
VideoGoesOn == []<>(snd = "send" \/ status = "FINISH")
=============================================================================
