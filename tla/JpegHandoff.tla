---------------------------- MODULE JpegHandoff ----------------------------
(***************************************************************************)
(* How frames pass from the capture thread of CWiMoVideo to SendJPGVideo,  *)
(* which HandshakeThread runs once connected.  Two JPEG buffers, a flag    *)
(* that says which is ready (m_bSendBuffFlag1/2) and an index              *)
(* (iCallingBuffIndex), each written without a lock by one thread or both. *)
(* Lenovo's encoder has one buffer and the index only.                     *)
(*                                                                         *)
(* A frame is a number, modulo Numbers; what a buffer holds while a frame  *)
(* is written into it, or that is not to be sent, is Torn.  Where the      *)
(* source of the frames is the caller ("game") is in VideoPath, which      *)
(* composes both.                                                          *)
(*                                                                         *)
(* GetJPEGData is a few loads and stores, encoding a frame in software     *)
(* takes tens of milliseconds, and the hand-off rests on that: a frame     *)
(* begun within a call of GetJPEGData is in time if it is not done before  *)
(* that call has returned and, if it returned nothing, the next one has,   *)
(* 5 ms later.  Nothing in the code sees to it.  Here a frame may be done  *)
(* at any time; raced notes that one was not in time.                      *)
(***************************************************************************)
EXTENDS Integers

CONSTANTS
  Methods,  \* which capture methods: two buffers, the same for the caller's pictures (game),
            \* Hisense's two, Lenovo's one
  Numbers   \* bound: frames are told apart modulo this number

ASSUME MethodsAssumption == Methods \subseteq {"two", "game", "hisense", "lenovo"}
ASSUME NumbersAssumption == Numbers \in Nat \ {0}

Buffers == {1, 2}
FIRSTLY == 0         \* CALLINGENTRANCEFIRSTLY
Torn == 0
None == -1
Frames == 1..Numbers
Other(b) == 3 - b

VARIABLES
  method,   \* iCaptureMethod
  status,   \* statusWiMo
  idx,      \* iCallingBuffIndex
  flag,     \* m_bSendBuffFlag1, m_bSendBuffFlag2
  size,     \* m_JPEG_Filesize1/2: the frame whose size it is, or 0
  buf,      \* what m_JPEG_FileBuff1/2 holds
  enc,      \* the place of the capture thread
  encBuf,   \* the buffer it writes
  within,   \* history: how many calls of GetJPEGData must return for the frame to be in time
  raced,    \* history: a race was lost that the code leaves to how long things take
  frame,    \* history: the number of the frame encoded next
  snd,      \* the place of SendJPGVideo
  sndBuf,   \* the buffer GetJPEGData picked
  taken,    \* the size it took
  currUpdate, \* the buffer picked before, m_prevUpdate and then m_currUpdate
  sendSrcBuff, \* the copy
  last,     \* history: what was sent last
  failed    \* history: capturing failed and the buffers were freed

encVars == <<flag, buf, enc, encBuf, frame, failed>>
sndVars == <<snd, sndBuf, taken, currUpdate, sendSrcBuff, last>>
handVars == <<method, status, idx, size, encVars, within, sndVars>>
jpegVars == <<handVars, raced>>

JpegTypeOK ==
  /\ method \in Methods /\ status \in {"CONNECTING", "FINISH"}
  /\ idx \in {FIRSTLY} \cup Buffers
  /\ flag \in [Buffers -> BOOLEAN]
  /\ size \in [Buffers -> {0} \cup Frames] /\ buf \in [Buffers -> {Torn} \cup Frames]
  /\ enc \in {"test", "write", "first", "second", "index", "done"}
  /\ encBuf \in Buffers /\ within \in 0..2 /\ frame \in Frames
  /\ snd \in {"test", "flags", "pick", "point", "size", "null", "copy", "send", "turn", "done"}
  /\ sndBuf \in Buffers /\ taken \in {0} \cup Frames
  /\ currUpdate \in 0..2
  /\ sendSrcBuff \in {Torn} \cup Frames /\ last \in {None, Torn} \cup Frames
  /\ failed \in BOOLEAN

JpegInit ==
  /\ method \in Methods /\ status = "CONNECTING"
  /\ idx = FIRSTLY
  /\ flag = [b \in Buffers |-> FALSE]
  /\ size = [b \in Buffers |-> 0] /\ buf = [b \in Buffers |-> Torn]
  /\ enc = "test" /\ encBuf = 1 /\ within = 0 /\ frame = 1
  /\ snd = "test" /\ sndBuf = 1 /\ taken = 0 /\ currUpdate = 0
  /\ sendSrcBuff = Torn /\ last = None /\ failed = FALSE /\ raced = FALSE

\* StopWiMo, the device, or a timeout (WiMoControl).
SessionEnds ==
  /\ status = "CONNECTING" /\ status' = "FINISH"
  /\ UNCHANGED <<method, idx, size, encVars, within, raced, sndVars>>

\* The places inside GetJPEGData.
Getting == {"pick", "point", "size", "null"}

-----------------------------------------------------------------------------
(* The capture thread: LoopSWVideo with YUV2JPG, LoopHSVideo, LoopLNVVideo. *)

EncMove(from, to) == enc = from /\ enc' = to

\* Mutant: a buffer that is ready is written.
MayWriteReady(b) ==
  IF method = "lenovo" THEN b = 1 /\ idx # 1
  ELSE \/ b = 1 /\ (idx = FIRSTLY \/ idx = 2)
       \/ b = 2 /\ idx = 1
\* The buffer that is neither ready nor with the sender; at first, the first one.
MayWrite(b) ==
  IF method = "lenovo" THEN b = 1 /\ idx # 1
  ELSE \/ b = 1 /\ (idx = FIRSTLY \/ (~flag[1] /\ idx = 2))
       \/ b = 2 /\ ~flag[2] /\ idx = 1

\* A frame is done: is it in time?
NotesRace == raced' = (raced \/ within > 0)

EncodesInto(b) ==
  /\ EncMove("test", "write")
  /\ MayWrite(b)
  /\ encBuf' = b /\ within' = IF snd \in Getting THEN 2 ELSE 0
  /\ buf' = [buf EXCEPT ![b] = Torn]
  /\ UNCHANGED <<method, status, idx, size, flag, frame, failed, raced, sndVars>>

EncodeBegins(b) == status = "CONNECTING" /\ EncodesInto(b)

\* The encoder returns with what it made of the picture, and its size.
Encoded(picture) ==
  /\ NotesRace
  /\ EncMove("write", IF method = "lenovo" THEN "index" ELSE "first")
  /\ buf' = [buf EXCEPT ![encBuf] = picture]
  /\ size' = [size EXCEPT ![encBuf] = IF picture = Torn THEN frame ELSE picture]
  /\ frame' = (frame % Numbers) + 1
  /\ UNCHANGED <<method, status, idx, flag, encBuf, failed, within, sndVars>>

EncodeEnds == Encoded(frame)

\* Hisense's picture cannot be read, or has not the rotation asked for: the flags are not
\* touched, while the buffer holds the wrong picture and its size may be noted.
EncodeDiscards ==
  /\ method = "hisense" /\ EncMove("write", "test") /\ NotesRace
  /\ size' \in {size, [size EXCEPT ![encBuf] = frame]}
  /\ UNCHANGED <<method, status, idx, flag, buf, encBuf, frame, failed, within, sndVars>>

\* Flag 1 is stored before flag 2, whichever is set.
EncodeFlags(b) ==
  /\ EncMove(IF b = 1 THEN "first" ELSE "second", IF b = 1 THEN "second" ELSE "test")
  /\ flag' = [flag EXCEPT ![b] = (b = encBuf)]
  /\ UNCHANGED <<method, status, idx, size, buf, encBuf, frame, failed, within, raced, sndVars>>

EncodePoints ==
  /\ EncMove("index", "test")
  /\ idx' = 1
  /\ UNCHANGED <<method, status, size, flag, buf, encBuf, frame, failed, within, raced, sndVars>>

CaptureEnds ==
  /\ EncMove("test", "done") /\ status # "CONNECTING"
  /\ UNCHANGED <<method, status, idx, size, flag, buf, encBuf, frame, failed, within, raced,
                 sndVars>>

\* LoopVideoError: FINISH, and UnInit frees the buffers at once.  Only the software loop
\* ever returns an error.
CaptureFails ==
  /\ method \in {"two", "game"}
  /\ EncMove("test", "done") \/ EncMove("write", "done")
  /\ status' = "FINISH"
  /\ failed' = TRUE /\ buf' = [b \in Buffers |-> Torn]
  /\ UNCHANGED <<method, idx, size, flag, encBuf, frame, within, raced, sndVars>>

Captures ==
  \/ \E b \in Buffers : EncodeBegins(b)
  \/ EncodeEnds

Stores == (\E b \in Buffers : EncodeFlags(b)) \/ EncodePoints \/ CaptureEnds

-----------------------------------------------------------------------------
(* SendJPGVideo and GetJPEGData. *)

SndMove(from, to) ==
  /\ snd = from /\ snd' = to
  /\ within' = CASE to \in {"copy", "done"} -> 0
                 [] to = "test" /\ within > 0 -> within - 1
                 [] OTHER -> within

SendTests ==
  /\ SndMove("test", IF status = "FINISH" THEN "done" ELSE "flags")
  /\ UNCHANGED <<method, status, idx, size, encVars, raced, sndBuf, taken, currUpdate,
                 sendSrcBuff, last>>

\* No buffer is ready: NULL, and another look after 5 ms.
GetNothing ==
  /\ SndMove("flags", "test")
  /\ IF method = "lenovo" THEN idx # 1 ELSE ~flag[1] /\ ~flag[2]
  /\ UNCHANGED <<method, status, idx, size, encVars, raced, sndBuf, taken, currUpdate,
                 sendSrcBuff, last>>

GetLooks ==
  /\ method # "lenovo" /\ SndMove("flags", "pick")
  /\ flag[1] \/ flag[2]
  /\ UNCHANGED <<method, status, idx, size, encVars, raced, sndBuf, taken, currUpdate,
                 sendSrcBuff, last>>

\* The flags are read again; if both are off by now it is as if nothing were new.
GetPicks ==
  /\ IF flag[1] \/ flag[2]
     THEN SndMove("pick", "point") /\ sndBuf' = (IF flag[1] THEN 1 ELSE 2)
     ELSE SndMove("pick", "test") /\ UNCHANGED sndBuf
  /\ UNCHANGED <<method, status, idx, size, encVars, raced, taken, currUpdate, sendSrcBuff, last>>

GetPoints ==
  /\ SndMove("point", "size")
  /\ idx' = sndBuf
  /\ UNCHANGED <<method, status, size, encVars, raced, sndBuf, taken, currUpdate, sendSrcBuff,
                 last>>

GetSize ==
  /\ SndMove("size", "null") \/ (method = "lenovo" /\ idx = 1 /\ SndMove("flags", "null"))
  /\ sndBuf' = IF method = "lenovo" THEN 1 ELSE sndBuf
  /\ taken' = size[sndBuf']
  /\ UNCHANGED <<method, status, idx, size, encVars, raced, currUpdate, sendSrcBuff, last>>

\* Not the buffer that was sent last, and not an empty one.
Fresh == taken # 0 /\ (method = "lenovo" \/ currUpdate # sndBuf)

GetEmpties ==
  /\ SndMove("null", IF Fresh THEN "copy" ELSE "test")
  /\ size' = [size EXCEPT ![sndBuf] = 0]
  /\ currUpdate' = IF method = "lenovo" THEN currUpdate ELSE sndBuf
  /\ sendSrcBuff' = IF Fresh THEN buf[sndBuf] ELSE Torn
  /\ taken' = IF Fresh THEN taken ELSE 0
  /\ UNCHANGED <<method, status, idx, encVars, raced, sndBuf, last>>

\* Mutant: Lenovo's encoder is not told that its buffer is free.
SendCopiesOnly ==
  /\ SndMove("copy", "send")
  /\ sendSrcBuff' = IF buf[sndBuf] = sendSrcBuff /\ taken = sendSrcBuff THEN taken ELSE Torn
  /\ UNCHANGED <<method, status, idx, size, encVars, raced, sndBuf, taken, currUpdate, last>>
\* memcpy(sendSrcBuff, tmpBuff, FileLength); a change of either on the way tears it.
SendCopies ==
  /\ SndMove("copy", "send")
  /\ sendSrcBuff' = IF buf[sndBuf] = sendSrcBuff /\ taken = sendSrcBuff THEN taken ELSE Torn
  /\ idx' = IF method = "lenovo" THEN 2 ELSE idx
  /\ UNCHANGED <<method, status, size, encVars, raced, sndBuf, taken, currUpdate, last>>

SendPackets ==
  /\ SndMove("send", "turn")
  /\ last' = sendSrcBuff
  /\ taken' = 0 /\ sendSrcBuff' = Torn  \* of no use any more
  /\ UNCHANGED <<method, status, idx, size, encVars, raced, sndBuf, currUpdate>>

\* Mutant: the index is counted on.
SendTurnsOn ==
  /\ SndMove("turn", "test")
  /\ idx' = IF method = "lenovo" THEN idx ELSE idx + 1
  /\ UNCHANGED <<method, status, size, encVars, raced, sndBuf, taken, currUpdate, sendSrcBuff,
                 last>>
SendTurns ==
  /\ SndMove("turn", "test")
  /\ idx' = IF method = "lenovo" THEN idx ELSE Other(idx)
  /\ UNCHANGED <<method, status, size, encVars, raced, sndBuf, taken, currUpdate,
                 sendSrcBuff, last>>

Send ==
  \/ SendTests \/ GetNothing \/ GetLooks \/ GetPicks \/ GetPoints \/ GetSize \/ GetEmpties
  \/ SendCopies \/ SendPackets \/ SendTurns
=============================================================================
