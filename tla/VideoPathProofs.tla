-------------------------- MODULE VideoPathProofs --------------------------
(***************************************************************************)
(* Theorems about VideoPath: whatever the capture methods and the numbers  *)
(* frames are told apart by, the states keep their types, the capture      *)
(* thread never makes a frame of a picture the caller is still writing,    *)
(* every frame but the first is sent whole, and the frames leave in the    *)
(* order they were captured, all until a race is lost that the code leaves *)
(* to how long things take (raced).                                        *)
(*                                                                         *)
(* That they are whole rests on the two JPEG buffers' changing roles.  The *)
(* buffer picked last (Mine) is with the sender, the other with the        *)
(* encoder; neither flag nor index alone says so, because each thread      *)
(* writes the index and the flags are stored one after the other.  The     *)
(* invariant follows the window in which the sender holds the other buffer *)
(* and has not yet emptied it: there, the encoder may already write the    *)
(* buffer that the index left, and an encoding begun on an old index ends  *)
(* only after the sender has come back with nothing.                       *)
(*                                                                         *)
(* Their order rests on how old each frame on its way is, counted in       *)
(* frames encoded since: the frame sent last, the one that is copied, and  *)
(* those in the two buffers.                                               *)
(***************************************************************************)
EXTENDS VideoPath, TLAPS

-----------------------------------------------------------------------------
(* The types. *)

\* The index is turned to the other buffer only after a buffer was picked.
Pointing ==
  method # "lenovo" /\ snd \in {"size", "null", "copy", "send", "turn"} => idx \in Buffers
IndexIsLenovos == enc = "index" => method = "lenovo"
Typed == TypeOK /\ Pointing /\ IndexIsLenovos

LEMMA Others ==
  ASSUME NEW b \in Buffers
  PROVE  /\ Other(b) \in Buffers /\ Other(b) # b /\ Other(Other(b)) = b
         /\ \A d \in Buffers : d = b \/ d = Other(b)
  BY DEF Other, Buffers

\* The number of a frame is followed, and preceded, by the number of another.
LEMMA FrameNumbers ==
  /\ 1 \in Frames /\ Numbers \in Frames
  /\ \A f \in Frames : (f % Numbers) + 1 \in Frames /\ (f # 1 => f - 1 \in Frames)
  BY NumbersAssumption DEF Frames

LEMMA InitTyped == Init => Typed
<1> SUFFICES ASSUME Init PROVE Typed
  OBVIOUS
<1> USE DEF Init, JpegInit, Buffers, FIRSTLY
<1>1. failed \in BOOLEAN
  OBVIOUS
<1>2. 1 \in Frames
  BY FrameNumbers
<1>3. JpegTypeOK
  BY <1>1, <1>2 DEF JpegTypeOK, Torn, None
<1>4. TypeOK
  BY <1>3 DEF TypeOK
<1> QED
  BY <1>4 DEF Typed, Pointing, IndexIsLenovos

\* What the capture thread and the end of the session do to the JPEG buffers, when it
\* makes a frame of some of these pictures.
CaptureStep(pictures) ==
  \/ \E b \in Buffers : EncodesInto(b) \/ EncodeFlags(b)
  \/ \E p \in pictures : Encoded(p)
  \/ EncodeDiscards \/ EncodePoints \/ CaptureEnds \/ CaptureFails \/ SessionEnds

\* These keep their types; the index is turned for Lenovo's encoder only.
LEMMA CaptureTyped ==
  ASSUME JpegTypeOK, Pointing, IndexIsLenovos, CaptureStep({Torn} \cup Frames)
  PROVE  JpegTypeOK' /\ Pointing' /\ IndexIsLenovos'
<1> USE DEF JpegTypeOK, Pointing, IndexIsLenovos, encVars, sndVars, EncMove, Buffers
<1>0. failed' \in BOOLEAN
  BY DEF CaptureStep, EncodesInto, EncodeFlags, Encoded, EncodeDiscards, EncodePoints,
         CaptureEnds, CaptureFails, SessionEnds
<1> DEFINE Goal == JpegTypeOK' /\ Pointing' /\ IndexIsLenovos'
<1>1. ASSUME NEW b \in Buffers, EncodesInto(b) PROVE Goal
  BY <1>0, <1>1 DEF EncodesInto, Torn
<1>2. ASSUME NEW p \in {Torn} \cup Frames, Encoded(p) PROVE Goal
  BY <1>0, <1>2, FrameNumbers DEF Encoded
<1>3. CASE EncodeDiscards
  BY <1>0, <1>3 DEF EncodeDiscards
<1>4. ASSUME NEW b \in Buffers, EncodeFlags(b) PROVE Goal
  BY <1>0, <1>4 DEF EncodeFlags
<1>5. CASE EncodePoints
  BY <1>0, <1>5 DEF EncodePoints
<1>6. CASE CaptureEnds
  BY <1>0, <1>6 DEF CaptureEnds
<1>7. CASE CaptureFails
  BY <1>0, <1>7 DEF CaptureFails, Torn
<1>8. CASE SessionEnds
  BY <1>0, <1>8 DEF SessionEnds
<1> QED
  BY <1>1, <1>2, <1>3, <1>4, <1>5, <1>6, <1>7, <1>8 DEF CaptureStep

\* The sender's steps keep them too; the index it turns is that of a buffer.
LEMMA SendTyped ==
  ASSUME JpegTypeOK, Pointing, Send
  PROVE  JpegTypeOK' /\ Pointing' /\ enc' = enc /\ method' = method
<1> USE DEF JpegTypeOK, Pointing, encVars, SndMove, Buffers
<1>0. failed' \in BOOLEAN
  BY DEF Send, SendTests, GetNothing, GetLooks, GetPicks, GetPoints, GetSize, GetEmpties,
         SendCopies, SendPackets, SendTurns
<1>1. CASE SendTests
  BY <1>0, <1>1 DEF SendTests
<1>2. CASE GetNothing
  BY <1>0, <1>2 DEF GetNothing
<1>3. CASE GetLooks
  BY <1>0, <1>3 DEF GetLooks
<1>4. CASE GetPicks
  BY <1>0, <1>4 DEF GetPicks
<1>5. CASE GetPoints
  BY <1>0, <1>5 DEF GetPoints
<1>6. CASE GetSize
  BY <1>0, <1>6 DEF GetSize
<1>7. CASE GetEmpties
  BY <1>0, <1>7 DEF GetEmpties, Fresh, Torn
<1>8. CASE SendCopies
  BY <1>0, <1>8 DEF SendCopies, Torn
<1>9. CASE SendPackets
  BY <1>0, <1>9 DEF SendPackets, Torn
<1>10. CASE SendTurns
  BY <1>0, <1>10 DEF SendTurns, Other
<1> QED
  BY <1>1, <1>2, <1>3, <1>4, <1>5, <1>6, <1>7, <1>8, <1>9, <1>10 DEF Send

\* The types of the source buffers and of the two at their ends.
SourceTypes ==
  /\ srcIdx \in {FIRSTLY} \cup Buffers /\ writable \in [Buffers -> BOOLEAN]
  /\ filled \in [Buffers -> BOOLEAN]
  /\ src \in [Buffers -> {"old", "partial", "prior", "new"}]
  /\ caller \in {"idle", "choose", "copy"} /\ callerBuf \in Buffers
  /\ take \in {"none", "switch", "flags", "size", "convert", "have", "encode"}
  /\ takeBuf \in Buffers /\ picture \in {"old", "partial", "new"}

LEMMA CallerTyped ==
  ASSUME SourceTypes, Caller
  PROVE  SourceTypes'
<1> USE DEF SourceTypes, CallerMove, Buffers, FIRSTLY, takeVars
<1>1. CASE CallerLocks
  BY <1>1 DEF CallerLocks
<1>2. CASE CallerFilled
  BY <1>2 DEF CallerFilled
<1>3. CASE CallerDrops
  BY <1>3 DEF CallerDrops
<1>4. ASSUME NEW b \in Buffers, CallerFills(b) PROVE SourceTypes'
  BY <1>4 DEF CallerFills
<1>5. ASSUME NEW b \in Buffers, CallerGivesSize(b) PROVE SourceTypes'
  BY <1>5 DEF CallerGivesSize
<1> QED
  BY <1>1, <1>2, <1>3, <1>4, <1>5 DEF Caller

LEMMA TakesTyped ==
  ASSUME SourceTypes, Takes
  PROVE  SourceTypes'
<1> USE DEF SourceTypes, TakeMove, Buffers, FIRSTLY, callerVars, Forgets
<1>1. CASE TakeSwitches
  BY <1>1 DEF TakeSwitches, Other
<1>2. CASE TakeFlags
  BY <1>2 DEF TakeFlags
<1>3. CASE TakeEmpties
  BY <1>3 DEF TakeEmpties
<1>4. CASE TakeConverts
  BY <1>4 DEF TakeConverts
<1>5. CASE TakeDrops
  BY <1>5 DEF TakeDrops
<1>6. CASE TakeEnds
  BY <1>6 DEF TakeEnds
<1>7. ASSUME NEW b \in Buffers, TakeTests(b) PROVE SourceTypes'
  BY <1>7 DEF TakeTests
<1>8. ASSUME NEW b \in Buffers, TakeEncodes(b) PROVE SourceTypes'
  BY <1>8 DEF TakeEncodes
<1> QED
  BY <1>1, <1>2, <1>3, <1>4, <1>5, <1>6, <1>7, <1>8 DEF Takes

\* Every step is one of the capture thread, one of the sender, or none at the JPEG buffers.
LEMMA StepAtTheBuffers ==
  ASSUME JpegTypeOK, SourceTypes, [Next]_vars
  PROVE  \/ CaptureStep(IF picture = "partial" THEN {Torn} \cup Frames ELSE Frames)
         \/ Send
         \/ UNCHANGED handVars
<1> DEFINE Pictures == IF picture = "partial" THEN {Torn} \cup Frames ELSE Frames
<1> SUFFICES CaptureStep(Pictures) \/ Send \/ UNCHANGED handVars
  OBVIOUS
<1>1. frame \in Pictures
  BY DEF JpegTypeOK
<1>2. CASE Ends
  BY <1>2 DEF Ends, CaptureStep
<1>3. CASE Capture
  BY <1>3, <1>1 DEF Capture, Captures, Stores, CaptureStep, EncodeBegins, EncodeEnds
<1>4. CASE Takes
  <2>1. ASSUME NEW b \in Buffers, TakeEncodes(b) PROVE CaptureStep(Pictures)
    BY <2>1 DEF TakeEncodes, CaptureStep
  <2>2. CASE TakeEnds
    <3> DEFINE p == CASE picture = "new" -> frame
                      [] picture = "partial" -> Torn
                      [] OTHER -> IF frame = 1 THEN Numbers ELSE frame - 1
    <3>1. p \in Pictures
      BY FrameNumbers DEF JpegTypeOK, SourceTypes
    <3>2. Encoded(p)
      BY <2>2 DEF TakeEnds
    <3> QED
      BY <3>1, <3>2 DEF CaptureStep
  <2>3. ASSUME NEW b \in Buffers, TakeTests(b) PROVE UNCHANGED handVars
    BY <2>3 DEF TakeTests, jpegVars
  <2>4. CASE TakeSwitches \/ TakeFlags \/ TakeEmpties \/ TakeConverts \/ TakeDrops
    BY <2>4 DEF TakeSwitches, TakeFlags, TakeEmpties, TakeConverts, TakeDrops, jpegVars
  <2> QED
    BY <1>4, <2>1, <2>2, <2>3, <2>4 DEF Takes
<1>5. CASE Caller
  BY <1>5 DEF Caller
<1>6. CASE Discards
  BY <1>6 DEF Discards, CaptureStep
<1>7. CASE Fails
  BY <1>7 DEF Fails, CaptureStep
<1>8. CASE Sending
  BY <1>8 DEF Sending
<1>9. CASE UNCHANGED vars \/ Quiet
  BY <1>9 DEF vars, jpegVars, Quiet
<1> QED
  BY <1>2, <1>3, <1>4, <1>5, <1>6, <1>7, <1>8, <1>9 DEF Next

LEMMA SourcesTyped ==
  ASSUME SourceTypes, [Next]_vars
  PROVE  SourceTypes'
<1>1. CASE UNCHANGED sourceVars
  BY <1>1 DEF SourceTypes, sourceVars, callerVars, takeVars
<1>2. CASE Takes
  BY <1>2, TakesTyped
<1>3. CASE Caller
  BY <1>3, CallerTyped
<1>4. CASE Fails
  BY <1>4 DEF Fails, SourceTypes, callerVars, Forgets, Buffers
<1> QED
  BY <1>1, <1>2, <1>3, <1>4 DEF Next, Ends, Capture, Discards, Sending, Quiet, vars

\* A race that was lost stays lost.
LEMMA RacedForGood ==
  ASSUME raced \in BOOLEAN, [Next]_vars
  PROVE  raced' \in BOOLEAN /\ (raced => raced')
<1> DEFINE Goal == raced' \in BOOLEAN /\ (raced => raced')
<1>1. CASE UNCHANGED raced
  BY <1>1
<1>2. ASSUME NEW p, Encoded(p) PROVE Goal
  BY <1>2 DEF Encoded, NotesRace
<1>3. CASE EncodeDiscards
  BY <1>3 DEF EncodeDiscards, NotesRace
<1>4. ASSUME NEW b \in Buffers, CallerFills(b) PROVE Goal
  BY <1>4 DEF CallerFills
<1>5. CASE Ends \/ Quiet \/ UNCHANGED vars
  BY <1>1, <1>5 DEF Ends, SessionEnds, Quiet, vars, jpegVars
<1>6. CASE Capture
  BY <1>1, <1>2, <1>6 DEF Capture, Captures, Stores, EncodeBegins, EncodesInto, EncodeEnds,
                          EncodeFlags, EncodePoints, CaptureEnds
<1>7. CASE Takes
  <2>1. CASE TakeEnds
    BY <1>2, <2>1 DEF TakeEnds
  <2>2. ASSUME NEW b \in Buffers, TakeTests(b) \/ TakeEncodes(b) PROVE Goal
    BY <1>1, <2>2 DEF TakeTests, TakeEncodes, EncodesInto, jpegVars
  <2>3. CASE TakeSwitches \/ TakeFlags \/ TakeEmpties \/ TakeConverts \/ TakeDrops
    BY <1>1, <2>3 DEF TakeSwitches, TakeFlags, TakeEmpties, TakeConverts, TakeDrops, jpegVars
  <2> QED
    BY <1>7, <2>1, <2>2, <2>3 DEF Takes
<1>8. CASE Caller
  BY <1>1, <1>4, <1>8 DEF Caller, CallerLocks, CallerFilled, CallerDrops, CallerGivesSize
<1>9. CASE Discards \/ Fails
  BY <1>1, <1>3, <1>9 DEF Discards, Fails, CaptureFails
<1>10. CASE Sending
  BY <1>1, <1>10 DEF Sending, Send, SendTests, GetNothing, GetLooks, GetPicks, GetPoints,
                     GetSize, GetEmpties, SendCopies, SendPackets, SendTurns
<1> QED
  BY <1>5, <1>6, <1>7, <1>8, <1>9, <1>10 DEF Next

LEMMA TypedStep == Typed /\ [Next]_vars => Typed'
<1> SUFFICES ASSUME Typed, [Next]_vars PROVE Typed'
  OBVIOUS
<1>1. JpegTypeOK /\ SourceTypes /\ Pointing /\ IndexIsLenovos
  BY DEF Typed, TypeOK, SourceTypes
<1>2. SourceTypes'
  BY <1>1, SourcesTyped
<1>3. JpegTypeOK' /\ Pointing' /\ IndexIsLenovos'
  <2>1. CASE CaptureStep(IF picture = "partial" THEN {Torn} \cup Frames ELSE Frames)
    <3>1. CaptureStep({Torn} \cup Frames)
      BY <2>1 DEF CaptureStep
    <3> QED
      BY <3>1, <1>1, CaptureTyped
  <2>2. CASE Send
    BY <2>2, <1>1, SendTyped DEF IndexIsLenovos
  <2>3. CASE UNCHANGED handVars
    BY <2>3, <1>1 DEF handVars, encVars, sndVars, JpegTypeOK, Pointing, IndexIsLenovos
  <2> QED
    BY <1>1, <2>1, <2>2, <2>3, StepAtTheBuffers
<1>4. raced' \in BOOLEAN
  BY RacedForGood DEF Typed, TypeOK
<1> QED
  BY <1>2, <1>3, <1>4 DEF Typed, TypeOK, SourceTypes

LEMMA AlwaysTyped == Spec => []Typed
  BY InitTyped, TypedStep, PTL DEF Spec

\* The states keep their types: the index is FIRSTLY or that of a buffer wherever it is
\* read, whichever thread stored it last and whether capturing failed or not, and it is
\* turned with 3 - index only when it is that of a buffer.
THEOREM TypeCorrect == Spec => []TypeOK
<1>1. Typed => TypeOK
  BY DEF Typed
<1> QED
  BY <1>1, AlwaysTyped, PTL

-----------------------------------------------------------------------------
(* The caller's pictures. *)

\* The caller writes the buffer the index names, and the capture thread turns the index away
\* from the buffer it takes before it reads it: no picture is taken that is still written.
TakesTheOther ==
  /\ picture # "partial"
  /\ \A b \in Buffers : src[b] = "partial" => caller = "copy" /\ callerBuf = b
  /\ take = "switch" => caller # "copy"
  /\ take \in {"flags", "size", "convert"} =>
       srcIdx = Other(takeBuf) /\ (caller = "copy" => callerBuf # takeBuf)

LEMMA InitTakesTheOther == Init => TakesTheOther
  BY DEF Init, TakesTheOther, Buffers

LEMMA CallerTakesTheOther ==
  ASSUME ~raced', SourceTypes, TakesTheOther, Caller
  PROVE  TakesTheOther'
<1> USE DEF SourceTypes, TakesTheOther, CallerMove, takeVars, Buffers
<1>1. CASE CallerLocks
  BY <1>1 DEF CallerLocks
<1>2. CASE CallerFilled
  BY <1>2 DEF CallerFilled
<1>3. CASE CallerDrops
  BY <1>3 DEF CallerDrops
<1>4. ASSUME NEW b \in Buffers, CallerFills(b) PROVE TakesTheOther'
  <2>1. take \in {"flags", "size", "convert"} => b # takeBuf
    BY <1>4 DEF CallerFills, MayFill, Other, FIRSTLY
  <2>2. take # "switch"
    BY <1>4 DEF CallerFills
  <2> QED
    BY <1>4, <2>1, <2>2 DEF CallerFills
<1>5. ASSUME NEW b \in Buffers, CallerGivesSize(b) PROVE TakesTheOther'
  BY <1>5 DEF CallerGivesSize
<1> QED
  BY <1>1, <1>2, <1>3, <1>4, <1>5 DEF Caller

LEMMA TakesTakesTheOther ==
  ASSUME SourceTypes, TakesTheOther, Takes
  PROVE  TakesTheOther'
<1> USE DEF SourceTypes, TakesTheOther, TakeMove, callerVars, Buffers, Forgets
<1>1. CASE TakeSwitches
  BY <1>1 DEF TakeSwitches
<1>2. CASE TakeFlags
  BY <1>2 DEF TakeFlags
<1>3. CASE TakeEmpties
  BY <1>3 DEF TakeEmpties
<1>4. CASE TakeConverts
  BY <1>4 DEF TakeConverts
<1>5. CASE TakeDrops
  BY <1>5 DEF TakeDrops
<1>6. CASE TakeEnds
  BY <1>6 DEF TakeEnds
<1>7. ASSUME NEW b \in Buffers, TakeTests(b) PROVE TakesTheOther'
  BY <1>7 DEF TakeTests, bLock
<1>8. ASSUME NEW b \in Buffers, TakeEncodes(b) PROVE TakesTheOther'
  BY <1>8 DEF TakeEncodes
<1> QED
  BY <1>1, <1>2, <1>3, <1>4, <1>5, <1>6, <1>7, <1>8 DEF Takes

LEMMA TakesTheOtherStep ==
  ASSUME ~raced', SourceTypes, TakesTheOther, [Next]_vars
  PROVE  TakesTheOther'
<1>1. CASE UNCHANGED sourceVars
  BY <1>1 DEF TakesTheOther, sourceVars, callerVars, takeVars
<1>2. CASE Takes
  BY <1>2, TakesTakesTheOther
<1>3. CASE Caller
  BY <1>3, CallerTakesTheOther
<1>4. CASE Fails
  BY <1>4 DEF Fails, TakesTheOther, callerVars, Forgets
<1> QED
  BY <1>1, <1>2, <1>3, <1>4 DEF Next, Ends, Capture, Discards, Sending, Quiet, vars

-----------------------------------------------------------------------------
(* The two JPEG buffers. *)

Writes(b) == enc = "write" /\ encBuf = b             \* a frame is being encoded into b
Stored(b) == enc \in {"first", "second"} /\ encBuf = b  \* it is there, its flags are not
Ready(b) == IF b = 1 THEN flag[1] ELSE flag[2] /\ ~flag[1]  \* the one GetPicks would choose
Clean(b) == buf[b] # Torn /\ size[b] = buf[b]        \* it holds a whole frame and its size
Mine == currUpdate                                   \* the buffer the sender picked last
NextUp == Other(currUpdate)                           \* the one it picks next
Holds == snd \in {"point", "size", "null"} /\ sndBuf = NextUp

\* No buffer was picked yet: the first one will be, whatever is written into it meanwhile.
First ==
  /\ last = None /\ ~flag[2] /\ sndBuf = 1
  /\ snd \in {"test", "flags", "pick", "point", "size", "null"}
  /\ idx = IF snd \in {"size", "null"} THEN 1 ELSE FIRSTLY
  /\ snd \in {"point", "size", "null"} => flag[1]
  /\ enc \in {"write", "first", "second"} =>
       encBuf = 1 \/ (enc = "write" /\ snd \in {"size", "null"} /\ within = 2)

\* Between the stores of the flags both may be set, or none; else one is.
OneFlag ==
  /\ enc # "second" => flag[1] # flag[2]
  /\ enc = "second" => flag[1] = (encBuf = 1)

\* The index names the buffer just picked until the frame was sent.
IndexFollows ==
  /\ idx \in Buffers
  /\ snd \in {"size", "null"} => idx = sndBuf
  /\ snd \in {"copy", "send", "turn"} => idx = Mine /\ sndBuf = Mine

\* What is written into the next buffer is not what is ready there.
NextNotReady == enc \in {"write", "first"} /\ encBuf = NextUp => ~flag[NextUp]

\* The sender has the next buffer and has not emptied it: the encoder is not there, and
\* where it writes in the other one, that one will be the next.
Handed ==
  Holds =>
    /\ ~(enc \in {"write", "first"} /\ encBuf = NextUp)
    /\ snd = "point" /\ idx = Mine =>
         flag[NextUp] /\ ~Stored(Mine) /\ (Writes(Mine) => within >= 1)
    /\ enc \in {"write", "first"} /\ encBuf = Mine => ~flag[Mine]
    /\ Clean(NextUp) /\ (snd = "null" => taken = buf[NextUp])
    /\ Ready(Mine) \/ Stored(Mine) => Clean(Mine)

\* A frame begun in the sender's buffer while the index named it for a moment is not done
\* before the sender has come back with nothing, and looked again.
BegunInTime ==
  Writes(Mine) /\ flag[NextUp] =>
    /\ idx = Mine => \/ snd \in {"size", "null"} /\ within = 2
                     \/ snd \in {"test", "flags", "pick"} /\ within >= 1
                     \/ snd = "point" /\ sndBuf = NextUp
    /\ snd = "point" /\ sndBuf = Mine => within = 2

\* When it is done, the sender has pointed the index to the next buffer.
DoneInTime ==
  enc = "first" /\ encBuf = Mine /\ flag[NextUp] =>
    idx = NextUp /\ Clean(Mine) /\ ~(snd = "point" /\ sndBuf = Mine)

\* What is ready in the next buffer, or will be, is a whole frame.
NextWhole == Ready(NextUp) \/ Stored(NextUp) => Clean(NextUp)

\* Nobody writes what is copied, and what was copied is whole.
CopyWhole ==
  /\ snd = "copy" =>
       \/ last = None
       \/ ~Writes(Mine) /\ sendSrcBuff = buf[Mine] /\ taken = buf[Mine] /\ buf[Mine] # Torn
  /\ snd = "send" => last = None \/ sendSrcBuff # Torn

Swap ==
  /\ OneFlag /\ IndexFollows /\ NextNotReady /\ Handed
  /\ BegunInTime /\ DoneInTime /\ NextWhole /\ CopyWhole

\* Lenovo's encoder has one buffer, and the index says whose it is.
Lenovo ==
  /\ enc \notin {"first", "second"} /\ snd \notin {"pick", "point", "size"}
  /\ enc \in {"write", "index"} => idx # 1 /\ encBuf = 1
  /\ snd \in {"null", "copy"} => idx = 1 /\ sndBuf = 1
  /\ idx = 1 \/ enc = "index" => buf[1] # Torn /\ size[1] \in {0, buf[1]}
  /\ snd = "null" => taken \in {0, buf[1]}
  /\ snd = "copy" => taken = buf[1] /\ sendSrcBuff = buf[1]
  /\ snd = "send" => sendSrcBuff # Torn

\* Nothing is said of a session that ended or whose buffers were freed.
Live == ~failed /\ snd # "done"
Handoff ==
  /\ Live /\ method = "lenovo" => Lenovo
  /\ Live /\ method # "lenovo" /\ currUpdate = 0 => First
  /\ Live /\ method # "lenovo" /\ currUpdate # 0 => Swap

LEMMA InitHandoff == Init => Handoff
  BY DEF Init, JpegInit, Handoff, Lenovo, First, FIRSTLY, Torn, Buffers

\* No race is lost by what is done in time.
LEMMA DoneLate ==
  ASSUME JpegTypeOK, NotesRace, ~raced'
  PROVE  within = 0
<1>1. ~(within > 0)
  BY DEF NotesRace
<1> QED
  BY <1>1 DEF JpegTypeOK

LEMMA EncodesHandoff ==
  ASSUME Typed, Handoff, NEW b \in Buffers, EncodesInto(b)
  PROVE  Handoff'
<1> SUFFICES ASSUME Live' PROVE Handoff'
  BY DEF Handoff
<1> USE DEF EncodesInto, EncMove, encVars, sndVars, MayWrite, Getting, Live, Typed, TypeOK,
            JpegTypeOK, IndexIsLenovos, Buffers, FIRSTLY
<1>1. CASE method = "lenovo"
  BY <1>1 DEF Handoff, Lenovo, Torn
<1>2. CASE method # "lenovo" /\ currUpdate = 0
  BY <1>2 DEF Handoff, First
<1>3. CASE method # "lenovo" /\ currUpdate # 0
  <2> USE <1>3 DEF Mine, NextUp, Other
  <2>0. Swap
    BY DEF Handoff
  <2> USE DEF Swap
  <2>1. OneFlag' /\ IndexFollows'
    BY <2>0 DEF OneFlag, IndexFollows
  <2>2. NextNotReady'
    BY <2>0 DEF OneFlag, IndexFollows, NextNotReady
  <2>3. Handed'
    BY <2>0 DEF Handed, OneFlag, IndexFollows, Holds, Stored, Writes, Ready, Clean
  <2>4. BegunInTime'
    BY <2>0 DEF BegunInTime, OneFlag, IndexFollows, Writes, Handed, Holds
  <2>5. DoneInTime'
    BY <2>0 DEF DoneInTime
  <2>6. NextWhole'
    BY <2>0 DEF NextWhole, Ready, Stored, Clean, OneFlag, IndexFollows
  <2>7. CopyWhole'
    BY <2>0 DEF CopyWhole, IndexFollows, Writes
  <2> QED
    BY <2>1, <2>2, <2>3, <2>4, <2>5, <2>6, <2>7 DEF Handoff
<1> QED
  BY <1>1, <1>2, <1>3

LEMMA EncodedHandoff ==
  ASSUME ~raced', Typed, Handoff, NEW p \in Frames, Encoded(p)
  PROVE  Handoff'
<1> SUFFICES ASSUME Live' PROVE Handoff'
  BY DEF Handoff
<1>0. p # Torn /\ 0 \notin Frames
  BY DEF Frames, Torn
<1>00. within = 0
  BY DoneLate DEF Encoded, Typed, TypeOK
<1> USE <1>0, <1>00 DEF Encoded, EncMove, encVars, sndVars, Live, Typed, TypeOK, JpegTypeOK, Buffers
<1>1. CASE method = "lenovo"
  BY <1>1 DEF Handoff, Lenovo
<1>2. CASE method # "lenovo" /\ currUpdate = 0
  BY <1>2 DEF Handoff, First
<1>3. CASE method # "lenovo" /\ currUpdate # 0
  <2> USE <1>3 DEF Mine, NextUp, Other
  <2>0. Swap
    BY DEF Handoff
  <2> USE DEF Swap
  <2>1. OneFlag' /\ IndexFollows'
    BY <2>0 DEF OneFlag, IndexFollows
  <2>2. NextNotReady'
    BY <2>0 DEF NextNotReady
  <2>3. Handed'
    BY <2>0 DEF Handed, Holds, Stored, Writes, Ready, Clean, OneFlag
  <2>4. BegunInTime'
    BY <2>0 DEF BegunInTime, Writes
  <2>5. DoneInTime'
    BY <2>0 DEF DoneInTime, BegunInTime, Writes, IndexFollows, Clean, Handed, Holds
  <2>6. NextWhole'
    BY <2>0 DEF NextWhole, Ready, Stored, Clean, OneFlag
  <2>7. CopyWhole'
    BY <2>0 DEF CopyWhole, Writes
  <2> QED
    BY <2>1, <2>2, <2>3, <2>4, <2>5, <2>6, <2>7 DEF Handoff
<1> QED
  BY <1>1, <1>2, <1>3

LEMMA DiscardHandoff ==
  ASSUME ~raced', Typed, Handoff, EncodeDiscards
  PROVE  Handoff'
<1> SUFFICES ASSUME Live' PROVE Handoff'
  BY DEF Handoff
<1>00. within = 0
  BY DoneLate DEF EncodeDiscards, Typed, TypeOK
<1> USE <1>00 DEF EncodeDiscards, EncMove, encVars, sndVars, Live, Typed, TypeOK,
                  JpegTypeOK, Buffers
<1>2. CASE method # "lenovo" /\ currUpdate = 0
  BY <1>2 DEF Handoff, First
<1>3. CASE method # "lenovo" /\ currUpdate # 0
  <2> USE <1>3 DEF Mine, NextUp, Other
  <2>0. Swap
    BY DEF Handoff
  <2> USE DEF Swap
  <2>1. OneFlag' /\ IndexFollows'
    BY <2>0 DEF OneFlag, IndexFollows
  <2>2. NextNotReady'
    BY <2>0 DEF NextNotReady
  <2>3. Handed'
    BY <2>0 DEF Handed, Holds, Stored, Writes, Ready, Clean, OneFlag
  <2>4. BegunInTime'
    BY <2>0 DEF BegunInTime, Writes
  <2>5. DoneInTime'
    BY <2>0 DEF DoneInTime, BegunInTime, Writes, IndexFollows, Clean
  <2>6. NextWhole'
    BY <2>0 DEF NextWhole, NextNotReady, Ready, Stored, Clean, OneFlag
  <2>7. CopyWhole'
    BY <2>0 DEF CopyWhole, Writes
  <2> QED
    BY <2>1, <2>2, <2>3, <2>4, <2>5, <2>6, <2>7 DEF Handoff
<1> QED
  BY <1>2, <1>3 DEF Handoff

LEMMA FlagsHandoff ==
  ASSUME Typed, Handoff, NEW b \in Buffers, EncodeFlags(b)
  PROVE  Handoff'
<1> SUFFICES ASSUME Live' PROVE Handoff'
  BY DEF Handoff
<1> USE DEF EncodeFlags, EncMove, encVars, sndVars, Live, Typed, TypeOK, JpegTypeOK, Buffers
<1>1. CASE method = "lenovo"
  BY <1>1 DEF Handoff, Lenovo
<1>2. CASE method # "lenovo" /\ currUpdate = 0
  BY <1>2 DEF Handoff, First
<1>3. CASE method # "lenovo" /\ currUpdate # 0
  <2> USE <1>3 DEF Mine, NextUp, Other
  <2>0. Swap
    BY DEF Handoff
  <2> USE DEF Swap
  <2>1. OneFlag' /\ IndexFollows'
    BY <2>0 DEF OneFlag, IndexFollows
  <2>2. NextNotReady'
    BY <2>0 DEF NextNotReady
  <2>3. Handed'
    BY <2>0 DEF Handed, Holds, Stored, Writes, Ready, Clean, OneFlag
  <2>4. BegunInTime'
    BY <2>0 DEF BegunInTime, Writes
  <2>5. DoneInTime'
    BY <2>0 DEF DoneInTime, BegunInTime, Writes, IndexFollows, Clean
  <2>6. NextWhole'
    BY <2>0 DEF NextWhole, NextNotReady, Ready, Stored, Clean, OneFlag
  <2>7. CopyWhole'
    BY <2>0 DEF CopyWhole, Writes
  <2> QED
    BY <2>1, <2>2, <2>3, <2>4, <2>5, <2>6, <2>7 DEF Handoff
<1> QED
  BY <1>1, <1>2, <1>3

LEMMA OtherCaptureHandoff ==
  ASSUME Typed, Handoff, EncodePoints \/ CaptureEnds \/ CaptureFails \/ SessionEnds
  PROVE  Handoff'
<1>1. CASE EncodePoints
  BY <1>1 DEF EncodePoints, EncMove, sndVars, Handoff, Lenovo, Live, Typed, IndexIsLenovos
<1>2. CASE CaptureFails
  BY <1>2 DEF CaptureFails, Handoff, Live
<1>3. CASE SessionEnds
  BY <1>3 DEF SessionEnds, encVars, sndVars, Handoff, Live, Lenovo, First, Swap,
                OneFlag, IndexFollows, NextNotReady, Handed, BegunInTime, DoneInTime, NextWhole,
                CopyWhole, Holds, Mine, NextUp, Writes, Stored, Ready, Clean
<1>4. CASE CaptureEnds
  BY <1>4 DEF CaptureEnds, EncMove, sndVars, Handoff, Live, Lenovo, First, Swap,
                OneFlag, IndexFollows, NextNotReady, Handed, BegunInTime, DoneInTime, NextWhole,
                CopyWhole, Holds, Mine, NextUp, Writes, Stored, Ready, Clean
<1> QED
  BY <1>1, <1>2, <1>3, <1>4

\* The sender looks for a buffer that is ready.
LEMMA LooksHandoff ==
  ASSUME Typed, Handoff, SendTests \/ GetNothing \/ GetLooks \/ GetPicks
  PROVE  Handoff'
<1> SUFFICES ASSUME Live' PROVE Handoff'
  BY DEF Handoff
<1> USE DEF SendTests, GetNothing, GetLooks, GetPicks, SndMove, encVars, Live, Typed,
            TypeOK, JpegTypeOK, Buffers, Torn, None
<1>1. CASE method = "lenovo"
  BY <1>1 DEF Handoff, Lenovo
<1>2. CASE method # "lenovo" /\ currUpdate = 0
  BY <1>2 DEF Handoff, First
<1>3. CASE method # "lenovo" /\ currUpdate # 0
  <2> USE <1>3 DEF Mine, NextUp, Other
  <2>0. Swap
    BY DEF Handoff
  <2> USE DEF Swap
  <2>1. OneFlag' /\ IndexFollows'
    BY <2>0 DEF OneFlag, IndexFollows
  <2>2. NextNotReady'
    BY <2>0 DEF NextNotReady
  <2>3. Handed'
    BY <2>0 DEF Handed, Holds, Stored, Writes, Ready, Clean, OneFlag, IndexFollows,
                  NextNotReady, NextWhole, BegunInTime, DoneInTime
  <2>4. BegunInTime'
    BY <2>0 DEF BegunInTime, Writes, OneFlag, IndexFollows
  <2>5. DoneInTime'
    BY <2>0 DEF DoneInTime, BegunInTime, Writes, IndexFollows, Clean, OneFlag
  <2>6. NextWhole'
    BY <2>0 DEF NextWhole, NextNotReady, Ready, Stored, Clean, OneFlag
  <2>7. CopyWhole'
    BY <2>0 DEF CopyWhole, Writes, IndexFollows
  <2> QED
    BY <2>1, <2>2, <2>3, <2>4, <2>5, <2>6, <2>7 DEF Handoff
<1> QED
  BY <1>1, <1>2, <1>3

\* It points the index to the buffer it picked, and has its size.
LEMMA PointsHandoff ==
  ASSUME Typed, Handoff, GetPoints \/ GetSize
  PROVE  Handoff'
<1> SUFFICES ASSUME Live' PROVE Handoff'
  BY DEF Handoff
<1> USE DEF GetPoints, GetSize, SndMove, encVars, Live, Typed,
            TypeOK, JpegTypeOK, Buffers, Torn, None
<1>1. CASE method = "lenovo"
  BY <1>1 DEF Handoff, Lenovo
<1>2. CASE method # "lenovo" /\ currUpdate = 0
  BY <1>2 DEF Handoff, First
<1>3. CASE method # "lenovo" /\ currUpdate # 0
  <2> USE <1>3 DEF Mine, NextUp, Other
  <2>0. Swap
    BY DEF Handoff
  <2> USE DEF Swap
  <2>1. OneFlag' /\ IndexFollows'
    BY <2>0 DEF OneFlag, IndexFollows
  <2>2. NextNotReady'
    BY <2>0 DEF NextNotReady
  <2>3. Handed'
    BY <2>0 DEF Handed, Holds, Stored, Writes, Ready, Clean, OneFlag, IndexFollows,
                  NextNotReady, NextWhole, BegunInTime, DoneInTime
  <2>4. BegunInTime'
    BY <2>0 DEF BegunInTime, Writes, OneFlag, IndexFollows
  <2>5. DoneInTime'
    BY <2>0 DEF DoneInTime, BegunInTime, Writes, IndexFollows, Clean, OneFlag
  <2>6. NextWhole'
    BY <2>0 DEF NextWhole, NextNotReady, Ready, Stored, Clean, OneFlag
  <2>7. CopyWhole'
    BY <2>0 DEF CopyWhole, Writes, IndexFollows
  <2> QED
    BY <2>1, <2>2, <2>3, <2>4, <2>5, <2>6, <2>7 DEF Handoff
<1> QED
  BY <1>1, <1>2, <1>3

\* The two buffers change their roles when the sender empties the next one.
LEMMA EmptiesHandoff ==
  ASSUME Typed, Handoff, GetEmpties
  PROVE  Handoff'
<1> SUFFICES ASSUME Live' PROVE Handoff'
  BY DEF Handoff
<1>0. 0 \notin Frames
  BY DEF Frames
<1> USE <1>0 DEF GetEmpties, SndMove, encVars, Live, Typed, TypeOK, JpegTypeOK, Buffers, Fresh,
                 Torn
<1>1. CASE method = "lenovo"
  BY <1>1 DEF Handoff, Lenovo
<1>2. CASE method # "lenovo" /\ currUpdate = 0
  <2> USE <1>2 DEF Mine, NextUp, Other
  <2>1. First /\ currUpdate' = 1
    BY DEF Handoff, First
  <2>2. OneFlag' /\ IndexFollows' /\ NextNotReady'
    BY <2>1 DEF First, OneFlag, IndexFollows, NextNotReady
  <2>3. Handed' /\ CopyWhole'
    BY <2>1 DEF First, Handed, Holds, CopyWhole
  <2>4. BegunInTime' /\ DoneInTime'
    BY <2>1 DEF First, BegunInTime, DoneInTime
  <2>5. NextWhole'
    BY <2>1 DEF First, NextWhole, Ready, Stored
  <2> QED
    BY <2>1, <2>2, <2>3, <2>4, <2>5 DEF Handoff, Swap
<1>3. CASE method # "lenovo" /\ currUpdate # 0 /\ sndBuf = Mine
  <2> USE <1>3 DEF Mine, NextUp, Other
  <2>0. Swap
    BY DEF Handoff
  <2> USE DEF Swap
  <2>1. OneFlag' /\ IndexFollows' /\ NextNotReady'
    BY <2>0 DEF OneFlag, IndexFollows, NextNotReady
  <2>2. Handed' /\ CopyWhole'
    BY <2>0 DEF Handed, Holds, CopyWhole
  <2>3. BegunInTime'
    BY <2>0 DEF BegunInTime, Writes, IndexFollows
  <2>4. DoneInTime'
    BY <2>0 DEF DoneInTime, IndexFollows
  <2>5. NextWhole'
    BY <2>0 DEF NextWhole, Ready, Stored, Clean
  <2> QED
    BY <2>1, <2>2, <2>3, <2>4, <2>5 DEF Handoff
<1>4. CASE method # "lenovo" /\ currUpdate # 0 /\ sndBuf # Mine
  <2> USE <1>4 DEF Mine, NextUp, Other
  <2>0. Swap
    BY DEF Handoff
  <2> USE DEF Swap
  <2>1. Holds /\ NextUp' = Mine /\ Mine' = NextUp /\ Fresh
    BY <2>0 DEF Holds, Handed, Clean
  <2>2. OneFlag' /\ IndexFollows'
    BY <2>0 DEF OneFlag, IndexFollows
  <2>3. NextNotReady'
    BY <2>0, <2>1 DEF NextNotReady, Handed
  <2>4. Handed'
    BY <2>1 DEF Handed, Holds
  <2>5. BegunInTime' /\ DoneInTime'
    BY <2>0, <2>1 DEF BegunInTime, DoneInTime, Handed, Writes
  <2>6. NextWhole'
    BY <2>0, <2>1 DEF NextWhole, Handed, Ready, Stored, Clean
  <2>7. CopyWhole'
    BY <2>0, <2>1 DEF CopyWhole, Handed, Writes, Clean
  <2> QED
    BY <2>1, <2>2, <2>3, <2>4, <2>5, <2>6, <2>7 DEF Handoff
<1> QED
  BY <1>1, <1>2, <1>3, <1>4

\* It copies and sends what it picked, and turns the index.
LEMMA SendsHandoff ==
  ASSUME Typed, Handoff, SendCopies \/ SendPackets \/ SendTurns
  PROVE  Handoff'
<1> SUFFICES ASSUME Live' PROVE Handoff'
  BY DEF Handoff
<1> USE DEF SendCopies, SendPackets, SendTurns, SndMove, encVars, Live, Typed,
            TypeOK, JpegTypeOK, Buffers, Torn, None
<1>1. CASE method = "lenovo"
  BY <1>1 DEF Handoff, Lenovo
<1>2. CASE method # "lenovo" /\ currUpdate = 0
  BY <1>2 DEF Handoff, First
<1>3. CASE method # "lenovo" /\ currUpdate # 0
  <2> USE <1>3 DEF Mine, NextUp, Other
  <2>0. Swap
    BY DEF Handoff
  <2> USE DEF Swap
  <2>1. OneFlag' /\ IndexFollows'
    BY <2>0 DEF OneFlag, IndexFollows
  <2>2. NextNotReady'
    BY <2>0 DEF NextNotReady
  <2>3. Handed'
    BY <2>0 DEF Handed, Holds, Stored, Writes, Ready, Clean, OneFlag, IndexFollows,
                  NextNotReady, NextWhole, BegunInTime, DoneInTime
  <2>4. BegunInTime'
    BY <2>0 DEF BegunInTime, Writes, OneFlag, IndexFollows
  <2>5. DoneInTime'
    BY <2>0 DEF DoneInTime, BegunInTime, Writes, IndexFollows, Clean, OneFlag
  <2>6. NextWhole'
    BY <2>0 DEF NextWhole, NextNotReady, Ready, Stored, Clean, OneFlag
  <2>7. CopyWhole'
    BY <2>0 DEF CopyWhole, Writes, IndexFollows
  <2> QED
    BY <2>1, <2>2, <2>3, <2>4, <2>5, <2>6, <2>7 DEF Handoff
<1> QED
  BY <1>1, <1>2, <1>3

LEMMA HandoffStep ==
  ASSUME ~raced', Typed, TakesTheOther, Handoff, [Next]_vars
  PROVE  Handoff'
<1>1. JpegTypeOK /\ SourceTypes
  BY DEF Typed, TypeOK, SourceTypes
<1>2. picture # "partial"
  BY DEF TakesTheOther
<1>3. CASE CaptureStep(Frames)
  BY <1>3, EncodesHandoff, EncodedHandoff, DiscardHandoff, FlagsHandoff, OtherCaptureHandoff
     DEF CaptureStep
<1>4. CASE Send
  BY <1>4, LooksHandoff, PointsHandoff, EmptiesHandoff, SendsHandoff DEF Send
<1>5. CASE UNCHANGED handVars
  BY <1>5 DEF handVars, encVars, sndVars, Handoff, Live, Lenovo, First, Swap, OneFlag,
     IndexFollows, NextNotReady, Handed, BegunInTime, DoneInTime, NextWhole, CopyWhole, Holds,
     Mine, NextUp, Writes, Stored, Ready, Clean
<1> QED
  BY <1>1, <1>2, <1>3, <1>4, <1>5, StepAtTheBuffers

\* Every frame but the first is sent whole while capturing did not fail, for every capture
\* method and in every interleaving, until one of two races is lost: a frame was begun and
\* done within two looks of the sender, or the caller began between the capture thread's test
\* of bLock and its switch of the index.
THEOREM WholeFramesSent == Spec => []WholeFrames
<1> DEFINE IInv == Typed /\ (~raced => TakesTheOther /\ Handoff)
<1>1. Init => IInv
  BY InitTyped, InitTakesTheOther, InitHandoff
<1>2. IInv /\ [Next]_vars => IInv'
  <2> SUFFICES ASSUME IInv, [Next]_vars PROVE IInv'
    OBVIOUS
  <2>1. SourceTypes
    BY DEF Typed, TypeOK, SourceTypes
  <2>2. raced => raced'
    BY RacedForGood DEF Typed, TypeOK
  <2> QED
    BY <2>1, <2>2, TypedStep, TakesTheOtherStep, HandoffStep
<1>3. IInv => WholeFrames
  BY DEF WholeFrames, Handoff, Live, Lenovo, First, Swap, CopyWhole, Typed, TypeOK, JpegTypeOK
<1> QED
  BY <1>1, <1>2, <1>3, PTL DEF Spec

-----------------------------------------------------------------------------
(* The order of the frames.  First the arithmetic: how long before number n was f? *)

\* How many numbers before n the number f is, modulo the bound.
AgeAt(n, f) == (n - f) % Numbers

LEMMA ModOfSmall ==
  ASSUME NEW x \in Int, -Numbers < x, x < Numbers
  PROVE  x % Numbers = IF x >= 0 THEN x ELSE x + Numbers
  BY NumbersAssumption

LEMMA AgeIs ==
  ASSUME NEW n \in Frames, NEW f \in Frames
  PROVE  AgeAt(n, f) = IF n >= f THEN n - f ELSE n - f + Numbers
<1> DEFINE x == n - f
<1>1. x \in Int /\ -Numbers < x /\ x < Numbers
  BY NumbersAssumption DEF Frames
<1>2. x % Numbers = IF x >= 0 THEN x ELSE x + Numbers
  <2> HIDE DEF x
  <2> QED
    BY <1>1, ModOfSmall
<1> QED
  BY <1>2, NumbersAssumption DEF AgeAt, Frames

LEMMA NextNumber ==
  ASSUME NEW n \in Frames
  PROVE  (n % Numbers) + 1 = IF n = Numbers THEN 1 ELSE n + 1
<1>1. CASE n = Numbers
  BY <1>1, NumbersAssumption
<1>2. CASE n # Numbers
  BY <1>2, ModOfSmall, NumbersAssumption DEF Frames
<1> QED
  BY <1>1, <1>2

\* A frame is one frame older at each one encoded, up to the bound.
LEMMA Ages ==
  ASSUME NEW n \in Frames, NEW f \in Frames
  PROVE  /\ AgeAt(n, f) \in 0 .. (Numbers - 1)
         /\ Numbers > 1 => AgeAt((n % Numbers) + 1, n) = 1
         /\ AgeAt(n, f) < Numbers - 1 => AgeAt((n % Numbers) + 1, f) = AgeAt(n, f) + 1
<1> DEFINE m == (n % Numbers) + 1
<1>1. m \in Frames /\ m = IF n = Numbers THEN 1 ELSE n + 1
  BY FrameNumbers, NextNumber
<1>2. /\ AgeAt(n, f) = IF n >= f THEN n - f ELSE n - f + Numbers
      /\ AgeAt(m, f) = IF m >= f THEN m - f ELSE m - f + Numbers
      /\ AgeAt(m, n) = IF m >= n THEN m - n ELSE m - n + Numbers
  BY <1>1, AgeIs
<1> HIDE DEF m
<1>3. /\ AgeAt(n, f) \in 0 .. (Numbers - 1)
      /\ Numbers > 1 => AgeAt(m, n) = 1
      /\ AgeAt(n, f) < Numbers - 1 => AgeAt(m, f) = AgeAt(n, f) + 1
  BY <1>1, <1>2, NumbersAssumption DEF Frames
<1> QED
  BY <1>3 DEF m

\* Of two frames, the one that is less old comes after the other by the difference.
LEMMA AgesDiffer ==
  ASSUME NEW n \in Frames, NEW f \in Frames, NEW g \in Frames, AgeAt(n, g) <= AgeAt(n, f)
  PROVE  (g - f) % Numbers = AgeAt(n, f) - AgeAt(n, g)
<1>1. (g - f) % Numbers = IF g >= f THEN g - f ELSE g - f + Numbers
  BY AgeIs DEF AgeAt
<1> QED
  BY <1>1, AgeIs, NumbersAssumption DEF Frames

-----------------------------------------------------------------------------
(* The caller's pictures come in their order too. *)

\* The source buffer the index names next.
SrcNow == IF srcIdx = FIRSTLY THEN 1 ELSE srcIdx

\* A buffer is filled only where the index points, or where the capture thread is about to
\* empty it: every picture it takes is newer than the one before.
NewPictures ==
  /\ \A b \in Buffers : filled[b] =>
       /\ b = SrcNow \/ (b = takeBuf /\ take \in {"flags", "size"})
       /\ src[b] \in {"new", "prior"} \/ (caller = "copy" /\ callerBuf = b)
       /\ src[b] = "prior" => b = takeBuf /\ take \in {"flags", "size"}
  /\ take = "switch" => takeBuf = SrcNow /\ src[takeBuf] = "new"
  /\ take \in {"flags", "size"} => src[takeBuf] \in {"new", "prior"}
  /\ caller = "copy" => callerBuf = SrcNow
  /\ take \in {"convert", "have", "encode"} => picture = "new"

LEMMA InitNewPictures == Init => NewPictures
  BY DEF Init, NewPictures, Buffers

LEMMA CallerNewPictures ==
  ASSUME ~raced', SourceTypes, TakesTheOther, NewPictures, Caller
  PROVE  NewPictures'
<1> USE DEF SourceTypes, TakesTheOther, NewPictures, SrcNow, CallerMove, takeVars, Buffers,
            FIRSTLY
<1>1. CASE CallerLocks
  BY <1>1 DEF CallerLocks
<1>2. CASE CallerFilled
  BY <1>2 DEF CallerFilled
<1>3. CASE CallerDrops
  BY <1>3 DEF CallerDrops
<1>4. ASSUME NEW b \in Buffers, CallerFills(b) PROVE NewPictures'
  <2>1. take # "switch"
    BY <1>4 DEF CallerFills
  <2> QED
    BY <1>4, <2>1 DEF CallerFills, MayFill, Other
<1>5. ASSUME NEW b \in Buffers, CallerGivesSize(b) PROVE NewPictures'
  BY <1>5 DEF CallerGivesSize, MayFill, Other
<1> QED
  BY <1>1, <1>2, <1>3, <1>4, <1>5 DEF Caller

LEMMA TakesNewPictures ==
  ASSUME SourceTypes, TakesTheOther, NewPictures, Takes
  PROVE  NewPictures'
<1> USE DEF SourceTypes, TakesTheOther, NewPictures, SrcNow, TakeMove, callerVars, Buffers,
            Forgets, FIRSTLY, Other
<1>1. CASE TakeSwitches
  BY <1>1 DEF TakeSwitches
<1>2. CASE TakeFlags
  BY <1>2 DEF TakeFlags
<1>3. CASE TakeEmpties
  BY <1>3 DEF TakeEmpties
<1>4. CASE TakeConverts
  BY <1>4 DEF TakeConverts
<1>5. CASE TakeDrops
  BY <1>5 DEF TakeDrops
<1>6. CASE TakeEnds
  BY <1>6 DEF TakeEnds
<1>7. ASSUME NEW b \in Buffers, TakeTests(b) PROVE NewPictures'
  BY <1>7 DEF TakeTests, bLock
<1>8. ASSUME NEW b \in Buffers, TakeEncodes(b) PROVE NewPictures'
  BY <1>8 DEF TakeEncodes
<1> QED
  BY <1>1, <1>2, <1>3, <1>4, <1>5, <1>6, <1>7, <1>8 DEF Takes

\* Whatever the caller brought.
LEMMA AnyStep ==
  ASSUME JpegTypeOK, SourceTypes, [Next]_vars
  PROVE  CaptureStep({Torn} \cup Frames) \/ Send \/ UNCHANGED handVars
  BY StepAtTheBuffers DEF CaptureStep

\* Buffers that were freed stay so.
LEMMA FailedForGood ==
  ASSUME JpegTypeOK, SourceTypes, [Next]_vars, failed
  PROVE  failed'
<1>1. ASSUME NEW b \in Buffers, EncodesInto(b) \/ EncodeFlags(b) PROVE failed'
  BY <1>1 DEF EncodesInto, EncodeFlags
<1>2. ASSUME NEW p \in {Torn} \cup Frames, Encoded(p) PROVE failed'
  BY <1>2 DEF Encoded
<1>3. CASE EncodeDiscards \/ EncodePoints \/ CaptureEnds \/ CaptureFails \/ SessionEnds
  BY <1>3 DEF EncodeDiscards, EncodePoints, CaptureEnds, CaptureFails, SessionEnds, encVars
<1>4. CASE Send
  BY <1>4 DEF Send, SendTests, GetNothing, GetLooks, GetPicks, GetPoints, GetSize, GetEmpties,
              SendCopies, SendPackets, SendTurns, encVars
<1>5. CASE UNCHANGED handVars
  BY <1>5 DEF handVars, encVars
<1> QED
  BY <1>1, <1>2, <1>3, <1>4, <1>5, AnyStep DEF CaptureStep

LEMMA NewPicturesStep ==
  ASSUME ~raced', JpegTypeOK, SourceTypes, TakesTheOther, ~failed => NewPictures, [Next]_vars
  PROVE  ~failed' => NewPictures'
<1> SUFFICES ASSUME ~failed' PROVE NewPictures'
  OBVIOUS
<1>0. NewPictures
  BY FailedForGood
<1>1. CASE UNCHANGED sourceVars
  BY <1>0, <1>1 DEF NewPictures, SrcNow, sourceVars, callerVars, takeVars
<1>2. CASE Takes
  BY <1>0, <1>2, TakesNewPictures
<1>3. CASE Caller
  BY <1>0, <1>3, CallerNewPictures
<1>4. CASE Fails
  BY <1>4 DEF Fails, CaptureFails
<1> QED
  BY <1>1, <1>2, <1>3, <1>4 DEF Next, Ends, Capture, Discards, Sending, Quiet, vars

\* While capturing did not fail it is the next frame that is encoded, whoever brought it.
LEMMA NextFrameEncoded ==
  ASSUME JpegTypeOK, SourceTypes, NewPictures, [Next]_vars
  PROVE  CaptureStep({frame}) \/ Send \/ UNCHANGED handVars
<1>1. CASE Ends
  BY <1>1 DEF Ends, CaptureStep
<1>2. CASE Capture
  BY <1>2 DEF Capture, Captures, Stores, CaptureStep, EncodeBegins, EncodeEnds
<1>3. CASE Takes
  <2>1. ASSUME NEW b \in Buffers, TakeEncodes(b) PROVE CaptureStep({frame})
    BY <2>1 DEF TakeEncodes, CaptureStep
  <2>2. CASE TakeEnds
    <3>1. picture = "new"
      BY <2>2 DEF TakeEnds, TakeMove, NewPictures
    <3>2. Encoded(frame)
      BY <2>2, <3>1 DEF TakeEnds
    <3> QED
      BY <3>2 DEF CaptureStep
  <2>3. ASSUME NEW b \in Buffers, TakeTests(b) PROVE UNCHANGED handVars
    BY <2>3 DEF TakeTests, jpegVars
  <2>4. CASE TakeSwitches \/ TakeFlags \/ TakeEmpties \/ TakeConverts \/ TakeDrops
    BY <2>4 DEF TakeSwitches, TakeFlags, TakeEmpties, TakeConverts, TakeDrops, jpegVars
  <2> QED
    BY <1>3, <2>1, <2>2, <2>3, <2>4 DEF Takes
<1>4. CASE Caller
  BY <1>4 DEF Caller
<1>5. CASE Discards
  BY <1>5 DEF Discards, CaptureStep
<1>6. CASE Fails
  BY <1>6 DEF Fails, CaptureStep
<1>7. CASE Sending
  BY <1>7 DEF Sending
<1>8. CASE UNCHANGED vars \/ Quiet
  BY <1>8 DEF vars, jpegVars, Quiet
<1> QED
  BY <1>1, <1>2, <1>3, <1>4, <1>5, <1>6, <1>7, <1>8 DEF Next

-----------------------------------------------------------------------------
(* The ages of the frames on their way. *)

\* How many frames ago f was encoded; the one encoded last has age 1.
Age(f) == AgeAt(frame, f)

\* The frame that is on its way out, or was sent last.
Latest == IF snd \in {"copy", "send"} THEN sendSrcBuff ELSE last

\* The buffer encoded last, as the flags say or will say when they are stored.
Newest == IF enc \in {"first", "second"} THEN encBuf ELSE IF flag[1] THEN 1 ELSE 2

\* What a buffer being written holds is nobody's, and the newest buffer has the last frame.
NewestIsNew ==
  (flag[1] \/ flag[2] \/ enc \in {"first", "second"}) /\ buf[Newest] \in Frames =>
    Age(buf[Newest]) = 1
WritesTorn == enc = "write" => buf[encBuf] = Torn

\* The frame sent last is an odd number of frames old as long as the newest is in its buffer,
\* and an even number otherwise: the encoder alternates unless the index held it back.
LatestAge == Latest \in Frames =>
  /\ Age(Latest) \in IF Newest = Mine THEN {1, 3} ELSE {2, 4}
  /\ snd \in {"copy", "send", "turn"} => Age(Latest) \in {1, 2} /\ ~Writes(Mine)
  /\ idx = NextUp /\ snd \in {"test", "flags", "pick", "point"} =>
        Age(Latest) \in {1, 2, 3} /\ (Writes(NextUp) => Age(Latest) = 1)
  /\ Writes(Mine) =>
        Age(Latest) = 2 \/ (snd \in {"size", "null"} /\ sndBuf = NextUp /\ within = 2)

\* A frame the encoder passed by, because the sender had picked its buffer or is still to, was
\* encoded one before the newest, and the frame sent last one before that.
Passed ==
  Newest = Mine /\ (Holds \/ Ready(NextUp)) =>
   /\ Age(buf[NextUp]) = 2
   /\ Latest \in Frames => Age(Latest) = 3

\* What is copied is one or three frames newer than what was sent last.
InOrder ==
  snd \in {"copy", "send"} /\ sendSrcBuff \in Frames /\ last \in Frames =>
    Age(last) - Age(sendSrcBuff) \in {1, 3}

\* At first the newest is in buffer 1.
FirstNew == snd \in {"point", "size", "null"} => Newest = 1

\* Two buffers: what the sender goes on to copy is newer than what it sent last.
Ordered ==
  Live /\ method # "lenovo" =>
    /\ NewestIsNew /\ WritesTorn
    /\ IF currUpdate = 0 THEN FirstNew ELSE LatestAge /\ Passed /\ InOrder

\* Lenovo's one buffer: what the index gives the sender was not sent yet.
Full == idx = 1 \/ enc = "index"
OrderedLenovo ==
  Live /\ method = "lenovo" =>
    /\ Full /\ buf[1] \in Frames => Age(buf[1]) = 1
    /\ Latest \in Frames => Age(Latest) = IF Full /\ snd # "copy" THEN 2 ELSE 1
    /\ InOrder

\* Once capturing failed nothing is encoded any more, and only what was copied before is sent.
OrderedFailed == failed => enc = "done" /\ (\A b \in Buffers : buf[b] = Torn) /\ InOrder

\* A frame is begun in the buffer that is neither ready nor with the sender.
LEMMA EncodesOrdered ==
  ASSUME Typed, Handoff, Ordered, NEW b \in Buffers, EncodesInto(b)
  PROVE  Ordered'
<1> SUFFICES ASSUME Live', method # "lenovo" PROVE Ordered'
  BY DEF Ordered, EncodesInto, MayWrite, Getting, EncMove, SndMove, encVars, sndVars
<1>0. 0 \notin Frames
  BY DEF Frames
<1> USE <1>0 DEF EncodesInto, MayWrite, Getting, EncMove, SndMove, encVars,
                 sndVars, Live, Typed, TypeOK, JpegTypeOK, Buffers, FIRSTLY, Torn, None
<1>1. NewestIsNew /\ WritesTorn
  BY DEF Ordered
<1>2. CASE currUpdate = 0
  <2>1. First /\ FirstNew /\ currUpdate' = 0
    BY <1>2 DEF Handoff, Ordered
  <2>2. NewestIsNew' /\ WritesTorn' /\ FirstNew'
    BY <1>1, <2>1 DEF NewestIsNew, WritesTorn, FirstNew, Age, Newest, First
  <2> QED
    BY <2>1, <2>2 DEF Ordered
<1>3. CASE currUpdate # 0
  <2> USE <1>3 DEF Age, Latest, Newest, Handoff, Swap, OneFlag, IndexFollows, Mine, NextUp,
                   Other, Holds, Writes, Stored, Ready, Clean
  <2>1. LatestAge /\ Passed /\ InOrder
    BY DEF Ordered
  <2>2. NewestIsNew' /\ WritesTorn'
    BY <1>1 DEF NewestIsNew, WritesTorn
  <2>3. LatestAge'
    BY <1>1, <2>1 DEF LatestAge, Passed, NextNotReady, Handed, BegunInTime, DoneInTime,
                      NextWhole
  <2>4. Passed'
    BY <1>1, <2>1 DEF Passed, LatestAge, NewestIsNew, NextNotReady, Handed, BegunInTime,
                      DoneInTime, NextWhole
  <2>5. InOrder'
    BY <2>1 DEF InOrder, CopyWhole
  <2> QED
    BY <2>2, <2>3, <2>4, <2>5 DEF Ordered
<1> QED
  BY <1>2, <1>3

\* The flags are stored, one after the other.
LEMMA FlagsOrdered ==
  ASSUME Typed, Handoff, Ordered, NEW b \in Buffers, EncodeFlags(b)
  PROVE  Ordered'
<1> SUFFICES ASSUME Live', method # "lenovo" PROVE Ordered'
  BY DEF Ordered, EncodeFlags, EncMove, SndMove, encVars, sndVars
<1>0. 0 \notin Frames
  BY DEF Frames
<1> USE <1>0 DEF EncodeFlags, EncMove, SndMove, encVars,
                 sndVars, Live, Typed, TypeOK, JpegTypeOK, Buffers, FIRSTLY, Torn, None
<1>1. NewestIsNew /\ WritesTorn
  BY DEF Ordered
<1>2. CASE currUpdate = 0
  <2>1. First /\ FirstNew /\ currUpdate' = 0
    BY <1>2 DEF Handoff, Ordered
  <2>2. NewestIsNew' /\ WritesTorn' /\ FirstNew'
    BY <1>1, <2>1 DEF NewestIsNew, WritesTorn, FirstNew, Age, Newest, First
  <2> QED
    BY <2>1, <2>2 DEF Ordered
<1>3. CASE currUpdate # 0
  <2> USE <1>3 DEF Age, Latest, Newest, Handoff, Swap, OneFlag, IndexFollows, Mine, NextUp,
                   Other, Holds, Writes, Stored, Ready, Clean
  <2>1. LatestAge /\ Passed /\ InOrder
    BY DEF Ordered
  <2>2. NewestIsNew' /\ WritesTorn'
    BY <1>1 DEF NewestIsNew, WritesTorn
  <2>3. LatestAge'
    BY <1>1, <2>1 DEF LatestAge, Passed, NextNotReady, Handed, BegunInTime, DoneInTime,
                      NextWhole
  <2>4. Passed'
    BY <1>1, <2>1 DEF Passed, LatestAge, NewestIsNew, NextNotReady, Handed, BegunInTime,
                      DoneInTime, NextWhole
  <2>5. InOrder'
    BY <2>1 DEF InOrder, CopyWhole
  <2> QED
    BY <2>2, <2>3, <2>4, <2>5 DEF Ordered
<1> QED
  BY <1>2, <1>3

LEMMA OtherCaptureOrdered ==
  ASSUME ~raced', Typed, Handoff, Ordered,
         EncodeDiscards \/ EncodePoints \/ CaptureEnds \/ SessionEnds
  PROVE  Ordered'
<1> SUFFICES ASSUME Live', method # "lenovo" PROVE Ordered'
  BY DEF Ordered, EncodeDiscards, EncodePoints, CaptureEnds, SessionEnds,
         IndexIsLenovos, EncMove, SndMove, encVars, sndVars
<1>0. 0 \notin Frames
  BY DEF Frames
<1>00. EncodeDiscards => within = 0
  BY DoneLate DEF EncodeDiscards, Typed, TypeOK
<1> USE <1>0, <1>00 DEF EncodeDiscards, EncodePoints, CaptureEnds, SessionEnds,
                 IndexIsLenovos, EncMove, SndMove, encVars,
                 sndVars, Live, Typed, TypeOK, JpegTypeOK, Buffers, FIRSTLY, Torn, None
<1>1. NewestIsNew /\ WritesTorn
  BY DEF Ordered
<1>2. CASE currUpdate = 0
  <2>1. First /\ FirstNew /\ currUpdate' = 0
    BY <1>2 DEF Handoff, Ordered
  <2>2. NewestIsNew' /\ WritesTorn' /\ FirstNew'
    BY <1>1, <2>1 DEF NewestIsNew, WritesTorn, FirstNew, Age, Newest, First
  <2> QED
    BY <2>1, <2>2 DEF Ordered
<1>3. CASE currUpdate # 0
  <2> USE <1>3 DEF Age, Latest, Newest, Handoff, Swap, OneFlag, IndexFollows, Mine, NextUp,
                   Other, Holds, Writes, Stored, Ready, Clean
  <2>1. LatestAge /\ Passed /\ InOrder
    BY DEF Ordered
  <2>2. NewestIsNew' /\ WritesTorn'
    BY <1>1 DEF NewestIsNew, WritesTorn
  <2>3. LatestAge'
    BY <1>1, <2>1 DEF LatestAge, Passed, NextNotReady, Handed, BegunInTime, DoneInTime,
                      NextWhole
  <2>4. Passed'
    BY <1>1, <2>1 DEF Passed, LatestAge, NewestIsNew, NextNotReady, Handed, BegunInTime,
                      DoneInTime, NextWhole
  <2>5. InOrder'
    BY <2>1 DEF InOrder, CopyWhole
  <2> QED
    BY <2>2, <2>3, <2>4, <2>5 DEF Ordered
<1> QED
  BY <1>2, <1>3

\* The sender looks for a buffer that is ready.
LEMMA LooksOrdered ==
  ASSUME Typed, Handoff, Ordered, SendTests \/ GetNothing \/ GetLooks \/ GetPicks
  PROVE  Ordered'
<1> SUFFICES ASSUME Live', method # "lenovo" PROVE Ordered'
  BY DEF Ordered, SendTests, GetNothing, GetLooks, GetPicks, EncMove, SndMove, encVars, sndVars
<1>0. 0 \notin Frames
  BY DEF Frames
<1> USE <1>0 DEF SendTests, GetNothing, GetLooks, GetPicks, EncMove, SndMove, encVars,
                 sndVars, Live, Typed, TypeOK, JpegTypeOK, Buffers, FIRSTLY, Torn, None
<1>1. NewestIsNew /\ WritesTorn
  BY DEF Ordered
<1>2. CASE currUpdate = 0
  <2>1. First /\ FirstNew /\ currUpdate' = 0
    BY <1>2 DEF Handoff, Ordered
  <2>2. NewestIsNew' /\ WritesTorn' /\ FirstNew'
    BY <1>1, <2>1 DEF NewestIsNew, WritesTorn, FirstNew, Age, Newest, First
  <2> QED
    BY <2>1, <2>2 DEF Ordered
<1>3. CASE currUpdate # 0
  <2> USE <1>3 DEF Age, Latest, Newest, Handoff, Swap, OneFlag, IndexFollows, Mine, NextUp,
                   Other, Holds, Writes, Stored, Ready, Clean
  <2>1. LatestAge /\ Passed /\ InOrder
    BY DEF Ordered
  <2>2. NewestIsNew' /\ WritesTorn'
    BY <1>1 DEF NewestIsNew, WritesTorn
  <2>3. LatestAge'
    BY <1>1, <2>1 DEF LatestAge, Passed, NextNotReady, Handed, BegunInTime, DoneInTime,
                      NextWhole
  <2>4. Passed'
    BY <1>1, <2>1 DEF Passed, LatestAge, NewestIsNew, NextNotReady, Handed, BegunInTime,
                      DoneInTime, NextWhole
  <2>5. InOrder'
    BY <2>1 DEF InOrder, CopyWhole
  <2> QED
    BY <2>2, <2>3, <2>4, <2>5 DEF Ordered
<1> QED
  BY <1>2, <1>3

LEMMA PointsOrdered ==
  ASSUME Typed, Handoff, Ordered, GetPoints \/ GetSize
  PROVE  Ordered'
<1> SUFFICES ASSUME Live', method # "lenovo" PROVE Ordered'
  BY DEF Ordered, GetPoints, GetSize, EncMove, SndMove, encVars, sndVars
<1>0. 0 \notin Frames
  BY DEF Frames
<1> USE <1>0 DEF GetPoints, GetSize, EncMove, SndMove, encVars,
                 sndVars, Live, Typed, TypeOK, JpegTypeOK, Buffers, FIRSTLY, Torn, None
<1>1. NewestIsNew /\ WritesTorn
  BY DEF Ordered
<1>2. CASE currUpdate = 0
  <2>1. First /\ FirstNew /\ currUpdate' = 0
    BY <1>2 DEF Handoff, Ordered
  <2>2. NewestIsNew' /\ WritesTorn' /\ FirstNew'
    BY <1>1, <2>1 DEF NewestIsNew, WritesTorn, FirstNew, Age, Newest, First
  <2> QED
    BY <2>1, <2>2 DEF Ordered
<1>3. CASE currUpdate # 0
  <2> USE <1>3 DEF Age, Latest, Newest, Handoff, Swap, OneFlag, IndexFollows, Mine, NextUp,
                   Other, Holds, Writes, Stored, Ready, Clean
  <2>1. LatestAge /\ Passed /\ InOrder
    BY DEF Ordered
  <2>2. NewestIsNew' /\ WritesTorn'
    BY <1>1 DEF NewestIsNew, WritesTorn
  <2>3. LatestAge'
    BY <1>1, <2>1 DEF LatestAge, Passed, NextNotReady, Handed, BegunInTime, DoneInTime,
                      NextWhole
  <2>4. Passed'
    BY <1>1, <2>1 DEF Passed, LatestAge, NewestIsNew, NextNotReady, Handed, BegunInTime,
                      DoneInTime, NextWhole
  <2>5. InOrder'
    BY <2>1 DEF InOrder, CopyWhole
  <2> QED
    BY <2>2, <2>3, <2>4, <2>5 DEF Ordered
<1> QED
  BY <1>2, <1>3

LEMMA SendsOrdered ==
  ASSUME Typed, Handoff, Ordered, SendCopies \/ SendPackets \/ SendTurns
  PROVE  Ordered'
<1> SUFFICES ASSUME Live', method # "lenovo" PROVE Ordered'
  BY DEF Ordered, SendCopies, SendPackets, SendTurns, EncMove, SndMove, encVars, sndVars
<1>0. 0 \notin Frames
  BY DEF Frames
<1> USE <1>0 DEF SendCopies, SendPackets, SendTurns, EncMove, SndMove, encVars,
                 sndVars, Live, Typed, TypeOK, JpegTypeOK, Buffers, FIRSTLY, Torn, None
<1>1. NewestIsNew /\ WritesTorn
  BY DEF Ordered
<1>2. CASE currUpdate = 0
  <2>1. First /\ FirstNew /\ currUpdate' = 0
    BY <1>2 DEF Handoff, Ordered
  <2>2. NewestIsNew' /\ WritesTorn' /\ FirstNew'
    BY <1>1, <2>1 DEF NewestIsNew, WritesTorn, FirstNew, Age, Newest, First
  <2> QED
    BY <2>1, <2>2 DEF Ordered
<1>3. CASE currUpdate # 0
  <2> USE <1>3 DEF Age, Latest, Newest, Handoff, Swap, OneFlag, IndexFollows, Mine, NextUp,
                   Other, Holds, Writes, Stored, Ready, Clean
  <2>1. LatestAge /\ Passed /\ InOrder
    BY DEF Ordered
  <2>2. NewestIsNew' /\ WritesTorn'
    BY <1>1 DEF NewestIsNew, WritesTorn
  <2>3. LatestAge'
    BY <1>1, <2>1 DEF LatestAge, Passed, NextNotReady, Handed, BegunInTime, DoneInTime,
                      NextWhole
  <2>4. Passed'
    BY <1>1, <2>1 DEF Passed, LatestAge, NewestIsNew, NextNotReady, Handed, BegunInTime,
                      DoneInTime, NextWhole
  <2>5. InOrder'
    BY <2>1 DEF InOrder, CopyWhole
  <2> QED
    BY <2>2, <2>3, <2>4, <2>5 DEF Ordered
<1> QED
  BY <1>2, <1>3

\* The sender takes the picked buffer: what was newest or next to it is on its way now.
LEMMA EmptiesOrdered ==
  ASSUME Typed, Handoff, GetEmpties, Ordered
  PROVE  Ordered'
<1> SUFFICES ASSUME Live', method # "lenovo" PROVE Ordered'
  BY DEF Ordered, GetEmpties, SndMove, encVars
<1>0. 0 \notin Frames /\ -1 \notin Frames
  BY DEF Frames
<1> USE <1>0 DEF GetEmpties, SndMove, encVars, Live, Typed, TypeOK, JpegTypeOK, Buffers,
                 Torn, None, Fresh
<1>1. NewestIsNew /\ WritesTorn
  BY DEF Ordered
<1>2. NewestIsNew' /\ WritesTorn'
  BY <1>1 DEF NewestIsNew, WritesTorn, Newest, Age
<1>3. currUpdate' # 0
  OBVIOUS
<1>4. CASE currUpdate = 0
  <2> USE <1>4
  <2>1. First /\ Newest = 1 /\ currUpdate' = 1
    BY DEF Handoff, First, Ordered, FirstNew
  <2>2. Newest' = 1 /\ Mine' = 1 /\ NextUp' = 2
    BY <2>1 DEF Newest, Mine, NextUp, Other
  <2>3. Latest' \in Frames => Latest' = buf[1] /\ Age(Latest)' = 1 /\ ~Writes(1)
    BY <1>1, <2>1 DEF First, Latest, NewestIsNew, WritesTorn, Newest, Age, Writes
  <2>4. LatestAge'
    BY <2>1, <2>2, <2>3 DEF LatestAge, Writes, First
  <2>5. Passed'
    BY <2>1, <2>2 DEF Passed, First, Holds, Ready
  <2>6. InOrder'
    BY <2>1 DEF InOrder, First
  <2> QED
    BY <1>2, <1>3, <2>4, <2>5, <2>6 DEF Ordered
<1>5. CASE currUpdate # 0 /\ sndBuf = Mine
  <2>0. LatestAge /\ Passed /\ InOrder /\ Swap /\ ~Fresh /\ currUpdate' = currUpdate
    BY <1>5 DEF Ordered, Handoff, Mine
  <2>1. LatestAge'
    BY <1>5, <2>0 DEF LatestAge, Latest, Newest, Age, Mine, NextUp, Other, Writes, Swap,
                      IndexFollows
  <2>2. Passed' /\ InOrder'
    BY <1>5, <2>0 DEF Passed, InOrder, Latest, Newest, Age, Mine, NextUp, Other, Ready, Holds
  <2> QED
    BY <1>2, <1>3, <2>1, <2>2 DEF Ordered
<1>6. CASE currUpdate # 0 /\ sndBuf # Mine
  <2>0. LatestAge /\ Passed /\ Swap
    BY <1>6 DEF Ordered, Handoff
  <2>1. Holds /\ NextUp' = Mine /\ Mine' = NextUp /\ sndBuf = NextUp /\ Fresh
    BY <1>6, <2>0 DEF Holds, Swap, Handed, Clean, Mine, NextUp, Other
  <2>2. /\ Latest' = buf[NextUp] /\ buf[NextUp] \in Frames /\ Newest' = Newest
        /\ Newest = NextUp \/ Newest = Mine
    BY <1>6, <2>0, <2>1 DEF Latest, Newest, Swap, Handed, Clean, Mine, NextUp, Other
  <2>3. Latest = last
    BY DEF Latest
  <2>4. flag[1] \/ flag[2] \/ enc \in {"first", "second"}
    BY <2>0 DEF Swap, OneFlag
  <2>5. CASE Newest = NextUp
    <3>1. Age(buf[NextUp]) = 1 /\ (last \in Frames => Age(last) \in {2, 4})
      BY <1>1, <1>6, <2>0, <2>2, <2>3, <2>4, <2>5 DEF NewestIsNew, LatestAge, Mine, NextUp,
                                                      Other
    <3>2. Age(Latest)' = 1
      BY <2>2, <3>1 DEF Age
    <3>3. LatestAge' /\ Passed'
      BY <1>6, <2>0, <2>1, <2>2, <2>5, <3>2 DEF LatestAge, Passed, Holds, Swap, OneFlag,
                                                Handed, IndexFollows, Writes, Ready, Newest,
                                                Mine, NextUp, Other
    <3>4. InOrder'
      BY <2>1, <2>2, <3>1 DEF InOrder, Age, Latest
    <3> QED
      BY <1>2, <1>3, <3>3, <3>4 DEF Ordered
  <2>6. CASE Newest = Mine
    <3>1. Age(buf[NextUp]) = 2 /\ (last \in Frames => Age(last) = 3)
      BY <2>0, <2>1, <2>3, <2>6 DEF Passed
    <3>2. Age(Latest)' = 2
      BY <2>2, <3>1 DEF Age
    <3>3. LatestAge' /\ Passed'
      BY <1>6, <2>0, <2>1, <2>2, <2>6, <3>2 DEF LatestAge, Passed, Holds, Swap, Handed,
                                                IndexFollows, Writes, Ready, Mine, NextUp,
                                                Other
    <3>4. InOrder'
      BY <2>1, <2>2, <3>1 DEF InOrder, Age, Latest
    <3> QED
      BY <1>2, <1>3, <3>3, <3>4 DEF Ordered
  <2> QED
    BY <2>2, <2>5, <2>6
<1> QED
  BY <1>4, <1>5, <1>6

\* All ages grow by one when a frame was encoded.
LEMMA EncodedOrdered ==
  ASSUME ~raced', Numbers >= 6, Typed, Handoff, Handoff', Encoded(frame), Ordered
  PROVE  Ordered'
<1> SUFFICES ASSUME Live', method # "lenovo" PROVE Ordered'
  BY DEF Ordered, Encoded, sndVars
<1>0. 0 \notin Frames /\ -1 \notin Frames
  BY DEF Frames
<1> USE <1>0 DEF Encoded, EncMove, sndVars, Live, Typed, TypeOK, JpegTypeOK, Buffers, Torn, None
<1>1. NewestIsNew /\ WritesTorn /\ within = 0
  BY DoneLate DEF Ordered
<1>2. ASSUME NEW f \in Frames, NEW k \in {1, 2, 3, 4}, AgeAt(frame, f) = k
      PROVE  AgeAt(frame', f) = k + 1
  BY <1>2, Ages, NumbersAssumption
<1>3. Newest' = encBuf /\ buf'[encBuf] = frame /\ AgeAt(frame', frame) = 1
  BY Ages, NumbersAssumption DEF Newest
<1>4. NewestIsNew' /\ WritesTorn'
  BY <1>3 DEF NewestIsNew, WritesTorn, Age
<1>5. ASSUME currUpdate' = 0 PROVE FirstNew'
  BY <1>1, <1>5 DEF Handoff, First, FirstNew, Newest
<1>6. ASSUME currUpdate' # 0 PROVE LatestAge' /\ Passed' /\ InOrder'
  <2>0. LatestAge /\ Passed /\ InOrder /\ Swap
    BY <1>6 DEF Ordered, Handoff
  <2>1. Latest' = Latest /\ Mine' = Mine /\ NextUp' = NextUp
    BY DEF Latest, Mine, NextUp
  <2>2. CASE encBuf = Mine
    <3>1. Latest \in Frames => Age(Latest) = 2
      BY <1>1, <2>0, <2>2 DEF LatestAge, Writes
    <3>2. Latest' \in Frames => Age(Latest)' = 3
      BY <1>2, <2>1, <3>1 DEF Age
    <3>3. Latest \in Frames => snd \notin {"copy", "send", "turn"}
      BY <2>0, <2>2 DEF LatestAge, Writes
    <3>4. LatestAge'
      BY <1>3, <1>6, <2>1, <2>2, <3>2, <3>3 DEF LatestAge, Writes, Mine
    <3>5. ASSUME (Holds \/ Ready(NextUp))' PROVE Age(buf[NextUp])' = 2
      <4>1. Holds \/ Ready(NextUp)
        BY <3>5 DEF Holds, Ready, NextUp
      <4>2. Newest = NextUp /\ flag[NextUp] /\ buf[NextUp] \in Frames /\ NextUp \in Buffers
        BY <1>6, <2>0, <2>2, <4>1 DEF Newest, Swap, OneFlag, Handed, NextWhole, Clean, Ready,
                                      Mine, NextUp, Other
      <4>3. Age(buf[NextUp]) = 1
        BY <1>1, <4>2 DEF NewestIsNew, Buffers
      <4>4. (buf[NextUp])' = buf[NextUp]
        BY <1>6, <2>1, <2>2 DEF Mine, NextUp, Other
      <4> QED
        BY <1>2, <4>2, <4>3, <4>4 DEF Age
    <3>6. Passed'
      BY <3>2, <3>5 DEF Passed
    <3>7. InOrder'
      BY <3>3 DEF InOrder, Latest
    <3> QED
      BY <3>4, <3>6, <3>7
  <2>3. CASE encBuf = NextUp
    <3>1. Newest = Mine
      BY <1>6, <2>0, <2>3 DEF Swap, OneFlag, NextNotReady, Newest, Mine, NextUp, Other
    <3>2. Latest \in Frames =>
            /\ Age(Latest) \in {1, 3}
            /\ snd \in {"copy", "send", "turn"} => Age(Latest) = 1
            /\ idx = NextUp /\ snd \in {"test", "flags", "pick", "point"} => Age(Latest) = 1
      BY <2>0, <2>3, <3>1 DEF LatestAge, Writes
    <3>3. Latest \in Frames => Age(Latest)' = Age(Latest) + 1
      BY <1>2, <2>1, <3>2 DEF Age
    <3>4. LatestAge'
      BY <1>3, <1>6, <2>1, <2>3, <3>2, <3>3 DEF LatestAge, Writes, Mine, NextUp, Other
    <3>5. Passed'
      BY <1>3, <1>6, <2>1, <2>3 DEF Passed, Mine, NextUp, Other
    <3>6. ASSUME snd \in {"copy", "send"}, sendSrcBuff \in Frames, last \in Frames
          PROVE  Age(last)' - Age(sendSrcBuff)' \in {1, 3}
      <4>1. Age(sendSrcBuff) = 1 /\ Age(sendSrcBuff)' = 2
        BY <3>2, <3>3, <3>6 DEF Latest, Age
      <4>2. Age(last) \in {2, 4}
        BY <2>0, <3>6, <4>1, Ages DEF InOrder, Age
      <4>3. Age(last)' = Age(last) + 1
        BY <1>2, <3>6, <4>2 DEF Age
      <4> QED
        BY <4>1, <4>2, <4>3
    <3>7. InOrder'
      BY <3>6 DEF InOrder
    <3> QED
      BY <3>4, <3>5, <3>7
  <2> QED
    BY <1>6, <2>2, <2>3 DEF Mine, NextUp, Other
<1> QED
  BY <1>4, <1>5, <1>6 DEF Ordered

LEMMA InitOrdered == Init => Ordered /\ OrderedLenovo /\ OrderedFailed
<1> SUFFICES ASSUME Init PROVE Ordered /\ OrderedLenovo /\ OrderedFailed
  OBVIOUS
<1>1. Torn \notin Frames /\ None \notin Frames
  BY DEF Frames, Torn, None
<1> QED
  BY <1>1 DEF Init, JpegInit, Ordered, OrderedLenovo, OrderedFailed, NewestIsNew, WritesTorn,
              FirstNew, Latest, Full, InOrder, Buffers, FIRSTLY

\* With Lenovo's one buffer each side waits for the index.
LEMMA CaptureOrderedLenovo ==
  ASSUME Numbers >= 6, Typed, Handoff, OrderedLenovo, CaptureStep({frame})
  PROVE  OrderedLenovo'
<1> SUFFICES ASSUME Live', method' = "lenovo" PROVE OrderedLenovo'
  BY DEF OrderedLenovo
<1>0. 0 \notin Frames /\ -1 \notin Frames
  BY DEF Frames
<1> USE <1>0 DEF EncMove, encVars, sndVars, Live, Typed, TypeOK, JpegTypeOK, Buffers, FIRSTLY,
                 Torn, None, Other
<1> USE DEF OrderedLenovo, Age, Latest, Full, Handoff, Lenovo, InOrder
<1>1. ASSUME NEW b \in Buffers, EncodesInto(b) PROVE OrderedLenovo'
  BY <1>1 DEF EncodesInto, MayWrite
<1>2. CASE Encoded(frame)
  <2>0. Live /\ method = "lenovo" /\ ~Full /\ Full' /\ enc' = "index" /\ buf'[1] = frame
    BY <1>2 DEF Encoded
  <2>1. AgeAt(frame', frame) = 1
    BY <1>2, Ages, NumbersAssumption DEF Encoded
  <2>2. ASSUME NEW f \in Frames, NEW k \in {1, 2, 3, 4}, AgeAt(frame, f) = k
        PROVE  AgeAt(frame', f) = k + 1
    BY <1>2, <2>2, Ages, NumbersAssumption DEF Encoded
  <2>3. Latest' = Latest /\ snd' = snd /\ snd # "copy" /\ last' = last /\ sendSrcBuff' = sendSrcBuff
    BY <1>2, <2>0 DEF Encoded
  <2>4. Latest \in Frames => AgeAt(frame, Latest) = 1
    BY <2>0
  <2>5. Latest \in Frames => AgeAt(frame', Latest) = 2
    BY <2>2, <2>4
  <2>6. ASSUME snd = "send", sendSrcBuff \in Frames, last \in Frames
        PROVE  Age(last)' - Age(sendSrcBuff)' \in {1, 3}
    <3>1. AgeAt(frame, sendSrcBuff) = 1 /\ AgeAt(frame', sendSrcBuff) = 2
      BY <2>4, <2>5, <2>6
    <3>2. AgeAt(frame, last) \in {2, 4}
      BY <2>0, <2>6, <3>1, Ages
    <3>3. AgeAt(frame', last) = AgeAt(frame, last) + 1
      BY <2>2, <2>6, <3>2
    <3> QED
      BY <2>3, <3>1, <3>2, <3>3
  <2>7. InOrder'
    BY <2>3, <2>6
  <2>8. (Latest \in Frames => Age(Latest) = IF Full /\ snd # "copy" THEN 2 ELSE 1)'
    BY <2>0, <2>3, <2>5
  <2> QED
    BY <2>0, <2>1, <2>7, <2>8
<1>3. CASE EncodePoints
  BY <1>3 DEF EncodePoints
<1>4. CASE CaptureEnds \/ SessionEnds \/ EncodeDiscards \/ CaptureFails
  BY <1>4 DEF CaptureEnds, SessionEnds, EncodeDiscards, CaptureFails
<1>5. ASSUME NEW b \in Buffers, EncodeFlags(b) PROVE OrderedLenovo'
  BY <1>5 DEF EncodeFlags
<1> QED
  BY <1>1, <1>2, <1>3, <1>4, <1>5 DEF CaptureStep

LEMMA SendOrderedLenovo ==
  ASSUME Typed, Handoff, OrderedLenovo, Send
  PROVE  OrderedLenovo'
<1> SUFFICES ASSUME Live', method' = "lenovo" PROVE OrderedLenovo'
  BY DEF OrderedLenovo
<1>0. 0 \notin Frames /\ -1 \notin Frames
  BY DEF Frames
<1> USE <1>0 DEF SndMove, encVars, Live, Typed, TypeOK, JpegTypeOK, Buffers, FIRSTLY,
                 Torn, None, Other
<1> USE DEF OrderedLenovo, Age, Latest, Full, Handoff, Lenovo, InOrder
<1>1. CASE SendTests \/ GetNothing \/ GetSize
  BY <1>1 DEF SendTests, GetNothing, GetSize
<1>2. CASE GetEmpties
  <2>0. Live /\ method = "lenovo" /\ Full
    BY <1>2 DEF GetEmpties
  <2>1. CASE ~Fresh
    BY <1>2, <2>0, <2>1 DEF GetEmpties
  <2>2. CASE Fresh
    <3>1. sendSrcBuff' = buf[1] /\ buf[1] \in Frames /\ snd' = "copy" /\ Latest = last
      BY <1>2, <2>0, <2>2 DEF GetEmpties
    <3>2. AgeAt(frame, buf[1]) = 1 /\ (last \in Frames => AgeAt(frame, last) = 2)
      BY <1>2, <2>0, <3>1 DEF GetEmpties
    <3> QED
      BY <1>2, <2>0, <3>1, <3>2 DEF GetEmpties
  <2> QED
    BY <2>1, <2>2
<1>3. CASE SendCopies
  BY <1>3 DEF SendCopies
<1>4. CASE SendPackets \/ SendTurns
  BY <1>4 DEF SendPackets, SendTurns
<1>5. CASE GetLooks \/ GetPicks \/ GetPoints
  BY <1>5 DEF GetLooks, GetPicks, GetPoints
<1> QED
  BY <1>1, <1>2, <1>3, <1>4, <1>5 DEF Send

\* Nothing new is on its way once the buffers were freed.
LEMMA FailsOrdered ==
  ASSUME Typed, Handoff, Ordered, OrderedLenovo, ~failed, CaptureFails
  PROVE  OrderedFailed'
<1>0. -1 \notin Frames
  BY DEF Frames
<1>1. CASE snd \in {"copy", "send"}
  <2>1. InOrder
    BY <1>0, <1>1 DEF Live, Ordered, OrderedLenovo, Handoff, First, InOrder, None
  <2> QED
    BY <2>1 DEF CaptureFails, EncMove, sndVars, OrderedFailed, InOrder, Age
<1>2. CASE snd \notin {"copy", "send"}
  BY <1>2 DEF CaptureFails, EncMove, sndVars, OrderedFailed, InOrder
<1> QED
  BY <1>1, <1>2

LEMMA FailedOrdered ==
  ASSUME Typed, OrderedFailed, failed,
         CaptureStep({Torn} \cup Frames) \/ Send \/ UNCHANGED handVars
  PROVE  OrderedFailed'
<1> USE DEF OrderedFailed, InOrder, Age, Typed, TypeOK, JpegTypeOK, Buffers
<1>0. 0 \notin Frames
  BY DEF Frames
<1>1. CASE CaptureStep({Torn} \cup Frames)
  <2>1. SessionEnds
    BY <1>1 DEF CaptureStep, EncodesInto, EncodeFlags, Encoded, EncodeDiscards, EncodePoints,
                CaptureEnds, CaptureFails, EncMove
  <2> QED
    BY <2>1 DEF SessionEnds, encVars, sndVars
<1>2. CASE SendTests \/ GetNothing \/ GetLooks \/ GetPicks \/ GetPoints \/ GetSize \/ SendTurns
  BY <1>2 DEF SendTests, GetNothing, GetLooks, GetPicks, GetPoints, GetSize, SendTurns,
              SndMove, encVars
<1>3. CASE GetEmpties \/ SendCopies \/ SendPackets
  BY <1>0, <1>3 DEF GetEmpties, SendCopies, SendPackets, SndMove, encVars, Torn
<1>4. CASE UNCHANGED handVars
  BY <1>4 DEF handVars, encVars, sndVars
<1> QED
  BY <1>1, <1>2, <1>3, <1>4 DEF Send

LEMMA OrderedStep ==
  ASSUME ~raced', Numbers >= 6, Typed, TakesTheOther, Handoff, Handoff',
         ~failed => NewPictures, Ordered, OrderedLenovo, OrderedFailed, [Next]_vars
  PROVE  Ordered' /\ OrderedLenovo' /\ OrderedFailed'
<1>1. JpegTypeOK /\ SourceTypes
  BY DEF Typed, TypeOK, SourceTypes
<1>2. CASE failed
  <2>1. failed'
    BY <1>1, <1>2, FailedForGood
  <2>2. OrderedFailed'
    BY <1>1, <1>2, FailedOrdered, AnyStep
  <2> QED
    BY <2>1, <2>2 DEF Ordered, OrderedLenovo, Live
<1>3. CASE ~failed /\ failed'
  <2>1. CaptureFails
    BY <1>1, <1>3, NextFrameEncoded DEF CaptureStep, EncodesInto, EncodeFlags, Encoded,
       EncodeDiscards, EncodePoints, CaptureEnds, SessionEnds, Send, SendTests, GetNothing,
       GetLooks, GetPicks, GetPoints, GetSize, GetEmpties, SendCopies, SendPackets, SendTurns,
       encVars, handVars
  <2> QED
    BY <1>3, <2>1, FailsOrdered DEF Ordered, OrderedLenovo, Live
<1>4. CASE ~failed /\ ~failed'
  <2>1. OrderedFailed'
    BY <1>4 DEF OrderedFailed
  <2>2. CASE CaptureStep({frame})
    <3>1. OrderedLenovo'
      BY <2>2, CaptureOrderedLenovo
    <3>2. CASE CaptureFails
      BY <1>4, <3>2 DEF CaptureFails
    <3>3. Ordered'
      BY <2>2, <3>2, EncodesOrdered, EncodedOrdered, FlagsOrdered, OtherCaptureOrdered
         DEF CaptureStep
    <3> QED
      BY <2>1, <3>1, <3>3
  <2>3. CASE Send
    <3>1. Ordered'
      BY <2>3, LooksOrdered, PointsOrdered, EmptiesOrdered, SendsOrdered DEF Send
    <3> QED
      BY <2>1, <2>3, <3>1, SendOrderedLenovo
  <2>4. CASE UNCHANGED handVars
    BY <2>1, <2>4 DEF handVars, encVars, sndVars, Ordered, OrderedLenovo, Live, NewestIsNew,
       WritesTorn, FirstNew, LatestAge, Passed, InOrder, Newest, Latest, Full, Age, Mine, NextUp,
       Writes, Holds, Ready
  <2> QED
    BY <1>1, <1>4, <2>2, <2>3, <2>4, NextFrameEncoded
<1> QED
  BY <1>2, <1>3, <1>4

\* What is sent is the copy, and it is one or three frames newer than what was sent last.
LEMMA SentIsNewer ==
  ASSUME Numbers >= 6, Typed, Handoff, Ordered, OrderedLenovo, OrderedFailed, [Next]_vars,
         snd = "send", snd' = "turn", last \in Frames, last' \in Frames
  PROVE  (last' - last) % Numbers \in 1 .. (Numbers \div 2)
<1>1. JpegTypeOK /\ SourceTypes
  BY DEF Typed, TypeOK, SourceTypes
<1>2. last' = sendSrcBuff
  <2>1. CaptureStep({Torn} \cup Frames) => snd' = snd
    BY DEF CaptureStep, EncodesInto, EncodeFlags, Encoded, EncodeDiscards, EncodePoints,
                CaptureEnds, CaptureFails, SessionEnds, sndVars
  <2>2. Send => SendPackets
    BY DEF Send, SendTests, GetNothing, GetLooks, GetPicks, GetPoints, GetSize, GetEmpties,
           SendCopies, SendTurns, SndMove
  <2>3. UNCHANGED handVars => snd' = snd
    BY DEF handVars, sndVars
  <2> QED
    BY <1>1, <2>1, <2>2, <2>3, AnyStep DEF SendPackets
<1>3. InOrder
  BY DEF Handoff, First, Live, Ordered, OrderedLenovo, OrderedFailed, InOrder, None, Frames
<1>4. Age(last) - Age(sendSrcBuff) \in {1, 3}
  BY <1>2, <1>3 DEF InOrder
<1>5. Age(last) \in Int /\ Age(sendSrcBuff) \in Int
  BY <1>1, <1>2, Ages DEF Age, JpegTypeOK
<1>6. (sendSrcBuff - last) % Numbers = Age(last) - Age(sendSrcBuff)
  BY <1>1, <1>2, <1>4, <1>5, AgesDiffer DEF Age, JpegTypeOK
<1>7. 3 <= Numbers \div 2 /\ Numbers \div 2 \in Int
  BY NumbersAssumption
<1> QED
  BY <1>2, <1>4, <1>6, <1>7

\* Frames leave in the order they were captured and none leaves twice, whatever the races of
\* the flags and the index and whichever buffer the caller wrote, until one of the two races
\* above is lost; for numbers that tell six frames in a row apart.
THEOREM SentAsCaptured ==
  ASSUME Numbers >= 6
  PROVE  Spec => SentInOrder
<1> DEFINE Inv == /\ TakesTheOther /\ Handoff
                  /\ ~failed => NewPictures
                  /\ Ordered /\ OrderedLenovo /\ OrderedFailed
           IInv == Typed /\ (~raced => Inv)
<1>1. Init => IInv
  BY InitTyped, InitTakesTheOther, InitHandoff, InitNewPictures, InitOrdered
<1>2. IInv /\ [Next]_vars => IInv'
  <2> SUFFICES ASSUME IInv, [Next]_vars PROVE IInv'
    OBVIOUS
  <2>1. JpegTypeOK /\ SourceTypes
    BY DEF Typed, TypeOK, SourceTypes
  <2>2. Typed' /\ (raced => raced')
    BY TypedStep, RacedForGood DEF Typed, TypeOK
  <2>3. ASSUME ~raced' PROVE Inv'
    <3>1. Inv
      BY <2>2, <2>3
    <3>2. TakesTheOther' /\ Handoff'
      BY <2>1, <2>3, <3>1, TakesTheOtherStep, HandoffStep
    <3>3. ~failed' => NewPictures'
      BY <2>1, <2>3, <3>1, NewPicturesStep
    <3> QED
      BY <2>3, <3>1, <3>2, <3>3, OrderedStep
  <2> QED
    BY <2>2, <2>3
<1>3. IInv /\ [Next]_vars =>
        [snd = "send" /\ snd' = "turn" /\ ~raced /\ {last, last'} \subseteq Frames =>
           (last' - last) % Numbers \in 1..(Numbers \div 2)]_vars
  BY SentIsNewer
<1> QED
  BY <1>1, <1>2, <1>3, PTL DEF Spec, SentInOrder

=============================================================================
