--------------------------- MODULE LiveDataBuffer ---------------------------
(***************************************************************************)
(* LIVEDATABUFFER, the byte ring between who brings the audio (SendData)   *)
(* and AudioRenderThread (GetData), which sends it: WiMoAudio says who     *)
(* they are and how long they live.  Each of the two moves its own         *)
(* pointer; both update validDataSize with += or -= and no lock, so an     *)
(* update is a load and a store, and one of two that overlap is lost.      *)
(*                                                                         *)
(* A byte is its number in the stream, modulo Numbers: far enough apart to *)
(* tell a byte from the one a whole buffer later.                          *)
(***************************************************************************)
EXTENDS Integers

CONSTANTS
  N,      \* bufferSize, AUDIOBUFFERSIZE
  R,      \* READPERTIME: what AudioRenderThread asks of GetData
  Sizes   \* what SendData is called with, which nothing checks

ASSUME NAssumption == N \in Nat
ASSUME RAssumption == R \in 1..N
ASSUME SizesAssumption == Sizes \subseteq Nat

VARIABLES
  status,   \* statusWiMo, which CWiMoControl and its threads set
  valid,    \* validDataSize
  w,        \* mWritePointer - mBuff
  r,        \* mReadPointer - mBuff
  mem,      \* mBuff
  cap,      \* the place of the writer, in SendData
  size,     \* SendData's argument
  endSize,  \* SendData's endBufferSize, computed before it waits
  capValid, \* what SendData has loaded from validDataSize
  ren,      \* the place of AudioRenderThread
  renValid, \* what GetData has loaded from validDataSize
  written,  \* history: the number of the next byte to be captured
  taken,    \* history: the number of the next byte to be sent
  lost      \* history: an update of validDataSize was lost

capVars == <<w, mem, cap, size, endSize, capValid, written>>
renVars == <<r, ren, renValid, taken>>
ringVars == <<status, valid, capVars, renVars, lost>>

Numbers == 2 * N
Cells == 0..(N - 1)

RingTypeOK ==
  /\ status \in {"INITING", "CONNECTING", "FINISH"}
  /\ valid \in Int /\ capValid \in Int /\ renValid \in Int
  /\ w \in 0..N /\ r \in Cells
  /\ mem \in [Cells -> 0..(Numbers - 1)]
  /\ cap \in {"idle", "wait", "copy", "load", "store"}
  /\ size \in Nat /\ endSize \in 0..N
  /\ ren \in {"idle", "get", "copy", "load", "store", "reset", "gone"}
  /\ written \in 0..(Numbers - 1) /\ taken \in 0..(Numbers - 1)
  /\ lost \in BOOLEAN

RingInit ==
  /\ status = "INITING"
  /\ valid = 0 /\ w = 0 /\ r = 0 /\ mem = [i \in Cells |-> 0]
  /\ cap = "idle" /\ size = 0 /\ endSize = 0 /\ capValid = 0
  /\ ren = "idle" /\ renValid = 0
  /\ written = 0 /\ taken = 0 /\ lost = FALSE

\* The session is connected, and ends, at any time (WiMoControl).
StatusChanges ==
  /\ \/ status = "INITING" /\ status' = "CONNECTING"
     \/ status # "FINISH" /\ status' = "FINISH"
  /\ UNCHANGED <<valid, capVars, renVars, lost>>

-----------------------------------------------------------------------------
(* The writer, in SendData. *)

\* Mutant: the room to the end of the buffer is counted from its beginning.
SendDataFromStart(n) ==
  /\ cap = "idle"
  /\ cap' = "wait"
  /\ size' = n
  /\ endSize' = N
  /\ UNCHANGED <<status, valid, w, mem, capValid, written, renVars, lost>>
SendData(n) ==
  /\ cap = "idle"
  /\ cap' = "wait"
  /\ size' = n
  /\ endSize' = N - w
  /\ UNCHANGED <<status, valid, w, mem, capValid, written, renVars, lost>>

\* Mutant: one byte too many.
FitsOneMore == valid + size <= N + 1
\* There is room for what is sent.
Fits == valid + size <= N

\* It sleeps until there is room, or the session is over: then it copies all the same.
SendDataPasses ==
  /\ cap = "wait" /\ (status = "FINISH" \/ Fits)
  /\ cap' = "copy"
  /\ UNCHANGED <<status, valid, w, mem, size, endSize, capValid, written, renVars, lost>>

\* Which byte of those sent lands in cell i: memcpy from the write pointer to the end of
\* the buffer, then from its beginning, which may reach the write pointer again.
Offset(i) == IF i >= w /\ i >= size - endSize THEN i - w ELSE i + endSize

\* Mutant: the pointer wraps a byte late.
AdvancedLate == IF endSize + 1 >= size THEN w + size ELSE size - endSize
Advanced == IF endSize >= size THEN w + size ELSE size - endSize

\* The second memcpy ends in the buffer: what one that does not would do is not defined.
SendDataCopies ==
  /\ cap = "copy" /\ size - endSize <= N
  /\ cap' = "load"
  /\ mem' = [i \in Cells |->
               IF Offset(i) < size THEN (written + Offset(i)) % Numbers ELSE mem[i]]
  /\ written' = (written + size) % Numbers
  /\ w' = Advanced
  /\ UNCHANGED <<status, valid, size, endSize, capValid, renVars, lost>>

SendDataLoads ==
  /\ cap = "load"
  /\ cap' = "store" /\ capValid' = valid
  /\ UNCHANGED <<status, valid, w, mem, size, endSize, written, renVars, lost>>

SendDataStores ==
  /\ cap = "store"
  /\ cap' = "idle" /\ valid' = capValid + size
  /\ lost' = (lost \/ valid # capValid)
  /\ size' = 0 /\ endSize' = 0 /\ capValid' = 0  \* of no use any more
  /\ UNCHANGED <<status, w, mem, written, renVars>>

SendDataWorks == SendDataPasses \/ SendDataCopies \/ SendDataLoads \/ SendDataStores

-----------------------------------------------------------------------------
(* AudioRenderThread, with GetData and, at its end, ResetValidDataSize. *)

RenderTests ==
  /\ ren = "idle" /\ status # "INITING"
  /\ ren' = IF status = "FINISH" THEN "reset" ELSE "get"
  /\ UNCHANGED <<status, valid, capVars, r, renValid, taken, lost>>

\* Mutant: what there is, however little, is taken for a whole read.
GetDataEager ==
  /\ ren = "get"
  /\ ren' = IF valid = 0 THEN "idle" ELSE "copy"
  /\ UNCHANGED <<status, valid, capVars, r, renValid, taken, lost>>
\* Mutant: one byte more than a whole read is waited for.
GetDataStrict ==
  /\ ren = "get"
  /\ ren' = IF valid <= R THEN "idle" ELSE "copy"
  /\ UNCHANGED <<status, valid, capVars, r, renValid, taken, lost>>
\* Mutant: enough data is waited for without a look at the status.
GetDataInsists ==
  /\ ren = "get" /\ valid >= R
  /\ ren' = "copy"
  /\ UNCHANGED <<status, valid, capVars, r, renValid, taken, lost>>
\* Without enough data the thread sleeps and tries again.
GetData ==
  /\ ren = "get"
  /\ ren' = IF valid < R THEN "idle" ELSE "copy"
  /\ UNCHANGED <<status, valid, capVars, r, renValid, taken, lost>>

GetDataCopies ==
  /\ ren = "copy"
  /\ ren' = "load"
  /\ r' = IF N - r > R THEN r + R ELSE R - (N - r)
  /\ taken' = (taken + R) % Numbers
  /\ UNCHANGED <<status, valid, capVars, renValid, lost>>

GetDataLoads ==
  /\ ren = "load"
  /\ ren' = "store" /\ renValid' = valid
  /\ UNCHANGED <<status, valid, capVars, r, taken, lost>>

GetDataStores ==
  /\ ren = "store"
  /\ ren' = "idle" /\ valid' = renValid - R
  /\ lost' = (lost \/ valid # renValid)
  /\ renValid' = 0
  /\ UNCHANGED <<status, capVars, r, taken>>

ResetValidDataSize ==
  /\ ren = "reset"
  /\ ren' = "gone" /\ valid' = 0
  /\ UNCHANGED <<status, capVars, r, renValid, taken, lost>>

RenderWorks ==
  \/ RenderTests \/ GetData \/ GetDataCopies \/ GetDataLoads \/ GetDataStores
  \/ ResetValidDataSize

-----------------------------------------------------------------------------
RingNext == StatusChanges \/ (\E n \in Sizes : SendData(n)) \/ SendDataWorks \/ RenderWorks

RingSpec == RingInit /\ [][RingNext]_ringVars

-----------------------------------------------------------------------------
\* While the session lasts validDataSize counts between nothing and a full buffer, though
\* the two threads lose each other's updates: neither reads what was never there nor
\* takes the buffer for fuller than it is.
ValidInRange == status # "FINISH" => valid \in 0..N

\* Each memcpy ends inside the buffer, and SendData's before its own beginning, also those
\* after the end of the session, when it no longer waits for room: endBufferSize was computed
\* before the wait.  A write larger than the buffer is not copied while the session lasts,
\* though updates are lost; after the end it is, and may leave the buffer.
CopiesInBounds ==
  /\ cap = "copy" /\ (size <= N \/ status # "FINISH") =>
       IF size <= endSize THEN w + size <= N ELSE w + endSize <= N /\ size - endSize <= w
  /\ ren = "copy" => IF R < N - r THEN r + R <= N ELSE R - (N - r) <= r

\* What AudioRenderThread is about to send are the bytes that follow those it sent last,
\* while no update was lost and the session lasts.
SentInOrder ==
  (ren = "copy" /\ ~lost /\ status # "FINISH") =>
    \A k \in 0..(R - 1) : mem[(r + k) % N] = (taken + k) % Numbers
=============================================================================
