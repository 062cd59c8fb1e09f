------------------------ MODULE LiveDataBufferProofs ------------------------
(***************************************************************************)
(* Proofs about LiveDataBuffer for every buffer, read and write size,      *)
(* whoever writes, and whenever.                                           *)
(*                                                                         *)
(* Why validDataSize stays in range although updates are lost: a thread    *)
(* that has loaded the counter still sees a value from which its own move  *)
(* is allowed, and what it will store differs from the counter by no more  *)
(* than its own move and those of the other thread.                        *)
(*                                                                         *)
(* While no update is lost the bytes leave in the order in which they      *)
(* came: the counter is the distance between the two pointers, and each    *)
(* place between them holds the byte whose number is the place's.          *)
(***************************************************************************)
EXTENDS LiveDataBuffer, TLAPS

\* SendData's endBufferSize is the room behind the write pointer until it has copied.
Room == cap \in {"wait", "copy"} => endSize = N - w

\* The writer, past its wait: there is room for its bytes, and for those it has counted.
WriterInRange ==
  /\ cap \in {"copy", "load"} => valid + size <= N
  /\ cap = "store" => capValid >= 0 /\ capValid + size <= N /\ valid <= capValid + size

\* The reader, past its test: its bytes are there, and in what it has counted.
ReaderInRange ==
  /\ ren \in {"copy", "load"} => valid >= R
  /\ ren = "store" => renValid >= R

\* What either will store leaves the other's move possible.
Crossing ==
  /\ (cap = "store" /\ ren \in {"copy", "load"}) => capValid + size >= R
  /\ (cap = "store" /\ ren = "store") => renValid - R <= capValid + size
  /\ (cap # "store" /\ ren = "store") => renValid - R <= valid
  /\ (cap \in {"copy", "load"} /\ ren = "store") => renValid - R + size <= N

\* A reader that is done has seen the end of the session.
Over == ren \in {"reset", "gone"} => status = "FINISH"

Counted == valid \in 0..N /\ WriterInRange /\ ReaderInRange /\ Crossing

RingInv == RingTypeOK /\ Room /\ Over /\ (status # "FINISH" => Counted)
-----------------------------------------------------------------------------
\* A remainder is a number of the stream.
LEMMA NumbersMod == ASSUME NEW x \in Int PROVE x % Numbers \in 0..(Numbers - 1)
  BY NAssumption, RAssumption DEF Numbers

\* The bounds and the counter are right at the start.
LEMMA RingInitInv == RingInit => RingInv
  <1> SUFFICES ASSUME RingInit PROVE RingInv
    OBVIOUS
  <1> USE NAssumption, RAssumption DEF RingInit
  <1>1. RingTypeOK
    <2>1. 0 \in 0..(Numbers - 1) /\ 0 \in Cells /\ 0 \in 0..N
      BY DEF Numbers, Cells
    <2>2. mem \in [Cells -> 0..(Numbers - 1)]
      BY <2>1
    <2>3. /\ valid \in Int /\ capValid \in Int /\ renValid \in Int
          /\ w \in 0..N /\ r \in Cells /\ size \in Nat /\ endSize \in 0..N
          /\ written \in 0..(Numbers - 1) /\ taken \in 0..(Numbers - 1)
      BY <2>1
    <2> HIDE NAssumption, RAssumption
    <2> QED
      BY <2>2, <2>3 DEF RingTypeOK
  <1>2. Room /\ Over /\ Counted
    BY DEF Room, Over, Counted, WriterInRange, ReaderInRange, Crossing
  <1> QED
    BY <1>1, <1>2 DEF RingInv

\* Every step keeps the variables in their types.
LEMMA RingTypeStep == RingTypeOK /\ Room /\ [RingNext]_ringVars => RingTypeOK'
  <1> SUFFICES ASSUME RingTypeOK, Room, [RingNext]_ringVars PROVE RingTypeOK'
    OBVIOUS
  <1> USE NAssumption, RAssumption, SizesAssumption DEF RingTypeOK
  <1>1. CASE StatusChanges
    BY <1>1 DEF StatusChanges, capVars, renVars
  <1>2. ASSUME NEW n \in Sizes, SendData(n) PROVE RingTypeOK'
    BY <1>2 DEF SendData, renVars
  <1>3. CASE SendDataPasses
    BY <1>3 DEF SendDataPasses, renVars
  <1>4. CASE SendDataCopies
    <2>1. w' \in 0..N
      BY <1>4 DEF SendDataCopies, Advanced, Room
    <2>2. written' \in 0..(Numbers - 1)
      BY <1>4, NumbersMod DEF SendDataCopies
    <2>3. mem' \in [Cells -> 0..(Numbers - 1)]
      <3>1. ASSUME NEW i \in Cells PROVE (written + Offset(i)) % Numbers \in 0..(Numbers - 1)
        <4>1. written + Offset(i) \in Int
          BY DEF Offset, Cells
        <4> QED
          BY <4>1, NumbersMod
      <3> QED
        BY <1>4, <3>1 DEF SendDataCopies
    <2> QED
      BY <1>4, <2>1, <2>2, <2>3 DEF SendDataCopies, renVars
  <1>5. CASE SendDataLoads
    BY <1>5 DEF SendDataLoads, renVars
  <1>6. CASE SendDataStores
    BY <1>6 DEF SendDataStores, renVars
  <1>7. CASE RenderTests
    BY <1>7 DEF RenderTests, capVars
  <1>8. CASE GetData
    BY <1>8 DEF GetData, capVars
  <1>9. CASE GetDataCopies
    <2>1. r' \in Cells
      BY <1>9 DEF GetDataCopies, Cells
    <2>2. taken' \in 0..(Numbers - 1)
      BY <1>9, NumbersMod DEF GetDataCopies
    <2> QED
      BY <1>9, <2>1, <2>2 DEF GetDataCopies, capVars
  <1>10. CASE GetDataLoads
    BY <1>10 DEF GetDataLoads, capVars
  <1>11. CASE GetDataStores
    BY <1>11 DEF GetDataStores, capVars
  <1>12. CASE ResetValidDataSize
    BY <1>12 DEF ResetValidDataSize, capVars
  <1>13. CASE UNCHANGED ringVars
    BY <1>13 DEF ringVars, capVars, renVars
  <1> QED
    BY <1>1, <1>2, <1>3, <1>4, <1>5, <1>6, <1>7, <1>8, <1>9, <1>10, <1>11, <1>12, <1>13
    DEF RingNext, SendDataWorks, RenderWorks

\* Every step keeps the counter in range while the session lasts, and the relations
\* between what the two threads have loaded that this rests on.
LEMMA CountedStep ==
    RingTypeOK /\ Room /\ Over /\ (status # "FINISH" => Counted) /\ [RingNext]_ringVars
      => (status' # "FINISH" => Counted')
  <1> SUFFICES ASSUME RingTypeOK, Room, Over, status # "FINISH" => Counted, [RingNext]_ringVars,
                      status' # "FINISH"
               PROVE Counted'
    OBVIOUS
  <1> USE NAssumption, RAssumption, SizesAssumption
      DEF RingTypeOK, Counted, WriterInRange, ReaderInRange, Crossing
  <1>1. status # "FINISH"
    BY DEF RingNext, StatusChanges, SendData, SendDataWorks, SendDataPasses, SendDataCopies,
           SendDataLoads, SendDataStores, RenderWorks, RenderTests, GetData,
           GetDataCopies, GetDataLoads, GetDataStores, ResetValidDataSize, ringVars
  <1>2. CASE StatusChanges
    BY <1>1, <1>2 DEF StatusChanges, capVars, renVars
  <1>3. ASSUME NEW n \in Sizes, SendData(n) PROVE Counted'
    BY <1>1, <1>3 DEF SendData, renVars
  <1>4. CASE SendDataPasses
    BY <1>1, <1>4 DEF SendDataPasses, Fits, renVars
  <1>5. CASE SendDataCopies
    BY <1>1, <1>5 DEF SendDataCopies, renVars
  <1>6. CASE SendDataLoads
    BY <1>1, <1>6 DEF SendDataLoads, renVars
  <1>7. CASE SendDataStores
    BY <1>1, <1>7 DEF SendDataStores, renVars
  <1>8. CASE RenderTests
    BY <1>1, <1>8 DEF RenderTests, capVars
  <1>9. CASE GetData
    BY <1>1, <1>9 DEF GetData, capVars
  <1>10. CASE GetDataCopies
    BY <1>1, <1>10 DEF GetDataCopies, capVars
  <1>11. CASE GetDataLoads
    BY <1>1, <1>11 DEF GetDataLoads, capVars
  <1>12. CASE GetDataStores
    BY <1>1, <1>12 DEF GetDataStores, capVars
  <1>13. CASE ResetValidDataSize
    BY <1>1, <1>13 DEF ResetValidDataSize, Over
  <1>14. CASE UNCHANGED ringVars
    BY <1>1, <1>14 DEF ringVars, capVars, renVars
  <1> QED
    BY <1>2, <1>3, <1>4, <1>5, <1>6, <1>7, <1>8, <1>9, <1>10, <1>11, <1>12, <1>13,
       <1>14 DEF RingNext, SendDataWorks, RenderWorks

\* endBufferSize stays right while SendData waits, and a reader that is done stays done.
LEMMA RoomStep == RingTypeOK /\ Room /\ Over /\ [RingNext]_ringVars => Room' /\ Over'
  <1> SUFFICES ASSUME RingTypeOK, Room, Over, [RingNext]_ringVars PROVE Room' /\ Over'
    OBVIOUS
  <1> USE DEF Room, Over, RingTypeOK
  <1>1. CASE StatusChanges
    BY <1>1 DEF StatusChanges, capVars, renVars
  <1>2. ASSUME NEW n \in Sizes, SendData(n) PROVE Room' /\ Over'
    BY <1>2 DEF SendData, renVars
  <1>3. CASE SendDataWorks
    BY <1>3 DEF SendDataWorks, SendDataPasses, SendDataCopies, SendDataLoads, SendDataStores,
                renVars
  <1>4. CASE RenderWorks
    BY <1>4 DEF RenderWorks, RenderTests, GetData, GetDataCopies, GetDataLoads,
                GetDataStores, ResetValidDataSize, capVars
  <1>5. CASE UNCHANGED ringVars
    BY <1>5 DEF ringVars, capVars, renVars
  <1> QED
    BY <1>1, <1>2, <1>3, <1>4, <1>5 DEF RingNext

\* The inductive invariant.
THEOREM RingInvariant == RingSpec => []RingInv
  <1>1. RingInit => RingInv
    BY RingInitInv
  <1>2. RingInv /\ [RingNext]_ringVars => RingInv'
    BY RingTypeStep, CountedStep, RoomStep DEF RingInv
  <1> QED
    BY <1>1, <1>2, PTL DEF RingSpec

\* LIVEDATABUFFER's pointers and SendData's locals stay in their ranges, also after the
\* session is over, when SendData writes without looking at validDataSize.
THEOREM RingTypeCorrect == RingSpec => []RingTypeOK
  <1>1. RingInv => RingTypeOK
    BY DEF RingInv
  <1> QED
    BY <1>1, RingInvariant, PTL

\* validDataSize counts between 0 and bufferSize while the session lasts, whichever of
\* the updates SendData and GetData make of it are lost.
THEOREM ValidAlwaysInRange == RingSpec => []ValidInRange
  <1>1. RingInv => ValidInRange
    BY DEF RingInv, Counted, ValidInRange
  <1> QED
    BY <1>1, RingInvariant, PTL

\* No memcpy of GetData leaves the buffer, nor one of SendData with no more bytes than the
\* buffer has, also after the end of the session.  A larger write, which nothing refuses, is
\* not copied while the session lasts.
THEOREM CopiesAlwaysInBounds == RingSpec => []CopiesInBounds
  <1>1. RingInv => CopiesInBounds
    BY NAssumption, RAssumption
       DEF RingInv, RingTypeOK, Room, Counted, WriterInRange, Cells, CopiesInBounds
  <1> QED
    BY <1>1, RingInvariant, PTL
-----------------------------------------------------------------------------
(* What is in the buffer, as long as no update of validDataSize is lost. *)

\* The bytes that are copied and not counted, and those that are taken and not counted.
Uncounted == IF cap \in {"load", "store"} THEN size ELSE 0
Untaken == IF ren \in {"load", "store"} THEN R ELSE 0

\* How many bytes lie between the pointers.
Held == valid + Uncounted - Untaken

\* How far behind the read pointer a cell is.
Behind(i) == IF i >= r THEN i - r ELSE i - r + N

\* The pointers are as far apart as the numbers of the bytes to come, and the cells between
\* them hold the bytes in between.
Ordered ==
  /\ Held \in 0..N
  /\ w \in {r + Held, r + Held - N, r + Held + N}
  /\ written = (taken + Held) % Numbers
  /\ \A i \in Cells : Behind(i) < Held => mem[i] = (taken + Behind(i)) % Numbers

InOrder == ~lost /\ status # "FINISH" => Ordered

\* The remainder of what is less than twice the divisor.
LEMMA Remainder ==
  ASSUME NEW n \in Nat \ {0}, NEW x \in 0..(2 * n - 1)
  PROVE  x % n = IF x < n THEN x ELSE x - n
  <1>1. CASE x < n
    BY <1>1
  <1>2. CASE x >= n
    BY <1>2
  <1> QED
    BY <1>1, <1>2

\* Remainders of the numbers that occur.
LEMMA NumbersTurn ==
  ASSUME NEW x \in 0..(2 * Numbers - 1)
  PROVE  x % Numbers = IF x < Numbers THEN x ELSE x - Numbers
  <1>1. Numbers \in Nat \ {0}
    BY NAssumption, RAssumption DEF Numbers
  <1> QED
    BY <1>1, Remainder

\* A number counted on twice is counted on once by the sum.
LEMMA NumbersAdd ==
  ASSUME NEW x \in 0..(Numbers - 1), NEW y \in 0..N, NEW z \in 0..N
  PROVE  (((x + y) % Numbers) + z) % Numbers = (x + (y + z)) % Numbers
  <1>1. /\ x + y \in 0..(2 * Numbers - 1) /\ x + (y + z) \in 0..(2 * Numbers - 1)
        /\ Numbers \in Nat
    BY NAssumption, RAssumption DEF Numbers
  <1>2. (x + y) % Numbers = IF x + y < Numbers THEN x + y ELSE x + y - Numbers
    BY <1>1, NumbersTurn
  <1> DEFINE m == ((x + y) % Numbers) + z
  <1>3. m \in 0..(2 * Numbers - 1)
    BY <1>1, <1>2, NAssumption DEF Numbers
  <1>4. (x + (y + z)) % Numbers = IF x + (y + z) < Numbers THEN x + (y + z)
                                  ELSE x + (y + z) - Numbers
    BY <1>1, NumbersTurn
  <1>5. m % Numbers = IF m < Numbers THEN m ELSE m - Numbers
    <2> HIDE DEF m
    <2> QED
      BY <1>3, NumbersTurn
  <1> QED
    BY <1>1, <1>2, <1>4, <1>5, NAssumption DEF Numbers

\* The write pointer p, h bytes after the read pointer q, is h + s bytes after it when s
\* bytes are copied there, with a wrap or without.
LEMMA PointerMoves ==
  ASSUME NEW q \in 0..(N - 1), NEW p \in 0..N, NEW h \in 0..N, NEW s \in 0..N, h + s <= N,
         p \in {q + h, q + h - N, q + h + N},
         NEW next, next = IF N - p >= s THEN p + s ELSE s - (N - p)
  PROVE  next \in {q + (h + s), q + (h + s) - N, q + (h + s) + N}
  BY NAssumption, RAssumption

\* The write pointer p, h bytes after the read pointer q, is h - R bytes after it when R
\* bytes are read, with a wrap or without.
LEMMA ReadPointerMoves ==
  ASSUME NEW q \in 0..(N - 1), NEW p \in 0..N, NEW h \in 0..N, h - R \in 0..N,
         p \in {q + h, q + h - N, q + h + N},
         NEW next \in 0..(N - 1), next \in {q + R, q + R - N}
  PROVE  p \in {next + (h - R), next + (h - R) - N, next + (h - R) + N}
  BY NAssumption, RAssumption

\* The cell b behind the read pointer is not copied to if it is one of the h bytes before
\* the write pointer, and gets the byte b - h if it is one of the next s.
LEMMA CellsCopied ==
  ASSUME NEW q \in 0..(N - 1), NEW p \in 0..N, NEW h \in 0..N, NEW s \in 0..N, h + s <= N,
         p \in {q + h, q + h - N, q + h + N},
         NEW i \in 0..(N - 1),
         NEW b, b = IF i >= q THEN i - q ELSE i - q + N,
         NEW o, o = IF i >= p THEN i - p ELSE i + (N - p)
  PROVE  /\ b < h => o >= s
         /\ (b >= h /\ b < h + s) => o = b - h /\ o < s
  BY NAssumption, RAssumption

\* memcpy to the write pointer keeps the order.
LEMMA CopyInOrder ==
  ASSUME RingInv, Ordered, status # "FINISH", SendDataCopies
  PROVE  Ordered'
  <1> USE NAssumption, RAssumption DEF SendDataCopies, renVars
  <1> DEFINE h == Held
  <1>1. /\ RingTypeOK /\ endSize = N - w /\ valid + size <= N
        /\ cap = "copy" /\ cap' = "load"
    BY DEF RingInv, Room, Counted, WriterInRange
  <1>2. /\ w \in 0..N /\ r \in Cells /\ size \in 0..N /\ valid \in Int
        /\ taken \in 0..(Numbers - 1) /\ h \in 0..N /\ r \in 0..N
    BY <1>1 DEF RingTypeOK, Cells, Ordered, RingInv, Counted
  <1>3. h = valid - Untaken /\ Held' = h + size /\ h + size \in 0..N
    <2>1. Held' = valid + size - Untaken /\ h = valid - Untaken
      BY <1>1 DEF Held, Uncounted, Untaken, RingTypeOK
    <2> QED
      BY <2>1, <1>1, <1>2 DEF Untaken
  <1>4. w' \in {r' + Held', r' + Held' - N, r' + Held' + N}
    <2>1. w' = IF N - w >= size THEN w + size ELSE size - (N - w)
      BY <1>1 DEF Advanced
    <2>2. w \in {r + h, r + h - N, r + h + N} /\ r' = r
      BY DEF Ordered
    <2>3. r \in 0..(N - 1) /\ h + size <= N
      BY <1>2, <1>3 DEF Cells
    <2> HIDE DEF h
    <2>4. w' \in {r + (h + size), r + (h + size) - N, r + (h + size) + N}
      BY <2>1, <2>2, <2>3, <1>2, PointerMoves
    <2> QED
      BY <2>2, <2>4, <1>3
  <1>5. written' = (taken' + Held') % Numbers
    BY <1>2, <1>3, NumbersAdd DEF Ordered
  <1>6. ASSUME NEW i \in Cells, Behind(i)' < Held'
        PROVE  mem'[i] = (taken' + Behind(i)') % Numbers
    <2>1. Behind(i)' = Behind(i) /\ Behind(i) \in 0..(N - 1) /\ taken' = taken
      BY <1>2 DEF Behind, Cells
    <2>2. mem'[i] = IF Offset(i) < size THEN (written + Offset(i)) % Numbers ELSE mem[i]
      BY <1>1
    <2>3. Offset(i) = IF i >= w THEN i - w ELSE i + (N - w)
      BY <1>1, <1>2 DEF Offset, Cells
    <2>4. w \in {r + h, r + h - N, r + h + N}
      BY DEF Ordered
    <2>8. /\ Behind(i) < h => Offset(i) >= size
          /\ (Behind(i) >= h /\ Behind(i) < h + size) =>
               Offset(i) = Behind(i) - h /\ Offset(i) < size
      <3>1. r \in 0..(N - 1) /\ h + size <= N /\ i \in 0..(N - 1)
        BY <1>2, <1>3 DEF Cells
      <3>2. Behind(i) = IF i >= r THEN i - r ELSE i - r + N
        BY DEF Behind
      <3> HIDE DEF h
      <3> QED
        BY <3>1, <3>2, <2>3, <2>4, <1>2, CellsCopied
    <2>5. CASE Behind(i) < h
      <3>1. Offset(i) >= size
        BY <2>5, <2>8
      <3>2. mem'[i] = mem[i]
        BY <2>2, <3>1, <2>3, <1>2 DEF Cells
      <3> QED
        BY <3>2, <2>1, <2>5 DEF Ordered
    <2>6. CASE Behind(i) >= h
      <3>1. Offset(i) = Behind(i) - h /\ Offset(i) < size
        <4>1. Behind(i) < h + size
          BY <1>6, <2>1, <1>3
        <4> QED
          BY <4>1, <2>6, <2>8
      <3>2. mem'[i] = (((taken + h) % Numbers) + Offset(i)) % Numbers
        BY <2>2, <3>1 DEF Ordered
      <3>3. Offset(i) \in 0..N /\ h + Offset(i) = Behind(i)
        BY <3>1, <2>1, <2>6, <1>2
      <3>4. mem'[i] = (taken + (h + Offset(i))) % Numbers
        BY <3>2, <3>3, <1>2, NumbersAdd
      <3> QED
        BY <3>3, <3>4, <2>1
    <2> QED
      BY <2>1, <2>5, <2>6, <1>2
  <1> QED
    BY <1>3, <1>4, <1>5, <1>6 DEF Ordered

\* GetData's copy keeps the order.
LEMMA TakeInOrder ==
  ASSUME RingInv, Ordered, status # "FINISH", GetDataCopies
  PROVE  Ordered'
  <1> USE NAssumption, RAssumption DEF GetDataCopies, capVars
  <1> DEFINE h == Held
  <1>1. /\ RingTypeOK /\ valid >= R /\ ren = "copy" /\ ren' = "load"
    BY DEF RingInv, Counted, ReaderInRange
  <1>2. /\ w \in 0..N /\ r \in Cells /\ size \in Nat /\ valid \in Int
        /\ taken \in 0..(Numbers - 1) /\ h \in 0..N /\ r \in 0..N
    BY <1>1 DEF RingTypeOK, Cells, Ordered
  <1>3. h = valid + Uncounted /\ Held' = h - R /\ h - R \in 0..N
    <2>1. Held' = valid + Uncounted - R /\ h = valid + Uncounted
      BY <1>1, <1>2 DEF Held, Uncounted, Untaken
    <2> QED
      BY <2>1, <1>1, <1>2 DEF Uncounted
  <1>4. w' = w /\ r' \in Cells /\ r' \in {r + R, r + R - N}
    BY <1>2 DEF Cells
  <1>5. w' \in {r' + Held', r' + Held' - N, r' + Held' + N}
    <2>1. w \in {r + h, r + h - N, r + h + N}
      BY DEF Ordered
    <2>2. r \in 0..(N - 1) /\ r' \in 0..(N - 1)
      BY <1>2, <1>4 DEF Cells
    <2> HIDE DEF h
    <2>3. w \in {r' + (h - R), r' + (h - R) - N, r' + (h - R) + N}
      BY <2>1, <2>2, <1>2, <1>3, <1>4, ReadPointerMoves
    <2> QED
      BY <2>3, <1>3, <1>4
  <1>6. taken' = (taken + R) % Numbers /\ R \in 0..N
    BY DEF Numbers
  <1>7. written' = (taken' + Held') % Numbers
    <2>1. written' = (taken + (R + (h - R))) % Numbers
      BY <1>2, <1>3 DEF Ordered
    <2>2. (((taken + R) % Numbers) + (h - R)) % Numbers = (taken + (R + (h - R))) % Numbers
      <3> HIDE DEF h
      <3> QED
        BY <1>2, <1>3, <1>6, NumbersAdd
    <2> QED
      BY <2>1, <2>2, <1>3, <1>6
  <1>8. ASSUME NEW i \in Cells, Behind(i)' < Held'
        PROVE  mem'[i] = (taken' + Behind(i)') % Numbers
    <2>1. Behind(i) = R + Behind(i)' /\ Behind(i)' \in 0..N /\ Behind(i) < h
      <3>1. Behind(i) = IF i >= r THEN i - r ELSE i - r + N
        BY DEF Behind
      <3>2. Behind(i)' = IF i >= r' THEN i - r' ELSE i - r' + N
        BY DEF Behind
      <3> HIDE DEF h
      <3> QED
        BY <3>1, <3>2, <1>2, <1>3, <1>4, <1>8 DEF Cells
    <2>2. mem'[i] = (taken + (R + Behind(i)')) % Numbers
      BY <2>1 DEF Ordered
    <2> QED
      BY <2>1, <2>2, <1>2, <1>6, NumbersAdd
  <1> QED
    BY <1>3, <1>5, <1>7, <1>8 DEF Ordered

\* No other step changes what lies between the pointers.
LEMMA InOrderStep == RingInv /\ InOrder /\ [RingNext]_ringVars => InOrder'
  <1> SUFFICES ASSUME RingInv, InOrder, [RingNext]_ringVars, ~lost', status' # "FINISH"
               PROVE Ordered'
    BY DEF InOrder
  <1>1. status # "FINISH" /\ ~lost
    BY DEF RingInv, RingTypeOK, RingNext, StatusChanges, SendData, SendDataWorks,
       SendDataPasses, SendDataCopies, SendDataLoads, SendDataStores, RenderWorks, RenderTests,
       GetData, GetDataCopies, GetDataLoads, GetDataStores, ResetValidDataSize, ringVars,
       capVars, renVars
  <1>2. Ordered /\ RingTypeOK
    BY <1>1 DEF InOrder, RingInv
  <1>3. CASE SendDataCopies
    BY <1>1, <1>2, <1>3, CopyInOrder
  <1>4. CASE GetDataCopies
    BY <1>1, <1>2, <1>4, TakeInOrder
  <1>5. CASE ~SendDataCopies /\ ~GetDataCopies
    <2>1. UNCHANGED <<w, r, mem, written, taken>>
      BY <1>5 DEF RingNext, StatusChanges, SendData, SendDataWorks, SendDataPasses,
         SendDataLoads, SendDataStores, RenderWorks, RenderTests, GetData, GetDataLoads,
         GetDataStores, ResetValidDataSize, ringVars, capVars, renVars
    <2>2. Held' = Held
      <3>1. ~ResetValidDataSize
        BY <1>1 DEF ResetValidDataSize, RingInv, Over
      <3>2. /\ valid \in Int /\ capValid \in Int /\ renValid \in Int /\ size \in Nat
            /\ R \in Nat /\ lost \in BOOLEAN
        BY <1>2, RAssumption, NAssumption DEF RingTypeOK
      <3>3. CASE SendDataStores
        <4>1. valid = capValid
          BY <3>3, Zenon DEF SendDataStores
        <4> QED
          BY <4>1, <3>2, <3>3 DEF SendDataStores, Held, Uncounted, Untaken, renVars
      <3>4. CASE GetDataStores
        <4>1. valid = renValid
          BY <3>4, Zenon DEF GetDataStores
        <4> QED
          BY <4>1, <3>2, <3>4 DEF GetDataStores, Held, Uncounted, Untaken, capVars
      <3>5. CASE ~SendDataStores /\ ~GetDataStores
        BY <1>5, <3>1, <3>5, <3>2 DEF RingNext, StatusChanges, SendData, SendDataWorks,
           SendDataPasses, SendDataLoads, RenderWorks, RenderTests, GetData, GetDataLoads,
           ringVars, capVars, renVars, Held, Uncounted, Untaken
      <3> QED
        BY <3>3, <3>4, <3>5
    <2> QED
      BY <1>2, <2>1, <2>2 DEF Ordered, Behind
  <1> QED
    BY <1>3, <1>4, <1>5

\* AudioRenderThread sends the bytes in the order they were brought, without a gap and
\* without a repetition, for as long as no update of validDataSize is lost.
THEOREM BytesSentInOrder == RingSpec => []SentInOrder
  <1>1. RingInit => InOrder
    <2> SUFFICES ASSUME RingInit PROVE Ordered
      BY DEF InOrder
    <2>1. Held = 0 /\ 0 \in 0..N /\ r = 0 /\ w = 0
      BY NAssumption DEF RingInit, Held, Uncounted, Untaken
    <2>2. 0 % Numbers = 0
      BY NumbersTurn, NAssumption, RAssumption DEF Numbers
    <2>3. \A i \in Cells : ~(Behind(i) < 0)
      BY <2>1, NAssumption DEF Behind, Cells
    <2> QED
      BY <2>1, <2>2, <2>3, NAssumption DEF RingInit, Ordered
  <1>2. RingInv /\ InOrder => SentInOrder
    <2> SUFFICES ASSUME RingInv, Ordered, ren = "copy", status # "FINISH",
                        NEW k \in 0..(R - 1)
                 PROVE  mem[(r + k) % N] = (taken + k) % Numbers
      BY DEF InOrder, SentInOrder
    <2> USE NAssumption, RAssumption
    <2>1. r \in Cells /\ N \in Nat \ {0} /\ k \in 0..(N - 1) /\ r \in 0..(N - 1)
      BY DEF RingInv, RingTypeOK, Cells
    <2>2. Held >= R
      <3>1. valid >= R /\ valid \in Int /\ size \in Nat
        BY DEF RingInv, RingTypeOK, Counted, ReaderInRange
      <3> QED
        BY <3>1 DEF Held, Uncounted, Untaken
    <2> DEFINE i == IF r + k < N THEN r + k ELSE r + k - N
    <2>3. (r + k) % N = i
      <3> DEFINE y == r + k
      <3>1. y \in 0..(2 * N - 1)
        BY <2>1
      <3>2. y % N = IF y < N THEN y ELSE y - N
        <4> HIDE DEF y
        <4> QED
          BY <2>1, <3>1, Remainder
      <3> QED
        BY <3>2, <2>1
    <2>4. i \in Cells /\ Behind(i) = k
      BY <2>1 DEF Behind, Cells
    <2>5. k < Held
      <3>1. Held \in Int
        BY DEF RingInv, RingTypeOK, Held, Uncounted, Untaken
      <3> QED
        BY <2>2, <3>1
    <2> QED
      BY <2>3, <2>4, <2>5 DEF Ordered
  <1> QED
    BY RingInvariant, InOrderStep, <1>1, <1>2, PTL DEF RingSpec
=============================================================================
