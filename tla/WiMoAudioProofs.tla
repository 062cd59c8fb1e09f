-------------------------- MODULE WiMoAudioProofs --------------------------
(***************************************************************************)
(* Proofs about WiMoAudio for every set of methods, and buffer, read and   *)
(* write size.  That the ring's part of each step is a step of             *)
(* LiveDataBuffer, or none, brings over what is proved there of any        *)
(* writer.  That nothing is deleted in use needs what UnInit relies on:    *)
(* the session is over when it is called, so that no callback begins, and  *)
(* which of the joins was passed.                                          *)
(***************************************************************************)
EXTENDS WiMoAudio, LiveDataBufferProofs

ObjTypeOK ==
  /\ method \in Methods
  /\ place \in {"connect", "source", "up", "failed", "release", "joinCapture", "joinRender", "gone"}
  /\ ring \in {"none", "alive", "deleted"}
  /\ buff \in {"none", "held", "freed"}
  /\ rec \in {"none", "made", "late", "deleted"}
  /\ thread \in {"none", "test", "fill", "new", "start", "done"}

\* In UnInit the session is over.
Ended ==
  place \in {"release", "joinCapture", "joinRender", "gone"} => status = "FINISH" /\ method # "zte"

\* Each method has its own places and things.
OwnThings ==
  /\ method = "caller" => thread \in {"none", "fill"}
  /\ method = "sw" => thread \notin {"test", "fill"}
  /\ method \in {"hs", "zte"} => thread \notin {"new", "start"}
  /\ buff # "none" => method \in {"hs", "zte"}
  /\ buff = "freed" => place \in {"joinCapture", "joinRender"} \/ ring = "deleted"
  /\ rec # "none" => method = "sw" /\ thread \notin {"none", "new"}
  /\ ring = "deleted" => place = "gone"
  /\ place \in {"connect", "source", "failed"} =>
       (thread = "none" \/ method = "caller") /\ buff = "none"

\* Who holds SendData: a thread that will test the status next, or a callback.
InSendData ==
  /\ thread \in {"fill", "done"} /\ method # "sw" => cap = "idle"
  /\ method = "sw" /\ cap # "idle" => rec = "made"

\* What each join, once passed, has seen the end of.
Joined ==
  /\ place \in {"joinCapture", "joinRender", "gone"} => rec # "made"
  /\ (place = "joinRender" \/ ring = "deleted") /\ method \in {"hs", "sw"} => thread = "done"
  /\ ring = "deleted" => ren = "gone"

ObjInv == ObjTypeOK /\ Ended /\ OwnThings /\ InSendData /\ Joined
-----------------------------------------------------------------------------
\* The ring's part of a step is a step of the ring, or none.
LEMMA RingStep == [Next]_vars => [RingNext]_ringVars
  <1> SUFFICES ASSUME Next PROVE RingNext \/ UNCHANGED ringVars
    BY DEF vars
  <1>1. CASE Makes \/ UnInitRefuses \/ UnInit \/ UnInitWorks \/ Quiet
    BY <1>1 DEF Makes, ConnectFails, Connects, SourceFails, StartsSource, UnInitRefuses, UnInit,
                UnInitWorks, Releases, JoinsCapture, Deletes, Quiet, vars
  <1>2. CASE CaptureWorks
    <2>1. CASE ProcessAudioEnds
      <3>1. CASE status' = status
        BY <2>1, <3>1 DEF ProcessAudioEnds, ringVars
      <3>2. CASE status' # status
        BY <2>1, <3>2 DEF ProcessAudioEnds, RingNext, StatusChanges
      <3> QED
        BY <3>1, <3>2
    <2> QED
      BY <1>2, <2>1 DEF CaptureWorks, TestsStatus, FindsNothing, ProcessAudio, RingNext
  <1>3. CASE Brings
    BY <1>3 DEF Brings, ReadFails, CallerTests, Fills, CallerSends, RecordCb, RingNext
  <1>4. CASE Renders \/ Ends
    BY <1>4 DEF Renders, Ends, RingNext
  <1> QED
    BY <1>1, <1>2, <1>3, <1>4 DEF Next

\* CWiMoAudio uses its LIVEDATABUFFER as LiveDataBuffer allows, whatever the method.
THEOREM RingImplemented == Spec => RingSpec
  <1>1. Init => RingInit
    BY DEF Init
  <1> QED
    BY <1>1, RingStep, PTL DEF Spec, RingSpec

\* What a step of SendData leaves alone.
LEMMA SendDataMoves ==
  ASSUME SendDataWorks
  PROVE  UNCHANGED <<status, ren>> /\ cap # "idle"
  BY DEF SendDataWorks, SendDataPasses, SendDataCopies, SendDataLoads, SendDataStores, renVars

\* What a step of the render thread leaves alone; once over it has no step.
LEMMA RenderMoves ==
  ASSUME RenderWorks
  PROVE  UNCHANGED <<status, cap>> /\ ren # "gone"
  BY DEF RenderWorks, RenderTests, GetData, GetDataCopies, GetDataLoads, GetDataStores,
         ResetValidDataSize, capVars

LEMMA InitObjInv == Init => ObjInv
  BY DEF Init, RingInit, ObjInv, ObjTypeOK, Ended, OwnThings, InSendData, Joined

\* What can be in use is not deleted by any step.
LEMMA ObjStep == ObjInv /\ [Next]_vars => ObjInv'
  <1> SUFFICES ASSUME ObjInv, Next PROVE ObjInv'
    BY DEF ObjInv, ObjTypeOK, Ended, OwnThings, InSendData, Joined, vars, ringVars, objVars,
           capVars, renVars
  <1> USE MethodsAssumption DEF ObjInv, ObjTypeOK, Ended, OwnThings, InSendData, Joined
  <1>1. CASE Makes
    BY <1>1 DEF Makes, Goes, ConnectFails, Connects, SourceFails, StartsSource, ringVars,
                capVars, renVars
  <1>2. CASE UnInitRefuses \/ UnInit
    BY <1>2 DEF Goes, UnInitRefuses, UnInit, ringVars, capVars, renVars
  <1>3. CASE Releases
    BY <1>3 DEF Goes, Releases, ringVars, capVars, renVars
  <1>4. CASE JoinsCapture
    BY <1>4 DEF Goes, JoinsCapture, ringVars, capVars, renVars
  <1>5. CASE Deletes
    BY <1>5 DEF Goes, Deletes, ringVars, capVars, renVars
  <1>6. CASE TestsStatus
    BY <1>6 DEF TestsStatus, Moves, ringVars, capVars, renVars
  <1>7. CASE FindsNothing \/ ReadFails
    BY <1>7 DEF FindsNothing, ReadFails, Moves, ringVars, capVars, renVars
  <1>8. CASE CallerTests
    BY <1>8 DEF CallerTests, Moves, ringVars, capVars, renVars
  <1>9. CASE ProcessAudio
    BY <1>9 DEF ProcessAudio, ringVars, capVars, renVars
  <1>10. CASE ProcessAudioEnds
    BY <1>10 DEF ProcessAudioEnds, capVars, renVars
  <1>11. CASE SendDataWorks /\ InRing
    BY <1>11, SendDataMoves DEF InRing, objVars
  <1>12. ASSUME NEW n \in Sizes, Fills(n) \/ CallerSends(n) \/ RecordCb(n) PROVE ObjInv'
    BY <1>12 DEF Fills, CallerSends, RecordCb, Moves, SendData, renVars, objVars
  <1>13. CASE Renders
    BY <1>13, RenderMoves DEF Renders, InRing, objVars
  <1>14. CASE Ends
    BY <1>14 DEF Ends, StatusChanges, objVars, capVars, renVars
  <1>15. CASE Quiet
    BY <1>15 DEF Quiet, vars, ringVars, objVars, capVars, renVars
  <1> QED
    BY <1>1, <1>2, <1>3, <1>4, <1>5, <1>6, <1>7, <1>8, <1>9, <1>10, <1>11, <1>12, <1>13, <1>14,
       <1>15 DEF Next, UnInitWorks, CaptureWorks, Brings

\* The inductive invariant of the object.
THEOREM ObjInvariant == Spec => []ObjInv
  BY InitObjInv, ObjStep, PTL DEF Spec

\* The object's and the ring's variables keep their types, whichever method is chosen.
THEOREM TypeCorrect == Spec => []TypeOK
  <1>1. RingTypeOK /\ ObjInv => TypeOK
    BY DEF TypeOK, ObjInv, ObjTypeOK
  <1> QED
    BY <1>1, RingImplemented, RingTypeCorrect, ObjInvariant, PTL

\* UnInit deletes the ring and the recorder under no thread it joins, and audioDataBuff under
\* HSCapAudio only until it has joined that.
THEOREM AlwaysHeldWhileUsed == Spec => []HeldWhileUsed
  <1>1. ObjInv => HeldWhileUsed
    BY MethodsAssumption DEF ObjInv, ObjTypeOK, Ended, OwnThings, InSendData, Joined,
       HeldWhileUsed, RenderRuns, SourceRuns
  <1> QED
    BY <1>1, ObjInvariant, PTL
=============================================================================
