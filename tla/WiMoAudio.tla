----------------------------- MODULE WiMoAudio -----------------------------
(***************************************************************************)
(* CWiMoAudio: who makes and deletes the ring, which threads work on it    *)
(* meanwhile, and what they hold.  Where the audio comes from depends on   *)
(* the method:                                                             *)
(*   hs      HSCapAudio reads it from Hisense's library;                   *)
(*   zte     ZTESaveAudioData reads it from a pipe;                        *)
(*   sw      Android's AudioRecord calls back, which ProcessAudio makes;   *)
(*   caller  the application calls SendAudioData, from a thread of its own.*)
(* What a thread does with an object that was deleted under it is not      *)
(* defined: it has no step here.                                           *)
(***************************************************************************)
EXTENDS LiveDataBuffer

CONSTANTS
  Methods,  \* the methods of a behaviour, iAudioCapMethod
  MaxValid  \* bound: a caller brings nothing more while validDataSize exceeds this

ASSUME MethodsAssumption == Methods \subseteq {"hs", "zte", "sw", "caller"}
\* It binds only after the end of the session, when SendData does not wait for room.
ASSUME MaxValidAssumption == MaxValid \in Nat /\ MaxValid >= N

VARIABLES
  method,
  place,   \* of who makes and deletes the object: in Init, after it, in UnInit
  ring,    \* what became of g_AudioBuff
  buff,    \* what became of audioDataBuff
  rec,     \* what became of the recorder; "late": made when UnInit had looked for it
  thread   \* the place of the method's own thread, or of the caller in SendAudioData

objVars == <<method, place, ring, buff, rec, thread>>
vars == <<ringVars, objVars>>

TypeOK ==
  /\ RingTypeOK
  /\ method \in Methods
  /\ place \in {"connect", "source", "up", "failed", "release", "joinCapture", "joinRender", "gone"}
  /\ ring \in {"none", "alive", "deleted"}
  /\ buff \in {"none", "held", "freed"}
  /\ rec \in {"none", "made", "late", "deleted"}
  /\ thread \in {"none", "test", "fill", "new", "start", "done"}

Init ==
  /\ RingInit
  /\ method \in Methods
  /\ place = "connect" /\ ring = "none" /\ buff = "none" /\ rec = "none" /\ thread = "none"

-----------------------------------------------------------------------------
(* Init.  That threads can be created is assumed. *)

Goes(from, to) == place = from /\ place' = to

\* The port cannot be bound: there is an object without a ring.
ConnectFails ==
  /\ Goes("connect", "failed")
  /\ UNCHANGED <<ringVars, method, ring, buff, rec, thread>>

\* The ring is made, and the render thread started.
Connects ==
  /\ Goes("connect", "source")
  /\ ring' = "alive"
  /\ UNCHANGED <<ringVars, method, buff, rec, thread>>

\* No memory for audioDataBuff, or no pipe to open: bAudioInit stays false.
SourceFails ==
  /\ Goes("source", "failed")
  /\ method \in {"hs", "zte"}
  /\ UNCHANGED <<ringVars, method, ring, buff, rec, thread>>

StartsSource ==
  /\ Goes("source", "up")
  /\ buff' = IF method \in {"hs", "zte"} THEN "held" ELSE buff
  /\ thread' = CASE method \in {"hs", "zte"} -> "test"
                 [] method = "sw" -> "new"
                 [] OTHER -> thread
  /\ UNCHANGED <<ringVars, method, ring, rec>>

Makes == ConnectFails \/ Connects \/ SourceFails \/ StartsSource

-----------------------------------------------------------------------------
(* UnInit, after the end of the session; of ZTE's method nobody calls it. *)

\* Nothing was made, or so it is taken to be: the object is deleted at once.
UnInitRefuses ==
  /\ Goes("failed", "gone") /\ status = "FINISH" /\ method # "zte"
  /\ UNCHANGED <<ringVars, method, ring, buff, rec, thread>>

UnInit ==
  /\ Goes("up", "release") /\ status = "FINISH" /\ method # "zte"
  /\ UNCHANGED <<ringVars, method, ring, buff, rec, thread>>

\* audioDataBuff is freed, the recorder stopped and deleted, which waits for its callback.
Releases ==
  /\ Goes("release", "joinCapture")
  /\ buff' = IF buff = "held" THEN "freed" ELSE buff
  /\ rec = "made" => cap = "idle"
  /\ rec' = IF rec = "made" THEN "deleted" ELSE rec
  /\ UNCHANGED <<ringVars, method, ring, thread>>

\* Only the object's own threads have a handle to join.
JoinsCapture ==
  /\ Goes("joinCapture", "joinRender")
  /\ method \in {"hs", "sw"} => thread = "done"
  /\ UNCHANGED <<ringVars, method, ring, buff, rec, thread>>

\* Mutant: the ring is deleted before the render thread has ended.
DeletesAtOnce ==
  /\ Goes("joinRender", "gone")
  /\ ring' = "deleted"
  /\ UNCHANGED <<ringVars, method, buff, rec, thread>>
\* The render thread is joined, the ring and the object are deleted.
Deletes ==
  /\ Goes("joinRender", "gone") /\ ren = "gone"
  /\ ring' = "deleted"
  /\ UNCHANGED <<ringVars, method, buff, rec, thread>>

UnInitWorks == Releases \/ JoinsCapture \/ Deletes

-----------------------------------------------------------------------------
(* Who brings the audio. *)

Moves(from, to) == thread = from /\ thread' = to /\ cap = "idle" /\ place # "gone"

\* The loops of HSCapAudio, which waits for the connection, and ZTESaveAudioData.
TestsStatus ==
  /\ method \in {"hs", "zte"}
  /\ \/ Moves("test", "done") /\ status = "FINISH"
     \/ Moves("test", "fill") /\ status # "FINISH" /\ (method = "hs" => status = "CONNECTING")
  /\ UNCHANGED <<ringVars, method, place, ring, buff, rec>>

\* Hisense's library has nothing.
FindsNothing ==
  /\ method = "hs" /\ Moves("fill", "test")
  /\ UNCHANGED <<ringVars, method, place, ring, buff, rec>>

\* The read of the pipe fails, which ends the thread.
ReadFails ==
  /\ method = "zte" /\ Moves("fill", "done")
  /\ UNCHANGED <<ringVars, method, place, ring, buff, rec>>

\* audioDataBuff is filled and handed to the ring.  Like a recorder's buffer it is smaller.
Fills(n) ==
  /\ n <= N
  /\ method \in {"hs", "zte"} /\ Moves("fill", "test") /\ SendData(n)
  /\ UNCHANGED <<method, place, ring, buff, rec>>

\* SendAudioData looks whether there is an audio object.
CallerTests ==
  /\ method = "caller" /\ Moves("none", "fill")
  /\ place \notin {"connect", "source"} /\ valid <= MaxValid
  /\ UNCHANGED <<ringVars, method, place, ring, buff, rec>>

\* It passes the data on, whatever the status and the size; without a ring the call is
\* undefined.
CallerSends(n) ==
  /\ method = "caller" /\ Moves("fill", "none") /\ SendData(n)
  /\ ring = "alive"
  /\ UNCHANGED <<method, place, ring, buff, rec>>

ProcessAudio ==
  /\ thread = "new" /\ thread' = "start" /\ place # "gone"
  /\ rec' = IF place \in {"up", "release"} THEN "made" ELSE "late"
  /\ UNCHANGED <<ringVars, method, place, ring, buff>>

\* The recorder starts, or fails, which ends the session.  One that UnInit has deleted
\* meanwhile is an undefined call, with one of these ends.
ProcessAudioEnds ==
  /\ thread = "start" /\ thread' = "done" /\ place # "gone"
  /\ status' \in {status, "FINISH"}
  /\ UNCHANGED <<valid, capVars, renVars, lost, method, place, ring, buff, rec>>

\* AudioRecordCb, on the recorder's own thread.
RecordCb(n) ==
  /\ n <= N
  /\ method = "sw" /\ rec = "made" /\ thread = "done" /\ status = "CONNECTING" /\ SendData(n)
  /\ UNCHANGED objVars

InRing == ring = "alive" /\ UNCHANGED objVars

\* The object's own threads, and a call of SendData that was begun.
CaptureWorks ==
  \/ TestsStatus \/ FindsNothing \/ ProcessAudio \/ ProcessAudioEnds
  \/ SendDataWorks /\ InRing

Brings == ReadFails \/ CallerTests \/ \E n \in Sizes : Fills(n) \/ CallerSends(n) \/ RecordCb(n)

Renders == RenderWorks /\ InRing /\ place # "gone"

-----------------------------------------------------------------------------
Ends == StatusChanges /\ UNCHANGED objVars

Quiet == status = "FINISH" /\ (place = "gone" \/ method = "zte") /\ UNCHANGED vars

Next ==
  \/ Makes \/ UnInitRefuses \/ UnInit \/ UnInitWorks
  \/ CaptureWorks \/ Brings \/ Renders \/ Ends \/ Quiet

Spec == Init /\ [][Next]_vars

\* The threads run; when there is audio, and when the session ends, is not theirs to say.
FairSpec == Spec /\ WF_vars(CaptureWorks) /\ WF_vars(Renders) /\ WF_vars(UnInitWorks)

-----------------------------------------------------------------------------
RenderRuns == ring # "none" /\ ren # "gone"
SourceRuns == method # "caller" /\ thread \notin {"none", "done"}

\* UnInit deletes nothing that a thread of the object still uses: the ring is there while
\* the render thread, the method's own thread or a callback may use it, and no recorder
\* that UnInit could see survives it.  Cases that are not so in the code are left out:
\* HSCapAudio may fill audioDataBuff after UnInit freed it, until UnInit has joined it; the
\* thread of a caller in SendAudioData is nobody's to join, so that it may write to a
\* deleted ring; a recorder made late is never stopped; and of an Init that failed half way
\* UnInit does nothing, so that the object goes under the render thread, its ring leaked.
HeldWhileUsed ==
  /\ ring = "deleted" =>
       /\ ~RenderRuns /\ ~SourceRuns /\ rec # "made"
       /\ cap = "idle" \/ method = "caller"
  /\ thread = "fill" /\ buff = "freed" => place = "joinCapture"

\* SendData does not wait for ever: the reader makes room, or the session ends.  A caller's
\* ring may be deleted before it looks again.  What less than one read left in the buffer
\* keeps out, a caller's larger write waits for the end of the session with.
SendDataReturns ==
  (cap = "wait" /\ size + (R - 1) <= N /\ status # "INITING")
    ~> (cap # "wait" \/ ring = "deleted")

\* UnInit returns: each thread and callback it waits for ends with the session.
UnInitReturns == place = "release" ~> place = "gone"
=============================================================================
