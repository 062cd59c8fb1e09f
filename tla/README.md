# A verification project for the WiMo screen mirroring code

The repository is a family of screen mirroring programs.  Its core is `libciwimo`
(`TAIFATECH/ANDROID/scJNI`): an Android library that captures the screen, encodes it as JPEG
and sends it over UDP to a receiving device (the RX), with the sound beside it.  Java SDKs and
applications sit on top of it.  `WiFiDirectDemo/jni/wifidisplay` is the other direction, a WiFi
Display sink: RTSP, RTP and a renderer, a modified part of Android.  Everything else are older
single-file versions, test programs and iOS ports.

Paths below are relative to `src/`; `scJNI/` means `TAIFATECH/ANDROID/scJNI/src/`.

## 1. Inventory

| component | state it keeps | operations | how it interacts |
|---|---|---|---|
| `CWiMoControl` (`scJNI/cidana_screencap_Capture.cpp`) | `statusWiMo` (INITING, CONNECTING, FINISH), pointers to the other objects, thread handles, capture and audio method, frame size, rotation | `StartWiMo`, `Init`, `UnInit`, `StopWiMo`, `NotifyUIStop`, `CheckConnectTimeoutThread`, `SendVideoData`, `GetVideoDataBuff`, JNI wrappers | creates and destroys everything else; every thread of every object reads `statusWiMo`, six places in four threads write it; calls back into Java |
| `CWiMoNetwork` (`scJNI/capture_network.cpp`) | `IOCtrlStep` (1..11), the last answers, `server`, `iDisconnectReason`, `overTime`, the socket | `InitNet`, `UnInitNet`, `HandshakeThread`, `NetworkRecvThread`, `CheckAliveAndResponseReportThread`, `SendJPGVideo`, `SendTick` | three threads on one object; UDP with the RX; takes JPEGs from `CWiMoVideo` |
| `CWiMoVideo` (`scJNI/capture_video.cpp`) | double JPEG buffer with ready flags, source buffers | `LoopThread` and its capture loops, `YUV2JPG`, `GetJPEGData` | produces for the network's handshake thread; ends the session on an error |
| `CCPUControl` (`scJNI/checkCPU.cpp`) | frame rate, the last load sample | `LoopCheckCPUUtilization`, `UpdateFramesAccordingToCPU` | sets the capture loop's pace |
| `CWiMoAudio`, `LIVEDATABUFFER`, `CSENDAUDIO` (`scJNI/capture_audio.cpp`) | a ring with read and write pointers and `validDataSize`, the RTP header | capture threads, `AudioRenderThread`, `SendData`, `GetData` | two threads on the ring, no lock |
| `JARWIMO`, `JARInterfaceWiMo` (Java) | `mStatus`, the device list | start, stop, callbacks | calls the JNI wrappers, is called back on native threads |
| `CWfdHelper` and the preview activity (`WiFiDirectDemo/jni/wifidisplay/wfd.cpp`, `WifiDisplayPreviewActivity.java`) | the sink, its looper, the network session | `Start`, `Stop` | on the activity's thread; waits for the looper's answer and for both threads |
| `WifiDisplaySink` (`.../sink/WifiDisplaySink.cpp`) | `mState`, `mSessionID`, `mNextCSeq`, `mResponseHandlers`, `mRTPSink` | `onMessageReceived`, the requests M2, SETUP, PLAY, TEARDOWN and their response handlers | a handler of the looper; makes and releases the RTPSink |
| `RTPSink`, `TunnelRenderer` (`.../sink`) | RTP sources with their sequence numbers, the reordering queue, what was asked for | `parseRTP`, `updateSeq`, `onPacketLost`, `onSendRR`, `queueBuffer`, `doSomeWork` | handlers of the same looper; the media player's binder threads enter `doSomeWork` |
| `ANetworkSession` (`.../ANetworkSession.cpp`) | the table of sessions, the wake-up pipe | `create...`, `destroySession`, `sendRequest`, `threadLoop` | a thread of its own, one lock; notifies the handlers by messages |
| Applications, legacy, tests, iOS | user interface, older copies | | |

What is hard in it: `libciwimo` is seven threads that share an `int`, a handful of flags and a few
pointers with **no lock at all**.  The session may be ended by the caller, the device, silence, a capture
error, a failed handshake or a timeout, all at once; and it is taken apart by whichever
of two threads gets there.  The properties that make the components correct are those of
section 4; the list of hazards, each at its line, is `hazards` in `PROJECT.json`.

## 2. Plan

Modules in order; those marked * exist.

1. * `WiMoControl`, `WiMoControlProofs`: the session: who starts, ends, reports and cleans up.
2. * `LiveDataBuffer`, `LiveDataBufferProofs`: the audio ring, for any writer; * `WiMoAudio`,
   `WiMoAudioProofs`: the audio object, which makes and deletes it, with the writers of each method.
3. * `Pairing`, `WiMoHandshake`, `WiMoHandshakeProofs`: what the handshake promises, and the
   twelve steps with lost, late and foreign answers, which implement it.  `WiMoControl`
   abstracts the steps into "another turn".
4. * `JpegHandoff`: the JPEG buffers between encoder and sender; * `VideoPath`, which composes
   it with the caller's pictures, and `VideoPathProofs`.  Left of this part: `JpegPackets` (the cut of a frame into packets
   against its reassembly, a pure algorithm checked over all sizes around the boundaries),
   `FrameRate` (`CCPUControl`).
5. * `Playout` (an ordered, duplicate-free stream with gaps, abstract), `TunnelRenderer` (the
   reordering queue, which implements it), `RtpSource` (sequence numbers, probation, restart),
   their composition `RtpSink`, and `RtpSinkProofs`.
6. * `NetworkSession` (sockets and select), `WifiDisplaySink` (RTSP and the life of the RTPSink),
   their composition with the activity and the source `WfdPlayer`, with `WfdPlayerProofs` and
   `WfdChecksProofs`.
7. The Java SDK's status over `WiMoControl`.

Theorems, in order: type correctness of every component, bounds of the ring, the handshake and
its promise, no thread outlives its object, the renderer's queue and its promise, lost wake-ups,
which CHECKs fail and when; who cleans up and what is reported, the order in the ring while no update
is lost, the attempts of the handshake and its receiver, `WholeFrames`, the order of the RTP stream, the
order of the frames in `VideoPath` (done).  What the modules left in this plan promise is to be
proved with them.

## 3. Modules and how they correspond to the code

### WiMoControl

One `pc[t][s]` gives the place of thread `t` of session `s`; the caller's thread has its place
in `ui`, and `un[o]` is the place inside `UnInit`, which the caller or a timer thread runs.
`status` is `statusWiMo`: each read and each write of it is a step of its own, because no lock
protects it and other threads run between any two.  `ptr` are the pointers of `CWiMoControl`,
`life` what became of each session's objects, `reason` the `iDisconnectReason` of each network
object, `hnd`/`aliveHnd` the thread handles on which joins depend.

| code | model |
|---|---|
| `StartWiMo`, `Init`, `INIT_FAILED_JUMP` | `StartWiMo` (the test of the status), `StartSetIniting` (its store), `InitFails`, `InitObjects`, `InitNewNetwork`, `InitPublish`, `StartTimer`, `StartFailed` |
| `StopWiMo`, `UnInit`, `UnInitNet` | `StopWiMo`, `StopSetFinish`, `StopJoinsCapture`, `StopJoinsTimer`, `JoinCheckAlive` ... `DeleteRest` |
| `CheckConnectTimeoutThread` | `Timer*` |
| `HandshakeThread` | `Handshake*`: the steps up to 11 are one choice here |
| `NetworkRecvThread`, `NotifyUIStop` | `Recv*` |
| `CheckAliveAndResponseReportThread` | `Alive*` |
| `LoopThread`, `LoopCheckCPUUtilization` | `CaptureEnds`, `CaptureFails` |

Time is a choice: a thread that waits may find its time over whenever the code allows it.
Creating a thread is assumed to succeed.

What the code does where a property has to make an exception:

* A session that ended itself leaves `statusWiMo` at FINISH, so `StopWiMo` does nothing and the
  next `StartWiMo` begins beside what is left of it (`overlapped`).  The old timer thread then
  reads another session's status and may report its success; it may find `pCNetwork` null
  where `Capture.cpp:760` dereferences it (the model leaves that step disabled).  Two timers may take
  the same object apart, and a session may be told the other's reason: `OneDeletes`, `PointerIsOwn`,
  `KickIsReported` and `SuccessIsOfTheSession` are stated of sessions that do not overlap.
  `PointerIsOwn` is about every use of `pCNetwork` by these threads, also the one at
  `Capture.cpp:836`, where the success of a transport stream session is told with the device's address.
* When the handshake thread stores CONNECTING over a FINISH (`overwritten`), the stop is lost.
* The handle of the alive thread is stored after CONNECTING: an `UnInitNet` in between
  deletes the object under that thread.  `StopLeavesNothing` allows that thread, and of the session
  stopped a capture or load thread whose handle was stored just as late: of threads
  whose handles were there in time none is left.
* Of ZTE's audio mixer the audio object is never deleted: `UnInit`'s list of methods is shorter
  than `Init`'s.

### WiMoHandshake and Pairing

`step` is `IOCtrlStep`.  Sender and receiver both increment it with `++` and no lock: a load
(`hsStep`, `rxStep`) and a store.  `asked` holds the requests a device may still answer: an
answer may be lost (never taken), repeated, or late.  `timing` says what may be the case in a
behaviour: `prompt`, no answer outlives the 500 ms of its attempt; `late`, answers may; `slow`,
the receive thread may also sleep within a handler longer than a turn of the sender's loop.

| code | model |
|---|---|
| `HandshakeThread`, the even steps and 1, 9, 10 | `SendDiscovery`, `StartAfresh`, `QuitWithoutSize`, `SendConnect`, `SendPassword`, `SendSourceStatus`, `PassStep` |
| its steps 3, 5, 7 and 11 | `Wait`, `GiveUp` with `ResetStep`, `Connect` |
| `IOCtrlStep++` | `HandshakeLoads`, `HandshakeStores`, `RecvLoads`, `RecvStores` |
| `NetworkRecvThread`'s handlers of the three answers | `RecvAnswer` with `Takes`, `TakeServer` |

`Pairing` is what the rest of the session relies on: the status becomes CONNECTING at most once
and only after a device granted the password.  `PairingSpec` says that the handshake implements
it, with the three variables mapped to themselves unless the timing is slow.  In slow timing
the increments add up: the password's answer may be stepped over, the connect request may go to
the broadcast address, and from step 12 the sender spins until the 30 s are over.  With late
answers and two devices the video may go to a device other than the one that granted the
password, which is why `VideoGoesToGranted` is stated of prompt timing only.

### JpegHandoff and VideoPath

`flag` are `m_bSendBuffFlag1/2`, `idx` is `iCallingBuffIndex`, and `buf` what the two buffers
hold: the number of a frame, or `Torn`.  `Capture` is the capture loop of each of the methods
(`two`: the software loops; `game`: the same with the caller's pictures; `hisense`; `lenovo`: one
buffer and the index), `Send` is `SendJPGVideo` with `GetJPEGData`, every load and store of the
shared fields a step.

| code | model |
|---|---|
| `YUV2JPG`, `LoopHSVideo`, `LoopLNVVideo` | `EncodesInto`, `EncodeBegins`, `Encoded`, `EncodeDiscards`, `EncodeFlags`, `EncodePoints` |
| `LoopThread` and the conditions of the loops | `CaptureEnds`, `CaptureFails` |
| `GetJPEGData` | `GetNothing`, `GetLooks`, `GetPicks`, `GetPoints`, `GetSize`, `GetEmpties` |
| `SendJPGVideo` | `SendTests`, `SendCopies`, `SendPackets`, `SendTurns` |
| `SendVideoData` with a picture in ARGB8888 | `CallerLocks`, `CallerFills`, `CallerFilled`, `CallerGivesSize`, `CallerDrops` |
| `GetVideoDataBuff`, `ProcessVideo` of METHOD_GAME_INTERFACE | `TakeTests`, `TakeSwitches`, `TakeFlags`, `TakeEmpties`, `TakeConverts`, `TakeEncodes`, `TakeDrops`, `TakeEnds` |

The sender tests the flags, tests them again to pick a buffer, and only then points the index:
that is safe only because encoding takes tens of milliseconds.  Nothing in the code sees to it, so a frame
may be done at any time here.  It is in time if, begun within a call of `GetJPEGData`, it is not done
before this call and, if it returned nothing, the next have returned (`within` counts the calls);
`raced` remembers that one was not.  After such a race the code does tear frames and send them out of
order, and so does the model: `WholeFrames` and `SentInOrder` say what holds until then.
Two more exceptions are in `WholeFrames`, because the code does tear these frames: the first, which
the encoder replaces as long as the index is CALLINGENTRANCEFIRSTLY, and those sent while the
software loop's error path frees the buffers.

The caller's pictures pass through another pair of buffers, with flags, an index and sizes of
their own, and `bLock`, which both sides look at and nobody waits for.  The caller may set it between
the capture thread's test and its switch of the index, and then writes the picture that is being
converted: `raced` remembers this too.  A picture the encoder has no
buffer for is dropped, as is one the caller brings while the buffers change sides.

Frames are assumed not to be empty: Lenovo's loop
ignores a failed encode, and a size of 0 would stop its video for good.

### LiveDataBuffer and WiMoAudio

The ring `LIVEDATABUFFER` with its two users: whoever writes (`SendData`) and `AudioRenderThread`
(`GetData`, `ResetValidDataSize`).  A byte is the number of the byte in the
stream, modulo twice the buffer, so that order can be told.  `validDataSize` is read in one step
and stored in another; `lost` remembers that an update was lost, after which the content may be
out of order (that is what the code does), while the bounds still hold.

Nobody checks the size a caller gives to `SendAudioData`, so `Sizes` is any set of numbers (a
negative size, which would become a huge one in `memcpy`, is left out).  A write larger than the
buffer finds no room while the session lasts; after its end it no longer waits, and leaves the buffer:
`CopiesInBounds` speaks of every copy of the session, and after it of those that fit the buffer.

`WiMoAudio` is the object around the ring: `place` is where its maker and deleter is (`Init`, the
session, `UnInit`), `thread` the place of the method's own thread or of a caller in `SendAudioData`;
`ring`, `buff` and `rec` say what became of `g_AudioBuff`, `audioDataBuff` and the recorder.

| code | model |
|---|---|
| `Init`, `ConnectServer`, `ZTEAudioBufferInit` | `ConnectFails`, `Connects`, `SourceFails`, `StartsSource` |
| `UnInit`, called by `CWiMoControl::UnInit` | `UnInitRefuses`, `UnInit`, `Releases`, `JoinsCapture`, `Deletes` |
| `HSCapAudio`, `ZTESaveAudioData` | `TestsStatus`, `FindsNothing`, `ReadFails`, `Fills` |
| `ProcessAudio`, `AudioRecordCb` (the build with `AUDIO_SW`) | `ProcessAudio`, `ProcessAudioEnds`, `RecordCb` |
| `SendAudioData` | `CallerTests`, `CallerSends` |
| `AudioRenderThread` | `Renders`, over the ring's `RenderTests` ... `ResetValidDataSize` |

A FINISH is final here; that the handshake may store CONNECTING over it is `WiMoControl`'s subject.
An application brings audio of its own only where the method has no source.  What the code does
where `HeldWhileUsed` has to make an exception:

* `UnInit` frees `audioDataBuff` first and then joins `HSCapAudio`, which may be filling it.
* If Hisense's buffer cannot be had, `bAudioInit` stays false: `UnInit` returns at once, and the
  object is deleted under the render thread that `Init` had started.
* `ProcessAudio` may make the recorder after `UnInit` has looked for it: nobody stops it.  It may
  also be about to start the recorder that `UnInit` deletes.
* A caller that sleeps in `SendData` wakes up at FINISH and writes, while `UnInit`, which has no handle of
  that thread, deletes the ring.

### RtpSource, TunnelRenderer, RtpSink and Playout

`RtpSource` is `RTPSink::Source`: `updateSeq` as an operator on a record, with the modulus of the
sequence number (2^16 in the code) and the two thresholds (3000 and 100) as constants.
`TunnelRenderer` is the queue with its order and `doSomeWork`, which runs on the looper and on the
player's binder threads: `pc[t]` is the place of a thread, `streamLock` the lock of the stream
source; `available` are the buffers the player gave.  A buffer that comes while another thread is
inside is noticed only by who works, which is what `NoMissedWork` is about.  The 50 ms after which a
missing packet is given up are the choice `TimePasses`.  `RtpSink` adds the sender and the network:
packets are lost, repeated and reordered, the sender restarts with another number.

| code | model |
|---|---|
| `Source::initSeq`, `updateSeq`, `queuePacket` | `InitSeq`, `UpdateSeq` with its four cases, `QueueBuffer` |
| `TunnelRenderer::queueBuffer`, `onMessageReceived` | `Insert`, `Duplicate`, `OnQueueBuffer` |
| `StreamSource::onBufferAvailable`, `doSomeWork` | `OnBufferAvailable`, `Enter`, `Leave`, `Delivers` |
| `dequeueBuffer` | `Dropped`, `FindsNothing`, `FindsNext`, `Waits`, `Skips` |
| `RTPSink::parseRTP`, `onPacketLost`, its errors | `OnDatagram`, `OnPacketLost`, `OnError` |

`Playout` is what a player may rely on: what it is given has ever greater extended numbers.
`PlayerSpec` says that the renderer implements it.  The order of the sender is another matter:
`SendingOrder` excepts a packet from before a wrap that comes after it, whose cycle the code
counts wrongly (`rtp_wrap`).  It also needs the two thresholds to leave room in the modulus, `Wide`:
3000 and 100 in 65536 do.  With 2 and 4 in 6 a new packet may be taken for a late one and be dropped.

### NetworkSession, WifiDisplaySink and WfdPlayer

`NetworkSession` is `ANetworkSession`: `sessions` the table, `thread` the place of the network
thread: it collects the descriptors under the lock, sleeps in select without it, and takes it again to
serve (`lock`, `serve`).  In between a session may be destroyed and its descriptor, the lowest that is
free, given to a new one; `rs` and `ws` are sets of descriptors for that reason.  `pipe` says that
`interrupt` wrote.  `WifiDisplaySink` adds the looper's handlers, each one step, and `WfdPlayer` the
activity's thread, the source and the network.  The source may send requests, answers, refusals and '$'
frames, the network datagrams, empty ones and ICMP errors, at any time the sockets are there.  `aborted` is the CHECK,
or the call through a null pointer, that ended the process; nothing happens after it.  `faults` remembers
that the source refused or sent a frame, `failed` for which UDP sessions an empty datagram or an error
came: the causes that `ChecksHold` names.

| code | model |
|---|---|
| `Session::readMore`, `writeMore`, `notifyError` | `ReadsDatagram`, `ReadsStream` with `Notification` (a request or answer, or a '$' frame), `Connects`, `Sends`, `FailsToSend`, `FindsNothingToSend`, `Fails` |
| `create...`, `destroySession`, `sendRequest`, `interrupt` | `Created`, `Destroyed`, `Sent`, `Interrupt`, within the steps that call them |
| `threadLoop` | `Collects`, `Selects`, `SelectFails`, `ServedAll`, `Leaves` |
| `WifiDisplaySink::onMessageReceived` | `OnStart`, `OnError`, `OnConnected`, `OnData`, `OnBinaryData`, `OnStopConnected`, `OnStopAtOnce`, `OnTeardownTimedOut` |
| `onReceiveClientData`, the request and response handlers | `OnReplyRequest`, `OnOptionsRequest`, `OnSetupTrigger`, `OnTeardownTrigger`, `OnSimpleResponse`, `OnSetupResponse`, `FailsOnResponse`, `FailsToConnect`, `FailsToPlay`, `Unsolicited`, `CannotReply` |
| `CWfdHelper::Start`, `Stop`, the preview activity | `Starts`, `Stops`, `SurfaceDestroyed`, `PlaybackCompletes`, `StopsSink`, `JoinsThread` |
| the source and the network (not in the repository) | `Connection`, `Disconnection`, `Asks`, `Answers`, `Refuses`, `Frames`, `Arrives` |
| `RTPSink` and `TunnelRenderer`, their life only | `NewSink`, `OnDatagram`, `OnQueueBuffer`, `Reports`, `SetupWithoutPlayer` |

What the steps leave out, and why they may.  While the network thread serves it holds the lock:
others then wait in the model even where the code would not wait, because what they do can as well
be done before or after.  A delayed message (the end of a teardown, a report) is handled when its
time is over, without a place in the queue: its time is not determined, so that whatever is before it in the
queue can have come earlier.  `StopsSink` is all of `Stop` between the looper's answer and the
join of the network thread, which is the only other thread by then.

Much of what a source does ends the process at a CHECK.  `ChecksHold` gives each CHECK its
cause, and says that it fails for no other:

* A send that fails does not end the reading: a request behind the error is answered on a
  destroyed session, and its CHECK ends the process (`wfd_replies`).  That takes a connection that
  has ended and whose loss was handled; so does a PLAY that cannot be sent.
* A request the source refuses fails the CHECK of its answer.
* An empty datagram gives `-ECONNRESET`, and the RTPSink forgets that session: if it, or an ICMP
  error, comes before the answer to SETUP, the ports cannot be connected, and the CHECK at
  `WifiDisplaySink.cpp:513` ends the process.  The cause must have come for a session of the RTPSink that
  stands: the error of an earlier one, told late, must not be taken for it.
* The sink never asks for interleaving, but a source that sends one '$' frame all the same fails
  `CHECK(sUseTCPInterleaving)` (`WifiDisplaySink.cpp:228`).
* A second SETUP releases the first RTPSink's sockets, whose descriptors the new ones get: a bit
  that select set for the old socket makes the thread write for the new one, whose CHECK on an
  empty queue fails.
* An RTPSink released between the first datagram and its delivery to the renderer: the renderer
  stops a player it has not.

What the code does where the other properties have to make an exception:

* A second SETUP before the answer to the first: the answer to the first connects the second's
  sockets (`TransportIsOwn`).
* If the looper cannot be started, `Start` calls `Stop`, which waits for a looper that does not
  run; `StopReturns` is stated of a looper that does.

## 4. Runs

| run | bounds | what it shows |
|---|---|---|
| `session` | one session of Hisense's method with software audio, all events (91,066 states) | clean-up is complete, also after an `Init` that failed half way; nobody deletes twice, a kick is reported; `StopWiMo` returns, ends are told, starts are decided |
| `restart` | two sessions of the transport stream method, with or without a completed `StopWiMo` between them; the handshake may fail (508,262 states) | after a completed stop the second session meets nothing of the first; without one, what still holds; success is of the session |
| `stale_success`, `disconnect_byte`, `timeout_reason` | one session of a software method, the one event that matters | three disagreements with the repository's own words, `findings` |
| `audio` | four methods; 4 bytes of buffer, reads of 2, writes of 1, 3 and, larger than the buffer, 6; a caller brings nothing more when `validDataSize` exceeds `MaxValid` = 4, which happens only after the session (203,018 states) | the ring's bounds, order and progress; what is deleted is not in use; `UnInit` returns |
| `handshake` | two devices, three timings, the frame's size known or not, two restarts | the order of the steps, who is asked, who gets the video, that `Pairing` is implemented, and that a decision is reached |
| `handoff` | four methods, frames told apart modulo 6; with the caller's pictures a behaviour is followed up to the first race lost (1,034,046 states) | frames leave whole, in order, and go on leaving, from the caller's hand or the screen to the packets |
| `rtp` | two senders (alike: the symmetry is sound, the properties are safety), numbers modulo 5 that start before the wrap, five packets each, losses, repetitions, delays and one restart, one binder thread with two buffers | order of the playout, one request for a gap, nothing new dropped, no buffer waits beside its packet |
| `rtp_wrap` | one sender, seven packets | a packet from before the wrap is shown again |
| `wfd` | `MaxEvents` = 2 requests, refusals, '$' frames, datagrams or failures of the network in any combination, one report for each RTPSink, five sessions, three descriptors, one message on its way (416,705 states) | what makes each CHECK fail, the ports are the right ones, no wake-up is lost, stop returns, a loss is told |
| `wfd_replies` | the same | a request behind a failed send ends the process |

Why these bounds are enough.  Two sessions suffice for the pointers: a third meets the second as
the second met the first; and what `restart` shows of threads and objects is proved for any
number (section 5).  One session has all seven threads.  In the ring, writes of 1 and 3 into 4
bytes wrap at every offset, and the read size does not divide them.  Two devices make a wrong
one possible; after `MaxRestarts` the network must answer in time if it was asked, and two
restarts allow an answer to be two attempts late.  Two buffers hold at most two frames besides
the one being sent, so 6 numbers tell "later" from "earlier" (they suffice for the proof, too).
The other methods are followed past a lost race, so that torn frames and what comes after them
are among the states.  In `wfd` two events make every pair:
two SETUPs, a SETUP and a datagram, a request and a failure, a SETUP and a refusal; each cause in `ChecksHold` and
the exception of `TransportIsOwn` happens within them (with it taken out, TLC finds the case), and the
activity may stop at any point of it.  Two SETUPs use the sessions 1 to 5 and, with the
first two closed, three descriptors.

`wfd` does not check for deadlock, nor does `rtp`: the process ends, and a sender that has nothing
to send leaves nothing to do.

Fairness.  Of the player of WiFi Display: the network thread, the looper, the timer of the teardown,
and the activity's thread go on when they can; the source, the network and the surface owe
nothing.  Reports would go on for ever every two seconds; they are bounded, and with them what the
network thread can do without the others coming to the lock.

In `libciwimo` every thread keeps running (weak fairness per thread): the code's waits are all polls
with a sleep, and the receive has a timeout of half a second.  In `audio` it is the threads of the object and an `UnInit` that was begun;
who brings audio need not.  Nothing is assumed of the caller
between calls, or of the device, with two exceptions, both strong fairness of something outside
the program: in `handshake` an answer that is waited for again and again comes at last (without it
nothing could ever connect), and in `handoff` what brings the pictures: Hisense's capture service,
which goes on delivering, at last delivers one in the rotation asked for, and a caller with
pictures goes on bringing them, not for ever just when the capture thread looks.  `handoff` also assumes
that from some time on encoding is in time (`InTime`): if it never were, the sender could find the buffer
it has sent again and again, and nothing more would be sent; TLC finds that lockstep in
a model without the assumption.  The liveness properties of `WiMoControl`
say "or `overwritten`": when the handshake thread stores CONNECTING over a FINISH (hazard at
`capture_network.cpp:821`) the session goes on, and a `StopWiMo` that waits for it may wait for ever.

## 5. Proofs

Each `Proofs` module proves its theorems for every value of the constants, from the named
assumptions of the module it extends and nothing else.

**`WiMoControlProofs`**: `TypeOK`, and `ThreadsOutliveNothing`, for any number of sessions, every
capture and audio method, any set of events.  `ThreadsOutliveNothing` is not inductive: that a
deleted object has no handshake thread depends on how its deletion came about.  `IInv` adds to
`TypeOK`:
`Begun` (inside `StartWiMo` there is a session); `PointersBegun` (`pCNetwork` is only ever an object
whose `InitNet` is over, so its two threads will not be created again once they have ended);
`NoThreadsYet` (a session that has not begun has no thread); `UnInitOrder` (each `UnInit` has joined
what its progress says, of an object that is born); `NetworkThreads` and `CaptureThreads` (what a
deleted object still has is a thread whose handle is set).  The steps are proved in four groups:
the caller's, those of `UnInit`, those that create a thread, and the many that move one thread
and touch nothing else (`AloneSafe`).

What is said of sessions that do not overlap rests on `LInv`: `IInv`, `NetAlive` (the threads of a
network object run on one that is alive), `Fresh` (a session's network threads are not there before
`InitNet`), and, unless sessions have overlapped, `Tidy`.  That is
`OnlyOurs` (whatever thread or object there is belongs to the session at hand), `Begins` (`Init` begins with
nothing), `TimerOwn` (`StopWiMo` joined the timer before its own `UnInit`, so that only one runs, and a
timer that still decides has its object) and `Apart` (how far `UnInit` has come with the object).
From it follow `StopLeavesNothing` (whose alive, capture and load threads are in `NetworkThreads` and
`CaptureThreads`), `OneDeletes` and `PointerIsOwn`.  `TInv` adds what is known when
something is reported: `KickHasReason` and `Kicks` (a reason of KICKED has a kick behind it, which ended the
receive loop) and `Connected` (a status of CONNECTING, and a timer that has read it, speak of a session
whose own handshake connected); from it follow
`SuccessIsOfTheSession` and `KickIsReported`.

**`LiveDataBufferProofs`**: `RingTypeOK`, `ValidInRange` and `CopiesInBounds` for every buffer size,
read size and set of write sizes, also those larger than the buffer, and for any writer.  `RingInv` adds to `RingTypeOK` what ties a value a
thread loaded to the one it will store: `Room` (a writer that passed its test still has room, since
only it adds), `Over`, and `Counted` (while the session lasts the counter is within the buffer whatever
updates were lost).  It uses the lemma `NumbersMod` on remainders.  `SentInOrder` needs, while no
update was lost, `Ordered`: the pointers are as far apart as the counter, corrected by what either
thread copied and has not counted yet, says, and each cell between them holds the byte whose number
its distance from the read pointer gives.

**`WiMoAudioProofs`**: `RingImplemented`, that each step of `WiMoAudio` is one of the ring or leaves it
alone, which brings the theorems above over to every method; `TypeOK` and `HeldWhileUsed`.  `ObjInv`
adds what `UnInit` relies on: `Ended` (the session is over when it is called, so that no callback
begins), `OwnThings` (which places and things each method has), `InSendData` (who may be inside
`SendData`) and `Joined` (what each join has seen the end of).

**`WiMoHandshakeProofs`**: `TypeOK`, `StepNeedsGrant`, `ServerIsDevice`, and that the handshake
implements `Pairing`, for any devices, restarts, and answers of any age.  `IInv` is `TypeOK`, `Once`
(CONNECTING is the last thing the sender stores) and, unless the timing is slow, `Quick`: between
the receiver's test of the step and its increment the sender can only reset the step, so that an
increment never meets another one.  `FreshSession` holds in slow timing too (`Unasked`): until the disconnect
command is sent only the discovery is asked for, and as many increments as there can be with
that get no further than step 5.  `VideoGoesToGranted` holds in prompt timing: whatever was asked
beyond the discovery was asked of the server (`OneReceiver`), so that the server granted the
password (`GrantedIsServer`).

**`RtpSinkProofs`**: `TypeOK`, `QueueSorted` (which `PlayerSpec` rests on, and no run lists), `NoMissedWork`, `AskedOnce`, and that `RtpSink`
implements `Playout`, for every modulus, bound and number of binder threads and buffers.  `IInv` is
`TypeOK`, `LockOwned` (who is inside `doSomeWork` owns the lock, and nobody else is),
`QueueSorted`, `NoMissedWork` and `AskedForNext` (what was asked for is the number after the last one
shown).  The steps of the looper keep what the renderer's steps rely on, so that each half is
proved for itself.  `NothingNewDropped` and `SendingOrder` need `Wide` (section 3) and the invariant
`Numbering`: as long as nothing upset the count there is a constant `k` such that the extended number
of every packet queued, on its way to the queue or shown last is its position in the stream plus `k`,
and that the source counts accordingly for the newest position, or one that is near it.

**`VideoPathProofs`**: `TypeOK`, `WholeFrames` and `SentInOrder`, for every method, every way to number
the frames and any duration of a step, the lost races included; `SentInOrder` needs
at least 6 numbers, since frames up to 5 apart are on their way at once.  Every part of the invariants
speaks of the time before a race is lost, and that one stays lost is `RacedForGood`.  The invariant of `WholeFrames` has two halves.
`TakesTheOther` is about the caller's buffers: the one being converted is not the one being written.
`Handoff` is about the JPEG buffers: `Lenovo` with its one buffer, `First` before the sender has picked
any, and `Swap` after.  In `Swap` the buffer picked last belongs to the sender and the other to the
encoder, with one window between: when the sender has picked the other buffer and not yet emptied it
(`Handed`), the encoder may already write the one the index left; and a frame begun on an index that
is about to change ends only after the sender came back with nothing (`BegunInTime`, `DoneInTime`), or the race is lost (`DoneLate`).  `SentInOrder` needs the ages on top of it, in
frames encoded since (`Ordered`, `OrderedLenovo`): the newest frame has age 1; the one sent last is
an odd number of frames old if the newest is in its buffer and an even number if not (`LatestAge`);
a frame the encoder passed by is one older than the newest, and what was sent last one older again
(`Passed`), so that what is copied is one or three frames newer than what was sent last (`InOrder`).
That the caller's pictures come in their order is `NewPictures`: a source buffer is filled only where
the index points.

**`WfdPlayerProofs`**: `TypeOK` and `NoLostInterrupt`, for any sessions, descriptors, requests, events
and reports.  Of the sleeping thread there are two cases: who changes a session sets the pipe
(`LooperWakes`, one case for each handler), and who does not leaves the sessions as they are
(`SleepKept`).

**`WfdChecksProofs`**: `TransportIsOwn` and `ChecksHold`, for the same constants.  `TransportIsOwn`
needs `HandlersInv`: whoever waits for the answer to a SETUP made the RTPSink there is.  `ChecksHold`
is about a step, so that what makes the step impossible otherwise is the invariant `Strong`:
`QueueInv` (the start is the first message and comes before all else; data come after a session was
made), `SessionsInv` (ids are given out in order, descriptors are not shared, session 1 is there
until its loss was handled, and is never one of the RTPSink's), `UiInv` (nothing is there before the
start, the looper is stopped before the network thread is joined), `WritesInv` (until a second
RTPSink is made, a session whose descriptor is in `ws` has something to send, since no new session
gets a descriptor that `select` waits for: this is what the second SETUP breaks), `RendererInv`
(a renderer without a player has a packet in the queue), `SourceInv` (a refusal or a frame under way was
sent), `KindInv` (session 1 is the only one that is no UDP session), `LossInv` (the loss of the control
connection is told only after its end, because what select found to be read is there until it is read)
and `FailedInv` (each error of a UDP session has its cause in what came for it, and only the RTPSink that has
the session loses it).  Of the requests `RequestAssumption` says which there are.

What TLC alone shows: the disagreements of `findings`, which are counterexamples, and all liveness
(`StopReturns`, `EndIsTold`, `StartIsDecided`, `SendDataReturns`, `UnInitReturns`, `Decides`, `VideoGoesOn`, `LossIsTold`), which is beyond the
prover.

## 6. Not modelled

See `components`: the user interfaces, pixel copies, the CRC, the ini reader, iOS and legacy copies.

Of `libciwimo`: platform mixers, the encoder (which `YUV2JPG` opens for every picture, and leaves open
when no buffer is to be written), the content of packets, the JNI environment, the frame rate
(planned), and JPEGs that the caller hands over: its JNI wrapper frees the buffer that
`SendVideoData` keeps, so that nothing could be said of these frames.

Of the WiFi Display sink: DESCRIBE, which needs a URI nobody gives; what messages say, with
their formatting and parsing, and the capabilities in wfd.ini; interleaving over TCP, which the sink never
asks for (a '$' frame that comes all the same is modelled: it ends the process); servers and TCP
datagram sessions, which the sink never makes; a socket that takes or brings part of a message;
the search of `init` for a pair of ports; what receiver reports say, and RTCP that comes in.

Of `RTPSink` and `TunnelRenderer`: packets without payload or not made of 188-byte units; a second SSRC
that shares the renderer; a restart of the sender within two numbers of the wrap; the width of 32
bits of extended numbers; report blocks that overwrite each other; the renderer's use by a binder thread
after it was destroyed.
