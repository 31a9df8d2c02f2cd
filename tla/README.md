# A verification project for GenStreamUI

GenStreamUI is an Android client for streaming games and Windows desktops from a
remote host. It is a Kotlin application (`src/app`) around a copy of the Moonlight
client (`src/moonlight`): Java activities and services over the native library
moonlight-common-c. This directory holds TLA+ models of the parts whose
correctness depends on the order in which threads and messages act, the TLC
configurations that check them, and proofs.

Paths below are abbreviated: `CC/` is
`src/moonlight/src/main/jni/moonlight-core/moonlight-common-c/src/`, `J/` is
`src/moonlight/src/main/java/com/limelight/`, `A/` is
`src/app/src/main/java/network/ermis/genstreamui/`.

## 1. The system's parts

| Part | State it keeps | Operations | What makes it correct |
|---|---|---|---|
| Linked blocking queue, `CC/LinkedBlockingQueue.c` | intrusive list, size, shutdown / draining / wake flags, mutex, condition variable | init, destroy, offer, wait, poll, peek, flush, signal shutdown / drain / user wake | FIFO, bounded, no entry lost or in two places, no lost wake-up |
| Connection, `CC/Connection.c` | `stage`, `alreadyTerminated`, `ConnectionInterrupted` | start (11 stages), stop, interrupt, the termination shim | stages undone in reverse, threads joined, one termination, reported to its own session |
| Session, `J/nvstream/NvConnection.java`, `J/nvstream/jni/MoonBridge.java`, `J/Game.java` | a semaphore, the monitor of `MoonBridge.class`, the listener, flags of the activity | start, stop, stage and termination callbacks, surface and activity events | one connection at a time, permit always given back, leaving stops the stream |
| Control stream, `CC/ControlStream.c` | IDR event, queues of lost ranges, FEC statuses and callbacks, six threads | request IDR, report a loss, send, receive, statistics, start, stop | every loss is reported to the host, threads exit |
| Video depacketizer, `CC/VideoDepacketizer.c` | three waiting flags, pending drop, drop count, window of lost frames, decode unit queue | add a packet, frame lost, decoder refresh, complete a frame | no frame without its reference is decoded, a frozen picture recovers |
| RTP video queue, `CC/RtpVideoQueue.c` | current frame and FEC block, packet lists, reordering flag | add a packet, reconstruct a frame, report a loss | a loss is noticed once, a complete frame is delivered once |
| Video stream, `CC/VideoStream.c` | sockets, receive, decoder and ping threads | start, stop | threads and sockets undone when a start fails |
| Audio stream and RTP audio queue, `CC/AudioStream.c`, `CC/RtpAudioQueue.c` | socket, packet queue, FEC blocks by 16-bit sequence number | ping early, receive, decode, start, stop | packets handed out once and in order, late ones dropped |
| Input stream, `CC/InputStream.c` | packet queue, batched motion under a mutex | send events, batch, flush on stop | no motion lost or doubled |
| RTSP handshake, `CC/RtspConnection.c` | one socket, sequence number | a fixed exchange | sequential |
| Platform, `CC/Platform.c` and others | threads, events, condition variables, sockets, crypto | | used by all of the above |
| JNI bridge, `src/moonlight/src/main/jni/moonlight-core/callbacks.c` | method ids, buffers | a call into `MoonBridge` per callback | threads attach and detach |
| Decoder renderer, `J/binding/video/MediaCodecDecoderRenderer.java` | codec, recovery type, quiesced threads | submit, render, recover (flush, restart, reset), stop | recovery runs when all threads are quiescent, and none waits forever |
| Hosts, `J/computers/ComputerManagerService.java`, `J/discovery`, `J/nvstream/mdns` | polled hosts, a thread per host, active polls | add, remove, poll, stop polling | no poll after polling was stopped |
| Pairing and host HTTP, `J/nvstream/http` | certificates, PIN | one exchange | sequential |
| Input devices, box art, preferences, Moonlight's activities | | | user interface |
| Token refresh, `A/database/network/interceptor` | access and refresh token in preferences | attach token, refresh on 401, logout | one refresh for many 401s, logout sticks |
| Connect flow, `A/presentation/windows/WindowsConnectViewModel.kt` | UI state, session, jobs for polling and heartbeat | start, choose, resolve a conflict, retry, cancel | a session is started once, ended when cancelled, heart-beaten while used |
| Repositories, use cases, identity, storage, screens | | requests, mapping, queries | stateless or one thread |

**How they interact.** A `Game` activity starts a connection on a new thread:
`NvConnection.start` asks the host to launch the application, takes the permit and,
under the monitor, calls `LiStartConnection`, which runs the stages. From then on the
streams' threads run: the video receive thread passes packets through the RTP video
queue to the depacketizer, which submits frames (directly, or through a linked
blocking queue to the decoder thread) and reports losses to the control stream, whose
threads tell the host. Errors on any stream thread go through the termination shim and
an AsyncTerm thread to `MoonBridge`'s listener, and so to the UI thread, which stops the
connection on yet another thread. The application's connect flow obtains a session and a
token from its backend and then launches `Game`.

**What is hard.** Many threads share unlocked flags (C `bool`s and Java statics); signals
are given after an unlock; callbacks outlive what they are about; a start can be
interrupted or fail between any two stages; frames are lost, reordered and predicted
lost; queues overflow. `PROJECT.json` lists each hazard at its line.

## 2. What is modelled

| Module | What it is |
|---|---|
| `BoundedFifo` | abstract: what a linked blocking queue promises |
| `LinkedBlockingQueue` | `CC/LinkedBlockingQueue.c`, implements `BoundedFifo` |
| `LinkedBlockingQueueProofs` | its theorems |
| `ExclusiveSession` | abstract: the native core has one owner |
| `Connection` | the state of `CC/Connection.c` and the steps on it |
| `StreamSession` | extends `Connection` with its callers (NvConnection, MoonBridge, Game, stream and AsyncTerm threads), implements `ExclusiveSession` |
| `StreamSessionProofs` | its theorems, the refinement among them |
| `LossReports` | the IDR and RFI threads of `CC/ControlStream.c` |
| `VideoDepacketizer` | extends `LossReports` with the receive thread, the decoder thread, the network and the host's encoder |
| `VideoDepacketizerProofs` | the theorems of `LossReports`, and its own on top of them |
| `ReorderBuffer` | abstract: what the audio queue promises the decoder |
| `RtpAudioQueue` | `CC/RtpAudioQueue.c` and its use by the receive thread of `CC/AudioStream.c`, implements `ReorderBuffer` |
| `RtpAudioQueueProofs` | its theorems |
| `CodecRecovery` | the threads of `J/binding/video/MediaCodecDecoderRenderer.java` |
| `CodecRecoveryProofs` | its theorems |
| `CoalescingQueue` | abstract: events passed on in order, or left out for the next |
| `InputStream` | `CC/InputStream.c`, implements `CoalescingQueue` |
| `InputStreamProofs` | its theorems |
| `TokenRefresh` | `A/database/network/interceptor`, with logins and logouts |
| `TokenRefreshProofs` | its theorems |
| `ConnectFlow` | the view model and activity of `A/presentation/windows` |
| `ConnectFlowProofs` | its theorems |
| `MCLinkedBlockingQueue`, `MCStreamSession`, `MCLossReports`, `MCVideo`, `MCRtpAudioQueue`, `MCCodecRecovery`, `MCInputStream`, `MCTokenRefresh`, `MCConnectFlow` | instances for TLC |

**LinkedBlockingQueue.** A critical section is one action; the signal given after the
unlock, and a woken reader's new look at its condition, are actions of their own. `flink`
is the pointer in each entry; `allocated` are the entries not freed, `held` those handed
to a reader, `list[t]` the rest of the list thread `t` got from a flush or a destroy and
frees entry by entry. Destroy requires what its assertion (line 5) requires, and that no
thread is inside a function of the queue (callers join them first). `blink` and `data` are
left out: the first is written and never read, the second is carried along.

**Connection and StreamSession.** The eleven stages are two kinds: `InitStages` make
state, `StreamStages` start threads. The run has two of each: nothing in Connection.c
depends on which stage it is, except that some cannot fail (`CannotFail`) and that some
have threads that report errors (`Reporting`). `starter[g]` and `stopper[g]` are where the
two threads of activity `g` are, an element of `Owners`; an activity makes one connection.
`activity`, `connected`, `displayedFailureDialog` and `finishing` are Game's state; its
field `connecting` is only ever assigned false, so it is the constant FALSE here. `uiQueue`
is the UI thread's queue of posted runnables. `joining` stands for the stop flags and interrupts
a stream's threads see. A stream thread that meets an error tests `alreadyTerminated` and
`ConnectionInterrupted` and later sets the first: two steps, as nothing locks them. A
control stream that fails to start joins its threads and may raise `ConnectionInterrupted`
to do so. A
NullPointerException in an AsyncTerm thread (listener tested, then cleared, then read)
ends the process: `crashed`.

**LossReports.** `requestIdrFrameFunc` is five steps (wait, clear, test, flush, send),
`invalidateRefFramesFunc` one per queue operation and one for sending. `unanswered` is
history: the lost frames that were reported and of which the host does not yet know.
`stopControlStream` is modelled for these two threads, in its order. `VideoThreads` makes
any report the depacketizer could make in its window.

**VideoDepacketizer.** A frame is one unit and is carried by `frame`; `recv` is the
receive thread's position in `RtpvAddPacket`, `notifyFrameLost` and `processRtpPayload`, split
wherever the decoder thread shares what is read or written. How packets make a frame is
left to chance: a frame is lost, opens, is predicted lost, stalls or completes. The host
(external) encodes frames that refer to the previous one, to none (IDR) or to the last
frame before the invalidated ones, and obeys a request at any later frame or, for a
time, not at all. `intact` and `broken` are what the decoder can and did decode. Assumed: H.264 or HEVC,
a host whose frame header has a type, decoding by submission (not the pull API).

**RtpAudioQueue.** The functions of the file are operators on `q`, the `RTP_AUDIO_QUEUE`:
`blocks` is the list from `blockHead` to `blockTail`, and numbers on the wire are modulo
`Round` (2^16 in the code). A block's `shard` says of each of its packets which block the host
sent it in, so that a packet taken for one of another round is seen. `RtpaAddPacket` has one
alternative per way out of `getFecBlockForRtpPacket` and one each for the packet that is due,
which is handed out without the queue (`HandleNow`), and for any other (`Enqueue`): completed
if enough shards are there, ready, or the head given up (`handleMissingPackets`). `overdue` is
the result of its time-out; it must be true once the stream is `Late` blocks past the head,
since the time-out is a block's duration plus a constant. The network (external) loses,
duplicates and delays packets, these by up to `Late` blocks. `skipped` counts the blocks that it passed
over since the queue was last no more than `Late` blocks behind, at most `MaxSkipped`: the code gives up one block per packet
that it enqueues, and bounds neither the time to catch up nor the length of the queue (section 3, findings).

**CodecRecovery.** `pc[t]` is where each of the three threads is: in a call of the codec
(`fetch`, `queue`, `dequeue`, `release`), in `handleDecoderException`, whose compareAndSets are
an action each, or in `doCodecRecoveryIfRequired`: `check` before the test, `enter` before the
monitor, `wait`, `recover` and `configured` inside it. `phase` is which call of
`submitDecodeUnit` the input thread is in, and `failed` once that is to answer
`DR_NEED_IDR`; the native decoder thread (external) then submits an IDR frame next. `fresh` is
history: the codec was configured and has been given nothing since. A codec may fail in any
call; a `dequeueInputBuffer` that returns no buffer is tried again, as the loop does, and
fairness has it return one at last. A recovery may also find the surface gone or fail, which
ends the process (`crashed`, as does a `RendererException`). Nothing requests
`CR_RECOVERY_TYPE_FLUSH`, so it is left out.

**InputStream.** A caller of a `LiSend...Event` is in `Senders`: it tests `initialized`, then
adds to the batched state and allocates and offers a holder with the mutex held, or does the last
two without. `value` and `dirty` are the batched state of the relative motion (one axis) and
of each kind in `Latest`, the absolute position or a motion sensor, of which only the newest counts.
Events queued by value are `Packets`: `kind` and `what` are what two of them must share to be
sent as one (the buttons and the number of a controller, the type and buttons of a pen), `axes`
the rest. The queue is that of `LinkedBlockingQueue` seen through `BoundedFifo`; the test for
draining and the bound are one critical section. `received` and `given` are what the host has
(external); sending may fail at any packet, which ends the thread.

**TokenRefresh.** The n-th tokens the backend issued are the number n, 0 is the empty
string. `pc[r]` is where the thread of request `r` is: in `authenticate` the refresh token
is read first (`ReadRefreshToken`), then the monitor is taken (`EnterLock`) and, unless the
access token changed, `/auth/refresh` is called and its tokens are written one by one. The
dispatcher of OkHttp (external) runs `MaxPerHost` calls of the host; a thread in
`authenticate` keeps its place and the refresh needs one, as `NetworkModule` gives both the
same client. Each write to the preferences is an action, so that `clearSession` and
`saveSession` on the main thread interleave with those of a refresh. The backend (external)
renews a refresh token once, with a new one or (as the code allows for) without, may
refuse, and an answer may be lost. `renewed`, `refused` and `loggedOut` are history.

**ConnectFlow.** Everything runs on the main thread, so an action is what happens between
two suspensions: most are the answer to the request the connect job (`connectJob`) or the
resolve job waits for, and each answer may be an error. An error of `POST /sessions` or of
ending a session may be the loss of its answer. `heartbeats` is the set of sessions heartbeat
jobs run for. `late` says that the budget of polling has passed, `pause` and `backoff` are the two delays
between polls. `alone` is history: neither a heartbeat nor a resolve job ran when the attempt began (none can
begin beside it, as `start` and `connect` look for a job first). Of the activity there is
what it shows (`panel`, and `rendered`, the stage it last saw: a dialog is up while that is
`Choosing` or `Conflicting`), the session whose host it waits for (`warmUp`) and its fields,
which a recreation (`onCreate`) resets while the view model stays. The backend (external) has
one subscription, so at most one running session; sessions stop and are created elsewhere
at any time. One game is `MyGame`, another 2, none 0.

## 3. The runs

| Run | Bounds | What it shows |
|---|---|---|
| `linked_blocking_queue` | 2 callers, 1 reader, 3 entries, bound 2 | `EntriesAccounted`: an entry is in one place, lists are well-formed and nothing leaks. `NoLostWakeup`. `ImplementsFifo`: refinement of `BoundedFifo`. `ReaderServed`: a reader that has something to return returns, and entries leave |
| `stream_session` | 2 activities, 2 + 2 stages, 1 reporting stream | `PermitAccounting`, `CleanStart`, `ListenerIsOwner`, refinement of `ExclusiveSession`, `StartsAndStopsEnd` |
| `loss_reports` | 4 frames, room for 2 ranges | `LossAccounted`, `RangesGrow`, `LossAnswered`, `ThreadsExit` |
| `video` | 5 frames, 2 ranges, drop limit 3, decode queue of 2, 2 decoder failures; direct submit with reordering, and a decoder thread without | `NoBrokenReference`: the decoder is never given a frame that refers to one it lacks. `RecoveryPending`: while frames are kept back a request is on its way. `AssertionsHold` |
| `audio_queue` | blocks of 2 + 1 packets, numbers that wrap after 16 blocks, 9 blocks that begin before and end after the wrap, 2 of them passed over at a time | `HandsOutInOrder`: refinement of `ReorderBuffer`. `ValidState`: the assertions of `validateFecBlockState`. `WaitIsBounded`: a loss does not stall the sound: the queue is behind by what was late or passed over |
| `codec_recovery` | 1 recovery before exceptions are kept, 1 output buffer, 1 HDR change | `ExclusiveRecovery`, `IdrAfterRecovery` |
| `input_stream` | 2 senders, 3 events, queue of 2; a controller, a pen, a text, motions that do not fit a packet together | `NothingStranded`: no motion is lost or doubled. `KeepsOrder`: refinement of `CoalescingQueue`. `DrainsOnStop` |
| `token_refresh` | 2 requests, 3 places per host, 2 tokens | `SessionKept`, `RefreshOnce`, `EveryRequestEnds` |
| `connect_flow` | 2 sessions; a game to play, another and none | `HeartbeatFollowsUse`, `EndsOnlyByChoice`. `NeverWaitsForNothing`: a screen waits for an answer, for the host, or for buttons that are obeyed. `ConnectEnds`: an attempt ends or asks with its dialog up. The last two have exceptions, see below |
| `termination_target` | 2 activities | violated: a late termination report reaches the next session |
| `dispatcher_full` | 2 requests, 2 places | violated: requests that wait for a refresh leave it no place in the dispatcher |
| `codec_stuck` | 2 recoveries | violated: a recovery required before every thread has left the last one never takes place |

**Why the bounds are enough.** Three entries and a bound of two reach the empty, partial
and full queue, and let an entry be freed and reused while a list that held it is still
walked; two callers leave two signals pending. Two sessions are what it takes to overlap
one stop with the next start, and two stages of each kind what it takes to fail with
nothing, state or threads made before. With five frames a stream loses one, recovers by
an invalidation or an IDR frame, and loses another. `DropLimit` 3 (120 in the code)
is reached; the count may start anywhere below it, since `initializeVideoDepacketizer` does not
reset it. The numbers wrap at the eighth of the nine audio blocks (9 to 17), so that packets before the wrap are in the queue with
ones after it; packets are late or ahead by less than half a round, as those of a real stream are by far
(`AudioAssumption`). The stream may begin with any block but the last ones before
the wrap (`FirstBlocksAssumption`); the run has it begin with one, since where it begins makes no other difference. One recovery, `CR_MAX_TRIES` being 10, and a
change of HDR metadata, which resets the count, give two in a row and the exceptions after
the last. Two senders are what it takes to submit while another holds the mutex,
and three events fill a queue of two. Two requests are what it takes to meet one expired token twice, and two tokens to
tell a renewed one from it; with three places per host the refresh always has one, with two
it may not (5 in OkHttp). Two sessions are an old one (running at first, or not, with this
game, another or none) and its successor, made by the screen or elsewhere. `MaxToken`, `MaxSession`, `MaxFrame` and `MaxFailures` are bounds of the model only; so deadlock is not
checked in runs with frames, which simply end, nor for sessions, which are used up. The
queue's run checks deadlock.

**Fairness.** Threads that have something to do are scheduled (weak fairness for each
thread's step): the queue's signals and the reader's loop, start and stop threads, stream
threads that were told to stop or are in the shim, AsyncTerm threads, the UI thread, the
IDR and RFI threads, and a stop that was begun. A stage ends, because its waits have
time-outs or see `ConnectionInterrupted`; a finished activity is stopped and loses its
surface, as Android does. Nothing makes the user leave, a stream fail, a caller call, or
the host send a frame. A request of the application is dispatched when there is a place, and
answered. The threads that use the codec go on: frames arrive and are displayed, the codec answers or
fails (`dequeueInputBuffer` is assumed to return a buffer at last, see below); a setting of the metadata that
was begun, and a stop, are finished. Those that submit input finish their call, and the input thread and its stop go
on. `RtpAudioQueue` needs no fairness: its properties are safety. The monitor of `TokenAuthenticator` is granted strongly fairly, and the main thread
finishes what it began. The requests of the connect flow are answered, its delays end, and the
stage they set is rendered; nothing is assumed of what the answers are. `ReaderServed` assumes, for the entries, that user wakes stop at some time: each
wake returns the reader without an element.

**What the connect flow does not ensure.** `NeverWaitsForNothing` and `ConnectEnds` hold for an attempt
that began `alone`. One may also begin beside the heartbeat of an earlier session (retry after a warm-up that gave up,
or a recreation while connected) or beside a resolve job (retry after a recreation). If its conflict dialog is up when
the heartbeat learns that its session stopped, or the resolve job is answered, that job sets the stage to `Failed` or
`ChoosingSubscription`, `render` dismisses the dialog (`WindowsConnectActivity.kt:122`), the connect job waits at
`WindowsConnectViewModel.kt:282` for an answer that cannot be given, and Retry and the picker's Confirm return
at 90 or 146 because of it, until the screen is left; to recreate it changes nothing. This state is
`Abandoned`, the only exception of `NeverWaitsForNothing` (a final failure asks for nothing); without it TLC finds both
properties violated, in 13 states. It is a fault of the code. `ConnectEnds` has another exception, `[]<>(connectJob = "backoff")`: the
branch for `RATE_LIMITED` (326-328) never looks at the deadline, against "until the budget is over" (311), so
that an attempt whose polls are refused so again and again never ends; without it TLC finds that loop. Polls that are answered
with `VmNotReady` do end with the budget, which is what the property shows.

**Findings.** The three violated properties quote the lines that state them; `PROJECT.json`
says what the code does. While they were written TLC, or
the reading for the model where it says so, showed more that has no run of its own:

- An activity left while its connection is being made does not stop it: no assignment sets
  `connecting` to true (`J/Game.java:2282`), and the connection stays up with the permit.
- `requestDecoderRefresh` flushes the queue before it sets `dropStatePending`
  (`CC/VideoDepacketizer.c:714`, 720): a P frame past the receive thread's check is queued in between and
  dequeued before an IDR frame was processed, against the comment at 229. It needs a decoder thread.
- After a loss that was predicted in error without RFI (`CC/RtpVideoQueue.c:217`), the frame that
  completes after all is discarded without a request (`CC/VideoDepacketizer.c:1129`), and so are those
  after it, up to the limit of 120 drops. With a decoder thread that can also occur before the first IDR
  frame is processed, which is why the second mode of `MCVideo` has no reordering.
- The audio queue takes an oldest number of 0 to mean that the stream has not begun
  (`CC/RtpAudioQueue.c:284`): one that begins with the last block before the wrap synchronizes twice,
  which violates `ValidState` (`FirstBlocks = {14}` with `Round` 32, which `FirstBlocksAssumption` excludes) and skips a block.
- The audio queue has no bound. Each enqueued packet makes `handleMissingPackets` give up one block, or move
  to the first it has (`CC/RtpAudioQueue.c:504-550`): if every other block is lost whole and one packet arrives of each of the others, two blocks
  become due for each that is given up, the queue grows for as long as this lasts, and the sound falls behind. This
  is why `WaitIsBounded` counts every block passed over, not only the last gap.
- A change of HDR metadata made between the configuration of a recovery and its end is lost: `setHdrMode`
  leaves the type as it is (`J/binding/video/MediaCodecDecoderRenderer.java:1328`), and the recovery then sets it to none
  (788). And, from reading, `fetchNextInputBuffer` looks for a required recovery only when
  its loop (1169) ends: a codec that gives no buffer and throws nothing keeps the others waiting for the input thread.
- An input event past the test of `initialized` can be offered to the drained queue, which refuses
  it with `LBQ_INTERRUPTED`; the assertion in debug builds names `LBQ_BOUND_EXCEEDED` only (`CC/InputStream.c:800`).

A further race is in the model too: two stream threads can both pass the test of `alreadyTerminated` and spawn two
AsyncTerm threads (`CC/Connection.c:164`), harmless because Game's runnables test a flag on
the UI thread. `ConnectFlow` likewise reaches, besides `Abandoned`, two states without a run:
a screen that connects again after a recreation behind the stream (`WindowsConnectActivity.kt:344`),
and a resolve job that was started by a recreation, outlives the attempt a retry made beside it
and, failing, stops the heartbeat of its session (`WindowsConnectViewModel.kt:122`): so that
`HeartbeatFollowsUse` speaks of the stage `Connected`, not of every warm-up and stream.

## 4. The proofs

`LinkedBlockingQueueProofs` proves, for any sets of threads and entries and any bound:

- `LbqTypeCorrect`: `Spec => []TypeOK`.
- `LbqMemorySound`: `Spec => []LbqInv`, the inductive invariant.
- `LbqNoLostWakeup`: `Spec => []NoLostWakeup`.
- `LbqEntriesAccounted`: `Spec => []EntriesAccounted`.
- `LbqImplementsFifo`: `Spec => ImplementsFifo`, the refinement of `BoundedFifo`.

Assumption: `LbqAssumption` (the reader is not a caller, `NULL` is no entry, the bound is
a positive number).

`TypeOK` is not inductive: that `currentSize` stays in range when an entry is unlinked needs
to know that a non-empty list has a positive size, and that `flink` of the head is the next
entry. `LbqInv` therefore says that there *are* sequences, one for the queue and one for
each list being freed, that the pointers spell out (`Layout`): every operation is then an
operation on these sequences (append, tail, empty), and one lemma each shows that the
pointers follow. `Chain` reads a sequence off the pointers. Two sequences that the same pointers
link agree (`LinkedOnce`: take the least place where they differ), so `Chain` finds the one
`Layout` speaks of (`ChainIs`), provided that one is no longer than the bound: hence
`Bounded` in the invariant, for the lists being freed as well. `EntriesAccounted` follows, and
each step of the code is the step of `BoundedFifo` on the sequence it works on (`NextImplements`).
`NoLostWakeup` needs one more invariant: only the reader blocks, and a thread that makes
the reader's condition false owes a signal.

`VideoDepacketizerProofs` first proves of `LossReports`, for any number of frames and any bound
of the queue (`LossAssumption`):

- `LossTypeCorrect`: `LossSpec => []LossTypeOK`.
- `LossNoReportDropped`: `LossSpec => []LossAccounted`.
- `LossRangesGrow`: `LossSpec => []RangesGrow`.

All three follow from `LossInv`. That merging takes the start of the first range and the end
of the last is right only if both are ordered in the queue, and `RangesGrow` says that of the
ends alone. They are ordered because the depacketizer's window (`startFrameNumber`,
`nextFrameNumber`) only moves forward, and each range it reports begins and ends in it:
`InWindow` keeps the range being merged, the queued ones and the window in one order, and a
lemma shows that appending, merging and moving the window preserve it. Given that, a lost frame
covered by a queued range is covered by the merged one. `StopOrder` (a shut-down queue means
a stopping stream) is needed where a report is refused by a queue that was shut down.

`CodecRecoveryProofs` proves, for any limits and any number of HDR changes (`CodecAssumption`: at least
one recovery is tried, as `CR_MAX_TRIES` is 10):

- `TypeCorrect`: `Spec => []TypeOK`.
- `IInvHolds`: `Spec => []IInv`, the inductive invariant.
- `RecoveryIsExclusive`: `Spec => []ExclusiveRecovery`.
- `RecoveryIsFollowedByIdr`: `Spec => []IdrAfterRecovery`.

The first two of these invariants are independent: `IInv` needs nothing of the counts, and that
`attempts` stays within `MaxTries + 1` needs `TriesLeft`, which says who still has a try to use.

`IInv` has three parts besides the types. `Quiescent`: a thread whose flag is set rests, or will see
`stopping` before its next call of the codec, and only the one that holds the monitor with all flags set
recovers. The second alternative is there because a stop calls a recovery off without clearing
the flags, and the threads it wakes go on with theirs set. `CalledOff` is why this is sound: a thread
can leave its wait with its flag set only when `stopping` is. `Refreshing` follows a recovery
through `submitDecodeUnit`: as long as the codec is fresh, the input thread either is at an IDR frame or
will answer that it needs one. The induction has one lemma per group of actions.

`StreamSessionProofs` proves, for any set of activities, any numbers of stages of each kind and any of
them failing or reporting (`StagesAssumption`, `OwnersAssumption`):

- `TypeCorrect`: `Spec => []TypeOK`.
- `PermitAccounted`: `Spec => []PermitAccounting`.
- `StartsClean`: `Spec => []CleanStart`.
- `CallbacksToOwner`: `Spec => []ListenerIsOwner`.
- `Implements`: `Spec => ImplementsExclusive`, the refinement of `ExclusiveSession`, step by step.

That there is one permit does not by itself say that the core is free when it is: the permit is given back by a
thread that need not be the one that took it. `SInv` therefore says who may hold it (`SoleHolder`), that a
session is stopped at most once and not before it was reported as started, which follows its report
through the UI thread's queue, the flag it sets and the stop (`StopsOnce`), and which stages, join and
threads there are at each point of a start and of a stop (`CoreShape`). For the refinement, each of the
starter's and stopper's steps is shown to be a step of the abstract owner or a stutter (`StartRefines`, `StopRefines`,
`StreamRefines`); the holder in the mapping is a `CHOOSE`, which `SoleHolder` makes unique.

`VideoDepacketizerProofs` then proves of `VideoDepacketizer`, for any number of frames, drop limit and bound of the queue, any
set of `Modes` (with or without a decoder thread, with or without reordering), with RFI or without
(`LossAssumption`, `VideoAssumption`):

- `VideoTypeCorrect`: `Spec => []TypeOK`.
- `ReferencesAreIntact`: `Spec => []NoBrokenReference`.
- `AssertionsAreRight`: `Spec => []AssertionsHold`.
- `RecoveryIsPending`: `PredictsSafely => (Spec => []RecoveryPending)`, where `PredictsSafely` admits prediction in error
  (the second of a mode) only with direct submit and RFI. It cannot be weakened to admit another mode: for each of the three
  it leaves out TLC finds a counterexample, the loss predicted in error of section 3.

What the decoder lacks is decided when a frame is lost and matters when a later one is decoded, with a queue, a
flush and the host's answer between. `Have(q, d, k, r)` says that the decoder has frame `r` once it decoded
the first `k` frames of `q`; `Available(r)`, that it will have it when it decoded all that was submitted. The
invariant's core is `Submittable`: between frames either the last one is available or the next are kept back, and for every
request under way, queued, held by a thread or at the host (`FirstLost`), the frame before the first
invalidated one stays available unless an IDR frame is waited for or was sent since. A frame the host encodes in
answer then refers to an available one. `Unbroken` carries this through the queue: each frame in it is decodable
when its turn comes. A decoder that failed behind the receive thread's back is exempt (`InStep`), as it is in
`NoBrokenReference`. The other parts keep the numbers of the receive thread, the RTP queue and the host in order
(`InOrder`, and `RangesInWindow` of the loss reports, whose lemmas are used again here).

`RecoveryPending` looks at quiet states only; its invariant `RInv` adds to `VInv` what must hold while the receive thread is at a frame. An IDR
frame on its way settles all of it (`IdrSuffices`), from `dropFrameState`'s request, a refresh or an overflow until the host sends it
(`IdrStays`). So the steps are looked at where none is: then either a frame the host has sent will be found missing (`Missed`,
`MissedStays`), or for each flag the frame at hand or a report still ends the wait (`Pursued`, `RfiStays`). What could
go wrong are two answers that cross: an IDR frame sent, and lost, after which the host ignores an
invalidation of earlier frames (`NotOvertaken`), and a frame after an invalidation that comes while
an IDR frame is waited for (`RfiInTime`). `Processed` is why `dropFrameState` does not start a wait for an IDR frame of its own accord
while a frame after an invalidation is coming.

`InputStreamProofs` proves, for any senders, packets, kinds of state, motions and bounds (`InputAssumption`: among others,
the batched kinds are not those of plain events, as the types of the C structures are distinct):

- `TypeCorrect`: `Spec => []TypeOK`.
- `NeverStranded`: `Spec => []NothingStranded`.
- `ArrivesInOrder`: `Spec => KeepsOrder`, the refinement of `CoalescingQueue`, step by step.

A motion is stranded if its kind is marked dirty and no holder is queued, since the next sender then
queues none. `OneHolder` says that a kind is dirty exactly while *one* holder is queued or at hand for it, and
`MutexKept` why two senders cannot queue two: the mutex is kept from the test of `dirty` to its setting.
`MotionsAddUp` is the sum that remains when a motion is sent in parts. For the refinement, the events that were
submitted and not yet sent are the packets in the line of the one at hand and the queue, holders left out:
`PacketsOf` names them by the one ascending list of their places (`ListedOnce`, by induction on the place where two
lists would first differ; that there is one is kept from step to step, `PacketsAppend`, `PacketsTail`). A step appends a packet to
that list, sends its first, or moves the line without changing it (`PacketsShift`).

`TokenRefreshProofs` proves, for any requests, places of the dispatcher and tokens (`TokenAssumption`):

- `TypeCorrect`: `Spec => []TypeOK`.
- `SessionIsKept`: `Spec => []SessionKept`.
- `RefreshedOnce`: `Spec => RefreshOnce`, an action property.

The two tokens are written one after the other, so that a thread may read a new access token with an old refresh
token. It is right all the same, since the refresh token was read before the lock was taken and the access token
is tested after: as long as nothing but renewals happened (`Undisturbed`), a thread whose access token is still the
stored one has the refresh token that is stored (`RefreshNotStale`), between the two writes no request waits that was refused with the
new access token (`NotRefusedYet`), and an access token that was renewed is the stored one only until
its refresh has written the next (`RenewedBefore`).

`ConnectFlowProofs` proves, for any catalog of games and any number of sessions (`ConnectAssumption`):

- `TypeCorrect`: `Spec => []TypeOK`.
- `HeartbeatFollows`: `Spec => []HeartbeatFollowsUse`.
- `ScreenIsNeverStuck`: `Spec => []NeverWaitsForNothing`.
- `EndedByChoice`: `Spec => EndsOnlyByChoice`, an action property.

The session the job works with, the one connected to, the one whose host is waited for and the one streamed may
all differ, as the view model outlives the activity. What relates them is that sessions follow one another
(`SessionsInOrder`) and that each of the four is replaced by later ones only (`TargetsInOrder`): if the one that
is used still runs, no later one exists, so it is the one connected to. `JobsRun` and `HostAwaited` say which job or
wait ends each stage and each progress screen; `KeptAlone` that no other job begins beside one that began alone, so that its
conflict dialog stays up; `Asked` carries the user's choice to the request that ends a session.

`RtpAudioQueueProofs` proves, for any sizes of a block, any modulus, any stream and any choice of its first block, that satisfy
`AudioAssumption` (what can be in reach of the queue is less than half of the numbers) and `FirstBlocksAssumption`
(the first block is not just before the wrap, see the findings of section 3):

- `AudioTypeCorrect`: `Spec => []TypeOK`.
- `AssertionsOfQueue`: `Spec => []ValidState`.
- `QueueCatchesUp`: `Spec => []WaitIsBounded`.
- `HandsOutInHostOrder`: `Spec => HandsOutInOrder`, the refinement of `ReorderBuffer`, step by step.

The queue only has numbers modulo `Round` and compares them by half of it, which is no order: `ValidState` says so little that
nothing follows from it. `AudioInv` says which numbers of the host they stand for. There is a block `o` the queue waits for, such that
`oldest`, `nextSeq` and the bases of the list are `o`, the packet of it that is next, and the blocks of the list, truncated
(`At`), all of them in the order of the host (`Listed`). The comparisons are right for numbers less than half a round apart
(`BeforeIf`, `SeqBefore`, `BaseBefore`, `EndAfter`: arithmetic of `%`, from the uniqueness of the remainder), so
the invariant must say that they are (`InReach`), which is where `WaitIsBounded` is needed to prove even the types: were the queue
to fall behind without end, a new block would compare as an old one. That it does not holds since a queue between packets has none ready and each packet
makes up for its own block. `Begins` treats the start, when `oldest` is moved to the first packet's block. In the refinement
what waits and what is due are read off the same `o` (`WaitingIs`, `NextIs`), and a packet that is handed out is
the one the host numbered so because numbers in reach are read in one way only (`ReadOnce`).

**Only model-checked.** Every invariant, action property and refinement that a passing run checks is stated by a theorem. What is
left to TLC is liveness under fairness, which is out of the provers' reach: `ReaderServed`, `StartsAndStopsEnd`, `LossAnswered`,
`ThreadsExit`, `EveryRequestEnds`, `ConnectEnds` and `DrainsOnStop`.

## 5. What is not modelled

The parts with status `not_modelled` in `PROJECT.json`, with the reason. Inside modelled
parts:

- Video: the pull renderer API and the user wake it uses (as an operation of the queue it is
  modelled); the corrupt-packet checks of `processRtpPayload` (773-789); `reassembleFrame`
  being skipped without data or memory; the packets and 32-bit numbers of the RTP video queue.
- Control stream: the loss statistics, receive and asynchronous callback threads, and the failure paths
  of `startControlStream`.
- Audio: the early ping thread, the decoder thread and the failure paths of `startAudioStream`, which
  close a socket that `destroyAudioStream` closes again (`CC/AudioStream.c:460`); the arithmetic of
  Reed-Solomon (any `DataShards` packets of a block give all of it).
- Input: the accumulator of batched scrolling (`CC/InputStream.c:1179-1222`), the splitting of a text into
  code points, the two packets of a controller's arrival, the memory of the holders (but for the refusal of
  their list once shut down), encryption.
- Audio: hosts older than GFE 3.19, and FEC blocks that begin off a multiple of the data packets, either of which
  turns the queue off (`CC/RtpAudioQueue.c:40-44`, 260-269): it is turned off only by packets of different sizes.
- Control stream: `LiRequestIdrFrame` flushes the ranges and sets the event in one step, since no thread
  acts on the one without the other.
- Decoder renderer: choosing and configuring a decoder, rewriting parameter sets, statistics.
- Game: audio focus, input and UI.

Known hazards of these parts, beyond those `PROJECT.json` lists: callers of `LbqOfferQueueItem` leak an entry that
is refused with `LBQ_INTERRUPTED` (`CC/ControlStream.c:372`); `isBefore16` of a 32-bit frame number
(`CC/RtpVideoQueue.c:576`); a failing `startControlStream` must leave what `destroyControlStream` expects
(`CC/ControlStream.c:1636`); `activePolls` may be zero between two polls (`J/computers/ComputerManagerService.java:246`).

## 6. The plan

Done: the queue, the session, loss reporting, the video path, the token refresh, the connect flow, the
audio queue, the recovery of the codec and the input stream, in the order of how much rests on them; and the
theorems of section 4.

1. `AudioStream`: early ping thread, packet queue, start failures and the destruction after
   them (one composition with `LinkedBlockingQueue`'s assertion), `startVideoStream` likewise.
2. The receive and callback threads of the control stream, and the sequence numbers of the RTP video queue.
3. `HostPolling`.
