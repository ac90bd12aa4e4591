# Formal model of the esp32-ipc firmware

TLA+ modules, TLC runs and TLAPS proofs for the ESP32-P4 camera firmware in `src/`:
a 1080p camera whose frames are shared with a pedestrian detector, marked with its boxes,
H.264-encoded and sent over WebRTC, with two-way G.711 audio. Paths below are relative to
`src/main/` unless they begin with another directory.

Contents: [the system](#the-system) · [hard behaviours](#what-is-hard-about-it) ·
[the modules](#the-modules) · [the runs](#the-runs) · [fairness](#fairness) ·
[the proofs](#the-proofs) · [disagreements](#where-the-code-and-its-comments-disagree) ·
[not modelled](#what-is-not-modelled) · [plan](#plan)

## The system

FreeRTOS tasks on two cores. Core 0 runs the media path and the network, core 1 the
detector alone (`app_config.h:341`), so every pair below really interleaves.

| Component | State it keeps | Operations | Talks to |
|---|---|---|---|
| Camera HAL, `hal/hal_video_capture.c` | the driver's buffers (V4L2) | open, start, acquire (DQBUF), release (QBUF), publish_rows | esp_video's CSI driver; capture and encode tasks |
| Capture task, `video_capture_task` | the frame in hand, the pacing grid | acquire, pace, queue or hand back | camera HAL; `cap_queue` |
| Encode task, `video_encode_task` | the frame in hand | feed the detector, overlay, encode, hand back, send | `cap_queue`, frame pool, OSD, H.264 HAL, media gate |
| H.264 HAL, `hal/hal_h264_encoder.c` | one input slot, one bitstream buffer, a latch | open, start, encode, release, force_idr | esp_video's M2M device |
| Frame pool, `core/frame_pool.cpp` | free and ready lists, a flag per element, counting semaphore | new, delete, acquire, submit, recv, release | encode task (producer), `detect_task` (consumer) |
| Detector, `task/task_detect.cpp` | box array with its mutex, pool handle, model | start, acquire_input, submit, discard, get_boxes; the task | frame pool, encode task |
| OSD, `core/osd.c` | none (a list of dirty rows per frame) | draw boxes, merge dirty rows | encode task |
| Media gate and peer loop, `task/task_webrtc.cpp` | connection, ICE state, keyframe flag | send video, send audio, callbacks, peer loop, signaling loop | libpeer |
| Media rings, `patches/sepfy__libpeer.patch` (`buffer.c`) | head, tail, bytes | push, peek, pop | senders (producers), peer loop (consumer) |
| Signaling mailbox, same patch (`peer_signaling.c`) | `pending_payload`, `g_ps.id` | accept a request, park its offer, publish it | peer loop, signaling loop, browsers |
| STUN wait, same patch (`agent.c`) | a deadline | ask a server, wait for a reply of one kind | peer loop, network |
| Speaker, `task/task_speaker.cpp` | a stream buffer, a drop counter | submit, drain | peer loop (producer), codec |
| Microphone, `task/task_audio.cpp` | none | read, encode, send | codec, media gate |
| G.711, `core/g711.c` | none | encode, decode | both audio tasks |
| Network, `hal/hal_netif.c` | retry counter, event bit | start, event handlers, wait for an address | boot |
| Boot, `app_main.cpp` | none | bring up each part, start the tasks | all |

A frame's way: the CSI driver fills a buffer and `video_cap` dequeues its descriptor. If the
clock has reached the next grid point, the descriptor goes into `cap_queue`; if not, or if
the queue is full, back to the driver. `video_enc` takes it, downscales every third frame
into a pool element for `detect_task`, draws the latest boxes into the frame in place,
writes the touched rows back from the cache, encodes, gives the buffer back to the driver,
sends the bitstream and gives that back to the encoder.

What makes each part correct:

* **Frame pool:** each element in one place and one task's hands; each ready element has its
  token; a submitted frame is run; a borrowed buffer comes back.
* **Capture and encode:** no buffer is lost or in two places, on any error path; the encoder
  is ready for the next frame; it never points at a frame the driver may write; after any
  failure frames keep circulating.
* **Pacing:** never a burst, never a starved stream, no drift from the target rate.
* **Overlay:** boxes of one inference; exactly the corner marks; exactly the touched rows
  reach the encoder.
* **Rings:** frames come out whole, in order, once; no access leaves the block.
* **Media gate and peer loop:** nothing is pushed into a dead connection, and no more than a
  straggler into a stopped stream; audio waits one pass; a keyframe request is served.
* **G.711:** every sample is heard within half a quantisation step; a byte survives a round trip.
* **Speaker:** audio is played in order and only payload ends are lost; no wake-up is missed.
* **Network:** an idle station is connected again until its retries are used up or a call to
  connect it has failed.
* **Signaling:** each request gets one response; each parked offer is published once.
* **STUN wait:** a wait whose answer comes in time does not fail, and it is as long as it says.

## What is hard about it

`PROJECT.json` lists every hazard at its line. The ones the modules are built around:

* *Two steps that look like one.* `frame_pool_submit()` pushes under a lock and gives a
  semaphore after it; `recv` takes and then pops. The other core runs in between.
* *Ignored results.* `xSemaphoreGive()`, `hal_vcap_release()`, `hal_h264_release()`,
  `hal_vcap_publish_rows()` and `esp_wifi_connect()` can fail and nobody looks.
* *Half a start.* `ped_start()` can fail after the pool exists; video goes on and feeds it.
* *Error paths of an ioctl sequence.* `hal_h264_encode()` makes up to four calls, and each
  failure leaves a different set of buffers out.
* *A ring without a lock.* The media rings order their stores by two barriers only, and the
  sender reads `head` twice.
* *Ids and a mailbox shared by two tasks without a lock.* The signaling task sets `g_ps.id` and
  empties `pending_payload`, the peer task reads one, fills the other and clears the id.
* *A gate that is read, and a push that follows it.* The connection may go in between.
* *Answers that come late.* One UDP socket serves all the requests of all gatherings, and what is
  left in it from one of them is what the wait for the next one reads first. Every transaction id
  is the same.
* *An entry that wraps* leaves the ring at an offset that is no multiple of the word.
* *A state that is read, and stored again after a call that blocks.* The signaling task may have
  closed the connection, or begun the next offer, in between.
* *A clock that wraps:* the deadline of that wait is 32-bit milliseconds since the epoch.
* *Partial writes.* A stream buffer takes part of a payload and wakes its reader at a level.
* *Limits:* a pool of two, a queue of one, one input slot, a full list of dirty ranges.
* *Time:* frames at arbitrary times against a grid that has to recover from late ones.

## The modules

| Module | What it is |
|---|---|
| `FramePool` | the pool, the feeding encode task and `detect_task` |
| `FrameHandoff` | the contract of `frame_pool.hpp:8`: who owns a buffer, and how it may change hands |
| `VideoPipeline` | CSI driver, capture task, queue, encode task, H.264 device |
| `FrameGrid` | `on_frame_grid()` over time |
| `Overlay` | stored boxes, corner marks, dirty rows, cache write-back |
| `MediaRing` | one media stream: the gate, the ring of `buffer.c`, the drain of the peer loop |
| `FrameQueue` | what a ring and the mailbox promise: what is accepted comes out whole, in order, once |
| `Media` | both senders, the gate, the peer loop's pass, the keyframe request, a start that fails |
| `Gather` | the servers asked in turn, the wait for each answer, the network |
| `Signaling` | requests, ids, the mailbox, the two tasks; extends `Gather` |
| `G711` | the codec, operators only |
| `Netif` | Wi-Fi events, retries, the wait for an address |
| `Downlink` | `speaker_submit_g711a()`, the jitter buffer, `task_speaker` |
| `Boot` | `app_main()`, composed with `Netif` and `Downlink` |
| `MC*` | instances for TLC |
| `ListLemmas` | facts about pushing and popping sequences without repetition |
| `FramePoolProofs` | theorems about the pool, and that it implements `FrameHandoff` |
| `VideoPipelineProofs` | theorems about the pipeline and about `FrameGrid`, which the capture task calls |
| `OverlayProofs`, `MediaProofs` | theorems about these |
| `MediaRingProofs`, `SignalingProofs` | theorems about the ring, the wait and the mailbox, and that ring and mailbox implement `FrameQueue` |
| `BootProofs` | theorems about `Boot`, with `Netif` and `Downlink` |

**FramePool.** An action is one critical section of the pool's spinlock or one semaphore
call; the local code between two of them belongs to the first. `encPc` and `detPc` say where
the two tasks are. `FeedPublish` and `FeedGive` are the two halves of `frame_pool_submit()`,
`DetectTake` and `DetectPop` those of `frame_pool_recv()`. `PushFree` keeps the refusal of
`list_push()` for an element that is not checked out, and `FeedPublish` the early return it
causes; `OnePlace` then shows neither is ever taken. `PedStart(result)` has an outcome per
failing allocation. Both lists are stacks, as in the code. `ahead` is a history variable:
for each buffer, how many frames were submitted after its own.

**FrameHandoff** is the abstract specification: an owner per buffer, five moves, at most one
buffer in each side's hands. `FramePool` defines `Owner(e)` from the lists and the two
tasks' variables and instantiates it; `OwnershipCycle` is checked and proved.

**VideoPipeline.** An action is one ioctl, one queue call or the code between. `Faults` is
the set of ioctls that may fail, each time they are called. `encPc` follows
`hal_h264_encode()` call by call: `qbuf`, `dqbuf`, then `unqueue` (no bitstream) or `reclaim`
(a bitstream) and `reject` for the error paths that hold one. The drivers are not in the
repository; they are modelled from what `app_config.h:32` and `:48` and the HAL's comments
say of them and are marked external in the map: the CSI driver always has one buffer under
DMA and, with nothing queued, fills the same one again (`SilentDrop`); the encoder refuses
an input while its slot is queued and needs a bitstream buffer to encode. `leaked` is the
set of buffers a failed QBUF left with nobody; `stuck` records that the input slot's DQBUF has
failed, the fault after which the code says itself that the encoder "needs a restart"
(`hal/hal_h264_encoder.c:141`).

**FrameGrid.** A call reads the clock up to `MaxGap` after the one before and passes or drops
its frame. To state rates, the specification watches a window: it may open at any passed
frame (a choice in `Passed`), and `passes`, `mark`, `grid0` and `gap` record what happened
since. `Reboot` clears the static `next_us` and the clock.

**Overlay.** `store_results()` a result at a time under the mutex, `ped_get_boxes()` a box at
a time under it, then `draw_corners()` per box and the publication of the dirty rows. `HRun`,
`VRun`, `Corners`, `DirtyAdd` are the functions of `osd.c`; `CornerMarks` is the shape they
are compared with. The two loops of `dirty_add()` are counts: `Before` of the ranges the first one
passes, `Absorbed` of those the second takes in while the range grows to `Reach`.
`hal_vcap_publish_rows()` may fail for any of the ranges (`task/task_video.cpp:158` does not look):
`EncPublish` chooses which, and their rows go to the history variable `unpublished` instead of
`published`. Pixels are luma samples. The encode task is the same task as in
`FramePool` and `VideoPipeline`; what it does to the pool, to the camera buffers and to the
boxes touches disjoint state, so each is a module.

**MediaRing.** One sending task and the peer loop, which share no lock. The order of memory
operations is part of the model: between two barriers a side's accesses may happen in any
order, so a push has a set of cells it has yet to store (`unstored`), the drain one of cells it
has yet to load (`unloaded`), and `__sync_synchronize()` is the guard that the set is empty. A
cell says which byte of which prefix or frame it holds; nothing is assumed of a frame's content.
`SendGate` looks at the connection state once; a frame let through is pushed whatever happens to
the connection. `PushRoom` and `PushWrap` each read `head`, which may move in between. Of
`buffer.c` the repository has only the lines its patch touches; the room check and the offsets
between them are libpeer's, modelled from what the patch's lines need, and external in the map.
`Block` is what `buffer_new()` allocates: `Size` cells and no more. After a frame of odd length
has wrapped (`skewed`, history) an entry begins at any offset, so a prefix can begin in the last
bytes of the block and reach up to `Word - 1` cells behind it. Such an access is outside the ring's memory;
`AccessInBlock` says it does not happen, and is violated (`ring_overrun`). `mem` has these cells so
that the run can go on: what `HoldsQueued` and `InOrderOnce` say from then on rests on nobody else
writing them between the store and the load. `queued` and `out` are history, and so is `marks`: the
offsets where the entries begin, which the code finds by reading one prefix after the other. `Ids`
numbers the frames modulo 3: enough to tell a frame from the one before and the one after.

**Media.** Around the rings, which are queues here, as `MediaRing` shows them to be. The three
flags the tasks share (`s_pc`, `s_state`, `s_keyframe_requested`) have no lock, so each read and
each write is an action: `EncReadRequest` and `EncClearRequest` are the two halves of
`webrtc_take_keyframe_request()`, `EncGate` and `EncPush` those of `webrtc_send()`. The peer loop
looks at the state once per pass, empties the audio ring, then the video ring, then receives. A
frame is "early" if it was in its ring when the pass began. libpeer keeps a state of its own,
`pc->state`, which the peer loop looks at, and tells `s_state` of each change by the callback
`on_ice_state_change()`; the model has one variable for both and so assumes that the callback runs with
the change, before the task that made it does anything else. `straggled` and `unserved` are
history; the first stops at 2, one more than the property allows.

**Gather, Signaling.** A datagram is its class and method (`kind`), the only fields the wait
compares, and `own`, history: whether it answers the request this wait has sent. The code cannot tell:
`stun_msg_create()` writes one constant transaction id into every message
(`patches/sepfy__libpeer.patch:42`). The network loses, delays and reorders answers; they stay in the
socket until read, by whichever wait comes next or by the connectivity checks. So the wait takes any
answer of its kind, one left over from an earlier gathering too, and the own answer then stays for a
later wait. `owed` and `leftover`, history, say that the own answer has come in time and is unread, and
that one of its kind was about before the request. `Wake` is the sleep between two reads, the only
thing that takes time. The tick of FreeRTOS may be longer than the sleep asked for
(`src/sdkconfig.defaults` does not set `CONFIG_FREERTOS_HZ`), so a sleep takes 0 to `MaxSleep` of the
clock.

`Signaling` adds the two tasks. Both run on core 0 and the peer task has
the higher priority, so its code between two calls that can block is one step, and such a step
may come between any two of the signaling task. The calls that block are the network's, the
sleeps, and log lines: the log's lock may be held by a task on core 1. That is why
`PeerDescribes`, `PeerNotifies` and `PeerClearsId` are three actions, and why a state of the
connection beyond NEW is left in two: `PeerLooks` reads it, the check, the handshake or the read of the
socket follows (`PeerReads`), and `PeerMoves` stores the next one over whatever the signaling task has
made of it meanwhile. An offer is the id of its
request. `peer_connection_create_offer()` is libpeer's; the repository calls it, and it is taken
as one step. `Mailbox` instantiates `FrameQueue` with what is parked or in the signaling
task's hand as the queue, and the last offer published as what came out of it. `since` and `latest` are history.

**G711.** The sign, segment and mantissa arithmetic of both directions, without bit operators;
`MCMedia` evaluates what is said of it for all 256 bytes and all 65536 samples.

**Netif, Downlink, Boot.** `Boot` follows `app_main()` step by step, with the restart that an
`ESP_ERROR_CHECK` is and with the parts it goes on without: no codec means no speaker task, and
`task_webrtc` may not come up. The Wi-Fi driver posts events to the event task in order. Neither
handler looks at the result of `esp_wifi_connect()` (`hal/hal_netif.c:99`, `:105`): `Connect` makes
the station connect, or leaves it as it is with no event to come (`refused`, history). In
`Downlink` a byte is its payload's number and its place in it; a stream buffer call is atomic.
`spkPc` has a state for a reader that waits (`blocked`) and one for a reader that was woken,
since the wake-up depends on the trigger level and `SpkReceive` does not.

Bounds in the specifications themselves: `MaxAhead` saturates the history `ahead`, `Horizon`
ends the clock of `FrameGrid` (a device that has been up that long only drops the call; it can
still reboot), `MaxGap` is the longest time between two frames. `MaxDropped` ends the drop counter of `Downlink`;
a payload that would exceed it does not arrive, and every shorter overflow has by then happened
at every fill level. `Clock` is 2^32 in the firmware; `MaxSleep` is the longest a poll's sleep
becomes; `SocketLen` is what lwIP keeps for a socket, `InboxLen` the messages on their way, and a
full one takes no more; `Requests` is how many offers browsers ask for in all, so each has its
own id.

## The runs

| Run | States | Question | Bounds, and why they are enough |
|---|---|---|---|
| `frame_pool` | 2,437 | Is the pool sound under every interleaving and every failure of `ped_start()`? | 3 elements, feed 1 frame in 3. One more than the firmware's 2, so that one can be filling, one ready and one running at once |
| `frame_ahead` | violation | Is the detector at most one frame behind? | the firmware's 2 elements |
| `pipeline` | 46,820 | Whatever ioctl fails whenever: are buffers conserved and unshared, is the encoder ready for the next frame, do frames come back? | 4 buffers (the firmware's 3 and one to lose), the firmware's 1 bitstream buffer, all seven faults |
| `pipeline_spare` | violation | Does the queue length leave the driver a buffer to go to? | the firmware's 3 buffers, no faults |
| `frame_grid` | 30,849 | Bursts, gaps, drift? | interval 4, frames 0 to 9 apart: early, on time, one late, more than two intervals late |
| `overlay` | 471,757 | Boxes of one inference; exact marks; exactly those rows published, or their write-back failed? | 16 x 16 frame, 2 boxes per inference out of 3: over two corners of the frame, in either order of corners, odd and even ends, bands that stay apart and fill the list of four, abut, and take in two others; one result too many, and results without coordinates; any of the write-backs fails |
| `media_ring` | 404,902 | Is the lock-free ring a queue? Does it take what its size promises? Does the drain get through? Does it stay in its block until an odd frame has wrapped? | 10 cells, prefixes of 2, frames of 1, 4, 5 and 9 bytes: entries of 4, 6, 8 and 12, so one that always fits, one over half, one larger than the ring; even and odd lengths that wrap, so that every offset, aligned or not, is a place where an entry begins |
| `ring_overrun` | violation | Does every access stay in the block? | as `media_ring` |
| `media` | 52,796 | With every access of a shared flag interleaved: who pushes into what, what waits for what, which keyframe requests are kept? And is the codec right? | rings of 2: empty, one frame, full |
| `offer` | 1,410,644 | From a request to its offer: is the answer of a server found, is the wait as long as it says, is each request answered once? | 2 servers, one of each kind, so that an answer of any kind can be left over for a wait of any other, and with the second gathering for one of its own kind; a wait of 2 ticks and sleeps of 0 to 2, so that a wait ends on its deadline or past it; a clock of 5, which wraps in the first or a later wait; 2 requests, so that one can overtake the other |
| `offer_lost` | violation | Does the latest accepted request get its offer? | no servers, 2 requests |
| `boot` | 669,974 | Is the station connected again, unless `esp_wifi_connect()` failed? Is audio played in order, and always played? | 2 retries, a buffer of 5 bytes with a trigger level of 2, payloads below, at and above the level: every fill level, partial write and split chunk |

Every run but `boot` checks for deadlock: those parts never stop. In `boot` the system really may:
a station that has used up its retries before boot got an address waits for ever, and so does a
device without audio whose network is gone.

What the passing runs show, beyond types (where a run does not check its module's `TypeOK`,
it is a theorem):

* `OnePlace`, `TokenPerReadyFrame`, `GiveNeverRefused`: the pool's two shortcuts (a token
  given after the lock is dropped, and a give whose result is ignored) are safe, because
  tokens and ready frames differ only by the half-done submit and the half-done receive.
  `ReadyFrameIsRun`, `FreeComesBack`: with a running detector nothing is stranded. "Some ready
  frame is run" is all that holds: with a stack, a given frame can wait for ever.
* `BuffersConserved`, `NoSharedBuffer`: over all error paths. `DropsOnlyDuringSend`: a frame
  can be dropped at the queue only after the encode task has handed its own buffer back, so
  `cap_drop` counts frames lost while one is being sent and none lost while one is downscaled,
  drawn on or encoded. Those losses happen inside the driver (`pipeline_spare`), which is what
  `app_config.h:38` says: "cap_drop stays 0 while cap falls". `src/DATAFLOW.md:488` says
  otherwise ([below](#where-the-code-and-its-comments-disagree)).
* `EncoderReadyForFrame`, `EncoderReadsHeldFrame`: on every error path of `hal_h264_encode()` the
  input slot is given up before the frame is, and no bitstream buffer is missing but those a
  refused QBUF took. The exception in both is `stuck`.
* `FramesComeBack`: a frame in the application's hands goes back to the driver whatever fails, or
  is lost by the refused QBUF that was to give it back; a bitstream buffer that is gone does not
  keep a frame.
* `NoBurst`, `NoGap`, `NoDrift`: n + 1 frames take more than n - 1 intervals; a frame a whole
  interval after the last passed one is never dropped; in a window without a late frame the
  n-th frame passes at the n-th grid point or the first frame after it.
* `HoldsQueued`: what lies between `head` and `tail` is exactly the accepted frames with their
  prefixes, at every moment of a push or a drain. It is why the sender needs no lock: no store of
  its goes where the peer task may be reading. `InOrderOnce` refines the ring to `FrameQueue`;
  dropping the barrier before the store of `tail` breaks it. Both rest on the
  assumption above about the cells behind the block.
* `InBlockUntilSkewed`: as long as no frame whose length is not a multiple of the word has
  wrapped, neither side reads or writes outside the block. The padding is what it takes. The audio
  ring, whose frames are 160 bytes, stays there for ever; the video ring does not (`ring_overrun`).
* `EmptyTakesHalf`: the room a wrap wastes is never so much that an empty ring refuses a frame of
  half its size. `CONFIG_VIDEO_BUFFER_SIZE` "must fit one or two IDR frame"
  (`core/libpeer_config.h:53`): one that is half of it.
  `HeadGoesOut`: a sender cannot hold the drain at one frame, however fast it fills the ring.
* `KeepsTrying`: events queue up behind one another, but an idle station has the one on its way that
  connects it, unless its retries are used up or an `esp_wifi_connect()` has failed. After that
  failure it stays idle with retries left: nobody looks at the result, and no event comes. The retry counter is never reset, so this is a promise for
  `WIFI_MAX_RETRY` losses in the whole time the device is up.
* `OnlyTailsMissing`, `ChunkIsPlayed`: see the module. They hold from the creation of the buffer on,
  through the tone, when payloads pile up and nobody reads.
* `AudioWaitsOnePass`: when video goes out, no audio is left that was there when the pass began;
  what came after may be left for the next pass. Before the patch one audio frame went out per pass.
* `OnlyAStraggler`: since the gate is not held while a frame is pushed, a sender can get a frame into
  a stream that has just stopped: one, which stays in the ring and opens the next session. If the
  peer task cannot be created the connection is destroyed and `s_pc` keeps its address; nobody
  uses it, because `s_state` can then never have become COMPLETED.
* `RequestKept`: the window between the read and the clear is the only place where a keyframe request
  is lost (`src/DATAFLOW.md:528` says so); outside it the request reaches `hal_h264_force_idr()`.
* The codec, in `MCMedia`'s assumption: `BytesAreStable`, `ErrorIsHalfAStep` (the most negative sample
  and the ends of all segments included), `CurveIsMonotone`.
* `AnswerTaken`: a wait whose answer arrives while it still has a read to come does not fail,
  past whatever lies before the answer in the socket. It ends with that answer, unless another of
  the same kind was in the socket or on its way before the request: that one is taken in its place,
  which the code cannot tell. `owed` is then still true although the wait is over; `leftover` is the only
  excuse. `WaitIsTimed`: the wait is
  neither shorter than `AGENT_STUN_RECV_TIMEOUT_MS` nor longer by more than a sleep, unless the
  clock wraps within it. If only the deadline has wrapped, the wait ends after its first pass; if
  the last sleep takes the clock past the wrap and the deadline, it goes on for 49 days.
* `MailboxIsQueue`, `OneResponse`: the mailbox has two holders for an instant, when the signaling
  task has copied the pointer and not cleared it; `Park`'s look at it is why that is safe. No
  request is answered twice, and none both refused and offered.
* `OfferIsMade`: servers that never answer do not keep an accepted request from a description.
* `BoxesOfOneInference`, `DrawnAreCorners`, `DirtyMergedAndSorted`, `NoStaleRow`,
  `OnlyDrawnRows`: see the module. `NoStaleRow` excepts the rows whose own write-back has failed.

Each property has a mutant of a mapped definition that breaks it (`PROJECT.json`, "mutants");
mutants stand before the definition they change and are used by nothing else.

## Fairness

* `FramePool`: weak fairness of `detect_task`, whose only wait is the semaphore, and of the
  give that ends a submit, a step the encode task takes without waiting. None for the feeding
  itself: frames may stop coming. The tasks are pinned to different cores and both cores have
  headroom (`app_config.h:358`).
* `VideoPipeline`: weak fairness of the capture task and of the encode task. Every call they
  make returns: DQBUF has a timeout (`VIDEO_DQBUF_TIMEOUT_MS`), the queue send does not wait,
  the queue receive waits only for the capture task, and the two share a priority, which
  FreeRTOS time-slices. None for the camera: it may stall for ever, and frames still come back.
* `MediaRing`: weak fairness of the drain. The peer task has the highest priority of all
  (`app_config.h:333`) and waits for no sender. None for the senders, and `HeadGoesOut` asks
  nothing while the connection is down.
* `Boot`: weak fairness of `task_speaker`, which waits for nothing but the buffer; a codec write
  returns at the pace of the samples. None for the network, the peer or boot itself.
* `Signaling`: weak fairness of each task. No call of theirs blocks for ever: the socket does not
  block, sleeps are 1 to 10 ms, and a log line waits only for another line. The peer task has core
  0 whenever it is ready, and the signaling task runs in its sleeps (`app_config.h:333`). A sleep may
  leave the clock where it is, so there is also strong fairness of `PeerSleeps`, a sleep in which it
  moves: the clock runs, however short the sleeps are. None for the network, the servers or the
  browsers.
* `FrameGrid`, `Overlay` and `Media` state safety only.

## The proofs

All theorems are for every value of the constants that meets the modules' assumptions; there are
no others. The assumptions: at least one pool element, three camera buffers (with fewer
`CAP_BUF_COUNT - 2` is no queue), one bitstream buffer, one place in a ring or a socket; a positive
interval, frame size, arm, timeout and sleep; a clock that does not go round twice within one wait; a
chunk that fits the stream buffer. Each safety property of each passing run is a theorem, and so is
each of the three refinements.

The proofs have one plan. An inductive invariant, first checked by TLC on the run's instance; a
lemma that `Init` implies it; a lemma per action, or per group that touches the same variables, that
keeps it; the theorem `Spec => []Inv`; and from that the properties. What a proof needs to know of
sequences and counts is stated once as a lemma (`ListLemmas`, or beside its first use).

**Frame pool** (`FramePoolProofs`). `OnePlace` is not inductive alone: that a buffer popped
from a list is in nobody's hands needs `NoDuplicates` and the flags; that
`xSemaphoreGive()` is not refused needs a bound on the ready list, which is a count. The
inductive invariant is

    PoolInv == TypeOK /\ Dormant /\ OnePlace /\ TokenPerReadyFrame /\ Counted

where `Dormant` says nothing happens before there is a pool, and `Counted` that the lists and
the two hands add up to `ElemNum`. `PoolTypes`, `OneOwner`, `SemaphoreAgrees` and `NoTokenLost`
follow; for the last, a submit in progress has its element on the ready list and unpaid, so the
count is below `Len(ready_list) <= ElemNum`.

**Ownership cycle** (`FramePoolProofs`). `PoolKeepsCycle`: `Spec => OwnershipCycle`,
from `PoolInv`. `Owner` is a CASE over the lists; `OwnerIsPlace` turns it, under `OnePlace`,
into five equivalences. Each action is then a move of the abstract cycle or a stutter.

**Video pipeline** (`VideoPipelineProofs`).

    PipelineInv == TypeOK /\ NoSharedBuffer /\ BuffersConserved /\ OutputsConserved /\ SlotInCall

`TypeOK` ties each task's buffer to where its code is. `BuffersConserved` is a count and
`NoSharedBuffer` is about places; neither is inductive without the other: a buffer that leaves
its place keeps the count only if it was nowhere else. `OutputsConserved` counts the bitstream
buffers the same way, those a failed QBUF took included, and `SlotInCall` says that a queued input
slot that is not `stuck` points at the frame in hand, between the QBUF and the DQBUF of one call.
`DropsOnlyWhileSending` is arithmetic on the count: a full queue, the capture task's buffer and the
one under DMA are all there are.

**Pacing** (`VideoPipelineProofs`). The inductive invariant `GridInv` has three parts besides the
types: `PointAhead` (the grid point waited for is in the future by at most an interval after the
last frame), `GridMoved` (each passed frame moved the grid by an interval or more: no burst) and
`GridKept` (by exactly one, while no frame was late: no drift). `BurstBounded`, `RateExact`
and `NeverStarved` follow.

**Overlay** (`OverlayProofs`).

    OverlayInv == Typed /\ Copying /\ DrawnAreCorners /\ Drawing

Two arguments that meet in it. *Boxes:* `BoxesOfOneInference` speaks only of a finished copy;
`Copying` says what the mutex buys before that: each box copied so far is in the array as it
stands, and the array is what the last whole inference stored unless the next one is being stored.
*Rows:* `DrawnAreCorners` is inductive, by `CornersAreMarks`: the pairs of pixels `draw_hrun()`
writes (`HRunIs`, with `PairsCounted` for how often its loop runs) and the runs of `draw_vrun()`
are the marks, whatever the parity of the ends. That exactly the rows drawn on are published needs
more than the list's order: `Drawing` says that the rows of the list *are* the rows of the pixels.
`DirtyAddMerges` is the lemma for `dirty_add()`, for any sorted list and any range: the result is
sorted and apart, its rows are those from before and the new ones, and it is at most one range longer;
`BandsAdded` is the two calls per box. So the list has at most two ranges per box, which is its
size: the branch for a full list, which would publish rows nobody drew, is never taken. When the
encoder reads the frame, every row of the list is in `published` or in `unpublished`, the rows of the
write-backs that failed; that is the last clause of `Drawing`, and the exception of `NoStaleRow`.

**Ring** (`MediaRingProofs`). `EmptyTakesHalf` needs only the types of the invariant. With
`head = tail` the free space is one less than the size, so half fits; and if the entry wraps, what
lies before `head` is at least the entry, since what lies behind is less than the entry and both
together are at least twice it. The invariant is

    RingInv == TypeOK /\ HoldsQueued /\ Ordered /\ RoomKept /\ Stored /\ Loaded

`TypeOK` needs `HoldsQueued`: a length read from the ring must be one that was stored. `HoldsQueued`
says what is in the cells of each queued entry; that a store leaves them alone is geometry.
`Ordered` has the entries one behind the other from `head`, around the end at most once. `RoomKept`
is what the sender's look at `head` is still worth when `head` has moved: the room only grows. The
entry under way then lies in cells that no queued entry uses (`Used`), whichever of its cells is
stored next. `Stored` and `Loaded` say, for the two sides, that every access before the barrier that
is not left in `unstored` or `unloaded` is done. `RingIsQueue` (`Spec => InOrderOnce`) follows: the
store of `tail` is the abstract queue's `Put`, the pop is its `Take` of a frame that `Loaded` has
whole (`PayloadTells`: a payload tells its frame); every other step is a stutter. Since the order of
the accesses between two barriers is free in the model, this is the proof that the two barriers are
enough.

*The block.* `RingInv` says where the entries are, within a memory that has the cells behind the block,
and so does not by itself keep anybody inside. `RingInBlock` (`Spec => []InBlockUntilSkewed`) adds
`AlignedMarks`: in a ring whose size is a multiple of the word, every entry begins at one until
`skewed`. A push keeps it, because the entry's length is padded (`AlignAligns`) and the tail of an entry that
wraps is its payload's length, a multiple of the word as long as `skewed` is not set. An aligned prefix
ends where the block does at the latest (`AlignedRoom`), and a payload by `RoomKept`. That the condition is
needed is `ring_overrun`.

**Media** (`MediaProofs`). `AudioWaitsOnePass` is inductive once the rings have their types; the other
two are not, and the inductive invariant is

    MediaInv == TypeOK /\ AudioWaitsOnePass /\ Started /\ Straggling /\ Kept

`Started` says what a state of `task_webrtc` implies: a sender past the gate or a connection that
is up means its loop runs, so the connection exists. `Straggling` adds to the count that a sender
that has used up its straggler is before the gate again, which is shut. `Kept` adds to `RequestKept`
that a request that was in the flag when it was read is in `requested`. `MediaTypes`, `AudioFirst`,
`GateHolds` and `NoRequestLost` follow, for rings of every size.

**STUN wait** (`SignalingProofs`). `Types` adds to `TypeOK` that a wait is for a configured server
and a request has the id of its browser. The rest is

    Waits == OwnAnswers /\ Fresh /\ Owing /\ Timed

`OwnAnswers`: only the wait in progress has answers of its own, and they are of the kind it expects.
`Fresh`: if none of that kind was about before its request, what is of that kind is its own.
`AnswerTaken` says that a wait that is owed an answer does not fail; `Owing`, which is inductive, says
why: the answer is still in the socket, and the clock still before the deadline when it will be read;
or an answer of the same kind has ended the wait, which by `Fresh` takes a `leftover`. `Timed` says
where the deadline is: `Timeout` after the beginning, modulo `Clock`; and that without a wrap each pass
began before it. `OwedAnswerTaken` and
`WaitEndsOnTime` follow, for every number of servers, every timeout and sleep and every clock.

**Mailbox and responses** (`SignalingProofs`).

    OfferInv == Handing /\ Arriving /\ Accepted /\ Responded

`Handing`: between its copy of `pending_payload` and the clearing of it the signaling task holds
what is in there; after it, never. `Responded`: an offer is in one place, and has no error beside
it. That is not kept without knowing about the ids: `Arriving` says that a request on its way is in
neither list and on its way once, and `Accepted` that the request in `g_ps.id` has had no response,
or its offer was parked a moment ago and the peer task is about to clear the id. `OneResponseEach`
follows. `MailboxKeepsQueue` (`Spec => MailboxIsQueue`) maps what is parked or in hand to the
queue: the copy and the clearing are stutters, parking is `Put`, the publication `Take`. That
`offer_lost` is violated is no contradiction: an offer that never gets into the mailbox is lost
before it.

**Boot** (`BootProofs`).

    BootInv == TypeOK /\ NetifInv /\ DownlinkInv /\ Unstarted

`NetifInv` is types and `KeepsTrying`: taking an event off the queue leaves the others pending
(`EventTaken`), and the handler of the one an idle station waits for calls `esp_wifi_connect()`, which
connects it or is `refused` (`Connected`), or finds its retries used up.
`DownlinkInv` is types, `OnlyTailsMissing` and `Held`: task_speaker has a chunk in hand exactly
in the codec write. `OnlyTailsMissing` is about the byte played last, the chunk and the buffer as one
list, so a read and a write only move its bounds; the work is in the submit, whose accepted
part follows the last byte in the buffer or begins a payload. `Unstarted`: nothing runs before
`app_main()` creates it, so the restarts before that have nothing to cut short.

Only model-checked: every liveness property (`ReadyFrameIsRun`, `FreeComesBack`, `FramesComeBack`,
`HeadGoesOut`, `ChunkIsPlayed`, `OfferIsMade`), since fairness is beyond the prover; the codec, a
finite table that TLC evaluates completely; and the four violations, which are counterexamples.

## Where the code and its comments disagree

Four runs end in a violation; each states what a comment or a test says.

1. `frame_ahead`: "Two lets the camera be at most one frame ahead" (`app_config.h:179`), but
   the ready list is a stack. A frame can wait behind newer ones and be run several frames
   late; its boxes are then drawn as the latest. With the push at the tail the property holds.
2. `pipeline_spare`: the comment at `app_config.h:25` derives a queue of `CAP_BUF_COUNT - 2`
   from "the driver must always keep at least one buffer to DMA into". To the letter that is met: with
   one frame in the encode task and one in the queue the driver has one. What the comment wants it for is not:
   the driver needs a second one to go on to, and without it the silent drop the comment
   warns of happens. One more buffer, with the queue as
   long as it is, would avoid it.
3. `ring_overrun`: "Each entry also carries a 4-byte length prefix, 4-byte aligned"
   (`core/libpeer_config.h:45`). After a wrap `buffer_push_tail()` sets `tail` to the plain payload
   length (`patches/sepfy__libpeer.patch:265`), so the entries that follow are aligned only if that
   length was a multiple of 4, and H.264 frames have any length. A prefix that begins in the last one
   to three bytes of the ring is then stored (`:262`, `:269`) and loaded (`:281`) across the end of
   the block, of which `buffer_new()` allocates exactly `size` bytes (`:217`). `tail = ALIGN32(size)`
   would keep the alignment, and the entries inside.
4. `offer_lost`: a request that is accepted while the offer before it is being handed over gets no
   response. `peer_signaling_onicecandidate()` ends with `g_ps.id = 0` whatever has been written there
   since it read it (`patches/sepfy__libpeer.patch:764`); if the peer task waited in the log line
   before that, the new request's id is cleared, and its offer takes the branch for a device without
   an id. Or the new offer is ready before the old one is published and is dropped with a warning
   (`:755`). `tests/peer-probe/getsdp.js:10` waits for the response with its id, and times out.

Divergences without a run of their own:

* "`hal_h264_encode()` dequeues its input slot before returning" (`task/task_video.cpp:193`) is
  false when that DQBUF fails: the frame goes back to the camera while the slot still points at
  it. It is why `EncoderReadsHeldFrame` excepts `stuck`.
* "`q_cap` climbing towards 2 and `cap_drop` becoming non-zero means the encode task cannot keep up
  with the sensor — usually because the PPA + OSD + encode chain exceeds 33 ms"
  (`src/DATAFLOW.md:488`), and "Encode is behind" (`task/task_video.cpp:117`). With a queue of one
  and three buffers, `DropsOnlyDuringSend` (checked and proved) says that no frame is dropped at the
  queue while one is in that chain: `encBuf`, one in the queue and one under DMA are all there
  are, so the driver has none to hand out. A slow PPA, OSD or encode shows as a falling `cap`, as
  `app_config.h:38` has it; `cap_drop` counts what is lost while the encode task sends. `q_cap` cannot
  exceed 1.
* "Never let the marks meet in the middle, or they become a full rectangle again and the dirty bands
  merge into the whole box height" (`core/osd.c:110`). The arm is cut to half the height and half
  the width, rounded down, and drawn inclusive on both sides. For a box at least as wide as tall and
  3 to 98 rows tall the bands y1 .. y1 + arm and y2 - arm .. y2 overlap or abut, so its sides are
  closed and `dirty_add()` merges the two into one.
* Browser-to-device audio is described as not wired: `src/ARCHITECTURE.md:571` ("no inbound
  audio-track callback is registered") and `src/DATAFLOW.md:341`. `task/task_webrtc.cpp` registers
  `on_audio_track()`, which calls `speaker_submit_g711a()`; `Downlink` models it.
* "there is nothing left to fail" (`app_config.h:295`): a full ring makes a send fail.
* "Bounded wait, unlike video's best-effort drop" (`task/task_audio.cpp:50`): the audio send no
  longer waits, and drops as video's does.
* "`peer_connection_loop()` runs every 1 ms" (`core/libpeer_config.h:40`): every 5 ms once connected
  (`app_config.h:298`).
* "RTP/SRTP packetisation of a large frame" as part of the send (`src/DATAFLOW.md:391`): the send
  only copies into the ring; packetisation is the peer task's.
* "There is no pacing" (`task/task_video.h:14`), from before `on_frame_grid()`.
* `speaker_submit_g711a()` is described as dropping the payload when the buffer is full, and drops
  its end.
* A frame dropped at the queue "is NOT re-queued" (`src/DATAFLOW.md:63`): `CapDrop` re-queues it as
  the code does, and `CapDrop_Leak` is what the document describes.

## What is not modelled

* Both media streams are in `Media`; the bytes of a frame are in `MediaRing`, with one stream, since
  the two rings share nothing.
* ICE connectivity checks, DTLS, SRTP and the MQTT session: libpeer's; the datagrams they read and the
  state changes they make are choices (`PeerReads`, `PeerMoves`, `PeerCompletes`).
* Which browser an answer comes from: the device does not look, and takes any answer while it is
  in NEW.
* What a wait of 49 days does to the device: `OfferIsMade` and `WaitIsTimed` except the wrap.
* The peer probe, `tests/peer-probe`: a test client; `Signaling`'s browsers do what it does.
* The opening of devices call by call: `Boot` has one step for each part and its outcomes.
* `buffer_clear()`, which nothing in the repository calls.
* What the accesses of `ring_overrun` do to the allocation behind the ring, or it to them.
* Statistics: a lost increment changes a log line. Logging and timing averages everywhere.
* The detection network, the PPA, the CSI and H.264 devices, libsrtp: hardware or third-party
  code; what they return is a choice in the modules that call them.
* Pixel values, chroma bytes, bitstream contents.
* `portMUX` and FreeRTOS objects are taken as atomic, as documented by FreeRTOS.

## Plan

Done: every module above, and a theorem for each safety property and each refinement the runs check.

What is left:

1. A composition of the encode task's three roles (feeding the pool, drawing, encoding), so that the
   detector's buffer, the frame and the boxes are seen in one loop, and that drawing happens only
   between the DQBUF of the camera and the QBUF of the encoder.
2. Under it, lemmas for the step from each module's properties to the composed one.
3. The liveness properties stay with TLC. What can be proved of them are the safety facts they rest on:
   for `HeadGoesOut`, that a pass of the drain shortens the ring by the frame at its head.
