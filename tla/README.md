# raspberrypi5-rtsp-server: a TLA+ model

The program is an RTSP server in C++: a capture thread (audio, camera or an
H.264 file) puts frames into one shared ring; each RTSP session has a request
thread that talks to its client over TCP and a stream thread that takes frames
out of the ring and sends them as RTP packets over UDP.  Nearly everything that
is hard about it lies between those threads: what is read outside a lock, how
long a pointer into the ring stays good, which wake-up a sleeping thread gets,
and what one client's failure does to the others.  This directory models those
parts, checks them with TLC on small instances and proves with TLAPS, for every
instance, each invariant that the passing runs check and both refinements; the
liveness properties are TLC's alone.

Paths below are relative to the repository root as it appears in PROJECT.json
(`src/src/...` is the library, `src/inc/...` its headers, `src/example/...` the
three servers built on it).

## 1. Inventory

| component | state | operations | interacts with |
|---|---|---|---|
| Frame buffer (`DataCapture`) | `frameBuffer` (10 slots), `head`, `tail`, `buffer_size`, `bufferMutex`, the slots' heap blocks | `pushFrame`, `popFrame`, `isFullBuffer`, `isEmptyBuffer` | called by every capture thread and every stream thread; a singleton |
| Stream thread control (`MediaStreamHandler::HandleMediaStream`, `SetCmd`) | `streamState`, `streamMutex`, `condition` | the loop of the stream thread; `SetCmd` from the request thread | the frame buffer; the request thread |
| RTP and RTCP sender (`SendFragmentedRTPPackets`, `rtp_sendto`, `RTCPPacket`) | the RTP header (seq, marker, timestamp), `packetCount`, `octetCount` | fragment a frame, number and send packets, send a report every 100 frames | called by the stream thread; `UDPHandler` |
| Request threads and accept loop (`RTSPServer`, `RequestHandler`, `TCPHandler`, `ClientSession`, `UDPHandler`) | connections, sessions, the current `mediaStreamHandler` of each request thread, file descriptors | accept, receive, parse, answer; SETUP creates a stream, PLAY/PAUSE/TEARDOWN call `SetCmd` | clients (TCP), stream threads, `onInitEvent` starts a capture thread |
| Video file capture (`H264Encoder`, `example/VideoServer`) | the mapped file, `ptr_mapped_file_cur` | find start codes, strip them, push NAL units | a producer of the frame buffer |
| Audio capture (`LoadOpus`, `AudioCapture::read`, `OpusEncoder`) | an ALSA handle, an encoder, `pcmBuffer`, the frame's timestamp and buffer | allocate, read, encode, push | the sound card; a producer of the frame buffer |
| Camera capture (`FFmpegEncoder`, `example/CameraServer`) | libcamera, codec contexts | capture, encode, push | a producer of the frame buffer; not modelled |
| Utilities (`Global`) | a random engine | time, random numbers, the host's address | input only; not modelled |
| Generated documentation (`docs/html`) | none | the pages and scripts that Doxygen emits | no part of the server; not modelled |

What makes each part correct, and hard:

* **Frame buffer.**  It should be a bounded FIFO queue whose frames are intact
  when they are read.  `pushFrame` tests `isFullBuffer` before it locks;
  callers of `popFrame` test `isEmptyBuffer` without the lock; `popFrame`
  returns the slot's *pointer*, which is used after the unlock; a slot's block
  is reallocated by comparing with the size of the last frame, not of the block.
* **Stream control.**  The stream should follow the last command.  The loop
  reads `streamState` anew for each branch without the lock, and waits on the
  condition variable without a predicate; only PLAY notifies.
* **Sender.**  A receiver should be able to reassemble each frame and to see
  losses.  Off-by-ones: the first byte is replaced by the FU bytes, yet the
  number of fragments is computed from the whole size; a frame may be an exact
  multiple of the fragment size; seq and the counters wrap.
* **Requests.**  Each whole request should be answered and carried out, and a
  session should not disturb another.  `recv` is taken to return one request;
  errors are answered with `nullptr` strings, unset pointers and a loop that
  ends; descriptors are never given back.
* **File capture.**  The pieces pushed should be the NAL units of the file.
* **Audio capture.**  A frame should be one period of sound, with a timestamp
  that says when.  The card overruns when the thread is late, a read may return
  too little or fail, every read reuses `pcmBuffer`, and each turn allocates.

`PROJECT.json` lists the hazards, each at its line with the properties that
cover it.

## 2. Modules

| module | models | built on |
|---|---|---|
| `FrameQueue` | what the frame buffer promises: a bounded FIFO queue | |
| `DataCapture` | `pushFrame`, `popFrame`, the ring and its memory | `FQ == INSTANCE FrameQueue` as refinement mapping |
| `Streaming` | the stream threads' sending of a frame, read byte by byte from the ring's memory | extends `DataCapture` |
| `MediaStream` | `HandleMediaStream` and `SetCmd`, one stream among others | `DataCapture == INSTANCE FrameQueue`: the buffer is its specification |
| `RtpSender` | `SendFragmentedRTPPackets`, `rtp_sendto`, the counters and reports | |
| `Session` | what the server promises one client about its stream | |
| `RtspServer` | accept loop, request threads and parsers, for all clients | `S(c) == INSTANCE Session` as refinement mapping; a stream is its last command, its thread is `MediaStream` |
| `AudioCapture` | `LoadOpus`, `AudioCapture::read`, `OpusEncoder::encode` and the sound card | its pushes are those of `DataCapture` |
| `H264Encoder` | `get_next_frame`, its helpers and `LoadH264File` | its pushes are those of `DataCapture` |
| `MC*` | instances for TLC, the sets of requests among them | |
| `Numbers` | lemmas on `\div` and `%` and on the least and greatest element of a set of numbers, proved | |
| `DataCapture_proofs`, `Streaming_proofs`, `MediaStream_proofs`, `RtpSender_proofs`, `AudioCapture_proofs`, `RtspServer_proofs`, `H264Encoder_proofs` | the theorems about the module of that name | that module, `Numbers` |

Two compositions.  `Streaming` puts the stream threads onto the ring itself,
because what they send depends on how their reads interleave with the steps of
`pushFrame`.  The other one is by contract: `DataCapture` is shown to implement
`FrameQueue`, and `MediaStream` uses `FrameQueue` in its place, so that the
interleavings inside the ring need not be explored again for each stream.
`MediaStream` has one stream thread; the threads of other clients appear as
`OtherTakes`, which takes a frame at any moment the buffer has one, because a
stream shares nothing else with another stream.

Conventions.  Actions and variables have the names of the code.  A thread's
`pc` says which of its steps comes next; a step is cut wherever another thread
may observe or change something in between, i.e. at lock, unlock and every
unlocked read, and at each write to memory that may be read without the lock.
An operator `X_Slip` placed before `X` is the form `X` would have after a
plausible mistake; nothing uses it, and each property has one that breaks it
(`mutants` in PROJECT.json).

### DataCapture

State: the slots `[dataPtr, size, timestamp]`, `head`, `tail`, `buffer_size`,
`bufferMutex`, `heap` (each block: live or freed, capacity, and for each offset
whose byte stands there), and per thread `pc`, the frame being pushed (`arg`) or
last popped (`ret`).  Of a byte only its frame matters, so a byte is the
timestamp of that frame, 0 where none has written, and a block is named after
the call that allocated it.  `memcpy` writes as many bytes as the frame has: a
block that was made for a larger frame keeps the end of an older one behind it,
and `Intact` says of a frame that its bytes are its own and that those behind it
are not.

| code | actions |
|---|---|
| `pushFrame`: unlocked full test, drop | `PushDrop`, `PushAdmit` |
| lock; free and allocate; `memcpy`; fields, indices, unlock | `PushLock`, `PushAlloc`, `PushCopy`, `PushCommit` |
| caller finds `streamState == Play` | `StartPolling` (`Play` in `Streaming`) |
| caller's unlocked `isEmptyBuffer` | `PollEmpty`, `PollFrame` |
| `popFrame`: lock; empty return; take | `PopLock`, `PopMiss`, `PopTake` |
| caller has finished sending | `Release` (`FrameSent` in `Streaming`) |

The unlocked reads of `buffer_size` are data races in the C++ sense; on the
machines this is built for an aligned `int` is read whole, so a read returns the
value before or after the write under way, which are the two orders of the
actions.  `lead` is a history variable: how many further pushes must begin
before the slot of `ret` is written again.

### Streaming

`bytes` is what each stream thread has read of the frame it is sending: byte
after byte, whose it was.  `ReadByte` reads the block that `ret` points to: what
is there, or anything (0) if the block has been freed; and the old byte or the
new one if a producer is in the middle of its `memcpy` over that byte (a data
race, hence a choice).  `bytesRead` is how many bytes a frame is sent with: as
many as it has if it fits in a packet, and one more if it is fragmented, since
`pos` starts behind the NAL header while the fragments are counted from the
whole size.  That last byte is whatever follows the frame in its block, the end
of an older frame perhaps.  How the bytes are cut into packets and labelled is
`RtpSender`.

A stream thread is "away" until it finds Play in `streamState` (`Play`), polls
and sends as long as the ring has frames, and is away again when it has none.
Whether it comes back is for its client to say, whose commands are those of
`MediaStream`; here it may, at any moment.

### MediaStream

`TestPlay`, `Drain`, `Pop`, `Send`, `TestPause`, `LockToWait`, `Wait`,
`SpuriousWake`, `Relock`, `TestTeardown` are the stream thread; `CmdCall`,
`CmdLock`, `CmdStore`, `CmdReturn` are `SetCmd` in the request thread; `Capture`,
`CaptureDrop`, `OtherTakes` are the other users of the buffer.  `wait` releases
the mutex and sleeps in one step, as the standard demands, and may return
without a notification.  `played` and `raced` are history variables.

### RtpSender

`Begin` (a frame is popped), `SendSingle` or `SendFragment`* `SendRest`, then
`Count`, the counters and the report.  A packet is its header fields and the
range of the frame's bytes in it.  `Sizes`, `MAX_RTP_DATA_SIZE`, `SeqMod`,
`CountMod` are scaled down, keeping their relations: sizes on both sides of one,
two and three fragments, a seq that wraps within a frame, and counters whose
modulus is not a multiple of the report interval, as 2^32 is none of 100.

### RtspServer

A request is the header lines that the parsers look at, and the blank line that
ends it; what a header says is abstracted to what the parsers make of it
("garbled": a CSeq that no blank follows; "words": ports on which `stoi`
throws).  What is on the wire is a sequence of such lines, and `recv` returns
all of it or (`Cuts`) any part that the code could tell apart: it may end
between lines or inside one, and `Parts` says what is then left of the line on
each side.  A line cut after its label gives another number or no port; the end
of a line that comes alone is a request without CSeq.  A parser is what it finds:
the first line of the kind it looks for (`First`), of the text that `recv`
returned.

`HandleNoCSeq`, `HandleUnsupported`, `HandleOptionsRequest`,
`HandleDescribeRequest`, `HandleSetupRequest` (`...NoPorts`, `...BadPorts`) with
`StartCapture` and `StartStream`, and `HandleCommand` with `SetCmd` are the
request thread; SETUP and the commands are cut after the answer has been sent,
and SETUP again between `onInitEvent` and the stream.
`SetCmdUninitialised` is the command without SETUP: the process dies, or memory
that is no stream is written.  `Accept` and `AcceptFails` are the accept loop.

`StartCapture` starts a capture thread, whether or not there is one, and
`OpenCapture` is that thread opening the sound card or the file.  `CaptureFails`
is its end and that of the process: the device or the file cannot be opened, for
want of a descriptor, because another capture thread has the device or for any
other reason, or the encoder cannot be made or fails on a frame.  The model puts
no condition on it, because the code has none: it may happen with one capture
thread and with descriptors left.

`descriptors` counts what is open: a connection, a capture, and as many of the
two UDP sockets of a stream as there is room for (`socketsOpened`).  `server` is
"stopped" when the accept loop has ended, "down" when a thread that serves
clients has ended the process (an exception that nothing catches, or SIGPIPE)
and "captureDown" when a capture thread has.  All that follows in a process that
is gone is left out (`Up`).

`Session` is the view of one client: it gets answers, and between an answer and
the next one the command answered is carried out on its own stream.
`ImplementsSession` maps it to the answers, the request thread's place and the
stream behind its pointer, for all clients at once.

### AudioCapture

The sound card is external: `Tick` records a sample, and overruns when more are
waiting than it can hold; the first read after it was prepared starts it
(`Start`).  A sample is named after the moment it was recorded, so a frame is
the sequence of samples in `pcmBuffer` when it was encoded.  `Alloc`, then one
of `ReadWhole`, `ReadShort`, `ReadOverrun` (with `snd_pcm_prepare`, which may
fail) and `ReadFails`, then one of `Encode`, `EncodeNothing` and `EncodeFails`,
then `Push`.  `lost` and `lostAt` are history variables.

### H264Encoder

A file is a sequence over 0, 1 and "other".  One action per turn of
`LoadH264File`: `PushNextFrame`, or the two ways in which the thread returns.
The reference knows nothing of the search: `Codes` is the set of the offsets of
0 0 1 in the whole file, `CodeAfter` the next one, `NalUnit` what lies between.

## 3. Runs

Twelve runs.  "Violation" runs show where the code does not do what a comment or
its own caller says; each is a finding in PROJECT.json.

| run | question | instance |
|---|---|---|
| `buffer_one_producer` | is the ring a FIFO queue, are memory and indices right and queued frames intact, for how long is a taken frame sent whole and what is sent afterwards, do pushes return and frames leave | 1 capture thread, 2 stream threads, 2 slots, 4 frames of sizes 0, 2, 3 in packets of 1 |
| `buffer_sent_frame_overwritten` | (violation) is what is sent as the bytes of a frame made of that frame | 1 + 2 threads |
| `buffer_overflows` | (violation) is the ring never overfull | 2 + 1 threads |
| `stream_control` | does the stream follow its commands | 1 stream, buffer of 2, 2 spurious wake-ups, frames that may be empty |
| `stream_play_lost` | (violation) does PLAY always resume | buffer of 1 |
| `stream_teardown_asleep` | (violation) does TEARDOWN always end the thread | buffer of 1 |
| `sender_packets` | are frames cut, numbered, counted and reported as a receiver needs | 8 sizes around 1, 2, 3 fragments, 5 frames, every first seq |
| `rtp_marker_missing` | (violation) does the last packet of every frame have the marker | the sizes of `sender_packets` |
| `server_wire` | do answers match requests, however TCP cuts or joins them; what takes the process down | 1 client that may leave, 3 requests of 8 kinds in flight, recv ends anywhere, 3 descriptors |
| `server_sessions` | are sessions independent; is each served as `Session` says; is every proper request answered | 2 clients, 3 requests each in any order, some without a number, 5 descriptors |
| `audio_capture` | are audio frames whole and in order, what do their timestamps count, what leaks, does an overrun end | periods of 2 samples, a card that holds 4, 11 samples, 2 faults, timestamps that wrap |
| `video_nal_units` | are the pushed frames the NAL units of the file | every file of up to 10 bytes over {0, 1, 2} |

Why the bounds are enough.  A ring of two slots is the smallest one in which
head and tail differ and which wraps; four or five frames go round it more than
twice, so that each slot is refilled with a smaller and with a larger frame
while an old pointer to it is held, so that a block keeps the end of a larger
frame behind a smaller one, and a frame can be overwritten between two of its
bytes.  Two producers are enough for an overfull
ring, two consumers for the race between the empty test and the lock; the
theorems of section 5 drop these bounds, the number of producers included.  In `stream_control` commands are not
bounded at all.  The descriptors of `server_sessions` and `server_wire` run out in each of the
places that take one (accept, a capture, first and second UDP socket).  In `audio_capture`
five frames fit between the overruns, so that a timestamp wraps more than once.  Ten bytes hold
three start codes with units of every length in between, and every remainder
after the last one.  `CHECK_DEADLOCK FALSE` is given where the system really
stops: when the clients have asked all they will ask, the process is down, or
the file is at its end.

### What the findings say

1. `FrameSentWhole`: `popFrame` hands out a pointer into the ring
   (`DataCapture.cpp:59`); a slow stream thread sends, as bytes of one
   frame, bytes of another or of freed memory.  `SentWithinLap` states, and
   `BytesWithinLap` proves, how long the pointer is good: with n frames
   in the ring when it was taken, until the (buffer_max_size - n + 1)-th next
   push begins to write.  `ForeignIsNewer` says, and
   `ForeignBytesNewer` proves, what may be sent later: with one producer, never a
   frame less than a whole ring ahead.
2. `CapacityRespected` with two producers: both pass the unlocked full test
   (`DataCapture.cpp:22`).  As every SETUP starts a capture thread, this takes
   two sessions only.  The full test is an equality, so the ring stays overfull.
3. `PlayResumes`: PLAY between the test for Pause and the wait wakes nobody.
   `LostWakeupIsARace` shows that this is the only such window.
4. `TeardownEnds`: TEARDOWN does not notify, so a paused thread stays for good.
   `TeardownEndsAwake` shows that a thread that is awake does end.
5. `MarkerOnLast`: a frame whose size is a multiple of the fragment size ends
   inside the loop, which sets the FU end bit on its last packet and not the
   marker (`MediaStreamHandler.cpp:66-77`).  `FragmentsDelimited` shows that no
   packet before the last one has it.

Properties that pass also record behaviour a reader may not expect, stated as
it is: one byte past the frame is sent in the last packet of every fragmented
frame (`PacketsFit`, `SentWithinLap`), and it may be one of an older frame; the "packet count" of sender reports
counts frames (`Count`); the last NAL unit of a file is never pushed
(`AllButLastPushed`), and a few bytes past a file may be read (`ReadsPastEnd`);
audio timestamps count the samples read, so that sound falls behind the clock
with every overrun (`TimestampsLagByLoss`); the audio thread leaks a buffer in
every turn but those in which the encoder had nothing to send
(`BlocksAccounted`); a request cut inside its CSeq is answered under another
number (`AnswersMatch`), one cut inside its ports may end the process
(`DownHasCause`); so does a client that closes its connection, because
`ReceiveRTSPRequest` then makes a `std::string` of `nullptr`, although its
caller has a branch for this case (`RequestHandler.cpp:44-47`);
descriptors are never given back and the accept loop ends when they run out
(`AcceptFails`); a second SETUP leaves the first stream running without anybody
to command it (`StartStream`).

## 4. Fairness

* `Streaming`: weak fairness of each capture and stream thread.  Nothing is
  assumed of the mutex: a thread waiting for it may lose it again and again, as
  with `std::mutex`.  Nor is it assumed that a client plays: a stream thread
  polls only after `Play`, which is not fair.  `PushReturns` holds nevertheless,
  because consumers compete for the mutex only while the ring is not empty.
  `FrameLeaves` is stated for executions in which again and again some stream
  is in its loop around `popFrame`: when all clients have paused, torn down or
  never played, what is in the ring stays there.
* `MediaStream`: weak fairness of the stream thread and of a SetCmd under way,
  its wait for the mutex included;
  strong fairness of the thread's two lock operations, which compete only with
  SetCmd.  Between two commands the request thread answers its client and waits
  for it, so that the mutex is free for a long time again and again.  Clients
  need not send anything and capture need not capture.  `PauseSleeps` and
  `TeardownEndsAwake` are stated for executions in which capture pauses long
  enough for the buffer to run empty, since the inner loop looks at no command
  before that.
* `RtspServer`: weak fairness of every request thread, and of accept for each
  pending connection.  Clients may stop asking at any time.
* `AudioCapture`: weak fairness of the thread and of the card's clock.  The
  faults of ALSA are bounded: if `snd_pcm_prepare` failed for ever, nothing
  would recover.

## 5. Proofs

`DataCapture_proofs` holds for any number of threads, slots, sizes and frames,
from `ConstantsOK` alone: the ring has a slot, sizes are natural numbers up to `MaxSize`, no
thread is both producer and consumer, `None` is no thread.

| theorem | property | argument |
|---|---|---|
| `TypeCorrect` | `TypeOK` | inductive as it stands |
| `MutualExclusion` | `LockHeldByCaller` | inductive on top of the types |
| `IndicesAgree` | `RingCoherent` | each commit and each take moves one side of the equation; `Numbers!ModPlus` |
| `MemoryOwned` | `HeapOwned` | `HeapInv` |
| `CopiesFit` | `NoOverrun` | `HeapInv` |
| `FramesLastALap` | that of `LapSafe` | `LapInv` on top of `SlotsInv` |
| `OneProducerFits` | `CapacityRespected` | `RoomLeft`, one producer |
| `WaitingFramesKept` | `QueuedIntact` | `SlotsInv`, `RoomLeft`, one producer |
| `RingIsQueue` | `ImplementsQueue` | the step simulation `QueueStep`, one producer |

Why the invariants had to be strengthened:

* `HeapInv`.  "No overrun" is not inductive: that the block of a slot is large
  enough follows from a fact on all slots, that a block is never smaller than
  the frame the slot remembers (`BlocksFit`).  That the new block is not one in
  use needs that a pushing thread's call is younger than every live block
  (`LiveAreOld`, `FreshBlocks`), and `RoomMade` carries the result of the
  allocation to the copy.
* `SlotsInv`.  Each slot's block holds the slot's own frame, except the slot at
  `tail` while a producer is writing it (`SlotsHold`, `Copied`), and the slots
  in use have blocks (`QueuedWritten`).  That a byte behind a frame is not one of
  the frame needs `StampsNew`: nothing in memory is as young as the frame that a
  producer is about to copy.
* `LapInv`.  A consumer that holds a frame knows which slot it came from: `lead`
  pushes ahead of `tail`.  While `lead` is positive that slot is not the one
  being written, because two numbers less than buffer_max_size apart have
  different remainders (`Numbers!ModDistinct`).
* `RoomLeft`.  A producer past the full test has room: with one producer the
  ring can only have shrunk since.  This is where `OneProducer` is needed, and
  `buffer_overflows` shows that it is.

For the refinement, `PushCommit` is `Put`, `PopTake` is `Take`, `PopMiss` is
`TakeNone` and every other step stutters: `PushAlloc` writes to a slot, but only
its pointer, which the queue does not show.

`Streaming_proofs` adds the stream threads.  `StreamingUsesRing` shows that every
step of `Streaming` is a step of `DataCapture` or leaves its variables alone, so
that all of the above holds of them (`StreamingSeesQueue` is the refinement).
`BytesWithinLap` proves `SentWithinLap` for any number of producers: `LapSafe`
alone is not enough, since a read may meet a `memcpy` under way, and `OwnBytes`
rules that out, again from `LapInv`: the slot of the frame is not the one at
`tail` while its time has not run out.  The property is an equivalence: within
the frame's size every byte is its own, and the byte after it, which a
fragmented frame is sent with, is not.  The invariant `SentInv` adds that only a
frame that is held has bytes read, and that it has a block (`HeldBlocks`, from
`QueuedWritten`), which `StreamingTypeCorrect` needs too.

`ForeignBytesNewer` (`ForeignIsNewer`) needs one producer.  That what is in the
slot is newer is not inductive: nothing would relate the frame that a producer
is about to write there to the one a consumer took from it.  `StampsSpaced` says
how old every slot is: from `tail` round the ring, each slot is older than the
one before the next push by at least as many pushes as there are slots between,
so that a frame written into a slot is at least `buffer_max_size` pushes younger
than the one it replaces; drops only widen the distance.  `HeldFollowed` carries
this to the block of a frame that is held, live or freed, for the bytes within
the frame's size; the old ends of larger frames lie behind it.

`MediaStream_proofs` holds for all frame sizes and capacities and any number of
spurious wake-ups: `TypeCorrect`, `MutexIsShortLived` (of `MutexMeansBusy`, which no run checks),
`NoFrameBeforePlay` (`SilentUntilPlay`, strengthened by "streamState is Play only
after a PLAY") and `OneWindow` (`LostWakeupIsARace`).  The last one needs the
invariant `Dozing`, which extends the claim from the sleeping thread to one that
has decided to sleep, together with `MutexMeansBusy`, which rules out a
notification while the thread holds the mutex, and `CallKnown`, which relates
the state to the command under way.

`RtpSender_proofs`, for every set of frame sizes, every size of a fragment, every
width of the counters and every interval of reports:

| theorem | property | argument |
|---|---|---|
| `TypeCorrect` | `TypeOK` | `TypeInv`: with `Sending`, no packet is sent for a frame numbered 0 |
| `PacketsNumbered` | `SeqCountsPackets` | inductive on the types, by `Numbers!ModPlus` |
| `FramesDelimited`, `FramesCovered`, `PacketsInBounds` | `FragmentsDelimited`, `FrameCovered`, `PacketsFit` | `PacketsInv` |
| `ReportsRegular`, `OctetsCounted` | `ReportsAreRegular`, `OctetsAreSent` | `CountInv` |

The first three of a frame speak of the end of its loop.  `LoopInv` is the
loop's invariant: after i turns the packets are i full fragments, `pos` is
`1 + MAX_RTP_DATA_SIZE * i`, and the k-th packet is the k-th piece.  `FrameFacts`
ties the number of turns to the size, by `Numbers!DivMod`.  `CountInv` counts while a
frame is under way: `octetCount` lags `octets` by what this frame's packets have
carried so far, and the frames since the last report are `packetCount` modulo
`ReportEvery`: where `packetCount` wraps it is 0, which is a multiple of
`ReportEvery`, so that a report goes out and both start again.

`AudioCapture_proofs`, for every period, ring of the card and width of timestamps:

| theorem | property | argument |
|---|---|---|
| `TypeCorrect`, `BlocksCounted` | `TypeOK`, `BlocksAccounted` | `TypeInv`: no more is lost than was passed, and the device is closed until the loop starts |
| `FramesWhole` | `FramesAreWhole` | `WholeInv` |
| `StampsLagByLoss` | `TimestampsLagByLoss` | `StampInv` |

`WholeInv` says what `pcmBuffer` holds where it is encoded or pushed, the period
that ends at `next`, and that all frames end before it begins.  `StampInv` turns
the property, which relates two frames, into one of each alone: there is a first
timestamp from which the current one and that of every frame are the samples
read up to it, less those lost, modulo `Stamps`; the difference of two such
equations is the property, by `Numbers!ModUnique`.

`RtspServer_proofs`, for any number of clients, kinds of requests, requests in
flight and descriptors, and for every way in which `recv` may cut:

| theorem | property | argument |
|---|---|---|
| `TypeCorrect` | `TypeOK` | `TypeInv` |
| `AnswersMatched` | `AnswersMatch` | `OrderInv` for each client |
| `StreamsPrivate` | `StreamsArePrivate` | inductive on the types: only `StartStream` moves the pointer, to the newest stream |
| `DownCaused` | `DownHasCause` | `CauseInv` |
| `SessionsImplemented` | `ImplementsSession` | step simulation `SessionStep` with `SessionInv` |

`TypeInv` adds to the types that every line on the wire or received, cut or not,
is one of a request that its client asked, with that request's method
(`LinesInv`), and that a thread about to call `SetCmd` has parsed a command.
`AnswersMatch` is about what has been answered, and a later answer could spoil it
only by what is still on its way: `OrderInv` says that the numbers grow from the
answers to the lines received and on to those on the wire, and that a method is
followed by its own number wherever no cut has come between.  `SessionInv`
relates a thread that is about to carry out a request to the last answer, so
that the step is the one `Session` allows next; all steps of other clients
stutter.  `DownCaused` needs it as well: nothing takes a cause away once the
process is gone (`DownSteps`), and a capture thread exists only where a thread
was at the second part of a SETUP, which `SessionInv` says was answered
(`CauseInv`).

`H264Encoder_proofs`, for every file over every alphabet that has 0 and 1:

| theorem | property | argument |
|---|---|---|
| `TypeCorrect` | `TypeOK` | `FileInv`: a file is not empty |
| `NalsPushed` | `FramesAreNals` | `NalInv` |
| `AllButLast` | `AllButLastPushed` | `NalInv` at the end |
| `PastEndBounded` | `ReadsPastEnd` | `NalInv` at the end |

The search is local and the reference global, so the lemmas come first: what
`find_next_start_code` returns is the least start code from where it looks
(`Numbers!MinFacts`), two start codes do not overlap, and the one it finds from
the third byte on is the next one of the file.  `CutInv` then says where the
thread stands: at 0, or at the start code that follows its last frame, with all
codes before it passed; `DoneInv`, that when it has returned no code is ahead of
it and `pastEnd` is of the check made from there.

Two arguments come again.  "Modulo" is always reduced to `Numbers`, whose lemmas
say that a number has one quotient and one remainder.  Where a parser, the search
for a start code or a reference takes the first of several, that it exists is
well-foundedness of `<` on the natural numbers (`LeastIsMin`), and that there is
a last one is the same downwards from a bound (`GreatestIsMax`); no proof is by
induction over the data.

Only model-checked: `PushReturns`, `FrameLeaves`, `OverrunRecovers`,
`CommandReturns`, `PlayStartsUnlessRaced`, `PauseSleeps`, `TeardownEndsAwake` and
`RequestsAnswered`.  They are the liveness properties, and hold under fairness
only, about which TLAPS cannot reason here (nor about ENABLED).  The five
properties of the violation runs are false, by a counterexample each.

## 6. Not modelled

* The destructor of `DataCapture` (at exit of the process) and of
  `H264Encoder` (nothing calls it).
* The bit layout and byte order of RTP and RTCP headers and the conversion to
  NTP time; `RTPPacket::load_data`, which nothing calls.
* The text of RTSP answers and of the SDP; the creation of the listening socket,
  whose errors end the process before it serves anybody; the check for
  privileged ports; the Session header, which the server does not read.  A `recv`
  that returns at most 1023 bytes is one of the cuts.
* UDP: `sendto`'s result is ignored by the code, and the network may lose any
  packet; `sent` is what was handed to `sendto`.
* Camera capture.  Its control flow is that of libcamera and FFmpeg: when a
  request may be queued again, in which thread `requestComplete` is called, what
  a second `CameraManager` does and how many packets an encoder returns for a
  frame is decided there and not in this repository, so that a model would be one
  of those libraries.  From the ring's side the camera is a `Producer`.
* ALSA and libopus beyond what `AudioCapture` says of a sound card: positions are
  counted in samples, and an encoder returns nothing, something or an error.
* `docs/html`: the JavaScript in this repository is what Doxygen generates or
  ships for the pages of the documentation (menus, search index, jQuery).  It is
  no part of the server and has no state of its own worth a model; the server is
  the C++ under `src/src`, `src/inc` and `src/example`.
* Memory and threads, which are taken to be had whenever `new`, `std::thread` or
  libc ask for them.  A capture is counted as one descriptor, whatever the sound
  card's driver opens behind it.
* The pacing of the video server at 30 frames a second: capture may push at any
  time.

## 7. Plan

What is left:

1. `MediaStream` as an implementation of `Session`'s stream, so that the request
   thread's view of a stream and the stream thread's own are tied together by a
   theorem and not by their common source (`SetCmd`).
2. Steps towards liveness that need no fairness, as invariants of their own: that
   a thread which waits for a mutex always finds its owner about to release it
   (`MutexMeansBusy` is that for `streamMutex`), and measures that every step of a
   loop decreases.
3. Camera capture stays out for the reason given in section 6.
