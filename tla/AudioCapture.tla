---------------------------- MODULE AudioCapture -----------------------------
(***************************************************************************)
(* The capture thread of the audio server, LoadOpus: it reads the sound    *)
(* card through AudioCapture::read, encodes what it has read, and pushes   *)
(* the encoded frame into the frame buffer.                                *)
(*                                                                         *)
(* The sound card is external.  It records a sample with every step of its *)
(* clock; a sample is named after the step.  Its buffer overruns when the  *)
(* thread is late, and it then stands still until it is prepared and read  *)
(* again.  ALSA may return fewer samples than were asked for, or an error. *)
(***************************************************************************)
EXTENDS Integers, Sequences

CONSTANTS
  OPUS_FRAME_SIZE,  (* samples read and encoded at once, 960 in the code *)
  DeviceBuffer,     (* samples the sound card can hold *)
  Stamps,           (* values of an unsigned int: a timestamp wraps here *)
  FirstStamps,      (* the random timestamps a stream may start from *)
  MaxClock,         (* bound: samples recorded *)
  MaxFaults         (* bound: short reads and errors of ALSA *)

ASSUME ConstantsOK ==
  /\ OPUS_FRAME_SIZE \in Nat \ {0} /\ DeviceBuffer \in Nat \ {0}
  /\ Stamps \in Nat \ {0} /\ FirstStamps \subseteq 0 .. Stamps - 1
  /\ MaxClock \in Nat /\ MaxFaults \in Nat

VARIABLES
  clock,      (* samples the sound card has recorded *)
  next,       (* the sample that the next read returns first, less one *)
  device,     (* "closed", "prepared", "running" or "overrun" *)
  pc,         (* where the thread is; "down": it has ended the process *)
  pcmBuffer,  (* what the last reads left there; 0: nothing yet *)
  timestamp,  (* of newFrame *)
  frames,     (* what was pushed: the timestamp and the samples *)
  blocks,     (* buffers allocated and not deleted *)
  turns,      (* buffers that a turn of the loop has left behind *)
  lost,       (* history: samples that no whole read will return *)
  lostAt,     (* history: lost, when each frame was pushed *)
  faults      (* short reads and errors so far *)

card == <<clock, next, device, lost>>
heap == <<blocks, turns>>
vars == <<card, heap, pc, pcmBuffer, timestamp, frames, lostAt, faults>>

Recorded == clock - next

Init ==
  /\ clock = 0 /\ next = 0 /\ device = "closed" /\ lost = 0
  /\ pc = "start" /\ pcmBuffer = [i \in 1 .. OPUS_FRAME_SIZE |-> 0]
  /\ timestamp \in FirstStamps
  /\ frames = <<>> /\ lostAt = <<>> /\ blocks = 0 /\ turns = 0 /\ faults = 0

-----------------------------------------------------------------------------
(* The sound card. *)

Tick ==
  /\ clock < MaxClock
  /\ clock' = clock + 1
  /\ device' = IF device = "running" /\ Recorded = DeviceBuffer THEN "overrun"
                                                                ELSE device
  /\ UNCHANGED <<next, lost, heap, pc, pcmBuffer, timestamp, frames, lostAt,
                 faults>>

(* Samples k are what snd_pcm_readi returns. *)
Read(k) ==
  /\ pc = "read" /\ device = "running" /\ k <= Recorded
  /\ pcmBuffer' = [i \in DOMAIN pcmBuffer |->
                     IF i <= k THEN next + i ELSE pcmBuffer[i]]
  /\ next' = next + k
  /\ UNCHANGED <<clock, device, timestamp, frames, blocks, lostAt>>

-----------------------------------------------------------------------------
(* The thread. *)

(* The constructors of OpusEncoder and AudioCapture; either may throw, and *)
(* nothing catches it. *)
Open ==
  /\ pc = "start"
  /\ \/ pc' = "alloc" /\ device' = "prepared"
     \/ pc' = "down" /\ UNCHANGED device
  /\ UNCHANGED <<clock, next, lost, heap, pcmBuffer, timestamp, frames, lostAt,
                 faults>>

Alloc ==
  /\ pc = "alloc"
  /\ blocks' = blocks + 1
  /\ pc' = "read"
  /\ UNCHANGED <<card, turns, pcmBuffer, timestamp, frames, lostAt, faults>>

(* The first read starts the card: what it had recorded before is gone. *)
Start ==
  /\ pc = "read" /\ device = "prepared"
  /\ device' = "running"
  /\ lost' = lost + Recorded
  /\ next' = clock
  /\ UNCHANGED <<clock, heap, pc, pcmBuffer, timestamp, frames, lostAt, faults>>

ReadWhole ==
  /\ Read(OPUS_FRAME_SIZE)
  /\ pc' = "encode"
  /\ UNCHANGED <<turns, lost, faults>>

(* Too few samples: the turn ends without a frame, its buffer is left.     *)
(* Here and below, X_Slip is the form that X, defined next, would have     *)
(* after the mistake in the code that its suffix names; nothing uses it.   *)
ReadShort_Encoded ==
  /\ faults < MaxFaults
  /\ \E k \in 1 .. OPUS_FRAME_SIZE - 1 :
       Read(k) /\ lost' = lost + k
  /\ pc' = "encode"
  /\ faults' = faults + 1
  /\ UNCHANGED turns

ReadShort ==
  /\ faults < MaxFaults
  /\ \E k \in 1 .. OPUS_FRAME_SIZE - 1 :
       Read(k) /\ lost' = lost + k
  /\ pc' = "alloc"
  /\ turns' = turns + 1
  /\ faults' = faults + 1

(* -EPIPE: snd_pcm_prepare, whose result is ignored, and the turn ends. *)
ReadOverrun_OnlyRetries ==
  /\ pc = "read" /\ device = "overrun"
  /\ UNCHANGED vars

ReadOverrun ==
  /\ pc = "read" /\ device = "overrun"
  /\ \/ device' = "prepared" /\ UNCHANGED faults
     \/ UNCHANGED device /\ faults < MaxFaults /\ faults' = faults + 1
  /\ pc' = "alloc"
  /\ turns' = turns + 1
  /\ UNCHANGED <<clock, next, lost, pcmBuffer, timestamp, frames, blocks, lostAt>>

(* Another error: nothing but a message. *)
ReadFails ==
  /\ pc = "read" /\ device # "overrun" /\ faults < MaxFaults
  /\ pc' = "alloc"
  /\ turns' = turns + 1
  /\ faults' = faults + 1
  /\ UNCHANGED <<card, pcmBuffer, timestamp, frames, blocks, lostAt>>

nextStamp_Unwrapped == timestamp + OPUS_FRAME_SIZE

nextStamp == (timestamp + OPUS_FRAME_SIZE) % Stamps

(* encode throws, and nothing catches it. *)
EncodeFails ==
  /\ pc = "encode"
  /\ pc' = "down"
  /\ UNCHANGED <<card, heap, pcmBuffer, timestamp, frames, lostAt, faults>>

(* Nothing to send: the buffer is deleted, and the timestamp has moved on. *)
EncodeNothing_NoStamp ==
  /\ pc = "encode"
  /\ blocks' = blocks - 1
  /\ pc' = "alloc"
  /\ UNCHANGED <<card, turns, pcmBuffer, timestamp, frames, lostAt, faults>>

EncodeNothing_NoDelete ==
  /\ pc = "encode"
  /\ timestamp' = nextStamp
  /\ pc' = "alloc"
  /\ UNCHANGED <<card, heap, pcmBuffer, frames, lostAt, faults>>

EncodeNothing ==
  /\ pc = "encode"
  /\ timestamp' = nextStamp
  /\ blocks' = blocks - 1
  /\ pc' = "alloc"
  /\ UNCHANGED <<card, turns, pcmBuffer, frames, lostAt, faults>>

Encode ==
  /\ pc = "encode"
  /\ timestamp' = nextStamp
  /\ pc' = "push"
  /\ UNCHANGED <<card, heap, pcmBuffer, frames, lostAt, faults>>

(* pushFrame copies the frame, or drops it if the ring is full; either way *)
(* the buffer is left behind.                                              *)
Push ==
  /\ pc = "push"
  /\ \/ /\ frames' = Append(frames, [timestamp |-> timestamp,
                                     samples |-> pcmBuffer])
        /\ lostAt' = Append(lostAt, lost)
     \/ UNCHANGED <<frames, lostAt>>
  /\ turns' = turns + 1
  /\ pc' = "alloc"
  /\ UNCHANGED <<card, blocks, pcmBuffer, timestamp, faults>>

LoadOpus ==
  \/ Open \/ Alloc
  \/ Start \/ ReadWhole \/ ReadShort \/ ReadOverrun \/ ReadFails
  \/ EncodeFails \/ EncodeNothing \/ Encode \/ Push

Next == Tick \/ LoadOpus

Spec == Init /\ [][Next]_vars

(* The thread runs, and so does the clock of the card. *)
FairSpec == Spec /\ WF_vars(LoadOpus) /\ WF_vars(Tick)

-----------------------------------------------------------------------------
(* Properties.                                                             *)

Samples == 0 .. MaxClock
PcmBuffer == [1 .. OPUS_FRAME_SIZE -> Samples]

(* Every variable has its type, and a card that runs holds what it has     *)
(* recorded and nobody has read.                                           *)
TypeOK ==
  /\ clock \in Samples /\ next \in 0 .. clock
  /\ device \in {"closed", "prepared", "running", "overrun"}
  /\ device = "running" => Recorded <= DeviceBuffer
  /\ pc \in {"start", "alloc", "read", "encode", "push", "down"}
  /\ pcmBuffer \in PcmBuffer
  /\ timestamp \in 0 .. Stamps - 1
  /\ frames \in Seq([timestamp : 0 .. Stamps - 1, samples : PcmBuffer])
  /\ lostAt \in Seq(Samples) /\ Len(lostAt) = Len(frames)
  /\ blocks \in Nat /\ turns \in Nat
  /\ lost \in Samples /\ faults \in 0 .. MaxFaults

(* A frame in the buffer is OPUS_FRAME_SIZE successive samples, and comes  *)
(* wholly after the frame before it: pcmBuffer, which every read reuses,   *)
(* is never encoded while it holds samples of two reads, and no sample is  *)
(* sent twice, through any series of overruns, short reads and errors.     *)
FramesAreWhole ==
  \A j \in DOMAIN frames :
    LET s == frames[j].samples IN
      /\ \A i \in DOMAIN s : s[i] = s[1] + i - 1 /\ s[i] > 0
      /\ \A k \in 1 .. j - 1 : frames[k].samples[OPUS_FRAME_SIZE] < s[1]

(* The timestamps count what has been read, not the time: from one frame   *)
(* to a later one they fall behind the clock of the card by exactly the    *)
(* samples lost in between to overruns and short reads, also where the     *)
(* timestamp wraps and where the encoder had nothing to send.              *)
TimestampsLagByLoss ==
  \A j \in DOMAIN frames : \A i \in 1 .. j - 1 :
    (frames[j].timestamp + Stamps - frames[i].timestamp) % Stamps
      = (frames[j].samples[1] - frames[i].samples[1]
           - (lostAt[j] - lostAt[i])) % Stamps

(* Of the buffers that the loop allocates, it deletes those of the frames  *)
(* that the encoder had nothing to send for and no others: the turn's own  *)
(* is there when it is read into, encoded into and pushed from, and every  *)
(* other turn leaks one.                                                   *)
BlocksAccounted ==
  blocks = turns + (IF pc \in {"read", "encode", "push"} THEN 1 ELSE 0)
             + (IF pc = "down" /\ device # "closed" THEN 1 ELSE 0)

(* After an overrun the card records again, whatever comes in between,     *)
(* unless the process goes down: read prepares the card, and the next turn *)
(* starts it.                                                              *)
OverrunRecovers == device = "overrun" ~> device = "running" \/ pc = "down"

=============================================================================
