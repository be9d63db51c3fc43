------------------------- MODULE AudioCapture_proofs ------------------------
(***************************************************************************)
(* What is proved of AudioCapture, for frames of any number of samples,    *)
(* any buffer of the sound card and timestamps of any width.               *)
(***************************************************************************)
EXTENDS AudioCapture, Numbers, TLAPS

LEMMA ConstantsFacts ==
  /\ OPUS_FRAME_SIZE \in Nat \ {0} /\ DeviceBuffer \in Nat \ {0}
  /\ Stamps \in Nat \ {0} /\ FirstStamps \subseteq 0 .. Stamps - 1
  /\ MaxClock \in Nat /\ MaxFaults \in Nat
BY ConstantsOK DEF ConstantsOK

(* The names of the steps, for case distinctions. *)
LEMMA NextCases ==
  ASSUME [Next]_vars, NEW G,
         ASSUME Tick           PROVE G,
         ASSUME Open           PROVE G,
         ASSUME Alloc          PROVE G,
         ASSUME Start          PROVE G,
         ASSUME ReadWhole      PROVE G,
         ASSUME ReadShort      PROVE G,
         ASSUME ReadOverrun    PROVE G,
         ASSUME ReadFails      PROVE G,
         ASSUME EncodeFails    PROVE G,
         ASSUME EncodeNothing  PROVE G,
         ASSUME Encode         PROVE G,
         ASSUME Push           PROVE G,
         ASSUME UNCHANGED vars PROVE G
  PROVE  G
BY DEF Next, LoadOpus

-----------------------------------------------------------------------------
(* Types.  What is lost has been recorded and is not read any more; the    *)
(* turn's own block is there to be deleted; the card is open unless the    *)
(* thread has not opened it.                                               *)

TypeInv ==
  /\ TypeOK /\ lost <= next
  /\ BlocksAccounted
  /\ pc # "down" => (device = "closed" <=> pc = "start")

LEMMA TypeInit == Init => TypeInv
BY ConstantsFacts
DEF Init, TypeInv, TypeOK, BlocksAccounted, Samples, PcmBuffer, Recorded

(* A read moves next on by k, and leaves samples in pcmBuffer. *)
LEMMA ReadFacts ==
  ASSUME TypeInv, NEW k \in 1 .. OPUS_FRAME_SIZE, Read(k)
  PROVE  /\ pcmBuffer' \in PcmBuffer
         /\ next' = next + k /\ next' \in 0 .. clock
         /\ clock - next' <= DeviceBuffer
         /\ pc = "read" /\ device = "running"
         /\ UNCHANGED <<clock, device, timestamp, frames, blocks, lostAt>>
<1> USE ConstantsFacts DEF TypeInv, TypeOK, Samples, PcmBuffer, Recorded
<1>1. next' = next + k /\ next' \in 0 .. clock /\ clock - next' <= DeviceBuffer
  BY DEF Read
<1>2. \A m \in 1 .. OPUS_FRAME_SIZE :
        (IF m <= k THEN next + m ELSE pcmBuffer[m]) \in 0 .. MaxClock
  BY <1>1
<1>3. pcmBuffer' \in [1 .. OPUS_FRAME_SIZE -> 0 .. MaxClock]
  BY <1>2 DEF Read
<1> QED  BY <1>1, <1>3 DEF Read

LEMMA StampType ==
  ASSUME TypeInv  PROVE nextStamp \in 0 .. Stamps - 1
BY ConstantsFacts DEF TypeInv, TypeOK, nextStamp

LEMMA TypeStep == TypeInv /\ [Next]_vars => TypeInv'
<1> SUFFICES ASSUME TypeInv, [Next]_vars  PROVE TypeInv'
  OBVIOUS
<1> USE ConstantsFacts DEF card, heap, Samples, Recorded, BlocksAccounted
<1>1. ASSUME Tick  PROVE TypeInv'
  BY <1>1 DEF Tick, TypeInv, TypeOK
<1>2. ASSUME Open  PROVE TypeInv'
  BY <1>2 DEF Open, TypeInv, TypeOK
<1>3. ASSUME Alloc  PROVE TypeInv'
  BY <1>3 DEF Alloc, TypeInv, TypeOK
<1>4. ASSUME Start  PROVE TypeInv'
  BY <1>4 DEF Start, TypeInv, TypeOK
<1>5. ASSUME ReadWhole  PROVE TypeInv'
  <2>1. Read(OPUS_FRAME_SIZE) /\ OPUS_FRAME_SIZE \in 1 .. OPUS_FRAME_SIZE
    BY <1>5 DEF ReadWhole
  <2>2. /\ pcmBuffer' \in PcmBuffer
        /\ next' = next + OPUS_FRAME_SIZE /\ next' \in 0 .. clock
        /\ clock - next' <= DeviceBuffer
        /\ pc = "read" /\ device = "running"
        /\ UNCHANGED <<clock, device, timestamp, frames, blocks, lostAt>>
    BY <2>1, ReadFacts
  <2> QED  BY <1>5, <2>2 DEF ReadWhole, TypeInv, TypeOK
<1>6. ASSUME ReadShort  PROVE TypeInv'
  <2>1. PICK k \in 1 .. OPUS_FRAME_SIZE - 1 : Read(k) /\ lost' = lost + k
    BY <1>6 DEF ReadShort
  <2>2. /\ pcmBuffer' \in PcmBuffer
        /\ next' = next + k /\ next' \in 0 .. clock
        /\ clock - next' <= DeviceBuffer
        /\ pc = "read" /\ device = "running"
        /\ UNCHANGED <<clock, device, timestamp, frames, blocks, lostAt>>
    <3>1. k \in 1 .. OPUS_FRAME_SIZE
      OBVIOUS
    <3> QED  BY <2>1, <3>1, ReadFacts
  <2> QED  BY <1>6, <2>1, <2>2 DEF ReadShort, TypeInv, TypeOK
<1>7. ASSUME ReadOverrun  PROVE TypeInv'
  BY <1>7 DEF ReadOverrun, TypeInv, TypeOK
<1>8. ASSUME ReadFails  PROVE TypeInv'
  BY <1>8 DEF ReadFails, TypeInv, TypeOK
<1>9. ASSUME EncodeFails  PROVE TypeInv'
  BY <1>9 DEF EncodeFails, TypeInv, TypeOK
<1>10. ASSUME EncodeNothing  PROVE TypeInv'
  BY <1>10, StampType DEF EncodeNothing, TypeInv, TypeOK
<1>11. ASSUME Encode  PROVE TypeInv'
  BY <1>11, StampType DEF Encode, TypeInv, TypeOK
<1>12. ASSUME Push  PROVE TypeInv'
  <2> DEFINE f == [timestamp |-> timestamp, samples |-> pcmBuffer]
  <2>1. f \in [timestamp : 0 .. Stamps - 1, samples : PcmBuffer]
    BY DEF TypeInv, TypeOK
  <2>2. \/ frames' = Append(frames, f) /\ lostAt' = Append(lostAt, lost)
        \/ UNCHANGED <<frames, lostAt>>
    BY <1>12 DEF Push
  <2>3. /\ frames' \in Seq([timestamp : 0 .. Stamps - 1, samples : PcmBuffer])
        /\ lostAt' \in Seq(0 .. MaxClock) /\ Len(lostAt') = Len(frames')
    <3> DEFINE F == [timestamp : 0 .. Stamps - 1, samples : PcmBuffer]
    <3>1. /\ frames \in Seq(F) /\ lostAt \in Seq(0 .. MaxClock)
          /\ Len(lostAt) = Len(frames) /\ lost \in 0 .. MaxClock
          /\ f \in F
      BY <2>1 DEF TypeInv, TypeOK
    <3> HIDE DEF f, F
    <3>2. frames' \in Seq(F) /\ lostAt' \in Seq(0 .. MaxClock)
      <4>1. CASE frames' = Append(frames, f) /\ lostAt' = Append(lostAt, lost)
        <5>1. Append(frames, f) \in Seq(F)
          BY <3>1
        <5>2. Append(lostAt, lost) \in Seq(0 .. MaxClock)
          BY <3>1
        <5> QED  BY <4>1, <5>1, <5>2
      <4>2. CASE UNCHANGED <<frames, lostAt>>
        BY <3>1, <4>2
      <4> QED  BY <2>2, <4>1, <4>2
    <3>3. Len(lostAt') = Len(frames')
      BY <2>2, <3>1
    <3> QED  BY <3>2, <3>3 DEF F
  <2> QED  BY <1>12, <2>3 DEF Push, TypeInv, TypeOK
<1>13. CASE UNCHANGED vars
  BY <1>13 DEF vars, TypeInv, TypeOK
<1> QED
  BY <1>1, <1>2, <1>3, <1>4, <1>5, <1>6, <1>7, <1>8, <1>9, <1>10, <1>11, <1>12,
     <1>13, NextCases

LEMMA TypeAlways == Spec => []TypeInv
BY TypeInit, TypeStep, PTL DEF Spec

(* Every variable of the capture thread and of the card has its type, in   *)
(* every reachable state; a card that runs never holds more than it can.   *)
THEOREM TypeCorrect == Spec => []TypeOK
<1>1. TypeInv => TypeOK
  BY DEF TypeInv
<1> QED  BY <1>1, TypeAlways, PTL

(* LoadOpus leaks the buffer of every turn but those for which the encoder *)
(* had nothing to send, and never deletes one that it still uses.          *)
THEOREM BlocksCounted == Spec => []BlocksAccounted
<1>1. TypeInv => BlocksAccounted
  BY DEF TypeInv
<1> QED  BY <1>1, TypeAlways, PTL

-----------------------------------------------------------------------------
(* Samples.  Where pcmBuffer is encoded or pushed it holds what the last   *)
(* read returned, and every frame ends before it begins.                   *)

Busy == pc \in {"encode", "push"}

BufferWhole ==
  Busy => \A m \in 1 .. OPUS_FRAME_SIZE :
            pcmBuffer[m] = next - OPUS_FRAME_SIZE + m

FramesBefore ==
  \A j \in DOMAIN frames :
    frames[j].samples[OPUS_FRAME_SIZE]
      <= next - (IF Busy THEN OPUS_FRAME_SIZE ELSE 0)

WholeInv ==
  /\ Busy => next >= OPUS_FRAME_SIZE
  /\ BufferWhole /\ FramesBefore /\ FramesAreWhole

LEMMA WholeInit == Init => WholeInv
BY DEF Init, WholeInv, Busy, BufferWhole, FramesBefore, FramesAreWhole

LEMMA WholeStep == TypeInv /\ WholeInv /\ [Next]_vars => WholeInv'
<1> SUFFICES ASSUME TypeInv, WholeInv, [Next]_vars  PROVE WholeInv'
  OBVIOUS
<1> USE ConstantsFacts DEF card, heap
<1>0. /\ next \in Nat /\ clock \in Nat /\ next <= clock
      /\ pcmBuffer \in [1 .. OPUS_FRAME_SIZE -> Nat]
      /\ frames \in Seq([timestamp : 0 .. Stamps - 1, samples : PcmBuffer])
      /\ Len(frames) \in Nat /\ DOMAIN frames = 1 .. Len(frames)
      /\ \A j \in DOMAIN frames : frames[j].samples[OPUS_FRAME_SIZE] \in Nat
  <2> DEFINE F == [timestamp : 0 .. Stamps - 1, samples : PcmBuffer]
  <2>1. /\ next \in Nat /\ clock \in Nat /\ next <= clock
        /\ pcmBuffer \in [1 .. OPUS_FRAME_SIZE -> Nat]
        /\ frames \in Seq(F)
    BY DEF TypeInv, TypeOK, Samples, PcmBuffer
  <2>2. /\ Len(frames) \in Nat /\ DOMAIN frames = 1 .. Len(frames)
        /\ \A j \in DOMAIN frames : frames[j] \in F
    <3> HIDE DEF F
    <3> QED  BY <2>1
  <2>3. \A f \in F : f.samples[OPUS_FRAME_SIZE] \in Nat
    BY DEF PcmBuffer, Samples
  <2> QED  BY <2>1, <2>2, <2>3
<1>1. ASSUME UNCHANGED <<frames, pcmBuffer>>, next' \in Int, next' >= next,
             ~Busy'
      PROVE  WholeInv'
  <2>1. FramesBefore'
    BY <1>0, <1>1 DEF WholeInv, FramesBefore
  <2>2. FramesAreWhole'
    BY <1>1 DEF WholeInv, FramesAreWhole
  <2> QED  BY <1>1, <2>1, <2>2 DEF WholeInv, BufferWhole
<1>2. ASSUME UNCHANGED <<frames, pcmBuffer, next>>, Busy' <=> Busy
      PROVE  WholeInv'
  BY <1>2 DEF WholeInv, BufferWhole, FramesBefore, FramesAreWhole
<1>3. CASE Tick
  BY <1>2, <1>3 DEF Tick, Busy
<1>4. CASE Open
  BY <1>0, <1>1, <1>4 DEF Open, Busy
<1>5. CASE Alloc
  BY <1>0, <1>1, <1>5 DEF Alloc, Busy
<1>6. CASE Start
  BY <1>0, <1>1, <1>6 DEF Start, Busy
<1>7. CASE ReadWhole
  <2>1. /\ next' = next + OPUS_FRAME_SIZE /\ UNCHANGED frames
        /\ pcmBuffer' = [m \in DOMAIN pcmBuffer |->
                           IF m <= OPUS_FRAME_SIZE THEN next + m ELSE pcmBuffer[m]]
        /\ ~Busy /\ Busy'
    BY <1>7 DEF ReadWhole, Read, Busy
  <2>2. BufferWhole'
    BY <1>0, <2>1 DEF BufferWhole
  <2>3. FramesBefore'
    BY <1>0, <2>1 DEF WholeInv, FramesBefore
  <2>4. FramesAreWhole'
    BY <2>1 DEF WholeInv, FramesAreWhole
  <2> QED  BY <1>0, <2>1, <2>2, <2>3, <2>4 DEF WholeInv
<1>8. CASE ReadShort
  <2>1. PICK k \in 1 .. OPUS_FRAME_SIZE - 1 : Read(k)
    BY <1>8 DEF ReadShort
  <2>2. /\ next' = next + k /\ UNCHANGED frames
        /\ ~Busy /\ ~Busy'
    BY <1>8, <2>1 DEF ReadShort, Read, Busy
  <2>3. FramesBefore'
    BY <1>0, <2>2 DEF WholeInv, FramesBefore
  <2>4. FramesAreWhole'
    BY <2>2 DEF WholeInv, FramesAreWhole
  <2> QED  BY <2>2, <2>3, <2>4 DEF WholeInv, BufferWhole
<1>9. CASE ReadOverrun
  BY <1>0, <1>1, <1>9 DEF ReadOverrun, Busy
<1>10. CASE ReadFails
  BY <1>0, <1>1, <1>10 DEF ReadFails, Busy
<1>11. CASE EncodeFails
  BY <1>0, <1>1, <1>11 DEF EncodeFails, Busy
<1>12. CASE EncodeNothing
  BY <1>0, <1>1, <1>12 DEF EncodeNothing, Busy
<1>13. CASE Encode
  BY <1>2, <1>13 DEF Encode, Busy
<1>14. CASE Push
  <2>1. UNCHANGED <<next, pcmBuffer>> /\ Busy /\ ~Busy'
    BY <1>14 DEF Push, Busy
  <2>2. CASE UNCHANGED frames
    BY <1>0, <1>1, <2>1, <2>2
  <2>3. CASE frames' = Append(frames, [timestamp |-> timestamp,
                                       samples |-> pcmBuffer])
    <3> DEFINE f == [timestamp |-> timestamp, samples |-> pcmBuffer]
               n == Len(frames)
    <3>1. /\ DOMAIN frames' = 1 .. n + 1 /\ DOMAIN frames = 1 .. n
          /\ \A j \in 1 .. n : frames'[j] = frames[j]
          /\ frames'[n + 1] = f
      <4>1. frames' = Append(frames, f)
        BY <2>3
      <4> HIDE DEF f
      <4> QED  BY <1>0, <4>1
    <3>2. f.samples = pcmBuffer
      OBVIOUS
    <3> HIDE DEF f
    <3>3. /\ \A m \in 1 .. OPUS_FRAME_SIZE :
               pcmBuffer[m] = next - OPUS_FRAME_SIZE + m
          /\ next >= OPUS_FRAME_SIZE
          /\ DOMAIN pcmBuffer = 1 .. OPUS_FRAME_SIZE
      BY <1>0, <2>1 DEF WholeInv, BufferWhole
    <3>4. /\ pcmBuffer[1] = next - OPUS_FRAME_SIZE + 1
          /\ pcmBuffer[OPUS_FRAME_SIZE] = next
      BY <1>0, <3>3
    <3>5. \A j \in 1 .. n :
            frames[j].samples[OPUS_FRAME_SIZE] <= next - OPUS_FRAME_SIZE
      BY <2>1, <3>1 DEF WholeInv, FramesBefore
    <3>6. FramesBefore'
      <4>1. /\ next \in Nat /\ OPUS_FRAME_SIZE \in Nat /\ next' = next /\ ~Busy'
            /\ n \in Nat
        BY <1>0, <2>1
      <4>2. ASSUME NEW j \in 1 .. n
            PROVE  frames'[j].samples[OPUS_FRAME_SIZE] <= next
        <5>1. frames[j].samples[OPUS_FRAME_SIZE] \in Nat
          BY <1>0, <3>1
        <5> QED  BY <3>1, <3>5, <4>1, <5>1
      <4>3. frames'[n + 1].samples[OPUS_FRAME_SIZE] <= next
        BY <3>1, <3>2, <3>4, <4>1
      <4> QED  BY <3>1, <4>1, <4>2, <4>3 DEF FramesBefore
    <3>7. FramesAreWhole'
      <4> SUFFICES ASSUME NEW j \in 1 .. n + 1
                   PROVE  LET s == frames'[j].samples IN
                            /\ \A m \in DOMAIN s : s[m] = s[1] + m - 1 /\ s[m] > 0
                            /\ \A k \in 1 .. j - 1 :
                                 frames'[k].samples[OPUS_FRAME_SIZE] < s[1]
        BY <3>1 DEF FramesAreWhole
      <4>1. CASE j \in 1 .. n
        <5>1. \A k \in 1 .. j - 1 : frames'[k] = frames[k]
          BY <1>0, <3>1, <4>1
        <5> QED  BY <3>1, <4>1, <5>1 DEF WholeInv, FramesAreWhole
      <4>2. CASE j = n + 1
        <5>1. frames'[j].samples = pcmBuffer
          BY <3>1, <3>2, <4>2
        <5>2. \A m \in DOMAIN pcmBuffer :
                pcmBuffer[m] = pcmBuffer[1] + m - 1 /\ pcmBuffer[m] > 0
          BY <1>0, <3>3, <3>4
        <5>3. \A k \in 1 .. j - 1 :
                frames'[k].samples[OPUS_FRAME_SIZE] < pcmBuffer[1]
          <6> SUFFICES ASSUME NEW k \in 1 .. n
                       PROVE  frames'[k].samples[OPUS_FRAME_SIZE] < pcmBuffer[1]
            BY <1>0, <4>2
          <6>1. frames'[k] = frames[k] /\ frames[k].samples[OPUS_FRAME_SIZE] \in Nat
            BY <1>0, <3>1
          <6>2. frames[k].samples[OPUS_FRAME_SIZE] <= next - OPUS_FRAME_SIZE
            BY <3>5
          <6> QED  BY <1>0, <3>4, <6>1, <6>2
        <5> QED  BY <5>1, <5>2, <5>3, Zenon
      <4>3. j \in 1 .. n \/ j = n + 1
        <5>1. n \in Nat
          BY <1>0
        <5> HIDE DEF n
        <5> QED  BY <5>1
      <4> QED  BY <4>1, <4>2, <4>3, Zenon
    <3> QED  BY <2>1, <3>6, <3>7 DEF WholeInv, BufferWhole
  <2> QED  BY <1>14, <2>2, <2>3 DEF Push
<1>15. CASE UNCHANGED vars
  BY <1>2, <1>15 DEF vars, Busy
<1> QED
  BY <1>3, <1>4, <1>5, <1>6, <1>7, <1>8, <1>9, <1>10, <1>11, <1>12, <1>13,
     <1>14, <1>15, NextCases

LEMMA WholeAlways == Spec => [](TypeInv /\ WholeInv)
BY TypeAlways, WholeInit, WholeStep, PTL DEF Spec

(* A frame is successive samples of one read, and no sample is sent twice, *)
(* through any series of overruns, short reads and errors.                 *)
THEOREM FramesWhole == Spec => []FramesAreWhole
<1>1. WholeInv => FramesAreWhole
  BY DEF WholeInv
<1> QED  BY <1>1, WholeAlways, PTL

-----------------------------------------------------------------------------
(* Timestamps.  From the random one that a stream starts from on, they     *)
(* count the samples that whole reads returned: those up to next, less     *)
(* those lost.                                                             *)

Counted == next - lost - (IF pc = "encode" THEN OPUS_FRAME_SIZE ELSE 0)

StampsFrom(first) ==
  /\ pc # "down" => timestamp = (first + Counted) % Stamps
  /\ \A j \in DOMAIN frames :
       frames[j].timestamp =
         (first + (frames[j].samples[OPUS_FRAME_SIZE] - lostAt[j])) % Stamps

StampInv == \E first \in Int : StampsFrom(first)

LEMMA StampInit == Init => StampInv
<1> SUFFICES ASSUME Init  PROVE StampInv
  OBVIOUS
<1>1. timestamp \in 0 .. Stamps - 1
  BY ConstantsFacts DEF Init
<1>2. timestamp = (timestamp + Counted) % Stamps
  <2>1. Counted = 0
    BY DEF Init, Counted
  <2> QED  BY <1>1, <2>1, ConstantsFacts
<1>3. StampsFrom(timestamp)
  BY <1>2 DEF Init, StampsFrom
<1> QED  BY <1>1, <1>3 DEF StampInv

LEMMA StampStep ==
  TypeInv /\ WholeInv /\ StampInv /\ [Next]_vars => StampInv'
<1> SUFFICES ASSUME TypeInv, WholeInv, [Next]_vars,
                    NEW first \in Int, StampsFrom(first)
             PROVE  StampsFrom(first)'
  BY DEF StampInv
<1> USE ConstantsFacts DEF card, heap
<1>0. /\ next \in Nat /\ lost \in Nat /\ clock \in Nat
      /\ timestamp \in 0 .. Stamps - 1
      /\ frames \in Seq([timestamp : 0 .. Stamps - 1, samples : PcmBuffer])
      /\ lostAt \in Seq(0 .. MaxClock) /\ Len(lostAt) = Len(frames)
  BY DEF TypeInv, TypeOK, Samples
(* The steps that leave the timestamp and the frames alone. *)
<1>1. ASSUME UNCHANGED <<frames, lostAt, timestamp>>, Counted' = Counted,
             pc # "down"
      PROVE  StampsFrom(first)'
  BY <1>1 DEF StampsFrom
<1>2. CASE Tick
  BY <1>2 DEF Tick, StampsFrom, Counted
<1>3. CASE Open
  BY <1>1, <1>3 DEF Open, Counted
<1>4. CASE Alloc
  BY <1>1, <1>4 DEF Alloc, Counted
<1>5. CASE Start
  BY <1>0, <1>1, <1>5 DEF Start, Counted, Recorded
<1>6. CASE ReadWhole
  BY <1>0, <1>1, <1>6 DEF ReadWhole, Read, Counted
<1>7. CASE ReadShort
  BY <1>0, <1>1, <1>7 DEF ReadShort, Read, Counted
<1>8. CASE ReadOverrun
  BY <1>1, <1>8 DEF ReadOverrun, Counted
<1>9. CASE ReadFails
  BY <1>1, <1>9 DEF ReadFails, Counted
<1>10. CASE EncodeFails
  BY <1>10 DEF EncodeFails, StampsFrom
(* Encode and EncodeNothing count the samples that were read. *)
<1>11. ASSUME pc = "encode", UNCHANGED <<next, lost, frames, lostAt>>,
              pc' # "encode", timestamp' = nextStamp
       PROVE  StampsFrom(first)'
  <2>1. Counted \in Int /\ Counted' = Counted + OPUS_FRAME_SIZE
    BY <1>0, <1>11 DEF Counted
  <2>2. timestamp' = (((first + Counted) % Stamps) + OPUS_FRAME_SIZE) % Stamps
    BY <1>11 DEF nextStamp, StampsFrom
  <2>3. first + Counted \in Int /\ OPUS_FRAME_SIZE \in Int
    BY <2>1
  <2>4. (((first + Counted) % Stamps) + OPUS_FRAME_SIZE) % Stamps
          = ((first + Counted) + OPUS_FRAME_SIZE) % Stamps
    BY <2>3, ModPlus
  <2>5. (first + Counted) + OPUS_FRAME_SIZE = first + Counted'
    BY <2>1
  <2>6. timestamp' = (first + Counted') % Stamps
    BY <2>2, <2>4, <2>5
  <2> QED  BY <1>11, <2>6 DEF StampsFrom
<1>12. CASE EncodeNothing
  BY <1>11, <1>12 DEF EncodeNothing
<1>13. CASE Encode
  BY <1>11, <1>13 DEF Encode
<1>14. CASE Push
  <2>1. /\ pc = "push" /\ pc' = "alloc" /\ UNCHANGED <<next, lost, timestamp>>
        /\ Counted' = Counted /\ Counted = next - lost
    BY <1>0, <1>14 DEF Push, Counted
  <2>2. CASE UNCHANGED <<frames, lostAt>>
    BY <1>1, <2>1, <2>2
  <2>3. CASE /\ frames' = Append(frames, [timestamp |-> timestamp,
                                          samples |-> pcmBuffer])
             /\ lostAt' = Append(lostAt, lost)
    <3> DEFINE f == [timestamp |-> timestamp, samples |-> pcmBuffer]
               n == Len(frames)
    <3>1. f.samples = pcmBuffer /\ f.timestamp = timestamp
      OBVIOUS
    <3>2. /\ DOMAIN frames' = 1 .. n + 1 /\ DOMAIN frames = 1 .. n
          /\ \A j \in 1 .. n : frames'[j] = frames[j]
          /\ frames'[n + 1] = f
      <4>1. frames' = Append(frames, f)
        BY <2>3
      <4> HIDE DEF f
      <4> QED  BY <1>0, <4>1
    <3>3. /\ \A j \in 1 .. n : lostAt'[j] = lostAt[j]
          /\ lostAt'[n + 1] = lost /\ n \in Nat
      BY <1>0, <2>3
    <3> HIDE DEF f
    <3>4. pcmBuffer[OPUS_FRAME_SIZE] = next
      BY <1>0, <2>1 DEF WholeInv, BufferWhole, Busy
    <3>5. timestamp = (first + (next - lost)) % Stamps
      BY <2>1 DEF StampsFrom
    <3>6. ASSUME NEW j \in DOMAIN frames'
          PROVE  frames'[j].timestamp =
                   (first + (frames'[j].samples[OPUS_FRAME_SIZE] - lostAt'[j]))
                     % Stamps
      <4>1. CASE j \in 1 .. n
        BY <3>2, <3>3, <4>1 DEF StampsFrom
      <4>2. CASE j = n + 1
        BY <3>1, <3>2, <3>3, <3>4, <3>5, <4>2
      <4> QED  BY <3>2, <3>3, <4>1, <4>2
    <3> QED  BY <2>1, <3>6 DEF StampsFrom
  <2> QED  BY <1>14, <2>2, <2>3 DEF Push
<1>15. CASE UNCHANGED vars
  BY <1>15 DEF vars, StampsFrom, Counted
<1> QED
  BY <1>2, <1>3, <1>4, <1>5, <1>6, <1>7, <1>8, <1>9, <1>10, <1>12, <1>13,
     <1>14, <1>15, NextCases

LEMMA StampAlways == Spec => [](TypeInv /\ WholeInv /\ StampInv)
BY WholeAlways, StampInit, StampStep, PTL DEF Spec

LEMMA SeqFacts ==
  ASSUME NEW S, NEW s \in Seq(S)
  PROVE  /\ DOMAIN s = 1 .. Len(s) /\ Len(s) \in Nat
         /\ \A n \in 1 .. Len(s) : s[n] \in S
OBVIOUS

(* The difference of two remainders is that of the numbers. *)
LEMMA ModDifference ==
  ASSUME NEW N \in Nat \ {0}, NEW a \in Int, NEW b \in Int
  PROVE  ((a % N) + N - (b % N)) % N = (a - b) % N
<1> DEFINE k == b \div N
           q == 1 + k - a \div N
           x == a - b
           y == (a % N) + N - (b % N)
<1>1. /\ a = N * (a \div N) + (a % N) /\ b = N * k + (b % N)
      /\ a \div N \in Int /\ k \in Int /\ a % N \in Int /\ b % N \in Int
  BY DivMod, SMT
<1>2. N * q = N + N * k - N * (a \div N)
  BY <1>1, SMT
<1>3. y = N * q + x
  BY <1>1, <1>2
<1>4. x \in Int /\ q \in Int
  BY <1>1
<1>5. /\ x = N * (x \div N) + (x % N)
      /\ x % N \in 0 .. N - 1 /\ x \div N \in Int
  BY <1>4, DivMod
<1>6. y = N * (q + x \div N) + (x % N)
  <2> HIDE DEF q, x, y
  <2>1. N * (q + x \div N) = N * q + N * (x \div N)
    BY <1>4, <1>5, SMT
  <2> QED  BY <1>3, <1>4, <1>5, <2>1
<1>7. y % N = x % N
  <2> HIDE DEF q, x, y
  <2>1. q + x \div N \in Int
    BY <1>4, <1>5
  <2> QED  BY <1>5, <1>6, <2>1, ModUnique
<1> QED  BY <1>7

(* Between two frames the timestamps fall behind the clock of the card by  *)
(* exactly the samples lost in between, for timestamps of any width, and   *)
(* where they wrap.                                                        *)
THEOREM StampsLagByLoss == Spec => []TimestampsLagByLoss
<1>1. TypeInv /\ WholeInv /\ StampInv => TimestampsLagByLoss
  <2> SUFFICES ASSUME TypeInv, WholeInv, NEW first \in Int, StampsFrom(first),
                      NEW j \in DOMAIN frames, NEW k \in 1 .. j - 1
               PROVE  (frames[j].timestamp + Stamps - frames[k].timestamp) % Stamps
                        = (frames[j].samples[1] - frames[k].samples[1]
                             - (lostAt[j] - lostAt[k])) % Stamps
    BY DEF StampInv, TimestampsLagByLoss
  <2> DEFINE a == first + (frames[j].samples[OPUS_FRAME_SIZE] - lostAt[j])
             b == first + (frames[k].samples[OPUS_FRAME_SIZE] - lostAt[k])
  <2>1. /\ k \in DOMAIN frames
        /\ lostAt[j] \in Int /\ lostAt[k] \in Int
        /\ frames[j].samples \in PcmBuffer /\ frames[k].samples \in PcmBuffer
    <3> DEFINE F == [timestamp : 0 .. Stamps - 1, samples : PcmBuffer]
    <3>1. /\ frames \in Seq(F) /\ lostAt \in Seq(0 .. MaxClock)
          /\ Len(lostAt) = Len(frames)
      BY DEF TypeInv, TypeOK, Samples
    <3>2. \A f \in F : f.samples \in PcmBuffer
      OBVIOUS
    <3> HIDE DEF F
    <3>3. /\ k \in DOMAIN frames /\ frames[j] \in F /\ frames[k] \in F
          /\ lostAt[j] \in 0 .. MaxClock /\ lostAt[k] \in 0 .. MaxClock
      <4>1. /\ DOMAIN frames = 1 .. Len(frames) /\ Len(frames) \in Nat
            /\ DOMAIN lostAt = 1 .. Len(lostAt)
            /\ \A n \in 1 .. Len(frames) : frames[n] \in F
            /\ \A n \in 1 .. Len(lostAt) : lostAt[n] \in 0 .. MaxClock
        BY <3>1, SeqFacts
      <4>2. j \in 1 .. Len(frames) /\ k \in 1 .. Len(frames)
        BY <4>1
      <4> QED  BY <3>1, <4>1, <4>2
    <3>4. frames[j].samples \in PcmBuffer /\ frames[k].samples \in PcmBuffer
      BY <3>2, <3>3
    <3> QED  BY <3>3, <3>4, ConstantsFacts
  <2>2. \A n \in {j, k} :
          frames[n].samples[1]
            = frames[n].samples[OPUS_FRAME_SIZE] - OPUS_FRAME_SIZE + 1
    <3> SUFFICES ASSUME NEW n \in {j, k}
                 PROVE  frames[n].samples[1]
                          = frames[n].samples[OPUS_FRAME_SIZE] - OPUS_FRAME_SIZE + 1
      OBVIOUS
    <3> DEFINE t == frames[n].samples
    <3>1. n \in DOMAIN frames /\ t \in PcmBuffer
      BY <2>1
    <3>2. \A m \in DOMAIN t : t[m] = t[1] + m - 1
      BY <3>1 DEF WholeInv, FramesAreWhole
    <3> HIDE DEF t
    <3>3. DOMAIN t = 1 .. OPUS_FRAME_SIZE /\ t[1] \in Int
      BY <3>1, ConstantsFacts DEF PcmBuffer, Samples
    <3>4. t[OPUS_FRAME_SIZE] = t[1] + OPUS_FRAME_SIZE - 1
      <4>1. OPUS_FRAME_SIZE \in DOMAIN t
        BY <3>3, ConstantsFacts
      <4> QED  BY <3>2, <4>1
    <3>5. t[1] = t[OPUS_FRAME_SIZE] - OPUS_FRAME_SIZE + 1
      BY <3>3, <3>4, ConstantsFacts
    <3> QED  BY <3>5 DEF t
  <2>3. /\ frames[j].samples[OPUS_FRAME_SIZE] \in Int
        /\ frames[k].samples[OPUS_FRAME_SIZE] \in Int
    BY <2>1, ConstantsFacts DEF PcmBuffer, Samples
  <2>4. a \in Int /\ b \in Int
    BY <2>1, <2>3
  <2>5. a - b = frames[j].samples[1] - frames[k].samples[1]
                  - (lostAt[j] - lostAt[k])
    BY <2>1, <2>2, <2>3, ConstantsFacts
  <2>6. frames[j].timestamp = a % Stamps /\ frames[k].timestamp = b % Stamps
    BY <2>1 DEF StampsFrom
  <2>7. ((a % Stamps) + Stamps - (b % Stamps)) % Stamps = (a - b) % Stamps
    <3> HIDE DEF a, b
    <3> QED  BY <2>4, ConstantsFacts, ModDifference
  <2> QED
    <3> HIDE DEF a, b
    <3> QED  BY <2>5, <2>6, <2>7
<1> QED  BY <1>1, StampAlways, PTL

=============================================================================
