-------------------------- MODULE Streaming_proofs ---------------------------
(***************************************************************************)
(* What is proved of the stream threads on the frame buffer, for any       *)
(* number of threads, any size of the ring and any frames.                 *)
(***************************************************************************)
EXTENDS Streaming, DataCapture_proofs

(* The names of the steps, for case distinctions. *)
LEMMA SNextCases ==
  ASSUME SNext, NEW G,
         ASSUME NEW p \in Producers, Capture(p)    PROVE G,
         ASSUME NEW c \in Consumers, Play(c)       PROVE G,
         ASSUME NEW c \in Consumers, Receive(c)    PROVE G,
         ASSUME NEW c \in Consumers, ReadByte(c)   PROVE G,
         ASSUME NEW c \in Consumers, FrameSent(c)  PROVE G
  PROVE  G
BY DEF SNext, Stream

-----------------------------------------------------------------------------
(* The ring under the stream threads.                                      *)

LEMMA StreamStep == [SNext]_svars => [Next]_vars
<1> SUFFICES ASSUME [SNext]_svars  PROVE [Next]_vars
  OBVIOUS
<1>1. ASSUME NEW p \in Producers, Capture(p)  PROVE Next
  BY <1>1 DEF Capture, Next
<1>2. ASSUME NEW c \in Consumers, Play(c) \/ Receive(c)  PROVE Next
  BY <1>2 DEF Play, Receive, Next, Consume
<1>3. ASSUME NEW c \in Consumers, ReadByte(c)  PROVE UNCHANGED vars
  BY <1>3 DEF ReadByte
<1>4. ASSUME NEW c \in Consumers, FrameSent(c)  PROVE Next
  BY <1>4 DEF FrameSent, Next, Consume
<1>5. CASE UNCHANGED svars
  BY <1>5 DEF svars
<1> QED  BY <1>1, <1>2, <1>3, <1>4, <1>5, SNextCases

(* Sending in packets is a use of the frame buffer like any other: all     *)
(* that is proved of DataCapture holds with the stream threads as they are.*)
THEOREM StreamingUsesRing == SSpec => Spec
<1>1. SInit => Init
  BY DEF SInit
<1> QED  BY <1>1, StreamStep, PTL DEF SSpec, Spec

-----------------------------------------------------------------------------
(* The bytes that are sent.  What is known of the ring, and what is to be  *)
(* shown of the bytes: they have their type, a frame that is held has a    *)
(* block, only for a frame that is held are there any, and they are as     *)
(* SentWithinLap says.                                                     *)

RingInv == TypeOK /\ RingCoherent /\ HeapInv /\ SlotsInv /\ LapInv

LEMMA RingAlways == Spec => []RingInv
BY TypeCorrect, IndicesAgree, HeapAlways, SlotsAlways, LapAlways, PTL
DEF RingInv

BytesOK == bytes \in [Consumers -> Seq(Ids \cup {0})]

HeldBlocks == \A c \in Holding : ret[c].dataPtr # nullptr

NoneUnlessHeld == \A c \in Consumers : c \notin Holding => bytes[c] = <<>>

SentInv == BytesOK /\ HeldBlocks /\ NoneUnlessHeld /\ SentWithinLap

LEMMA SentInit == SInit => SentInv
<1> SUFFICES ASSUME SInit  PROVE SentInv
  OBVIOUS
<1>1. Holding = {}
  BY ConstantsOK DEF SInit, Init, Holding, Threads
<1> QED
  BY <1>1 DEF SInit, SentInv, BytesOK, HeldBlocks, NoneUnlessHeld, SentWithinLap

(* Until the producers have come round, whoever reads through the pointer  *)
(* of a frame that is held finds the frame's bytes in it, and none after.  *)
LEMMA OwnBytes ==
  ASSUME RingInv, NEW c \in Holding, lead[c] > 0,
         NEW x \in Offsets, NEW ts \in Readable(ret[c].dataPtr, x)
  PROVE  ts = ret[c].timestamp <=> x < ret[c].size
<1> DEFINE s == (tail + Ahead(c)) % buffer_max_size
           b == ret[c].dataPtr
<1>1. /\ Ahead(c) \in 0 .. buffer_max_size - 1
      /\ ret[c] = frameBuffer[s]
      /\ b # nullptr
  BY DEF RingInv, LapInv
<1>2. s \in Slots /\ tail \in Slots
  BY <1>1, AheadFacts DEF RingInv, TypeOK
<1>3. ASSUME Writing # {}  PROVE frameBuffer[tail].dataPtr # b
  <2>1. Ahead(c) > 0
    BY <1>3 DEF Ahead
  <2>2. s # tail
    BY <1>1, <2>1, AheadFacts DEF RingInv
  <2> QED
    <3> HIDE DEF s
    <3> QED  BY <1>1, <1>2, <2>2 DEF RingInv, HeapInv, HeapOwned
<1>4. Intact(ret[c])
  <2>1. ~BeingWritten(s)
    BY <1>1, <1>3 DEF BeingWritten
  <2> QED
    <3> HIDE DEF s
    <3> QED  BY <1>1, <1>2, <2>1 DEF RingInv, SlotsInv, SlotsHold, Block
<1>5. {q \in Producers : /\ pc[q] = "copy" /\ frameBuffer[tail].dataPtr = b
                         /\ x < arg[q].size} = {}
  BY <1>3 DEF Writing
<1>6. heap[b].live /\ (heap[b].data[x] = ret[c].timestamp <=> x < ret[c].size)
  BY <1>4 DEF Intact
<1>7. ts = heap[b].data[x]
  <2> HIDE DEF b
  <2>1. ts \in Readable(b, x)
    BY DEF b
  <2> QED  BY <1>5, <1>6, <2>1 DEF Readable
<1> QED  BY <1>6, <1>7

(* What a read may find is a frame's byte, or 0. *)
LEMMA ReadableType ==
  ASSUME TypeOK, NEW b \in Ids, NEW x \in Offsets, NEW ts \in Readable(b, x)
  PROVE  ts \in Ids \cup {0}
<1>1. heap[b].data[x] \in Ids \cup {0}
  BY DEF TypeOK, Memory
<1>2. \A p \in Producers : arg[p].timestamp \in Ids \cup {0}
  BY DEF TypeOK
<1> QED  BY <1>1, <1>2 DEF Readable

(* Where the next byte is read. *)
LEMMA ReadOffset ==
  ASSUME TypeOK, BytesOK, NEW c \in Consumers, ReadByte(c)
  PROVE  /\ Len(bytes[c]) \in Offsets
         /\ Len(bytes[c]) <= ret[c].size /\ ret[c].size \in Nat
<1>1. ret[c].size \in Sizes \cup {0}
  BY DEF TypeOK, Slot
<1>2. ret[c].size \in 0 .. MaxSize /\ MaxSize \in Nat
  BY <1>1, ConstantsOK
<1>3. Len(bytes[c]) \in Nat
  BY DEF BytesOK
<1>4. Len(bytes[c]) < bytesRead(ret[c].size)
  BY DEF ReadByte
<1> QED  BY <1>2, <1>3, <1>4 DEF bytesRead, Offsets

(* What reading a byte adds. *)
LEMMA ReadEffect ==
  ASSUME TypeOK, BytesOK, HeldBlocks, NEW c \in Consumers, ReadByte(c)
  PROVE  /\ c \in Holding /\ UNCHANGED vars /\ BytesOK'
         /\ \A d \in Consumers \ {c} : bytes'[d] = bytes[d]
         /\ \E ts \in Readable(ret[c].dataPtr, Len(bytes[c])) :
              /\ DOMAIN bytes'[c] = DOMAIN bytes[c] \cup {Len(bytes[c]) + 1}
              /\ \A k \in DOMAIN bytes'[c] :
                   bytes'[c][k] = IF k = Len(bytes[c]) + 1 THEN ts ELSE bytes[c][k]
<1>1. c \in Holding /\ UNCHANGED vars
  BY DEF ReadByte, Holding
<1>2. PICK ts \in Readable(ret[c].dataPtr, Len(bytes[c])) :
        bytes' = [bytes EXCEPT ![c] = Append(@, ts)]
  BY DEF ReadByte
<1>3. ret[c].dataPtr \in Ids
  BY <1>1 DEF HeldBlocks, TypeOK, Slot
<1>4. ts \in Ids \cup {0}
  BY <1>2, <1>3, ReadOffset, ReadableType
<1>5. bytes[c] \in Seq(Ids \cup {0})
  BY DEF BytesOK
<1>6. /\ Append(bytes[c], ts) \in Seq(Ids \cup {0})
      /\ Len(Append(bytes[c], ts)) = Len(bytes[c]) + 1
      /\ \A k \in 1 .. Len(bytes[c]) + 1 :
           Append(bytes[c], ts)[k] = IF k = Len(bytes[c]) + 1 THEN ts ELSE bytes[c][k]
  BY <1>4, <1>5
<1>7. /\ bytes'[c] = Append(bytes[c], ts)
      /\ \A d \in Consumers \ {c} : bytes'[d] = bytes[d]
  BY <1>2 DEF BytesOK
<1>8. BytesOK'
  BY <1>2, <1>6 DEF BytesOK
<1>9. /\ DOMAIN bytes'[c] = 1 .. Len(bytes[c]) + 1
      /\ DOMAIN bytes[c] = 1 .. Len(bytes[c]) /\ Len(bytes[c]) \in Nat
  BY <1>5, <1>6, <1>7
<1>10. DOMAIN bytes'[c] = DOMAIN bytes[c] \cup {Len(bytes[c]) + 1}
  BY <1>9
<1> QED  BY <1>1, <1>6, <1>7, <1>8, <1>9, <1>10

(* A producer leaves the frames that are held to their threads, and only   *)
(* lets their time run out.                                                *)
LEMMA CaptureLeaves ==
  ASSUME TypeOK, NEW p \in Producers, Capture(p)
  PROVE  /\ UNCHANGED <<ret, bytes>>
         /\ Holding' = Holding
         /\ \A c \in Consumers : lead'[c] > 0 => lead[c] > 0
<1> USE DEF Capture, Produce
<1>1. UNCHANGED <<ret, bytes>>
  BY DEF PushDrop, PushAdmit, PushLock, PushAlloc, PushCopy, PushCommit, ring
<1>2. pc' = pc \/ \E l \in {"lock", "alloc", "copy", "commit", "idle"} :
                   pc' = [pc EXCEPT ![p] = l]
  BY DEF PushDrop, PushAdmit, PushLock, PushAlloc, PushCopy, PushCommit, Goto
<1>3. Holding' = Holding
  BY <1>2, ConstantsOK DEF Holding, TypeOK, Threads
<1>4. lead' = lead \/ lead' = [c \in Consumers |-> IF lead[c] > 0 THEN lead[c] - 1 ELSE 0]
  BY DEF PushDrop, PushAdmit, PushLock, PushAlloc, PushCopy, PushCommit
<1>5. \A c \in Consumers : lead'[c] > 0 => lead[c] > 0
  BY <1>4
<1> QED  BY <1>1, <1>3, <1>5

(* A consumer in Receive holds no frame, or one that it has just taken. *)
LEMMA ReceiveLeaves ==
  ASSUME TypeOK, RingCoherent, SlotsInv, NEW c \in Consumers, Play(c) \/ Receive(c)
  PROVE  /\ UNCHANGED bytes
         /\ c \notin Holding
         /\ c \in Holding' => ret'[c].dataPtr # nullptr
         /\ \A d \in Consumers \ {c} :
              /\ ret'[d] = ret[d] /\ lead'[d] = lead[d]
              /\ d \in Holding' <=> d \in Holding
<1> USE DEF Play, Receive
<1>1. UNCHANGED bytes /\ c \notin Holding
  BY DEF StartPolling, PollEmpty, PollFrame, PopLock, PopMiss, PopTake, Holding
<1>2. pc' = pc \/ \E l \in {"away", "lock", "take", "poll", "hold"} :
                   pc' = [pc EXCEPT ![c] = l]
  BY DEF StartPolling, PollEmpty, PollFrame, PopLock, PopMiss, PopTake, vars, Goto
<1>3. \A d \in Consumers \ {c} :
        ret'[d] = ret[d] /\ lead'[d] = lead[d] /\ pc'[d] = pc[d]
  BY <1>2, ConstantsOK
  DEF StartPolling, PollEmpty, PollFrame, PopLock, PopMiss, PopTake, vars, TypeOK, Threads
<1>4. c \in Holding' => ret'[c].dataPtr # nullptr
  <2>1. CASE PopTake(c)
    <3>1. 0 \in 0 .. buffer_size - 1 /\ SlotAt(0) = head
      BY <2>1, SlotAtFacts DEF PopTake, isEmptyBuffer, TypeOK
    <3>2. frameBuffer[head].dataPtr # nullptr
      BY <3>1 DEF SlotsInv, QueuedWritten, Block
    <3>3. ret'[c] = frameBuffer[head]
      BY <2>1 DEF PopTake, TypeOK
    <3> QED  BY <3>2, <3>3
  <2>2. CASE ~PopTake(c)
    <3>1. pc'[c] # "hold"
      BY <2>2, ConstantsOK
      DEF StartPolling, PollEmpty, PollFrame, PopLock, PopMiss, vars, Goto, TypeOK, Threads
    <3> QED  BY <3>1 DEF Holding
  <2> QED  BY <2>1, <2>2
<1> QED  BY <1>1, <1>3, <1>4 DEF Holding

LEMMA SentStep == RingInv /\ SentInv /\ [SNext]_svars => SentInv'
<1> SUFFICES ASSUME RingInv, SentInv, [SNext]_svars  PROVE SentInv'
  OBVIOUS
<1>0. TypeOK /\ RingCoherent /\ SlotsInv
  BY DEF RingInv
<1> USE DEF SentInv
<1>1. ASSUME NEW p \in Producers, Capture(p)  PROVE SentInv'
  <2>1. /\ UNCHANGED <<ret, bytes>> /\ Holding' = Holding
        /\ \A c \in Consumers : lead'[c] > 0 => lead[c] > 0
    BY <1>0, <1>1, CaptureLeaves
  <2> QED
    BY <2>1 DEF BytesOK, HeldBlocks, NoneUnlessHeld, SentWithinLap, Holding
<1>2. ASSUME NEW c \in Consumers, Play(c) \/ Receive(c)  PROVE SentInv'
  <2>1. /\ UNCHANGED bytes /\ c \notin Holding
        /\ c \in Holding' => ret'[c].dataPtr # nullptr
        /\ \A d \in Consumers \ {c} :
             /\ ret'[d] = ret[d] /\ lead'[d] = lead[d]
             /\ d \in Holding' <=> d \in Holding
    BY <1>0, <1>2, ReceiveLeaves
  <2>2. bytes[c] = <<>>
    BY <2>1 DEF NoneUnlessHeld
  <2>3. HeldBlocks'
    <3> SUFFICES ASSUME NEW d \in Consumers, d \in Holding'
                 PROVE  ret'[d].dataPtr # nullptr
      BY DEF HeldBlocks, Holding
    <3>1. CASE d = c
      BY <2>1, <3>1
    <3>2. CASE d # c
      <4>1. d \in Consumers \ {c}
        BY <3>2
      <4>2. ret'[d] = ret[d] /\ d \in Holding
        BY <2>1, <4>1
      <4> QED  BY <4>2 DEF HeldBlocks
    <3> QED  BY <3>1, <3>2
  <2>4. NoneUnlessHeld'
    BY <2>1, <2>2 DEF NoneUnlessHeld
  <2>5. SentWithinLap'
    <3> SUFFICES ASSUME NEW d \in Consumers, d \in Holding', lead'[d] > 0,
                        NEW k \in DOMAIN bytes[d]
                 PROVE  bytes[d][k] = ret'[d].timestamp <=> k <= ret'[d].size
      BY <2>1 DEF SentWithinLap, Holding
    <3>1. d # c
      <4>1. DOMAIN bytes[c] = {}
        BY <2>2
      <4> QED  BY <4>1
    <3>2. d \in Consumers \ {c}
      BY <3>1
    <3>3. ret'[d] = ret[d] /\ lead'[d] = lead[d] /\ d \in Holding
      BY <2>1, <3>2
    <3> QED  BY <3>3 DEF SentWithinLap
  <2> QED  BY <2>1, <2>3, <2>4, <2>5 DEF BytesOK
<1>3. ASSUME NEW c \in Consumers, ReadByte(c)  PROVE SentInv'
  <2>1. /\ c \in Holding /\ UNCHANGED vars /\ BytesOK'
        /\ \A d \in Consumers \ {c} : bytes'[d] = bytes[d]
    BY <1>0, <1>3, ReadEffect
  <2>2. Holding' = Holding /\ ret' = ret /\ lead' = lead
    BY <2>1 DEF vars, Holding
  <2>3. PICK ts \in Readable(ret[c].dataPtr, Len(bytes[c])) :
          /\ DOMAIN bytes'[c] = DOMAIN bytes[c] \cup {Len(bytes[c]) + 1}
          /\ \A k \in DOMAIN bytes'[c] :
               bytes'[c][k] = IF k = Len(bytes[c]) + 1 THEN ts ELSE bytes[c][k]
    BY <1>0, <1>3, ReadEffect
  <2>4. SentWithinLap'
    <3> SUFFICES ASSUME NEW d \in Holding, lead[d] > 0, NEW k \in DOMAIN bytes'[d]
                 PROVE  bytes'[d][k] = ret[d].timestamp <=> k <= ret[d].size
      BY <2>2 DEF SentWithinLap
    <3>1. CASE d # c
      BY <2>1, <3>1 DEF SentWithinLap, Holding
    <3>2. CASE d = c /\ k = Len(bytes[c]) + 1
      <4>1. /\ Len(bytes[c]) \in Offsets /\ Len(bytes[c]) \in Nat
            /\ ret[c].size \in Nat
        BY <1>0, <1>3, ReadOffset DEF Offsets
      <4>2. ts = ret[c].timestamp <=> Len(bytes[c]) < ret[c].size
        BY <2>1, <2>3, <3>2, <4>1, OwnBytes
      <4>3. k <= ret[c].size <=> Len(bytes[c]) < ret[c].size
        BY <3>2, <4>1
      <4> QED  BY <2>3, <3>2, <4>2, <4>3
    <3>3. CASE d = c /\ k # Len(bytes[c]) + 1
      <4>1. k \in DOMAIN bytes[c] /\ bytes'[c][k] = bytes[c][k]
        BY <2>3, <3>3
      <4> QED  BY <3>3, <4>1 DEF SentWithinLap
    <3> QED  BY <3>1, <3>2, <3>3
  <2>5. NoneUnlessHeld'
    BY <2>1, <2>2 DEF NoneUnlessHeld
  <2> QED  BY <2>1, <2>2, <2>4, <2>5 DEF HeldBlocks
<1>4. ASSUME NEW c \in Consumers, FrameSent(c)  PROVE SentInv'
  <2>1. UNCHANGED <<ret, lead>> /\ bytes' = [bytes EXCEPT ![c] = <<>>]
    BY <1>4 DEF FrameSent, Release
  <2>2. Holding' = Holding \ {c}
    BY <1>0, <1>4, ConstantsOK DEF FrameSent, Release, Goto, Holding, TypeOK, Threads
  <2>3. BytesOK'
    BY <2>1 DEF BytesOK
  <2> QED
    BY <2>1, <2>2, <2>3 DEF BytesOK, HeldBlocks, NoneUnlessHeld, SentWithinLap, Holding
<1>5. CASE UNCHANGED svars
  BY <1>5
  DEF svars, vars, BytesOK, HeldBlocks, NoneUnlessHeld, SentWithinLap, Holding
<1> QED  BY <1>1, <1>2, <1>3, <1>4, <1>5, SNextCases

LEMMA SentAlways == SSpec => [](RingInv /\ SentInv)
<1>1. SSpec => []RingInv
  BY StreamingUsesRing, RingAlways, PTL
<1> QED  BY <1>1, SentInit, SentStep, PTL DEF SSpec

(* Every variable of the stream threads and of the ring under them has its *)
(* type, in every reachable state.                                         *)
THEOREM StreamingTypeCorrect == SSpec => []STypeOK
<1>1. RingInv /\ SentInv => STypeOK
  BY DEF RingInv, SentInv, BytesOK, STypeOK
<1> QED  BY <1>1, SentAlways, PTL

(* How long a stream thread may take to send a frame: while fewer pushes   *)
(* have started than the ring had free slots when the frame was taken, and *)
(* one, what it reads as the frame's bytes is the frame's, and the byte    *)
(* that follows a fragmented frame is not.  This holds for any number of   *)
(* capture threads, also when they overfill the ring.                      *)
THEOREM BytesWithinLap == SSpec => []SentWithinLap
<1>1. SentInv => SentWithinLap
  BY DEF SentInv
<1> QED  BY <1>1, SentAlways, PTL

(* The stream threads see the ring as a bounded first-in first-out queue,  *)
(* if one capture thread fills it.                                         *)
THEOREM StreamingSeesQueue == ASSUME OneProducer  PROVE SSpec => ImplementsQueue
BY StreamingUsesRing, RingIsQueue, PTL

-----------------------------------------------------------------------------
(* What a stream thread sends that is late.  With one producer, the frames *)
(* that the slots hold from tail on, once around the ring, are older by    *)
(* one push at least for every slot; so what comes into a slot next is a   *)
(* whole ring newer than what it held.                                     *)

StampsSpaced ==
  \A i \in 0 .. buffer_max_size - 1 :
    LET f == frameBuffer[(tail + i) % buffer_max_size] IN
      IF f.timestamp = 0
        THEN f.size = 0
        ELSE /\ f.timestamp + (buffer_max_size - 1 - i) <= captured
             /\ \A p \in Admitted :
                  f.timestamp + (buffer_max_size - i) <= arg[p].timestamp

ArgsOld == \A p \in Admitted : arg[p].timestamp <= captured

(* A frame that is held, or one pushed a whole ring later, or more.        *)
Follows(c, ts) ==
  ts = ret[c].timestamp \/ ts >= ret[c].timestamp + buffer_max_size

(* The block of a frame that is held, whether it is still its slot's, or   *)
(* freed, holds frames that follow, as far as the frame that is held goes, *)
(* and no block to be allocated has its name.                              *)
HeldFollowed ==
  \A c \in Holding :
    /\ ret[c].timestamp > 0
    /\ ret[c].dataPtr <= captured
    /\ \A p \in Waiting : arg[p].timestamp # ret[c].dataPtr
    /\ \A s \in Slots :
         Block(s) = ret[c].dataPtr => Follows(c, frameBuffer[s].timestamp)
    /\ heap[ret[c].dataPtr].live =>
         \A x \in Offsets :
           x < ret[c].size => Follows(c, heap[ret[c].dataPtr].data[x])

LEMMA StampTypes ==
  ASSUME TypeOK
  PROVE  /\ buffer_max_size \in Nat \ {0} /\ captured \in Nat
         /\ tail \in Slots /\ head \in Slots /\ buffer_size \in Nat
         /\ Ids \subseteq Nat /\ nullptr \notin Ids
         /\ \A s \in Slots : /\ frameBuffer[s].timestamp \in Nat
                            /\ frameBuffer[s].size \in Nat
                            /\ Block(s) \in Ids \cup {nullptr}
         /\ \A c \in Consumers : /\ ret[c].timestamp \in Nat
                                /\ ret[c].dataPtr \in Ids \cup {nullptr}
         /\ \A p \in Producers : arg[p].timestamp \in Nat
         /\ \A i \in 0 .. buffer_max_size - 1 : (tail + i) % buffer_max_size \in Slots
<1>1. Ids \cup {0} \subseteq Nat
  BY DEF Ids
<1>2. /\ \A s \in Slots : frameBuffer[s] \in Slot
      /\ \A c \in Consumers : ret[c] \in Slot
  BY DEF TypeOK
<1>3. /\ \A s \in Slots : frameBuffer[s].timestamp \in Nat
      /\ \A c \in Consumers : /\ ret[c].timestamp \in Nat
                             /\ ret[c].dataPtr \in Ids \cup {nullptr}
  BY <1>1, <1>2 DEF Slot
<1> QED  BY <1>3, TypeFacts, AheadFacts, SlotsFacts

(* The spacing is kept where the frames of the slots are, and where no     *)
(* new frame is on its way.                                                *)
LEMMA SpacedSame ==
  ASSUME TypeOK, StampsSpaced, ArgsOld, tail' = tail, captured' \in Nat,
         captured <= captured',
         \A s \in Slots : /\ frameBuffer'[s].timestamp = frameBuffer[s].timestamp
                         /\ frameBuffer'[s].size = frameBuffer[s].size,
         \A p \in Admitted' : p \in Admitted /\ arg'[p] = arg[p]
  PROVE  StampsSpaced' /\ ArgsOld'
<1>1. ArgsOld'
  BY StampTypes DEF ArgsOld, Admitted
<1>2. ASSUME NEW i \in 0 .. buffer_max_size - 1, NEW s, NEW f, NEW g,
             s = (tail + i) % buffer_max_size, f = frameBuffer[s], g = frameBuffer'[s]
      PROVE  IF g.timestamp = 0
               THEN g.size = 0
               ELSE /\ g.timestamp + (buffer_max_size - 1 - i) <= captured'
                    /\ \A p \in Admitted' :
                         g.timestamp + (buffer_max_size - i) <= arg'[p].timestamp
  <2>1. s \in Slots
    BY <1>2, StampTypes
  <2>2. g.timestamp = f.timestamp /\ g.size = f.size /\ f.timestamp \in Nat
    BY <1>2, <2>1, StampTypes
  <2>3. IF f.timestamp = 0
          THEN f.size = 0
          ELSE /\ f.timestamp + (buffer_max_size - 1 - i) <= captured
               /\ \A p \in Admitted :
                    f.timestamp + (buffer_max_size - i) <= arg[p].timestamp
    BY <1>2 DEF StampsSpaced
  <2>4. /\ captured \in Nat
        /\ f.timestamp + (buffer_max_size - 1 - i) \in Int
    BY <2>2, StampTypes
  <2> QED  BY <2>2, <2>3, <2>4
<1> QED  BY <1>1, <1>2 DEF StampsSpaced

LEMMA SpacedCommit ==
  ASSUME OneProducer, TypeOK, LockHeldByCaller, HeapInv, SlotsInv, PushedIsFrame,
         StampsSpaced, ArgsOld, NEW p \in Producers, PushCommit(p)
  PROVE  StampsSpaced' /\ ArgsOld'
<1> DEFINE t == arg[p].timestamp
           N == buffer_max_size
<1>1. /\ p \in Admitted /\ pc' = [pc EXCEPT ![p] = "idle"]
      /\ captured' = captured /\ tail' = NextSlot(tail)
  BY DEF PushCommit, Goto, Admitted
<1>2. Admitted' = {}
  BY <1>1 DEF Admitted, OneProducer, TypeOK, Threads
<1>3. /\ \A s \in Slots \ {tail} : frameBuffer'[s] = frameBuffer[s]
      /\ frameBuffer'[tail].timestamp = t
  BY StampTypes DEF PushCommit, TypeOK
<1>4. t \in Nat /\ t > 0 /\ t <= captured /\ captured \in Nat /\ N \in Nat \ {0}
  BY <1>1, StampTypes DEF PushedIsFrame, ArgsOld, Ids
<1>5. ASSUME NEW i \in 0 .. N - 1, NEW g, g = frameBuffer'[(tail' + i) % N]
      PROVE  IF g.timestamp = 0
               THEN g.size = 0
               ELSE g.timestamp + (N - 1 - i) <= captured'
  <2>1. CASE i = N - 1
    <3>1. (tail' + i) % N = tail
      <4>1. tail \in 0 .. N - 1 /\ tail + 1 \in Int /\ N - 1 \in Int
        BY StampTypes DEF Slots
      <4>2. (((tail + 1) % N) + (N - 1)) % N = ((tail + 1) + (N - 1)) % N
        BY <1>4, <4>1, ModPlus
      <4>3. (tail + 1) + (N - 1) = N * 1 + tail
        BY <1>4, <4>1
      <4>4. (N * 1 + tail) % N = tail
        BY <1>4, <4>1, ModUnique
      <4> QED  BY <1>1, <2>1, <4>2, <4>3, <4>4 DEF NextSlot
    <3>2. g.timestamp = t
      BY <1>3, <1>5, <3>1
    <3> QED  BY <1>1, <1>4, <2>1, <3>2
  <2>2. CASE i # N - 1
    <3>1. PICK j \in 0 .. N - 1 : j = i + 1
      BY <1>4, <2>2
    <3>2. i = j - 1 /\ j > 0
      BY <3>1
    <3>3. PICK s : s = (tail + j) % N
      OBVIOUS
    <3>4. s \in Slots \ {tail} /\ (tail' + i) % N = s
      BY <1>1, <3>2, <3>3, AheadFacts
    <3>5. g = frameBuffer[s] /\ frameBuffer[s].timestamp \in Nat
      BY <1>3, <1>5, <3>4, StampTypes
    <3>6. IF g.timestamp = 0 THEN g.size = 0 ELSE g.timestamp + (N - j) <= t
      BY <1>1, <3>3, <3>5 DEF StampsSpaced
    <3> QED  BY <1>1, <1>4, <3>1, <3>5, <3>6
  <2> QED  BY <2>1, <2>2
<1>6. StampsSpaced'
  BY <1>2, <1>5 DEF StampsSpaced
<1> QED  BY <1>2, <1>6 DEF ArgsOld

LEMMA SpacedStep ==
  ASSUME OneProducer, TypeOK, LockHeldByCaller, HeapInv, SlotsInv, PushedIsFrame,
         StampsSpaced, ArgsOld, [Next]_vars
  PROVE  StampsSpaced' /\ ArgsOld'
<1> DEFINE Kept == StampsSpaced' /\ ArgsOld'
<1>0. /\ captured \in Nat /\ tail \in Slots
      /\ pc \in [Threads -> {"idle", "lock", "alloc", "copy", "commit",
                             "away", "poll", "take", "hold"}]
  BY StampTypes DEF TypeOK
<1>1. ASSUME NEW p \in Producers, PushDrop(p)  PROVE Kept
  <2>1. /\ UNCHANGED <<frameBuffer, tail, pc, arg>> /\ captured' = captured + 1
    BY <1>1 DEF PushDrop, ring
  <2> QED  BY <1>0, <2>1, SpacedSame DEF Admitted
<1>2. ASSUME NEW p \in Producers, PushAdmit(p)  PROVE Kept
  <2>1. /\ UNCHANGED <<frameBuffer, tail>> /\ captured' = captured + 1
        /\ arg'[p].timestamp = captured + 1
    BY <1>2 DEF PushAdmit, ring, TypeOK
  <2>2. Admitted' \subseteq {p}
    BY DEF Admitted, OneProducer
  <2>3. ASSUME NEW i \in 0 .. buffer_max_size - 1, NEW f,
               f = frameBuffer[(tail + i) % buffer_max_size]
        PROVE  IF f.timestamp = 0
                 THEN f.size = 0
                 ELSE /\ f.timestamp + (buffer_max_size - 1 - i) <= captured'
                      /\ \A q \in Admitted' :
                           f.timestamp + (buffer_max_size - i) <= arg'[q].timestamp
    <3>1. IF f.timestamp = 0
            THEN f.size = 0
            ELSE f.timestamp + (buffer_max_size - 1 - i) <= captured
      BY <2>3 DEF StampsSpaced
    <3>2. f.timestamp \in Nat /\ buffer_max_size \in Nat
      BY <2>3, StampTypes
    <3>3. f.timestamp # 0 =>
            /\ f.timestamp + (buffer_max_size - 1 - i) <= captured + 1
            /\ f.timestamp + (buffer_max_size - i) <= captured + 1
      BY <1>0, <3>1, <3>2
    <3> QED  BY <2>1, <2>2, <3>1, <3>3
  <2>4. StampsSpaced'
    BY <2>1, <2>3 DEF StampsSpaced
  <2> QED  BY <1>0, <2>1, <2>2, <2>4 DEF ArgsOld
<1>3. ASSUME NEW p \in Producers, PushLock(p) \/ PushCopy(p)  PROVE Kept
  <2>1. UNCHANGED <<frameBuffer, tail, arg, captured>>
    BY <1>3 DEF PushLock, PushCopy, ring
  <2>2. p \in Admitted /\ \E l \in {"alloc", "commit"} : pc' = [pc EXCEPT ![p] = l]
    BY <1>3 DEF PushLock, PushCopy, Goto, Admitted
  <2>3. Admitted' \subseteq Admitted
    BY <1>0, <2>2 DEF Admitted, Threads
  <2> QED  BY <1>0, <2>1, <2>3, SpacedSame
<1>4. ASSUME NEW p \in Producers, PushAlloc(p)  PROVE Kept
  <2>1. UNCHANGED <<tail, arg, captured>>
    BY <1>4 DEF PushAlloc
  <2>2. p \in Admitted /\ pc' = [pc EXCEPT ![p] = "copy"]
    BY <1>4 DEF PushAlloc, Goto, Admitted
  <2>3. Admitted' \subseteq Admitted
    BY <1>0, <2>2 DEF Admitted, Threads
  <2>4. \A s \in Slots : /\ frameBuffer'[s].timestamp = frameBuffer[s].timestamp
                        /\ frameBuffer'[s].size = frameBuffer[s].size
    <3>1. frameBuffer' = frameBuffer \/
            frameBuffer' = [frameBuffer EXCEPT ![tail].dataPtr = arg[p].timestamp]
      BY <1>4 DEF PushAlloc
    <3>2. \A s \in Slots : frameBuffer[s] \in Slot
      BY DEF TypeOK
    <3> QED  BY <1>0, <3>1, <3>2 DEF TypeOK, Slot
  <2> QED  BY <1>0, <2>1, <2>3, <2>4, SpacedSame
<1>5. ASSUME NEW p \in Producers, PushCommit(p)  PROVE Kept
  BY <1>5, SpacedCommit
<1>6. ASSUME NEW c \in Consumers,
             StartPolling(c) \/ PollEmpty(c) \/ PollFrame(c) \/ PopLock(c)
               \/ PopMiss(c) \/ PopTake(c) \/ Release(c)
      PROVE  Kept
  <2>1. UNCHANGED <<frameBuffer, tail, arg, captured>> /\ Admitted' = Admitted
    BY <1>6, ConsumerLeaves DEF Admitted
  <2> QED  BY <1>0, <2>1, SpacedSame
<1>7. CASE UNCHANGED vars
  <2>1. UNCHANGED <<frameBuffer, tail, arg, captured>> /\ Admitted' = Admitted
    BY <1>7 DEF vars, Admitted
  <2> QED  BY <1>0, <2>1, SpacedSame
<1> QED
  BY <1>1, <1>2, <1>3, <1>4, <1>5, <1>6, <1>7 DEF Next, Produce, Consume

(* What is known of the ring with one producer. *)
SpacedInv ==
  /\ RingInv /\ LockHeldByCaller /\ RoomLeft /\ QueuedIntact /\ PushedIsFrame
  /\ StampsSpaced /\ ArgsOld

LEMMA SpacedAlways == ASSUME OneProducer  PROVE Spec => []SpacedInv
<1> DEFINE Known == TypeOK /\ LockHeldByCaller /\ HeapInv /\ SlotsInv /\ PushedIsFrame
<1>1. Spec => []Known
  BY TypeCorrect, MutualExclusion, HeapAlways, SlotsAlways, PushedAlways, PTL
<1>2. Init => StampsSpaced /\ ArgsOld
  <2> SUFFICES ASSUME Init  PROVE StampsSpaced /\ ArgsOld
    OBVIOUS
  <2>1. TypeOK /\ Admitted = {} /\ \A s \in Slots : frameBuffer[s] = NullFrame
    BY TypeInit, ConstantsOK DEF Init, Admitted, Threads
  <2>2. \A i \in 0 .. buffer_max_size - 1 :
          (tail + i) % buffer_max_size \in Slots
    BY <2>1, StampTypes
  <2> QED  BY <2>1, <2>2 DEF StampsSpaced, ArgsOld, NullFrame
<1>3. Known /\ (StampsSpaced /\ ArgsOld) /\ [Next]_vars => (StampsSpaced /\ ArgsOld)'
  BY SpacedStep
<1>4. Spec => [](StampsSpaced /\ ArgsOld)
  <2> HIDE DEF Known
  <2> QED  BY <1>1, <1>2, <1>3, PTL DEF Spec
<1> QED
  BY <1>1, <1>4, RingAlways, RoomAlways, WaitingFramesKept, PTL DEF SpacedInv

(* What is about to be stored over a frame that is held is newer by a      *)
(* whole ring.                                                             *)
LEMMA TailNewer ==
  ASSUME SpacedInv, HeldFollowed, NEW p \in Admitted, NEW c \in Holding,
         Block(tail) = ret[c].dataPtr
  PROVE  Follows(c, arg[p].timestamp)
<1>1. PICK f : f = frameBuffer[tail]
  OBVIOUS
<1>2. /\ tail \in Slots /\ buffer_max_size \in Nat \ {0} /\ f.timestamp \in Nat
      /\ ret[c].timestamp \in Nat /\ arg[p].timestamp \in Nat
  BY <1>1, StampTypes DEF SpacedInv, RingInv, Holding, Admitted
<1>3. f.timestamp >= ret[c].timestamp /\ ret[c].timestamp > 0
  BY <1>1, <1>2 DEF HeldFollowed, Follows
<1>4. (tail + 0) % buffer_max_size = tail
  BY <1>2 DEF Slots
<1>5. 0 \in 0 .. buffer_max_size - 1
  BY <1>2
<1>6. IF f.timestamp = 0 THEN f.size = 0
      ELSE \A q \in Admitted :
             f.timestamp + (buffer_max_size - 0) <= arg[q].timestamp
  BY <1>1, <1>4, <1>5 DEF SpacedInv, StampsSpaced
<1>7. f.timestamp + buffer_max_size <= arg[p].timestamp
  BY <1>2, <1>3, <1>6
<1> QED  BY <1>2, <1>3, <1>7 DEF Follows

(* The frame at head, when it is taken and has bytes to send.              *)
LEMMA HeadFollowed ==
  ASSUME SpacedInv, NEW f, f = frameBuffer[head], buffer_size > 0, f.size > 0
  PROVE  /\ f.timestamp > 0 /\ f.dataPtr <= captured
         /\ \A p \in Waiting : arg[p].timestamp # f.dataPtr
         /\ \A s \in Slots : Block(s) = f.dataPtr => s = head
         /\ \A x \in Offsets :
              x < f.size => heap[f.dataPtr].data[x] = f.timestamp
<1> USE DEF SpacedInv, RingInv
<1>1. /\ buffer_size \in Nat /\ buffer_max_size \in Nat \ {0} /\ head \in Slots
      /\ buffer_size <= buffer_max_size /\ f.timestamp \in Nat
  BY StampTypes DEF RoomLeft, CapacityRespected
<1>2. Intact(f)
  <2>1. 0 \in 0 .. buffer_size - 1 /\ SlotAt(0) = head
    BY <1>1, SlotAtFacts
  <2> QED  BY <2>1 DEF QueuedIntact
<1>3. f.dataPtr = Block(head) /\ f.dataPtr \in Ids /\ heap[f.dataPtr].live
  BY <1>1, <1>2, StampTypes DEF Intact, Block
<1>4. f.timestamp > 0
  <2>1. PICK i \in 0 .. buffer_max_size - 1 : i = buffer_max_size - buffer_size
    BY <1>1
  <2>2. (tail + i) % buffer_max_size = head
    BY <2>1, HeadIsAhead
  <2>3. f.timestamp = 0 => f.size = 0
    BY <2>2 DEF StampsSpaced
  <2> QED  BY <1>1, <2>3
<1>5. f.dataPtr <= captured
  BY <1>3 DEF HeapInv, LiveAreOld
<1>6. \A p \in Waiting : arg[p].timestamp # f.dataPtr
  BY <1>3 DEF HeapInv, FreshBlocks
<1>7. ASSUME NEW s \in Slots, Block(s) = f.dataPtr  PROVE s = head
  <2>1. /\ frameBuffer[s].dataPtr = frameBuffer[head].dataPtr
        /\ frameBuffer[s].dataPtr # nullptr
    BY <1>2, <1>3, <1>7 DEF Block, Intact
  <2> QED  BY <1>1, <2>1 DEF HeapInv, HeapOwned
<1> QED  BY <1>2, <1>4, <1>5, <1>6, <1>7 DEF Intact

(* A capture thread keeps HeldFollowed.                                    *)
LEMMA HeldCapture ==
  ASSUME OneProducer, SpacedInv, HeldBlocks, HeldFollowed,
         NEW p \in Producers, Capture(p)
  PROVE  HeldFollowed'
<1> USE DEF SpacedInv, RingInv
<1>1. /\ UNCHANGED <<ret, bytes>> /\ Holding' = Holding
  BY CaptureLeaves
<1>2. /\ \A c \in Holding : ret[c].dataPtr \in Ids /\ ret[c].timestamp \in Nat
      /\ captured \in Nat /\ Ids \subseteq Nat /\ tail \in Slots
  BY StampTypes DEF HeldBlocks, Holding
<1>3. \A c, ts : Follows(c, ts)' <=> Follows(c, ts)
  BY <1>1 DEF Follows
<1>4. ASSUME captured <= captured', captured' \in Nat,
             \A q \in Waiting' : \/ q \in Waiting /\ arg'[q] = arg[q]
                                \/ arg'[q].timestamp = captured + 1,
             \A c \in Holding, s \in Slots : Block(s)' = ret[c].dataPtr =>
               /\ Block(s) = ret[c].dataPtr
               /\ \/ frameBuffer'[s].timestamp = frameBuffer[s].timestamp
                  \/ Follows(c, frameBuffer'[s].timestamp),
             \A c \in Holding : heap'[ret[c].dataPtr].live =>
               /\ heap[ret[c].dataPtr].live
               /\ \A x \in Offsets :
                    \/ heap'[ret[c].dataPtr].data[x] = heap[ret[c].dataPtr].data[x]
                    \/ Follows(c, heap'[ret[c].dataPtr].data[x])
      PROVE  HeldFollowed'
  <2> SUFFICES ASSUME NEW c \in Holding
               PROVE  /\ ret[c].timestamp > 0
                      /\ ret[c].dataPtr <= captured'
                      /\ \A q \in Waiting' : arg'[q].timestamp # ret[c].dataPtr
                      /\ \A s \in Slots : Block(s)' = ret[c].dataPtr =>
                           Follows(c, frameBuffer'[s].timestamp)
                      /\ heap'[ret[c].dataPtr].live =>
                           \A x \in Offsets : x < ret[c].size =>
                             Follows(c, heap'[ret[c].dataPtr].data[x])
    BY <1>1, <1>3 DEF HeldFollowed, Follows
  <2>1. ret[c].timestamp > 0 /\ ret[c].dataPtr <= captured
    BY DEF HeldFollowed
  <2>2. ret[c].dataPtr <= captured' /\ ret[c].dataPtr # captured + 1
    <3>1. /\ ret[c].dataPtr \in Nat /\ captured \in Nat /\ captured' \in Nat
          /\ captured <= captured'
      BY <1>2, <1>4
    <3> QED  BY <2>1, <3>1
  <2>3. \A q \in Waiting' : arg'[q].timestamp # ret[c].dataPtr
    BY <1>4, <2>2 DEF HeldFollowed
  <2>4. ASSUME NEW s \in Slots, Block(s)' = ret[c].dataPtr
        PROVE  Follows(c, frameBuffer'[s].timestamp)
    BY <1>4, <2>4 DEF HeldFollowed
  <2>5. ASSUME heap'[ret[c].dataPtr].live, NEW x \in Offsets, x < ret[c].size
        PROVE  Follows(c, heap'[ret[c].dataPtr].data[x])
    BY <1>4, <2>5 DEF HeldFollowed
  <2> QED  BY <2>1, <2>2, <2>3, <2>4, <2>5
<1>5. pc \in [Threads -> {"idle", "lock", "alloc", "copy", "commit",
                         "away", "poll", "take", "hold"}]
  BY DEF TypeOK
<1>6. CASE PushDrop(p)
  <2>1. UNCHANGED <<frameBuffer, heap, arg, pc>> /\ captured' = captured + 1
    BY <1>6 DEF PushDrop, ring
  <2> QED  BY <1>2, <1>4, <2>1 DEF Waiting, Block
<1>7. CASE PushAdmit(p)
  <2>1. UNCHANGED <<frameBuffer, heap>> /\ captured' = captured + 1
    BY <1>7 DEF PushAdmit, ring
  <2>2. arg'[p].timestamp = captured + 1 /\ Waiting' \subseteq {p}
    BY <1>7 DEF PushAdmit, TypeOK, Waiting, OneProducer
  <2> QED  BY <1>2, <1>4, <2>1, <2>2 DEF Block
<1>8. CASE PushLock(p)
  <2>1. UNCHANGED <<frameBuffer, heap, arg, captured>>
    BY <1>8 DEF PushLock, ring
  <2>2. Waiting' \subseteq Waiting
    BY <1>5, <1>8 DEF PushLock, Goto, Waiting, Threads
  <2> QED  BY <1>2, <1>4, <2>1, <2>2 DEF Block
<1>9. CASE PushAlloc(p)
  <2> DEFINE b == arg[p].timestamp
  <2>1. UNCHANGED <<arg, captured>> /\ p \in Waiting
    BY <1>9 DEF PushAlloc, Waiting
  <2>2. Waiting' \subseteq Waiting
    BY <1>5, <1>9 DEF PushAlloc, Goto, Waiting, Threads
  <2>3. b \in Ids /\ \A c \in Holding : ret[c].dataPtr # b
    BY <2>1, WaitingIds DEF HeldFollowed
  <2>4. CASE NeedsBlock(tail, arg[p].size)
    <3>1. /\ heap' = [Freed(Block(tail), heap) EXCEPT
                        ![b] = [live |-> TRUE, cap |-> arg[p].size, data |-> NoData]]
          /\ frameBuffer' = [frameBuffer EXCEPT ![tail].dataPtr = b]
      BY <1>9, <2>4 DEF PushAlloc, Block
    <3>2. \A d \in Ids \ {b} : /\ heap'[d].live => heap[d].live
                              /\ heap'[d].data = heap[d].data
      <4> DEFINE h == Freed(Block(tail), heap)
      <4>1. heap \in [Ids -> Memory] /\ \A d \in Ids : heap[d] \in Memory
        BY DEF TypeOK
      <4>2. /\ DOMAIN h = Ids
            /\ \A d \in Ids : /\ h[d].live => heap[d].live
                            /\ h[d].data = heap[d].data
        <5>1. CASE Block(tail) = nullptr
          BY <4>1, <5>1 DEF Freed
        <5>2. CASE Block(tail) # nullptr
          <6>1. h = [heap EXCEPT ![Block(tail)].live = FALSE]
            BY <5>2 DEF Freed
          <6>2. \A d \in Ids : h[d] = IF d = Block(tail)
                                      THEN [heap[d] EXCEPT !.live = FALSE] ELSE heap[d]
            BY <4>1, <6>1
          <6> QED  BY <4>1, <6>1, <6>2 DEF Memory
        <5> QED  BY <5>1, <5>2
      <4>3. heap' = [h EXCEPT ![b] = [live |-> TRUE, cap |-> arg[p].size,
                                      data |-> NoData]]
        BY <3>1
      <4> HIDE DEF h
      <4>4. \A d \in Ids \ {b} : heap'[d] = h[d]
        BY <4>2, <4>3
      <4> QED  BY <4>2, <4>4
    <3>3. \A s \in Slots : /\ Block(s)' = IF s = tail THEN b ELSE Block(s)
                          /\ frameBuffer'[s].timestamp = frameBuffer[s].timestamp
      <4>1. \A s \in Slots : frameBuffer[s] \in Slot
        BY DEF TypeOK
      <4> QED  BY <1>2, <3>1, <4>1 DEF Block, TypeOK, Slot
    <3>4. \A c \in Holding : ret[c].dataPtr \in Ids \ {b}
      BY <1>2, <2>3
    <3>5. ASSUME NEW c \in Holding, NEW s \in Slots, Block(s)' = ret[c].dataPtr
          PROVE  /\ Block(s) = ret[c].dataPtr
                 /\ frameBuffer'[s].timestamp = frameBuffer[s].timestamp
      BY <2>3, <3>3, <3>5
    <3>6. ASSUME NEW c \in Holding, heap'[ret[c].dataPtr].live
          PROVE  /\ heap[ret[c].dataPtr].live
                 /\ heap'[ret[c].dataPtr].data = heap[ret[c].dataPtr].data
      BY <3>2, <3>4, <3>6
    <3>7. captured <= captured' /\ captured' \in Nat
      BY <1>2, <2>1
    <3>8. \A q \in Waiting' : q \in Waiting /\ arg'[q] = arg[q]
      BY <2>1, <2>2
    <3> QED  BY <1>4, <3>5, <3>6, <3>7, <3>8
  <2>5. CASE ~NeedsBlock(tail, arg[p].size)
    <3>1. UNCHANGED <<heap, frameBuffer>>
      BY <1>9, <2>5 DEF PushAlloc
    <3> QED  BY <1>2, <1>4, <2>1, <2>2, <3>1 DEF Block
  <2> QED  BY <2>4, <2>5
<1>10. CASE PushCopy(p)
  <2>1. /\ UNCHANGED <<frameBuffer, arg, captured>> /\ p \in Admitted
        /\ \A b \in Ids : heap'[b].live = heap[b].live
    BY <1>10, CopyData DEF Admitted
  <2>2. Waiting' \subseteq Waiting
    BY <1>5, <1>10 DEF PushCopy, Goto, Waiting, Threads
  <2>3. ASSUME NEW c \in Holding, NEW x \in Offsets
        PROVE  \/ heap'[ret[c].dataPtr].data[x] = heap[ret[c].dataPtr].data[x]
               \/ Follows(c, heap'[ret[c].dataPtr].data[x])
    <3>1. CASE Block(tail) = ret[c].dataPtr
      <4>1. Follows(c, arg[p].timestamp)
        BY <2>1, <3>1, TailNewer
      <4>2. heap'[Block(tail)].data[x] =
              IF x < arg[p].size THEN arg[p].timestamp ELSE heap[Block(tail)].data[x]
        BY <1>2, <1>10, <3>1, CopyData
      <4> QED  BY <3>1, <4>1, <4>2
    <3>2. CASE Block(tail) # ret[c].dataPtr
      <4>1. heap'[ret[c].dataPtr] = heap[ret[c].dataPtr]
        BY <1>2, <1>10, <3>2, CopyData
      <4> QED  BY <4>1
    <3> QED  BY <3>1, <3>2
  <2>4. ASSUME NEW c \in Holding, heap'[ret[c].dataPtr].live
        PROVE  heap[ret[c].dataPtr].live
    BY <1>2, <2>1, <2>4
  <2>5. \A s \in Slots : /\ Block(s)' = Block(s)
                       /\ frameBuffer'[s].timestamp = frameBuffer[s].timestamp
    BY <2>1 DEF Block
  <2>6. captured <= captured' /\ captured' \in Nat
    BY <1>2, <2>1
  <2>7. \A q \in Waiting' : q \in Waiting /\ arg'[q] = arg[q]
    BY <2>1, <2>2
  <2> QED  BY <1>4, <2>3, <2>4, <2>5, <2>6, <2>7
<1>11. CASE PushCommit(p)
  <2>1. UNCHANGED <<heap, arg, captured>> /\ p \in Admitted
    BY <1>11 DEF PushCommit, Admitted
  <2>2. Waiting' \subseteq Waiting
    BY <1>5, <1>11 DEF PushCommit, Goto, Waiting, Threads
  <2>3. /\ \A s \in Slots \ {tail} : frameBuffer'[s] = frameBuffer[s]
        /\ frameBuffer'[tail].timestamp = arg[p].timestamp
        /\ \A s \in Slots : Block(s)' = Block(s)
    <3>1. frameBuffer' = [frameBuffer EXCEPT ![tail] =
                            [dataPtr |-> Block(tail), size |-> arg[p].size,
                             timestamp |-> arg[p].timestamp]]
      BY <1>2, <1>11 DEF PushCommit, Block, TypeOK
    <3>2. frameBuffer'[tail] = [dataPtr |-> Block(tail), size |-> arg[p].size,
                                timestamp |-> arg[p].timestamp]
      BY <1>2, <3>1 DEF TypeOK
    <3> QED  BY <1>2, <3>1, <3>2 DEF TypeOK, Block
  <2>4. ASSUME NEW c \in Holding, NEW s \in Slots, Block(s)' = ret[c].dataPtr
        PROVE  /\ Block(s) = ret[c].dataPtr
               /\ \/ frameBuffer'[s].timestamp = frameBuffer[s].timestamp
                  \/ Follows(c, frameBuffer'[s].timestamp)
    <3>1. CASE s = tail
      <4>1. Block(tail) = ret[c].dataPtr
        BY <2>3, <2>4, <3>1
      <4>2. Follows(c, arg[p].timestamp)
        BY <2>1, <4>1, TailNewer
      <4> QED  BY <2>3, <3>1, <4>1, <4>2
    <3>2. CASE s # tail
      <4>1. frameBuffer'[s] = frameBuffer[s]
        BY <2>3, <3>2
      <4> QED  BY <2>4, <4>1 DEF Block
    <3> QED  BY <3>1, <3>2
  <2> QED  BY <1>2, <1>4, <2>1, <2>2, <2>4
<1> QED  BY <1>6, <1>7, <1>8, <1>9, <1>10, <1>11 DEF Capture, Produce

(* A stream thread keeps it: it leaves the others' frames alone, and takes *)
(* one that nothing has yet come after.                                    *)
LEMMA HeldReceive ==
  ASSUME SpacedInv, HeldFollowed, NEW c \in Consumers, Play(c) \/ Receive(c)
  PROVE  HeldFollowed'
<1> USE DEF SpacedInv, RingInv
<1>1. /\ c \notin Holding
      /\ \A d \in Consumers \ {c} : ret'[d] = ret[d] /\ (d \in Holding' <=> d \in Holding)
  BY ReceiveLeaves
<1>2. /\ UNCHANGED <<frameBuffer, heap, arg, captured>> /\ Waiting' = Waiting
  BY ConsumerLeaves DEF Play, Receive
<1> SUFFICES ASSUME NEW d \in Consumers, d \in Holding'
             PROVE  /\ ret'[d].timestamp > 0
                    /\ ret'[d].dataPtr <= captured
                    /\ \A p \in Waiting : arg[p].timestamp # ret'[d].dataPtr
                    /\ \A s \in Slots : Block(s) = ret'[d].dataPtr =>
                         Follows(d, frameBuffer[s].timestamp)'
                    /\ heap[ret'[d].dataPtr].live =>
                         \A x \in Offsets : x < ret'[d].size =>
                           Follows(d, heap[ret[d].dataPtr].data[x])'
  BY <1>2 DEF HeldFollowed, Block, Holding
<1>3. CASE d # c
  <2>1. ret'[d] = ret[d] /\ d \in Holding
    BY <1>1, <1>3
  <2> QED  BY <1>2, <2>1 DEF HeldFollowed, Follows
<1>4. CASE d = c
  <2>1. PopTake(c)
    <3>1. pc \in [Threads -> {"idle", "lock", "alloc", "copy", "commit",
                             "away", "poll", "take", "hold"}] /\ c \in Threads
      BY DEF TypeOK, Threads
    <3>2. pc'[c] = "hold"
      BY <1>4 DEF Holding
    <3> QED
      BY <3>1, <3>2 DEF Play, Receive, StartPolling, PollEmpty, PollFrame, PopLock, PopMiss, Goto
  <2>2. PICK f : f = frameBuffer[head]
    OBVIOUS
  <2>3. ret'[c] = f /\ buffer_size # 0
    BY <2>1, <2>2 DEF PopTake, TypeOK, isEmptyBuffer
  <2>4. f.size > 0
    <3>1. pc' = [pc EXCEPT ![c] = IF f.size > 0 THEN "hold" ELSE "poll"]
      BY <2>1, <2>2 DEF PopTake, Goto
    <3>2. pc'[c] = "hold" /\ c \in Threads
      BY <1>4 DEF Holding, Threads
    <3> QED  BY <3>1, <3>2 DEF TypeOK
  <2>5. buffer_size > 0
    BY <2>3, StampTypes
  <2>6. /\ f.timestamp > 0 /\ f.dataPtr <= captured
        /\ \A p \in Waiting : arg[p].timestamp # f.dataPtr
        /\ \A s \in Slots : Block(s) = f.dataPtr => s = head
        /\ \A x \in Offsets : x < f.size => heap[f.dataPtr].data[x] = f.timestamp
    BY <2>2, <2>4, <2>5, HeadFollowed
  <2>7. ASSUME NEW s \in Slots, Block(s) = f.dataPtr
        PROVE  Follows(c, frameBuffer[s].timestamp)'
    <3>1. frameBuffer'[s].timestamp = f.timestamp
      BY <1>2, <2>2, <2>6, <2>7
    <3> QED  BY <2>3, <3>1 DEF Follows
  <2>8. ASSUME NEW x \in Offsets, x < f.size
        PROVE  Follows(c, heap[ret[c].dataPtr].data[x])'
    BY <1>2, <2>3, <2>6, <2>8 DEF Follows
  <2> QED  BY <1>4, <2>3, <2>6, <2>7, <2>8
<1> QED  BY <1>3, <1>4

(* What a read of the block of a frame that is held finds.                 *)
LEMMA ReadFollows ==
  ASSUME SpacedInv, HeldBlocks, HeldFollowed, NEW c \in Holding,
         NEW x \in Offsets, x < ret[c].size,
         NEW ts \in Readable(ret[c].dataPtr, x)
  PROVE  ts = 0 \/ Follows(c, ts)
<1> DEFINE b == ret[c].dataPtr
           Copying == {q \in Producers : /\ pc[q] = "copy" /\ Block(tail) = b
                                         /\ x < arg[q].size}
<1>1. CASE ~heap[b].live
  BY <1>1 DEF Readable
<1>2. CASE heap[b].live
  <2>1. ts \in {heap[b].data[x]} \cup {arg[p].timestamp : p \in Copying}
    BY <1>2 DEF Readable, Block
  <2>2. CASE ts = heap[b].data[x]
    BY <1>2, <2>2 DEF HeldFollowed
  <2>3. CASE ts \in {arg[p].timestamp : p \in Copying}
    <3>1. PICK p \in Copying : ts = arg[p].timestamp
      BY <2>3
    <3>2. p \in Admitted /\ Block(tail) = b
      BY DEF Admitted
    <3> QED  BY <3>1, <3>2, TailNewer
  <2> QED  BY <2>1, <2>2, <2>3
<1> QED  BY <1>1, <1>2

LEMMA NewerStep ==
  ASSUME OneProducer, SpacedInv, SentInv, HeldFollowed, ForeignIsNewer, [SNext]_svars
  PROVE  (HeldFollowed /\ ForeignIsNewer)'
<1> DEFINE Kept == HeldFollowed' /\ ForeignIsNewer'
<1>0. TypeOK /\ RingCoherent /\ SlotsInv
  BY DEF SpacedInv, RingInv
<1>1. ASSUME NEW p \in Producers, Capture(p)  PROVE Kept
  <2>1. /\ UNCHANGED <<ret, bytes>> /\ Holding' = Holding
    BY <1>0, <1>1, CaptureLeaves
  <2>2. ForeignIsNewer'
    BY <2>1 DEF ForeignIsNewer
  <2> QED  BY <1>1, <2>2, HeldCapture DEF SentInv
<1>2. ASSUME NEW c \in Consumers, Play(c) \/ Receive(c)  PROVE Kept
  <2>1. /\ UNCHANGED bytes /\ c \notin Holding
        /\ \A d \in Consumers \ {c} :
             ret'[d] = ret[d] /\ (d \in Holding' <=> d \in Holding)
    BY <1>0, <1>2, ReceiveLeaves
  <2>2. DOMAIN bytes[c] = {}
    <3>1. bytes[c] = <<>>
      BY <2>1 DEF SentInv, NoneUnlessHeld
    <3> QED  BY <3>1
  <2>3. ForeignIsNewer'
    <3> SUFFICES ASSUME NEW d \in Consumers, d \in Holding',
                        NEW k \in DOMAIN bytes[d]
                 PROVE  \/ k > ret'[d].size
                        \/ bytes[d][k] \in {0, ret'[d].timestamp}
                        \/ bytes[d][k] >= ret'[d].timestamp + buffer_max_size
      BY <2>1 DEF ForeignIsNewer, Holding
    <3>1. d \in Consumers \ {c}
      BY <2>2
    <3>2. ret'[d] = ret[d] /\ d \in Holding
      BY <2>1, <3>1
    <3> QED  BY <3>2 DEF ForeignIsNewer
  <2> QED  BY <1>2, <2>3, HeldReceive
<1>3. ASSUME NEW c \in Consumers, ReadByte(c)  PROVE Kept
  <2>1. /\ c \in Holding /\ UNCHANGED vars
        /\ \A d \in Consumers \ {c} : bytes'[d] = bytes[d]
    BY <1>0, <1>3, ReadEffect DEF SentInv
  <2>2. UNCHANGED <<frameBuffer, heap, pc, arg, ret, captured>>
    BY <2>1 DEF vars
  <2>3. HeldFollowed' /\ Holding' = Holding
    BY <2>2 DEF HeldFollowed, Follows, Holding, Waiting, Block
  <2>4. PICK ts \in Readable(ret[c].dataPtr, Len(bytes[c])) :
          /\ DOMAIN bytes'[c] = DOMAIN bytes[c] \cup {Len(bytes[c]) + 1}
          /\ \A k \in DOMAIN bytes'[c] :
               bytes'[c][k] = IF k = Len(bytes[c]) + 1 THEN ts ELSE bytes[c][k]
    BY <1>0, <1>3, ReadEffect DEF SentInv
  <2>5. ASSUME NEW d \in Holding, NEW k \in DOMAIN bytes'[d]
        PROVE  \/ k > ret[d].size
               \/ bytes'[d][k] \in {0, ret[d].timestamp}
               \/ bytes'[d][k] >= ret[d].timestamp + buffer_max_size
    <3>1. CASE k \in DOMAIN bytes[d] /\ bytes'[d][k] = bytes[d][k]
      BY <3>1 DEF ForeignIsNewer
    <3>2. CASE d = c /\ k = Len(bytes[c]) + 1
      <4>1. /\ Len(bytes[c]) \in Offsets /\ Len(bytes[c]) \in Nat
            /\ ret[c].size \in Nat
        BY <1>0, <1>3, ReadOffset DEF SentInv, Offsets
      <4>2. CASE Len(bytes[c]) < ret[c].size
        <5>1. ts = 0 \/ Follows(c, ts)
          BY <2>1, <2>4, <4>1, <4>2, ReadFollows DEF SentInv
        <5> QED  BY <2>4, <2>5, <3>2, <5>1 DEF Follows
      <4>3. CASE ~(Len(bytes[c]) < ret[c].size)
        BY <3>2, <4>1, <4>3
      <4> QED  BY <4>2, <4>3
    <3>3. CASE d = c /\ k # Len(bytes[c]) + 1
      BY <2>4, <2>5, <3>1, <3>3
    <3>4. CASE d # c
      BY <2>1, <2>5, <3>1, <3>4 DEF Holding
    <3> QED  BY <3>2, <3>3, <3>4
  <2>6. ForeignIsNewer'
    BY <2>2, <2>3, <2>5 DEF ForeignIsNewer
  <2> QED  BY <2>3, <2>6
<1>4. ASSUME NEW c \in Consumers, FrameSent(c)  PROVE Kept
  <2>1. /\ UNCHANGED <<frameBuffer, heap, arg, ret, captured>>
        /\ bytes' = [bytes EXCEPT ![c] = <<>>]
    BY <1>4 DEF FrameSent, Release, ring
  <2>2. Holding' = Holding \ {c}
    BY <1>0, <1>4, ConstantsOK DEF FrameSent, Release, Goto, Holding, TypeOK, Threads
  <2>3. Waiting' = Waiting
    BY <1>0, <1>4, ConsumerLeaves DEF FrameSent
  <2>4. HeldFollowed'
    BY <2>1, <2>2, <2>3 DEF HeldFollowed, Follows, Block
  <2>5. ForeignIsNewer'
    <3>1. bytes \in [Consumers -> Seq(Ids \cup {0})]
      BY DEF SentInv, BytesOK
    <3>2. \A d \in Holding \ {c} : bytes'[d] = bytes[d]
      BY <2>1, <3>1 DEF Holding
    <3> QED  BY <2>1, <2>2, <3>2 DEF ForeignIsNewer
  <2> QED  BY <2>4, <2>5
<1>5. CASE UNCHANGED svars
  <2>1. UNCHANGED <<frameBuffer, heap, pc, arg, ret, captured, bytes>>
    BY <1>5 DEF svars, vars
  <2> QED
    BY <2>1 DEF HeldFollowed, ForeignIsNewer, Follows, Holding, Waiting, Block
<1> QED  BY <1>1, <1>2, <1>3, <1>4, <1>5, SNextCases

(* With one capture thread, what a late stream thread sends in place of    *)
(* its frame's bytes is freed memory or a frame pushed at least a whole    *)
(* ring later: within the frame's size it is never an older frame, and     *)
(* never one that waits in another slot.                                   *)
THEOREM ForeignBytesNewer == ASSUME OneProducer  PROVE SSpec => []ForeignIsNewer
<1>1. SSpec => []SpacedInv
  BY StreamingUsesRing, SpacedAlways, PTL
<1>2. SSpec => []SentInv
  BY SentAlways, PTL
<1>3. SInit => HeldFollowed /\ ForeignIsNewer
  <2>1. SInit => Holding = {}
    BY ConstantsOK DEF SInit, Init, Holding, Threads
  <2> QED  BY <2>1 DEF HeldFollowed, ForeignIsNewer
<1>4. SpacedInv /\ SentInv /\ (HeldFollowed /\ ForeignIsNewer) /\ [SNext]_svars
        => (HeldFollowed /\ ForeignIsNewer)'
  BY NewerStep
<1> QED  BY <1>1, <1>2, <1>3, <1>4, PTL DEF SSpec

=============================================================================
