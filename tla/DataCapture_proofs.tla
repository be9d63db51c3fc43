------------------------- MODULE DataCapture_proofs -------------------------
(***************************************************************************)
(* What is proved of DataCapture, for any number of threads, any size of   *)
(* the ring and any frames.                                                *)
(***************************************************************************)
EXTENDS DataCapture, Sequences, Numbers, TLAPS

(* The names of the steps, for case distinctions. *)
LEMMA NextCases ==
  ASSUME Next, NEW G,
         ASSUME NEW p \in Producers, PushDrop(p)   PROVE G,
         ASSUME NEW p \in Producers, PushAdmit(p)  PROVE G,
         ASSUME NEW p \in Producers, PushLock(p)   PROVE G,
         ASSUME NEW p \in Producers, PushAlloc(p)  PROVE G,
         ASSUME NEW p \in Producers, PushCopy(p)   PROVE G,
         ASSUME NEW p \in Producers, PushCommit(p) PROVE G,
         ASSUME NEW c \in Consumers, StartPolling(c)  PROVE G,
         ASSUME NEW c \in Consumers, PollEmpty(c)  PROVE G,
         ASSUME NEW c \in Consumers, PollFrame(c)  PROVE G,
         ASSUME NEW c \in Consumers, PopLock(c)    PROVE G,
         ASSUME NEW c \in Consumers, PopMiss(c)    PROVE G,
         ASSUME NEW c \in Consumers, PopTake(c)    PROVE G,
         ASSUME NEW c \in Consumers, Release(c)    PROVE G
  PROVE  G
BY DEF Next, Produce, Consume

-----------------------------------------------------------------------------
(* Types.                                                                  *)

LEMMA SlotsFacts ==
  /\ buffer_max_size \in Nat \ {0} /\ Sizes \subseteq Nat /\ MaxFrames \in Nat
  /\ NoData \in [Offsets -> Ids \cup {0}]
  /\ \A i \in Slots : NextSlot(i) \in Slots
BY ConstantsOK DEF Slots, NextSlot, NoData

(* What a step does to one element of a function keeps its type.           *)
LEMMA UpdateTyped ==
  ASSUME NEW A, NEW B, NEW f \in [A -> B], NEW a, NEW v, a \in A => v \in B
  PROVE  [f EXCEPT ![a] = v] \in [A -> B]
OBVIOUS

(* A block stays one when it is freed and when a frame is copied to it.    *)
LEMMA BlockTyped ==
  ASSUME NEW m \in Memory, NEW d \in [Offsets -> Ids \cup {0}]
  PROVE  /\ [m EXCEPT !.live = FALSE] \in Memory
         /\ [m EXCEPT !.data = d] \in Memory
         /\ m.data \in [Offsets -> Ids \cup {0}]
BY DEF Memory

LEMMA FreedTyped ==
  ASSUME NEW h \in [Ids -> Memory], NEW q
  PROVE  Freed(q, h) \in [Ids -> Memory]
<1>1. CASE q = nullptr
  BY <1>1 DEF Freed
<1>2. CASE q # nullptr
  <2>1. q \in Ids => [h[q] EXCEPT !.live = FALSE] \in Memory
    BY BlockTyped, SlotsFacts
  <2>2. [h EXCEPT ![q] = [h[q] EXCEPT !.live = FALSE]] \in [Ids -> Memory]
    BY <2>1, UpdateTyped
  <2>3. Freed(q, h) = [h EXCEPT ![q].live = FALSE]
    BY <1>2 DEF Freed
  <2>4. CASE q \in Ids
    BY <2>2, <2>3, <2>4
  <2>5. CASE q \notin Ids
    BY <2>3, <2>5
  <2> QED  BY <2>4, <2>5
<1> QED  BY <1>1, <1>2

(* A slot stays one when its block is replaced.                            *)
LEMMA SlotTyped ==
  ASSUME NEW s \in Slot, NEW b \in Ids \cup {0}
  PROVE  [s EXCEPT !.dataPtr = b] \in Slot
BY DEF Slot, nullptr

LEMMA TypeInit == Init => TypeOK
BY ConstantsOK
DEF Init, TypeOK, Slots, Slot, NullFrame, nullptr, Threads, Ids, Memory, NoData

LEMMA TypeStep == TypeOK /\ [Next]_vars => TypeOK'
<1> SUFFICES ASSUME TypeOK, [Next]_vars  PROVE TypeOK'
  OBVIOUS
<1> USE SlotsFacts DEF TypeOK, ring
<1>1. ASSUME NEW p \in Producers, PushDrop(p)  PROVE TypeOK'
  BY <1>1 DEF PushDrop, ring
<1>2. ASSUME NEW p \in Producers, PushAdmit(p)  PROVE TypeOK'
  <2>1. captured' \in 1 .. MaxFrames
    BY <1>2 DEF PushAdmit
  <2>2. PICK n \in Sizes :
          arg' = [arg EXCEPT ![p] = [size |-> n, timestamp |-> captured']]
    BY <1>2 DEF PushAdmit
  <2>3. arg' \in [Producers -> [size : Sizes \cup {0}, timestamp : Ids \cup {0}]]
    BY <2>1, <2>2 DEF Ids
  <2>4. pc' = [pc EXCEPT ![p] = "lock"]
    BY <1>2 DEF PushAdmit, Goto
  <2>5. UNCHANGED <<frameBuffer, head, tail, buffer_size, bufferMutex, heap,
                    ret, lead>>
    BY <1>2 DEF PushAdmit
  <2>6. captured' \in 0 .. MaxFrames
    BY <2>1
  <2> QED  BY <2>3, <2>4, <2>5, <2>6
<1>3. ASSUME NEW p \in Producers, PushLock(p)  PROVE TypeOK'
  BY <1>3 DEF PushLock, ring, Goto, Acquire, Threads
<1>4. ASSUME NEW p \in Producers, PushAlloc(p)  PROVE TypeOK'
  <2>1. /\ frameBuffer' \in [Slots -> Slot]
        /\ heap' \in [Ids -> Memory]
    <3>1. CASE NeedsBlock(tail, arg[p].size)
      <4> DEFINE b == arg[p].timestamp
                 h == Freed(frameBuffer[tail].dataPtr, heap)
      <4>1. b \in Ids \cup {0} /\ arg[p].size \in Sizes \cup {0}
        OBVIOUS
      <4>2. h \in [Ids -> Memory]
        BY FreedTyped
      <4>3. /\ heap' = [h EXCEPT ![b] = [live |-> TRUE, cap |-> arg[p].size,
                                         data |-> NoData]]
            /\ frameBuffer' = [frameBuffer EXCEPT ![tail].dataPtr = b]
        BY <1>4, <3>1 DEF PushAlloc
      <4>4. frameBuffer' \in [Slots -> Slot]
        <5>1. [frameBuffer[tail] EXCEPT !.dataPtr = b] \in Slot
          BY <4>1, SlotTyped
        <5>2. frameBuffer' = [frameBuffer EXCEPT ![tail] =
                                [frameBuffer[tail] EXCEPT !.dataPtr = b]]
          BY <4>3
        <5> QED  BY <5>1, <5>2, UpdateTyped
      <4>5. [live |-> TRUE, cap |-> arg[p].size, data |-> NoData] \in Memory
        BY <4>1 DEF Memory
      <4> QED
        <5> HIDE DEF b, h
        <5> QED  BY <4>2, <4>3, <4>4, <4>5
    <3>2. CASE ~NeedsBlock(tail, arg[p].size)
      BY <1>4, <3>2 DEF PushAlloc
    <3> QED  BY <3>1, <3>2
  <2>2. lead' \in [Consumers -> Int]
    BY <1>4 DEF PushAlloc
  <2>3. UNCHANGED <<head, tail, buffer_size, bufferMutex, arg, ret, captured>>
    BY <1>4 DEF PushAlloc
  <2>4. pc' = [pc EXCEPT ![p] = "copy"]
    BY <1>4 DEF PushAlloc, Goto
  <2> QED  BY <2>1, <2>2, <2>3, <2>4
<1>5. ASSUME NEW p \in Producers, PushCopy(p)  PROVE TypeOK'
  <2> DEFINE b == frameBuffer[tail].dataPtr
             stored == [x \in Offsets |-> IF x < arg[p].size THEN arg[p].timestamp
                                                            ELSE heap[b].data[x]]
  <2>1. heap' = [heap EXCEPT ![b].data = stored]
    <3>1. heap' = [heap EXCEPT ![b].data =
                     [x \in Offsets |-> IF x < arg[p].size THEN arg[p].timestamp
                                                          ELSE @[x]]]
      BY <1>5 DEF PushCopy
    <3>2. CASE b \in Ids
      BY <3>1, <3>2
    <3>3. CASE b \notin Ids
      BY <3>1, <3>3
    <3> QED  BY <3>2, <3>3
  <2>2. b \in Ids => stored \in [Offsets -> Ids \cup {0}]
    BY DEF Memory
  <2>3. heap' \in [Ids -> Memory]
    <3> HIDE DEF b, stored
    <3>1. CASE b \in Ids
      <4>1. [heap[b] EXCEPT !.data = stored] \in Memory
        BY <2>2, <3>1, BlockTyped
      <4>2. heap' = [heap EXCEPT ![b] = [heap[b] EXCEPT !.data = stored]]
        BY <2>1, <3>1
      <4> QED  BY <4>1, <4>2, UpdateTyped
    <3>2. CASE b \notin Ids
      BY <2>1, <3>2
    <3> QED  BY <3>1, <3>2
  <2> QED  BY <1>5, <2>3 DEF PushCopy, Goto
<1>6. ASSUME NEW p \in Producers, PushCommit(p)  PROVE TypeOK'
  <2>1. frameBuffer' \in [Slots -> Slot]
    BY <1>6 DEF PushCommit, Slot
  <2>2. tail' \in Slots /\ buffer_size' \in Nat
    BY <1>6 DEF PushCommit
  <2> QED  BY <1>6, <2>1, <2>2 DEF PushCommit, Goto, Unlock
<1>7. ASSUME NEW c \in Consumers, StartPolling(c) \/ PollEmpty(c)  PROVE TypeOK'
  BY <1>7 DEF StartPolling, PollEmpty, Goto
<1>8. ASSUME NEW c \in Consumers, PollFrame(c)  PROVE TypeOK'
  BY <1>8 DEF PollFrame, Goto
<1>9. ASSUME NEW c \in Consumers, PopLock(c)  PROVE TypeOK'
  BY <1>9 DEF PopLock, Goto, Acquire, Threads
<1>10. ASSUME NEW c \in Consumers, PopMiss(c)  PROVE TypeOK'
  <2>1. ret' \in [Consumers -> Slot]
    BY <1>10 DEF PopMiss, Slot, NullFrame, nullptr
  <2>2. lead' \in [Consumers -> Int]
    BY <1>10 DEF PopMiss
  <2> QED  BY <1>10, <2>1, <2>2 DEF PopMiss, Goto, Unlock
<1>11. ASSUME NEW c \in Consumers, PopTake(c)  PROVE TypeOK'
  <2>1. ret' \in [Consumers -> Slot]
    BY <1>11 DEF PopTake
  <2>2. lead' \in [Consumers -> Int]
    BY <1>11 DEF PopTake
  <2>3. head' \in Slots /\ buffer_size' \in Nat
    BY <1>11 DEF PopTake, isEmptyBuffer
  <2>4. \E l \in {"hold", "poll"} : pc' = [pc EXCEPT ![c] = l]
    BY <1>11 DEF PopTake, Goto
  <2> QED  BY <1>11, <2>1, <2>2, <2>3, <2>4 DEF PopTake, Unlock
<1>12. ASSUME NEW c \in Consumers, Release(c)  PROVE TypeOK'
  BY <1>12 DEF Release, Goto
<1>13. CASE UNCHANGED vars
  BY <1>13 DEF vars
<1> QED
  BY <1>1, <1>2, <1>3, <1>4, <1>5, <1>6, <1>7, <1>8, <1>9, <1>10, <1>11,
     <1>12, <1>13, NextCases

(* Every variable has its type, in every reachable state. *)
THEOREM TypeCorrect == Spec => []TypeOK
BY TypeInit, TypeStep, PTL DEF Spec

-----------------------------------------------------------------------------
(* The mutex.                                                              *)

LEMMA LockInit == Init => LockHeldByCaller
BY ConstantsOK DEF Init, LockHeldByCaller, Storing, Taking, Threads

LEMMA LockStep ==
  ASSUME TypeOK, LockHeldByCaller, [Next]_vars
  PROVE  LockHeldByCaller'
<1> USE ConstantsOK DEF LockHeldByCaller, Storing, Taking, Threads
<1> pc \in [Threads -> {"idle", "lock", "alloc", "copy", "commit",
                        "away", "poll", "take", "hold"}]
  BY DEF TypeOK
<1>1. ASSUME NEW p \in Producers, PushDrop(p)  PROVE LockHeldByCaller'
  BY <1>1 DEF PushDrop
<1>2. ASSUME NEW p \in Producers, PushAdmit(p)  PROVE LockHeldByCaller'
  BY <1>2 DEF PushAdmit, Goto
<1>3. ASSUME NEW p \in Producers, PushLock(p)  PROVE LockHeldByCaller'
  BY <1>3 DEF PushLock, Acquire, Goto
<1>4. ASSUME NEW p \in Producers, PushAlloc(p)  PROVE LockHeldByCaller'
  BY <1>4 DEF PushAlloc, Goto
<1>5. ASSUME NEW p \in Producers, PushCopy(p)  PROVE LockHeldByCaller'
  BY <1>5 DEF PushCopy, Goto
<1>6. ASSUME NEW p \in Producers, PushCommit(p)  PROVE LockHeldByCaller'
  BY <1>6 DEF PushCommit, Unlock, Goto
<1>7. ASSUME NEW c \in Consumers, StartPolling(c) \/ PollEmpty(c)
      PROVE  LockHeldByCaller'
  BY <1>7 DEF StartPolling, PollEmpty, Goto
<1>8. ASSUME NEW c \in Consumers, PollFrame(c)  PROVE LockHeldByCaller'
  BY <1>8 DEF PollFrame, Goto
<1>9. ASSUME NEW c \in Consumers, PopLock(c)  PROVE LockHeldByCaller'
  BY <1>9 DEF PopLock, Acquire, Goto
<1>10. ASSUME NEW c \in Consumers, PopMiss(c)  PROVE LockHeldByCaller'
  BY <1>10 DEF PopMiss, Unlock, Goto
<1>11. ASSUME NEW c \in Consumers, PopTake(c)  PROVE LockHeldByCaller'
  BY <1>11 DEF PopTake, Unlock, Goto
<1>12. ASSUME NEW c \in Consumers, Release(c)  PROVE LockHeldByCaller'
  BY <1>12 DEF Release, Goto
<1>13. CASE UNCHANGED vars
  BY <1>13 DEF vars
<1> QED
  BY <1>1, <1>2, <1>3, <1>4, <1>5, <1>6, <1>7, <1>8, <1>9, <1>10, <1>11,
     <1>12, <1>13, NextCases

(* lock() and unlock() are paired on every path of pushFrame and popFrame. *)
THEOREM MutualExclusion == Spec => []LockHeldByCaller
BY TypeCorrect, LockInit, LockStep, PTL DEF Spec

(* Only one thread is between lock() and unlock(). *)
LEMMA AloneInside ==
  ASSUME LockHeldByCaller, NEW t \in Storing \cup Taking,
         NEW u \in Storing \cup Taking
  PROVE  t = u
BY DEF LockHeldByCaller, Storing, Taking, Threads

-----------------------------------------------------------------------------
(* The indices.                                                            *)

LEMMA RingInit == Init => RingCoherent
BY ConstantsOK DEF Init, RingCoherent

LEMMA RingStep ==
  ASSUME TypeOK, RingCoherent, [Next]_vars
  PROVE  RingCoherent'
<1> USE ConstantsOK DEF RingCoherent, ring
<1>0. head \in Nat /\ tail \in Nat /\ buffer_size \in Nat
  BY DEF TypeOK, Slots
<1>1. ASSUME NEW p \in Producers, PushCommit(p)  PROVE RingCoherent'
  <2>1. tail' = (((head + buffer_size) % buffer_max_size) + 1) % buffer_max_size
    BY <1>1 DEF PushCommit, NextSlot
  <2>2. tail' = (head + buffer_size + 1) % buffer_max_size
    <3>1. head + buffer_size \in Int  BY <1>0
    <3> QED  BY <2>1, <3>1, ModPlus
  <2> QED  BY <1>0, <1>1, <2>2 DEF PushCommit
<1>2. ASSUME NEW c \in Consumers, PopTake(c)  PROVE RingCoherent'
  <2>1. head' = (head + 1) % buffer_max_size /\ buffer_size' = buffer_size - 1
    BY <1>2 DEF PopTake, NextSlot
  <2>2. (head' + buffer_size') % buffer_max_size
          = ((head + 1) + (buffer_size - 1)) % buffer_max_size
    <3>1. head + 1 \in Int /\ buffer_size - 1 \in Int  BY <1>0
    <3> QED  BY <2>1, <3>1, ModPlus
  <2> QED  BY <1>0, <1>2, <2>2 DEF PopTake
<1>3. ASSUME UNCHANGED <<head, tail, buffer_size>>  PROVE RingCoherent'
  BY <1>3
<1> QED
  BY <1>1, <1>2, <1>3, NextCases
  DEF PushDrop, PushAdmit, PushLock, PushAlloc, PushCopy, StartPolling,
      PollEmpty, PollFrame, PopLock, PopMiss, Release, vars

(* The indices and the count agree, however many producers overfill it. *)
THEOREM IndicesAgree == Spec => []RingCoherent
BY TypeCorrect, RingInit, RingStep, PTL DEF Spec

-----------------------------------------------------------------------------
(* The memory.  The blocks of the slots are the live ones, each as large   *)
(* as the frame its slot held last, and a block that is about to be        *)
(* allocated is none of them.                                              *)

Block(s) == frameBuffer[s].dataPtr

BlocksFit ==
  \A s \in Slots :
    IF Block(s) = nullptr THEN frameBuffer[s].size = 0
                          ELSE frameBuffer[s].size <= heap[Block(s)].cap

LiveAreOld == \A b \in Ids : heap[b].live => b <= captured

Waiting == {p \in Producers : pc[p] \in {"lock", "alloc"}}
Writing == {p \in Producers : pc[p] \in {"copy", "commit"}}

FreshBlocks ==
  /\ \A p \in Waiting :
       arg[p].timestamp \in 1 .. captured /\ ~heap[arg[p].timestamp].live
  /\ \A p, q \in Waiting : arg[p].timestamp = arg[q].timestamp => p = q

RoomMade ==
  \A p \in Writing :
    /\ Block(tail) # nullptr
    /\ arg[p].size <= heap[Block(tail)].cap

HeapInv == HeapOwned /\ BlocksFit /\ LiveAreOld /\ FreshBlocks /\ RoomMade

(* The contents.  A slot that has a block holds the frame that was stored  *)
(* there last, but for the slot at tail while it is written.               *)
BeingWritten(s) == s = tail /\ Writing # {}

SlotsHold ==
  \A s \in Slots :
    Block(s) # nullptr /\ ~BeingWritten(s) => Intact(frameBuffer[s])

Copied ==
  \A p \in Producers : pc[p] = "commit" =>
    \A x \in Offsets :
      heap[Block(tail)].data[x] = arg[p].timestamp <=> x < arg[p].size

QueuedWritten == \A i \in 0 .. buffer_size - 1 : Block(SlotAt(i)) # nullptr

(* No byte of a frame that is not copied yet is anywhere: its timestamp is *)
(* newer than all that the memory holds.                                   *)
Uncopied == {p \in Producers : pc[p] \in {"lock", "alloc", "copy"}}

StampsNew ==
  /\ \A b \in Ids : \A x \in Offsets : heap[b].data[x] \in 0 .. captured
  /\ \A p \in Uncopied :
       /\ arg[p].timestamp \in 1 .. captured
       /\ \A b \in Ids : \A x \in Offsets : heap[b].data[x] # arg[p].timestamp
  /\ \A p, q \in Uncopied : arg[p].timestamp = arg[q].timestamp => p = q

SlotsInv == SlotsHold /\ Copied /\ QueuedWritten

(* A frame that was taken is still in its slot, lead pushes ahead of tail. *)
Ahead(c) == IF Writing = {} THEN lead[c] - 1 ELSE lead[c]

LapInv ==
  \A c \in Holding :
    lead[c] > 0 =>
      /\ Ahead(c) \in 0 .. buffer_max_size - 1
      /\ ret[c] = frameBuffer[(tail + Ahead(c)) % buffer_max_size]
      /\ ret[c].dataPtr # nullptr

LEMMA HeapInit == Init => HeapInv
BY ConstantsOK
DEF Init, HeapInv, HeapOwned, BlocksFit, LiveAreOld, FreshBlocks, RoomMade,
    Waiting, Writing, Block, NullFrame, nullptr, Slots, Ids, Threads

(* A step of a stream thread touches neither the memory nor what the       *)
(* producers are at.                                                       *)
LEMMA ConsumerLeaves ==
  ASSUME TypeOK, NEW c \in Consumers,
         StartPolling(c) \/ PollEmpty(c) \/ PollFrame(c) \/ PopLock(c) \/ PopMiss(c)
           \/ PopTake(c) \/ Release(c)
  PROVE  /\ UNCHANGED <<frameBuffer, tail, heap, arg, captured>>
         /\ \A p \in Producers : pc'[p] = pc[p]
         /\ Waiting' = Waiting /\ Writing' = Writing
<1>1. UNCHANGED <<frameBuffer, tail, heap, arg, captured>>
  BY DEF StartPolling, PollEmpty, PollFrame, PopLock, PopMiss, PopTake, Release, vars, ring
<1>2. pc' = pc \/ \E l \in {"away", "lock", "take", "poll", "hold"} :
                   pc' = [pc EXCEPT ![c] = l]
  BY DEF StartPolling, PollEmpty, PollFrame, PopLock, PopMiss, PopTake, Release, vars, Goto
<1>3. \A p \in Producers : pc'[p] = pc[p]
  BY <1>2, ConstantsOK DEF TypeOK, Threads
<1> QED  BY <1>1, <1>3 DEF Waiting, Writing

(* What the types say of the fields.                                       *)
LEMMA TypeFacts ==
  ASSUME TypeOK
  PROVE  /\ head \in Slots /\ tail \in Slots
         /\ buffer_size \in Nat /\ captured \in Nat /\ captured <= MaxFrames
         /\ \A s \in Slots : /\ Block(s) \in Ids \cup {nullptr}
                            /\ frameBuffer[s].size \in Nat
         /\ \A b \in Ids : heap[b].live \in BOOLEAN /\ heap[b].cap \in Nat
         /\ \A p \in Producers : /\ arg[p].size \in Nat
                                /\ arg[p].timestamp \in Nat
         /\ Ids \subseteq Nat /\ nullptr \notin Ids
<1> USE ConstantsOK
<1>1. Sizes \cup {0} \subseteq Nat /\ Ids \cup {0} \subseteq Nat
  BY DEF Ids
<1>2. \A s \in Slots : frameBuffer[s] \in Slot
  BY DEF TypeOK
<1>3. \A s \in Slots : Block(s) \in Ids \cup {nullptr} /\ frameBuffer[s].size \in Nat
  BY <1>1, <1>2 DEF Slot, Block
<1>4. \A b \in Ids : heap[b] \in Memory
  BY DEF TypeOK
<1>5. \A b \in Ids : heap[b].live \in BOOLEAN /\ heap[b].cap \in Nat
  BY <1>1, <1>4 DEF Memory
<1>6. \A p \in Producers :
        arg[p] \in [size : Sizes \cup {0}, timestamp : Ids \cup {0}]
  BY DEF TypeOK
<1>7. \A p \in Producers : arg[p].size \in Nat /\ arg[p].timestamp \in Nat
  BY <1>1, <1>6
<1>8. nullptr \notin Ids
  BY DEF Ids, nullptr
<1> QED  BY <1>1, <1>3, <1>5, <1>7, <1>8 DEF TypeOK

(* The names of the blocks to be allocated.                                *)
LEMMA WaitingIds ==
  ASSUME TypeOK, HeapInv
  PROVE  \A q \in Waiting : arg[q].timestamp \in Ids
BY TypeFacts, ConstantsOK DEF HeapInv, FreshBlocks, Ids

(* The producer that holds the mutex is the only one that writes.          *)
LEMMA WriterAlone ==
  ASSUME LockHeldByCaller, NEW p \in Storing, NEW q \in Storing
  PROVE  p = q
BY AloneInside

(* What memcpy makes of the memory. *)
LEMMA CopyData ==
  ASSUME TypeOK, NEW p \in Producers, PushCopy(p)
  PROVE  /\ UNCHANGED <<frameBuffer, head, tail, buffer_size, arg, ret, captured>>
         /\ pc[p] = "copy" /\ pc' = [pc EXCEPT ![p] = "commit"]
         /\ \E d : heap' = [heap EXCEPT ![Block(tail)].data = d]
         /\ \A b \in Ids \ {Block(tail)} : heap'[b] = heap[b]
         /\ \A b \in Ids : heap'[b].live = heap[b].live /\ heap'[b].cap = heap[b].cap
         /\ Block(tail) \in Ids =>
              \A x \in Offsets : heap'[Block(tail)].data[x] =
                IF x < arg[p].size THEN arg[p].timestamp
                                   ELSE heap[Block(tail)].data[x]
<1> DEFINE stored == [x \in Offsets |-> IF x < arg[p].size THEN arg[p].timestamp
                                                          ELSE heap[Block(tail)].data[x]]
<1>1. /\ UNCHANGED <<frameBuffer, head, tail, buffer_size, arg, ret, captured>>
      /\ pc[p] = "copy" /\ pc' = [pc EXCEPT ![p] = "commit"]
      /\ heap' = [heap EXCEPT ![Block(tail)].data =
                    [x \in Offsets |-> IF x < arg[p].size THEN arg[p].timestamp
                                                         ELSE @[x]]]
  BY DEF PushCopy, ring, Goto, Block
<1>2. heap \in [Ids -> Memory]
  BY DEF TypeOK
<1>3. heap' = [heap EXCEPT ![Block(tail)].data = stored]
  BY <1>1, <1>2
<1>4. \A x \in Offsets : stored[x] = IF x < arg[p].size THEN arg[p].timestamp
                                                       ELSE heap[Block(tail)].data[x]
  OBVIOUS
<1> HIDE DEF stored
<1>5. Block(tail) \in Ids => heap'[Block(tail)].data = stored
  BY <1>2, <1>3 DEF Memory
<1>6. /\ \A b \in Ids \ {Block(tail)} : heap'[b] = heap[b]
      /\ \A b \in Ids : heap'[b].live = heap[b].live /\ heap'[b].cap = heap[b].cap
  BY <1>2, <1>3 DEF Memory
<1>7. \E d : heap' = [heap EXCEPT ![Block(tail)].data = d]
  BY <1>3
<1>8. Block(tail) \in Ids =>
        \A x \in Offsets : heap'[Block(tail)].data[x] =
          IF x < arg[p].size THEN arg[p].timestamp ELSE heap[Block(tail)].data[x]
  BY <1>4, <1>5
<1> QED  BY <1>1, <1>6, <1>7, <1>8

LEMMA HeapAlloc ==
  ASSUME TypeOK, LockHeldByCaller, HeapInv, NEW p \in Producers, PushAlloc(p)
  PROVE  HeapInv'
<1> DEFINE b == arg[p].timestamp
           n == arg[p].size
           old == Block(tail)
<1> USE ConstantsOK, SlotsFacts
<1>1. /\ p \in Waiting /\ p \in Storing /\ Writing = {}
      /\ Waiting' = Waiting \ {p} /\ Writing' = {p}
      /\ UNCHANGED <<tail, arg, captured>>
  <2>1. pc[p] = "alloc" /\ pc' = [pc EXCEPT ![p] = "copy"]
    BY DEF PushAlloc, Goto
  <2>2. pc \in [Threads -> {"idle", "lock", "alloc", "copy", "commit",
                            "away", "poll", "take", "hold"}]
    BY DEF TypeOK
  <2>3. Writing = {}
    BY <2>1, WriterAlone DEF Writing, Storing
  <2>4. Waiting' = Waiting \ {p} /\ Writing' = {p}
    BY <2>1, <2>2, <2>3 DEF Waiting, Writing, Threads
  <2> QED  BY <2>1, <2>3, <2>4 DEF Waiting, Storing, PushAlloc
<1>2. /\ b \in Ids /\ ~heap[b].live /\ b <= captured /\ b \in 1 .. captured
      /\ n \in Nat /\ tail \in Slots /\ old \in Ids \cup {nullptr}
      /\ nullptr \notin Ids
  <2>1. b \in 1 .. captured /\ ~heap[b].live
    BY <1>1 DEF HeapInv, FreshBlocks
  <2>2. b \in Ids /\ b <= captured
    BY <2>1, TypeFacts DEF Ids
  <2> QED  BY <2>1, <2>2, TypeFacts
<1>3. CASE NeedsBlock(tail, n)
  <2>1. /\ heap' = [Freed(old, heap) EXCEPT ![b] = [live |-> TRUE, cap |-> n, data |-> NoData]]
        /\ frameBuffer' = [frameBuffer EXCEPT ![tail].dataPtr = b]
    BY <1>3 DEF PushAlloc, Block
  <2>2. \A s \in Slots :
          /\ Block(s)' = IF s = tail THEN b ELSE Block(s)
          /\ frameBuffer'[s].size = frameBuffer[s].size
    BY <1>2, <2>1 DEF TypeOK, Block, Slot
  <2>3. \A d \in Ids :
          /\ heap'[d].live <=> (d = b \/ (heap[d].live /\ d # old))
          /\ heap'[d].cap = IF d = b THEN n ELSE heap[d].cap
    <3> DEFINE h == Freed(old, heap)
    <3>1. h \in [Ids -> Memory]
      BY FreedTyped DEF TypeOK
    <3>2. \A d \in Ids : /\ h[d].live <=> (heap[d].live /\ d # old)
                         /\ h[d].cap = heap[d].cap
      BY <1>2 DEF Freed, TypeOK, Memory
    <3> HIDE DEF h
    <3>3. heap' = [h EXCEPT ![b] = [live |-> TRUE, cap |-> n, data |-> NoData]]
      BY <2>1 DEF h
    <3> QED  BY <1>2, <3>1, <3>2, <3>3
  <2>4. HeapOwned'
    BY <1>1, <1>2, <2>2, <2>3, TypeFacts DEF HeapInv, HeapOwned, Block
  <2>5. BlocksFit'
    <3>1. frameBuffer[tail].size <= n
      BY <1>2, <1>3, TypeFacts DEF NeedsBlock, HeapInv, BlocksFit, Block
    <3>2. \A s \in Slots : Block(s) # b
      BY <1>2 DEF HeapInv, HeapOwned, Block
    <3> QED
      BY <1>1, <1>2, <2>2, <2>3, <3>1, <3>2, TypeFacts DEF HeapInv, BlocksFit
  <2>6. LiveAreOld'
    BY <1>1, <1>2, <2>3 DEF HeapInv, LiveAreOld
  <2>7. FreshBlocks'
    BY <1>1, <1>2, <2>3, WaitingIds DEF HeapInv, FreshBlocks
  <2>8. RoomMade'
    BY <1>1, <1>2, <2>2, <2>3 DEF RoomMade
  <2> QED  BY <2>4, <2>5, <2>6, <2>7, <2>8 DEF HeapInv
<1>4. CASE ~NeedsBlock(tail, n)
  <2>1. UNCHANGED <<heap, frameBuffer>>
    BY <1>4 DEF PushAlloc
  <2>2. old # nullptr /\ frameBuffer[tail].size >= n
    BY <1>2, <1>4, TypeFacts DEF NeedsBlock, Block
  <2>3. n <= heap[old].cap
    BY <1>2, <2>2, TypeFacts DEF HeapInv, BlocksFit
  <2> QED
    BY <1>1, <2>1, <2>2, <2>3
    DEF HeapInv, HeapOwned, BlocksFit, LiveAreOld, FreshBlocks, RoomMade, Block
<1> QED  BY <1>3, <1>4

LEMMA HeapStep ==
  ASSUME TypeOK, LockHeldByCaller, HeapInv, [Next]_vars
  PROVE  HeapInv'
<1> USE TypeFacts
<1>0. pc \in [Threads -> {"idle", "lock", "alloc", "copy", "commit",
                          "away", "poll", "take", "hold"}]
  BY DEF TypeOK
<1>1. ASSUME NEW p \in Producers, PushDrop(p)  PROVE HeapInv'
  <2>1. /\ UNCHANGED <<frameBuffer, tail, heap, arg, pc>>
        /\ captured' = captured + 1
    BY <1>1 DEF PushDrop, ring
  <2>2. Waiting' = Waiting /\ Writing' = Writing
    BY <2>1 DEF Waiting, Writing
  <2> QED
    BY <2>1, <2>2
    DEF HeapInv, HeapOwned, BlocksFit, LiveAreOld, FreshBlocks, RoomMade, Block
<1>2. ASSUME NEW p \in Producers, PushAdmit(p)  PROVE HeapInv'
  <2>1. /\ UNCHANGED <<frameBuffer, tail, heap>>
        /\ captured' = captured + 1
        /\ pc[p] = "idle" /\ pc' = [pc EXCEPT ![p] = "lock"]
    BY <1>2 DEF PushAdmit, ring, Goto
  <2>0. captured + 1 \in Ids
    BY <1>2, ConstantsOK DEF PushAdmit, Ids
  <2>2. /\ arg'[p].timestamp = captured + 1
        /\ \A q \in Producers \ {p} : arg'[q] = arg[q]
    BY <1>2 DEF PushAdmit, TypeOK
  <2>3. Waiting' = Waiting \cup {p} /\ p \notin Waiting
        /\ Writing' = Writing /\ p \notin Writing
    BY <1>0, <2>1 DEF Waiting, Writing, Threads
  <2>4. ~heap[captured + 1].live
    BY <2>0 DEF HeapInv, LiveAreOld
  <2>5. FreshBlocks'
    BY <2>1, <2>2, <2>3, <2>4 DEF HeapInv, FreshBlocks, Waiting
  <2>6. RoomMade'
    BY <2>1, <2>2, <2>3 DEF HeapInv, RoomMade, Writing, Block
  <2> QED
    BY <2>1, <2>5, <2>6 DEF HeapInv, HeapOwned, BlocksFit, LiveAreOld, Block
<1>3. ASSUME NEW p \in Producers, PushLock(p)  PROVE HeapInv'
  <2>1. /\ UNCHANGED <<frameBuffer, tail, heap, arg, captured>>
        /\ pc[p] = "lock" /\ pc' = [pc EXCEPT ![p] = "alloc"]
    BY <1>3 DEF PushLock, ring, Goto
  <2>2. Waiting' = Waiting /\ Writing' = Writing
    BY <1>0, <2>1 DEF Waiting, Writing, Threads
  <2> QED
    BY <2>1, <2>2
    DEF HeapInv, HeapOwned, BlocksFit, LiveAreOld, FreshBlocks, RoomMade, Block
<1>4. ASSUME NEW p \in Producers, PushAlloc(p)  PROVE HeapInv'
  BY <1>4, HeapAlloc
<1>5. ASSUME NEW p \in Producers, PushCopy(p)  PROVE HeapInv'
  <2>1. /\ UNCHANGED <<frameBuffer, tail, arg, captured>>
        /\ pc[p] = "copy" /\ pc' = [pc EXCEPT ![p] = "commit"]
        /\ \E d : heap' = [heap EXCEPT ![Block(tail)].data = d]
    BY <1>5, CopyData
  <2>2. Waiting' = Waiting /\ Writing' = Writing
    BY <1>0, <2>1 DEF Waiting, Writing, Threads
  <2>3. \A b \in Ids : heap'[b].live = heap[b].live /\ heap'[b].cap = heap[b].cap
    BY <1>5, CopyData
  <2>4. FreshBlocks'
    BY <2>1, <2>2, <2>3, WaitingIds DEF HeapInv, FreshBlocks
  <2> QED
    BY <2>1, <2>2, <2>3, <2>4
    DEF HeapInv, HeapOwned, BlocksFit, LiveAreOld, RoomMade, Block
<1>6. ASSUME NEW p \in Producers, PushCommit(p)  PROVE HeapInv'
  <2>1. /\ UNCHANGED <<heap, arg, captured>>
        /\ pc[p] = "commit" /\ pc' = [pc EXCEPT ![p] = "idle"]
    BY <1>6 DEF PushCommit, Goto
  <2>2. \A s \in Slots :
          /\ Block(s)' = Block(s)
          /\ frameBuffer'[s].size =
               IF s = tail THEN arg[p].size ELSE frameBuffer[s].size
    BY <1>6 DEF PushCommit, Block, TypeOK, Slot
  <2>3. Waiting' = Waiting /\ Writing' = {}
    <3>1. \A q \in Writing : q = p
      BY <2>1, WriterAlone DEF Writing, Storing
    <3> QED  BY <1>0, <2>1, <3>1 DEF Waiting, Writing, Threads
  <2>4. Block(tail) # nullptr /\ arg[p].size <= heap[Block(tail)].cap
    BY <2>1 DEF HeapInv, RoomMade, Writing
  <2>5. BlocksFit'
    BY <2>1, <2>2, <2>4 DEF HeapInv, BlocksFit
  <2>6. HeapOwned'
    BY <2>1, <2>2 DEF HeapInv, HeapOwned, Block
  <2> QED
    BY <2>1, <2>3, <2>5, <2>6 DEF HeapInv, LiveAreOld, FreshBlocks, RoomMade
<1>7. ASSUME NEW c \in Consumers,
             StartPolling(c) \/ PollEmpty(c) \/ PollFrame(c) \/ PopLock(c) \/ PopMiss(c)
               \/ PopTake(c) \/ Release(c)
      PROVE  HeapInv'
  BY <1>7, ConsumerLeaves
  DEF HeapInv, HeapOwned, BlocksFit, LiveAreOld, FreshBlocks, RoomMade, Block
<1>8. CASE UNCHANGED vars
  BY <1>8
  DEF vars, HeapInv, HeapOwned, BlocksFit, LiveAreOld, FreshBlocks, RoomMade,
      Block, Waiting, Writing
<1> QED
  BY <1>1, <1>2, <1>3, <1>4, <1>5, <1>6, <1>7, <1>8, NextCases

LEMMA HeapAlways == Spec => []HeapInv
BY TypeCorrect, MutualExclusion, HeapInit, HeapStep, PTL DEF Spec

(* The reallocations leak nothing and leave no slot with a freed block. *)
THEOREM MemoryOwned == Spec => []HeapOwned
<1>1. HeapInv => HeapOwned
  BY DEF HeapInv
<1> QED  BY <1>1, HeapAlways, PTL

(* memcpy stays within the block of the slot, after any sequence of frame  *)
(* sizes and with any number of producers.                                 *)
THEOREM CopiesFit == Spec => []NoOverrun
<1>1. TypeOK /\ HeapInv => NoOverrun
  <2> SUFFICES ASSUME TypeOK, HeapInv, NEW p \in Producers, pc[p] = "copy"
               PROVE  /\ Block(tail) # nullptr /\ heap[Block(tail)].live
                      /\ arg[p].size <= heap[Block(tail)].cap
    BY DEF NoOverrun, Block
  <2>1. /\ Block(tail) # nullptr /\ arg[p].size <= heap[Block(tail)].cap
    BY DEF HeapInv, RoomMade, Writing
  <2>2. heap[Block(tail)].live
    BY <2>1, TypeFacts DEF HeapInv, HeapOwned, Block
  <2> QED  BY <2>1, <2>2
<1> QED  BY <1>1, TypeCorrect, HeapAlways, PTL

-----------------------------------------------------------------------------
(* The bytes.                                                              *)

LEMMA StampsInit == Init => StampsNew
BY ConstantsOK DEF Init, StampsNew, Uncopied, NoData, Threads

LEMMA StampsStep ==
  ASSUME TypeOK, HeapInv, StampsNew, [Next]_vars
  PROVE  StampsNew'
<1> USE TypeFacts
<1>0. pc \in [Threads -> {"idle", "lock", "alloc", "copy", "commit",
                          "away", "poll", "take", "hold"}]
  BY DEF TypeOK
<1>1. ASSUME UNCHANGED <<heap, arg>>, captured <= captured', captured' \in Nat,
             Uncopied' \subseteq Uncopied
      PROVE  StampsNew'
  BY <1>1 DEF StampsNew
<1>2. ASSUME NEW p \in Producers, PushDrop(p)  PROVE StampsNew'
  BY <1>1, <1>2 DEF PushDrop, Uncopied
<1>3. ASSUME NEW p \in Producers, PushAdmit(p)  PROVE StampsNew'
  <2>1. UNCHANGED heap /\ captured' = captured + 1
    BY <1>3 DEF PushAdmit
  <2>2. /\ arg'[p].timestamp = captured + 1
        /\ \A q \in Producers \ {p} : arg'[q] = arg[q]
    BY <1>3 DEF PushAdmit, TypeOK
  <2>3. Uncopied' = Uncopied \cup {p} /\ p \notin Uncopied
    BY <1>0, <1>3 DEF PushAdmit, Goto, Uncopied, Threads
  <2>4. \A b \in Ids : \A x \in Offsets :
          /\ heap[b].data[x] \in 0 .. captured + 1
          /\ heap[b].data[x] # captured + 1
    BY DEF StampsNew
  <2>5. \A q \in Uncopied : /\ arg'[q] = arg[q]
                            /\ arg[q].timestamp \in 1 .. captured + 1
                            /\ arg[q].timestamp # captured + 1
    BY <2>2, <2>3 DEF StampsNew, Uncopied
  <2> QED  BY <2>1, <2>2, <2>3, <2>4, <2>5 DEF StampsNew
<1>4. ASSUME NEW p \in Producers, PushLock(p) \/ PushCommit(p)  PROVE StampsNew'
  <2>1. UNCHANGED <<heap, arg, captured>>
    BY <1>4 DEF PushLock, PushCommit
  <2>2. Uncopied' \subseteq Uncopied
    BY <1>0, <1>4 DEF PushLock, PushCommit, Goto, Uncopied, Threads
  <2> QED  BY <1>1, <2>1, <2>2
<1>5. ASSUME NEW p \in Producers, PushAlloc(p)  PROVE StampsNew'
  <2>1. UNCHANGED <<arg, captured>>
    BY <1>5 DEF PushAlloc
  <2>2. Uncopied' \subseteq Uncopied
    BY <1>0, <1>5 DEF PushAlloc, Goto, Uncopied, Threads
  <2>3. ASSUME NEW b \in Ids, NEW x \in Offsets
        PROVE  heap'[b].data[x] = heap[b].data[x] \/ heap'[b].data[x] = 0
    <3>1. CASE NeedsBlock(tail, arg[p].size)
      <4>1. heap' = [Freed(Block(tail), heap) EXCEPT
                       ![arg[p].timestamp] = [live |-> TRUE, cap |-> arg[p].size,
                                              data |-> NoData]]
        BY <1>5, <3>1 DEF PushAlloc, Block
      <4>2. heap'[b].data = heap[b].data \/ heap'[b].data = NoData
        BY <4>1 DEF Freed, TypeOK, Memory
      <4> QED  BY <4>2 DEF NoData
    <3>2. CASE ~NeedsBlock(tail, arg[p].size)
      BY <1>5, <3>2 DEF PushAlloc
    <3> QED  BY <3>1, <3>2
  <2> QED  BY <2>1, <2>2, <2>3 DEF StampsNew
<1>6. ASSUME NEW p \in Producers, PushCopy(p)  PROVE StampsNew'
  <2>1. /\ UNCHANGED <<arg, captured>>
        /\ pc[p] = "copy" /\ pc' = [pc EXCEPT ![p] = "commit"]
    BY <1>6, CopyData
  <2>2. Uncopied' = Uncopied \ {p} /\ p \in Uncopied
    BY <1>0, <2>1 DEF Uncopied, Threads
  <2>3. ASSUME NEW b \in Ids, NEW x \in Offsets
        PROVE  heap'[b].data[x] = heap[b].data[x] \/ heap'[b].data[x] = arg[p].timestamp
    <3>1. CASE b = Block(tail)
      BY <1>6, <3>1, CopyData
    <3>2. CASE b # Block(tail)
      BY <1>6, <3>2, CopyData
    <3> QED  BY <3>1, <3>2
  <2>4. \A q \in Uncopied \ {p} : arg[q].timestamp # arg[p].timestamp
    BY <2>2 DEF StampsNew
  <2> QED  BY <2>1, <2>2, <2>3, <2>4 DEF StampsNew
<1>7. ASSUME NEW c \in Consumers,
             StartPolling(c) \/ PollEmpty(c) \/ PollFrame(c) \/ PopLock(c)
               \/ PopMiss(c) \/ PopTake(c) \/ Release(c)
      PROVE  StampsNew'
  BY <1>1, <1>7, ConsumerLeaves DEF Uncopied
<1>8. CASE UNCHANGED vars
  BY <1>1, <1>8 DEF vars, Uncopied
<1> QED
  BY <1>2, <1>3, <1>4, <1>5, <1>6, <1>7, <1>8, NextCases

LEMMA StampsAlways == Spec => []StampsNew
BY TypeCorrect, HeapAlways, StampsInit, StampsStep, PTL DEF Spec

-----------------------------------------------------------------------------
(* The contents of the slots.  What the three steps of pushFrame that hold *)
(* the mutex do to the slots, seen from the frames in them:                *)

LEMMA AllocEffect ==
  ASSUME TypeOK, LockHeldByCaller, HeapInv, NEW p \in Producers, PushAlloc(p)
  PROVE  /\ Writing = {} /\ Writing' = {p} /\ pc'[p] = "copy"
         /\ UNCHANGED <<head, tail, buffer_size, ret>>
         /\ Block(tail)' # nullptr
         /\ \A s \in Slots \ {tail} :
              /\ frameBuffer'[s] = frameBuffer[s]
              /\ Block(s) # nullptr => heap'[Block(s)] = heap[Block(s)]
<1> DEFINE b == arg[p].timestamp
<1>1. /\ pc[p] = "alloc" /\ pc' = [pc EXCEPT ![p] = "copy"]
      /\ UNCHANGED <<head, tail, buffer_size, ret>>
  BY DEF PushAlloc, Goto
<1>2. pc \in [Threads -> {"idle", "lock", "alloc", "copy", "commit",
                          "away", "poll", "take", "hold"}]
  BY DEF TypeOK
<1>3. Writing = {}
  BY <1>1, WriterAlone DEF Writing, Storing
<1>4. Writing' = {p} /\ pc'[p] = "copy"
  BY <1>1, <1>2, <1>3 DEF Writing, Threads
<1>5. b \in Ids /\ ~heap[b].live
  BY <1>1, WaitingIds DEF HeapInv, FreshBlocks, Waiting
<1>6. tail \in Slots /\ nullptr \notin Ids
  BY TypeFacts
<1>7. CASE NeedsBlock(tail, arg[p].size)
  <2>1. /\ heap' = [Freed(Block(tail), heap) EXCEPT
                      ![b] = [live |-> TRUE, cap |-> arg[p].size, data |-> NoData]]
        /\ frameBuffer' = [frameBuffer EXCEPT ![tail].dataPtr = b]
    BY <1>7 DEF PushAlloc, Block
  <2>2. /\ Block(tail)' = b
        /\ \A s \in Slots \ {tail} : frameBuffer'[s] = frameBuffer[s]
    BY <1>1, <1>6, <2>1 DEF TypeOK, Block, Slot
  <2>3. \A d \in Ids : d # b /\ d # Block(tail) => heap'[d] = heap[d]
    BY <1>5, <2>1 DEF Freed, TypeOK
  <2>4. \A s \in Slots \ {tail} : Block(s) # nullptr =>
          Block(s) \in Ids /\ Block(s) # b /\ Block(s) # Block(tail)
    BY <1>5, <1>6, TypeFacts DEF HeapInv, HeapOwned, Block
  <2> QED  BY <1>1, <1>3, <1>4, <1>5, <1>6, <2>2, <2>3, <2>4
<1>8. CASE ~NeedsBlock(tail, arg[p].size)
  <2>1. UNCHANGED <<heap, frameBuffer>>
    BY <1>8 DEF PushAlloc
  <2> QED  BY <1>1, <1>3, <1>4, <1>8, <2>1 DEF NeedsBlock, Block
<1> QED  BY <1>7, <1>8

LEMMA CopyEffect ==
  ASSUME TypeOK, LockHeldByCaller, HeapInv, StampsNew,
         NEW p \in Producers, PushCopy(p)
  PROVE  /\ Writing = {p} /\ Writing' = {p} /\ pc'[p] = "commit"
         /\ UNCHANGED <<frameBuffer, head, tail, buffer_size, arg, ret>>
         /\ \A x \in Offsets :
              heap'[Block(tail)].data[x] = arg[p].timestamp <=> x < arg[p].size
         /\ \A s \in Slots \ {tail} :
              Block(s) # nullptr => heap'[Block(s)] = heap[Block(s)]
<1>1. /\ pc[p] = "copy" /\ pc' = [pc EXCEPT ![p] = "commit"]
      /\ UNCHANGED <<frameBuffer, head, tail, buffer_size, arg, ret>>
      /\ \A d \in Ids \ {Block(tail)} : heap'[d] = heap[d]
  BY CopyData
<1>2. pc \in [Threads -> {"idle", "lock", "alloc", "copy", "commit",
                          "away", "poll", "take", "hold"}]
  BY DEF TypeOK
<1>3. Writing = {p}
  BY <1>1, WriterAlone DEF Writing, Storing
<1>4. Writing' = {p} /\ pc'[p] = "commit"
  BY <1>1, <1>2, <1>3 DEF Writing, Threads
<1>5. tail \in Slots /\ Block(tail) \in Ids
  BY <1>3, TypeFacts DEF HeapInv, RoomMade
<1>6. ASSUME NEW x \in Offsets
      PROVE  heap'[Block(tail)].data[x] = arg[p].timestamp <=> x < arg[p].size
  <2>1. heap[Block(tail)].data[x] # arg[p].timestamp
    BY <1>1, <1>5 DEF StampsNew, Uncopied
  <2>2. heap'[Block(tail)].data[x] = IF x < arg[p].size THEN arg[p].timestamp
                                                     ELSE heap[Block(tail)].data[x]
    BY <1>5, CopyData
  <2> QED  BY <2>1, <2>2
<1>7. \A s \in Slots \ {tail} : Block(s) # nullptr => Block(s) \in Ids \ {Block(tail)}
  BY <1>5, TypeFacts DEF HeapInv, HeapOwned, Block
<1> QED  BY <1>1, <1>3, <1>4, <1>6, <1>7

LEMMA CommitEffect ==
  ASSUME TypeOK, LockHeldByCaller, HeapInv, Copied,
         NEW p \in Producers, PushCommit(p)
  PROVE  /\ Writing = {p} /\ Writing' = {}
         /\ UNCHANGED <<head, heap, ret>>
         /\ tail' = NextSlot(tail) /\ buffer_size' = buffer_size + 1
         /\ \A s \in Slots : Block(s)' = Block(s)
         /\ \A s \in Slots \ {tail} : frameBuffer'[s] = frameBuffer[s]
         /\ Block(tail) # nullptr
         /\ Intact(frameBuffer'[tail])
<1>1. /\ pc[p] = "commit" /\ pc' = [pc EXCEPT ![p] = "idle"]
      /\ UNCHANGED <<head, heap, ret>>
      /\ tail' = NextSlot(tail) /\ buffer_size' = buffer_size + 1
  BY DEF PushCommit, Goto
<1>2. pc \in [Threads -> {"idle", "lock", "alloc", "copy", "commit",
                          "away", "poll", "take", "hold"}]
  BY DEF TypeOK
<1>3. Writing = {p}
  BY <1>1, WriterAlone DEF Writing, Storing
<1>4. Writing' = {}
  BY <1>1, <1>2, <1>3 DEF Writing, Threads
<1>5. tail \in Slots /\ Block(tail) \in Ids /\ Block(tail) # nullptr
      /\ arg[p].size <= heap[Block(tail)].cap
  BY <1>3, TypeFacts DEF HeapInv, RoomMade
<1>6. /\ \A s \in Slots \ {tail} : frameBuffer'[s] = frameBuffer[s]
      /\ frameBuffer'[tail] = [dataPtr |-> Block(tail), size |-> arg[p].size,
                               timestamp |-> arg[p].timestamp]
  BY <1>5 DEF PushCommit, TypeOK, Block
<1>7. \A s \in Slots : Block(s)' = Block(s)
  BY <1>6 DEF Block
<1>8. heap[Block(tail)].live
  BY <1>5, TypeFacts DEF HeapInv, HeapOwned, Block
<1>9. \A x \in Offsets :
        heap[Block(tail)].data[x] = arg[p].timestamp <=> x < arg[p].size
  BY <1>1 DEF Copied
<1> QED  BY <1>1, <1>3, <1>4, <1>5, <1>6, <1>7, <1>8, <1>9 DEF Intact

(* SlotAt names slots, and moves on with head and with tail. *)
LEMMA SlotAtFacts ==
  ASSUME TypeOK, RingCoherent
  PROVE  /\ \A i \in Nat : SlotAt(i) \in Slots
         /\ SlotAt(0) = head /\ SlotAt(buffer_size) = tail
         /\ \A i \in Nat : (NextSlot(head) + i) % buffer_max_size = SlotAt(i + 1)
<1> USE ConstantsOK
<1>1. head \in 0 .. buffer_max_size - 1 /\ head \in Int
  BY DEF TypeOK, Slots
<1>2. \A i \in Nat : head + i \in Int /\ SlotAt(i) \in Slots
  BY <1>1 DEF SlotAt, Slots
<1>3. SlotAt(0) = head
  BY <1>1 DEF SlotAt
<1>4. ASSUME NEW i \in Nat
      PROVE  (NextSlot(head) + i) % buffer_max_size = SlotAt(i + 1)
  <2>1. (((head + 1) % buffer_max_size) + i) % buffer_max_size
          = ((head + 1) + i) % buffer_max_size
    <3>1. head + 1 \in Int  BY <1>1
    <3> QED  BY <3>1, ModPlus
  <2>2. (head + 1) + i = head + (i + 1)
    BY <1>1
  <2> QED  BY <2>1, <2>2 DEF NextSlot, SlotAt
<1> QED  BY <1>2, <1>3, <1>4 DEF RingCoherent, SlotAt

LEMMA SlotsInit == Init => SlotsInv
BY ConstantsOK
DEF Init, SlotsInv, SlotsHold, Copied, QueuedWritten, Block, NullFrame, Slots,
    Threads, nullptr

LEMMA SlotsStep ==
  ASSUME TypeOK, LockHeldByCaller, RingCoherent, HeapInv, StampsNew, SlotsInv,
         [Next]_vars
  PROVE  SlotsInv'
<1> USE DEF SlotsInv
<1>0. tail \in Slots /\ buffer_size \in Nat
  BY TypeFacts
<1>1. ASSUME UNCHANGED <<frameBuffer, head, tail, buffer_size, heap, arg, Writing>>,
             \A p \in Producers : pc'[p] = "commit" => pc[p] = "commit"
      PROVE  SlotsInv'
  BY <1>1
  DEF SlotsHold, Copied, QueuedWritten, Block, BeingWritten, Intact, SlotAt
<1>2. ASSUME NEW p \in Producers, PushDrop(p)  PROVE SlotsInv'
  BY <1>1, <1>2 DEF PushDrop, ring, Writing
<1>3. ASSUME NEW p \in Producers, PushAdmit(p)  PROVE SlotsInv'
  <2>1. /\ UNCHANGED <<frameBuffer, head, tail, buffer_size, heap>>
        /\ pc[p] = "idle" /\ pc' = [pc EXCEPT ![p] = "lock"]
    BY <1>3 DEF PushAdmit, ring, Goto
  <2>2. \A q \in Producers \ {p} : arg'[q] = arg[q]
    BY <1>3 DEF PushAdmit, TypeOK
  <2>3. \A q \in Producers \ {p} : pc'[q] = pc[q]
    BY <2>1 DEF TypeOK, Threads
  <2>4. pc'[p] = "lock"
    BY <2>1 DEF TypeOK, Threads
  <2>5. Writing' = Writing
    BY <2>1, <2>3, <2>4 DEF Writing
  <2>6. Copied'
    BY <2>1, <2>2, <2>3, <2>4 DEF Copied, Block
  <2> QED
    BY <2>1, <2>5, <2>6
    DEF SlotsHold, QueuedWritten, Block, BeingWritten, Intact, SlotAt
<1>4. ASSUME NEW p \in Producers, PushLock(p)  PROVE SlotsInv'
  <2>1. /\ UNCHANGED <<frameBuffer, head, tail, buffer_size, heap, arg>>
        /\ pc[p] = "lock" /\ pc' = [pc EXCEPT ![p] = "alloc"]
    BY <1>4 DEF PushLock, ring, Goto
  <2>2. pc'[p] = "alloc" /\ \A q \in Producers \ {p} : pc'[q] = pc[q]
    BY <2>1 DEF TypeOK, Threads
  <2>3. Writing' = Writing
    BY <2>1, <2>2 DEF Writing
  <2> QED  BY <1>1, <2>1, <2>2, <2>3
<1>5. ASSUME NEW p \in Producers, PushAlloc(p)  PROVE SlotsInv'
  <2>1. SlotsHold'
    BY <1>5, AllocEffect DEF SlotsHold, BeingWritten, Block, Intact
  <2>2. Copied'
    BY <1>5, AllocEffect DEF Copied, Writing
  <2>3. QueuedWritten'
    BY <1>0, <1>5, AllocEffect, SlotAtFacts DEF QueuedWritten, Block, SlotAt
  <2> QED  BY <2>1, <2>2, <2>3
<1>6. ASSUME NEW p \in Producers, PushCopy(p)  PROVE SlotsInv'
  <2>1. SlotsHold'
    BY <1>6, CopyEffect DEF SlotsHold, BeingWritten, Block, Intact
  <2>2. Copied'
    BY <1>6, CopyEffect DEF Copied, Writing, Block
  <2>3. QueuedWritten'
    BY <1>6, CopyEffect DEF QueuedWritten, Block, SlotAt
  <2> QED  BY <2>1, <2>2, <2>3
<1>7. ASSUME NEW p \in Producers, PushCommit(p)  PROVE SlotsInv'
  <2>1. SlotsHold'
    BY <1>7, CommitEffect DEF SlotsHold, BeingWritten, Block, Intact
  <2>2. Copied'
    BY <1>7, CommitEffect DEF Copied, Writing
  <2>3. QueuedWritten'
    <3> SUFFICES ASSUME NEW i \in 0 .. buffer_size
                 PROVE  Block(SlotAt(i))' # nullptr
      BY <1>0, <1>7, CommitEffect DEF QueuedWritten
    <3>1. SlotAt(i)' = SlotAt(i) /\ SlotAt(i) \in Slots
      BY <1>0, <1>7, CommitEffect, SlotAtFacts DEF SlotAt
    <3>2. Block(SlotAt(i)) # nullptr
      BY <1>0, <1>7, CommitEffect, SlotAtFacts DEF QueuedWritten
    <3> QED  BY <1>7, <3>1, <3>2, CommitEffect DEF Block
  <2> QED  BY <2>1, <2>2, <2>3
<1>8. ASSUME NEW c \in Consumers,
             StartPolling(c) \/ PollEmpty(c) \/ PollFrame(c) \/ PopLock(c) \/ PopMiss(c) \/ Release(c)
      PROVE  SlotsInv'
  <2>1. UNCHANGED <<head, buffer_size>>
    BY <1>8 DEF StartPolling, PollEmpty, PollFrame, PopLock, PopMiss, Release, vars, ring
  <2> QED  BY <1>1, <1>8, <2>1, ConsumerLeaves
<1>9. ASSUME NEW c \in Consumers, PopTake(c)  PROVE SlotsInv'
  <2>1. /\ UNCHANGED <<frameBuffer, tail, heap, arg, Writing>>
        /\ \A p \in Producers : pc'[p] = pc[p]
    BY <1>9, ConsumerLeaves
  <2>2. head' = NextSlot(head) /\ buffer_size' = buffer_size - 1
    BY <1>9 DEF PopTake
  <2>3. QueuedWritten'
    <3> SUFFICES ASSUME NEW i \in 0 .. buffer_size - 2
                 PROVE  Block(SlotAt(i))' # nullptr
      BY <1>0, <2>2 DEF QueuedWritten
    <3>1. SlotAt(i)' = SlotAt(i + 1)
      BY <2>2, SlotAtFacts DEF SlotAt
    <3>2. Block(SlotAt(i + 1)) # nullptr
      BY <1>0 DEF QueuedWritten
    <3> QED  BY <2>1, <3>1, <3>2 DEF Block
  <2>4. SlotsHold' /\ Copied'
    BY <2>1 DEF SlotsHold, Copied, Block, BeingWritten, Intact
  <2> QED  BY <2>3, <2>4
<1>10. CASE UNCHANGED vars
  BY <1>1, <1>10 DEF vars, Writing
<1> QED
  BY <1>2, <1>3, <1>4, <1>5, <1>6, <1>7, <1>8, <1>9, <1>10, NextCases

LEMMA SlotsAlways == Spec => []SlotsInv
BY TypeCorrect, MutualExclusion, IndicesAgree, HeapAlways, StampsAlways,
   SlotsInit, SlotsStep, PTL DEF Spec

-----------------------------------------------------------------------------
(* The frames that stream threads hold.                                    *)

(* Slots closer than a whole lap ahead of tail are not the one at tail. *)
LEMMA AheadFacts ==
  ASSUME TypeOK
  PROVE  \A i \in 0 .. buffer_max_size - 1 :
           /\ (tail + i) % buffer_max_size \in Slots
           /\ i > 0 => (tail + i) % buffer_max_size # tail
           /\ i > 0 => (NextSlot(tail) + (i - 1)) % buffer_max_size
                          = (tail + i) % buffer_max_size
<1> USE ConstantsOK
<1>1. tail \in 0 .. buffer_max_size - 1 /\ tail \in Int
  BY DEF TypeOK, Slots
<1> TAKE i \in 0 .. buffer_max_size - 1
<1>2. tail + i \in Int
  BY <1>1
<1>3. (tail + i) % buffer_max_size \in Slots
  BY <1>1, DivMod DEF Slots
<1>4. ASSUME i > 0  PROVE (tail + i) % buffer_max_size # tail
  <2>1. tail % buffer_max_size = tail
    BY <1>1
  <2>2. tail < tail + i /\ tail + i < tail + buffer_max_size
    BY <1>1, <1>4
  <2> QED  BY <1>1, <1>2, <2>1, <2>2, ModDistinct
<1>5. ASSUME i > 0
      PROVE  (NextSlot(tail) + (i - 1)) % buffer_max_size = (tail + i) % buffer_max_size
  <2>1. (((tail + 1) % buffer_max_size) + (i - 1)) % buffer_max_size
          = ((tail + 1) + (i - 1)) % buffer_max_size
    <3>1. tail + 1 \in Int /\ i - 1 \in Int  BY <1>1
    <3> QED  BY <3>1, ModPlus
  <2>2. (tail + 1) + (i - 1) = tail + i
    BY <1>1
  <2> QED  BY <2>1, <2>2 DEF NextSlot
<1> QED  BY <1>3, <1>4, <1>5

(* A frame taken from head is buffer_max_size - buffer_size slots ahead. *)
LEMMA HeadIsAhead ==
  ASSUME TypeOK, RingCoherent
  PROVE  (tail + (buffer_max_size - buffer_size)) % buffer_max_size = head
<1> USE ConstantsOK
<1>1. head \in 0 .. buffer_max_size - 1 /\ head \in Int /\ buffer_size \in Int
  BY DEF TypeOK, Slots
<1>2. (((head + buffer_size) % buffer_max_size) + (buffer_max_size - buffer_size))
        % buffer_max_size
        = ((head + buffer_size) + (buffer_max_size - buffer_size)) % buffer_max_size
  <2>1. head + buffer_size \in Int /\ buffer_max_size - buffer_size \in Int
    BY <1>1
  <2> QED  BY <2>1, ModPlus
<1>3. (head + buffer_size) + (buffer_max_size - buffer_size) = buffer_max_size * 1 + head
  BY <1>1
<1>4. (buffer_max_size * 1 + head) % buffer_max_size = head
  BY <1>1, ModUnique
<1> QED  BY <1>2, <1>3, <1>4 DEF RingCoherent

LEMMA LapInit == Init => LapInv
BY ConstantsOK DEF Init, LapInv, Holding, Threads

LEMMA LapStep ==
  ASSUME TypeOK, LockHeldByCaller, RingCoherent, HeapInv, StampsNew, SlotsInv,
         LapInv, [Next]_vars
  PROVE  LapInv'
<1> USE ConstantsOK
<1>0. /\ tail \in Slots /\ lead \in [Consumers -> Int]
      /\ ret \in [Consumers -> Slot]
      /\ pc \in [Threads -> {"idle", "lock", "alloc", "copy", "commit",
                             "away", "poll", "take", "hold"}]
  BY DEF TypeOK
<1>1. ASSUME UNCHANGED <<frameBuffer, tail, Writing>>,
             \A c \in Consumers : pc'[c] = "hold" =>
               pc[c] = "hold" /\ ret'[c] = ret[c] /\ lead'[c] = lead[c]
      PROVE  LapInv'
  BY <1>1 DEF LapInv, Holding, Ahead
<1>2. ASSUME NEW p \in Producers, PushDrop(p)  PROVE LapInv'
  BY <1>1, <1>2 DEF PushDrop, ring, Writing
<1>3. ASSUME NEW p \in Producers, PushAdmit(p) \/ PushLock(p)  PROVE LapInv'
  <2>1. UNCHANGED <<frameBuffer, tail, ret, lead>>
    BY <1>3 DEF PushAdmit, PushLock, ring
  <2>2. /\ pc[p] \in {"idle", "lock"} /\ pc'[p] \in {"lock", "alloc"}
        /\ \A t \in Threads \ {p} : pc'[t] = pc[t]
    BY <1>0, <1>3 DEF PushAdmit, PushLock, Goto, Threads
  <2>3. Writing' = Writing
    BY <2>2 DEF Writing, Threads
  <2>4. \A c \in Consumers : pc'[c] = pc[c]
    BY <2>2 DEF Threads
  <2> QED  BY <1>1, <2>1, <2>3, <2>4
<1>4. ASSUME NEW p \in Producers, PushAlloc(p)  PROVE LapInv'
  <2>1. \A c \in Consumers :
          /\ lead'[c] = IF lead[c] > 0 THEN lead[c] - 1 ELSE 0
          /\ pc'[c] = pc[c]
    BY <1>0, <1>4 DEF PushAlloc, Goto, Threads
  <2> SUFFICES ASSUME NEW c \in Holding, lead[c] - 1 > 0
               PROVE  /\ Ahead(c)' \in 0 .. buffer_max_size - 1
                      /\ ret[c] = frameBuffer'[(tail + Ahead(c)') % buffer_max_size]
                      /\ ret[c].dataPtr # nullptr
    <3>1. \A c \in Holding' : lead'[c] > 0 => c \in Holding /\ lead[c] - 1 > 0
      BY <1>0, <2>1 DEF Holding
    <3> QED  BY <1>4, <3>1, AllocEffect DEF LapInv
  <2>2. Ahead(c)' = Ahead(c) /\ Ahead(c) = lead[c] - 1 /\ c \in Consumers
    BY <1>0, <1>4, <2>1, AllocEffect DEF Ahead, Holding
  <2>3. /\ Ahead(c) \in 0 .. buffer_max_size - 1 /\ Ahead(c) > 0
        /\ ret[c] = frameBuffer[(tail + Ahead(c)) % buffer_max_size]
        /\ ret[c].dataPtr # nullptr
    BY <1>0, <2>2 DEF LapInv
  <2>4. (tail + Ahead(c)) % buffer_max_size \in Slots \ {tail}
    BY <2>3, AheadFacts
  <2> QED  BY <1>4, <2>2, <2>3, <2>4, AllocEffect
<1>5. ASSUME NEW p \in Producers, PushCopy(p)  PROVE LapInv'
  <2>1. \A c \in Consumers : pc'[c] = pc[c] /\ lead'[c] = lead[c]
    BY <1>0, <1>5 DEF PushCopy, Goto, Threads
  <2> QED  BY <1>1, <1>5, <2>1, CopyEffect
<1>6. ASSUME NEW p \in Producers, PushCommit(p)  PROVE LapInv'
  <2>0. Copied
    BY DEF SlotsInv
  <2>1. \A c \in Consumers : lead'[c] = lead[c] /\ pc'[c] = pc[c]
    BY <1>0, <1>6 DEF PushCommit, Goto, Threads
  <2> SUFFICES ASSUME NEW c \in Holding, lead[c] > 0
               PROVE  /\ Ahead(c)' \in 0 .. buffer_max_size - 1
                      /\ ret[c] = frameBuffer'[(NextSlot(tail) + Ahead(c)') % buffer_max_size]
                      /\ ret[c].dataPtr # nullptr
    <3>1. Holding' = Holding /\ \A c \in Holding : lead'[c] = lead[c]
      BY <2>1 DEF Holding
    <3> QED  BY <1>6, <2>0, <3>1, CommitEffect DEF LapInv
  <2>2. Ahead(c) = lead[c] /\ Ahead(c)' = lead[c] - 1 /\ c \in Consumers
    BY <1>6, <2>0, <2>1, CommitEffect DEF Ahead, Holding
  <2>3. /\ Ahead(c) \in 0 .. buffer_max_size - 1 /\ Ahead(c) > 0
        /\ ret[c] = frameBuffer[(tail + Ahead(c)) % buffer_max_size]
        /\ ret[c].dataPtr # nullptr
    BY <2>2 DEF LapInv
  <2>4. /\ (tail + Ahead(c)) % buffer_max_size \in Slots \ {tail}
        /\ (NextSlot(tail) + (Ahead(c) - 1)) % buffer_max_size
             = (tail + Ahead(c)) % buffer_max_size
    BY <2>3, AheadFacts
  <2> QED  BY <1>6, <2>0, <2>2, <2>3, <2>4, CommitEffect
<1>7. ASSUME NEW c \in Consumers,
             StartPolling(c) \/ PollEmpty(c) \/ PollFrame(c) \/ PopLock(c) \/ PopMiss(c) \/ Release(c)
      PROVE  LapInv'
  <2>1. \A d \in Consumers \ {c} :
          pc'[d] = pc[d] /\ ret'[d] = ret[d] /\ lead'[d] = lead[d]
    BY <1>0, <1>7
    DEF StartPolling, PollEmpty, PollFrame, PopLock, PopMiss, Release, Goto, vars, Threads
  <2>2. pc'[c] # "hold" \/ UNCHANGED <<pc, ret, lead>>
    BY <1>0, <1>7
    DEF StartPolling, PollEmpty, PollFrame, PopLock, PopMiss, Release, Goto, vars, Threads
  <2>3. UNCHANGED <<frameBuffer, tail, Writing>>
    BY <1>7, ConsumerLeaves
  <2> QED  BY <1>1, <2>1, <2>2, <2>3
<1>8. ASSUME NEW c \in Consumers, PopTake(c)  PROVE LapInv'
  <2>1. /\ UNCHANGED <<frameBuffer, tail, Writing>>
        /\ ret' = [ret EXCEPT ![c] = frameBuffer[head]]
        /\ lead' = [lead EXCEPT ![c] = buffer_max_size - buffer_size + 1]
        /\ buffer_size # 0 /\ c \in Taking
    BY <1>8, ConsumerLeaves DEF PopTake, isEmptyBuffer, Taking
  <2>2. Writing = {}
    BY <2>1, AloneInside DEF Writing, Storing, Taking
  <2>3. \A d \in Consumers \ {c} :
          pc'[d] = pc[d] /\ ret'[d] = ret[d] /\ lead'[d] = lead[d]
    BY <1>0, <1>8 DEF PopTake, Goto, Threads
  <2>4. ASSUME lead'[c] > 0
        PROVE  /\ Ahead(c)' \in 0 .. buffer_max_size - 1
               /\ ret'[c] = frameBuffer[(tail + Ahead(c)') % buffer_max_size]
               /\ ret'[c].dataPtr # nullptr
    <3>1. Ahead(c)' = buffer_max_size - buffer_size
      BY <1>0, <2>1, <2>2, TypeFacts DEF Ahead
    <3>2. Ahead(c)' \in 0 .. buffer_max_size - 1
      BY <1>0, <2>1, <2>4, <3>1, TypeFacts
    <3>3. ret'[c] = frameBuffer[head]
      BY <1>0, <2>1
    <3>4. Block(head) # nullptr
      <4>1. 0 \in 0 .. buffer_size - 1
        BY <2>1, TypeFacts
      <4> QED  BY <4>1, SlotAtFacts DEF SlotsInv, QueuedWritten
    <3> QED  BY <3>1, <3>2, <3>3, <3>4, HeadIsAhead DEF Block
  <2>5. ASSUME NEW d \in Holding', lead'[d] > 0
        PROVE  /\ Ahead(d)' \in 0 .. buffer_max_size - 1
               /\ ret'[d] = frameBuffer[(tail + Ahead(d)') % buffer_max_size]
               /\ ret'[d].dataPtr # nullptr
    <3>1. CASE d = c
      BY <2>4, <2>5, <3>1
    <3>2. CASE d # c
      <4>1. d \in Holding /\ ret'[d] = ret[d] /\ lead'[d] = lead[d]
        BY <2>3, <2>5, <3>2 DEF Holding
      <4>2. Ahead(d)' = Ahead(d)
        BY <2>1, <4>1 DEF Ahead
      <4> QED  BY <2>5, <4>1, <4>2 DEF LapInv
    <3> QED  BY <3>1, <3>2
  <2> QED  BY <2>1, <2>5 DEF LapInv
<1>9. CASE UNCHANGED vars
  BY <1>1, <1>9 DEF vars, Writing
<1> QED
  BY <1>2, <1>3, <1>4, <1>5, <1>6, <1>7, <1>8, <1>9, NextCases

LEMMA LapAlways == Spec => []LapInv
BY TypeCorrect, MutualExclusion, IndicesAgree, HeapAlways, StampsAlways,
   SlotsAlways, LapInit, LapStep, PTL DEF Spec

(* How long a stream thread may send from the slot: for any number of      *)
(* producers, the frame that popFrame returned with n frames in the ring   *)
(* is intact until the (buffer_max_size - n + 1)-th next pushFrame starts  *)
(* to write.                                                               *)
THEOREM FramesLastALap == Spec => []LapSafe
<1>1. TypeOK /\ SlotsInv /\ LapInv => LapSafe
  <2> SUFFICES ASSUME TypeOK, SlotsInv, LapInv, NEW c \in Holding, lead[c] > 0
               PROVE  Intact(ret[c])
    BY DEF LapSafe
  <2>1. /\ Ahead(c) \in 0 .. buffer_max_size - 1
        /\ ret[c] = frameBuffer[(tail + Ahead(c)) % buffer_max_size]
        /\ ret[c].dataPtr # nullptr
    BY DEF LapInv
  <2>2. (tail + Ahead(c)) % buffer_max_size \in Slots
    BY <2>1, AheadFacts
  <2>3. ~BeingWritten((tail + Ahead(c)) % buffer_max_size)
    <3>1. CASE Writing = {}
      BY <3>1 DEF BeingWritten
    <3>2. CASE Writing # {}
      <4>1. Ahead(c) > 0
        BY <3>2 DEF Ahead
      <4> QED  BY <2>1, <4>1, AheadFacts DEF BeingWritten
    <3> QED  BY <3>1, <3>2
  <2> QED  BY <2>1, <2>2, <2>3 DEF SlotsInv, SlotsHold, Block
<1> QED  BY <1>1, TypeCorrect, SlotsAlways, LapAlways, PTL

-----------------------------------------------------------------------------
(* With one producer the test for a full ring, made before the lock, still *)
(* holds when the frame is stored.                                         *)

OneProducer == \A p, q \in Producers : p = q

Admitted == {p \in Producers : pc[p] \in {"lock", "alloc", "copy", "commit"}}

RoomLeft ==
  /\ CapacityRespected
  /\ Admitted # {} => buffer_size < buffer_max_size

LEMMA RoomInit == Init => RoomLeft
BY ConstantsOK DEF Init, RoomLeft, CapacityRespected, Admitted, Threads

LEMMA RoomStep ==
  ASSUME OneProducer, TypeOK, RoomLeft, [Next]_vars
  PROVE  RoomLeft'
<1> USE ConstantsOK DEF RoomLeft, CapacityRespected
<1>0. /\ buffer_size \in Nat
      /\ pc \in [Threads -> {"idle", "lock", "alloc", "copy", "commit",
                             "away", "poll", "take", "hold"}]
  BY DEF TypeOK
<1>1. ASSUME NEW p \in Producers, PushDrop(p)  PROVE RoomLeft'
  BY <1>1 DEF PushDrop, ring, Admitted
<1>2. ASSUME NEW p \in Producers, PushAdmit(p)  PROVE RoomLeft'
  BY <1>0, <1>2 DEF PushAdmit, ring, isFullBuffer
<1>3. ASSUME NEW p \in Producers, PushLock(p) \/ PushAlloc(p) \/ PushCopy(p)
      PROVE  RoomLeft'
  <2>1. p \in Admitted /\ buffer_size' = buffer_size
    BY <1>3 DEF PushLock, PushAlloc, PushCopy, ring, Admitted
  <2> QED  BY <2>1
<1>4. ASSUME NEW p \in Producers, PushCommit(p)  PROVE RoomLeft'
  <2>1. p \in Admitted /\ pc' = [pc EXCEPT ![p] = "idle"]
        /\ buffer_size' = buffer_size + 1
    BY <1>4 DEF PushCommit, Goto, Admitted
  <2>2. Admitted' = {}
    BY <1>0, <2>1 DEF Admitted, OneProducer, Threads
  <2> QED  BY <1>0, <2>1, <2>2
<1>5. ASSUME NEW c \in Consumers,
             StartPolling(c) \/ PollEmpty(c) \/ PollFrame(c) \/ PopLock(c) \/ PopMiss(c)
               \/ PopTake(c) \/ Release(c)
      PROVE  RoomLeft'
  <2>1. Admitted' = Admitted
    BY <1>5, ConsumerLeaves DEF Admitted
  <2>2. buffer_size' = buffer_size \/ buffer_size' = buffer_size - 1
    BY <1>5 DEF StartPolling, PollEmpty, PollFrame, PopLock, PopMiss, PopTake, Release, vars, ring
  <2> QED  BY <1>0, <2>1, <2>2
<1>6. CASE UNCHANGED vars
  BY <1>6 DEF vars, Admitted
<1> QED
  BY <1>1, <1>2, <1>3, <1>4, <1>5, <1>6, NextCases

LEMMA RoomAlways == ASSUME OneProducer  PROVE Spec => []RoomLeft
<1>1. TypeOK /\ RoomLeft /\ [Next]_vars => RoomLeft'
  BY RoomStep
<1> QED  BY <1>1, TypeCorrect, RoomInit, PTL DEF Spec

(* With one capture thread frames are added only while the ring is not     *)
(* full.                                                                   *)
THEOREM OneProducerFits == ASSUME OneProducer  PROVE Spec => []CapacityRespected
<1>1. RoomLeft => CapacityRespected
  BY DEF RoomLeft
<1> QED  BY <1>1, RoomAlways, PTL

(* The slots of the queued frames are not the one that is written next. *)
LEMMA QueuedApart ==
  ASSUME TypeOK, RingCoherent, buffer_size < buffer_max_size,
         NEW i \in 0 .. buffer_size - 1
  PROVE  SlotAt(i) # tail
<1>1. head \in Int /\ buffer_size \in Nat
  BY DEF TypeOK, Slots
<1>2. /\ head + i \in Int /\ head + buffer_size \in Int
      /\ head + i < head + buffer_size
      /\ head + buffer_size < (head + i) + buffer_max_size
  BY <1>1, ConstantsOK
<1>3. (head + i) % buffer_max_size # (head + buffer_size) % buffer_max_size
  BY <1>2, ModDistinct, ConstantsOK
<1> QED  BY <1>3 DEF SlotAt, RingCoherent

(* With one capture thread no waiting frame is overwritten or freed.       *)
THEOREM WaitingFramesKept == ASSUME OneProducer  PROVE Spec => []QueuedIntact
<1>1. TypeOK /\ RingCoherent /\ SlotsInv /\ RoomLeft => QueuedIntact
  <2> SUFFICES ASSUME TypeOK, RingCoherent, SlotsInv, RoomLeft,
                      NEW i \in 0 .. buffer_size - 1
               PROVE  Intact(frameBuffer[SlotAt(i)])
    BY DEF QueuedIntact
  <2>1. SlotAt(i) \in Slots /\ Block(SlotAt(i)) # nullptr
    BY TypeFacts, SlotAtFacts DEF SlotsInv, QueuedWritten
  <2>2. ~BeingWritten(SlotAt(i))
    <3> SUFFICES ASSUME Writing # {}  PROVE SlotAt(i) # tail
      BY DEF BeingWritten
    <3>1. buffer_size < buffer_max_size
      BY DEF RoomLeft, Admitted, Writing
    <3> QED  BY <3>1, QueuedApart
  <2> QED  BY <2>1, <2>2 DEF SlotsInv, SlotsHold
<1> QED  BY <1>1, TypeCorrect, IndicesAgree, SlotsAlways, RoomAlways, PTL

-----------------------------------------------------------------------------
(* With one producer the ring is a bounded queue.                          *)

(* What is being pushed is a frame. *)
PushedIsFrame ==
  \A p \in Admitted : arg[p].size \in Sizes /\ arg[p].timestamp \in Ids

LEMMA PushedStep ==
  ASSUME TypeOK, PushedIsFrame, [Next]_vars
  PROVE  PushedIsFrame'
<1> USE ConstantsOK
<1>0. /\ pc \in [Threads -> {"idle", "lock", "alloc", "copy", "commit",
                             "away", "poll", "take", "hold"}]
      /\ captured \in 0 .. MaxFrames
  BY DEF TypeOK
<1>1. ASSUME UNCHANGED arg, Admitted' \subseteq Admitted  PROVE PushedIsFrame'
  BY <1>1 DEF PushedIsFrame
<1>2. ASSUME NEW p \in Producers, PushDrop(p)  PROVE PushedIsFrame'
  BY <1>1, <1>2 DEF PushDrop, Admitted
<1>3. ASSUME NEW p \in Producers, PushAdmit(p)  PROVE PushedIsFrame'
  <2>1. PICK n \in Sizes :
          arg' = [arg EXCEPT ![p] = [size |-> n, timestamp |-> captured + 1]]
    BY <1>3 DEF PushAdmit
  <2>2. captured + 1 \in Ids
    BY <1>0, <1>3 DEF PushAdmit, Ids
  <2>3. /\ arg'[p].size = n /\ arg'[p].timestamp = captured + 1
        /\ \A q \in Producers \ {p} : arg'[q] = arg[q]
    BY <2>1 DEF TypeOK
  <2>4. Admitted' \subseteq Admitted \cup {p}
    BY <1>0, <1>3 DEF PushAdmit, Goto, Admitted, Threads
  <2>5. Admitted' \subseteq Producers
    BY DEF Admitted
  <2> QED  BY <2>2, <2>3, <2>4, <2>5 DEF PushedIsFrame
<1>4. ASSUME NEW p \in Producers,
             PushLock(p) \/ PushAlloc(p) \/ PushCopy(p) \/ PushCommit(p)
      PROVE  PushedIsFrame'
  <2>1. UNCHANGED arg
    BY <1>4 DEF PushLock, PushAlloc, PushCopy, PushCommit
  <2>2. p \in Admitted /\ \E l \in {"alloc", "copy", "commit", "idle"} :
          pc' = [pc EXCEPT ![p] = l]
    BY <1>4 DEF PushLock, PushAlloc, PushCopy, PushCommit, Goto, Admitted
  <2>3. Admitted' \subseteq Admitted
    BY <1>0, <2>2 DEF Admitted, Threads
  <2> QED  BY <1>1, <2>1, <2>3
<1>5. ASSUME NEW c \in Consumers,
             StartPolling(c) \/ PollEmpty(c) \/ PollFrame(c) \/ PopLock(c) \/ PopMiss(c)
               \/ PopTake(c) \/ Release(c)
      PROVE  PushedIsFrame'
  BY <1>1, <1>5, ConsumerLeaves DEF Admitted
<1>6. CASE UNCHANGED vars
  BY <1>1, <1>6 DEF vars, Admitted
<1> QED
  BY <1>2, <1>3, <1>4, <1>5, <1>6, NextCases

LEMMA PushedAlways == Spec => []PushedIsFrame
<1>1. Init => PushedIsFrame
  BY ConstantsOK DEF Init, PushedIsFrame, Admitted, Threads
<1> QED  BY <1>1, TypeCorrect, PushedStep, PTL DEF Spec

(* The queue and the hands of the consumers that a state of the ring shows. *)
Shown  == [i \in 1 .. buffer_size |-> AsFrame(frameBuffer[SlotAt(i - 1)])]
Handed == [c \in Consumers |-> AsFrame(ret[c])]

LEMMA QueueInit == Init => FQ!Init
<1> SUFFICES ASSUME Init  PROVE Shown = <<>> /\ Handed = [c \in Consumers |-> NoFrame]
  BY DEF FQ!Init, Shown, Handed
<1>1. Shown = <<>>
  BY DEF Init, Shown
<1>2. Handed = [c \in Consumers |-> NoFrame]
  BY DEF Init, Handed, AsFrame, NullFrame, NoFrame
<1> QED  BY <1>1, <1>2

(* Storing a frame is Put, taking one is Take, and finding none is         *)
(* TakeNone; every other step shows nothing.                               *)
LEMMA QueueStep ==
  ASSUME TypeOK, TypeOK', LockHeldByCaller, RingCoherent, HeapInv, SlotsInv,
         RoomLeft, PushedIsFrame, [Next]_vars
  PROVE  [FQ!Next]_(FQ!vars)
<1> USE ConstantsOK
<1>0. /\ buffer_size \in Nat /\ tail \in Slots /\ ret \in [Consumers -> Slot]
      /\ frameBuffer \in [Slots -> Slot] /\ head \in Slots
  BY DEF TypeOK
<1>1. ASSUME Shown' = Shown, Handed' = Handed  PROVE UNCHANGED FQ!vars
  BY <1>1 DEF FQ!vars, Shown, Handed
<1>2. ASSUME UNCHANGED <<head, buffer_size, ret>>,
             \A s \in Slots : /\ frameBuffer'[s].size = frameBuffer[s].size
                             /\ frameBuffer'[s].timestamp = frameBuffer[s].timestamp
      PROVE  UNCHANGED FQ!vars
  <2>1. \A i \in 1 .. buffer_size :
          AsFrame(frameBuffer[SlotAt(i - 1)])' = AsFrame(frameBuffer[SlotAt(i - 1)])
    <3> TAKE i \in 1 .. buffer_size
    <3>1. SlotAt(i - 1) \in Slots /\ SlotAt(i - 1)' = SlotAt(i - 1)
      BY <1>0, <1>2, SlotAtFacts DEF SlotAt
    <3> QED  BY <1>2, <3>1 DEF AsFrame
  <2>2. Shown' = Shown
    BY <1>2, <2>1 DEF Shown
  <2>3. Handed' = Handed
    BY <1>2 DEF Handed, AsFrame
  <2> QED  BY <1>1, <2>2, <2>3
<1>3. ASSUME NEW p \in Producers, PushDrop(p) \/ PushAdmit(p) \/ PushLock(p) \/ PushCopy(p)
      PROVE  UNCHANGED FQ!vars
  BY <1>2, <1>3 DEF PushDrop, PushAdmit, PushLock, PushCopy, ring
<1>4. ASSUME NEW p \in Producers, PushAlloc(p)  PROVE UNCHANGED FQ!vars
  <2>1. UNCHANGED <<head, buffer_size, ret>>
    BY <1>4 DEF PushAlloc
  <2>2. \A s \in Slots : /\ frameBuffer'[s].size = frameBuffer[s].size
                        /\ frameBuffer'[s].timestamp = frameBuffer[s].timestamp
    <3>1. frameBuffer' = frameBuffer
            \/ frameBuffer' = [frameBuffer EXCEPT ![tail].dataPtr = arg[p].timestamp]
      BY <1>4 DEF PushAlloc
    <3> QED  BY <1>0, <3>1 DEF Slot
  <2> QED  BY <1>2, <2>1, <2>2
<1>5. ASSUME NEW p \in Producers, PushCommit(p)  PROVE FQ!Next
  <2> DEFINE f == [size |-> arg[p].size, timestamp |-> arg[p].timestamp]
  <2>1. p \in Admitted /\ buffer_size < buffer_max_size /\ f \in Frame
    BY <1>5 DEF PushCommit, Admitted, RoomLeft, PushedIsFrame, Frame
  <2>2. /\ UNCHANGED <<head, ret>> /\ buffer_size' = buffer_size + 1
        /\ \A s \in Slots \ {tail} : frameBuffer'[s] = frameBuffer[s]
        /\ AsFrame(frameBuffer'[tail]) = f
    BY <1>0, <1>5 DEF PushCommit, AsFrame
  <2>3. \A i \in 1 .. buffer_size :
          AsFrame(frameBuffer[SlotAt(i - 1)])' = AsFrame(frameBuffer[SlotAt(i - 1)])
    <3> TAKE i \in 1 .. buffer_size
    <3>1. SlotAt(i - 1) \in Slots \ {tail} /\ SlotAt(i - 1)' = SlotAt(i - 1)
      BY <1>0, <2>1, <2>2, SlotAtFacts, QueuedApart DEF SlotAt
    <3> QED  BY <2>2, <3>1 DEF AsFrame
  <2>4. AsFrame(frameBuffer'[(head' + buffer_size) % buffer_max_size]) = f
    <3>1. (head' + buffer_size) % buffer_max_size = tail
      BY <2>2, SlotAtFacts DEF SlotAt
    <3> QED  BY <2>2, <3>1
  <2>5. Shown' = Append(Shown, f)
    <3>1. Shown' = [i \in 1 .. buffer_size + 1 |->
                      AsFrame(frameBuffer'[(head' + (i - 1)) % buffer_max_size])]
      BY <2>2 DEF Shown, SlotAt, AsFrame
    <3>2. (buffer_size + 1) - 1 = buffer_size
      BY <1>0
    <3>3. Shown'[buffer_size + 1] = f
      BY <1>0, <2>4, <3>1, <3>2
    <3>4. \A i \in 1 .. buffer_size : Shown'[i] = Shown[i]
      <4> TAKE i \in 1 .. buffer_size
      <4>1. i \in 1 .. buffer_size + 1
        BY <1>0
      <4>2. Shown'[i] = AsFrame(frameBuffer[SlotAt(i - 1)])'
        BY <3>1, <4>1 DEF SlotAt, AsFrame
      <4>3. Shown[i] = AsFrame(frameBuffer[SlotAt(i - 1)])
        BY DEF Shown
      <4> QED  BY <2>3, <4>2, <4>3
    <3>5. /\ Len(Shown) = buffer_size
          /\ Append(Shown, f) = [i \in 1 .. buffer_size + 1 |->
                                   IF i = buffer_size + 1 THEN f ELSE Shown[i]]
      BY <1>0 DEF Shown
    <3>6. Shown' = [i \in 1 .. buffer_size + 1 |->
                      IF i = buffer_size + 1 THEN f ELSE Shown[i]]
      <4>1. \A i \in 1 .. buffer_size + 1 :
              Shown'[i] = IF i = buffer_size + 1 THEN f ELSE Shown[i]
        BY <1>0, <3>3, <3>4
      <4>2. Shown' = [i \in 1 .. buffer_size + 1 |-> Shown'[i]]
        BY <3>1
      <4> QED  BY <4>1, <4>2
    <3> QED  BY <3>5, <3>6
  <2>6. Len(Shown) < buffer_max_size
    BY <1>0, <2>1 DEF Shown
  <2>7. Handed' = Handed
    BY <2>2 DEF Handed, AsFrame
  <2>8. FQ!Put(f)
    BY <2>5, <2>6, <2>7 DEF FQ!Put, Shown, Handed
  <2> QED  BY <2>1, <2>8 DEF FQ!Next
<1>6. ASSUME NEW c \in Consumers, StartPolling(c) \/ PollEmpty(c) \/ PollFrame(c) \/ PopLock(c) \/ Release(c)
      PROVE  UNCHANGED FQ!vars
  BY <1>2, <1>6 DEF StartPolling, PollEmpty, PollFrame, PopLock, Release, ring, vars
<1>7. ASSUME NEW c \in Consumers, PopMiss(c)  PROVE FQ!Next
  <2>1. /\ buffer_size = 0 /\ UNCHANGED <<head, buffer_size, frameBuffer>>
        /\ ret' = [ret EXCEPT ![c] = NullFrame]
    BY <1>7 DEF PopMiss, isEmptyBuffer, ring
  <2>2. Shown = <<>> /\ Shown' = Shown
    BY <2>1 DEF Shown, SlotAt
  <2>3. Handed' = [Handed EXCEPT ![c] = NoFrame]
    BY <1>0, <2>1 DEF Handed, AsFrame, NullFrame, NoFrame
  <2>4. FQ!TakeNone(c)
    BY <2>2, <2>3 DEF FQ!TakeNone, Shown, Handed
  <2> QED  BY <2>4 DEF FQ!Next
<1>8. ASSUME NEW c \in Consumers, PopTake(c)  PROVE FQ!Next
  <2>1. /\ buffer_size > 0 /\ UNCHANGED frameBuffer
        /\ head' = NextSlot(head) /\ buffer_size' = buffer_size - 1
        /\ ret' = [ret EXCEPT ![c] = frameBuffer[head]]
    BY <1>0, <1>8 DEF PopTake, isEmptyBuffer
  <2>2. Shown # <<>> /\ Head(Shown) = AsFrame(frameBuffer[head])
    <3>1. 1 \in 1 .. buffer_size /\ SlotAt(1 - 1) = head
      BY <1>0, <2>1, SlotAtFacts
    <3>2. Len(Shown) = buffer_size /\ Shown[1] = AsFrame(frameBuffer[head])
      BY <1>0, <3>1 DEF Shown
    <3> QED  BY <2>1, <3>2
  <2>3. \A i \in 1 .. buffer_size - 1 : SlotAt(i - 1)' = SlotAt(i)
    BY <1>0, <2>1, SlotAtFacts DEF SlotAt
  <2>4. Shown' = Tail(Shown)
    BY <1>0, <2>1, <2>3 DEF Shown, AsFrame
  <2>5. Handed' = [Handed EXCEPT ![c] = AsFrame(frameBuffer[head])]
    BY <1>0, <2>1 DEF Handed
  <2>6. FQ!Take(c)
    BY <2>2, <2>4, <2>5 DEF FQ!Take, Shown, Handed
  <2> QED  BY <2>6 DEF FQ!Next
<1>9. CASE UNCHANGED vars
  BY <1>2, <1>9 DEF vars
<1> QED
  BY <1>3, <1>4, <1>5, <1>6, <1>7, <1>8, <1>9, NextCases

(* pushFrame and popFrame implement a bounded first-in first-out queue     *)
(* when there is one capture thread, for any number of stream threads.     *)
THEOREM RingIsQueue == ASSUME OneProducer  PROVE Spec => ImplementsQueue
BY QueueInit, QueueStep, TypeCorrect, MutualExclusion, IndicesAgree,
   HeapAlways, SlotsAlways, RoomAlways, PushedAlways, PTL
DEF Spec, ImplementsQueue, FQ!Spec

=============================================================================
