---------------------------- MODULE DataCapture -----------------------------
(***************************************************************************)
(* The frame buffer of the server: the singleton DataCapture, a ring of    *)
(* buffer_max_size slots that capture threads fill with pushFrame and the  *)
(* stream thread of every client empties with popFrame.                    *)
(*                                                                         *)
(* bufferMutex guards the ring, but three accesses escape it, and the      *)
(* actions are cut where they do:                                          *)
(*   - pushFrame tests isFullBuffer before it takes the lock;              *)
(*   - the caller of popFrame tests isEmptyBuffer without the lock;        *)
(*   - popFrame returns a copy of the slot, pointer included, so that the  *)
(*     caller reads the slot's memory after the unlock.                    *)
(* The unlocked reads of buffer_size are reads of an aligned int, so they  *)
(* return its value before or after the one locked write that may be under *)
(* way; head and tail are touched only under the lock.                     *)
(*                                                                         *)
(* A frame is its size and its timestamp, which is distinct for each call  *)
(* of pushFrame.  Of a byte in memory, what matters is whose it is: the    *)
(* data of a block says for every offset which frame's byte stands there,  *)
(* by the frame's timestamp, and 0 where no frame's was written yet or     *)
(* the block has ended.  A block is named after the call of pushFrame that *)
(* allocated it.                                                           *)
(***************************************************************************)
EXTENDS Integers, FiniteSets

CONSTANTS
  Producers,        (* capture threads: one is started by every SETUP *)
  Consumers,        (* stream threads: one is started by every SETUP *)
  buffer_max_size,  (* slots of the ring, 10 in the code *)
  Sizes,            (* sizes a frame may have *)
  MaxSize,          (* the largest of them: sizes are ints *)
  MaxFrames,        (* bound: calls of pushFrame in a behaviour *)
  None              (* no thread owns the mutex *)

ASSUME ConstantsOK ==
  /\ buffer_max_size \in Nat \ {0}
  /\ MaxSize \in Nat /\ Sizes \subseteq 0 .. MaxSize
  /\ MaxFrames \in Nat
  /\ Producers \cap Consumers = {}
  /\ None \notin Producers \cup Consumers

VARIABLES
  frameBuffer,  (* the slots: [dataPtr, size, timestamp] *)
  head, tail, buffer_size,
  bufferMutex,  (* the owner of the mutex, or None *)
  heap,         (* the memory: [live, cap, data] for every block *)
  pc,           (* where each thread is in its call *)
  arg,          (* the frame each producer is pushing *)
  ret,          (* the frame the last popFrame of each consumer returned *)
  lead,         (* history: pushes that must start to reach the slot of ret *)
  captured      (* calls of pushFrame so far *)

vars == <<frameBuffer, head, tail, buffer_size, bufferMutex, heap, pc, arg,
          ret, lead, captured>>

ring == <<frameBuffer, head, tail, buffer_size>>

Threads == Producers \cup Consumers
Slots   == 0 .. buffer_max_size - 1
Ids     == 1 .. MaxFrames
Offsets == 0 .. MaxSize
nullptr == 0
NullFrame == [dataPtr |-> nullptr, size |-> 0, timestamp |-> 0]
NoData == [x \in Offsets |-> 0]

-----------------------------------------------------------------------------
(* Helpers.  Here and below, X_Slip is the form that X, defined next, would *)
(* have after the mistake in the code that its suffix names.  Nothing uses *)
(* it: it shows that a property of X can fail.                             *)

Full_Never == FALSE
isFullBuffer == buffer_size = buffer_max_size

Empty_LastToo == buffer_size <= 1
isEmptyBuffer == buffer_size = 0

NextSlot_PastEnd(i) == (i + 1) % (buffer_max_size + 1)
NextSlot(i) == (i + 1) % buffer_max_size

Goto(t, l) == pc' = [pc EXCEPT ![t] = l]

Acquire(t) == bufferMutex = None /\ bufferMutex' = t
Unlock == bufferMutex' = None

(* The block a frame of size n gets in slot s: a new one if the slot has   *)
(* none, or if the last frame it held was smaller.                         *)
NeedsBlock_Swapped(s, n) ==
  frameBuffer[s].dataPtr = nullptr \/ frameBuffer[s].size > n
NeedsBlock(s, n) ==
  frameBuffer[s].dataPtr = nullptr \/ frameBuffer[s].size < n

Freed_Leak(b, h) == h
Freed(b, h) ==
  IF b = nullptr THEN h ELSE [h EXCEPT ![b].live = FALSE]

-----------------------------------------------------------------------------
Init ==
  /\ frameBuffer = [s \in Slots |-> NullFrame]
  /\ head = 0 /\ tail = 0 /\ buffer_size = 0
  /\ bufferMutex = None
  /\ heap = [b \in Ids |-> [live |-> FALSE, cap |-> 0, data |-> NoData]]
  /\ pc = [t \in Threads |-> IF t \in Producers THEN "idle" ELSE "away"]
  /\ arg = [p \in Producers |-> [size |-> 0, timestamp |-> 0]]
  /\ ret = [c \in Consumers |-> NullFrame]
  /\ lead = [c \in Consumers |-> 0]
  /\ captured = 0

(* pushFrame.  The ring is full: the frame is dropped. *)
PushDrop(p) ==
  /\ pc[p] = "idle" /\ captured < MaxFrames
  /\ isFullBuffer
  /\ captured' = captured + 1
  /\ UNCHANGED <<ring, bufferMutex, heap, pc, arg, ret, lead>>

(* The ring is not full now: go on to the lock. *)
PushAdmit(p) ==
  /\ pc[p] = "idle" /\ captured < MaxFrames
  /\ ~isFullBuffer
  /\ captured' = captured + 1
  /\ \E n \in Sizes :
       arg' = [arg EXCEPT ![p] = [size |-> n, timestamp |-> captured + 1]]
  /\ Goto(p, "lock")
  /\ UNCHANGED <<ring, bufferMutex, heap, ret, lead>>

PushLock(p) ==
  /\ pc[p] = "lock"
  /\ Acquire(p)
  /\ Goto(p, "alloc")
  /\ UNCHANGED <<ring, heap, arg, ret, lead, captured>>

(* Make room for the frame in the slot at tail. *)
PushAlloc(p) ==
  /\ pc[p] = "alloc"
  /\ IF NeedsBlock(tail, arg[p].size)
       THEN LET b == arg[p].timestamp IN
            /\ heap' = [Freed(frameBuffer[tail].dataPtr, heap)
                          EXCEPT ![b] = [live |-> TRUE, cap |-> arg[p].size,
                                         data |-> NoData]]
            /\ frameBuffer' = [frameBuffer EXCEPT ![tail].dataPtr = b]
       ELSE UNCHANGED <<heap, frameBuffer>>
  /\ lead' = [c \in Consumers |-> IF lead[c] > 0 THEN lead[c] - 1 ELSE 0]
  /\ Goto(p, "copy")
  /\ UNCHANGED <<head, tail, buffer_size, bufferMutex, arg, ret, captured>>

(* memcpy the frame into the slot's block.  Where the block is larger than *)
(* the frame, the rest of it keeps what it held.                           *)
PushCopy(p) ==
  /\ pc[p] = "copy"
  /\ heap' = [heap EXCEPT ![frameBuffer[tail].dataPtr].data =
                [x \in Offsets |-> IF x < arg[p].size THEN arg[p].timestamp
                                                     ELSE @[x]]]
  /\ Goto(p, "commit")
  /\ UNCHANGED <<ring, bufferMutex, arg, ret, lead, captured>>

PushCommit(p) ==
  /\ pc[p] = "commit"
  /\ frameBuffer' = [frameBuffer EXCEPT ![tail] =
                       [dataPtr |-> @.dataPtr, size |-> arg[p].size,
                        timestamp |-> arg[p].timestamp]]
  /\ tail' = NextSlot(tail)
  /\ buffer_size' = buffer_size + 1
  /\ Unlock
  /\ Goto(p, "idle")
  /\ UNCHANGED <<head, heap, arg, ret, lead, captured>>

(* The caller, HandleMediaStream, comes to its loop around popFrame when   *)
(* it finds streamState == Play, which is for its client to command (see   *)
(* MediaStream), and stays in it until there is no frame.                  *)
StartPolling(c) ==
  /\ pc[c] = "away"
  /\ Goto(c, "poll")
  /\ UNCHANGED <<ring, bufferMutex, heap, arg, ret, lead, captured>>

PollEmpty(c) ==
  /\ pc[c] = "poll"
  /\ isEmptyBuffer
  /\ Goto(c, "away")
  /\ UNCHANGED <<ring, bufferMutex, heap, arg, ret, lead, captured>>

PollFrame(c) ==
  /\ pc[c] = "poll"
  /\ ~isEmptyBuffer
  /\ Goto(c, "lock")
  /\ UNCHANGED <<ring, bufferMutex, heap, arg, ret, lead, captured>>

(* popFrame. *)
PopLock(c) ==
  /\ pc[c] = "lock"
  /\ Acquire(c)
  /\ Goto(c, "take")
  /\ UNCHANGED <<ring, heap, arg, ret, lead, captured>>

(* Another consumer emptied the ring in between: the null frame, which the *)
(* caller skips.                                                           *)
PopMiss_KeepsLock(c) ==
  /\ pc[c] = "take"
  /\ isEmptyBuffer
  /\ ret' = [ret EXCEPT ![c] = NullFrame]
  /\ lead' = [lead EXCEPT ![c] = 0]
  /\ Goto(c, "poll")
  /\ UNCHANGED <<ring, bufferMutex, heap, arg, captured>>

PopMiss(c) ==
  /\ pc[c] = "take"
  /\ isEmptyBuffer
  /\ ret' = [ret EXCEPT ![c] = NullFrame]
  /\ lead' = [lead EXCEPT ![c] = 0]
  /\ Unlock
  /\ Goto(c, "poll")
  /\ UNCHANGED <<ring, heap, arg, captured>>

(* The oldest frame.  The caller sends it, unless its size is 0. *)
PopTake_Unchecked(c) ==
  /\ pc[c] = "take"
  /\ ret' = [ret EXCEPT ![c] = frameBuffer[head]]
  /\ lead' = [lead EXCEPT ![c] = buffer_max_size - buffer_size + 1]
  /\ head' = NextSlot(head)
  /\ buffer_size' = buffer_size - 1
  /\ Unlock
  /\ Goto(c, IF frameBuffer[head].size > 0 THEN "hold" ELSE "poll")
  /\ UNCHANGED <<frameBuffer, tail, heap, arg, captured>>

PopTake_HeadFirst(c) ==
  /\ pc[c] = "take"
  /\ ~isEmptyBuffer
  /\ ret' = [ret EXCEPT ![c] = frameBuffer[NextSlot(head)]]
  /\ lead' = [lead EXCEPT ![c] = buffer_max_size - buffer_size + 1]
  /\ head' = NextSlot(head)
  /\ buffer_size' = buffer_size - 1
  /\ Unlock
  /\ Goto(c, IF ret'[c].size > 0 THEN "hold" ELSE "poll")
  /\ UNCHANGED <<frameBuffer, tail, heap, arg, captured>>

PopTake(c) ==
  /\ pc[c] = "take"
  /\ ~isEmptyBuffer
  /\ ret' = [ret EXCEPT ![c] = frameBuffer[head]]
  /\ lead' = [lead EXCEPT ![c] = buffer_max_size - buffer_size + 1]
  /\ head' = NextSlot(head)
  /\ buffer_size' = buffer_size - 1
  /\ Unlock
  /\ Goto(c, IF frameBuffer[head].size > 0 THEN "hold" ELSE "poll")
  /\ UNCHANGED <<frameBuffer, tail, heap, arg, captured>>

(* The caller has sent the frame: its last access through ret.dataPtr. *)
Release(c) ==
  /\ pc[c] = "hold"
  /\ Goto(c, "poll")
  /\ UNCHANGED <<ring, bufferMutex, heap, arg, ret, lead, captured>>

Produce(p) ==
  \/ PushDrop(p) \/ PushAdmit(p) \/ PushLock(p) \/ PushAlloc(p)
  \/ PushCopy(p) \/ PushCommit(p)

Consume(c) ==
  \/ StartPolling(c) \/ PollEmpty(c) \/ PollFrame(c)
  \/ PopLock(c) \/ PopMiss(c) \/ PopTake(c)
  \/ Release(c)

Next ==
  \/ \E p \in Producers : Produce(p)
  \/ \E c \in Consumers : Consume(c)

Spec == Init /\ [][Next]_vars

-----------------------------------------------------------------------------
(* Properties.                                                             *)

Frame == [size : Sizes, timestamp : Ids]
NoFrame == [size |-> 0, timestamp |-> 0]
Slot == [dataPtr : Ids \cup {nullptr}, size : Sizes \cup {0},
         timestamp : Ids \cup {0}]

Memory == [live : BOOLEAN, cap : Sizes \cup {0},
           data : [Offsets -> Ids \cup {0}]]

Storing == {p \in Producers : pc[p] \in {"alloc", "copy", "commit"}}
Taking  == {c \in Consumers : pc[c] = "take"}
Holding == {c \in Consumers : pc[c] = "hold"}

(* Every variable of pushFrame, popFrame and the ring has its type. *)
TypeOK ==
  /\ frameBuffer \in [Slots -> Slot]
  /\ head \in Slots /\ tail \in Slots /\ buffer_size \in Nat
  /\ bufferMutex \in Threads \cup {None}
  /\ heap \in [Ids -> Memory]
  /\ pc \in [Threads -> {"idle", "lock", "alloc", "copy", "commit",
                         "away", "poll", "take", "hold"}]
  /\ arg \in [Producers -> [size : Sizes \cup {0}, timestamp : Ids \cup {0}]]
  /\ ret \in [Consumers -> Slot]
  /\ lead \in [Consumers -> Int]
  /\ captured \in 0 .. MaxFrames

(* At most one thread is between lock() and unlock() of bufferMutex, and   *)
(* the mutex is held exactly while one is: no path of pushFrame or         *)
(* popFrame, the early return of popFrame included, returns with it.       *)
LockHeldByCaller ==
  \A t \in Threads : (bufferMutex = t) <=> (t \in Storing \cup Taking)

(* The memcpy of pushFrame stays inside the block of the slot, although    *)
(* the decision to reallocate compares the new frame with the last one     *)
(* stored in the slot and not with the size of the block.                  *)
NoOverrun ==
  \A p \in Producers : pc[p] = "copy" =>
    LET b == frameBuffer[tail].dataPtr IN
      b # nullptr /\ heap[b].live /\ arg[p].size <= heap[b].cap

(* The reallocations of pushFrame neither leak a block nor leave a slot    *)
(* with a freed one, and no two slots share a block: the live blocks are   *)
(* those of the slots, which the destructor frees.                         *)
HeapOwned ==
  /\ {b \in Ids : heap[b].live}
       = {frameBuffer[s].dataPtr : s \in Slots} \ {nullptr}
  /\ \A s, r \in Slots :
       frameBuffer[s].dataPtr = frameBuffer[r].dataPtr
         => s = r \/ frameBuffer[s].dataPtr = nullptr

(* head, tail and buffer_size agree, whatever the number of producers. *)
RingCoherent == tail = (head + buffer_size) % buffer_max_size

(* "Frames are added only while the buffer is not full"                    *)
(* (DataCapture.cpp:16): the ring never counts more frames than it has     *)
(* slots.  isFullBuffer is tested outside the lock, so this takes a single *)
(* producer.                                                               *)
CapacityRespected == buffer_size <= buffer_max_size

(* The slot of the i-th oldest frame, 0 for the oldest. *)
SlotAt(i) == (head + i) % buffer_max_size

(* The memory of frame f is alive, large enough, and its first f.size      *)
(* bytes are those of f; none of the bytes that follow is.                 *)
Intact(f) ==
  /\ f.dataPtr # nullptr
  /\ heap[f.dataPtr].live
  /\ f.size <= heap[f.dataPtr].cap
  /\ \A x \in Offsets : heap[f.dataPtr].data[x] = f.timestamp <=> x < f.size

(* Every frame that waits in the ring is intact: pushFrame never writes    *)
(* into, or frees, a slot that popFrame has yet to return.                 *)
QueuedIntact ==
  \A i \in 0 .. buffer_size - 1 : Intact(frameBuffer[SlotAt(i)])

(* The copy of the slot that popFrame returns keeps pointing to memory of  *)
(* the ring after the unlock.  With n frames in the ring when it was       *)
(* taken, the bytes are safe until the (buffer_max_size - n + 1)-th next   *)
(* pushFrame starts to write: this is how long a stream thread may take to *)
(* send a frame.                                                           *)
LapSafe == \A c \in Holding : lead[c] > 0 => Intact(ret[c])

AsFrame(f) == [size |-> f.size, timestamp |-> f.timestamp]

FQ == INSTANCE FrameQueue WITH
  Frames <- Frame, Consumers <- Consumers, Capacity <- buffer_max_size,
  NoFrame <- NoFrame,
  queue <- [i \in 1 .. buffer_size |-> AsFrame(frameBuffer[SlotAt(i - 1)])],
  handed <- [c \in Consumers |-> AsFrame(ret[c])]

(* pushFrame and popFrame implement a bounded FIFO queue: each frame       *)
(* admitted is handed to one consumer, once, oldest first, and "no frame"  *)
(* is returned only when the queue is empty (DataCapture.cpp:47-48).       *)
ImplementsQueue == FQ!Spec

(* A call of pushFrame that passed the test of isFullBuffer returns, even  *)
(* though nothing makes the mutex fair: consumers compete for it only      *)
(* while the ring is not empty, and they empty it.  One producer.          *)
PushReturns ==
  \A p \in Producers : pc[p] = "lock" ~> pc[p] = "idle"

Queued(ts) ==
  \E i \in 0 .. buffer_size - 1 : frameBuffer[SlotAt(i)].timestamp = ts

(* Every frame in the ring is in the end taken out by a consumer, as long  *)
(* as some consumer, not always the same, comes to poll the ring again and *)
(* again: that is, unless the clients have all stopped playing for good.   *)
FrameLeaves ==
  []<>(\E c \in Consumers : pc[c] # "away")
    => \A ts \in Ids : Queued(ts) ~> ~Queued(ts)

=============================================================================
