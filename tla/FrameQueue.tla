----------------------------- MODULE FrameQueue -----------------------------
(***************************************************************************)
(* What the frame buffer promises its users: a bounded first-in first-out  *)
(* queue of captured frames, shared by every consumer.  A put is accepted  *)
(* only while there is room, a take hands the oldest frame to one          *)
(* consumer, and a consumer is told that there is no frame only when there *)
(* is none.  DataCapture is the implementation, MediaStream a user.        *)
(***************************************************************************)
EXTENDS Naturals, Sequences

CONSTANTS
  Frames,     (* the frames that can be put *)
  Consumers,  (* the threads that take frames *)
  Capacity,   (* the most frames the queue may hold *)
  NoFrame     (* what a consumer gets from an empty queue *)

VARIABLES
  queue,      (* the frames put and not yet taken, oldest first *)
  handed      (* what the last take of each consumer returned *)

vars == <<queue, handed>>

Init ==
  /\ queue = <<>>
  /\ handed = [c \in Consumers |-> NoFrame]

(* Put without the test for room, a mistake that nothing uses. *)
Put_Unbounded(f) ==
  /\ queue' = Append(queue, f)
  /\ UNCHANGED handed

Put(f) ==
  /\ Len(queue) < Capacity
  /\ queue' = Append(queue, f)
  /\ UNCHANGED handed

Take(c) ==
  /\ queue # <<>>
  /\ handed' = [handed EXCEPT ![c] = Head(queue)]
  /\ queue' = Tail(queue)

TakeNone(c) ==
  /\ queue = <<>>
  /\ handed' = [handed EXCEPT ![c] = NoFrame]
  /\ UNCHANGED queue

Next ==
  \/ \E f \in Frames : Put(f)
  \/ \E c \in Consumers : Take(c) \/ TakeNone(c)

Spec == Init /\ [][Next]_vars

=============================================================================
