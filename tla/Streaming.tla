------------------------------ MODULE Streaming -------------------------------
(***************************************************************************)
(* The frame buffer together with its users, the stream threads: what      *)
(* HandleMediaStream makes of the frame that popFrame has returned.  It    *)
(* sends the frame in as many RTP packets as it takes, and                 *)
(* SendFragmentedRTPPackets reads the bytes for them through the pointer   *)
(* of the slot, without the mutex, while capture threads go on.            *)
(*                                                                         *)
(* The packets, which RtpSender cuts, carry the bytes that are read one    *)
(* after the other from the first on.                                      *)
(***************************************************************************)
EXTENDS DataCapture, Sequences

CONSTANT MAX_RTP_DATA_SIZE  (* the bytes of a frame in one packet *)

ASSUME PacketSizeOK == MAX_RTP_DATA_SIZE \in Nat \ {0}

VARIABLE bytes  (* whose bytes each consumer has read for the frame it is *)
                (* sending: frames' timestamps, and 0 for memory that no  *)
                (* frame has written, or that is freed, whatever is there *)

svars == <<vars, bytes>>

(* How many bytes a frame of n bytes is sent with.  Of a frame that fits   *)
(* in a packet these are its own; the fragments of another one start after *)
(* its first byte, the NAL header, which goes into their FU headers, and   *)
(* make up for that with the byte that follows the frame.                  *)
bytesRead(n) == IF n <= MAX_RTP_DATA_SIZE THEN n ELSE n + 1

(* What a read at offset x of block b may meet: where a producer is        *)
(* copying to b meanwhile, the old byte or the new one.                    *)
Readable(b, x) ==
  IF ~heap[b].live THEN {0}
  ELSE {heap[b].data[x]} \cup
         {arg[p].timestamp : p \in {q \in Producers :
            /\ pc[q] = "copy" /\ frameBuffer[tail].dataPtr = b
            /\ x < arg[q].size}}

SInit == Init /\ bytes = [c \in Consumers |-> <<>>]

(* As if SendFragmentedRTPPackets read the slot at head, and not the one   *)
(* that popFrame has returned.                                             *)
ReadByte_AtHead(c) ==
  /\ pc[c] = "hold" /\ Len(bytes[c]) < bytesRead(ret[c].size)
  /\ frameBuffer[head].dataPtr # nullptr
  /\ \E ts \in Readable(frameBuffer[head].dataPtr, Len(bytes[c])) :
       bytes' = [bytes EXCEPT ![c] = Append(@, ts)]
  /\ UNCHANGED vars

ReadByte(c) ==
  /\ pc[c] = "hold" /\ Len(bytes[c]) < bytesRead(ret[c].size)
  /\ \E ts \in Readable(ret[c].dataPtr, Len(bytes[c])) :
       bytes' = [bytes EXCEPT ![c] = Append(@, ts)]
  /\ UNCHANGED vars

FrameSent(c) ==
  /\ Len(bytes[c]) = bytesRead(ret[c].size)
  /\ Release(c)
  /\ bytes' = [bytes EXCEPT ![c] = <<>>]

Receive(c) ==
  /\ PollEmpty(c) \/ PollFrame(c) \/ PopLock(c) \/ PopMiss(c) \/ PopTake(c)
  /\ UNCHANGED bytes

(* The client has commanded PLAY, and the thread has seen it. *)
Play(c) == StartPolling(c) /\ UNCHANGED bytes

Capture(p) == Produce(p) /\ UNCHANGED bytes
Stream(c) == Receive(c) \/ ReadByte(c) \/ FrameSent(c)

SNext ==
  \/ \E p \in Producers : Capture(p)
  \/ \E c \in Consumers : Play(c) \/ Stream(c)

SSpec == SInit /\ [][SNext]_svars

(* Every thread is scheduled; that a client plays is its own choice.       *)
(* Nothing is assumed of the mutex: a thread that waits for it may lose it *)
(* to another one again and again.                                         *)
SFairness ==
  /\ \A p \in Producers : WF_svars(Capture(p))
  /\ \A c \in Consumers : WF_svars(Stream(c))

SFairSpec == SSpec /\ SFairness

-----------------------------------------------------------------------------
(* Properties.                                                             *)

STypeOK == TypeOK /\ bytes \in [Consumers -> Seq(Ids \cup {0})]

(* A stream thread that is done with a frame before as many pushes have    *)
(* started as the ring had free slots when it took the frame, and one, has *)
(* sent the frame: every byte it read within the frame is the frame's.     *)
(* The byte that follows a fragmented frame, which it sends too, is never  *)
(* one of this frame.                                                      *)
SentWithinLap ==
  \A c \in Holding : lead[c] > 0 =>
    \A k \in DOMAIN bytes[c] :
      bytes[c][k] = ret[c].timestamp <=> k <= ret[c].size

(* What a stream thread that is late sends in place of the frame's bytes   *)
(* is memory that was freed, or bytes of a frame captured a whole ring     *)
(* later: within the frame's size it is never an older frame, although a   *)
(* larger block keeps the end of one behind a smaller frame, nor one that  *)
(* still waits to be sent from another slot.  One producer.                *)
ForeignIsNewer ==
  \A c \in Holding : \A k \in DOMAIN bytes[c] :
    \/ k > ret[c].size
    \/ bytes[c][k] \in {0, ret[c].timestamp}
    \/ bytes[c][k] >= ret[c].timestamp + buffer_max_size

(* "Safe access to frame data across threads" (DataCapture.h:6): what is   *)
(* sent as the bytes of a frame are bytes of that frame.                   *)
FrameSentWhole ==
  \A c \in Holding : \A k \in DOMAIN bytes[c] :
    k <= ret[c].size => bytes[c][k] = ret[c].timestamp

=============================================================================
