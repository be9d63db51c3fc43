----------------------------- MODULE RtpSender ------------------------------
(***************************************************************************)
(* What one stream thread sends: SendFragmentedRTPPackets cuts each frame  *)
(* into RTP packets, rtp_sendto numbers them, and HandleMediaStream sends  *)
(* a sender report from time to time.                                      *)
(*                                                                         *)
(* A frame is its size.  A packet is its header fields and the range       *)
(* [from, from + len) of the frame's bytes that it carries; byte 0 is the  *)
(* NAL header, which a fragment carries in its two FU bytes.  sendto may   *)
(* fail and the network may lose packets: the code looks at neither, and   *)
(* `sent' is what was handed to sendto.                                    *)
(***************************************************************************)
EXTENDS Integers, Sequences

CONSTANTS
  MAX_RTP_DATA_SIZE,  (* most bytes of a frame in a packet, 65493 *)
  RTP_HEADER_SIZE,    (* 12 *)
  FU_SIZE,            (* 2 *)
  ReportEvery,        (* a sender report every 100 frames *)
  SeqMod,             (* 2^16: seq is a uint16_t *)
  CountMod,           (* 2^32: the counters are unsigned ints *)
  Sizes,              (* sizes of frames *)
  MaxFrames           (* bound: frames in a behaviour *)

ASSUME ConstantsOK ==
  /\ MAX_RTP_DATA_SIZE \in Nat \ {0}
  /\ RTP_HEADER_SIZE \in Nat /\ FU_SIZE \in Nat
  /\ ReportEvery \in Nat \ {0}
  /\ SeqMod \in Nat \ {0} /\ CountMod \in Nat \ {0}
  /\ Sizes \subseteq Nat \ {0}
  /\ MaxFrames \in Nat

VARIABLES
  pc,
  payloadSize, timestamp,    (* the frame being sent *)
  i, pos,                    (* the loop of SendFragmentedRTPPackets *)
  seq,                       (* seq of the next packet *)
  packetCount, octetCount,   (* what the next sender report will say *)
  sent,                      (* the packets of the current frame *)
  report,                    (* the last sender report *)
  seqNum,                    (* history: the first seq, *)
  total, octets              (* packets and bytes of frames sent in all *)

frame    == <<payloadSize, timestamp>>
counters == <<packetCount, octetCount>>
network  == <<seq, sent, total, octets>>
vars == <<pc, frame, i, pos, network, counters, report, seqNum>>

MAX_RTP_PACKET_LEN == MAX_RTP_DATA_SIZE + RTP_HEADER_SIZE + FU_SIZE

packetNum == payloadSize \div MAX_RTP_DATA_SIZE
remainPacketSize == payloadSize % MAX_RTP_DATA_SIZE

NoReport == [rtpTimestamp |-> 0, senderPacketCount |-> 0, senderOctetCount |-> 0]

Init ==
  /\ pc = "idle"
  /\ payloadSize = 0 /\ timestamp = 0
  /\ i = 0 /\ pos = 0
  /\ seqNum \in 1 .. SeqMod - 1 /\ seq = seqNum
  /\ packetCount = 0 /\ octetCount = 0
  /\ sent = <<>> /\ total = 0 /\ octets = 0
  /\ report = NoReport

(* set_seq(get_seq() + 1).  Here and below, X_Slip is the form that X,      *)
(* defined next, would have after the mistake in the code that its suffix  *)
(* names; nothing uses it.                                                 *)
nextSeq_Unwrapped == seq + 1
nextSeq_Stuck == seq
nextSeq == (seq + 1) % SeqMod

(* The packet goes out with the header as it stands, then seq is           *)
(* incremented for the next one.                                           *)
rtp_sendto(from, len, length, S, E, marker) ==
  /\ sent' = Append(sent, [seq |-> seq, timestamp |-> timestamp, S |-> S,
                           E |-> E, marker |-> marker, from |-> from,
                           len |-> len, length |-> length])
  /\ seq' = nextSeq
  /\ total' = total + 1
  /\ octets' = octets + len

(* HandleMediaStream has popped a frame of n bytes. *)
Begin(n) ==
  /\ pc = "idle" /\ timestamp < MaxFrames
  /\ payloadSize' = n
  /\ timestamp' = timestamp + 1
  /\ sent' = <<>>
  /\ i' = 0 /\ pos' = 1
  /\ pc' = IF n <= MAX_RTP_DATA_SIZE THEN "single" ELSE "fragment"
  /\ UNCHANGED <<seq, counters, report, seqNum, total, octets>>

(* A frame that fits is one packet, without FU bytes. *)
SendSingle ==
  /\ pc = "single"
  /\ rtp_sendto(0, payloadSize, RTP_HEADER_SIZE + payloadSize,
                FALSE, FALSE, TRUE)
  /\ pc' = "count"
  /\ UNCHANGED <<frame, i, pos, counters, report, seqNum>>

(* A turn of the loop.  The FU header says start on the first fragment,    *)
(* and end on the last one if the loop sends it.                           *)
SendFragment_EndLost ==
  /\ pc = "fragment" /\ i < packetNum
  /\ rtp_sendto(pos, MAX_RTP_DATA_SIZE, MAX_RTP_PACKET_LEN, i = 0, FALSE, FALSE)
  /\ pos' = pos + MAX_RTP_DATA_SIZE
  /\ i' = i + 1
  /\ UNCHANGED <<pc, frame, counters, report, seqNum>>

SendFragment_NoAdvance ==
  /\ pc = "fragment" /\ i < packetNum
  /\ rtp_sendto(pos, MAX_RTP_DATA_SIZE, MAX_RTP_PACKET_LEN, i = 0,
                i # 0 /\ i = packetNum - 1 /\ remainPacketSize = 0, FALSE)
  /\ i' = i + 1
  /\ UNCHANGED <<pc, frame, pos, counters, report, seqNum>>

SendFragment ==
  /\ pc = "fragment" /\ i < packetNum
  /\ rtp_sendto(pos, MAX_RTP_DATA_SIZE, MAX_RTP_PACKET_LEN, i = 0,
                i # 0 /\ i = packetNum - 1 /\ remainPacketSize = 0, FALSE)
  /\ pos' = pos + MAX_RTP_DATA_SIZE
  /\ i' = i + 1
  /\ UNCHANGED <<pc, frame, counters, report, seqNum>>

(* What is left after the loop, if anything. *)
SendRest_Full ==
  /\ pc = "fragment" /\ i = packetNum
  /\ IF remainPacketSize > 0
       THEN rtp_sendto(pos, MAX_RTP_DATA_SIZE,
                       RTP_HEADER_SIZE + FU_SIZE + MAX_RTP_DATA_SIZE,
                       FALSE, TRUE, TRUE)
       ELSE UNCHANGED network
  /\ pc' = "count"
  /\ UNCHANGED <<frame, i, pos, counters, report, seqNum>>

SendRest ==
  /\ pc = "fragment" /\ i = packetNum
  /\ IF remainPacketSize > 0
       THEN rtp_sendto(pos, remainPacketSize,
                       RTP_HEADER_SIZE + FU_SIZE + remainPacketSize,
                       FALSE, TRUE, TRUE)
       ELSE UNCHANGED network
  /\ pc' = "count"
  /\ UNCHANGED <<frame, i, pos, counters, report, seqNum>>

(* Back in HandleMediaStream: one more packetCount for the frame, and a    *)
(* sender report when it is a multiple of ReportEvery.                     *)
Count_OctetsDecide ==
  /\ pc = "count"
  /\ packetCount' = (packetCount + 1) % CountMod
  /\ octetCount' = (octetCount + payloadSize) % CountMod
  /\ report' =
       IF octetCount' % ReportEvery = 0
         THEN [rtpTimestamp |-> timestamp, senderPacketCount |-> packetCount',
               senderOctetCount |-> octetCount']
         ELSE report
  /\ pc' = "idle"
  /\ UNCHANGED <<frame, i, pos, network, seqNum>>

Count ==
  /\ pc = "count"
  /\ packetCount' = (packetCount + 1) % CountMod
  /\ octetCount' = (octetCount + payloadSize) % CountMod
  /\ report' =
       IF packetCount' % ReportEvery = 0
         THEN [rtpTimestamp |-> timestamp, senderPacketCount |-> packetCount',
               senderOctetCount |-> octetCount']
         ELSE report
  /\ pc' = "idle"
  /\ UNCHANGED <<frame, i, pos, network, seqNum>>

(* The buffer is empty. *)
NoFrameYet == pc = "idle" /\ UNCHANGED vars

Next ==
  \/ \E n \in Sizes : Begin(n)
  \/ NoFrameYet \/ SendSingle
  \/ SendFragment \/ SendRest \/ Count

Spec == Init /\ [][Next]_vars

-----------------------------------------------------------------------------
(* Properties.                                                             *)

Packet == [seq : 0 .. SeqMod - 1, timestamp : 1 .. MaxFrames,
           S : BOOLEAN, E : BOOLEAN, marker : BOOLEAN,
           from : Nat, len : Nat, length : Nat]

(* Every variable has its type. *)
TypeOK ==
  /\ pc \in {"idle", "single", "fragment", "count"}
  /\ payloadSize \in Sizes \cup {0} /\ timestamp \in 0 .. MaxFrames
  /\ i \in Nat /\ pos \in Nat
  /\ seq \in 0 .. SeqMod - 1 /\ seqNum \in 1 .. SeqMod - 1
  /\ packetCount \in 0 .. CountMod - 1 /\ octetCount \in 0 .. CountMod - 1
  /\ sent \in Seq(Packet)
  /\ report \in [rtpTimestamp : 0 .. MaxFrames,
                 senderPacketCount : 0 .. CountMod - 1,
                 senderOctetCount : 0 .. CountMod - 1]
  /\ total \in Nat /\ octets \in Nat

FrameSent == pc = "count"
Fragmented == payloadSize > MAX_RTP_DATA_SIZE

(* A receiver finds the frame's fragments by their FU headers: start on    *)
(* the first packet only, end on the last one only, neither on a frame     *)
(* sent in one packet; every packet bears the frame's timestamp, and no    *)
(* packet before the last one bears the marker.                            *)
FragmentsDelimited ==
  FrameSent =>
    \A k \in DOMAIN sent :
      /\ sent[k].S <=> Fragmented /\ k = 1
      /\ sent[k].E <=> Fragmented /\ k = Len(sent)
      /\ sent[k].marker => k = Len(sent)
      /\ sent[k].timestamp = timestamp

(* "For H.264 video: set to 1 to mark the last packet of a frame"          *)
(* (RTPHeader.hpp:111-112): a receiver sees by the marker that the frame   *)
(* is complete.                                                            *)
MarkerOnLast == FrameSent => sent # <<>> /\ sent[Len(sent)].marker

(* The packets carry the frame's bytes in order, without a gap or an       *)
(* overlap: all of them in a single packet, or all but the NAL header.     *)
FrameCovered ==
  FrameSent =>
    /\ sent # <<>>
    /\ sent[1].from = IF Fragmented THEN 1 ELSE 0
    /\ \A k \in 1 .. Len(sent) - 1 :
         sent[k + 1].from = sent[k].from + sent[k].len
    /\ sent[Len(sent)].from + sent[Len(sent)].len >= payloadSize

(* No packet is longer than the packet buffer and UDP allow, none is       *)
(* empty, and the copies read at most one byte past the frame: they do     *)
(* read that one, in the last packet of every fragmented frame.            *)
PacketsFit ==
  \A k \in DOMAIN sent :
    /\ sent[k].length <= MAX_RTP_PACKET_LEN
    /\ sent[k].len \in 1 .. MAX_RTP_DATA_SIZE
    /\ sent[k].from + sent[k].len <= payloadSize + 1

(* Packets are numbered one after the other modulo 2^16, from the first    *)
(* one of the stream on, within a frame and from a frame to the next, so   *)
(* that a receiver can tell a lost packet.                                 *)
SeqCountsPackets ==
  /\ seq = (seqNum + total) % SeqMod
  /\ \A k \in DOMAIN sent :
       sent[k].seq = (seqNum + total - Len(sent) + k - 1) % SeqMod

(* Each sender report is followed by the next one within ReportEvery       *)
(* frames, also when packetCount wraps around.                             *)
ReportsAreRegular ==
  pc = "idle" => timestamp - report.rtpTimestamp < ReportEvery

(* The sender reports count the bytes of frames that the packets carried. *)
OctetsAreSent == pc = "idle" => octetCount = octets % CountMod

=============================================================================
