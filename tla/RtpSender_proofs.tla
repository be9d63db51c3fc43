-------------------------- MODULE RtpSender_proofs --------------------------
(***************************************************************************)
(* What is proved of RtpSender, for frames of any size, packets that hold  *)
(* any number of bytes, and counters of any width.                         *)
(***************************************************************************)
EXTENDS RtpSender, Numbers, TLAPS

LEMMA ConstantsFacts ==
  /\ MAX_RTP_DATA_SIZE \in Nat \ {0} /\ RTP_HEADER_SIZE \in Nat
  /\ FU_SIZE \in Nat /\ ReportEvery \in Nat \ {0} /\ SeqMod \in Nat \ {0}
  /\ CountMod \in Nat \ {0} /\ Sizes \subseteq Nat \ {0} /\ MaxFrames \in Nat
  /\ MAX_RTP_PACKET_LEN \in Nat
BY ConstantsOK DEF ConstantsOK, MAX_RTP_PACKET_LEN

(* The names of the steps, for case distinctions. *)
LEMMA NextCases ==
  ASSUME [Next]_vars, NEW G,
         ASSUME NEW n \in Sizes, Begin(n)  PROVE G,
         ASSUME SendSingle                 PROVE G,
         ASSUME SendFragment               PROVE G,
         ASSUME SendRest                   PROVE G,
         ASSUME Count                      PROVE G,
         ASSUME UNCHANGED vars             PROVE G
  PROVE  G
BY DEF Next, NoFrameYet

-----------------------------------------------------------------------------
(* Types.  Between frames timestamp may be 0, but a packet never bears 0.  *)

Sending == pc # "idle" => timestamp > 0 /\ payloadSize \in Sizes

TypeInv == TypeOK /\ Sending

LEMMA TypeInit == Init => TypeInv
BY ConstantsFacts DEF Init, TypeInv, TypeOK, Sending, NoReport, Packet

LEMMA nextSeqType == TypeOK => nextSeq \in 0 .. SeqMod - 1
BY ConstantsFacts DEF TypeOK, nextSeq

(* What rtp_sendto sends is a packet. *)
LEMMA SendType ==
  ASSUME TypeInv, pc # "idle", NEW from \in Nat, NEW len \in Nat,
         NEW length \in Nat, NEW S \in BOOLEAN, NEW E \in BOOLEAN,
         NEW marker \in BOOLEAN,
         rtp_sendto(from, len, length, S, E, marker)
  PROVE  /\ sent' \in Seq(Packet) /\ seq' \in 0 .. SeqMod - 1
         /\ total' \in Nat /\ octets' \in Nat
<1> DEFINE p == [seq |-> seq, timestamp |-> timestamp, S |-> S, E |-> E,
                 marker |-> marker, from |-> from, len |-> len,
                 length |-> length]
<1>1. timestamp \in 1 .. MaxFrames
  BY ConstantsFacts DEF TypeInv, TypeOK, Sending
<1>2. p \in Packet
  BY <1>1 DEF TypeInv, TypeOK, Packet
<1>3. sent' = Append(sent, p)
  BY DEF rtp_sendto
<1>4. sent' \in Seq(Packet)
  <2> HIDE DEF p
  <2> QED  BY <1>2, <1>3 DEF TypeInv, TypeOK
<1> QED  BY <1>4, nextSeqType DEF rtp_sendto, TypeInv, TypeOK

LEMMA TypeStep == TypeInv /\ [Next]_vars => TypeInv'
<1> SUFFICES ASSUME TypeInv, [Next]_vars  PROVE TypeInv'
  OBVIOUS
<1> USE ConstantsFacts DEF frame, counters, network
<1>0. /\ payloadSize \in Nat /\ packetNum \in Nat /\ remainPacketSize \in Nat
      /\ TypeOK /\ Sending
  BY DEF TypeInv, TypeOK, packetNum, remainPacketSize
<1>1. ASSUME NEW n \in Sizes, Begin(n)  PROVE TypeInv'
  BY <1>1 DEF Begin, TypeInv, TypeOK, Sending
<1>2. ASSUME SendSingle  PROVE TypeInv'
  <2>1. /\ sent' \in Seq(Packet) /\ seq' \in 0 .. SeqMod - 1
        /\ total' \in Nat /\ octets' \in Nat
    <3>1. /\ rtp_sendto(0, payloadSize, RTP_HEADER_SIZE + payloadSize,
                        FALSE, FALSE, TRUE)
          /\ pc # "idle"
      BY <1>2 DEF SendSingle
    <3>2. 0 \in Nat /\ RTP_HEADER_SIZE + payloadSize \in Nat
      BY <1>0
    <3>3. TRUE \in BOOLEAN /\ FALSE \in BOOLEAN
      OBVIOUS
    <3> QED  BY <1>0, <3>1, <3>2, <3>3, SendType, Zenon
  <2> QED  BY <1>2, <2>1 DEF SendSingle, TypeInv, TypeOK, Sending
<1>3. ASSUME SendFragment  PROVE TypeInv'
  <2>1. /\ sent' \in Seq(Packet) /\ seq' \in 0 .. SeqMod - 1
        /\ total' \in Nat /\ octets' \in Nat
    BY <1>0, <1>3, SendType DEF SendFragment, TypeOK
  <2> QED  BY <1>3, <2>1 DEF SendFragment, TypeInv, TypeOK, Sending
<1>4. ASSUME SendRest  PROVE TypeInv'
  <2>1. /\ sent' \in Seq(Packet) /\ seq' \in 0 .. SeqMod - 1
        /\ total' \in Nat /\ octets' \in Nat
    <3>1. CASE remainPacketSize > 0
      <4>1. /\ rtp_sendto(pos, remainPacketSize,
                          RTP_HEADER_SIZE + FU_SIZE + remainPacketSize,
                          FALSE, TRUE, TRUE)
            /\ pc # "idle"
        BY <1>4, <3>1 DEF SendRest
      <4>2. pos \in Nat /\ RTP_HEADER_SIZE + FU_SIZE + remainPacketSize \in Nat
        BY <1>0 DEF TypeOK
      <4>3. TRUE \in BOOLEAN /\ FALSE \in BOOLEAN
        OBVIOUS
      <4> QED  BY <1>0, <4>1, <4>2, <4>3, SendType, Zenon
    <3>2. CASE ~(remainPacketSize > 0)
      BY <1>0, <1>4, <3>2 DEF SendRest, TypeOK
    <3> QED  BY <3>1, <3>2
  <2> QED  BY <1>4, <2>1 DEF SendRest, TypeInv, TypeOK, Sending
<1>5. ASSUME Count  PROVE TypeInv'
  <2>1. packetCount' \in 0 .. CountMod - 1 /\ octetCount' \in 0 .. CountMod - 1
    BY <1>0, <1>5 DEF Count, TypeOK
  <2>2. report' \in [rtpTimestamp : 0 .. MaxFrames,
                     senderPacketCount : 0 .. CountMod - 1,
                     senderOctetCount : 0 .. CountMod - 1]
    BY <1>0, <1>5, <2>1 DEF Count, TypeOK
  <2> QED  BY <1>5, <2>1, <2>2 DEF Count, TypeInv, TypeOK, Sending
<1>6. CASE UNCHANGED vars
  BY <1>6 DEF vars, TypeInv, TypeOK, Sending
<1> QED  BY <1>1, <1>2, <1>3, <1>4, <1>5, <1>6, NextCases

LEMMA TypeAlways == Spec => []TypeInv
BY TypeInit, TypeStep, PTL DEF Spec

(* Every variable of the sender has its type, in every reachable state:    *)
(* in particular the counters that wrap stay in their width.               *)
THEOREM TypeCorrect == Spec => []TypeOK
<1>1. TypeInv => TypeOK
  BY DEF TypeInv
<1> QED  BY <1>1, TypeAlways, PTL

-----------------------------------------------------------------------------
(* Numbering. *)

LEMMA SeqInit == Init => SeqCountsPackets
BY ConstantsFacts DEF Init, SeqCountsPackets

(* A packet that is sent bears the number after that of the one before.    *)
LEMMA SeqSend ==
  ASSUME TypeInv, SeqCountsPackets, UNCHANGED seqNum,
         NEW from, NEW len, NEW length, NEW S, NEW E, NEW marker,
         rtp_sendto(from, len, length, S, E, marker)
  PROVE  SeqCountsPackets'
<1> USE ConstantsFacts DEF TypeInv
<1>1. seq' = (seqNum' + total') % SeqMod
  <2>1. seq' = (((seqNum + total) % SeqMod) + 1) % SeqMod
    BY DEF rtp_sendto, nextSeq, SeqCountsPackets
  <2>2. (((seqNum + total) % SeqMod) + 1) % SeqMod = ((seqNum + total) + 1) % SeqMod
    <3>1. seqNum + total \in Int /\ 1 \in Int
      BY DEF TypeOK
    <3> QED  BY <3>1, ModPlus
  <2>3. (seqNum + total) + 1 = seqNum' + total'
    BY DEF rtp_sendto, TypeOK
  <2> QED  BY <2>1, <2>2, <2>3
<1>2. /\ Len(sent') = Len(sent) + 1 /\ DOMAIN sent' = 1 .. Len(sent) + 1
      /\ \A k \in 1 .. Len(sent) : sent'[k] = sent[k]
      /\ sent'[Len(sent) + 1].seq = seq
      /\ Len(sent) \in Nat /\ total \in Nat /\ seqNum \in Nat
  BY DEF rtp_sendto, TypeOK
<1>3. ASSUME NEW k \in DOMAIN sent'
      PROVE  sent'[k].seq = (seqNum' + total' - Len(sent') + k - 1) % SeqMod
  <2>1. seqNum' + total' - Len(sent') + k - 1
          = seqNum + total - Len(sent) + k - 1
    BY <1>2 DEF rtp_sendto
  <2>2. CASE k \in 1 .. Len(sent)
    BY <1>2, <2>1, <2>2 DEF SeqCountsPackets
  <2>3. CASE k = Len(sent) + 1
    <3>1. seqNum + total - Len(sent) + k - 1 = seqNum + total
      BY <1>2, <2>3
    <3> QED  BY <1>2, <2>1, <2>3, <3>1 DEF SeqCountsPackets
  <2> QED  BY <1>2, <2>2, <2>3
<1> QED  BY <1>1, <1>3 DEF SeqCountsPackets

LEMMA SeqStep == TypeInv /\ SeqCountsPackets /\ [Next]_vars => SeqCountsPackets'
<1> SUFFICES ASSUME TypeInv, SeqCountsPackets, [Next]_vars
             PROVE  SeqCountsPackets'
  OBVIOUS
<1> USE DEF network
<1>1. ASSUME NEW n \in Sizes, Begin(n)  PROVE SeqCountsPackets'
  BY <1>1 DEF Begin, SeqCountsPackets
<1>2. ASSUME SendSingle  PROVE SeqCountsPackets'
  BY <1>2, SeqSend DEF SendSingle
<1>3. ASSUME SendFragment  PROVE SeqCountsPackets'
  BY <1>3, SeqSend DEF SendFragment
<1>4. ASSUME SendRest  PROVE SeqCountsPackets'
  <2>1. CASE remainPacketSize > 0
    BY <1>4, <2>1, SeqSend DEF SendRest
  <2>2. CASE ~(remainPacketSize > 0)
    BY <1>4, <2>2 DEF SendRest, SeqCountsPackets
  <2> QED  BY <2>1, <2>2
<1>5. ASSUME Count  PROVE SeqCountsPackets'
  BY <1>5 DEF Count, SeqCountsPackets
<1>6. CASE UNCHANGED vars
  BY <1>6 DEF vars, SeqCountsPackets
<1> QED  BY <1>1, <1>2, <1>3, <1>4, <1>5, <1>6, NextCases

(* A receiver can tell every lost packet: the packets of a stream are      *)
(* numbered one after the other modulo the width of seq, within a frame    *)
(* and across frames, whatever their sizes.                                *)
THEOREM PacketsNumbered == Spec => []SeqCountsPackets
BY TypeAlways, SeqInit, SeqStep, PTL DEF Spec

-----------------------------------------------------------------------------
(* A frame in packets.  The loop has sent i full fragments, one after the  *)
(* other from the second byte on, and stands at pos.                       *)

(* The k-th packet that the loop sends. *)
IsFragment(p, k) ==
  /\ p.from = 1 + MAX_RTP_DATA_SIZE * (k - 1)
  /\ p.len = MAX_RTP_DATA_SIZE /\ p.length = MAX_RTP_PACKET_LEN
  /\ p.timestamp = timestamp
  /\ p.S <=> k = 1
  /\ p.E <=> k # 1 /\ k = packetNum /\ remainPacketSize = 0
  /\ ~p.marker

LoopInv ==
  /\ pc = "single" => ~Fragmented /\ sent = <<>>
  /\ pc = "fragment" =>
       /\ Fragmented
       /\ i <= packetNum /\ i = Len(sent)
       /\ pos = 1 + MAX_RTP_DATA_SIZE * i
       /\ \A k \in DOMAIN sent : IsFragment(sent[k], k)

PacketsInv == LoopInv /\ FragmentsDelimited /\ FrameCovered /\ PacketsFit

(* The frame is packetNum full packets and a rest. *)
LEMMA FrameFacts ==
  ASSUME TypeInv, Fragmented
  PROVE  /\ payloadSize \in Nat /\ packetNum \in Nat
         /\ remainPacketSize \in 0 .. MAX_RTP_DATA_SIZE - 1
         /\ payloadSize = MAX_RTP_DATA_SIZE * packetNum + remainPacketSize
         /\ packetNum >= 1 /\ (packetNum = 1 => remainPacketSize > 0)
<1> USE ConstantsFacts
<1>1. payloadSize \in Nat /\ payloadSize > MAX_RTP_DATA_SIZE
  BY DEF TypeInv, TypeOK, Fragmented
<1>2. /\ payloadSize = MAX_RTP_DATA_SIZE * packetNum + remainPacketSize
      /\ remainPacketSize \in 0 .. MAX_RTP_DATA_SIZE - 1
      /\ packetNum \in Int
  BY <1>1, DivMod DEF packetNum, remainPacketSize
<1>3. packetNum >= 1
  <2> SUFFICES ASSUME packetNum <= 0  PROVE FALSE
    BY <1>2
  <2>1. MAX_RTP_DATA_SIZE * packetNum <= 0
    BY <1>2, SMT
  <2> QED  BY <1>1, <1>2, <2>1
<1>4. packetNum = 1 => remainPacketSize > 0
  <2> SUFFICES ASSUME packetNum = 1  PROVE remainPacketSize > 0
    OBVIOUS
  <2>1. MAX_RTP_DATA_SIZE * packetNum = MAX_RTP_DATA_SIZE
    OBVIOUS
  <2> QED  BY <1>1, <1>2, <2>1
<1> QED  BY <1>1, <1>2, <1>3, <1>4

LEMMA PacketsInit == Init => PacketsInv
BY DEF Init, PacketsInv, LoopInv, FragmentsDelimited, FrameCovered, PacketsFit,
       FrameSent

LEMMA PacketsStep == TypeInv /\ PacketsInv /\ [Next]_vars => PacketsInv'
<1> SUFFICES ASSUME TypeInv, PacketsInv, [Next]_vars  PROVE PacketsInv'
  OBVIOUS
<1> USE ConstantsFacts DEF frame, counters, network
<1>0. /\ payloadSize \in Nat /\ sent \in Seq(Packet) /\ Len(sent) \in Nat
      /\ i \in Nat /\ pos \in Nat
  BY DEF TypeInv, TypeOK
<1>1. ASSUME NEW n \in Sizes, Begin(n)  PROVE PacketsInv'
  <2>1. sent' = <<>> /\ i' = 0 /\ pos' = 1 /\ payloadSize' = n
        /\ pc' = IF n <= MAX_RTP_DATA_SIZE THEN "single" ELSE "fragment"
    BY <1>1 DEF Begin
  <2>2. MAX_RTP_DATA_SIZE * 0 = 0
    OBVIOUS
  <2>3. n > MAX_RTP_DATA_SIZE => 0 <= n \div MAX_RTP_DATA_SIZE
    BY SMT
  <2>4. n \in Nat /\ DOMAIN sent' = {} /\ Len(sent') = 0
    BY <2>1
  <2>5. LoopInv'
    BY <2>1, <2>2, <2>3, <2>4 DEF LoopInv, Fragmented, packetNum
  <2>6. ~FrameSent'
    BY <2>1 DEF FrameSent
  <2> QED
    BY <2>4, <2>5, <2>6 DEF PacketsInv, FragmentsDelimited, FrameCovered, PacketsFit
<1>2. ASSUME SendSingle  PROVE PacketsInv'
  <2> DEFINE p == [seq |-> seq, timestamp |-> timestamp, S |-> FALSE,
                   E |-> FALSE, marker |-> TRUE, from |-> 0,
                   len |-> payloadSize,
                   length |-> RTP_HEADER_SIZE + payloadSize]
  <2>1. /\ sent' = Append(sent, p) /\ sent = <<>>
        /\ pc' = "count" /\ UNCHANGED <<payloadSize, timestamp>>
        /\ ~Fragmented
    BY <1>2, Zenon DEF SendSingle, rtp_sendto, PacketsInv, LoopInv
  <2>2. /\ DOMAIN sent' = {1} /\ Len(sent') = 1 /\ sent'[1] = p
        /\ sent' # <<>>
    <3> HIDE DEF p
    <3> QED  BY <2>1
  <2>3. payloadSize \in 1 .. MAX_RTP_DATA_SIZE /\ ~Fragmented'
    BY <1>0, <1>2, <2>1 DEF Fragmented, TypeInv, Sending, SendSingle
  <2>4. /\ p.S = FALSE /\ p.E = FALSE /\ p.marker = TRUE
        /\ p.timestamp = timestamp /\ p.from = 0 /\ p.len = payloadSize
        /\ p.length = RTP_HEADER_SIZE + payloadSize
    OBVIOUS
  <2> HIDE DEF p
  <2>5. LoopInv'
    BY <2>1 DEF LoopInv
  <2>6. FragmentsDelimited'
    BY <2>1, <2>2, <2>3, <2>4 DEF FragmentsDelimited
  <2>7. FrameCovered'
    BY <1>0, <2>1, <2>2, <2>3, <2>4 DEF FrameCovered
  <2>8. PacketsFit'
    BY <1>0, <2>1, <2>2, <2>3, <2>4 DEF PacketsFit, MAX_RTP_PACKET_LEN
  <2> QED  BY <2>5, <2>6, <2>7, <2>8 DEF PacketsInv
<1>3. ASSUME SendFragment  PROVE PacketsInv'
  <2> DEFINE e == i # 0 /\ i = packetNum - 1 /\ remainPacketSize = 0
             p == [seq |-> seq, timestamp |-> timestamp, S |-> i = 0, E |-> e,
                   marker |-> FALSE, from |-> pos, len |-> MAX_RTP_DATA_SIZE,
                   length |-> MAX_RTP_PACKET_LEN]
  <2>1. /\ sent' = Append(sent, p)
        /\ pc' = pc /\ UNCHANGED <<payloadSize, timestamp>>
        /\ pos' = pos + MAX_RTP_DATA_SIZE /\ i' = i + 1
        /\ pc = "fragment" /\ i < packetNum
    BY <1>3 DEF SendFragment, rtp_sendto
  <2>2. /\ Fragmented /\ i = Len(sent) /\ pos = 1 + MAX_RTP_DATA_SIZE * i
        /\ \A k \in DOMAIN sent : IsFragment(sent[k], k)
    BY <2>1 DEF PacketsInv, LoopInv
  <2>3. /\ packetNum \in Nat
        /\ remainPacketSize \in 0 .. MAX_RTP_DATA_SIZE - 1
        /\ payloadSize = MAX_RTP_DATA_SIZE * packetNum + remainPacketSize
    BY <2>2, FrameFacts
  <2>4. IsFragment(p, i + 1)
    <3>1. pos = 1 + MAX_RTP_DATA_SIZE * ((i + 1) - 1)
      BY <1>0, <2>2
    <3>2. e <=> i + 1 # 1 /\ i + 1 = packetNum /\ remainPacketSize = 0
      BY <1>0, <2>3
    <3>3. i = 0 <=> i + 1 = 1
      BY <1>0
    <3> HIDE DEF e
    <3> QED  BY <3>1, <3>2, <3>3 DEF IsFragment
  <2>5. /\ p.len = MAX_RTP_DATA_SIZE /\ p.length = MAX_RTP_PACKET_LEN
        /\ p.from = pos
    OBVIOUS
  <2> HIDE DEF p, e
  <2>6. /\ Len(sent') = i + 1 /\ DOMAIN sent' = 1 .. i + 1
        /\ \A k \in DOMAIN sent : sent'[k] = sent[k]
        /\ DOMAIN sent = 1 .. i /\ sent'[i + 1] = p
    BY <1>0, <2>1, <2>2
  <2>7. packetNum' = packetNum /\ remainPacketSize' = remainPacketSize
    BY <2>1 DEF packetNum, remainPacketSize
  <2>8. LoopInv'
    <3>1. pos' = 1 + MAX_RTP_DATA_SIZE * i'
      <4>1. MAX_RTP_DATA_SIZE * (i + 1) = MAX_RTP_DATA_SIZE * i + MAX_RTP_DATA_SIZE
        BY <1>0
      <4> QED  BY <1>0, <2>1, <2>2, <4>1
    <3>2. \A k \in DOMAIN sent' : IsFragment(sent'[k], k)
      BY <1>0, <2>2, <2>4, <2>6
    <3>3. \A k \in DOMAIN sent' : IsFragment(sent[k], k)'
      BY <2>1, <2>7, <3>2 DEF IsFragment
    <3>4. i' <= packetNum' /\ Fragmented'
      BY <1>0, <2>1, <2>2, <2>3, <2>7 DEF Fragmented
    <3> QED  BY <2>1, <2>6, <3>1, <3>3, <3>4 DEF LoopInv
  <2>9. PacketsFit'
    <3>1. pos + MAX_RTP_DATA_SIZE <= payloadSize + 1
      <4>1. MAX_RTP_DATA_SIZE * (i + 1) = MAX_RTP_DATA_SIZE * i + MAX_RTP_DATA_SIZE
        BY <1>0
      <4>2. MAX_RTP_DATA_SIZE * (i + 1) <= MAX_RTP_DATA_SIZE * packetNum
        BY <1>0, <2>1, <2>3, SMT
      <4> QED  BY <1>0, <2>2, <2>3, <4>1, <4>2
    <3>2. \A k \in DOMAIN sent' :
            /\ sent'[k].length <= MAX_RTP_PACKET_LEN
            /\ sent'[k].len \in 1 .. MAX_RTP_DATA_SIZE
            /\ sent'[k].from + sent'[k].len <= payloadSize + 1
      <4> SUFFICES ASSUME NEW k \in 1 .. i + 1
                   PROVE  /\ sent'[k].length <= MAX_RTP_PACKET_LEN
                          /\ sent'[k].len \in 1 .. MAX_RTP_DATA_SIZE
                          /\ sent'[k].from + sent'[k].len <= payloadSize + 1
        BY <2>6
      <4>1. CASE k \in 1 .. i
        BY <2>6, <4>1 DEF PacketsInv, PacketsFit
      <4>2. CASE k = i + 1
        BY <2>5, <2>6, <3>1, <4>2
      <4> QED  BY <1>0, <4>1, <4>2
    <3> QED  BY <2>1, <3>2 DEF PacketsFit
  <2>10. ~FrameSent'
    BY <2>1 DEF FrameSent
  <2> QED  BY <2>8, <2>9, <2>10 DEF PacketsInv, FragmentsDelimited, FrameCovered
<1>4. ASSUME SendRest  PROVE PacketsInv'
  <2>1. /\ pc = "fragment" /\ pc' = "count" /\ i = packetNum
        /\ UNCHANGED <<payloadSize, timestamp>>
    BY <1>4 DEF SendRest
  <2>2. /\ Fragmented /\ i = Len(sent) /\ pos = 1 + MAX_RTP_DATA_SIZE * i
        /\ \A k \in DOMAIN sent : IsFragment(sent[k], k)
    BY <2>1 DEF PacketsInv, LoopInv
  <2>3. /\ packetNum \in Nat /\ packetNum >= 1
        /\ (packetNum = 1 => remainPacketSize > 0)
        /\ remainPacketSize \in 0 .. MAX_RTP_DATA_SIZE - 1
        /\ payloadSize = MAX_RTP_DATA_SIZE * packetNum + remainPacketSize
        /\ pos + remainPacketSize = payloadSize + 1
    <3>1. MAX_RTP_DATA_SIZE * i = MAX_RTP_DATA_SIZE * packetNum
      BY <2>1
    <3> QED  BY <1>0, <2>2, <3>1, FrameFacts
  <2>4. /\ packetNum' = packetNum /\ remainPacketSize' = remainPacketSize
        /\ Fragmented'
    BY <2>1, <2>2 DEF packetNum, remainPacketSize, Fragmented
  <2>5. DOMAIN sent = 1 .. i /\ sent # <<>>
    BY <1>0, <2>1, <2>2, <2>3
  <2>6. \A k \in 1 .. i - 1 : sent[k + 1].from = sent[k].from + sent[k].len
    <3> SUFFICES ASSUME NEW k \in 1 .. i - 1
                 PROVE  sent[k + 1].from = sent[k].from + sent[k].len
      OBVIOUS
    <3>1. IsFragment(sent[k], k) /\ IsFragment(sent[k + 1], k + 1)
      BY <1>0, <2>2, <2>5
    <3>2. MAX_RTP_DATA_SIZE * ((k + 1) - 1)
            = MAX_RTP_DATA_SIZE * (k - 1) + MAX_RTP_DATA_SIZE
      BY <1>0
    <3> QED  BY <1>0, <3>1, <3>2 DEF IsFragment
  <2>7. /\ sent[1].from = 1
        /\ sent[i].from + sent[i].len = pos
    <3>1. IsFragment(sent[1], 1) /\ IsFragment(sent[i], i)
      BY <1>0, <2>1, <2>2, <2>3, <2>5
    <3>2. MAX_RTP_DATA_SIZE * (1 - 1) = 0
      OBVIOUS
    <3>3. MAX_RTP_DATA_SIZE * (i - 1) + MAX_RTP_DATA_SIZE = MAX_RTP_DATA_SIZE * i
      BY <1>0
    <3> QED  BY <1>0, <2>2, <3>1, <3>2, <3>3 DEF IsFragment
  <2>8. LoopInv'
    BY <2>1 DEF LoopInv
  <2>9. CASE remainPacketSize = 0
    <3>1. UNCHANGED sent
      BY <1>4, <2>9 DEF SendRest
    <3>2. FragmentsDelimited'
      <4> SUFFICES ASSUME NEW k \in 1 .. i
                   PROVE  /\ sent[k].S <=> k = 1
                          /\ sent[k].E <=> k = i
                          /\ ~sent[k].marker
                          /\ sent[k].timestamp = timestamp
        BY <2>1, <2>2, <2>4, <2>5, <2>9, <3>1 DEF FragmentsDelimited
      <4>1. IsFragment(sent[k], k)
        BY <2>2, <2>5
      <4>2. k # 1 /\ k = packetNum /\ remainPacketSize = 0 <=> k = i
        BY <2>1, <2>3, <2>9
      <4> QED  BY <4>1, <4>2 DEF IsFragment
    <3>3. FrameCovered'
      <4>1. pos >= payloadSize
        BY <1>0, <2>3, <2>9
      <4> QED  BY <2>1, <2>2, <2>4, <2>5, <2>6, <2>7, <3>1, <4>1 DEF FrameCovered
    <3>4. PacketsFit'
      BY <2>1, <3>1 DEF PacketsInv, PacketsFit
    <3> QED  BY <2>8, <3>2, <3>3, <3>4 DEF PacketsInv
  <2>10. CASE remainPacketSize > 0
    <3> DEFINE p == [seq |-> seq, timestamp |-> timestamp, S |-> FALSE,
                     E |-> TRUE, marker |-> TRUE, from |-> pos,
                     len |-> remainPacketSize,
                     length |-> RTP_HEADER_SIZE + FU_SIZE + remainPacketSize]
    <3>1. sent' = Append(sent, p)
      BY <1>4, <2>10 DEF SendRest, rtp_sendto
    <3>2. /\ p.S = FALSE /\ p.E = TRUE /\ p.marker = TRUE
          /\ p.timestamp = timestamp /\ p.from = pos
          /\ p.len = remainPacketSize
          /\ p.length = RTP_HEADER_SIZE + FU_SIZE + remainPacketSize
      OBVIOUS
    <3> HIDE DEF p
    <3>3. /\ Len(sent') = i + 1 /\ DOMAIN sent' = 1 .. i + 1
          /\ \A k \in 1 .. i : sent'[k] = sent[k]
          /\ sent'[i + 1] = p /\ sent' # <<>>
      BY <1>0, <2>2, <2>5, <3>1
    <3>4. FragmentsDelimited'
      <4> SUFFICES ASSUME NEW k \in 1 .. i + 1
                   PROVE  /\ sent'[k].S <=> k = 1
                          /\ sent'[k].E <=> k = i + 1
                          /\ sent'[k].marker <=> k = i + 1
                          /\ sent'[k].timestamp = timestamp
        BY <2>1, <2>4, <2>10, <3>3 DEF FragmentsDelimited
      <4>1. CASE k \in 1 .. i
        <5>1. IsFragment(sent[k], k) /\ sent'[k] = sent[k] /\ k # i + 1
          BY <1>0, <2>2, <2>5, <3>3, <4>1
        <5> QED  BY <2>10, <5>1 DEF IsFragment
      <4>2. CASE k = i + 1
        <5>1. k # 1
          BY <1>0, <2>1, <2>3, <4>2
        <5> QED  BY <3>2, <3>3, <4>2, <5>1
      <4> QED  BY <1>0, <4>1, <4>2
    <3>5. FrameCovered'
      <4>1. pos + remainPacketSize >= payloadSize
        BY <1>0, <2>3
      <4>2. \A k \in 1 .. i : sent'[k + 1].from = sent'[k].from + sent'[k].len
        <5> SUFFICES ASSUME NEW k \in 1 .. i
                     PROVE  sent'[k + 1].from = sent'[k].from + sent'[k].len
          OBVIOUS
        <5>1. CASE k = i
          BY <1>0, <2>1, <2>3, <2>7, <3>2, <3>3, <5>1
        <5>2. CASE k \in 1 .. i - 1
          BY <1>0, <2>6, <3>3, <5>2
        <5> QED  BY <1>0, <5>1, <5>2
      <4>3. sent'[1].from = 1 /\ sent'[i + 1].from + sent'[i + 1].len >= payloadSize
        BY <1>0, <2>1, <2>3, <2>7, <3>2, <3>3, <4>1
      <4> QED  BY <1>0, <2>1, <2>4, <3>3, <4>2, <4>3 DEF FrameCovered
    <3>6. PacketsFit'
      <4>1. pos + remainPacketSize <= payloadSize + 1
        BY <1>0, <2>3
      <4> SUFFICES ASSUME NEW k \in 1 .. i + 1
                   PROVE  /\ sent'[k].length <= MAX_RTP_PACKET_LEN
                          /\ sent'[k].len \in 1 .. MAX_RTP_DATA_SIZE
                          /\ sent'[k].from + sent'[k].len <= payloadSize + 1
        BY <2>1, <3>3 DEF PacketsFit
      <4>2. CASE k \in 1 .. i
        BY <2>5, <3>3, <4>2 DEF PacketsInv, PacketsFit
      <4>3. CASE k = i + 1
        BY <1>0, <2>3, <2>10, <3>2, <3>3, <4>1, <4>3 DEF MAX_RTP_PACKET_LEN
      <4> QED  BY <1>0, <4>2, <4>3
    <3> QED  BY <2>8, <3>4, <3>5, <3>6 DEF PacketsInv
  <2> QED  BY <2>3, <2>9, <2>10
<1>5. ASSUME Count  PROVE PacketsInv'
  <2>1. pc' = "idle" /\ UNCHANGED <<sent, payloadSize>>
    BY <1>5 DEF Count
  <2> QED  BY <2>1 DEF PacketsInv, LoopInv, FragmentsDelimited, FrameCovered,
                       PacketsFit, FrameSent
<1>6. CASE UNCHANGED vars
  BY <1>6 DEF vars, PacketsInv, LoopInv, FragmentsDelimited, FrameCovered,
              PacketsFit, FrameSent, Fragmented, packetNum, remainPacketSize,
              IsFragment
<1> QED  BY <1>1, <1>2, <1>3, <1>4, <1>5, <1>6, NextCases

LEMMA PacketsAlways == Spec => []PacketsInv
BY TypeAlways, PacketsInit, PacketsStep, PTL DEF Spec

(* What a receiver needs to put a frame together again: its fragments are  *)
(* told by start and end, for every size of a frame, those that are cut    *)
(* into full fragments only included.                                      *)
THEOREM FramesDelimited == Spec => []FragmentsDelimited
<1>1. PacketsInv => FragmentsDelimited
  BY DEF PacketsInv
<1> QED  BY <1>1, PacketsAlways, PTL

(* The packets of a frame carry all of it, in order and without overlap.   *)
THEOREM FramesCovered == Spec => []FrameCovered
<1>1. PacketsInv => FrameCovered
  BY DEF PacketsInv
<1> QED  BY <1>1, PacketsAlways, PTL

(* No packet overruns the packet buffer, and no copy reads more than one   *)
(* byte past the frame.                                                    *)
THEOREM PacketsInBounds == Spec => []PacketsFit
<1>1. PacketsInv => PacketsFit
  BY DEF PacketsInv
<1> QED  BY <1>1, PacketsAlways, PTL

-----------------------------------------------------------------------------
(* The sender reports.  The counters run one frame behind while a frame is *)
(* sent, octetCount by what its packets have carried so far.               *)

Carried ==
  IF pc = "fragment" THEN pos - 1
  ELSE IF pc = "count" THEN payloadSize ELSE 0

FramesCounted == IF pc = "idle" THEN timestamp ELSE timestamp - 1

CountInv ==
  /\ octetCount = (octets - Carried) % CountMod
  /\ FramesCounted - report.rtpTimestamp = packetCount % ReportEvery

LEMMA CountInit == Init => CountInv
BY ConstantsFacts DEF Init, CountInv, Carried, FramesCounted, NoReport

(* One more, and it is a multiple or not. *)
LEMMA ModSucc ==
  ASSUME NEW N \in Nat \ {0}, NEW x \in Nat, (x + 1) % N # 0
  PROVE  (x + 1) % N = (x % N) + 1
<1>1. /\ x = N * (x \div N) + (x % N)
      /\ x % N \in 0 .. N - 1
      /\ x \div N \in Int
  BY DivMod
<1> DEFINE q == x \div N
           r == x % N
<1>2. x + 1 = N * q + (r + 1)
  BY <1>1
<1>3. r + 1 # N
  <2> SUFFICES ASSUME r + 1 = N  PROVE FALSE
    OBVIOUS
  <2>1. N * (q + 1) = N * q + N
    BY <1>1, SMT
  <2>2. x + 1 = N * (q + 1) + 0
    BY <1>1, <1>2, <2>1
  <2>3. (N * (q + 1) + 0) % N = 0
    <3>1. q + 1 \in Int /\ 0 \in 0 .. N - 1
      BY <1>1
    <3> HIDE DEF q
    <3> QED  BY <3>1, ModUnique
  <2> QED  BY <2>2, <2>3
<1>4. (N * q + (r + 1)) % N = r + 1
  <2>1. r + 1 \in 0 .. N - 1 /\ q \in Int
    BY <1>1, <1>3
  <2> HIDE DEF q, r
  <2> QED  BY <2>1, ModUnique
<1> QED  BY <1>2, <1>4

LEMMA CountStep ==
  TypeInv /\ PacketsInv /\ PacketsInv' /\ CountInv /\ [Next]_vars => CountInv'
<1> SUFFICES ASSUME TypeInv, PacketsInv, PacketsInv', CountInv, [Next]_vars
             PROVE  CountInv'
  OBVIOUS
<1> USE ConstantsFacts DEF frame, counters, network
<1>0. /\ payloadSize \in Nat /\ pos \in Nat /\ octets \in Nat
      /\ timestamp \in Nat /\ report.rtpTimestamp \in Nat
      /\ packetCount \in Nat /\ octetCount \in Nat
  BY DEF TypeInv, TypeOK
<1>1. ASSUME NEW n \in Sizes, Begin(n)  PROVE CountInv'
  BY <1>0, <1>1 DEF Begin, CountInv, Carried, FramesCounted
<1>2. ASSUME SendSingle  PROVE CountInv'
  <2>1. octets' - Carried' = octets - Carried
    BY <1>0, <1>2 DEF SendSingle, rtp_sendto, Carried
  <2>2. FramesCounted' = FramesCounted
    BY <1>2 DEF SendSingle, FramesCounted
  <2> QED  BY <1>2, <2>1, <2>2 DEF SendSingle, CountInv
<1>3. ASSUME SendFragment  PROVE CountInv'
  <2>1. octets' - Carried' = octets - Carried
    BY <1>0, <1>3 DEF SendFragment, rtp_sendto, Carried
  <2>2. FramesCounted' = FramesCounted
    BY <1>3 DEF SendFragment, FramesCounted
  <2> QED  BY <1>3, <2>1, <2>2 DEF SendFragment, CountInv
<1>4. ASSUME SendRest  PROVE CountInv'
  <2>1. pos + remainPacketSize = payloadSize + 1 /\ remainPacketSize \in Nat
    <3>1. Fragmented /\ i = packetNum /\ pos = 1 + MAX_RTP_DATA_SIZE * i
      BY <1>4 DEF SendRest, PacketsInv, LoopInv
    <3>2. MAX_RTP_DATA_SIZE * i = MAX_RTP_DATA_SIZE * packetNum
      BY <3>1
    <3> QED  BY <1>0, <3>1, <3>2, FrameFacts
  <2>2. octets' - Carried' = octets - Carried
    BY <1>0, <1>4, <2>1, SMTT(30) DEF SendRest, rtp_sendto, Carried
  <2>3. FramesCounted' = FramesCounted
    BY <1>4 DEF SendRest, FramesCounted
  <2> QED  BY <1>4, <2>2, <2>3 DEF SendRest, CountInv
<1>5. ASSUME Count  PROVE CountInv'
  <2>1. octetCount' = (octets' - Carried') % CountMod
    <3>1. octetCount' = (((octets - payloadSize) % CountMod) + payloadSize) % CountMod
      BY <1>5 DEF Count, CountInv, Carried
    <3>2. octets - payloadSize \in Int
      BY <1>0
    <3>3. (((octets - payloadSize) % CountMod) + payloadSize) % CountMod
            = ((octets - payloadSize) + payloadSize) % CountMod
      <4> DEFINE a == octets - payloadSize
      <4> HIDE DEF a
      <4>1. a \in Int /\ payloadSize \in Int
        BY <1>0, <3>2 DEF a
      <4>2. ((a % CountMod) + payloadSize) % CountMod = (a + payloadSize) % CountMod
        BY <4>1, ModPlus
      <4> QED  BY <4>2 DEF a
    <3>4. (octets - payloadSize) + payloadSize = octets' - Carried'
      BY <1>0, <1>5 DEF Count, Carried
    <3> QED  BY <3>1, <3>3, <3>4
  <2>2. /\ timestamp - 1 - report.rtpTimestamp = packetCount % ReportEvery
        /\ FramesCounted' = timestamp
    BY <1>5 DEF Count, CountInv, FramesCounted
  <2>3. CASE packetCount' % ReportEvery = 0
    <3>1. report'.rtpTimestamp = timestamp
      BY <1>5, <2>3 DEF Count
    <3> QED  BY <1>0, <2>1, <2>2, <2>3, <3>1 DEF CountInv
  <2>4. CASE packetCount' % ReportEvery # 0
    <3>1. packetCount' = packetCount + 1
      <4>1. packetCount + 1 \in 1 .. CountMod
        BY <1>0 DEF TypeInv, TypeOK
      <4>2. CountMod % CountMod = 0 /\ 0 % ReportEvery = 0
        BY SMT
      <4>3. packetCount + 1 # CountMod
        BY <1>5, <2>4, <4>2 DEF Count
      <4> QED  BY <1>5, <4>1, <4>3 DEF Count
    <3>2. packetCount' % ReportEvery = (packetCount % ReportEvery) + 1
      BY <1>0, <2>4, <3>1, ModSucc
    <3>3. report' = report
      BY <1>5, <2>4 DEF Count
    <3>4. packetCount % ReportEvery \in Int
      BY <1>0
    <3> QED  BY <1>0, <2>1, <2>2, <3>2, <3>3, <3>4 DEF CountInv
  <2> QED  BY <2>3, <2>4
<1>6. CASE UNCHANGED vars
  BY <1>6 DEF vars, CountInv, Carried, FramesCounted
<1> QED  BY <1>1, <1>2, <1>3, <1>4, <1>5, <1>6, NextCases

LEMMA CountAlways == Spec => [](TypeInv /\ CountInv)
BY TypeAlways, PacketsAlways, CountInit, CountStep, PTL DEF Spec

(* A receiver gets a sender report at least every ReportEvery frames, for  *)
(* any width of packetCount: where it wraps, a report comes early.         *)
THEOREM ReportsRegular == Spec => []ReportsAreRegular
<1>1. TypeInv /\ CountInv => ReportsAreRegular
  <2> SUFFICES ASSUME TypeInv, CountInv, pc = "idle"
               PROVE  timestamp - report.rtpTimestamp < ReportEvery
    BY DEF ReportsAreRegular
  <2>1. packetCount % ReportEvery \in 0 .. ReportEvery - 1
    BY ConstantsFacts DEF TypeInv, TypeOK
  <2> QED  BY <2>1, ConstantsFacts DEF CountInv, FramesCounted
<1> QED  BY <1>1, CountAlways, PTL

(* The octets that the reports count are those that the packets carried,   *)
(* modulo the width of octetCount, fragmented or not.                      *)
THEOREM OctetsCounted == Spec => []OctetsAreSent
<1>1. TypeInv /\ CountInv => OctetsAreSent
  BY DEF TypeInv, TypeOK, CountInv, Carried, OctetsAreSent
<1> QED  BY <1>1, CountAlways, PTL

=============================================================================
