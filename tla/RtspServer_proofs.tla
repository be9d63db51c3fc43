-------------------------- MODULE RtspServer_proofs -------------------------
(***************************************************************************)
(* What is proved of RtspServer, for any number of clients and requests,   *)
(* whatever they ask and however TCP cuts what they send.                  *)
(***************************************************************************)
EXTENDS RtspServer, Numbers, TLAPS

LEMMA ConstantsFacts ==
  /\ Requests \subseteq [method : {"OPTIONS", "DESCRIBE", "SETUP", "PLAY",
                                   "PAUSE", "TEARDOWN", "OTHER"},
                         CSeq : {"number", "garbled", "none"},
                         client_port : {"numbers", "words", "none"},
                         Accept : {"sdp", "none"}]
  /\ MaxRequests \in Nat /\ FdLimit \in Nat \ {0}
BY ConstantsOK DEF ConstantsOK

(* The names of the steps, for case distinctions.  Handled is what the     *)
(* answers have in common.                                                 *)
Answered(c, methods, status, l) ==
  /\ Valid(c, methods)
  /\ Respond(c, status)
  /\ Goto(c, l)
  /\ UNCHANGED <<peer, wire, request, mediaStreamHandler, streams, resources>>

LEMMA NextCases ==
  ASSUME [Next]_vars
  PROVE  \/ AcceptFails \/ OpenCapture \/ CaptureFails \/ UNCHANGED vars
         \/ \E c \in Clients :
             \/ Accept(c) \/ Connect(c) \/ Leave(c)
             \/ \E r \in Requests : Ask(c, r)
             \/ Recv(c) \/ RecvFails(c) \/ HandleNoCSeq(c) \/ HandleUnsupported(c)
             \/ \E m \in {"OPTIONS", "DESCRIBE"}, status \in {200, 406} :
                  Answered(c, {m}, status, "recv")
             \/ Answered(c, {"SETUP"}, 200, "setup")
             \/ HandleSetupNoPorts(c) \/ HandleSetupBadPorts(c)
             \/ StartCapture(c) \/ StartStream(c)
             \/ Answered(c, Commands, 200, "command")
             \/ SetCmd(c) \/ SetCmdUninitialised(c)
<1>1. ASSUME NEW c \in Clients
      PROVE  HandleOptionsRequest(c) => Answered(c, {"OPTIONS"}, 200, "recv")
  BY DEF HandleOptionsRequest, Answered
<1>2. ASSUME NEW c \in Clients, HandleDescribeRequest(c)
      PROVE  \E status \in {200, 406} : Answered(c, {"DESCRIBE"}, status, "recv")
  BY <1>2, Zenon DEF HandleDescribeRequest, Answered
<1>3. ASSUME NEW c \in Clients
      PROVE  HandleSetupRequest(c) => Answered(c, {"SETUP"}, 200, "setup")
  BY DEF HandleSetupRequest, Answered
<1>4. ASSUME NEW c \in Clients
      PROVE  HandleCommand(c) => Answered(c, Commands, 200, "command")
  BY DEF HandleCommand, Answered
<1> QED  BY <1>1, <1>2, <1>3, <1>4 
     DEF Next, AcceptLoop, CaptureThread, RequestThread

Places == {"none", "recv", "handle", "setup", "stream", "command", "ended"}

-----------------------------------------------------------------------------
(* Types. *)

LEMMA FirstFacts ==
  ASSUME NEW E, NEW s \in Seq(E), NEW kinds
  PROVE  \/ First(s, kinds) = NoLine
         \/ \E k \in DOMAIN s :
              /\ First(s, kinds) = s[k] /\ s[k].kind \in kinds
              /\ \A j \in DOMAIN s : s[j].kind \in kinds => k <= j
<1>1. At(s, kinds) \in SUBSET Nat
  BY DEF At
<1> QED  BY <1>1, MinFacts DEF First, At

(* The lines that a client has sent, the cut ones included.                *)
OwnLine(c, l) ==
  /\ l \in Line /\ l.of \in DOMAIN asked[c]
  /\ l.kind = "method" => l.value = asked[c][l.of].method

OwnLines(c) ==
  /\ \A k \in DOMAIN wire[c] : OwnLine(c, wire[c][k])
  /\ \A k \in DOMAIN request[c] : OwnLine(c, request[c][k])
  /\ \A k \in DOMAIN answers[c] : answers[c][k].of <= Len(asked[c])
  /\ pc[c] = "command" => ParseMethod(c) \in Commands

LinesInv == \A c \in Clients : OwnLines(c)

TypeInv == TypeOK /\ LinesInv

LEMMA ParseFacts ==
  ASSUME TypeInv, NEW c \in Clients
  PROVE  /\ ParseMethod(c) # "OTHER" =>
              \E k \in DOMAIN request[c] :
                /\ request[c][k].kind = "method"
                /\ ParseMethod(c) = asked[c][request[c][k].of].method
                /\ \A j \in DOMAIN request[c] :
                     request[c][j].kind \in Text => k <= j
         /\ ParseCSeq(c) # 0 =>
              \E k \in DOMAIN request[c] :
                /\ request[c][k].kind = "CSeq"
                /\ ParseCSeq(c) = request[c][k].of
                /\ \A j \in DOMAIN request[c] :
                     request[c][j].kind = "CSeq" => k <= j
<1>1. request[c] \in Seq(Line)
  BY DEF TypeInv, TypeOK
<1>2. \A k \in DOMAIN request[c] : OwnLine(c, request[c][k])
  BY DEF TypeInv, LinesInv, OwnLines
<1>3. ASSUME ParseMethod(c) # "OTHER"
      PROVE  \E k \in DOMAIN request[c] :
                /\ request[c][k].kind = "method"
                /\ ParseMethod(c) = asked[c][request[c][k].of].method
                /\ \A j \in DOMAIN request[c] :
                     request[c][j].kind \in Text => k <= j
  <2>1. First(request[c], Text) # NoLine
    BY <1>3 DEF ParseMethod, NoLine
  <2>2. PICK k \in DOMAIN request[c] :
          /\ First(request[c], Text) = request[c][k]
          /\ \A j \in DOMAIN request[c] :
                     request[c][j].kind \in Text => k <= j
    BY <1>1, <2>1, FirstFacts
  <2> QED  BY <1>2, <1>3, <2>2 DEF ParseMethod, OwnLine
<1>4. ASSUME ParseCSeq(c) # 0
      PROVE  \E k \in DOMAIN request[c] :
                /\ request[c][k].kind = "CSeq"
                /\ ParseCSeq(c) = request[c][k].of
                /\ \A j \in DOMAIN request[c] :
                     request[c][j].kind = "CSeq" => k <= j
  <2>1. First(request[c], {"CSeq"}) # NoLine
    BY <1>4 DEF ParseCSeq, NumberOf, NoLine
  <2>2. PICK k \in DOMAIN request[c] :
          /\ First(request[c], {"CSeq"}) = request[c][k]
          /\ request[c][k].kind \in {"CSeq"}
          /\ \A j \in DOMAIN request[c] :
                     request[c][j].kind \in {"CSeq"} => k <= j
    BY <1>1, <2>1, FirstFacts
  <2> QED  BY <1>4, <2>2 DEF ParseCSeq, NumberOf
<1> QED  BY <1>3, <1>4

(* The parsers see the request only.                                       *)
LEMMA SameRequest ==
  ASSUME NEW c \in Clients, request'[c] = request[c]
  PROVE  ParseMethod(c)' = ParseMethod(c) /\ ParsePorts(c)' = ParsePorts(c)
BY DEF ParseMethod, ParsePorts, First, At

(* What recv takes is the first k lines, the last of which it may cut;     *)
(* d is 1 if a part of that line stays on the wire.                        *)
Cut(w, some, left, k, d) ==
  /\ k \in 1 .. Len(w) /\ d \in {0, 1}
  /\ some \in Seq(Line) /\ Len(some) = k
  /\ \A i \in 1 .. k - 1 : some[i] = w[i]
  /\ some[k].of = w[k].of /\ some[k].kind \in {w[k].kind, "rest"}
  /\ some[k].kind = "method" => some[k] = w[k]
  /\ left \in Seq(Line) /\ Len(left) = Len(w) - k + d
  /\ \A j \in 1 .. Len(left) :
       j > d => k - d + j \in k + 1 .. Len(w) /\ left[j] = w[k - d + j]
  /\ d = 1 => left[1].of = w[k].of /\ left[1].kind \notin {"method", "CSeq"}

LEMMA PartsFacts ==
  ASSUME NEW l \in Line, l.kind \notin {"rest", "blank"}, NEW p \in Parts(l)
  PROVE  /\ p[1] \in Line /\ p[1].of = l.of /\ p[1].kind \in {l.kind, "rest"}
         /\ p[1].kind = "method" => p[1] = l
         /\ p[2] \in Line /\ p[2].of = l.of
         /\ p[2].kind \notin {"method", "CSeq"}
<1> DEFINE rest == [l EXCEPT !.kind = "rest", !.value = ""]
<1>1. /\ rest \in Line /\ rest.of = l.of /\ rest.kind = "rest"
      /\ [rest EXCEPT !.kind = "blank"] \in Line
      /\ [rest EXCEPT !.kind = "blank"].of = l.of
      /\ [rest EXCEPT !.kind = "blank"].kind = "blank"
  BY DEF Line
<1>2. ASSUME NEW v \in {"garbled", "words"}
      PROVE  /\ [l EXCEPT !.value = v] \in Line
             /\ [l EXCEPT !.value = v].of = l.of
             /\ [l EXCEPT !.value = v].kind = l.kind
  BY DEF Line
<1> HIDE DEF rest
<1>3. \/ p \in {<<rest, rest>>, <<l, [rest EXCEPT !.kind = "blank"]>>}
      \/ l.kind = "method" /\ p = <<l, rest>>
      \/ l.kind = "CSeq" /\ p = <<[l EXCEPT !.value = "garbled"], rest>>
      \/ /\ l.kind = "client_port"
         /\ p \in {<<rest, l>>, <<l, rest>>, <<[l EXCEPT !.value = "words"], rest>>}
      \/ l.kind = "Accept" /\ p = <<rest, l>>
  <2>1. l.kind \in {"method", "CSeq", "client_port", "Accept"}
    BY DEF Line
  <2>2. Parts(l) = {<<rest, rest>>, <<l, [rest EXCEPT !.kind = "blank"]>>} \cup
       CASE l.kind = "method"      -> {<<l, rest>>}
         [] l.kind = "CSeq"        -> {<<[l EXCEPT !.value = "garbled"], rest>>}
         [] l.kind = "client_port" -> {<<rest, l>>, <<l, rest>>,
                                       <<[l EXCEPT !.value = "words"], rest>>}
         [] l.kind = "Accept"      -> {<<rest, l>>}
    BY DEF Parts, rest
  <2> QED  BY <2>1, <2>2
<1> HIDE DEF Line
<1> DEFINE Half(q) == /\ q[1] \in Line /\ q[1].of = l.of
                      /\ q[1].kind \in {l.kind, "rest"}
                      /\ q[1].kind = "method" => q[1] = l
                      /\ q[2] \in Line /\ q[2].of = l.of
                      /\ q[2].kind \notin {"method", "CSeq"}
<1>4. CASE p \in {<<rest, rest>>, <<l, [rest EXCEPT !.kind = "blank"]>>}
  <2>1. Half(<<rest, rest>>) /\ Half(<<l, [rest EXCEPT !.kind = "blank"]>>)
    BY <1>1
  <2> QED  BY <1>4, <2>1
<1>5. CASE l.kind = "method" /\ p = <<l, rest>>
  BY <1>1, <1>5
<1>6. CASE l.kind = "CSeq" /\ p = <<[l EXCEPT !.value = "garbled"], rest>>
  BY <1>1, <1>2, <1>6
<1>7. CASE /\ l.kind = "client_port"
           /\ p \in {<<rest, l>>, <<l, rest>>, <<[l EXCEPT !.value = "words"], rest>>}
  <2>1. /\ Half(<<rest, l>>) /\ Half(<<l, rest>>)
        /\ Half(<<[l EXCEPT !.value = "words"], rest>>)
    BY <1>1, <1>2, <1>7
  <2> QED  BY <1>7, <2>1
<1>8. CASE l.kind = "Accept" /\ p = <<rest, l>>
  BY <1>1, <1>8
<1> QED  BY <1>3, <1>4, <1>5, <1>6, <1>7, <1>8

LEMMA RecvFacts ==
  ASSUME TypeInv, NEW c \in Clients, Recv(c)
  PROVE  \E some, left, k, d :
           Received(c, some, left) /\ Cut(wire[c], some, left, k, d)
<1> DEFINE w == wire[c]
           upTo(k) == SubSeq(w, 1, k)
           from(k) == SubSeq(w, k, Len(w))
<1>1. w \in Seq(Line) /\ Len(w) \in Nat
  BY DEF TypeInv, TypeOK
<1>2. CASE \E k \in 1 .. Len(w) : Received(c, upTo(k), from(k + 1))
  <2>1. PICK k \in 1 .. Len(w) : Received(c, upTo(k), from(k + 1))
    BY <1>2
  <2>2. Cut(w, upTo(k), from(k + 1), k, 0)
    BY <1>1 DEF Cut
  <2> QED  BY <2>1, <2>2
<1>3. CASE \E k \in 0 .. Len(w) - 1 :
             /\ w[k + 1].kind \notin {"rest", "blank"}
             /\ \E p \in Parts(w[k + 1]) :
                  Received(c, Append(upTo(k), p[1]), <<p[2]>> \o from(k + 2))
  <2>5. PICK k \in 0 .. Len(w) - 1 :
             /\ w[k + 1].kind \notin {"rest", "blank"}
             /\ \E p \in Parts(w[k + 1]) :
                  Received(c, Append(upTo(k), p[1]), <<p[2]>> \o from(k + 2))
    BY <1>3
  <2>1. PICK p \in Parts(w[k + 1]) :
             Received(c, Append(upTo(k), p[1]), <<p[2]>> \o from(k + 2))
    BY <2>5
  <2>2. w[k + 1] \in Line
    BY <1>1
  <2>3. /\ p[1] \in Line /\ p[1].of = w[k + 1].of
        /\ p[1].kind \in {w[k + 1].kind, "rest"}
        /\ p[1].kind = "method" => p[1] = w[k + 1]
        /\ p[2] \in Line /\ p[2].of = w[k + 1].of
        /\ p[2].kind \notin {"method", "CSeq"}
    BY <2>5, <2>2, PartsFacts
  <2>4. Cut(w, Append(upTo(k), p[1]), <<p[2]>> \o from(k + 2), k + 1, 1)
    <3> HIDE DEF w
    <3> QED  BY <1>1, <2>3 DEF Cut
  <2> QED  BY <2>1, <2>4
<1> QED  BY <1>2, <1>3 DEF Recv

LEMMA TypeInit == Init => TypeOK
BY ConstantsFacts DEF Init, TypeOK

LEMMA LinesInit == Init => LinesInv
BY DEF Init, LinesInv, OwnLines

LEMMA ShortSeqs ==
  ASSUME NEW A
  PROVE  <<>> \in Seq(A) /\ \A a \in A : <<a>> \in Seq(A)
OBVIOUS

LEMMA LinesFacts ==
  ASSUME NEW c \in Clients, NEW r \in Requests, NEW n \in 1 .. MaxRequests
  PROVE  /\ Lines(r, n) \in Seq(Line)
         /\ \A k \in DOMAIN Lines(r, n) :
              /\ Lines(r, n)[k].of = n
              /\ Lines(r, n)[k].kind = "method" => Lines(r, n)[k].value = r.method
<1> DEFINE Good == {l \in Line : l.of = n /\ (l.kind = "method" => l.value = r.method)}
<1>1. /\ r.method \in Methods /\ r.CSeq \in {"number", "garbled", "none"}
      /\ r.client_port \in {"numbers", "words", "none"} /\ r.Accept \in {"sdp", "none"}
  BY ConstantsFacts DEF Methods
<1>2. ASSUME NEW kind \in {"CSeq", "client_port", "Accept", "blank"},
             NEW v \in {"number", "garbled", "numbers", "words", "sdp", "", "none"}
      PROVE  HeaderLine(kind, n, v) \in Seq(Good)
  <2> DEFINE l == [kind |-> kind, of |-> n, value |-> v]
  <2>1. v # "none" => l \in Good
    BY DEF Line
  <2>2. HeaderLine(kind, n, v) = IF v = "none" THEN <<>> ELSE <<l>>
    BY DEF HeaderLine
  <2> HIDE DEF Good, l
  <2> QED  BY <2>1, <2>2, ShortSeqs, Zenon
<1>3. HeaderLine("method", n, r.method) \in Seq(Good)
  <2>1. [kind |-> "method", of |-> n, value |-> r.method] \in Good
    BY <1>1 DEF Line
  <2> HIDE DEF Good
  <2> QED  BY <2>1 DEF HeaderLine
<1>4. /\ HeaderLine("CSeq", n, r.CSeq) \in Seq(Good)
      /\ HeaderLine("client_port", n, r.client_port) \in Seq(Good)
      /\ HeaderLine("Accept", n, r.Accept) \in Seq(Good)
      /\ HeaderLine("blank", n, "") \in Seq(Good)
  <2> HIDE DEF Good
  <2> QED  BY <1>1, <1>2
<1>5. Lines(r, n) \in Seq(Good)
  <2> HIDE DEF Good
  <2>1. \A s, t \in Seq(Good) : s \o t \in Seq(Good)
    OBVIOUS
  <2> DEFINE l2 == HeaderLine("CSeq", n, r.CSeq)
             l3 == HeaderLine("client_port", n, r.client_port)
             l4 == HeaderLine("Accept", n, r.Accept)
             l5 == HeaderLine("blank", n, "")
  <2>2. Lines(r, n) = HeaderLine("method", n, r.method) \o l2 \o l3 \o l4 \o l5
    BY DEF Lines
  <2> HIDE DEF l2, l3, l4, l5
  <2>3. /\ l2 \in Seq(Good) /\ l3 \in Seq(Good)
        /\ l4 \in Seq(Good) /\ l5 \in Seq(Good)
    BY <1>4 DEF l2, l3, l4, l5
  <2> QED  BY <1>3, <2>1, <2>2, <2>3
<1>6. Seq(Good) \subseteq Seq(Line)
  OBVIOUS
<1>7. \A k \in DOMAIN Lines(r, n) : Lines(r, n)[k] \in Good
  <2> HIDE DEF Good
  <2> QED  BY <1>5
<1> QED  BY <1>5, <1>6, <1>7

LEMMA TypesNext ==
  ASSUME TypeInv, [Next]_vars
  PROVE  TypeOK'
<1> USE DEF TypeInv, TypeOK, Places, capture
<1>1. ASSUME NEW c \in Clients, Accept(c)  PROVE TypeOK'
  <2>1. descriptors' \in 0 .. FdLimit
    BY <1>1, ConstantsFacts DEF Accept, SocketsLeft
  <2> QED  BY <1>1, <2>1 DEF Accept, Goto, peer
<1>2. ASSUME AcceptFails  PROVE TypeOK'
  BY <1>2 DEF AcceptFails, peer, resources
<1>3. ASSUME CaptureFails  PROVE TypeOK'
  BY <1>3 DEF CaptureFails, peer, resources
<1>4. ASSUME NEW c \in Clients, Connect(c)  PROVE TypeOK'
  BY <1>4 DEF Connect, resources
<1>5. ASSUME NEW c \in Clients, Leave(c)  PROVE TypeOK'
  BY <1>5 DEF Leave, resources
<1>6. ASSUME NEW c \in Clients, NEW r \in Requests, Ask(c, r)  PROVE TypeOK'
  <2>1. Lines(r, Len(asked[c]) + 1) \in Seq(Line)
    <3>1. Len(asked[c]) + 1 \in 1 .. MaxRequests
      BY <1>6, ConstantsFacts DEF Ask
    <3> QED  BY <3>1, LinesFacts
  <2>2. wire[c] \o Lines(r, Len(asked[c]) + 1) \in Seq(Line)
    BY <2>1
  <2>3. wire' \in [Clients -> Seq(Line)]
    BY <1>6, <2>2 DEF Ask
  <2>4. asked' \in [Clients -> Seq(Requests)]
    BY <1>6 DEF Ask
  <2> QED  BY <1>6, <2>3, <2>4 DEF Ask, resources
<1>7. ASSUME NEW c \in Clients, Recv(c)  PROVE TypeOK'
  <2>1. PICK some, left, k, d : /\ Received(c, some, left)
                                /\ Cut(wire[c], some, left, k, d)
    BY <1>7, RecvFacts
  <2>2. some \in Seq(Line) /\ left \in Seq(Line)
    BY <2>1 DEF Cut
  <2>3. wire' \in [Clients -> Seq(Line)] /\ request' \in [Clients -> Seq(Line)]
    BY <2>1, <2>2 DEF Received
  <2> QED  BY <1>7, <2>3 DEF Recv, Goto, peer, resources
<1>8. ASSUME NEW c \in Clients, RecvFails(c)  PROVE TypeOK'
  BY <1>8 DEF RecvFails, peer, resources
<1>9. ASSUME NEW c \in Clients, HandleNoCSeq(c)  PROVE TypeOK'
  BY <1>9 DEF HandleNoCSeq, Goto, peer, resources
<1>10. ASSUME NEW c \in Clients, HandleUnsupported(c)  PROVE TypeOK'
  BY <1>10 DEF HandleUnsupported, Valid, Goto, peer, resources
<1>11. ASSUME NEW c \in Clients, NEW methods, "OTHER" \notin methods,
              NEW status \in {200, 406}, NEW l \in {"recv", "setup", "command"},
              Answered(c, methods, status, l)
       PROVE  TypeOK'
  <2>1. ParseMethod(c) \in Methods
    <3>3. ParseMethod(c) # "OTHER"
      BY <1>11 DEF Answered, Valid
    <3>1. PICK k \in DOMAIN request[c] :
            ParseMethod(c) = asked[c][request[c][k].of].method
      <4> HIDE DEF TypeInv
      <4> QED  BY <3>3, ParseFacts
    <3>2. request[c][k].of \in DOMAIN asked[c]
      BY DEF LinesInv, OwnLines, OwnLine
    <3> QED  BY <3>1, <3>2 DEF Methods
  <2>2. ParseCSeq(c) \in 0 .. MaxRequests
    <3>1. CASE ParseCSeq(c) = 0
      BY <3>1, ConstantsFacts
    <3>2. CASE ParseCSeq(c) # 0
      <4>1. PICK k \in DOMAIN request[c] : ParseCSeq(c) = request[c][k].of
        <5> HIDE DEF TypeInv
        <5> QED  BY <3>2, ParseFacts
      <4>2. request[c][k].of \in 1 .. MaxRequests
        <5>1. request[c][k] \in Line
          OBVIOUS
        <5> QED  BY <5>1 DEF Line
      <4> QED  BY <4>1, <4>2, ConstantsFacts
    <3> QED  BY <3>1, <3>2
  <2> DEFINE Answers == [of : 0 .. MaxRequests, method : Methods, status : {200, 406}]
             a == [of |-> ParseCSeq(c), method |-> ParseMethod(c), status |-> status]
  <2>3. a \in Answers
    BY <2>1, <2>2
  <2>4. answers' = [answers EXCEPT ![c] = Append(@, a)]
    BY <1>11 DEF Answered, Respond
  <2>5. answers' \in [Clients -> Seq(Answers)]
    <3> HIDE DEF Answers, a
    <3>1. answers \in [Clients -> Seq(Answers)]
      BY DEF Answers
    <3> QED  BY <2>3, <2>4, <3>1
  <2>6. server' \in {"running", "stopped", "down", "captureDown"}
    BY <1>11 DEF Answered, Respond
  <2>7. pc' \in [Clients -> Places]
    BY <1>11 DEF Answered, Goto
  <2> QED  BY <1>11, <2>5, <2>6, <2>7 DEF Answered, peer, resources
<1>12. ASSUME NEW c \in Clients, HandleSetupNoPorts(c)  PROVE TypeOK'
  BY <1>12 DEF HandleSetupNoPorts, Valid, Goto, peer, resources
<1>13. ASSUME NEW c \in Clients, HandleSetupBadPorts(c)  PROVE TypeOK'
  BY <1>13 DEF HandleSetupBadPorts, Valid, peer, resources
<1>21. ASSUME OpenCapture  PROVE TypeOK'
  <2>1. opening' \in Nat /\ captures' \in Nat /\ descriptors' \in 0 .. FdLimit
    BY <1>21, ConstantsFacts DEF OpenCapture, SocketsLeft
  <2> QED  BY <1>21, <2>1 DEF OpenCapture, peer
<1>22. ASSUME NEW c \in Clients, StartCapture(c)  PROVE TypeOK'
  <2>1. opening' \in Nat
    BY <1>22 DEF StartCapture
  <2>2. pc' \in [Clients -> Places]
    BY <1>22 DEF StartCapture, Goto
  <2> QED  BY <1>22, <2>1, <2>2 DEF StartCapture, peer
<1>14. ASSUME NEW c \in Clients, StartStream(c)  PROVE TypeOK'
  <2> DEFINE Streams == [owner : Clients, state : {"Init", "Play", "Pause", "Teardown"}]
             s == [owner |-> c, state |-> "Init"]
  <2>1. s \in Streams
    OBVIOUS
  <2>2. streams' = Append(streams, s)
    BY <1>14 DEF StartStream
  <2>3. streams' \in Seq(Streams) /\ Len(streams') = Len(streams) + 1
    <3> HIDE DEF Streams, s
    <3>1. streams \in Seq(Streams)
      BY DEF Streams
    <3> QED  BY <2>1, <2>2, <3>1
  <2>4. mediaStreamHandler' \in [Clients -> 0 .. Len(streams')]
    BY <1>14, <2>3 DEF StartStream
  <2>5. descriptors' \in 0 .. FdLimit
    BY <1>14, ConstantsFacts DEF StartStream, socketsOpened, SocketsLeft
  <2>6. pc' \in [Clients -> Places]
    BY <1>14 DEF StartStream, Goto
  <2> QED  BY <1>14, <2>3, <2>4, <2>5, <2>6 DEF StartStream, peer
<1>15. ASSUME NEW c \in Clients, SetCmd(c)  PROVE TypeOK'
  <2> DEFINE Streams == [owner : Clients, state : {"Init", "Play", "Pause", "Teardown"}]
             h == mediaStreamHandler[c]
             s == [streams[h] EXCEPT !.state = StateOf[ParseMethod(c)]]
  <2>1. h \in DOMAIN streams
    BY <1>15 DEF SetCmd
  <2>2. StateOf[ParseMethod(c)] \in {"Play", "Pause", "Teardown"}
    <3>1. ParseMethod(c) \in Commands
      BY <1>15 DEF SetCmd, LinesInv, OwnLines
    <3> QED  BY <3>1 DEF Commands, StateOf
  <2>3. s \in Streams
    <3>1. streams[h] \in Streams
      <4>1. streams \in Seq(Streams)
        BY DEF Streams
      <4> HIDE DEF h, Streams, TypeInv, TypeOK
      <4> QED  BY <2>1, <4>1
    <3> HIDE DEF h
    <3> QED  BY <2>2, <3>1
  <2>4. streams' = [streams EXCEPT ![h] = s]
    BY <1>15, <2>1 DEF SetCmd
  <2>5. streams' \in Seq(Streams) /\ Len(streams') = Len(streams)
    <3> HIDE DEF Streams, s
    <3>1. streams \in Seq(Streams)
      BY DEF Streams
    <3> HIDE DEF h, TypeOK, TypeInv
    <3> QED  BY <2>1, <2>3, <2>4, <3>1
  <2>6. pc' \in [Clients -> Places]
    BY <1>15 DEF SetCmd, AfterCommand, Goto
  <2> QED  BY <1>15, <2>5, <2>6 DEF SetCmd, peer, resources
<1>16. ASSUME NEW c \in Clients, SetCmdUninitialised(c)  PROVE TypeOK'
  BY <1>16, ZenonT(60) DEF SetCmdUninitialised, AfterCommand, Goto, peer, resources
<1>17. ASSUME UNCHANGED vars  PROVE TypeOK'
  BY <1>17 DEF vars, peer, resources
<1> HIDE DEF TypeInv, TypeOK
<1>18. ASSUME NEW c \in Clients, NEW m \in {"OPTIONS", "DESCRIBE"},
              NEW status \in {200, 406}, Answered(c, {m}, status, "recv")
       PROVE  TypeOK'
  <2>1. "OTHER" \notin {m}
    OBVIOUS
  <2> QED  BY <1>11, <1>18, <2>1
<1>19. ASSUME NEW c \in Clients, Answered(c, {"SETUP"}, 200, "setup")
       PROVE  TypeOK'
  <2>1. "OTHER" \notin {"SETUP"}
    OBVIOUS
  <2> QED  BY <1>11, <1>19, <2>1
<1>20. ASSUME NEW c \in Clients, Answered(c, Commands, 200, "command")
       PROVE  TypeOK'
  <2>1. "OTHER" \notin Commands
    BY DEF Commands, StateOf
  <2> QED  BY <1>11, <1>20, <2>1
<1> QED  BY <1>1, <1>2, <1>3, <1>4, <1>5, <1>6, <1>7, <1>8, <1>9, <1>10, <1>12, <1>13,
            <1>14, <1>15, <1>16, <1>17, <1>18, <1>19, <1>20, <1>21, <1>22, NextCases

(* Nothing has changed of c but where its thread is.                       *)
Same(c) ==
  /\ asked'[c] = asked[c] /\ wire'[c] = wire[c] /\ request'[c] = request[c]
  /\ answers'[c] = answers[c]

LEMMA LinesSame ==
  ASSUME TypeInv, NEW c \in Clients, Same(c),
         pc'[c] = "command" => pc[c] = "command"
  PROVE  OwnLines(c)'
<1>1. OwnLines(c)
  BY DEF TypeInv, LinesInv
<1>2. ParseMethod(c)' = ParseMethod(c)
  BY SameRequest DEF Same
<1> QED  BY <1>1, <1>2 DEF OwnLines, OwnLine, Same

(* As far as the lines and the answers go, a step is one of these, of one  *)
(* client, or it changes at most where threads are.                        *)
AnsweredBefore(l) ==
  IF l = "recv" THEN {"OPTIONS", "DESCRIBE"} ELSE IF l = "setup" THEN {"SETUP"} ELSE Commands

AnswerStep(c) ==
  /\ pc[c] = "handle" /\ ParseMethod(c) # "OTHER"
  /\ \E status \in {200, 406} : Respond(c, status)
  /\ UNCHANGED <<asked, wire, request, mediaStreamHandler, streams>>
  /\ \E l \in {"recv", "setup", "command"} : Goto(c, l) /\ ParseMethod(c) \in AnsweredBefore(l)

LEMMA AnsweredSteps ==
  ASSUME NEW c \in Clients, NEW status \in {200, 406}
  PROVE  /\ \A m \in {"OPTIONS", "DESCRIBE"} :
              Answered(c, {m}, status, "recv") => AnswerStep(c)
         /\ Answered(c, {"SETUP"}, status, "setup") => AnswerStep(c)
         /\ Answered(c, Commands, status, "command") => AnswerStep(c)
<1>1. "OTHER" \notin Commands
  BY DEF Commands, StateOf
<1>2. ASSUME NEW methods, NEW l \in {"recv", "setup", "command"},
             "OTHER" \notin methods, methods \subseteq AnsweredBefore(l),
             Answered(c, methods, status, l)
      PROVE  AnswerStep(c)
  <2>1. /\ pc[c] = "handle" /\ ParseMethod(c) # "OTHER"
        /\ ParseMethod(c) \in AnsweredBefore(l)
        /\ UNCHANGED <<asked, wire, request, mediaStreamHandler, streams>>
    BY <1>2 DEF Answered, Valid, peer
  <2>2. Respond(c, status) /\ Goto(c, l)
    BY <1>2 DEF Answered
  <2> QED  BY <2>1, <2>2, ZenonT(30) DEF AnswerStep
<1>3. ASSUME NEW m \in {"OPTIONS", "DESCRIBE"}, Answered(c, {m}, status, "recv")
      PROVE  AnswerStep(c)
  <2>1. "OTHER" \notin {m} /\ {m} \subseteq AnsweredBefore("recv")
    BY DEF AnsweredBefore
  <2> QED  BY <1>2, <1>3, <2>1
<1>4. ASSUME Answered(c, {"SETUP"}, status, "setup")  PROVE AnswerStep(c)
  <2>1. "OTHER" \notin {"SETUP"} /\ {"SETUP"} \subseteq AnsweredBefore("setup")
    BY DEF AnsweredBefore
  <2> QED  BY <1>2, <1>4, <2>1
<1>5. ASSUME Answered(c, Commands, status, "command")  PROVE AnswerStep(c)
  <2>1. Commands \subseteq AnsweredBefore("command")
    BY DEF AnsweredBefore
  <2> QED  BY <1>1, <1>2, <1>5, <2>1
<1> QED  BY <1>3, <1>4, <1>5

LEMMA StepCases ==
  ASSUME TypeInv, [Next]_vars
  PROVE  \/ \A d \in Clients : Same(d) /\ pc'[d] \in {pc[d], "recv", "stream", "ended"}
         \/ \E c \in Clients :
              /\ (\E r \in Requests : Ask(c, r)) \/ Recv(c) \/ AnswerStep(c)
              /\ \A d \in Clients \ {c} : Same(d) /\ pc'[d] = pc[d]
<1> DEFINE Quiet == \A d \in Clients : Same(d) /\ pc'[d] \in {pc[d], "recv", "stream", "ended"}
           Others(c) == \A d \in Clients \ {c} : Same(d) /\ pc'[d] = pc[d]
<1>0. /\ pc \in [Clients -> Places]
      /\ DOMAIN asked = Clients /\ DOMAIN wire = Clients /\ DOMAIN request = Clients
      /\ DOMAIN answers = Clients
  BY DEF TypeInv, TypeOK, Places
<1> USE DEF Same
<1>1. AcceptFails \/ OpenCapture \/ CaptureFails \/ UNCHANGED vars => Quiet
  BY DEF AcceptFails, OpenCapture, CaptureFails, vars, peer
<1>2. ASSUME NEW c \in Clients
      PROVE  Accept(c) \/ Connect(c) \/ Leave(c) => Quiet
  BY <1>0 DEF Accept, Connect, Leave, Goto, peer
<1>3. ASSUME NEW c \in Clients
      PROVE  (\/ RecvFails(c) \/ HandleNoCSeq(c) \/ HandleUnsupported(c)
              \/ HandleSetupNoPorts(c) \/ HandleSetupBadPorts(c)) => Quiet
  BY <1>0 DEF RecvFails, HandleNoCSeq, HandleUnsupported, HandleSetupNoPorts,
              HandleSetupBadPorts, Goto, peer
<1>4. ASSUME NEW c \in Clients
      PROVE  (\/ StartCapture(c) \/ StartStream(c)
              \/ SetCmd(c) \/ SetCmdUninitialised(c)) => Quiet
  BY <1>0 DEF StartCapture, StartStream, SetCmd, SetCmdUninitialised, AfterCommand, Goto, peer
<1>5. ASSUME NEW c \in Clients, NEW r \in Requests, Ask(c, r)
      PROVE  Others(c)
  BY <1>0, <1>5 DEF Ask
<1>6. ASSUME NEW c \in Clients, Recv(c)
      PROVE  Others(c)
  BY <1>0, <1>6, RecvFacts DEF Recv, Received, Goto, peer
<1>7. ASSUME NEW c \in Clients, AnswerStep(c)
      PROVE  Others(c)
  BY <1>0, <1>7 DEF AnswerStep, Respond, Goto
<1>8. ASSUME NEW c \in Clients
      PROVE  /\ \A m \in {"OPTIONS", "DESCRIBE"}, status \in {200, 406} :
                  Answered(c, {m}, status, "recv") => AnswerStep(c)
             /\ Answered(c, {"SETUP"}, 200, "setup") => AnswerStep(c)
             /\ Answered(c, Commands, 200, "command") => AnswerStep(c)
  BY AnsweredSteps
<1> HIDE DEF Quiet, Others
<1>9. Quiet \/ \E c \in Clients :
              /\ (\E r \in Requests : Ask(c, r)) \/ Recv(c) \/ AnswerStep(c)
              /\ Others(c)
  <2>1. \/ AcceptFails \/ OpenCapture \/ CaptureFails \/ UNCHANGED vars
        \/ \E c \in Clients :
             \/ Accept(c) \/ Connect(c) \/ Leave(c)
             \/ \/ RecvFails(c) \/ HandleNoCSeq(c) \/ HandleUnsupported(c)
                \/ HandleSetupNoPorts(c) \/ HandleSetupBadPorts(c)
             \/ \/ StartCapture(c) \/ StartStream(c)
                \/ SetCmd(c) \/ SetCmdUninitialised(c)
             \/ \E r \in Requests : Ask(c, r)
             \/ Recv(c) \/ AnswerStep(c)
    BY <1>8, NextCases
  <2>2. ASSUME NEW c \in Clients,
               (\E r \in Requests : Ask(c, r)) \/ Recv(c) \/ AnswerStep(c)
        PROVE  Others(c)
    BY <1>5, <1>6, <1>7, <2>2
  <2> QED  BY <1>1, <1>2, <1>3, <1>4, <2>1, <2>2
<1> QED  BY <1>9 DEF Quiet, Others

LEMMA LinesNext ==
  ASSUME TypeInv, [Next]_vars
  PROVE  LinesInv'
<1>1. CASE \A d \in Clients : Same(d) /\ pc'[d] \in {pc[d], "recv", "stream", "ended"}
  BY <1>1, LinesSame DEF LinesInv
<1>2. ASSUME NEW c \in Clients, \A d \in Clients \ {c} : Same(d) /\ pc'[d] = pc[d],
             OwnLines(c)'
      PROVE  LinesInv'
  BY <1>2, LinesSame DEF LinesInv
<1>3. ASSUME NEW c \in Clients, NEW r \in Requests, Ask(c, r)
      PROVE  OwnLines(c)'
  <2>0. PICK n, new : n = Len(asked[c]) + 1 /\ new = Lines(r, n)
    OBVIOUS
  <2>1. /\ asked[c] \in Seq(Requests) /\ wire[c] \in Seq(Line)
        /\ request[c] \in Seq(Line) /\ Len(asked[c]) \in Nat
        /\ OwnLines(c)
    BY DEF TypeInv, TypeOK, LinesInv
  <2>2. /\ asked'[c] = Append(asked[c], r) /\ wire'[c] = wire[c] \o new
        /\ request'[c] = request[c] /\ answers'[c] = answers[c] /\ pc' = pc
        /\ n \in 1 .. MaxRequests
    BY <1>3, <2>0, <2>1, ConstantsFacts DEF Ask, TypeInv, TypeOK
  <2>3. /\ new \in Seq(Line)
        /\ \A k \in DOMAIN new :
              new[k].of = n /\ (new[k].kind = "method" => new[k].value = r.method)
    BY <2>0, <2>2, LinesFacts
  <2>4. /\ n = Len(asked[c]) + 1 /\ n \in DOMAIN asked'[c] /\ asked'[c][n] = r
        /\ \A k \in DOMAIN asked[c] : k \in DOMAIN asked'[c] /\ asked'[c][k] = asked[c][k]
        /\ Len(asked'[c]) = Len(asked[c]) + 1
    BY <2>0, <2>1, <2>2
  <2>5. ASSUME NEW l, OwnLine(c, l)  PROVE OwnLine(c, l)'
    BY <2>4, <2>5 DEF OwnLine
  <2>6. ASSUME NEW k \in DOMAIN wire'[c]  PROVE OwnLine(c, wire[c][k])'
    <3>1. CASE k \in DOMAIN wire[c]
      <4>1. wire'[c][k] = wire[c][k]
        BY <2>1, <2>2, <2>3, <3>1
      <4>2. OwnLine(c, wire[c][k])
        BY <2>1, <3>1 DEF OwnLines
      <4> QED  BY <2>5, <4>1, <4>2
    <3>2. CASE k \notin DOMAIN wire[c]
      <4>1. PICK j \in DOMAIN new : wire'[c][k] = new[j]
        <5>1. k - Len(wire[c]) \in DOMAIN new /\ wire'[c][k] = new[k - Len(wire[c])]
          BY <2>1, <2>2, <2>3, <3>2
        <5> QED  BY <5>1
      <4>2. /\ new[j] \in Line /\ new[j].of = n
            /\ new[j].kind = "method" => new[j].value = r.method
        BY <2>3
      <4>3. OwnLine(c, new[j])'
        BY <2>4, <4>2 DEF OwnLine
      <4> QED  BY <4>1, <4>3
    <3> QED  BY <3>1, <3>2
  <2>7. ASSUME NEW k \in DOMAIN request'[c]  PROVE OwnLine(c, request[c][k])'
    <3>1. OwnLine(c, request[c][k])
      BY <2>1, <2>2, <2>7 DEF OwnLines
    <3> QED  BY <2>2, <2>5, <3>1
  <2>8. ParseMethod(c)' = ParseMethod(c)
    BY <2>2, SameRequest
  <2>9. ASSUME NEW k \in DOMAIN answers'[c]  PROVE answers'[c][k].of <= Len(asked'[c])
    <3> DEFINE A == [of : 0 .. MaxRequests, method : Methods, status : {200, 406}]
    <3>2. answers[c] \in Seq(A)
      BY ZenonT(60) DEF TypeInv, TypeOK
    <3>3. answers[c][k] \in A
      <4> HIDE DEF A
      <4> QED  BY <2>2, <2>9, <3>2
    <3>1. answers[c][k].of \in 0 .. MaxRequests /\ answers[c][k].of <= Len(asked[c])
      BY <2>1, <2>2, <2>9, <3>3 DEF OwnLines
    <3> QED  BY <2>1, <2>2, <2>4, <3>1, ConstantsFacts
  <2> QED  BY <2>1, <2>2, <2>6, <2>7, <2>8, <2>9 DEF OwnLines
<1>4. ASSUME NEW c \in Clients, Recv(c)
      PROVE  OwnLines(c)'
  <2>1. PICK some, left, k, d : /\ Received(c, some, left)
                                /\ Cut(wire[c], some, left, k, d)
    BY <1>4, RecvFacts
  <2>2. /\ request'[c] = some /\ wire'[c] = left /\ asked' = asked /\ answers' = answers
        /\ pc'[c] = "handle" /\ wire[c] \in Seq(Line) /\ OwnLines(c)
    BY <1>4, <2>1 DEF Recv, Received, Goto, peer, TypeInv, TypeOK, LinesInv
  <2>3. \A i \in DOMAIN wire[c] : OwnLine(c, wire[c][i])
    BY <2>2 DEF OwnLines
  <2>4. ASSUME NEW i \in DOMAIN some  PROVE OwnLine(c, some[i])
    <3>1. i \in 1 .. k /\ k \in 1 .. Len(wire[c]) /\ some[i] \in Line
      BY <2>1 DEF Cut
    <3>2. CASE i < k
      BY <2>1, <2>2, <2>3, <3>1, <3>2 DEF Cut
    <3>3. CASE i = k
      <4>1. /\ some[k].of = wire[c][k].of
            /\ some[k].kind = "method" => some[k] = wire[c][k]
            /\ OwnLine(c, wire[c][k])
        BY <2>1, <2>2, <2>3, <3>1 DEF Cut
      <4> QED  BY <3>1, <3>3, <4>1 DEF OwnLine
    <3> QED  BY <3>1, <3>2, <3>3
  <2>5. ASSUME NEW j \in DOMAIN left  PROVE OwnLine(c, left[j])
    <3>1. /\ j \in 1 .. Len(left) /\ k \in 1 .. Len(wire[c]) /\ d \in {0, 1}
          /\ left[j] \in Line
      BY <2>1 DEF Cut
    <3>2. CASE j > d
      BY <2>1, <2>2, <2>3, <3>1, <3>2, SMTT(30) DEF Cut
    <3>3. CASE d = 1 /\ j = 1
      <4>1. /\ left[1].of = wire[c][k].of /\ left[1].kind # "method"
            /\ OwnLine(c, wire[c][k])
        BY <2>1, <2>2, <2>3, <3>1, <3>3 DEF Cut
      <4> QED  BY <3>1, <3>3, <4>1 DEF OwnLine
    <3> QED  BY <3>1, <3>2, <3>3
  <2> QED  BY <2>2, <2>4, <2>5 DEF OwnLines, OwnLine
<1>5. ASSUME NEW c \in Clients, AnswerStep(c)
      PROVE  OwnLines(c)'
  <2>1. PICK status, l : /\ Respond(c, status) /\ Goto(c, l)
                         /\ l = "command" => ParseMethod(c) \in Commands
    BY <1>5 DEF AnswerStep, AnsweredBefore
  <2> DEFINE a == [of |-> ParseCSeq(c), method |-> ParseMethod(c), status |-> status]
  <2>2. /\ request' = request /\ wire' = wire /\ asked' = asked /\ OwnLines(c)
        /\ answers'[c] = Append(answers[c], a) /\ pc'[c] = l
        /\ asked[c] \in Seq(Requests)
    BY <1>5, <2>1 DEF AnswerStep, Respond, Goto, TypeInv, TypeOK, LinesInv
  <2>3. ParseCSeq(c) <= Len(asked[c])
    <3>1. CASE ParseCSeq(c) = 0
      BY <2>2, <3>1
    <3>2. CASE ParseCSeq(c) # 0
      <4>1. PICK k \in DOMAIN request[c] : ParseCSeq(c) = request[c][k].of
        BY <3>2, ParseFacts
      <4> QED  BY <2>2, <4>1 DEF OwnLines, OwnLine
    <3> QED  BY <3>1, <3>2
  <2>4. ParseMethod(c)' = ParseMethod(c)
    BY <2>2, SameRequest
  <2>5. ASSUME NEW k \in DOMAIN answers'[c]  PROVE answers'[c][k].of <= Len(asked[c])
    <3>1. Len(answers[c]) \in Nat /\ a.of = ParseCSeq(c)
      BY DEF TypeInv, TypeOK
    <3> HIDE DEF a
    <3>2. \/ k \in DOMAIN answers[c] /\ answers'[c][k] = answers[c][k]
          \/ answers'[c][k] = a
      BY <2>2, <3>1
    <3> QED  BY <2>2, <2>3, <3>1, <3>2 DEF OwnLines
  <2> QED  BY <2>1, <2>2, <2>4, <2>5 DEF OwnLines, OwnLine
<1> QED  BY <1>1, <1>2, <1>3, <1>4, <1>5, StepCases

LEMMA TypeAlways == Spec => []TypeInv
<1>1. Init => TypeInv
  BY TypeInit, LinesInit DEF TypeInv
<1>2. TypeInv /\ [Next]_vars => TypeInv'
  BY TypesNext, LinesNext DEF TypeInv
<1> QED  BY <1>1, <1>2, PTL DEF Spec

(* Every variable has its type, whatever the clients ask.                  *)
THEOREM TypeCorrect == Spec => []TypeOK
<1>1. TypeInv => TypeOK
  BY DEF TypeInv
<1> QED  BY <1>1, TypeAlways, PTL

-----------------------------------------------------------------------------
(* Answers bear the number of the request that they answer.  The invariant *)
(* behind it: the numbers on a connection only grow, from the answers to   *)
(* what a thread has received and on to what is still on the wire; and as  *)
(* long as a client numbers its requests, the number follows the method at *)
(* once, unless recv has cut one of the two off.                           *)
IsCSeq(s, i) == i \in DOMAIN s /\ s[i].kind = "CSeq"

Increasing(s) ==
  \A i, j \in DOMAIN s : IsCSeq(s, i) /\ IsCSeq(s, j) /\ i < j => s[i].of < s[j].of

Before(s, t) ==
  \A i \in DOMAIN s, j \in DOMAIN t : IsCSeq(s, i) /\ IsCSeq(t, j) => s[i].of < t[j].of

AfterAnswers(c, s) ==
  \A i \in DOMAIN s, k \in DOMAIN answers[c] :
    IsCSeq(s, i) => answers[c][k].of < s[i].of

Paired(s) ==
  \A i \in DOMAIN s : s[i].kind = "method" => IsCSeq(s, i + 1) /\ s[i + 1].of = s[i].of

PairedUnlessCut(s) ==
  \A i \in DOMAIN s : s[i].kind = "method" /\ i + 1 \in DOMAIN s =>
    s[i + 1].of = s[i].of /\ (IsCSeq(s, i + 1) \/ i + 1 = Len(s))

Matches(c) ==
  \A k \in DOMAIN answers[c] :
    LET n == answers[c][k].of IN n # 0 =>
      /\ n \in DOMAIN asked[c]
      /\ asked[c][n].method = answers[c][k].method
      /\ \A j \in 1 .. k - 1 : answers[c][j].of < n

OrderInv(c) ==
  /\ Increasing(wire[c]) /\ AfterAnswers(c, wire[c])
  /\ pc[c] = "handle" => Before(request[c], wire[c]) /\ AfterAnswers(c, request[c])
  /\ Numbered(c) => /\ Paired(wire[c]) /\ Matches(c)
                    /\ pc[c] = "handle" => PairedUnlessCut(request[c])

(* In the lines of one request no kind occurs twice.                       *)
Distinct(s, kinds) ==
  /\ \A i \in DOMAIN s : s[i].kind \in kinds
  /\ \A i, j \in DOMAIN s : s[i].kind = s[j].kind => i = j

LEMMA DistinctJoin ==
  ASSUME NEW E, NEW s \in Seq(E), NEW t \in Seq(E), NEW A, NEW B, A \cap B = {},
         Distinct(s, A), Distinct(t, B)
  PROVE  Distinct(s \o t, A \cup B)
<1>1. ASSUME NEW i \in DOMAIN (s \o t)
      PROVE  \/ i \in DOMAIN s /\ (s \o t)[i] = s[i]
             \/ i - Len(s) \in DOMAIN t /\ (s \o t)[i] = t[i - Len(s)] /\ i \in Nat
  OBVIOUS
<1>2. Len(s) \in Nat
  OBVIOUS
<1> QED  BY <1>1, <1>2, SMTT(30) DEF Distinct

LEMMA LinesOrder ==
  ASSUME NEW r \in Requests, NEW n \in 1 .. MaxRequests
  PROVE  /\ \A i, j \in DOMAIN Lines(r, n) :
              Lines(r, n)[i].kind = Lines(r, n)[j].kind => i = j
         /\ r.CSeq = "number" =>
              /\ 1 \in DOMAIN Lines(r, n) /\ Lines(r, n)[1].kind = "method"
              /\ 2 \in DOMAIN Lines(r, n) /\ Lines(r, n)[2].kind = "CSeq"
<1> DEFINE line(kind, v) == [kind |-> kind, of |-> n, value |-> v]
           E == {line("method", r.method), line("CSeq", r.CSeq), line("Accept", r.Accept),
                 line("client_port", r.client_port), line("blank", "")}
<1>1. ASSUME NEW kind, NEW v, line(kind, v) \in E
      PROVE  /\ HeaderLine(kind, n, v) \in Seq(E)
             /\ Distinct(HeaderLine(kind, n, v), {kind})
  <2> DEFINE l == line(kind, v)
  <2>1. HeaderLine(kind, n, v) = IF v = "none" THEN <<>> ELSE <<l>>
    BY DEF HeaderLine
  <2>2. l.kind = kind /\ l \in E
    BY <1>1
  <2> HIDE DEF E, l
  <2>3. <<>> \in Seq(E) /\ <<l>> \in Seq(E)
    BY <2>2, ShortSeqs
  <2>4. Distinct(<<>>, {kind}) /\ Distinct(<<l>>, {kind})
    BY <2>2 DEF Distinct
  <2> QED  BY <2>1, <2>3, <2>4
<1>2. /\ line("method", r.method) \in E /\ line("CSeq", r.CSeq) \in E
      /\ line("client_port", r.client_port) \in E /\ line("Accept", r.Accept) \in E
      /\ line("blank", "") \in E
  OBVIOUS
<1> DEFINE h1 == HeaderLine("method", n, r.method)
           h2 == HeaderLine("CSeq", n, r.CSeq)
           h3 == HeaderLine("client_port", n, r.client_port)
           h4 == HeaderLine("Accept", n, r.Accept)
           h5 == HeaderLine("blank", n, "")
<1> HIDE DEF line, E
<1>3. /\ h1 \in Seq(E) /\ h2 \in Seq(E) /\ h3 \in Seq(E) /\ h4 \in Seq(E) /\ h5 \in Seq(E)
      /\ Distinct(h1, {"method"}) /\ Distinct(h2, {"CSeq"}) /\ Distinct(h3, {"client_port"})
      /\ Distinct(h4, {"Accept"}) /\ Distinct(h5, {"blank"})
  BY <1>1, <1>2
<1>4. Lines(r, n) = h1 \o h2 \o h3 \o h4 \o h5
  BY DEF Lines
<1>5. r.CSeq = "number" => /\ h1 = <<line("method", r.method)>>
                           /\ h2 = <<line("CSeq", r.CSeq)>>
  BY ConstantsFacts DEF HeaderLine, line
<1>6. line("method", r.method).kind = "method" /\ line("CSeq", r.CSeq).kind = "CSeq"
  BY DEF line
<1> HIDE DEF h1, h2, h3, h4, h5
<1>7. \A s, t \in Seq(E) : s \o t \in Seq(E)
  OBVIOUS
<1>13. \A s, t \in Seq(E) : \A A, B :
         A \cap B = {} /\ Distinct(s, A) /\ Distinct(t, B) => Distinct(s \o t, A \cup B)
  BY DistinctJoin
<1> DEFINE k1 == {"method"}  k2 == k1 \cup {"CSeq"}  k3 == k2 \cup {"client_port"}
           k4 == k3 \cup {"Accept"}
<1>14. /\ k1 \cap {"CSeq"} = {} /\ k2 \cap {"client_port"} = {}
       /\ k3 \cap {"Accept"} = {} /\ k4 \cap {"blank"} = {}
  OBVIOUS
<1> HIDE DEF k1, k2, k3, k4
<1>8. Distinct(h1 \o h2, k2) /\ h1 \o h2 \in Seq(E)
  BY <1>3, <1>7, <1>13, <1>14 DEF k1, k2
<1>9. Distinct(h1 \o h2 \o h3, k3) /\ h1 \o h2 \o h3 \in Seq(E)
  BY <1>3, <1>7, <1>8, <1>13, <1>14 DEF k3
<1>10. Distinct(h1 \o h2 \o h3 \o h4, k4) /\ h1 \o h2 \o h3 \o h4 \in Seq(E)
  BY <1>3, <1>7, <1>9, <1>13, <1>14 DEF k4
<1>11. Distinct(Lines(r, n), k4 \cup {"blank"})
  <2>1. Distinct((h1 \o h2 \o h3 \o h4) \o h5, k4 \cup {"blank"})
    BY <1>3, <1>10, <1>13, <1>14, Zenon
  <2> QED  BY <1>4, <2>1
<1>12. ASSUME r.CSeq = "number"
       PROVE  /\ 1 \in DOMAIN Lines(r, n) /\ Lines(r, n)[1].kind = "method"
              /\ 2 \in DOMAIN Lines(r, n) /\ Lines(r, n)[2].kind = "CSeq"
  <2>1. \A s, t \in Seq(E) : \A i \in DOMAIN s :
          i \in DOMAIN (s \o t) /\ (s \o t)[i] = s[i]
    OBVIOUS
  <2>2. \A i \in DOMAIN (h1 \o h2) :
          i \in DOMAIN Lines(r, n) /\ Lines(r, n)[i] = (h1 \o h2)[i]
    BY <1>3, <1>4, <1>8, <1>9, <1>10, <2>1
  <2>3. /\ {1, 2} \subseteq DOMAIN (h1 \o h2)
        /\ (h1 \o h2)[1] = line("method", r.method)
        /\ (h1 \o h2)[2] = line("CSeq", r.CSeq)
    <3>1. Len(h1) = 1 /\ Len(h2) = 1
      BY <1>5, <1>12
    <3>2. h1[1] = line("method", r.method) /\ h2[1] = line("CSeq", r.CSeq)
      BY <1>5, <1>12
    <3>3. \A s, t \in Seq(E) : Len(s) = 1 /\ Len(t) = 1 =>
            /\ {1, 2} \subseteq DOMAIN (s \o t)
            /\ (s \o t)[1] = s[1] /\ (s \o t)[2] = t[1]
      BY SMTT(30)
    <3> QED  BY <1>3, <3>1, <3>2, <3>3
  <2> QED  BY <1>6, <2>2, <2>3
<1> QED  BY <1>11, <1>12 DEF Distinct

OrdersInv == \A c \in Clients : OrderInv(c)

LEMMA OrderSame ==
  ASSUME NEW c \in Clients, OrderInv(c), Same(c), pc'[c] = "handle" => pc[c] = "handle"
  PROVE  OrderInv(c)'
<1>1. Numbered(c)' = Numbered(c)
  BY DEF Numbered, Same
<1>2. Matches(c)' = Matches(c)
  BY DEF Matches, Same
<1> QED  BY <1>1, <1>2 DEF OrderInv, AfterAnswers, Same

LEMMA OrderAsk ==
  ASSUME TypeInv, NEW c \in Clients, NEW r \in Requests, Ask(c, r), OrderInv(c)
  PROVE  OrderInv(c)'
<1>1. PICK n, w, new : n = Len(asked[c]) + 1 /\ w = wire[c] /\ new = Lines(r, n)
  OBVIOUS
<1>2. /\ asked[c] \in Seq(Requests) /\ Len(asked[c]) \in Nat
      /\ w \in Seq(Line) /\ request[c] \in Seq(Line) /\ OwnLines(c)
  BY <1>1 DEF TypeInv, TypeOK, LinesInv
<1>3. /\ asked'[c] = Append(asked[c], r) /\ wire'[c] = w \o new
      /\ request'[c] = request[c] /\ answers'[c] = answers[c] /\ pc' = pc
      /\ n \in 1 .. MaxRequests
  BY <1>1, <1>2, ConstantsFacts DEF Ask, TypeInv, TypeOK
<1>4. /\ n = Len(asked[c]) + 1
      /\ Len(asked'[c]) = n /\ asked'[c][n] = r
      /\ \A k \in DOMAIN asked[c] : k \in DOMAIN asked'[c] /\ asked'[c][k] = asked[c][k]
  BY <1>1, <1>2, <1>3
<1>5. new \in Seq(Line) /\ \A i \in DOMAIN new : new[i].of = n
  BY <1>1, <1>3, LinesFacts
<1>6. /\ \A i, j \in DOMAIN new : new[i].kind = new[j].kind => i = j
      /\ r.CSeq = "number" => /\ 1 \in DOMAIN new /\ new[1].kind = "method"
                              /\ 2 \in DOMAIN new /\ new[2].kind = "CSeq"
  BY <1>1, <1>3, LinesOrder
<1>7. /\ \A i \in DOMAIN w : w[i].of \in Nat /\ w[i].of < n
      /\ \A i \in DOMAIN request[c] : request[c][i].of \in Nat /\ request[c][i].of < n
      /\ \A k \in DOMAIN answers[c] : answers[c][k].of < n
  <2>1. ASSUME NEW l, OwnLine(c, l)  PROVE l.of \in Nat /\ l.of < n
    BY <1>2, <1>4, <2>1 DEF OwnLine
  <2>2. ASSUME NEW k \in DOMAIN answers[c]
        PROVE  answers[c][k].of \in Nat /\ answers[c][k].of <= Len(asked[c])
    <3> DEFINE A == [of : 0 .. MaxRequests, method : Methods, status : {200, 406}]
    <3>2. answers[c] \in Seq(A)
      BY ZenonT(60) DEF TypeInv, TypeOK
    <3>3. answers[c][k] \in A
      <4> HIDE DEF A
      <4> QED  BY <2>2, <3>2
    <3> QED  BY <1>2, <2>2, <3>3, ConstantsFacts DEF OwnLines
  <2> QED  BY <1>1, <1>2, <1>4, <2>1, <2>2 DEF OwnLines
<1>8. ASSUME NEW i \in DOMAIN (w \o new)
      PROVE  \/ i \in DOMAIN w /\ (w \o new)[i] = w[i]
             \/ /\ i \in Nat /\ i - Len(w) \in DOMAIN new
                /\ (w \o new)[i] = new[i - Len(w)] /\ i > Len(w)
  BY <1>2, <1>5
<1>9. Increasing(w \o new)
  <2> SUFFICES ASSUME NEW i \in DOMAIN (w \o new), NEW j \in DOMAIN (w \o new),
                      (w \o new)[i].kind = "CSeq", (w \o new)[j].kind = "CSeq", i < j
               PROVE  (w \o new)[i].of < (w \o new)[j].of
    BY DEF Increasing, IsCSeq
  <2>1. Len(w) \in Nat /\ i \in Nat /\ j \in Nat
    BY <1>2, <1>5
  <2>2. CASE j \in DOMAIN w /\ (w \o new)[j] = w[j]
    <3>1. i \in DOMAIN w /\ (w \o new)[i] = w[i]
      BY <1>2, <1>8, <2>1, <2>2
    <3>2. Increasing(w)
      BY <1>1 DEF OrderInv
    <3> QED  BY <2>2, <3>1, <3>2 DEF Increasing, IsCSeq
  <2>3. CASE j - Len(w) \in DOMAIN new /\ (w \o new)[j] = new[j - Len(w)]
    <3>1. CASE i \in DOMAIN w /\ (w \o new)[i] = w[i]
      BY <1>5, <1>7, <2>3, <3>1
    <3>2. CASE i - Len(w) \in DOMAIN new /\ (w \o new)[i] = new[i - Len(w)]
      <4>1. i - Len(w) = j - Len(w)
        BY <1>6, <2>3, <3>2
      <4> QED  BY <2>1, <4>1
    <3> QED  BY <1>8, <3>1, <3>2
  <2> QED  BY <1>8, <2>2, <2>3
<1>10. AfterAnswers(c, w \o new)
  <2>1. AfterAnswers(c, w)
    BY <1>1 DEF OrderInv
  <2> QED  BY <1>5, <1>7, <1>8, <2>1 DEF AfterAnswers, IsCSeq
<1>11. ASSUME Before(request[c], w)  PROVE Before(request[c], w \o new)
  BY <1>5, <1>7, <1>8, <1>11 DEF Before, IsCSeq
<1>12. ASSUME Paired(w), r.CSeq = "number"  PROVE Paired(w \o new)
  <2> SUFFICES ASSUME NEW i \in DOMAIN (w \o new), (w \o new)[i].kind = "method"
               PROVE  /\ i + 1 \in DOMAIN (w \o new) /\ (w \o new)[i + 1].kind = "CSeq"
                      /\ (w \o new)[i + 1].of = (w \o new)[i].of
    BY DEF Paired, IsCSeq
  <2>1. CASE i \in DOMAIN w /\ (w \o new)[i] = w[i]
    <3>1. i + 1 \in DOMAIN w /\ w[i + 1].kind = "CSeq" /\ w[i + 1].of = w[i].of
      BY <1>12, <2>1 DEF Paired, IsCSeq
    <3>2. i + 1 \in DOMAIN (w \o new) /\ (w \o new)[i + 1] = w[i + 1]
      BY <1>2, <1>5, <3>1
    <3> QED  BY <2>1, <3>1, <3>2
  <2>2. CASE /\ i \in Nat /\ i - Len(w) \in DOMAIN new
             /\ (w \o new)[i] = new[i - Len(w)]
    <3>1. i - Len(w) = 1
      BY <1>6, <1>12, <2>2
    <3>2. i = Len(w) + 1 /\ Len(w) \in Nat
      BY <1>2, <2>2, <3>1
    <3>3. i + 1 \in DOMAIN (w \o new) /\ (w \o new)[i + 1] = new[2]
      BY <1>2, <1>5, <1>6, <1>12, <3>2
    <3> QED  BY <1>5, <1>6, <1>12, <2>2, <3>3
  <2> QED  BY <1>8, <2>1, <2>2
<1>13. Numbered(c)' => Numbered(c) /\ r.CSeq = "number"
  BY <1>2, <1>4 DEF Numbered
<1>14. Matches(c) => Matches(c)'
  BY <1>3, <1>4 DEF Matches
<1> QED  BY <1>1, <1>3, <1>9, <1>10, <1>11, <1>12, <1>13, <1>14 DEF OrderInv, AfterAnswers

LEMMA OrderRecv ==
  ASSUME TypeInv, NEW c \in Clients, Recv(c), OrderInv(c)
  PROVE  OrderInv(c)'
<1>1. PICK some, left, k, d : /\ Received(c, some, left)
                              /\ Cut(wire[c], some, left, k, d)
  BY RecvFacts
<1>2. PICK w : w = wire[c]
  OBVIOUS
<1>3. /\ request'[c] = some /\ wire'[c] = left /\ asked' = asked /\ answers' = answers
      /\ w \in Seq(Line) /\ Len(w) \in Nat
  BY <1>1, <1>2 DEF Recv, Received, peer, TypeInv, TypeOK
<1>4. /\ k \in 1 .. Len(w) /\ d \in {0, 1}
      /\ some \in Seq(Line) /\ Len(some) = k /\ left \in Seq(Line)
      /\ Len(left) = Len(w) - k + d
  BY <1>1, <1>2 DEF Cut
<1>5. ASSUME NEW i \in DOMAIN some, i < k
      PROVE  i \in DOMAIN w /\ some[i] = w[i]
  BY <1>1, <1>2, <1>3, <1>4, <1>5 DEF Cut
<1>6. /\ some[k].of = w[k].of /\ some[k].kind \in {w[k].kind, "rest"} /\ k \in DOMAIN w
      /\ DOMAIN some = 1 .. k
  BY <1>1, <1>2, <1>3, <1>4 DEF Cut
<1>7. ASSUME NEW j \in DOMAIN left, left[j].kind \in {"method", "CSeq"}
      PROVE  j > d
  BY <1>1, <1>2, <1>4, <1>7 DEF Cut
<1>8. ASSUME NEW j \in DOMAIN left, j > d
      PROVE  k - d + j \in DOMAIN w /\ k - d + j > k /\ left[j] = w[k - d + j]
  BY <1>1, <1>2, <1>3, <1>4, <1>8, SMTT(30) DEF Cut
<1>9. \A i \in DOMAIN some : i \in Nat /\ i <= k /\ k \in Nat
  BY <1>4, <1>6
<1>10. \A i \in DOMAIN some : IsCSeq(some, i) => IsCSeq(w, i) /\ some[i].of = w[i].of
  BY <1>5, <1>6, <1>9 DEF IsCSeq
<1>11. \A j \in DOMAIN left : IsCSeq(left, j) =>
         /\ IsCSeq(w, k - d + j) /\ left[j].of = w[k - d + j].of /\ k - d + j > k
  BY <1>7, <1>8 DEF IsCSeq
<1>12. Increasing(w) /\ AfterAnswers(c, w)
  BY <1>2 DEF OrderInv
<1>13. Increasing(left)
  <2> SUFFICES ASSUME NEW i \in DOMAIN left, NEW j \in DOMAIN left,
                      IsCSeq(left, i), IsCSeq(left, j), i < j
               PROVE  left[i].of < left[j].of
    BY DEF Increasing
  <2>1. k - d + i < k - d + j
    BY <1>4
  <2> QED  BY <1>11, <1>12, <2>1 DEF Increasing, IsCSeq
<1>14. AfterAnswers(c, left) /\ AfterAnswers(c, some)
  BY <1>10, <1>11, <1>12 DEF AfterAnswers, IsCSeq
<1>15. Before(some, left)
  <2> SUFFICES ASSUME NEW i \in DOMAIN some, NEW j \in DOMAIN left,
                      IsCSeq(some, i), IsCSeq(left, j)
               PROVE  some[i].of < left[j].of
    BY DEF Before
  <2>1. i < k - d + j
    BY <1>4, <1>9, <1>11
  <2> QED  BY <1>10, <1>11, <1>12, <2>1 DEF Increasing, IsCSeq
<1>16. ASSUME Paired(w)  PROVE Paired(left)
  <2> SUFFICES ASSUME NEW j \in DOMAIN left, left[j].kind = "method"
               PROVE  IsCSeq(left, j + 1) /\ left[j + 1].of = left[j].of
    BY DEF Paired
  <2> DEFINE i == k - d + j
  <2>1. j > d /\ i \in DOMAIN w /\ left[j] = w[i]
    BY <1>7, <1>8
  <2>2. IsCSeq(w, i + 1) /\ w[i + 1].of = w[i].of
    BY <1>16, <2>1 DEF Paired
  <2>3. j + 1 \in DOMAIN left /\ j + 1 > d /\ k - d + (j + 1) = i + 1
    <3>1. i + 1 \in 1 .. Len(w)
      BY <1>3, <2>2 DEF IsCSeq
    <3>2. j \in Nat /\ j <= Len(left) /\ DOMAIN left = 1 .. Len(left)
      BY <1>4
    <3>3. d \in Nat /\ k \in Nat /\ Len(w) \in Nat /\ Len(left) = Len(w) - k + d
      BY <1>3, <1>4
    <3>4. i + 1 <= Len(w) /\ i + 1 = k - d + (j + 1)
      BY <3>1, <3>2, <3>3
    <3>5. j + 1 <= Len(left) /\ j + 1 > d /\ j + 1 >= 1
      BY <2>1, <3>2, <3>3, <3>4
    <3> QED  BY <3>2, <3>3, <3>4, <3>5
  <2>4. left[j + 1] = w[i + 1]
    BY <1>8, <2>3
  <2> QED  BY <2>1, <2>2, <2>3, <2>4 DEF IsCSeq
<1>17. ASSUME Paired(w)  PROVE PairedUnlessCut(some)
  <2> SUFFICES ASSUME NEW i \in DOMAIN some, some[i].kind = "method", i + 1 \in DOMAIN some
               PROVE  /\ some[i + 1].of = some[i].of
                      /\ IsCSeq(some, i + 1) \/ i + 1 = Len(some)
    BY DEF PairedUnlessCut
  <2>1. i < k /\ some[i] = w[i] /\ i \in DOMAIN w
    BY <1>5, <1>6, <1>9
  <2>2. IsCSeq(w, i + 1) /\ w[i + 1].of = w[i].of
    BY <1>17, <2>1 DEF Paired
  <2>3. CASE i + 1 < k
    BY <1>5, <2>1, <2>2, <2>3 DEF IsCSeq
  <2>4. CASE i + 1 = k
    BY <1>4, <1>6, <2>1, <2>2, <2>4
  <2> QED  BY <1>9, <2>1, <2>3, <2>4
<1>18. Numbered(c)' = Numbered(c) /\ Matches(c)' = Matches(c)
  BY <1>3 DEF Numbered, Matches
<1>19. Numbered(c) => Paired(w) /\ Matches(c)
  BY <1>2 DEF OrderInv
<1> QED  BY <1>3, <1>13, <1>14, <1>15, <1>16, <1>17, <1>18, <1>19 DEF OrderInv, AfterAnswers

LEMMA OrderAnswer ==
  ASSUME TypeInv, NEW c \in Clients, AnswerStep(c), OrderInv(c)
  PROVE  OrderInv(c)'
<1>1. PICK status, l : Respond(c, status) /\ Goto(c, l) /\ l \in {"recv", "setup", "command"}
  BY DEF AnswerStep
<1>2. PICK n, m, a : /\ n = ParseCSeq(c) /\ m = ParseMethod(c)
                     /\ a = [of |-> n, method |-> m, status |-> status]
  OBVIOUS
<1>3. /\ request' = request /\ wire' = wire /\ asked' = asked /\ OwnLines(c)
      /\ answers'[c] = Append(answers[c], a) /\ pc'[c] # "handle"
      /\ pc[c] = "handle" /\ m # "OTHER" /\ a.of = n /\ a.method = m
      /\ request[c] \in Seq(Line) /\ wire[c] \in Seq(Line) /\ asked[c] \in Seq(Requests)
  BY <1>1, <1>2 DEF AnswerStep, Respond, Goto, TypeInv, TypeOK, LinesInv
<1>4. /\ Len(answers[c]) \in Nat
      /\ \A k \in DOMAIN answers'[c] : \/ k \in DOMAIN answers[c] /\ answers'[c][k] = answers[c][k]
                                       \/ k = Len(answers[c]) + 1 /\ answers'[c][k] = a
      /\ \A k \in DOMAIN answers[c] : k \in DOMAIN answers'[c] /\ answers'[c][k] = answers[c][k]
      /\ DOMAIN answers[c] = 1 .. Len(answers[c])
  <2>1. answers[c] \in Seq([of : 0 .. MaxRequests, method : Methods, status : {200, 406}])
    BY DEF TypeInv, TypeOK
  <2>2. PICK A : A = [of : 0 .. MaxRequests, method : Methods, status : {200, 406}]
    OBVIOUS
  <2>3. answers[c] \in Seq(A)
    BY <2>1, <2>2
  <2> QED  BY <1>3, <2>3
<1>5. n # 0 => \E k \in DOMAIN request[c] :
                /\ IsCSeq(request[c], k) /\ n = request[c][k].of
                /\ \A j \in DOMAIN request[c] : IsCSeq(request[c], j) => k <= j
  BY <1>2, ParseFacts DEF IsCSeq
<1>6. \A j \in DOMAIN wire[c] : IsCSeq(wire[c], j) => n < wire[c][j].of
  <2>1. CASE n = 0
    <3>1. \A j \in DOMAIN wire[c] : wire[c][j].of \in 1 .. Len(asked[c])
      BY <1>3 DEF OwnLines, OwnLine
    <3> QED  BY <1>3, <2>1, <3>1
  <2>2. CASE n # 0
    BY <1>3, <1>5, <2>2 DEF OrderInv, Before
  <2> QED  BY <2>1, <2>2
<1>7. AfterAnswers(c, wire[c])'
  <2>1. AfterAnswers(c, wire[c])
    BY DEF OrderInv
  <2> QED  BY <1>3, <1>4, <1>6, <2>1 DEF AfterAnswers, IsCSeq
<1>8. ASSUME Numbered(c), n # 0
      PROVE  /\ n \in DOMAIN asked[c] /\ asked[c][n].method = m
             /\ \A j \in DOMAIN answers[c] : answers[c][j].of < n
  <2>1. PICK k \in DOMAIN request[c] :
          /\ IsCSeq(request[c], k) /\ n = request[c][k].of
          /\ \A j \in DOMAIN request[c] : IsCSeq(request[c], j) => k <= j
    BY <1>5, <1>8
  <2>2. n \in DOMAIN asked[c]
    BY <1>3, <2>1 DEF OwnLines, OwnLine
  <2>3. \A j \in DOMAIN answers[c] : answers[c][j].of < n
    BY <1>3, <2>1 DEF OrderInv, AfterAnswers
  <2>4. PICK i \in DOMAIN request[c] :
          /\ request[c][i].kind = "method"
          /\ m = asked[c][request[c][i].of].method
          /\ \A j \in DOMAIN request[c] : request[c][j].kind \in Text => i <= j
    BY <1>2, <1>3, ParseFacts
  <2>5. i < k
    BY <1>3, <2>1, <2>4 DEF Text, IsCSeq
  <2>6. i + 1 \in DOMAIN request[c]
    BY <1>3, <2>1, <2>4, <2>5
  <2>7. /\ request[c][i + 1].of = request[c][i].of
        /\ IsCSeq(request[c], i + 1) \/ i + 1 = Len(request[c])
    BY <1>3, <1>8, <2>4, <2>6 DEF OrderInv, PairedUnlessCut
  <2>8. k = i + 1
    BY <1>3, <2>1, <2>5, <2>6, <2>7
  <2> QED  BY <2>1, <2>2, <2>3, <2>4, <2>7, <2>8
<1>9. ASSUME Numbered(c)  PROVE Matches(c)'
  <2>1. Matches(c)
    BY <1>9 DEF OrderInv
  <2> SUFFICES ASSUME NEW k \in DOMAIN answers'[c], answers'[c][k].of # 0
               PROVE  /\ answers'[c][k].of \in DOMAIN asked[c]
                      /\ asked[c][answers'[c][k].of].method = answers'[c][k].method
                      /\ \A j \in 1 .. k - 1 : answers'[c][j].of < answers'[c][k].of
    BY <1>3 DEF Matches
  <2>2. CASE k \in DOMAIN answers[c] /\ answers'[c][k] = answers[c][k]
    <3>1. \A j \in 1 .. k - 1 : answers'[c][j] = answers[c][j]
      BY <1>4, <2>2
    <3> QED  BY <2>1, <2>2, <3>1 DEF Matches
  <2>3. CASE k = Len(answers[c]) + 1 /\ answers'[c][k] = a
    <3>1. \A j \in 1 .. k - 1 : j \in DOMAIN answers[c] /\ answers'[c][j] = answers[c][j]
      BY <1>4, <2>3
    <3> QED  BY <1>3, <1>8, <1>9, <2>3, <3>1
  <2> QED  BY <1>4, <2>2, <2>3
<1>10. Numbered(c)' = Numbered(c)
  BY <1>3 DEF Numbered
<1> QED  BY <1>3, <1>7, <1>9, <1>10 DEF OrderInv

LEMMA OrdersAlways == Spec => [](TypeInv /\ OrdersInv)
<1>1. Init => OrdersInv
  BY DEF Init, OrdersInv, OrderInv, Increasing, Before, AfterAnswers, Paired, Matches
<1>2. ASSUME TypeInv, OrdersInv, [Next]_vars  PROVE OrdersInv'
  <2>1. CASE \A d \in Clients : Same(d) /\ pc'[d] \in {pc[d], "recv", "stream", "ended"}
    BY <1>2, <2>1, OrderSame DEF OrdersInv
  <2>2. ASSUME NEW c \in Clients, \A d \in Clients \ {c} : Same(d) /\ pc'[d] = pc[d],
               (\E r \in Requests : Ask(c, r)) \/ Recv(c) \/ AnswerStep(c)
        PROVE  OrdersInv'
    <3>1. OrderInv(c)'
      BY <1>2, <2>2, OrderAsk, OrderRecv, OrderAnswer DEF OrdersInv
    <3>2. ASSUME NEW d \in Clients \ {c}  PROVE OrderInv(d)'
      BY <1>2, <2>2, OrderSame DEF OrdersInv
    <3> QED  BY <3>1, <3>2 DEF OrdersInv
  <2> QED  BY <1>2, <2>1, <2>2, StepCases
<1> QED  BY <1>1, <1>2, TypeAlways, PTL DEF Spec

(* However recv cuts and joins the requests of a client that numbers them, *)
(* an answer bears the number of a request that asked for what is          *)
(* answered, and that is later than every one answered before.             *)
THEOREM AnswersMatched == Spec => []AnswersMatch
<1>1. OrdersInv => AnswersMatch
  BY DEF OrdersInv, OrderInv, Matches, AnswersMatch
<1> QED  BY <1>1, OrdersAlways, PTL

-----------------------------------------------------------------------------
(* No session reaches into the stream of another one.                      *)
LEMMA PrivateNext ==
  ASSUME TypeInv, StreamsArePrivate, [Next]_vars
  PROVE  StreamsArePrivate'
<1> DEFINE Streams == [owner : Clients, state : {"Init", "Play", "Pause", "Teardown"}]
<1>0. /\ streams \in Seq(Streams) /\ mediaStreamHandler \in [Clients -> 0 .. Len(streams)]
      /\ Len(streams) \in Nat
  BY DEF TypeInv, TypeOK
<1>1. CASE streams' = streams /\ mediaStreamHandler' = mediaStreamHandler
  BY <1>1 DEF StreamsArePrivate
<1>2. ASSUME NEW c \in Clients, StartStream(c)  PROVE StreamsArePrivate'
  <2>1. PICK n, s : n = Len(streams) + 1 /\ s = [owner |-> c, state |-> "Init"]
    OBVIOUS
  <2>2. s \in Streams /\ s.owner = c /\ n \in Nat /\ n = Len(streams) + 1
    BY <1>0, <2>1
  <2>3. /\ streams' = Append(streams, s)
        /\ mediaStreamHandler' = [mediaStreamHandler EXCEPT ![c] = n]
    BY <1>2, <2>1 DEF StartStream
  <2> HIDE DEF Streams
  <2>4. /\ DOMAIN streams' = 1 .. n /\ streams'[n] = s /\ DOMAIN streams = 1 .. n - 1
        /\ \A k \in 1 .. n - 1 : streams'[k] = streams[k]
    BY <1>0, <2>2, <2>3
  <2> SUFFICES ASSUME NEW d \in Clients
               PROVE  LET own == {k \in DOMAIN streams' : streams'[k].owner = d}
                          h   == mediaStreamHandler'[d]
                      IN IF own = {} THEN h = 0 ELSE h \in own /\ \A k \in own : k <= h
    BY DEF StreamsArePrivate
  <2> DEFINE own == {k \in DOMAIN streams : streams[k].owner = d}
             own1 == {k \in DOMAIN streams' : streams'[k].owner = d}
  <2>5. CASE d = c
    <3>1. n \in own1 /\ (\A k \in own1 : k <= n) /\ mediaStreamHandler'[d] = n
      BY <1>0, <2>2, <2>3, <2>4, <2>5
    <3> QED  BY <3>1
  <2>6. CASE d # c
    <3>1. own1 = own /\ mediaStreamHandler'[d] = mediaStreamHandler[d]
      BY <1>0, <2>2, <2>3, <2>4, <2>6
    <3>2. IF own = {} THEN mediaStreamHandler[d] = 0
                      ELSE mediaStreamHandler[d] \in own /\ \A k \in own : k <= mediaStreamHandler[d]
      BY DEF StreamsArePrivate
    <3> QED  BY <3>1, <3>2
  <2> QED  BY <2>5, <2>6
<1>3. ASSUME NEW c \in Clients, SetCmd(c)  PROVE StreamsArePrivate'
  <2>1. PICK h, v : h = mediaStreamHandler[c] /\ v = StateOf[ParseMethod(c)]
    OBVIOUS
  <2>2. /\ streams' = [streams EXCEPT ![h].state = v] /\ mediaStreamHandler' = mediaStreamHandler
    BY <1>3, <2>1 DEF SetCmd
  <2>3. /\ DOMAIN streams' = DOMAIN streams
        /\ \A k \in DOMAIN streams : streams'[k].owner = streams[k].owner
    BY <1>0, <2>2
  <2> QED  BY <2>2, <2>3 DEF StreamsArePrivate
<1>4. \/ UNCHANGED <<streams, mediaStreamHandler>>
      \/ \E c \in Clients : StartStream(c) \/ SetCmd(c)
  BY NextCases, ZenonT(60) DEF AcceptFails, OpenCapture, CaptureFails, vars, Accept,
     Connect, Leave, Ask, Recv, RecvFails, HandleNoCSeq, HandleUnsupported, Answered,
     HandleSetupNoPorts, HandleSetupBadPorts, StartCapture, SetCmdUninitialised
<1> QED  BY <1>1, <1>2, <1>3, <1>4

(* A request thread is without a stream until its first SETUP is done, and *)
(* from then on it steers the one that its last SETUP made, which is its   *)
(* own client's.                                                           *)
THEOREM StreamsPrivate == Spec => []StreamsArePrivate
<1>1. Init => StreamsArePrivate
  BY DEF Init, StreamsArePrivate
<1> QED  BY <1>1, PrivateNext, TypeAlways, PTL DEF Spec

-----------------------------------------------------------------------------
(* Every client is served as Session says.  Stream is the stream of the    *)
(* session; the invariant ties what the thread has yet to carry out to the *)
(* last answer.                                                            *)
Stream(c) ==
  IF mediaStreamHandler[c] = 0 THEN "none" ELSE streams[mediaStreamHandler[c]].state

Last(c) == answers[c][Len(answers[c])].method

SessionInv(c) ==
  /\ pc[c] \in {"setup", "stream"} => answers[c] # <<>> /\ Last(c) = "SETUP"
  /\ pc[c] = "command" => answers[c] # <<>> /\ Last(c) = ParseMethod(c)
  /\ Stream(c) = "Teardown" => pc[c] = "ended"

SessionsInv == \A c \in Clients : SessionInv(c)

SessionStep(c) == SessionInv(c)' /\ [S(c)!Next]_(S(c)!vars)

LEMMA SessionIdle ==
  ASSUME NEW c \in Clients, SessionInv(c), answers'[c] = answers[c], Stream(c)' = Stream(c),
         \/ pc'[c] = pc[c] /\ request'[c] = request[c]
         \/ pc[c] \in {"none", "recv", "handle"} /\ pc'[c] \in {"recv", "handle", "ended"}
         \/ pc[c] = "setup" /\ pc'[c] = "stream"
  PROVE  SessionStep(c)
<1>1. pc[c] = "command" /\ pc'[c] = pc[c] => ParseMethod(c)' = ParseMethod(c)
  BY SameRequest
<1>2. SessionInv(c)'
  BY <1>1 DEF SessionInv, Last
<1>3. UNCHANGED S(c)!vars
  BY DEF S!vars, Stream
<1> QED  BY <1>2, <1>3 DEF SessionStep

LEMMA AppendFacts ==
  ASSUME NEW n \in Nat, NEW f, NEW g, NEW m,
         f = [k \in 1 .. n |-> f[k]], g = [k \in 1 .. n + 1 |-> g[k]],
         g[n + 1] = m, \A k \in 1 .. n : g[k] = f[k]
  PROVE  g = Append(f, m)
<1>1. Len(f) = n
  OBVIOUS
<1>2. Append(f, m) = [k \in 1 .. n + 1 |-> IF k = n + 1 THEN m ELSE f[k]]
  BY <1>1
<1>3. \A k \in 1 .. n + 1 : g[k] = IF k = n + 1 THEN m ELSE f[k]
  OBVIOUS
<1> QED  BY <1>2, <1>3

LEMMA SessionAnswer ==
  ASSUME TypeInv, NEW c \in Clients, SessionInv(c), AnswerStep(c)
  PROVE  SessionStep(c)
<1>1. PICK status, l : /\ Respond(c, status) /\ Goto(c, l)
                       /\ l \in {"recv", "setup", "command"}
                       /\ ParseMethod(c) \in AnsweredBefore(l)
  BY DEF AnswerStep
<1>2. PICK m, a : /\ m = ParseMethod(c)
                  /\ a = [of |-> ParseCSeq(c), method |-> m, status |-> status]
  OBVIOUS
<1>3. /\ answers'[c] = Append(answers[c], a) /\ a.method = m /\ pc'[c] = l /\ pc[c] = "handle"
      /\ Stream(c)' = Stream(c) /\ request' = request
  BY <1>1, <1>2 DEF AnswerStep, Respond, Goto, Stream, TypeInv, TypeOK
<1>4. /\ Len(answers[c]) \in Nat /\ Len(answers'[c]) = Len(answers[c]) + 1
      /\ answers'[c][Len(answers'[c])] = a /\ answers'[c] # <<>>
      /\ DOMAIN answers'[c] = 1 .. Len(answers[c]) + 1 /\ DOMAIN answers[c] = 1 .. Len(answers[c])
      /\ \A k \in DOMAIN answers[c] : answers'[c][k] = answers[c][k]
  <2>1. answers[c] \in Seq([of : 0 .. MaxRequests, method : Methods, status : {200, 406}])
    BY DEF TypeInv, TypeOK
  <2>2. PICK A : A = [of : 0 .. MaxRequests, method : Methods, status : {200, 406}]
    OBVIOUS
  <2>3. answers[c] \in Seq(A)
    BY <2>1, <2>2
  <2> QED  BY <1>3, <2>3
<1>5. ParseMethod(c)' = ParseMethod(c)
  BY <1>3, SameRequest
<1>6. SessionInv(c)'
  BY <1>1, <1>2, <1>3, <1>4, <1>5 DEF SessionInv, Last, AnsweredBefore
<1>7. /\ m \in S(c)!Methods
      /\ (l \in {"setup", "command"}) = (m \in DOMAIN S(c)!StateOf)
  BY <1>1, <1>2 DEF AnsweredBefore, Commands, StateOf, S!Methods, S!StateOf
<1> DEFINE old == [k \in DOMAIN answers[c] |-> answers[c][k].method]
           new == [k \in DOMAIN answers'[c] |-> answers'[c][k].method]
<1>8. new = Append(old, m)
  <2>1. PICK n : n = Len(answers[c])
    OBVIOUS
  <2>2. /\ old = [k \in 1 .. n |-> old[k]] /\ new = [k \in 1 .. n + 1 |-> new[k]]
        /\ new[n + 1] = m /\ \A k \in 1 .. n : new[k] = old[k]
    BY <1>3, <1>4, <2>1
  <2> QED  BY <1>4, <2>1, <2>2, AppendFacts
<1>9. S(c)!Answer(m)
  <2>1. Stream(c) # "Teardown"
    BY <1>3 DEF SessionInv
  <2>2. (l \in {"setup", "stream", "command"}) = (m \in DOMAIN S(c)!StateOf)
    BY <1>1, <1>7
  <2> QED  BY <1>3, <1>7, <1>8, <2>1, <2>2 DEF S!Answer, Stream
<1> QED  BY <1>6, <1>7, <1>9 DEF SessionStep, S!Next

LEMMA SessionCarryOut ==
  ASSUME TypeInv, NEW c \in Clients, SessionInv(c), answers'[c] = answers[c],
         pc[c] \in {"stream", "command"}, pc'[c] \in {"recv", "ended"},
         Stream(c)' = IF Stream(c) = "none" /\ Last(c) # "SETUP" THEN "none"
                                                               ELSE S(c)!StateOf[Last(c)],
         Stream(c)' = "Teardown" => pc'[c] = "ended"
  PROVE  SessionStep(c)
<1>1. SessionInv(c)'
  BY DEF SessionInv
<1> DEFINE old == [k \in DOMAIN answers[c] |-> answers[c][k].method]
<1>2. answers[c] # <<>> /\ old[Len(old)] = Last(c)
  <2>1. answers[c] # <<>>
    BY DEF SessionInv
  <2>2. PICK A : A = [of : 0 .. MaxRequests, method : Methods, status : {200, 406}]
    OBVIOUS
  <2>3. answers[c] \in Seq(A)
    BY <2>2 DEF TypeInv, TypeOK
  <2>4. Len(old) = Len(answers[c]) /\ Len(answers[c]) \in DOMAIN answers[c]
    BY <2>1, <2>3
  <2> QED  BY <2>1, <2>4 DEF Last
<1>3. S(c)!CarryOut
  BY <1>2 DEF S!CarryOut, Stream
<1> QED  BY <1>1, <1>3 DEF SessionStep, S!Next

LEMMA SessionNext ==
  ASSUME TypeInv, StreamsArePrivate, SessionsInv, [Next]_vars, NEW d \in Clients
  PROVE  SessionStep(d)
<1> DEFINE Streams == [owner : Clients, state : {"Init", "Play", "Pause", "Teardown"}]
<1>0. /\ streams \in Seq(Streams) /\ mediaStreamHandler \in [Clients -> 0 .. Len(streams)]
      /\ Len(streams) \in Nat /\ SessionInv(d)
      /\ pc \in [Clients -> Places]
      /\ request \in [Clients -> Seq(Line)] /\ answers = [c \in Clients |-> answers[c]]
  BY DEF TypeInv, TypeOK, Places, SessionsInv
<1> DEFINE Moves == \E c \in Clients, l \in {"recv", "handle", "ended"} :
                      /\ Goto(c, l) /\ pc[c] \in {"none", "recv", "handle"}
                      /\ c = d \/ request'[d] = request[d]
           Quiet == /\ UNCHANGED <<answers, streams, mediaStreamHandler>>
                    /\ UNCHANGED <<pc, request>> \/ Moves
<1>1. CASE Quiet
  <2>1. answers'[d] = answers[d] /\ Stream(d)' = Stream(d)
    BY <1>1 DEF Stream
  <2>2. CASE UNCHANGED <<pc, request>>
    BY <1>0, <2>1, <2>2, SessionIdle
  <2>3. CASE Moves
    <3>1. PICK c \in Clients, l \in {"recv", "handle", "ended"} :
            /\ Goto(c, l) /\ pc[c] \in {"none", "recv", "handle"}
            /\ c = d \/ request'[d] = request[d]
      BY <2>3
    <3>2. pc'[c] = l /\ (c # d => pc'[d] = pc[d])
      BY <1>0, <3>1 DEF Goto
    <3> QED  BY <1>0, <2>1, <3>1, <3>2, SessionIdle
  <2> QED  BY <1>1, <2>2, <2>3
<1>2. \/ Quiet
      \/ \E c \in Clients : \/ AnswerStep(c) \/ StartCapture(c) \/ StartStream(c)
                           \/ SetCmd(c) \/ SetCmdUninitialised(c)
  <2>1. AcceptFails \/ OpenCapture \/ CaptureFails \/ UNCHANGED vars => Quiet
    BY DEF AcceptFails, OpenCapture, CaptureFails, vars
  <2>2. ASSUME NEW c \in Clients
        PROVE  (\/ Connect(c) \/ Leave(c) \/ RecvFails(c) \/ HandleSetupBadPorts(c)
                \/ \E r \in Requests : Ask(c, r)) => Quiet
    BY DEF Connect, Leave, RecvFails, HandleSetupBadPorts, Ask
  <2>3. ASSUME NEW c \in Clients, NEW l \in {"recv", "handle", "ended"}, Goto(c, l),
               pc[c] \in {"none", "recv", "handle"}, c = d \/ request'[d] = request[d],
               UNCHANGED <<answers, streams, mediaStreamHandler>>
        PROVE  Quiet
    BY <2>3
  <2> HIDE DEF Quiet
  <2>4. ASSUME NEW c \in Clients
        PROVE  (\/ Accept(c) \/ HandleNoCSeq(c) \/ HandleUnsupported(c)
                \/ HandleSetupNoPorts(c)) => Quiet
    BY <2>3 DEF Accept, HandleNoCSeq, HandleUnsupported, HandleSetupNoPorts, Valid
  <2>5. ASSUME NEW c \in Clients, Recv(c)  PROVE Quiet
    <3>1. PICK some, left, k, n : Received(c, some, left) /\ Cut(wire[c], some, left, k, n)
      BY <2>5, RecvFacts
    <3>2. c = d \/ request'[d] = request[d]
      BY <1>0, <3>1 DEF Received
    <3>3. /\ Goto(c, "handle") /\ pc[c] = "recv"
          /\ UNCHANGED <<answers, streams, mediaStreamHandler>>
      BY <2>5 DEF Recv
    <3> QED  BY <2>3, <3>2, <3>3
  <2>6. ASSUME NEW c \in Clients
        PROVE  /\ \A m \in {"OPTIONS", "DESCRIBE"}, status \in {200, 406} :
                    Answered(c, {m}, status, "recv") => AnswerStep(c)
               /\ Answered(c, {"SETUP"}, 200, "setup") => AnswerStep(c)
               /\ Answered(c, Commands, 200, "command") => AnswerStep(c)
    BY AnsweredSteps
  <2>7. \/ Quiet
        \/ \E c \in Clients : \/ AnswerStep(c) \/ StartCapture(c) \/ StartStream(c)
                             \/ SetCmd(c) \/ SetCmdUninitialised(c)
    <3>1. \/ AcceptFails \/ OpenCapture \/ CaptureFails \/ UNCHANGED vars
          \/ \E c \in Clients :
               \/ \/ Connect(c) \/ Leave(c) \/ RecvFails(c) \/ HandleSetupBadPorts(c)
                  \/ \E r \in Requests : Ask(c, r)
               \/ \/ Accept(c) \/ HandleNoCSeq(c) \/ HandleUnsupported(c)
                  \/ HandleSetupNoPorts(c)
               \/ Recv(c) \/ AnswerStep(c) \/ StartCapture(c) \/ StartStream(c)
               \/ SetCmd(c) \/ SetCmdUninitialised(c)
      BY <2>6, NextCases
    <3> QED  BY <2>1, <2>2, <2>4, <2>5, <3>1
  <2> QED  BY <2>7
<1>3. ASSUME NEW c \in Clients, AnswerStep(c)  PROVE SessionStep(d)
  <2>1. CASE d = c
    BY <1>0, <1>3, <2>1, SessionAnswer
  <2>2. CASE d # c
    <3>1. /\ answers'[d] = answers[d] /\ pc'[d] = pc[d] /\ request'[d] = request[d]
          /\ Stream(d)' = Stream(d)
      BY <1>0, <1>3, <2>2 DEF AnswerStep, Respond, Goto, Stream
    <3> QED  BY <1>0, <3>1, SessionIdle
  <2> QED  BY <2>1, <2>2
<1>4. ASSUME NEW c \in Clients, StartStream(c)  PROVE SessionStep(d)
  <2>1. PICK n, s : n = Len(streams) + 1 /\ s = [owner |-> c, state |-> "Init"]
    OBVIOUS
  <2>2. /\ streams' = Append(streams, s) /\ s.state = "Init" /\ n \in Nat /\ n # 0
        /\ mediaStreamHandler' = [mediaStreamHandler EXCEPT ![c] = n]
        /\ answers' = answers /\ request' = request /\ Goto(c, "recv") /\ pc[c] = "stream"
    BY <1>0, <1>4, <2>1 DEF StartStream
  <2>3. streams'[n] = s /\ \A k \in 1 .. Len(streams) : streams'[k] = streams[k]
    <3> HIDE DEF Streams
    <3> QED  BY <1>0, <2>1, <2>2
  <2>4. CASE d = c
    <3>1. pc'[d] = "recv" /\ Stream(d)' = "Init"
      BY <1>0, <2>2, <2>3, <2>4 DEF Goto, Stream
    <3>2. S(d)!StateOf[Last(d)] = "Init" /\ Last(d) = "SETUP"
      BY <1>0, <2>2, <2>4 DEF SessionInv, S!StateOf
    <3> QED  BY <1>0, <2>2, <2>4, <3>1, <3>2, SessionCarryOut
  <2>5. CASE d # c
    <3>1. mediaStreamHandler'[d] = mediaStreamHandler[d] /\ pc'[d] = pc[d]
      BY <1>0, <2>2, <2>5 DEF Goto
    <3>2. mediaStreamHandler[d] \in 0 .. Len(streams)
      BY <1>0
    <3>3. Stream(d)' = Stream(d)
      <4>1. mediaStreamHandler[d] # 0 =>
              streams'[mediaStreamHandler[d]] = streams[mediaStreamHandler[d]]
        BY <1>0, <2>3, <3>2
      <4> QED  BY <3>1, <4>1 DEF Stream
    <3> QED  BY <1>0, <2>2, <3>1, <3>3, SessionIdle
  <2> QED  BY <2>4, <2>5
<1>5. ASSUME NEW c \in Clients, SetCmd(c)  PROVE SessionStep(d)
  <2>1. PICK h, v : h = mediaStreamHandler[c] /\ v = StateOf[ParseMethod(c)]
    OBVIOUS
  <2>2. /\ streams' = [streams EXCEPT ![h].state = v] /\ h \in DOMAIN streams /\ h # 0
        /\ mediaStreamHandler' = mediaStreamHandler
        /\ answers' = answers /\ request' = request /\ AfterCommand(c) /\ pc[c] = "command"
    BY <1>0, <1>5, <2>1 DEF SetCmd
  <2>3. /\ streams'[h].state = v
        /\ \A k \in DOMAIN streams \ {h} : streams'[k] = streams[k]
    <3>1. streams[h] \in Streams
      <4> HIDE DEF Streams
      <4> QED  BY <1>0, <2>2
    <3>2. [streams[h] EXCEPT !.state = v].state = v
      BY <3>1
    <3> HIDE DEF Streams
    <3> QED  BY <1>0, <2>2, <3>2
  <2>4. CASE d = c
    <3>1. /\ ParseMethod(c) \in Commands /\ Last(c) = ParseMethod(c)
          /\ pc'[c] = IF ParseMethod(c) = "TEARDOWN" THEN "ended" ELSE "recv"
      BY <1>0, <2>2, <2>4 DEF TypeInv, LinesInv, OwnLines, SessionInv, AfterCommand, Goto
    <3>2. Stream(c)' = v
      BY <2>1, <2>2, <2>3 DEF Stream
    <3>3. v = S(c)!StateOf[Last(c)] /\ (v = "Teardown" => ParseMethod(c) = "TEARDOWN")
      BY <2>1, <3>1 DEF S!StateOf, StateOf, Commands
    <3>4. Stream(c) # "none"
      <4>1. streams[h] \in Streams
        <5> HIDE DEF Streams
        <5> QED  BY <1>0, <2>2
      <4>2. streams[h].state # "none"
        BY <4>1
      <4> QED  BY <2>1, <2>2, <4>2 DEF Stream
    <3>5. pc[c] \in {"stream", "command"} /\ pc'[c] \in {"recv", "ended"} /\ answers'[c] = answers[c]
      BY <2>2, <3>1
    <3>6. SessionInv(c)
      BY <1>0, <2>4
    <3> QED  BY <2>4, <3>1, <3>2, <3>3, <3>4, <3>5, <3>6, SessionCarryOut
  <2>5. CASE d # c
    <3>1. mediaStreamHandler[d] = 0 \/ mediaStreamHandler[d] \in DOMAIN streams \ {h}
      <4>1. \A e \in Clients : mediaStreamHandler[e] = 0 \/
              /\ mediaStreamHandler[e] \in DOMAIN streams
              /\ streams[mediaStreamHandler[e]].owner = e
        BY DEF StreamsArePrivate
      <4> QED  BY <2>1, <2>2, <2>5, <4>1
    <3>2. Stream(d)' = Stream(d)
      BY <2>2, <2>3, <3>1 DEF Stream
    <3>3. pc'[d] = pc[d]
      BY <1>0, <2>2, <2>5 DEF AfterCommand, Goto
    <3> QED  BY <1>0, <2>2, <3>2, <3>3, SessionIdle
  <2> QED  BY <2>4, <2>5
<1>6. ASSUME NEW c \in Clients, SetCmdUninitialised(c)  PROVE SessionStep(d)
  <2>1. /\ answers'[d] = answers[d] /\ Stream(d)' = Stream(d) /\ request' = request
        /\ mediaStreamHandler[c] = 0 /\ pc[c] = "command"
        /\ pc' = pc \/ AfterCommand(c)
    BY <1>6 DEF SetCmdUninitialised, Stream
  <2>2. CASE d # c \/ pc' = pc
    <3>1. pc'[d] = pc[d]
      BY <1>0, <2>1, <2>2 DEF AfterCommand, Goto
    <3> QED  BY <1>0, <2>1, <3>1, SessionIdle
  <2>3. CASE d = c /\ AfterCommand(c)
    <3>1. ParseMethod(c) \in Commands /\ Last(c) = ParseMethod(c) /\ SessionInv(c)
      BY <1>0, <2>1, <2>3 DEF TypeInv, LinesInv, OwnLines, SessionInv
    <3>2. Stream(c) = "none" /\ Last(c) # "SETUP"
      BY <2>1, <3>1 DEF Stream, Commands, StateOf
    <3>3. pc'[c] \in {"recv", "ended"}
      BY <1>0, <2>3 DEF AfterCommand, Goto
    <3>4. Stream(c)' = "none" /\ answers'[c] = answers[c] /\ pc[c] \in {"stream", "command"}
      BY <2>1, <2>3, <3>2
    <3> QED  BY <2>3, <3>1, <3>2, <3>3, <3>4, SessionCarryOut
  <2> QED  BY <2>1, <2>2, <2>3
<1>7. ASSUME NEW c \in Clients, StartCapture(c)  PROVE SessionStep(d)
  <2>1. /\ answers'[d] = answers[d] /\ Stream(d)' = Stream(d)
        /\ request'[d] = request[d] /\ pc[c] = "setup" /\ Goto(c, "stream")
    BY <1>7 DEF StartCapture, Stream
  <2>2. IF d = c THEN pc[d] = "setup" /\ pc'[d] = "stream" ELSE pc'[d] = pc[d]
    BY <1>0, <2>1 DEF Goto
  <2> QED  BY <1>0, <2>1, <2>2, SessionIdle
<1> QED  BY <1>1, <1>2, <1>3, <1>4, <1>5, <1>6, <1>7

LEMMA RefinesInit == Init => \A c \in Clients : S(c)!Init
BY DEF Init, S!Init

LEMMA SessionsAlways == Spec => [](TypeInv /\ StreamsArePrivate /\ SessionsInv)
<1>1. Init => SessionsInv
  BY DEF Init, SessionsInv, SessionInv, Stream
<1>2. TypeInv /\ StreamsArePrivate /\ SessionsInv /\ [Next]_vars => SessionsInv'
  BY SessionNext DEF SessionsInv, SessionStep
<1> QED  BY <1>1, <1>2, TypeAlways, StreamsPrivate, PTL DEF Spec

(* RtspServer implements Session for every client: what is answered is     *)
(* carried out before the next answer, once, and on the client's own       *)
(* stream, whatever the other clients do.                                  *)
THEOREM SessionsImplemented == Spec => ImplementsSession
<1>1. TypeInv /\ StreamsArePrivate /\ SessionsInv /\ [Next]_vars
        => \A c \in Clients : [S(c)!Next]_(S(c)!vars)
  BY SessionNext DEF SessionStep
<1> QED  BY <1>1, RefinesInit, SessionsAlways, PTL DEF Spec, ImplementsSession

-----------------------------------------------------------------------------
(* What the process goes down for.  Where there is a capture thread, a     *)
(* SETUP has been answered before.                                         *)
SetUp == \E c \in Clients : \E k \in DOMAIN answers[c] : answers[c][k].method = "SETUP"

CauseInv == DownHasCause /\ (opening + captures > 0 => SetUp)

LEMMA AnswersStay ==
  ASSUME TypeInv, [Next]_vars
  PROVE  SetUp => SetUp'
<1>1. CASE \A d \in Clients : Same(d)
  BY <1>1 DEF SetUp, Same
<1>2. ASSUME NEW c \in Clients, \A d \in Clients \ {c} : Same(d),
             answers'[c] = answers[c]
      PROVE  SetUp => SetUp'
  BY <1>2 DEF SetUp, Same
<1>3. ASSUME NEW c \in Clients, \A d \in Clients \ {c} : Same(d), AnswerStep(c)
      PROVE  SetUp => SetUp'
  <2>1. PICK a : answers' = [answers EXCEPT ![c] = Append(@, a)]
    BY <1>3 DEF AnswerStep, Respond
  <2>2. PICK A : A = [of : 0 .. MaxRequests, method : Methods, status : {200, 406}]
    OBVIOUS
  <2>3. answers \in [Clients -> Seq(A)]
    BY <2>2 DEF TypeInv, TypeOK
  <2>4. answers'[c] = Append(answers[c], a)
    BY <2>1, <2>3
  <2>5. \A k \in DOMAIN answers[c] :
          k \in DOMAIN answers'[c] /\ answers'[c][k] = answers[c][k]
    BY <2>3, <2>4
  <2> QED  BY <1>3, <2>5 DEF SetUp, Same
<1>4. ASSUME NEW c \in Clients, (\E r \in Requests : Ask(c, r)) \/ Recv(c)
      PROVE  answers' = answers
  BY <1>4 DEF Ask, Recv
<1> QED  BY <1>1, <1>2, <1>3, <1>4, StepCases

(* The capture threads come from SETUP only.                               *)
LEMMA CapturesNext ==
  ASSUME TypeInv, SessionsInv, [Next]_vars, opening + captures > 0 => SetUp
  PROVE  opening' + captures' > 0 => SetUp'
<1>1. SetUp => SetUp'
  BY AnswersStay
<1>2. CASE UNCHANGED <<opening, captures>>
  BY <1>1, <1>2
<1>3. CASE OpenCapture
  <2>1. opening + captures > 0
    BY <1>3 DEF OpenCapture, TypeInv, TypeOK
  <2> QED  BY <1>1, <2>1
<1>4. ASSUME NEW c \in Clients, StartCapture(c)  PROVE SetUp
  <2>1. answers[c] # <<>> /\ Last(c) = "SETUP"
    BY <1>4 DEF StartCapture, SessionsInv, SessionInv
  <2>2. PICK A : A = [of : 0 .. MaxRequests, method : Methods, status : {200, 406}]
    OBVIOUS
  <2>3. answers[c] \in Seq(A)
    BY <2>2 DEF TypeInv, TypeOK
  <2>4. Len(answers[c]) \in DOMAIN answers[c]
    BY <2>1, <2>3
  <2> QED  BY <2>1, <2>4 DEF SetUp, Last
<1>5. \/ UNCHANGED <<opening, captures>> \/ OpenCapture
      \/ \E c \in Clients : StartCapture(c)
  BY NextCases, ZenonT(60) DEF AcceptFails, CaptureFails, vars, resources, capture, Accept,
     Connect, Leave, Ask, Recv, RecvFails, HandleNoCSeq, HandleUnsupported, Answered,
     HandleSetupNoPorts, HandleSetupBadPorts, StartStream, SetCmd, SetCmdUninitialised
<1> QED  BY <1>1, <1>2, <1>3, <1>4, <1>5

(* The steps that take the process down, and those after it has gone.      *)
LEMMA DownSteps ==
  ASSUME [Next]_vars
  PROVE  \/ UNCHANGED vars
         \/ Up /\ server' \in {server, "stopped"}
         \/ CaptureFails
         \/ \E c \in Clients : \/ RecvFails(c) \/ HandleSetupBadPorts(c)
                              \/ SetCmdUninitialised(c)
                              \/ \E methods, status, l : Answered(c, methods, status, l)
BY NextCases, ZenonT(60) DEF AcceptFails, OpenCapture, Up, Accept, Connect, Leave, Ask, Recv,
   HandleNoCSeq, HandleUnsupported, HandleSetupNoPorts, Valid, StartCapture, StartStream,
   SetCmd

LEMMA CauseNext ==
  ASSUME TypeInv, SessionsInv, CauseInv, [Next]_vars
  PROVE  CauseInv'
<1>0. opening' + captures' > 0 => SetUp'
  BY CapturesNext DEF CauseInv
<1>1. CASE UNCHANGED vars
  <2>1. UNCHANGED <<server, client, pc, request, mediaStreamHandler, answers>>
    BY <1>1 DEF vars, peer
  <2>2. \A c \in Clients : ParseMethod(c)' = ParseMethod(c) /\ ParsePorts(c)' = ParsePorts(c)
    BY <2>1, SameRequest
  <2> QED  BY <1>0, <2>1, <2>2 DEF CauseInv, DownHasCause
<1>2. CASE Up /\ server' \in {server, "stopped"}
  BY <1>0, <1>2 DEF CauseInv, DownHasCause, Up
<1>3. CASE CaptureFails
  <2>1. SetUp'
    BY <1>0, <1>3 DEF CaptureFails, resources, capture
  <2> QED  BY <1>0, <1>3, <2>1 DEF CaptureFails, CauseInv, DownHasCause, SetUp
<1>4. ASSUME NEW c \in Clients, RecvFails(c)  PROVE CauseInv'
  BY <1>0, <1>4 DEF RecvFails, peer, CauseInv, DownHasCause
<1>5. ASSUME NEW c \in Clients, NEW methods, NEW status, NEW l,
             Answered(c, methods, status, l)
      PROVE  CauseInv'
  BY <1>0, <1>5 DEF Answered, Valid, Up, Respond, peer, CauseInv, DownHasCause
<1>6. ASSUME NEW c \in Clients, HandleSetupBadPorts(c)  PROVE CauseInv'
  <2>1. ParseMethod(c)' = ParseMethod(c) /\ ParsePorts(c)' = ParsePorts(c)
    BY <1>6, SameRequest DEF HandleSetupBadPorts
  <2> QED  BY <1>0, <1>6, <2>1 DEF HandleSetupBadPorts, Valid, CauseInv, DownHasCause
<1>7. ASSUME NEW c \in Clients, SetCmdUninitialised(c)  PROVE CauseInv'
  BY <1>0, <1>7 DEF SetCmdUninitialised, Up, CauseInv, DownHasCause
<1> QED  BY <1>1, <1>2, <1>3, <1>4, <1>5, <1>6, <1>7, DownSteps

(* The threads that serve clients take the process down only because a     *)
(* client closed its connection, or steered a stream that it never set up, *)
(* or sent ports that are no numbers or cut short; and a capture thread    *)
(* takes it down only after a SETUP was answered.                          *)
THEOREM DownCaused == Spec => []DownHasCause
<1>1. Init => CauseInv
  BY DEF Init, CauseInv, DownHasCause
<1>2. CauseInv => DownHasCause
  BY DEF CauseInv
<1> QED  BY <1>1, <1>2, CauseNext, SessionsAlways, PTL DEF Spec

=============================================================================
