----------------------------- MODULE RtspServer -----------------------------
(***************************************************************************)
(* The control side of the server: the accept loop of RTSPServer, and the  *)
(* request thread that RequestHandler runs for each connection.  A request *)
(* thread reads what has arrived on its connection, takes that for one     *)
(* request, answers it, and creates or steers the stream of its client.    *)
(*                                                                         *)
(* What is on the wire is a sequence of header lines.  recv returns what   *)
(* has arrived so far, which need be neither a whole request nor just one, *)
(* and may end inside a line.                                              *)
(* The stream threads are those of MediaStream; here a stream is the       *)
(* command it got last.                                                    *)
(***************************************************************************)
EXTENDS Integers, Sequences, FiniteSetsExt

CONSTANTS
  Clients,
  Leavers,         (* the clients that may close their connection early *)
  Requests,        (* what a client may ask: the method and what is in    *)
                   (* the header lines, "none" where one is missing *)
  MaxRequests,     (* bound: requests of a client *)
  MaxOutstanding,  (* requests a client sends before it awaits answers *)
  Cuts,            (* whether recv may return less than was sent *)
  FdLimit          (* descriptors the process may have for clients and *)
                   (* for what it captures from *)

ASSUME ConstantsOK ==
  /\ Leavers \subseteq Clients
  /\ Requests \subseteq [method : {"OPTIONS", "DESCRIBE", "SETUP", "PLAY",
                                   "PAUSE", "TEARDOWN", "OTHER"},
                         CSeq : {"number", "garbled", "none"},
                         client_port : {"numbers", "words", "none"},
                         Accept : {"sdp", "none"}]
  /\ MaxRequests \in Nat /\ MaxOutstanding \in Nat \ {0}
  /\ Cuts \in BOOLEAN
  /\ FdLimit \in Nat \ {0}

VARIABLES
  server,              (* "running"; "stopped": it accepts no more; "down", *)
                       (* and "captureDown" where a capture thread did it *)
  client,              (* where each client is with its connection *)
  asked,               (* what each client has asked *)
  wire,                (* header lines sent and not yet received *)
  pc,                  (* where each request thread is *)
  request,             (* what its last recv returned *)
  mediaStreamHandler,  (* its current stream, or 0: uninitialised *)
  streams,             (* every stream: its owner and its last command *)
  answers,             (* what each client was answered *)
  opening,             (* capture threads that have yet to open the sound *)
                       (* card or the file *)
  captures,            (* capture threads that have done so *)
  descriptors          (* file descriptors in use for clients and captures *)

peer == <<client, asked>>
capture == <<opening, captures>>
resources == <<capture, descriptors>>
vars == <<server, peer, wire, pc, request, mediaStreamHandler, streams,
          answers, resources>>

StateOf == [PLAY |-> "Play", PAUSE |-> "Pause", TEARDOWN |-> "Teardown"]
Commands == DOMAIN StateOf

(* The header lines of the n-th request of a client.  "numbers" are ports  *)
(* that ParsePorts can read; "words" are ports on which stoi throws.  A    *)
(* CSeq is "garbled" if no blank separates the number from the label.  A   *)
(* blank line ends the request.                                            *)
HeaderLine(kind, n, value) ==
  IF value = "none" THEN <<>> ELSE <<[kind |-> kind, of |-> n, value |-> value]>>

Lines(r, n) ==
  HeaderLine("method", n, r.method) \o HeaderLine("CSeq", n, r.CSeq)
    \o HeaderLine("client_port", n, r.client_port)
    \o HeaderLine("Accept", n, r.Accept) \o HeaderLine("blank", n, "")

(* The parts into which the end of a recv may cut a line: no parser        *)
(* recognises either, or one of them only, or the cut leaves the line's    *)
(* end.  Of a CSeq or of ports the first part may hold too little, and a   *)
(* port that is cut is still a number.                                     *)
Parts(l) ==
  LET rest == [l EXCEPT !.kind = "rest", !.value = ""]
  IN {<<rest, rest>>, <<l, [rest EXCEPT !.kind = "blank"]>>} \cup
       CASE l.kind = "method"      -> {<<l, rest>>}
         [] l.kind = "CSeq"        -> {<<[l EXCEPT !.value = "garbled"], rest>>}
         [] l.kind = "client_port" -> {<<rest, l>>, <<l, rest>>,
                                       <<[l EXCEPT !.value = "words"], rest>>}
         [] l.kind = "Accept"      -> {<<rest, l>>}

(* The first line of s that is of one of these kinds. *)
At(s, kinds) == {k \in DOMAIN s : s[k].kind \in kinds}
NoLine == [kind |-> "none", of |-> 0, value |-> "none"]
First(s, kinds) == IF At(s, kinds) = {} THEN NoLine ELSE s[Min(At(s, kinds))]

Text == {"method", "CSeq", "client_port", "Accept", "rest"}

(* The parsers look at all of what recv returned: the first word is the    *)
(* method, the first CSeq line gives the number, and the first client_port *)
(* line with a dash gives the ports.  Here and below, X_Slip is the form   *)
(* that X, defined next, would have after the mistake in the code that its *)
(* suffix names; nothing uses it.                                          *)
ParseMethod(c) ==
  LET line == First(request[c], Text)
  IN IF line.kind = "method" THEN line.value ELSE "OTHER"

HasCSeq(c) == First(request[c], {"CSeq"}) # NoLine

(* A garbled number is any number: ParseCSeq returns an uninitialised one, *)
(* or the digits before the cut.  It is 0 here.                            *)
NumberOf(l) == IF l.value = "number" THEN l.of ELSE 0

ParseCSeq_Last(c) == NumberOf(request[c][Max(At(request[c], {"CSeq"}))])

ParseCSeq(c) == NumberOf(First(request[c], {"CSeq"}))

ParsePorts(c) == First(request[c], {"client_port"}).value

ParseAccept(c) == First(request[c], {"Accept"}) # NoLine

(* The process is still there. *)
Up == server \in {"running", "stopped"}

(* Nothing closes a connection, no UDPHandler is destroyed and a capture   *)
(* thread keeps what it has opened: no descriptor is given back.           *)
SocketsLeft == FdLimit - descriptors

Goto(c, l) == pc' = [pc EXCEPT ![c] = l]

Init ==
  /\ server = "running"
  /\ client = [c \in Clients |-> "away"]
  /\ asked = [c \in Clients |-> <<>>]
  /\ wire = [c \in Clients |-> <<>>]
  /\ pc = [c \in Clients |-> "none"]
  /\ request = [c \in Clients |-> <<>>]
  /\ mediaStreamHandler = [c \in Clients |-> 0]
  /\ streams = <<>>
  /\ answers = [c \in Clients |-> <<>>]
  /\ opening = 0 /\ captures = 0 /\ descriptors = 0

-----------------------------------------------------------------------------
(* The clients.  What they do when the process is gone is left out. *)

Connect(c) ==
  /\ Up /\ client[c] = "away"
  /\ client' = [client EXCEPT ![c] = "connected"]
  /\ UNCHANGED <<server, asked, wire, pc, request, mediaStreamHandler, streams,
                 answers, resources>>

(* A client asks nothing after TEARDOWN. *)
Ask(c, r) ==
  /\ Up /\ client[c] = "connected" /\ Len(asked[c]) < MaxRequests
  /\ Len(asked[c]) < Len(answers[c]) + MaxOutstanding
  /\ \A k \in DOMAIN asked[c] : asked[c][k].method # "TEARDOWN"
  /\ asked' = [asked EXCEPT ![c] = Append(@, r)]
  /\ wire' = [wire EXCEPT ![c] = @ \o Lines(r, Len(asked[c]) + 1)]
  /\ UNCHANGED <<server, client, pc, request, mediaStreamHandler, streams,
                 answers, resources>>

Leave(c) ==
  /\ Up /\ c \in Leavers /\ client[c] = "connected"
  /\ client' = [client EXCEPT ![c] = "gone"]
  /\ UNCHANGED <<server, asked, wire, pc, request, mediaStreamHandler, streams,
                 answers, resources>>

-----------------------------------------------------------------------------
(* The accept loop: a session, a RequestHandler and its thread for each    *)
(* connection.                                                             *)
Accept(c) ==
  /\ server = "running" /\ client[c] # "away" /\ pc[c] = "none"
  /\ SocketsLeft > 0
  /\ Goto(c, "recv")
  /\ descriptors' = descriptors + 1
  /\ UNCHANGED <<server, peer, wire, request, mediaStreamHandler, streams,
                 answers, capture>>

(* accept fails for want of a descriptor: the loop ends for good. *)
AcceptFails_Throws ==
  /\ server = "running" /\ SocketsLeft <= 0
  /\ server' = "down"
  /\ UNCHANGED <<peer, wire, pc, request, mediaStreamHandler, streams, answers,
                 resources>>

AcceptFails ==
  /\ server = "running" /\ SocketsLeft <= 0
  /\ server' = "stopped"
  /\ UNCHANGED <<peer, wire, pc, request, mediaStreamHandler, streams, answers,
                 resources>>

-----------------------------------------------------------------------------
(* HandleRequest, in the request thread of c. *)

Received(c, some, left) ==
  /\ request' = [request EXCEPT ![c] = some]
  /\ wire' = [wire EXCEPT ![c] = left]

Recv(c) ==
  /\ Up /\ pc[c] = "recv" /\ wire[c] # <<>>
  /\ LET upTo(k) == SubSeq(wire[c], 1, k)
         from(k) == SubSeq(wire[c], k, Len(wire[c]))
     IN \/ \E k \in 1 .. Len(wire[c]) :
             (Cuts \/ k = Len(wire[c])) /\ Received(c, upTo(k), from(k + 1))
        \/ \E k \in 0 .. Len(wire[c]) - 1 :
             /\ Cuts /\ wire[c][k + 1].kind \notin {"rest", "blank"}
             /\ \E p \in Parts(wire[c][k + 1]) :
                  Received(c, Append(upTo(k), p[1]), <<p[2]>> \o from(k + 2))
  /\ Goto(c, "handle")
  /\ UNCHANGED <<server, peer, mediaStreamHandler, streams, answers, resources>>

(* The client has closed: recv returns 0, and ReceiveRTSPRequest makes a   *)
(* std::string of nullptr, an exception that nothing catches.              *)
RecvFails(c) ==
  /\ Up /\ pc[c] = "recv" /\ wire[c] = <<>> /\ client[c] = "gone"
  /\ server' = "down"
  /\ UNCHANGED <<peer, wire, pc, request, mediaStreamHandler, streams, answers,
                 resources>>

(* No CSeq, or a garbled one that happens to be -1: the thread ends, and   *)
(* nobody reads the connection any more.                                   *)
HandleNoCSeq(c) ==
  /\ Up /\ pc[c] = "handle"
  /\ HasCSeq(c) => ParseCSeq(c) = 0
  /\ Goto(c, "ended")
  /\ UNCHANGED <<server, peer, wire, request, mediaStreamHandler, streams,
                 answers, resources>>

Valid(c, methods) ==
  /\ Up /\ pc[c] = "handle" /\ HasCSeq(c)
  /\ ParseMethod(c) \in methods

(* SendRTSPResponse.  To write to a connection that the peer has reset     *)
(* raises SIGPIPE, which nobody handles; the first write after the peer    *)
(* has closed may still succeed.                                           *)
Respond(c, status) ==
  /\ answers' = [answers EXCEPT ![c] =
                   Append(@, [of |-> ParseCSeq(c), method |-> ParseMethod(c),
                              status |-> status])]
  /\ \/ UNCHANGED server
     \/ client[c] = "gone" /\ server' = "down"

HandleUnsupported(c) ==
  /\ Valid(c, {"OTHER"})
  /\ Goto(c, "recv")
  /\ UNCHANGED <<server, peer, wire, request, mediaStreamHandler, streams,
                 answers, resources>>

HandleOptionsRequest(c) ==
  /\ Valid(c, {"OPTIONS"})
  /\ Respond(c, 200)
  /\ Goto(c, "recv")
  /\ UNCHANGED <<peer, wire, request, mediaStreamHandler, streams, resources>>

HandleDescribeRequest(c) ==
  /\ Valid(c, {"DESCRIBE"})
  /\ Respond(c, IF ParseAccept(c) THEN 200 ELSE 406)
  /\ Goto(c, "recv")
  /\ UNCHANGED <<peer, wire, request, mediaStreamHandler, streams, resources>>

HandleSetupRequest(c) ==
  /\ Valid(c, {"SETUP"}) /\ ParsePorts(c) = "numbers"
  /\ Respond(c, 200)
  /\ Goto(c, "setup")
  /\ UNCHANGED <<peer, wire, request, mediaStreamHandler, streams, resources>>

(* SETUP without ports is not answered. *)
HandleSetupNoPorts(c) ==
  /\ Valid(c, {"SETUP"}) /\ ParsePorts(c) = "none"
  /\ Goto(c, "recv")
  /\ UNCHANGED <<server, peer, wire, request, mediaStreamHandler, streams,
                 answers, resources>>

(* stoi throws on ports that are no numbers, or that a cut has left        *)
(* nothing of, and nothing catches it.                                     *)
HandleSetupBadPorts(c) ==
  /\ Valid(c, {"SETUP"}) /\ ParsePorts(c) = "words"
  /\ server' = "down"
  /\ UNCHANGED <<peer, wire, pc, request, mediaStreamHandler, streams, answers,
                 resources>>

(* The rest of SETUP.  onInitEvent starts a capture thread, whether or not *)
(* there is one already.                                                   *)
StartCapture(c) ==
  /\ Up /\ pc[c] = "setup"
  /\ opening' = opening + 1
  /\ Goto(c, "stream")
  /\ UNCHANGED <<server, peer, wire, request, mediaStreamHandler, streams,
                 answers, captures, descriptors>>

(* A new MediaStreamHandler with its thread, and as many of its two UDP    *)
(* sockets as there are descriptors for; with fewer than two,              *)
(* CreateUDPSocket returns before it has set the client's address, and     *)
(* nobody looks.  The handler of an earlier SETUP is forgotten, its thread *)
(* goes on.                                                                *)
socketsOpened == IF SocketsLeft < 2 THEN SocketsLeft ELSE 2

StartStream_Shared(c) ==
  /\ Up /\ pc[c] = "stream"
  /\ descriptors' = descriptors + socketsOpened
  /\ streams' = Append(streams, [owner |-> c, state |-> "Init"])
  /\ mediaStreamHandler' = [d \in Clients |-> Len(streams) + 1]
  /\ Goto(c, "recv")
  /\ UNCHANGED <<server, peer, wire, request, answers, capture>>

StartStream_Unlimited(c) ==
  /\ Up /\ pc[c] = "stream"
  /\ descriptors' = descriptors + 2
  /\ streams' = Append(streams, [owner |-> c, state |-> "Init"])
  /\ mediaStreamHandler' = [mediaStreamHandler EXCEPT ![c] = Len(streams) + 1]
  /\ Goto(c, "recv")
  /\ UNCHANGED <<server, peer, wire, request, answers, capture>>

StartStream(c) ==
  /\ Up /\ pc[c] = "stream"
  /\ descriptors' = descriptors + socketsOpened
  /\ streams' = Append(streams, [owner |-> c, state |-> "Init"])
  /\ mediaStreamHandler' = [mediaStreamHandler EXCEPT ![c] = Len(streams) + 1]
  /\ Goto(c, "recv")
  /\ UNCHANGED <<server, peer, wire, request, answers, capture>>

HandleCommand_AnswerOnly(c) ==
  /\ Valid(c, Commands)
  /\ Respond(c, 200)
  /\ Goto(c, "recv")
  /\ UNCHANGED <<peer, wire, request, mediaStreamHandler, streams, resources>>

HandleCommand(c) ==
  /\ Valid(c, Commands)
  /\ Respond(c, 200)
  /\ Goto(c, "command")
  /\ UNCHANGED <<peer, wire, request, mediaStreamHandler, streams, resources>>

AfterCommand_Ends(c) == Goto(c, "ended")
AfterCommand(c) ==
  Goto(c, IF ParseMethod(c) = "TEARDOWN" THEN "ended" ELSE "recv")

(* SetCmd, after the answer.  The thread ends after TEARDOWN. *)
SetCmd(c) ==
  /\ Up /\ pc[c] = "command" /\ mediaStreamHandler[c] # 0
  /\ streams' = [streams EXCEPT ![mediaStreamHandler[c]].state =
                                  StateOf[ParseMethod(c)]]
  /\ AfterCommand(c)
  /\ UNCHANGED <<server, peer, wire, request, mediaStreamHandler, answers,
                 resources>>

(* SetCmd through a pointer that no SETUP has set: the process dies, or    *)
(* memory that is nobody's stream is written.                              *)
SetCmdUninitialised(c) ==
  /\ Up /\ pc[c] = "command" /\ mediaStreamHandler[c] = 0
  /\ \/ server' = "down" /\ UNCHANGED pc
     \/ AfterCommand(c) /\ UNCHANGED server
  /\ UNCHANGED <<peer, wire, request, mediaStreamHandler, streams, answers,
                 resources>>

-----------------------------------------------------------------------------
(* The capture threads. *)

(* A capture thread opens what it captures from, the sound card or the     *)
(* H.264 file, and that takes a descriptor.                                *)
OpenCapture ==
  /\ Up /\ opening > 0 /\ SocketsLeft > 0
  /\ opening' = opening - 1
  /\ captures' = captures + 1
  /\ descriptors' = descriptors + 1
  /\ UNCHANGED <<server, peer, wire, pc, request, mediaStreamHandler, streams,
                 answers>>

(* Or it fails: it finds no descriptor left, no such device or file, or    *)
(* the device taken, by an earlier capture thread perhaps; the Opus        *)
(* encoder cannot be made; or, later on, the encoder fails on a frame.  An *)
(* exception that nothing catches, or an assertion, ends the process.      *)
CaptureFails ==
  /\ Up /\ opening + captures > 0
  /\ server' = "captureDown"
  /\ UNCHANGED <<peer, wire, pc, request, mediaStreamHandler, streams, answers,
                 resources>>

CaptureThread == OpenCapture \/ CaptureFails

RequestThread(c) ==
  \/ Recv(c) \/ RecvFails(c)
  \/ HandleNoCSeq(c) \/ HandleUnsupported(c)
  \/ HandleOptionsRequest(c) \/ HandleDescribeRequest(c)
  \/ HandleSetupRequest(c) \/ HandleSetupNoPorts(c) \/ HandleSetupBadPorts(c)
  \/ StartCapture(c) \/ StartStream(c)
  \/ HandleCommand(c) \/ SetCmd(c) \/ SetCmdUninitialised(c)

AcceptLoop == AcceptFails \/ \E c \in Clients : Accept(c)

Next ==
  \/ AcceptLoop \/ CaptureThread
  \/ \E c \in Clients :
       \/ RequestThread(c)
       \/ Connect(c) \/ Leave(c) \/ \E r \in Requests : Ask(c, r)

Spec == Init /\ [][Next]_vars

(* The server's threads run.  accept takes pending connections in turn,    *)
(* and fails at once, without waiting for one, when no descriptor is left. *)
Fairness ==
  /\ WF_vars(AcceptFails)
  /\ \A c \in Clients : WF_vars(Accept(c)) /\ WF_vars(RequestThread(c))

FairSpec == Spec /\ Fairness

-----------------------------------------------------------------------------
(* Properties.                                                             *)

Methods == {r.method : r \in Requests}
Line == [kind : {"method", "CSeq", "client_port", "Accept", "blank", "rest"},
         of : 1 .. MaxRequests,
         value : Methods \cup {"number", "garbled", "numbers", "words", "sdp",
                              ""}]

(* Every variable has its type, and no more descriptors are open than the  *)
(* process may have.                                                       *)
TypeOK ==
  /\ server \in {"running", "stopped", "down", "captureDown"}
  /\ client \in [Clients -> {"away", "connected", "gone"}]
  /\ asked \in [Clients -> Seq(Requests)]
  /\ wire \in [Clients -> Seq(Line)]
  /\ pc \in [Clients -> {"none", "recv", "handle", "setup", "stream", "command",
                         "ended"}]
  /\ request \in [Clients -> Seq(Line)]
  /\ mediaStreamHandler \in [Clients -> 0 .. Len(streams)]
  /\ streams \in Seq([owner : Clients,
                      state : {"Init", "Play", "Pause", "Teardown"}])
  /\ answers \in [Clients -> Seq([of : 0 .. MaxRequests, method : Methods,
                                  status : {200, 406}])]
  /\ opening \in Nat /\ captures \in Nat /\ descriptors \in 0 .. FdLimit

(* However recv cuts or joins the requests of a client that numbers them,  *)
(* an answer bears the number of a request that asked for what is          *)
(* answered, and no request is answered twice or after a later one; unless *)
(* the cut falls into the number itself, which is then another one.        *)
Numbered(c) == \A k \in DOMAIN asked[c] : asked[c][k].CSeq = "number"

AnswersMatch ==
  \A c \in {d \in Clients : Numbered(d)} : \A k \in DOMAIN answers[c] :
    LET n == answers[c][k].of IN n # 0 =>
      /\ n \in DOMAIN asked[c]
      /\ asked[c][n].method = answers[c][k].method
      /\ \A j \in 1 .. k - 1 : answers[c][j].of < n

(* A request thread steers a stream of its own client only, and is without *)
(* a stream exactly until its first SETUP is done: no session reaches into *)
(* the stream of another one, whatever the order of their requests.        *)
StreamsArePrivate ==
  \A c \in Clients :
    LET own == {k \in DOMAIN streams : streams[k].owner = c}
        h   == mediaStreamHandler[c]
    IN IF own = {} THEN h = 0 ELSE h \in own /\ \A k \in own : k <= h

(* Each client is served as Session says: what is answered is carried out  *)
(* before the next answer, once and on the client's own stream, however    *)
(* the threads of the clients interleave: S(c)!Spec for every c.           *)
S(c) == INSTANCE Session WITH
  answered <- [k \in DOMAIN answers[c] |-> answers[c][k].method],
  pending  <- pc[c] \in {"setup", "stream", "command"},
  stream   <- IF mediaStreamHandler[c] = 0 THEN "none"
              ELSE streams[mediaStreamHandler[c]].state

ImplementsSession ==
  /\ \A c \in Clients : S(c)!Init
  /\ [][\A c \in Clients : [S(c)!Next]_(S(c)!vars)]_vars

(* What the threads that serve clients take the process down for, memory   *)
(* and threads provided: a client has closed its connection before         *)
(* TEARDOWN, or commands a stream that it never set up, or stoi throws on  *)
(* the ports of a SETUP as recv returned it; never for want of             *)
(* descriptors, and never for anything else that recv returns.  A capture  *)
(* thread may take it down for reasons of its own, but not before a SETUP  *)
(* has been answered.                                                      *)
DownHasCause ==
  /\ server = "down" => \E c \in Clients :
       \/ client[c] = "gone"
       \/ pc[c] = "command" /\ mediaStreamHandler[c] = 0
       \/ /\ pc[c] = "handle" /\ ParseMethod(c) = "SETUP"
          /\ ParsePorts(c) = "words"
  /\ server = "captureDown" =>
       \E c \in Clients : \E k \in DOMAIN answers[c] :
         answers[c][k].method = "SETUP"

(* The requests of a client that asks as it should, each arriving whole    *)
(* and alone, are all answered, unless the process goes down, the client   *)
(* leaves, or it came after the accept loop had stopped: no other session, *)
(* however its requests look, keeps a request thread from answering.       *)
Proper(r) ==
  /\ r.method # "OTHER" /\ r.CSeq = "number"
  /\ r.method = "SETUP" => r.client_port = "numbers"

RequestsAnswered ==
  \A c \in Clients :
    (\A n \in DOMAIN asked[c] : Proper(asked[c][n])) ~>
      \/ ~Up \/ client[c] = "gone"
      \/ server = "stopped" /\ pc[c] = "none"
      \/ \A n \in DOMAIN asked[c] : \E k \in DOMAIN answers[c] :
           answers[c][k].of = n

=============================================================================
