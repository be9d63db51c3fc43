------------------------------ MODULE Session -------------------------------
(***************************************************************************)
(* What the server promises one client about its stream.  A request is     *)
(* answered before it is carried out, but it is carried out before any     *)
(* other one is answered, exactly once: SETUP gives the client a stream,   *)
(* PLAY, PAUSE and TEARDOWN put that stream into the state they ask for,   *)
(* and after TEARDOWN nothing is answered any more.  RtspServer implements *)
(* this for every client.                                                  *)
(***************************************************************************)
EXTENDS Naturals, Sequences

VARIABLES
  answered,   (* the methods of the requests answered *)
  pending,    (* the last one concerns the stream, and has yet to be *)
              (* carried out *)
  stream      (* the state of the client's stream, or "none" *)

vars == <<answered, pending, stream>>

StateOf == [SETUP |-> "Init", PLAY |-> "Play", PAUSE |-> "Pause",
            TEARDOWN |-> "Teardown"]

Methods == DOMAIN StateOf \cup {"OPTIONS", "DESCRIBE"}

Init == answered = <<>> /\ pending = FALSE /\ stream = "none"

Answer(method) ==
  /\ ~pending /\ stream # "Teardown"
  /\ answered' = Append(answered, method)
  /\ pending' = (method \in DOMAIN StateOf)
  /\ UNCHANGED stream

CarryOut ==
  /\ pending
  /\ LET method == answered[Len(answered)] IN
     stream' = IF stream = "none" /\ method # "SETUP" THEN "none"
                                                      ELSE StateOf[method]
  /\ pending' = FALSE
  /\ UNCHANGED answered

Next == CarryOut \/ \E method \in Methods : Answer(method)

Spec == Init /\ [][Next]_vars

=============================================================================
