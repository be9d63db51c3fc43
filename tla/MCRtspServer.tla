---------------------------- MODULE MCRtspServer ----------------------------
(* Small instances of RtspServer for TLC. *)
EXTENDS RtspServer

Plain(m) == [method |-> m, CSeq |-> "number",
             client_port |-> IF m = "SETUP" THEN "numbers" ELSE "none",
             Accept |-> IF m = "DESCRIBE" THEN "sdp" ELSE "none"]

(* What a player asks. *)
PlayerRequests == {Plain(m) : m \in {"SETUP", "PLAY", "TEARDOWN"}}

(* The same, and a request without a number, which ends the thread that    *)
(* would have to answer it.                                                *)
SessionRequests ==
  PlayerRequests \cup {[Plain("OPTIONS") EXCEPT !.CSeq = "none"]}

(* What any client may ask: also without ports or with ports that are no   *)
(* numbers, without CSeq, and with a method that the server does not know. *)
AnyRequests ==
  {Plain(m) : m \in {"DESCRIBE", "SETUP", "PLAY", "TEARDOWN", "OTHER"}}
    \cup {[Plain("SETUP") EXCEPT !.client_port = "none"],
          [Plain("SETUP") EXCEPT !.client_port = "words"],
          [Plain("OPTIONS") EXCEPT !.CSeq = "none"]}
=============================================================================
