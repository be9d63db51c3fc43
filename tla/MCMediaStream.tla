---------------------------- MODULE MCMediaStream ----------------------------
(* Small instances of MediaStream for TLC. *)
EXTENDS MediaStream
=============================================================================
