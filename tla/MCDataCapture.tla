---------------------------- MODULE MCDataCapture ----------------------------
(* A small instance of DataCapture for TLC. *)
EXTENDS DataCapture
=============================================================================
