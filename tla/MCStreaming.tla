---------------------------- MODULE MCStreaming -----------------------------
(* Small instances of Streaming for TLC. *)
EXTENDS Streaming
=============================================================================
