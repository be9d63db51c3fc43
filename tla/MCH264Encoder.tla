---------------------------- MODULE MCH264Encoder ----------------------------
(* Small instances of H264Encoder for TLC. *)
EXTENDS H264Encoder
=============================================================================
