--------------------------- MODULE MCAudioCapture ---------------------------
(* Small instances of AudioCapture for TLC. *)
EXTENDS AudioCapture
=============================================================================
