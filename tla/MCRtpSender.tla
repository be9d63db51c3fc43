----------------------------- MODULE MCRtpSender -----------------------------
(* Small instances of RtpSender for TLC. *)
EXTENDS RtpSender
=============================================================================
