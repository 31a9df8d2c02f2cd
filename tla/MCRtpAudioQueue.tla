-------------------------- MODULE MCRtpAudioQueue --------------------------
(* The audio queue with blocks of two packets and one parity packet, and    *)
(* sequence numbers that wrap after sixteen blocks.                          *)
EXTENDS RtpAudioQueue

MCFirstBlocks == {9}
=============================================================================
