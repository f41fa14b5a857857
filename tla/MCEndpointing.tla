---------------------------- MODULE MCEndpointing ----------------------------
(* Endpointing on a short stream.  A tick stands for 0.2s of audio.        *)
EXTENDS Endpointing

MCSteps == 0 .. 2

=============================================================================
