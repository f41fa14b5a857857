----------------------------- MODULE MCAdapters -----------------------------
(***************************************************************************)
(* Instances of Adapters for TLC.                                          *)
(*                                                                         *)
(* Bounds.  Regions: windows of 4 ticks, chunks shorter than a window and  *)
(* one of several windows.  Sherpa: a tail of two ticks, so that the next  *)
(* piece can fall inside it, and padding of one.  Whisper: words of one to *)
(* three ticks with and without a pause between them, a context and a cap  *)
(* of the buffer short enough that both are cut; boundaries may be off by  *)
(* one.  VAD: chunks below, at and above the window.                       *)
(***************************************************************************)
EXTENDS Adapters

MCFrom == <<0, 2, 4, 8>>
MCTo   == <<2, 3, 7, 9>>

=============================================================================
