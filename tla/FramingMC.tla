----------------------------- MODULE FramingMC -----------------------------
(* A small instance of Framing for TLC. *)
EXTENDS Framing

\* Body lengths in cells: the third message does not fit behind the first two.
MCBodies == <<1, 3, 2, 1>>
=============================================================================
