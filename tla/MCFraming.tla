------------------------------ MODULE MCFraming ------------------------------
(***************************************************************************)
(* Instances of Framing for TLC: three frames, with payloads of three,     *)
(* four and no bytes; the last can only be a bad one.                      *)
(***************************************************************************)
EXTENDS Framing

MCSize == <<3, 4, 0>>
MCStart == <<0, 12, 25, 34>>
=============================================================================
