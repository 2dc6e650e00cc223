------------------------------ MODULE MCFpsLink ------------------------------
(***************************************************************************)
(* Instances of FpsLink for TLC: a packet of two or three bytes is the     *)
(* smallest that can be torn, and a data packet of three is longer than it.*)
(***************************************************************************)
EXTENDS FpsLink

PlainOnly == {FALSE}
AnyKind == {FALSE, TRUE}
=============================================================================
