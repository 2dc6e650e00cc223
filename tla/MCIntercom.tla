------------------------------ MODULE MCIntercom ------------------------------
(***************************************************************************)
(* The instance of Intercom for TLC: a day of four hours, two of them      *)
(* free, a code of two presses, and a byte that overflows within the       *)
(* interval.                                                               *)
(***************************************************************************)
EXTENDS Intercom
=============================================================================
