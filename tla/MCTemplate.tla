------------------------------ MODULE MCTemplate ------------------------------
(***************************************************************************)
(* The instance of Template for TLC: templates of two to four bytes, so    *)
(* that their texts end in two, one and no '='.                            *)
(***************************************************************************)
EXTENDS Template

Some == {0, 1, 62, 128, 255}
ShortTemplates == UNION {[1..m -> Some] : m \in 2..4}
SomeNoise == {0, 1, 90, 255}
SomeScratches == {0, 1, 32, 63, Pad}
=============================================================================
