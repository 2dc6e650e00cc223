------------------------------ MODULE MCRegistry -----------------------------
(***************************************************************************)
(* Instances of Registry for TLC: two users, one of them with two fingers. *)
(* Two template numbers are enough for a gap and for a full scanner.       *)
(***************************************************************************)
EXTENDS Registry, TLC

CONSTANTS alice, bob, a1, a2, b1

MCUsers == {alice, bob}
MCFingers == {a1, a2, b1}
MCOwner == [f \in MCFingers |-> IF f = b1 THEN bob ELSE alice]

\* One finger of alice's is as good as the other.
MCSymmetry == Permutations({a1, a2})
=============================================================================
