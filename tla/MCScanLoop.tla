------------------------------ MODULE MCScanLoop -----------------------------
(***************************************************************************)
(* Instances of ScanLoop for TLC: an enrolled finger, whose template has   *)
(* number 1, and a stranger's.                                             *)
(***************************************************************************)
EXTENDS ScanLoop

CONSTANTS alice, mallory

MCFingers == {alice, mallory}
MCEnrolled == {alice}
MCTemplateId == [f \in MCFingers |-> 1]
=============================================================================
