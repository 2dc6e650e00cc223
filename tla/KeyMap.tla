-------------------------------- MODULE KeyMap --------------------------------
(***************************************************************************)
(* What a dictionary promises: a map from keys to values that is changed   *)
(* one key at a time, or dropped as a whole.                               *)
(***************************************************************************)
CONSTANTS Keys, Vals, Missing

VARIABLE map

Init == map = [k \in Keys |-> Missing]

Put(k, v) == map' = [map EXCEPT ![k] = v]
Remove(k) == map' = [map EXCEPT ![k] = Missing]
Drop == map' = [k \in Keys |-> Missing]

Next == Drop \/ \E k \in Keys : Remove(k) \/ \E v \in Vals : Put(k, v)

Spec == Init /\ [][Next]_map
=============================================================================
