----------------------------- MODULE MCDoorRelay -----------------------------
(***************************************************************************)
(* The instance of DoorRelay for TLC: the entry, which has an LED on the   *)
(* relay's pin, with the pins of config.ini.                               *)
(***************************************************************************)
EXTENDS DoorRelay, TLC

EntryPins == "entry" :> ("ok" :> 7 @@ "wait" :> 2 @@ "nok" :> 0)
=============================================================================
