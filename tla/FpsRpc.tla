-------------------------------- MODULE FpsRpc -------------------------------
(***************************************************************************)
(* What a fingerprint scanner driver promises its callers: a call returns  *)
(* the device's answer to the command of that very call, one call at a     *)
(* time.  This is what every command method of FPS_GT511Linux.cpp is       *)
(* written for, e.g. "Gets the response to the command from the software   *)
(* serial channel (and waits for it)" above GetResponse.                   *)
(***************************************************************************)
EXTENDS Naturals

CONSTANTS Threads, MaxCalls

VARIABLES
  phase,    \* phase[t]: "idle", "waiting" for an answer, or "downloading"
  issued,   \* calls started so far
  mine,     \* mine[t]: t's last call
  reply     \* reply[t]: the calls whose answer t was given last

vars == <<phase, issued, mine, reply>>

Init ==
  /\ phase = [t \in Threads |-> "idle"]
  /\ issued = 0
  /\ mine = [t \in Threads |-> 0]
  /\ reply = [t \in Threads |-> {}]

Call(t) ==
  /\ \A u \in Threads : phase[u] = "idle"
  /\ issued < MaxCalls
  /\ issued' = issued + 1
  /\ mine' = [mine EXCEPT ![t] = issued + 1]
  /\ phase' = [phase EXCEPT ![t] = "waiting"]
  /\ UNCHANGED reply

\* The answer that is handed over is that of the caller's own command.
Reply(t) ==
  /\ phase[t] = "waiting"
  /\ reply' = [reply EXCEPT ![t] = {mine[t]}]
  /\ \E p \in {"idle", "downloading"} : phase' = [phase EXCEPT ![t] = p]
  /\ UNCHANGED <<issued, mine>>

Downloaded(t) ==
  /\ phase[t] = "downloading"
  /\ phase' = [phase EXCEPT ![t] = "idle"]
  /\ UNCHANGED <<issued, mine, reply>>

Next == \E t \in Threads : Call(t) \/ Reply(t) \/ Downloaded(t)

Spec == Init /\ [][Next]_vars
=============================================================================
