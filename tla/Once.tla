-------------------------------- MODULE Once --------------------------------
(***************************************************************************)
(* What absl::call_once promises its callers: the function of a once_flag  *)
(* runs once, and no call returns before that run has ended.               *)
(***************************************************************************)
CONSTANT Threads

VARIABLES phase,   \* of the function: "never", "running" or "ended"
          inside   \* the threads that are in a call

vars == <<phase, inside>>

Init == phase = "never" /\ inside = {}

Call(t) == t \notin inside /\ inside' = inside \cup {t} /\ UNCHANGED phase

Begin == phase = "never" /\ inside # {} /\ phase' = "running" /\ UNCHANGED inside

End == phase = "running" /\ phase' = "ended" /\ UNCHANGED inside

Return(t) ==
  t \in inside /\ phase = "ended" /\ inside' = inside \ {t} /\ UNCHANGED phase

Next == Begin \/ End \/ \E t \in Threads : Call(t) \/ Return(t)

Spec == Init /\ [][Next]_vars
=============================================================================
