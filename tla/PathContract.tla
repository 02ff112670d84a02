------------------------------ MODULE PathContract ------------------------------
(***************************************************************************)
(* What a user of InkStrokePathSmoother may rely on, without the modeler,  *)
(* the buffers or the flags behind it: a line that only grows while it is  *)
(* being drawn, is final once ended, and is cleared only on request.       *)
(***************************************************************************)
EXTENDS Integers, Sequences

VARIABLES
  phase,   \* "idle", "drawing", "stuck" (the down event was refused) or "ended"
  line     \* the elements drawn so far

contractVars == <<phase, line>>

Init == phase = "idle" /\ line = <<>>

Grows == Len(line') >= Len(line) /\ SubSeq(line', 1, Len(line)) = line

Moves(from, to) == phase = from /\ phase' = to

Begin      == Moves("idle", "drawing") /\ line = <<>> /\ Grows
BeginFails == Moves("idle", "stuck") /\ line' = <<>>
Draw       == Moves("drawing", "drawing") /\ Grows
Finish     == Moves("drawing", "ended") /\ Grows
Clear      == phase' = "idle" /\ line' = <<>>

Next == Begin \/ BeginFails \/ Draw \/ Finish \/ Clear

Spec == Init /\ [][Next]_contractVars
================================================================================
