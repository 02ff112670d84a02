------------------------------ MODULE ModelerCore ------------------------------
(***************************************************************************)
(* What the wrapper relies on of the C++ class ink::stroke_model::         *)
(* StrokeModeler.  Its sources are a git submodule that this tree leaves   *)
(* empty, so the class is external: the definitions below say what         *)
(* InkStrokeModelerFFI.mm and the Swift layer take for granted (the status *)
(* codes, the down/move/up order, reset, save and restore) and leave the   *)
(* rest (how many results a call yields) to nondeterminism.                *)
(*                                                                         *)
(* Operators are functions of a core value, so that a handler which makes  *)
(* two calls in a row is one action of the module that models it.          *)
(***************************************************************************)
EXTENDS Integers, Sequences

CONSTANTS
  Points,       \* positions of inputs, the unusable ones included
  BadPoints,    \* positions with a coordinate that is not finite
  Origin,       \* the position (0, 0)
  MaxTime,      \* timestamps are 0 .. MaxTime
  MaxOutputs,   \* sampling_params.max_outputs_per_call
  Motions,      \* values of the wobble, position and stylus groups, together
  Samplings,    \* values of the sampling group
  Kalmans,      \* values of the Kalman group
  Rejected,     \* group values that ValidateStrokeModelParams refuses
  LimitCodes,   \* codes an input needing too many results is refused with
  DefaultMotion,   \* the default-constructed wobble/position/stylus groups
  UnsetSampling,   \* the default-constructed sampling group, all -1: refused
  Nil           \* the absent value of an optional

(***************************************************************************)
(* Parameters.  The C++ prediction_params is a variant: one of two empty   *)
(* structs or the Kalman group.                                            *)
(***************************************************************************)
StrokeEnd == "StrokeEndPredictorParams"
Disabled  == "DisabledPredictorParams"

Params == [motion     : Motions,
           sampling   : Samplings \cup {UnsetSampling},
           prediction : {StrokeEnd, Disabled} \cup Kalmans]

LibraryDefaults == [motion     |-> DefaultMotion,
                    sampling   |-> UnsetSampling,
                    prediction |-> StrokeEnd]

ValidateStrokeModelParams(p) ==
  IF {p.motion, p.sampling, p.prediction} \cap Rejected = {}
  THEN "kOk" ELSE "kInvalidArgument"

(***************************************************************************)
(* Inputs, samples and the state of the core.  `serial' numbers the        *)
(* accepted inputs and names the input a sample came from; it is never     *)
(* read by the code and only serves the properties.                        *)
(***************************************************************************)
Times   == 0 .. MaxTime
Events  == {"down", "move", "up"}
Input   == [event_type : Events, position : Points, time : Times]
Stroke  == [down : Nat, last : Input]
Sample  == [stroke : Nat, call : Nat, k : Nat, toward : Points]
Core    == [params : Params \cup {Nil},
            stroke : Stroke \cup {Nil},
            saved  : [stroke : Stroke \cup {Nil}] \cup {Nil},
            serial : Nat]

AbslCodes == {"kOk", "kInvalidArgument", "kFailedPrecondition", "kOutOfRange",
              "kInternal"}

ASSUME CoreAssumption ==
  /\ BadPoints \subseteq Points
  /\ Origin \in Points \ BadPoints
  /\ MaxTime \in Nat /\ MaxOutputs \in Nat
  /\ DefaultMotion \in Motions /\ UnsetSampling \in Rejected
  /\ LimitCodes \subseteq AbslCodes \ {"kOk"}
  /\ {StrokeEnd, Disabled} \cap (Kalmans \cup Rejected) = {}

ASSUME NilAssumption ==
  /\ Nil \notin Params
  /\ Nil \notin Stroke
  /\ Nil \notin [stroke : Stroke \cup {Nil}]
  /\ Nil \notin Input

NewCore == [params |-> Nil, stroke |-> Nil, saved |-> Nil, serial |-> 0]

(***************************************************************************)
(* Reset(params) and Reset(): the stroke in progress and the saved state   *)
(* are dropped.                                                            *)
(***************************************************************************)
CoreResetWith(c, p) ==
  LET code == ValidateStrokeModelParams(p)
  IN  [code |-> code,
       core |-> IF code = "kOk"
                THEN [c EXCEPT !.params = p, !.stroke = Nil, !.saved = Nil]
                ELSE c]

CoreReset(c) ==
  IF c.params = Nil
  THEN [code |-> "kFailedPrecondition", core |-> c]
  ELSE [code |-> "kOk", core |-> [c EXCEPT !.stroke = Nil, !.saved = Nil]]

(***************************************************************************)
(* Update.  An input out of order is a failed precondition; one that is    *)
(* not finite, repeats the last one or goes back in time is an invalid     *)
(* argument.  A move or up that needs more than MaxOutputs results is      *)
(* refused too; the model leaves to chance when, and with which of         *)
(* LimitCodes.  A refused input leaves the stroke as it was.               *)
(***************************************************************************)
OutOfOrder(c, in) ==
  c.params = Nil \/ (in.event_type = "down") = (c.stroke # Nil)

Unacceptable(c, in) ==
  \/ in.position \in BadPoints
  \/ c.stroke # Nil /\ (in = c.stroke.last \/ in.time < c.stroke.last.time)

Refusals(c, in) ==
       {code \in {"kFailedPrecondition"} : OutOfOrder(c, in)}
  \cup {code \in {"kInvalidArgument"} : Unacceptable(c, in)}
  \cup {code \in LimitCodes : in.event_type # "down"}

Accepts(c, in) == ~OutOfOrder(c, in) /\ ~Unacceptable(c, in)

DownOf(c, in) == IF in.event_type = "down" THEN c.serial + 1 ELSE c.stroke.down

AfterInput(c, in) ==
  [c EXCEPT !.serial = c.serial + 1,
            !.stroke = IF in.event_type = "up" THEN Nil
                       ELSE [down |-> DownOf(c, in), last |-> in]]

Results(c, in, n) ==
  [i \in 1 .. n |-> [stroke |-> DownOf(c, in), call |-> c.serial + 1,
                     k |-> i, toward |-> in.position]]

CoreUpdate(c, in) ==
       {[code |-> code, core |-> c, out |-> <<>>] : code \in Refusals(c, in)}
  \cup {[code |-> "kOk", core |-> AfterInput(c, in), out |-> Results(c, in, n)] :
          n \in {i \in 0 .. MaxOutputs : Accepts(c, in)}}

(***************************************************************************)
(* Predict extrapolates the stroke in progress without changing it; there  *)
(* is nothing to extrapolate without a stroke or with a disabled predictor.*)
(***************************************************************************)
CanPredict(c) == c.params # Nil /\ c.stroke # Nil /\ c.params.prediction # Disabled

CorePredict(c) ==
  IF CanPredict(c)
  THEN {[code |-> "kOk",
         out  |-> [i \in 1 .. n |-> [stroke |-> c.stroke.down, call |-> c.serial,
                                     k |-> i, toward |-> c.stroke.last.position]]] :
          n \in 0 .. MaxOutputs}
  ELSE {[code |-> "kFailedPrecondition", out |-> <<>>]}

CoreSave(c)    == [c EXCEPT !.saved = [stroke |-> c.stroke]]
CoreRestore(c) == IF c.saved = Nil THEN c ELSE [c EXCEPT !.stroke = c.saved.stroke]
================================================================================
