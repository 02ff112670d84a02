-------------------------- MODULE StrokeModelerSession --------------------------
(***************************************************************************)
(* An application that uses the Swift class StrokeModeler directly: it may *)
(* reset with any parameters, also in the middle of a stroke, send inputs  *)
(* in any order, ask for predictions, save and restore.                    *)
(***************************************************************************)
EXTENDS StrokeModeler

CONSTANTS
  MaxInputs,    \* bound: inputs that the core accepts
  PredictSizes  \* arguments of predict(max:); a negative one traps in Swift

ASSUME SessionAssumption == PredictSizes \subseteq Nat /\ Nil \notin Request

VARIABLES
  modeler,    \* the ism_Modeler behind the handle
  ret,        \* the last call: method, thrown error or "none", returned samples
  requested   \* history: the parameters of the last reset that did not throw

vars == <<modeler, ret, requested>>

Calls == {"init", "resetWith", "reset", "update", "predict", "save", "restore"}

Return == [call : Calls, err : StrokeModelerError \cup {"none"},
           produced : Nat, max : Nat, samples : Seq(Sample)]

TypeOK ==
  /\ modeler \in ism_Modeler
  /\ ret \in Return
  /\ requested \in Request \cup {Nil}

Init ==
  /\ modeler = ism_modeler_create
  /\ ret = [call |-> "init", err |-> "none", produced |-> 0, max |-> 0,
            samples |-> <<>>]
  /\ requested = Nil

Returns(call, err) ==
  ret' = [call |-> call, err |-> err, produced |-> 0, max |-> 0, samples |-> <<>>]

ReturnsSamples(call, o, max) ==
  ret' = [call |-> call, err |-> o.err, produced |-> o.produced, max |-> max,
          samples |-> o.samples]

ResetWith(req) ==
  LET r == resetWith(modeler, req)
  IN  /\ modeler' = r.m
      /\ Returns("resetWith", r.err)
      /\ requested' = IF r.err = "none" THEN req ELSE requested

Reset ==
  LET r == reset(modeler)
  IN  /\ modeler' = r.m
      /\ Returns("reset", r.err)
      /\ UNCHANGED requested

Update(in) ==
  /\ modeler.impl.serial < MaxInputs
  /\ \E u \in update(modeler, in) :
       /\ modeler' = u.m
       /\ ReturnsSamples("update", u, Capacity)
  /\ UNCHANGED requested

Predict(max) ==
  /\ \E o \in predict(modeler, max) : ReturnsSamples("predict", o, max)
  /\ UNCHANGED <<modeler, requested>>

Save ==
  /\ modeler' = save(modeler)
  /\ Returns("save", "none")
  /\ UNCHANGED requested

Restore ==
  /\ modeler' = restore(modeler)
  /\ Returns("restore", "none")
  /\ UNCHANGED requested

Next ==
  \/ \E req \in Request : ResetWith(req)
  \/ Reset
  \/ \E in \in Input : Update(in)
  \/ \E max \in PredictSizes : Predict(max)
  \/ Save
  \/ Restore

Spec == Init /\ [][Next]_vars

--------------------------------------------------------------------------------
(***************************************************************************)
(* Properties                                                              *)
(***************************************************************************)

\* The core always runs with the parameters of the last reset that did not
\* throw, although the shim stores a struct before it validates it and keeps it
\* when it is refused; has_params says whether there was such a reset.
CoreRunsRequestedParams ==
  /\ modeler.has_params = (requested # Nil)
  /\ modeler.impl.params = IF requested = Nil THEN Nil ELSE Wanted(requested)

\* reset with parameters throws invalidArgument if one of the groups in use is
\* unacceptable and succeeds otherwise: the placeholder Kalman values, which are
\* not acceptable, never fail a request for another predictor.
ResetThrowsOnlyOnBadRequest ==
  [][ret'.call = "resetWith" => \A req \in Request : ResetWith(req) =>
       ret'.err = IF {req.motion, req.sampling, WantedPredictor(req.prediction)}
                        \cap Rejected = {}
                  THEN "none" ELSE "invalidArgument"]_vars

\* A call that throws leaves the stroke in progress, the saved state and the
\* parameters of the core alone, so that the stroke can go on.
ThrowKeepsCore == [][ret'.err # "none" => modeler'.impl = modeler.impl]_vars

\* What update and predict return is the beginning of what the core produced in
\* this call: no zeroed entry of the buffer, no gap, and all of it if it fits.
SamplesAreGenuine ==
  /\ Len(ret.samples) = Least(ret.produced, ret.max)
  /\ \A i \in 1 .. Len(ret.samples) :
       /\ ret.samples[i].k = i
       /\ ret.samples[i].call = modeler.impl.serial

\* What the header says of a reset with parameters: the position model has its
\* defaults and prediction is the stroke-end predictor.
ResetUsesDefaults ==
  (ret.call = "resetWith" /\ ret.err = "none") =>
    /\ modeler.impl.params.motion = DefaultMotion
    /\ modeler.impl.params.prediction = StrokeEnd
================================================================================
