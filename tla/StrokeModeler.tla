----------------------------- MODULE StrokeModeler -----------------------------
(***************************************************************************)
(* The Swift class StrokeModeler: it marshals its arguments into C structs,*)
(* calls the shim on its handle, and turns a bad status into a thrown      *)
(* error.  `err' is "none" when the method returns; `produced' is the      *)
(* method's local count of what the core generated.                        *)
(***************************************************************************)
EXTENDS InkStrokeModelerFFI

CONSTANT Capacity   \* length of the result buffer that update allocates

ASSUME CapacityAssumption == Capacity \in Nat \ {0}
ASSUME FillerAssumption   == FillerKalman \notin Kalmans

StrokeModelerError == {"invalidArgument", "failedPrecondition", "outOfRange",
                       "internalError"}

mapStatus(s) ==
  CASE s = "OK"                  -> "none"
    [] s = "INVALID_ARGUMENT"    -> "invalidArgument"
    [] s = "FAILED_PRECONDITION" -> "failedPrecondition"
    [] s = "OUT_OF_RANGE"        -> "outOfRange"
    [] OTHER                     -> "internalError"

(***************************************************************************)
(* reset(wobble:position:sampling:stylus:prediction:).  The struct is      *)
(* built for the stroke-end predictor with placeholder Kalman values, then *)
(* its prediction part is set from the Swift enum.                         *)
(***************************************************************************)
PredictionParams ==
  [case : {"strokeEnd", "disabled"}] \cup [case : {"kalman"}, k : Kalmans]

Request == [motion : Motions, sampling : Samplings, prediction : PredictionParams]

\* The parameters of the core that a request asks for; only the properties use
\* them.
WantedPredictor(pred) ==
  CASE pred.case = "strokeEnd" -> StrokeEnd
    [] pred.case = "disabled"  -> Disabled
    [] pred.case = "kalman"    -> pred.k

Wanted(req) ==
  [motion     |-> req.motion,
   sampling   |-> req.sampling,
   prediction |-> WantedPredictor(req.prediction)]

\* Mutant: the kind stays that of the struct's first initialisation.
Marshal_KeepsKind(req) ==
  [motion     |-> req.motion,
   sampling   |-> req.sampling,
   prediction |-> [kind   |-> "STROKE_END",
                   kalman |-> IF req.prediction.case = "kalman"
                              THEN req.prediction.k ELSE FillerKalman]]

Marshal(req) ==
  LET placeholder == [kind |-> "STROKE_END", kalman |-> FillerKalman]
      pred == req.prediction
  IN  [motion     |-> req.motion,
       sampling   |-> req.sampling,
       prediction |->
         CASE pred.case = "strokeEnd" -> placeholder
           [] pred.case = "disabled"  -> [placeholder EXCEPT !.kind = "DISABLED"]
           [] pred.case = "kalman"    -> [kind |-> "KALMAN", kalman |-> pred.k]]

resetWith(m, req) ==
  LET r == ism_modeler_reset_with_params(m, Marshal(req))
  IN  [err |-> mapStatus(r.st), m |-> r.m]

reset(m) ==
  LET r == ism_modeler_reset(m)
  IN  [err |-> mapStatus(r.st), m |-> r.m]

(***************************************************************************)
(* update(_:) and predict(max:) allocate a buffer of zeroed results, let   *)
(* the shim fill it, and return the part of it that was filled.            *)
(***************************************************************************)
ZeroResult == [stroke |-> 0, call |-> 0, k |-> 0, toward |-> Origin]

ZeroedBuffer(capacity) == [i \in 1 .. capacity |-> ZeroResult]

\* Mutant: the whole buffer is returned, not the part that was filled.
update_WholeBuffer(m, in) ==
  {[err      |-> mapStatus(r.st),
    m        |-> r.m,
    produced |-> r.count,
    samples  |-> IF r.st = "OK" THEN r.buf ELSE <<>>] :
      r \in ism_modeler_update(m, in, ZeroedBuffer(Capacity))}

update(m, in) ==
  {[err      |-> mapStatus(r.st),
    m        |-> r.m,
    produced |-> r.count,
    samples  |-> SubSeq(r.buf, 1, Least(r.count, Capacity))] :
      r \in ism_modeler_update(m, in, ZeroedBuffer(Capacity))}

predict(m, max) ==
  {[err      |-> mapStatus(r.st),
    produced |-> r.count,
    samples  |-> SubSeq(r.buf, 1, Least(r.count, max))] :
      r \in ism_modeler_predict(m, ZeroedBuffer(max))}

save(m)    == ism_modeler_save(m)
restore(m) == ism_modeler_restore(m)
================================================================================
