-------------------------- MODULE InkStrokeModelerFFI --------------------------
(***************************************************************************)
(* The C shim between Swift and the C++ core.  An ism_Modeler owns a core  *)
(* (impl), the last parameter struct it translated (params) and has_params.*)
(* Each ism_* function is an operator from a modeler and its arguments to  *)
(* what it returns and the modeler it leaves; a core call may have several *)
(* outcomes, then the operator is the set of them.  An output buffer is a  *)
(* sequence, whose length is max_results.                                  *)
(***************************************************************************)
EXTENDS ModelerCore

CONSTANT FillerKalman   \* the Kalman group Swift sends when it asks for none

(***************************************************************************)
(* The C structs.                                                          *)
(***************************************************************************)
ism_Status == {"OK", "INVALID_ARGUMENT", "FAILED_PRECONDITION", "OUT_OF_RANGE",
               "INTERNAL"}

ism_PredictionParams == [kind   : {"STROKE_END", "KALMAN", "DISABLED"},
                         kalman : Kalmans \cup {FillerKalman}]

ism_StrokeModelParams == [motion     : Motions,
                          sampling   : Samplings,
                          prediction : ism_PredictionParams]

ism_Modeler == [impl : Core, params : Params, has_params : BOOLEAN]

ism_modeler_create ==
  [impl |-> NewCore, params |-> LibraryDefaults, has_params |-> FALSE]

to_status(code) ==
  CASE code = "kOk"                 -> "OK"
    [] code = "kInvalidArgument"    -> "INVALID_ARGUMENT"
    [] code = "kFailedPrecondition" -> "FAILED_PRECONDITION"
    [] code = "kOutOfRange"         -> "OUT_OF_RANGE"
    [] OTHER                        -> "INTERNAL"

(***************************************************************************)
(* Every group is copied field by field over *out; the prediction variant  *)
(* is replaced according to kind, and the Kalman group is read only for    *)
(* KALMAN.                                                                 *)
(***************************************************************************)
\* Mutant: the Kalman group is copied whatever the kind.
PredictorOf_IgnoresKind(pred) == pred.kalman

PredictorOf(pred) ==
  CASE pred.kind = "STROKE_END" -> StrokeEnd
    [] pred.kind = "DISABLED"   -> Disabled
    [] pred.kind = "KALMAN"     -> pred.kalman

apply_params_defaults(ip, out) ==
  [out EXCEPT !.motion     = ip.motion,
              !.sampling   = ip.sampling,
              !.prediction = PredictorOf(ip.prediction)]

(***************************************************************************)
(* Resets.  The translated struct is stored before it is validated, and    *)
(* has_params is set before the core is reset.                             *)
(***************************************************************************)
\* Mutant: the stroke in progress is dropped before the struct is validated.
ism_modeler_reset_with_params_ResetsFirst(m, cp) ==
  LET p == apply_params_defaults(cp, m.params)
      r == CoreResetWith(CoreReset(m.impl).core, p)
  IN  [st |-> to_status(r.code),
       m  |-> [m EXCEPT !.params = p, !.has_params = (@ \/ r.code = "kOk"),
                        !.impl = r.core]]

ism_modeler_reset_with_params(m, cp) ==
  LET p    == apply_params_defaults(cp, m.params)
      code == ValidateStrokeModelParams(p)
      r    == CoreResetWith(m.impl, p)
  IN  IF code # "kOk"
      THEN [st |-> to_status(code), m |-> [m EXCEPT !.params = p]]
      ELSE [st |-> to_status(r.code),
            m  |-> [m EXCEPT !.params = p, !.has_params = TRUE, !.impl = r.core]]

\* Mutant: the stored struct, perhaps a refused one, is applied again.
ism_modeler_reset_FromStored(m) ==
  IF ~m.has_params
  THEN [st |-> "FAILED_PRECONDITION", m |-> m]
  ELSE [st |-> "OK", m |-> [m EXCEPT !.impl =
          [m.impl EXCEPT !.params = m.params, !.stroke = Nil, !.saved = Nil]]]

ism_modeler_reset(m) ==
  LET r == CoreReset(m.impl)
  IN  IF ~m.has_params
      THEN [st |-> "FAILED_PRECONDITION", m |-> m]
      ELSE [st |-> to_status(r.code), m |-> [m EXCEPT !.impl = r.core]]

(***************************************************************************)
(* Update and predict copy at most max_results results into the buffer but *)
(* report how many there were; on failure they report 0 and leave the      *)
(* buffer alone.                                                           *)
(***************************************************************************)
Least(a, b) == IF a <= b THEN a ELSE b

CopyOut(results, buf) ==
  [i \in 1 .. Len(buf) |-> IF i <= Len(results) THEN results[i] ELSE buf[i]]

ism_modeler_update(m, in, buf) ==
  {[st    |-> to_status(o.code),
    m     |-> [m EXCEPT !.impl = o.core],
    buf   |-> IF o.code = "kOk" THEN CopyOut(o.out, buf) ELSE buf,
    count |-> IF o.code = "kOk" THEN Len(o.out) ELSE 0] : o \in CoreUpdate(m.impl, in)}

ism_modeler_predict(m, buf) ==
  {[st    |-> to_status(o.code),
    buf   |-> IF o.code = "kOk" THEN CopyOut(o.out, buf) ELSE buf,
    count |-> IF o.code = "kOk" THEN Len(o.out) ELSE 0] : o \in CorePredict(m.impl)}

ism_modeler_save(m)    == [m EXCEPT !.impl = CoreSave(m.impl)]
ism_modeler_restore(m) == [m EXCEPT !.impl = CoreRestore(m.impl)]
================================================================================
