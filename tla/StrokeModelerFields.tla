------------------------- MODULE StrokeModelerFields -------------------------
(***************************************************************************)
(* The data that crosses the layers, field by field: the parameters on     *)
(* their way from the Swift structs through the C structs to the C++ ones, *)
(* an input on the same way, and a result on its way back. The shim writes *)
(* parameters over those of the reset before: a field that it forgot would *)
(* keep its old value.                                                     *)
(*                                                                         *)
(* A value is the name of the field that the application put it into and   *)
(* the version of that application's struct. The C++ core is external.     *)
(* Definitions that StrokeModeler has under the same name have another one *)
(* here, so that the proofs can extend both.                               *)
(***************************************************************************)
EXTENDS Integers, Sequences

CONSTANTS Versions,     \* of each struct that the application fills in
          Refused,      \* versions of the sampling struct that do not validate
          MaxResults    \* of an update; the buffer has room for all

ASSUME FieldsAssumption == Refused \subseteq Versions /\ MaxResults \in Nat

Struct(fields, v) == [f \in fields |-> <<f, v>>]

\* A struct with the fields of the table, each copied from the field it names.
From(table, s) == [f \in DOMAIN table |-> s[table[f]]]

\* Assignments field by field, between structs that have the same names.
Assign(out, in, fields) == [f \in DOMAIN out |-> IF f \in fields THEN in[f] ELSE out[f]]

-----------------------------------------------------------------------------
(* The Swift structs, and the C structs that reset builds of them.         *)

WobbleSmootherParams == {"isEnabled", "timeout", "speedFloor", "speedCeiling"}
SamplingParams == {"minOutputRate", "endOfStrokeStoppingDistance", "endOfStrokeMaxIterations",
                   "maxOutputsPerCall", "maxEstimatedAngleToTraversePerInput"}
LoopContractionMitigationParams ==
  {"isEnabled", "speedLowerBound", "speedUpperBound", "interpolationStrengthAtSpeedLowerBound",
   "interpolationStrengthAtSpeedUpperBound", "minSpeedSamplingWindow"}
PositionModelerParams == {"springMassConstant", "dragConstant"}   \* and loop
StylusStateModelerParams == {"useStrokeNormalProjection"}
KalmanConfidenceParams ==
  {"desiredNumberOfSamples", "maxEstimationDistance", "minTravelSpeed", "maxTravelSpeed",
   "maxLinearDeviation", "baselineLinearityConfidence"}
KalmanPredictorParams ==                                          \* and confidence
  {"processNoise", "measurementNoise", "minStableIteration", "maxTimeSamples",
   "minCatchupVelocity", "accelerationWeight", "jerkWeight", "predictionInterval"}

\* Swift: what reset is called with. Whole structs have a version, since fields are copied
\* independently of their values; groups is that of the four which hold no other choice.
Requests ==
  [groups : Versions, sampling : Versions,
   prediction : {[kind |-> "strokeEnd"], [kind |-> "disabled"]}
                  \cup [kind : {"kalman"}, k : Versions, confidence : Versions]]

ism_WobbleSmootherParams ==
  [is_enabled |-> "isEnabled", timeout |-> "timeout", speed_floor |-> "speedFloor",
   speed_ceiling |-> "speedCeiling"]
ism_PositionModelerParams ==
  [spring_mass_constant |-> "springMassConstant", drag_constant |-> "dragConstant"]
ism_LoopContractionMitigationParameters ==
  [is_enabled |-> "isEnabled", speed_lower_bound |-> "speedLowerBound",
   speed_upper_bound |-> "speedUpperBound",
   interpolation_strength_at_speed_lower_bound |-> "interpolationStrengthAtSpeedLowerBound",
   interpolation_strength_at_speed_upper_bound |-> "interpolationStrengthAtSpeedUpperBound",
   min_speed_sampling_window |-> "minSpeedSamplingWindow"]
ism_SamplingParams ==
  [min_output_rate |-> "minOutputRate",
   end_of_stroke_stopping_distance |-> "endOfStrokeStoppingDistance",
   end_of_stroke_max_iterations |-> "endOfStrokeMaxIterations",
   max_outputs_per_call |-> "maxOutputsPerCall",
   max_estimated_angle_to_traverse_per_input |-> "maxEstimatedAngleToTraversePerInput"]
ism_StylusStateModelerParams == [use_stroke_normal_projection |-> "useStrokeNormalProjection"]
ism_KalmanPredictorParams ==
  [process_noise |-> "processNoise", measurement_noise |-> "measurementNoise",
   min_stable_iteration |-> "minStableIteration", max_time_samples |-> "maxTimeSamples",
   min_catchup_velocity |-> "minCatchupVelocity", acceleration_weight |-> "accelerationWeight",
   jerk_weight |-> "jerkWeight", prediction_interval |-> "predictionInterval"]
ism_KalmanConfidenceParams ==
  [desired_number_of_samples |-> "desiredNumberOfSamples",
   max_estimation_distance |-> "maxEstimationDistance", min_travel_speed |-> "minTravelSpeed",
   max_travel_speed |-> "maxTravelSpeed", max_linear_deviation |-> "maxLinearDeviation",
   baseline_linearity_confidence |-> "baselineLinearityConfidence"]

\* The Kalman group of a request, or the constants that stand in for it.
Placeholder(table) == [f \in DOMAIN table |-> <<"placeholder", 0>>]
Kalman(p) ==
  IF p.kind = "kalman"
    THEN [group |-> From(ism_KalmanPredictorParams, Struct(KalmanPredictorParams, p.k)),
          confidence |-> From(ism_KalmanConfidenceParams,
                              Struct(KalmanConfidenceParams, p.confidence))]
    ELSE [group |-> Placeholder(ism_KalmanPredictorParams),
          confidence |-> Placeholder(ism_KalmanConfidenceParams)]

cp(req) ==
  [wobble   |-> From(ism_WobbleSmootherParams, Struct(WobbleSmootherParams, req.groups)),
   position |-> From(ism_PositionModelerParams, Struct(PositionModelerParams, req.groups)),
   loop     |-> From(ism_LoopContractionMitigationParameters,
                     Struct(LoopContractionMitigationParams, req.groups)),
   sampling |-> From(ism_SamplingParams, Struct(SamplingParams, req.sampling)),
   stylus_state |-> From(ism_StylusStateModelerParams,
                         Struct(StylusStateModelerParams, req.groups)),
   prediction |-> [kind |-> req.prediction.kind, kalman |-> Kalman(req.prediction)]]

-----------------------------------------------------------------------------
(* The shim's assignments to the C++ structs.                              *)

WobbleCopied == {"is_enabled", "timeout", "speed_floor", "speed_ceiling"}
PositionCopied == {"spring_mass_constant", "drag_constant"}

\* Mutant: a line of the list is missing.
LoopCopied_NoWindow ==
  {"is_enabled", "speed_lower_bound", "speed_upper_bound",
   "interpolation_strength_at_speed_lower_bound", "interpolation_strength_at_speed_upper_bound"}

LoopCopied ==
  {"is_enabled", "speed_lower_bound", "speed_upper_bound",
   "interpolation_strength_at_speed_lower_bound", "interpolation_strength_at_speed_upper_bound",
   "min_speed_sampling_window"}
SamplingCopied ==
  {"min_output_rate", "end_of_stroke_stopping_distance", "end_of_stroke_max_iterations",
   "max_outputs_per_call", "max_estimated_angle_to_traverse_per_input"}
StylusCopied == {"use_stroke_normal_projection"}
KalmanCopied ==
  {"process_noise", "measurement_noise", "min_stable_iteration", "max_time_samples",
   "min_catchup_velocity", "acceleration_weight", "jerk_weight", "prediction_interval"}
ConfidenceCopied ==
  {"desired_number_of_samples", "max_estimation_distance", "min_travel_speed",
   "max_travel_speed", "max_linear_deviation", "baseline_linearity_confidence"}

\* A C++ struct with the values of its default constructor.
Default(table) == [f \in DOMAIN table |-> <<"default", 0>>]

StrokeModelParams ==
  [wobble |-> Default(ism_WobbleSmootherParams), position |-> Default(ism_PositionModelerParams),
   loop |-> Default(ism_LoopContractionMitigationParameters),
   sampling |-> Default(ism_SamplingParams), stylus_state |-> Default(ism_StylusStateModelerParams),
   prediction |-> [kind |-> "strokeEnd"]]

\* prediction_params is a variant, and is assigned as a whole.
Predictor(p) ==
  IF p.kind # "kalman" THEN [kind |-> p.kind]
  ELSE [kind |-> "kalman",
        group |-> Assign(Default(ism_KalmanPredictorParams), p.kalman.group, KalmanCopied),
        confidence |-> Assign(Default(ism_KalmanConfidenceParams), p.kalman.confidence,
                              ConfidenceCopied)]

apply_fields(ip, out) ==
  [wobble |-> Assign(out.wobble, ip.wobble, WobbleCopied),
   position |-> Assign(out.position, ip.position, PositionCopied),
   loop |-> Assign(out.loop, ip.loop, LoopCopied),
   sampling |-> Assign(out.sampling, ip.sampling, SamplingCopied),
   stylus_state |-> Assign(out.stylus_state, ip.stylus_state, StylusCopied),
   prediction |-> Predictor(ip.prediction)]

-----------------------------------------------------------------------------
(* Inputs and results.                                                     *)

ism_Input ==
  [position_x |-> "x", position_y |-> "y", time |-> "time", pressure |-> "pressure",
   tilt |-> "tilt", orientation |-> "orientation"]
InputFields == {"x", "y", "time", "pressure", "tilt", "orientation"}

cEvent(e) == CASE e = "down" -> "ISM_EVENT_DOWN" [] e = "move" -> "ISM_EVENT_MOVE"
               [] e = "up" -> "ISM_EVENT_UP"
EventType(e) == CASE e = "ISM_EVENT_DOWN" -> "kDown" [] e = "ISM_EVENT_MOVE" -> "kMove"
                  [] e = "ISM_EVENT_UP" -> "kUp"

to_cpp_input(in) ==
  [event_type |-> EventType(in.event_type),
   fields |-> [f \in {"position_x", "position_y", "time", "pressure", "tilt", "orientation"} |->
                 in.fields[f]]]

\* Of a C++ Result.
ResultFields ==
  {"position_x", "position_y", "velocity_x", "velocity_y", "acceleration_x", "acceleration_y",
   "time", "pressure", "tilt", "orientation"}
from_cpp_result(r) == [f \in ResultFields |-> r[f]]

StrokeSample ==
  [x |-> "position_x", y |-> "position_y", vx |-> "velocity_x", vy |-> "velocity_y",
   ax |-> "acceleration_x", ay |-> "acceleration_y", time |-> "time",
   pressure |-> "pressure", tilt |-> "tilt", orientation |-> "orientation"]

-----------------------------------------------------------------------------
VARIABLES params,      \* the shim's C++ struct
          impl,        \* the core: its parameters, the last input and how many results
          asked,       \* history: the last request that did not throw
          sent, got    \* the last StrokeInput, and the samples that came back

fvars == <<params, impl, asked, sent, got>>

None == [kind |-> "none"]

FInit ==
  /\ params = StrokeModelParams
  /\ impl = [params |-> StrokeModelParams, input |-> None, results |-> <<>>]
  /\ asked = None /\ sent = None /\ got = <<>>

Valid(p) == \A v \in Refused : p.sampling["min_output_rate"] # <<"minOutputRate", v>>

resetFields(req) ==
  /\ params' = apply_fields(cp(req), params)
  /\ IF Valid(params')
       THEN impl' = [params |-> params', input |-> None, results |-> <<>>] /\ asked' = req
       ELSE UNCHANGED <<impl, asked>>
  /\ sent' = None /\ got' = <<>>

\* An input that the core accepts: results have names of their own, the number of the result
\* with them.
updateFields(event, v, n) ==
  /\ asked # None
  /\ LET results == [i \in 1 .. n |-> Struct(ResultFields, i)]
         in == [event_type |-> cEvent(event), fields |-> From(ism_Input, Struct(InputFields, v))]
     IN  /\ impl' = [impl EXCEPT !.input = to_cpp_input(in), !.results = results]
         /\ sent' = [kind |-> "input", eventType |-> event, version |-> v]
         /\ got' = [i \in 1 .. n |-> From(StrokeSample, from_cpp_result(results[i]))]
  /\ UNCHANGED <<params, asked>>

FNext ==
  \/ \E req \in Requests : resetFields(req)
  \/ \E event \in {"down", "move", "up"}, v \in Versions, n \in 0 .. MaxResults :
       updateFields(event, v, n)

FSpec == FInit /\ [][FNext]_fvars

-----------------------------------------------------------------------------
(* What a field of the application is called in the C++ structs.           *)

NameOf ==
  [isEnabled |-> "is_enabled", timeout |-> "timeout", speedFloor |-> "speed_floor",
   speedCeiling |-> "speed_ceiling", springMassConstant |-> "spring_mass_constant",
   dragConstant |-> "drag_constant", speedLowerBound |-> "speed_lower_bound",
   speedUpperBound |-> "speed_upper_bound",
   interpolationStrengthAtSpeedLowerBound |-> "interpolation_strength_at_speed_lower_bound",
   interpolationStrengthAtSpeedUpperBound |-> "interpolation_strength_at_speed_upper_bound",
   minSpeedSamplingWindow |-> "min_speed_sampling_window", minOutputRate |-> "min_output_rate",
   endOfStrokeStoppingDistance |-> "end_of_stroke_stopping_distance",
   endOfStrokeMaxIterations |-> "end_of_stroke_max_iterations",
   maxOutputsPerCall |-> "max_outputs_per_call",
   maxEstimatedAngleToTraversePerInput |-> "max_estimated_angle_to_traverse_per_input",
   useStrokeNormalProjection |-> "use_stroke_normal_projection",
   processNoise |-> "process_noise", measurementNoise |-> "measurement_noise",
   minStableIteration |-> "min_stable_iteration", maxTimeSamples |-> "max_time_samples",
   minCatchupVelocity |-> "min_catchup_velocity", accelerationWeight |-> "acceleration_weight",
   jerkWeight |-> "jerk_weight", predictionInterval |-> "prediction_interval",
   desiredNumberOfSamples |-> "desired_number_of_samples",
   maxEstimationDistance |-> "max_estimation_distance", minTravelSpeed |-> "min_travel_speed",
   maxTravelSpeed |-> "max_travel_speed", maxLinearDeviation |-> "max_linear_deviation",
   baselineLinearityConfidence |-> "baseline_linearity_confidence"]

Holds(cpp, fields, v) ==
  /\ DOMAIN cpp = {NameOf[f] : f \in fields}
  /\ \A f \in fields : cpp[NameOf[f]] = <<f, v>>

ParametersArrive ==
  asked # None =>
    LET p == impl.params IN
    /\ Holds(p.wobble, WobbleSmootherParams, asked.groups)
    /\ Holds(p.position, PositionModelerParams, asked.groups)
    /\ Holds(p.loop, LoopContractionMitigationParams, asked.groups)
    /\ Holds(p.sampling, SamplingParams, asked.sampling)
    /\ Holds(p.stylus_state, StylusStateModelerParams, asked.groups)
    /\ p.prediction.kind = asked.prediction.kind
    /\ p.prediction.kind = "kalman" =>
         /\ Holds(p.prediction.group, KalmanPredictorParams, asked.prediction.k)
         /\ Holds(p.prediction.confidence, KalmanConfidenceParams, asked.prediction.confidence)

\* What a field of an input is called in the C++ struct, and which of its fields a result gives
\* to each of a sample.
InputNameOf ==
  [x |-> "position_x", y |-> "position_y", time |-> "time", pressure |-> "pressure",
   tilt |-> "tilt", orientation |-> "orientation"]
SampleFields ==
  {<<"x", "position_x">>, <<"vx", "velocity_x">>, <<"ax", "acceleration_x">>,
   <<"y", "position_y">>, <<"vy", "velocity_y">>, <<"ay", "acceleration_y">>,
   <<"time", "time">>, <<"pressure", "pressure">>, <<"tilt", "tilt">>,
   <<"orientation", "orientation">>}

InputsAndSamplesArrive ==
  sent # None =>
    /\ impl.input.event_type = [down |-> "kDown", move |-> "kMove", up |-> "kUp"][sent.eventType]
    /\ \A f \in InputFields : impl.input.fields[InputNameOf[f]] = <<f, sent.version>>
    /\ Len(got) = Len(impl.results)
    /\ \A i \in DOMAIN got : \A f \in SampleFields : got[i][f[1]] = <<f[2], i>>

\* The core runs with the last request that did not throw, each field in its place: none is
\* swapped with another, none is left over from an earlier request, refused or not, and
\* Kalman values are those asked for. It sees the input that was sent, and each sample holds
\* its result's values, each where its name says.
EveryFieldArrives == ParametersArrive /\ InputsAndSamplesArrive
=============================================================================
