---------------------- MODULE StrokeModelerSession_proofs ----------------------
(***************************************************************************)
(* Proofs about StrokeModelerSession: what an application may rely on that *)
(* resets, draws, predicts, saves and restores in any order; and about     *)
(* StrokeModelerFields: that every field gets to its place.                *)
(***************************************************************************)
EXTENDS StrokeModelerSession, StrokeModelerFields, StrokeModelerLemmas

\* A save or restore keeps the core's parameters and serial.
LEMMA SaveFacts ==
  ASSUME NEW m \in ism_Modeler
  PROVE  /\ save(m) \in ism_Modeler
         /\ save(m).has_params = m.has_params
         /\ save(m).impl.params = m.impl.params
<1> DEFINE c == CoreSave(m.impl)
<1>1. m.impl \in Core
  BY DEF ism_Modeler
<1>2. c \in Core /\ c.params = m.impl.params
  <2>1. [stroke |-> m.impl.stroke] \in [stroke : Stroke \cup {Nil}]
    BY <1>1 DEF Core
  <2> DEFINE saved == [stroke |-> m.impl.stroke]
  <2>2. c = [m.impl EXCEPT !.saved = saved]
    BY DEF CoreSave
  <2> HIDE DEF c, saved
  <2>3. saved \in [stroke : Stroke \cup {Nil}]
    BY <2>1 DEF saved
  <2>4. QED
    BY <1>1, <2>2, <2>3 DEF Core
<1>3. save(m) = [m EXCEPT !.impl = c]
  BY DEF save, ism_modeler_save
<1> HIDE DEF c
<1>4. QED
  BY <1>2, <1>3 DEF ism_Modeler

LEMMA RestoreFacts ==
  ASSUME NEW m \in ism_Modeler
  PROVE  /\ restore(m) \in ism_Modeler
         /\ restore(m).has_params = m.has_params
         /\ restore(m).impl.params = m.impl.params
<1> DEFINE c == CoreRestore(m.impl)
<1>1. m.impl \in Core
  BY DEF ism_Modeler
<1>2. c \in Core /\ c.params = m.impl.params
  <2>1. CASE m.impl.saved = Nil
    BY <1>1, <2>1 DEF CoreRestore
  <2>2. CASE m.impl.saved # Nil
    <3>1. m.impl.saved.stroke \in Stroke \cup {Nil}
      BY <1>1, <2>2 DEF Core
    <3>2. c = [m.impl EXCEPT !.stroke = m.impl.saved.stroke]
      BY <2>2 DEF CoreRestore
    <3> HIDE DEF c
    <3>3. QED
      BY <1>1, <3>1, <3>2 DEF Core
  <2>3. QED
    BY <2>1, <2>2
<1>3. restore(m) = [m EXCEPT !.impl = c]
  BY DEF restore, ism_modeler_restore
<1> HIDE DEF c
<1>4. QED
  BY <1>2, <1>3 DEF ism_Modeler

\* The invariant is inductive as it stands: has_params and the parameters of the
\* core change together, and the samples returned belong to the last call.
Inv == TypeOK /\ CoreRunsRequestedParams /\ SamplesAreGenuine

\* A call that returns no samples.
LEMMA EmptyReturn ==
  ASSUME NEW call \in Calls, NEW err \in StrokeModelerError \cup {"none"},
         Returns(call, err)
  PROVE  ret' \in Return /\ SamplesAreGenuine'
<1>1. <<>> \in Seq(Sample)
  OBVIOUS
<1>2. ret' = [call |-> call, err |-> err, produced |-> 0, max |-> 0, samples |-> <<>>]
  BY DEF Returns
<1>3. ret' \in Return
  BY <1>1, <1>2 DEF Return
<1>4. SamplesAreGenuine'
  BY <1>2 DEF SamplesAreGenuine, Least
<1>5. QED
  BY <1>3, <1>4

LEMMA InvInit == Init => Inv
<1> SUFFICES ASSUME Init PROVE Inv
  OBVIOUS
<1>1. modeler \in ism_Modeler
  BY CreateType DEF Init
<1>2. <<>> \in Seq(Sample)
  OBVIOUS
<1>3. ret \in Return
  BY <1>2 DEF Init, Return, Calls
<1>4. CoreRunsRequestedParams
  BY DEF Init, CoreRunsRequestedParams, ism_modeler_create, NewCore
<1>5. SamplesAreGenuine
  BY DEF Init, SamplesAreGenuine, Least
<1>6. QED
  BY <1>1, <1>3, <1>4, <1>5 DEF Init, Inv, TypeOK

LEMMA ResetWithSafe ==
  ASSUME Inv, NEW req \in Request, ResetWith(req)
  PROVE  Inv'
<1> DEFINE r == resetWith(modeler, req)
<1>1. modeler \in ism_Modeler
  BY DEF Inv, TypeOK
<1>2. /\ r.m \in ism_Modeler
      /\ r.err \in {"none", "invalidArgument"}
      /\ r.err # "none" => r.m.impl = modeler.impl /\ r.m.has_params = modeler.has_params
      /\ r.err = "none" =>
           /\ r.m.impl = [modeler.impl EXCEPT !.params = Wanted(req), !.stroke = Nil,
                                              !.saved = Nil]
           /\ r.m.has_params = TRUE
  BY <1>1, ResetWithFacts
<1>3. /\ modeler' = r.m
      /\ Returns("resetWith", r.err)
      /\ requested' = IF r.err = "none" THEN req ELSE requested
  BY DEF ResetWith
<1>4. r.err \in StrokeModelerError \cup {"none"}
  BY <1>2 DEF StrokeModelerError
<1> HIDE DEF r
<1>5. ret' \in Return /\ SamplesAreGenuine'
  BY <1>3, <1>4, EmptyReturn DEF Calls
<1>6. TypeOK'
  BY <1>2, <1>3, <1>5 DEF Inv, TypeOK
<1>7. CASE r.err = "none"
  <2>1. r.m.impl.params = Wanted(req)
    <3>1. modeler.impl \in Core
      BY <1>1 DEF ism_Modeler
    <3>2. QED
      BY <1>2, <1>7, <3>1 DEF Core
  <2>2. CoreRunsRequestedParams'
    BY <1>2, <1>3, <1>7, <2>1, SessionAssumption DEF CoreRunsRequestedParams
  <2>3. QED
    BY <1>5, <1>6, <2>2 DEF Inv
<1>8. CASE r.err # "none"
  <2>1. CoreRunsRequestedParams'
    BY <1>2, <1>3, <1>8 DEF Inv, CoreRunsRequestedParams
  <2>2. QED
    BY <1>5, <1>6, <2>1 DEF Inv
<1>9. QED
  BY <1>7, <1>8

LEMMA ResetSafe ==
  ASSUME Inv, Reset
  PROVE  Inv'
<1> DEFINE r == reset(modeler)
           fresh == [modeler.impl EXCEPT !.stroke = Nil, !.saved = Nil]
<1>1. modeler \in ism_Modeler /\ modeler.impl \in Core
  BY DEF Inv, TypeOK, ism_Modeler
<1>2. fresh \in Core /\ fresh.params = modeler.impl.params
  BY <1>1 DEF Core
<1>3. modeler' = r.m /\ Returns("reset", r.err) /\ UNCHANGED requested
  BY DEF Reset
<1> HIDE DEF fresh
<1>4. /\ r.m \in ism_Modeler
      /\ r.err \in StrokeModelerError \cup {"none"}
      /\ r.m.has_params = modeler.has_params
      /\ r.m.impl.params = modeler.impl.params
  <2>1. \/ r.err = "failedPrecondition" /\ r.m = modeler
        \/ r.err = "none" /\ r.m = [modeler EXCEPT !.impl = fresh]
    BY <1>1, ResetFacts DEF fresh
  <2> HIDE DEF r
  <2>2. QED
    BY <1>1, <1>2, <2>1 DEF ism_Modeler, StrokeModelerError
<1> HIDE DEF r
<1>5. ret' \in Return /\ SamplesAreGenuine'
  BY <1>3, <1>4, EmptyReturn DEF Calls
<1>6. TypeOK' /\ CoreRunsRequestedParams'
  BY <1>3, <1>4, <1>5 DEF Inv, TypeOK, CoreRunsRequestedParams
<1>7. QED
  BY <1>5, <1>6 DEF Inv

LEMMA UpdateSafe ==
  ASSUME Inv, NEW in \in Input, Update(in)
  PROVE  Inv'
<1>1. modeler \in ism_Modeler /\ modeler.impl \in Core
  BY DEF Inv, TypeOK, ism_Modeler
<1>2. PICK u \in update(modeler, in) :
        modeler' = u.m /\ ReturnsSamples("update", u, Capacity)
  BY DEF Update
<1>3. UNCHANGED requested
  BY DEF Update
<1>4. ret' = [call |-> "update", err |-> u.err, produced |-> u.produced,
              max |-> Capacity, samples |-> u.samples]
  BY <1>2 DEF ReturnsSamples
<1>5. u.m \in ism_Modeler /\ u.samples \in Seq(Sample) /\ u.produced \in Nat
  BY <1>1, UpdateFacts
<1>6. CASE /\ u.err \in StrokeModelerError /\ u.m = modeler
           /\ u.samples = <<>> /\ u.produced = 0
  <2>1. ret' \in Return
    BY <1>4, <1>5, <1>6, CapacityAssumption DEF Return, Calls
  <2>2. SamplesAreGenuine'
    BY <1>4, <1>6, CapacityAssumption DEF SamplesAreGenuine, Least
  <2>3. QED
    BY <1>2, <1>3, <1>6, <2>1, <2>2 DEF Inv, TypeOK, CoreRunsRequestedParams
<1>7. CASE /\ u.err = "none" /\ Accepts(modeler.impl, in)
           /\ u.m = [modeler EXCEPT !.impl = AfterInput(modeler.impl, in)]
           /\ Len(u.samples) = Least(u.produced, Capacity)
           /\ \A i \in 1 .. Len(u.samples) :
                u.samples[i] = [stroke |-> DownOf(modeler.impl, in),
                                call |-> modeler.impl.serial + 1,
                                k |-> i, toward |-> in.position]
  <2>1. ret' \in Return
    BY <1>4, <1>5, <1>7, CapacityAssumption DEF Return, Calls
  <2>2. /\ AfterInput(modeler.impl, in).serial = modeler.impl.serial + 1
        /\ AfterInput(modeler.impl, in).params = modeler.impl.params
    BY <1>1 DEF AfterInput, Core
  <2>3. /\ modeler'.impl = AfterInput(modeler.impl, in)
        /\ modeler'.has_params = modeler.has_params
    BY <1>1, <1>2, <1>7 DEF ism_Modeler
  <2>4. SamplesAreGenuine'
    <3>1. ret'.samples = u.samples /\ ret'.produced = u.produced /\ ret'.max = Capacity
      BY <1>4
    <3>2. modeler'.impl.serial = modeler.impl.serial + 1
      BY <2>2, <2>3
    <3>3. \A i \in 1 .. Len(u.samples) :
            u.samples[i].k = i /\ u.samples[i].call = modeler.impl.serial + 1
      <4> TAKE i \in 1 .. Len(u.samples)
      <4>1. u.samples[i] = [stroke |-> DownOf(modeler.impl, in),
                            call |-> modeler.impl.serial + 1,
                            k |-> i, toward |-> in.position]
        BY <1>7
      <4>2. QED
        BY <4>1
    <3>4. QED
      BY <1>7, <3>1, <3>2, <3>3 DEF SamplesAreGenuine
  <2>5. CoreRunsRequestedParams'
    BY <1>3, <2>2, <2>3 DEF Inv, CoreRunsRequestedParams
  <2>6. TypeOK'
    BY <1>2, <1>3, <1>5, <2>1 DEF Inv, TypeOK
  <2>7. QED
    BY <2>4, <2>5, <2>6 DEF Inv
<1>8. QED
  BY <1>1, <1>6, <1>7, UpdateFacts

LEMMA PredictSafe ==
  ASSUME Inv, NEW max \in PredictSizes, Predict(max)
  PROVE  Inv'
<1>1. modeler \in ism_Modeler /\ max \in Nat
  BY SessionAssumption DEF Inv, TypeOK
<1>2. PICK o \in predict(modeler, max) : ReturnsSamples("predict", o, max)
  BY DEF Predict
<1>3. UNCHANGED <<modeler, requested>>
  BY DEF Predict
<1>4. /\ o.err \in StrokeModelerError \cup {"none"}
      /\ o.produced \in Nat /\ o.samples \in Seq(Sample)
      /\ Len(o.samples) = Least(o.produced, max)
      /\ \A i \in 1 .. Len(o.samples) :
           o.samples[i].call = modeler.impl.serial /\ o.samples[i].k = i
  BY <1>1, PredictFacts
<1>5. ret' = [call |-> "predict", err |-> o.err, produced |-> o.produced,
              max |-> max, samples |-> o.samples]
  BY <1>2 DEF ReturnsSamples
<1>6. ret' \in Return
  BY <1>1, <1>4, <1>5 DEF Return, Calls
<1>7. SamplesAreGenuine'
  BY <1>3, <1>4, <1>5 DEF SamplesAreGenuine
<1>8. QED
  BY <1>3, <1>6, <1>7 DEF Inv, TypeOK, CoreRunsRequestedParams

LEMMA InvStep == Inv /\ [Next]_vars => Inv'
<1> SUFFICES ASSUME Inv, [Next]_vars PROVE Inv'
  OBVIOUS
<1>1. ASSUME Save PROVE Inv'
  <2>1. Returns("save", "none") /\ UNCHANGED requested /\ modeler' = save(modeler)
    BY <1>1 DEF Save
  <2>2. ret' \in Return /\ SamplesAreGenuine'
    BY <2>1, EmptyReturn DEF Calls
  <2>3. QED
    BY <2>1, <2>2, SaveFacts DEF Inv, TypeOK, CoreRunsRequestedParams
<1>2. ASSUME Restore PROVE Inv'
  <2>1. Returns("restore", "none") /\ UNCHANGED requested /\ modeler' = restore(modeler)
    BY <1>2 DEF Restore
  <2>2. ret' \in Return /\ SamplesAreGenuine'
    BY <2>1, EmptyReturn DEF Calls
  <2>3. QED
    BY <2>1, <2>2, RestoreFacts DEF Inv, TypeOK, CoreRunsRequestedParams
<1>3. CASE UNCHANGED vars
  BY <1>3 DEF vars, Inv, TypeOK, CoreRunsRequestedParams, SamplesAreGenuine
<1>4. QED
  BY <1>1, <1>2, <1>3, ResetWithSafe, ResetSafe, UpdateSafe, PredictSafe DEF Next

\* In every session, for all parameters, inputs, buffer sizes and outcomes of the
\* core: the types are right, the core runs with the parameters of the last reset
\* that did not throw, and the samples returned are the beginning of what the
\* core produced in that call.
THEOREM Invariance == Spec => []Inv
BY InvInit, InvStep, PTL DEF Spec

\* Every reachable state of a session is well typed.
THEOREM TypeCorrect == Spec => []TypeOK
<1>1. Inv => TypeOK
  BY DEF Inv
<1>2. QED
  BY <1>1, Invariance, PTL

\* The core never runs with parameters that were refused, nor with those of an
\* earlier reset after a later one returned.
THEOREM RequestedParamsRun == Spec => []CoreRunsRequestedParams
<1>1. Inv => CoreRunsRequestedParams
  BY DEF Inv
<1>2. QED
  BY <1>1, Invariance, PTL

\* update and predict return no zeroed entry of their buffer, leave no gap, and
\* return everything that fits.
THEOREM GenuineSamples == Spec => []SamplesAreGenuine
<1>1. Inv => SamplesAreGenuine
  BY DEF Inv
<1>2. QED
  BY <1>1, Invariance, PTL

LEMMA ThrowStep == Inv /\ [Next]_vars => [ret'.err # "none" => modeler'.impl = modeler.impl]_vars
<1> SUFFICES ASSUME Inv, Next, ret'.err # "none"
             PROVE  modeler'.impl = modeler.impl
  OBVIOUS
<1>1. modeler \in ism_Modeler
  BY DEF Inv, TypeOK
<1>2. ASSUME NEW req \in Request, ResetWith(req) PROVE modeler'.impl = modeler.impl
  <2> DEFINE r == resetWith(modeler, req)
  <2>1. modeler' = r.m /\ r.err # "none"
    BY <1>2 DEF ResetWith, Returns
  <2>2. QED
    BY <1>1, <2>1, ResetWithFacts
<1>3. ASSUME Reset PROVE modeler'.impl = modeler.impl
  <2> DEFINE r == reset(modeler)
  <2>1. modeler' = r.m /\ r.err # "none"
    BY <1>3 DEF Reset, Returns
  <2>2. QED
    BY <1>1, <2>1, ResetFacts
<1>4. ASSUME NEW in \in Input, Update(in) PROVE modeler'.impl = modeler.impl
  <2>1. PICK u \in update(modeler, in) : modeler' = u.m /\ u.err # "none"
    BY <1>4 DEF Update, ReturnsSamples
  <2>2. u.err = "none" \/ u.m = modeler
    BY <1>1, UpdateThrows
  <2>3. QED
    BY <2>1, <2>2
<1>5. ASSUME NEW max \in PredictSizes, Predict(max) PROVE modeler'.impl = modeler.impl
  BY <1>5 DEF Predict
<1>6. ~Save /\ ~Restore
  BY DEF Save, Restore, Returns
<1>7. QED
  BY <1>2, <1>3, <1>4, <1>5, <1>6 DEF Next

\* Whatever call throws, the stroke, the saved state and the parameters of the
\* core are those of before the call.
THEOREM ThrowsAreHarmless == Spec => ThrowKeepsCore
BY ThrowStep, Invariance, PTL DEF Spec, ThrowKeepsCore

\* reset with parameters throws exactly if a group in use is unacceptable.
THEOREM ResetVerdict == Spec => ResetThrowsOnlyOnBadRequest
<1> DEFINE Verdict == ret'.call = "resetWith" => \A req \in Request : ResetWith(req) =>
                        ret'.err = IF {req.motion, req.sampling,
                                       WantedPredictor(req.prediction)} \cap Rejected = {}
                                   THEN "none" ELSE "invalidArgument"
<1>1. Inv => Verdict
  <2> SUFFICES ASSUME Inv, NEW req \in Request, ResetWith(req)
               PROVE  ret'.err = IF {req.motion, req.sampling,
                                     WantedPredictor(req.prediction)} \cap Rejected = {}
                                 THEN "none" ELSE "invalidArgument"
    OBVIOUS
  <2> DEFINE r == resetWith(modeler, req)
  <2>1. ret'.err = r.err
    BY DEF ResetWith, Returns
  <2>2. r.err = IF ValidateStrokeModelParams(Wanted(req)) = "kOk" THEN "none"
                ELSE "invalidArgument"
    BY ResetWithFacts DEF Inv, TypeOK
  <2> HIDE DEF r
  <2>3. QED
    BY <2>1, <2>2 DEF ValidateStrokeModelParams, Wanted
<1> HIDE DEF Verdict
<1>2. Inv /\ [Next]_vars => [Verdict]_vars
  BY <1>1
<1>3. QED
  BY <1>2, Invariance, PTL DEF Spec, ResetThrowsOnlyOnBadRequest, Verdict

-----------------------------------------------------------------------------
(* Every field arrives, for every set of versions, whichever are refused,  *)
(* and any number of results. Values may be copied over older ones: the    *)
(* structs that are written to keep the fields they had, and the table of  *)
(* each struct and the list of assignments to it name these and no others. *)

\* The table of a struct says for each field of the C++ struct which one of the application
\* goes there; all of them are assigned.
Agree(table, fields, copied) ==
  /\ DOMAIN table = {NameOf[f] : f \in fields}
  /\ \A f \in fields : table[NameOf[f]] = f
  /\ copied = DOMAIN table

\* wobble_smoother_params.
LEMMA WobbleAgrees == Agree(ism_WobbleSmootherParams, WobbleSmootherParams, WobbleCopied)
  BY DEF Agree, ism_WobbleSmootherParams, WobbleSmootherParams, WobbleCopied, NameOf

\* position_modeler_params.
LEMMA PositionAgrees ==
  Agree(ism_PositionModelerParams, PositionModelerParams, PositionCopied)
  BY DEF Agree, ism_PositionModelerParams, PositionModelerParams, PositionCopied, NameOf

\* loop_contraction_mitigation_params.
LEMMA LoopAgrees ==
  Agree(ism_LoopContractionMitigationParameters, LoopContractionMitigationParams, LoopCopied)
  BY DEF Agree, ism_LoopContractionMitigationParameters, LoopContractionMitigationParams,
         LoopCopied, NameOf

\* sampling_params.
LEMMA SamplingAgrees == Agree(ism_SamplingParams, SamplingParams, SamplingCopied)
  BY DEF Agree, ism_SamplingParams, SamplingParams, SamplingCopied, NameOf

\* stylus_state_modeler_params.
LEMMA StylusAgrees ==
  Agree(ism_StylusStateModelerParams, StylusStateModelerParams, StylusCopied)
  BY DEF Agree, ism_StylusStateModelerParams, StylusStateModelerParams, StylusCopied, NameOf

\* KalmanPredictorParams.
LEMMA KalmanAgrees == Agree(ism_KalmanPredictorParams, KalmanPredictorParams, KalmanCopied)
  BY DEF Agree, ism_KalmanPredictorParams, KalmanPredictorParams, KalmanCopied, NameOf

\* KalmanPredictorParams::ConfidenceParams.
LEMMA ConfidenceAgrees ==
  Agree(ism_KalmanConfidenceParams, KalmanConfidenceParams, ConfidenceCopied)
  BY DEF Agree, ism_KalmanConfidenceParams, KalmanConfidenceParams, ConfidenceCopied, NameOf

\* What the application has put into a struct is in the C++ struct afterwards, whatever that
\* held before.
LEMMA Copying ==
  ASSUME NEW table, NEW fields, NEW copied, NEW out, NEW v,
         Agree(table, fields, copied), DOMAIN out = DOMAIN table
  PROVE  /\ Holds(Assign(out, From(table, Struct(fields, v)), copied), fields, v)
         /\ DOMAIN Assign(out, From(table, Struct(fields, v)), copied) = DOMAIN table
<1>1. \A f \in fields : NameOf[f] \in DOMAIN table /\ table[NameOf[f]] = f
  BY DEF Agree
<1>2. \A f \in fields : From(table, Struct(fields, v))[NameOf[f]] = <<f, v>>
  BY <1>1 DEF From, Struct
<1>3. \A f \in fields :
        Assign(out, From(table, Struct(fields, v)), copied)[NameOf[f]] = <<f, v>>
  BY <1>1, <1>2 DEF Assign, Agree
<1> QED BY <1>3 DEF Holds, Assign, Agree

-----------------------------------------------------------------------------
(* The invariant: the shim's struct has the fields of the tables.          *)

FieldNames ==
  /\ DOMAIN params.wobble = DOMAIN ism_WobbleSmootherParams
  /\ DOMAIN params.position = DOMAIN ism_PositionModelerParams
  /\ DOMAIN params.loop = DOMAIN ism_LoopContractionMitigationParameters
  /\ DOMAIN params.sampling = DOMAIN ism_SamplingParams
  /\ DOMAIN params.stylus_state = DOMAIN ism_StylusStateModelerParams

FieldsInv == FieldNames /\ DOMAIN impl = {"params", "input", "results"} /\ EveryFieldArrives

\* The shim's struct is a default one at first.
LEMMA FieldsBegin == FInit => FieldsInv
<1> SUFFICES ASSUME FInit PROVE FieldsInv OBVIOUS
<1>1. FieldNames BY DEF FInit, FieldNames, StrokeModelParams, Default
<1>2. ParametersArrive BY DEF FInit, ParametersArrive
<1>3. InputsAndSamplesArrive BY DEF FInit, InputsAndSamplesArrive
<1>4. DOMAIN impl = {"params", "input", "results"} BY DEF FInit
<1> QED BY <1>1, <1>2, <1>3, <1>4 DEF FieldsInv, EveryFieldArrives

\* A Kalman predictor gets its parameters, and those of its confidence.
LEMMA PredictionArrives ==
  ASSUME NEW p, p.kind = "kalman"
  PROVE  LET q == Predictor([kind |-> p.kind, kalman |-> Kalman(p)]) IN
         /\ q.kind = "kalman"
         /\ Holds(q.group, KalmanPredictorParams, p.k)
         /\ Holds(q.confidence, KalmanConfidenceParams, p.confidence)
<1> DEFINE group == From(ism_KalmanPredictorParams, Struct(KalmanPredictorParams, p.k))
           confidence == From(ism_KalmanConfidenceParams,
                              Struct(KalmanConfidenceParams, p.confidence))
           q == Predictor([kind |-> p.kind, kalman |-> Kalman(p)])
<1>1. Kalman(p) = [group |-> group, confidence |-> confidence] BY DEF Kalman
<1>2. /\ q.kind = "kalman"
      /\ q.group = Assign(Default(ism_KalmanPredictorParams), group, KalmanCopied)
      /\ q.confidence = Assign(Default(ism_KalmanConfidenceParams), confidence,
                                 ConfidenceCopied)
  <2> HIDE DEF group, confidence
  <2> QED BY <1>1 DEF Predictor
<1>3. DOMAIN Default(ism_KalmanPredictorParams) = DOMAIN ism_KalmanPredictorParams
  BY DEF Default
<1>4. DOMAIN Default(ism_KalmanConfidenceParams) = DOMAIN ism_KalmanConfidenceParams
  BY DEF Default
<1>5. Holds(q.group, KalmanPredictorParams, p.k)
  BY <1>2, <1>3, Copying, KalmanAgrees
<1>6. Holds(q.confidence, KalmanConfidenceParams, p.confidence)
  BY <1>2, <1>4, Copying, ConfidenceAgrees
<1> QED BY <1>2, <1>5, <1>6

\* What is written over the shim's struct is what was asked for, group by group.
LEMMA ResetWrites ==
  ASSUME FieldNames, NEW req \in Requests, params' = apply_fields(cp(req), params)
  PROVE  /\ FieldNames'
         /\ Holds(params'.wobble, WobbleSmootherParams, req.groups)
         /\ Holds(params'.position, PositionModelerParams, req.groups)
         /\ Holds(params'.loop, LoopContractionMitigationParams, req.groups)
         /\ Holds(params'.sampling, SamplingParams, req.sampling)
         /\ Holds(params'.stylus_state, StylusStateModelerParams, req.groups)
         /\ params'.prediction = Predictor([kind |-> req.prediction.kind,
                                            kalman |-> Kalman(req.prediction)])
<1> DEFINE wobble == Assign(params.wobble, From(ism_WobbleSmootherParams,
                       Struct(WobbleSmootherParams, req.groups)), WobbleCopied)
           position == Assign(params.position, From(ism_PositionModelerParams,
                       Struct(PositionModelerParams, req.groups)), PositionCopied)
           loop == Assign(params.loop, From(ism_LoopContractionMitigationParameters,
                       Struct(LoopContractionMitigationParams, req.groups)), LoopCopied)
           sampling == Assign(params.sampling, From(ism_SamplingParams,
                       Struct(SamplingParams, req.sampling)), SamplingCopied)
           stylus == Assign(params.stylus_state, From(ism_StylusStateModelerParams,
                       Struct(StylusStateModelerParams, req.groups)), StylusCopied)
           prediction == Predictor([kind |-> req.prediction.kind,
                                    kalman |-> Kalman(req.prediction)])
<1>1. params' = [wobble |-> wobble, position |-> position, loop |-> loop,
                 sampling |-> sampling, stylus_state |-> stylus, prediction |-> prediction]
  BY DEF apply_fields, cp
<1>2. /\ Holds(wobble, WobbleSmootherParams, req.groups)
      /\ DOMAIN wobble = DOMAIN ism_WobbleSmootherParams
  BY Copying, WobbleAgrees DEF FieldNames
<1>3. /\ Holds(position, PositionModelerParams, req.groups)
      /\ DOMAIN position = DOMAIN ism_PositionModelerParams
  BY Copying, PositionAgrees DEF FieldNames
<1>4. /\ Holds(loop, LoopContractionMitigationParams, req.groups)
      /\ DOMAIN loop = DOMAIN ism_LoopContractionMitigationParameters
  BY Copying, LoopAgrees DEF FieldNames
<1>5. /\ Holds(sampling, SamplingParams, req.sampling)
      /\ DOMAIN sampling = DOMAIN ism_SamplingParams
  BY Copying, SamplingAgrees DEF FieldNames
<1>6. /\ Holds(stylus, StylusStateModelerParams, req.groups)
      /\ DOMAIN stylus = DOMAIN ism_StylusStateModelerParams
  BY Copying, StylusAgrees DEF FieldNames
<1> HIDE DEF wobble, position, loop, sampling, stylus, prediction
<1>7. /\ params'.wobble = wobble /\ params'.position = position /\ params'.loop = loop
      /\ params'.sampling = sampling /\ params'.stylus_state = stylus
      /\ params'.prediction = prediction
  BY <1>1
<1>8. FieldNames' BY <1>2, <1>3, <1>4, <1>5, <1>6, <1>7 DEF FieldNames
<1> QED BY <1>2, <1>3, <1>4, <1>5, <1>6, <1>7, <1>8 DEF prediction

\* A reset: the core gets the shim's struct if that is valid, and nothing otherwise.
LEMMA ResetArrives ==
  ASSUME FieldsInv, NEW req \in Requests, resetFields(req)
  PROVE  FieldsInv'
<1>1. params' = apply_fields(cp(req), params) /\ sent' = None BY DEF resetFields
<1>2. FieldNames BY DEF FieldsInv
<1>3. FieldNames' BY <1>1, <1>2, ResetWrites
<1>4. CASE Valid(params')
  <2>1. /\ impl'.params = params' /\ asked' = req
        /\ DOMAIN impl' = {"params", "input", "results"}
    BY <1>4 DEF resetFields
  <2>2. /\ Holds(params'.wobble, WobbleSmootherParams, req.groups)
        /\ Holds(params'.position, PositionModelerParams, req.groups)
        /\ Holds(params'.loop, LoopContractionMitigationParams, req.groups)
        /\ Holds(params'.sampling, SamplingParams, req.sampling)
        /\ Holds(params'.stylus_state, StylusStateModelerParams, req.groups)
        /\ params'.prediction = Predictor([kind |-> req.prediction.kind,
                                           kalman |-> Kalman(req.prediction)])
    BY <1>1, <1>2, ResetWrites
  <2>3. params'.prediction.kind = req.prediction.kind BY <2>2 DEF Predictor
  <2>4. params'.prediction.kind = "kalman" =>
          /\ Holds(params'.prediction.group, KalmanPredictorParams, req.prediction.k)
          /\ Holds(params'.prediction.confidence, KalmanConfidenceParams,
                   req.prediction.confidence)
    BY <2>2, <2>3, PredictionArrives
  <2>5. ParametersArrive' BY <2>1, <2>2, <2>3, <2>4 DEF ParametersArrive
  <2> QED BY <1>1, <1>3, <2>1, <2>5 DEF FieldsInv, EveryFieldArrives, InputsAndSamplesArrive
<1>5. CASE ~Valid(params')
  <2>1. UNCHANGED <<impl, asked>> BY <1>5 DEF resetFields
  <2>2. ParametersArrive' BY <2>1 DEF FieldsInv, EveryFieldArrives, ParametersArrive
  <2> QED BY <1>1, <1>3, <2>1, <2>2 DEF FieldsInv, EveryFieldArrives, InputsAndSamplesArrive
<1> QED BY <1>4, <1>5

\* An update: the input on its way in, and the samples on their way back.
LEMMA UpdateArrives ==
  ASSUME FieldsInv, NEW event \in {"down", "move", "up"}, NEW v \in Versions,
         NEW n \in 0 .. MaxResults, updateFields(event, v, n)
  PROVE  FieldsInv'
<1> DEFINE results == [i \in 1 .. n |-> Struct(ResultFields, i)]
           in == [event_type |-> cEvent(event),
                  fields |-> From(ism_Input, Struct(InputFields, v))]
<1>1. /\ impl' = [impl EXCEPT !.input = to_cpp_input(in), !.results = results]
      /\ sent' = [kind |-> "input", eventType |-> event, version |-> v]
      /\ got' = [i \in 1 .. n |-> From(StrokeSample, from_cpp_result(results[i]))]
      /\ UNCHANGED <<params, asked>>
  BY DEF updateFields
<1>2. FieldNames' /\ DOMAIN impl' = {"params", "input", "results"} BY <1>1 DEF FieldsInv, FieldNames
<1>3. impl'.params = impl.params /\ impl'.input = to_cpp_input(in) /\ impl'.results = results
  <2> HIDE DEF results, in
  <2> QED BY <1>1 DEF FieldsInv
<1>4. ParametersArrive' BY <1>1, <1>3 DEF FieldsInv, EveryFieldArrives, ParametersArrive
<1>5. to_cpp_input(in).event_type
        = [down |-> "kDown", move |-> "kMove", up |-> "kUp"][event]
  BY DEF to_cpp_input, EventType, cEvent
<1>6. \A f \in InputFields : to_cpp_input(in).fields[InputNameOf[f]] = <<f, v>>
  BY DEF to_cpp_input, From, ism_Input, Struct, InputFields, InputNameOf
<1>7. \A i \in 1 .. n : \A f \in SampleFields :
        From(StrokeSample, from_cpp_result(results[i]))[f[1]] = <<f[2], i>>
  <2> SUFFICES ASSUME NEW i \in 1 .. n
               PROVE  \A f \in SampleFields :
                        From(StrokeSample, from_cpp_result(results[i]))[f[1]] = <<f[2], i>>
    OBVIOUS
  <2>1. \A c \in ResultFields : from_cpp_result(results[i])[c] = <<c, i>>
    BY DEF from_cpp_result, Struct
  <2>2. \A s \in DOMAIN StrokeSample : StrokeSample[s] \in ResultFields
    BY DEF StrokeSample, ResultFields
  <2>3. \A s \in DOMAIN StrokeSample :
          From(StrokeSample, from_cpp_result(results[i]))[s] = <<StrokeSample[s], i>>
    BY <2>1, <2>2 DEF From
  <2>4. \A f \in SampleFields : f[1] \in DOMAIN StrokeSample /\ StrokeSample[f[1]] = f[2]
    BY DEF SampleFields, StrokeSample
  <2> QED BY <2>3, <2>4
<1>8. n \in Nat OBVIOUS
<1>9. /\ Len(got') = n /\ DOMAIN got' = 1 .. n
      /\ \A i \in 1 .. n : got'[i] = From(StrokeSample, from_cpp_result(results[i]))
  <2> HIDE DEF results
  <2> QED BY <1>1, <1>8
<1>10. Len(impl'.results) = n BY <1>3, <1>8
<1>11. sent'.eventType = event /\ sent'.version = v BY <1>1
<1>12. InputsAndSamplesArrive'
  <2> HIDE DEF results, in
  <2> QED BY <1>3, <1>5, <1>6, <1>7, <1>9, <1>10, <1>11 DEF InputsAndSamplesArrive
<1> QED BY <1>2, <1>4, <1>12 DEF FieldsInv, EveryFieldArrives

\* Every call keeps the invariant.
LEMMA FieldsKeep == FieldsInv /\ [FNext]_fvars => FieldsInv'
<1> SUFFICES ASSUME FieldsInv, [FNext]_fvars PROVE FieldsInv' OBVIOUS
<1>1. CASE \E req \in Requests : resetFields(req) BY <1>1, ResetArrives
<1>2. CASE \E event \in {"down", "move", "up"}, v \in Versions, n \in 0 .. MaxResults :
             updateFields(event, v, n)
  BY <1>2, UpdateArrives
<1>3. CASE UNCHANGED fvars
  <2>1. ParametersArrive' BY <1>3 DEF fvars, FieldsInv, EveryFieldArrives, ParametersArrive
  <2>2. InputsAndSamplesArrive'
    BY <1>3 DEF fvars, FieldsInv, EveryFieldArrives, InputsAndSamplesArrive
  <2> QED BY <1>3, <2>1, <2>2 DEF fvars, FieldsInv, FieldNames, EveryFieldArrives
<1> QED BY <1>1, <1>2, <1>3 DEF FNext

\* Parameters, inputs and samples arrive field by field, whatever was copied before
\* (StrokeModeler.reset, apply_params_defaults, to_cpp_input, from_cpp_result).
THEOREM FieldsArrive == FSpec => []EveryFieldArrives
<1>1. FieldsInv => EveryFieldArrives BY DEF FieldsInv
<1> QED BY <1>1, FieldsBegin, FieldsKeep, PTL DEF FSpec
================================================================================
