--------------------------- MODULE StrokeModelerLemmas ---------------------------
(***************************************************************************)
(* What the methods of StrokeModeler return, for every value of the        *)
(* constants: the facts about core, shim and Swift class that the theorems *)
(* about sessions and about the path smoother rest on.                     *)
(***************************************************************************)
EXTENDS StrokeModeler, TLAPS

\* A default-constructed ism_Modeler is well formed.
LEMMA CreateType == ism_modeler_create \in ism_Modeler
BY CoreAssumption
   DEF ism_modeler_create, ism_Modeler, NewCore, Core, Params, LibraryDefaults

\* An accepted input leaves a well-formed core and yields samples.
LEMMA AcceptedInput ==
  ASSUME NEW c \in Core, NEW in \in Input, Accepts(c, in), NEW n \in 0 .. MaxOutputs
  PROVE  /\ DownOf(c, in) \in Nat
         /\ AfterInput(c, in) \in Core
         /\ Results(c, in, n) \in Seq(Sample)
         /\ Len(Results(c, in, n)) = n
<1>1. DownOf(c, in) \in Nat
  BY NilAssumption DEF DownOf, Accepts, OutOfOrder, Core, Stroke, Input, Events
<1>2. AfterInput(c, in) \in Core
  <2>1. [down |-> DownOf(c, in), last |-> in] \in Stroke
    BY <1>1 DEF Stroke
  <2> DEFINE st == IF in.event_type = "up" THEN Nil
                   ELSE [down |-> DownOf(c, in), last |-> in]
  <2>2. st \in Stroke \cup {Nil}
    BY <2>1
  <2>3. AfterInput(c, in) = [c EXCEPT !.serial = c.serial + 1, !.stroke = st]
    BY DEF AfterInput
  <2> HIDE DEF st
  <2>4. c.serial + 1 \in Nat
    BY DEF Core
  <2>5. QED
    BY <2>2, <2>3, <2>4 DEF Core
<1>3. \A i \in 1 .. n : [stroke |-> DownOf(c, in), call |-> c.serial + 1, k |-> i,
                         toward |-> in.position] \in Sample
  BY <1>1 DEF Sample, Core, Input
<1>4. n \in Nat
  BY CoreAssumption
<1>5. QED
  BY <1>1, <1>2, <1>3, <1>4 DEF Results

\* Every outcome of the core's Update is a refusal that changes nothing or the
\* acceptance of the input.
LEMMA CoreUpdateFacts ==
  ASSUME NEW c \in Core, NEW in \in Input, NEW o \in CoreUpdate(c, in)
  PROVE  \/ o.code \in AbslCodes \ {"kOk"} /\ o.core = c /\ o.out = <<>>
         \/ /\ o.code = "kOk" /\ Accepts(c, in)
            /\ o.core = AfterInput(c, in)
            /\ \E n \in 0 .. MaxOutputs : o.out = Results(c, in, n)
<1>1. CASE o \in {[code |-> code, core |-> c, out |-> <<>>] : code \in Refusals(c, in)}
  <2>1. PICK code \in Refusals(c, in) : o = [code |-> code, core |-> c, out |-> <<>>]
    BY <1>1
  <2>2. code \in AbslCodes \ {"kOk"}
    BY CoreAssumption DEF Refusals, AbslCodes
  <2>3. QED
    BY <2>1, <2>2
<1>2. CASE o \in {[code |-> "kOk", core |-> AfterInput(c, in), out |-> Results(c, in, n)] :
                    n \in {i \in 0 .. MaxOutputs : Accepts(c, in)}}
  BY <1>2
<1>3. QED
  BY <1>1, <1>2 DEF CoreUpdate

\* Filling a buffer changes its first entries only.
LEMMA CopyOutFacts ==
  ASSUME NEW S, NEW results \in Seq(S), NEW buf \in Seq(S)
  PROVE  /\ CopyOut(results, buf) \in Seq(S)
         /\ Len(CopyOut(results, buf)) = Len(buf)
         /\ \A i \in 1 .. Least(Len(results), Len(buf)) :
              CopyOut(results, buf)[i] = results[i]
BY DEF CopyOut, Least

LEMMA ZeroedBufferType ==
  ASSUME NEW capacity \in Nat
  PROVE  ZeroedBuffer(capacity) \in Seq(Sample) /\ Len(ZeroedBuffer(capacity)) = capacity
BY CoreAssumption DEF ZeroedBuffer, ZeroResult, Sample

\* The shim passes on the core's refusal, or what the buffer holds of its results.
LEMMA ShimUpdateFacts ==
  ASSUME NEW m \in ism_Modeler, NEW in \in Input, NEW buf,
         NEW r \in ism_modeler_update(m, in, buf)
  PROVE  \/ r.st \in ism_Status \ {"OK"} /\ r.m = m /\ r.buf = buf /\ r.count = 0
         \/ /\ r.st = "OK" /\ Accepts(m.impl, in)
            /\ r.m = [m EXCEPT !.impl = AfterInput(m.impl, in)]
            /\ \E n \in 0 .. MaxOutputs :
                 r.count = n /\ r.buf = CopyOut(Results(m.impl, in, n), buf)
<1> DEFINE Reply(o) ==
      [st    |-> to_status(o.code),
       m     |-> [m EXCEPT !.impl = o.core],
       buf   |-> IF o.code = "kOk" THEN CopyOut(o.out, buf) ELSE buf,
       count |-> IF o.code = "kOk" THEN Len(o.out) ELSE 0]
<1>1. PICK o \in CoreUpdate(m.impl, in) : r = Reply(o)
  BY DEF ism_modeler_update
<1>2. m.impl \in Core
  BY DEF ism_Modeler
<1>3. CASE o.code \in AbslCodes \ {"kOk"} /\ o.core = m.impl /\ o.out = <<>>
  <2>1. to_status(o.code) \in ism_Status \ {"OK"}
    BY <1>3 DEF to_status, AbslCodes, ism_Status
  <2>2. [m EXCEPT !.impl = o.core] = m
    BY <1>3 DEF ism_Modeler
  <2>3. QED
    BY <1>1, <1>3, <2>1, <2>2
<1>4. CASE /\ o.code = "kOk" /\ Accepts(m.impl, in)
           /\ o.core = AfterInput(m.impl, in)
           /\ \E n \in 0 .. MaxOutputs : o.out = Results(m.impl, in, n)
  <2>1. PICK n \in 0 .. MaxOutputs : o.out = Results(m.impl, in, n)
    BY <1>4
  <2>2. Len(o.out) = n
    BY <1>2, <1>4, <2>1, AcceptedInput
  <2>3. to_status(o.code) = "OK"
    BY <1>4 DEF to_status
  <2>4. QED
    BY <1>1, <1>4, <2>1, <2>2, <2>3
<1>5. QED
  BY <1>2, <1>3, <1>4, CoreUpdateFacts

\* update either throws, changes nothing and returns nothing, or hands over the
\* leading Capacity samples of what the core made of the input.
LEMMA UpdateFacts ==
  ASSUME NEW m \in ism_Modeler, NEW in \in Input, NEW u \in update(m, in)
  PROVE  /\ u.m \in ism_Modeler
         /\ u.samples \in Seq(Sample)
         /\ u.produced \in Nat
         /\ \/ /\ u.err \in StrokeModelerError /\ u.m = m
               /\ u.samples = <<>> /\ u.produced = 0
            \/ /\ u.err = "none" /\ Accepts(m.impl, in)
               /\ u.m = [m EXCEPT !.impl = AfterInput(m.impl, in)]
               /\ Len(u.samples) = Least(u.produced, Capacity)
               /\ \A i \in 1 .. Len(u.samples) :
                    u.samples[i] = [stroke |-> DownOf(m.impl, in),
                                    call |-> m.impl.serial + 1,
                                    k |-> i, toward |-> in.position]
<1> DEFINE buf == ZeroedBuffer(Capacity)
           Reply(r) == [err      |-> mapStatus(r.st),
                        m        |-> r.m,
                        produced |-> r.count,
                        samples  |-> SubSeq(r.buf, 1, Least(r.count, Capacity))]
<1>1. PICK r \in ism_modeler_update(m, in, buf) : u = Reply(r)
  BY DEF update
<1>2. Capacity \in Nat /\ buf \in Seq(Sample) /\ Len(buf) = Capacity
  BY CapacityAssumption, ZeroedBufferType
<1>3. m.impl \in Core
  BY DEF ism_Modeler
<1> HIDE DEF buf
<1>4. CASE r.st \in ism_Status \ {"OK"} /\ r.m = m /\ r.buf = buf /\ r.count = 0
  <2>1. mapStatus(r.st) \in StrokeModelerError
    BY <1>4 DEF mapStatus, ism_Status, StrokeModelerError
  <2>2. SubSeq(r.buf, 1, Least(r.count, Capacity)) = <<>>
    BY <1>2, <1>4 DEF Least
  <2>3. /\ u.err \in StrokeModelerError /\ u.m = m
        /\ u.produced = 0 /\ u.samples = <<>>
    BY <1>1, <1>4, <2>1, <2>2
  <2>4. <<>> \in Seq(Sample)
    OBVIOUS
  <2> HIDE DEF Reply
  <2>5. QED
    BY <2>3, <2>4
<1>5. CASE /\ r.st = "OK" /\ Accepts(m.impl, in)
           /\ r.m = [m EXCEPT !.impl = AfterInput(m.impl, in)]
           /\ \E n \in 0 .. MaxOutputs :
                r.count = n /\ r.buf = CopyOut(Results(m.impl, in, n), buf)
  <2>1. PICK n \in 0 .. MaxOutputs :
               r.count = n /\ r.buf = CopyOut(Results(m.impl, in, n), buf)
    BY <1>5
  <2> DEFINE out == Results(m.impl, in, n)
             some == Least(n, Capacity)
  <2>2. /\ AfterInput(m.impl, in) \in Core
        /\ out \in Seq(Sample) /\ Len(out) = n
    BY <1>3, <1>5, AcceptedInput
  <2>3. n \in Nat /\ some \in Nat /\ some <= n /\ some <= Capacity
    BY <1>2, CoreAssumption DEF Least
  <2>4. \A i \in 1 .. n : out[i] = [stroke |-> DownOf(m.impl, in),
                                    call |-> m.impl.serial + 1,
                                    k |-> i, toward |-> in.position]
    BY DEF Results
  <2> HIDE DEF out
  <2>5. /\ r.buf \in Seq(Sample) /\ Len(r.buf) = Capacity
        /\ \A i \in 1 .. some : r.buf[i] = out[i]
    BY <1>2, <2>1, <2>2, CopyOutFacts DEF out
  <2> HIDE DEF some
  <2>6. u.samples = SubSeq(r.buf, 1, some)
    BY <1>1, <2>1 DEF some
  <2>7. /\ u.samples \in Seq(Sample) /\ Len(u.samples) = some
        /\ \A i \in 1 .. some : u.samples[i] = r.buf[i]
    BY <1>2, <2>3, <2>5, <2>6
  <2>8. u.m \in ism_Modeler
    BY <1>1, <1>5, <2>2 DEF ism_Modeler
  <2>9. u.err = "none" /\ u.produced = n
    BY <1>1, <1>5, <2>1 DEF mapStatus
  <2>10. \A i \in 1 .. some : u.samples[i] = [stroke |-> DownOf(m.impl, in),
                                    call |-> m.impl.serial + 1,
                                    k |-> i, toward |-> in.position]
    BY <2>3, <2>4, <2>5, <2>7
  <2>11. QED
    BY <1>1, <1>5, <2>3, <2>7, <2>8, <2>9, <2>10 DEF some
<1>6. QED
  BY <1>4, <1>5, ShimUpdateFacts

\* The two halves of UpdateFacts.
LEMMA UpdateThrows ==
  ASSUME NEW m \in ism_Modeler, NEW in \in Input, NEW u \in update(m, in),
         u.err # "none"
  PROVE  u.m = m /\ u.samples = <<>> /\ u.produced = 0
<1> DEFINE Thrown == u.err \in StrokeModelerError /\ u.m = m
                     /\ u.samples = <<>> /\ u.produced = 0
           Done == /\ u.err = "none" /\ Accepts(m.impl, in)
                   /\ u.m = [m EXCEPT !.impl = AfterInput(m.impl, in)]
                   /\ Len(u.samples) = Least(u.produced, Capacity)
                   /\ \A i \in 1 .. Len(u.samples) :
                        u.samples[i] = [stroke |-> DownOf(m.impl, in),
                                        call |-> m.impl.serial + 1,
                                        k |-> i, toward |-> in.position]
<1>1. Thrown \/ Done
  BY UpdateFacts
<1>2. Done => u.err = "none"
  OBVIOUS
<1> HIDE DEF Done
<1>3. QED
  BY <1>1, <1>2

LEMMA UpdateReturns ==
  ASSUME NEW m \in ism_Modeler, NEW in \in Input, NEW u \in update(m, in),
         u.err = "none"
  PROVE  /\ Accepts(m.impl, in)
         /\ u.m = [m EXCEPT !.impl = AfterInput(m.impl, in)]
         /\ Len(u.samples) = Least(u.produced, Capacity)
         /\ \A i \in 1 .. Len(u.samples) :
              u.samples[i] = [stroke |-> DownOf(m.impl, in),
                              call |-> m.impl.serial + 1,
                              k |-> i, toward |-> in.position]
<1> DEFINE Done == /\ Accepts(m.impl, in)
                   /\ u.m = [m EXCEPT !.impl = AfterInput(m.impl, in)]
                   /\ Len(u.samples) = Least(u.produced, Capacity)
                   /\ \A i \in 1 .. Len(u.samples) :
                        u.samples[i] = [stroke |-> DownOf(m.impl, in),
                                        call |-> m.impl.serial + 1,
                                        k |-> i, toward |-> in.position]
<1>1. u.err \in StrokeModelerError \/ Done
  BY UpdateFacts
<1> HIDE DEF Done
<1>2. Done
  BY <1>1 DEF StrokeModelerError
<1>3. QED
  BY <1>2 DEF Done

\* What an accepted input yields.
LEMMA AcceptedSamples ==
  ASSUME NEW m \in ism_Modeler, NEW in \in Input, NEW u \in update(m, in),
         u.err = "none"
  PROVE  /\ Len(u.samples) = Least(u.produced, Capacity)
         /\ \A i \in 1 .. Len(u.samples) :
              u.samples[i].call = m.impl.serial + 1 /\ u.samples[i].k = i
<1> DEFINE Whole(i) == [stroke |-> DownOf(m.impl, in), call |-> m.impl.serial + 1,
                      k |-> i, toward |-> in.position]
<1>1. /\ Accepts(m.impl, in)
      /\ u.m = [m EXCEPT !.impl = AfterInput(m.impl, in)]
      /\ Len(u.samples) = Least(u.produced, Capacity)
      /\ \A i \in 1 .. Len(u.samples) : u.samples[i] = Whole(i)
  BY UpdateReturns
<1>2. \A i : Whole(i).call = m.impl.serial + 1 /\ Whole(i).k = i
  OBVIOUS
<1> HIDE DEF Whole
<1>3. QED
  BY <1>1, <1>2

\* The struct that reset sends becomes, in the shim, the parameters the caller
\* asked for.
LEMMA RequestReachesShim ==
  ASSUME NEW m \in ism_Modeler, NEW req \in Request
  PROVE  /\ Wanted(req) \in Params
         /\ apply_params_defaults(Marshal(req), m.params) = Wanted(req)
<1> DEFINE want == WantedPredictor(req.prediction)
<1>1. /\ PredictorOf(Marshal(req).prediction) = want
      /\ want \in {StrokeEnd, Disabled} \cup Kalmans
  <2>1. req.prediction \in PredictionParams
    BY DEF Request
  <2>2. CASE req.prediction.case = "strokeEnd"
    BY <2>2 DEF Marshal, PredictorOf, WantedPredictor
  <2>3. CASE req.prediction.case = "disabled"
    BY <2>3 DEF Marshal, PredictorOf, WantedPredictor
  <2>4. CASE req.prediction.case = "kalman"
    <3>1. req.prediction.k \in Kalmans
      BY <2>1, <2>4 DEF PredictionParams
    <3>2. QED
      BY <2>4, <3>1 DEF Marshal, PredictorOf, WantedPredictor
  <2>5. QED
    BY <2>1, <2>2, <2>3, <2>4 DEF PredictionParams
<1>2. Marshal(req).motion = req.motion /\ Marshal(req).sampling = req.sampling
  BY DEF Marshal
<1>3. Wanted(req) \in Params
  BY <1>1 DEF Wanted, Params, Request
<1>4. apply_params_defaults(Marshal(req), m.params) = Wanted(req)
  <2>1. m.params \in Params
    BY DEF ism_Modeler
  <2>2. apply_params_defaults(Marshal(req), m.params) \in
          [motion : {req.motion}, sampling : {req.sampling}, prediction : {want}]
    BY <1>1, <1>2, <2>1 DEF apply_params_defaults, Params
  <2>3. QED
    BY <2>2 DEF Wanted
<1>5. QED
  BY <1>3, <1>4

\* A reset with parameters throws and leaves the core alone, or gives the core
\* the wanted parameters and no stroke; it succeeds exactly for parameters that
\* the core accepts.
LEMMA ResetWithFacts ==
  ASSUME NEW m \in ism_Modeler, NEW req \in Request
  PROVE  LET r == resetWith(m, req)
             p == Wanted(req)
         IN  /\ r.m \in ism_Modeler
             /\ r.err = IF ValidateStrokeModelParams(p) = "kOk" THEN "none"
                        ELSE "invalidArgument"
             /\ r.err # "none" => /\ r.m.impl = m.impl
                                  /\ r.m.has_params = m.has_params
             /\ r.err = "none" => /\ r.m.impl = [m.impl EXCEPT !.params = p, !.stroke = Nil,
                                                               !.saved = Nil]
                                  /\ r.m.has_params = TRUE
<1> DEFINE p  == Wanted(req)
           cp == Marshal(req)
           r  == ism_modeler_reset_with_params(m, cp)
           fresh == [m.impl EXCEPT !.params = p, !.stroke = Nil, !.saved = Nil]
<1>1. p \in Params /\ apply_params_defaults(cp, m.params) = p
  BY RequestReachesShim
<1>2. m.impl \in Core /\ fresh \in Core
  BY <1>1 DEF ism_Modeler, Core
<1>3. resetWith(m, req) = [err |-> mapStatus(r.st), m |-> r.m]
  BY DEF resetWith
<1> HIDE DEF p, cp, fresh
<1>4. CASE ValidateStrokeModelParams(p) = "kOk"
  <2>1. CoreResetWith(m.impl, p) = [code |-> "kOk", core |-> fresh]
    BY <1>4 DEF CoreResetWith, fresh
  <2> DEFINE q  == CoreResetWith(m.impl, p)
             mm == [m EXCEPT !.params = p, !.has_params = TRUE, !.impl = q.core]
  <2>2. mm \in [impl : {fresh}, params : {p}, has_params : {TRUE}]
    <3>1. q.core = fresh
      BY <2>1
    <3> HIDE DEF q
    <3>2. QED
      BY <3>1 DEF ism_Modeler
  <2>3. r = [st |-> to_status(q.code), m |-> mm]
    BY <1>1, <1>4 DEF ism_modeler_reset_with_params
  <2> HIDE DEF r, q, mm
  <2>4. r.m \in ism_Modeler /\ r.m.impl = fresh /\ r.m.has_params = TRUE
    BY <1>1, <1>2, <2>2, <2>3 DEF ism_Modeler
  <2>5. mapStatus(r.st) = "none"
    BY <2>1, <2>3 DEF mapStatus, to_status, q
  <2>6. QED
    BY <1>3, <1>4, <2>4, <2>5 DEF p, fresh, r
<1>5. CASE ValidateStrokeModelParams(p) # "kOk"
  <2>1. ValidateStrokeModelParams(p) = "kInvalidArgument"
    BY <1>5 DEF ValidateStrokeModelParams
  <2>2. r = [st |-> "INVALID_ARGUMENT", m |-> [m EXCEPT !.params = p]]
    BY <1>1, <1>5, <2>1 DEF ism_modeler_reset_with_params, to_status
  <2>3. r.m \in ism_Modeler /\ r.m.impl = m.impl /\ r.m.has_params = m.has_params
    BY <1>1, <1>2, <2>2 DEF ism_Modeler
  <2>4. mapStatus(r.st) = "invalidArgument"
    BY <2>2 DEF mapStatus
  <2> HIDE DEF r
  <2>5. QED
    BY <1>3, <1>5, <2>3, <2>4 DEF p
<1>6. QED
  BY <1>4, <1>5

\* predict returns the beginning of what the core extrapolated, and nothing when
\* it throws.
LEMMA PredictFacts ==
  ASSUME NEW m \in ism_Modeler, NEW max \in Nat, NEW o \in predict(m, max)
  PROVE  /\ o.err \in StrokeModelerError \cup {"none"}
         /\ o.produced \in Nat
         /\ o.samples \in Seq(Sample)
         /\ Len(o.samples) = Least(o.produced, max)
         /\ \A i \in 1 .. Len(o.samples) :
              o.samples[i].call = m.impl.serial /\ o.samples[i].k = i
<1> DEFINE buf == ZeroedBuffer(max)
           Reply(r) == [err      |-> mapStatus(r.st),
                        produced |-> r.count,
                        samples  |-> SubSeq(r.buf, 1, Least(r.count, max))]
           Shim(c) == [st    |-> to_status(c.code),
                       buf   |-> IF c.code = "kOk" THEN CopyOut(c.out, buf) ELSE buf,
                       count |-> IF c.code = "kOk" THEN Len(c.out) ELSE 0]
           Guess(n) == [i \in 1 .. n |->
                          [stroke |-> m.impl.stroke.down, call |-> m.impl.serial,
                           k |-> i, toward |-> m.impl.stroke.last.position]]
<1>1. PICK r \in ism_modeler_predict(m, buf) : o = Reply(r)
  BY DEF predict
<1>2. PICK c \in CorePredict(m.impl) : r = Shim(c)
  BY DEF ism_modeler_predict
<1>3. buf \in Seq(Sample) /\ Len(buf) = max
  BY ZeroedBufferType
<1> HIDE DEF buf
<1>4. CASE CanPredict(m.impl)
  <2>1. PICK n \in 0 .. MaxOutputs : c = [code |-> "kOk", out |-> Guess(n)]
    BY <1>4 DEF CorePredict
  <2>2. n \in Nat
    BY CoreAssumption
  <2>3. \A i \in 1 .. n : [stroke |-> m.impl.stroke.down, call |-> m.impl.serial, k |-> i,
                           toward |-> m.impl.stroke.last.position] \in Sample
    BY <1>4 DEF CanPredict, ism_Modeler, Core, Stroke, Input, Sample
  <2>4. /\ Guess(n) \in Seq(Sample) /\ Len(Guess(n)) = n
        /\ \A i \in 1 .. n : Guess(n)[i].call = m.impl.serial /\ Guess(n)[i].k = i
    BY <2>2, <2>3
  <2> DEFINE out == Guess(n)
             some == Least(n, max)
  <2> HIDE DEF Guess, out
  <2>5. /\ CopyOut(out, buf) \in Seq(Sample) /\ Len(CopyOut(out, buf)) = max
        /\ \A i \in 1 .. some : CopyOut(out, buf)[i] = out[i]
    BY <1>3, <2>4, CopyOutFacts DEF out
  <2>6. some \in Nat /\ some <= n /\ some <= max
    BY <2>2 DEF Least
  <2> HIDE DEF some
  <2>7. r.st = "OK" /\ r.count = n /\ r.buf = CopyOut(out, buf)
    BY <1>2, <2>1, <2>4 DEF to_status, out
  <2>8. o.err = "none" /\ o.produced = n /\ o.samples = SubSeq(CopyOut(out, buf), 1, some)
    BY <1>1, <2>7 DEF mapStatus, some
  <2>9. /\ o.samples \in Seq(Sample) /\ Len(o.samples) = some
        /\ \A i \in 1 .. some : o.samples[i] = out[i]
    BY <2>5, <2>6, <2>8
  <2>10. \A i \in 1 .. some : o.samples[i].call = m.impl.serial /\ o.samples[i].k = i
    BY <2>4, <2>6, <2>9 DEF out
  <2>11. QED
    BY <2>2, <2>8, <2>9, <2>10 DEF some
<1>5. CASE ~CanPredict(m.impl)
  <2>1. c.code = "kFailedPrecondition"
    BY <1>5 DEF CorePredict
  <2>2. r.st = "FAILED_PRECONDITION" /\ r.count = 0 /\ r.buf = buf
    BY <1>2, <2>1 DEF to_status
  <2>3. o.err = "failedPrecondition" /\ o.produced = 0 /\ o.samples = <<>>
    BY <1>1, <1>3, <2>2 DEF mapStatus, Least
  <2>4. <<>> \in Seq(Sample)
    OBVIOUS
  <2>5. Least(0, max) = 0
    BY DEF Least
  <2> HIDE DEF Reply, Shim
  <2>6. QED
    BY <2>3, <2>4, <2>5 DEF StrokeModelerError
<1>6. QED
  BY <1>4, <1>5

\* A reset without parameters throws and changes nothing, or drops the stroke
\* and the saved state and keeps the parameters.
LEMMA ResetFacts ==
  ASSUME NEW m \in ism_Modeler
  PROVE  LET r == reset(m)
         IN  \/ r.err = "failedPrecondition" /\ r.m = m
             \/ /\ r.err = "none" /\ m.has_params
                /\ r.m = [m EXCEPT !.impl = [m.impl EXCEPT !.stroke = Nil, !.saved = Nil]]
<1> DEFINE fresh == [m.impl EXCEPT !.stroke = Nil, !.saved = Nil]
<1>1. CASE ~m.has_params
  BY <1>1 DEF reset, ism_modeler_reset, mapStatus
<1>2. CASE m.has_params /\ m.impl.params = Nil
  <2>1. CoreReset(m.impl) = [code |-> "kFailedPrecondition", core |-> m.impl]
    BY <1>2 DEF CoreReset
  <2>2. [m EXCEPT !.impl = m.impl] = m
    BY DEF ism_Modeler
  <2>3. ism_modeler_reset(m) = [st |-> "FAILED_PRECONDITION", m |-> m]
    BY <1>2, <2>1, <2>2 DEF ism_modeler_reset, to_status
  <2>4. QED
    BY <2>3 DEF reset, mapStatus
<1>3. CASE m.has_params /\ m.impl.params # Nil
  <2>1. CoreReset(m.impl) = [code |-> "kOk", core |-> fresh]
    BY <1>3 DEF CoreReset
  <2> HIDE DEF fresh
  <2>2. ism_modeler_reset(m) = [st |-> "OK", m |-> [m EXCEPT !.impl = fresh]]
    BY <1>3, <2>1 DEF ism_modeler_reset, to_status
  <2>3. QED
    BY <1>3, <2>2 DEF reset, mapStatus, fresh
<1>4. QED
  BY <1>1, <1>2, <1>3 DEF ism_Modeler
================================================================================
