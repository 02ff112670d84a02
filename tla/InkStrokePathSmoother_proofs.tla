---------------------- MODULE InkStrokePathSmoother_proofs ----------------------
(***************************************************************************)
(* Proofs about InkStrokePathSmoother: type correctness, then the safety   *)
(* invariants, from the facts of StrokeModelerLemmas.                      *)
(***************************************************************************)
EXTENDS InkStrokePathSmoother, StrokeModelerLemmas, SequenceTheorems

--------------------------------------------------------------------------------
(***************************************************************************)
(* Helpers                                                                 *)
(***************************************************************************)

LEMMA ElementsFacts ==
  ASSUME NEW hasMove \in BOOLEAN, NEW samples \in Seq(Sample)
  PROVE  /\ Elements(hasMove, samples) \in Seq(Element)
         /\ Len(Elements(hasMove, samples)) = Len(samples)
         /\ \A i \in 1 .. Len(samples) :
              /\ Elements(hasMove, samples)[i].sample = samples[i]
              /\ (Elements(hasMove, samples)[i].op = "move") = (i = 1 /\ ~hasMove)
BY DEF Elements, Element

LEMMA PathGrows ==
  ASSUME NEW path \in Seq(Element), NEW hasMove \in BOOLEAN, NEW samples \in Seq(Sample)
  PROVE  /\ path \o Elements(hasMove, samples) \in Seq(Element)
         /\ (hasMove \/ samples # <<>>) \in BOOLEAN
BY ElementsFacts

\* appendResultsToPath writes the last path object and no other.
LEMMA AppendFacts ==
  ASSUME paths \in Seq(Seq(Element)), paths # <<>>,
         NEW path \in Seq(Element), NEW hasMove \in BOOLEAN,
         NEW samples \in Seq(Sample),
         appendResultsToPath(path, hasMove, samples)
  PROVE  /\ paths' \in Seq(Seq(Element)) /\ paths' # <<>>
         /\ Len(paths') = Len(paths)
         /\ pathMutable' = path \o Elements(hasMove, samples)
         /\ \A i \in 1 .. Len(paths) : i # Len(paths) => paths'[i] = paths[i]
         /\ hasPathMove' = (hasMove \/ samples # <<>>)
         /\ hasPathMove' \in BOOLEAN
<1> DEFINE new == path \o Elements(hasMove, samples)
<1>1. new \in Seq(Element) /\ (hasMove \/ samples # <<>>) \in BOOLEAN
  BY PathGrows
<1>2. /\ paths' = [paths EXCEPT ![Len(paths)] = new]
      /\ hasPathMove' = (hasMove \/ samples # <<>>)
  BY DEF appendResultsToPath
<1> HIDE DEF new
<1>3. Len(paths) \in 1 .. Len(paths)
  OBVIOUS
<1>4. /\ paths' \in Seq(Seq(Element)) /\ Len(paths') = Len(paths)
      /\ paths'[Len(paths)] = new
      /\ \A i \in 1 .. Len(paths) : i # Len(paths) => paths'[i] = paths[i]
  BY <1>1, <1>2, <1>3
<1>5. pathMutable' = new
  BY <1>4 DEF pathMutable
<1>6. paths' # <<>>
  BY <1>3, <1>4
<1>7. hasPathMove' \in BOOLEAN
  BY <1>1, <1>2
<1>8. QED
  BY <1>2, <1>4, <1>5, <1>6, <1>7 DEF new

LEMMA LogType ==
  ASSUME NEW m \in ism_Modeler, NEW in \in Input, NEW u \in update(m, in),
         NEW log \in Seq(Accepted)
  PROVE  Log(log, u, in) \in Seq(Accepted)
<1>1. u.m.impl.serial \in Nat /\ u.produced \in Nat
  BY UpdateFacts DEF ism_Modeler, Core
<1> DEFINE entry == [call       |-> u.m.impl.serial, event_type |-> in.event_type,
                     time       |-> in.time,         produced   |-> u.produced]
<1>2. entry \in Accepted
  BY <1>1 DEF Accepted, Input
<1>3. Log(log, u, in) = IF u.err # "none" THEN log ELSE Append(log, entry)
  BY DEF Log
<1> HIDE DEF entry
<1>4. QED
  BY <1>2, <1>3

LEMMA InputTypes ==
  /\ \A event \in Events, point \in CGPoints, time \in Times :
       StrokeInput(event, AsFloat[point], time) \in Input
  /\ \A point \in CGPoints \cup {Nil}, time \in Times \cup {Nil} :
       UpInput(time, point) \in Input
BY CoreAssumption, FloatAssumption DEF StrokeInput, UpInput, Input, Events, Times

LEMMA PathMutableType ==
  ASSUME TypeOK
  PROVE  pathMutable \in Seq(Element)
BY DEF TypeOK, pathMutable

LEMMA HandOutType ==
  ASSUME TypeOK, NEW content \in Seq(Element), NEW final \in BOOLEAN,
         HandOut(content, final)
  PROVE  handed' \subseteq Handed
<1>1. [object |-> Len(paths), content |-> content, final |-> final] \in Handed
  BY DEF TypeOK, Handed
<1>2. QED
  BY <1>1 DEF TypeOK, HandOut

\* The part of the state that the methods sending inputs write.
PenType ==
  /\ modeler \in ism_Modeler
  /\ paths \in Seq(Seq(Element)) /\ paths # <<>>
  /\ hasPathMove \in BOOLEAN
  /\ accepted \in Seq(Accepted)
  /\ ret \in [call : Calls, err : StrokeModelerError \cup {"none"}]

LEMMA FeedType ==
  ASSUME TypeOK,
         NEW m \in ism_Modeler, NEW in \in Input, NEW u \in update(m, in),
         NEW path \in Seq(Element), NEW hasMove \in BOOLEAN,
         NEW log \in Seq(Accepted), NEW call \in Calls,
         modeler' = u.m,
         appendResultsToPath(path, hasMove, u.samples),
         accepted' = Log(log, u, in),
         Returns(call, u.err)
  PROVE  PenType'
<1>1. /\ u.m \in ism_Modeler /\ u.samples \in Seq(Sample)
      /\ u.err \in StrokeModelerError \cup {"none"}
  BY UpdateFacts
<1>2. /\ paths' \in Seq(Seq(Element)) /\ paths' # <<>>
      /\ hasPathMove' \in BOOLEAN
  BY <1>1, AppendFacts DEF TypeOK
<1>3. accepted' \in Seq(Accepted)
  BY LogType
<1>4. ret' \in [call : Calls, err : StrokeModelerError \cup {"none"}]
  BY <1>1 DEF Returns
<1>5. QED
  BY <1>1, <1>2, <1>3, <1>4 DEF PenType

LEMMA SendUpType ==
  ASSUME TypeOK,
         NEW m \in ism_Modeler, NEW path \in Seq(Element), NEW hasMove \in BOOLEAN,
         NEW log \in Seq(Accepted),
         NEW time \in Times \cup {Nil}, NEW point \in CGPoints \cup {Nil},
         SendUp(m, path, hasMove, log, time, point)
  PROVE  PenType' /\ ended' \in BOOLEAN /\ handed' \subseteq Handed
<1> DEFINE in == UpInput(time, point)
<1>1. in \in Input
  BY InputTypes
<1>2. PICK u \in update(m, in) :
        /\ modeler' = u.m
        /\ appendResultsToPath(path, hasMove, u.samples)
        /\ accepted' = Log(log, u, in)
        /\ ended' = (u.err = "none")
        /\ Returns("end", u.err)
        /\ IF u.err = "none"
           THEN HandOut(path \o Elements(hasMove, u.samples), TRUE)
           ELSE handed' = handed
  BY DEF SendUp
<1> HIDE DEF in
<1>3. PenType'
  BY <1>1, <1>2, FeedType DEF Calls
<1>4. ended' \in BOOLEAN
  BY <1>2
<1>5. path \o Elements(hasMove, u.samples) \in Seq(Element)
  BY <1>1, UpdateFacts, PathGrows
<1>6. handed' \subseteq Handed
  BY <1>2, <1>5, HandOutType DEF TypeOK
<1>7. QED
  BY <1>3, <1>4, <1>6

--------------------------------------------------------------------------------
(***************************************************************************)
(* Type correctness                                                        *)
(***************************************************************************)

LEMMA TypeInit == Init => TypeOK
<1> SUFFICES ASSUME Init PROVE TypeOK
  OBVIOUS
<1>1. config \in Configs /\ modeler \in ism_Modeler
  BY CreateType DEF Init
<1>2. /\ << <<>> >> \in Seq(Seq(Element)) /\ << <<>> >> # <<>>
      /\ <<>> \in Seq(Accepted)
  OBVIOUS
<1>3. ret \in [call : Calls, err : StrokeModelerError \cup {"none"}]
  BY DEF Init, Calls
<1>4. QED
  BY <1>1, <1>2, <1>3 DEF Init, TypeOK

LEMMA TypeStep == TypeOK /\ [Next]_vars => TypeOK'
<1> SUFFICES ASSUME TypeOK, [Next]_vars
             PROVE  TypeOK'
  OBVIOUS
<1> USE DEF PenType
<1>1. ASSUME getPath PROVE TypeOK'
  <2>1. handed' \subseteq Handed
    BY <1>1, HandOutType, PathMutableType DEF getPath, TypeOK
  <2>2. QED
    BY <1>1, <2>1 DEF getPath, TypeOK, Returns, Calls
<1>2. ASSUME resetPath PROVE TypeOK'
  <2>1. Append(paths, <<>>) \in Seq(Seq(Element)) /\ Append(paths, <<>>) # <<>>
    BY DEF TypeOK
  <2>2. ret' \in [call : Calls, err : StrokeModelerError \cup {"none"}]
    BY <1>2 DEF resetPath, Returns, Calls
  <2> DEFINE longer == Append(paths, <<>>)
  <2> HIDE DEF longer
  <2>3. /\ paths' \in Seq(Seq(Element)) /\ paths' # <<>>
        /\ started' \in BOOLEAN /\ ended' \in BOOLEAN /\ hasPathMove' \in BOOLEAN
        /\ accepted' \in Seq(Accepted) /\ supplied' \subseteq Points
    <3>1. /\ paths' = longer
          /\ started' = FALSE /\ ended' = FALSE /\ hasPathMove' = FALSE
          /\ accepted' = <<>> /\ supplied' = {}
      BY <1>2 DEF resetPath, longer
    <3>2. longer \in Seq(Seq(Element)) /\ longer # <<>>
      BY <2>1 DEF longer
    <3>3. <<>> \in Seq(Accepted)
      OBVIOUS
    <3>4. accepted' \in Seq(Accepted)
      BY <3>1, <3>3
    <3>5. QED
      BY <3>1, <3>2, <3>4
  <2>4. config' \in Configs /\ modeler' \in ism_Modeler /\ handed' \subseteq Handed
    BY <1>2 DEF resetPath, TypeOK
  <2>5. QED
    BY <2>2, <2>3, <2>4 DEF TypeOK
<1>3. ASSUME NEW point \in CGPoints, NEW time \in Times, start(point, time)
      PROVE  TypeOK'
  <2>1. CASE startRefused
    BY <2>1 DEF startRefused, TypeOK, Returns, Calls, StrokeModelerError
  <2>2. CASE startRejected
    <3>1. /\ resetWith(modeler, config).m \in ism_Modeler
          /\ resetWith(modeler, config).err \in StrokeModelerError \cup {"none"}
      BY ResetWithFacts, ConfigsAssumption DEF TypeOK, StrokeModelerError
    <3>2. QED
      BY <2>2, <3>1 DEF startRejected, TypeOK, Returns, Calls
  <2>3. CASE startDown(point, time)
    <3> DEFINE m  == resetWith(modeler, config).m
               in == StrokeInput("down", AsFloat[point], time)
    <3>1. m \in ism_Modeler
      BY ResetWithFacts, ConfigsAssumption DEF TypeOK
    <3>2. in \in Input
      BY InputTypes DEF Events
    <3>3. PICK u \in update(m, in) :
            /\ modeler' = u.m
            /\ appendResultsToPath(pathMutable, FALSE, u.samples)
            /\ accepted' = Log(accepted, u, in)
            /\ Returns("start", u.err)
      BY <2>3 DEF startDown
    <3>4. UNCHANGED <<config, ended, handed>> /\ started' = TRUE
          /\ supplied' = supplied \cup {AsFloat[point]}
      BY <2>3 DEF startDown
    <3> HIDE DEF m, in
    <3>5. PenType'
      BY <3>1, <3>2, <3>3, FeedType, PathMutableType DEF TypeOK, Calls
    <3>6. QED
      BY <3>4, <3>5, FloatAssumption DEF TypeOK
  <2>4. QED
    BY <1>3, <2>1, <2>2, <2>3 DEF start
<1>4. ASSUME NEW point \in CGPoints, NEW time \in Times, append(point, time)
      PROVE  TypeOK'
  <2>1. CASE appendRefused
    BY <2>1 DEF appendRefused, TypeOK, Returns, Calls, StrokeModelerError
  <2>2. CASE appendMove(point, time)
    <3> DEFINE in == StrokeInput("move", AsFloat[point], time)
    <3>1. in \in Input
      BY InputTypes DEF Events
    <3>2. PICK u \in update(modeler, in) :
            /\ modeler' = u.m
            /\ appendResultsToPath(pathMutable, hasPathMove, u.samples)
            /\ accepted' = Log(accepted, u, in)
            /\ Returns("append", u.err)
      BY <2>2 DEF appendMove
    <3>3. UNCHANGED <<config, started, ended, handed>>
          /\ supplied' = supplied \cup {AsFloat[point]}
      BY <2>2 DEF appendMove
    <3> HIDE DEF in
    <3>4. PenType'
      BY <3>1, <3>2, FeedType, PathMutableType DEF TypeOK, Calls
    <3>5. QED
      BY <3>3, <3>4, FloatAssumption DEF TypeOK
  <2>3. QED
    BY <1>4, <2>1, <2>2 DEF append
<1>5. ASSUME NEW point \in CGPoints \cup {Nil}, NEW time \in Times \cup {Nil},
             end(time, point)
      PROVE  TypeOK'
  <2>1. CASE endRefused
    BY <2>1 DEF endRefused, TypeOK, Returns, Calls, StrokeModelerError
  <2>2. CASE endMoveThrows(time, point)
    <3> DEFINE in == StrokeInput("move", AsFloat[point], time)
    <3>1. in \in Input
      BY <2>2, InputTypes DEF endMoveThrows, Events
    <3>2. PICK u \in update(modeler, in) :
            u.err # "none" /\ modeler' = u.m /\ Returns("end", u.err)
      BY <2>2 DEF endMoveThrows
    <3>3. u.m \in ism_Modeler /\ u.err \in StrokeModelerError \cup {"none"}
      BY <3>1, UpdateFacts DEF TypeOK
    <3>4. supplied' \subseteq Points
      BY <2>2, FloatAssumption DEF endMoveThrows, TypeOK
    <3>5. QED
      BY <2>2, <3>2, <3>3, <3>4 DEF endMoveThrows, TypeOK, Returns, Calls
  <2>3. CASE endMoveUp(time, point)
    <3> DEFINE in == StrokeInput("move", AsFloat[point], time)
    <3>1. in \in Input
      BY <2>3, InputTypes DEF endMoveUp, Events
    <3>2. PICK u \in update(modeler, in) :
            SendUp(u.m, pathMutable \o Elements(hasPathMove, u.samples),
                   hasPathMove \/ u.samples # <<>>, Log(accepted, u, in),
                   time, point)
      BY <2>3 DEF endMoveUp
    <3> HIDE DEF in
    <3>3. u.m \in ism_Modeler /\ u.samples \in Seq(Sample)
      BY <3>1, UpdateFacts DEF TypeOK
    <3>4. /\ pathMutable \o Elements(hasPathMove, u.samples) \in Seq(Element)
          /\ (hasPathMove \/ u.samples # <<>>) \in BOOLEAN
          /\ Log(accepted, u, in) \in Seq(Accepted)
      BY <3>1, <3>3, PathGrows, PathMutableType, LogType DEF TypeOK
    <3>5. PenType' /\ ended' \in BOOLEAN /\ handed' \subseteq Handed
      BY <3>2, <3>3, <3>4, SendUpType
    <3>6. UNCHANGED <<config, started>> /\ supplied' \subseteq Points
      BY <2>3, FloatAssumption DEF endMoveUp, TypeOK
    <3>7. QED
      BY <3>5, <3>6 DEF TypeOK
  <2>4. CASE endUp(time, point)
    <3>1. PenType' /\ ended' \in BOOLEAN /\ handed' \subseteq Handed
      BY <2>4, SendUpType, PathMutableType DEF endUp, TypeOK
    <3>2. UNCHANGED <<config, started>> /\ supplied' \subseteq Points
      BY <2>4, FloatAssumption DEF endUp, TypeOK
    <3>3. QED
      BY <3>1, <3>2 DEF TypeOK
  <2>5. QED
    BY <1>5, <2>1, <2>2, <2>3, <2>4 DEF end
<1>6. CASE UNCHANGED vars
  BY <1>6 DEF vars, TypeOK, pathMutable
<1>7. QED
  BY <1>1, <1>2, <1>3, <1>4, <1>5, <1>6 DEF Next

\* Every reachable state of a path smoother is well typed, whatever parameters,
\* points and times its caller uses and however the modeler answers.
THEOREM TypeCorrect == Spec => []TypeOK
BY TypeInit, TypeStep, PTL DEF Spec

--------------------------------------------------------------------------------
(***************************************************************************)
(* The inductive invariant.  The safety invariants say too little to be    *)
(* inductive: that a new sample comes after all others on the path needs   *)
(* that the core's serial number is ahead of the log, and that timestamps  *)
(* do not go back needs that the log ends with the input the core saw last.*)
(***************************************************************************)

Rising(m, log) ==
  \A j \in 1 .. Len(log) :
    /\ log[j].call <= m.impl.serial
    /\ \A i \in 1 .. j - 1 : log[i].call < log[j].call

Consistent(m, path, hasMove, log) ==
  IsSubpath(path, hasMove) /\ Mirrors(path, log) /\ Rising(m, log)

InOrder(log) ==
  \A j \in 1 .. Len(log) :
    /\ (log[j].event_type = "down") = (j = 1)
    /\ j > 1 => log[j - 1].time <= log[j].time

Drawing(m, log) ==
  /\ InOrder(log)
  /\ \A j \in 1 .. Len(log) : log[j].event_type # "up"
  /\ IF log = <<>> THEN m.impl.stroke = Nil
     ELSE /\ m.impl.stroke # Nil
          /\ m.impl.stroke.down = log[1].call
          /\ m.impl.stroke.last.time = log[Len(log)].time

Complete(m, log) ==
  /\ InOrder(log)
  /\ log # <<>> /\ m.impl.stroke = Nil
  /\ \A j \in 1 .. Len(log) : (log[j].event_type = "up") = (j = Len(log))

FlagsInv ==
  /\ ~started => ~ended /\ accepted = <<>> /\ pathMutable = <<>>
  /\ (started /\ ~ended) => Drawing(modeler, accepted)
  /\ ended => Complete(modeler, accepted)

Inv ==
  /\ TypeOK
  /\ Consistent(modeler, pathMutable, hasPathMove, accepted)
  /\ FlagsInv

\* A batch of samples of one new input, at the end of a path that mirrors the
\* log, makes a path that mirrors the longer log.
LEMMA MirrorsGrows ==
  ASSUME NEW path \in Seq(Element), NEW es \in Seq(Element),
         NEW log \in Seq(Accepted), NEW entry \in Accepted,
         Mirrors(path, log),
         \A j \in 1 .. Len(log) : log[j].call < entry.call,
         Len(es) = Delivered(entry),
         \A i \in 1 .. Len(es) : es[i].sample.call = entry.call /\ es[i].sample.k = i
  PROVE  Mirrors(path \o es, Append(log, entry))
<1> DEFINE new    == path \o es
           newlog == Append(log, entry)
           P      == Len(path)
           L      == Len(log)
<1>1. /\ P \in Nat /\ L \in Nat /\ Len(es) \in Nat
      /\ Len(new) = P + Len(es) /\ Len(newlog) = L + 1
      /\ \A i \in 1 .. P : new[i] = path[i]
      /\ \A i \in P + 1 .. Len(new) : /\ i - P \in 1 .. Len(es)
                                      /\ new[i] = es[i - P]
      /\ \A i \in 1 .. Len(es) : P + i \in 1 .. Len(new) /\ new[P + i] = es[i]
      /\ \A j \in 1 .. L : newlog[j] = log[j]
      /\ newlog[L + 1] = entry
  <2>1. P \in Nat /\ L \in Nat /\ Len(es) \in Nat
    OBVIOUS
  <2>2. /\ Len(new) = P + Len(es)
        /\ \A i \in 1 .. P + Len(es) : new[i] = IF i <= P THEN path[i] ELSE es[i - P]
    BY ConcatProperties
  <2>3. /\ Len(newlog) = L + 1
        /\ \A j \in 1 .. L : newlog[j] = log[j]
        /\ newlog[L + 1] = entry
    BY AppendProperties
  <2> HIDE DEF new, newlog, P, L
  <2>4. \A i \in 1 .. P : new[i] = path[i]
    <3> TAKE i \in 1 .. P
    <3>1. i \in 1 .. P + Len(es) /\ i <= P
      BY <2>1
    <3>2. QED
      BY <2>2, <3>1
  <2>5. \A i \in P + 1 .. Len(new) : i - P \in 1 .. Len(es) /\ new[i] = es[i - P]
    <3> TAKE i \in P + 1 .. Len(new)
    <3>1. i \in 1 .. P + Len(es) /\ ~(i <= P) /\ i - P \in 1 .. Len(es)
      BY <2>1, <2>2
    <3>2. QED
      BY <2>2, <3>1
  <2>6. \A i \in 1 .. Len(es) : P + i \in 1 .. Len(new) /\ new[P + i] = es[i]
    <3>1. SUFFICES ASSUME NEW i \in 1 .. Len(es)
                   PROVE  P + i \in 1 .. Len(new) /\ new[P + i] = es[i]
      OBVIOUS
    <3>2. P + i \in P + 1 .. P + Len(es) /\ (P + i) - P = i
      BY <2>1
    <3>3. QED
      BY <2>1, <2>2, <3>2
  <2>7. QED
    BY <2>1, <2>2, <2>3, <2>4, <2>5, <2>6
<1>2. /\ \A i \in 1 .. P : path[i].sample.call \in Int /\ path[i].sample.k \in Int
      /\ entry.call \in Int
      /\ \A j \in 1 .. L : log[j].call \in Int /\ Delivered(log[j]) \in Int
  <2>1. \A i \in 1 .. P : path[i] \in Element
    OBVIOUS
  <2>2. \A j \in 1 .. L : log[j] \in Accepted
    OBVIOUS
  <2>3. \A i \in 1 .. P : path[i].sample.call \in Int /\ path[i].sample.k \in Int
    BY <2>1 DEF Element, Sample
  <2>4. \A a \in Accepted : a.call \in Int /\ Delivered(a) \in Int
    BY CapacityAssumption DEF Accepted, Delivered, Least
  <2>5. QED
    BY <2>2, <2>3, <2>4
<1> HIDE DEF new, newlog, P, L
<1>3. /\ \A i \in 1 .. P : \E j \in 1 .. L :
           /\ path[i].sample.call = log[j].call
           /\ path[i].sample.k \in 1 .. Delivered(log[j])
      /\ \A j \in 1 .. L : \A n \in 1 .. Delivered(log[j]) :
           \E i \in 1 .. P : path[i].sample.call = log[j].call /\ path[i].sample.k = n
      /\ \A i, j \in 1 .. P : i < j =>
           \/ path[i].sample.call < path[j].sample.call
           \/ path[i].sample.call = path[j].sample.call /\ path[i].sample.k < path[j].sample.k
  BY DEF Mirrors, P, L
<1>4. ASSUME NEW i \in 1 .. Len(new)
      PROVE  \E j \in 1 .. Len(newlog) :
               /\ new[i].sample.call = newlog[j].call
               /\ new[i].sample.k \in 1 .. Delivered(newlog[j])
  <2>1. CASE i \in 1 .. P
    <3>1. PICK j \in 1 .. L : /\ path[i].sample.call = log[j].call
                              /\ path[i].sample.k \in 1 .. Delivered(log[j])
      BY <1>3, <2>1
    <3>2. j \in 1 .. Len(newlog)
      BY <1>1
    <3>3. newlog[j] = log[j]
      BY <1>1
    <3>4. new[i] = path[i]
      BY <1>1, <2>1
    <3>5. QED
      BY <3>1, <3>2, <3>3, <3>4
  <2>2. CASE i \in P + 1 .. Len(new)
    <3>1. /\ L + 1 \in 1 .. Len(newlog) /\ newlog[L + 1] = entry
          /\ i - P \in 1 .. Len(es) /\ new[i] = es[i - P]
      BY <1>1, <2>2
    <3>2. es[i - P].sample.call = entry.call /\ es[i - P].sample.k = i - P
      BY <3>1
    <3>3. QED
      BY <3>1, <3>2
  <2>3. i \in 1 .. P \/ i \in P + 1 .. Len(new)
    BY <1>1
  <2>4. QED
    BY <2>1, <2>2, <2>3
<1>5. ASSUME NEW j \in 1 .. Len(newlog), NEW n \in 1 .. Delivered(newlog[j])
      PROVE  \E i \in 1 .. Len(new) :
               new[i].sample.call = newlog[j].call /\ new[i].sample.k = n
  <2>1. CASE j \in 1 .. L
    <3>1. newlog[j] = log[j]
      BY <1>1, <2>1
    <3>2. PICK i \in 1 .. P : path[i].sample.call = log[j].call /\ path[i].sample.k = n
      BY <1>3, <2>1, <3>1
    <3>3. i \in 1 .. Len(new) /\ new[i] = path[i]
      BY <1>1
    <3>4. QED
      BY <3>1, <3>2, <3>3
  <2>2. CASE j = L + 1
    <3>1. newlog[j] = entry /\ n \in 1 .. Len(es)
      BY <1>1, <2>2
    <3>2. /\ P + n \in 1 .. Len(new) /\ new[P + n] = es[n]
          /\ es[n].sample.call = entry.call /\ es[n].sample.k = n
      BY <1>1, <3>1
    <3>3. QED
      BY <3>1, <3>2
  <2>3. QED
    BY <1>1, <2>1, <2>2
<1>6. ASSUME NEW i \in 1 .. Len(new), NEW j \in 1 .. Len(new), i < j
      PROVE  \/ new[i].sample.call < new[j].sample.call
             \/ new[i].sample.call = new[j].sample.call /\ new[i].sample.k < new[j].sample.k
  <2>1. CASE j \in 1 .. P
    <3>1. i \in 1 .. P
      BY <1>1, <1>6, <2>1
    <3>2. new[i] = path[i] /\ new[j] = path[j]
      BY <1>1, <2>1, <3>1
    <3>3. \/ path[i].sample.call < path[j].sample.call
          \/ path[i].sample.call = path[j].sample.call /\ path[i].sample.k < path[j].sample.k
      BY <1>3, <1>6, <2>1, <3>1
    <3>4. QED
      BY <3>2, <3>3
  <2>2. CASE i \in 1 .. P /\ j \in P + 1 .. Len(new)
    <3>1. new[j].sample.call = entry.call
      BY <1>1, <2>2
    <3>2. PICK k \in 1 .. L : path[i].sample.call = log[k].call
      BY <1>3, <2>2
    <3>3. log[k].call < entry.call /\ new[i] = path[i]
      BY <1>1, <2>2 DEF L
    <3>4. QED
      BY <3>1, <3>2, <3>3
  <2>3. CASE i \in P + 1 .. Len(new) /\ j \in P + 1 .. Len(new)
    <3>1. /\ new[i] = es[i - P] /\ i - P \in 1 .. Len(es)
          /\ new[j] = es[j - P] /\ j - P \in 1 .. Len(es)
      BY <1>1, <2>3
    <3>2. /\ new[i].sample.call = new[j].sample.call
          /\ new[i].sample.k = i - P /\ new[j].sample.k = j - P
      BY <3>1
    <3>3. i - P < j - P
      BY <1>1, <1>6
    <3>4. QED
      BY <3>2, <3>3
  <2>4. QED
    BY <1>1, <1>6, <2>1, <2>2, <2>3
<1>7. Mirrors(new, newlog)
  BY <1>4, <1>5, <1>6 DEF Mirrors
<1>8. QED
  BY <1>7 DEF new, newlog

\* appendResultsToPath keeps a path one subpath.
LEMMA SubpathGrows ==
  ASSUME NEW path \in Seq(Element), NEW hasMove \in BOOLEAN,
         NEW samples \in Seq(Sample), IsSubpath(path, hasMove)
  PROVE  IsSubpath(path \o Elements(hasMove, samples), hasMove \/ samples # <<>>)
<1> DEFINE es  == Elements(hasMove, samples)
           new == path \o es
           P   == Len(path)
<1>1. /\ es \in Seq(Element) /\ Len(es) = Len(samples)
      /\ \A i \in 1 .. Len(es) : (es[i].op = "move") = (i = 1 /\ ~hasMove)
  BY ElementsFacts
<1>2. /\ P \in Nat /\ Len(es) \in Nat
      /\ (path = <<>>) = (P = 0) /\ (samples = <<>>) = (Len(es) = 0)
  BY <1>1
<1> HIDE DEF es
<1>3. /\ new \in Seq(Element) /\ Len(new) = P + Len(es)
      /\ \A i \in 1 .. P + Len(es) : new[i] = IF i <= P THEN path[i] ELSE es[i - P]
  <2>1. new \in Seq(Element) /\ Len(new) = P + Len(es)
    BY <1>1, ConcatProperties
  <2>2. \A i \in 1 .. P + Len(es) : new[i] = IF i <= P THEN path[i] ELSE es[i - P]
    BY <1>1, ConcatProperties
  <2>3. QED
    BY <2>1, <2>2
<1>4. (new = <<>>) = (Len(new) = 0)
  BY <1>3
<1> HIDE DEF new, P
<1>5. \A i \in 1 .. P : (path[i].op = "move") = (i = 1)
  BY DEF IsSubpath, P
<1>6. (hasMove => P # 0) /\ (P # 0 => hasMove)
  BY <1>2 DEF IsSubpath
<1>7. (hasMove \/ samples # <<>>) = (new # <<>>)
  <2>1. Len(new) # 0 => P # 0 \/ Len(es) # 0
    BY <1>2, <1>3
  <2>2. P # 0 \/ Len(es) # 0 => Len(new) # 0
    BY <1>2, <1>3
  <2>3. QED
    BY <1>2, <1>4, <1>6, <2>1, <2>2
<1>8. ASSUME NEW i \in 1 .. Len(new)
      PROVE  (new[i].op = "move") = (i = 1)
  <2>1. CASE i <= P
    BY <1>2, <1>3, <1>5, <2>1
  <2>2. CASE ~(i <= P)
    <3>1. new[i] = es[i - P] /\ i - P \in 1 .. Len(es)
      BY <1>2, <1>3, <2>2
    <3>2. (new[i].op = "move") = (i - P = 1 /\ ~hasMove)
      BY <1>1, <3>1
    <3>3. i \in Nat /\ i > P
      BY <1>2, <2>2
    <3>4. CASE hasMove
      <4>1. i # 1
        BY <1>2, <1>6, <3>3, <3>4
      <4>2. QED
        BY <3>2, <3>4, <4>1
    <3>5. CASE ~hasMove
      <4>1. P = 0
        BY <1>6, <3>5
      <4>2. i - P = i
        BY <3>3, <4>1
      <4>3. QED
        BY <3>2, <3>5, <4>2
    <3>6. QED
      BY <3>4, <3>5
  <2>3. QED
    BY <2>1, <2>2
<1>9. QED
  BY <1>7, <1>8 DEF IsSubpath, new, es

\* What an accepted input leaves in the core.
LEMMA AcceptedCore ==
  ASSUME NEW m \in ism_Modeler, NEW in \in Input, NEW u \in update(m, in),
         u.err = "none"
  PROVE  /\ Accepts(m.impl, in)
         /\ u.m.impl.serial = m.impl.serial + 1
         /\ in.event_type = "up" => u.m.impl.stroke = Nil
         /\ in.event_type # "up" => /\ u.m.impl.stroke # Nil
                                    /\ u.m.impl.stroke.down = DownOf(m.impl, in)
                                    /\ u.m.impl.stroke.last = in
<1> DEFINE c  == m.impl
           cc == AfterInput(c, in)
           open == [down |-> DownOf(c, in), last |-> in]
           st == IF in.event_type = "up" THEN Nil ELSE open
<1>1. Accepts(c, in) /\ u.m = [m EXCEPT !.impl = cc]
  BY UpdateReturns
<1>2. c \in Core
  BY DEF ism_Modeler
<1>3. cc.serial = c.serial + 1 /\ cc.stroke = st
  <2>1. cc = [c EXCEPT !.serial = c.serial + 1, !.stroke = st]
    BY DEF AfterInput
  <2> HIDE DEF cc, st
  <2>2. QED
    BY <1>2, <2>1 DEF Core
<1>4. open # Nil /\ open.down = DownOf(c, in) /\ open.last = in
  <2>1. open \in Stroke
    BY <1>1, <1>2, AcceptedInput, CoreAssumption DEF Stroke
  <2>2. QED
    BY <2>1, NilAssumption
<1> HIDE DEF cc, open
<1>5. u.m.impl = cc
  BY <1>1 DEF ism_Modeler
<1>6. u.m.impl.serial = c.serial + 1 /\ u.m.impl.stroke = st
  BY <1>3, <1>5
<1>7. QED
  BY <1>1, <1>4, <1>6

\* What a refused input leaves: everything as it was, and no samples.
LEMMA RefusedFacts ==
  ASSUME NEW m \in ism_Modeler, NEW in \in Input, NEW u \in update(m, in),
         u.err # "none"
  PROVE  u.m = m /\ u.samples = <<>>
BY UpdateThrows

LEMMA NothingAppended ==
  ASSUME NEW path \in Seq(Element), NEW hasMove \in BOOLEAN
  PROVE  /\ path \o Elements(hasMove, <<>>) = path
         /\ (hasMove \/ <<>> # <<>>) = hasMove
<1>1. Elements(hasMove, <<>>) = <<>>
  BY DEF Elements
<1>2. QED
  BY <1>1, ConcatEmptySeq

Entry(u, in) == [call       |-> u.m.impl.serial, event_type |-> in.event_type,
                 time       |-> in.time,         produced   |-> u.produced]

LEMMA EntryFacts ==
  ASSUME NEW m \in ism_Modeler, NEW in \in Input, NEW u \in update(m, in)
  PROVE  /\ Entry(u, in) \in Accepted
         /\ \A log : Log(log, u, in) = IF u.err # "none" THEN log
                                       ELSE Append(log, Entry(u, in))
<1>1. u.m.impl.serial \in Nat /\ u.produced \in Nat
  BY UpdateFacts DEF ism_Modeler, Core
<1>2. QED
  BY <1>1 DEF Log, Entry, Accepted, Input

\* An input, accepted or not, keeps path, flag, log and core consistent.
LEMMA FeedConsistent ==
  ASSUME NEW m \in ism_Modeler, NEW in \in Input, NEW u \in update(m, in),
         NEW path \in Seq(Element), NEW hasMove \in BOOLEAN,
         NEW log \in Seq(Accepted), Consistent(m, path, hasMove, log)
  PROVE  Consistent(u.m, path \o Elements(hasMove, u.samples),
                    hasMove \/ u.samples # <<>>, Log(log, u, in))
<1>1. CASE u.err # "none"
  <2>1. u.m = m /\ u.samples = <<>> /\ Log(log, u, in) = log
    BY <1>1, RefusedFacts, EntryFacts
  <2>2. QED
    BY <2>1, NothingAppended
<1>2. CASE u.err = "none"
  <2>1. /\ u.m.impl.serial = m.impl.serial + 1
        /\ Len(u.samples) = Least(u.produced, Capacity)
        /\ \A i \in 1 .. Len(u.samples) :
             u.samples[i].call = m.impl.serial + 1 /\ u.samples[i].k = i
    BY <1>2, AcceptedSamples, AcceptedCore
  <2> DEFINE entry  == Entry(u, in)
             es     == Elements(hasMove, u.samples)
             newlog == Append(log, entry)
  <2>2. /\ entry \in Accepted /\ Log(log, u, in) = newlog
        /\ entry.call = m.impl.serial + 1 /\ entry.produced = u.produced
    BY <1>2, <2>1, EntryFacts DEF Entry
  <2>3. u.samples \in Seq(Sample) /\ m.impl.serial \in Nat
    BY UpdateFacts DEF ism_Modeler, Core
  <2>4. /\ es \in Seq(Element) /\ Len(es) = Len(u.samples)
        /\ \A i \in 1 .. Len(u.samples) : es[i].sample = u.samples[i]
    BY <2>3, ElementsFacts
  <2> HIDE DEF entry, es
  <2>5. IsSubpath(path \o es, hasMove \/ u.samples # <<>>)
    BY <2>3, SubpathGrows DEF Consistent, es
  <2>6. \A j \in 1 .. Len(log) : log[j].call \in Nat /\ log[j].call < entry.call
    <3>1. \A j \in 1 .. Len(log) : log[j].call \in Nat
      <4>1. \A j \in 1 .. Len(log) : log[j] \in Accepted
        OBVIOUS
      <4>2. QED
        BY <4>1 DEF Accepted
    <3>2. \A j \in 1 .. Len(log) : log[j].call <= m.impl.serial
      BY DEF Consistent, Rising
    <3>3. QED
      BY <2>2, <2>3, <3>1, <3>2
  <2>7. Mirrors(path \o es, newlog)
    <3>1. Len(es) = Delivered(entry)
      BY <2>1, <2>2, <2>4 DEF Delivered
    <3>2. \A i \in 1 .. Len(es) : es[i].sample.call = entry.call /\ es[i].sample.k = i
      BY <2>1, <2>2, <2>4
    <3>3. QED
      BY <2>2, <2>4, <2>6, <3>1, <3>2, MirrorsGrows DEF Consistent
  <2>8. Rising(u.m, newlog)
    <3>1. /\ Len(newlog) = Len(log) + 1
          /\ \A j \in 1 .. Len(log) : newlog[j] = log[j]
          /\ newlog[Len(log) + 1] = entry
      BY <2>2, AppendProperties
    <3> HIDE DEF newlog
    <3>2. SUFFICES ASSUME NEW j \in 1 .. Len(newlog)
                   PROVE  /\ newlog[j].call <= m.impl.serial + 1
                          /\ \A i \in 1 .. j - 1 : newlog[i].call < newlog[j].call
      BY <2>1 DEF Rising
    <3>3. Len(log) \in Nat
      OBVIOUS
    <3>4. CASE j \in 1 .. Len(log)
      <4>1. newlog[j] = log[j] /\ \A i \in 1 .. j - 1 : newlog[i] = log[i]
        BY <3>1, <3>3, <3>4
      <4>2. /\ log[j].call <= m.impl.serial
            /\ \A i \in 1 .. j - 1 : log[i].call < log[j].call
        BY <3>4 DEF Consistent, Rising
      <4>3. log[j].call \in Nat
        BY <2>6, <3>4
      <4>4. QED
        BY <2>3, <4>1, <4>2, <4>3
    <3>5. CASE j = Len(log) + 1
      BY <2>2, <2>3, <2>6, <3>1, <3>3, <3>5
    <3>6. QED
      BY <3>1, <3>3, <3>4, <3>5
  <2>9. QED
    BY <2>2, <2>5, <2>7, <2>8 DEF Consistent, es
<1>3. QED
  BY <1>1, <1>2

\* A log in order stays in order when it gets a down as its first entry, or
\* later another event that is not earlier than the last.
LEMMA InOrderGrows ==
  ASSUME NEW log \in Seq(Accepted), NEW entry \in Accepted, InOrder(log),
         (entry.event_type = "down") = (log = <<>>),
         log # <<>> => log[Len(log)].time <= entry.time
  PROVE  InOrder(Append(log, entry))
<1> DEFINE new == Append(log, entry)
           L   == Len(log)
<1>1. /\ Len(new) = L + 1 /\ \A j \in 1 .. L : new[j] = log[j]
      /\ new[L + 1] = entry
  BY AppendProperties
<1>2. L \in Nat /\ (log = <<>>) = (L = 0)
  OBVIOUS
<1> HIDE DEF new, L
<1>3. SUFFICES ASSUME NEW j \in 1 .. Len(new)
               PROVE  /\ (new[j].event_type = "down") = (j = 1)
                      /\ j > 1 => new[j - 1].time <= new[j].time
  BY DEF InOrder, new
<1>4. CASE j \in 1 .. L
  <2>1. /\ (log[j].event_type = "down") = (j = 1)
        /\ j > 1 => log[j - 1].time <= log[j].time
    BY <1>4 DEF InOrder, L
  <2>2. new[j] = log[j] /\ (j > 1 => new[j - 1] = log[j - 1])
    BY <1>1, <1>2, <1>4
  <2>3. QED
    BY <2>1, <2>2
<1>5. CASE j = L + 1
  <2>1. new[j] = entry
    BY <1>1, <1>5
  <2>2. (j = 1) = (log = <<>>)
    BY <1>2, <1>5
  <2>3. ASSUME j > 1 PROVE new[j - 1].time <= entry.time
    <3>1. j - 1 = L /\ L \in 1 .. L /\ log # <<>>
      BY <1>2, <1>5, <2>3
    <3>2. new[j - 1] = log[L]
      BY <1>1, <3>1
    <3>3. QED
      BY <3>1, <3>2 DEF L
  <2>4. (new[j].event_type = "down") = (j = 1)
    BY <2>1, <2>2
  <2>5. QED
    BY <2>1, <2>3, <2>4
<1>6. QED
  BY <1>1, <1>2, <1>4, <1>5

\* The down event opens a stroke in a core without one, or nothing changes.
LEMMA DownDraws ==
  ASSUME NEW m \in ism_Modeler, NEW in \in Input, NEW u \in update(m, in),
         in.event_type = "down", m.impl.stroke = Nil
  PROVE  Drawing(u.m, Log(<<>>, u, in))
<1>1. <<>> \in Seq(Accepted) /\ Len(<<>>) = 0
  OBVIOUS
<1>2. InOrder(<<>>)
  BY <1>1 DEF InOrder
<1>3. CASE u.err # "none"
  <2>1. u.m = m /\ Log(<<>>, u, in) = <<>>
    BY <1>3, RefusedFacts, EntryFacts
  <2>2. QED
    BY <1>1, <1>2, <2>1 DEF Drawing
<1>4. CASE u.err = "none"
  <2> DEFINE entry == Entry(u, in)
             new   == Append(<<>>, entry)
  <2>1. /\ entry \in Accepted /\ Log(<<>>, u, in) = new
        /\ entry.event_type = "down" /\ entry.time = in.time
        /\ entry.call = u.m.impl.serial
    BY <1>4, EntryFacts DEF Entry
  <2>2. /\ u.m.impl.serial = m.impl.serial + 1
        /\ u.m.impl.stroke # Nil
        /\ u.m.impl.stroke.down = DownOf(m.impl, in)
        /\ u.m.impl.stroke.last = in
    BY <1>4, AcceptedCore
  <2>3. DownOf(m.impl, in) = m.impl.serial + 1
    BY DEF DownOf
  <2> HIDE DEF entry
  <2>4. InOrder(new)
    BY <1>1, <1>2, <2>1, InOrderGrows
  <2>5. Len(new) = 1 /\ new[1] = entry /\ new # <<>>
    OBVIOUS
  <2> HIDE DEF new
  <2>6. \A j \in 1 .. Len(new) : new[j].event_type # "up"
    BY <2>1, <2>5
  <2>7. QED
    BY <2>1, <2>2, <2>3, <2>4, <2>5, <2>6 DEF Drawing
<1>5. QED
  BY <1>3, <1>4

\* What an accepted move or up says about the stroke it belongs to.
LEMMA AcceptedInStroke ==
  ASSUME NEW m \in ism_Modeler, NEW in \in Input, NEW u \in update(m, in),
         u.err = "none", in.event_type # "down",
         NEW log \in Seq(Accepted), Drawing(m, log)
  PROVE  /\ log # <<>> /\ m.impl.stroke # Nil
         /\ DownOf(m.impl, in) = log[1].call
         /\ InOrder(Append(log, Entry(u, in)))
<1>1. Accepts(m.impl, in)
  BY AcceptedCore
<1>2. m.impl.stroke # Nil /\ m.impl.stroke.last.time <= in.time
  <2>1. m.impl.stroke # Nil
    BY <1>1 DEF Accepts, OutOfOrder
  <2>2. m.impl.stroke \in Stroke
    BY <2>1 DEF ism_Modeler, Core
  <2>3. m.impl.stroke.last.time \in Int /\ in.time \in Int
    BY <2>2 DEF Stroke, Input, Times
  <2>4. ~(in.time < m.impl.stroke.last.time)
    BY <1>1, <2>1 DEF Accepts, Unacceptable
  <2>5. QED
    BY <2>1, <2>3, <2>4
<1>3. /\ log # <<>> /\ m.impl.stroke.down = log[1].call
      /\ m.impl.stroke.last.time = log[Len(log)].time
  BY <1>2 DEF Drawing
<1>4. DownOf(m.impl, in) = log[1].call
  BY <1>3 DEF DownOf
<1> DEFINE entry == Entry(u, in)
<1>5. /\ entry \in Accepted /\ entry.event_type = in.event_type
      /\ entry.time = in.time
  BY EntryFacts DEF Entry
<1> HIDE DEF entry
<1>6. InOrder(Append(log, entry))
  BY <1>2, <1>3, <1>5, InOrderGrows DEF Drawing
<1>7. QED
  BY <1>2, <1>3, <1>4, <1>6 DEF entry

\* A move goes on with the stroke, or nothing changes.
LEMMA MoveDraws ==
  ASSUME NEW m \in ism_Modeler, NEW in \in Input, NEW u \in update(m, in),
         in.event_type = "move",
         NEW log \in Seq(Accepted), Drawing(m, log)
  PROVE  Drawing(u.m, Log(log, u, in))
<1>1. CASE u.err # "none"
  BY <1>1, RefusedFacts, EntryFacts
<1>2. CASE u.err = "none"
  <2> DEFINE entry == Entry(u, in)
             new   == Append(log, entry)
  <2>1. /\ entry \in Accepted /\ Log(log, u, in) = new
        /\ entry.event_type = "move" /\ entry.time = in.time
    BY <1>2, EntryFacts DEF Entry
  <2>2. /\ u.m.impl.stroke # Nil
        /\ u.m.impl.stroke.down = DownOf(m.impl, in)
        /\ u.m.impl.stroke.last = in
    BY <1>2, AcceptedCore
  <2>3. log # <<>> /\ DownOf(m.impl, in) = log[1].call /\ InOrder(new)
    BY <1>2, AcceptedInStroke
  <2> HIDE DEF entry
  <2>4. /\ Len(new) = Len(log) + 1 /\ new # <<>>
        /\ \A j \in 1 .. Len(log) : new[j] = log[j]
        /\ new[Len(log) + 1] = entry
    BY <2>1, AppendProperties
  <2> HIDE DEF new
  <2>5. Len(log) \in Nat /\ Len(log) # 0
    BY <2>3
  <2>6. \A j \in 1 .. Len(new) : new[j].event_type # "up"
    <3>1. \A j \in 1 .. Len(log) : log[j].event_type # "up"
      BY DEF Drawing
    <3>2. QED
      BY <2>1, <2>4, <2>5, <3>1
  <2>7. new[1] = log[1] /\ new[Len(new)] = entry
    BY <2>4, <2>5
  <2>8. QED
    BY <2>1, <2>2, <2>3, <2>4, <2>6, <2>7 DEF Drawing
<1>3. QED
  BY <1>1, <1>2

\* An up completes the stroke, or nothing changes.
LEMMA UpCompletes ==
  ASSUME NEW m \in ism_Modeler, NEW in \in Input, NEW u \in update(m, in),
         in.event_type = "up",
         NEW log \in Seq(Accepted), Drawing(m, log)
  PROVE  /\ u.err = "none" => Complete(u.m, Log(log, u, in))
         /\ u.err # "none" => Drawing(u.m, Log(log, u, in))
<1>1. CASE u.err # "none"
  BY <1>1, RefusedFacts, EntryFacts
<1>2. CASE u.err = "none"
  <2> DEFINE entry == Entry(u, in)
             new   == Append(log, entry)
  <2>1. /\ entry \in Accepted /\ Log(log, u, in) = new
        /\ entry.event_type = "up"
    BY <1>2, EntryFacts DEF Entry
  <2>2. u.m.impl.stroke = Nil
    BY <1>2, AcceptedCore
  <2>3. InOrder(new)
    BY <1>2, AcceptedInStroke
  <2> HIDE DEF entry
  <2>4. /\ Len(new) = Len(log) + 1 /\ new # <<>>
        /\ \A j \in 1 .. Len(log) : new[j] = log[j]
        /\ new[Len(log) + 1] = entry
    BY <2>1, AppendProperties
  <2> HIDE DEF new
  <2>5. Len(log) \in Nat
    OBVIOUS
  <2>6. \A j \in 1 .. Len(new) : (new[j].event_type = "up") = (j = Len(new))
    <3>1. \A j \in 1 .. Len(log) : log[j].event_type # "up"
      BY DEF Drawing
    <3>2. SUFFICES ASSUME NEW j \in 1 .. Len(new)
                   PROVE  (new[j].event_type = "up") = (j = Len(new))
      OBVIOUS
    <3>3. CASE j \in 1 .. Len(log)
      BY <2>4, <2>5, <3>1, <3>3
    <3>4. CASE j = Len(log) + 1
      BY <2>1, <2>4, <3>4
    <3>5. QED
      BY <2>4, <2>5, <3>3, <3>4
  <2>7. QED
    BY <1>2, <2>1, <2>2, <2>3, <2>4, <2>6 DEF Complete
<1>3. QED
  BY <1>1, <1>2

LEMMA EmptyConsistent == \A m : Consistent(m, <<>>, FALSE, <<>>)
<1>1. \A i : i \notin 1 .. Len(<<>>)
  OBVIOUS
<1>2. IsSubpath(<<>>, FALSE)
  BY <1>1 DEF IsSubpath
<1>3. Mirrors(<<>>, <<>>)
  BY <1>1 DEF Mirrors
<1>4. \A m : Rising(m, <<>>)
  BY <1>1 DEF Rising
<1>5. QED
  BY <1>2, <1>3, <1>4 DEF Consistent

\* The part of Inv that the steps establish; TypeStep does the rest.
Safe == Consistent(modeler, pathMutable, hasPathMove, accepted) /\ FlagsInv

LEMMA InvInit == Init => Inv
<1> SUFFICES ASSUME Init PROVE Inv
  OBVIOUS
<1>1. TypeOK
  BY TypeInit
<1>2. /\ pathMutable = <<>> /\ hasPathMove = FALSE /\ accepted = <<>>
      /\ started = FALSE /\ ended = FALSE
  BY DEF Init, pathMutable
<1>3. Consistent(modeler, pathMutable, hasPathMove, accepted)
  BY <1>2, EmptyConsistent
<1>4. QED
  BY <1>1, <1>2, <1>3 DEF Inv, FlagsInv

\* A step that leaves stroke, path and flags alone.
LEMMA IdleSafe ==
  ASSUME Inv, UNCHANGED <<modeler, started, ended, paths, hasPathMove, accepted>>
  PROVE  Safe'
BY DEF Inv, Safe, FlagsInv, pathMutable

LEMMA ResetPathSafe ==
  ASSUME Inv, resetPath
  PROVE  Safe'
<1>1. /\ paths' = Append(paths, <<>>)
      /\ started' = FALSE /\ ended' = FALSE /\ hasPathMove' = FALSE
      /\ accepted' = <<>>
  BY DEF resetPath
<1>2. pathMutable' = <<>>
  <2>1. paths \in Seq(Seq(Element)) /\ <<>> \in Seq(Element)
    BY DEF Inv, TypeOK
  <2>2. /\ Len(Append(paths, <<>>)) = Len(paths) + 1
        /\ Append(paths, <<>>)[Len(paths) + 1] = <<>>
    BY <2>1, AppendProperties
  <2>3. QED
    BY <1>1, <2>2 DEF pathMutable
<1>3. Consistent(modeler', pathMutable', hasPathMove', accepted')
  BY <1>1, <1>2, EmptyConsistent
<1>4. QED
  BY <1>1, <1>2, <1>3 DEF Safe, FlagsInv

\* Before a stroke, path and history are empty.
LEMMA BeforeStroke ==
  ASSUME Inv, ~started
  PROVE  /\ ended = FALSE /\ accepted = <<>> /\ pathMutable = <<>>
         /\ hasPathMove = FALSE
<1>1. ended = FALSE /\ accepted = <<>> /\ pathMutable = <<>>
  BY DEF Inv, FlagsInv, TypeOK
<1>2. hasPathMove = FALSE
  BY <1>1 DEF Inv, Consistent, IsSubpath
<1>3. QED
  BY <1>1, <1>2

LEMMA StartSafe ==
  ASSUME Inv, NEW point \in CGPoints, NEW time \in Times, start(point, time)
  PROVE  Safe'
<1> DEFINE r == resetWith(modeler, config)
<1>1. modeler \in ism_Modeler /\ config \in Request
  BY ConfigsAssumption DEF Inv, TypeOK
<1>2. CASE startRefused
  BY <1>2, IdleSafe DEF startRefused
<1>3. CASE startRejected
  <2>1. /\ ~started
        /\ UNCHANGED <<started, ended, paths, hasPathMove, accepted>>
    BY <1>3 DEF startRejected
  <2>2. /\ ended = FALSE /\ accepted = <<>> /\ pathMutable = <<>>
        /\ hasPathMove = FALSE
    BY <2>1, BeforeStroke
  <2>3. pathMutable' = <<>>
    BY <2>1, <2>2 DEF pathMutable
  <2>4. Consistent(modeler', pathMutable', hasPathMove', accepted')
    BY <2>1, <2>2, <2>3, EmptyConsistent
  <2>5. QED
    BY <2>1, <2>2, <2>3, <2>4 DEF Safe, FlagsInv
<1>4. CASE startDown(point, time)
  <2> DEFINE in == StrokeInput("down", AsFloat[point], time)
  <2>1. /\ ~started /\ r.err = "none"
        /\ started' = TRUE /\ ended' = ended
    BY <1>4 DEF startDown
  <2>2. PICK u \in update(r.m, in) :
          /\ modeler' = u.m
          /\ appendResultsToPath(pathMutable, FALSE, u.samples)
          /\ accepted' = Log(accepted, u, in)
    BY <1>4 DEF startDown
  <2>3. in \in Input /\ in.event_type = "down"
    BY InputTypes DEF Events, StrokeInput
  <2>4. r.m \in ism_Modeler /\ r.m.impl.stroke = Nil
    <3>1. r.m \in ism_Modeler
      BY <1>1, ResetWithFacts
    <3>2. r.m.impl = [modeler.impl EXCEPT !.params = Wanted(config), !.stroke = Nil,
                                          !.saved = Nil]
      BY <1>1, <2>1, ResetWithFacts
    <3>3. modeler.impl \in Core
      BY <1>1 DEF ism_Modeler
    <3>4. QED
      BY <3>1, <3>2, <3>3 DEF Core
  <2> HIDE DEF r, in
  <2>5. ended = FALSE /\ accepted = <<>> /\ pathMutable = <<>>
    BY <2>1, BeforeStroke
  <2>6. u.samples \in Seq(Sample) /\ <<>> \in Seq(Element) /\ <<>> \in Seq(Accepted)
    <3>1. u.samples \in Seq(Sample)
      BY <2>3, <2>4, UpdateFacts
    <3>2. <<>> \in Seq(Element)
      OBVIOUS
    <3>3. <<>> \in Seq(Accepted)
      OBVIOUS
    <3>4. QED
      BY <3>1, <3>2, <3>3
  <2>7. /\ pathMutable' = <<>> \o Elements(FALSE, u.samples)
        /\ hasPathMove' = (FALSE \/ u.samples # <<>>)
    BY <2>2, <2>5, <2>6, AppendFacts DEF Inv, TypeOK
  <2>8. Consistent(modeler', pathMutable', hasPathMove', accepted')
    BY <2>2, <2>3, <2>4, <2>5, <2>6, <2>7, EmptyConsistent, FeedConsistent
  <2>9. Drawing(modeler', accepted')
    BY <2>2, <2>3, <2>4, <2>5, DownDraws
  <2>10. QED
    BY <2>1, <2>5, <2>8, <2>9 DEF Safe, FlagsInv
<1>5. QED
  BY <1>2, <1>3, <1>4 DEF start

LEMMA AppendSafe ==
  ASSUME Inv, NEW point \in CGPoints, NEW time \in Times, append(point, time)
  PROVE  Safe'
<1>1. CASE appendRefused
  BY <1>1, IdleSafe DEF appendRefused
<1>2. CASE appendMove(point, time)
  <2> DEFINE in == StrokeInput("move", AsFloat[point], time)
  <2>1. started /\ ~ended /\ started' = started /\ ended' = ended
    BY <1>2 DEF appendMove
  <2>2. PICK u \in update(modeler, in) :
          /\ modeler' = u.m
          /\ appendResultsToPath(pathMutable, hasPathMove, u.samples)
          /\ accepted' = Log(accepted, u, in)
    BY <1>2 DEF appendMove
  <2>3. in \in Input /\ in.event_type = "move"
    BY InputTypes DEF Events, StrokeInput
  <2> HIDE DEF in
  <2>4. /\ modeler \in ism_Modeler /\ accepted \in Seq(Accepted)
        /\ hasPathMove \in BOOLEAN /\ pathMutable \in Seq(Element)
    BY PathMutableType DEF Inv, TypeOK
  <2>5. u.samples \in Seq(Sample)
    BY <2>3, <2>4, UpdateFacts
  <2>6. /\ pathMutable' = pathMutable \o Elements(hasPathMove, u.samples)
        /\ hasPathMove' = (hasPathMove \/ u.samples # <<>>)
    BY <2>2, <2>4, <2>5, AppendFacts DEF Inv, TypeOK
  <2>7. Consistent(modeler', pathMutable', hasPathMove', accepted')
    BY <2>2, <2>3, <2>4, <2>6, FeedConsistent DEF Inv
  <2>8. Drawing(modeler', accepted')
    BY <2>1, <2>2, <2>3, <2>4, MoveDraws DEF Inv, FlagsInv
  <2>9. QED
    BY <2>1, <2>7, <2>8 DEF Safe, FlagsInv
<1>3. QED
  BY <1>1, <1>2 DEF append

\* The up event that ends a stroke, on whatever the move before it left.
LEMMA SendUpSafe ==
  ASSUME Inv, started, started' = started,
         NEW m \in ism_Modeler, NEW path \in Seq(Element), NEW hasMove \in BOOLEAN,
         NEW log \in Seq(Accepted), Consistent(m, path, hasMove, log),
         Drawing(m, log),
         NEW time \in Times \cup {Nil}, NEW point \in CGPoints \cup {Nil},
         SendUp(m, path, hasMove, log, time, point)
  PROVE  Safe'
<1> DEFINE in == UpInput(time, point)
<1>1. PICK u \in update(m, in) :
        /\ modeler' = u.m
        /\ appendResultsToPath(path, hasMove, u.samples)
        /\ accepted' = Log(log, u, in)
        /\ ended' = (u.err = "none")
  BY DEF SendUp
<1>2. in \in Input /\ in.event_type = "up"
  BY InputTypes DEF UpInput, StrokeInput
<1> HIDE DEF in
<1>3. u.samples \in Seq(Sample)
  BY <1>2, UpdateFacts
<1>4. /\ pathMutable' = path \o Elements(hasMove, u.samples)
      /\ hasPathMove' = (hasMove \/ u.samples # <<>>)
  BY <1>1, <1>3, AppendFacts DEF Inv, TypeOK
<1>5. Consistent(modeler', pathMutable', hasPathMove', accepted')
  BY <1>1, <1>2, <1>4, FeedConsistent
<1>6. IF u.err = "none" THEN Complete(modeler', accepted')
                        ELSE Drawing(modeler', accepted')
  BY <1>1, <1>2, UpCompletes
<1>7. QED
  BY <1>1, <1>5, <1>6 DEF Safe, FlagsInv

LEMMA EndSafe ==
  ASSUME Inv, NEW point \in CGPoints \cup {Nil}, NEW time \in Times \cup {Nil},
         end(time, point)
  PROVE  Safe'
<1>1. /\ modeler \in ism_Modeler /\ accepted \in Seq(Accepted)
      /\ hasPathMove \in BOOLEAN /\ pathMutable \in Seq(Element)
  BY PathMutableType DEF Inv, TypeOK
<1>2. CASE endRefused
  BY <1>2, IdleSafe DEF endRefused
<1>3. CASE endMoveThrows(time, point)
  <2> DEFINE in == StrokeInput("move", AsFloat[point], time)
  <2>1. in \in Input
    BY <1>3, InputTypes DEF endMoveThrows, Events
  <2>2. PICK u \in update(modeler, in) : u.err # "none" /\ modeler' = u.m
    BY <1>3 DEF endMoveThrows
  <2>3. modeler' = modeler
    BY <1>1, <2>1, <2>2, RefusedFacts
  <2>4. QED
    BY <1>3, <2>3, IdleSafe DEF endMoveThrows
<1>4. CASE endMoveUp(time, point)
  <2> DEFINE in == StrokeInput("move", AsFloat[point], time)
  <2>1. started /\ ~ended /\ started' = started
    BY <1>4 DEF endMoveUp
  <2>2. in \in Input /\ in.event_type = "move"
    BY <1>4, InputTypes DEF endMoveUp, Events, StrokeInput
  <2>3. PICK u \in update(modeler, in) :
          SendUp(u.m, pathMutable \o Elements(hasPathMove, u.samples),
                 hasPathMove \/ u.samples # <<>>, Log(accepted, u, in), time, point)
    BY <1>4 DEF endMoveUp
  <2> HIDE DEF in
  <2> DEFINE path    == pathMutable \o Elements(hasPathMove, u.samples)
             hasMove == hasPathMove \/ u.samples # <<>>
             log     == Log(accepted, u, in)
  <2>4. u.m \in ism_Modeler /\ u.samples \in Seq(Sample)
    BY <1>1, <2>2, UpdateFacts
  <2>5. path \in Seq(Element) /\ hasMove \in BOOLEAN /\ log \in Seq(Accepted)
    BY <1>1, <2>2, <2>4, PathGrows, LogType
  <2>6. Consistent(u.m, path, hasMove, log)
    BY <1>1, <2>2, FeedConsistent DEF Inv
  <2>7. Drawing(u.m, log)
    BY <1>1, <2>1, <2>2, MoveDraws DEF Inv, FlagsInv
  <2> HIDE DEF path, hasMove, log
  <2>8. SendUp(u.m, path, hasMove, log, time, point)
    BY <2>3 DEF path, hasMove, log
  <2>9. QED
    BY <2>1, <2>4, <2>5, <2>6, <2>7, <2>8, SendUpSafe
<1>5. CASE endUp(time, point)
  <2>1. /\ started /\ ~ended /\ started' = started
        /\ SendUp(modeler, pathMutable, hasPathMove, accepted, time, point)
    BY <1>5 DEF endUp
  <2>2. /\ Consistent(modeler, pathMutable, hasPathMove, accepted)
        /\ Drawing(modeler, accepted)
    BY <2>1 DEF Inv, FlagsInv
  <2>3. QED
    BY <1>1, <2>1, <2>2, SendUpSafe
<1>6. QED
  BY <1>2, <1>3, <1>4, <1>5 DEF end

LEMMA InvStep == Inv /\ [Next]_vars => Inv'
<1> SUFFICES ASSUME Inv, [Next]_vars
             PROVE  Inv'
  OBVIOUS
<1>1. TypeOK'
  BY TypeStep DEF Inv
<1>2. Safe'
  <2>1. CASE getPath
    BY <2>1, IdleSafe DEF getPath
  <2>2. CASE resetPath
    BY <2>2, ResetPathSafe
  <2>3. ASSUME NEW point \in CGPoints, NEW time \in Times,
               start(point, time) \/ append(point, time)
        PROVE  Safe'
    BY <2>3, StartSafe, AppendSafe
  <2>4. ASSUME NEW point \in CGPoints \cup {Nil}, NEW time \in Times \cup {Nil},
               end(time, point)
        PROVE  Safe'
    BY <2>4, EndSafe
  <2>5. CASE UNCHANGED vars
    BY <2>5, IdleSafe DEF vars
  <2>6. QED
    BY <2>1, <2>2, <2>3, <2>4, <2>5 DEF Next
<1>3. QED
  BY <1>1, <1>2 DEF Inv, Safe

\* The inductive invariant holds in every reachable state.
THEOREM Invariance == Spec => []Inv
BY InvInit, InvStep, PTL DEF Spec

--------------------------------------------------------------------------------
(***************************************************************************)
(* The safety invariants                                                   *)
(***************************************************************************)

\* The path is exactly what the accepted inputs of the stroke delivered, for any
\* buffer size and any number of results per input, and after any mix of
\* failed calls and resets.
THEOREM PathMirrors == Spec => []PathMirrorsStroke
<1>1. Inv => PathMirrorsStroke
  BY DEF Inv, Consistent, PathMirrorsStroke
<1>2. QED
  BY <1>1, Invariance, PTL

\* A path never gets a line before its move, nor a second move.
THEOREM Subpath == Spec => []OneSubpath
<1>1. Inv => OneSubpath
  BY DEF Inv, Consistent, OneSubpath
<1>2. QED
  BY <1>1, Invariance, PTL

\* started and ended never disagree with the stroke inside the modeler.
THEOREM FlagsAgree == Spec => []FlagsAgreeWithModeler
<1>1. Inv => FlagsAgreeWithModeler
  BY DEF Inv, FlagsInv, Drawing, Complete, FlagsAgreeWithModeler, TypeOK
<1>2. QED
  BY <1>1, Invariance, PTL

\* Whatever the caller does and the core refuses, what the core accepts of a
\* stroke is one down, moves, and at most one up, in order of time.
THEOREM StrokeWellFormed == Spec => []WellFormedStroke
<1>1. Inv => WellFormedStroke
  <2> SUFFICES ASSUME Inv PROVE WellFormedStroke
    OBVIOUS
  <2>1. accepted \in Seq(Accepted)
    BY DEF Inv, TypeOK
  <2>2. CASE ~started
    BY <2>2, BeforeStroke DEF WellFormedStroke
  <2>3. CASE started /\ ~ended
    BY <2>3 DEF Inv, FlagsInv, Drawing, InOrder, WellFormedStroke
  <2>4. CASE started /\ ended
    <3>1. Complete(modeler, accepted)
      BY <2>4 DEF Inv, FlagsInv
    <3>2. Len(accepted) \in 1 .. Len(accepted)
      BY <2>1, <3>1 DEF Complete
    <3>3. QED
      BY <2>4, <3>1, <3>2 DEF Complete, InOrder, WellFormedStroke
  <2>5. QED
    BY <2>2, <2>3, <2>4
<1>2. QED
  BY <1>1, Invariance, PTL

--------------------------------------------------------------------------------
(***************************************************************************)
(* Paths only grow: what a step does to the path objects                   *)
(***************************************************************************)

Prefix(a, b) == Len(a) <= Len(b) /\ \A i \in 1 .. Len(a) : b[i] = a[i]

LEMMA PrefixIsSubSeq ==
  ASSUME NEW a \in Seq(Element), NEW b \in Seq(Element)
  PROVE  Prefix(a, b) <=> Len(a) <= Len(b) /\ SubSeq(b, 1, Len(a)) = a
<1>1. ASSUME Prefix(a, b) PROVE Len(a) <= Len(b) /\ SubSeq(b, 1, Len(a)) = a
  <2>1. Len(a) \in Nat /\ Len(b) \in Nat /\ Len(a) <= Len(b)
    BY <1>1 DEF Prefix
  <2>2. Len(SubSeq(b, 1, Len(a))) = Len(a) /\ SubSeq(b, 1, Len(a)) \in Seq(Element)
    BY <2>1
  <2>3. \A i \in 1 .. Len(a) : SubSeq(b, 1, Len(a))[i] = a[i]
    BY <1>1, <2>1 DEF Prefix
  <2>4. QED
    BY <2>1, <2>2, <2>3, SeqEqual
<1>2. ASSUME Len(a) <= Len(b), SubSeq(b, 1, Len(a)) = a PROVE Prefix(a, b)
  <2>1. \A i \in 1 .. Len(a) : SubSeq(b, 1, Len(a))[i] = b[i]
    BY <1>2
  <2>2. QED
    BY <1>2, <2>1 DEF Prefix
<1>3. QED
  BY <1>1, <1>2

LEMMA ConcatGrows ==
  ASSUME NEW a \in Seq(Element), NEW b \in Seq(Element)
  PROVE  Prefix(a, a \o b)
<1>1. /\ Len(a \o b) = Len(a) + Len(b)
      /\ \A i \in 1 .. Len(a) + Len(b) : (a \o b)[i] = IF i <= Len(a) THEN a[i]
                                                       ELSE b[i - Len(a)]
  BY ConcatProperties
<1>2. Len(a) \in Nat /\ Len(b) \in Nat
  OBVIOUS
<1>3. QED
  BY <1>1, <1>2 DEF Prefix

LEMMA PrefixTransitive ==
  ASSUME NEW a \in Seq(Element), NEW b \in Seq(Element), NEW c \in Seq(Element),
         Prefix(a, b), Prefix(b, c)
  PROVE  Prefix(a, c)
BY DEF Prefix

\* The path objects after a batch was appended to `path', itself an extension of
\* the mutable path.
Written == /\ Len(paths') = Len(paths)
           /\ \A i \in 1 .. Len(paths) : i # Len(paths) => paths'[i] = paths[i]
           /\ Prefix(pathMutable, pathMutable')

LEMMA AppendWrites ==
  ASSUME TypeOK, NEW path \in Seq(Element), NEW hasMove \in BOOLEAN,
         NEW samples \in Seq(Sample), Prefix(pathMutable, path),
         appendResultsToPath(path, hasMove, samples)
  PROVE  Written
<1>1. /\ paths \in Seq(Seq(Element)) /\ paths # <<>>
      /\ pathMutable \in Seq(Element)
  BY PathMutableType DEF TypeOK
<1>2. /\ Len(paths') = Len(paths)
      /\ \A i \in 1 .. Len(paths) : i # Len(paths) => paths'[i] = paths[i]
      /\ pathMutable' = path \o Elements(hasMove, samples)
  BY <1>1, AppendFacts
<1>3. /\ Elements(hasMove, samples) \in Seq(Element)
      /\ path \o Elements(hasMove, samples) \in Seq(Element)
  BY ElementsFacts, PathGrows
<1>4. Prefix(path, path \o Elements(hasMove, samples))
  BY <1>3, ConcatGrows
<1>5. Prefix(pathMutable, pathMutable')
  BY <1>1, <1>2, <1>3, <1>4, PrefixTransitive
<1>6. QED
  BY <1>2, <1>5 DEF Written

LEMMA PrefixReflexive == \A a : Len(a) \in Int => Prefix(a, a)
BY DEF Prefix

LEMMA InvTypes ==
  ASSUME Inv
  PROVE  /\ TypeOK
         /\ modeler \in ism_Modeler /\ accepted \in Seq(Accepted)
         /\ started \in BOOLEAN /\ ended \in BOOLEAN
         /\ hasPathMove \in BOOLEAN /\ pathMutable \in Seq(Element)
         /\ paths \in Seq(Seq(Element)) /\ paths # <<>>
BY PathMutableType DEF Inv, TypeOK

LEMMA AppendedNothing ==
  ASSUME Inv, NEW path \in Seq(Element), NEW hasMove \in BOOLEAN,
         appendResultsToPath(path, hasMove, <<>>)
  PROVE  pathMutable' = path
<1>1. <<>> \in Seq(Sample)
  OBVIOUS
<1>2. pathMutable' = path \o Elements(hasMove, <<>>)
  BY <1>1, AppendFacts, InvTypes
<1>3. QED
  BY <1>2, NothingAppended

LEMMA StartOutcome ==
  ASSUME Inv, NEW point \in CGPoints, NEW time \in Times, startDown(point, time)
  PROVE  /\ ~started /\ ~ended /\ pathMutable = <<>>
         /\ started' = TRUE /\ ended' = FALSE /\ handed' = handed /\ Written
         /\ modeler'.impl.stroke = Nil => pathMutable' = <<>>
<1> DEFINE r  == resetWith(modeler, config)
           in == StrokeInput("down", AsFloat[point], time)
<1>1. /\ ~started /\ r.err = "none"
      /\ started' = TRUE /\ ended' = ended /\ handed' = handed
  BY DEF startDown
<1>2. PICK u \in update(r.m, in) :
        /\ modeler' = u.m
        /\ appendResultsToPath(pathMutable, FALSE, u.samples)
  BY DEF startDown
<1>3. ended = FALSE /\ pathMutable = <<>>
  BY <1>1, BeforeStroke
<1>4. in \in Input /\ in.event_type = "down"
  BY InputTypes DEF Events, StrokeInput
<1>5. r.m \in ism_Modeler
  BY ResetWithFacts, ConfigsAssumption DEF Inv, TypeOK
<1> HIDE DEF r, in
<1>6. Written
  <2>1. u.samples \in Seq(Sample)
    BY <1>4, <1>5, UpdateFacts
  <2>2. Prefix(pathMutable, pathMutable)
    BY InvTypes, PrefixReflexive
  <2>3. QED
    BY <1>2, <2>1, <2>2, InvTypes, AppendWrites
<1>7. ASSUME modeler'.impl.stroke = Nil PROVE pathMutable' = <<>>
  <2>1. u.err # "none"
    BY <1>2, <1>4, <1>5, <1>7, AcceptedCore
  <2>2. u.samples = <<>>
    BY <1>4, <1>5, <2>1, RefusedFacts
  <2>3. appendResultsToPath(pathMutable, FALSE, <<>>)
    BY <1>2, <2>2
  <2>4. QED
    BY <1>3, <2>3, InvTypes, AppendedNothing
<1>8. QED
  BY <1>1, <1>3, <1>6, <1>7

LEMMA AppendOutcome ==
  ASSUME Inv, NEW point \in CGPoints, NEW time \in Times, appendMove(point, time)
  PROVE  /\ started /\ ~ended
         /\ started' = started /\ ended' = ended /\ handed' = handed /\ Written
         /\ \/ modeler.impl.stroke # Nil /\ modeler'.impl.stroke # Nil
            \/ modeler' = modeler /\ pathMutable' = pathMutable
<1> DEFINE in == StrokeInput("move", AsFloat[point], time)
<1>1. /\ started /\ ~ended
      /\ started' = started /\ ended' = ended /\ handed' = handed
  BY DEF appendMove
<1>2. PICK u \in update(modeler, in) :
        /\ modeler' = u.m
        /\ appendResultsToPath(pathMutable, hasPathMove, u.samples)
  BY DEF appendMove
<1>3. in \in Input /\ in.event_type = "move"
  BY InputTypes DEF Events, StrokeInput
<1> HIDE DEF in
<1>4. Written
  <2>1. u.samples \in Seq(Sample)
    BY <1>3, InvTypes, UpdateFacts
  <2>2. Prefix(pathMutable, pathMutable)
    BY InvTypes, PrefixReflexive
  <2>3. QED
    BY <1>2, <2>1, <2>2, InvTypes, AppendWrites
<1>5. CASE u.err = "none"
  <2>1. Accepts(modeler.impl, in) /\ u.m.impl.stroke # Nil
    BY <1>3, <1>5, InvTypes, AcceptedCore
  <2>2. modeler.impl.stroke # Nil
    BY <1>3, <2>1 DEF Accepts, OutOfOrder
  <2>3. QED
    BY <1>1, <1>2, <1>4, <2>1, <2>2
<1>6. CASE u.err # "none"
  <2>1. u.m = modeler /\ u.samples = <<>>
    BY <1>3, <1>6, InvTypes, RefusedFacts
  <2>2. appendResultsToPath(pathMutable, hasPathMove, <<>>)
    BY <1>2, <2>1
  <2>3. pathMutable' = pathMutable
    BY <2>2, InvTypes, AppendedNothing
  <2>4. QED
    BY <1>1, <1>2, <1>4, <2>1, <2>3
<1>7. QED
  BY <1>5, <1>6

LEMMA SendUpOutcome ==
  ASSUME Inv, NEW m \in ism_Modeler, NEW path \in Seq(Element),
         NEW hasMove \in BOOLEAN, NEW log, Prefix(pathMutable, path),
         NEW time \in Times \cup {Nil}, NEW point \in CGPoints \cup {Nil},
         SendUp(m, path, hasMove, log, time, point)
  PROVE  /\ Written
         /\ \/ /\ ended' = TRUE /\ m.impl.stroke # Nil
               /\ HandOut(pathMutable', TRUE)
            \/ /\ ended' = FALSE /\ modeler' = m /\ handed' = handed
               /\ pathMutable' = path
<1> DEFINE in == UpInput(time, point)
<1>1. PICK u \in update(m, in) :
        /\ modeler' = u.m
        /\ appendResultsToPath(path, hasMove, u.samples)
        /\ ended' = (u.err = "none")
        /\ IF u.err = "none"
           THEN HandOut(path \o Elements(hasMove, u.samples), TRUE)
           ELSE handed' = handed
  BY DEF SendUp
<1>2. in \in Input /\ in.event_type = "up"
  BY InputTypes DEF UpInput, StrokeInput
<1> HIDE DEF in
<1>3. u.samples \in Seq(Sample)
  BY <1>2, UpdateFacts
<1>4. Written
  BY <1>1, <1>3, InvTypes, AppendWrites
<1>5. CASE u.err = "none"
  <2>1. Accepts(m.impl, in)
    BY <1>2, <1>5, AcceptedCore
  <2>2. m.impl.stroke # Nil
    BY <1>2, <2>1 DEF Accepts, OutOfOrder
  <2>3. pathMutable' = path \o Elements(hasMove, u.samples)
    BY <1>1, <1>3, InvTypes, AppendFacts
  <2>4. ended' = TRUE /\ HandOut(pathMutable', TRUE)
    BY <1>1, <1>5, <2>3
  <2>5. QED
    BY <1>4, <2>2, <2>4
<1>6. CASE u.err # "none"
  <2>1. u.m = m /\ u.samples = <<>>
    BY <1>2, <1>6, RefusedFacts
  <2>2. appendResultsToPath(path, hasMove, <<>>)
    BY <1>1, <2>1
  <2>3. pathMutable' = path
    BY <2>2, InvTypes, AppendedNothing
  <2>4. ended' = FALSE /\ modeler' = m /\ handed' = handed
    BY <1>1, <1>6, <2>1
  <2>5. QED
    BY <1>4, <2>3, <2>4
<1>7. QED
  BY <1>5, <1>6

\* Every end that is not refused outright finishes the stroke, goes on with it,
\* or changes nothing that shows.
LEMMA EndOutcome ==
  ASSUME Inv, NEW point \in CGPoints \cup {Nil}, NEW time \in Times \cup {Nil},
         endMoveThrows(time, point) \/ endMoveUp(time, point) \/ endUp(time, point)
  PROVE  /\ started /\ ~ended /\ started' = started /\ Written
         /\ \/ /\ ended' = TRUE /\ modeler.impl.stroke # Nil
               /\ HandOut(pathMutable', TRUE)
            \/ /\ ended' = FALSE /\ handed' = handed
               /\ modeler.impl.stroke # Nil /\ modeler'.impl.stroke # Nil
            \/ /\ ended' = FALSE /\ handed' = handed
               /\ modeler' = modeler /\ pathMutable' = pathMutable
<1>1. Prefix(pathMutable, pathMutable)
  BY InvTypes, PrefixReflexive
<1>2. CASE endMoveThrows(time, point)
  <2> DEFINE in == StrokeInput("move", AsFloat[point], time)
  <2>1. /\ started /\ ~ended
        /\ UNCHANGED <<started, ended, paths, handed>>
    BY <1>2 DEF endMoveThrows
  <2>2. in \in Input
    BY <1>2, InputTypes DEF endMoveThrows, Events
  <2>3. PICK u \in update(modeler, in) : u.err # "none" /\ modeler' = u.m
    BY <1>2 DEF endMoveThrows
  <2>4. modeler' = modeler
    BY <2>2, <2>3, InvTypes, RefusedFacts
  <2>5. pathMutable' = pathMutable /\ Written
    BY <1>1, <2>1 DEF pathMutable, Written
  <2>6. ended' = FALSE
    BY <2>1, InvTypes
  <2>7. QED
    BY <2>1, <2>4, <2>5, <2>6
<1>3. CASE endMoveUp(time, point)
  <2> DEFINE in == StrokeInput("move", AsFloat[point], time)
  <2>1. started /\ ~ended /\ started' = started
    BY <1>3 DEF endMoveUp
  <2>2. in \in Input /\ in.event_type = "move"
    BY <1>3, InputTypes DEF endMoveUp, Events, StrokeInput
  <2>3. PICK u \in update(modeler, in) :
          /\ u.err = "none"
          /\ SendUp(u.m, pathMutable \o Elements(hasPathMove, u.samples),
                    hasPathMove \/ u.samples # <<>>, Log(accepted, u, in), time, point)
    BY <1>3 DEF endMoveUp
  <2> HIDE DEF in
  <2> DEFINE path    == pathMutable \o Elements(hasPathMove, u.samples)
             hasMove == hasPathMove \/ u.samples # <<>>
             log     == Log(accepted, u, in)
  <2>4. u.m \in ism_Modeler /\ u.samples \in Seq(Sample)
    BY <2>2, InvTypes, UpdateFacts
  <2>5. path \in Seq(Element) /\ hasMove \in BOOLEAN /\ Prefix(pathMutable, path)
    BY <2>4, InvTypes, PathGrows, ElementsFacts, ConcatGrows
  <2>6. modeler.impl.stroke # Nil /\ u.m.impl.stroke # Nil
    <3>1. Accepts(modeler.impl, in) /\ u.m.impl.stroke # Nil
      BY <2>2, <2>3, InvTypes, AcceptedCore
    <3>2. QED
      BY <2>2, <3>1 DEF Accepts, OutOfOrder
  <2> HIDE DEF path, hasMove, log
  <2>7. SendUp(u.m, path, hasMove, log, time, point)
    BY <2>3 DEF path, hasMove, log
  <2>8. /\ Written
        /\ \/ ended' = TRUE /\ HandOut(pathMutable', TRUE)
           \/ ended' = FALSE /\ modeler' = u.m /\ handed' = handed
    BY <2>4, <2>5, <2>7, SendUpOutcome
  <2>9. QED
    BY <2>1, <2>6, <2>8
<1>4. CASE endUp(time, point)
  <2>1. /\ started /\ ~ended /\ started' = started
        /\ SendUp(modeler, pathMutable, hasPathMove, accepted, time, point)
    BY <1>4 DEF endUp
  <2>2. /\ Written
        /\ \/ /\ ended' = TRUE /\ modeler.impl.stroke # Nil
              /\ HandOut(pathMutable', TRUE)
           \/ /\ ended' = FALSE /\ modeler' = modeler /\ handed' = handed
              /\ pathMutable' = pathMutable
    BY <1>1, <2>1, InvTypes, SendUpOutcome
  <2>3. QED
    BY <2>1, <2>2
<1>5. QED
  BY <1>2, <1>3, <1>4

--------------------------------------------------------------------------------
(***************************************************************************)
(* The smoother implements its contract                                    *)
(***************************************************************************)

LEMMA PhaseFacts ==
  ASSUME Inv
  PROVE  /\ ~started => Phase = "idle"
         /\ ended => Phase = "ended"
         /\ (started /\ ~ended /\ modeler.impl.stroke # Nil) => Phase = "drawing"
         /\ (started /\ ~ended /\ modeler.impl.stroke = Nil) => Phase = "stuck"
<1>1. ended => started
  BY DEF Inv, FlagsInv
<1>2. QED
  BY <1>1 DEF Phase

\* A path that was written grows in the sense of the contract.
LEMMA WrittenGrows ==
  ASSUME TypeOK, TypeOK', Written
  PROVE  Contract!Grows
<1>1. pathMutable \in Seq(Element) /\ pathMutable' \in Seq(Element)
  <2>1. pathMutable \in Seq(Element)
    BY PathMutableType
  <2>2. pathMutable' \in Seq(Element)
    BY DEF TypeOK, pathMutable
  <2>3. QED
    BY <2>1, <2>2
<1>2. Prefix(pathMutable, pathMutable')
  BY DEF Written
<1>3. Len(pathMutable') >= Len(pathMutable)
  BY <1>1, <1>2 DEF Prefix
<1>4. SubSeq(pathMutable', 1, Len(pathMutable)) = pathMutable
  BY <1>1, <1>2, PrefixIsSubSeq
<1>5. QED
  BY <1>3, <1>4 DEF Contract!Grows

LEMMA ContractInit == Init => Contract!Init
<1> SUFFICES ASSUME Init PROVE Contract!Init
  OBVIOUS
<1>1. Phase = "idle"
  BY InvInit, PhaseFacts DEF Init
<1>2. pathMutable = <<>>
  BY DEF Init, pathMutable
<1>3. QED
  BY <1>1, <1>2 DEF Contract!Init

LEMMA ContractStep ==
  ASSUME Inv, Inv', [Next]_vars
  PROVE  [Contract!Next]_(Contract!contractVars)
<1> DEFINE Goal == [Contract!Next]_(Contract!contractVars)
<1>1. (TypeOK /\ TypeOK') /\ (started \in BOOLEAN /\ ended \in BOOLEAN)
  BY DEF Inv, TypeOK
<1>2. /\ ~started' => Phase' = "idle"
      /\ ended' => Phase' = "ended"
      /\ (started' /\ ~ended' /\ modeler'.impl.stroke # Nil) => Phase' = "drawing"
      /\ (started' /\ ~ended' /\ modeler'.impl.stroke = Nil) => Phase' = "stuck"
  <2>1. ended' => started'
    BY DEF Inv, FlagsInv
  <2>2. QED
    BY <2>1 DEF Phase
<1>3. ASSUME UNCHANGED <<modeler, started, ended>>, pathMutable' = pathMutable
      PROVE  Goal
  BY <1>3 DEF Contract!contractVars, Phase
<1>4. ASSUME UNCHANGED <<modeler, started, ended, paths>>
      PROVE  Goal
  BY <1>3, <1>4 DEF pathMutable
<1>5. CASE getPath
  BY <1>4, <1>5 DEF getPath
<1>6. CASE resetPath
  <2>1. ~started' /\ paths' = Append(paths, <<>>)
    BY <1>6 DEF resetPath
  <2>2. ~started' => pathMutable' = <<>>
    BY DEF Inv, FlagsInv
  <2>3. QED
    BY <1>2, <2>1, <2>2 DEF Contract!Next, Contract!Clear
<1>7. ASSUME NEW point \in CGPoints, NEW time \in Times, start(point, time)
      PROVE  Goal
  <2>1. CASE startRefused
    BY <1>4, <2>1 DEF startRefused
  <2>2. CASE startRejected
    <3>1. ~started /\ ~started' /\ pathMutable' = pathMutable
      BY <2>2 DEF startRejected, pathMutable
    <3>2. Phase = "idle" /\ Phase' = "idle"
      BY <1>2, <3>1, PhaseFacts
    <3>3. QED
      BY <3>1, <3>2 DEF Contract!contractVars
  <2>3. CASE startDown(point, time)
    <3>1. /\ ~started /\ pathMutable = <<>>
          /\ started' = TRUE /\ ended' = FALSE /\ Written
          /\ modeler'.impl.stroke = Nil => pathMutable' = <<>>
      BY <2>3, StartOutcome
    <3>2. Phase = "idle" /\ Contract!Grows
      BY <1>1, <3>1, PhaseFacts, WrittenGrows
    <3>3. CASE modeler'.impl.stroke = Nil
      <4>1. Phase' = "stuck" /\ pathMutable' = <<>>
        BY <1>2, <3>1, <3>3
      <4>2. QED
        BY <3>2, <4>1 DEF Contract!Next, Contract!BeginFails, Contract!Moves
    <3>4. CASE modeler'.impl.stroke # Nil
      <4>1. Phase' = "drawing"
        BY <1>2, <3>1, <3>4
      <4>2. QED
        BY <3>1, <3>2, <4>1 DEF Contract!Next, Contract!Begin, Contract!Moves
    <3>5. QED
      BY <3>3, <3>4
  <2>4. QED
    BY <1>7, <2>1, <2>2, <2>3 DEF start
<1>8. ASSUME NEW point \in CGPoints, NEW time \in Times, append(point, time)
      PROVE  Goal
  <2>1. CASE appendRefused
    BY <1>4, <2>1 DEF appendRefused
  <2>2. CASE appendMove(point, time)
    <3>1. /\ started /\ ~ended /\ started' = started /\ ended' = ended /\ Written
          /\ \/ modeler.impl.stroke # Nil /\ modeler'.impl.stroke # Nil
             \/ modeler' = modeler /\ pathMutable' = pathMutable
      BY <2>2, AppendOutcome
    <3>2. CASE modeler' = modeler /\ pathMutable' = pathMutable
      BY <1>3, <3>1, <3>2
    <3>3. CASE modeler.impl.stroke # Nil /\ modeler'.impl.stroke # Nil
      <4>1. Phase = "drawing" /\ Phase' = "drawing" /\ Contract!Grows
        BY <1>1, <1>2, <3>1, <3>3, PhaseFacts, WrittenGrows
      <4>2. QED
        BY <4>1 DEF Contract!Next, Contract!Draw, Contract!Moves
    <3>4. QED
      BY <3>1, <3>2, <3>3
  <2>3. QED
    BY <1>8, <2>1, <2>2 DEF append
<1>9. ASSUME NEW point \in CGPoints \cup {Nil}, NEW time \in Times \cup {Nil},
             end(time, point)
      PROVE  Goal
  <2>1. CASE endRefused
    BY <1>4, <2>1 DEF endRefused
  <2>2. CASE endMoveThrows(time, point) \/ endMoveUp(time, point) \/ endUp(time, point)
    <3>1. /\ started /\ ~ended /\ started' = started /\ Written
          /\ \/ ended' = TRUE /\ modeler.impl.stroke # Nil
             \/ /\ ended' = FALSE
                /\ modeler.impl.stroke # Nil /\ modeler'.impl.stroke # Nil
             \/ /\ ended' = FALSE
                /\ modeler' = modeler /\ pathMutable' = pathMutable
      BY <2>2, EndOutcome
    <3>2. CASE ended' = TRUE /\ modeler.impl.stroke # Nil
      <4>1. Phase = "drawing" /\ Phase' = "ended" /\ Contract!Grows
        BY <1>1, <1>2, <3>1, <3>2, PhaseFacts, WrittenGrows
      <4>2. QED
        BY <4>1 DEF Contract!Next, Contract!Finish, Contract!Moves
    <3>3. CASE ended' = FALSE /\ modeler.impl.stroke # Nil /\ modeler'.impl.stroke # Nil
      <4>1. Phase = "drawing" /\ Phase' = "drawing" /\ Contract!Grows
        BY <1>1, <1>2, <3>1, <3>3, PhaseFacts, WrittenGrows
      <4>2. QED
        BY <4>1 DEF Contract!Next, Contract!Draw, Contract!Moves
    <3>4. CASE ended' = FALSE /\ modeler' = modeler /\ pathMutable' = pathMutable
      <4>1. ended' = ended
        BY <1>1, <3>1, <3>4
      <4>2. QED
        BY <1>3, <3>1, <3>4, <4>1
    <3>5. QED
      BY <3>1, <3>2, <3>3, <3>4
  <2>3. QED
    BY <1>9, <2>1, <2>2 DEF end
<1>10. CASE UNCHANGED vars
  BY <1>4, <1>10 DEF vars
<1>11. QED
  BY <1>5, <1>6, <1>7, <1>8, <1>9, <1>10 DEF Next

\* The smoother implements PathContract: its line only grows while a stroke is
\* drawn, is final once ended, and is cleared only by resetPath.
THEOREM Refinement == Spec => ImplementsContract
<1>1. Inv /\ Inv' /\ [Next]_vars => [Contract!Next]_(Contract!contractVars)
  BY ContractStep
<1>2. QED
  BY <1>1, ContractInit, Invariance, PTL DEF Spec, ImplementsContract, Contract!Spec

--------------------------------------------------------------------------------
(***************************************************************************)
(* Paths in the hands of callers.  To be inductive the invariant also says *)
(* that the final path of a stroke is written no more: either it is not the*)
(* mutable path any longer, or the smoother is still ended.                *)
(***************************************************************************)

Held(h, objects, over) ==
  /\ h.object \in 1 .. Len(objects)
  /\ Prefix(h.content, objects[h.object])
  /\ h.final => /\ objects[h.object] = h.content
                /\ h.object = Len(objects) => over

HandedInv == \A h \in handed : Held(h, paths, ended)

LEMMA HeldSame ==
  ASSUME HandedInv, UNCHANGED <<handed, paths, ended>>
  PROVE  HandedInv'
BY DEF HandedInv, Held, Prefix

\* Writing the mutable path of a stroke that is not ended spares what is held.
LEMMA HeldWritten ==
  ASSUME TypeOK, TypeOK', HandedInv, ~ended, Written, NEW h \in handed
  PROVE  Held(h, paths', ended')
<1>1. h.content \in Seq(Element) /\ h.object \in Nat
  BY DEF TypeOK, Handed
<1>2. Held(h, paths, ended)
  BY DEF HandedInv
<1>3. Len(paths') = Len(paths) /\ h.object \in 1 .. Len(paths)
  BY <1>2 DEF Written, Held
<1>4. /\ paths \in Seq(Seq(Element)) /\ paths' \in Seq(Seq(Element))
      /\ Len(paths) \in Nat
  BY DEF TypeOK
<1>5. CASE h.object # Len(paths)
  <2>1. paths'[h.object] = paths[h.object]
    BY <1>3, <1>5 DEF Written
  <2>2. QED
    BY <1>2, <1>3, <1>5, <2>1 DEF Held
<1>6. CASE h.object = Len(paths)
  <2>1. ~h.final
    BY <1>2, <1>6 DEF Held
  <2>2. /\ paths[h.object] \in Seq(Element) /\ paths'[h.object] \in Seq(Element)
    BY <1>3, <1>4
  <2>3. Prefix(paths[h.object], paths'[h.object])
    BY <1>3, <1>6 DEF Written, pathMutable
  <2>4. Prefix(h.content, paths'[h.object])
    BY <1>1, <1>2, <2>2, <2>3, PrefixTransitive DEF Held
  <2>5. QED
    BY <1>3, <2>1, <2>4 DEF Held
<1>7. QED
  BY <1>5, <1>6

\* A path is held safely from the moment it is handed out.
LEMMA HandedNow ==
  ASSUME NEW objects \in Seq(Seq(Element)), objects # <<>>,
         NEW over \in BOOLEAN, NEW final \in BOOLEAN, final => over
  PROVE  Held([object |-> Len(objects), content |-> objects[Len(objects)],
               final |-> final], objects, over)
<1> DEFINE h == [object |-> Len(objects), content |-> objects[Len(objects)],
                 final |-> final]
<1>1. Len(objects) \in 1 .. Len(objects)
  OBVIOUS
<1>2. objects[Len(objects)] \in Seq(Element)
  BY <1>1
<1>3. Prefix(objects[Len(objects)], objects[Len(objects)])
  BY <1>2, PrefixReflexive
<1>4. /\ h.object = Len(objects) /\ h.content = objects[Len(objects)]
      /\ h.final = final
  OBVIOUS
<1> HIDE DEF h
<1>5. Held(h, objects, over)
  BY <1>1, <1>3, <1>4 DEF Held
<1>6. QED
  BY <1>5 DEF h

LEMMA HandedStep ==
  ASSUME Inv, Inv', HandedInv, [Next]_vars
  PROVE  HandedInv'
<1>1. /\ TypeOK /\ TypeOK'
      /\ paths \in Seq(Seq(Element)) /\ paths # <<>>
      /\ paths' \in Seq(Seq(Element)) /\ paths' # <<>>
      /\ ended \in BOOLEAN /\ ended' \in BOOLEAN
  BY DEF Inv, TypeOK
<1>2. CASE getPath
  <2>1. UNCHANGED <<paths, ended>> /\ HandOut(pathMutable, ended)
    BY <1>2 DEF getPath
  <2> DEFINE new == [object |-> Len(paths), content |-> pathMutable, final |-> ended]
  <2>2. Held(new, paths, ended)
    BY <1>1, HandedNow DEF pathMutable
  <2> HIDE DEF new
  <2>3. \A h \in handed' : h \in handed \/ h = new
    BY <2>1 DEF HandOut, new
  <2>4. \A h \in handed' : Held(h, paths, ended)
    BY <2>2, <2>3 DEF HandedInv
  <2>5. QED
    BY <2>1, <2>4 DEF HandedInv
<1>3. CASE resetPath
  <2>1. handed' = handed /\ paths' = Append(paths, <<>>)
    BY <1>3 DEF resetPath
  <2>2. /\ Len(paths') = Len(paths) + 1 /\ Len(paths) \in Nat
        /\ \A i \in 1 .. Len(paths) : paths'[i] = paths[i]
    <3>1. <<>> \in Seq(Element)
      OBVIOUS
    <3>2. QED
      BY <1>1, <2>1, <3>1, AppendProperties
  <2>3. SUFFICES ASSUME NEW h \in handed PROVE Held(h, paths', ended')
    BY <2>1 DEF HandedInv
  <2>4. Held(h, paths, ended)
    BY DEF HandedInv
  <2>5. h.object \in 1 .. Len(paths)
    BY <2>4 DEF Held
  <2>6. /\ h.object \in 1 .. Len(paths') /\ h.object # Len(paths')
        /\ paths'[h.object] = paths[h.object]
    BY <2>2, <2>5
  <2>7. QED
    BY <2>4, <2>6 DEF Held
<1>4. ASSUME ~ended, Written, handed' = handed PROVE HandedInv'
  BY <1>1, <1>4, HeldWritten DEF HandedInv
<1>5. ASSUME ~ended, Written, ended' = TRUE, HandOut(pathMutable', TRUE)
      PROVE  HandedInv'
  <2> DEFINE new == [object |-> Len(paths'), content |-> pathMutable', final |-> TRUE]
  <2>1. Held(new, paths', ended')
    BY <1>1, <1>5, HandedNow DEF pathMutable
  <2>2. Len(paths') = Len(paths)
    BY <1>5 DEF Written
  <2> HIDE DEF new
  <2>3. \A h \in handed' : h \in handed \/ h = new
    BY <1>5, <2>2 DEF HandOut, new
  <2>4. \A h \in handed : Held(h, paths', ended')
    BY <1>1, <1>5, HeldWritten
  <2>5. QED
    BY <2>1, <2>3, <2>4 DEF HandedInv
<1>6. ASSUME NEW point \in CGPoints, NEW time \in Times, start(point, time)
      PROVE  HandedInv'
  <2>1. CASE startRefused
    BY <2>1, HeldSame DEF startRefused
  <2>2. CASE startRejected
    BY <2>2, HeldSame DEF startRejected
  <2>3. CASE startDown(point, time)
    BY <1>4, <2>3, StartOutcome
  <2>4. QED
    BY <1>6, <2>1, <2>2, <2>3 DEF start
<1>7. ASSUME NEW point \in CGPoints, NEW time \in Times, append(point, time)
      PROVE  HandedInv'
  <2>1. CASE appendRefused
    BY <2>1, HeldSame DEF appendRefused
  <2>2. CASE appendMove(point, time)
    BY <1>4, <2>2, AppendOutcome
  <2>3. QED
    BY <1>7, <2>1, <2>2 DEF append
<1>8. ASSUME NEW point \in CGPoints \cup {Nil}, NEW time \in Times \cup {Nil},
             end(time, point)
      PROVE  HandedInv'
  <2>1. CASE endRefused
    BY <2>1, HeldSame DEF endRefused
  <2>2. CASE endMoveThrows(time, point) \/ endMoveUp(time, point) \/ endUp(time, point)
    BY <1>4, <1>5, <2>2, EndOutcome
  <2>3. QED
    BY <1>8, <2>1, <2>2 DEF end
<1>9. CASE UNCHANGED vars
  BY <1>9, HeldSame DEF vars
<1>10. QED
  BY <1>2, <1>3, <1>6, <1>7, <1>8, <1>9 DEF Next

\* A path in the hands of a caller is never rewritten, for any number of path
\* objects, callers and strokes.
THEOREM HandedStable == Spec => []HandedPathsAreStable
<1>1. Init => HandedInv
  BY DEF Init, HandedInv
<1>2. Inv /\ Inv' /\ HandedInv /\ [Next]_vars => HandedInv'
  BY HandedStep
<1>3. Inv /\ HandedInv => HandedPathsAreStable
  <2> SUFFICES ASSUME Inv, HandedInv, NEW h \in handed
               PROVE  /\ h.object \in 1 .. Len(paths)
                      /\ Len(h.content) <= Len(paths[h.object])
                      /\ SubSeq(paths[h.object], 1, Len(h.content)) = h.content
                      /\ h.final => paths[h.object] = h.content
    BY DEF HandedPathsAreStable
  <2>1. Held(h, paths, ended)
    BY DEF HandedInv
  <2>2. h.content \in Seq(Element)
    BY DEF Inv, TypeOK, Handed
  <2>3. paths[h.object] \in Seq(Element)
    BY <2>1 DEF Inv, TypeOK, Held
  <2>4. QED
    BY <2>1, <2>2, <2>3, PrefixIsSubSeq DEF Held
<1>4. QED
  BY <1>1, <1>2, <1>3, Invariance, PTL DEF Spec

--------------------------------------------------------------------------------
(***************************************************************************)
(* A new stroke can always be started                                      *)
(***************************************************************************)

\* The core accepts usable parameters.
LEMMA UsableAccepted ==
  ASSUME NEW req \in Request, {req.motion, req.sampling} \cap Rejected = {},
         req.prediction.case = "kalman" => req.prediction.k \notin Rejected
  PROVE  ValidateStrokeModelParams(Wanted(req)) = "kOk"
<1>1. WantedPredictor(req.prediction) \notin Rejected
  <2>1. /\ req.prediction \in PredictionParams
        /\ StrokeEnd \notin Rejected /\ Disabled \notin Rejected
    BY CoreAssumption DEF Request
  <2>2. CASE req.prediction.case = "strokeEnd"
    BY <2>1, <2>2 DEF WantedPredictor
  <2>3. CASE req.prediction.case = "disabled"
    BY <2>1, <2>3 DEF WantedPredictor
  <2>4. CASE req.prediction.case = "kalman"
    BY <2>4 DEF WantedPredictor
  <2>5. QED
    BY <2>1, <2>2, <2>3, <2>4 DEF PredictionParams
<1>2. QED
  BY <1>1 DEF ValidateStrokeModelParams, Wanted

\* A core with parameters and no stroke accepts any down event at a finite
\* position.
LEMMA DownAccepted ==
  ASSUME NEW m \in ism_Modeler, NEW in \in Input, NEW u \in update(m, in),
         m.impl.params # Nil, m.impl.stroke = Nil,
         in.event_type = "down", in.position \notin BadPoints
  PROVE  u.err = "none"
<1>1. Refusals(m.impl, in) = {}
  BY DEF Refusals, OutOfOrder, Unacceptable
<1>2. \A o \in CoreUpdate(m.impl, in) : o.code = "kOk"
  BY <1>1 DEF CoreUpdate
<1>3. \A r \in ism_modeler_update(m, in, ZeroedBuffer(Capacity)) : r.st = "OK"
  BY <1>2 DEF ism_modeler_update, to_status
<1>4. QED
  BY <1>3 DEF update, mapStatus

LEMMA StartRecoversStep ==
  ASSUME Inv, Next, ret'.call = "start", ~started, ConfigUsable,
         supplied' \cap BadPoints = {}
  PROVE  ret'.err = "none"
<1> DEFINE r == resetWith(modeler, config)
<1>1. PICK point \in CGPoints, time \in Times : start(point, time)
  <2>1. ~getPath /\ ~resetPath
    BY DEF getPath, resetPath, Returns
  <2>2. ASSUME NEW point \in CGPoints, NEW time \in Times
        PROVE  ~append(point, time)
    BY DEF append, appendRefused, appendMove, Returns
  <2>3. ASSUME NEW point \in CGPoints \cup {Nil}, NEW time \in Times \cup {Nil}
        PROVE  ~end(time, point)
    <3>1. ~endRefused
      BY DEF endRefused, Returns
    <3>2. ~endMoveThrows(time, point)
      BY DEF endMoveThrows, Returns
    <3>3. ~endMoveUp(time, point)
      BY DEF endMoveUp, SendUp, Returns
    <3>4. ~endUp(time, point)
      BY DEF endUp, SendUp, Returns
    <3>5. QED
      BY <3>1, <3>2, <3>3, <3>4 DEF end
  <2>4. QED
    BY <2>1, <2>2, <2>3 DEF Next
<1>2. ~ended
  BY BeforeStroke
<1>3. modeler \in ism_Modeler /\ config \in Request
  BY ConfigsAssumption DEF Inv, TypeOK
<1>4. ValidateStrokeModelParams(Wanted(config)) = "kOk"
  BY <1>3, UsableAccepted DEF ConfigUsable
<1>5. /\ r.m \in ism_Modeler /\ r.err = "none"
      /\ r.m.impl = [modeler.impl EXCEPT !.params = Wanted(config), !.stroke = Nil,
                                         !.saved = Nil]
  BY <1>3, <1>4, ResetWithFacts
<1>6. startDown(point, time)
  BY <1>1, <1>2, <1>5 DEF start, startRefused, startRejected
<1> DEFINE in == StrokeInput("down", AsFloat[point], time)
<1>7. PICK u \in update(r.m, in) : Returns("start", u.err)
  BY <1>6 DEF startDown
<1>8. in \in Input /\ in.event_type = "down" /\ in.position = AsFloat[point]
  BY InputTypes DEF Events, StrokeInput
<1>9. AsFloat[point] \notin BadPoints
  <2>1. AsFloat[point] \in supplied'
    BY <1>6 DEF startDown
  <2>2. QED
    BY <2>1
<1>10. r.m.impl.params # Nil /\ r.m.impl.stroke = Nil
  <2>1. modeler.impl \in Core
    BY <1>3 DEF ism_Modeler
  <2>2. Wanted(config) # Nil
    BY <1>3, RequestReachesShim, NilAssumption
  <2> HIDE DEF r
  <2>3. QED
    BY <1>5, <2>1, <2>2 DEF Core
<1> HIDE DEF r, in
<1>11. u.err = "none"
  <2>1. in.event_type = "down" /\ in.position \notin BadPoints
    BY <1>8, <1>9
  <2>2. \A m \in ism_Modeler, i \in Input : \A v \in update(m, i) :
          (/\ m.impl.params # Nil /\ m.impl.stroke = Nil
           /\ i.event_type = "down" /\ i.position \notin BadPoints) => v.err = "none"
    BY DownAccepted
  <2>3. r.m \in ism_Modeler /\ in \in Input /\ u \in update(r.m, in)
    BY <1>5, <1>7, <1>8
  <2>4. QED
    BY <1>10, <2>1, <2>2, <2>3
<1>12. QED
  BY <1>7, <1>11 DEF Returns

\* With usable parameters and a finite point, start on a smoother that is not
\* started succeeds, whatever happened to it before.
THEOREM StartAlwaysRecovers == Spec => StartRecovers
<1> DEFINE Recovers == (/\ ret'.call = "start"
                        /\ ~started /\ ConfigUsable
                        /\ supplied' \cap BadPoints = {}) => ret'.err = "none"
<1>1. Inv /\ [Next]_vars => [Recovers]_vars
  <2>1. Inv /\ Next => Recovers
    BY StartRecoversStep
  <2> HIDE DEF Recovers
  <2>2. QED
    BY <2>1
<1>2. QED
  BY <1>1, Invariance, PTL DEF Spec, StartRecovers
================================================================================
