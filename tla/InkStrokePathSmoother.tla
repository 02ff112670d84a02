------------------------- MODULE InkStrokePathSmoother -------------------------
(***************************************************************************)
(* The Swift class InkStrokePathSmoother, which feeds a StrokeModeler and  *)
(* strings the samples it returns into a CGMutablePath.                    *)
(*                                                                         *)
(* A path object is the sequence of its elements; `paths' holds every      *)
(* CGMutablePath the smoother has allocated, and pathMutable is the last.  *)
(* The methods run on one thread to their end, so each is one action.      *)
(***************************************************************************)
EXTENDS StrokeModeler, FiniteSets

CONSTANTS
  CGPoints,    \* the points callers pass, with coordinates of 64 bits
  AsFloat,     \* the position of 32 bits that a point is narrowed to: points may
               \* become equal, and a finite one infinite
  Configs,     \* the parameters that smoothers are constructed with
  MaxInputs,   \* bound: methods that send inputs stop once this many were accepted
  MaxPaths,    \* bound: path objects allocated
  MaxHanded    \* bound: aliases of path objects that callers hold

ASSUME ConfigsAssumption == Configs \subseteq Request
ASSUME FloatAssumption   == AsFloat \in [CGPoints -> Points] /\ Nil \notin CGPoints

VARIABLES
  config,        \* the five parameter groups given to init
  modeler,       \* the ism_Modeler behind the private StrokeModeler
  started, ended,
  paths, hasPathMove,
  handed,        \* the paths callers got when copy() failed: aliases, not copies
  ret,           \* the last call and the error it threw, or "none"
  accepted,      \* history: the inputs of this stroke that the core accepted
  supplied       \* history: the positions sent for points of the caller

vars == <<config, modeler, started, ended, paths, hasPathMove, handed, ret,
          accepted, supplied>>

Element  == [op : {"move", "line"}, sample : Sample]
Accepted == [call : Nat, event_type : Events, time : Times, produced : Nat]
Handed   == [object : Nat, content : Seq(Element), final : BOOLEAN]
Calls    == {"init", "path", "resetPath", "start", "append", "end"}

pathMutable == paths[Len(paths)]

TypeOK ==
  /\ config \in Configs
  /\ modeler \in ism_Modeler
  /\ started \in BOOLEAN /\ ended \in BOOLEAN /\ hasPathMove \in BOOLEAN
  /\ paths \in Seq(Seq(Element)) /\ paths # <<>>
  /\ handed \subseteq Handed
  /\ ret \in [call : Calls, err : StrokeModelerError \cup {"none"}]
  /\ accepted \in Seq(Accepted)
  /\ supplied \subseteq Points

Init ==
  /\ config \in Configs
  /\ modeler = ism_modeler_create
  /\ started = FALSE /\ ended = FALSE
  /\ paths = << <<>> >> /\ hasPathMove = FALSE
  /\ handed = {}
  /\ ret = [call |-> "init", err |-> "none"]
  /\ accepted = <<>> /\ supplied = {}

InBounds == modeler.impl.serial < MaxInputs

Returns(call, err) == ret' = [call |-> call, err |-> err]

(***************************************************************************)
(* appendResultsToPath: the first element ever put on a path is a move, all*)
(* others are lines.                                                       *)
(***************************************************************************)
Elements(hasMove, samples) ==
  [i \in 1 .. Len(samples) |->
     [op     |-> IF i = 1 /\ ~hasMove THEN "move" ELSE "line",
      sample |-> samples[i]]]

\* Mutant: hasPathMove is set for any batch, an empty one too.
appendResultsToPath_MoveOnEmpty(path, hasMove, samples) ==
  /\ paths' = [paths EXCEPT ![Len(paths)] = path \o Elements(hasMove, samples)]
  /\ hasPathMove' = TRUE

appendResultsToPath(path, hasMove, samples) ==
  /\ paths' = [paths EXCEPT ![Len(paths)] = path \o Elements(hasMove, samples)]
  /\ hasPathMove' = (hasMove \/ samples # <<>>)

\* The history of a stroke after the update u of input in.
Log(log, u, in) ==
  IF u.err # "none" THEN log
  ELSE Append(log, [call       |-> u.m.impl.serial, event_type |-> in.event_type,
                    time       |-> in.time,         produced   |-> u.produced])

StrokeInput(event, position, time) ==
  [event_type |-> event, position |-> position, time |-> time]

(***************************************************************************)
(* The getter of path: a copy of the mutable path, which nothing the       *)
(* smoother does can change, or the mutable path itself when copy() fails. *)
(* `content' is what the caller saw, `final' whether the stroke was ended. *)
(***************************************************************************)
HandOut(content, final) ==
  \/ handed' = handed
  \/ /\ Cardinality(handed) < MaxHanded
     /\ handed' = handed \cup {[object |-> Len(paths), content |-> content,
                                final |-> final]}

getPath ==
  /\ HandOut(pathMutable, ended)
  /\ Returns("path", "none")
  /\ UNCHANGED <<config, modeler, started, ended, paths, hasPathMove, accepted,
                 supplied>>

(***************************************************************************)
(* resetPath() drops the path and the flags; the modeler keeps whatever    *)
(* stroke it is in.                                                        *)
(***************************************************************************)
\* Mutant: the mutable path is kept.
resetPath_KeepsPath ==
  /\ UNCHANGED paths
  /\ started' = FALSE /\ ended' = FALSE /\ hasPathMove' = FALSE
  /\ accepted' = <<>> /\ supplied' = {}
  /\ Returns("resetPath", "none")
  /\ UNCHANGED <<config, modeler, handed>>

\* Mutant: the mutable path is emptied instead of replaced by a new one.
resetPath_ClearsInPlace ==
  /\ paths' = [paths EXCEPT ![Len(paths)] = <<>>]
  /\ started' = FALSE /\ ended' = FALSE /\ hasPathMove' = FALSE
  /\ accepted' = <<>> /\ supplied' = {}
  /\ Returns("resetPath", "none")
  /\ UNCHANGED <<config, modeler, handed>>

resetPath ==
  /\ Len(paths) < MaxPaths
  /\ paths' = Append(paths, <<>>)
  /\ started' = FALSE /\ ended' = FALSE /\ hasPathMove' = FALSE
  /\ accepted' = <<>> /\ supplied' = {}
  /\ Returns("resetPath", "none")
  /\ UNCHANGED <<config, modeler, handed>>

(***************************************************************************)
(* start(at:time:) resets the modeler, marks the stroke started, and only  *)
(* then sends the down event, which may still throw.                       *)
(***************************************************************************)
startRefused ==
  /\ started \/ ended
  /\ Returns("start", "failedPrecondition")
  /\ UNCHANGED <<config, modeler, started, ended, paths, hasPathMove, handed,
                 accepted, supplied>>

startRejected ==
  LET r == resetWith(modeler, config)
  IN  /\ ~started /\ ~ended
      /\ r.err # "none"
      /\ modeler' = r.m
      /\ Returns("start", r.err)
      /\ UNCHANGED <<config, started, ended, paths, hasPathMove, handed,
                     accepted, supplied>>

\* Mutant: the guard on `started' is gone.
startDown_Again(point, time) ==
  LET r  == resetWith(modeler, config)
      in == StrokeInput("down", AsFloat[point], time)
  IN  /\ ~ended
      /\ r.err = "none"
      /\ started' = TRUE
      /\ \E u \in update(r.m, in) :
           /\ modeler' = u.m
           /\ appendResultsToPath(pathMutable, FALSE, u.samples)
           /\ accepted' = Log(accepted, u, in)
           /\ Returns("start", u.err)
      /\ supplied' = supplied \cup {AsFloat[point]}
      /\ UNCHANGED <<config, ended, handed>>

\* Mutant: the modeler is reset by the first start only.
startDown_ResetsOnce(point, time) ==
  LET r  == IF modeler.has_params THEN [err |-> "none", m |-> modeler]
            ELSE resetWith(modeler, config)
      in == StrokeInput("down", AsFloat[point], time)
  IN  /\ ~started /\ ~ended
      /\ r.err = "none"
      /\ started' = TRUE
      /\ \E u \in update(r.m, in) :
           /\ modeler' = u.m
           /\ appendResultsToPath(pathMutable, FALSE, u.samples)
           /\ accepted' = Log(accepted, u, in)
           /\ Returns("start", u.err)
      /\ supplied' = supplied \cup {AsFloat[point]}
      /\ UNCHANGED <<config, ended, handed>>

startDown(point, time) ==
  LET r  == resetWith(modeler, config)
      in == StrokeInput("down", AsFloat[point], time)
  IN  /\ ~started /\ ~ended
      /\ r.err = "none"
      /\ started' = TRUE
      /\ \E u \in update(r.m, in) :
           /\ modeler' = u.m
           /\ appendResultsToPath(pathMutable, FALSE, u.samples)
           /\ accepted' = Log(accepted, u, in)
           /\ Returns("start", u.err)
      /\ supplied' = supplied \cup {AsFloat[point]}
      /\ UNCHANGED <<config, ended, handed>>

start(point, time) ==
  InBounds /\ (startRefused \/ startRejected \/ startDown(point, time))

(***************************************************************************)
(* append(point:time:) sends one move event.                               *)
(***************************************************************************)
appendRefused ==
  /\ ~started \/ ended
  /\ Returns("append", "failedPrecondition")
  /\ UNCHANGED <<config, modeler, started, ended, paths, hasPathMove, handed,
                 accepted, supplied>>

appendMove(point, time) ==
  LET in == StrokeInput("move", AsFloat[point], time)
  IN  /\ started /\ ~ended
      /\ \E u \in update(modeler, in) :
           /\ modeler' = u.m
           /\ appendResultsToPath(pathMutable, hasPathMove, u.samples)
           /\ accepted' = Log(accepted, u, in)
           /\ Returns("append", u.err)
      /\ supplied' = supplied \cup {AsFloat[point]}
      /\ UNCHANGED <<config, started, ended, handed>>

append(point, time) == InBounds /\ (appendRefused \/ appendMove(point, time))

(***************************************************************************)
(* end(time:point:).  With both arguments it first sends a move event; if  *)
(* that throws nothing more happens.  Then it sends the up event, with     *)
(* (0, 0) and 0 for an argument that is missing.  It returns path.         *)
(***************************************************************************)
endRefused ==
  /\ ~started \/ ended
  /\ Returns("end", "failedPrecondition")
  /\ UNCHANGED <<config, modeler, started, ended, paths, hasPathMove, handed,
                 accepted, supplied>>

UpInput(time, point) ==
  StrokeInput("up", IF point = Nil THEN Origin ELSE AsFloat[point],
                    IF time = Nil THEN 0 ELSE time)

\* Mutant: the stroke counts as ended even if the up event throws.
SendUp_EndsAnyway(m, path, hasMove, log, time, point) ==
  LET in == UpInput(time, point)
  IN  \E u \in update(m, in) :
        /\ modeler' = u.m
        /\ appendResultsToPath(path, hasMove, u.samples)
        /\ accepted' = Log(log, u, in)
        /\ ended' = TRUE
        /\ Returns("end", u.err)
        /\ handed' = handed

\* Mutant: `ended' is never set.
SendUp_NeverEnds(m, path, hasMove, log, time, point) ==
  LET in == UpInput(time, point)
  IN  \E u \in update(m, in) :
        /\ modeler' = u.m
        /\ appendResultsToPath(path, hasMove, u.samples)
        /\ accepted' = Log(log, u, in)
        /\ UNCHANGED ended
        /\ Returns("end", u.err)
        /\ handed' = handed

SendUp(m, path, hasMove, log, time, point) ==
  LET in == UpInput(time, point)
  IN  \E u \in update(m, in) :
        /\ modeler' = u.m
        /\ appendResultsToPath(path, hasMove, u.samples)
        /\ accepted' = Log(log, u, in)
        /\ ended' = (u.err = "none")
        /\ Returns("end", u.err)
        /\ IF u.err = "none"
           THEN HandOut(path \o Elements(hasMove, u.samples), TRUE)
           ELSE handed' = handed

endMoveThrows(time, point) ==
  /\ started /\ ~ended
  /\ time # Nil /\ point # Nil
  /\ \E u \in update(modeler, StrokeInput("move", AsFloat[point], time)) :
       /\ u.err # "none"
       /\ modeler' = u.m
       /\ Returns("end", u.err)
  /\ supplied' = supplied \cup {AsFloat[point]}
  /\ UNCHANGED <<config, started, ended, paths, hasPathMove, handed, accepted>>

endMoveUp(time, point) ==
  LET in == StrokeInput("move", AsFloat[point], time)
  IN  /\ started /\ ~ended
      /\ time # Nil /\ point # Nil
      /\ \E u \in update(modeler, in) :
           /\ u.err = "none"
           /\ SendUp(u.m, pathMutable \o Elements(hasPathMove, u.samples),
                     hasPathMove \/ u.samples # <<>>, Log(accepted, u, in),
                     time, point)
      /\ supplied' = supplied \cup {AsFloat[point]}
      /\ UNCHANGED <<config, started>>

endUp(time, point) ==
  /\ started /\ ~ended
  /\ time = Nil \/ point = Nil
  /\ SendUp(modeler, pathMutable, hasPathMove, accepted, time, point)
  /\ supplied' = supplied \cup (IF point = Nil THEN {} ELSE {AsFloat[point]})
  /\ UNCHANGED <<config, started>>

end(time, point) ==
  InBounds /\ (\/ endRefused
               \/ endMoveThrows(time, point)
               \/ endMoveUp(time, point)
               \/ endUp(time, point))

Next ==
  \/ getPath
  \/ resetPath
  \/ \E point \in CGPoints, time \in Times : start(point, time) \/ append(point, time)
  \/ \E point \in CGPoints \cup {Nil}, time \in Times \cup {Nil} : end(time, point)

Spec == Init /\ [][Next]_vars
--------------------------------------------------------------------------------
(***************************************************************************)
(* Properties                                                              *)
(***************************************************************************)

\* How many samples of an accepted input fit the buffer of update.
Delivered(a) == Least(a.produced, Capacity)

\* The samples that the inputs of log delivered, each once and in order.
Mirrors(path, log) ==
  /\ \A i \in 1 .. Len(path) : \E j \in 1 .. Len(log) :
       /\ path[i].sample.call = log[j].call
       /\ path[i].sample.k \in 1 .. Delivered(log[j])
  /\ \A j \in 1 .. Len(log) : \A n \in 1 .. Delivered(log[j]) :
       \E i \in 1 .. Len(path) :
         path[i].sample.call = log[j].call /\ path[i].sample.k = n
  /\ \A i, j \in 1 .. Len(path) : i < j =>
       LET a == path[i].sample
           b == path[j].sample
       IN  a.call < b.call \/ (a.call = b.call /\ a.k < b.k)

\* The path is exactly what the accepted inputs of this stroke delivered: no
\* sample of an earlier stroke or a refused input, none missing that came back
\* from the modeler, none twice, in the order of the inputs -- also after calls
\* that failed half way, and after a reset in the middle of a stroke.
PathMirrorsStroke == Mirrors(pathMutable, accepted)

IsSubpath(path, hasMove) ==
  /\ hasMove = (path # <<>>)
  /\ \A i \in 1 .. Len(path) : (path[i].op = "move") = (i = 1)

\* A path is one subpath: CGMutablePath gets one move, as its first element,
\* whatever resets, failures and empty results happened before, so addLine is
\* never called on a path without a current point.
OneSubpath == IsSubpath(pathMutable, hasPathMove)

\* The flags of the smoother never disagree with the stroke inside the modeler:
\* an ended smoother has no stroke in progress; a started one has the very
\* stroke its own down event opened, or none if that event was refused; one not
\* started has an empty path, though the modeler may still be in an old stroke.
FlagsAgreeWithModeler ==
  /\ ended => started /\ accepted # <<>> /\ modeler.impl.stroke = Nil
  /\ ~started => accepted = <<>> /\ pathMutable = <<>>
  /\ (started /\ ~ended) =>
       IF accepted = <<>> THEN modeler.impl.stroke = Nil
       ELSE /\ modeler.impl.stroke # Nil
            /\ modeler.impl.stroke.down = accepted[1].call

\* A stroke reaches the core as one down, then moves, then one up, with
\* timestamps that do not go back; `ended' is set exactly when the up was
\* accepted.
WellFormedStroke ==
  /\ \A j \in 1 .. Len(accepted) :
       /\ (accepted[j].event_type = "down") = (j = 1)
       /\ accepted[j].event_type = "up" => j = Len(accepted) /\ ended
       /\ j > 1 => accepted[j - 1].time <= accepted[j].time
  /\ ended => accepted # <<>> /\ accepted[Len(accepted)].event_type = "up"

\* A path given to a caller is never rewritten, even when copy() failed and the
\* caller holds the smoother's own mutable path: what the caller saw stays its
\* beginning, and the path of an ended stroke stays as it is, whatever strokes
\* are drawn after it.
HandedPathsAreStable ==
  \A h \in handed :
    /\ h.object \in 1 .. Len(paths)
    /\ Len(h.content) <= Len(paths[h.object])
    /\ SubSeq(paths[h.object], 1, Len(h.content)) = h.content
    /\ h.final => paths[h.object] = h.content

\* With usable parameters and a finite point, start() on a smoother that is not
\* started cannot fail, whatever stroke or error the modeler was left with.
ConfigUsable ==
  {config.motion, config.sampling} \cap Rejected = {} /\
  (config.prediction.case = "kalman" => config.prediction.k \notin Rejected)

StartRecovers ==
  [][(/\ ret'.call = "start"
      /\ ~started /\ ConfigUsable
      /\ supplied' \cap BadPoints = {}) => ret'.err = "none"]_vars

\* The smoother implements its contract: `phase' read off its flags and the
\* modeler's stroke, `line' its current path.
Phase ==
  CASE ~started                       -> "idle"
    [] ended                          -> "ended"
    [] started /\ ~ended /\ modeler.impl.stroke # Nil -> "drawing"
    [] started /\ ~ended /\ modeler.impl.stroke = Nil -> "stuck"

Contract == INSTANCE PathContract WITH phase <- Phase, line <- pathMutable

ImplementsContract == Contract!Spec

--------------------------------------------------------------------------------
(***************************************************************************)
(* What the documentation says and the code does not do.                   *)
(***************************************************************************)

\* After end, the path holds the final stroke: every sample that the core
\* produced for it.
WholeStrokeOnPath ==
  ended => \A j \in 1 .. Len(accepted) : \A n \in 1 .. accepted[j].produced :
             \E i \in 1 .. Len(pathMutable) :
               /\ pathMutable[i].sample.call = accepted[j].call
               /\ pathMutable[i].sample.k = n

\* The path is the caller's stroke: it is drawn only towards positions the
\* caller gave.
PathStaysOnSuppliedPoints ==
  \A i \in 1 .. Len(pathMutable) : pathMutable[i].sample.toward \in supplied

================================================================================
