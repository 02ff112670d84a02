------------------------------ MODULE Sharing ------------------------------
(***************************************************************************)
(* What threads share: the lock order graph of the mutexes, memory,        *)
(* statuses, flags, sampled cords and the samples of profilers. A          *)
(* behaviour is one of the units below; the others stand still. They share *)
(* names of threads, not state. A constant that differs between units is a *)
(* function of the unit.                                                   *)
(***************************************************************************)
EXTENDS Integers, FiniteSets

CONSTANTS
  Threads, None,
  Lockers, Ptrs, MaxNodes, MaxVersion,              \* GraphCycles, DeadlockDetector
  MaxLocks, MaxHolds, Modes, Forgotten,
  Requests, Memory, Page, ChunkPages, kMaxLevel, MaxRandom,               \* LowLevelAlloc
  Objects, Codes, Messages, NoMessage, Payloads, NoPayload, Reps,         \* StatusRep
  Values, Default, Addresses, Savers, MaxChanges,                         \* FlagImpl
  Words, MaxWrites,                                                       \* SequenceLock
  Cords, Profilers, Infos, CordReps,                                      \* CordzInfo
  Samples, graveyard_, max_samples_                                       \* SampleRecorder

VARIABLES unit,
  nodes_, free_nodes_, res,                                             \* GraphCycles
  holds, exclusive, all_locks, acquiring, graph_mu, lost, died,         \* DeadlockDetector
  arena, mapped, arenaOp,                                               \* LowLevelAlloc
  status, statusHeap, statusOp,                                         \* StatusRep
  ptr, mem, freelist, default_value, modified_, on_command_line_, count,
  callback_, guard, saved, flagOp, isSet, observed,                     \* FlagImpl
  lock_, buffer, mutex, seqOp, written, seen,                           \* SequenceLock
  tree, cordz_info, refcount, disturbed, new, alive, rep_, mutex_, head, ci_prev_, ci_next_,
  dq_tail, dq_prev_, dq_next_, cordOp, profiler,                        \* CordzInfo
  size_estimate_, all_, next, dead, init_mu, created, users, sampleOp, must  \* SampleRecorder

graph == <<nodes_, free_nodes_, res>>
detector == <<graph, holds, exclusive, all_locks, acquiring, graph_mu, lost, died>>
memory == <<arena, mapped, arenaOp>>
statuses == <<status, statusHeap, statusOp>>
flag == <<ptr, mem, freelist, default_value, modified_, on_command_line_, count, callback_, guard,
          saved, flagOp, isSet, observed>>
sequence == <<lock_, buffer, mutex, seqOp, written, seen>>
cordz == <<tree, cordz_info, refcount, disturbed, new, alive, rep_, mutex_, head, ci_prev_,
           ci_next_, dq_tail, dq_prev_, dq_next_, cordOp, profiler>>
recorder == <<size_estimate_, all_, next, dead, init_mu, created, users, sampleOp, must>>
vars == <<unit, detector, memory, statuses, flag, sequence, cordz, recorder>>

-----------------------------------------------------------------------------
\* The graph alone, with nodes that are used a second time; threads that lock mutexes in any
\* order; that forget mutexes, even held ones; and that share mutexes and have little room in
\* their lists.
Detectors == {"graph", "locks", "forget", "shared"}
Detector(u) == INSTANCE DeadlockDetector WITH
  Threads <- Lockers[u], Ptrs <- Ptrs[u], NullPtr <- None, NoThread <- None,
  MaxNodes <- MaxNodes[u], MaxVersion <- MaxVersion[u], MaxLocks <- MaxLocks[u],
  MaxHolds <- MaxHolds[u], Modes <- Modes[u], Forgotten <- Forgotten[u]

Arena == INSTANCE LowLevelAlloc WITH heap <- arena, op <- arenaOp

Status == INSTANCE StatusRep WITH rep_ <- status, heap <- statusHeap, op <- statusOp

\* A value on the heap and a callback; a value of one word, and saved states.
Flags == {"callback", "savers"}
Flag(u) == INSTANCE FlagImpl WITH
  OnHeap <- u = "callback", HasCallback <- u = "callback",
  Addresses <- Addresses[u], Savers <- Savers[u], MaxChanges <- MaxChanges[u], op <- flagOp

SequenceLock == INSTANCE SequenceLock WITH op <- seqOp

\* Several cords; and several profilers.
Cordzes == {"cordz", "profilers"}
Cordz(u) == INSTANCE CordzInfo WITH
  Cords <- Cords[u], Profilers <- Profilers[u], Reps <- CordReps, op <- cordOp

Recorder == INSTANCE SampleRecorder WITH op <- sampleOp

ASSUME SharingAssumption ==
  /\ \A u \in Detectors : Detector(u)!DeadlockDetectorAssumption
  /\ Arena!LowLevelAllocAssumption
  /\ Status!StatusRepAssumption
  /\ \A u \in Flags : Flag(u)!FlagImplAssumption
  /\ SequenceLock!SequenceLockAssumption
  /\ \A u \in Cordzes : Cordz(u)!CordzInfoAssumption
  /\ Recorder!SampleRecorderAssumption

-----------------------------------------------------------------------------
\* What stands still stands as in one of its units.
Setting(u, units, still) == IF unit \in units THEN u = unit ELSE u = still

Init ==
  /\ unit \in {"arena", "status", "sequence", "recorder"} \cup Detectors \cup Flags \cup Cordzes
  /\ \E u \in Detectors : Setting(u, Detectors, "locks") /\ Detector(u)!DInit
  /\ Arena!Init /\ Status!Init /\ SequenceLock!Init /\ Recorder!Init
  /\ \E u \in Flags : Setting(u, Flags, "callback") /\ Flag(u)!Init
  /\ \E u \in Cordzes : Setting(u, Cordzes, "cordz") /\ Cordz(u)!Init

Still(changing) ==
  /\ unit' = unit
  /\ IF changing = "detector" THEN TRUE ELSE UNCHANGED detector
  /\ IF changing = "memory" THEN TRUE ELSE UNCHANGED memory
  /\ IF changing = "statuses" THEN TRUE ELSE UNCHANGED statuses
  /\ IF changing = "flag" THEN TRUE ELSE UNCHANGED flag
  /\ IF changing = "sequence" THEN TRUE ELSE UNCHANGED sequence
  /\ IF changing = "cordz" THEN TRUE ELSE UNCHANGED cordz
  /\ IF changing = "recorder" THEN TRUE ELSE UNCHANGED recorder

Others == <<holds, exclusive, all_locks, acquiring, graph_mu, lost, died>>

Next ==
  \/ unit = "graph" /\ Detector("graph")!Next /\ UNCHANGED Others /\ Still("detector")
  \/ \E u \in Detectors \ {"graph"} : unit = u /\ Detector(u)!DNext /\ Still("detector")
  \/ unit = "arena" /\ Arena!Next /\ Still("memory")
  \/ unit = "status" /\ Status!Next /\ Still("statuses")
  \/ \E u \in Flags : unit = u /\ Flag(u)!Next /\ Still("flag")
  \/ unit = "sequence" /\ SequenceLock!Next /\ Still("sequence")
  \/ \E u \in Cordzes : unit = u /\ Cordz(u)!Next /\ Still("cordz")
  \/ unit = "recorder" /\ Recorder!Next /\ Still("recorder")

Spec == Init /\ [][Next]_vars

-----------------------------------------------------------------------------
\* InsertEdge refuses an edge exactly if it would close a cycle, though it searches only
\* among the ranks between the two ends; expired ids change nothing.
AcyclicGraph == INSTANCE AcyclicGraph WITH
  Ptrs <- UNION {Ptrs[u] : u \in Detectors},
  live <- Detector("graph")!Live, edges <- Detector("graph")!PtrEdges
ImplementsAcyclicGraph == AcyclicGraph!Spec

\* CheckInvariants of the graph; threads that wait for each other in a ring have been
\* reported, whatever was forgotten; and LockLeave never takes a correct program for one
\* that releases what it does not hold.
DeadlocksReported ==
  /\ unit = "graph" => /\ Detector("graph")!RanksOrderEdges /\ Detector("graph")!EdgesMirrored
                       /\ Detector("graph")!PathsFound
  /\ unit = "locks" => Detector("locks")!DeadlocksReported /\ Detector("locks")!NeverDies
  /\ unit = "forget" => Detector("forget")!DeadlocksReported /\ Detector("forget")!NeverDies
  /\ unit = "shared" => Detector("shared")!HeldIsListed /\ Detector("shared")!NeverDies

\* The blocks of an arena tile its pages, each level of the skip list has the free blocks
\* it should, neighbours are joined, the first block that fits is used, and an arena that
\* is empty can give everything back.
ArenaIsSound ==
  unit = "arena" =>
    /\ Arena!BlocksTile /\ Arena!ListIsSorted /\ Arena!NoFreeNeighbours
    /\ Arena!FirstFit /\ Arena!EmptyArenaIsPages

\* Whatever is shared, and whenever threads interleave, each status keeps a value of its own.
StatusValue == INSTANCE StatusValue WITH val <- Status!Val
ImplementsStatusValue == StatusValue!Spec

\* The count of a status's representation is the number of those who hold it, so that none
\* is leaked or used after it was freed; and statuses are equal just when their values are.
CountsAreHolders == unit = "status" => Status!CountIsHolders /\ Status!EqualityIsOfValues

\* The words of a flag that are read without the mutex are whole, and its value on the heap
\* stays; when nothing is going on the callback has read the flag's last value, the flag
\* says whether it was modified, and it is in the state that was saved or restored last.
FlagsAreSound ==
  /\ unit = "sequence" => SequenceLock!NoTornReads /\ SequenceLock!SecondTrySucceeds
  /\ unit = "callback" => /\ Flag("callback")!UnprotectedReadsAreStable
                          /\ Flag("callback")!CallbackSeesTheLastValue
  /\ unit = "savers" => Flag("savers")!ModifiedIsTrue /\ Flag("savers")!SavedIsThere

\* A count is the number of those who hold a sampled cord's tree, the list has the infos of
\* the cords that are sampled, and what a profiler is at, or looks into, stays.
CordzIsSound ==
  \A u \in Cordzes : unit = u =>
    /\ Cordz(u)!CountsAreHolders /\ Cordz(u)!NothingIsLeaked /\ Cordz(u)!ListIsExact
    /\ Cordz(u)!InspectedIsAlive /\ Cordz(u)!AnalyzedIsStable

\* A sample has one user or is in the graveyard, the limit is exceeded by one at most, the
\* estimate is exact when nothing goes on, and Iterate visits every sample that stays.
RecorderIsSound ==
  unit = "recorder" =>
    /\ Recorder!VisitsWhatStays /\ Recorder!OneUserOrBuried
    /\ Recorder!SoftLimit /\ Recorder!EstimateIsExact
=============================================================================
