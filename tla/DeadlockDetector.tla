-------------------------- MODULE DeadlockDetector --------------------------
(***************************************************************************)
(* The deadlock detection of Mutex in debug mode (absl/synchronization/    *)
(* mutex.cc): every thread lists the mutexes it holds, and before it       *)
(* blocks for another one, an edge from each of these to that one is added *)
(* to the lock order graph. An edge that would close a cycle is reported   *)
(* (mode kReport). The mutexes themselves are taken as Mutex.tla shows     *)
(* them: exclusive or shared holders.                                      *)
(***************************************************************************)
EXTENDS GraphCycles

CONSTANTS Threads,
          NoThread,
          MaxLocks,   \* ABSL_ARRAYSIZE(SynchLocksHeld::locks), 40
          MaxHolds,   \* bound: how often a thread shares one mutex
          Modes,      \* subset of BOOLEAN: whether clients share, and whether they do not
          Forgotten   \* bound: the mutexes that clients forget

DeadlockDetectorAssumption ==
  /\ GraphCyclesAssumption
  /\ NoThread \notin Threads /\ MaxLocks \in Nat \ {0} /\ MaxHolds \in Nat \ {0}
  /\ Modes \subseteq BOOLEAN /\ Forgotten \subseteq Ptrs

VARIABLES
  holds,      \* how often each thread holds each mutex
  exclusive,  \* the mutexes held by a writer
  all_locks,  \* each thread's SynchLocksHeld
  acquiring,  \* each thread's acquisition that checks or blocks, or Idle
  graph_mu,   \* the thread in deadlock_graph_mu that goes through its locks, or NoThread
  lost,       \* history: <<t, mu>> when mu is forgotten while t holds it or waits
  died        \* whether LockLeave found a "thread releasing lock it does not hold"

mutexes == <<holds, exclusive>>
vars == <<graph, mutexes, all_locks, acquiring, graph_mu, lost, died>>

Idle == [mu |-> NullPtr]

DInit ==
  /\ Init
  /\ holds = [t \in Threads |-> [mu \in Ptrs |-> 0]] /\ exclusive = {}
  /\ all_locks = [t \in Threads |-> [locks |-> <<>>, overflow |-> FALSE]]
  /\ acquiring = [t \in Threads |-> Idle]
  /\ graph_mu = NoThread /\ lost = {} /\ died = FALSE

\* GetGraphIdLocked adds a node for a mutex that has none.
GetGraphId(mu) == IF HasPtr(mu) THEN UNCHANGED graph ELSE GetId(mu)
GraphId(mu) ==
  IF HasPtr(mu) THEN Id(Find(mu))
  ELSE LET i == IF free_nodes_ = <<>> THEN Len(nodes_) ELSE Last(free_nodes_)
       IN  [index |-> i, version |-> NewNodes(mu)[i + 1].version]

\* Whether t may take mu now; how often a thread shares one is bounded.
Available(t, mu, shared) ==
  /\ mu \notin exclusive
  /\ IF shared THEN holds[t][mu] < MaxHolds ELSE \A s \in Threads : holds[s][mu] = 0

-----------------------------------------------------------------------------
(* LockEnter and LockLeave on the list h of the calling thread.            *)

\* The first lock with the id, or 0.
At(h, id) ==
  LET found == {i \in 1..Len(h.locks) : h.locks[i].id = id}
  IN  IF found = {} THEN 0 ELSE CHOOSE i \in found : \A j \in found : i <= j

LockEnter(h, mu, id) ==
  IF At(h, id) # 0 THEN [h EXCEPT !.locks[At(h, id)].count = @ + 1]
  ELSE IF Len(h.locks) = MaxLocks THEN [h EXCEPT !.overflow = TRUE]
  ELSE [h EXCEPT !.locks = Append(@, [mu |-> mu, count |-> 1, id |-> id])]

\* The last lock of the list takes the place of the one that goes. One that is found
\* only by its mutex, after its id was reassigned, stays.
LockLeave(h, id) ==
  LET i == At(h, id)
  IN  IF i = 0 THEN h
      ELSE IF h.locks[i].count = 1
        THEN [h EXCEPT !.locks = Front([h.locks EXCEPT ![i] = Last(h.locks)])]
        ELSE [h EXCEPT !.locks[i].count = @ - 1]

Unheld(h, mu, id) ==
  At(h, id) = 0 /\ ~h.overflow /\ \A i \in 1..Len(h.locks) : h.locks[i].mu # mu

-----------------------------------------------------------------------------
\* Lock, ReaderLock: DeadlockCheck takes deadlock_graph_mu and gets the id; with no
\* other lock held there is nothing to check.
StartCheck(t, mu, shared) ==
  /\ acquiring[t] = Idle /\ graph_mu = NoThread
  /\ GetGraphId(mu)
  /\ acquiring' = [acquiring EXCEPT ![t] =
       [mu |-> mu, shared |-> shared, id |-> GraphId(mu), next |-> 1, reported |-> FALSE]]
  /\ graph_mu' = IF all_locks[t].locks = <<>> THEN NoThread ELSE t
  /\ UNCHANGED <<mutexes, all_locks, lost, died>>

\* Mutant: only the first lock of the list is checked.
CheckLock_First(t) ==
  LET a == acquiring[t]
      locks == all_locks[t].locks
  IN  /\ graph_mu = t
      /\ IF Ptr(locks[a.next].id) = NullPtr THEN UNCHANGED graph
         ELSE InsertEdge(locks[a.next].id, a.id)
      /\ LET cycle == Ptr(locks[a.next].id) # NullPtr /\ ~res'
         IN  /\ acquiring' = [acquiring EXCEPT ![t].reported = cycle, ![t].next = @ + 1]
             /\ graph_mu' = NoThread
      /\ UNCHANGED <<mutexes, all_locks, lost, died>>

\* DeadlockCheck, one lock that is held: a stale one is ignored, and a cycle is
\* reported at most once per acquisition.
CheckLock(t) ==
  LET a == acquiring[t]
      locks == all_locks[t].locks
  IN  /\ graph_mu = t
      /\ IF Ptr(locks[a.next].id) = NullPtr THEN UNCHANGED graph
         ELSE InsertEdge(locks[a.next].id, a.id)
      /\ LET cycle == Ptr(locks[a.next].id) # NullPtr /\ ~res'
         IN  /\ acquiring' = [acquiring EXCEPT ![t].reported = cycle, ![t].next = @ + 1]
             /\ graph_mu' = IF cycle \/ a.next = Len(locks) THEN NoThread ELSE t
      /\ UNCHANGED <<mutexes, all_locks, lost, died>>

Take(t, mu, shared, id) ==
  /\ Available(t, mu, shared)
  /\ holds' = [holds EXCEPT ![t][mu] = @ + 1]
  /\ exclusive' = IF shared THEN exclusive ELSE exclusive \cup {mu}
  /\ all_locks' = [all_locks EXCEPT ![t] = LockEnter(@, mu, id)]

\* Lock, ReaderLock: the mutex is free at last.
Acquire(t) ==
  LET a == acquiring[t]
  IN  /\ a # Idle /\ graph_mu # t
      /\ Take(t, a.mu, a.shared, a.id)
      /\ acquiring' = [acquiring EXCEPT ![t] = Idle]
      /\ UNCHANGED <<graph, graph_mu, lost, died>>

\* TryLock, ReaderTryLock check nothing, since they do not block.
TryLock(t, mu, shared) ==
  /\ acquiring[t] = Idle /\ graph_mu = NoThread
  /\ GetGraphId(mu)
  /\ Take(t, mu, shared, GraphId(mu))
  /\ UNCHANGED <<acquiring, graph_mu, lost, died>>

\* Unlock, ReaderUnlock: LockLeave comes before the release.
Unlock(t, mu) ==
  /\ acquiring[t] = Idle /\ graph_mu = NoThread /\ holds[t][mu] > 0
  /\ GetGraphId(mu)
  /\ died' = (died \/ Unheld(all_locks[t], mu, GraphId(mu)))
  /\ all_locks' = [all_locks EXCEPT ![t] = LockLeave(@, GraphId(mu))]
  /\ holds' = [holds EXCEPT ![t][mu] = @ - 1]
  /\ exclusive' = exclusive \ {mu}
  /\ lost' = IF holds'[t][mu] = 0 THEN lost \ {<<t, mu>>} ELSE lost
  /\ UNCHANGED <<acquiring, graph_mu>>

\* ForgetDeadlockInfo, by anyone; ~Mutex calls it too.
ForgetDeadlockInfo(mu) ==
  /\ graph_mu = NoThread
  /\ HasPtr(mu) /\ Node(Find(mu)).version < MaxVersion  \* bound
  /\ RemoveNode(mu)
  /\ lost' = lost \cup {<<t, mu>> : t \in {s \in Threads : holds[s][mu] > 0 \/ acquiring[s].mu = mu}}
  /\ UNCHANGED <<mutexes, all_locks, acquiring, graph_mu, died>>

DNext ==
  \/ \E t \in Threads :
       \/ CheckLock(t) \/ Acquire(t)
       \/ \E mu \in Ptrs :
            \/ \E shared \in Modes : StartCheck(t, mu, shared) \/ TryLock(t, mu, shared)
            \/ Unlock(t, mu)
  \/ \E mu \in Forgotten : ForgetDeadlockInfo(mu)


-----------------------------------------------------------------------------
\* s holds what t blocks for.
WaitsFor(t, s) ==
  /\ acquiring[t] # Idle /\ graph_mu # t
  /\ holds[s][acquiring[t].mu] > 0 /\ s # t

Ring(path) == \A i \in 1..Len(path) : WaitsFor(path[i], path[(i % Len(path)) + 1])

\* The thread has lost some data: its list was full at some time, or a mutex it holds
\* or waits for was forgotten.
Tracked(t) == ~all_locks[t].overflow /\ \A mu \in Ptrs : <<t, mu>> \notin lost

\* mutex.cc: threads that wait for each other in a ring have been reported, by at
\* least one of them when it began to wait, whatever was locked with TryLock.
DeadlocksReported ==
  \A k \in 2..Cardinality(Threads) :
    \A path \in {p \in [1..k -> Threads] : IsInjective(p)} :
      Ring(path) /\ (\A i \in 1..k : Tracked(path[i]))
        => \E i \in 1..k : acquiring[path[i]].reported

\* LockLeave never takes a correct program for one that releases what it does not
\* hold, even after the mutex was forgotten.
NeverDies == ~died

\* The list of a thread is what it holds, as far as it is known.
HeldIsListed ==
  \A t \in Threads :
    Tracked(t) => \A mu \in Ptrs :
      holds[t][mu] = IF HasPtr(mu) /\ At(all_locks[t], Id(Find(mu))) # 0
                     THEN all_locks[t].locks[At(all_locks[t], Id(Find(mu)))].count ELSE 0

\* No step depends on what the last InsertEdge returned.
DView == <<nodes_, free_nodes_, mutexes, all_locks, acquiring, graph_mu, lost, died>>
=============================================================================
