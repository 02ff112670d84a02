------------------------------ MODULE CondVar ------------------------------
(***************************************************************************)
(* absl::CondVar (absl/synchronization/mutex.cc) on top of Mutex.tla: a    *)
(* waiter gives the mutex up while it puts itself on the list of the       *)
(* condition variable, and a signaller wakes it or moves it to the queue   *)
(* of the mutex (Fer). The spinlock in the condition variable's word is    *)
(* held for a few instructions that touch its list only: what is done      *)
(* under it is one step here.                                              *)
(***************************************************************************)
EXTENDS Mutex

\* WaitCommon: the lock that the caller holds is the one to release and to take
\* again. Wait is called in a loop until the data is set, WaitWithTimeout once.
Wait(t) ==
  /\ Starts(t, {"Wait", "WaitWithTimeout"})
  /\ LET timed == Head(prog[t]) = "WaitWithTimeout"
     IN  /\ IF data \/ timed THEN Pop(t) ELSE UNCHANGED prog
         /\ IF data
              THEN loc' = [loc EXCEPT ![t] = [Idle EXCEPT !.held = loc[t].held]] /\ UNCHANGED synch
              ELSE /\ loc' = [loc EXCEPT ![t] = [Idle EXCEPT !.pc = "us", !.held = loc[t].held,
                                                   !.mode = "cvenqueue", !.timed = timed]]
                   /\ synch' = [synch EXCEPT ![t].how = loc[t].held, ![t].cond = None]
  /\ UNCHANGED <<shared, data, cv>>

\* CondVarEnqueue, which UnlockSlow calls just before it releases the lock. The
\* thread is on the list before anybody can take the lock.
CondVarEnqueue(t) ==
  /\ loc[t].mode = "cvenqueue"
  /\ At(t, "nolist") \/ (At(t, "list") /\ ~MustSearch(t))
  /\ cv' = Append(cv, t)
  /\ synch' = [synch EXCEPT ![t].queued = TRUE, ![t].next = TRUE]
  /\ loc' = [loc EXCEPT ![t].mode = "cv"]
  /\ UNCHANGED <<shared, prog, data>>

\* WaitCommon: the thread is no longer queued and takes the lock back (Trans), in
\* LockSlowLoop, as one that has blocked.
Trans(t) ==
  /\ At(t, "cvblock") /\ ~synch[t].queued
  /\ loc' = [loc EXCEPT ![t].pc = "loop", ![t].blocked = TRUE]
  /\ UNCHANGED <<shared, synch, prog, data, cv>>

\* WaitCommon: the deadline passes; Remove takes the thread off the list if it is
\* still there. If a signaller has it, the thread waits on for that.
Timeout(t) ==
  /\ At(t, "cvblock") /\ synch[t].queued /\ loc[t].timed
  /\ loc' = [loc EXCEPT ![t].timed = FALSE]
  /\ cv' = Only(cv, Threads \ {t})
  /\ synch' = IF Contains(cv, t)
                THEN [synch EXCEPT ![t].queued = FALSE, ![t].next = FALSE] ELSE synch
  /\ UNCHANGED <<shared, prog, data>>

\* Signal takes the oldest waiter, SignalAll every one; with the lock or without.
Signal(t) ==
  /\ Starts(t, {"Signal", "SignalAll"})
  /\ Pop(t)
  /\ LET n == IF Head(prog[t]) = "Signal" /\ cv # <<>> THEN 1 ELSE Len(cv)
     IN  /\ cv' = SubSeq(cv, n + 1, Len(cv))
         /\ loc' = [loc EXCEPT ![t] = [Idle EXCEPT !.held = loc[t].held,
                      !.fer = SubSeq(cv, 1, n), !.pc = IF n = 0 THEN "run" ELSE "fer"]]
  /\ UNCHANGED <<shared, synch, data>>

\* Fer: the mutex is held in a way that keeps the waiter out, so that somebody
\* will release it and look at the queue.
Conflict(how) == mu_.wr \/ (how = W /\ mu_.rdr)

Fers(t) == At(t, "fer") /\ loc[t].fer # <<>>

\* Fer: wake the waiter.
FerWake(t) ==
  /\ Fers(t)
  /\ LET x == loc[t].fer[1]
     IN  /\ ~Conflict(synch[x].how)
         /\ synch' = [synch EXCEPT ![x].next = FALSE]
         /\ loc' = [loc EXCEPT ![t].wakes = <<x>>, ![t].fer = Tail(@),
                               ![t].pc = "wakeState", ![t].mode = "fer"]
  /\ UNCHANGED <<shared, prog, data, cv>>

\* Fer: make it the only waiter of the mutex.
FerAlone(t) ==
  /\ Fers(t)
  /\ LET x == loc[t].fer[1]
     IN  /\ Conflict(synch[x].how) /\ ~mu_.spin /\ ~mu_.wait
         /\ queue' = <<x>>
         /\ head' = [readers |-> mu_.cnt, unlocking |-> FALSE]
         /\ mu_' = [mu_ EXCEPT !.wait = TRUE, !.cnt = 0]
         /\ synch' = [synch EXCEPT ![x] = Queued(@, synch[x].how, None)]
         /\ loc' = [loc EXCEPT ![t].fer = Tail(@)]
  /\ UNCHANGED <<prog, data, cv>>

\* Fer: queue it with others, under the spinlock ...
FerSpin(t) ==
  /\ Fers(t)
  /\ Conflict(synch[loc[t].fer[1]].how) /\ ~mu_.spin /\ mu_.wait
  /\ mu_' = [mu_ EXCEPT !.spin = TRUE]
  /\ Goto(t, "ferqueue")
  /\ UNCHANGED <<queue, head, synch, prog, data, cv>>

\* ... which is then released.
FerQueue(t) ==
  /\ At(t, "ferqueue")
  /\ LET x == loc[t].fer[1]
     IN  /\ queue' = Enqueue(queue, x, synch[x].how, None, FALSE, head.unlocking)
         /\ synch' = [synch EXCEPT ![x] = Queued(@, synch[x].how, None)]
         /\ mu_' = [mu_ EXCEPT !.spin = FALSE, !.wait = TRUE]
         /\ loc' = [loc EXCEPT ![t].fer = Tail(@), ![t].pc = "fer"]
  /\ UNCHANGED <<head, prog, data, cv>>

\* Signal, SignalAll: everybody has been seen to.
Signalled(t) ==
  /\ At(t, "fer") /\ loc[t].fer = <<>>
  /\ loc' = [loc EXCEPT ![t] = [Idle EXCEPT !.held = loc[t].held]]
  /\ UNCHANGED <<shared, synch, prog, data, cv>>

-----------------------------------------------------------------------------
(* What the programs may be.                                               *)

\* What a caller must hold, and what it holds afterwards: the annotations of the
\* methods in mutex.h. (TryLock: if it succeeds. Set and Clear stand for the critical
\* section of a writer.)
Uses(op, before, after) ==
  \/ op \in DOMAIN Acquisitions /\ before = None /\ after = Acquisitions[op].how
  \/ op = "TryLock" /\ before = None /\ after = W
  \/ op = "ReaderTryLock" /\ before = None /\ after = R
  \/ op = "Unlock" /\ before # None /\ after = None
  \/ op \in {"Await", "AwaitWithDeadline", "Wait", "WaitWithTimeout"} /\ before # None /\ after = before
  \/ op \in {"Set", "Clear"} /\ before = W /\ after = W
  \/ op \in {"Signal", "SignalAll"} /\ after = before

Operations ==
  DOMAIN Acquisitions \cup
  {"TryLock", "ReaderTryLock", "Unlock", "Await", "AwaitWithDeadline", "Wait", "WaitWithTimeout",
   "Set", "Clear", "Signal", "SignalAll"}

\* A thread that holds before may run p.
Legal(p, before) ==
  \E held \in [1..Len(p) + 1 -> {None, W, R}] :
    held[1] = before /\ \A i \in 1..Len(p) : Uses(p[i], held[i], held[i + 1])

ASSUME CondVarAssumption ==
  /\ Programs \subseteq [Threads -> Seq(Operations)]
  /\ \A programs \in Programs : \A t \in Threads : Legal(programs[t], None)

-----------------------------------------------------------------------------
CondVarStep(t) ==
  \/ MutexStep(t) \/ Wait(t) \/ CondVarEnqueue(t) \/ UnlockToCv(t) \/ Trans(t)
  \/ Signal(t) \/ FerWake(t) \/ FerAlone(t) \/ FerSpin(t)
  \/ FerQueue(t) \/ Signalled(t)

Next == \E t \in Threads : CondVarStep(t) \/ Timeout(t) \/ BlockTimeout(t)

\* Threads that can go on are run; a deadline need never pass.
Spec == Init /\ [][Next]_vars /\ \A t \in Threads : WF_vars(CondVarStep(t))

-----------------------------------------------------------------------------
Count(x, s) == Cardinality({i \in 1..Len(s) : s[i] = x})

\* Where a thread is listed: the queue of the mutex, the list of the condition
\* variable, and what signallers and unlockers have in hand.
Listed(x) ==
  Count(x, queue) + Count(x, cv)
  + Cardinality({t \in Threads : Contains(loc[t].fer, x)})
  + Cardinality({t \in Threads : \E i \in 1..Len(loc[t].wakes) : loc[t].wakes[i] = x
                                   /\ (i > 1 \/ ~At(t, "wakePost"))})

\* A thread whose state is kQueued is on exactly one list, and one that is not is
\* on none: whoever takes it off that list is the one to wake it. (Between the
\* stores of Wakeup it is on none any more.)
ListedOnce == \A x \in Threads : Listed(x) = IF synch[x].queued THEN 1 ELSE 0

\* The queue and the lists lose nobody: every thread that has to be woken is on
\* one list, a designated waker is really awake, and nothing that another thread
\* does to the word is undone by the unlocker's store.
NoWaiterIsForgotten ==
  ListedOnce /\ DesignatedWakerExists /\ NotCorrupt /\ StoreLosesNothing /\ SearchStaysValid

\* No wake-up is lost: a call returns, unless it waits, with a condition or on the
\* condition variable, for data that is never set again. Wait gives the lock up
\* and waits in one step: who sets the data under the lock and then signals
\* reaches every waiter.
CallsReturn ==
  \A t \in Threads :
    \/ []<>At(t, "run")
    \/ <>[](~data /\ At(t, IF synch[t].cond = None THEN "cvblock" ELSE "block"))
=============================================================================
