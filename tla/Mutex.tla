------------------------------- MODULE Mutex -------------------------------
(***************************************************************************)
(* absl::Mutex (absl/synchronization/mutex.cc): the mutex word, the queue  *)
(* of waiting threads that hangs off it, and every method that acquires,   *)
(* releases or waits. CondVar.tla adds the condition variable.             *)
(*                                                                         *)
(* One action is one access to the mutex word together with what the       *)
(* thread does on its own before the next one. A load and the compare and  *)
(* exchange that follows it are one action: when the exchange fails the    *)
(* code loads again. Where the code overwrites the word by a plain store,  *)
(* the load and the store are two actions.                                 *)
(***************************************************************************)
EXTENDS Integers, FiniteSets, SequencesExt

CONSTANTS Threads,
          None,       \* no thread, no condition
          Programs,   \* what the threads may run: a sequence of operations for each
          Priority    \* PerThreadSynch::priority of each thread

W == "exclusive"
R == "shared"

ASSUME MutexAssumption ==
  /\ IsFiniteSet(Threads) /\ None \notin Threads \cup {W, R, "data"}
  /\ Priority \in [Threads -> Nat]

VARIABLES
  mu_,    \* the word: its bits, and the reader count of a word without waiters
  queue,  \* the waiters in the order of ->next; the code's "head" is the last
  head,   \* the fields readers and maybe_unlocking of the last waiter
  synch,  \* PerThreadSynch of each thread, and the SynchWaitParams it points to
  loc,    \* local state of the call each thread is in
  prog,   \* what each thread has still to do
  data,   \* what conditions read; written and read under the mutex only
  cv      \* the waiters of the condition variable, oldest first

shared == <<mu_, queue, head>>
vars == <<mu_, queue, head, synch, loc, prog, data, cv>>

Free == [rdr |-> FALSE, wr |-> FALSE, desig |-> FALSE, wait |-> FALSE,
         wrwait |-> FALSE, spin |-> FALSE, cnt |-> 0]
NoHead == [readers |-> 0, unlocking |-> FALSE]

\* A call starts with these; held, the lock the thread holds, outlives calls.
Idle == [pc |-> "run", held |-> None, blocked |-> FALSE, timed |-> FALSE,
         mode |-> "unlock", v |-> Free, w |-> None, pw |-> None, oldh |-> None,
         wrw |-> FALSE, wakes |-> <<>>, fer |-> <<>>, op |-> "none", res |-> TRUE]

Init ==
  /\ mu_ = Free /\ queue = <<>> /\ head = NoHead
  /\ synch = [t \in Threads |-> [queued |-> FALSE, next |-> FALSE, wake |-> FALSE,
                                 sem |-> 0, how |-> W, cond |-> None]]
  /\ loc = [t \in Threads |-> Idle]
  /\ prog \in Programs
  /\ data = FALSE
  /\ cv = <<>>

pc(t) == loc[t].pc
At(t, l) == loc[t].pc = l
Goto(t, l) == loc' = [loc EXCEPT ![t].pc = l]

\* Condition::Eval; no condition is a true one.
Eval(c) == c = None \/ data

\* The members of S in the order of s.
Only(s, S) ==
  LET only[i \in 0..Len(s)] ==
        IF i = 0 THEN <<>> ELSE IF s[i] \in S THEN Append(only[i - 1], s[i]) ELSE only[i - 1]
  IN  only[Len(s)]

-----------------------------------------------------------------------------
(* The word and the queue.                                                 *)

\* The bits that need to be zero (fast_need_zero, slow_need_zero).
CanAcquire(how) == ~mu_.wr /\ (IF how = W THEN ~mu_.rdr ELSE ~mu_.wait)

\* The word once the lock is taken. A thread that has blocked may be the
\* designated waker and is one no longer (ClearDesignatedWakerMask).
Acquired(how, blocked) ==
  [mu_ EXCEPT !.desig = @ /\ ~blocked,
              !.wr = @ \/ how = W, !.rdr = @ \/ how = R,
              !.cnt = IF how = R THEN @ + 1 ELSE @]

\* Enqueue: where a thread goes in a queue. While an unlocker may be scanning the
\* queue, nothing is put before its last element but a writer without a
\* condition, and that only at the front.
Enqueue(q, s, how, cond, blocked, unlocking) ==
  LET front == ~unlocking \/ (how = W /\ cond = None)
      above == Priority[s] > Priority[Last(q)]
      place == Cardinality({i \in 1..Len(q) : \A j \in 1..i : Priority[q[j]] >= Priority[s]})
  IN  CASE q = <<>> -> <<s>>
        [] q # <<>> /\ above /\ ~unlocking -> InsertAt(q, place + 1, s)
        [] q # <<>> /\ above /\ unlocking /\ front -> <<s>> \o q
        [] q # <<>> /\ ~(above /\ front) /\ blocked /\ front
           /\ Priority[s] >= Priority[q[1]] -> <<s>> \o q
        [] OTHER -> Append(q, s)

\* What Enqueue writes into the thread's PerThreadSynch.
Queued(s, how, cond) ==
  [s EXCEPT !.queued = TRUE, !.next = TRUE, !.wake = FALSE, !.how = how, !.cond = cond]

-----------------------------------------------------------------------------
(* Acquiring.                                                              *)

\* Mutant: a thread that was woken trusts whoever woke it.
GotLock_TrustsWaker(t, how, l) ==
  IF l.blocked \/ Eval(synch'[t].cond)
    THEN loc' = [loc EXCEPT ![t] = [Idle EXCEPT !.held = how, !.op = l.op,
                              !.res = synch'[t].cond # None \/ l.op = "none" \/ data]]
    ELSE loc' = [loc EXCEPT ![t] = [l EXCEPT !.pc = "us", !.held = how, !.mode = "requeue"]]

\* The thread has the lock: it returns if its condition is true, and else gives
\* the lock up and queues itself (UnlockSlow(waitp)).
GotLock(t, how, l) ==
  IF Eval(synch'[t].cond)
    THEN loc' = [loc EXCEPT ![t] = [Idle EXCEPT !.held = how, !.op = l.op,
                              !.res = synch'[t].cond # None \/ l.op = "none" \/ data]]
    ELSE loc' = [loc EXCEPT ![t] = [l EXCEPT !.pc = "us", !.held = how, !.mode = "requeue"]]

\* The operations that acquire: the lock, whether under the condition, whether
\* with a deadline.
Acquisitions ==
  [Lock |-> [how |-> W, when |-> FALSE, timed |-> FALSE],
   ReaderLock |-> [how |-> R, when |-> FALSE, timed |-> FALSE],
   LockWhen |-> [how |-> W, when |-> TRUE, timed |-> FALSE],
   LockWhenWithDeadline |-> [how |-> W, when |-> TRUE, timed |-> TRUE],
   ReaderLockWhen |-> [how |-> R, when |-> TRUE, timed |-> FALSE]]

Starts(t, ops) == At(t, "run") /\ prog[t] # <<>> /\ Head(prog[t]) \in ops
Pop(t) == prog' = [prog EXCEPT ![t] = Tail(@)]

\* Lock, ReaderLock, LockWhen...: the attempt before the slow loop.
LockAny(t) ==
  /\ Starts(t, DOMAIN Acquisitions)
  /\ Pop(t)
  /\ LET a == Acquisitions[Head(prog[t])]
         l == [Idle EXCEPT !.timed = a.timed,
                           !.op = IF a.when THEN Head(prog[t]) ELSE "none"]
     IN  /\ synch' = [synch EXCEPT ![t].how = a.how,
                                   ![t].cond = IF a.when THEN "data" ELSE None]
         /\ IF CanAcquire(a.how)
              THEN mu_' = Acquired(a.how, FALSE) /\ GotLock(t, a.how, l)
              ELSE /\ loc' = [loc EXCEPT ![t] = [l EXCEPT !.pc = "loop"]]
                   /\ UNCHANGED mu_
  /\ UNCHANGED <<queue, head, data, cv>>

Tries(t) == IF Head(prog[t]) = "TryLock" THEN W ELSE R

\* TryLock, ReaderTryLock: one attempt.
TryLock(t) ==
  /\ Starts(t, {"TryLock", "ReaderTryLock"}) /\ CanAcquire(Tries(t))
  /\ mu_' = Acquired(Tries(t), FALSE)
  /\ loc' = [loc EXCEPT ![t] = [Idle EXCEPT !.held = Tries(t)]]
  /\ Pop(t)
  /\ UNCHANGED <<queue, head, synch, data, cv>>

\* It fails if somebody has the lock, and also if anything else in the word has
\* changed between load and exchange. A program skips what needs the lock.
TryLockFails(t) ==
  /\ Starts(t, {"TryLock", "ReaderTryLock"})
  /\ LET end == SelectInSeq(prog[t], LAMBDA o : o = "Unlock")
     IN  prog' = [prog EXCEPT ![t] = SubSeq(@, end + 1, Len(@))]
  /\ UNCHANGED <<shared, loc, synch, data, cv>>

\* LockSlowLoop: the lock is free for the thread.
LoopAcquire(t) ==
  /\ At(t, "loop") /\ CanAcquire(synch[t].how)
  /\ mu_' = Acquired(synch[t].how, loc[t].blocked)
  /\ synch' = synch
  /\ GotLock(t, synch[t].how, loc[t])
  /\ UNCHANGED <<queue, head, prog, data, cv>>

\* LockSlowLoop: become the only waiter. The reader count moves to the waiter.
LoopFirstWaiter(t) ==
  /\ At(t, "loop") /\ ~CanAcquire(synch[t].how) /\ ~mu_.spin /\ ~mu_.wait
  /\ queue' = <<t>>
  /\ head' = [readers |-> mu_.cnt, unlocking |-> FALSE]
  /\ mu_' = [mu_ EXCEPT !.desig = @ /\ ~loc[t].blocked, !.wait = TRUE, !.cnt = 0,
                        !.wrwait = @ \/ (synch[t].how = W /\ mu_.rdr)]
  /\ synch' = [synch EXCEPT ![t] = Queued(@, synch[t].how, synch[t].cond)]
  /\ Goto(t, "block")
  /\ UNCHANGED <<prog, data, cv>>

\* Mutant: the spinlock is not awaited.
MayIncrement_NoSpinlock(t) ==
  /\ synch[t].how = R /\ ~mu_.wr
  /\ mu_.wrwait => loc[t].blocked

\* A reader may join readers whose count is in the last waiter
\* (slow_inc_need_zero, IgnoreWaitingWritersMask).
MayIncrement(t) ==
  /\ synch[t].how = R /\ ~mu_.spin /\ ~mu_.wr
  /\ mu_.wrwait => loc[t].blocked

\* LockSlowLoop: such a reader gets the spinlock and sets the reader bit ...
LoopIncrement(t) ==
  /\ At(t, "loop") /\ ~CanAcquire(synch[t].how) /\ mu_.wait /\ MayIncrement(t)
  /\ mu_' = [mu_ EXCEPT !.desig = @ /\ ~loc[t].blocked, !.spin = TRUE, !.rdr = TRUE]
  /\ Goto(t, "increment")
  /\ UNCHANGED <<queue, head, synch, prog, data, cv>>

\* ... and counts itself in and releases the spinlock.
Increment(t) ==
  /\ At(t, "increment")
  /\ head' = [head EXCEPT !.readers = @ + 1]
  /\ mu_' = [mu_ EXCEPT !.spin = FALSE, !.rdr = TRUE]
  /\ synch' = synch
  /\ GotLock(t, R, loc[t])
  /\ UNCHANGED <<queue, prog, data, cv>>

\* LockSlowLoop: queue behind other waiters, under the spinlock ...
LoopQueue(t) ==
  /\ At(t, "loop") /\ ~CanAcquire(synch[t].how) /\ mu_.wait /\ ~mu_.spin
  /\ ~MayIncrement(t)
  /\ mu_' = [mu_ EXCEPT !.desig = @ /\ ~loc[t].blocked, !.spin = TRUE, !.wait = TRUE]
  /\ Goto(t, "enqueue")
  /\ UNCHANGED <<queue, head, synch, prog, data, cv>>

\* ... which is then released; a waiting writer holds new readers off.
LoopEnqueue(t) ==
  /\ At(t, "enqueue")
  /\ LET s == synch[t]
     IN  /\ queue' = Enqueue(queue, t, s.how, s.cond, loc[t].blocked, head.unlocking)
         /\ synch' = [synch EXCEPT ![t] = Queued(@, s.how, s.cond)]
         /\ mu_' = [mu_ EXCEPT !.spin = FALSE, !.wait = TRUE,
                               !.wrwait = @ \/ (s.how = W /\ mu_.rdr)]
  /\ Goto(t, "block")
  /\ UNCHANGED <<head, prog, data, cv>>

-----------------------------------------------------------------------------
(* Blocking.                                                               *)

\* Block: the thread is no longer queued; it goes on in LockSlowLoop.
BlockEnd(t) ==
  /\ At(t, "block") /\ ~synch[t].queued
  /\ loc' = [loc EXCEPT ![t].pc = "loop", ![t].blocked = TRUE]
  /\ UNCHANGED <<shared, synch, prog, data, cv>>

\* DecrementSynchSem returns true; the post may be an old one.
Decrement(t) ==
  /\ pc(t) \in {"block", "cvblock"} /\ synch[t].queued /\ synch[t].sem > 0
  /\ synch' = [synch EXCEPT ![t].sem = @ - 1]
  /\ UNCHANGED <<shared, loc, prog, data, cv>>

\* DecrementSynchSem returns false.
BlockTimeout(t) ==
  /\ At(t, "block") /\ synch[t].queued /\ loc[t].timed
  /\ Goto(t, "remove")
  /\ UNCHANGED <<shared, synch, prog, data, cv>>

\* Mutant: readers do not matter.
CanRemove_IgnoresReaders == mu_.wait /\ ~mu_.spin /\ ~mu_.wr

\* What TryRemove needs: waiters, and nobody who has spinlock or lock.
CanRemove == mu_.wait /\ ~mu_.spin /\ ~mu_.wr /\ ~mu_.rdr

\* TryRemove: take spinlock and lock, if nobody has them.
TryRemove(t) ==
  /\ pc(t) \in {"remove", "removing"} /\ CanRemove
  /\ At(t, "removing") => synch[t].next
  /\ mu_' = [mu_ EXCEPT !.spin = TRUE, !.wr = TRUE]
  /\ Goto(t, "unlink")
  /\ UNCHANGED <<queue, head, synch, prog, data, cv>>

\* TryRemove: the first call may do nothing.
TryRemoveNot(t) ==
  /\ At(t, "remove") /\ ~CanRemove
  /\ Goto(t, "removing")
  /\ UNCHANGED <<shared, synch, prog, data, cv>>


\* TryRemove: take the thread out of the queue if it is still there, and release
\* spinlock and lock.
Unlink(t) ==
  /\ At(t, "unlink")
  /\ queue' = Only(queue, Threads \ {t})
  /\ synch' = IF Contains(queue, t)
                THEN [synch EXCEPT ![t].next = FALSE, ![t].queued = FALSE] ELSE synch
  /\ mu_' = [Free EXCEPT !.desig = mu_.desig, !.wait = queue' # <<>>]
  /\ head' = NoHead
  /\ Goto(t, "removing")
  /\ UNCHANGED <<prog, data, cv>>

\* Block: somebody, or the thread itself, has taken it out of the queue. It waits
\* no longer for time or condition.
Removed(t) ==
  /\ At(t, "removing") /\ ~synch[t].next
  /\ loc' = [loc EXCEPT ![t].pc = "block", ![t].timed = FALSE]
  /\ synch' = [synch EXCEPT ![t].cond = None]
  /\ UNCHANGED <<shared, prog, data, cv>>

-----------------------------------------------------------------------------
(* Releasing.                                                              *)

\* Await: a condition that is true already ends it at once; else the thread gives
\* the lock up. AwaitWithDeadline does the same and may time out.
Await(t) ==
  /\ Starts(t, {"Await", "AwaitWithDeadline"})
  /\ Pop(t)
  /\ LET l == [Idle EXCEPT !.held = loc[t].held, !.op = Head(prog[t])]
     IN  IF data
           THEN loc' = [loc EXCEPT ![t] = l] /\ UNCHANGED synch
           ELSE /\ loc' = [loc EXCEPT ![t] = [l EXCEPT !.pc = "us", !.mode = "requeue",
                              !.blocked = TRUE, !.timed = Head(prog[t]) # "Await"]]
                /\ synch' = [synch EXCEPT ![t].how = loc[t].held, ![t].cond = "data"]
  /\ UNCHANGED <<shared, data, cv>>

\* The holder changes what conditions read.
Write(t) ==
  /\ Starts(t, {"Set", "Clear"})
  /\ Pop(t)
  /\ data' = (Head(prog[t]) = "Set")
  /\ loc' = [loc EXCEPT ![t] = [Idle EXCEPT !.held = loc[t].held]]
  /\ UNCHANGED <<shared, synch, cv>>

\* Nobody waits, or a designated waker is under way (should_try_cas).
FastWriter == mu_.wr /\ ~(mu_.wait /\ ~mu_.desig)
FastReader == mu_.rdr /\ ~mu_.wait

\* One reader less in the word.
OneReaderLess == [mu_ EXCEPT !.cnt = @ - 1, !.rdr = mu_.cnt # 1]

\* Unlock: load the word and see whether a fast release will do. ReaderUnlock
\* tries until the exchange succeeds or the slow path is needed.
Unlock(t) ==
  /\ Starts(t, {"Unlock"})
  /\ Pop(t)
  /\ LET l == [Idle EXCEPT !.held = loc[t].held]
     IN  CASE l.held = W /\ FastWriter ->
                loc' = [loc EXCEPT ![t] = [l EXCEPT !.pc = "release", !.v = mu_]] /\ mu_' = mu_
           [] l.held = R /\ FastReader ->
                loc' = [loc EXCEPT ![t] = Idle] /\ mu_' = OneReaderLess
           [] OTHER -> loc' = [loc EXCEPT ![t] = [l EXCEPT !.pc = "us"]] /\ mu_' = mu_
  /\ UNCHANGED <<queue, head, synch, data, cv>>

\* Unlock: the exchange of the fast release.
Release(t) ==
  /\ At(t, "release")
  /\ IF mu_ = loc[t].v
       THEN /\ mu_' = [mu_ EXCEPT !.wr = FALSE, !.wrwait = FALSE]
            /\ loc' = [loc EXCEPT ![t] = Idle]
       ELSE /\ loc' = [loc EXCEPT ![t] = [Idle EXCEPT !.held = W, !.pc = "us"]]
            /\ UNCHANGED mu_
  /\ UNCHANGED <<queue, head, synch, prog, data, cv>>

\* UnlockSlow: the fast releases again, for a thread that need not wait.
UnlockFast(t) ==
  /\ At(t, "us") /\ loc[t].mode = "unlock" /\ (FastWriter \/ FastReader)
  /\ mu_' = IF FastWriter THEN [mu_ EXCEPT !.wr = FALSE, !.wrwait = FALSE]
                          ELSE OneReaderLess
  /\ loc' = [loc EXCEPT ![t] = Idle]
  /\ UNCHANGED <<queue, head, synch, prog, data, cv>>

\* UnlockSlow: get the spinlock. v is the word to store when it is released.
UnlockSpin(t) ==
  /\ At(t, "us") /\ ~mu_.spin
  /\ loc[t].mode = "unlock" => ~FastWriter /\ ~FastReader
  /\ mu_' = [mu_ EXCEPT !.spin = TRUE]
  /\ loc' = [loc EXCEPT ![t].v = mu_, ![t].pc = IF mu_.wait THEN "list" ELSE "nolist"]
  /\ UNCHANGED <<queue, head, synch, prog, data, cv>>

\* Where the call goes on once the lock is released: wake the chosen threads,
\* then return or wait.
Then(l) == [run |-> Idle,
            wait |-> [Idle EXCEPT !.pc = IF l.mode = "requeue" THEN "block" ELSE "cvblock",
                                  !.op = l.op, !.timed = l.timed, !.blocked = l.blocked]]
After(l, wakes) ==
  LET next == IF l.mode = "unlock" THEN Then(l).run ELSE Then(l).wait
  IN  IF wakes = <<>> THEN next
      ELSE [next EXCEPT !.pc = "wakeNext", !.wakes = wakes, !.mode = next.pc]

\* UnlockSlow without waiters, to wait on the mutex: become the only waiter and
\* release lock and spinlock, with the count of the other readers.
UnlockAlone(t) ==
  /\ At(t, "nolist") /\ loc[t].mode = "requeue"
  /\ queue' = <<t>>
  /\ head' = [readers |-> IF mu_.cnt > 0 THEN mu_.cnt - 1 ELSE 0, unlocking |-> FALSE]
  /\ mu_' = [mu_ EXCEPT !.spin = FALSE, !.wait = TRUE, !.wrwait = FALSE, !.cnt = 0,
                        !.wr = FALSE, !.rdr = @ /\ ~(~mu_.wr /\ mu_.cnt = 1)]
  /\ synch' = [synch EXCEPT ![t] = Queued(@, synch[t].how, synch[t].cond)]
  /\ loc' = [loc EXCEPT ![t] = After(loc[t], <<>>)]
  /\ UNCHANGED <<prog, data, cv>>

\* The same when the thread has put itself on a condition variable instead: the
\* reader count stays in the word.
UnlockToCv(t) ==
  /\ At(t, "nolist") /\ loc[t].mode = "cv"
  /\ mu_' = [mu_ EXCEPT !.spin = FALSE, !.wrwait = FALSE, !.wr = FALSE,
                        !.cnt = IF @ > 0 THEN @ - 1 ELSE @,
                        !.rdr = @ /\ ~(~mu_.wr /\ mu_.cnt = 1)]
  /\ loc' = [loc EXCEPT ![t] = After(loc[t], <<>>)]
  /\ UNCHANGED <<queue, head, synch, prog, data, cv>>

NotLastReader(t) == loc[t].v.rdr /\ head.readers > 1

\* The first waiter is a writer that needs no search.
EasyWriter == synch[queue[1]].how = W /\ synch[queue[1]].cond = None

\* Whom to wake is known from a scan: a writer, or every reader there is.
Known(t) == loc[t].w # None /\ (synch[loc[t].w].how = W \/ Last(queue) = loc[t].oldh)

MustSearch(t) ==
  ~NotLastReader(t) /\ ~EasyWriter /\ ~Known(t) /\ loc[t].oldh # Last(queue)

\* The queue once the thread has queued itself again, if that is what it does.
Requeued(t, q, unlocking) ==
  IF loc[t].mode = "requeue"
    THEN Enqueue(q, t, synch[t].how, synch[t].cond, FALSE, unlocking) ELSE q
SynchRequeued(t) ==
  IF loc[t].mode = "requeue"
    THEN [synch EXCEPT ![t] = Queued(@, synch[t].how, synch[t].cond)] ELSE synch

\* UnlockSlow, other readers remain.
UnlockReader(t) ==
  /\ At(t, "list") /\ loc[t].mode # "cvenqueue" /\ NotLastReader(t)
  /\ head' = [head EXCEPT !.readers = @ - 1]
  /\ queue' = Requeued(t, queue, head.unlocking)
  /\ mu_' = [loc[t].v EXCEPT !.wait = TRUE]
  /\ synch' = SynchRequeued(t)
  /\ loc' = [loc EXCEPT ![t] = After(loc[t], <<>>)]
  /\ UNCHANGED <<prog, data, cv>>

\* UnlockSlow: the whole queue was searched and nobody can go on.
UnlockNobody(t) ==
  /\ At(t, "list") /\ loc[t].mode # "cvenqueue"
  /\ ~NotLastReader(t) /\ ~EasyWriter /\ ~Known(t) /\ loc[t].oldh = Last(queue)
  /\ head' = NoHead
  /\ queue' = Requeued(t, queue, FALSE)
  /\ mu_' = [loc[t].v EXCEPT !.rdr = FALSE, !.wr = FALSE, !.wrwait = FALSE, !.wait = TRUE]
  /\ synch' = SynchRequeued(t)
  /\ loc' = [loc EXCEPT ![t] = After(loc[t], <<>>)]
  /\ UNCHANGED <<prog, data, cv>>

Eligible(x) == Eval(synch[x].cond)
IsReader(x) == synch[x].how = R

\* UnlockSlow: release the spinlock and search the waiters not searched before,
\* up to the last. Others may queue meanwhile, before or after these; nobody may
\* change these or what their conditions read. The first that can go on is found
\* and, if it is a reader, every other reader that can. A thread that has put itself
\* on a condition variable has searched before and does not again.
Search(t) ==
  /\ At(t, "list") /\ MustSearch(t) /\ loc[t].mode # "cv"
  /\ LET l == loc[t]
         from == IF l.oldh = None THEN 1 ELSE SelectInSeq(queue, LAMBDA x : x = l.oldh) + 1
         walk == SubSeq(queue, from, Len(queue))
         able == Only(walk, {x \in Threads : Eligible(x)})
         writer == l.w = None /\ able # <<>> /\ ~IsReader(able[1])
         first == IF l.w # None \/ able = <<>> THEN l.w ELSE able[1]
         at == SelectInSeq(queue, LAMBDA x : x = first)
         seen == IF writer THEN SubSeq(queue, from, at) ELSE walk
         woken == IF writer THEN {first} ELSE {x \in ToSet(able) : IsReader(x)}
     IN  /\ synch' = [x \in Threads |-> IF x \in ToSet(seen)
                        THEN [synch[x] EXCEPT !.wake = x \in woken] ELSE synch[x]]
         /\ loc' = [loc EXCEPT ![t].pc = "us", ![t].oldh = Last(queue), ![t].w = first,
                      ![t].v = Free,
                      ![t].pw = IF l.w = None /\ able # <<>> /\ at > 1 THEN queue[at - 1] ELSE @,
                      ![t].wrw = @ \/ \E x \in ToSet(able) : ~IsReader(x)]
  /\ head' = [head EXCEPT !.unlocking = TRUE]
  /\ mu_' = loc[t].v
  /\ UNCHANGED <<queue, prog, data, cv>>

\* DequeueAllWakeable: from w on, every waiter marked, up to the first writer.
Wakeable(q, marked) ==
  LET m == Only(q, marked)
      w == SelectInSeq(m, LAMBDA x : ~IsReader(x))
  IN  IF w = 0 THEN m ELSE SubSeq(m, 1, w)

\* The word that releases the lock while threads are woken; q still waits.
WakingWord(q, wrw) ==
  [Free EXCEPT !.desig = TRUE, !.wait = q # <<>>, !.wrwait = wrw /\ q # <<>>]

\* UnlockSlow: take those to wake out of the queue, mark a designated waker, and
\* release lock and spinlock.
UnlockWake(t) ==
  /\ At(t, "list") /\ loc[t].mode # "cvenqueue"
  /\ ~NotLastReader(t) /\ (EasyWriter \/ Known(t))
  /\ LET w == IF EasyWriter THEN queue[1] ELSE loc[t].w
         i == SelectInSeq(queue, LAMBDA x : x = w)
         wakes == Wakeable(SubSeq(queue, i, Len(queue)),
                           {w} \cup {x \in ToSet(queue) : synch[x].wake})
         q == Only(queue, Threads \ ToSet(wakes))
         wrw == loc[t].wrw \/ EasyWriter
     IN  /\ queue' = Requeued(t, q, head.unlocking)
         /\ head' = NoHead
         /\ mu_' = WakingWord(queue', wrw)
         /\ synch' = SynchRequeued(t)
         /\ loc' = [loc EXCEPT ![t] = After(loc[t], wakes)]
  /\ UNCHANGED <<prog, data, cv>>

\* Wakeup, for each thread in turn: ->next, ->state, and the post.
WakeNext(t) ==
  /\ At(t, "wakeNext")
  /\ synch' = [synch EXCEPT ![loc[t].wakes[1]].next = FALSE]
  /\ Goto(t, "wakeState")
  /\ UNCHANGED <<shared, prog, data, cv>>

WakeState(t) ==
  /\ At(t, "wakeState")
  /\ synch' = [synch EXCEPT ![loc[t].wakes[1]].queued = FALSE]
  /\ Goto(t, "wakePost")
  /\ UNCHANGED <<shared, prog, data, cv>>

WakePost(t) ==
  /\ At(t, "wakePost")
  /\ synch' = [synch EXCEPT ![loc[t].wakes[1]].sem = @ + 1]
  /\ LET l == [loc[t] EXCEPT !.wakes = Tail(@)]
     IN  loc' = [loc EXCEPT ![t] = IF l.wakes # <<>> THEN [l EXCEPT !.pc = "wakeNext"]
                                   ELSE [l EXCEPT !.pc = l.mode, !.mode = "unlock"]]
  /\ UNCHANGED <<shared, prog, data, cv>>

-----------------------------------------------------------------------------
\* What a thread does of its own accord while it is in a call.
MutexStep(t) ==
  \/ LockAny(t) \/ TryLock(t) \/ TryLockFails(t) \/ LoopAcquire(t)
  \/ LoopFirstWaiter(t)
  \/ LoopIncrement(t) \/ Increment(t) \/ LoopQueue(t) \/ LoopEnqueue(t)
  \/ BlockEnd(t) \/ Decrement(t) \/ TryRemove(t) \/ TryRemoveNot(t) \/ Unlink(t)
  \/ Removed(t) \/ Await(t) \/ Write(t) \/ Unlock(t) \/ Release(t) \/ UnlockFast(t)
  \/ UnlockSpin(t) \/ UnlockAlone(t) \/ UnlockReader(t) \/ UnlockNobody(t)
  \/ Search(t) \/ UnlockWake(t) \/ WakeNext(t) \/ WakeState(t) \/ WakePost(t)

-----------------------------------------------------------------------------
Holders(how) == {t \in Threads : loc[t].held = how}

\* A writer excludes everyone, and the word says exactly who holds the lock: the
\* writer bit is the writer's (or that of a thread that removes itself), the
\* reader count, in the word or in the last waiter, is that of the readers.
MutualExclusion ==
  /\ Cardinality(Holders(W)) <= 1 /\ (Holders(W) # {} => Holders(R) = {})
  /\ mu_.wr <=> Holders(W) # {} \/ \E t \in Threads : At(t, "unlink")
  /\ (IF mu_.wait THEN head.readers ELSE mu_.cnt) = Cardinality(Holders(R))

\* CheckForMutexCorruption never finds anything: kMuWriter and kMuReader are
\* exclusive and kMuWrWait implies kMuWait; and the wait bit tells whether there
\* is a queue.
NotCorrupt ==
  /\ ~(mu_.wr /\ mu_.rdr)
  /\ mu_.wrwait => mu_.wait
  /\ mu_.wait <=> queue # <<>>

\* UnlockSlow stores a word that it loaded before ("can release with a store
\* because there were waiters"): nothing of it has changed since.
StoreLosesNothing ==
  \A t \in Threads : At(t, "list") => mu_ = [loc[t].v EXCEPT !.spin = TRUE]

\* INVARIANT1: if there is a designated waker, some thread that was blocked is
\* no longer and has not yet acquired the mutex or blocked again. Unlockers that
\* leave the waking to it rely on that.
DesignatedWakerExists ==
  mu_.desig =>
    \E t \in Threads :
      \/ /\ \/ pc(t) \in {"block", "remove", "removing", "unlink", "cvblock"}
            \/ pc(t) \in {"wakeNext", "wakeState", "wakePost"} /\ loc[t].mode \in {"block", "cvblock"}
         /\ ~Contains(queue, t) /\ ~Contains(cv, t)
      \/ At(t, "loop") /\ loc[t].blocked

\* What UnlockSlow remembers of its search is still so when it uses it: nobody
\* has come between a waiter and its predecessor, and the part of the queue that
\* was searched is still there (RAW_CHECKs "pw not w's predecessor", "Mutex queue
\* changed beneath us").
SearchStaysValid ==
  \A t \in Threads : At(t, "list") =>
    /\ loc[t].oldh # None => head.unlocking /\ Contains(queue, loc[t].oldh)
    /\ loc[t].w # None /\ ~EasyWriter =>
         LET i == SelectInSeq(queue, LAMBDA x : x = loc[t].w)
         IN  i > 0 /\ (IF loc[t].pw = None THEN i = 1 ELSE i > 1 /\ queue[i - 1] = loc[t].pw)

\* A call that waits for a condition returns with the lock, and the condition is
\* as it says; without a deadline it is true.
ConditionHoldsOnReturn ==
  \A t \in Threads : At(t, "run") /\ loc[t].op # "none" =>
    /\ loc[t].held # None
    /\ loc[t].res => data
    /\ loc[t].op \in {"LockWhen", "ReaderLockWhen", "Await"} => loc[t].res
=============================================================================
