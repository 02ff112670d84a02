-------------------------- MODULE Synchronization --------------------------
(***************************************************************************)
(* The synchronization primitives below Mutex and above it: a behaviour is *)
(* one of the units below, in one of its settings; the others stand still. *)
(* They share names of threads, not state.                                 *)
(***************************************************************************)
EXTENDS Integers, FiniteSets

CONSTANTS
  Callers,                                          \* of call_once, and of SpinLock
  MaxCalls, MaxRounds, WaitBits,
  Readings,                                         \* of the CycleClock, which may go back
  Posters, MaxPosts, MaxTokens, kIdlePeriods,       \* PerThreadSem
  Waiters, Notifier, Destroyer,                     \* Notification
  Workers, Waiter, initial_count,                   \* BlockingCounter
  Participants,                                     \* Barrier
  NoThread

Threads == Callers \cup Waiters \cup Workers \cup {Notifier, Waiter} \cup Participants

VARIABLES unit,
  control, oncePc, seen, onceCalls, phase, runs,                          \* call_once
  lockword, lockPc, stage, lockValue, waitCycles, rounds,                 \* SpinLock
  count, tokens, waiterPc, timed, first, ret, age, is_idle,               \* PerThreadSem
  poster, posts, taken, tick,
  notified_yet_, mutex_, notePc, noted, noteAlive,                        \* Notification
  count_, done_, counterLock, counterPc, counted, trues, counterAlive,    \* BlockingCounter
  num_to_block_, num_to_exit_, barrierLock, barrierPc, result, barrierAlive

once == <<control, oncePc, seen, onceCalls, phase, runs>>
lock == <<lockword, lockPc, stage, lockValue, waitCycles, rounds>>
waiter == <<count, tokens, waiterPc, timed, first, ret, age, is_idle, poster, posts, taken, tick>>
note == <<notified_yet_, mutex_, notePc, noted, noteAlive>>
counter == <<count_, done_, counterLock, counterPc, counted, trues, counterAlive>>
barrier == <<num_to_block_, num_to_exit_, barrierLock, barrierPc, result, barrierAlive>>
vars == <<unit, once, lock, waiter, note, counter, barrier>>

-----------------------------------------------------------------------------
CallOnce(Futex) == INSTANCE CallOnce WITH Threads <- Callers, pc <- oncePc, calls <- onceCalls

\* wait_end_time - wait_start_time
Elapsed == {end - start : end, start \in Readings}

SpinLock(Futex) == INSTANCE SpinLock WITH Threads <- Callers, pc <- lockPc

PerThreadSem(Kind) == INSTANCE ThreadWaiter WITH pc <- waiterPc

Notification == INSTANCE Notification WITH pc <- notePc, result <- noted, alive <- noteAlive

BlockingCounter == INSTANCE BlockingCounter WITH
  lock_ <- counterLock, pc <- counterPc, calls <- counted, alive <- counterAlive

Barrier == INSTANCE Barrier WITH
  Threads <- Participants, lock_ <- barrierLock, pc <- barrierPc, alive <- barrierAlive

ASSUME SynchronizationAssumption ==
  /\ \A futex \in BOOLEAN : CallOnce(futex)!CallOnceAssumption /\ SpinLock(futex)!SpinLockAssumption
  /\ \A kind \in {"futex", "sem", "pthread"} : PerThreadSem(kind)!ThreadWaiterAssumption
  /\ Notification!NotificationAssumption
  /\ BlockingCounter!BlockingCounterAssumption
  /\ Barrier!BarrierAssumption

-----------------------------------------------------------------------------
Init ==
  /\ unit \in {"once futex", "once posix", "lock futex", "lock posix",
               "futex", "sem", "pthread", "notification", "counter", "barrier"}
  /\ CallOnce(TRUE)!Init /\ SpinLock(TRUE)!Init /\ PerThreadSem("sem")!Init
  /\ Notification!Init /\ BlockingCounter!Init /\ Barrier!Init

Next ==
  \/ unit = "once futex" /\ CallOnce(TRUE)!Next /\ UNCHANGED <<unit, lock, waiter, note, counter, barrier>>
  \/ unit = "once posix" /\ CallOnce(FALSE)!Next /\ UNCHANGED <<unit, lock, waiter, note, counter, barrier>>
  \/ unit = "lock futex" /\ SpinLock(TRUE)!Next /\ UNCHANGED <<unit, once, waiter, note, counter, barrier>>
  \/ unit = "lock posix" /\ SpinLock(FALSE)!Next /\ UNCHANGED <<unit, once, waiter, note, counter, barrier>>
  \/ unit = "futex" /\ PerThreadSem("futex")!Next /\ UNCHANGED <<unit, once, lock, note, counter, barrier>>
  \/ unit = "sem" /\ PerThreadSem("sem")!Next /\ UNCHANGED <<unit, once, lock, note, counter, barrier>>
  \/ unit = "pthread" /\ PerThreadSem("pthread")!Next /\ UNCHANGED <<unit, once, lock, note, counter, barrier>>
  \/ unit = "notification" /\ Notification!Next /\ UNCHANGED <<unit, once, lock, waiter, counter, barrier>>
  \/ unit = "counter" /\ BlockingCounter!Next /\ UNCHANGED <<unit, once, lock, waiter, note, barrier>>
  \/ unit = "barrier" /\ Barrier!Next /\ UNCHANGED <<unit, once, lock, waiter, note, counter>>

\* The fairness of each unit, as its module states it.
Fairness ==
  /\ \A t \in Callers :
       /\ WF_once(unit = "once futex" /\ CallOnce(TRUE)!Step(t))
       /\ WF_once(unit = "once posix" /\ CallOnce(FALSE)!Step(t))
       /\ WF_lock(unit = "lock futex" /\ SpinLock(TRUE)!Step(t))
       /\ WF_lock(unit = "lock posix" /\ SpinLock(FALSE)!Step(t))
  /\ \A t \in Waiters :
       /\ WF_note(unit = "notification" /\ Notification!Release(t))
       /\ SF_note(unit = "notification" /\ notified_yet_ /\ Notification!LockWhen(t))
  /\ SF_note(unit = "notification" /\ Notification!Notify)
  /\ \A kind \in {"futex", "sem", "pthread"} :
       /\ WF_waiter(unit = kind /\ PerThreadSem(kind)!WaiterStep)
       /\ WF_waiter(unit = kind /\ PerThreadSem(kind)!Tick)
       /\ WF_waiter(unit = kind /\ PerThreadSem(kind)!TickPoke)
       /\ \A p \in Posters : WF_waiter(unit = kind /\ PerThreadSem(kind)!PostPoke(p))
  /\ WF_counter(unit = "counter" /\ BlockingCounter!Wait)
  /\ \A t \in Workers : WF_counter(unit = "counter" /\ BlockingCounter!DecrementCount(t))
  /\ \A t \in Participants : WF_barrier(unit = "barrier" /\ Barrier!Step(t))

Spec == Init /\ [][Next]_vars /\ Fairness

-----------------------------------------------------------------------------
Onces == {"once futex", "once posix"}
Locks == {"lock futex", "lock posix"}
Kinds == {"futex", "sem", "pthread"}

\* The calls keep the promise of call_once (call_once.h:60-63): one run, and no return
\* before its end.
Once == INSTANCE Once WITH Threads <- Callers, inside <- {t \in Callers : oncePc[t] # "out"}
ImplementsOnce == Once!Spec

\* Posts are consumed once each, in whatever way the thread sleeps; a wait that
\* fails had a deadline and has consumed nothing; a post ends a wait (WaiterBase).
Semaphore == INSTANCE Semaphore WITH
  n <- posts - taken,
  wait <- IF waiterPc = "out" THEN "none" ELSE IF timed THEN "timed" ELSE "untimed"
ImplementsSemaphore == Semaphore!Spec

\* A thread that sleeps is owed a wake-up by somebody who is still to come: the runner
\* of call_once, the holder of the spinlock or a thread it has woken, a poster.
NoWakeUpIsLost ==
  /\ unit \in Onces => CallOnce(TRUE)!SleepersAreOwedAWake
  /\ unit \in Locks => SpinLock(TRUE)!SleepersAreRemembered
  /\ \A kind \in Kinds : unit = kind => PerThreadSem(kind)!NoLostWakeUp

\* The SpinLock excludes, its word says whether it is held, and a free word is clean
\* (spinlock.h); one thread runs the function of call_once, once.
MutualExclusion ==
  /\ unit \in Onces => CallOnce(TRUE)!RunsOnce
  /\ unit \in Locks => SpinLock(TRUE)!MutualExclusion /\ SpinLock(TRUE)!FreeWordIsClean

\* Whoever may destroy a Notification, a BlockingCounter or a Barrier does so when
\* nobody is in a method of it any more.
NotUsedAfterDestruction ==
  /\ Notification!NotUsedAfterDestruction
  /\ BlockingCounter!NotUsedAfterDestruction
  /\ Barrier!NotUsedAfterDestruction

\* A wait that reports the notification comes after it, one decrement reaches zero, and
\* nobody leaves the barrier before all have come.
ResultsAreTrue ==
  /\ Notification!ResultIsTrue
  /\ BlockingCounter!OneReturnsTrue
  /\ Barrier!NobodyLeavesEarly

\* A call that waits for nothing but the steps of threads that can go on.
InCall(t) ==
  CASE unit \in Onces -> t \in Callers /\ oncePc[t] # "out"
    [] unit \in Locks -> t \in Callers /\ lockPc[t] # "out"
    [] unit \in Kinds -> waiterPc # "out" /\ age > kIdlePeriods /\ ~is_idle
    [] unit = "notification" -> t \in Waiters /\ notePc[t] = "wait"
    [] unit = "counter" -> counterAlive
    [] unit = "barrier" -> barrierAlive \/ (t \in Participants /\ barrierPc[t] # "done")

\* Every call returns, whatever the others do: the function of call_once has run, the
\* spinlock is granted, a thread that waits long becomes idle, the notification
\* arrives, the counter reaches zero and the barrier opens.
CallsReturn == \A t \in Threads : []<>~InCall(t)
=============================================================================
