------------------------------ MODULE SpinLock ------------------------------
(***************************************************************************)
(* absl::base_internal::SpinLock (absl/base/internal/spinlock.h and .cc):  *)
(* one lock word, and threads that Lock, TryLock and Unlock it. One action *)
(* per access to the word. The cooperative bit never changes and           *)
(* DisableRescheduling returns false in this build                         *)
(* (low_level_scheduling.h), so neither bit is in the model of the word.   *)
(***************************************************************************)
EXTENDS Integers, FiniteSets

CONSTANTS Threads,
          MaxRounds,  \* bound: calls of Lock or TryLock per thread
          WaitBits,   \* width of the wait time in the word (29 in the code)
          Elapsed,    \* differences of two CycleClock readings, in units of
                      \* 2^kProfileTimestampShift cycles; they may be negative
          Futex       \* TRUE: futex (Linux), FALSE: short sleeps (Apple)

SpinLockAssumption ==
  MaxRounds \in Nat /\ WaitBits \in Nat /\ Elapsed \subseteq Int /\ Futex \in BOOLEAN

VARIABLES lockword,   \* [held, wait]; wait is bits 3..31
          pc,         \* where each thread is
          stage,      \* which call of TryLockInternal the thread is in or before
          lockValue,  \* lock_value, as the thread last saw the word
          waitCycles, \* what it would store as its wait time
          rounds      \* calls it has made

vars == <<lockword, pc, stage, lockValue, waitCycles, rounds>>

kSpinLockSleeper == 1
Free == [held |-> FALSE, wait |-> 0]

\* Mutant: a wait that is too short to count is stored as no wait.
EncodeWaitCycles_Zero(e) == (IF e > 2^WaitBits - 1 THEN 2^WaitBits - 1 ELSE e) % 2^WaitBits

\* The wait time as it is stored: never 0, and kSpinLockSleeper only for a wait
\* that is too short to count.
EncodeWaitCycles(e) ==
  LET max == 2^WaitBits - 1
      clamped == (IF e > max THEN max ELSE e) % 2^WaitBits
  IN  CASE clamped = 0 -> kSpinLockSleeper
        [] clamped = kSpinLockSleeper -> kSpinLockSleeper + 1
        [] OTHER -> clamped

Asleep == {t \in Threads : pc[t] = "asleep"}

Init ==
  /\ lockword = Free
  /\ pc = [t \in Threads |-> "out"]
  /\ stage = [t \in Threads |-> "lock"]
  /\ lockValue = [t \in Threads |-> Free]
  /\ waitCycles = [t \in Threads |-> 0]
  /\ rounds = [t \in Threads |-> 0]

Goto(t, l) == pc' = [pc EXCEPT ![t] = l]
Sees(t, v) == lockValue' = [lockValue EXCEPT ![t] = v]

\* Lock or TryLock is called.
Enter(t, s) ==
  /\ pc[t] = "out" /\ rounds[t] < MaxRounds
  /\ rounds' = [rounds EXCEPT ![t] = @ + 1]
  /\ stage' = [stage EXCEPT ![t] = s]
  /\ waitCycles' = [waitCycles EXCEPT ![t] = 0]
  /\ Goto(t, "load")
  /\ UNCHANGED <<lockword, lockValue>>

Lock(t) == Enter(t, "lock")
TryLock(t) == Enter(t, "trylock")

\* TryLockImpl loads the word, and so does SlowLock before its first attempt
\* (the last load of SpinLoop).
Load(t) ==
  /\ pc[t] = "load"
  /\ Sees(t, lockword)
  /\ Goto(t, "try")
  /\ UNCHANGED <<lockword, stage, waitCycles, rounds>>

\* TryLockInternal(lock_value, wait_cycles) has returned v: the caller has the
\* lock if v is free, whatever happened to the word. Else TryLock gives up, Lock
\* turns to SlowLock, and SlowLock to the head of its loop.
Returned(t, v) ==
  IF ~v.held
    THEN Goto(t, "hold") /\ Sees(t, v) /\ UNCHANGED <<stage, waitCycles>>
    ELSE CASE stage[t] = "trylock" ->
                Goto(t, "out") /\ Sees(t, Free) /\ UNCHANGED <<stage, waitCycles>>
           [] stage[t] = "lock" ->
                Goto(t, "load") /\ Sees(t, v) /\ UNCHANGED waitCycles
                /\ stage' = [stage EXCEPT ![t] = "slow"]
           [] OTHER ->
                Goto(t, "mark") /\ Sees(t, v) /\ UNCHANGED <<stage, waitCycles>>

\* Mutant: a load, a test and a store in place of the compare and exchange.
TryLockInternal_NoCompare(t) ==
  /\ pc[t] = "try"
  /\ IF lockValue[t].held THEN UNCHANGED lockword
     ELSE lockword' = [held |-> TRUE, wait |-> waitCycles[t]]
  /\ Returned(t, lockValue[t])
  /\ UNCHANGED rounds

\* A free word has no wait time, so that of this thread is all there is to store.
TryLockInternal(t) ==
  /\ pc[t] = "try"
  /\ LET v == lockValue[t]
     IN  IF ~v.held /\ lockword = v
           THEN lockword' = [held |-> TRUE, wait |-> waitCycles[t]] /\ Returned(t, v)
           ELSE UNCHANGED lockword /\ Returned(t, IF v.held THEN v ELSE lockword)
  /\ UNCHANGED rounds

\* SlowLock, the head of the loop: mark the held word as having a sleeper, unless
\* it says so already, before sleeping.
Mark(t) ==
  /\ pc[t] = "mark"
  /\ LET v == lockValue[t]
         marked == [held |-> TRUE, wait |-> kSpinLockSleeper]
     IN  IF v.wait # 0 THEN Goto(t, "delay") /\ UNCHANGED <<lockword, lockValue>>
         ELSE IF lockword = v
           THEN lockword' = marked /\ Sees(t, marked) /\ Goto(t, "delay")
           ELSE /\ Sees(t, lockword)
                /\ Goto(t, IF ~lockword.held THEN "try"
                           ELSE IF lockword.wait = 0 THEN "mark" ELSE "delay")
                /\ UNCHANGED lockword
  /\ UNCHANGED <<stage, waitCycles, rounds>>

SpinLockDelay(t) ==
  /\ pc[t] = "delay"
  /\ Goto(t, IF Futex /\ lockword = lockValue[t] THEN "asleep" ELSE "spin")
  /\ UNCHANGED <<lockword, stage, lockValue, waitCycles, rounds>>

\* A futex wait may be interrupted.
Interrupted(t) ==
  /\ pc[t] = "asleep"
  /\ Goto(t, "spin")
  /\ UNCHANGED <<lockword, stage, lockValue, waitCycles, rounds>>

\* SlowLock after a delay: spin, and compute the time waited.
Spin(t) ==
  /\ pc[t] = "spin"
  /\ Sees(t, lockword)
  /\ \E e \in Elapsed : waitCycles' = [waitCycles EXCEPT ![t] = EncodeWaitCycles(e)]
  /\ Goto(t, "try")
  /\ UNCHANGED <<lockword, stage, rounds>>

\* The load keeps the cooperative bit only; the exchange decides.
Unlock(t) ==
  /\ pc[t] = "hold"
  /\ lockword' = Free
  /\ Goto(t, IF lockword.wait # 0 THEN "wake" ELSE "out")
  /\ UNCHANGED <<stage, lockValue, rounds>>
  /\ waitCycles' = [waitCycles EXCEPT ![t] = 0]

\* SlowUnlock: wake one sleeper, if there is one.
SlowUnlock(t) ==
  /\ pc[t] = "wake"
  /\ IF Asleep = {} THEN Goto(t, "out")
     ELSE \E u \in Asleep : pc' = [pc EXCEPT ![t] = "out", ![u] = "spin"]
  /\ UNCHANGED <<lockword, stage, lockValue, waitCycles, rounds>>

Step(t) ==
  \/ Load(t) \/ TryLockInternal(t) \/ Mark(t) \/ SpinLockDelay(t) \/ Spin(t)
  \/ Unlock(t) \/ SlowUnlock(t)

Next == \E t \in Threads : Lock(t) \/ TryLock(t) \/ Step(t) \/ Interrupted(t)

Spec == Init /\ [][Next]_vars

\* Threads that are not asleep go on running, and holders unlock.
FairSpec == Spec /\ \A t \in Threads : WF_vars(Step(t))

-----------------------------------------------------------------------------
Holders == {t \in Threads : pc[t] = "hold"}

\* At most one thread holds the lock, and the word says whether one does.
MutualExclusion == Cardinality(Holders) = IF lockword.held THEN 1 ELSE 0

\* "Invariant: if the lock is not held, the value is either 0 or
\* kSpinLockCooperative" (spinlock.h): no wait time survives an Unlock.
FreeWordIsClean == ~lockword.held => lockword = Free

\* While a thread sleeps, somebody still has to pass by it: the holder's word
\* asks for a wake-up, or a thread that has slept or is about to is awake, or a
\* wake-up is on its way.
SleepersAreRemembered ==
  Asleep # {} =>
    \/ lockword.wait # 0
    \/ \E t \in Threads : pc[t] \in {"wake", "spin"}
    \/ \E t \in Threads : waitCycles[t] # 0 /\ pc[t] \in {"try", "mark", "delay"}

=============================================================================
