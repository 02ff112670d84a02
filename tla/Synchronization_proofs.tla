----------------------- MODULE Synchronization_proofs -----------------------
(***************************************************************************)
(* Proofs about Synchronization, for every number of threads and of calls. *)
(* Each unit has an inductive invariant over its own variables, an         *)
(* invariance lemma for its initial states and its steps, and lemmas from  *)
(* the invariant to the properties; the theorems at the end put the units  *)
(* together.                                                               *)
(***************************************************************************)
EXTENDS Synchronization, FiniteSetTheorems, TLAPS

\* A set with no two different elements has at most one.
LEMMA AtMostOne ==
  ASSUME NEW S, \A x, y \in S : x = y
  PROVE  IsFiniteSet(S) /\ Cardinality(S) \in {0, 1}
<1>1. CASE S = {}
  BY <1>1, FS_EmptySet
<1>2. CASE S # {}
  <2>1. PICK x \in S : TRUE
    BY <1>2
  <2>2. S = {x}
    BY <2>1
  <2> QED
    BY <2>2, FS_Singleton
<1> QED
  BY <1>1, <1>2

-----------------------------------------------------------------------------
(* call_once.                                                              *)

OnceTypes ==
  /\ control \in {"kOnceInit", "kOnceRunning", "kOnceWaiter", "kOnceDone"}
  /\ oncePc \in [Callers -> {"out", "load", "first", "wait", "transit", "delay", "asleep",
                             "begin", "end", "publish", "wake"}]
  /\ seen \in [Callers -> {"kOnceInit", "kOnceRunning", "kOnceWaiter", "kOnceDone"}]
  /\ phase \in {"never", "running", "ended"}

RunsIt(t) == oncePc[t] \in {"begin", "end", "publish"}

\* Who has won the word runs the function alone, and the word, the phase and the
\* place of the runner go together.
OneRunner ==
  /\ \A t, u \in Callers : RunsIt(t) /\ RunsIt(u) => t = u
  /\ control \in {"kOnceRunning", "kOnceWaiter"} <=> \E t \in Callers : RunsIt(t)
  /\ control = "kOnceInit" => phase = "never"
  /\ control = "kOnceDone" => phase = "ended"
  /\ runs = IF phase = "never" THEN 0 ELSE 1
  /\ \A t \in Callers :
       /\ oncePc[t] = "begin" => phase = "never"
       /\ oncePc[t] = "end" => phase = "running"
       /\ oncePc[t] = "publish" => phase = "ended"
       /\ oncePc[t] = "wake" => control = "kOnceDone"

\* What a waiter has seen of the word when it acts on it, and who owes it a wake-up.
WaitersAreSeen ==
  \A t \in Callers :
    /\ oncePc[t] = "transit" => seen[t] \in {"kOnceInit", "kOnceRunning"}
    /\ oncePc[t] = "delay" => seen[t] = "kOnceWaiter"
    /\ oncePc[t] = "asleep" =>
         control = "kOnceWaiter"
           \/ (control = "kOnceDone" /\ \E u \in Callers : oncePc[u] = "wake")

OnceInv == OnceTypes /\ OneRunner /\ WaitersAreSeen

LEMMA OnceInit ==
  ASSUME CallOnce(TRUE)!Init PROVE OnceInv
  BY DEF CallOnce!Init, CallOnce!kOnceInit, OnceInv, OnceTypes, OneRunner, RunsIt, WaitersAreSeen

LEMMA OnceStep ==
  ASSUME NEW f \in BOOLEAN, OnceInv, CallOnce(f)!Next
  PROVE  OnceInv'
<1> USE DEF OnceInv, OnceTypes, OneRunner, RunsIt, WaitersAreSeen, CallOnce!Goto,
        CallOnce!kOnceInit, CallOnce!kOnceRunning, CallOnce!kOnceWaiter, CallOnce!kOnceDone
<1>1. PICK t \in Callers :
        CallOnce(f)!Call(t) \/ CallOnce(f)!Step(t) \/ CallOnce(f)!Interrupted(t)
  BY DEF CallOnce!Next
<1>2. CASE CallOnce(f)!Call(t)
  BY <1>2 DEF CallOnce!Call
<1>3. CASE CallOnce(f)!call_once(t)
  BY <1>3 DEF CallOnce!call_once
<1>4. CASE CallOnce(f)!FirstAttempt(t)
  BY <1>4 DEF CallOnce!FirstAttempt
<1>5. CASE CallOnce(f)!WaitLoad(t)
  BY <1>5 DEF CallOnce!WaitLoad, CallOnce!trans
<1>6. CASE CallOnce(f)!WaitTransit(t)
  BY <1>6 DEF CallOnce!WaitTransit, CallOnce!trans
<1>7. CASE CallOnce(f)!SpinLockDelay(t)
  BY <1>7 DEF CallOnce!SpinLockDelay
<1>8. CASE CallOnce(f)!Begin(t)
  BY <1>8 DEF CallOnce!Begin
<1>9. CASE CallOnce(f)!End(t)
  BY <1>9 DEF CallOnce!End
<1>10. CASE CallOnce(f)!Publish(t)
  BY <1>10 DEF CallOnce!Publish
<1>11. CASE CallOnce(f)!SpinLockWake(t)
  BY <1>11 DEF CallOnce!SpinLockWake, CallOnce!Asleep
<1>12. CASE CallOnce(f)!Interrupted(t)
  BY <1>12 DEF CallOnce!Interrupted
<1> QED
  BY <1>1, <1>2, <1>3, <1>4, <1>5, <1>6, <1>7, <1>8, <1>9, <1>10, <1>11, <1>12 DEF CallOnce!Step

LEMMA OnceProperties ==
  ASSUME OnceInv
  PROVE  CallOnce(TRUE)!RunsOnce /\ CallOnce(TRUE)!SleepersAreOwedAWake
<1> USE DEF OnceInv, OnceTypes, OneRunner, RunsIt, WaitersAreSeen
<1>1. CallOnce(TRUE)!RunsOnce
  <2> DEFINE R == {t \in Callers : oncePc[t] \in {"begin", "end", "publish"}}
  <2>1. Cardinality(R) \in {0, 1}
    BY AtMostOne
  <2>2. Cardinality(R) <= 1
    BY <2>1
  <2>3. runs <= 1
    OBVIOUS
  <2>4. phase # "never" => \A t \in Callers : oncePc[t] # "begin"
    OBVIOUS
  <2> QED
    BY <2>2, <2>3, <2>4 DEF CallOnce!RunsOnce, CallOnce!Cardinality, Cardinality
<1>2. CallOnce(TRUE)!SleepersAreOwedAWake
  BY DEF CallOnce!SleepersAreOwedAWake, CallOnce!Asleep, CallOnce!kOnceWaiter, CallOnce!kOnceDone
<1> QED
  BY <1>1, <1>2

\* Every step of call_once is a step of what it promises, or none.
LEMMA OnceRefines ==
  ASSUME NEW f \in BOOLEAN, OnceInv, CallOnce(f)!Next
  PROVE  Once!Next \/ UNCHANGED Once!vars
<1> USE DEF OnceInv, OnceTypes, OneRunner, RunsIt, WaitersAreSeen, CallOnce!Goto,
        CallOnce!kOnceInit, CallOnce!kOnceRunning, CallOnce!kOnceWaiter, CallOnce!kOnceDone
<1> DEFINE inside == {t \in Callers : oncePc[t] # "out"}
<1>1. PICK t \in Callers :
        CallOnce(f)!Call(t) \/ CallOnce(f)!Step(t) \/ CallOnce(f)!Interrupted(t)
  BY DEF CallOnce!Next
<1>2. CASE CallOnce(f)!Call(t)
  <2>1. Once!Call(t)
    BY <1>2 DEF CallOnce!Call, Once!Call
  <2> QED
    BY <2>1 DEF Once!Next
<1>3. CASE phase = "ended" /\ phase' = phase /\ inside' = inside \ {t} /\ oncePc[t] # "out"
  <2>1. Once!Return(t)
    BY <1>3 DEF Once!Return
  <2> QED
    BY <2>1 DEF Once!Next
<1>4. CASE phase' = phase /\ inside' = inside
  BY <1>4 DEF Once!vars
<1>5. CASE CallOnce(f)!Begin(t)
  <2>1. Once!Begin
    BY <1>5 DEF CallOnce!Begin, Once!Begin
  <2> QED
    BY <2>1 DEF Once!Next
<1>6. CASE CallOnce(f)!End(t)
  <2>1. Once!End
    BY <1>6 DEF CallOnce!End, Once!End
  <2> QED
    BY <2>1 DEF Once!Next
<1>7. CASE CallOnce(f)!call_once(t)
  BY <1>3, <1>4, <1>7 DEF CallOnce!call_once
<1>8. CASE CallOnce(f)!FirstAttempt(t)
  BY <1>4, <1>8 DEF CallOnce!FirstAttempt
<1>9. CASE CallOnce(f)!WaitLoad(t)
  BY <1>3, <1>4, <1>9 DEF CallOnce!WaitLoad, CallOnce!trans
<1>10. CASE CallOnce(f)!WaitTransit(t)
  BY <1>4, <1>10 DEF CallOnce!WaitTransit, CallOnce!trans
<1>11. CASE CallOnce(f)!SpinLockDelay(t)
  BY <1>4, <1>11 DEF CallOnce!SpinLockDelay
<1>12. CASE CallOnce(f)!Publish(t)
  BY <1>3, <1>4, <1>12 DEF CallOnce!Publish
<1>13. CASE CallOnce(f)!SpinLockWake(t)
  BY <1>3, <1>13 DEF CallOnce!SpinLockWake, CallOnce!Asleep
<1>14. CASE CallOnce(f)!Interrupted(t)
  BY <1>4, <1>14 DEF CallOnce!Interrupted
<1> QED
  BY <1>1, <1>2, <1>5, <1>6, <1>7, <1>8, <1>9, <1>10, <1>11, <1>12, <1>13, <1>14 DEF CallOnce!Step

-----------------------------------------------------------------------------
(* SpinLock.                                                               *)

WaitTimes == {0, 1} \cup {SpinLock(TRUE)!EncodeWaitCycles(e) : e \in Elapsed}
Words == [held : BOOLEAN, wait : WaitTimes]

LockTypes ==
  /\ lockword \in Words
  /\ lockPc \in [Callers -> {"out", "load", "try", "mark", "delay", "asleep", "spin", "hold", "wake"}]
  /\ stage \in [Callers -> {"lock", "trylock", "slow"}]
  /\ lockValue \in [Callers -> Words]
  /\ waitCycles \in [Callers -> WaitTimes]

\* The word and the holder go together.
OneHolder ==
  /\ \A t, u \in Callers : lockPc[t] = "hold" /\ lockPc[u] = "hold" => t = u
  /\ lockword.held <=> \E t \in Callers : lockPc[t] = "hold"
  /\ ~lockword.held => lockword.wait = 0

\* What a thread has seen of the word when it acts on it; only a thread in SlowLock
\* has waited.
SleepersAreSeen ==
  \A t \in Callers :
    /\ ~lockValue[t].held => lockValue[t].wait = 0
    /\ lockPc[t] \in {"mark", "delay"} => lockValue[t].held
    /\ lockPc[t] = "delay" => lockValue[t].wait # 0
    /\ lockPc[t] \in {"mark", "delay", "asleep", "spin"} => stage[t] = "slow"
    /\ waitCycles[t] # 0 => stage[t] = "slow"

LockInv == LockTypes /\ OneHolder /\ SleepersAreSeen /\ SpinLock(TRUE)!SleepersAreRemembered

\* A wait is never stored as none.
LEMMA EncodedWaitIsNotZero ==
  ASSUME NEW f \in BOOLEAN, NEW e
  PROVE  SpinLock(f)!EncodeWaitCycles(e) = SpinLock(TRUE)!EncodeWaitCycles(e)
         /\ SpinLock(f)!EncodeWaitCycles(e) # 0
  BY DEF SpinLock!EncodeWaitCycles, SpinLock!kSpinLockSleeper

LEMMA LockInit ==
  ASSUME SpinLock(TRUE)!Init PROVE LockInv
  BY DEF SpinLock!Init, SpinLock!Free, LockInv, LockTypes, OneHolder, SleepersAreSeen,
         WaitTimes, Words, SpinLock!SleepersAreRemembered, SpinLock!Asleep

LEMMA LockStep ==
  ASSUME NEW f \in BOOLEAN, LockInv, SpinLock(f)!Next
  PROVE  LockInv'
<1> USE DEF LockInv, LockTypes, OneHolder, SleepersAreSeen,
        SpinLock!SleepersAreRemembered, SpinLock!Asleep, SpinLock!Goto, SpinLock!Sees, SpinLock!Free
<1>0. 0 \in WaitTimes /\ 1 \in WaitTimes /\ SpinLock(f)!Free \in Words
      /\ \A w \in WaitTimes : [held |-> TRUE, wait |-> w] \in Words
  BY DEF WaitTimes, Words
<1>1. PICK t \in Callers :
        SpinLock(f)!Lock(t) \/ SpinLock(f)!TryLock(t) \/ SpinLock(f)!Step(t) \/ SpinLock(f)!Interrupted(t)
  BY DEF SpinLock!Next
<1>2. CASE SpinLock(f)!Lock(t) \/ SpinLock(f)!TryLock(t)
  <2>1. LockTypes'
    BY <1>0, <1>2 DEF SpinLock!Lock, SpinLock!TryLock, SpinLock!Enter
  <2>2. OneHolder'
    BY <1>0, <1>2 DEF SpinLock!Lock, SpinLock!TryLock, SpinLock!Enter
  <2>3. SleepersAreSeen'
    BY <1>0, <1>2 DEF SpinLock!Lock, SpinLock!TryLock, SpinLock!Enter
  <2>4. SpinLock(TRUE)!SleepersAreRemembered'
    BY <1>0, <1>2 DEF SpinLock!Lock, SpinLock!TryLock, SpinLock!Enter
  <2> QED
    BY <2>1, <2>2, <2>3, <2>4
<1>3. CASE SpinLock(f)!Load(t)
  BY <1>3 DEF SpinLock!Load
<1>4. CASE SpinLock(f)!TryLockInternal(t)
  <2>1. CASE ~lockValue[t].held /\ lockword = lockValue[t]
    BY <1>0, <1>4, <2>1 DEF SpinLock!TryLockInternal, SpinLock!Returned
  <2>2. CASE lockValue[t].held \/ lockword # lockValue[t]
    <3> DEFINE w == IF lockValue[t].held THEN lockValue[t] ELSE lockword
    <3>1. w \in Words /\ w.held
      BY <2>2 DEF Words
    <3>2. UNCHANGED <<lockword, waitCycles>>
      BY <1>4, <2>2, <3>1 DEF SpinLock!TryLockInternal, SpinLock!Returned
    <3>3. \/ /\ stage[t] = "trylock" /\ UNCHANGED stage
             /\ lockPc' = [lockPc EXCEPT ![t] = "out"]
             /\ lockValue' = [lockValue EXCEPT ![t] = SpinLock(f)!Free]
          \/ /\ stage[t] = "lock" /\ stage' = [stage EXCEPT ![t] = "slow"]
             /\ lockPc' = [lockPc EXCEPT ![t] = "load"]
             /\ lockValue' = [lockValue EXCEPT ![t] = w]
          \/ /\ stage[t] = "slow" /\ UNCHANGED stage
             /\ lockPc' = [lockPc EXCEPT ![t] = "mark"]
             /\ lockValue' = [lockValue EXCEPT ![t] = w]
      BY <1>4, <2>2, <3>1 DEF SpinLock!TryLockInternal, SpinLock!Returned
    <3>4. lockPc[t] = "try"
      BY <1>4 DEF SpinLock!TryLockInternal
    <3> HIDE DEF w
    <3>5. LockTypes'
      BY <1>0, <3>1, <3>2, <3>3
    <3>6. OneHolder'
      BY <3>2, <3>3, <3>4
    <3>7. SleepersAreSeen'
      BY <3>1, <3>2, <3>3, <3>4
    <3>8. SpinLock(TRUE)!SleepersAreRemembered'
      BY <3>2, <3>3, <3>4
    <3> QED
      BY <3>5, <3>6, <3>7, <3>8
  <2> QED
    BY <2>1, <2>2
<1>5. CASE SpinLock(f)!Mark(t)
  <2>1. LockTypes'
    BY <1>0, <1>5 DEF SpinLock!Mark, SpinLock!kSpinLockSleeper
  <2>2. OneHolder'
    BY <1>0, <1>5 DEF SpinLock!Mark, SpinLock!kSpinLockSleeper
  <2>3. SleepersAreSeen'
    BY <1>0, <1>5 DEF SpinLock!Mark, SpinLock!kSpinLockSleeper
  <2>4. SpinLock(TRUE)!SleepersAreRemembered'
    BY <1>0, <1>5 DEF SpinLock!Mark, SpinLock!kSpinLockSleeper
  <2> QED
    BY <2>1, <2>2, <2>3, <2>4
<1>6. CASE SpinLock(f)!SpinLockDelay(t)
  BY <1>6 DEF SpinLock!SpinLockDelay
<1>7. CASE SpinLock(f)!Spin(t)
  <2>1. PICK e \in Elapsed : waitCycles' = [waitCycles EXCEPT ![t] = SpinLock(f)!EncodeWaitCycles(e)]
    BY <1>7 DEF SpinLock!Spin
  <2>2. SpinLock(f)!EncodeWaitCycles(e) \in WaitTimes \ {0}
    BY EncodedWaitIsNotZero DEF WaitTimes
  <2> QED
    BY <1>7, <2>1, <2>2 DEF SpinLock!Spin
<1>8. CASE SpinLock(f)!Unlock(t)
  BY <1>0, <1>8 DEF SpinLock!Unlock
<1>9. CASE SpinLock(f)!SlowUnlock(t)
  <2>1. LockTypes'
    BY <1>9 DEF SpinLock!SlowUnlock
  <2>2. OneHolder'
    BY <1>9 DEF SpinLock!SlowUnlock
  <2>3. SleepersAreSeen'
    BY <1>9 DEF SpinLock!SlowUnlock
  <2>4. SpinLock(TRUE)!SleepersAreRemembered'
    BY <1>9 DEF SpinLock!SlowUnlock
  <2> QED
    BY <2>1, <2>2, <2>3, <2>4
<1>10. CASE SpinLock(f)!Interrupted(t)
  BY <1>10 DEF SpinLock!Interrupted
<1> QED
  BY <1>1, <1>2, <1>3, <1>4, <1>5, <1>6, <1>7, <1>8, <1>9, <1>10 DEF SpinLock!Step

LEMMA LockProperties ==
  ASSUME LockInv
  PROVE  SpinLock(TRUE)!MutualExclusion /\ SpinLock(TRUE)!FreeWordIsClean
<1> USE DEF LockInv, LockTypes, OneHolder, Words
<1>1. Cardinality({t \in Callers : lockPc[t] = "hold"}) \in {0, 1}
      /\ IsFiniteSet({t \in Callers : lockPc[t] = "hold"})
  BY AtMostOne
<1>2. Cardinality({t \in Callers : lockPc[t] = "hold"}) = 0
        <=> {t \in Callers : lockPc[t] = "hold"} = {}
  BY <1>1, FS_EmptySet
<1>3. SpinLock(TRUE)!MutualExclusion
  BY <1>1, <1>2 DEF SpinLock!MutualExclusion, SpinLock!Holders, SpinLock!Cardinality, Cardinality
<1>4. SpinLock(TRUE)!FreeWordIsClean
  BY DEF SpinLock!FreeWordIsClean, SpinLock!Free
<1> QED
  BY <1>3, <1>4

-----------------------------------------------------------------------------
(* PerThreadSem, in each of its kinds.                                     *)

WaiterInv ==
  /\ count \in Nat /\ tokens \in Nat /\ posts \in Nat /\ taken \in Nat /\ timed \in BOOLEAN
  /\ count = posts - taken
  /\ waiterPc \in {"out", "check", "wait", "asleep"}
  /\ poster \in [Posters -> {"idle", "poke"}]
  /\ \A kind \in Kinds : unit = kind => PerThreadSem(kind)!NoLostWakeUp

LEMMA WaiterInit ==
  ASSUME PerThreadSem("sem")!Init PROVE WaiterInv
<1> USE DEF PerThreadSem!Init
<1>1. count = 0 /\ posts = 0 /\ taken = 0 /\ tokens = 0
  OBVIOUS
<1>2. count = posts - taken
  BY ONLY <1>1
<1>3. timed \in BOOLEAN
  OBVIOUS
<1>4. waiterPc = "out" /\ poster \in [Posters -> {"idle", "poke"}]
  OBVIOUS
<1>5. \A kind \in Kinds : unit = kind => PerThreadSem(kind)!NoLostWakeUp
  BY <1>4 DEF PerThreadSem!NoLostWakeUp
<1> QED
  BY <1>1, <1>2, <1>3, <1>4, <1>5 DEF WaiterInv

LEMMA WaiterStep ==
  ASSUME NEW kind \in Kinds, unit = kind, unit' = unit, WaiterInv, PerThreadSem(kind)!Next
  PROVE  WaiterInv'
<1> USE DEF WaiterInv, Kinds, PerThreadSem!NoLostWakeUp, PerThreadSem!Return, PerThreadSem!Poke,
        PerThreadSem!Raised, PerThreadSem!Pokes, PerThreadSem!sem, PerThreadSem!waiter, PerThreadSem!idle
<1>1. CASE PerThreadSem(kind)!Wait
  BY <1>1 DEF PerThreadSem!Wait
<1>2. CASE PerThreadSem(kind)!Consume
  BY <1>2 DEF PerThreadSem!Consume
<1>3. CASE PerThreadSem(kind)!Nothing
  BY <1>3 DEF PerThreadSem!Nothing, PerThreadSem!MaybeBecomeIdle
<1>4. CASE PerThreadSem(kind)!FutexWait
  BY <1>4 DEF PerThreadSem!FutexWait
<1>5. CASE PerThreadSem(kind)!SemWait
  BY <1>5 DEF PerThreadSem!SemWait
<1>6. CASE PerThreadSem(kind)!Timeout
  BY <1>6 DEF PerThreadSem!Timeout
<1>7. CASE PerThreadSem(kind)!Interrupted
  BY <1>7 DEF PerThreadSem!Interrupted
<1>8. CASE PerThreadSem(kind)!Tick
  BY <1>8 DEF PerThreadSem!Tick
<1>9. CASE PerThreadSem(kind)!TickPoke
  BY <1>9 DEF PerThreadSem!TickPoke
<1>10. ASSUME NEW p \in Posters, PerThreadSem(kind)!Post(p)
       PROVE  WaiterInv'
  BY <1>10 DEF PerThreadSem!Post
<1>11. ASSUME NEW p \in Posters, PerThreadSem(kind)!PostPoke(p)
       PROVE  WaiterInv'
  BY <1>11 DEF PerThreadSem!PostPoke
<1>12. ASSUME NEW p \in Posters, PerThreadSem(kind)!PthreadPost(p)
       PROVE  WaiterInv'
  BY <1>12 DEF PerThreadSem!PthreadPost
<1> QED
  BY <1>1, <1>2, <1>3, <1>4, <1>5, <1>6, <1>7, <1>8, <1>9, <1>10, <1>11, <1>12
  DEF PerThreadSem!Next, PerThreadSem!WaiterStep

\* Every step of PerThreadSem is a step of a semaphore, or none.
LEMMA WaiterRefines ==
  ASSUME NEW kind \in Kinds, WaiterInv, PerThreadSem(kind)!Next
  PROVE  [Semaphore!Enter \/ Semaphore!Acquire \/ Semaphore!Expire \/ Semaphore!Post]_Semaphore!vars
<1> USE DEF WaiterInv, Kinds, PerThreadSem!Return, PerThreadSem!Poke,
        PerThreadSem!Raised, PerThreadSem!sem, PerThreadSem!waiter, PerThreadSem!idle
<1>1. CASE PerThreadSem(kind)!Wait
  <2>1. Semaphore!Enter
    BY <1>1 DEF PerThreadSem!Wait, Semaphore!Enter
  <2> QED
    BY <2>1
<1>2. CASE PerThreadSem(kind)!Consume
  <2>1. Semaphore!Acquire
    BY <1>2 DEF PerThreadSem!Consume, Semaphore!Acquire
  <2> QED
    BY <2>1
<1>3. CASE PerThreadSem(kind)!Timeout
  <2>1. Semaphore!Expire
    BY <1>3 DEF PerThreadSem!Timeout, Semaphore!Expire
  <2> QED
    BY <2>1
<1>4. ASSUME NEW p \in Posters, PerThreadSem(kind)!Post(p) \/ PerThreadSem(kind)!PthreadPost(p)
      PROVE  Semaphore!Post
  BY <1>4 DEF PerThreadSem!Post, PerThreadSem!PthreadPost, Semaphore!Post
<1>5. CASE \/ PerThreadSem(kind)!Nothing \/ PerThreadSem(kind)!FutexWait \/ PerThreadSem(kind)!SemWait
           \/ PerThreadSem(kind)!Interrupted \/ PerThreadSem(kind)!Tick \/ PerThreadSem(kind)!TickPoke
           \/ \E p \in Posters : PerThreadSem(kind)!PostPoke(p)
  <2>1. posts' = posts /\ taken' = taken /\ timed' = timed /\ ret' = ret
        /\ (waiterPc = "out" <=> waiterPc' = "out")
    BY <1>5 DEF PerThreadSem!Nothing, PerThreadSem!FutexWait, PerThreadSem!SemWait,
       PerThreadSem!Interrupted, PerThreadSem!Tick, PerThreadSem!TickPoke, PerThreadSem!PostPoke
  <2> QED
    BY <2>1 DEF Semaphore!vars
<1> QED
  BY <1>1, <1>2, <1>3, <1>4, <1>5 DEF PerThreadSem!Next, PerThreadSem!WaiterStep

-----------------------------------------------------------------------------
(* Notification.                                                           *)

NoteTypes ==
  /\ notified_yet_ \in BOOLEAN /\ noteAlive \in BOOLEAN
  /\ notePc \in [Waiters \cup {Notifier} ->
                {"out", "store", "unlock", "done", "wait", "timedwait", "release", "destroy", "destroyed"}]
  /\ noted \in [Waiters -> {"none", "notified", "timeout"}]
  /\ notePc[Notifier] \in {"out", "store", "unlock", "done"}
  /\ \A t \in Waiters : notePc[t] \in {"out", "wait", "timedwait", "release", "destroy", "destroyed"}

\* The owner of the lock is where one holds it.
NoteOwner ==
  \A t \in Waiters \cup {Notifier} :
    mutex_ = t <=> notePc[t] \in {"store", "unlock", "release", "destroy"}

\* The flag is set when Notify has done so, and who reports it has seen it.
FlagIsSet ==
  /\ notified_yet_ <=> notePc[Notifier] \in {"unlock", "done"}
  /\ \A t \in Waiters : noted[t] = "notified" => notified_yet_

\* Once the destructor has the lock nobody else is in a method.
DestroyerIsAlone ==
  /\ \A t \in Waiters : notePc[t] \in {"destroy", "destroyed"} => t = Destroyer
  /\ notePc[Destroyer] \in {"destroy", "destroyed"} =>
       notePc[Notifier] = "done" /\ \A t \in Waiters \ {Destroyer} : notePc[t] = "out"
  /\ noteAlive <=> notePc[Destroyer] # "destroyed"

NoteInv == NoteTypes /\ NoteOwner /\ FlagIsSet /\ DestroyerIsAlone

LEMMA NoteInit ==
  ASSUME Notification!Init PROVE NoteInv
  BY SynchronizationAssumption
  DEF Notification!NotificationAssumption, Notification!Init, Notification!Threads, NoteInv, NoteTypes,
      NoteOwner, FlagIsSet, DestroyerIsAlone

LEMMA NoteStep ==
  ASSUME NoteInv, Notification!Next
  PROVE  NoteInv'
<1> USE SynchronizationAssumption
    DEF Notification!NotificationAssumption, NoteInv, NoteTypes, NoteOwner, FlagIsSet, DestroyerIsAlone,
        Notification!Goto, Notification!Lock, Notification!Unlock
<1>1. CASE Notification!Notify
  <2>1. NoteTypes'
    BY <1>1 DEF Notification!Notify
  <2>2. NoteOwner'
    BY <1>1 DEF Notification!Notify
  <2>3. FlagIsSet'
    BY <1>1 DEF Notification!Notify
  <2>4. DestroyerIsAlone'
    BY <1>1 DEF Notification!Notify
  <2> QED
    BY <2>1, <2>2, <2>3, <2>4
<1>2. CASE Notification!Destroy
  <2>1. NoteTypes'
    BY <1>2 DEF Notification!Destroy, Notification!MayDestroy
  <2>2. NoteOwner'
    BY <1>2 DEF Notification!Destroy, Notification!MayDestroy
  <2>3. FlagIsSet'
    BY <1>2 DEF Notification!Destroy, Notification!MayDestroy
  <2>4. DestroyerIsAlone'
    BY <1>2 DEF Notification!Destroy, Notification!MayDestroy
  <2> QED
    BY <2>1, <2>2, <2>3, <2>4
<1>3. ASSUME NEW t \in Waiters, Notification!Wait(t)
      PROVE  NoteInv'
  BY <1>3 DEF Notification!Wait
<1>4. ASSUME NEW t \in Waiters, Notification!LockWhen(t)
      PROVE  NoteInv'
  BY <1>4 DEF Notification!LockWhen
<1>5. ASSUME NEW t \in Waiters, Notification!Release(t)
      PROVE  NoteInv'
  BY <1>5 DEF Notification!Release
<1> QED
  BY <1>1, <1>2, <1>3, <1>4, <1>5 DEF Notification!Next, Notification!Steps

LEMMA NoteProperties ==
  ASSUME NoteInv
  PROVE  Notification!NotUsedAfterDestruction /\ Notification!ResultIsTrue
  BY SynchronizationAssumption
  DEF Notification!NotificationAssumption, NoteInv, NoteTypes, FlagIsSet, DestroyerIsAlone,
      Notification!NotUsedAfterDestruction, Notification!ResultIsTrue

-----------------------------------------------------------------------------
(* BlockingCounter.                                                        *)

CounterTypes ==
  /\ done_ \in BOOLEAN /\ counterAlive \in BOOLEAN
  /\ counted \in Nat /\ counted <= initial_count
  /\ count_ = initial_count - counted
  /\ counterPc \in [Workers \cup {Waiter} ->
                   {"out", "last", "store", "unlock", "await", "block", "done", "gone"}]
  /\ counterPc[Waiter] \in {"out", "await", "block", "done", "gone"}
  /\ \A t \in Workers : counterPc[t] \in {"out", "last", "store", "unlock"}

\* The owner of the lock is where one holds it.
CounterOwner ==
  /\ \A t \in Workers : counterLock = t <=> counterPc[t] \in {"store", "unlock"}
  /\ counterLock = Waiter <=> counterPc[Waiter] = "await"

\* One worker reaches zero, sets done_ and returns true.
OneReachesZero ==
  /\ \A t, u \in Workers : counterPc[t] # "out" /\ counterPc[u] # "out" => t = u
  /\ \A t \in Workers : counterPc[t] # "out" => count_ = 0 /\ initial_count > 0 /\ trues = 0
  /\ trues \in {0, 1}
  /\ trues = 1 => count_ = 0
  /\ count_ = 0 /\ initial_count > 0 /\ trues = 0 => \E t \in Workers : counterPc[t] # "out"

\* The waiter goes on when done_ is set and the lock is free: nobody is left.
WaiterIsLast ==
  /\ done_ => count_ = 0 /\ \A t \in Workers : counterPc[t] \in {"out", "unlock"}
  /\ counterPc[Waiter] \in {"done", "gone"} => done_ /\ \A t \in Workers : counterPc[t] = "out"
  /\ counterAlive <=> counterPc[Waiter] # "gone"

CounterInv == CounterTypes /\ CounterOwner /\ OneReachesZero /\ WaiterIsLast

LEMMA CounterInit ==
  ASSUME BlockingCounter!Init PROVE CounterInv
<1> USE SynchronizationAssumption DEF BlockingCounter!BlockingCounterAssumption, BlockingCounter!Init
<1>1. CounterTypes
  BY DEF CounterTypes
<1>2. CounterOwner
  BY DEF CounterOwner
<1>3. OneReachesZero
  BY DEF OneReachesZero
<1>4. WaiterIsLast
  BY DEF WaiterIsLast
<1> QED
  BY <1>1, <1>2, <1>3, <1>4 DEF CounterInv

LEMMA CounterStep ==
  ASSUME CounterInv, BlockingCounter!Next
  PROVE  CounterInv'
<1> USE SynchronizationAssumption
    DEF BlockingCounter!BlockingCounterAssumption, CounterInv, CounterTypes, CounterOwner,
        OneReachesZero, WaiterIsLast, BlockingCounter!Goto
<1>1. CASE BlockingCounter!Wait
  <2>1. CounterTypes'
    <3>1. UNCHANGED <<count_, done_, counted, trues>> /\ counterAlive' \in BOOLEAN
      BY <1>1 DEF BlockingCounter!Wait
    <3>2. \E l \in {"out", "await", "block", "done", "gone"} :
            counterPc' = [counterPc EXCEPT ![Waiter] = l]
      BY <1>1 DEF BlockingCounter!Wait
    <3> QED
      BY <3>1, <3>2
  <2>2. CounterOwner'
    BY <1>1 DEF BlockingCounter!Wait, BlockingCounter!IsDone
  <2>3. OneReachesZero'
    BY <1>1 DEF BlockingCounter!Wait, BlockingCounter!IsDone
  <2>4. WaiterIsLast'
    BY <1>1 DEF BlockingCounter!Wait, BlockingCounter!IsDone
  <2> QED
    BY <2>1, <2>2, <2>3, <2>4
<1>2. ASSUME NEW t \in Workers, BlockingCounter!DecrementCount(t)
      PROVE  CounterInv'
  <2>1. CounterTypes'
    <3>1. count_ \in Int /\ counted' \in {counted, counted + 1} /\ counted' <= initial_count
          /\ count_' = initial_count - counted'
      BY <1>2 DEF BlockingCounter!DecrementCount, BlockingCounter!Subtract
    <3>2. \E l \in {"out", "last", "store", "unlock"} : counterPc' = [counterPc EXCEPT ![t] = l]
      BY <1>2 DEF BlockingCounter!DecrementCount, BlockingCounter!Subtract
    <3>3. done_' \in BOOLEAN /\ counterAlive' = counterAlive
      BY <1>2 DEF BlockingCounter!DecrementCount
    <3> QED
      BY <3>1, <3>2, <3>3
  <2>2. CounterOwner'
    BY <1>2 DEF BlockingCounter!DecrementCount, BlockingCounter!Subtract
  <2>3. OneReachesZero'
    BY <1>2 DEF BlockingCounter!DecrementCount, BlockingCounter!Subtract
  <2>4. WaiterIsLast'
    BY <1>2 DEF BlockingCounter!DecrementCount, BlockingCounter!Subtract
  <2> QED
    BY <2>1, <2>2, <2>3, <2>4
<1> QED
  BY <1>1, <1>2 DEF BlockingCounter!Next

LEMMA CounterProperties ==
  ASSUME CounterInv
  PROVE  BlockingCounter!NotUsedAfterDestruction /\ BlockingCounter!OneReturnsTrue
<1> USE SynchronizationAssumption
    DEF BlockingCounter!BlockingCounterAssumption, CounterInv, CounterTypes, OneReachesZero, WaiterIsLast
<1>1. BlockingCounter!NotUsedAfterDestruction
  BY DEF BlockingCounter!NotUsedAfterDestruction
<1>2. BlockingCounter!OneReturnsTrue
  <2> DEFINE S == {t \in Workers : counterPc[t] # "out"}
  <2>1. Cardinality(S) \in {0, 1} /\ (Cardinality(S) = 1 => S # {})
    BY AtMostOne, FS_EmptySet
  <2>2. S # {} => trues = 0
    OBVIOUS
  <2>3. Cardinality(S) + trues <= 1
    BY <2>1, <2>2
  <2>4. ~counterAlive /\ initial_count > 0 => trues = 1
    OBVIOUS
  <2> QED
    BY <2>3, <2>4 DEF BlockingCounter!OneReturnsTrue, BlockingCounter!Cardinality, Cardinality
<1> QED
  BY <1>1, <1>2

-----------------------------------------------------------------------------
(* Barrier.                                                                *)

BarrierTypes ==
  /\ barrierAlive \in BOOLEAN
  /\ barrierPc \in [Participants -> {"out", "await", "block", "unlock", "done"}]
  /\ result \in [Participants -> BOOLEAN]

\* The counters count the threads that are still to come and still to leave.
CountsOfThreads ==
  /\ num_to_block_ = Cardinality({t \in Participants : barrierPc[t] = "out"})
  /\ num_to_exit_ = Cardinality({t \in Participants : barrierPc[t] \in {"out", "await", "block"}})

BarrierOwner ==
  \A t \in Participants : barrierLock = t <=> barrierPc[t] \in {"await", "unlock"}

\* Who leaves has seen the barrier open, and who was told so left last.
LastIsLast ==
  /\ \A t \in Participants : barrierPc[t] \in {"unlock", "done"} =>
       \A u \in Participants : barrierPc[u] # "out"
  /\ \A t \in Participants : result[t] =>
       barrierPc[t] \in {"unlock", "done"} /\ \A u \in Participants \ {t} : barrierPc[u] = "done"
  /\ ~barrierAlive => \A t \in Participants : barrierPc[t] = "done"

BarrierInv == BarrierTypes /\ CountsOfThreads /\ BarrierOwner /\ LastIsLast

LEMMA BarrierInit ==
  ASSUME Barrier!Init PROVE BarrierInv
<1> USE SynchronizationAssumption DEF Barrier!BarrierAssumption, Barrier!Init
<1>1. Participants = {t \in Participants : barrierPc[t] = "out"}
      /\ Participants = {t \in Participants : barrierPc[t] \in {"out", "await", "block"}}
  OBVIOUS
<1>2. CountsOfThreads
  BY <1>1 DEF CountsOfThreads, Barrier!Cardinality, Cardinality
<1> QED
  BY <1>2 DEF BarrierInv, BarrierTypes, BarrierOwner, LastIsLast

\* A set that loses an element is smaller by one; a set of one element has no other.
LEMMA OneLess ==
  ASSUME NEW S, IsFiniteSet(S), NEW t \in S
  PROVE  /\ Cardinality(S) \in Nat \ {0}
         /\ Cardinality(S \ {t}) = Cardinality(S) - 1
         /\ Cardinality(S) = 1 => S = {t}
<1>1. IsFiniteSet(S \ {t}) /\ Cardinality(S \ {t}) = Cardinality(S) - 1
  BY FS_RemoveElement
<1>2. Cardinality(S) \in Nat /\ Cardinality(S \ {t}) \in Nat
  BY <1>1, FS_CardinalityType
<1>3. Cardinality(S \ {t}) = 0 => S \ {t} = {}
  BY <1>1, FS_EmptySet
<1> QED
  BY <1>1, <1>2, <1>3

LEMMA BarrierStep ==
  ASSUME BarrierInv, Barrier!Next
  PROVE  BarrierInv'
<1> USE SynchronizationAssumption
    DEF Barrier!BarrierAssumption, BarrierInv, BarrierTypes, Barrier!Goto
<1> DEFINE Out == {t \in Participants : barrierPc[t] = "out"}
           In == {t \in Participants : barrierPc[t] \in {"out", "await", "block"}}
<1>0. IsFiniteSet(Out) /\ IsFiniteSet(In) /\ Cardinality(Out) \in Nat /\ Cardinality(In) \in Nat
  <2>1. IsFiniteSet(Participants)
    BY DEF Barrier!IsFiniteSet, IsFiniteSet
  <2> QED
    BY <2>1, FS_Subset, FS_CardinalityType
<1>1. PICK t \in Participants : Barrier!Step(t)
  BY DEF Barrier!Next
<1>2. CASE Barrier!Enter(t)
  <2>1. Out' = Out \ {t} /\ t \in Out /\ In' = In
    BY <1>2 DEF Barrier!Enter
  <2>2. CountsOfThreads'
    BY <1>0, <1>2, <2>1, OneLess DEF Barrier!Enter, CountsOfThreads
  <2> QED
    BY <1>2, <2>2 DEF Barrier!Enter, BarrierOwner, LastIsLast
<1>3. CASE Barrier!Await(t) \/ Barrier!Resume(t)
  <2>1. Out' = Out /\ In' = In
    BY <1>3 DEF Barrier!Await, Barrier!Resume
  <2>2. CountsOfThreads'
    BY <1>3, <2>1 DEF Barrier!Await, Barrier!Resume, CountsOfThreads
  <2>3. BarrierOwner'
    BY <1>3 DEF Barrier!Await, Barrier!Resume, BarrierOwner
  <2> QED
    BY <1>3, <2>2, <2>3 DEF Barrier!Await, Barrier!Resume, LastIsLast
<1>4. CASE Barrier!Exit(t)
  <2>1. Out' = Out /\ In' = In \ {t} /\ t \in In
    BY <1>4 DEF Barrier!Exit
  <2>2. CountsOfThreads'
    BY <1>0, <1>4, <2>1, OneLess DEF Barrier!Exit, CountsOfThreads
  <2>3. Out = {}
    BY <1>0, <1>4, FS_EmptySet DEF Barrier!Exit, Barrier!Open, CountsOfThreads
  <2>4. Barrier!Last(t) => In = {t}
    BY <1>0, <2>1, OneLess DEF Barrier!Last, CountsOfThreads
  <2>5. BarrierOwner'
    BY <1>4 DEF Barrier!Exit, BarrierOwner
  <2>6. LastIsLast'
    BY <1>4, <2>3, <2>4 DEF Barrier!Exit, BarrierOwner, LastIsLast
  <2> QED
    BY <1>4, <2>2, <2>5, <2>6 DEF Barrier!Exit, Barrier!Last
<1>5. CASE Barrier!Leave(t)
  <2>1. Out' = Out /\ In' = In
    BY <1>5 DEF Barrier!Leave
  <2>2. CountsOfThreads'
    BY <1>5, <2>1 DEF Barrier!Leave, CountsOfThreads
  <2> QED
    BY <1>5, <2>2 DEF Barrier!Leave, BarrierOwner, LastIsLast
<1>6. CASE Barrier!Destroy(t)
  BY <1>6 DEF Barrier!Destroy, CountsOfThreads, BarrierOwner, LastIsLast
<1> QED
  BY <1>1, <1>2, <1>3, <1>4, <1>5, <1>6 DEF Barrier!Step

LEMMA BarrierProperties ==
  ASSUME BarrierInv
  PROVE  Barrier!NotUsedAfterDestruction /\ Barrier!NobodyLeavesEarly
  BY DEF BarrierInv, LastIsLast, Barrier!NotUsedAfterDestruction, Barrier!NobodyLeavesEarly

-----------------------------------------------------------------------------
(* The units together. Each invariant is about the variables of its unit, so that *)
(* a step of another unit keeps it.                                               *)

SInv == OnceInv /\ LockInv /\ WaiterInv /\ NoteInv /\ CounterInv /\ BarrierInv

LEMMA SInvInit ==
  ASSUME Init PROVE SInv
  BY OnceInit, LockInit, WaiterInit, NoteInit, CounterInit, BarrierInit DEF Init, SInv

LEMMA OnceStands == ASSUME OnceInv, UNCHANGED once PROVE OnceInv'
  BY DEF once, OnceInv, OnceTypes, OneRunner, RunsIt, WaitersAreSeen

LEMMA LockStands == ASSUME LockInv, UNCHANGED lock PROVE LockInv'
  BY DEF lock, LockInv, LockTypes, OneHolder, SleepersAreSeen, WaitTimes, Words,
         SpinLock!SleepersAreRemembered, SpinLock!Asleep

LEMMA WaiterStands == ASSUME WaiterInv, UNCHANGED <<unit, waiter>> PROVE WaiterInv'
  BY DEF waiter, WaiterInv, PerThreadSem!NoLostWakeUp

LEMMA NoteStands == ASSUME NoteInv, UNCHANGED note PROVE NoteInv'
  BY DEF note, NoteInv, NoteTypes, NoteOwner, FlagIsSet, DestroyerIsAlone

LEMMA CounterStands == ASSUME CounterInv, UNCHANGED counter PROVE CounterInv'
  BY DEF counter, CounterInv, CounterTypes, CounterOwner, OneReachesZero, WaiterIsLast

LEMMA BarrierStands == ASSUME BarrierInv, UNCHANGED barrier PROVE BarrierInv'
  BY DEF barrier, BarrierInv, BarrierTypes, CountsOfThreads, BarrierOwner, LastIsLast

\* What a step of the whole is: a step of one unit, and the others stand still.
LEMMA OneUnit ==
  ASSUME Next
  PROVE  \/ (\E f \in BOOLEAN : CallOnce(f)!Next) /\ UNCHANGED <<unit, lock, waiter, note, counter, barrier>>
         \/ (\E f \in BOOLEAN : SpinLock(f)!Next) /\ UNCHANGED <<unit, once, waiter, note, counter, barrier>>
         \/ (\E kind \in Kinds : unit = kind /\ PerThreadSem(kind)!Next)
            /\ UNCHANGED <<unit, once, lock, note, counter, barrier>>
         \/ Notification!Next /\ UNCHANGED <<unit, once, lock, waiter, counter, barrier>>
         \/ BlockingCounter!Next /\ UNCHANGED <<unit, once, lock, waiter, note, barrier>>
         \/ Barrier!Next /\ UNCHANGED <<unit, once, lock, waiter, note, counter>>
  BY DEF Next, Kinds

LEMMA SInvStep ==
  ASSUME SInv, [Next]_vars
  PROVE  SInv'
<1>1. CASE UNCHANGED vars
  BY <1>1, OnceStands, LockStands, WaiterStands, NoteStands, CounterStands, BarrierStands
  DEF vars, SInv
<1>2. CASE (\E f \in BOOLEAN : CallOnce(f)!Next) /\ UNCHANGED <<unit, lock, waiter, note, counter, barrier>>
  BY <1>2, OnceStep, LockStands, WaiterStands, NoteStands, CounterStands, BarrierStands DEF SInv
<1>3. CASE (\E f \in BOOLEAN : SpinLock(f)!Next) /\ UNCHANGED <<unit, once, waiter, note, counter, barrier>>
  BY <1>3, OnceStands, LockStep, WaiterStands, NoteStands, CounterStands, BarrierStands DEF SInv
<1>4. CASE (\E kind \in Kinds : unit = kind /\ PerThreadSem(kind)!Next)
           /\ UNCHANGED <<unit, once, lock, note, counter, barrier>>
  BY <1>4, OnceStands, LockStands, WaiterStep, NoteStands, CounterStands, BarrierStands DEF SInv
<1>5. CASE Notification!Next /\ UNCHANGED <<unit, once, lock, waiter, counter, barrier>>
  BY <1>5, OnceStands, LockStands, WaiterStands, NoteStep, CounterStands, BarrierStands DEF SInv
<1>6. CASE BlockingCounter!Next /\ UNCHANGED <<unit, once, lock, waiter, note, barrier>>
  BY <1>6, OnceStands, LockStands, WaiterStands, NoteStands, CounterStep, BarrierStands DEF SInv
<1>7. CASE Barrier!Next /\ UNCHANGED <<unit, once, lock, waiter, note, counter>>
  BY <1>7, OnceStands, LockStands, WaiterStands, NoteStands, CounterStands, BarrierStep DEF SInv
<1> QED
  BY <1>1, <1>2, <1>3, <1>4, <1>5, <1>6, <1>7, OneUnit

\* The inductive invariant of every unit holds in every state.
THEOREM Invariance == Spec => []SInv
  BY SInvInit, SInvStep, PTL DEF Spec

\* No thread sleeps forgotten: in call_once, in SpinLock and in PerThreadSem a sleeper
\* is owed its wake-up by somebody who is still to come.
THEOREM WakeUps == Spec => []NoWakeUpIsLost
<1>1. SInv => NoWakeUpIsLost
  BY OnceProperties DEF SInv, LockInv, WaiterInv, NoWakeUpIsLost
<1> QED
  BY <1>1, Invariance, PTL

\* The function of call_once is run once by one thread, and the SpinLock has at most
\* one holder, whom its word tells of.
THEOREM Exclusion == Spec => []MutualExclusion
<1>1. SInv => MutualExclusion
  BY OnceProperties, LockProperties DEF SInv, MutualExclusion
<1> QED
  BY <1>1, Invariance, PTL

\* A Notification, a BlockingCounter and a Barrier may be destroyed by the thread that
\* their documentation allows to.
THEOREM Destruction == Spec => []NotUsedAfterDestruction
<1>1. SInv => NotUsedAfterDestruction
  BY NoteProperties, CounterProperties, BarrierProperties DEF SInv, NotUsedAfterDestruction
<1> QED
  BY <1>1, Invariance, PTL

\* What Notification, BlockingCounter and Barrier report to their callers is so.
THEOREM Results == Spec => []ResultsAreTrue
<1>1. SInv => ResultsAreTrue
  BY NoteProperties, CounterProperties, BarrierProperties DEF SInv, ResultsAreTrue
<1> QED
  BY <1>1, Invariance, PTL

\* call_once keeps its promise: the function runs once, no call returns before its end.
THEOREM OnceIsKept == Spec => ImplementsOnce
<1>1. Init => Once!Init
  BY DEF Init, CallOnce!Init, Once!Init
<1>2. SInv /\ [Next]_vars => [Once!Next]_Once!vars
  <2> SUFFICES ASSUME SInv, [Next]_vars PROVE Once!Next \/ UNCHANGED Once!vars
    OBVIOUS
  <2>1. CASE \E f \in BOOLEAN : CallOnce(f)!Next
    BY <2>1, OnceRefines DEF SInv
  <2>2. CASE UNCHANGED once
    BY <2>2 DEF once, Once!vars
  <2> QED
    BY <2>1, <2>2, OneUnit DEF vars
<1> QED
  BY <1>1, <1>2, Invariance, PTL DEF Spec, ImplementsOnce, Once!Spec

\* The steps of PerThreadSem are those of a semaphore, in whatever way the thread
\* sleeps: a post is consumed once, a failed wait had a deadline and consumes nothing.
THEOREM SemaphoreIsKept ==
  Spec => Semaphore!Init
          /\ [][Semaphore!Enter \/ Semaphore!Acquire \/ Semaphore!Expire \/ Semaphore!Post]_(Semaphore!vars)
<1>1. Init => Semaphore!Init
  <2> SUFFICES ASSUME Init PROVE Semaphore!Init
    OBVIOUS
  <2>1. posts = 0 /\ taken = 0 /\ waiterPc = "out" /\ ret = TRUE
    BY DEF Init, PerThreadSem!Init
  <2>2. posts - taken = 0
    BY ONLY <2>1
  <2> QED
    BY <2>1, <2>2 DEF Semaphore!Init
<1>2. SInv /\ [Next]_vars =>
        [Semaphore!Enter \/ Semaphore!Acquire \/ Semaphore!Expire \/ Semaphore!Post]_(Semaphore!vars)
  <2> SUFFICES ASSUME SInv, [Next]_vars
               PROVE  [Semaphore!Enter \/ Semaphore!Acquire \/ Semaphore!Expire \/ Semaphore!Post]_(Semaphore!vars)
    OBVIOUS
  <2>1. CASE \E kind \in Kinds : PerThreadSem(kind)!Next
    BY <2>1, WaiterRefines DEF SInv
  <2>2. CASE UNCHANGED waiter
    BY <2>2 DEF waiter, Semaphore!vars
  <2> QED
    BY <2>1, <2>2, OneUnit DEF vars
<1> QED
  BY <1>1, <1>2, Invariance, PTL DEF Spec
=============================================================================
