------------------------------ MODULE CallOnce ------------------------------
(***************************************************************************)
(* absl::call_once on one once_flag, called by several threads             *)
(* (absl/base/call_once.h), with the SpinLockWait loop it waits in         *)
(* (absl/base/internal/spinlock_wait.cc). One action per access to the     *)
(* control word, which is all that the threads share.                      *)
(***************************************************************************)
EXTENDS Naturals, FiniteSets

CONSTANTS Threads,    \* the threads that call call_once on the flag
          MaxCalls,   \* bound: calls each thread makes
          Futex       \* TRUE: SpinLockDelay is a futex wait (spinlock_linux.inc)
                      \* FALSE: a short sleep (spinlock_posix.inc, Apple)

CallOnceAssumption == MaxCalls \in Nat /\ Futex \in BOOLEAN

VARIABLES control,  \* once_flag::control_
          pc,       \* where each thread is
          seen,     \* the control word as the thread last read it
          calls,    \* calls the thread has made
          phase,    \* history: the function "never" ran, is "running", has "ended"
          runs      \* history: how often the function was started

vars == <<control, pc, seen, calls, phase, runs>>

kOnceInit == "kOnceInit"
kOnceRunning == "kOnceRunning"
kOnceWaiter == "kOnceWaiter"
kOnceDone == "kOnceDone"

\* Mutant: a wait that ends when it has announced itself.
trans_DoneOnWaiter ==
  [kOnceInit    |-> [to |-> kOnceRunning, done |-> TRUE],
   kOnceRunning |-> [to |-> kOnceWaiter, done |-> TRUE],
   kOnceDone    |-> [to |-> kOnceDone, done |-> TRUE]]
\* The table that CallOnceImpl hands to SpinLockWait: what to turn a value
\* into, and whether the wait is over then. kOnceWaiter has no entry.
trans ==
  [kOnceInit    |-> [to |-> kOnceRunning, done |-> TRUE],
   kOnceRunning |-> [to |-> kOnceWaiter, done |-> FALSE],
   kOnceDone    |-> [to |-> kOnceDone, done |-> TRUE]]

Asleep == {t \in Threads : pc[t] = "asleep"}

Init ==
  /\ control = kOnceInit
  /\ pc = [t \in Threads |-> "out"]
  /\ seen = [t \in Threads |-> kOnceInit]
  /\ calls = [t \in Threads |-> 0]
  /\ phase = "never"
  /\ runs = 0

Goto(t, l) == pc' = [pc EXCEPT ![t] = l]

\* call_once is called.
Call(t) ==
  /\ pc[t] = "out" /\ calls[t] < MaxCalls
  /\ calls' = [calls EXCEPT ![t] = @ + 1]
  /\ Goto(t, "load")
  /\ UNCHANGED <<control, seen, phase, runs>>

\* call_once: nothing to do if the function is known to have run.
call_once(t) ==
  /\ pc[t] = "load"
  /\ Goto(t, IF control = kOnceDone THEN "out" ELSE "first")
  /\ UNCHANGED <<control, seen, calls, phase, runs>>

\* CallOnceImpl: the first attempt to become the thread that runs the function.
FirstAttempt(t) ==
  /\ pc[t] = "first"
  /\ IF control = kOnceInit THEN control' = kOnceRunning /\ Goto(t, "begin")
                            ELSE control' = control /\ Goto(t, "wait")
  /\ UNCHANGED <<seen, calls, phase, runs>>

\* SpinLockWait: load the word and look it up in the table.
WaitLoad(t) ==
  /\ pc[t] = "wait"
  /\ seen' = [seen EXCEPT ![t] = control]
  /\ Goto(t, IF control \notin DOMAIN trans THEN "delay"
             ELSE IF trans[control].to # control THEN "transit"
             ELSE IF trans[control].done THEN "out" ELSE "wait")
  /\ UNCHANGED <<control, calls, phase, runs>>

\* SpinLockWait: the compare and exchange of a table entry. A wait that ends
\* here returns kOnceInit, and then CallOnceImpl runs the function.
WaitTransit(t) ==
  /\ pc[t] = "transit"
  /\ IF control = seen[t]
       THEN /\ control' = trans[seen[t]].to
            /\ Goto(t, IF ~trans[seen[t]].done THEN "wait"
                       ELSE IF seen[t] = kOnceInit THEN "begin" ELSE "out")
       ELSE control' = control /\ Goto(t, "wait")
  /\ UNCHANGED <<seen, calls, phase, runs>>

\* AbslInternalSpinLockDelay: a futex wait returns at once if the word is no
\* longer the given one. The other implementation only sleeps for a while.
SpinLockDelay(t) ==
  /\ pc[t] = "delay"
  /\ Goto(t, IF Futex /\ control = seen[t] THEN "asleep" ELSE "wait")
  /\ UNCHANGED <<control, seen, calls, phase, runs>>

\* A futex wait may be interrupted.
Interrupted(t) ==
  /\ pc[t] = "asleep"
  /\ Goto(t, "wait")
  /\ UNCHANGED <<control, seen, calls, phase, runs>>

Begin(t) ==
  /\ pc[t] = "begin"
  /\ phase' = "running"
  /\ runs' = runs + 1
  /\ Goto(t, "end")
  /\ UNCHANGED <<control, seen, calls>>

End(t) ==
  /\ pc[t] = "end"
  /\ phase' = "ended"
  /\ Goto(t, "publish")
  /\ UNCHANGED <<control, seen, calls, runs>>

\* Mutant: looks for the waiter in the word after it was overwritten.
Publish_TestsNewValue(t) ==
  /\ pc[t] = "publish"
  /\ control' = kOnceDone
  /\ Goto(t, IF control' = kOnceWaiter THEN "wake" ELSE "out")
  /\ UNCHANGED <<seen, calls, phase, runs>>

\* The exchange that publishes the end of the run.
Publish(t) ==
  /\ pc[t] = "publish"
  /\ control' = kOnceDone
  /\ Goto(t, IF control = kOnceWaiter THEN "wake" ELSE "out")
  /\ UNCHANGED <<seen, calls, phase, runs>>

\* AbslInternalSpinLockWake(control, true)
SpinLockWake(t) ==
  /\ pc[t] = "wake"
  /\ pc' = [u \in Threads |-> IF u = t THEN "out"
                              ELSE IF u \in Asleep THEN "wait" ELSE pc[u]]
  /\ UNCHANGED <<control, seen, calls, phase, runs>>

\* Everything a thread that is inside a call does of its own accord.
Step(t) ==
  \/ call_once(t) \/ FirstAttempt(t) \/ WaitLoad(t) \/ WaitTransit(t)
  \/ SpinLockDelay(t) \/ Begin(t) \/ End(t) \/ Publish(t) \/ SpinLockWake(t)

Next == \E t \in Threads : Call(t) \/ Step(t) \/ Interrupted(t)

Spec == Init /\ [][Next]_vars

\* The operating system goes on running a thread that is not asleep, and the
\* function ends. Calls and interrupts are owed to nobody.
FairSpec == Spec /\ \A t \in Threads : WF_vars(Step(t))

-----------------------------------------------------------------------------
\* The function runs at most once, and while it runs or has run to its end
\* nobody else is about to run it (call_once.h:60-63).
RunsOnce ==
  /\ runs <= 1
  /\ Cardinality({t \in Threads : pc[t] \in {"begin", "end", "publish"}}) <= 1
  /\ phase # "never" => \A t \in Threads : pc[t] # "begin"

\* A sleeping thread has its wake-up coming: it sleeps on kOnceWaiter, and the
\* thread that will publish or has published still has the wake-up before it.
SleepersAreOwedAWake ==
  Asleep # {} =>
    \/ control = kOnceWaiter
       /\ \E t \in Threads : pc[t] \in {"begin", "end", "publish"}
    \/ control = kOnceDone /\ \E t \in Threads : pc[t] = "wake"

=============================================================================
