------------------------------ MODULE MCMutex ------------------------------
(* Programs and priorities for TLC. A set of programs that two threads could *)
(* run with their names swapped is given to one of them only.                *)
EXTENDS CondVar

CONSTANTS t1, t2, t3

Each(of) == {p \in [Threads -> UNION {of[t] : t \in Threads}] : \A t \in Threads : p[t] \in of[t]}

\* Writers and readers, one of which tries.
Locks == <<"Lock", "Unlock", "Lock", "Unlock">>
Reads == <<"ReaderLock", "Unlock", "ReaderLock", "Unlock">>
TriesFirst == <<"TryLock", "Unlock", "Lock", "Unlock">>
LockPrograms ==
  [t \in Threads |-> IF t = t1 THEN {Locks, Reads}
                     ELSE IF t = t2 THEN {TriesFirst, Reads} ELSE {Locks, Reads, TriesFirst}]

\* Waiting for conditions, with and without a deadline; t3 makes them true.
WaitPrograms ==
  {<<"LockWhen", "Clear", "Unlock">>, <<"Lock", "Await", "Unlock">>,
   <<"LockWhenWithDeadline", "Unlock">>, <<"ReaderLockWhen", "Unlock">>}
ConditionPrograms ==
  [t \in Threads |-> IF t = t3 THEN WaitPrograms \union {<<"Lock", "Set", "Unlock">>}
                     ELSE IF t = t2 THEN WaitPrograms \ {<<"LockWhenWithDeadline", "Unlock">>}
                     ELSE {<<"LockWhenWithDeadline", "Unlock">>, <<"Lock", "Set", "Unlock">>}]

\* Two waiters on the condition variable and a producer. The data is set under the
\* lock and signalled under it or after it; two signals do for two waiters.
CondVarPrograms ==
  [t \in Threads |->
     CASE t = t1 -> {<<"Lock", "Wait", "Unlock">>, <<"ReaderLock", "Wait", "Unlock">>}
       [] t = t2 -> {<<"Lock", "WaitWithTimeout", "Unlock">>, <<"ReaderLock", "Wait", "Unlock">>}
       [] t = t3 -> {<<"Lock", "Set", "SignalAll", "Unlock">>,
                     <<"Lock", "Set", "Unlock", "SignalAll">>,
                     <<"Lock", "Set", "Signal", "Unlock", "Signal">>}]

AllPrograms ==
  Each(LockPrograms) \cup Each(ConditionPrograms) \cup Each(CondVarPrograms)

HighPriority == [t \in Threads |-> IF t = t3 THEN 1 ELSE 0]
=============================================================================
