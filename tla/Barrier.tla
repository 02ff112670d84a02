------------------------------ MODULE Barrier ------------------------------
(***************************************************************************)
(* absl::Barrier (absl/synchronization/barrier.cc): num_threads threads    *)
(* call Block, and the one to which it returns true destroys the object.   *)
(* The Mutex inside is taken as in Notification.tla.                       *)
(***************************************************************************)
EXTENDS Integers, FiniteSets

CONSTANTS Threads,
          NoThread   \* no owner

BarrierAssumption == IsFiniteSet(Threads) /\ Threads # {} /\ NoThread \notin Threads

VARIABLES num_to_block_, num_to_exit_,
          lock_,    \* its owner
          pc,
          result,   \* the return value of each call of Block
          alive     \* the object has not been destroyed

vars == <<num_to_block_, num_to_exit_, lock_, pc, result, alive>>

Init ==
  /\ num_to_block_ = Cardinality(Threads) /\ num_to_exit_ = Cardinality(Threads)
  /\ lock_ = NoThread /\ alive = TRUE
  /\ pc = [t \in Threads |-> "out"] /\ result = [t \in Threads |-> FALSE]

Goto(t, l) == pc' = [pc EXCEPT ![t] = l]

\* Block: take the lock and count in.
Enter(t) ==
  /\ pc[t] = "out" /\ lock_ = NoThread /\ lock_' = t
  /\ num_to_block_' = num_to_block_ - 1
  /\ Goto(t, "await")
  /\ UNCHANGED <<num_to_exit_, result, alive>>

\* Mutant: the barrier opens one thread early.
Open_Early == num_to_block_ <= 1

\* IsZero.
Open == num_to_block_ = 0

\* Block, Await: give the lock up until all have counted in ...
Await(t) ==
  /\ pc[t] = "await" /\ ~Open /\ lock_' = NoThread
  /\ Goto(t, "block")
  /\ UNCHANGED <<num_to_block_, num_to_exit_, result, alive>>

\* ... and take it back.
Resume(t) ==
  /\ pc[t] = "block" /\ Open /\ lock_ = NoThread /\ lock_' = t
  /\ Goto(t, "await")
  /\ UNCHANGED <<num_to_block_, num_to_exit_, result, alive>>

\* Block returns true to the last thread that leaves.
Last(t) == num_to_exit_ = 1

\* Block: count out ...
Exit(t) ==
  /\ pc[t] = "await" /\ Open
  /\ num_to_exit_' = num_to_exit_ - 1
  /\ result' = [result EXCEPT ![t] = Last(t)]
  /\ Goto(t, "unlock")
  /\ UNCHANGED <<num_to_block_, lock_, alive>>

\* ... and release the lock.
Leave(t) ==
  /\ pc[t] = "unlock" /\ lock_' = NoThread
  /\ Goto(t, "done")
  /\ UNCHANGED <<num_to_block_, num_to_exit_, result, alive>>

\* The client does with the result what the documentation asks for.
Destroy(t) ==
  /\ pc[t] = "done" /\ result[t] /\ alive
  /\ alive' = FALSE
  /\ UNCHANGED <<num_to_block_, num_to_exit_, lock_, pc, result>>

Step(t) == Enter(t) \/ Await(t) \/ Resume(t) \/ Exit(t) \/ Leave(t) \/ Destroy(t)
Next == \E t \in Threads : Step(t)

\* Every thread arrives and goes on.
Spec == Init /\ [][Next]_vars /\ \A t \in Threads : WF_vars(Step(t))

-----------------------------------------------------------------------------
\* Nobody leaves before all have arrived.
NobodyLeavesEarly ==
  (\E t \in Threads : pc[t] \in {"unlock", "done"}) => \A t \in Threads : pc[t] # "out"

\* "It is safe to destroy the barrier when Block returns true": nobody is in it.
NotUsedAfterDestruction == ~alive => \A t \in Threads : pc[t] = "done"

=============================================================================
