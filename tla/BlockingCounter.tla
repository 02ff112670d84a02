-------------------------- MODULE BlockingCounter --------------------------
(***************************************************************************)
(* absl::BlockingCounter (absl/synchronization/blocking_counter.cc): some  *)
(* threads count down, one waits for zero and then destroys the object.    *)
(* The Mutex inside is taken as in Notification.tla.                       *)
(***************************************************************************)
EXTENDS Integers, FiniteSets

CONSTANTS Workers, Waiter,
          initial_count,   \* how often the workers count down, all together
          NoThread         \* no owner

BlockingCounterAssumption ==
  Waiter \notin Workers /\ NoThread \notin Workers \cup {Waiter} /\ initial_count \in Nat

VARIABLES count_, done_,
          lock_,    \* its owner
          pc,
          calls,    \* calls of DecrementCount so far
          trues,    \* how many of them have returned true
          alive     \* the object has not been destroyed

vars == <<count_, done_, lock_, pc, calls, trues, alive>>

Init ==
  /\ count_ = initial_count /\ done_ = (initial_count = 0)
  /\ lock_ = NoThread /\ alive = TRUE /\ calls = 0 /\ trues = 0
  /\ pc = [t \in Workers \cup {Waiter} |-> "out"]

Goto(t, l) == pc' = [pc EXCEPT ![t] = l]

\* DecrementCount: subtract one; whoever reaches zero goes on.
Subtract(t) ==
  /\ pc[t] = "out" /\ calls < initial_count /\ calls' = calls + 1
  /\ count_' = count_ - 1
  /\ Goto(t, IF count_' = 0 THEN "last" ELSE "out")

\* DecrementCount: set done_ under the lock.
DecrementCount(t) ==
  \/ Subtract(t) /\ UNCHANGED <<done_, lock_, trues, alive>>
  \/ /\ pc[t] = "last" /\ lock_ = NoThread /\ lock_' = t
     /\ Goto(t, "store") /\ UNCHANGED <<count_, done_, calls, trues, alive>>
  \/ /\ pc[t] = "store"
     /\ done_' = TRUE
     /\ Goto(t, "unlock") /\ UNCHANGED <<count_, lock_, calls, trues, alive>>
  \/ /\ pc[t] = "unlock" /\ lock_' = NoThread
     /\ trues' = trues + 1
     /\ Goto(t, "out") /\ UNCHANGED <<count_, done_, calls, alive>>

IsDone == done_

\* Wait: take the lock, give it up until done_, release it. Then the client destroys
\* the object.
Wait ==
  \/ /\ pc[Waiter] = "out" /\ lock_ = NoThread /\ lock_' = Waiter
     /\ Goto(Waiter, "await") /\ UNCHANGED <<count_, done_, calls, trues, alive>>
  \/ /\ pc[Waiter] = "await" /\ ~IsDone /\ lock_' = NoThread
     /\ Goto(Waiter, "block") /\ UNCHANGED <<count_, done_, calls, trues, alive>>
  \/ /\ pc[Waiter] = "block" /\ IsDone /\ lock_ = NoThread /\ lock_' = Waiter
     /\ Goto(Waiter, "await") /\ UNCHANGED <<count_, done_, calls, trues, alive>>
  \/ /\ pc[Waiter] = "await" /\ IsDone /\ lock_' = NoThread
     /\ Goto(Waiter, "done") /\ UNCHANGED <<count_, done_, calls, trues, alive>>
  \/ /\ pc[Waiter] = "done" /\ alive' = FALSE
     /\ Goto(Waiter, "gone") /\ UNCHANGED <<count_, done_, lock_, calls, trues>>

Next == Wait \/ \E t \in Workers : DecrementCount(t)

\* The workers do their work, the waiter waits: threads that can go on are run.
Spec ==
  /\ Init /\ [][Next]_vars /\ WF_vars(Wait) /\ \A t \in Workers : WF_vars(DecrementCount(t))

-----------------------------------------------------------------------------
\* Wait returns, and the object goes, only when every call of DecrementCount has
\* finished with the object, the one that reached zero and set done_ included.
NotUsedAfterDestruction ==
  ~alive => calls = initial_count /\ \A t \in Workers : pc[t] = "out"

\* The call that reaches zero, and no other, returns true.
OneReturnsTrue ==
  /\ Cardinality({t \in Workers : pc[t] # "out"}) + trues <= 1
  /\ ~alive /\ initial_count > 0 => trues = 1

=============================================================================
