---------------------------- MODULE Notification ----------------------------
(***************************************************************************)
(* absl::Notification (absl/synchronization/notification.cc): one thread   *)
(* notifies, others wait, and one that has seen the notification destroys  *)
(* the object. The Mutex inside is what Mutex.tla shows it to be: taken by *)
(* one thread at a time, and when a condition holds or a deadline passes.  *)
(***************************************************************************)
EXTENDS FiniteSets

CONSTANTS Waiters, Notifier, Destroyer,   \* Destroyer: one of the waiters
          NoThread                              \* no owner

NotificationAssumption ==
  Notifier \notin Waiters /\ Destroyer \in Waiters /\ NoThread \notin Waiters \cup {Notifier}

Threads == Waiters \cup {Notifier}

VARIABLES notified_yet_,
          mutex_,     \* its owner
          pc,
          result,     \* what the last call of each waiter returned
          alive       \* the object has not been destroyed

vars == <<notified_yet_, mutex_, pc, result, alive>>

Init ==
  /\ notified_yet_ = FALSE /\ mutex_ = NoThread /\ alive = TRUE
  /\ pc = [t \in Threads |-> "out"]
  /\ result = [t \in Waiters |-> "none"]

Goto(t, l) == pc' = [pc EXCEPT ![t] = l]
Lock(t) == mutex_ = NoThread /\ mutex_' = t
Unlock(t) == mutex_ = t /\ mutex_' = NoThread

\* Notify: take the lock, set the flag (waiters see it at once), release the lock.
Notify ==
  \/ /\ pc[Notifier] = "out" /\ Lock(Notifier)
     /\ Goto(Notifier, "store") /\ UNCHANGED <<notified_yet_, result, alive>>
  \/ /\ pc[Notifier] = "store"
     /\ notified_yet_' = TRUE
     /\ Goto(Notifier, "unlock") /\ UNCHANGED <<mutex_, result, alive>>
  \/ /\ pc[Notifier] = "unlock" /\ Unlock(Notifier)
     /\ Goto(Notifier, "done") /\ UNCHANGED <<notified_yet_, result, alive>>

\* WaitForNotification, ...WithTimeout, ...WithDeadline: done if the flag is set.
\* A client calls no method of an object that is being destroyed.
Wait(t) ==
  /\ pc[t] = "out" /\ alive /\ pc[Destroyer] \notin {"destroy", "destroyed"}
  /\ IF notified_yet_
       THEN result' = [result EXCEPT ![t] = "notified"] /\ UNCHANGED pc
       ELSE (Goto(t, "wait") \/ Goto(t, "timedwait")) /\ UNCHANGED result
  /\ UNCHANGED <<notified_yet_, mutex_, alive>>

\* LockWhen, LockWhenWithTimeout: the lock is taken when the flag is set, or with
\* it still unset when the time is up.
LockWhen(t) ==
  /\ pc[t] = "timedwait" \/ (pc[t] = "wait" /\ notified_yet_)
  /\ Lock(t)
  /\ result' = [result EXCEPT ![t] = IF notified_yet_ THEN "notified" ELSE "timeout"]
  /\ Goto(t, "release")
  /\ UNCHANGED <<notified_yet_, alive>>

\* The end of a wait.
Release(t) ==
  /\ pc[t] = "release" /\ Unlock(t)
  /\ Goto(t, "out")
  /\ UNCHANGED <<notified_yet_, result, alive>>

\* A client destroys the object once the notification has been seen and no other
\* wait is under way.
MayDestroy ==
  /\ pc[Destroyer] = "out" /\ result[Destroyer] = "notified"
  /\ \A t \in Waiters : pc[t] = "out"

\* Mutant: the destructor does not take the lock.
Destroy_NoLock ==
  /\ MayDestroy /\ alive
  /\ alive' = FALSE
  /\ Goto(Destroyer, "destroyed")
  /\ UNCHANGED <<notified_yet_, mutex_, result>>

\* ~Notification: take the lock, "to make sure that Notify() has exited".
Destroy ==
  \/ /\ MayDestroy /\ Lock(Destroyer)
     /\ Goto(Destroyer, "destroy") /\ UNCHANGED <<notified_yet_, result, alive>>
  \/ /\ pc[Destroyer] = "destroy" /\ Unlock(Destroyer)
     /\ alive' = FALSE
     /\ Goto(Destroyer, "destroyed") /\ UNCHANGED <<notified_yet_, result>>

Steps(t) == LockWhen(t) \/ Release(t)

Next == Notify \/ Destroy \/ \E t \in Waiters : Wait(t) \/ Steps(t)

\* Notify is called and goes on; a deadline need not pass. A lock that is free
\* again and again is granted (Mutex.tla, CallsReturn).
Spec ==
  /\ Init /\ [][Next]_vars /\ SF_vars(Notify)
  /\ \A t \in Waiters : WF_vars(Release(t)) /\ SF_vars(notified_yet_ /\ LockWhen(t))

-----------------------------------------------------------------------------
\* Nobody is in a method of an object that has been destroyed, though a waiter
\* sees the flag before Notify has returned.
NotUsedAfterDestruction == ~alive => \A t \in Waiters : pc[t] \in {"out", "destroyed"}
                                     /\ pc[Notifier] = "done"

\* A call that reports the notification does so after it.
ResultIsTrue == \A t \in Waiters : result[t] = "notified" => notified_yet_

=============================================================================
