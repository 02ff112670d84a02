---------------------------- MODULE SequenceLock ----------------------------
(***************************************************************************)
(* The storage of flag values of several words                             *)
(* (absl/flags/internal/sequence_lock.h). A writer, which holds the flag's *)
(* mutex, makes the counter odd, stores the words and makes it even. A     *)
(* reader takes no mutex: it loads the words between two loads of the      *)
(* counter and, if the counter was odd or has changed, tries once more     *)
(* with the mutex (FlagImpl::ReadSequenceLockedData). The words are        *)
(* accessed with relaxed order between the fences, so in any order here.   *)
(***************************************************************************)
EXTENDS Integers, FiniteSets

CONSTANTS Threads, Words,
          None,
          MaxWrites    \* bound: values written, 1 .. MaxWrites

SequenceLockAssumption == MaxWrites \in Nat /\ None \notin Threads

VARIABLES lock_,     \* the counter
          buffer,    \* of each word: the value it is part of
          mutex,     \* who holds the flag's mutex
          op,        \* of each thread: where it is
          written,   \* how many values have been written
          seen       \* history, of each reader: the values the flag had since it began

vars == <<lock_, buffer, mutex, op, written, seen>>

Idle == [pc |-> "idle"]
Init == /\ lock_ = 0 /\ buffer = [w \in Words |-> 0]
        /\ mutex = None
        /\ op = [t \in Threads |-> Idle]
        /\ written = 0
        /\ seen = [t \in Threads |-> {}]

Odd(n) == n % 2 = 1

-----------------------------------------------------------------------------
(* Write.                                                                  *)

\* From here on readers may be given the new value.
BeginWrite(t) ==
  /\ op[t] = Idle /\ mutex = None /\ written < MaxWrites
  /\ mutex' = t
  /\ lock_' = lock_ + 1
  /\ written' = written + 1
  /\ op' = [op EXCEPT ![t] = [pc |-> "store", left |-> Words]]
  /\ seen' = [r \in Threads |-> seen[r] \cup {written'}]
  /\ UNCHANGED buffer

\* RelaxedCopyToAtomic.
StoreWord(t) ==
  /\ op[t].pc = "store"
  /\ \E w \in op[t].left :
       /\ buffer' = [buffer EXCEPT ![w] = written]
       /\ op' = [op EXCEPT ![t].left = @ \ {w}]
  /\ UNCHANGED <<lock_, mutex, written, seen>>

EndWrite(t) ==
  /\ op[t].pc = "store" /\ op[t].left = {}
  /\ lock_' = lock_ + (IF Odd(lock_) THEN 1 ELSE 2)
  /\ mutex' = None
  /\ op' = [op EXCEPT ![t] = Idle]
  /\ UNCHANGED <<buffer, written, seen>>

-----------------------------------------------------------------------------
(* TryRead and ReadSequenceLockedData.                                     *)

\* What the flag has been since a read began, to which what is written is added later.
BeginRead(t) ==
  /\ op[t] = Idle
  /\ op' = [op EXCEPT ![t] = [pc |-> "before", locked |-> FALSE]]
  /\ seen' = [seen EXCEPT ![t] = {IF Odd(lock_) THEN written - 1 ELSE written, written}]
  /\ UNCHANGED <<lock_, buffer, mutex, written>>

\* A try that fails: the second one is made with the mutex.
Failed(t) == [pc |-> IF op[t].locked THEN "failed" ELSE "lock"]

LoadBefore(t) ==
  /\ op[t].pc = "before"
  /\ op' = [op EXCEPT ![t] = IF Odd(lock_) THEN Failed(t)
                             ELSE [pc |-> "load", locked |-> op[t].locked, seq |-> lock_,
                                   got |-> [w \in {} |-> 0]]]
  /\ UNCHANGED <<lock_, buffer, mutex, written, seen>>

\* RelaxedCopyFromAtomic.
LoadWord(t) ==
  /\ op[t].pc = "load"
  /\ \E w \in Words \ DOMAIN op[t].got :
       op' = [op EXCEPT ![t].got =
                [x \in DOMAIN op[t].got \cup {w} |-> IF x = w THEN buffer[w] ELSE op[t].got[x]]]
  /\ UNCHANGED <<lock_, buffer, mutex, written, seen>>

LoadAfter(t) ==
  /\ op[t].pc = "load" /\ DOMAIN op[t].got = Words
  /\ op' = [op EXCEPT ![t] = IF lock_ = op[t].seq THEN [pc |-> "read", got |-> op[t].got]
                             ELSE Failed(t)]
  /\ mutex' = IF mutex = t THEN None ELSE mutex
  /\ UNCHANGED <<lock_, buffer, written, seen>>

Lock(t) ==
  /\ op[t].pc = "lock" /\ mutex = None
  /\ mutex' = t
  /\ op' = [op EXCEPT ![t] = [pc |-> "before", locked |-> TRUE]]
  /\ UNCHANGED <<lock_, buffer, written, seen>>

\* The value is given to the caller.
Return(t) ==
  /\ op[t].pc = "read"
  /\ op' = [op EXCEPT ![t] = Idle]
  /\ seen' = [seen EXCEPT ![t] = {}]
  /\ UNCHANGED <<lock_, buffer, mutex, written>>

-----------------------------------------------------------------------------
ReadStep(t) == LoadBefore(t) \/ LoadWord(t) \/ LoadAfter(t) \/ Lock(t) \/ Return(t)
WriteStep(t) == StoreWord(t) \/ EndWrite(t)
Next == \E t \in Threads : BeginWrite(t) \/ WriteStep(t) \/ BeginRead(t) \/ ReadStep(t)

Spec == Init /\ [][Next]_vars

-----------------------------------------------------------------------------
\* What a reader gets is one value, that the flag had at some time while it read: no words
\* of two values, and nothing older.
NoTornReads ==
  \A t \in Threads : op[t].pc = "read" =>
    \E v \in seen[t] : \A w \in Words : op[t].got[w] = v

\* "assert(success)": with the mutex a read succeeds.
SecondTrySucceeds == \A t \in Threads : op[t].pc # "failed"
=============================================================================
