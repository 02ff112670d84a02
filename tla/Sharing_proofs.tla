--------------------------- MODULE Sharing_proofs ---------------------------
(***************************************************************************)
(* What holds of Sharing for every value of its constants. Each part has   *)
(* an inductive invariant of its own: one lemma per action of the part     *)
(* that moves, and one for when the part stands still.                     *)
(***************************************************************************)
EXTENDS Sharing, FiniteSetTheorems, TLAPS

(* SequenceLock.                                                           *)

SeqOps ==
  {SequenceLock!Idle} \cup [pc : {"store"}, left : SUBSET Words]
  \cup [pc : {"before"}, locked : BOOLEAN] \cup [pc : {"lock", "failed"}]
  \cup [pc : {"load"}, locked : BOOLEAN, seq : Nat, got : UNION {[S -> Nat] : S \in SUBSET Words}]
  \cup [pc : {"read"}, got : [Words -> Nat]]

SeqTypes ==
  /\ lock_ \in Nat /\ written \in Nat
  /\ buffer \in [Words -> Nat]
  /\ seqOp \in [Threads -> SeqOps]
  /\ seen \in [Threads -> SUBSET Int]

\* A thread is between the lock of the mutex and its release.
SeqLocked(o) ==
  \/ o.pc = "store"
  \/ o.pc \in {"before", "load"} /\ o.locked

\* The mutex is held by the thread that is there.
SeqOwner == \A t \in Threads : mutex = t <=> SeqLocked(seqOp[t])

\* What a writer has not stored yet is of the value before, and the counter is odd. It is
\* even, and the words are of one value, when nobody writes.
SeqWriter ==
  /\ (\A t \in Threads : seqOp[t].pc # "store") =>
       lock_ = 2 * written /\ \A w \in Words : buffer[w] = written
  /\ \A t \in Threads : seqOp[t].pc = "store" =>
       /\ lock_ = 2 * written - 1
       /\ \A w \in Words : buffer[w] = IF w \in seqOp[t].left THEN written - 1 ELSE written

\* A reader has loaded words of one value if the counter has not changed since, and has
\* seen all that the flag is until it returns.
SeqReader ==
  \A t \in Threads :
    /\ seqOp[t].pc \in {"before", "lock", "load"} => written \in seen[t]
    /\ seqOp[t].pc = "load" =>
         /\ seqOp[t].seq <= lock_ /\ seqOp[t].seq % 2 = 0
         /\ seqOp[t].seq = lock_ => \A w \in DOMAIN seqOp[t].got : seqOp[t].got[w] = written
         /\ seqOp[t].locked => seqOp[t].seq = lock_
    /\ seqOp[t].pc = "read" => \E v \in seen[t] : \A w \in Words : seqOp[t].got[w] = v
    /\ seqOp[t].pc # "failed"

SeqInv == SeqTypes /\ SeqOwner /\ SeqWriter /\ SeqReader

LEMMA SeqInit == ASSUME SequenceLock!Init PROVE SeqInv
<1> USE DEF SequenceLock!Init, SequenceLock!Idle
<1>1. \A t \in Threads : seqOp[t] = [pc |-> "idle"]
  OBVIOUS
<1>2. SeqTypes
  BY DEF SeqTypes, SeqOps
<1>3. SeqOwner
  BY <1>1, SharingAssumption DEF SeqOwner, SeqLocked, SequenceLock!SequenceLockAssumption
<1>4. SeqWriter
  BY <1>1 DEF SeqWriter
<1>5. SeqReader
  BY <1>1 DEF SeqReader
<1> QED
  BY <1>2, <1>3, <1>4, <1>5 DEF SeqInv

LEMMA SeqLoad ==
  ASSUME SeqInv, NEW t \in Threads, seqOp[t].pc = "load"
  PROVE  /\ seqOp[t] \in [pc : {"load"}, locked : BOOLEAN, seq : Nat,
                          got : UNION {[S -> Nat] : S \in SUBSET Words}]
         /\ seqOp[t].seq \in Nat /\ seqOp[t].seq <= lock_ /\ seqOp[t].seq % 2 = 0
         /\ seqOp[t].locked \in BOOLEAN /\ DOMAIN seqOp[t].got \subseteq Words
         /\ \A w \in DOMAIN seqOp[t].got : seqOp[t].got[w] \in Nat
<1>1. seqOp[t] \in SeqOps
  BY DEF SeqInv, SeqTypes
<1>2. seqOp[t] \in [pc : {"load"}, locked : BOOLEAN, seq : Nat,
                    got : UNION {[S -> Nat] : S \in SUBSET Words}]
  BY <1>1 DEF SeqOps, SequenceLock!Idle
<1>3. PICK S \in SUBSET Words : seqOp[t].got \in [S -> Nat]
  BY <1>2
<1> QED
  BY <1>2, <1>3 DEF SeqInv, SeqReader

\* Who holds the mutex is alone in it.
LEMMA SeqAlone ==
  ASSUME SeqInv, NEW t \in Threads, NEW s \in Threads, SeqLocked(seqOp[t]), SeqLocked(seqOp[s])
  PROVE  s = t
  BY DEF SeqInv, SeqOwner

LEMMA SeqFree ==
  ASSUME SeqInv, mutex = None
  PROVE  /\ \A t \in Threads : ~SeqLocked(seqOp[t])
         /\ lock_ = 2 * written /\ \A w \in Words : buffer[w] = written
<1>1. \A t \in Threads : mutex # t
  BY SharingAssumption DEF SequenceLock!SequenceLockAssumption
<1>2. \A t \in Threads : ~SeqLocked(seqOp[t])
  BY <1>1 DEF SeqInv, SeqOwner
<1>3. \A t \in Threads : seqOp[t].pc # "store"
  BY <1>2 DEF SeqLocked
<1> QED
  BY <1>2, <1>3 DEF SeqInv, SeqWriter

LEMMA SeqBeginWrite ==
  ASSUME SeqInv, NEW t \in Threads, SequenceLock!BeginWrite(t)
  PROVE  SeqInv'
<1> DEFINE newOp == [pc |-> "store", left |-> Words]
<1>1. /\ seqOp[t] = [pc |-> "idle"] /\ mutex = None
      /\ mutex' = t /\ lock_' = lock_ + 1 /\ written' = written + 1 /\ buffer' = buffer
      /\ seqOp' = [seqOp EXCEPT ![t] = newOp]
      /\ seen' = [r \in Threads |-> seen[r] \cup {written'}]
  BY DEF SequenceLock!BeginWrite, SequenceLock!Idle
<1>2. /\ seqOp[t].pc = "idle" /\ newOp.pc = "store" /\ newOp.left = Words /\ newOp \in SeqOps
  BY <1>1 DEF SeqOps
<1>3. lock_ = 2 * written /\ (\A w \in Words : buffer[w] = written)
      /\ \A s \in Threads : ~SeqLocked(seqOp[s])
  BY <1>1, SeqFree
<1>4. seqOp \in [Threads -> SeqOps] /\ lock_ \in Nat /\ written \in Nat
  BY DEF SeqInv, SeqTypes
<1> HIDE DEF newOp
<1>5. seqOp'[t] = newOp /\ \A s \in Threads \ {t} : seqOp'[s] = seqOp[s]
  BY <1>1, <1>4
<1>6. SeqTypes'
  BY <1>1, <1>2 DEF SeqInv, SeqTypes
<1>7. SeqOwner'
  BY <1>1, <1>2, <1>3, <1>5 DEF SeqOwner, SeqLocked
<1>8. SeqWriter'
  <2>1. lock_' = 2 * written' - 1 /\ written' - 1 = written
    BY <1>1, <1>3, <1>4
  <2>2. \A s \in Threads : seqOp'[s].pc = "store" => s = t
    BY <1>3, <1>5 DEF SeqLocked
  <2>3. \A w \in Words : buffer'[w] = written' - 1
    BY <1>1, <1>3, <2>1
  <2> QED
    BY <1>2, <1>5, <2>1, <2>2, <2>3 DEF SeqWriter
<1>9. SeqReader'
  <2> SUFFICES ASSUME NEW s \in Threads, s # t
               PROVE  /\ seqOp'[s].pc \in {"before", "lock", "load"} => written' \in seen'[s]
                      /\ seqOp'[s].pc = "load" =>
                           /\ seqOp'[s].seq <= lock_' /\ seqOp'[s].seq % 2 = 0
                           /\ seqOp'[s].seq = lock_' =>
                                \A w \in DOMAIN seqOp'[s].got : seqOp'[s].got[w] = written'
                           /\ seqOp'[s].locked => seqOp'[s].seq = lock_'
                      /\ seqOp'[s].pc = "read" =>
                           \E v \in seen'[s] : \A w \in Words : seqOp'[s].got[w] = v
                      /\ seqOp'[s].pc # "failed"
    BY <1>2, <1>5 DEF SeqReader
  <2>1. seqOp'[s] = seqOp[s] /\ seqOp[s] \in SeqOps
    BY <1>4, <1>5
  <2>2. written' \in seen'[s] /\ seen[s] \subseteq seen'[s]
    BY <1>1
  <2>3. seqOp[s].pc = "load" => /\ seqOp[s].seq \in Nat /\ seqOp[s].seq <= lock_
                                /\ seqOp[s].seq % 2 = 0 /\ ~seqOp[s].locked
    BY <1>3, SeqLoad DEF SeqLocked
  <2>4. seqOp[s].pc = "load" => seqOp[s].seq <= lock_' /\ seqOp[s].seq # lock_'
    BY <1>1, <1>4, <2>3
  <2> QED
    BY <2>1, <2>2, <2>3, <2>4 DEF SeqInv, SeqReader
<1> QED
  BY <1>6, <1>7, <1>8, <1>9 DEF SeqInv

LEMMA SeqStoreWord ==
  ASSUME SeqInv, NEW t \in Threads, SequenceLock!StoreWord(t)
  PROVE  SeqInv'
<1>1. seqOp[t].pc = "store" /\ UNCHANGED <<lock_, mutex, written, seen>>
  BY DEF SequenceLock!StoreWord
<1>2. PICK w \in seqOp[t].left : /\ buffer' = [buffer EXCEPT ![w] = written]
                                 /\ seqOp' = [seqOp EXCEPT ![t].left = @ \ {w}]
  BY DEF SequenceLock!StoreWord
<1>3. /\ seqOp \in [Threads -> SeqOps] /\ written \in Nat /\ buffer \in [Words -> Nat]
      /\ seqOp[t] \in [pc : {"store"}, left : SUBSET Words]
  BY <1>1 DEF SeqInv, SeqTypes, SeqOps, SequenceLock!Idle
<1> DEFINE newOp == [seqOp[t] EXCEPT !.left = @ \ {w}]
<1>4. /\ newOp \in SeqOps /\ newOp.pc = "store" /\ newOp.left = seqOp[t].left \ {w} /\ w \in Words
  BY <1>2, <1>3 DEF SeqOps
<1>5. seqOp' = [seqOp EXCEPT ![t] = newOp]
  BY <1>2
<1> HIDE DEF newOp
<1>6. seqOp'[t] = newOp /\ \A s \in Threads \ {t} : seqOp'[s] = seqOp[s]
  BY <1>3, <1>5
<1>7. SeqTypes'
  BY <1>1, <1>2, <1>3, <1>4, <1>5 DEF SeqInv, SeqTypes
<1>8. \A s \in Threads : seqOp'[s].pc = seqOp[s].pc /\ (SeqLocked(seqOp'[s]) <=> SeqLocked(seqOp[s]))
  BY <1>1, <1>4, <1>6 DEF SeqLocked
<1>9. SeqOwner'
  BY <1>1, <1>8 DEF SeqInv, SeqOwner
<1>10. SeqWriter'
  <2>1. \A s \in Threads : seqOp[s].pc = "store" => s = t
    BY <1>1, SeqAlone DEF SeqLocked
  <2>2. /\ lock_ = 2 * written - 1
        /\ \A x \in Words : buffer[x] = IF x \in seqOp[t].left THEN written - 1 ELSE written
    BY <1>1 DEF SeqInv, SeqWriter
  <2>3. \A x \in Words : buffer'[x] = IF x \in newOp.left THEN written - 1 ELSE written
    BY <1>2, <1>3, <1>4, <2>2
  <2> QED
    BY <1>1, <1>6, <1>8, <2>1, <2>2, <2>3 DEF SeqWriter
<1>11. SeqReader'
  BY <1>1, <1>4, <1>6 DEF SeqInv, SeqReader
<1> QED
  BY <1>7, <1>9, <1>10, <1>11 DEF SeqInv

LEMMA SeqEndWrite ==
  ASSUME SeqInv, NEW t \in Threads, SequenceLock!EndWrite(t)
  PROVE  SeqInv'
<1>1. /\ seqOp[t].pc = "store" /\ seqOp[t].left = {}
      /\ mutex' = None /\ UNCHANGED <<buffer, written, seen>>
      /\ seqOp' = [seqOp EXCEPT ![t] = SequenceLock!Idle]
  BY DEF SequenceLock!EndWrite
<1>2. /\ seqOp \in [Threads -> SeqOps] /\ written \in Nat /\ lock_ \in Nat
  BY DEF SeqInv, SeqTypes
<1>3. lock_ = 2 * written - 1 /\ \A w \in Words : buffer[w] = written
  BY <1>1 DEF SeqInv, SeqWriter
<1>4. SequenceLock!Odd(lock_)
  BY <1>2, <1>3 DEF SequenceLock!Odd
<1>5. lock_' = 2 * written
  BY <1>2, <1>3, <1>4 DEF SequenceLock!EndWrite
<1>6. SequenceLock!Idle \in SeqOps /\ SequenceLock!Idle.pc = "idle"
  BY DEF SeqOps, SequenceLock!Idle
<1>7. seqOp'[t] = SequenceLock!Idle /\ \A s \in Threads \ {t} : seqOp'[s] = seqOp[s]
  BY <1>1, <1>2
<1>8. SeqTypes'
  BY <1>1, <1>2, <1>5, <1>6 DEF SeqInv, SeqTypes
<1>9. \A s \in Threads : ~SeqLocked(seqOp'[s])
  BY <1>1, <1>6, <1>7, SeqAlone DEF SeqLocked
<1>10. SeqOwner'
  BY <1>1, <1>9, SharingAssumption DEF SeqOwner, SequenceLock!SequenceLockAssumption
<1>11. SeqWriter'
  BY <1>1, <1>3, <1>5, <1>9 DEF SeqWriter, SeqLocked
<1>12. SeqReader'
  <2>1. \A s \in Threads : seqOp[s].pc = "load" => /\ seqOp[s].seq \in Nat /\ seqOp[s].seq <= lock_
                                                  /\ seqOp[s].seq % 2 = 0
    BY SeqLoad
  <2>2. \A s \in Threads : seqOp[s].pc = "load" => /\ seqOp[s].seq <= lock_' /\ seqOp[s].seq # lock_'
    BY <1>2, <1>3, <1>5, <2>1
  <2>3. \A s \in Threads : seqOp[s].pc = "load" => ~seqOp[s].locked
    BY <1>1, <1>6, <1>7, <1>9 DEF SeqLocked
  <2> QED
    BY <1>1, <1>6, <1>7, <2>1, <2>2, <2>3 DEF SeqInv, SeqReader
<1> QED
  BY <1>8, <1>10, <1>11, <1>12 DEF SeqInv

LEMMA SeqBeginRead ==
  ASSUME SeqInv, NEW t \in Threads, SequenceLock!BeginRead(t)
  PROVE  SeqInv'
<1> DEFINE newOp == [pc |-> "before", locked |-> FALSE]
           had == {IF SequenceLock!Odd(lock_) THEN written - 1 ELSE written, written}
<1>1. /\ seqOp[t] = SequenceLock!Idle /\ UNCHANGED <<lock_, buffer, mutex, written>>
      /\ seqOp' = [seqOp EXCEPT ![t] = newOp] /\ seen' = [seen EXCEPT ![t] = had]
  BY DEF SequenceLock!BeginRead
<1>2. /\ seqOp \in [Threads -> SeqOps] /\ written \in Nat /\ seen \in [Threads -> SUBSET Int]
  BY DEF SeqInv, SeqTypes
<1>3. /\ newOp \in SeqOps /\ newOp.pc = "before" /\ ~newOp.locked
      /\ written \in had /\ had \in SUBSET Int
      /\ seqOp[t].pc = "idle"
  BY <1>1, <1>2 DEF SeqOps, SequenceLock!Idle
<1> HIDE DEF newOp, had
<1>4. /\ seqOp'[t] = newOp /\ seen'[t] = had
      /\ \A s \in Threads \ {t} : seqOp'[s] = seqOp[s] /\ seen'[s] = seen[s]
  BY <1>1, <1>2
<1>5. SeqTypes'
  BY <1>1, <1>2, <1>3 DEF SeqInv, SeqTypes
<1>6. SeqOwner'
  BY <1>1, <1>3, <1>4 DEF SeqInv, SeqOwner, SeqLocked
<1>7. SeqWriter'
  <2>1. \A s \in Threads : /\ seqOp'[s].pc = "store" <=> seqOp[s].pc = "store"
                           /\ seqOp'[s].pc = "store" => seqOp'[s] = seqOp[s]
    BY <1>3, <1>4
  <2> QED
    BY <1>1, <2>1 DEF SeqInv, SeqWriter
<1>8. SeqReader'
  BY <1>1, <1>3, <1>4 DEF SeqInv, SeqReader
<1> QED
  BY <1>5, <1>6, <1>7, <1>8 DEF SeqInv

\* A step of a reader, whose operation becomes newOp, and changes nothing else but the mutex.
LEMMA SeqMoves ==
  ASSUME SeqInv, NEW t \in Threads, NEW newOp \in SeqOps,
         seqOp[t].pc # "store", newOp.pc # "store",
         seqOp' = [seqOp EXCEPT ![t] = newOp], UNCHANGED <<lock_, buffer, written>>,
         seen' \in [Threads -> SUBSET Int], \A s \in Threads \ {t} : seen'[s] = seen[s],
         \/ mutex' = mutex /\ (SeqLocked(newOp) <=> SeqLocked(seqOp[t]))
         \/ mutex = None /\ mutex' = t /\ SeqLocked(newOp)
         \/ mutex = t /\ mutex' = None /\ ~SeqLocked(newOp),
         newOp.pc \in {"before", "lock", "load"} => written \in seen'[t],
         newOp.pc = "load" =>
           /\ newOp.seq <= lock_ /\ newOp.seq % 2 = 0
           /\ newOp.seq = lock_ => \A w \in DOMAIN newOp.got : newOp.got[w] = written
           /\ newOp.locked => newOp.seq = lock_,
         newOp.pc = "read" => \E v \in seen'[t] : \A w \in Words : newOp.got[w] = v,
         newOp.pc # "failed"
  PROVE  SeqInv'
<1>1. seqOp \in [Threads -> SeqOps]
  BY DEF SeqInv, SeqTypes
<1>2. seqOp'[t] = newOp /\ \A s \in Threads \ {t} : seqOp'[s] = seqOp[s]
  BY <1>1
<1>3. SeqTypes'
  BY DEF SeqInv, SeqTypes
<1>4. SeqOwner'
  <2>1. None \notin Threads
    BY SharingAssumption DEF SequenceLock!SequenceLockAssumption
  <2>2. \A s \in Threads : mutex = s <=> SeqLocked(seqOp[s])
    BY DEF SeqInv, SeqOwner
  <2>3. \A s \in Threads \ {t} : SeqLocked(seqOp'[s]) <=> SeqLocked(seqOp[s])
    BY <1>2
  <2>4. \A s \in Threads : mutex' = s <=> SeqLocked(seqOp'[s])
    BY <1>2, <2>1, <2>2, <2>3
  <2> QED
    BY <2>4 DEF SeqOwner
<1>5. SeqWriter'
  <2>1. \A s \in Threads : /\ seqOp'[s].pc = "store" <=> seqOp[s].pc = "store"
                           /\ seqOp'[s].pc = "store" => seqOp'[s] = seqOp[s]
    BY <1>2
  <2> QED
    BY <2>1 DEF SeqInv, SeqWriter
<1>6. SeqReader'
  BY <1>2 DEF SeqInv, SeqReader
<1> QED
  BY <1>3, <1>4, <1>5, <1>6 DEF SeqInv

\* With the mutex there is no writer, and the counter is even.
LEMMA SeqEven ==
  ASSUME SeqInv, NEW t \in Threads, seqOp[t].pc # "store", SeqLocked(seqOp[t])
  PROVE  lock_ = 2 * written
  BY SeqAlone DEF SeqInv, SeqWriter, SeqLocked

LEMMA SeqLoadBefore ==
  ASSUME SeqInv, NEW t \in Threads, SequenceLock!LoadBefore(t)
  PROVE  SeqInv'
<1>1. seqOp[t].pc = "before" /\ UNCHANGED <<lock_, buffer, mutex, written, seen>>
  BY DEF SequenceLock!LoadBefore
<1>2. /\ seqOp[t] \in SeqOps /\ seqOp[t].locked \in BOOLEAN
      /\ lock_ \in Nat /\ written \in Nat /\ seen \in [Threads -> SUBSET Int]
  BY <1>1 DEF SeqInv, SeqTypes, SeqOps, SequenceLock!Idle
<1>3. written \in seen[t]
  BY <1>1 DEF SeqInv, SeqReader
<1>4. SeqLocked(seqOp[t]) <=> seqOp[t].locked
  BY <1>1 DEF SeqLocked
<1>5. CASE SequenceLock!Odd(lock_)
  <2> DEFINE newOp == SequenceLock!Failed(t)
  <2>1. seqOp' = [seqOp EXCEPT ![t] = newOp]
    BY <1>5 DEF SequenceLock!LoadBefore
  <2>2. ~seqOp[t].locked
    BY <1>1, <1>2, <1>4, <1>5, SeqEven DEF SequenceLock!Odd
  <2>3. newOp \in SeqOps /\ newOp.pc = "lock"
    BY <2>2 DEF SequenceLock!Failed, SeqOps
  <2>4. ~SeqLocked(newOp)
    BY <2>3 DEF SeqLocked
  <2> HIDE DEF newOp
  <2> QED
    BY <1>1, <1>2, <1>3, <1>4, <2>1, <2>2, <2>3, <2>4, SeqMoves
<1>6. CASE ~SequenceLock!Odd(lock_)
  <2> DEFINE got == [w \in {} |-> 0]
             newOp == [pc |-> "load", locked |-> seqOp[t].locked, seq |-> lock_, got |-> got]
  <2>1. seqOp' = [seqOp EXCEPT ![t] = newOp]
    BY <1>6 DEF SequenceLock!LoadBefore
  <2>2. lock_ % 2 = 0
    BY <1>2, <1>6 DEF SequenceLock!Odd
  <2>3. got \in UNION {[S -> Nat] : S \in SUBSET Words} /\ DOMAIN got = {}
    OBVIOUS
  <2> HIDE DEF got
  <2>4. /\ newOp.pc = "load" /\ newOp.seq = lock_ /\ newOp.got = got /\ newOp.locked = seqOp[t].locked
        /\ newOp \in SeqOps
    BY <1>2, <2>3 DEF SeqOps
  <2>5. SeqLocked(newOp) <=> SeqLocked(seqOp[t])
    BY <1>1, <2>4 DEF SeqLocked
  <2>6. /\ \A w \in DOMAIN newOp.got : newOp.got[w] = written
        /\ newOp.seq <= lock_ /\ newOp.seq % 2 = 0
    BY <1>2, <2>2, <2>3, <2>4
  <2> HIDE DEF newOp
  <2>7. /\ newOp.pc \in {"before", "lock", "load"} => written \in seen'[t]
        /\ newOp.pc # "store" /\ newOp.pc # "read" /\ newOp.pc # "failed" /\ seqOp[t].pc # "store"
        /\ mutex' = mutex /\ UNCHANGED <<lock_, buffer, written>>
        /\ seen' \in [Threads -> SUBSET Int] /\ \A s \in Threads \ {t} : seen'[s] = seen[s]
    BY <1>1, <1>2, <1>3, <2>4
  <2> QED
    BY <2>1, <2>4, <2>5, <2>6, <2>7, SeqMoves
<1> QED
  BY <1>5, <1>6

LEMMA SeqLoadWord ==
  ASSUME SeqInv, NEW t \in Threads, SequenceLock!LoadWord(t)
  PROVE  SeqInv'
<1>1. seqOp[t].pc = "load" /\ UNCHANGED <<lock_, buffer, mutex, written, seen>>
  BY DEF SequenceLock!LoadWord
<1>2. PICK w \in Words \ DOMAIN seqOp[t].got :
        seqOp' = [seqOp EXCEPT ![t].got =
                    [x \in DOMAIN seqOp[t].got \cup {w} |-> IF x = w THEN buffer[w] ELSE seqOp[t].got[x]]]
  BY DEF SequenceLock!LoadWord
<1> DEFINE got == [x \in DOMAIN seqOp[t].got \cup {w} |->
                     IF x = w THEN buffer[w] ELSE seqOp[t].got[x]]
           newOp == [seqOp[t] EXCEPT !.got = got]
<1>3. /\ seqOp[t] \in [pc : {"load"}, locked : BOOLEAN, seq : Nat,
                       got : UNION {[S -> Nat] : S \in SUBSET Words}]
      /\ seqOp[t].seq \in Nat /\ seqOp[t].seq <= lock_ /\ seqOp[t].seq % 2 = 0
      /\ DOMAIN seqOp[t].got \subseteq Words
      /\ \A x \in DOMAIN seqOp[t].got : seqOp[t].got[x] \in Nat
  BY <1>1, SeqLoad
<1>4. lock_ \in Nat /\ written \in Nat /\ buffer \in [Words -> Nat] /\ seen \in [Threads -> SUBSET Int]
  BY DEF SeqInv, SeqTypes
<1>5. /\ written \in seen[t]
      /\ seqOp[t].seq = lock_ => \A x \in DOMAIN seqOp[t].got : seqOp[t].got[x] = written
      /\ seqOp[t].locked => seqOp[t].seq = lock_
  BY <1>1 DEF SeqInv, SeqReader
<1>6. got \in [DOMAIN seqOp[t].got \cup {w} -> Nat]
  BY <1>3, <1>4
<1>7. got \in UNION {[S -> Nat] : S \in SUBSET Words}
  <2>1. DOMAIN seqOp[t].got \cup {w} \in SUBSET Words
    BY <1>3
  <2> HIDE DEF got
  <2> QED
    BY <1>6, <2>1
<1>8. seqOp[t].seq = lock_ => \A x \in DOMAIN got : got[x] = written
  <2> SUFFICES ASSUME seqOp[t].seq = lock_ PROVE \A x \in DOMAIN got : got[x] = written
    OBVIOUS
  <2>1. \A s \in Threads : seqOp[s].pc # "store"
    <3> SUFFICES ASSUME NEW s \in Threads, seqOp[s].pc = "store" PROVE FALSE
      OBVIOUS
    <3>1. lock_ = 2 * written - 1
      BY DEF SeqInv, SeqWriter
    <3> QED
      BY <1>3, <1>4, <3>1
  <2>2. buffer[w] = written
    BY <2>1 DEF SeqInv, SeqWriter
  <2> QED
    BY <1>5, <2>2
<1> HIDE DEF got
<1>9. seqOp' = [seqOp EXCEPT ![t] = newOp]
  BY <1>2 DEF got
<1>10. /\ newOp \in SeqOps /\ newOp.pc = "load" /\ newOp.locked = seqOp[t].locked
       /\ newOp.seq = seqOp[t].seq /\ newOp.got = got
  BY <1>3, <1>7 DEF SeqOps
<1>11. SeqLocked(newOp) <=> SeqLocked(seqOp[t])
  BY <1>1, <1>10 DEF SeqLocked
<1> HIDE DEF newOp
<1> QED
  BY <1>1, <1>3, <1>4, <1>5, <1>8, <1>9, <1>10, <1>11, SeqMoves

LEMMA SeqLoadAfter ==
  ASSUME SeqInv, NEW t \in Threads, SequenceLock!LoadAfter(t)
  PROVE  SeqInv'
<1>1. /\ seqOp[t].pc = "load" /\ DOMAIN seqOp[t].got = Words
      /\ UNCHANGED <<lock_, buffer, written, seen>>
      /\ mutex' = IF mutex = t THEN None ELSE mutex
  BY DEF SequenceLock!LoadAfter
<1>2. /\ lock_ \in Nat /\ written \in Nat /\ seen \in [Threads -> SUBSET Int]
      /\ mutex = t <=> SeqLocked(seqOp[t])
  BY DEF SeqInv, SeqTypes, SeqOwner
<1>3. /\ written \in seen[t]
      /\ seqOp[t].seq = lock_ => \A w \in Words : seqOp[t].got[w] = written
      /\ seqOp[t].locked => seqOp[t].seq = lock_
  BY <1>1 DEF SeqInv, SeqReader
<1>4. CASE lock_ = seqOp[t].seq
  <2> DEFINE newOp == [pc |-> "read", got |-> seqOp[t].got]
  <2>1. seqOp' = [seqOp EXCEPT ![t] = newOp]
    BY <1>4 DEF SequenceLock!LoadAfter
  <2>2. seqOp[t].got \in [Words -> Nat]
    <3>1. PICK S \in SUBSET Words : seqOp[t].got \in [S -> Nat]
      BY <1>1, SeqLoad
    <3> QED
      BY <1>1, <3>1
  <2>3. newOp \in SeqOps /\ newOp.pc = "read" /\ newOp.got = seqOp[t].got
    BY <2>2 DEF SeqOps
  <2>4. ~SeqLocked(newOp)
    BY <2>3 DEF SeqLocked
  <2>5. \E v \in seen'[t] : \A w \in Words : newOp.got[w] = v
    BY <1>1, <1>3, <1>4, <2>3
  <2> HIDE DEF newOp
  <2> QED
    BY <1>1, <1>2, <2>1, <2>3, <2>4, <2>5, SeqMoves
<1>5. CASE lock_ # seqOp[t].seq
  <2> DEFINE newOp == SequenceLock!Failed(t)
  <2>1. seqOp' = [seqOp EXCEPT ![t] = newOp]
    BY <1>5 DEF SequenceLock!LoadAfter
  <2>2. ~seqOp[t].locked
    BY <1>3, <1>5
  <2>3. newOp \in SeqOps /\ newOp.pc = "lock"
    BY <2>2 DEF SequenceLock!Failed, SeqOps
  <2>4. ~SeqLocked(newOp) /\ ~SeqLocked(seqOp[t])
    BY <1>1, <2>2, <2>3 DEF SeqLocked
  <2> HIDE DEF newOp
  <2> QED
    BY <1>1, <1>2, <1>3, <2>1, <2>3, <2>4, SeqMoves
<1> QED
  BY <1>4, <1>5

LEMMA SeqLock ==
  ASSUME SeqInv, NEW t \in Threads, SequenceLock!Lock(t)
  PROVE  SeqInv'
<1> DEFINE newOp == [pc |-> "before", locked |-> TRUE]
<1>1. /\ seqOp[t].pc = "lock" /\ mutex = None /\ mutex' = t
      /\ seqOp' = [seqOp EXCEPT ![t] = newOp] /\ UNCHANGED <<lock_, buffer, written, seen>>
  BY DEF SequenceLock!Lock
<1>2. written \in seen[t] /\ seen \in [Threads -> SUBSET Int]
  BY <1>1 DEF SeqInv, SeqReader, SeqTypes
<1>3. newOp \in SeqOps /\ newOp.pc = "before" /\ SeqLocked(newOp)
  BY DEF SeqOps, SeqLocked
<1> HIDE DEF newOp
<1> QED
  BY <1>1, <1>2, <1>3, SeqMoves

LEMMA SeqReturn ==
  ASSUME SeqInv, NEW t \in Threads, SequenceLock!Return(t)
  PROVE  SeqInv'
<1> DEFINE newOp == SequenceLock!Idle
<1>1. /\ seqOp[t].pc = "read" /\ seqOp' = [seqOp EXCEPT ![t] = newOp]
      /\ UNCHANGED <<lock_, buffer, mutex, written>> /\ seen' = [seen EXCEPT ![t] = {}]
  BY DEF SequenceLock!Return
<1>2. seen \in [Threads -> SUBSET Int]
  BY DEF SeqInv, SeqTypes
<1>3. /\ seen' \in [Threads -> SUBSET Int]
      /\ \A s \in Threads \ {t} : seen'[s] = seen[s]
  BY <1>1, <1>2
<1>4. newOp \in SeqOps /\ newOp.pc = "idle"
  BY DEF SeqOps, SequenceLock!Idle
<1>5. ~SeqLocked(newOp) /\ ~SeqLocked(seqOp[t])
  BY <1>1, <1>4 DEF SeqLocked
<1> HIDE DEF newOp
<1> QED
  BY <1>1, <1>3, <1>4, <1>5, SeqMoves

LEMMA SeqStep == SeqInv /\ SequenceLock!Next => SeqInv'
  BY SeqBeginWrite, SeqStoreWord, SeqEndWrite, SeqBeginRead, SeqLoadBefore, SeqLoadWord,
     SeqLoadAfter, SeqLock, SeqReturn
  DEF SequenceLock!Next, SequenceLock!WriteStep, SequenceLock!ReadStep

LEMMA SeqStands == ASSUME SeqInv, UNCHANGED sequence PROVE SeqInv'
  BY DEF SeqInv, SeqTypes, SeqOwner, SeqWriter, SeqReader, sequence

LEMMA SeqProperties ==
  ASSUME SeqInv PROVE SequenceLock!NoTornReads /\ SequenceLock!SecondTrySucceeds
  BY DEF SeqInv, SeqReader, SequenceLock!NoTornReads, SequenceLock!SecondTrySucceeds

(* FlagImpl, in each of its units.                                         *)

FlagAfters == [modified : SUBSET BOOLEAN, on_command_line : SUBSET BOOLEAN]

FlagOps(u) ==
  {[pc |-> "idle"]} \cup [pc : {"copying"}, addr : Addresses[u], was : Values]
  \cup [pc : {"callback", "relock"}, after : FlagAfters]

FlagStates ==
  [value : Values, modified : BOOLEAN, isSet : BOOLEAN, on_command_line : BOOLEAN,
   count : Nat, restored : BOOLEAN]

FlagTypes(u) ==
  /\ ptr \in [addr : Addresses[u], candidate : BOOLEAN, read : BOOLEAN]
  /\ mem \in [Addresses[u] -> Values \cup {None}] /\ mem[ptr.addr] # None
  /\ count \in Nat /\ modified_ \in BOOLEAN /\ on_command_line_ \in BOOLEAN
  /\ flagOp \in [Threads -> FlagOps(u)]

FlagRest(u) ==
  /\ default_value \in Values /\ callback_ \in BOOLEAN /\ isSet \in BOOLEAN
  /\ guard \in Threads \cup {None}
  /\ saved \in [Savers[u] -> FlagStates \cup {None}]

\* What is copied is there, and the address that it is copied from is given up before
\* another value is stored.
FlagReads ==
  \A t \in Threads : flagOp[t].pc = "copying" =>
    /\ mem[flagOp[t].addr] = flagOp[t].was
    /\ flagOp[t].addr = ptr.addr => ptr.candidate /\ ptr.read

\* The guard is held for a callback, and one is still to come if the last one has not read
\* the value.
FlagCallbacks(u) ==
  /\ \A t \in Threads : guard = t => flagOp[t].pc = "callback"
  /\ callback_ => u = "callback"
  /\ callback_ /\ observed # mem[ptr.addr] => \E t \in Threads : flagOp[t].pc = "callback"

\* Without callbacks the flags are right at every step.
FlagSaves(u) ==
  u = "savers" =>
    /\ \A t \in Threads : flagOp[t].pc \in {"idle", "copying"}
    /\ modified_ = isSet
    /\ \A s \in Savers[u] : saved[s] # None =>
         /\ saved[s].modified = saved[s].isSet /\ saved[s].count <= count
         /\ saved[s].count = count =>
              /\ mem[ptr.addr] = saved[s].value /\ modified_ = saved[s].modified
              /\ on_command_line_ = saved[s].on_command_line

FlagInv(u) == FlagTypes(u) /\ FlagRest(u) /\ FlagReads /\ FlagCallbacks(u) /\ FlagSaves(u)

LEMMA FlagInit == ASSUME NEW u \in Flags, Flag(u)!Init PROVE FlagInv(u)
<1> DEFINE a == CHOOSE b \in Addresses[u] : TRUE
<1>1. Default \in Values /\ None \notin Values /\ None \notin Threads /\ Addresses[u] # {}
  BY SharingAssumption DEF Flag!FlagImplAssumption
<1>2. a \in Addresses[u]
  BY <1>1
<1>3. /\ ptr = [addr |-> a, candidate |-> u = "callback", read |-> FALSE]
      /\ mem = [b \in Addresses[u] |-> IF b = a THEN Default ELSE None]
      /\ default_value = Default /\ modified_ = FALSE /\ on_command_line_ = FALSE
      /\ count = 0 /\ callback_ = FALSE /\ guard = None
      /\ saved = [s \in Savers[u] |-> None]
      /\ flagOp = [t \in Threads |-> [pc |-> "idle"]] /\ isSet = FALSE
  BY DEF Flag!Init, Flag!Idle
<1> HIDE DEF a
<1>4. \A t \in Threads : flagOp[t].pc = "idle"
  BY <1>3
<1>5. FlagTypes(u)
  BY <1>1, <1>2, <1>3 DEF FlagTypes, FlagOps
<1>6. FlagRest(u)
  BY <1>1, <1>3 DEF FlagRest
<1>7. FlagReads /\ FlagCallbacks(u)
  BY <1>1, <1>3, <1>4 DEF FlagReads, FlagCallbacks
<1>8. FlagSaves(u)
  BY <1>3, <1>4 DEF FlagSaves
<1> QED
  BY <1>5, <1>6, <1>7, <1>8 DEF FlagInv

\* A value is stored where no copy is made.
LEMMA FlagStored ==
  ASSUME NEW u \in Flags, FlagTypes(u), FlagReads, NEW v \in Values, NEW source, Flag(u)!Stored(v, source)
  PROVE  /\ ptr' \in [addr : Addresses[u], candidate : BOOLEAN, read : BOOLEAN]
         /\ mem' \in [Addresses[u] -> Values \cup {None}]
         /\ mem'[ptr'.addr] = v
         /\ \A t \in Threads : flagOp[t].pc = "copying" =>
              /\ mem'[flagOp[t].addr] = flagOp[t].was
              /\ flagOp[t].addr = ptr'.addr => ptr'.candidate /\ ptr'.read
<1>1. /\ ptr \in [addr : Addresses[u], candidate : BOOLEAN, read : BOOLEAN]
      /\ mem \in [Addresses[u] -> Values \cup {None}]
      /\ flagOp \in [Threads -> FlagOps(u)]
  BY DEF FlagTypes
<1>2. \A t \in Threads : flagOp[t].pc = "copying" =>
        /\ flagOp[t].addr \in Addresses[u] /\ flagOp[t].was \in Values
        /\ mem[flagOp[t].addr] = flagOp[t].was
        /\ flagOp[t].addr = ptr.addr => ptr.candidate /\ ptr.read
  BY <1>1 DEF FlagReads, FlagOps, Flag!Idle
<1>3. None \notin Values
  BY SharingAssumption DEF Flag!FlagImplAssumption
<1> DEFINE candidate == (u = "callback") /\ source = "command line"
<1>4. CASE ptr.candidate /\ ptr.read
  <2> DEFINE a == CHOOSE b \in Addresses[u] : mem[b] = None
  <2>1. /\ ptr' = [addr |-> a, candidate |-> candidate, read |-> FALSE]
        /\ mem' = [mem EXCEPT ![a] = v]
    BY <1>4 DEF Flag!Stored, Flag!AllowsUnprotectedRead
  <2>2. \E b \in Addresses[u] : mem[b] = None
    BY <1>4 DEF Flag!Stored, Flag!AllowsUnprotectedRead
  <2>3. a \in Addresses[u] /\ mem[a] = None
    BY <2>2
  <2> HIDE DEF a
  <2>4. \A t \in Threads : flagOp[t].pc = "copying" => flagOp[t].addr # a
    BY <1>2, <1>3, <2>3
  <2>5. candidate \in BOOLEAN
    OBVIOUS
  <2> HIDE DEF candidate
  <2> QED
    BY <1>1, <1>2, <2>1, <2>3, <2>4, <2>5
<1>5. CASE ~(ptr.candidate /\ ptr.read)
  <2>1. /\ ptr' = [ptr EXCEPT !.candidate = @ \/ candidate]
        /\ mem' = [mem EXCEPT ![ptr.addr] = v]
    BY <1>5 DEF Flag!Stored, Flag!AllowsUnprotectedRead
  <2>2. ptr'.addr = ptr.addr
    BY <1>1, <2>1
  <2>3. \A t \in Threads : flagOp[t].pc = "copying" => flagOp[t].addr # ptr.addr
    BY <1>2, <1>5
  <2> QED
    BY <1>1, <1>2, <2>1, <2>2, <2>3
<1> QED
  BY <1>4, <1>5

LEMMA FlagUpdated ==
  ASSUME NEW u \in Flags, NEW old \in BOOLEAN
  PROVE  /\ \A set : Flag(u)!Updated(set, old) \in BOOLEAN
         /\ \A x \in BOOLEAN : Flag(u)!Updated({x}, old) = x
         /\ Flag(u)!Updated({}, old) = old
<1>1. \A set : (TRUE \in set) \in BOOLEAN
  BY SMT
<1>2. ASSUME NEW set PROVE Flag(u)!Updated(set, old) \in BOOLEAN
  <2>1. CASE set = {}
    BY <2>1 DEF Flag!Updated
  <2>2. CASE set # {}
    BY <2>2, <1>1, Zenon DEF Flag!Updated
  <2> QED
    BY <2>1, <2>2
<1>3. ASSUME NEW x \in BOOLEAN PROVE Flag(u)!Updated({x}, old) = x
  <2>1. {x} # {}
    OBVIOUS
  <2>2. Flag(u)!Updated({x}, old) = (TRUE \in {x})
    BY <2>1, Zenon DEF Flag!Updated
  <2>3. x = TRUE \/ x = FALSE
    OBVIOUS
  <2>4. (TRUE \in {x}) = x
    <3>1. CASE x = TRUE
      BY <3>1
    <3>2. CASE x = FALSE
      <4>1. TRUE \notin {FALSE}
        OBVIOUS
      <4>2. (TRUE \in {FALSE}) = FALSE
        BY ONLY <4>1
      <4> QED
        BY <4>2, <3>2, Zenon
    <3> QED
      BY <2>3, <3>1, <3>2
  <2> QED
    BY <2>2, <2>4, Zenon
<1>4. Flag(u)!Updated({}, old) = old
  BY DEF Flag!Updated
<1> QED
  BY <1>2, <1>3, <1>4

LEMMA FlagStoreValue ==
  ASSUME NEW u \in Flags, FlagInv(u), NEW t \in Threads, NEW v \in Values, NEW source,
         NEW after \in FlagAfters, flagOp[t] = Flag(u)!Idle, Flag(u)!StoreValue(t, v, source, after),
         callback_' = callback_, guard' = guard, observed' = observed
  PROVE  /\ FlagTypes(u)' /\ FlagReads' /\ FlagCallbacks(u)'
         /\ mem'[ptr'.addr] = v /\ count' = count + 1
         /\ u = "savers" =>
              /\ flagOp' = flagOp /\ modified_' = Flag(u)!Updated(after.modified, TRUE)
              /\ on_command_line_' = Flag(u)!Updated(after.on_command_line, on_command_line_)
<1>1. FlagTypes(u) /\ FlagReads /\ FlagCallbacks(u) /\ callback_ \in BOOLEAN /\ None \notin Threads
      /\ None \notin Values
  BY SharingAssumption DEF FlagInv, FlagRest, Flag!FlagImplAssumption
<1>2. Flag(u)!Stored(v, source) /\ count' = count + 1 /\ Flag(u)!InvokeCallback(t, TRUE, after)
  BY DEF Flag!StoreValue
<1>3. /\ ptr' \in [addr : Addresses[u], candidate : BOOLEAN, read : BOOLEAN]
      /\ mem' \in [Addresses[u] -> Values \cup {None}]
      /\ mem'[ptr'.addr] = v
      /\ \A r \in Threads : flagOp[r].pc = "copying" =>
           /\ mem'[flagOp[r].addr] = flagOp[r].was
           /\ flagOp[r].addr = ptr'.addr => ptr'.candidate /\ ptr'.read
  BY <1>1, <1>2, FlagStored
<1>4. /\ flagOp \in [Threads -> FlagOps(u)] /\ count \in Nat /\ modified_ \in BOOLEAN
      /\ on_command_line_ \in BOOLEAN /\ flagOp[t].pc = "idle"
  BY <1>1 DEF FlagTypes, Flag!Idle
<1> DEFINE c == [pc |-> "callback", after |-> after]
<1>5. c \in FlagOps(u) /\ c.pc = "callback"
  BY DEF FlagOps
<1> HIDE DEF c
<1>6. CASE callback_
  <2>1. /\ flagOp' = [flagOp EXCEPT ![t] = c] /\ modified_' = TRUE
        /\ on_command_line_' = on_command_line_
    BY <1>2, <1>6 DEF Flag!InvokeCallback, c
  <2>2. /\ flagOp' \in [Threads -> FlagOps(u)] /\ flagOp'[t].pc = "callback"
        /\ \A r \in Threads : r # t => flagOp'[r] = flagOp[r]
    BY <1>4, <1>5, <2>1
  <2>3. FlagTypes(u)'
    BY <1>1, <1>2, <1>3, <1>4, <2>1, <2>2 DEF FlagTypes
  <2>4. FlagReads'
    BY <1>3, <2>2 DEF FlagReads
  <2>5. FlagCallbacks(u)'
    BY <1>1, <1>4, <2>2 DEF FlagCallbacks
  <2>6. u # "savers"
    BY <1>1, <1>6 DEF FlagCallbacks
  <2> QED
    BY <1>2, <1>3, <2>3, <2>4, <2>5, <2>6
<1>7. CASE ~callback_
  <2>1. /\ flagOp' = flagOp /\ modified_' = Flag(u)!Updated(after.modified, TRUE)
        /\ on_command_line_' = Flag(u)!Updated(after.on_command_line, on_command_line_)
    BY <1>2, <1>7 DEF Flag!InvokeCallback
  <2>2. modified_' \in BOOLEAN /\ on_command_line_' \in BOOLEAN
    BY <1>4, <2>1, FlagUpdated, Zenon
  <2>3. FlagTypes(u)'
    <3>1. flagOp' \in [Threads -> FlagOps(u)] /\ count' \in Nat /\ mem'[ptr'.addr] # None
      BY <1>1, <1>2, <1>3, <1>4, <2>1
    <3> QED
      BY <3>1, <1>3, <2>2, Zenon DEF FlagTypes
  <2>4. FlagReads'
    BY <1>3, <2>1 DEF FlagReads
  <2>5. FlagCallbacks(u)'
    BY <1>1, <1>7, <2>1 DEF FlagCallbacks
  <2> QED
    BY <1>2, <1>3, <2>1, <2>3, <2>4, <2>5
<1> QED
  BY <1>1, <1>6, <1>7

\* Savers keep what they had saved; the flag has been changed since.
LEMMA FlagChanged ==
  ASSUME NEW u \in Flags, FlagInv(u), NEW t \in Threads, NEW v \in Values, NEW source,
         NEW after \in FlagAfters, flagOp[t] = Flag(u)!Idle, Flag(u)!StoreValue(t, v, source, after),
         callback_' = callback_, guard' = guard, observed' = observed, saved' = saved,
         default_value' \in Values, isSet' \in BOOLEAN,
         u = "savers" => isSet' = Flag(u)!Updated(after.modified, TRUE)
  PROVE  FlagInv(u)'
<1>1. /\ FlagTypes(u)' /\ FlagReads' /\ FlagCallbacks(u)'
      /\ mem'[ptr'.addr] = v /\ count' = count + 1
      /\ u = "savers" => flagOp' = flagOp /\ modified_' = Flag(u)!Updated(after.modified, TRUE)
  BY FlagStoreValue
<1>2. FlagRest(u)'
  BY DEF FlagInv, FlagRest
<1>3. /\ count \in Nat /\ FlagSaves(u)
      /\ \A s \in Savers[u] : saved[s] # None => saved[s].count \in Nat
  BY DEF FlagInv, FlagTypes, FlagRest, FlagStates
<1>4. ASSUME u = "savers" PROVE FlagSaves(u)'
  <2>1. /\ \A r \in Threads : flagOp'[r].pc \in {"idle", "copying"}
        /\ \A s \in Savers[u] : saved'[s] # None =>
             saved'[s].modified = saved'[s].isSet /\ saved'[s].count < count'
    BY <1>1, <1>3, <1>4 DEF FlagSaves
  <2>2. modified_' = isSet'
    BY <1>1, <1>4, Zenon
  <2>3. \A s \in Savers[u] : saved'[s] # None => saved'[s].count \in Nat
    BY <1>3
  <2> HIDE <1>4
  <2>4. count' \in Nat
    BY <1>1 DEF FlagTypes
  <2>5. \A s \in Savers[u] : saved'[s] # None =>
          saved'[s].count <= count' /\ saved'[s].count # count'
    BY <2>1, <2>3, <2>4
  <2> QED
    BY ONLY <2>1, <2>2, <2>5 DEF FlagSaves
<1>5. FlagSaves(u)'
  BY <1>4 DEF FlagSaves
<1> QED
  BY <1>1, <1>2, <1>5 DEF FlagInv

LEMMA FlagWrite ==
  ASSUME NEW u \in Flags, FlagInv(u), NEW t \in Threads, NEW v \in Values, Flag(u)!Write(t, v)
  PROVE  FlagInv(u)'
<1> DEFINE after == Flag(u)!After({}, {})
<1>1. after \in FlagAfters /\ Flag(u)!Updated(after.modified, TRUE) = TRUE
  BY DEF FlagAfters, Flag!After, Flag!Updated
<1>2. Flag(u)!StoreValue(t, v, "program", after) /\ flagOp[t] = Flag(u)!Idle
  BY DEF Flag!Write
<1>3. /\ callback_' = callback_ /\ guard' = guard /\ observed' = observed /\ saved' = saved
      /\ default_value' = default_value /\ isSet' = TRUE
  BY DEF Flag!Write
<1>4. default_value' \in Values
  BY <1>3 DEF FlagInv, FlagRest
<1> HIDE DEF after
<1> QED
  BY <1>1, <1>2, <1>3, <1>4, FlagChanged

LEMMA FlagParseValue ==
  ASSUME NEW u \in Flags, FlagInv(u), NEW t \in Threads, NEW v \in Values, NEW source,
         Flag(u)!ParseValue(t, v, source)
  PROVE  FlagInv(u)'
<1> DEFINE after == Flag(u)!After({}, IF source = "command line" THEN {TRUE} ELSE {})
<1>1. after \in FlagAfters /\ Flag(u)!Updated(after.modified, TRUE) = TRUE
  BY DEF FlagAfters, Flag!After, Flag!Updated
<1>2. Flag(u)!StoreValue(t, v, source, after) /\ flagOp[t] = Flag(u)!Idle
  BY DEF Flag!ParseValue
<1>3. /\ callback_' = callback_ /\ guard' = guard /\ observed' = observed /\ saved' = saved
      /\ default_value' = default_value /\ isSet' = TRUE
  BY DEF Flag!ParseValue
<1>4. default_value' \in Values
  BY <1>3 DEF FlagInv, FlagRest
<1> HIDE DEF after
<1> QED
  BY <1>1, <1>2, <1>3, <1>4, FlagChanged

LEMMA FlagParseIfDefault ==
  ASSUME NEW u \in Flags, FlagInv(u), NEW t \in Threads, NEW v \in Values, NEW source,
         Flag(u)!ParseIfDefault(t, v, source)
  PROVE  FlagInv(u)'
<1> DEFINE after == Flag(u)!After({}, {})
<1>1. after \in FlagAfters /\ Flag(u)!Updated(after.modified, TRUE) = TRUE
  BY DEF FlagAfters, Flag!After, Flag!Updated
<1>2. Flag(u)!StoreValue(t, v, source, after) /\ flagOp[t] = Flag(u)!Idle
  BY DEF Flag!ParseIfDefault
<1>3. /\ callback_' = callback_ /\ guard' = guard /\ observed' = observed /\ saved' = saved
      /\ default_value' = default_value /\ isSet' = TRUE
  BY DEF Flag!ParseIfDefault
<1>4. default_value' \in Values
  BY <1>3 DEF FlagInv, FlagRest
<1> HIDE DEF after
<1> QED
  BY <1>1, <1>2, <1>3, <1>4, FlagChanged

LEMMA FlagParseDefault ==
  ASSUME NEW u \in Flags, FlagInv(u), NEW t \in Threads, NEW v \in Values, NEW source,
         Flag(u)!ParseDefault(t, v, source)
  PROVE  FlagInv(u)'
<1>1. /\ callback_' = callback_ /\ guard' = guard /\ observed' = observed /\ saved' = saved
      /\ default_value' = v /\ isSet' = isSet /\ flagOp[t] = Flag(u)!Idle
  BY DEF Flag!ParseDefault
<1>2. isSet \in BOOLEAN /\ modified_ \in BOOLEAN /\ (u = "savers" => modified_ = isSet)
  BY DEF FlagInv, FlagTypes, FlagRest, FlagSaves
<1>3. CASE modified_
  <2>1. UNCHANGED <<ptr, mem, count, modified_, on_command_line_, flagOp>>
    BY <1>3 DEF Flag!ParseDefault
  <2> QED
    BY <1>1, <2>1 DEF FlagInv, FlagTypes, FlagRest, FlagReads, FlagCallbacks, FlagSaves
<1>4. CASE ~modified_
  <2> DEFINE after == Flag(u)!After({FALSE}, {})
  <2>1. after \in FlagAfters /\ after.modified = {FALSE}
    BY DEF FlagAfters, Flag!After
  <2>4. Flag(u)!Updated(after.modified, TRUE) = FALSE
    BY <2>1, FlagUpdated, Zenon
  <2>2. Flag(u)!StoreValue(t, v, source, after)
    BY <1>4 DEF Flag!ParseDefault
  <2> HIDE DEF after
  <2>3. u = "savers" => isSet' = FALSE
    BY <1>1, <1>2, <1>4
  <2> QED
    BY <1>1, <1>2, <2>1, <2>2, <2>3, <2>4, FlagChanged
<1> QED
  BY <1>2, <1>3, <1>4

LEMMA FlagRestoreState ==
  ASSUME NEW u \in Flags, FlagInv(u), NEW t \in Threads, NEW s \in Savers[u], Flag(u)!RestoreState(t, s)
  PROVE  FlagInv(u)'
<1>1. /\ guard' = guard /\ observed' = observed /\ saved[s] # None /\ flagOp[t] = Flag(u)!Idle
      /\ saved' = [saved EXCEPT ![s].count = count', ![s].restored = TRUE]
  BY DEF Flag!RestoreState
<1>2. /\ saved \in [Savers[u] -> FlagStates \cup {None}] /\ saved[s] \in FlagStates
      /\ count \in Nat
  BY <1>1 DEF FlagInv, FlagTypes, FlagRest
<1> DEFINE state == [saved[s] EXCEPT !.count = count', !.restored = TRUE]
<1>3. saved' = [saved EXCEPT ![s] = state]
  BY <1>1, <1>2
<1>4. count' \in Nat => /\ state \in FlagStates
                        /\ state.count = count' /\ state.value = saved[s].value
                        /\ state.modified = saved[s].modified /\ state.isSet = saved[s].isSet
                        /\ state.on_command_line = saved[s].on_command_line
  BY <1>2 DEF FlagStates
<1> HIDE DEF state
<1>5. CASE saved[s].count = count
  <2>1. /\ UNCHANGED <<ptr, mem, default_value, modified_, on_command_line_, callback_, isSet,
                      count, flagOp>>
    BY <1>5 DEF Flag!RestoreState, Flag!data
  <2>2. FlagTypes(u)' /\ FlagReads' /\ FlagCallbacks(u)'
    BY <1>1, <2>1 DEF FlagInv, FlagTypes, FlagReads, FlagCallbacks
  <2>3. saved' \in [Savers[u] -> FlagStates \cup {None}]
    BY <1>2, <1>3, <1>4, <2>1
  <2>4. FlagRest(u)'
    BY <1>1, <2>1, <2>3 DEF FlagInv, FlagRest
  <2>5. FlagSaves(u)'
    BY <1>1, <1>2, <1>3, <1>4, <1>5, <2>1 DEF FlagInv, FlagSaves
  <2> QED
    BY <2>2, <2>4, <2>5 DEF FlagInv
<1>6. CASE saved[s].count # count
  <2> DEFINE after == Flag(u)!After({saved[s].modified}, {saved[s].on_command_line})
             v == saved[s].value
  <2>1. v \in Values /\ saved[s].modified \in BOOLEAN /\ saved[s].on_command_line \in BOOLEAN
        /\ saved[s].isSet \in BOOLEAN
    BY <1>2 DEF FlagStates
  <2>2. /\ after \in FlagAfters /\ Flag(u)!Updated(after.modified, TRUE) = saved[s].modified
        /\ Flag(u)!Updated(after.on_command_line, on_command_line_) = saved[s].on_command_line
    <3>1. /\ after \in FlagAfters /\ after.modified = {saved[s].modified}
          /\ after.on_command_line = {saved[s].on_command_line}
      BY <2>1 DEF FlagAfters, Flag!After
    <3>2. on_command_line_ \in BOOLEAN
      BY DEF FlagInv, FlagTypes
    <3> HIDE DEF after
    <3>3. Flag(u)!Updated(after.modified, TRUE) = saved[s].modified
      BY <2>1, <3>1, FlagUpdated, Zenon
    <3>4. Flag(u)!Updated(after.on_command_line, on_command_line_) = saved[s].on_command_line
      BY <2>1, <3>1, <3>2, FlagUpdated, Zenon
    <3> QED
      BY <3>1, <3>3, <3>4
  <2>3. /\ Flag(u)!StoreValue(t, v, "program", after)
        /\ isSet' = saved[s].isSet /\ default_value' = default_value /\ callback_' = callback_
    BY <1>6 DEF Flag!RestoreState
  <2> HIDE DEF after, v
  <2>4. /\ FlagTypes(u)' /\ FlagReads' /\ FlagCallbacks(u)'
        /\ mem'[ptr'.addr] = v /\ count' = count + 1
        /\ u = "savers" => /\ flagOp' = flagOp /\ modified_' = saved[s].modified
                           /\ on_command_line_' = saved[s].on_command_line
    BY <1>1, <2>1, <2>2, <2>3, FlagStoreValue
  <2>5. saved' \in [Savers[u] -> FlagStates \cup {None}] /\ saved'[s] = state
        /\ \A r \in Savers[u] : r # s => saved'[r] = saved[r]
    BY <1>2, <1>3, <1>4, <2>4
  <2>6. FlagRest(u)'
    BY <1>1, <2>1, <2>3, <2>5 DEF FlagInv, FlagRest
  <2>7. \A r \in Savers[u] : saved[r] # None => saved[r].count \in Nat
    BY <1>2 DEF FlagStates
  <2>8. ASSUME u = "savers" PROVE FlagSaves(u)'
    <3>1. /\ \A r \in Threads : flagOp[r].pc \in {"idle", "copying"}
          /\ \A r \in Savers[u] : saved[r] # None =>
               saved[r].modified = saved[r].isSet /\ saved[r].count <= count
      BY <2>8 DEF FlagInv, FlagSaves
    <3>2. v = saved[s].value
      BY DEF v
    <3>3. ASSUME NEW r \in Savers[u], saved'[r] # None
          PROVE  /\ saved'[r].modified = saved'[r].isSet /\ saved'[r].count <= count'
                 /\ saved'[r].count = count' =>
                      /\ mem'[ptr'.addr] = saved'[r].value /\ modified_' = saved'[r].modified
                      /\ on_command_line_' = saved'[r].on_command_line
      <4>1. CASE r = s
        BY <1>1, <1>2, <1>4, <2>4, <2>5, <2>8, <3>1, <3>2, <4>1
      <4>2. CASE r # s
        BY <1>2, <2>4, <2>5, <2>7, <3>1, <3>3, <4>2
      <4> QED
        BY <4>1, <4>2
    <3>4. modified_' = isSet'
      BY <1>1, <2>3, <2>4, <2>8, <3>1
    <3> QED
      BY <2>4, <2>8, <3>1, <3>3, <3>4 DEF FlagSaves
  <2>9. FlagSaves(u)'
    BY <2>8 DEF FlagSaves
  <2> QED
    BY <2>4, <2>6, <2>9 DEF FlagInv
<1> QED
  BY <1>5, <1>6

\* Reading marks the address, which stays.
LEMMA FlagMarked ==
  ASSUME NEW u \in Flags, FlagInv(u), ptr' = Flag(u)!MarkedAsRead
  PROVE  /\ ptr' \in [addr : Addresses[u], candidate : BOOLEAN, read : BOOLEAN]
         /\ ptr'.addr = ptr.addr
         /\ ptr.candidate /\ ptr.read => ptr'.candidate /\ ptr'.read
<1>1. ptr \in [addr : Addresses[u], candidate : BOOLEAN, read : BOOLEAN]
  BY DEF FlagInv, FlagTypes
<1>2. ptr' = [ptr EXCEPT !.read = ptr.candidate \/ ptr.read]
  BY <1>1 DEF Flag!MarkedAsRead
<1>3. (ptr.candidate \/ ptr.read) \in BOOLEAN
  BY <1>1
<1> QED
  BY <1>1, <1>2, <1>3

LEMMA FlagRead ==
  ASSUME NEW u \in Flags, FlagInv(u), NEW t \in Threads, Flag(u)!Read(t)
  PROVE  FlagInv(u)'
<1>1. /\ ptr' = Flag(u)!MarkedAsRead
      /\ UNCHANGED <<mem, default_value, modified_, on_command_line_, callback_, isSet, count, guard,
                    saved, flagOp, observed>>
  BY DEF Flag!Read, Flag!data
<1>2. /\ ptr' \in [addr : Addresses[u], candidate : BOOLEAN, read : BOOLEAN]
      /\ ptr'.addr = ptr.addr
      /\ ptr.candidate /\ ptr.read => ptr'.candidate /\ ptr'.read
  BY <1>1, FlagMarked
<1>3. FlagTypes(u)'
  BY <1>1, <1>2 DEF FlagInv, FlagTypes
<1>4. FlagRest(u)' /\ FlagCallbacks(u)' /\ FlagSaves(u)'
  BY <1>1, <1>2 DEF FlagInv, FlagRest, FlagCallbacks, FlagSaves
<1>5. FlagReads'
  BY <1>1, <1>2 DEF FlagInv, FlagReads
<1> QED
  BY <1>3, <1>4, <1>5 DEF FlagInv

\* A thread goes on; the flag stays as it is.
LEMMA FlagGoesOn ==
  ASSUME NEW u \in Flags, FlagInv(u), NEW t \in Threads, NEW op \in FlagOps(u),
         flagOp' = [flagOp EXCEPT ![t] = op],
         op.pc = "copying" => /\ mem[op.addr] = op.was /\ op.addr = ptr.addr
                              /\ ptr.candidate /\ ptr.read,
         flagOp[t].pc # "callback",
         u = "savers" => op.pc \in {"idle", "copying"},
         UNCHANGED <<ptr, mem, default_value, callback_, isSet, count, guard, saved, observed>>,
         modified_' \in BOOLEAN, on_command_line_' \in BOOLEAN,
         u = "savers" => UNCHANGED <<modified_, on_command_line_>>
  PROVE  FlagInv(u)'
<1>1. /\ flagOp \in [Threads -> FlagOps(u)] /\ flagOp' \in [Threads -> FlagOps(u)]
      /\ flagOp'[t] = op /\ \A r \in Threads : r # t => flagOp'[r] = flagOp[r]
  BY DEF FlagInv, FlagTypes
<1>2. FlagTypes(u)'
  BY <1>1 DEF FlagInv, FlagTypes
<1>3. FlagRest(u)'
  BY DEF FlagInv, FlagRest
<1>4. FlagReads'
  BY <1>1 DEF FlagInv, FlagReads
<1>5. FlagCallbacks(u)'
  BY <1>1 DEF FlagInv, FlagCallbacks
<1>6. ASSUME u = "savers" PROVE FlagSaves(u)'
  BY <1>1, <1>6 DEF FlagInv, FlagSaves
<1>7. FlagSaves(u)'
  BY <1>6 DEF FlagSaves
<1> QED
  BY <1>2, <1>3, <1>4, <1>5, <1>7 DEF FlagInv

LEMMA FlagGet ==
  ASSUME NEW u \in Flags, FlagInv(u), NEW t \in Threads, Flag(u)!GetUnprotected(t) \/ Flag(u)!EndGet(t)
  PROVE  FlagInv(u)'
<1>1. /\ UNCHANGED <<ptr, mem, default_value, modified_, on_command_line_, callback_, isSet, count,
                    guard, saved, observed>>
      /\ modified_ \in BOOLEAN /\ on_command_line_ \in BOOLEAN
  BY DEF Flag!GetUnprotected, Flag!EndGet, Flag!data, FlagInv, FlagTypes
<1>2. CASE Flag(u)!GetUnprotected(t)
  <2> DEFINE op == [pc |-> "copying", addr |-> ptr.addr, was |-> mem[ptr.addr]]
  <2>1. /\ flagOp' = [flagOp EXCEPT ![t] = op] /\ ptr.candidate /\ ptr.read
        /\ flagOp[t].pc = "idle"
    BY <1>2 DEF Flag!GetUnprotected, Flag!Value, Flag!Idle, Flag!AllowsUnprotectedRead
  <2>2. ptr.addr \in Addresses[u] /\ mem[ptr.addr] \in Values
    BY DEF FlagInv, FlagTypes
  <2>3. op \in FlagOps(u) /\ op.pc = "copying" /\ op.addr = ptr.addr /\ op.was = mem[ptr.addr]
    BY <2>2 DEF FlagOps
  <2> HIDE DEF op
  <2> QED
    BY <1>1, <2>1, <2>3, FlagGoesOn
<1>3. CASE Flag(u)!EndGet(t)
  <2> DEFINE op == [pc |-> "idle"]
  <2>1. flagOp' = [flagOp EXCEPT ![t] = op] /\ flagOp[t].pc = "copying"
    BY <1>3 DEF Flag!EndGet, Flag!Idle
  <2>2. op \in FlagOps(u) /\ op.pc = "idle"
    BY DEF FlagOps
  <2> HIDE DEF op
  <2> QED
    BY <1>1, <2>1, <2>2, FlagGoesOn
<1> QED
  BY <1>2, <1>3

LEMMA FlagRelock ==
  ASSUME NEW u \in Flags, FlagInv(u), NEW t \in Threads, Flag(u)!Relock(t)
  PROVE  FlagInv(u)'
<1> DEFINE op == [pc |-> "idle"]
<1>1. /\ flagOp[t].pc = "relock" /\ flagOp' = [flagOp EXCEPT ![t] = op]
      /\ modified_' = Flag(u)!Updated(flagOp[t].after.modified, modified_)
      /\ on_command_line_' = Flag(u)!Updated(flagOp[t].after.on_command_line, on_command_line_)
      /\ UNCHANGED <<ptr, mem, default_value, callback_, isSet, count, guard, saved, observed>>
  BY DEF Flag!Relock, Flag!Idle
<1>2. op \in FlagOps(u) /\ op.pc = "idle"
  BY DEF FlagOps
<1>3. modified_ \in BOOLEAN /\ on_command_line_ \in BOOLEAN
  BY DEF FlagInv, FlagTypes
<1>4. modified_' \in BOOLEAN /\ on_command_line_' \in BOOLEAN
  BY <1>1, <1>3, FlagUpdated, Zenon
<1>5. u # "savers"
  BY <1>1 DEF FlagInv, FlagSaves
<1> HIDE DEF op
<1> QED
  BY <1>1, <1>2, <1>4, <1>5, FlagGoesOn

LEMMA FlagSetCallback ==
  ASSUME NEW u \in Flags, FlagInv(u), NEW t \in Threads, Flag(u)!SetCallback(t)
  PROVE  FlagInv(u)'
<1> DEFINE op == [pc |-> "callback", after |-> Flag(u)!After({}, {})]
<1>1. /\ flagOp[t].pc = "idle" /\ u = "callback" /\ callback_' = TRUE
      /\ flagOp' = [flagOp EXCEPT ![t] = op]
      /\ UNCHANGED <<ptr, mem, default_value, modified_, on_command_line_, isSet, count, guard,
                    saved, observed>>
  BY DEF Flag!SetCallback, Flag!Idle
<1>2. op \in FlagOps(u) /\ op.pc = "callback"
  BY DEF FlagOps, FlagAfters, Flag!After
<1> HIDE DEF op
<1>3. /\ flagOp \in [Threads -> FlagOps(u)] /\ flagOp' \in [Threads -> FlagOps(u)]
      /\ flagOp'[t] = op /\ \A r \in Threads : r # t => flagOp'[r] = flagOp[r]
  BY <1>1, <1>2 DEF FlagInv, FlagTypes
<1>4. FlagTypes(u)'
  BY <1>1, <1>3 DEF FlagInv, FlagTypes
<1>5. FlagRest(u)'
  BY <1>1 DEF FlagInv, FlagRest
<1>6. FlagReads'
  BY <1>1, <1>2, <1>3 DEF FlagInv, FlagReads
<1>7. FlagCallbacks(u)'
  BY <1>1, <1>2, <1>3 DEF FlagInv, FlagCallbacks
<1>8. FlagSaves(u)'
  BY <1>1 DEF FlagSaves
<1> QED
  BY <1>4, <1>5, <1>6, <1>7, <1>8 DEF FlagInv

LEMMA FlagEnterCallback ==
  ASSUME NEW u \in Flags, FlagInv(u), NEW t \in Threads, Flag(u)!EnterCallback(t)
  PROVE  FlagInv(u)'
<1>1. /\ flagOp[t].pc = "callback" /\ guard' = t
      /\ UNCHANGED <<ptr, mem, default_value, modified_, on_command_line_, callback_, isSet, count,
                    saved, flagOp, observed>>
  BY DEF Flag!EnterCallback, Flag!data
<1> QED
  BY <1>1 DEF FlagInv, FlagTypes, FlagRest, FlagReads, FlagCallbacks, FlagSaves

LEMMA FlagCallback ==
  ASSUME NEW u \in Flags, FlagInv(u), NEW t \in Threads, Flag(u)!Callback(t)
  PROVE  FlagInv(u)'
<1>1. /\ guard = t /\ observed' = mem[ptr.addr] /\ ptr' = Flag(u)!MarkedAsRead /\ guard' = None
      /\ flagOp' = [flagOp EXCEPT ![t].pc = "relock"]
      /\ UNCHANGED <<mem, default_value, modified_, on_command_line_, callback_, isSet, count,
                    saved>>
  BY DEF Flag!Callback, Flag!data, Flag!Value
<1>2. /\ ptr' \in [addr : Addresses[u], candidate : BOOLEAN, read : BOOLEAN]
      /\ ptr'.addr = ptr.addr
      /\ ptr.candidate /\ ptr.read => ptr'.candidate /\ ptr'.read
  BY <1>1, FlagMarked
<1>3. flagOp[t].pc = "callback" /\ None \notin Threads /\ flagOp \in [Threads -> FlagOps(u)]
  BY <1>1, SharingAssumption DEF FlagInv, FlagTypes, FlagCallbacks, Flag!FlagImplAssumption
<1>4. flagOp[t] \in [pc : {"callback", "relock"}, after : FlagAfters]
  BY <1>3 DEF FlagOps
<1> DEFINE op == [flagOp[t] EXCEPT !.pc = "relock"]
<1>5. op \in FlagOps(u) /\ op.pc = "relock"
  BY <1>4 DEF FlagOps
<1>6. flagOp' = [flagOp EXCEPT ![t] = op]
  BY <1>1
<1> HIDE DEF op
<1>7. /\ flagOp' \in [Threads -> FlagOps(u)]
      /\ flagOp'[t] = op /\ \A r \in Threads : r # t => flagOp'[r] = flagOp[r]
  BY <1>3, <1>5, <1>6
<1>8. FlagTypes(u)'
  BY <1>1, <1>2, <1>7 DEF FlagInv, FlagTypes
<1>9. FlagRest(u)'
  BY <1>1 DEF FlagInv, FlagRest
<1>10. FlagReads'
  BY <1>1, <1>2, <1>5, <1>7 DEF FlagInv, FlagReads
<1>11. FlagCallbacks(u)'
  BY <1>1, <1>2, <1>3 DEF FlagInv, FlagCallbacks
<1>12. u # "savers"
  BY <1>3 DEF FlagInv, FlagSaves
<1>13. FlagSaves(u)'
  BY <1>12 DEF FlagSaves
<1> QED
  BY <1>8, <1>9, <1>10, <1>11, <1>13 DEF FlagInv

LEMMA FlagSaveState ==
  ASSUME NEW u \in Flags, FlagInv(u), NEW t \in Threads, NEW s \in Savers[u], Flag(u)!SaveState(t, s)
  PROVE  FlagInv(u)'
<1> DEFINE state == [value |-> mem[ptr.addr], modified |-> modified_, isSet |-> isSet,
                     on_command_line |-> on_command_line_, count |-> count, restored |-> FALSE]
<1>1. /\ saved' = [saved EXCEPT ![s] = state]
      /\ UNCHANGED <<ptr, mem, default_value, modified_, on_command_line_, callback_, isSet, count,
                    guard, flagOp, observed>>
  BY DEF Flag!SaveState, Flag!data, Flag!Value
<1>2. /\ mem[ptr.addr] \in Values /\ count \in Nat /\ modified_ \in BOOLEAN /\ isSet \in BOOLEAN
      /\ on_command_line_ \in BOOLEAN /\ saved \in [Savers[u] -> FlagStates \cup {None}]
  BY DEF FlagInv, FlagTypes, FlagRest
<1>3. state \in FlagStates
  BY <1>2 DEF FlagStates
<1>4. /\ state.value = mem[ptr.addr] /\ state.modified = modified_ /\ state.isSet = isSet
      /\ state.on_command_line = on_command_line_ /\ state.count = count
  OBVIOUS
<1> HIDE DEF state
<1>5. /\ saved' \in [Savers[u] -> FlagStates \cup {None}] /\ saved'[s] = state
      /\ \A r \in Savers[u] : r # s => saved'[r] = saved[r]
  BY <1>1, <1>2, <1>3
<1>6. FlagTypes(u)' /\ FlagReads' /\ FlagCallbacks(u)'
  BY <1>1 DEF FlagInv, FlagTypes, FlagReads, FlagCallbacks
<1>7. FlagRest(u)'
  BY <1>1, <1>5 DEF FlagInv, FlagRest
<1>8. FlagSaves(u)'
  BY <1>1, <1>2, <1>4, <1>5 DEF FlagInv, FlagSaves
<1> QED
  BY <1>6, <1>7, <1>8 DEF FlagInv

LEMMA FlagStep == ASSUME NEW u \in Flags, FlagInv(u), Flag(u)!Next PROVE FlagInv(u)'
<1>1. PICK t \in Threads :
        \/ Flag(u)!GetUnprotected(t) \/ Flag(u)!EndGet(t) \/ Flag(u)!Read(t)
        \/ Flag(u)!EnterCallback(t) \/ Flag(u)!Callback(t) \/ Flag(u)!Relock(t)
        \/ Flag(u)!SetCallback(t)
        \/ \E v \in Values : Flag(u)!Write(t, v)
        \/ \E v \in Values, source \in {"program", "command line"} :
             Flag(u)!ParseValue(t, v, source) \/ Flag(u)!ParseIfDefault(t, v, source)
             \/ Flag(u)!ParseDefault(t, v, source)
        \/ \E s \in Savers[u] : Flag(u)!SaveState(t, s) \/ Flag(u)!RestoreState(t, s)
  BY Zenon DEF Flag!Next
<1>2. CASE Flag(u)!GetUnprotected(t) \/ Flag(u)!EndGet(t)
  BY <1>2, FlagGet
<1>3. CASE Flag(u)!Read(t)
  BY <1>3, FlagRead
<1>4. CASE Flag(u)!EnterCallback(t)
  BY <1>4, FlagEnterCallback
<1>5. CASE Flag(u)!Callback(t)
  BY <1>5, FlagCallback
<1>6. CASE Flag(u)!Relock(t)
  BY <1>6, FlagRelock
<1>7. CASE Flag(u)!SetCallback(t)
  BY <1>7, FlagSetCallback
<1>8. ASSUME NEW v \in Values, Flag(u)!Write(t, v) PROVE FlagInv(u)'
  BY <1>8, FlagWrite
<1>9. ASSUME NEW v \in Values, NEW source,
             Flag(u)!ParseValue(t, v, source) \/ Flag(u)!ParseIfDefault(t, v, source)
             \/ Flag(u)!ParseDefault(t, v, source)
      PROVE  FlagInv(u)'
  <2>1. CASE Flag(u)!ParseValue(t, v, source)
    BY <2>1, FlagParseValue
  <2>2. CASE Flag(u)!ParseIfDefault(t, v, source)
    BY <2>2, FlagParseIfDefault
  <2>3. CASE Flag(u)!ParseDefault(t, v, source)
    BY <2>3, FlagParseDefault
  <2> QED
    BY <1>9, <2>1, <2>2, <2>3
<1>10. ASSUME NEW s \in Savers[u], Flag(u)!SaveState(t, s) \/ Flag(u)!RestoreState(t, s) PROVE FlagInv(u)'
  <2>1. CASE Flag(u)!SaveState(t, s)
    BY <2>1, FlagSaveState
  <2>2. CASE Flag(u)!RestoreState(t, s)
    BY <2>2, FlagRestoreState
  <2> QED
    BY <1>10, <2>1, <2>2
<1> QED
  BY <1>1, <1>2, <1>3, <1>4, <1>5, <1>6, <1>7, <1>8, <1>9, <1>10, Zenon

LEMMA FlagStands == ASSUME NEW u \in Flags, FlagInv(u), UNCHANGED flag PROVE FlagInv(u)'
  BY DEF FlagInv, FlagTypes, FlagRest, FlagReads, FlagCallbacks, FlagSaves, flag

LEMMA FlagProperties ==
  ASSUME NEW u \in Flags, FlagInv(u)
  PROVE  /\ Flag(u)!UnprotectedReadsAreStable /\ Flag(u)!CallbackSeesTheLastValue
         /\ u = "savers" => Flag(u)!ModifiedIsTrue /\ Flag(u)!SavedIsThere
<1>1. Flag(u)!UnprotectedReadsAreStable
  BY DEF FlagInv, FlagReads, Flag!UnprotectedReadsAreStable
<1>2. Flag(u)!CallbackSeesTheLastValue
  BY DEF FlagInv, FlagCallbacks, Flag!CallbackSeesTheLastValue, Flag!Value
<1>3. u = "savers" => Flag(u)!ModifiedIsTrue /\ Flag(u)!SavedIsThere
  BY DEF FlagInv, FlagSaves, Flag!ModifiedIsTrue, Flag!SavedIsThere, Flag!Value
<1> QED
  BY <1>1, <1>2, <1>3

(***************************************************************************)
(* SampleRecorder.                                                         *)

RecOps ==
  [pc : {"idle", "drop", "pop", "new", "sub", "visited all"}]
  \cup [pc : {"pop sample", "push", "using", "bury", "bury sample", "at", "visit", "pass"},
        sample : Samples]

RecNodes == Samples \cup {graveyard_}
InUse == {s \in Samples : users[s] # {}}
Pushing == {s \in Samples : \E t \in Threads : sampleOp[t].pc = "push" /\ sampleOp[t].sample = s}
Linked == created \ Pushing
Visitors == {"at", "visit", "pass"}
Buriers == {"bury", "bury sample"}
Entering == {"pop", "pop sample", "new", "push"}
Counted == {"drop", "sub"} \cup Entering \cup Buriers
At(pcs) == {t \in Threads : sampleOp[t].pc \in pcs}

RecTypes ==
  /\ size_estimate_ \in Int
  /\ all_ \in Samples \cup {None} /\ next \in [Samples -> Samples \cup {None}]
  /\ dead \in [RecNodes -> RecNodes \cup {None}]
  /\ created \in SUBSET Samples /\ users \in [Samples -> SUBSET Threads]
  /\ sampleOp \in [Threads -> RecOps] /\ must \in [Threads -> SUBSET Samples]
  /\ DOMAIN init_mu = RecNodes

\* The graveyard is a ring: who is in it leads to who is in it, no two to the same, and
\* what leads nowhere else has all of it.
Ring == {x \in RecNodes : dead[x] # None}
DeadStaysIn(closed) == graveyard_ \in closed /\ \A x \in closed : dead[x] \in closed
RecDead ==
  /\ graveyard_ \in Ring
  /\ \A x \in Ring : dead[x] \in Ring
  /\ \A x, y \in Ring : dead[x] = dead[y] => x = y
  /\ \A closed \in SUBSET RecNodes : DeadStaysIn(closed) => Ring \subseteq closed

\* Who changes the ring has its lock.
RecLocks ==
  \A t \in Threads :
    /\ sampleOp[t].pc \in {"pop sample", "bury sample"} => init_mu[graveyard_] = t
    /\ sampleOp[t].pc = "pop sample" => sampleOp[t].sample = dead[graveyard_]

\* A sample that is in use, dead, or about to be, is one of these; and is in the list.
RecOwners ==
  /\ \A s \in Samples :
       /\ users[s] # {} => s \in Linked /\ dead[s] = None /\ \E t \in Threads : users[s] = {t}
       /\ dead[s] # None => s \in Linked
  /\ \A t \in Threads : sampleOp[t].pc \in Buriers =>
       LET s == sampleOp[t].sample IN
         /\ users[s] = {} /\ dead[s] = None /\ s \in Linked
         /\ \A r \in Threads : sampleOp[r].pc \in Buriers /\ sampleOp[r].sample = s => r = t

\* The list leads through all that is linked; what is not yet leads into it.
NextStaysIn(closed) == \A x \in closed : next[x] \in closed \cup {None}
RecLinks ==
  /\ all_ \in Linked \cup {None} /\ \A s \in Samples : next[s] \in Linked \cup {None}
  /\ \A closed \in SUBSET Linked :
       all_ \in closed \cup {None} /\ NextStaysIn(closed) => Linked \subseteq closed
  /\ \A t, r \in Threads :
       sampleOp[t].pc = "push" /\ sampleOp[r].pc = "push" /\ sampleOp[t].sample = sampleOp[r].sample
         => r = t
  /\ Pushing \subseteq created

\* What must still be visited is further on in the list.
Ahead(t) ==
  /\ sampleOp[t].sample \in Linked
  /\ \A closed \in SUBSET Linked :
       sampleOp[t].sample \in closed /\ NextStaysIn(closed) => must[t] \subseteq closed
RecVisits ==
  \A t \in Threads :
    /\ must[t] \subseteq InUse
    /\ sampleOp[t].pc \in Visitors => Ahead(t)
    /\ sampleOp[t].pc = "pass" => sampleOp[t].sample \notin must[t]
    /\ sampleOp[t].pc = "visited all" => must[t] = {}

RecSizes ==
  /\ size_estimate_ = Cardinality(InUse) + Cardinality(At(Counted))
  /\ Cardinality(InUse) + Cardinality(At(Entering)) <= max_samples_ + 1

RecInv ==
  RecTypes /\ RecDead /\ RecLocks /\ RecOwners /\ RecLinks /\ RecVisits /\ RecSizes

LEMMA RecConstants ==
  /\ graveyard_ \notin Samples /\ None \notin Samples /\ None # graveyard_ /\ None \notin Threads
  /\ None \notin RecNodes /\ max_samples_ \in Nat /\ IsFiniteSet(Threads) /\ IsFiniteSet(Samples)
  /\ \A S : Recorder!IsFiniteSet(S) <=> IsFiniteSet(S)
  BY SharingAssumption DEF Recorder!SampleRecorderAssumption, RecNodes, Recorder!IsFiniteSet, IsFiniteSet

LEMMA RecInit == Recorder!Init => RecInv
<1> SUFFICES ASSUME Recorder!Init PROVE RecInv
  OBVIOUS
<1>1. /\ size_estimate_ = 0
      /\ all_ = None /\ next = [s \in Samples |-> None]
      /\ dead = [s \in RecNodes |-> IF s = graveyard_ THEN graveyard_ ELSE None]
      /\ init_mu = [s \in RecNodes |-> None]
      /\ created = {}
      /\ users = [s \in Samples |-> {}]
      /\ sampleOp = [t \in Threads |-> [pc |-> "idle"]]
      /\ must = [t \in Threads |-> {}]
  BY DEF Recorder!Init, Recorder!Nodes, Recorder!Idle, RecNodes
<1>2. \A t \in Threads : sampleOp[t].pc = "idle"
  BY <1>1
<1>3. InUse = {} /\ Pushing = {} /\ Linked = {} /\ Ring = {graveyard_}
      /\ At(Counted) = {} /\ At(Entering) = {}
  <2>1. InUse = {} /\ Pushing = {} /\ Linked = {}
    BY <1>1, <1>2 DEF InUse, Pushing, Linked
  <2>2. Ring = {graveyard_}
    BY <1>1, RecConstants DEF Ring, RecNodes
  <2>3. At(Counted) = {} /\ At(Entering) = {}
    BY <1>2 DEF At, Counted, Entering, Buriers
  <2> QED
    BY <2>1, <2>2, <2>3
<1>4. RecTypes
  BY <1>1 DEF RecTypes, RecNodes, RecOps
<1>5. RecDead
  BY <1>1, <1>3 DEF RecDead, RecNodes, DeadStaysIn
<1>6. RecLocks
  BY <1>2 DEF RecLocks
<1>7. RecOwners
  BY <1>1, <1>2, RecConstants DEF RecOwners, Buriers, RecNodes
<1>8. RecLinks
  BY <1>1, <1>2, <1>3 DEF RecLinks
<1>9. RecVisits
  BY <1>1, <1>2 DEF RecVisits, Visitors
<1>10. RecSizes
  BY <1>1, <1>3, FS_EmptySet, RecConstants DEF RecSizes
<1> QED
  BY <1>4, <1>5, <1>6, <1>7, <1>8, <1>9, <1>10 DEF RecInv

\* A thread moves.
RecMoves(t, o) == o \in RecOps /\ sampleOp' = [sampleOp EXCEPT ![t] = o]

LEMMA RecMoved ==
  ASSUME RecTypes, NEW t \in Threads, NEW o, RecMoves(t, o)
  PROVE  /\ sampleOp' \in [Threads -> RecOps] /\ sampleOp'[t] = o
         /\ \A r \in Threads : r # t => sampleOp'[r] = sampleOp[r]
  BY DEF RecTypes, RecMoves

LEMMA RecCount ==
  ASSUME RecTypes, NEW t \in Threads, NEW o, RecMoves(t, o), NEW pcs
  PROVE  /\ Cardinality(At(pcs)) \in Nat /\ Cardinality(At(pcs)') \in Nat
         /\ (sampleOp[t].pc \in pcs <=> o.pc \in pcs) =>
              Cardinality(At(pcs)') = Cardinality(At(pcs))
         /\ sampleOp[t].pc \notin pcs /\ o.pc \in pcs =>
              Cardinality(At(pcs)') = Cardinality(At(pcs)) + 1
         /\ sampleOp[t].pc \in pcs /\ o.pc \notin pcs =>
              Cardinality(At(pcs)') = Cardinality(At(pcs)) - 1
<1>1. /\ sampleOp'[t] = o /\ \A r \in Threads : r # t => sampleOp'[r] = sampleOp[r]
  BY RecMoved
<1> DEFINE before == At(pcs)
           after == {r \in Threads : sampleOp'[r].pc \in pcs}
<1>2. before \subseteq Threads /\ after \subseteq Threads /\ At(pcs)' = after
  BY DEF At
<1>3. IsFiniteSet(before) /\ IsFiniteSet(after)
  BY <1>2, RecConstants, FS_Subset
<1>4. Cardinality(before) \in Nat /\ Cardinality(after) \in Nat
  BY <1>3, FS_CardinalityType
<1>5. /\ (sampleOp[t].pc \in pcs <=> o.pc \in pcs) => after = before
      /\ sampleOp[t].pc \notin pcs /\ o.pc \in pcs => t \notin before /\ after = before \cup {t}
      /\ sampleOp[t].pc \in pcs /\ o.pc \notin pcs => t \in before /\ after = before \ {t}
  BY <1>1 DEF At
<1> HIDE DEF before, after
<1>6. /\ (sampleOp[t].pc \in pcs <=> o.pc \in pcs) => Cardinality(after) = Cardinality(before)
      /\ sampleOp[t].pc \notin pcs /\ o.pc \in pcs => Cardinality(after) = Cardinality(before) + 1
      /\ sampleOp[t].pc \in pcs /\ o.pc \notin pcs => Cardinality(after) = Cardinality(before) - 1
  BY <1>3, <1>5, FS_AddElement, FS_RemoveElement
<1> QED
  BY <1>2, <1>4, <1>6 DEF before

LEMMA RecUse ==
  ASSUME RecTypes, RecTypes'
  PROVE  /\ Cardinality(InUse) \in Nat /\ Cardinality(InUse') \in Nat
         /\ InUse' = InUse => Cardinality(InUse') = Cardinality(InUse)
         /\ \A s \in Samples :
              /\ s \notin InUse /\ InUse' = InUse \cup {s} =>
                   Cardinality(InUse') = Cardinality(InUse) + 1
              /\ s \in InUse /\ InUse' = InUse \ {s} =>
                   Cardinality(InUse') = Cardinality(InUse) - 1
<1>1. InUse \subseteq Samples /\ InUse' \subseteq Samples
  BY DEF InUse
<1>2. IsFiniteSet(InUse) /\ IsFiniteSet(InUse')
  BY <1>1, RecConstants, FS_Subset
<1> HIDE DEF InUse
<1> QED
  BY <1>2, FS_CardinalityType, FS_AddElement, FS_RemoveElement

\* Samples stay linked where no thread starts or ends a push.
LEMMA RecPushing ==
  ASSUME RecTypes, NEW t \in Threads, NEW o, RecMoves(t, o), created' = created,
         sampleOp[t].pc # "push", o.pc # "push"
  PROVE  Pushing' = Pushing /\ Linked' = Linked
<1>1. /\ sampleOp'[t] = o /\ \A r \in Threads : r # t => sampleOp'[r] = sampleOp[r]
  BY RecMoved
<1>2. \A s : (\E r \in Threads : sampleOp'[r].pc = "push" /\ sampleOp'[r].sample = s)
             <=> (\E r \in Threads : sampleOp[r].pc = "push" /\ sampleOp[r].sample = s)
  BY <1>1
<1>3. Pushing' = Pushing
  BY <1>2 DEF Pushing
<1> QED
  BY <1>3 DEF Linked

LEMMA RecLinksStay ==
  ASSUME RecTypes, RecLinks, NEW t \in Threads, NEW o, RecMoves(t, o), created' = created,
         sampleOp[t].pc # "push", o.pc # "push", all_' = all_, next' = next
  PROVE  RecLinks'
<1>1. /\ sampleOp'[t] = o /\ \A r \in Threads : r # t => sampleOp'[r] = sampleOp[r]
  BY RecMoved
<1>2. Pushing' = Pushing /\ Linked' = Linked
  BY RecPushing
<1>3. \A r \in Threads : sampleOp'[r].pc = "push" =>
        sampleOp[r].pc = "push" /\ sampleOp'[r] = sampleOp[r]
  BY <1>1
<1>4. \A closed : NextStaysIn(closed)' <=> NextStaysIn(closed)
  BY DEF NextStaysIn
<1>5. \A closed \in SUBSET Linked' :
        all_' \in closed \cup {None} /\ NextStaysIn(closed)' => Linked' \subseteq closed
  BY <1>2, <1>4 DEF RecLinks
<1>6. \A r1, r2 \in Threads :
        sampleOp'[r1].pc = "push" /\ sampleOp'[r2].pc = "push"
        /\ sampleOp'[r1].sample = sampleOp'[r2].sample => r2 = r1
  BY <1>3 DEF RecLinks
<1>7. /\ all_' \in Linked' \cup {None} /\ \A s \in Samples : next'[s] \in Linked' \cup {None}
      /\ Pushing' \subseteq created'
  BY <1>2 DEF RecLinks
<1> HIDE DEF NextStaysIn
<1> QED
  BY <1>5, <1>6, <1>7 DEF RecLinks

LEMMA RecOwnersStay ==
  ASSUME RecTypes, RecOwners, NEW t \in Threads, NEW o, RecMoves(t, o), Linked' = Linked,
         o.pc \in Buriers => sampleOp[t].pc \in Buriers /\ o.sample = sampleOp[t].sample,
         users' = users, dead' = dead
  PROVE  RecOwners'
<1>1. /\ sampleOp'[t] = o /\ \A r \in Threads : r # t => sampleOp'[r] = sampleOp[r]
  BY RecMoved
<1>2. \A r \in Threads : sampleOp'[r].pc \in Buriers =>
        sampleOp[r].pc \in Buriers /\ sampleOp'[r].sample = sampleOp[r].sample
  BY <1>1
<1>3. \A s \in Samples :
       /\ users'[s] # {} => s \in Linked' /\ dead'[s] = None /\ \E r \in Threads : users'[s] = {r}
       /\ dead'[s] # None => s \in Linked'
  BY DEF RecOwners
<1>4. \A r \in Threads : sampleOp'[r].pc \in Buriers =>
       LET s == sampleOp'[r].sample IN
         /\ users'[s] = {} /\ dead'[s] = None /\ s \in Linked'
         /\ \A q \in Threads : sampleOp'[q].pc \in Buriers /\ sampleOp'[q].sample = s => q = r
  BY <1>2 DEF RecOwners
<1> HIDE DEF Buriers
<1> QED
  BY <1>3, <1>4 DEF RecOwners

\* A thread that does not iterate moves; nothing more is to be visited.
LEMMA RecVisitsStay ==
  ASSUME RecTypes, RecVisits, NEW t \in Threads, NEW o, RecMoves(t, o),
         o.pc \notin Visitors \cup {"visited all"},
         \A r \in Threads : must'[r] \subseteq must[r] /\ must'[r] \subseteq InUse',
         Linked' = Linked, \A s \in Linked : next'[s] = next[s]
  PROVE  RecVisits'
<1>1. /\ sampleOp'[t] = o /\ \A r \in Threads : r # t => sampleOp'[r] = sampleOp[r]
  BY RecMoved
<1>2. \A closed \in SUBSET Linked : NextStaysIn(closed)' <=> NextStaysIn(closed)
  BY DEF NextStaysIn
<1>3. ASSUME NEW r \in Threads
      PROVE  /\ must'[r] \subseteq InUse'
             /\ sampleOp'[r].pc \in Visitors => Ahead(r)'
             /\ sampleOp'[r].pc = "pass" => sampleOp'[r].sample \notin must'[r]
             /\ sampleOp'[r].pc = "visited all" => must'[r] = {}
  <2>1. CASE r = t
    BY <1>1, <2>1 DEF Visitors
  <2>2. CASE r # t
    <3>1. sampleOp'[r] = sampleOp[r] /\ must'[r] \subseteq must[r] /\ must'[r] \subseteq InUse'
      BY <1>1, <2>2
    <3>2. ASSUME Ahead(r) PROVE Ahead(r)'
      BY <1>2, <3>1, <3>2 DEF Ahead
    <3> HIDE DEF Visitors
    <3> QED
      BY <3>1, <3>2 DEF RecVisits
  <2> QED
    BY <2>1, <2>2
<1> QED
  BY <1>3 DEF RecVisits

LEMMA RecLocksStay ==
  ASSUME RecTypes, RecLocks, NEW t \in Threads, NEW o, RecMoves(t, o),
         o.pc \in {"pop sample", "bury sample"} => init_mu'[graveyard_] = t,
         o.pc = "pop sample" => o.sample = dead'[graveyard_],
         \/ init_mu'[graveyard_] = init_mu[graveyard_] /\ dead'[graveyard_] = dead[graveyard_]
         \/ init_mu[graveyard_] \in {None, t}
  PROVE  RecLocks'
<1>1. /\ sampleOp'[t] = o /\ \A r \in Threads : r # t => sampleOp'[r] = sampleOp[r]
  BY RecMoved
<1>2. ASSUME NEW r \in Threads
      PROVE  /\ sampleOp'[r].pc \in {"pop sample", "bury sample"} => init_mu'[graveyard_] = r
             /\ sampleOp'[r].pc = "pop sample" => sampleOp'[r].sample = dead'[graveyard_]
  <2>1. CASE r = t
    BY <1>1, <2>1
  <2>2. CASE r # t
    <3>1. /\ sampleOp'[r] = sampleOp[r]
          /\ sampleOp[r].pc \in {"pop sample", "bury sample"} => init_mu[graveyard_] = r
          /\ sampleOp[r].pc = "pop sample" => sampleOp[r].sample = dead[graveyard_]
      BY <1>1, <2>2 DEF RecLocks
    <3>2. init_mu[graveyard_] \in {None, t} => init_mu[graveyard_] # r
      BY <2>2, RecConstants
    <3> QED
      BY <3>1, <3>2
  <2> QED
    BY <2>1, <2>2
<1> QED
  BY <1>2 DEF RecLocks

LEMMA RecDeadStays == ASSUME RecDead, dead' = dead PROVE RecDead'
  BY DEF RecDead, Ring, DeadStaysIn

LEMMA RecPcs ==
  /\ \A pc \in {"drop", "sub", "pop", "pop sample", "new", "push", "bury", "bury sample"} :
       pc \in Counted
  /\ \A pc \in {"idle", "using", "at", "visit", "pass", "visited all"} : pc \notin Counted
  /\ \A pc \in {"pop", "pop sample", "new", "push"} : pc \in Entering /\ pc \notin Buriers
  /\ \A pc \in {"drop", "sub", "bury", "bury sample", "idle", "using", "at", "visit", "pass",
                "visited all"} : pc \notin Entering
  /\ \A pc \in {"bury", "bury sample"} : pc \in Buriers
  /\ \A pc \in {"idle", "drop", "using", "at", "visit", "pass", "visited all", "sub"} :
       pc \notin Buriers
  /\ \A pc \in {"at", "visit", "pass"} : pc \in Visitors
  /\ \A pc \in {"idle", "drop", "pop", "pop sample", "new", "push", "using", "bury",
                "bury sample", "sub"} : pc \notin Visitors \cup {"visited all"}
  BY DEF Counted, Entering, Buriers, Visitors

LEMMA RecBounds ==
  ASSUME RecTypes, RecSizes
  PROVE  /\ Cardinality(At(Entering)) \in Nat /\ Cardinality(At(Counted)) \in Nat
         /\ Cardinality(At(Entering)) <= Cardinality(At(Counted))
         /\ Cardinality(InUse) \in Nat
<1>1. At(Entering) \subseteq At(Counted) /\ At(Counted) \subseteq Threads /\ InUse \subseteq Samples
  BY DEF At, Counted, InUse
<1>2. IsFiniteSet(At(Entering)) /\ IsFiniteSet(At(Counted)) /\ IsFiniteSet(InUse)
  BY <1>1, RecConstants, FS_Subset
<1> HIDE DEF At, InUse
<1> QED
  BY <1>1, <1>2, FS_CardinalityType, FS_Subset

\* An operation that leaves the list, the ring and the users as they are, and is no visit.
LEMMA RecQuiet ==
  ASSUME RecInv, NEW t \in Threads, NEW o, RecMoves(t, o), size_estimate_' \in Int,
         sampleOp[t].pc # "push", o.pc # "push", o.pc \notin Visitors \cup {"visited all"},
         o.pc \in Buriers => sampleOp[t].pc \in Buriers /\ o.sample = sampleOp[t].sample,
         DOMAIN init_mu' = DOMAIN init_mu,
         UNCHANGED <<all_, next, dead, created, users, must>>
  PROVE  /\ RecTypes' /\ RecDead' /\ RecOwners' /\ RecLinks' /\ RecVisits'
         /\ Cardinality(InUse') = Cardinality(InUse)
<1>1. RecTypes /\ RecDead /\ RecOwners /\ RecLinks /\ RecVisits
  BY DEF RecInv
<1>2. RecTypes'
  BY <1>1, RecMoved DEF RecTypes
<1>3. Linked' = Linked
  BY <1>1, RecPushing
<1>4. InUse' = InUse
  BY DEF InUse
<1>5. RecDead'
  BY <1>1, RecDeadStays
<1>6. RecOwners'
  BY <1>1, <1>3, RecOwnersStay
<1>7. RecLinks'
  BY <1>1, RecLinksStay
<1>8. \A r \in Threads : must'[r] \subseteq must[r] /\ must'[r] \subseteq InUse'
  BY <1>1, <1>4 DEF RecVisits
<1>9. RecVisits'
  BY <1>1, <1>3, <1>8, RecVisitsStay
<1> QED
  BY <1>2, <1>4, <1>5, <1>6, <1>7, <1>9

LEMMA RecRegister == ASSUME RecInv, NEW t \in Threads, Recorder!Register(t) PROVE RecInv'
<1>0. RecTypes /\ RecLocks /\ RecSizes /\ size_estimate_ \in Int /\ max_samples_ \in Nat
  BY RecConstants DEF RecInv, RecTypes
<1>1. PICK pc \in {"drop", "pop"} :
        sampleOp' = [sampleOp EXCEPT ![t] = [pc |-> pc]]
        /\ (pc = "pop" => size_estimate_ <= max_samples_)
  <2>1. CASE size_estimate_ > max_samples_
    BY <2>1 DEF Recorder!Register, Recorder!Goto
  <2>2. CASE ~(size_estimate_ > max_samples_)
    <3>1. size_estimate_ <= max_samples_
      BY <1>0, <2>2
    <3> QED
      BY <2>2, <3>1 DEF Recorder!Register, Recorder!Goto
  <2> QED
    BY <2>1, <2>2
<1> DEFINE o == [pc |-> pc]
<1>2. RecMoves(t, o) /\ o.pc = pc
  BY <1>1 DEF RecMoves, RecOps
<1>3. /\ sampleOp[t].pc = "idle" /\ size_estimate_' = size_estimate_ + 1
      /\ UNCHANGED <<all_, next, dead, created, users, must, init_mu>>
  BY DEF Recorder!Register, Recorder!Idle, Recorder!list
<1> HIDE DEF o
<1>4. /\ RecTypes' /\ RecDead' /\ RecOwners' /\ RecLinks' /\ RecVisits'
      /\ Cardinality(InUse') = Cardinality(InUse)
  <2>1. /\ size_estimate_' \in Int /\ o.pc # "push" /\ sampleOp[t].pc # "push"
        /\ o.pc \notin Buriers /\ o.pc \notin Visitors \cup {"visited all"}
    <3>1. size_estimate_' \in Int /\ sampleOp[t].pc # "push"
      BY <1>0, <1>3
    <3>2. CASE pc = "drop"
      BY <1>2, <3>1, <3>2 DEF Buriers, Visitors
    <3>3. CASE pc = "pop"
      BY <1>2, <3>1, <3>3 DEF Buriers, Visitors
    <3> QED
      BY <3>2, <3>3
  <2> QED
    BY <1>2, <1>3, <2>1, RecQuiet
<1>5. RecLocks'
  BY <1>0, <1>1, <1>2, <1>3, RecLocksStay
<1>6. /\ Cardinality(At(Counted)') = Cardinality(At(Counted)) + 1
      /\ (pc = "drop" => Cardinality(At(Entering)') = Cardinality(At(Entering)))
      /\ (pc = "pop" => Cardinality(At(Entering)') = Cardinality(At(Entering)) + 1)
  BY <1>0, <1>1, <1>2, <1>3, RecPcs, RecCount
<1>7. RecSizes'
  BY <1>0, <1>1, <1>3, <1>4, <1>6, RecBounds DEF RecSizes
<1> QED
  BY <1>4, <1>5, <1>7 DEF RecInv

LEMMA RecCountDown == ASSUME RecInv, NEW t \in Threads, Recorder!Drop(t) \/ Recorder!EndUnregister(t) PROVE RecInv'
<1>0. RecTypes /\ RecLocks /\ RecSizes /\ size_estimate_ \in Int /\ max_samples_ \in Nat
  BY RecConstants DEF RecInv, RecTypes
<1> DEFINE o == [pc |-> "idle"]
<1>2. RecMoves(t, o) /\ o.pc = "idle"
  BY DEF RecMoves, RecOps, Recorder!Drop, Recorder!EndUnregister, Recorder!Goto
<1>3. /\ sampleOp[t].pc \in {"drop", "sub"} /\ size_estimate_' = size_estimate_ - 1
      /\ UNCHANGED <<all_, next, dead, created, users, must, init_mu>>
  BY DEF Recorder!Drop, Recorder!EndUnregister, Recorder!list
<1> HIDE DEF o
<1>4. /\ RecTypes' /\ RecDead' /\ RecOwners' /\ RecLinks' /\ RecVisits'
      /\ Cardinality(InUse') = Cardinality(InUse)
  <2>1. /\ size_estimate_' \in Int /\ o.pc # "push" /\ sampleOp[t].pc # "push"
        /\ o.pc \notin Buriers /\ o.pc \notin Visitors \cup {"visited all"}
    BY <1>0, <1>2, <1>3 DEF Buriers, Visitors
  <2> QED
    BY <1>2, <1>3, <2>1, RecQuiet
<1>5. RecLocks'
  BY <1>0, <1>2, <1>3, RecLocksStay
<1>6. /\ Cardinality(At(Counted)') = Cardinality(At(Counted)) - 1
      /\ Cardinality(At(Entering)') = Cardinality(At(Entering))
  <2>1. /\ sampleOp[t].pc \in Counted /\ o.pc \notin Counted
        /\ sampleOp[t].pc \notin Entering /\ o.pc \notin Entering
    BY <1>2, <1>3, RecPcs
  <2> QED
    BY <1>0, <1>2, <2>1, RecCount
<1>7. RecSizes'
  BY <1>0, <1>3, <1>4, <1>6, RecBounds DEF RecSizes
<1> QED
  BY <1>4, <1>5, <1>7 DEF RecInv

LEMMA RecEndRegister == ASSUME RecInv, NEW t \in Threads, Recorder!EndRegister(t) PROVE RecInv'
<1>0. RecTypes /\ RecLocks /\ RecSizes /\ size_estimate_ \in Int /\ max_samples_ \in Nat
  BY RecConstants DEF RecInv, RecTypes
<1> DEFINE o == [pc |-> "idle"]
<1>2. RecMoves(t, o) /\ o.pc = "idle"
  BY DEF RecMoves, RecOps, Recorder!EndRegister, Recorder!Goto
<1>3. /\ sampleOp[t].pc = "using" /\ size_estimate_' = size_estimate_
      /\ UNCHANGED <<all_, next, dead, created, users, must, init_mu>>
  BY DEF Recorder!EndRegister, Recorder!list
<1> HIDE DEF o
<1>4. /\ RecTypes' /\ RecDead' /\ RecOwners' /\ RecLinks' /\ RecVisits'
      /\ Cardinality(InUse') = Cardinality(InUse)
  BY <1>0, <1>2, <1>3, RecPcs, RecQuiet
<1>5. RecLocks'
  BY <1>0, <1>2, <1>3, RecLocksStay
<1>6. /\ Cardinality(At(Counted)') = Cardinality(At(Counted))
      /\ Cardinality(At(Entering)') = Cardinality(At(Entering))
  BY <1>0, <1>2, <1>3, RecPcs, RecCount
<1>7. RecSizes'
  BY <1>0, <1>3, <1>4, <1>6, RecBounds DEF RecSizes
<1> QED
  BY <1>4, <1>5, <1>7 DEF RecInv

LEMMA RecLockGraveyard == ASSUME RecInv, NEW t \in Threads, Recorder!LockGraveyard(t) PROVE RecInv'
<1>0. RecTypes /\ RecDead /\ RecLocks /\ RecSizes /\ size_estimate_ \in Int /\ max_samples_ \in Nat
  BY RecConstants DEF RecInv, RecTypes
<1>1. /\ sampleOp[t].pc = "pop" /\ init_mu[graveyard_] = None /\ size_estimate_' = size_estimate_
      /\ UNCHANGED <<all_, next, dead, created, users, must>>
  BY DEF Recorder!LockGraveyard, Recorder!list
<1>2. \E o \in RecOps : /\ RecMoves(t, o) /\ o.pc \in {"new", "pop sample"}
                        /\ DOMAIN init_mu' = DOMAIN init_mu
                        /\ o.pc = "pop sample" =>
                             o.sample = dead[graveyard_] /\ init_mu'[graveyard_] = t
  <2>1. CASE dead[graveyard_] = graveyard_
    <3> DEFINE o == [pc |-> "new"]
    <3>1. RecMoves(t, o) /\ o.pc = "new" /\ init_mu' = init_mu /\ o \in RecOps
      BY <2>1 DEF RecMoves, RecOps, Recorder!LockGraveyard, Recorder!Goto
    <3> HIDE DEF o
    <3> QED
      BY <3>1
  <2>2. CASE dead[graveyard_] # graveyard_
    <3> DEFINE o == [pc |-> "pop sample", sample |-> dead[graveyard_]]
    <3>1. dead[graveyard_] \in Samples
      BY <1>0, <2>2 DEF RecDead, Ring, RecNodes
    <3>2. /\ RecMoves(t, o) /\ o.pc = "pop sample" /\ o.sample = dead[graveyard_] /\ o \in RecOps
          /\ init_mu' = [init_mu EXCEPT ![graveyard_] = t]
      BY <2>2, <3>1 DEF RecMoves, RecOps, Recorder!LockGraveyard, Recorder!GotoWith
    <3>3. graveyard_ \in DOMAIN init_mu
      BY <1>0 DEF RecTypes, RecNodes
    <3> HIDE DEF o
    <3> QED
      BY <3>2, <3>3
  <2> QED
    BY <2>1, <2>2
<1>3. PICK o \in RecOps : /\ RecMoves(t, o) /\ o.pc \in {"new", "pop sample"}
                          /\ DOMAIN init_mu' = DOMAIN init_mu
                          /\ o.pc = "pop sample" =>
                               o.sample = dead[graveyard_] /\ init_mu'[graveyard_] = t
  BY <1>2
<1>4. /\ RecTypes' /\ RecDead' /\ RecOwners' /\ RecLinks' /\ RecVisits'
      /\ Cardinality(InUse') = Cardinality(InUse)
  BY <1>0, <1>1, <1>3, RecPcs, RecQuiet
<1>5. RecLocks'
  BY <1>0, <1>1, <1>3, RecLocksStay
<1>6. /\ Cardinality(At(Counted)') = Cardinality(At(Counted))
      /\ Cardinality(At(Entering)') = Cardinality(At(Entering))
  <2>1. /\ sampleOp[t].pc \in Counted /\ o.pc \in Counted
        /\ sampleOp[t].pc \in Entering /\ o.pc \in Entering
    BY <1>1, <1>3, RecPcs
  <2> QED
    BY <1>0, <1>3, <2>1, RecCount
<1>7. RecSizes'
  BY <1>0, <1>1, <1>4, <1>6, RecBounds DEF RecSizes
<1> QED
  BY <1>4, <1>5, <1>7 DEF RecInv

LEMMA RecBuryLock == ASSUME RecInv, NEW t \in Threads, Recorder!BuryLock(t) PROVE RecInv'
<1>0. RecTypes /\ RecLocks /\ RecSizes /\ size_estimate_ \in Int /\ max_samples_ \in Nat
  BY RecConstants DEF RecInv, RecTypes
<1>1. /\ sampleOp[t].pc = "bury" /\ size_estimate_' = size_estimate_
      /\ init_mu[graveyard_] = None /\ init_mu' = [init_mu EXCEPT ![graveyard_] = t]
      /\ UNCHANGED <<all_, next, dead, created, users, must>>
  BY DEF Recorder!BuryLock, Recorder!list
<1> DEFINE o == [pc |-> "bury sample", sample |-> sampleOp[t].sample]
<1>2. sampleOp[t].sample \in Samples
  BY <1>0, <1>1 DEF RecTypes, RecOps
<1>3. RecMoves(t, o) /\ o.pc = "bury sample" /\ o.sample = sampleOp[t].sample
  BY <1>2 DEF RecMoves, RecOps, Recorder!BuryLock, Recorder!GotoWith
<1>4. init_mu'[graveyard_] = t /\ DOMAIN init_mu' = DOMAIN init_mu
  BY <1>0, <1>1 DEF RecTypes, RecNodes
<1> HIDE DEF o
<1>5. /\ RecTypes' /\ RecDead' /\ RecOwners' /\ RecLinks' /\ RecVisits'
      /\ Cardinality(InUse') = Cardinality(InUse)
  BY <1>0, <1>1, <1>3, <1>4, RecPcs, RecQuiet
<1>6. RecLocks'
  BY <1>0, <1>1, <1>3, <1>4, RecLocksStay
<1>7. /\ Cardinality(At(Counted)') = Cardinality(At(Counted))
      /\ Cardinality(At(Entering)') = Cardinality(At(Entering))
  <2>1. /\ sampleOp[t].pc \in Counted /\ o.pc \in Counted
        /\ sampleOp[t].pc \notin Entering /\ o.pc \notin Entering
    BY <1>1, <1>3, RecPcs
  <2> QED
    BY <1>0, <1>3, <2>1, RecCount
<1>8. RecSizes'
  BY <1>0, <1>1, <1>5, <1>7, RecBounds DEF RecSizes
<1> QED
  BY <1>5, <1>6, <1>8 DEF RecInv

\* The first of the ring is taken out.
LEMMA RecPopped ==
  ASSUME RecTypes, RecDead, NEW s \in Samples, dead[graveyard_] = s,
         dead' = [dead EXCEPT ![graveyard_] = dead[s], ![s] = None]
  PROVE  RecDead' /\ Ring' = Ring \ {s} /\ s \in Ring
<1>1. /\ graveyard_ # s /\ s \in Ring /\ graveyard_ \in Ring /\ dead[s] \in Ring
      /\ Ring \subseteq RecNodes /\ \A x \in Ring : dead[x] \in Ring
      /\ \A x, y \in Ring : dead[x] = dead[y] => x = y
      /\ None \notin RecNodes /\ s \in RecNodes /\ graveyard_ \in RecNodes
      /\ \A closed \in SUBSET RecNodes : DeadStaysIn(closed) => Ring \subseteq closed
  BY RecConstants DEF RecDead, Ring, RecNodes
<1>2. /\ dead'[s] = None /\ dead'[graveyard_] = dead[s]
      /\ \A x \in RecNodes : x # s /\ x # graveyard_ => dead'[x] = dead[x]
  BY <1>1 DEF RecTypes
<1>3. Ring' = Ring \ {s}
  <2>1. \A x \in RecNodes : dead'[x] # None <=> dead[x] # None /\ x # s
    BY <1>1, <1>2 DEF Ring
  <2> QED
    BY ONLY <1>1, <2>1 DEF Ring, RecNodes
<1>4. dead[s] # s
  BY <1>1
<1>5. ASSUME NEW x \in Ring' PROVE dead'[x] \in Ring'
  <2>1. CASE x = graveyard_
    BY <1>1, <1>2, <1>3, <1>4, <2>1
  <2>2. CASE x # graveyard_
    <3>1. x \in Ring /\ x # s /\ dead'[x] = dead[x] /\ dead[x] \in Ring
      BY <1>1, <1>2, <1>3, <2>2
    <3>2. dead[x] # s
      BY <1>1, <2>2, <3>1
    <3> QED
      BY <1>3, <3>1, <3>2
  <2> QED
    BY <2>1, <2>2
<1>6. ASSUME NEW x \in Ring', NEW y \in Ring', dead'[x] = dead'[y] PROVE x = y
  <2>1. x \in Ring /\ y \in Ring /\ x # s /\ y # s
    BY <1>3
  <2>2. dead'[x] = dead[IF x = graveyard_ THEN s ELSE x]
    BY <1>1, <1>2, <2>1
  <2>3. dead'[y] = dead[IF y = graveyard_ THEN s ELSE y]
    BY <1>1, <1>2, <2>1
  <2>4. (IF x = graveyard_ THEN s ELSE x) = (IF y = graveyard_ THEN s ELSE y)
    BY <1>1, <1>6, <2>1, <2>2, <2>3
  <2> QED
    BY <2>1, <2>4
<1>7. ASSUME NEW closed \in SUBSET RecNodes, DeadStaysIn(closed)' PROVE Ring' \subseteq closed
  <2>1. graveyard_ \in closed /\ \A x \in closed : dead'[x] \in closed
    BY <1>7 DEF DeadStaysIn
  <2> DEFINE more == closed \cup {s}
  <2>2. more \in SUBSET RecNodes /\ graveyard_ \in more
    BY <1>1, <2>1
  <2>3. ASSUME NEW x \in more PROVE dead[x] \in more
    <3>1. CASE x = s
      BY <1>2, <2>1, <3>1
    <3>2. CASE x = graveyard_
      BY <3>2
    <3>3. CASE x # s /\ x # graveyard_
      BY <1>2, <2>1, <3>3
    <3> QED
      BY <3>1, <3>2, <3>3
  <2>4. DeadStaysIn(more)
    BY <2>2, <2>3 DEF DeadStaysIn
  <2> HIDE DEF more
  <2>5. Ring \subseteq more
    BY <1>1, <2>2, <2>4
  <2> QED
    BY <1>3, <2>5 DEF more
<1>8. graveyard_ \in Ring'
  BY <1>1, <1>3
<1> HIDE DEF Ring, DeadStaysIn
<1> QED
  BY <1>1, <1>3, <1>5, <1>6, <1>7, <1>8 DEF RecDead

\* A sample is put first into the ring.
LEMMA RecPushed ==
  ASSUME RecTypes, RecDead, NEW s \in Samples, dead[s] = None,
         dead' = [dead EXCEPT ![s] = dead[graveyard_], ![graveyard_] = s]
  PROVE  RecDead' /\ Ring' = Ring \cup {s}
<1>1. /\ graveyard_ # s /\ s \notin Ring /\ graveyard_ \in Ring /\ dead[graveyard_] \in Ring
      /\ Ring \subseteq RecNodes /\ \A x \in Ring : dead[x] \in Ring
      /\ \A x, y \in Ring : dead[x] = dead[y] => x = y
      /\ None \notin RecNodes /\ s \in RecNodes /\ graveyard_ \in RecNodes
      /\ \A closed \in SUBSET RecNodes : DeadStaysIn(closed) => Ring \subseteq closed
  BY RecConstants DEF RecDead, Ring, RecNodes
<1>2. /\ dead'[s] = dead[graveyard_] /\ dead'[graveyard_] = s
      /\ \A x \in RecNodes : x # s /\ x # graveyard_ => dead'[x] = dead[x]
  BY <1>1 DEF RecTypes
<1>3. Ring' = Ring \cup {s}
  BY <1>1, <1>2 DEF Ring
<1>4. \A x \in Ring : dead[x] # s
  BY <1>1
<1>5. ASSUME NEW x \in Ring' PROVE dead'[x] \in Ring'
  <2>1. x \in Ring \cup {s}
    BY <1>3
  <2>2. CASE x = graveyard_
    BY <1>2, <1>3, <2>2
  <2>3. CASE x = s
    BY <1>1, <1>2, <1>3, <2>3
  <2>4. CASE x # graveyard_ /\ x # s
    <3>1. x \in Ring /\ dead[x] \in Ring /\ dead'[x] = dead[x]
      BY <1>1, <1>2, <2>1, <2>4
    <3> QED
      BY <1>3, <3>1
  <2> QED
    BY <2>2, <2>3, <2>4
<1>6. ASSUME NEW x \in Ring', NEW y \in Ring', dead'[x] = dead'[y] PROVE x = y
  <2>1. \A z \in Ring' : z # graveyard_ =>
          dead'[z] = dead[IF z = s THEN graveyard_ ELSE z]
          /\ (IF z = s THEN graveyard_ ELSE z) \in Ring
    BY <1>1, <1>2, <1>3
  <2>2. \A z \in Ring' : z # graveyard_ => dead'[z] # s
    BY <1>4, <2>1
  <2>3. CASE x = graveyard_ \/ y = graveyard_
    BY <1>2, <1>6, <2>2, <2>3
  <2>4. CASE x # graveyard_ /\ y # graveyard_
    <3> DEFINE from(z) == IF z = s THEN graveyard_ ELSE z
    <3>1. /\ from(x) \in Ring /\ dead'[x] = dead[from(x)]
          /\ from(y) \in Ring /\ dead'[y] = dead[from(y)]
      BY <2>1, <2>4
    <3> HIDE DEF from
    <3>2. from(x) = from(y)
      BY <1>1, <1>6, <3>1
    <3> QED
      BY <2>4, <3>2 DEF from
  <2> QED
    BY <2>3, <2>4
<1>7. ASSUME NEW closed \in SUBSET RecNodes, DeadStaysIn(closed)' PROVE Ring' \subseteq closed
  <2>1. graveyard_ \in closed /\ s \in closed /\ \A x \in closed : dead'[x] \in closed
    BY <1>2, <1>7 DEF DeadStaysIn
  <2> DEFINE less == closed \ {s}
  <2>2. less \in SUBSET RecNodes /\ graveyard_ \in less
    BY <1>1, <2>1
  <2>3. ASSUME NEW x \in less PROVE dead[x] \in less
    <3>1. CASE x = graveyard_
      BY <1>1, <1>2, <2>1, <3>1
    <3>2. CASE x # graveyard_
      <4>1. dead'[x] = dead[x] /\ dead[x] \in closed /\ x \in RecNodes
        BY <1>2, <2>1, <3>2
      <4>2. x \in Ring
        BY <1>1, <4>1 DEF Ring
      <4> QED
        BY <1>4, <4>1, <4>2
    <3> QED
      BY <3>1, <3>2
  <2>4. DeadStaysIn(less)
    BY <2>2, <2>3 DEF DeadStaysIn
  <2> HIDE DEF less
  <2>5. Ring \subseteq less
    BY <1>1, <2>2, <2>4
  <2> QED
    BY <1>3, <2>1, <2>5 DEF less
<1>8. graveyard_ \in Ring'
  BY <1>1, <1>3
<1> HIDE DEF Ring, DeadStaysIn
<1> QED
  BY <1>1, <1>3, <1>5, <1>6, <1>7, <1>8 DEF RecDead

LEMMA RecPopDead == ASSUME RecInv, NEW t \in Threads, Recorder!PopDead(t) PROVE RecInv'
<1>0. /\ RecTypes /\ RecDead /\ RecLocks /\ RecOwners /\ RecLinks /\ RecVisits /\ RecSizes
      /\ size_estimate_ \in Int /\ max_samples_ \in Nat
  BY RecConstants DEF RecInv, RecTypes
<1>1. sampleOp[t].pc = "pop sample" /\ sampleOp[t].sample \in Samples
  BY <1>0 DEF Recorder!PopDead, RecTypes, RecOps
<1>2. PICK s \in Samples : s = sampleOp[t].sample
  BY <1>1
<1>3. s = dead[graveyard_] /\ init_mu[graveyard_] = t
  BY <1>0, <1>1, <1>2 DEF RecLocks
<1>4. /\ dead' = [dead EXCEPT ![graveyard_] = dead[s], ![s] = None]
      /\ users' = [users EXCEPT ![s] = @ \cup {t}]
      /\ UNCHANGED <<size_estimate_, all_, next, created, must>>
      /\ DOMAIN init_mu' = DOMAIN init_mu
  BY <1>2 DEF Recorder!PopDead, Recorder!list
<1> DEFINE o == [pc |-> "using", sample |-> s]
<1>5. RecMoves(t, o) /\ o.pc = "using"
  BY <1>2 DEF RecMoves, RecOps, Recorder!PopDead, Recorder!GotoWith
<1> HIDE DEF o
<1>6. RecDead' /\ Ring' = Ring \ {s} /\ s \in Ring
  BY <1>0, <1>3, <1>4, RecPopped
<1>7. dead[s] # None /\ s \in Linked /\ users[s] = {}
  BY <1>0, <1>6 DEF Ring, RecOwners
<1>8. /\ users'[s] = {t} /\ dead'[s] = None
      /\ \A x \in Samples : x # s => users'[x] = users[x] /\ dead'[x] = dead[x]
  BY <1>0, <1>4, <1>7, RecConstants DEF RecTypes, RecNodes
<1>9. sampleOp' \in [Threads -> RecOps] /\ sampleOp'[t] = o
      /\ \A r \in Threads : r # t => sampleOp'[r] = sampleOp[r]
  BY <1>0, <1>5, RecMoved
<1>10. RecTypes'
  <2>1. \A x \in RecNodes : dead[x] \in RecNodes \cup {None}
    BY <1>0 DEF RecTypes
  <2>2. dead[s] \in RecNodes \cup {None}
    BY <2>1 DEF RecNodes
  <2>3. dead' \in [RecNodes -> RecNodes \cup {None}]
    BY <1>0, <1>4, <2>2 DEF RecTypes
  <2>4. users' \in [Samples -> SUBSET Threads]
    BY <1>0, <1>4 DEF RecTypes
  <2> QED
    BY <1>0, <1>4, <1>9, <2>3, <2>4 DEF RecTypes
<1>11. Linked' = Linked
  BY <1>0, <1>1, <1>4, <1>5, RecPushing
<1>12. RecLinks'
  BY <1>0, <1>1, <1>4, <1>5, RecLinksStay
<1>13. RecLocks'
  BY <1>0, <1>3, <1>5, RecLocksStay
<1>14. InUse' = InUse \cup {s} /\ s \notin InUse
  BY <1>7, <1>8 DEF InUse
<1>15. RecOwners'
  <2>1. ASSUME NEW x \in Samples
        PROVE  /\ users'[x] # {} => x \in Linked' /\ dead'[x] = None
                                    /\ \E r \in Threads : users'[x] = {r}
               /\ dead'[x] # None => x \in Linked'
    BY <1>0, <1>7, <1>8, <1>11 DEF RecOwners
  <2>2. ASSUME NEW r \in Threads, sampleOp'[r].pc \in Buriers
        PROVE  LET x == sampleOp'[r].sample IN
                 /\ users'[x] = {} /\ dead'[x] = None /\ x \in Linked'
                 /\ \A q \in Threads : sampleOp'[q].pc \in Buriers /\ sampleOp'[q].sample = x
                      => q = r
    <3>1. \A q \in Threads : sampleOp'[q].pc \in Buriers =>
            q # t /\ sampleOp'[q] = sampleOp[q]
      BY <1>5, <1>9 DEF Buriers
    <3>2. sampleOp[r].pc \in Buriers /\ sampleOp'[r] = sampleOp[r]
      BY <2>2, <3>1
    <3>3. sampleOp[r].sample # s /\ sampleOp[r].sample \in Samples
      BY <1>0, <1>7, <3>2 DEF RecOwners, RecTypes, Linked
    <3> HIDE DEF Buriers
    <3> QED
      BY <1>0, <1>8, <1>11, <3>1, <3>2, <3>3 DEF RecOwners
  <2> HIDE DEF Buriers
  <2> QED
    BY <2>1, <2>2 DEF RecOwners
<1>16. RecVisits'
  <2>1. \A r \in Threads : must'[r] \subseteq must[r] /\ must'[r] \subseteq InUse'
    BY <1>0, <1>4, <1>14 DEF RecVisits
  <2>2. o.pc \notin Visitors \cup {"visited all"}
    BY <1>5 DEF Visitors
  <2> QED
    BY <1>0, <1>4, <1>5, <1>11, <2>1, <2>2, RecVisitsStay
<1>17. RecSizes'
  <2>1. Cardinality(InUse') = Cardinality(InUse) + 1
    BY <1>0, <1>10, <1>14, RecUse
  <2>2. /\ sampleOp[t].pc \in Counted /\ o.pc \notin Counted
        /\ sampleOp[t].pc \in Entering /\ o.pc \notin Entering
    BY <1>1, <1>5, RecPcs
  <2>3. /\ Cardinality(At(Counted)') = Cardinality(At(Counted)) - 1
        /\ Cardinality(At(Entering)') = Cardinality(At(Entering)) - 1
    BY <1>0, <1>5, <2>2, RecCount
  <2> QED
    BY <1>0, <1>4, <2>1, <2>3, RecBounds DEF RecSizes
<1> QED
  BY <1>6, <1>10, <1>12, <1>13, <1>15, <1>16, <1>17 DEF RecInv

\* Only samples that are not yet linked change.
LEMMA RecLinksKept ==
  ASSUME RecTypes, RecLinks, Linked' = Linked, all_' = all_,
         \A s \in Linked : next'[s] = next[s],
         \A s \in Samples : next'[s] \in Linked \cup {None},
         Pushing' \subseteq created',
         \A r1, r2 \in Threads :
           sampleOp'[r1].pc = "push" /\ sampleOp'[r2].pc = "push"
           /\ sampleOp'[r1].sample = sampleOp'[r2].sample => r2 = r1
  PROVE  RecLinks'
<1>1. \A closed \in SUBSET Linked : NextStaysIn(closed)' <=> NextStaysIn(closed)
  BY DEF NextStaysIn
<1>2. \A closed \in SUBSET Linked' :
        all_' \in closed \cup {None} /\ NextStaysIn(closed)' => Linked' \subseteq closed
  BY <1>1 DEF RecLinks
<1>3. /\ all_' \in Linked' \cup {None} /\ \A s \in Samples : next'[s] \in Linked' \cup {None}
  BY DEF RecLinks
<1> HIDE DEF NextStaysIn
<1> QED
  BY <1>2, <1>3 DEF RecLinks

LEMMA RecNew == ASSUME RecInv, NEW t \in Threads, Recorder!New(t) PROVE RecInv'
<1>0. /\ RecTypes /\ RecDead /\ RecLocks /\ RecOwners /\ RecLinks /\ RecVisits /\ RecSizes
      /\ size_estimate_ \in Int /\ max_samples_ \in Nat
  BY RecConstants DEF RecInv, RecTypes
<1> DEFINE c == CHOOSE x \in Samples : x \notin created
<1>1. /\ sampleOp[t].pc = "new" /\ created # Samples
      /\ created' = created \cup {c} /\ next' = [next EXCEPT ![c] = all_]
      /\ sampleOp' = [sampleOp EXCEPT ![t] = [pc |-> "push", sample |-> c]]
      /\ UNCHANGED <<size_estimate_, all_, dead, init_mu, users, must>>
  BY DEF Recorder!New, Recorder!GotoWith
<1>2. c \in Samples /\ c \notin created
  BY <1>0, <1>1 DEF RecTypes
<1> HIDE DEF c
<1>3. PICK s \in Samples : s = c
  BY <1>2
<1>4. /\ s \notin created /\ created' = created \cup {s} /\ next' = [next EXCEPT ![s] = all_]
  BY <1>1, <1>2, <1>3
<1> DEFINE o == [pc |-> "push", sample |-> s]
<1>5. RecMoves(t, o) /\ o.pc = "push" /\ o.sample = s
  BY <1>1, <1>3 DEF RecMoves, RecOps
<1> HIDE DEF o
<1>6. sampleOp' \in [Threads -> RecOps] /\ sampleOp'[t] = o
      /\ \A r \in Threads : r # t => sampleOp'[r] = sampleOp[r]
  BY <1>0, <1>5, RecMoved
<1>7. s \notin Linked /\ s \notin Pushing /\ created \subseteq Samples /\ Pushing \subseteq created
  BY <1>0, <1>4 DEF Linked, RecLinks, RecTypes
<1>8. Pushing' = Pushing \cup {s}
  <2>1. \A x \in Samples :
          (\E r \in Threads : sampleOp'[r].pc = "push" /\ sampleOp'[r].sample = x)
          <=> x = s \/ (\E r \in Threads : sampleOp[r].pc = "push" /\ sampleOp[r].sample = x)
    BY <1>1, <1>5, <1>6
  <2> QED
    BY <2>1 DEF Pushing
<1>9. Linked' = Linked
  BY <1>4, <1>7, <1>8 DEF Linked
<1>10. /\ all_ \in Linked \cup {None} /\ all_ \in Samples \cup {None}
       /\ next' \in [Samples -> Samples \cup {None}]
       /\ \A x \in Linked : next'[x] = next[x]
       /\ \A x \in Samples : next'[x] \in Linked \cup {None}
  BY <1>0, <1>4, <1>7 DEF RecLinks, RecTypes, Linked
<1>11. RecTypes'
  BY <1>0, <1>1, <1>4, <1>6, <1>10 DEF RecTypes
<1>12. RecDead'
  BY <1>0, <1>1, RecDeadStays
<1>13. RecLocks'
  BY <1>0, <1>1, <1>5, RecLocksStay
<1>14. o.pc \notin Buriers /\ o.pc \notin Visitors \cup {"visited all"}
  BY <1>5 DEF Buriers, Visitors
<1>15. RecOwners'
  BY <1>0, <1>1, <1>5, <1>9, <1>14, RecOwnersStay
<1>16. RecLinks'
  <2>1. ASSUME NEW r1 \in Threads, NEW r2 \in Threads,
               sampleOp'[r1].pc = "push", sampleOp'[r2].pc = "push",
               sampleOp'[r1].sample = sampleOp'[r2].sample
        PROVE  r2 = r1
    <3>1. \A r \in Threads : sampleOp[r].pc = "push" => sampleOp[r].sample # s
      BY <1>7 DEF Pushing
    <3>2. CASE r1 = t \/ r2 = t
      BY <1>5, <1>6, <2>1, <3>1, <3>2
    <3>3. CASE r1 # t /\ r2 # t
      BY <1>0, <1>6, <2>1, <3>3 DEF RecLinks
    <3> QED
      BY <3>2, <3>3
  <2>2. Pushing' \subseteq created'
    BY <1>4, <1>7, <1>8
  <2>3. all_' = all_
    BY <1>1
  <2> QED
    BY <1>0, <1>9, <1>10, <2>1, <2>2, <2>3, RecLinksKept
<1>17. InUse' = InUse
  BY <1>1 DEF InUse
<1>18. RecVisits'
  <2>1. \A r \in Threads : must'[r] \subseteq must[r] /\ must'[r] \subseteq InUse'
    BY <1>0, <1>1, <1>17 DEF RecVisits
  <2> QED
    BY <1>0, <1>5, <1>9, <1>10, <1>14, <2>1, RecVisitsStay
<1>19. RecSizes'
  <2>1. /\ sampleOp[t].pc \in Counted /\ o.pc \in Counted
        /\ sampleOp[t].pc \in Entering /\ o.pc \in Entering
    BY <1>1, <1>5, RecPcs
  <2>2. /\ Cardinality(At(Counted)') = Cardinality(At(Counted))
        /\ Cardinality(At(Entering)') = Cardinality(At(Entering))
    BY <1>0, <1>5, <2>1, RecCount
  <2> QED
    BY <1>0, <1>1, <1>17, <2>2 DEF RecSizes
<1> QED
  BY <1>11, <1>12, <1>13, <1>15, <1>16, <1>18, <1>19 DEF RecInv

\* The exchange fails.
LEMMA RecPushAgain ==
  ASSUME RecInv, NEW t \in Threads, sampleOp[t].pc = "push",
         next' = [next EXCEPT ![sampleOp[t].sample] = all_],
         UNCHANGED <<size_estimate_, all_, dead, init_mu, created, users, must, sampleOp>>
  PROVE  RecInv'
<1>0. /\ RecTypes /\ RecDead /\ RecLocks /\ RecOwners /\ RecLinks /\ RecVisits /\ RecSizes
  BY DEF RecInv
<1>1. sampleOp[t].sample \in Samples
  BY <1>0 DEF RecTypes, RecOps
<1>2. PICK s \in Samples : s = sampleOp[t].sample
  BY <1>1
<1>3. next' = [next EXCEPT ![s] = all_]
  BY <1>2
<1>4. s \in Pushing
  BY <1>2 DEF Pushing
<1>5. s \notin Linked
  BY <1>4 DEF Linked
<1>6. Pushing' = Pushing /\ Linked' = Linked /\ InUse' = InUse
  BY DEF Pushing, Linked, InUse
<1>7. /\ next' \in [Samples -> Samples \cup {None}]
      /\ \A x \in Linked : next'[x] = next[x]
      /\ \A x \in Samples : next'[x] \in Linked \cup {None}
  <2>1. /\ next \in [Samples -> Samples \cup {None}] /\ all_ \in Samples \cup {None}
        /\ all_ \in Linked \cup {None} /\ \A x \in Samples : next[x] \in Linked \cup {None}
        /\ Linked \subseteq Samples
    BY <1>0 DEF RecLinks, RecTypes, Linked
  <2> QED
    BY <1>3, <1>5, <2>1
<1>8. RecTypes'
  BY <1>0, <1>7 DEF RecTypes
<1>9. RecDead' /\ RecLocks'
  BY <1>0, RecDeadStays DEF RecLocks
<1>10. RecOwners'
  BY <1>0, <1>6 DEF RecOwners
<1>11. RecLinks'
  <2>1. /\ Pushing' \subseteq created'
        /\ \A r1, r2 \in Threads :
             sampleOp'[r1].pc = "push" /\ sampleOp'[r2].pc = "push"
             /\ sampleOp'[r1].sample = sampleOp'[r2].sample => r2 = r1
    BY <1>0, <1>6 DEF RecLinks
  <2> QED
    BY <1>0, <1>6, <1>7, <2>1, RecLinksKept
<1>12. RecVisits'
  <2>1. \A closed \in SUBSET Linked : NextStaysIn(closed)' <=> NextStaysIn(closed)
    BY <1>7 DEF NextStaysIn
  <2>2. ASSUME NEW r \in Threads, Ahead(r) PROVE Ahead(r)'
    BY <1>6, <2>1, <2>2 DEF Ahead
  <2> HIDE DEF Ahead
  <2> QED
    BY <1>0, <1>6, <2>2 DEF RecVisits
<1>13. RecSizes'
  BY <1>0, <1>6 DEF RecSizes, At
<1> QED
  BY <1>8, <1>9, <1>10, <1>11, <1>12, <1>13 DEF RecInv

\* It succeeds.
LEMMA RecPushDone ==
  ASSUME RecInv, NEW t \in Threads, sampleOp[t].pc = "push", NEW s \in Samples,
         s = sampleOp[t].sample, all_ = next[s], all_' = s,
         users' = [users EXCEPT ![s] = @ \cup {t}],
         sampleOp' = [sampleOp EXCEPT ![t] = [pc |-> "using", sample |-> s]],
         UNCHANGED <<size_estimate_, next, dead, init_mu, created, must>>
  PROVE  RecInv'
<1>0. /\ RecTypes /\ RecDead /\ RecLocks /\ RecOwners /\ RecLinks /\ RecVisits /\ RecSizes
      /\ size_estimate_ \in Int /\ max_samples_ \in Nat
  BY RecConstants DEF RecInv, RecTypes
<1> DEFINE o == [pc |-> "using", sample |-> s]
<1>1. RecMoves(t, o) /\ o.pc = "using"
  BY DEF RecMoves, RecOps
<1> HIDE DEF o
<1>2. sampleOp' \in [Threads -> RecOps] /\ sampleOp'[t] = o
      /\ \A r \in Threads : r # t => sampleOp'[r] = sampleOp[r]
  BY <1>0, <1>1, RecMoved
<1>3. s \in Pushing /\ s \notin Linked /\ s \in created /\ Pushing \subseteq created
      /\ Linked \subseteq Samples
  <2>1. s \in Pushing
    BY DEF Pushing
  <2> QED
    BY <1>0, <2>1 DEF Linked, RecLinks, RecTypes
<1>4. \A r \in Threads : sampleOp[r].pc = "push" /\ sampleOp[r].sample = s => r = t
  BY <1>0 DEF RecLinks
<1>5. Pushing' = Pushing \ {s}
  <2>1. \A x \in Samples :
          (\E r \in Threads : sampleOp'[r].pc = "push" /\ sampleOp'[r].sample = x)
          <=> x # s /\ (\E r \in Threads : sampleOp[r].pc = "push" /\ sampleOp[r].sample = x)
    BY <1>1, <1>2, <1>4
  <2> QED
    BY <2>1 DEF Pushing
<1>6. Linked' = Linked \cup {s}
  BY <1>3, <1>5 DEF Linked
<1>7. users[s] = {} /\ dead[s] = None
  BY <1>0, <1>3 DEF RecOwners
<1>8. users'[s] = {t} /\ \A x \in Samples : x # s => users'[x] = users[x]
  BY <1>0, <1>7 DEF RecTypes
<1>9. InUse' = InUse \cup {s} /\ s \notin InUse
  BY <1>7, <1>8 DEF InUse
<1>10. RecTypes'
  <2>1. users' \in [Samples -> SUBSET Threads]
    BY <1>0 DEF RecTypes
  <2> QED
    BY <1>0, <1>2, <2>1 DEF RecTypes
<1>11. RecDead'
  BY <1>0, RecDeadStays
<1>12. RecLocks'
  BY <1>0, <1>1, RecLocksStay
<1>13. RecOwners'
  <2>1. ASSUME NEW x \in Samples
        PROVE  /\ users'[x] # {} => x \in Linked' /\ dead'[x] = None
                                    /\ \E r \in Threads : users'[x] = {r}
               /\ dead'[x] # None => x \in Linked'
    BY <1>0, <1>6, <1>7, <1>8 DEF RecOwners
  <2>2. ASSUME NEW r \in Threads, sampleOp'[r].pc \in Buriers
        PROVE  LET x == sampleOp'[r].sample IN
                 /\ users'[x] = {} /\ dead'[x] = None /\ x \in Linked'
                 /\ \A q \in Threads : sampleOp'[q].pc \in Buriers /\ sampleOp'[q].sample = x
                      => q = r
    <3>1. \A q \in Threads : sampleOp'[q].pc \in Buriers =>
            q # t /\ sampleOp'[q] = sampleOp[q]
      BY <1>1, <1>2 DEF Buriers
    <3>2. sampleOp[r].pc \in Buriers /\ sampleOp'[r] = sampleOp[r]
      BY <2>2, <3>1
    <3>3. sampleOp[r].sample # s /\ sampleOp[r].sample \in Samples
      BY <1>0, <1>3, <3>2 DEF RecOwners
    <3> HIDE DEF Buriers
    <3> QED
      BY <1>0, <1>6, <1>8, <3>1, <3>2, <3>3 DEF RecOwners
  <2> HIDE DEF Buriers
  <2> QED
    BY <2>1, <2>2 DEF RecOwners
<1>14. /\ all_ # s /\ \A x \in Samples : next[x] # s
  BY <1>0, <1>3, RecConstants DEF RecLinks
\* A closed part of the new list without s is a closed part of the old one.
<1>15. ASSUME NEW closed \in SUBSET Linked', NextStaysIn(closed)'
       PROVE  closed \ {s} \in SUBSET Linked /\ NextStaysIn(closed \ {s})
  BY <1>3, <1>6, <1>14, <1>15 DEF NextStaysIn
<1>16. RecLinks'
  <2>1. /\ all_' \in Linked' \cup {None}
        /\ \A x \in Samples : next'[x] \in Linked' \cup {None}
    BY <1>0, <1>6 DEF RecLinks
  <2>2. ASSUME NEW closed \in SUBSET Linked', all_' \in closed \cup {None}, NextStaysIn(closed)'
        PROVE  Linked' \subseteq closed
    <3>1. s \in closed
      BY <2>2, RecConstants
    <3>2. all_ \in closed \cup {None}
      BY <2>2, <3>1 DEF NextStaysIn
    <3> DEFINE less == closed \ {s}
    <3>3. less \in SUBSET Linked /\ NextStaysIn(less) /\ all_ \in less \cup {None}
      BY <1>14, <1>15, <2>2, <3>2
    <3> HIDE DEF less, NextStaysIn
    <3>4. Linked \subseteq less
      BY <1>0, <3>3 DEF RecLinks
    <3> QED
      BY <1>6, <3>1, <3>4 DEF less
  <2>3. \A r1, r2 \in Threads :
          sampleOp'[r1].pc = "push" /\ sampleOp'[r2].pc = "push"
          /\ sampleOp'[r1].sample = sampleOp'[r2].sample => r2 = r1
    <3>1. \A r \in Threads : sampleOp'[r].pc = "push" =>
            sampleOp[r].pc = "push" /\ sampleOp'[r] = sampleOp[r]
      BY <1>1, <1>2
    <3> QED
      BY <1>0, <3>1 DEF RecLinks
  <2>4. Pushing' \subseteq created'
    BY <1>3, <1>5
  <2> HIDE DEF NextStaysIn
  <2> QED
    BY <2>1, <2>2, <2>3, <2>4 DEF RecLinks
<1>17. RecVisits'
  <2>1. ASSUME NEW r \in Threads
        PROVE  /\ must'[r] \subseteq InUse'
               /\ sampleOp'[r].pc \in Visitors => Ahead(r)'
               /\ sampleOp'[r].pc = "pass" => sampleOp'[r].sample \notin must'[r]
               /\ sampleOp'[r].pc = "visited all" => must'[r] = {}
    <3>1. must'[r] \subseteq InUse'
      BY <1>0, <1>9 DEF RecVisits
    <3>2. CASE r = t
      BY <1>1, <1>2, <3>1, <3>2 DEF Visitors
    <3>3. CASE r # t
      <4>1. sampleOp'[r] = sampleOp[r]
        BY <1>2, <3>3
      <4>2. ASSUME Ahead(r) PROVE Ahead(r)'
        <5>1. /\ sampleOp[r].sample \in Linked /\ sampleOp[r].sample # s
              /\ \A closed \in SUBSET Linked :
                   sampleOp[r].sample \in closed /\ NextStaysIn(closed) => must[r] \subseteq closed
          BY <1>3, <4>2 DEF Ahead
        <5>2. ASSUME NEW closed \in SUBSET Linked', sampleOp'[r].sample \in closed,
                     NextStaysIn(closed)'
              PROVE  must'[r] \subseteq closed
          <6> DEFINE less == closed \ {s}
          <6>1. less \in SUBSET Linked /\ NextStaysIn(less) /\ sampleOp[r].sample \in less
            BY <1>15, <4>1, <5>1, <5>2
          <6> HIDE DEF less, NextStaysIn
          <6>2. must[r] \subseteq less
            BY <5>1, <6>1
          <6> QED
            BY <6>2 DEF less
        <5> HIDE DEF NextStaysIn
        <5> QED
          BY <1>6, <4>1, <5>1, <5>2 DEF Ahead
      <4> HIDE DEF Ahead, Visitors
      <4> QED
        BY <1>0, <3>1, <4>1, <4>2 DEF RecVisits
    <3> QED
      BY <3>2, <3>3
  <2> QED
    BY <2>1 DEF RecVisits
<1>18. RecSizes'
  <2>1. Cardinality(InUse') = Cardinality(InUse) + 1
    BY <1>0, <1>9, <1>10, RecUse
  <2>2. /\ sampleOp[t].pc \in Counted /\ o.pc \notin Counted
        /\ sampleOp[t].pc \in Entering /\ o.pc \notin Entering
    BY <1>1, RecPcs
  <2>3. /\ Cardinality(At(Counted)') = Cardinality(At(Counted)) - 1
        /\ Cardinality(At(Entering)') = Cardinality(At(Entering)) - 1
    BY <1>0, <1>1, <2>2, RecCount
  <2> QED
    BY <1>0, <2>1, <2>3, RecBounds DEF RecSizes
<1> QED
  BY <1>10, <1>11, <1>12, <1>13, <1>16, <1>17, <1>18 DEF RecInv

LEMMA RecPushNew == ASSUME RecInv, NEW t \in Threads, Recorder!PushNew(t) PROVE RecInv'
<1>1. sampleOp[t].pc = "push" /\ sampleOp[t].sample \in Samples
  BY DEF Recorder!PushNew, RecInv, RecTypes, RecOps
<1>2. PICK s \in Samples : s = sampleOp[t].sample
  BY <1>1
<1>3. /\ UNCHANGED <<size_estimate_, dead, init_mu, created, must>>
      /\ \/ /\ all_ = next[s]
            /\ all_' = s
            /\ users' = [users EXCEPT ![s] = @ \cup {t}]
            /\ sampleOp' = [sampleOp EXCEPT ![t] = [pc |-> "using", sample |-> s]]
            /\ UNCHANGED next
         \/ /\ next' = [next EXCEPT ![s] = all_]
            /\ UNCHANGED <<all_, users, sampleOp>>
  BY <1>2 DEF Recorder!PushNew, Recorder!GotoWith
<1>4. CASE all_ = next[s] /\ UNCHANGED next /\ all_' = s
           /\ users' = [users EXCEPT ![s] = @ \cup {t}]
           /\ sampleOp' = [sampleOp EXCEPT ![t] = [pc |-> "using", sample |-> s]]
  BY <1>1, <1>2, <1>3, <1>4, RecPushDone
<1>5. CASE next' = [next EXCEPT ![s] = all_] /\ UNCHANGED <<all_, users, sampleOp>>
  <2>1. next' = [next EXCEPT ![sampleOp[t].sample] = all_]
    BY <1>2, <1>5
  <2> QED
    BY <1>1, <1>3, <1>5, <2>1, RecPushAgain
<1> QED
  BY <1>3, <1>4, <1>5

LEMMA RecUnregister ==
  ASSUME RecInv, NEW t \in Threads, NEW s \in Samples, Recorder!Unregister(t, s)
  PROVE  RecInv'
<1>0. /\ RecTypes /\ RecDead /\ RecLocks /\ RecOwners /\ RecLinks /\ RecVisits /\ RecSizes
      /\ size_estimate_ \in Int /\ max_samples_ \in Nat
  BY RecConstants DEF RecInv, RecTypes
<1>1. /\ sampleOp[t].pc = "idle" /\ users[s] # {}
      /\ users' = [users EXCEPT ![s] = {}]
      /\ must' = [r \in Threads |-> must[r] \ {s}]
      /\ UNCHANGED <<size_estimate_, all_, next, dead, init_mu, created>>
  BY DEF Recorder!Unregister, Recorder!Idle, Recorder!list
<1> DEFINE o == [pc |-> "bury", sample |-> s]
<1>2. RecMoves(t, o) /\ o.pc = "bury" /\ o.sample = s
  BY DEF RecMoves, RecOps, Recorder!Unregister, Recorder!GotoWith
<1> HIDE DEF o
<1>3. sampleOp' \in [Threads -> RecOps] /\ sampleOp'[t] = o
      /\ \A r \in Threads : r # t => sampleOp'[r] = sampleOp[r]
  BY <1>0, <1>2, RecMoved
<1>4. s \in Linked /\ dead[s] = None
  BY <1>0, <1>1 DEF RecOwners
<1>5. users'[s] = {} /\ \A x \in Samples : x # s => users'[x] = users[x]
  BY <1>0, <1>1 DEF RecTypes
<1>6. Linked' = Linked
  BY <1>0, <1>1, <1>2, RecPushing
<1>7. InUse' = InUse \ {s} /\ s \in InUse
  BY <1>1, <1>5 DEF InUse
<1>8. RecTypes'
  <2>1. users' \in [Samples -> SUBSET Threads] /\ must' \in [Threads -> SUBSET Samples]
    BY <1>0, <1>1 DEF RecTypes
  <2> QED
    BY <1>0, <1>1, <1>3, <2>1 DEF RecTypes
<1>9. RecDead'
  BY <1>0, <1>1, RecDeadStays
<1>10. RecLocks'
  BY <1>0, <1>1, <1>2, RecLocksStay
<1>11. RecLinks'
  BY <1>0, <1>1, <1>2, RecLinksStay
<1>12. RecOwners'
  <2>1. ASSUME NEW x \in Samples
        PROVE  /\ users'[x] # {} => x \in Linked' /\ dead'[x] = None
                                    /\ \E r \in Threads : users'[x] = {r}
               /\ dead'[x] # None => x \in Linked'
    BY <1>0, <1>1, <1>5, <1>6 DEF RecOwners
  <2>2. \A q \in Threads : q # t /\ sampleOp'[q].pc \in Buriers =>
          sampleOp'[q] = sampleOp[q] /\ sampleOp[q].sample # s
    BY <1>0, <1>1, <1>3 DEF RecOwners
  <2>3. ASSUME NEW r \in Threads, sampleOp'[r].pc \in Buriers
        PROVE  LET x == sampleOp'[r].sample IN
                 /\ users'[x] = {} /\ dead'[x] = None /\ x \in Linked'
                 /\ \A q \in Threads : sampleOp'[q].pc \in Buriers /\ sampleOp'[q].sample = x
                      => q = r
    <3>1. CASE r = t
      BY <1>1, <1>2, <1>3, <1>4, <1>5, <1>6, <2>2, <3>1
    <3>2. CASE r # t
      <4>1. sampleOp'[r] = sampleOp[r] /\ sampleOp[r].pc \in Buriers /\ sampleOp[r].sample # s
        BY <1>3, <2>2, <2>3, <3>2
      <4>2. /\ users[sampleOp[r].sample] = {} /\ dead[sampleOp[r].sample] = None
            /\ sampleOp[r].sample \in Linked /\ sampleOp[r].sample \in Samples
            /\ \A q \in Threads :
                 sampleOp[q].pc \in Buriers /\ sampleOp[q].sample = sampleOp[r].sample => q = r
        BY <1>0, <4>1 DEF RecOwners, Linked, RecTypes
      <4> QED
        BY <1>1, <1>2, <1>3, <1>5, <1>6, <2>2, <4>1, <4>2
    <3> QED
      BY <3>1, <3>2
  <2> HIDE DEF Buriers
  <2> QED
    BY <2>1, <2>3 DEF RecOwners
<1>13. RecVisits'
  <2>1. \A r \in Threads : must'[r] \subseteq must[r] /\ must'[r] \subseteq InUse'
    BY <1>0, <1>1, <1>7 DEF RecVisits
  <2>2. o.pc \notin Visitors \cup {"visited all"}
    BY <1>2 DEF Visitors
  <2> QED
    BY <1>0, <1>1, <1>2, <1>6, <2>1, <2>2, RecVisitsStay
<1>14. RecSizes'
  <2>1. Cardinality(InUse') = Cardinality(InUse) - 1
    BY <1>0, <1>7, <1>8, RecUse
  <2>2. /\ sampleOp[t].pc \notin Counted /\ o.pc \in Counted
        /\ sampleOp[t].pc \notin Entering /\ o.pc \notin Entering
    BY <1>1, <1>2, RecPcs
  <2>3. /\ Cardinality(At(Counted)') = Cardinality(At(Counted)) + 1
        /\ Cardinality(At(Entering)') = Cardinality(At(Entering))
    BY <1>0, <1>2, <2>2, RecCount
  <2> QED
    BY <1>0, <1>1, <2>1, <2>3, RecBounds DEF RecSizes
<1> QED
  BY <1>8, <1>9, <1>10, <1>11, <1>12, <1>13, <1>14 DEF RecInv

LEMMA RecPushDead == ASSUME RecInv, NEW t \in Threads, Recorder!PushDead(t) PROVE RecInv'
<1>0. /\ RecTypes /\ RecDead /\ RecLocks /\ RecOwners /\ RecLinks /\ RecVisits /\ RecSizes
      /\ size_estimate_ \in Int /\ max_samples_ \in Nat
  BY RecConstants DEF RecInv, RecTypes
<1>1. sampleOp[t].pc = "bury sample" /\ sampleOp[t].sample \in Samples
  BY <1>0 DEF Recorder!PushDead, RecTypes, RecOps
<1>2. PICK s \in Samples : s = sampleOp[t].sample
  BY <1>1
<1>3. init_mu[graveyard_] = t
  BY <1>0, <1>1 DEF RecLocks
<1>4. /\ dead' = [dead EXCEPT ![s] = dead[graveyard_], ![graveyard_] = s]
      /\ UNCHANGED <<size_estimate_, all_, next, created, users, must>>
      /\ DOMAIN init_mu' = DOMAIN init_mu
  BY <1>2 DEF Recorder!PushDead, Recorder!list
<1> DEFINE o == [pc |-> "sub"]
<1>5. RecMoves(t, o) /\ o.pc = "sub"
  BY DEF RecMoves, RecOps, Recorder!PushDead, Recorder!Goto
<1> HIDE DEF o
<1>6. sampleOp' \in [Threads -> RecOps] /\ sampleOp'[t] = o
      /\ \A r \in Threads : r # t => sampleOp'[r] = sampleOp[r]
  BY <1>0, <1>5, RecMoved
<1>7. /\ users[s] = {} /\ dead[s] = None /\ s \in Linked
      /\ \A q \in Threads : sampleOp[q].pc \in Buriers /\ sampleOp[q].sample = s => q = t
  <2>1. sampleOp[t].pc \in Buriers
    BY <1>1, RecPcs
  <2> QED
    BY <1>0, <1>2, <2>1 DEF RecOwners
<1>8. RecDead'
  BY <1>0, <1>4, <1>7, RecPushed
<1>9. \A x \in Samples : x # s => dead'[x] = dead[x]
  BY <1>0, <1>4, RecConstants DEF RecTypes, RecNodes
<1>10. RecTypes'
  <2>1. /\ dead \in [RecNodes -> RecNodes \cup {None}] /\ s \in RecNodes
        /\ dead[graveyard_] \in RecNodes \cup {None}
    BY <1>0 DEF RecTypes, RecNodes
  <2>2. dead' \in [RecNodes -> RecNodes \cup {None}]
    BY <1>4, <2>1
  <2> QED
    BY <1>0, <1>4, <1>6, <2>2 DEF RecTypes
<1>11. Linked' = Linked
  BY <1>0, <1>1, <1>4, <1>5, RecPushing
<1>12. RecLinks'
  BY <1>0, <1>1, <1>4, <1>5, RecLinksStay
<1>13. RecLocks'
  BY <1>0, <1>3, <1>5, RecLocksStay
<1>14. InUse' = InUse
  BY <1>4 DEF InUse
<1>15. RecOwners'
  <2>1. ASSUME NEW x \in Samples
        PROVE  /\ users'[x] # {} => x \in Linked' /\ dead'[x] = None
                                    /\ \E r \in Threads : users'[x] = {r}
               /\ dead'[x] # None => x \in Linked'
    BY <1>0, <1>4, <1>7, <1>9, <1>11 DEF RecOwners
  <2>2. ASSUME NEW r \in Threads, sampleOp'[r].pc \in Buriers
        PROVE  LET x == sampleOp'[r].sample IN
                 /\ users'[x] = {} /\ dead'[x] = None /\ x \in Linked'
                 /\ \A q \in Threads : sampleOp'[q].pc \in Buriers /\ sampleOp'[q].sample = x
                      => q = r
    <3>1. \A q \in Threads : sampleOp'[q].pc \in Buriers =>
            q # t /\ sampleOp'[q] = sampleOp[q]
      BY <1>5, <1>6 DEF Buriers
    <3>2. sampleOp[r].pc \in Buriers /\ sampleOp'[r] = sampleOp[r] /\ r # t
      BY <2>2, <3>1
    <3>3. sampleOp[r].sample # s /\ sampleOp[r].sample \in Samples
      BY <1>0, <1>7, <3>2 DEF RecOwners, RecTypes, Linked
    <3> HIDE DEF Buriers
    <3>4. /\ users[sampleOp[r].sample] = {} /\ dead[sampleOp[r].sample] = None
          /\ sampleOp[r].sample \in Linked
          /\ \A q \in Threads :
               sampleOp[q].pc \in Buriers /\ sampleOp[q].sample = sampleOp[r].sample => q = r
      BY <1>0, <3>2 DEF RecOwners
    <3> QED
      BY <1>4, <1>9, <1>11, <3>1, <3>2, <3>3, <3>4
  <2> HIDE DEF Buriers
  <2> QED
    BY <2>1, <2>2 DEF RecOwners
<1>16. RecVisits'
  <2>1. \A r \in Threads : must'[r] \subseteq must[r] /\ must'[r] \subseteq InUse'
    BY <1>0, <1>4, <1>14 DEF RecVisits
  <2>2. o.pc \notin Visitors \cup {"visited all"}
    BY <1>5 DEF Visitors
  <2> QED
    BY <1>0, <1>4, <1>5, <1>11, <2>1, <2>2, RecVisitsStay
<1>17. RecSizes'
  <2>1. /\ sampleOp[t].pc \in Counted /\ o.pc \in Counted
        /\ sampleOp[t].pc \notin Entering /\ o.pc \notin Entering
    BY <1>1, <1>5, RecPcs
  <2>2. /\ Cardinality(At(Counted)') = Cardinality(At(Counted))
        /\ Cardinality(At(Entering)') = Cardinality(At(Entering))
    BY <1>0, <1>5, <2>1, RecCount
  <2> QED
    BY <1>0, <1>4, <1>14, <2>2 DEF RecSizes
<1> QED
  BY <1>8, <1>10, <1>12, <1>13, <1>15, <1>16, <1>17 DEF RecInv

\* A visitor moves. What it must visit is proved ahead by the caller.
LEMMA RecVisitorMoves ==
  ASSUME RecInv, NEW t \in Threads, NEW o, RecMoves(t, o),
         sampleOp[t].pc \in {"idle", "at", "visit", "pass", "visited all"},
         o.pc \in {"idle", "at", "visit", "pass", "visited all"},
         UNCHANGED <<size_estimate_, all_, next, dead, created, users>>,
         DOMAIN init_mu' = DOMAIN init_mu, init_mu'[graveyard_] = init_mu[graveyard_],
         must' \in [Threads -> SUBSET Samples],
         \A r \in Threads : r # t => must'[r] = must[r],
         must'[t] \subseteq InUse,
         o.pc \in Visitors =>
           /\ o.sample \in Linked
           /\ \A closed \in SUBSET Linked :
                o.sample \in closed /\ NextStaysIn(closed) => must'[t] \subseteq closed,
         o.pc = "pass" => o.sample \notin must'[t],
         o.pc = "visited all" => must'[t] = {}
  PROVE  RecInv'
<1>0. /\ RecTypes /\ RecDead /\ RecLocks /\ RecOwners /\ RecLinks /\ RecVisits /\ RecSizes
  BY DEF RecInv
<1>1. sampleOp' \in [Threads -> RecOps] /\ sampleOp'[t] = o
      /\ \A r \in Threads : r # t => sampleOp'[r] = sampleOp[r]
  BY <1>0, RecMoved
<1>2. /\ sampleOp[t].pc # "push" /\ o.pc # "push" /\ o.pc \notin Buriers
      /\ sampleOp[t].pc \notin Counted /\ o.pc \notin Counted
      /\ sampleOp[t].pc \notin Entering /\ o.pc \notin Entering
      /\ o.pc \notin {"pop sample", "bury sample"}
  BY RecPcs
<1>3. Linked' = Linked /\ InUse' = InUse
  BY <1>0, <1>2, RecPushing DEF InUse
<1>4. RecTypes'
  BY <1>0, <1>1 DEF RecTypes
<1>5. RecDead'
  BY <1>0, RecDeadStays
<1>6. RecLocks'
  BY <1>0, <1>2, RecLocksStay
<1>7. RecOwners'
  BY <1>0, <1>2, <1>3, RecOwnersStay
<1>8. RecLinks'
  BY <1>0, <1>2, RecLinksStay
<1>9. \A closed : NextStaysIn(closed)' <=> NextStaysIn(closed)
  BY DEF NextStaysIn
<1>10. ASSUME NEW r \in Threads
       PROVE  /\ must'[r] \subseteq InUse'
              /\ sampleOp'[r].pc \in Visitors => Ahead(r)'
              /\ sampleOp'[r].pc = "pass" => sampleOp'[r].sample \notin must'[r]
              /\ sampleOp'[r].pc = "visited all" => must'[r] = {}
  <2> HIDE DEF NextStaysIn, Visitors
  <2>1. CASE r = t
    <3>1. sampleOp'[r].pc \in Visitors => Ahead(r)'
      BY <1>1, <1>3, <1>9, <2>1 DEF Ahead
    <3> QED
      BY <1>1, <1>3, <2>1, <3>1
  <2>2. CASE r # t
    <3>1. sampleOp'[r] = sampleOp[r] /\ must'[r] = must[r]
      BY <1>1, <2>2
    <3>2. ASSUME Ahead(r) PROVE Ahead(r)'
      BY <1>3, <1>9, <3>1, <3>2 DEF Ahead
    <3> HIDE DEF Ahead
    <3> QED
      BY <1>0, <1>3, <3>1, <3>2 DEF RecVisits
  <2> QED
    BY <2>1, <2>2
<1>11. RecVisits'
  BY <1>10 DEF RecVisits
<1>12. RecSizes'
  <2>1. /\ Cardinality(At(Counted)') = Cardinality(At(Counted))
        /\ Cardinality(At(Entering)') = Cardinality(At(Entering))
    BY <1>0, <1>2, RecCount
  <2> QED
    BY <1>0, <1>3, <2>1 DEF RecSizes
<1> QED
  BY <1>4, <1>5, <1>6, <1>7, <1>8, <1>11, <1>12 DEF RecInv

LEMMA RecIterate == ASSUME RecInv, NEW t \in Threads, Recorder!Iterate(t) PROVE RecInv'
<1>0. /\ RecTypes /\ RecOwners /\ RecLinks
  BY DEF RecInv
<1>1. /\ sampleOp[t] = [pc |-> "idle"] /\ must' = [must EXCEPT ![t] = InUse]
      /\ UNCHANGED <<size_estimate_, all_, next, dead, init_mu, created, users>>
  BY DEF Recorder!Iterate, Recorder!Idle, Recorder!list, InUse
<1>2. InUse \subseteq Samples
  BY DEF InUse
<1>3. /\ must' \in [Threads -> SUBSET Samples] /\ must'[t] = InUse
      /\ \A r \in Threads : r # t => must'[r] = must[r]
      /\ must'[t] \subseteq InUse /\ sampleOp[t].pc = "idle"
      /\ DOMAIN init_mu' = DOMAIN init_mu /\ init_mu'[graveyard_] = init_mu[graveyard_]
  BY <1>0, <1>1, <1>2 DEF RecTypes
<1>4. CASE all_ = None
  <2> DEFINE o == [pc |-> "idle"]
  <2>1. sampleOp' = sampleOp
    BY <1>4 DEF Recorder!Iterate
  <2>2. RecMoves(t, o) /\ o.pc = "idle"
    BY <1>0, <1>1, <2>1 DEF RecMoves, RecOps, RecTypes
  <2> HIDE DEF o
  <2>3. o.pc \notin Visitors
    BY <2>2 DEF Visitors
  <2> QED
    BY <1>1, <1>3, <2>2, <2>3, RecVisitorMoves
<1>5. CASE all_ # None
  <2> DEFINE o == [pc |-> "at", sample |-> all_]
  <2>1. all_ \in Linked /\ all_ \in Samples
    BY <1>0, <1>5 DEF RecLinks, RecTypes
  <2>2. RecMoves(t, o) /\ o.pc = "at" /\ o.sample = all_
    BY <1>5, <2>1 DEF RecMoves, RecOps, Recorder!Iterate, Recorder!GotoWith
  <2> HIDE DEF o
  <2>3. InUse \subseteq Linked
    BY <1>0 DEF RecOwners, InUse
  <2>4. \A closed \in SUBSET Linked :
          o.sample \in closed /\ NextStaysIn(closed) => must'[t] \subseteq closed
    <3> HIDE DEF NextStaysIn
    <3> QED
      BY <1>0, <1>3, <2>2, <2>3 DEF RecLinks
  <2> QED
    BY <1>1, <1>3, <2>1, <2>2, <2>4, RecVisitorMoves
<1> QED
  BY <1>4, <1>5

LEMMA RecVisit == ASSUME RecInv, NEW t \in Threads, Recorder!Visit(t) PROVE RecInv'
<1>0. /\ RecTypes /\ RecOwners /\ RecVisits
  BY DEF RecInv
<1>1. /\ sampleOp[t].pc = "at" /\ init_mu' = [init_mu EXCEPT ![sampleOp[t].sample] = t]
      /\ UNCHANGED <<size_estimate_, all_, next, dead, created, users, must>>
  BY DEF Recorder!Visit, Recorder!list
<1>2. sampleOp[t].sample \in Samples
  BY <1>0, <1>1 DEF RecTypes, RecOps
<1>3. DOMAIN init_mu' = DOMAIN init_mu /\ init_mu'[graveyard_] = init_mu[graveyard_]
  BY <1>1, <1>2, RecConstants
<1>4. \E o \in RecOps : /\ RecMoves(t, o) /\ o.pc \in {"visit", "pass"}
                        /\ o.sample = sampleOp[t].sample
                        /\ o.pc = "pass" => dead[o.sample] # None
  <2>1. CASE dead[sampleOp[t].sample] = None
    <3> DEFINE o == [pc |-> "visit", sample |-> sampleOp[t].sample]
    <3>1. RecMoves(t, o) /\ o.pc = "visit" /\ o.sample = sampleOp[t].sample /\ o \in RecOps
      BY <1>2, <2>1 DEF RecMoves, RecOps, Recorder!Visit, Recorder!GotoWith
    <3> HIDE DEF o
    <3> QED
      BY <3>1
  <2>2. CASE dead[sampleOp[t].sample] # None
    <3> DEFINE o == [pc |-> "pass", sample |-> sampleOp[t].sample]
    <3>1. RecMoves(t, o) /\ o.pc = "pass" /\ o.sample = sampleOp[t].sample /\ o \in RecOps
      BY <1>2, <2>2 DEF RecMoves, RecOps, Recorder!Visit, Recorder!GotoWith
    <3> HIDE DEF o
    <3> QED
      BY <2>2, <3>1
  <2> QED
    BY <2>1, <2>2
<1>5. PICK o \in RecOps : /\ RecMoves(t, o) /\ o.pc \in {"visit", "pass"}
                          /\ o.sample = sampleOp[t].sample
                          /\ o.pc = "pass" => dead[o.sample] # None
  BY <1>4
<1>6. must[t] \subseteq InUse /\ Ahead(t) /\ must \in [Threads -> SUBSET Samples]
  BY <1>0, <1>1, RecPcs DEF RecVisits, RecTypes
<1>7. o.pc = "pass" => o.sample \notin must'[t]
  BY <1>0, <1>1, <1>2, <1>5, <1>6 DEF RecOwners, InUse
<1>8. /\ o.sample \in Linked
      /\ \A closed \in SUBSET Linked :
           o.sample \in closed /\ NextStaysIn(closed) => must'[t] \subseteq closed
  <2> HIDE DEF NextStaysIn
  <2> QED
    BY <1>1, <1>5, <1>6 DEF Ahead
<1>9. must' \in [Threads -> SUBSET Samples] /\ must'[t] \subseteq InUse
      /\ \A r \in Threads : r # t => must'[r] = must[r]
  BY <1>1, <1>6
<1> QED
  BY <1>1, <1>3, <1>5, <1>7, <1>8, <1>9, RecVisitorMoves

LEMMA RecAdvance == ASSUME RecInv, NEW t \in Threads, Recorder!Advance(t) PROVE RecInv'
<1>0. /\ RecTypes /\ RecLinks /\ RecVisits
  BY DEF RecInv
<1>1. /\ sampleOp[t].pc \in {"visit", "pass"}
      /\ UNCHANGED <<size_estimate_, all_, next, dead, created, users>>
  BY DEF Recorder!Advance, Recorder!list
<1>2. sampleOp[t].sample \in Samples
  BY <1>0, <1>1 DEF RecTypes, RecOps
<1>3. PICK s \in Samples : s = sampleOp[t].sample
  BY <1>2
<1>4. /\ init_mu' = [init_mu EXCEPT ![s] = None]
      /\ must' = [must EXCEPT ![t] = IF sampleOp[t].pc = "visit" THEN @ \ {s} ELSE @]
  BY <1>3 DEF Recorder!Advance
<1>5. DOMAIN init_mu' = DOMAIN init_mu /\ init_mu'[graveyard_] = init_mu[graveyard_]
  BY <1>4, RecConstants
<1>6. /\ must[t] \subseteq InUse /\ Ahead(t) /\ (sampleOp[t].pc = "pass" => s \notin must[t])
      /\ must \in [Threads -> SUBSET Samples]
  BY <1>0, <1>1, <1>3, RecPcs DEF RecVisits, RecTypes
<1>7. /\ must'[t] = must[t] \ {s} /\ must' \in [Threads -> SUBSET Samples]
      /\ \A r \in Threads : r # t => must'[r] = must[r]
  BY <1>1, <1>4, <1>6
<1>8. /\ s \in Linked
      /\ \A closed \in SUBSET Linked : s \in closed /\ NextStaysIn(closed) => must[t] \subseteq closed
  BY <1>3, <1>6 DEF Ahead
<1>9. CASE next[s] = None
  <2> DEFINE o == [pc |-> "visited all"]
             only == {s}
  <2>1. RecMoves(t, o) /\ o.pc = "visited all"
    BY <1>3, <1>9 DEF RecMoves, RecOps, Recorder!Advance, Recorder!Goto
  <2>2. only \in SUBSET Linked /\ s \in only /\ NextStaysIn(only)
    BY <1>8, <1>9 DEF NextStaysIn
  <2> HIDE DEF o, only, NextStaysIn
  <2>3. must[t] \subseteq only
    BY <1>8, <2>2
  <2>4. must'[t] = {}
    BY <1>7, <2>3 DEF only
  <2>5. o.pc \notin Visitors
    BY <2>1 DEF Visitors
  <2> QED
    BY <1>1, <1>5, <1>7, <2>1, <2>4, <2>5, RecVisitorMoves
<1>10. CASE next[s] # None
  <2> DEFINE o == [pc |-> "at", sample |-> next[s]]
  <2>1. next[s] \in Linked /\ next[s] \in Samples
    BY <1>0, <1>10 DEF RecLinks, RecTypes
  <2>2. RecMoves(t, o) /\ o.pc = "at" /\ o.sample = next[s]
    BY <1>3, <1>10, <2>1 DEF RecMoves, RecOps, Recorder!Advance, Recorder!GotoWith
  <2> HIDE DEF o
  <2>3. ASSUME NEW closed \in SUBSET Linked, o.sample \in closed, NextStaysIn(closed)
        PROVE  must'[t] \subseteq closed
    <3> DEFINE more == closed \cup {s}
    <3>1. more \in SUBSET Linked /\ s \in more /\ NextStaysIn(more)
      BY <1>8, <2>2, <2>3 DEF NextStaysIn
    <3> HIDE DEF more, NextStaysIn
    <3>2. must[t] \subseteq more
      BY <1>8, <3>1
    <3> QED
      BY <1>7, <3>2 DEF more
  <2>4. must'[t] \subseteq InUse /\ o.sample \in Linked
    BY <1>6, <1>7, <2>1, <2>2
  <2>5. \A closed \in SUBSET Linked :
          o.sample \in closed /\ NextStaysIn(closed) => must'[t] \subseteq closed
    BY <2>3
  <2> HIDE DEF NextStaysIn
  <2> QED
    BY <1>1, <1>5, <1>7, <2>2, <2>4, <2>5, RecVisitorMoves
<1> QED
  BY <1>9, <1>10

LEMMA RecEndIterate == ASSUME RecInv, NEW t \in Threads, Recorder!EndIterate(t) PROVE RecInv'
<1>1. /\ sampleOp[t].pc = "visited all" /\ must' = [must EXCEPT ![t] = {}]
      /\ UNCHANGED <<size_estimate_, all_, next, dead, init_mu, created, users>>
      /\ must \in [Threads -> SUBSET Samples]
  BY DEF Recorder!EndIterate, Recorder!list, RecInv, RecTypes
<1> DEFINE o == [pc |-> "idle"]
<1>2. RecMoves(t, o) /\ o.pc = "idle"
  BY DEF RecMoves, RecOps, Recorder!EndIterate, Recorder!Goto
<1> HIDE DEF o
<1>3. /\ must' \in [Threads -> SUBSET Samples] /\ must'[t] = {}
      /\ \A r \in Threads : r # t => must'[r] = must[r]
  BY <1>1
<1>4. o.pc \notin Visitors
  BY <1>2 DEF Visitors
<1> QED
  BY <1>1, <1>2, <1>3, <1>4, RecVisitorMoves

LEMMA RecStep == ASSUME RecInv, Recorder!Next PROVE RecInv'
<1>1. PICK t \in Threads :
        \/ Recorder!Register(t) \/ Recorder!Drop(t) \/ Recorder!LockGraveyard(t) \/ Recorder!PopDead(t) \/ Recorder!New(t)
        \/ Recorder!PushNew(t) \/ Recorder!EndRegister(t)
        \/ (\E s \in Samples : Recorder!Unregister(t, s)) \/ Recorder!BuryLock(t) \/ Recorder!PushDead(t)
        \/ Recorder!EndUnregister(t)
        \/ Recorder!Iterate(t) \/ Recorder!Visit(t) \/ Recorder!Advance(t) \/ Recorder!EndIterate(t)
  BY Zenon DEF Recorder!Next
<1>2. Recorder!Register(t) => RecInv'
  BY RecRegister
<1>3. Recorder!Drop(t) \/ Recorder!EndUnregister(t) => RecInv'
  BY RecCountDown
<1>4. Recorder!LockGraveyard(t) => RecInv'
  BY RecLockGraveyard
<1>5. Recorder!PopDead(t) => RecInv'
  BY RecPopDead
<1>6. Recorder!New(t) => RecInv'
  BY RecNew
<1>7. Recorder!PushNew(t) => RecInv'
  BY RecPushNew
<1>8. Recorder!EndRegister(t) => RecInv'
  BY RecEndRegister
<1>9. \A s \in Samples : Recorder!Unregister(t, s) => RecInv'
  BY RecUnregister
<1>10. Recorder!BuryLock(t) => RecInv'
  BY RecBuryLock
<1>11. Recorder!PushDead(t) => RecInv'
  BY RecPushDead
<1>12. Recorder!Iterate(t) => RecInv'
  BY RecIterate
<1>13. Recorder!Visit(t) => RecInv'
  BY RecVisit
<1>14. Recorder!Advance(t) => RecInv'
  BY RecAdvance
<1>15. Recorder!EndIterate(t) => RecInv'
  BY RecEndIterate
<1> QED
  BY <1>1, <1>2, <1>3, <1>4, <1>5, <1>6, <1>7, <1>8, <1>9, <1>10, <1>11, <1>12, <1>13, <1>14,
     <1>15, Zenon

LEMMA RecStands == ASSUME RecInv, UNCHANGED recorder PROVE RecInv'
<1>1. UNCHANGED <<size_estimate_, all_, next, dead, init_mu, created, users, sampleOp, must>>
  BY DEF recorder
<1>2. RecTypes' /\ RecDead' /\ RecLocks'
  BY <1>1 DEF RecInv, RecTypes, RecDead, RecLocks, Ring, DeadStaysIn
<1>3. RecOwners' /\ RecLinks'
  BY <1>1 DEF RecInv, RecOwners, RecLinks, Linked, Pushing, NextStaysIn
<1>4. RecVisits'
  <2>1. InUse' = InUse /\ Linked' = Linked
    BY <1>1 DEF InUse, Linked, Pushing
  <2>2. \A t \in Threads : Ahead(t)' <=> Ahead(t)
    BY <1>1, <2>1 DEF Ahead, NextStaysIn
  <2> QED
    BY <1>1, <2>1, <2>2 DEF RecInv, RecVisits
<1>5. RecSizes'
  BY <1>1 DEF RecInv, RecSizes, InUse, At
<1> QED
  BY <1>2, <1>3, <1>4, <1>5 DEF RecInv

LEMMA RecProperties ==
  ASSUME RecInv
  PROVE  Recorder!VisitsWhatStays /\ Recorder!OneUserOrBuried /\ Recorder!SoftLimit /\ Recorder!EstimateIsExact
<1>1. RecTypes /\ RecDead /\ RecOwners /\ RecVisits /\ RecSizes
  BY DEF RecInv
<1>2. Recorder!VisitsWhatStays
  BY <1>1 DEF RecVisits, Recorder!VisitsWhatStays
<1>3. \A S : Recorder!Cardinality(S) = Cardinality(S)
  BY DEF Recorder!Cardinality, Cardinality, Recorder!IsFiniteSet, IsFiniteSet
<1>4. Recorder!Buried = {s \in Samples : dead[s] # None}
  <2>1. Recorder!Buried = {s \in Samples : \A closed \in SUBSET RecNodes : DeadStaysIn(closed) => s \in closed}
    BY DEF Recorder!Buried, Recorder!Nodes, RecNodes, DeadStaysIn
  <2>2. Ring \in SUBSET RecNodes /\ DeadStaysIn(Ring)
    BY <1>1 DEF RecDead, DeadStaysIn, Ring
  <2>3. \A s \in Samples : s \in Ring <=> dead[s] # None
    BY DEF Ring, RecNodes
  <2>4. \A closed \in SUBSET RecNodes : DeadStaysIn(closed) => Ring \subseteq closed
    BY <1>1 DEF RecDead
  <2> HIDE DEF Ring, DeadStaysIn
  <2> QED
    BY <2>1, <2>2, <2>3, <2>4
<1>5. \A s \in Samples : Cardinality(users[s]) <= 1
  <2>1. \A s \in Samples : users[s] = {} \/ \E t \in Threads : users[s] = {t}
    BY <1>1 DEF RecOwners
  <2>2. Cardinality({}) = 0 /\ \A t \in Threads : Cardinality({t}) = 1
    BY FS_EmptySet, FS_Singleton
  <2> QED
    BY <2>1, <2>2
<1>6. Recorder!OneUserOrBuried
  BY <1>1, <1>3, <1>4, <1>5 DEF Recorder!OneUserOrBuried, RecOwners
<1>7. Recorder!SoftLimit
  BY <1>1, <1>3, RecBounds, RecConstants DEF Recorder!SoftLimit, RecSizes, InUse
<1>8. Recorder!EstimateIsExact
  <2> SUFFICES ASSUME \A t \in Threads :
                        sampleOp[t].pc \in {"idle", "using", "at", "visit", "pass", "visited all"}
               PROVE  size_estimate_ = Cardinality(InUse)
    BY <1>3 DEF Recorder!EstimateIsExact, InUse
  <2>1. At(Counted) = {}
    BY RecPcs DEF At
  <2>2. Cardinality(At(Counted)) = 0
    BY <2>1, FS_EmptySet
  <2>3. Cardinality(InUse) \in Nat
    BY <1>1, RecBounds
  <2>4. size_estimate_ = Cardinality(InUse) + Cardinality(At(Counted))
    BY <1>1 DEF RecSizes
  <2> QED
    BY ONLY <2>2, <2>3, <2>4
<1> QED
  BY <1>2, <1>6, <1>7, <1>8

(***************************************************************************)
(* StatusRep.                                                              *)

StWords ==
  [code : Codes, message : Messages, payload : Payloads \cup {NoPayload}, moved : BOOLEAN]
StReps ==
  [code : Codes, message : Messages, payload : Payloads \cup {NoPayload}, ref : Nat]

StPlain(w) == w.message = NoMessage /\ w.payload = NoPayload

\* What is inlined: a code, or what a moved object is.
StInlined == {w \in StWords : StPlain(w) /\ (w.moved => w.code = "internal")}

StOps ==
  {[pc |-> "idle"]}
  \cup [pc : {"copy", "unref", "decrement", "prepare", "clone", "write"},
        this : Objects \cup {None}, from : Objects \cup {None}, was : StWords \cup {None},
        old : Reps \cup StInlined \cup {None}, todo : Payloads \cup {NoPayload, None},
        new : Reps \cup {None}]

StTypes ==
  /\ status \in [Objects -> Reps \cup StInlined \cup {None}]
  /\ statusHeap \in [Reps -> StReps \cup {None}]
  /\ statusOp \in [Threads -> StOps]

\* Comparing words compares values: nothing that can be inlined has a representation.
StCanonical ==
  \A r \in Reps : statusHeap[r] # None => statusHeap[r].code # "ok" /\ ~StPlain(statusHeap[r])

StBusy(t) == statusOp[t].pc # "idle"

\* An object is changed by one thread, and not while it is copied.
StAloneOf(t) ==
  /\ \A q \in Threads :
       StBusy(q) /\ statusOp[t].this # None /\ statusOp[t].this = statusOp[q].this => q = t
  /\ IF statusOp[t].pc = "copy"
     THEN /\ statusOp[t].this \in Objects /\ statusOp[t].from \in Objects
          /\ status[statusOp[t].from] # None
          /\ status[statusOp[t].from] # status[statusOp[t].this]
          /\ \A q \in Threads : StBusy(q) => statusOp[q].this # statusOp[t].from
     ELSE statusOp[t].from = None
StAlone == \A t \in Threads : StBusy(t) => StAloneOf(t)

\* The contents of a representation or None.
StContents(r) == Status!Contents(statusHeap[r])

\* Where a thread is.
StShapeOf(t) ==
  LET o == statusOp[t] IN
  /\ o.new # None => o.todo # None /\ o.this \in Objects /\ o.pc \in {"unref", "decrement", "write"}
  /\ o.pc \in {"unref", "decrement"} => (o.todo = None <=> o.new = None)
  /\ o.pc \in {"unref", "decrement"} /\ o.new # None => o.new # status[o.this]
  /\ o.pc = "decrement" => o.old \in Reps
  /\ o.pc = "write" => o.new # None
  /\ o.pc = "copy" => o.todo = None
  /\ o.pc \in {"prepare", "clone"} => o.this \in Objects /\ status[o.this] \in Reps /\ o.todo # None
StShape == \A t \in Threads : StBusy(t) => StShapeOf(t)

\* The object that a thread changes, or will make point to a clone, has the value it had; a
\* clone, and what is about to be changed, is that thread's alone.
StKeepsOf(t) ==
  LET o == statusOp[t] IN
  /\ o.new # None =>
       statusHeap[o.new] # None /\ statusHeap[o.new].ref = 1 /\ StContents(o.new) = o.was
  /\ o.pc \notin {"copy", "write"} /\ o.new = None /\ o.this # None =>
       status[o.this] # None /\ Status!ValueOf(o.this) = o.was
StKeeps == \A t \in Threads : StBusy(t) => StKeepsOf(t)

StHolders(r) == Cardinality(Status!Holders(r)) + Cardinality(Status!Owed(r)) + Cardinality(Status!Pending(r))
StCounts ==
  \A r \in Reps :
    IF statusHeap[r] = None THEN Status!Holders(r) = {} /\ Status!Owed(r) = {} /\ Status!Pending(r) = {}
    ELSE statusHeap[r].ref > 0 /\ statusHeap[r].ref = StHolders(r)

StInv == StTypes /\ StCanonical /\ StAlone /\ StShape /\ StKeeps /\ StCounts

LEMMA StConstants ==
  /\ None \notin Reps /\ None \notin Objects /\ None \notin Payloads /\ None # NoPayload
  /\ None \notin StWords /\ None \notin StReps /\ Reps \cap StWords = {} /\ Reps \cap StInlined = {}
  /\ StInlined \subseteq StWords
  /\ NoPayload \notin Payloads /\ NoMessage \in Messages /\ "ok" \in Codes /\ "internal" \in Codes
  /\ IsFiniteSet(Objects) /\ IsFiniteSet(Threads)
<1>1. Status!StatusRepAssumption
  BY SharingAssumption
<1>2. /\ None \notin Reps /\ None \notin Objects /\ None \notin Payloads /\ None # NoPayload
      /\ None \notin StWords /\ None \notin StReps /\ Reps \cap StWords = {}
  BY <1>1 DEF Status!StatusRepAssumption, StWords, StReps
<1>3. NoPayload \notin Payloads /\ NoMessage \in Messages /\ "ok" \in Codes /\ "internal" \in Codes
  BY <1>1 DEF Status!StatusRepAssumption, Status!Value!StatusValueAssumption
<1>4. IsFiniteSet(Objects) /\ IsFiniteSet(Threads)
  BY <1>1 DEF Status!StatusRepAssumption, Status!IsFiniteSet, IsFiniteSet
<1>5. StInlined \subseteq StWords
  BY DEF StInlined
<1> QED
  BY <1>2, <1>3, <1>4, <1>5

LEMMA StInit == Status!Init => StInv
<1> SUFFICES ASSUME Status!Init PROVE StInv
  OBVIOUS
<1>1. /\ status = [o \in Objects |-> None] /\ statusHeap = [r \in Reps |-> None]
      /\ statusOp = [t \in Threads |-> [pc |-> "idle"]]
  BY DEF Status!Init, Status!Idle
<1>2. \A t \in Threads : statusOp[t].pc = "idle"
  BY <1>1
<1>3. StTypes
  BY <1>1 DEF StTypes, StOps
<1>4. StCanonical
  BY <1>1 DEF StCanonical
<1>5. StAlone /\ StShape /\ StKeeps
  BY <1>2 DEF StAlone, StAloneOf, StShape, StKeeps, StBusy
<1>6. StCounts
  BY <1>1, <1>2, StConstants DEF StCounts, Status!Holders, Status!Owed, Status!Pending
<1> QED
  BY <1>3, <1>4, <1>5, <1>6 DEF StInv

LEMMA StFinite ==
  ASSUME NEW r
  PROVE  /\ IsFiniteSet(Status!Holders(r)) /\ IsFiniteSet(Status!Owed(r)) /\ IsFiniteSet(Status!Pending(r))
         /\ IsFiniteSet(Status!Holders(r)') /\ IsFiniteSet(Status!Owed(r)') /\ IsFiniteSet(Status!Pending(r)')
         /\ Cardinality(Status!Holders(r)) \in Nat /\ Cardinality(Status!Owed(r)) \in Nat
         /\ Cardinality(Status!Pending(r)) \in Nat
         /\ Cardinality(Status!Holders(r)') \in Nat /\ Cardinality(Status!Owed(r)') \in Nat
         /\ Cardinality(Status!Pending(r)') \in Nat
<1>1. /\ Status!Holders(r) \subseteq Objects /\ Status!Owed(r) \subseteq Threads /\ Status!Pending(r) \subseteq Threads
      /\ Status!Holders(r)' \subseteq Objects /\ Status!Owed(r)' \subseteq Threads
      /\ Status!Pending(r)' \subseteq Threads
  BY DEF Status!Holders, Status!Owed, Status!Pending
<1>2. /\ IsFiniteSet(Status!Holders(r)) /\ IsFiniteSet(Status!Owed(r)) /\ IsFiniteSet(Status!Pending(r))
      /\ IsFiniteSet(Status!Holders(r)') /\ IsFiniteSet(Status!Owed(r)') /\ IsFiniteSet(Status!Pending(r)')
  BY <1>1, StConstants, FS_Subset
<1> QED
  BY <1>2, FS_CardinalityType

\* Of three finite sets that have one element together, the others are empty.
LEMMA StOnly ==
  ASSUME NEW A, NEW B, NEW C, IsFiniteSet(A), IsFiniteSet(B), IsFiniteSet(C), NEW a \in A,
         Cardinality(A) + Cardinality(B) + Cardinality(C) = 1
  PROVE  A = {a} /\ B = {} /\ C = {}
<1>1. Cardinality(A) \in Nat /\ Cardinality(B) \in Nat /\ Cardinality(C) \in Nat
  BY FS_CardinalityType
<1>2. IsFiniteSet(A \ {a}) /\ Cardinality(A \ {a}) = Cardinality(A) - 1
  BY FS_RemoveElement
<1>3. Cardinality(A \ {a}) \in Nat
  BY <1>2, FS_CardinalityType
<1>4. Cardinality(A \ {a}) = 0 /\ Cardinality(B) = 0 /\ Cardinality(C) = 0
  BY <1>1, <1>2, <1>3
<1> QED
  BY <1>2, <1>4, FS_EmptySet

\* A count of one has one holder.
LEMMA StSole ==
  ASSUME StCounts, NEW r \in Reps, statusHeap[r] # None, statusHeap[r].ref = 1
  PROVE  /\ \A o \in Status!Holders(r) : Status!Holders(r) = {o} /\ Status!Owed(r) = {} /\ Status!Pending(r) = {}
         /\ \A t \in Status!Owed(r) : Status!Holders(r) = {} /\ Status!Owed(r) = {t} /\ Status!Pending(r) = {}
         /\ \A t \in Status!Pending(r) : Status!Holders(r) = {} /\ Status!Owed(r) = {} /\ Status!Pending(r) = {t}
<1>1. Cardinality(Status!Holders(r)) + Cardinality(Status!Owed(r)) + Cardinality(Status!Pending(r)) = 1
  BY DEF StCounts, StHolders
<1> DEFINE A == Status!Holders(r)
           B == Status!Owed(r)
           C == Status!Pending(r)
<1>2. /\ IsFiniteSet(A) /\ IsFiniteSet(B) /\ IsFiniteSet(C)
      /\ Cardinality(A) \in Nat /\ Cardinality(B) \in Nat /\ Cardinality(C) \in Nat
  BY StFinite
<1>3. /\ Cardinality(A) + Cardinality(B) + Cardinality(C) = 1
      /\ Cardinality(B) + Cardinality(A) + Cardinality(C) = 1
      /\ Cardinality(C) + Cardinality(A) + Cardinality(B) = 1
  BY <1>1, <1>2
<1> HIDE DEF A, B, C
<1>4. /\ \A o \in A : A = {o} /\ B = {} /\ C = {}
      /\ \A t \in B : A = {} /\ B = {t} /\ C = {}
      /\ \A t \in C : A = {} /\ B = {} /\ C = {t}
  BY ONLY <1>2, <1>3, StOnly
<1> QED
  BY <1>4 DEF A, B, C

\* A representation that a thread is about to put into its object is that thread's alone.
LEMMA StMine ==
  ASSUME StInv, NEW t \in Threads, StBusy(t), statusOp[t].new # None
  PROVE  LET r == statusOp[t].new IN
         /\ r \in Reps /\ statusHeap[r] # None /\ statusHeap[r].ref = 1
         /\ \A q \in Threads : StBusy(q) /\ statusOp[q].new = r => q = t
         /\ Status!Owed(r) = {}
         /\ Status!Holders(r) \subseteq {statusOp[t].this}
         /\ status[statusOp[t].this] = r => Status!Holders(r) = {statusOp[t].this} /\ Status!Pending(r) = {}
         /\ status[statusOp[t].this] # r => Status!Holders(r) = {} /\ Status!Pending(r) = {t}
<1>0. StTypes /\ StAlone /\ StShape /\ StKeeps /\ StCounts
  BY DEF StInv
<1>1. statusOp[t].new \in Reps
  BY <1>0 DEF StTypes, StOps, StBusy
<1>2. PICK r \in Reps : r = statusOp[t].new
  BY <1>1
<1>3. statusHeap[r] # None /\ statusHeap[r].ref = 1
  BY <1>0, <1>2 DEF StKeeps, StKeepsOf
\* Whoever has r as new is pending, or its object holds r.
<1>4. ASSUME NEW q \in Threads, StBusy(q), statusOp[q].new = r
      PROVE  /\ statusOp[q].this \in Objects
             /\ status[statusOp[q].this] # r => q \in Status!Pending(r)
             /\ status[statusOp[q].this] = r => statusOp[q].this \in Status!Holders(r)
  <2>1. statusOp[q].this \in Objects /\ statusOp[q].pc \in {"unref", "decrement", "write"}
    BY <1>0, <1>4, StConstants DEF StShape, StShapeOf
  <2>2. \A p \in Threads : StBusy(p) /\ statusOp[p].this = statusOp[q].this => p = q
    BY <1>0, <1>4, <2>1, StConstants DEF StAlone, StAloneOf
  <2>3. status[statusOp[q].this] # r => q \in Status!Pending(r)
    BY <1>4, <2>1 DEF Status!Pending
  <2>4. status[statusOp[q].this] = r => statusOp[q].this \in Status!Holders(r)
    BY <1>4, <2>1, <2>2 DEF Status!Holders, Status!Released, Status!Changing, StBusy
  <2> QED
    BY <2>1, <2>3, <2>4
<1>5. ASSUME NEW q \in Threads, StBusy(q), statusOp[q].new = r PROVE q = t
  <2>1. /\ statusOp[q].this \in Objects /\ statusOp[t].this \in Objects
        /\ statusOp[q].this = statusOp[t].this => q = t
    BY <1>0, <1>2, <1>4, <1>5, StConstants DEF StAlone, StAloneOf
  <2> QED
    BY <1>2, <1>3, <1>4, <1>5, <2>1, <1>0, StSole
<1>6. /\ status[statusOp[t].this] = r =>
           Status!Holders(r) = {statusOp[t].this} /\ Status!Pending(r) = {} /\ Status!Owed(r) = {}
      /\ status[statusOp[t].this] # r =>
           Status!Holders(r) = {} /\ Status!Pending(r) = {t} /\ Status!Owed(r) = {}
  BY <1>0, <1>2, <1>3, <1>4, StSole
<1>7. Status!Owed(r) = {} /\ Status!Holders(r) \subseteq {statusOp[t].this}
  BY <1>6
<1> QED
  BY <1>2, <1>3, <1>5, <1>6, <1>7

\* What is not being changed holds its representation.
LEMMA StHeld ==
  ASSUME StInv, NEW o \in Objects, status[o] \in Reps,
         \A t \in Threads : StBusy(t) /\ statusOp[t].this = o => statusOp[t].new = None
  PROVE  o \in Status!Holders(status[o]) /\ statusHeap[status[o]] # None
<1>1. o \in Status!Holders(status[o])
  BY DEF Status!Holders, Status!Released, Status!Changing, StBusy
<1> QED
  BY <1>1 DEF StInv, StCounts

-----------------------------------------------------------------------------
\* A step of thread t, in which only objects in changed change.
StTurn(t, changed) ==
  /\ StTypes'
  /\ \A o \in Objects \ changed : status'[o] = status[o]
  /\ \A q \in Threads \ {t} :
       /\ statusOp'[q] = statusOp[q]
       /\ StBusy(q) => /\ statusOp[q].this \notin changed
                       /\ statusOp[q].pc = "copy" => statusOp[q].from \notin changed
  /\ StBusy(t) => statusOp[t].this \in changed \cup {None}
  /\ StBusy(t)' => statusOp'[t].this \in changed \cup {None}

LEMMA StSets ==
  ASSUME StInv, NEW t \in Threads, NEW changed \in SUBSET Objects, StTurn(t, changed), NEW r \in Reps
  PROVE  /\ \A o \in Objects \ changed : o \in Status!Holders(r)' <=> o \in Status!Holders(r)
         /\ \A q \in Threads \ {t} : /\ q \in Status!Owed(r)' <=> q \in Status!Owed(r)
                                     /\ q \in Status!Pending(r)' <=> q \in Status!Pending(r)
         /\ \A o \in changed :
              /\ o \in Status!Holders(r) <=>
                   /\ status[o] = r
                   /\ ~(StBusy(t) /\ statusOp[t].this = o /\ statusOp[t].new \notin {None, r})
              /\ o \in Status!Holders(r)' <=>
                   /\ status'[o] = r
                   /\ ~(StBusy(t)' /\ statusOp'[t].this = o /\ statusOp'[t].new \notin {None, r})
         /\ t \in Status!Owed(r) <=> statusOp[t].pc \in {"unref", "decrement"} /\ statusOp[t].old = r
         /\ t \in Status!Owed(r)' <=> statusOp'[t].pc \in {"unref", "decrement"} /\ statusOp'[t].old = r
         /\ t \in Status!Pending(r) <=> /\ statusOp[t].pc \in {"unref", "decrement", "write"}
                                   /\ statusOp[t].new = r /\ status[statusOp[t].this] # r
         /\ t \in Status!Pending(r)' <=> /\ statusOp'[t].pc \in {"unref", "decrement", "write"}
                                    /\ statusOp'[t].new = r /\ status'[statusOp'[t].this] # r
         /\ Status!Holders(r) \subseteq Objects /\ Status!Owed(r) \subseteq Threads
         /\ Status!Pending(r) \subseteq Threads
         /\ Status!Holders(r)' \subseteq Objects /\ Status!Owed(r)' \subseteq Threads
         /\ Status!Pending(r)' \subseteq Threads
<1> USE DEF StBusy
<1>1. \A o \in Objects : o \in Status!Holders(r) <=>
        /\ status[o] = r
        /\ \A q \in Threads : ~(StBusy(q) /\ statusOp[q].this = o /\ statusOp[q].new \notin {None, r})
  BY DEF Status!Holders, Status!Released, Status!Changing
<1>2. \A o \in Objects : o \in Status!Holders(r)' <=>
        /\ status'[o] = r
        /\ \A q \in Threads :
             ~(StBusy(q)' /\ statusOp'[q].this = o /\ statusOp'[q].new \notin {None, r})
  BY DEF Status!Holders, Status!Released, Status!Changing
<1>3. /\ \A o \in Objects \ changed : status'[o] = status[o]
      /\ \A q \in Threads \ {t} :
           /\ statusOp'[q] = statusOp[q]
           /\ StBusy(q) => statusOp[q].this \notin changed
      /\ StBusy(t) => statusOp[t].this \in changed \cup {None}
      /\ StBusy(t)' => statusOp'[t].this \in changed \cup {None}
  BY DEF StTurn
<1>4. \A o \in Objects \ changed : o \in Status!Holders(r)' <=> o \in Status!Holders(r)
  BY <1>1, <1>2, <1>3, StConstants
<1>5. \A o \in changed :
        /\ o \in Status!Holders(r) <=>
             /\ status[o] = r
             /\ ~(StBusy(t) /\ statusOp[t].this = o /\ statusOp[t].new \notin {None, r})
        /\ o \in Status!Holders(r)' <=>
             /\ status'[o] = r
             /\ ~(StBusy(t)' /\ statusOp'[t].this = o /\ statusOp'[t].new \notin {None, r})
  BY <1>1, <1>2, <1>3, StConstants
<1>6. \A q \in Threads \ {t} : q \in Status!Owed(r)' <=> q \in Status!Owed(r)
  BY <1>3 DEF Status!Owed
\* Who has a clone has an object of its own.
<1>7. \A q \in Threads \ {t} : StBusy(q) /\ statusOp[q].new # None =>
        statusOp[q].this \in Objects \ changed
  BY <1>3 DEF StInv, StShape, StShapeOf
<1>8. \A q \in Threads \ {t} : q \in Status!Pending(r)' <=> q \in Status!Pending(r)
  BY <1>3, <1>7, StConstants DEF Status!Pending
<1>9. /\ t \in Status!Owed(r) <=> statusOp[t].pc \in {"unref", "decrement"} /\ statusOp[t].old = r
      /\ t \in Status!Owed(r)' <=> statusOp'[t].pc \in {"unref", "decrement"} /\ statusOp'[t].old = r
      /\ t \in Status!Pending(r) <=> /\ statusOp[t].pc \in {"unref", "decrement", "write"}
                                /\ statusOp[t].new = r /\ status[statusOp[t].this] # r
      /\ t \in Status!Pending(r)' <=> /\ statusOp'[t].pc \in {"unref", "decrement", "write"}
                                 /\ statusOp'[t].new = r /\ status'[statusOp'[t].this] # r
  BY DEF Status!Owed, Status!Pending
<1>10. /\ Status!Holders(r) \subseteq Objects /\ Status!Owed(r) \subseteq Threads
       /\ Status!Pending(r) \subseteq Threads
       /\ Status!Holders(r)' \subseteq Objects /\ Status!Owed(r)' \subseteq Threads
       /\ Status!Pending(r)' \subseteq Threads
  BY DEF Status!Holders, Status!Owed, Status!Pending
<1> QED
  BY <1>4, <1>5, <1>6, <1>8, <1>9, <1>10

\* The value of an object: what it was, for the thread that changes it.
StValues ==
  \A o \in Objects :
    /\ \A t \in Threads : StBusy(t) /\ statusOp[t].this = o => Status!Val[o] = statusOp[t].was
    /\ (\A t \in Threads : StBusy(t) => statusOp[t].this # o) => Status!Val[o] = Status!ValueOf(o)

LEMMA StVal == StAlone => StValues
<1> SUFFICES ASSUME StAlone, NEW o \in Objects
    PROVE /\ \A t \in Threads : StBusy(t) /\ statusOp[t].this = o => Status!Val[o] = statusOp[t].was
          /\ (\A t \in Threads : StBusy(t) => statusOp[t].this # o) => Status!Val[o] = Status!ValueOf(o)
  BY DEF StValues
<1>1. ASSUME NEW t \in Threads, StBusy(t), statusOp[t].this = o PROVE Status!Val[o] = statusOp[t].was
  <2>1. Status!Changing(o) = {t}
    BY <1>1, StConstants DEF Status!Changing, StAlone, StAloneOf, StBusy
  <2>2. Status!Val[o] = statusOp[CHOOSE q \in {t} : TRUE].was
    BY <2>1 DEF Status!Val
  <2> QED
    BY <2>2
<1>2. ASSUME \A t \in Threads : StBusy(t) => statusOp[t].this # o PROVE Status!Val[o] = Status!ValueOf(o)
  <2>1. Status!Changing(o) = {}
    BY <1>2 DEF Status!Changing, StBusy
  <2> QED
    BY <2>1 DEF Status!Val
<1> QED
  BY <1>1, <1>2

LEMMA StValNext == StAlone' => StValues'
BY StVal, PTL

\* What the others see of a turn of thread t: nothing, if what they hold stays.
LEMMA StOthers ==
  ASSUME StInv, NEW t \in Threads, NEW changed \in SUBSET Objects, StTurn(t, changed),
         \A q \in Threads \ {t} : StBusy(q) /\ statusOp[q].new # None =>
           statusHeap'[statusOp[q].new] = statusHeap[statusOp[q].new],
         \A r \in Reps : \A o \in Status!Holders(r) \ changed :
           statusHeap'[r] # None /\ StContents(r)' = StContents(r)
  PROVE  /\ \A q \in Threads \ {t} : StBusy(q)' => /\ StAloneOf(q)' /\ StShapeOf(q)' /\ StKeepsOf(q)'
         /\ StBusy(t)' /\ statusOp'[t].pc # "copy" /\ statusOp'[t].from = None => StAloneOf(t)'
         /\ StAlone' => \A o \in Objects \ changed : (Status!Val[o])' = Status!Val[o]
<1>0. StTypes /\ StAlone /\ StShape /\ StKeeps
  BY DEF StInv
<1>1. /\ \A o \in Objects \ changed : status'[o] = status[o]
      /\ \A q \in Threads \ {t} :
           /\ statusOp'[q] = statusOp[q] /\ (StBusy(q)' <=> StBusy(q))
           /\ StBusy(q) => /\ statusOp[q].this \notin changed
                           /\ statusOp[q].pc = "copy" => statusOp[q].from \notin changed
      /\ StBusy(t) => statusOp[t].this \in changed \cup {None}
      /\ StBusy(t)' => statusOp'[t].this \in changed \cup {None}
  BY DEF StTurn, StBusy
<1>2. ASSUME NEW q \in Threads \ {t}, StBusy(q) PROVE StAloneOf(q)'
  <2>1. \A p \in Threads :
          StBusy(p)' /\ statusOp'[q].this # None /\ statusOp'[q].this = statusOp'[p].this => p = q
    BY <1>0, <1>1, <1>2 DEF StAlone, StAloneOf
  <2>2. CASE statusOp[q].pc = "copy"
    <3>1. /\ statusOp[q].this \in Objects \ changed /\ statusOp[q].from \in Objects \ changed
          /\ status[statusOp[q].from] # None
          /\ status[statusOp[q].from] # status[statusOp[q].this]
          /\ \A p \in Threads : StBusy(p) => statusOp[p].this # statusOp[q].from
      BY <1>0, <1>1, <1>2, <2>2 DEF StAlone, StAloneOf
    <3>2. \A p \in Threads : StBusy(p)' => statusOp'[p].this # statusOp[q].from
      BY <1>1, <3>1, StConstants
    <3> QED
      BY <1>1, <2>1, <2>2, <3>1, <3>2 DEF StAloneOf
  <2>3. CASE statusOp[q].pc # "copy"
    BY <1>0, <1>1, <1>2, <2>1, <2>3 DEF StAlone, StAloneOf
  <2> QED
    BY <2>2, <2>3
<1>3. ASSUME NEW q \in Threads \ {t}, StBusy(q) PROVE StShapeOf(q)'
  <2>1. statusOp[q].this \in Objects => status'[statusOp[q].this] = status[statusOp[q].this]
    BY <1>1, <1>3
  <2>2. StShapeOf(q) /\ statusOp'[q] = statusOp[q]
    BY <1>0, <1>1, <1>3 DEF StShape
  <2> QED
    BY <2>1, <2>2 DEF StShapeOf
\* An object that keeps its representation keeps its value.
<1>4. ASSUME NEW o \in Objects \ changed,
             \A q \in Threads : StBusy(q) /\ statusOp[q].this = o => statusOp[q].new = None
      PROVE  Status!ValueOf(o)' = Status!ValueOf(o)
  <2>1. CASE status[o] \in Reps
    <3>1. o \in Status!Holders(status[o])
      BY <1>4, <2>1, StHeld
    <3>2. StContents(status[o])' = StContents(status[o])
      <4>1. PICK r \in Reps : r = status[o]
        BY <2>1
      <4>2. StContents(r)' = StContents(r)
        BY <3>1, <4>1
      <4>3. Status!Contents(statusHeap'[r]) = Status!Contents(statusHeap[r])
        BY <4>2 DEF StContents
      <4>4. status'[o] = r
        BY <4>1, <1>1
      <4> QED
        BY <4>1, <4>3, <4>4 DEF StContents
    <3> QED
      BY <1>1, <2>1, <3>2 DEF Status!ValueOf, StContents
  <2>2. CASE status[o] \notin Reps
    BY <1>1, <2>2 DEF Status!ValueOf
  <2> QED
    BY <2>1, <2>2
<1>5. ASSUME NEW q \in Threads \ {t}, StBusy(q) PROVE StKeepsOf(q)'
  <2>1. StKeepsOf(q) /\ statusOp'[q] = statusOp[q]
    BY <1>0, <1>1, <1>5 DEF StKeeps
  <2>2. statusOp[q].new # None => statusHeap'[statusOp[q].new] = statusHeap[statusOp[q].new]
    BY <1>5
  <2>3. statusOp[q].new = None /\ statusOp[q].this # None =>
          /\ Status!ValueOf(statusOp[q].this)' = Status!ValueOf(statusOp[q].this)
          /\ status'[statusOp[q].this] = status[statusOp[q].this]
    <3> SUFFICES ASSUME statusOp[q].new = None, statusOp[q].this # None
        PROVE  /\ Status!ValueOf(statusOp[q].this)' = Status!ValueOf(statusOp[q].this)
               /\ status'[statusOp[q].this] = status[statusOp[q].this]
      OBVIOUS
    <3>1. statusOp[q].this \in Objects \ changed
      BY <1>0, <1>1, <1>5 DEF StTypes, StOps, StBusy
    <3>2. PICK o \in Objects \ changed : o = statusOp[q].this
      BY <3>1
    <3>3. \A p \in Threads : StBusy(p) /\ statusOp[p].this = o => statusOp[p].new = None
      BY <1>0, <1>5, <3>2, StConstants DEF StAlone, StAloneOf
    <3>4. Status!ValueOf(o)' = Status!ValueOf(o) /\ status'[o] = status[o]
      BY <1>1, <1>4, <3>3
    <3>5. statusOp'[q].this = o
      BY <2>1, <3>2
    <3> QED
      BY <3>2, <3>4, <3>5, <2>1 DEF Status!ValueOf
  <2>4. statusOp[q].new # None => StContents(statusOp[q].new)' = StContents(statusOp[q].new)
    BY <2>1, <2>2 DEF StContents
  <2> QED
    BY <2>1, <2>2, <2>3, <2>4 DEF StKeepsOf, StContents, Status!ValueOf
<1>6. StBusy(t)' /\ statusOp'[t].pc # "copy" /\ statusOp'[t].from = None => StAloneOf(t)'
  BY <1>1 DEF StAloneOf
<1>7. ASSUME StAlone', NEW o \in Objects \ changed PROVE (Status!Val[o])' = Status!Val[o]
  <2>1. CASE \E q \in Threads : StBusy(q) /\ statusOp[q].this = o
    <3>1. PICK q \in Threads : StBusy(q) /\ statusOp[q].this = o
      BY <2>1
    <3>2. q # t /\ statusOp'[q] = statusOp[q] /\ StBusy(q)'
      BY <1>1, <3>1, StConstants
    <3>3. Status!Val[o] = statusOp[q].was
      BY <1>0, <3>1, StVal DEF StValues
    <3>4. (Status!Val[o])' = statusOp'[q].was
      BY <1>7, <3>1, <3>2, StValNext DEF StValues
    <3> QED
      BY <3>2, <3>3, <3>4
  <2>2. CASE \A q \in Threads : StBusy(q) => statusOp[q].this # o
    <3>1. Status!Val[o] = Status!ValueOf(o)
      BY <1>0, <2>2, StVal DEF StValues
    <3>2. \A q \in Threads : StBusy(q)' => statusOp'[q].this # o
      BY <1>1, <2>2, StConstants
    <3>3. (Status!Val[o])' = Status!ValueOf(o)'
      BY <1>7, <3>2, StValNext DEF StValues
    <3>4. Status!ValueOf(o)' = Status!ValueOf(o)
      BY <1>4, <2>2
    <3> QED
      BY <3>1, <3>3, <3>4
  <2> QED
    BY <2>1, <2>2
<1> QED
  BY <1>1, <1>2, <1>3, <1>5, <1>6, <1>7

\* A turn of thread t after which all is in order.
LEMMA StTurned ==
  ASSUME StInv, NEW t \in Threads, NEW changed \in SUBSET Objects, StTurn(t, changed),
         \A q \in Threads \ {t} : StBusy(q) /\ statusOp[q].new # None =>
           statusHeap'[statusOp[q].new] = statusHeap[statusOp[q].new],
         \A r \in Reps : \A o \in Status!Holders(r) \ changed :
           statusHeap'[r] # None /\ StContents(r)' = StContents(r),
         StCanonical', StCounts',
         StBusy(t)' => StAloneOf(t)' /\ StShapeOf(t)' /\ StKeepsOf(t)'
  PROVE  StInv' /\ \A o \in Objects \ changed : (Status!Val[o])' = Status!Val[o]
<1>1. /\ \A q \in Threads \ {t} : StBusy(q)' => /\ StAloneOf(q)' /\ StShapeOf(q)' /\ StKeepsOf(q)'
      /\ StAlone' => \A o \in Objects \ changed : (Status!Val[o])' = Status!Val[o]
  BY StOthers
<1>2. \A q \in Threads : StBusy(q)' => /\ StAloneOf(q)' /\ StShapeOf(q)' /\ StKeepsOf(q)'
  BY <1>1
<1>3. StAlone' /\ StShape' /\ StKeeps'
  BY <1>2 DEF StAlone, StShape, StKeeps
<1>4. StTypes'
  BY DEF StTurn
<1> QED
  BY <1>1, <1>3, <1>4 DEF StInv

\* Values that change in one place.
LEMMA StPlaced ==
  ASSUME NEW o \in Objects, NEW v, \A x \in Objects \ {o} : (Status!Val[x])' = Status!Val[x], (Status!Val[o])' = v
  PROVE  Status!Val' = [Status!Val EXCEPT ![o] = v]
<1>1. /\ Status!Val = [x \in Objects |-> Status!Val[x]]
      /\ Status!Val' = [x \in Objects |-> (Status!Val[x])']
  BY DEF Status!Val
<1> QED
  BY <1>1

LEMMA StUnseen ==
  ASSUME \A x \in Objects : (Status!Val[x])' = Status!Val[x]
  PROVE  UNCHANGED Status!Val
<1>1. /\ Status!Val = [x \in Objects |-> Status!Val[x]]
      /\ Status!Val' = [x \in Objects |-> (Status!Val[x])']
  BY DEF Status!Val
<1> QED
  BY <1>1

\* Who holds what nothing was done to.
StSame(r) ==
  /\ Status!Holders(r)' = Status!Holders(r) /\ Status!Owed(r)' = Status!Owed(r) /\ Status!Pending(r)' = Status!Pending(r)

LEMMA StSameCount ==
  ASSUME StInv, NEW r \in Reps, StSame(r), statusHeap'[r] = statusHeap[r]
  PROVE  IF statusHeap'[r] = None
         THEN Status!Holders(r)' = {} /\ Status!Owed(r)' = {} /\ Status!Pending(r)' = {}
         ELSE statusHeap'[r].ref > 0 /\ statusHeap'[r].ref = StHolders(r)'
<1>1. StHolders(r)' = StHolders(r)
  BY DEF StSame, StHolders
<1> QED
  BY <1>1 DEF StSame, StInv, StCounts

\* A representation that is made for one holder.
LEMMA StNewCount ==
  ASSUME StInv, NEW r \in Reps, NEW x,
         \/ Status!Holders(r)' = {x} /\ Status!Owed(r)' = {} /\ Status!Pending(r)' = {}
         \/ Status!Holders(r)' = {} /\ Status!Owed(r)' = {} /\ Status!Pending(r)' = {x}
  PROVE  StHolders(r)' = 1
<1>1. Cardinality({}) = 0 /\ Cardinality({x}) = 1
  BY FS_EmptySet, FS_Singleton
<1> QED
  BY <1>1 DEF StHolders

-----------------------------------------------------------------------------
\* An object that no thread changes and that has no representation gets a value, which is
\* inlined or takes new memory.
StPut(t, o, w) ==
  /\ ~StBusy(t) /\ status[o] \notin Reps
  /\ \A q \in Threads : StBusy(q) =>
       statusOp[q].this # o /\ (statusOp[q].pc = "copy" => statusOp[q].from # o)
  /\ UNCHANGED statusOp
  /\ \/ w \in StInlined /\ status' = [status EXCEPT ![o] = w] /\ UNCHANGED statusHeap
     \/ /\ ~StPlain(w) /\ w.code # "ok" /\ ~w.moved
        /\ \E a \in Reps :
             /\ statusHeap[a] = None /\ statusHeap' = [statusHeap EXCEPT ![a] = Status!NewRep(w)]
             /\ status' = [status EXCEPT ![o] = a]

LEMMA StPuts ==
  ASSUME StInv, NEW t \in Threads, NEW o \in Objects, NEW w \in StWords, StPut(t, o, w)
  PROVE  StInv' /\ Status!Val' = [Status!Val EXCEPT ![o] = w]
<1>0. StTypes /\ StCanonical /\ StCounts
  BY DEF StInv
<1>1. /\ ~StBusy(t) /\ ~StBusy(t)' /\ status[o] \notin Reps /\ UNCHANGED statusOp
      /\ \A q \in Threads : StBusy(q)' => statusOp'[q].this # o
      /\ status'[o] \in Reps \cup StInlined \cup {None}
      /\ \A x \in Objects \ {o} : status'[x] = status[x]
      /\ \A r \in Reps : statusHeap[r] # None => statusHeap'[r] = statusHeap[r]
      /\ status'[o] \in Reps \cup StInlined
      /\ status'[o] \in Reps => /\ statusHeap[status'[o]] = None
                                /\ statusHeap'[status'[o]] = Status!NewRep(w)
                                /\ ~StPlain(w) /\ w.code # "ok" /\ ~w.moved
      /\ status'[o] \notin Reps => status'[o] = w
      /\ \A r \in Reps : r # status'[o] => statusHeap'[r] = statusHeap[r]
  BY <1>0, StConstants DEF StPut, StTypes, StBusy
<1>2. Status!NewRep(w) \in StReps /\ Status!NewRep(w).ref = 1 /\ Status!Contents(Status!NewRep(w)) = [w EXCEPT !.moved = FALSE]
  <2>1. Status!NewRep(w) = [code |-> w.code, message |-> w.message, payload |-> w.payload, ref |-> 1]
    BY DEF Status!NewRep
  <2>2. Status!NewRep(w) \in StReps
    BY <2>1 DEF StReps, StWords
  <2>3. Status!NewRep(w) # None
    BY <2>2, StConstants
  <2>4. Status!Contents(Status!NewRep(w)) = [code |-> w.code, message |-> w.message, payload |-> w.payload,
                                   moved |-> FALSE]
    BY <2>1, <2>3 DEF Status!Contents
  <2>5. [w EXCEPT !.moved = FALSE] = [code |-> w.code, message |-> w.message,
                                      payload |-> w.payload, moved |-> FALSE]
    <3> DEFINE x == [w EXCEPT !.moved = FALSE]
    <3>1. /\ x.code = w.code /\ x.message = w.message /\ x.payload = w.payload /\ x.moved = FALSE
          /\ x \in StWords
      BY DEF StWords
    <3> HIDE DEF x
    <3>2. x = [code |-> w.code, message |-> w.message, payload |-> w.payload, moved |-> FALSE]
      BY ONLY <3>1 DEF StWords
    <3> QED
      BY <3>2 DEF x
  <2>6. Status!NewRep(w).ref = 1
    BY <2>1
  <2> QED
    BY <2>2, <2>4, <2>5, <2>6
<1>3. StTurn(t, {o})
  <2>1. StTypes'
    <3>1. \A r \in Reps : statusHeap'[r] \in StReps \cup {None}
      BY <1>0, <1>1, <1>2 DEF StTypes
    <3>2. /\ DOMAIN statusHeap' = Reps /\ statusHeap' = [r \in DOMAIN statusHeap' |-> statusHeap'[r]]
          /\ DOMAIN status' = Objects /\ status' = [x \in DOMAIN status' |-> status'[x]]
      BY <1>0 DEF StTypes, StPut
    <3>3. \A x \in Objects : status'[x] \in Reps \cup StInlined \cup {None}
      BY <1>0, <1>1 DEF StTypes
    <3> QED
      BY <1>0, <1>1, <3>1, <3>2, <3>3 DEF StTypes
  <2> QED
    BY <1>1, <2>1 DEF StTurn, StPut, StBusy
<1>4. \A r \in Reps : IF r = status'[o]
                      THEN Status!Holders(r)' = {o} /\ Status!Owed(r)' = {} /\ Status!Pending(r)' = {}
                      ELSE StSame(r)
  <2> SUFFICES ASSUME NEW r \in Reps
      PROVE IF r = status'[o] THEN Status!Holders(r)' = {o} /\ Status!Owed(r)' = {} /\ Status!Pending(r)' = {}
            ELSE StSame(r)
    OBVIOUS
  <2>1. /\ \A x \in Objects \ {o} : x \in Status!Holders(r)' <=> x \in Status!Holders(r)
        /\ \A q \in Threads \ {t} : /\ q \in Status!Owed(r)' <=> q \in Status!Owed(r)
                                    /\ q \in Status!Pending(r)' <=> q \in Status!Pending(r)
        /\ t \notin Status!Owed(r) /\ t \notin Status!Owed(r)' /\ t \notin Status!Pending(r) /\ t \notin Status!Pending(r)'
        /\ o \notin Status!Holders(r) /\ (o \in Status!Holders(r)' <=> status'[o] = r)
        /\ Status!Holders(r) \subseteq Objects /\ Status!Owed(r) \subseteq Threads
        /\ Status!Pending(r) \subseteq Threads
        /\ Status!Holders(r)' \subseteq Objects /\ Status!Owed(r)' \subseteq Threads
        /\ Status!Pending(r)' \subseteq Threads
    BY <1>1, <1>3, StSets DEF StBusy
  <2>2. r = status'[o] => Status!Holders(r) = {} /\ Status!Owed(r) = {} /\ Status!Pending(r) = {}
    BY <1>0, <1>1 DEF StCounts
  <2> QED
    BY <2>1, <2>2 DEF StSame
<1>5. StCounts'
  <2> SUFFICES ASSUME NEW r \in Reps
      PROVE IF statusHeap'[r] = None
            THEN Status!Holders(r)' = {} /\ Status!Owed(r)' = {} /\ Status!Pending(r)' = {}
            ELSE statusHeap'[r].ref > 0 /\ statusHeap'[r].ref = StHolders(r)'
    BY DEF StCounts
  <2>1. CASE r = status'[o]
    <3>1. statusHeap'[r].ref = 1 /\ statusHeap'[r] # None
      BY <1>1, <1>2, <2>1, StConstants
    <3>2. Status!Holders(r)' = {o} /\ Status!Owed(r)' = {} /\ Status!Pending(r)' = {}
      BY <1>4, <2>1
    <3>3. StHolders(r)' = 1
      BY <3>2, StNewCount
    <3> QED
      BY <3>1, <3>3
  <2>2. CASE r # status'[o]
    BY <1>1, <1>4, <2>2, StSameCount
  <2> QED
    BY <2>1, <2>2
<1>6. StCanonical'
  <2>1. status'[o] \in Reps => /\ Status!NewRep(w).code = w.code /\ Status!NewRep(w).message = w.message
                               /\ Status!NewRep(w).payload = w.payload
    BY DEF Status!NewRep
  <2> QED
    BY <1>0, <1>1, <2>1 DEF StCanonical, StPlain
<1>7. \A q \in Threads \ {t} : StBusy(q) /\ statusOp[q].new # None =>
        statusHeap'[statusOp[q].new] = statusHeap[statusOp[q].new]
  BY <1>1, StMine
<1>8. \A r \in Reps : \A x \in Status!Holders(r) \ {o} :
        statusHeap'[r] # None /\ StContents(r)' = StContents(r)
  BY <1>0, <1>1 DEF StCounts, StContents
<1>9. StInv' /\ \A x \in Objects \ {o} : (Status!Val[x])' = Status!Val[x]
  BY <1>1, <1>3, <1>5, <1>6, <1>7, <1>8, StTurned
<1>10. (Status!Val[o])' = Status!ValueOf(o)'
  BY <1>1, <1>9, StValNext DEF StValues, StInv
<1>11. Status!ValueOf(o)' = w
  <2>1. CASE status'[o] \in Reps
    <3>1. Status!ValueOf(o)' = Status!Contents(Status!NewRep(w))
      BY <1>1, <2>1 DEF Status!ValueOf, Status!Contents
    <3>2. [w EXCEPT !.moved = FALSE] = w
      BY <1>1, <2>1 DEF StWords
    <3> QED
      BY <1>2, <3>1, <3>2
  <2>2. CASE status'[o] \notin Reps
    BY <1>1, <2>2 DEF Status!ValueOf
  <2> QED
    BY <2>1, <2>2
<1> QED
  BY <1>9, <1>10, <1>11, StPlaced

\* What an object has is something that it may have.
LEMMA StValueType == StTypes => \A o \in Objects : Status!ValueOf(o) \in StWords \cup {None}
<1> SUFFICES ASSUME StTypes, NEW o \in Objects PROVE Status!ValueOf(o) \in StWords \cup {None}
  OBVIOUS
<1>1. status[o] \in Reps \cup StInlined \cup {None}
  BY DEF StTypes
<1>2. CASE status[o] \in Reps
  <2>1. statusHeap[status[o]] \in StReps \cup {None}
    BY <1>2 DEF StTypes
  <2>2. Status!Contents(statusHeap[status[o]]) \in StWords \cup {None}
    BY <2>1, StConstants DEF Status!Contents, StReps, StWords
  <2> QED
    BY <1>2, <2>2 DEF Status!ValueOf
<1>3. CASE status[o] \notin Reps
  BY <1>1, <1>3, StConstants DEF Status!ValueOf
<1> QED
  BY <1>2, <1>3

\* A thread begins to change an object.
LEMMA StEnters ==
  ASSUME StInv, NEW t \in Threads, NEW o \in Objects, NEW x \in StOps,
         ~StBusy(t), UNCHANGED <<status, statusHeap>>, statusOp' = [statusOp EXCEPT ![t] = x],
         x.pc \in {"copy", "prepare"}, x.this = o, x.was = Status!ValueOf(o), x.new = None,
         \A q \in Threads : StBusy(q) =>
           statusOp[q].this # o /\ (statusOp[q].pc = "copy" => statusOp[q].from # o),
         StAloneOf(t)', StShapeOf(t)', x.pc = "prepare" => status[o] # None
  PROVE  StInv' /\ UNCHANGED Status!Val
<1>0. StTypes /\ StCanonical /\ StCounts /\ StAlone
  BY DEF StInv
<1>1. /\ statusOp'[t] = x /\ StBusy(t)' /\ status' = status /\ statusHeap' = statusHeap
      /\ \A q \in Threads \ {t} : statusOp'[q] = statusOp[q]
      /\ statusOp' \in [Threads -> StOps]
  BY <1>0 DEF StTypes, StBusy
<1>2. StTurn(t, {o})
  BY <1>0, <1>1 DEF StTurn, StTypes, StBusy
<1>3. \A r \in Reps : StSame(r)
  <2> SUFFICES ASSUME NEW r \in Reps PROVE StSame(r)
    OBVIOUS
  <2>1. /\ \A y \in Objects \ {o} : y \in Status!Holders(r)' <=> y \in Status!Holders(r)
        /\ \A q \in Threads \ {t} : /\ q \in Status!Owed(r)' <=> q \in Status!Owed(r)
                                    /\ q \in Status!Pending(r)' <=> q \in Status!Pending(r)
        /\ t \notin Status!Owed(r) /\ t \notin Status!Owed(r)' /\ t \notin Status!Pending(r) /\ t \notin Status!Pending(r)'
        /\ o \in Status!Holders(r)' <=> o \in Status!Holders(r)
        /\ Status!Holders(r) \subseteq Objects /\ Status!Owed(r) \subseteq Threads
        /\ Status!Pending(r) \subseteq Threads
        /\ Status!Holders(r)' \subseteq Objects /\ Status!Owed(r)' \subseteq Threads
        /\ Status!Pending(r)' \subseteq Threads
    BY <1>1, <1>2, StSets DEF StBusy
  <2>2. Status!Holders(r)' = Status!Holders(r)
    BY ONLY <2>1
  <2>3. Status!Owed(r)' = Status!Owed(r) /\ Status!Pending(r)' = Status!Pending(r)
    BY ONLY <2>1
  <2> QED
    BY <2>2, <2>3 DEF StSame
<1>4. StCounts' /\ StCanonical'
  BY <1>0, <1>1, <1>3, StSameCount DEF StCounts, StCanonical, StPlain
<1>5. /\ \A q \in Threads \ {t} : StBusy(q) /\ statusOp[q].new # None =>
           statusHeap'[statusOp[q].new] = statusHeap[statusOp[q].new]
      /\ \A r \in Reps : \A y \in Status!Holders(r) \ {o} :
           statusHeap'[r] # None /\ StContents(r)' = StContents(r)
  BY <1>0, <1>1 DEF StCounts, StContents
<1>6. StKeepsOf(t)'
  BY <1>1 DEF StKeepsOf, Status!ValueOf
<1>7. StInv' /\ \A y \in Objects \ {o} : (Status!Val[y])' = Status!Val[y]
  BY <1>2, <1>4, <1>5, <1>6, StTurned
<1>8. Status!Val[o] = Status!ValueOf(o)
  BY <1>0, StVal DEF StValues
<1>9. (Status!Val[o])' = x.was
  BY <1>1, <1>7, StValNext DEF StValues, StInv
<1> QED
  BY <1>7, <1>8, <1>9, StUnseen

\* A thread goes on with its object.
LEMMA StContinues ==
  ASSUME StInv, NEW t \in Threads, NEW x \in StOps,
         StBusy(t), statusOp[t].pc # "copy",
         UNCHANGED <<status, statusHeap>>, statusOp' = [statusOp EXCEPT ![t] = x],
         x.pc \notin {"copy", "idle"}, x.this = statusOp[t].this, x.was = statusOp[t].was,
         x.from = statusOp[t].from,
         \A r \in Reps : /\ statusOp[t].pc \in {"unref", "decrement"} /\ statusOp[t].old = r
                            <=> x.pc \in {"unref", "decrement"} /\ x.old = r
                         /\ /\ statusOp[t].pc \in {"unref", "decrement", "write"}
                            /\ statusOp[t].new = r /\ status[x.this] # r
                            <=> /\ x.pc \in {"unref", "decrement", "write"}
                                /\ x.new = r /\ status[x.this] # r
                         /\ x.this \in Objects /\ status[x.this] = r =>
                              (statusOp[t].new \notin {None, r} <=> x.new \notin {None, r}),
         StShapeOf(t)', StKeepsOf(t)'
  PROVE  StInv' /\ UNCHANGED Status!Val
<1>0. StTypes /\ StCanonical /\ StCounts /\ StAlone
  BY DEF StInv
<1>1. /\ statusOp'[t] = x /\ StBusy(t)' /\ status' = status /\ statusHeap' = statusHeap
      /\ \A q \in Threads \ {t} : statusOp'[q] = statusOp[q]
      /\ statusOp' \in [Threads -> StOps]
      /\ x.this \in Objects \cup {None} /\ x.from = None
  BY <1>0 DEF StTypes, StBusy, StOps, StAlone, StAloneOf
<1> DEFINE changed == {x.this} \ {None}
<1>c. changed \in SUBSET Objects
  BY <1>1
<1>2. StTurn(t, changed)
  <2>1. \A q \in Threads \ {t} : StBusy(q) =>
          /\ statusOp[q].this \notin changed
          /\ statusOp[q].pc = "copy" => statusOp[q].from \notin changed
    BY <1>0 DEF StAlone, StAloneOf
  <2>2. StTypes'
    BY <1>0, <1>1 DEF StTypes
  <2> QED
    BY <1>1, <2>1, <2>2 DEF StTurn
<1>3. \A r \in Reps : StSame(r)
  <2> SUFFICES ASSUME NEW r \in Reps PROVE StSame(r)
    OBVIOUS
  <2> HIDE DEF changed
  <2>1. /\ \A y \in Objects \ changed : y \in Status!Holders(r)' <=> y \in Status!Holders(r)
        /\ \A q \in Threads \ {t} : /\ q \in Status!Owed(r)' <=> q \in Status!Owed(r)
                                    /\ q \in Status!Pending(r)' <=> q \in Status!Pending(r)
        /\ \A o \in changed :
             /\ o \in Status!Holders(r) <=>
                  /\ status[o] = r
                  /\ ~(StBusy(t) /\ statusOp[t].this = o /\ statusOp[t].new \notin {None, r})
             /\ o \in Status!Holders(r)' <=>
                  /\ status'[o] = r
                  /\ ~(StBusy(t)' /\ statusOp'[t].this = o /\ statusOp'[t].new \notin {None, r})
        /\ t \in Status!Owed(r) <=> t \in Status!Owed(r)'
        /\ t \in Status!Pending(r) <=> t \in Status!Pending(r)'
        /\ Status!Holders(r) \subseteq Objects /\ Status!Owed(r) \subseteq Threads
        /\ Status!Pending(r) \subseteq Threads
        /\ Status!Holders(r)' \subseteq Objects /\ Status!Owed(r)' \subseteq Threads
        /\ Status!Pending(r)' \subseteq Threads
    BY <1>1, <1>2, <1>c, StSets
  <2>2. \A o \in changed : o \in Status!Holders(r)' <=> o \in Status!Holders(r)
    BY <1>1, <1>c, <2>1 DEF changed
  <2>3. /\ \A o \in Objects : o \in Status!Holders(r)' <=> o \in Status!Holders(r)
        /\ \A q \in Threads : /\ q \in Status!Owed(r)' <=> q \in Status!Owed(r)
                              /\ q \in Status!Pending(r)' <=> q \in Status!Pending(r)
    BY <2>1, <2>2
  <2>4. Status!Holders(r)' = Status!Holders(r)
    BY <2>1, <2>3
  <2>5. Status!Owed(r)' = Status!Owed(r) /\ Status!Pending(r)' = Status!Pending(r)
    BY <2>1, <2>3
  <2> QED
    BY <2>4, <2>5 DEF StSame
<1>4. StCounts' /\ StCanonical'
  BY <1>0, <1>1, <1>3, StSameCount DEF StCounts, StCanonical, StPlain
<1>5. /\ \A q \in Threads \ {t} : StBusy(q) /\ statusOp[q].new # None =>
           statusHeap'[statusOp[q].new] = statusHeap[statusOp[q].new]
      /\ \A r \in Reps : \A y \in Status!Holders(r) \ changed :
           statusHeap'[r] # None /\ StContents(r)' = StContents(r)
  BY <1>0, <1>1 DEF StCounts, StContents
<1> HIDE DEF changed
<1>6. StInv' /\ \A y \in Objects \ changed : (Status!Val[y])' = Status!Val[y]
  <2>1. StAloneOf(t)'
    BY <1>1, <1>2, <1>5, <1>c, StOthers
  <2> QED
    BY <1>2, <1>4, <1>5, <1>c, <2>1, StTurned
<1>7. \A y \in changed : (Status!Val[y])' = Status!Val[y]
  <2>1. \A y \in changed : y \in Objects /\ y = x.this
    BY <1>c DEF changed
  <2>2. \A y \in changed : Status!Val[y] = statusOp[t].was
    BY <1>0, <2>1, StVal DEF StValues
  <2>3. \A y \in changed : (Status!Val[y])' = x.was
    BY <1>1, <1>6, <2>1, StValNext DEF StValues, StInv
  <2> QED
    BY <2>2, <2>3
<1> QED
  BY <1>6, <1>7, StUnseen

LEMMA StConstruct ==
  ASSUME StInv, NEW t \in Threads, NEW o \in Objects, NEW c \in Codes, NEW m \in Messages,
         Status!Construct(t, o, c, m)
  PROVE  StInv' /\ StatusValue!Construct(o, c, m)
<1>1. PICK w : w = Status!Value!Made(c, m)
  OBVIOUS
<1>2. /\ w = [code |-> c, message |-> IF c = "ok" THEN NoMessage ELSE m, payload |-> NoPayload,
              moved |-> FALSE]
      /\ w = StatusValue!Made(c, m)
      /\ c = "ok" \/ m = NoMessage =>
           Status!Value!Plain(c) = [code |-> c, message |-> IF c = "ok" THEN NoMessage ELSE m,
                               payload |-> NoPayload, moved |-> FALSE]
  <2> DEFINE p == [code |-> c, message |-> NoMessage, payload |-> NoPayload, moved |-> FALSE]
  <2>1. Status!Value!Plain(c) = p /\ StatusValue!Plain(c) = p
    BY DEF Status!Value!Plain, Status!Value!Value, StatusValue!Plain, StatusValue!Value
  <2>2. [p EXCEPT !.message = m] = [code |-> c, message |-> m, payload |-> NoPayload, moved |-> FALSE]
    <3> DEFINE x == [p EXCEPT !.message = m]
    <3>1. /\ x.code = c /\ x.message = m /\ x.payload = NoPayload /\ x.moved = FALSE /\ x \in StWords
      BY StConstants DEF StWords
    <3> HIDE DEF x
    <3>2. x = [code |-> c, message |-> m, payload |-> NoPayload, moved |-> FALSE]
      BY ONLY <3>1 DEF StWords
    <3> QED
      BY <3>2 DEF x
  <2> HIDE DEF p
  <2>3. CASE c = "ok"
    BY <1>1, <2>1, <2>3 DEF Status!Value!Made, StatusValue!Made, p
  <2>4. CASE c # "ok"
    <3>1. /\ w = [p EXCEPT !.message = m] /\ StatusValue!Made(c, m) = [p EXCEPT !.message = m]
      BY <1>1, <2>1, <2>4 DEF Status!Value!Made, StatusValue!Made
    <3> QED
      BY <2>1, <2>2, <2>4, <3>1 DEF p
  <2> QED
    BY <2>3, <2>4
<1>3. w \in StWords /\ ~w.moved /\ w.code = c /\ w.payload = NoPayload
  BY <1>2, StConstants DEF StWords
<1>4. /\ ~StBusy(t) /\ status[o] = None
      /\ \A q \in Threads : StBusy(q) => statusOp[q].this # o
  BY DEF Status!Construct, Status!MayConstruct, Status!Changing, StBusy
<1>5. \A q \in Threads : StBusy(q) => (statusOp[q].pc = "copy" => statusOp[q].from # o)
  BY <1>4 DEF StInv, StAlone, StAloneOf
<1>6. StPut(t, o, w)
  <2>1. CASE c = "ok" \/ m = NoMessage
    <3>1. status' = [status EXCEPT ![o] = w] /\ UNCHANGED statusHeap /\ UNCHANGED statusOp
      BY <1>2, <2>1 DEF Status!Construct
    <3>2. w \in StInlined
      BY <1>2, <1>3, <2>1 DEF StInlined, StPlain
    <3> QED
      BY <1>4, <1>5, <3>1, <3>2, StConstants DEF StPut
  <2>2. CASE ~(c = "ok" \/ m = NoMessage)
    <3>1. Status!Available /\ statusHeap' = [statusHeap EXCEPT ![Status!NewAddress] = Status!NewRep(w)]
          /\ status' = [status EXCEPT ![o] = Status!NewAddress] /\ UNCHANGED statusOp
      BY <1>1, <2>2 DEF Status!Construct
    <3>2. Status!NewAddress \in Reps /\ statusHeap[Status!NewAddress] = None
      BY <3>1 DEF Status!Available, Status!NewAddress
    <3>3. ~StPlain(w) /\ w.code # "ok"
      BY <1>2, <2>2 DEF StPlain
    <3> QED
      BY <1>3, <1>4, <1>5, <3>1, <3>2, <3>3, StConstants DEF StPut
  <2> QED
    BY <2>1, <2>2
<1>7. StInv' /\ Status!Val' = [Status!Val EXCEPT ![o] = w]
  BY <1>3, <1>6, StPuts
<1>8. Status!Val[o] = None
  <2>1. Status!Val[o] = Status!ValueOf(o)
    BY <1>4, StVal DEF StValues, StInv
  <2> QED
    BY <1>4, <2>1, StConstants DEF Status!ValueOf
<1> QED
  BY <1>2, <1>7, <1>8 DEF StatusValue!Construct

LEMMA StBeginCopy ==
  ASSUME StInv, NEW t \in Threads, NEW o \in Objects, NEW from \in Objects,
         Status!BeginCopy(t, o, from)
  PROVE  StInv' /\ UNCHANGED Status!Val
<1>0. StTypes /\ StAlone
  BY DEF StInv
<1>1. PICK x : x = [pc |-> "copy", this |-> o, from |-> from, was |-> Status!ValueOf(o),
                    old |-> None, todo |-> None, new |-> None]
  OBVIOUS
<1>2. /\ ~StBusy(t) /\ o # from /\ status[from] # None /\ status[o] # status[from]
      /\ statusOp' = [statusOp EXCEPT ![t] = x] /\ UNCHANGED <<status, statusHeap>>
      /\ \A q \in Threads : StBusy(q) => statusOp[q].this # o /\ statusOp[q].this # from
      /\ status[o] = None \/ \A q \in Threads : StBusy(q) => statusOp[q].from # o
  BY <1>1 DEF Status!BeginCopy, Status!MayRead, Status!MayConstruct, Status!MayChange, Status!Changing, Status!Reading,
              Status!Enter, StBusy
<1>3. \A q \in Threads : StBusy(q) => (statusOp[q].pc = "copy" => statusOp[q].from # o)
  BY <1>0, <1>2 DEF StAlone, StAloneOf
<1>4. Status!ValueOf(o) \in StWords \cup {None}
  BY <1>0, StValueType
<1>5. x \in StOps
  BY <1>1, <1>4 DEF StOps
<1>6. /\ statusOp'[t] = x /\ \A q \in Threads \ {t} : statusOp'[q] = statusOp[q]
      /\ status' = status
  BY <1>0, <1>2 DEF StTypes
<1>7. StAloneOf(t)'
  BY <1>1, <1>2, <1>6 DEF StAloneOf, StBusy
<1>8. StShapeOf(t)'
  BY <1>1, <1>6 DEF StShapeOf
<1> QED
  BY <1>1, <1>2, <1>3, <1>5, <1>7, <1>8, StEnters

\* A thread has released what it had to: if it was the last, nothing is left of it.
LEMMA StReleases ==
  ASSUME StInv, NEW t \in Threads, statusOp[t].pc \in {"unref", "decrement"},
         NEW old, old = statusOp[t].old,
         UNCHANGED status, statusOp' = [statusOp EXCEPT ![t] = Status!AfterUnref(t)],
         \/ old \notin Reps /\ UNCHANGED statusHeap
         \/ /\ old \in Reps
            /\ statusHeap' = [statusHeap EXCEPT ![old] = IF statusHeap[old].ref = 1 THEN None
                                   ELSE [statusHeap[old] EXCEPT !.ref = @ - 1]]
  PROVE  StInv' /\ UNCHANGED Status!Val
<1>0. StTypes /\ StCanonical /\ StCounts /\ StAlone /\ StShape /\ StKeeps /\ StBusy(t)
  BY DEF StInv, StBusy
<1>1. PICK x : x = Status!AfterUnref(t)
  OBVIOUS
<1>2. PICK o \in Objects \cup {None} : o = statusOp[t].this
  BY <1>0 DEF StTypes, StOps, StBusy
<1>3. /\ statusOp[t] \in StOps /\ statusOp[t].from = None
      /\ statusOp[t].todo = None <=> statusOp[t].new = None
      /\ statusOp[t].new # None => statusOp[t].new # status[o] /\ o \in Objects
      /\ statusOp[t].new \in Reps \cup {None}
      /\ statusOp[t].new = None /\ o # None => status[o] # None /\ Status!ValueOf(o) = statusOp[t].was
      /\ statusOp[t].new # None => /\ statusHeap[statusOp[t].new] # None
                                   /\ statusHeap[statusOp[t].new].ref = 1
                                   /\ StContents(statusOp[t].new) = statusOp[t].was
  BY <1>0, <1>2 DEF StTypes, StOps, StBusy, StAlone, StAloneOf, StShape, StShapeOf, StKeeps, StKeepsOf
<1>4. /\ x \in StOps
      /\ statusOp[t].new # None =>
           /\ x.pc = "write" /\ x.this = o /\ x.from = None /\ x.was = statusOp[t].was
           /\ x.old = old /\ x.todo = statusOp[t].todo /\ x.new = statusOp[t].new
      /\ statusOp[t].new = None => x.pc = "idle"
  <2>1. CASE statusOp[t].new # None
    <3>1. x = [statusOp[t] EXCEPT !.pc = "write"]
      BY <1>1, <1>3, <2>1 DEF Status!AfterUnref
    <3>2. statusOp[t] \in StOps /\ statusOp[t].pc # "idle"
      BY <1>0, <1>3 DEF StBusy
    <3> QED
      BY <1>2, <1>3, <2>1, <3>1, <3>2 DEF StOps
  <2>2. CASE statusOp[t].new = None
    BY <1>1, <1>3, <2>2 DEF Status!AfterUnref, Status!Idle, StOps
  <2> QED
    BY <2>1, <2>2
<1>5. /\ statusOp'[t] = x /\ \A q \in Threads \ {t} : statusOp'[q] = statusOp[q]
      /\ statusOp' \in [Threads -> StOps] /\ status' = status
  BY <1>0, <1>1, <1>4 DEF StTypes
<1>6. /\ old \in Reps => /\ t \in Status!Owed(old) /\ statusHeap[old] # None
                         /\ statusHeap[old] \in StReps /\ statusHeap[old].ref \in Nat \ {0}
      /\ old \in Reps /\ statusHeap[old].ref = 1 =>
           Status!Holders(old) = {} /\ Status!Owed(old) = {t} /\ Status!Pending(old) = {}
  <2>1. old \in Reps => t \in Status!Owed(old)
    BY DEF Status!Owed
  <2>2. old \in Reps => statusHeap[old] # None /\ statusHeap[old].ref > 0
    BY <1>0, <2>1 DEF StCounts
  <2>3. old \in Reps => statusHeap[old] \in StReps
    BY <1>0, <2>2 DEF StTypes
  <2>4. old \in Reps => statusHeap[old].ref \in Nat \ {0}
    BY <2>2, <2>3 DEF StReps
  <2> QED
    BY <1>0, <2>1, <2>2, <2>3, <2>4, StSole
<1>7. /\ \A r \in Reps : r # old => statusHeap'[r] = statusHeap[r]
      /\ old \in Reps => statusHeap'[old] = IF statusHeap[old].ref = 1 THEN None
                                            ELSE [statusHeap[old] EXCEPT !.ref = @ - 1]
      /\ statusHeap' \in [Reps -> StReps \cup {None}]
  <2>1. old \in Reps => [statusHeap[old] EXCEPT !.ref = @ - 1] \in StReps
    BY <1>6 DEF StReps
  <2> QED
    BY <1>0, <2>1 DEF StTypes
<1>8. /\ old \in Reps /\ statusHeap[old].ref # 1 =>
           /\ statusHeap'[old] # None /\ statusHeap'[old].ref = statusHeap[old].ref - 1
           /\ statusHeap'[old].code = statusHeap[old].code
           /\ statusHeap'[old].message = statusHeap[old].message
           /\ statusHeap'[old].payload = statusHeap[old].payload
      /\ old \in Reps /\ statusHeap[old].ref = 1 => statusHeap'[old] = None
  <2>1. ASSUME old \in Reps, statusHeap[old].ref # 1
        PROVE  /\ statusHeap'[old] \in StReps /\ statusHeap'[old].ref = statusHeap[old].ref - 1
               /\ statusHeap'[old].code = statusHeap[old].code
               /\ statusHeap'[old].message = statusHeap[old].message
               /\ statusHeap'[old].payload = statusHeap[old].payload
    BY <1>6, <1>7, <2>1 DEF StReps
  <2> QED
    BY <1>7, <2>1, StConstants
<1> DEFINE changed == {o} \ {None}
<1>9. changed \in SUBSET Objects
  BY <1>2
<1>10. StTurn(t, changed)
  <2>1. \A q \in Threads \ {t} : StBusy(q) =>
          /\ statusOp[q].this \notin changed
          /\ statusOp[q].pc = "copy" => statusOp[q].from \notin changed
    BY <1>0, <1>2 DEF StAlone, StAloneOf
  <2>2. StTypes'
    BY <1>0, <1>5, <1>7 DEF StTypes
  <2>3. StBusy(t)' => statusOp'[t].this = o
    BY <1>4, <1>5 DEF StBusy
  <2> QED
    BY <1>2, <1>5, <2>1, <2>2, <2>3 DEF StTurn
<1>11. ASSUME NEW r \in Reps
       PROVE  /\ Status!Holders(r)' = Status!Holders(r) /\ Status!Pending(r)' = Status!Pending(r)
              /\ Status!Owed(r)' = Status!Owed(r) \ {t} /\ (t \in Status!Owed(r) <=> r = old)
  <2> HIDE DEF changed
  <2>1. /\ \A y \in Objects \ changed : y \in Status!Holders(r)' <=> y \in Status!Holders(r)
        /\ \A q \in Threads \ {t} : /\ q \in Status!Owed(r)' <=> q \in Status!Owed(r)
                                    /\ q \in Status!Pending(r)' <=> q \in Status!Pending(r)
        /\ \A y \in changed :
             /\ y \in Status!Holders(r) <=>
                  /\ status[y] = r
                  /\ ~(StBusy(t) /\ statusOp[t].this = y /\ statusOp[t].new \notin {None, r})
             /\ y \in Status!Holders(r)' <=>
                  /\ status'[y] = r
                  /\ ~(StBusy(t)' /\ statusOp'[t].this = y /\ statusOp'[t].new \notin {None, r})
        /\ t \in Status!Owed(r) <=> r = old
        /\ t \notin Status!Owed(r)'
        /\ t \in Status!Pending(r) <=> t \in Status!Pending(r)'
        /\ Status!Holders(r) \subseteq Objects /\ Status!Owed(r) \subseteq Threads
        /\ Status!Pending(r) \subseteq Threads
        /\ Status!Holders(r)' \subseteq Objects /\ Status!Owed(r)' \subseteq Threads
        /\ Status!Pending(r)' \subseteq Threads
    BY <1>2, <1>3, <1>4, <1>5, <1>9, <1>10, StSets, StConstants
  <2>2. \A y \in changed : y \in Status!Holders(r)' <=> y \in Status!Holders(r)
    BY <1>0, <1>2, <1>3, <1>4, <1>5, <2>1 DEF changed, StBusy
  <2>3. Status!Holders(r)' = Status!Holders(r)
    BY ONLY <2>1, <2>2
  <2>4. Status!Owed(r)' = Status!Owed(r) \ {t} /\ Status!Pending(r)' = Status!Pending(r)
    BY ONLY <2>1
  <2> QED
    BY <2>1, <2>3, <2>4
<1>12. StCounts'
  <2> SUFFICES ASSUME NEW r \in Reps
      PROVE IF statusHeap'[r] = None
            THEN Status!Holders(r)' = {} /\ Status!Owed(r)' = {} /\ Status!Pending(r)' = {}
            ELSE statusHeap'[r].ref > 0 /\ statusHeap'[r].ref = StHolders(r)'
    BY DEF StCounts
  <2>1. CASE r # old
    <3>1. StSame(r)
      BY <1>11, <2>1 DEF StSame
    <3> QED
      BY <1>7, <2>1, <3>1, StSameCount
  <2>2. CASE r = old /\ statusHeap[old].ref = 1
    <3>1. Status!Holders(r)' = {} /\ Status!Owed(r)' = {} /\ Status!Pending(r)' = {}
      BY <1>6, <1>11, <2>2
    <3> QED
      BY <1>8, <2>2, <3>1
  <2>3. CASE r = old /\ statusHeap[old].ref # 1
    <3>1. Cardinality(Status!Owed(r)') = Cardinality(Status!Owed(r)) - 1
      <4>1. t \in Status!Owed(r) /\ Status!Owed(r)' = Status!Owed(r) \ {t} /\ IsFiniteSet(Status!Owed(r))
        BY <1>11, <2>3, StFinite
      <4> QED
        BY <4>1, FS_RemoveElement
    <3>2. StHolders(r)' = StHolders(r) - 1
      <4>1. Cardinality(Status!Holders(r)) \in Nat /\ Cardinality(Status!Owed(r)) \in Nat
            /\ Cardinality(Status!Pending(r)) \in Nat
        BY StFinite
      <4>2. Status!Holders(r)' = Status!Holders(r) /\ Status!Pending(r)' = Status!Pending(r)
        BY <1>11
      <4> QED
        BY <3>1, <4>1, <4>2 DEF StHolders
    <3>3. statusHeap[r].ref = StHolders(r) /\ statusHeap[r].ref \in Nat \ {0}
      BY <1>0, <1>6, <2>3 DEF StCounts
    <3> QED
      BY <1>8, <2>3, <3>2, <3>3
  <2> QED
    BY <2>1, <2>2, <2>3
<1>13. StCanonical'
  BY <1>0, <1>6, <1>7, <1>8 DEF StCanonical, StPlain
\* What is changed is no one's clone, and what is freed is in no object.
<1>14. \A q \in Threads : StBusy(q) /\ statusOp[q].new # None =>
         statusHeap'[statusOp[q].new] = statusHeap[statusOp[q].new]
  <2> SUFFICES ASSUME NEW q \in Threads, StBusy(q), statusOp[q].new # None
      PROVE statusHeap'[statusOp[q].new] = statusHeap[statusOp[q].new]
    OBVIOUS
  <2>1. statusOp[q].new \in Reps /\ Status!Owed(statusOp[q].new) = {}
    BY StMine
  <2>2. statusOp[q].new # old
    BY <1>6, <2>1
  <2> QED
    BY <1>7, <2>1, <2>2
<1>15. \A r \in Reps : \A y \in Status!Holders(r) :
         statusHeap'[r] # None /\ StContents(r)' = StContents(r)
  <2> SUFFICES ASSUME NEW r \in Reps, NEW y \in Status!Holders(r)
      PROVE  statusHeap'[r] # None /\ StContents(r)' = StContents(r)
    OBVIOUS
  <2>1. statusHeap[r] # None
    BY <1>0 DEF StCounts
  <2>2. CASE r # old
    BY <1>7, <2>1, <2>2 DEF StContents
  <2>3. CASE r = old
    BY <1>6, <1>8, <2>1, <2>3 DEF StContents, Status!Contents
  <2> QED
    BY <2>2, <2>3
<1> HIDE DEF changed
<1>16. StBusy(t)' => StAloneOf(t)' /\ StShapeOf(t)' /\ StKeepsOf(t)'
  <2> SUFFICES ASSUME StBusy(t)' PROVE StAloneOf(t)' /\ StShapeOf(t)' /\ StKeepsOf(t)'
    OBVIOUS
  <2>1. /\ statusOp[t].new # None /\ x.pc = "write" /\ x.this = o /\ x.from = None
        /\ x.was = statusOp[t].was /\ x.todo = statusOp[t].todo /\ x.new = statusOp[t].new
    BY <1>4, <1>5 DEF StBusy
  <2>2. StAloneOf(t)'
    BY <1>5, <1>9, <1>10, <1>14, <1>15, <2>1, StOthers
  <2>3. StShapeOf(t)'
    BY <1>3, <1>5, <2>1 DEF StShapeOf
  <2>4. statusHeap'[x.new] = statusHeap[x.new]
    BY <1>0, <1>14, <2>1
  <2>5. StKeepsOf(t)'
    BY <1>3, <1>5, <2>1, <2>4 DEF StKeepsOf, StContents
  <2> QED
    BY <2>2, <2>3, <2>5
<1>17. StInv' /\ \A y \in Objects \ changed : (Status!Val[y])' = Status!Val[y]
  BY <1>9, <1>10, <1>12, <1>13, <1>14, <1>15, <1>16, StTurned
<1>18. ASSUME o # None PROVE (Status!Val[o])' = Status!Val[o]
  <2>1. o \in Objects
    BY <1>18
  <2>2. Status!Val[o] = statusOp[t].was
    BY <1>0, <1>2, <2>1, StVal DEF StValues
  <2>3. CASE statusOp[t].new # None
    BY <1>4, <1>5, <1>17, <2>1, <2>2, <2>3, StValNext DEF StValues, StInv, StBusy
  <2>4. CASE statusOp[t].new = None
    <3>1. \A q \in Threads : StBusy(q)' => statusOp'[q].this # o
      BY <1>0, <1>2, <1>4, <1>5, <2>1, <2>4, <1>18 DEF StAlone, StAloneOf, StBusy
    <3>2. (Status!Val[o])' = Status!ValueOf(o)'
      BY <1>17, <2>1, <3>1, StValNext DEF StValues, StInv
    <3>3. Status!ValueOf(o)' = Status!ValueOf(o)
      <4>1. CASE status[o] \in Reps
        <5>1. o \in Status!Holders(status[o])
          BY <1>0, <1>2, <1>18, <2>1, <2>4, <4>1, StHeld DEF StAlone, StAloneOf
        <5>2. PICK r \in Reps : r = status[o]
          BY <4>1
        <5>3. StContents(r)' = StContents(r)
          BY <1>15, <5>1, <5>2
        <5> QED
          BY <1>5, <5>2, <5>3 DEF Status!ValueOf, StContents
      <4>2. CASE status[o] \notin Reps
        BY <1>5, <4>2 DEF Status!ValueOf
      <4> QED
        BY <4>1, <4>2
    <3> QED
      BY <1>3, <1>18, <2>2, <2>4, <3>2, <3>3
  <2> QED
    BY <2>3, <2>4
<1>19. \A y \in Objects : (Status!Val[y])' = Status!Val[y]
  BY <1>17, <1>18 DEF changed
<1> QED
  BY <1>19, <1>17, StUnseen

LEMMA StUnref ==
  ASSUME StInv, NEW t \in Threads, Status!Unref(t)
  PROVE  StInv' /\ UNCHANGED Status!Val
<1>1. PICK old : old = statusOp[t].old
  OBVIOUS
<1>2. /\ statusOp[t].pc = "unref" /\ UNCHANGED status
      /\ \/ /\ old \notin Reps \/ statusHeap[old].ref = 1
            /\ statusOp' = [statusOp EXCEPT ![t] = Status!AfterUnref(t)]
            /\ statusHeap' = IF old \in Reps THEN [statusHeap EXCEPT ![old] = None] ELSE statusHeap
         \/ /\ old \in Reps /\ UNCHANGED statusHeap
            /\ statusOp' = [statusOp EXCEPT ![t].pc = "decrement"]
  BY <1>1 DEF Status!Unref, Status!Inlined
<1>3. CASE statusOp' = [statusOp EXCEPT ![t] = Status!AfterUnref(t)] /\ old \notin Reps /\ UNCHANGED statusHeap
  BY <1>1, <1>2, <1>3, StReleases
<1>4. CASE /\ statusOp' = [statusOp EXCEPT ![t] = Status!AfterUnref(t)] /\ old \in Reps
           /\ statusHeap[old].ref = 1 /\ statusHeap' = [statusHeap EXCEPT ![old] = None]
  <2>1. statusHeap' = [statusHeap EXCEPT ![old] = IF statusHeap[old].ref = 1 THEN None
                                                  ELSE [statusHeap[old] EXCEPT !.ref = @ - 1]]
    BY <1>4
  <2> QED
    BY <1>1, <1>2, <1>4, <2>1, StReleases
<1>5. CASE /\ old \in Reps /\ UNCHANGED statusHeap
           /\ statusOp' = [statusOp EXCEPT ![t].pc = "decrement"]
  <2>0. StTypes /\ StShape /\ StKeeps /\ StBusy(t)
    BY <1>2 DEF StInv, StBusy
  <2>1. PICK x : x = [statusOp[t] EXCEPT !.pc = "decrement"]
    OBVIOUS
  <2>2. /\ statusOp[t] \in StOps /\ statusOp[t].pc # "idle"
        /\ statusOp' = [statusOp EXCEPT ![t] = x]
    BY <1>2, <1>5, <2>0, <2>1 DEF StTypes
  <2>3. /\ x \in StOps /\ x.pc = "decrement" /\ x.this = statusOp[t].this
        /\ x.was = statusOp[t].was /\ x.from = statusOp[t].from /\ x.old = old
        /\ x.new = statusOp[t].new /\ x.todo = statusOp[t].todo
    BY <1>1, <2>1, <2>2 DEF StOps
  <2>4. StShapeOf(t) /\ StKeepsOf(t) /\ statusOp'[t] = x /\ status' = status /\ statusHeap' = statusHeap
    BY <1>2, <1>5, <2>0, <2>2 DEF StShape, StKeeps, StTypes
  <2>5. StShapeOf(t)'
    BY <1>2, <1>5, <2>3, <2>4 DEF StShapeOf
  <2>6. StKeepsOf(t)'
    BY <1>2, <2>3, <2>4 DEF StKeepsOf, StContents, Status!ValueOf
  <2>7. \A r \in Reps : /\ statusOp[t].pc \in {"unref", "decrement"} /\ statusOp[t].old = r
                           <=> x.pc \in {"unref", "decrement"} /\ x.old = r
                        /\ /\ statusOp[t].pc \in {"unref", "decrement", "write"}
                           /\ statusOp[t].new = r /\ status[x.this] # r
                           <=> /\ x.pc \in {"unref", "decrement", "write"}
                               /\ x.new = r /\ status[x.this] # r
                        /\ x.this \in Objects /\ status[x.this] = r =>
                             (statusOp[t].new \notin {None, r} <=> x.new \notin {None, r})
    BY <1>1, <1>2, <2>3
  <2> QED
    BY <1>2, <1>5, <2>0, <2>2, <2>3, <2>5, <2>6, <2>7, StContinues
<1> QED
  BY <1>2, <1>3, <1>4, <1>5

LEMMA StDecrement ==
  ASSUME StInv, NEW t \in Threads, Status!Decrement(t)
  PROVE  StInv' /\ UNCHANGED Status!Val
<1>1. PICK old : old = statusOp[t].old
  OBVIOUS
<1>2. statusOp[t].pc = "decrement" /\ old \in Reps
  BY <1>1 DEF Status!Decrement, StInv, StShape, StShapeOf, StBusy
<1>3. /\ UNCHANGED status /\ statusOp' = [statusOp EXCEPT ![t] = Status!AfterUnref(t)]
      /\ statusHeap' = [statusHeap EXCEPT ![old] = IF statusHeap[old].ref = 1 THEN None
                                                   ELSE [statusHeap[old] EXCEPT !.ref = @ - 1]]
  BY <1>1 DEF Status!Decrement
<1> QED
  BY <1>1, <1>2, <1>3, StReleases

LEMMA StPrepare ==
  ASSUME StInv, NEW t \in Threads, Status!Prepare(t)
  PROVE  StInv' /\ UNCHANGED Status!Val
<1>0. StTypes /\ StShape /\ StKeeps /\ StCounts /\ StAlone
  BY DEF StInv
<1>1. PICK o : o = statusOp[t].this
  OBVIOUS
<1>2. PICK r : r = status[o]
  OBVIOUS
<1>3. PICK x : x = IF statusHeap[r].ref = 1 THEN [statusOp[t] EXCEPT !.pc = "write", !.new = r]
                   ELSE [statusOp[t] EXCEPT !.pc = "clone"]
  OBVIOUS
<1>4. /\ statusOp[t].pc = "prepare" /\ UNCHANGED <<status, statusHeap>>
      /\ statusOp' = [statusOp EXCEPT ![t] = x]
  BY <1>1, <1>2, <1>3 DEF Status!Prepare
<1>5. /\ StBusy(t) /\ StShapeOf(t) /\ StKeepsOf(t) /\ statusOp[t] \in StOps
      /\ statusOp'[t] = x /\ status' = status /\ statusHeap' = statusHeap
  BY <1>0, <1>4 DEF StBusy, StShape, StKeeps, StTypes
<1>6. o \in Objects /\ r \in Reps /\ statusOp[t].todo # None /\ statusOp[t].new = None
  BY <1>1, <1>2, <1>4, <1>5 DEF StShapeOf
<1>7. statusOp[t].from = None
  BY <1>0, <1>4, <1>5 DEF StAlone, StAloneOf
<1>8. /\ x \in StOps /\ x.this = o /\ x.was = statusOp[t].was /\ x.from = None
      /\ x.todo = statusOp[t].todo
      /\ statusHeap[r].ref = 1 => x.pc = "write" /\ x.new = r
      /\ statusHeap[r].ref # 1 => x.pc = "clone" /\ x.new = None
  <2>1. CASE statusHeap[r].ref = 1
    <3>1. x = [statusOp[t] EXCEPT !.pc = "write", !.new = r]
      BY <1>3, <2>1
    <3>2. PICK y : y = [statusOp[t] EXCEPT !.pc = "write"]
      OBVIOUS
    <3>3. /\ y \in StOps /\ y.pc = "write" /\ y.this = o /\ y.was = statusOp[t].was
          /\ y.from = None /\ y.todo = statusOp[t].todo
      BY <1>1, <1>4, <1>5, <1>7, <3>2 DEF StOps
    <3>4. x = [y EXCEPT !.new = r]
      BY <3>1, <3>2
    <3> QED
      BY <1>6, <2>1, <3>3, <3>4 DEF StOps
  <2>2. CASE statusHeap[r].ref # 1
    <3>1. x = [statusOp[t] EXCEPT !.pc = "clone"]
      BY <1>3, <2>2
    <3> QED
      BY <1>1, <1>4, <1>5, <1>6, <1>7, <2>2, <3>1 DEF StOps
  <2> QED
    BY <2>1, <2>2
<1>9. StShapeOf(t)'
  BY <1>2, <1>5, <1>6, <1>8, StConstants DEF StShapeOf
<1>10. Status!ValueOf(o) = statusOp[t].was /\ StContents(r) = statusOp[t].was /\ statusHeap[r] # None
  <2>1. Status!ValueOf(o) = statusOp[t].was
    BY <1>1, <1>4, <1>5, <1>6, StConstants DEF StKeepsOf
  <2>2. statusHeap[r] # None
    BY <1>0, <1>1, <1>2, <1>5, <1>6, StHeld, StConstants DEF StAlone, StAloneOf
  <2> QED
    BY <1>2, <1>6, <2>1, <2>2 DEF Status!ValueOf, StContents
<1>11. StKeepsOf(t)'
  <2>1. CASE x.pc = "write"
    BY <1>5, <1>8, <1>10, <2>1 DEF StKeepsOf, StContents
  <2>2. CASE x.pc # "write"
    <3>1. x.new = None
      BY <1>8, <2>2
    <3>2. Status!ValueOf(o)' = Status!ValueOf(o) /\ status'[o] # None
      BY <1>2, <1>5, <1>6, StConstants DEF Status!ValueOf
    <3> QED
      BY <1>5, <1>8, <1>10, <3>1, <3>2 DEF StKeepsOf
  <2> QED
    BY <2>1, <2>2
<1>12. \A z \in Reps : /\ statusOp[t].pc \in {"unref", "decrement"} /\ statusOp[t].old = z
                          <=> x.pc \in {"unref", "decrement"} /\ x.old = z
                       /\ /\ statusOp[t].pc \in {"unref", "decrement", "write"}
                          /\ statusOp[t].new = z /\ status[x.this] # z
                          <=> /\ x.pc \in {"unref", "decrement", "write"}
                              /\ x.new = z /\ status[x.this] # z
                       /\ x.this \in Objects /\ status[x.this] = z =>
                            (statusOp[t].new \notin {None, z} <=> x.new \notin {None, z})
  BY <1>2, <1>4, <1>6, <1>8, StConstants
<1>13. /\ statusOp[t].pc # "copy" /\ x.pc \notin {"copy", "idle"} /\ x.this = statusOp[t].this
       /\ x.from = statusOp[t].from /\ x.was = statusOp[t].was
  BY <1>1, <1>4, <1>7, <1>8
<1>14. StBusy(t) /\ x \in StOps
  BY <1>5, <1>8
<1> QED
  BY ONLY StInv, t \in Threads, <1>4, <1>9, <1>11, <1>12, <1>13, <1>14, StContinues

\* A payload is to be set or erased: what both do first.
LEMMA StBeginChange ==
  ASSUME StInv, NEW t \in Threads, NEW o \in Objects, NEW todo \in Payloads \cup {NoPayload},
         statusOp[t].pc = "idle", Status!MayChange(o), status[o] \in Reps,
         Status!BeginChange(t, o, todo), UNCHANGED <<status, statusHeap>>
  PROVE  StInv' /\ UNCHANGED Status!Val
<1>0. StTypes /\ StAlone
  BY DEF StInv
<1>1. PICK x : x = [pc |-> "prepare", this |-> o, from |-> None, was |-> Status!ValueOf(o),
                    old |-> None, todo |-> todo, new |-> None]
  OBVIOUS
<1>2. /\ ~StBusy(t) /\ statusOp' = [statusOp EXCEPT ![t] = x]
      /\ \A q \in Threads : StBusy(q) => statusOp[q].this # o /\ statusOp[q].from # o
  BY <1>1 DEF Status!BeginChange, Status!MayChange, Status!Changing, Status!Reading, StBusy
<1>3. x \in StOps
  <2>1. Status!ValueOf(o) \in StWords \cup {None}
    BY <1>0, StValueType
  <2> QED
    BY <1>1, <2>1 DEF StOps
<1>4. /\ statusOp'[t] = x /\ \A q \in Threads \ {t} : statusOp'[q] = statusOp[q]
      /\ status' = status
  BY <1>0, <1>2 DEF StTypes
<1>5. StAloneOf(t)'
  BY <1>1, <1>2, <1>4 DEF StAloneOf, StBusy
<1>6. StShapeOf(t)'
  BY <1>1, <1>4, StConstants DEF StShapeOf
<1>7. x.pc = "prepare" => status[o] # None
  BY StConstants
<1> QED
  BY <1>1, <1>2, <1>3, <1>5, <1>6, <1>7, StEnters

LEMMA StStands ==
  ASSUME StInv, UNCHANGED statuses
  PROVE  StInv' /\ UNCHANGED Status!Val
<1>1. status' = status /\ statusHeap' = statusHeap /\ statusOp' = statusOp
  BY DEF statuses
<1>2. /\ \A o \in Objects : Status!ValueOf(o)' = Status!ValueOf(o) /\ Status!Changing(o)' = Status!Changing(o)
      /\ \A r : StContents(r)' = StContents(r)
      /\ \A t \in Threads : StBusy(t)' <=> StBusy(t)
  BY <1>1 DEF Status!ValueOf, Status!Changing, StContents, StBusy
<1>3. \A r \in Reps : StSame(r)
  <2> SUFFICES ASSUME NEW r \in Reps PROVE StSame(r)
    OBVIOUS
  <2>1. Status!Holders(r)' = Status!Holders(r)
    BY <1>1 DEF Status!Holders, Status!Released, Status!Changing
  <2>2. Status!Owed(r)' = Status!Owed(r) /\ Status!Pending(r)' = Status!Pending(r)
    BY <1>1 DEF Status!Owed, Status!Pending
  <2> QED
    BY <2>1, <2>2 DEF StSame
<1>4. StTypes' /\ StCanonical'
  BY <1>1 DEF StInv, StTypes, StCanonical, StPlain
<1>5. StCounts'
  BY <1>1, <1>3, StSameCount DEF StCounts
<1>6. StAlone'
  BY <1>1, <1>2 DEF StInv, StAlone, StAloneOf
<1>7. StShape'
  BY <1>1, <1>2 DEF StInv, StShape, StShapeOf
<1>8. StKeeps'
  BY <1>1, <1>2 DEF StInv, StKeeps, StKeepsOf, Status!ValueOf
<1>9. UNCHANGED Status!Val
  <2>1. ASSUME NEW o \in Objects PROVE (Status!Val[o])' = Status!Val[o]
    <3>1. StValues /\ StValues'
      BY <1>6, StVal, StValNext DEF StInv
    <3>2. CASE \E t \in Threads : StBusy(t) /\ statusOp[t].this = o
      BY <1>1, <1>2, <3>1, <3>2 DEF StValues
    <3>3. CASE \A t \in Threads : StBusy(t) => statusOp[t].this # o
      BY <1>1, <1>2, <3>1, <3>3 DEF StValues
    <3> QED
      BY <3>2, <3>3
  <2> QED
    BY <2>1, StUnseen
<1> QED
  BY <1>4, <1>5, <1>6, <1>7, <1>8, <1>9 DEF StInv

LEMMA StSetPayload ==
  ASSUME StInv, NEW t \in Threads, NEW o \in Objects, NEW p \in Payloads, Status!SetPayload(t, o, p)
  PROVE  StInv' /\ (StatusValue!SetPayload(o, p) \/ UNCHANGED Status!Val)
<1>0. StTypes /\ StAlone
  BY DEF StInv
<1>1. statusOp[t].pc = "idle" /\ Status!MayChange(o)
  BY DEF Status!SetPayload
<1>2. CASE status[o] = Status!Value!Plain("ok")
  <2>1. UNCHANGED statuses
    BY <1>2 DEF Status!SetPayload, Status!vars, statuses
  <2> QED
    BY <2>1, StStands
<1>3. CASE status[o] # Status!Value!Plain("ok") /\ status[o] \notin Reps
  <2>1. PICK v : v = status[o]
    OBVIOUS
  <2>2. PICK w : w = [v EXCEPT !.payload = p, !.moved = FALSE]
    OBVIOUS
  <2>3. v \in StInlined
    BY <1>0, <1>1, <1>3, <2>1 DEF StTypes, Status!MayChange
  <2>4. v.code # "ok"
    <3>1. v.code = "ok" => v.moved = FALSE /\ v.message = NoMessage /\ v.payload = NoPayload
      BY <2>3 DEF StInlined, StPlain, StWords
    <3>2. v \in StWords
      BY <2>3 DEF StInlined
    <3>3. v.code = "ok" => v = [code |-> "ok", message |-> NoMessage, payload |-> NoPayload,
                                moved |-> FALSE]
      BY <3>1, <3>2 DEF StWords
    <3> QED
      BY <1>3, <2>1, <3>3 DEF Status!Value!Plain, Status!Value!Value
  <2>5. /\ w \in StWords /\ ~w.moved /\ w.code = v.code /\ w.message = v.message /\ w.payload = p
        /\ v \in StWords
    <3> DEFINE u == [v EXCEPT !.payload = p]
    <3>1. u \in StWords /\ u.code = v.code /\ u.message = v.message /\ u.payload = p /\ v \in StWords
      BY <2>3 DEF StInlined, StWords
    <3>2. w = [u EXCEPT !.moved = FALSE]
      BY <2>2
    <3> HIDE DEF u
    <3> QED
      BY <3>1, <3>2 DEF StWords
  <2>6. Status!NewRep([v EXCEPT !.payload = p]) = Status!NewRep(w)
    <3> DEFINE u == [v EXCEPT !.payload = p]
    <3>1. u.code = v.code /\ u.message = v.message /\ u.payload = p
      BY <2>5 DEF StWords
    <3> HIDE DEF u
    <3>2. Status!NewRep(u) = Status!NewRep(w)
      BY <2>5, <3>1 DEF Status!NewRep
    <3> QED
      BY <3>2 DEF u
  <2>7. /\ Status!Available /\ UNCHANGED statusOp
        /\ statusHeap' = [statusHeap EXCEPT ![Status!NewAddress] = Status!NewRep(w)]
        /\ status' = [status EXCEPT ![o] = Status!NewAddress]
    BY <1>3, <2>1, <2>6 DEF Status!SetPayload, Status!Inlined
  <2>8. Status!NewAddress \in Reps /\ statusHeap[Status!NewAddress] = None
    BY <2>7 DEF Status!Available, Status!NewAddress
  <2>9. /\ ~StBusy(t)
        /\ \A q \in Threads : StBusy(q) => statusOp[q].this # o /\ statusOp[q].from # o
    BY <1>1 DEF Status!MayChange, Status!Changing, Status!Reading, StBusy
  <2>10. StPut(t, o, w)
    <3>1. ~StPlain(w) /\ w.code # "ok"
      BY <2>4, <2>5, StConstants DEF StPlain
    <3> QED
      BY <1>3, <2>5, <2>7, <2>8, <2>9, <3>1 DEF StPut
  <2>11. StInv' /\ Status!Val' = [Status!Val EXCEPT ![o] = w]
    BY <2>5, <2>10, StPuts
  <2>12. Status!Val[o] = v
    <3>1. Status!Val[o] = Status!ValueOf(o)
      BY <1>0, <2>9, StVal DEF StValues
    <3> QED
      BY <1>3, <2>1, <3>1 DEF Status!ValueOf
  <2>13. w = StatusValue!WithPayload(v, p)
    BY <2>2, <2>4 DEF StatusValue!WithPayload
  <2>14. v # None
    BY <2>5, StConstants
  <2> QED
    BY <2>11, <2>12, <2>13, <2>14 DEF StatusValue!SetPayload
<1>4. CASE status[o] # Status!Value!Plain("ok") /\ status[o] \in Reps
  <2>1. Status!BeginChange(t, o, p) /\ UNCHANGED <<status, statusHeap>>
    BY <1>4 DEF Status!SetPayload, Status!Inlined
  <2> QED
    BY <1>1, <1>4, <2>1, StBeginChange
<1> QED
  BY <1>2, <1>3, <1>4

LEMMA StErasePayload ==
  ASSUME StInv, NEW t \in Threads, NEW o \in Objects, Status!ErasePayload(t, o)
  PROVE  StInv' /\ UNCHANGED Status!Val
<1>1. /\ statusOp[t].pc = "idle" /\ Status!MayChange(o) /\ status[o] \in Reps
      /\ Status!BeginChange(t, o, NoPayload) /\ UNCHANGED <<status, statusHeap>>
  BY DEF Status!ErasePayload, Status!Inlined
<1> QED
  BY <1>1, StBeginChange

-----------------------------------------------------------------------------
\* What is no longer an object's is the thread's, until it has released it.
LEMMA StHandedCount ==
  ASSUME StInv, NEW r \in Reps, NEW o, NEW t, o \in Status!Holders(r), t \notin Status!Owed(r),
         Status!Holders(r)' = Status!Holders(r) \ {o}, Status!Owed(r)' = Status!Owed(r) \cup {t},
         Status!Pending(r)' = Status!Pending(r), statusHeap'[r] = statusHeap[r]
  PROVE  IF statusHeap'[r] = None
         THEN Status!Holders(r)' = {} /\ Status!Owed(r)' = {} /\ Status!Pending(r)' = {}
         ELSE statusHeap'[r].ref > 0 /\ statusHeap'[r].ref = StHolders(r)'
<1>1. /\ IsFiniteSet(Status!Holders(r)) /\ IsFiniteSet(Status!Owed(r))
      /\ Cardinality(Status!Holders(r)) \in Nat /\ Cardinality(Status!Owed(r)) \in Nat
      /\ Cardinality(Status!Pending(r)) \in Nat
  BY StFinite
<1>2. Cardinality(Status!Holders(r) \ {o}) = Cardinality(Status!Holders(r)) - 1
  BY <1>1, FS_RemoveElement
<1>3. Cardinality(Status!Owed(r) \cup {t}) = Cardinality(Status!Owed(r)) + 1
  BY <1>1, FS_AddElement
<1>4. StHolders(r)' = StHolders(r)
  BY <1>1, <1>2, <1>3 DEF StHolders
<1>5. statusHeap[r] # None
  BY DEF StInv, StCounts
<1> QED
  BY <1>4, <1>5 DEF StInv, StCounts

\* An object takes the place of another.
LEMMA StMovedCount ==
  ASSUME StInv, NEW r \in Reps, NEW o, NEW from, from \in Status!Holders(r), o \notin Status!Holders(r),
         Status!Holders(r)' = (Status!Holders(r) \ {from}) \cup {o}, Status!Owed(r)' = Status!Owed(r),
         Status!Pending(r)' = Status!Pending(r), statusHeap'[r] = statusHeap[r]
  PROVE  IF statusHeap'[r] = None
         THEN Status!Holders(r)' = {} /\ Status!Owed(r)' = {} /\ Status!Pending(r)' = {}
         ELSE statusHeap'[r].ref > 0 /\ statusHeap'[r].ref = StHolders(r)'
<1>1. IsFiniteSet(Status!Holders(r)) /\ Cardinality(Status!Holders(r)) \in Nat
  BY StFinite
<1>2. /\ Cardinality(Status!Holders(r) \ {from}) = Cardinality(Status!Holders(r)) - 1
      /\ IsFiniteSet(Status!Holders(r) \ {from})
  BY <1>1, FS_RemoveElement
<1>3. Cardinality((Status!Holders(r) \ {from}) \cup {o}) = Cardinality(Status!Holders(r) \ {from}) + 1
  BY <1>2, FS_AddElement
<1>4. StHolders(r)' = StHolders(r)
  BY <1>1, <1>2, <1>3 DEF StHolders
<1>5. statusHeap[r] # None
  BY DEF StInv, StCounts
<1> QED
  BY <1>4, <1>5 DEF StInv, StCounts

\* The value of an object that is alive and that no one changes.
LEMMA StAlive ==
  ASSUME StInv, NEW o \in Objects, status[o] # None,
         \A q \in Threads : StBusy(q) => statusOp[q].this # o
  PROVE  Status!Val[o] = Status!ValueOf(o) /\ Status!Val[o] \in StWords /\ Status!Val[o] # None
<1>0. StTypes /\ StAlone
  BY DEF StInv
<1>1. Status!Val[o] = Status!ValueOf(o)
  BY <1>0, StVal DEF StValues
<1>2. status[o] \in Reps => statusHeap[status[o]] # None
  BY StHeld
<1>3. CASE status[o] \in Reps
  <2>1. statusHeap[status[o]] \in StReps
    BY <1>0, <1>2, <1>3 DEF StTypes
  <2>2. Status!Contents(statusHeap[status[o]]) \in StWords
    BY <1>2, <1>3, <2>1 DEF Status!Contents, StReps, StWords
  <2> QED
    BY <1>1, <1>3, <2>2, StConstants DEF Status!ValueOf
<1>4. CASE status[o] \notin Reps
  <2>1. status[o] \in StWords
    BY <1>0, <1>4, StConstants DEF StTypes
  <2> QED
    BY <1>1, <1>4, <2>1, StConstants DEF Status!ValueOf
<1> QED
  BY <1>3, <1>4

\* An object is gone; the thread has its representation to release.
LEMMA StDestroy ==
  ASSUME StInv, NEW t \in Threads, NEW o \in Objects, Status!Destroy(t, o)
  PROVE  StInv' /\ StatusValue!Destroy(o)
<1>0. StTypes /\ StCanonical /\ StCounts /\ StAlone
  BY DEF StInv
<1>1. PICK old : old = status[o]
  OBVIOUS
<1>2. PICK x : x = [pc |-> "unref", this |-> None, from |-> None, was |-> None,
                    old |-> old, todo |-> None, new |-> None]
  OBVIOUS
<1>3. /\ ~StBusy(t) /\ old # None /\ UNCHANGED statusHeap
      /\ status' = [status EXCEPT ![o] = None] /\ statusOp' = [statusOp EXCEPT ![t] = x]
      /\ \A q \in Threads : StBusy(q) => statusOp[q].this # o /\ statusOp[q].from # o
  BY <1>1, <1>2 DEF Status!Destroy, Status!MayChange, Status!Changing, Status!Reading, StBusy
<1>4. old \in Reps \cup StInlined
  BY <1>0, <1>1, <1>3 DEF StTypes
<1>5. x \in StOps
  BY <1>2, <1>4 DEF StOps
<1>6. /\ statusOp'[t] = x /\ \A q \in Threads \ {t} : statusOp'[q] = statusOp[q]
      /\ statusOp' \in [Threads -> StOps] /\ status' \in [Objects -> Reps \cup StInlined \cup {None}]
      /\ status'[o] = None /\ \A y \in Objects \ {o} : status'[y] = status[y]
      /\ statusHeap' = statusHeap /\ StBusy(t)'
  BY <1>0, <1>2, <1>3, <1>5 DEF StTypes, StBusy
<1>7. StTurn(t, {o})
  BY <1>0, <1>2, <1>3, <1>6 DEF StTurn, StTypes
<1>8. ASSUME NEW r \in Reps
      PROVE  IF r = old THEN /\ o \in Status!Holders(r) /\ t \notin Status!Owed(r)
                             /\ Status!Holders(r)' = Status!Holders(r) \ {o} /\ Status!Owed(r)' = Status!Owed(r) \cup {t}
                             /\ Status!Pending(r)' = Status!Pending(r)
             ELSE StSame(r)
  <2>1. /\ \A y \in Objects \ {o} : y \in Status!Holders(r)' <=> y \in Status!Holders(r)
        /\ \A q \in Threads \ {t} : /\ q \in Status!Owed(r)' <=> q \in Status!Owed(r)
                                    /\ q \in Status!Pending(r)' <=> q \in Status!Pending(r)
        /\ t \notin Status!Owed(r) /\ (t \in Status!Owed(r)' <=> r = old)
        /\ t \notin Status!Pending(r) /\ t \notin Status!Pending(r)'
        /\ (o \in Status!Holders(r) <=> r = old) /\ o \notin Status!Holders(r)'
        /\ Status!Holders(r) \subseteq Objects /\ Status!Owed(r) \subseteq Threads
        /\ Status!Pending(r) \subseteq Threads
        /\ Status!Holders(r)' \subseteq Objects /\ Status!Owed(r)' \subseteq Threads
        /\ Status!Pending(r)' \subseteq Threads
    BY <1>1, <1>2, <1>3, <1>6, <1>7, StSets, StConstants DEF StBusy
  <2>2. Status!Holders(r)' = Status!Holders(r) \ {o}
    BY ONLY <2>1
  <2>3. Status!Pending(r)' = Status!Pending(r)
    BY ONLY <2>1
  <2>4. CASE r = old
    <3>1. Status!Owed(r)' = Status!Owed(r) \cup {t}
      BY ONLY <2>1, <2>4, t \in Threads
    <3> QED
      BY <2>1, <2>2, <2>3, <2>4, <3>1
  <2>5. CASE r # old
    <3>1. Status!Owed(r)' = Status!Owed(r)
      BY ONLY <2>1, <2>5
    <3>2. Status!Holders(r)' = Status!Holders(r)
      BY ONLY <2>1, <2>2, <2>5
    <3> QED
      BY <2>3, <2>5, <3>1, <3>2 DEF StSame
  <2> QED
    BY <2>4, <2>5
<1>9. StCounts'
  <2> SUFFICES ASSUME NEW r \in Reps
      PROVE IF statusHeap'[r] = None
            THEN Status!Holders(r)' = {} /\ Status!Owed(r)' = {} /\ Status!Pending(r)' = {}
            ELSE statusHeap'[r].ref > 0 /\ statusHeap'[r].ref = StHolders(r)'
    BY DEF StCounts
  <2>1. CASE r = old
    BY <1>6, <1>8, <2>1, StHandedCount
  <2>2. CASE r # old
    BY <1>6, <1>8, <2>2, StSameCount
  <2> QED
    BY <2>1, <2>2
<1>10. StCanonical'
  BY <1>0, <1>6 DEF StCanonical, StPlain
<1>11. /\ \A q \in Threads \ {t} : StBusy(q) /\ statusOp[q].new # None =>
            statusHeap'[statusOp[q].new] = statusHeap[statusOp[q].new]
       /\ \A r \in Reps : \A y \in Status!Holders(r) \ {o} :
            statusHeap'[r] # None /\ StContents(r)' = StContents(r)
  BY <1>0, <1>6 DEF StCounts, StContents
<1>12. StAloneOf(t)' /\ StShapeOf(t)' /\ StKeepsOf(t)'
  BY <1>2, <1>6 DEF StAloneOf, StShapeOf, StKeepsOf
<1>13. StInv' /\ \A y \in Objects \ {o} : (Status!Val[y])' = Status!Val[y]
  BY <1>7, <1>9, <1>10, <1>11, <1>12, StTurned
<1>14. Status!Val[o] # None
  BY <1>1, <1>3, StAlive
<1>15. (Status!Val[o])' = None
  <2>1. \A q \in Threads : StBusy(q)' => statusOp'[q].this # o
    BY <1>2, <1>3, <1>6, StConstants DEF StBusy
  <2>2. (Status!Val[o])' = Status!ValueOf(o)'
    BY <1>13, <2>1, StValNext DEF StValues, StInv
  <2> QED
    BY <1>6, <2>2, StConstants DEF Status!ValueOf
<1>16. Status!Val' = [Status!Val EXCEPT ![o] = None]
  BY <1>13, <1>15, StPlaced
<1> QED
  BY <1>13, <1>14, <1>16 DEF StatusValue!Destroy

\* The value of one object passes to another.
LEMMA StMove ==
  ASSUME StInv, NEW t \in Threads, NEW o \in Objects, NEW from \in Objects, Status!Move(t, o, from)
  PROVE  StInv' /\ StatusValue!Move(o, from)
<1>0. StTypes /\ StCanonical /\ StCounts /\ StAlone
  BY DEF StInv
<1>1. PICK old, w : old = status[o] /\ w = status[from]
  OBVIOUS
<1>2. PICK x : x = [pc |-> "unref", this |-> None, from |-> None, was |-> None,
                    old |-> old, todo |-> None, new |-> None]
  OBVIOUS
<1>m. PICK moved : moved = Status!Value!Moved
  OBVIOUS
<1>n. moved = [code |-> "internal", message |-> NoMessage, payload |-> NoPayload, moved |-> TRUE]
  <2> DEFINE p == [code |-> "internal", message |-> NoMessage, payload |-> NoPayload, moved |-> FALSE]
  <2>1. moved = [p EXCEPT !.moved = TRUE]
    BY <1>m DEF Status!Value!Moved, Status!Value!Plain, Status!Value!Value
  <2>2. p \in StWords
    BY StConstants DEF StWords
  <2>3. /\ p.code = "internal" /\ p.message = NoMessage /\ p.payload = NoPayload
    OBVIOUS
  <2> HIDE DEF p
  <2>4. /\ moved.code = "internal" /\ moved.message = NoMessage /\ moved.payload = NoPayload
        /\ moved.moved = TRUE /\ moved \in StWords
    BY <2>1, <2>2, <2>3 DEF StWords
  <2> QED
    BY ONLY <2>4 DEF StWords
<1>i. moved \in StInlined /\ moved \notin Reps /\ moved # None
  BY <1>n, StConstants DEF StInlined, StWords, StPlain
<1>3. /\ ~StBusy(t) /\ w # None /\ w # old /\ o # from /\ UNCHANGED statusHeap
      /\ status' = [status EXCEPT ![o] = w, ![from] = moved]
      /\ statusOp' = [statusOp EXCEPT ![t] = x]
      /\ \A q \in Threads : StBusy(q) =>
           statusOp[q].this # o /\ statusOp[q].this # from /\ statusOp[q].from # from
      /\ old = None \/ \A q \in Threads : StBusy(q) => statusOp[q].from # o
  BY <1>1, <1>2, <1>m DEF Status!Move, Status!MayChange, Status!MayConstruct, Status!Changing, Status!Reading, StBusy
<1>4. \A q \in Threads : StBusy(q) => (statusOp[q].pc = "copy" => statusOp[q].from # o)
  BY <1>0, <1>1, <1>3 DEF StAlone, StAloneOf
<1>5. old \in Reps \cup StInlined \cup {None} /\ w \in Reps \cup StInlined
  BY <1>0, <1>1, <1>3 DEF StTypes
<1>6. x \in StOps
  BY <1>2, <1>5 DEF StOps
<1>7. /\ statusOp'[t] = x /\ \A q \in Threads \ {t} : statusOp'[q] = statusOp[q]
      /\ statusOp' \in [Threads -> StOps]
      /\ status'[o] = w /\ status'[from] = moved
      /\ \A y \in Objects \ {o, from} : status'[y] = status[y]
      /\ status' \in [Objects -> Reps \cup StInlined \cup {None}]
      /\ statusHeap' = statusHeap /\ StBusy(t)'
  BY <1>0, <1>2, <1>3, <1>5, <1>6, <1>i DEF StTypes, StBusy
<1>8. StTurn(t, {o, from})
  BY <1>0, <1>2, <1>3, <1>4, <1>7 DEF StTurn, StTypes
<1>9. ASSUME NEW r \in Reps
      PROVE  /\ r = old => /\ o \in Status!Holders(r) /\ t \notin Status!Owed(r)
                           /\ Status!Holders(r)' = Status!Holders(r) \ {o}
                           /\ Status!Owed(r)' = Status!Owed(r) \cup {t}
                           /\ Status!Pending(r)' = Status!Pending(r)
             /\ r = w => /\ from \in Status!Holders(r) /\ o \notin Status!Holders(r)
                         /\ Status!Holders(r)' = (Status!Holders(r) \ {from}) \cup {o}
                         /\ Status!Owed(r)' = Status!Owed(r) /\ Status!Pending(r)' = Status!Pending(r)
             /\ r # old /\ r # w => StSame(r)
  <2>1. /\ \A y \in Objects \ {o, from} : y \in Status!Holders(r)' <=> y \in Status!Holders(r)
        /\ \A q \in Threads \ {t} : /\ q \in Status!Owed(r)' <=> q \in Status!Owed(r)
                                    /\ q \in Status!Pending(r)' <=> q \in Status!Pending(r)
        /\ t \notin Status!Owed(r) /\ (t \in Status!Owed(r)' <=> r = old)
        /\ t \notin Status!Pending(r) /\ t \notin Status!Pending(r)'
        /\ (o \in Status!Holders(r) <=> r = old) /\ (o \in Status!Holders(r)' <=> r = w)
        /\ (from \in Status!Holders(r) <=> r = w) /\ from \notin Status!Holders(r)'
        /\ Status!Holders(r) \subseteq Objects /\ Status!Owed(r) \subseteq Threads
        /\ Status!Pending(r) \subseteq Threads
        /\ Status!Holders(r)' \subseteq Objects /\ Status!Owed(r)' \subseteq Threads
        /\ Status!Pending(r)' \subseteq Threads
    BY <1>1, <1>2, <1>3, <1>7, <1>8, <1>i, StSets, StConstants DEF StBusy
  <2>2. Status!Pending(r)' = Status!Pending(r)
    BY ONLY <2>1
  <2>3. w # old /\ o # from /\ t \in Threads /\ o \in Objects /\ from \in Objects
    BY <1>3
  <2>4. CASE r = old
    <3>1. Status!Owed(r)' = Status!Owed(r) \cup {t}
      BY ONLY <2>1, <2>3, <2>4
    <3>2. Status!Holders(r)' = Status!Holders(r) \ {o}
      BY ONLY <2>1, <2>3, <2>4
    <3> QED
      BY <2>1, <2>2, <2>3, <2>4, <3>1, <3>2
  <2>5. CASE r = w
    <3>1. Status!Owed(r)' = Status!Owed(r)
      BY ONLY <2>1, <2>3, <2>5
    <3>2. Status!Holders(r)' = (Status!Holders(r) \ {from}) \cup {o}
      BY ONLY <2>1, <2>3, <2>5
    <3> QED
      BY <2>1, <2>2, <2>3, <2>5, <3>1, <3>2
  <2>6. CASE r # old /\ r # w
    <3>1. Status!Owed(r)' = Status!Owed(r)
      BY ONLY <2>1, <2>6
    <3>2. Status!Holders(r)' = Status!Holders(r)
      BY ONLY <2>1, <2>6
    <3> QED
      BY <2>2, <2>6, <3>1, <3>2 DEF StSame
  <2> QED
    BY <2>4, <2>5, <2>6
<1>10. StCounts'
  <2> SUFFICES ASSUME NEW r \in Reps
      PROVE IF statusHeap'[r] = None
            THEN Status!Holders(r)' = {} /\ Status!Owed(r)' = {} /\ Status!Pending(r)' = {}
            ELSE statusHeap'[r].ref > 0 /\ statusHeap'[r].ref = StHolders(r)'
    BY DEF StCounts
  <2>1. CASE r = old
    BY <1>7, <1>9, <2>1, StHandedCount
  <2>2. CASE r = w
    BY <1>7, <1>9, <2>2, StMovedCount
  <2>3. CASE r # old /\ r # w
    BY <1>7, <1>9, <2>3, StSameCount
  <2> QED
    BY <2>1, <2>2, <2>3
<1>11. StCanonical'
  BY <1>0, <1>7 DEF StCanonical, StPlain
<1>12. /\ \A q \in Threads \ {t} : StBusy(q) /\ statusOp[q].new # None =>
            statusHeap'[statusOp[q].new] = statusHeap[statusOp[q].new]
       /\ \A r \in Reps : \A y \in Status!Holders(r) \ {o, from} :
            statusHeap'[r] # None /\ StContents(r)' = StContents(r)
  BY <1>0, <1>7 DEF StCounts, StContents
<1>13. StAloneOf(t)' /\ StShapeOf(t)' /\ StKeepsOf(t)'
  BY <1>2, <1>7 DEF StAloneOf, StShapeOf, StKeepsOf
<1>14. StInv' /\ \A y \in Objects \ {o, from} : (Status!Val[y])' = Status!Val[y]
  BY <1>8, <1>10, <1>11, <1>12, <1>13, StTurned
<1>15. Status!Val[from] = Status!ValueOf(from) /\ Status!Val[from] # None
  BY <1>1, <1>3, StAlive
<1>16. (Status!Val[o])' = Status!ValueOf(o)' /\ (Status!Val[from])' = Status!ValueOf(from)'
  <2>1. \A q \in Threads : StBusy(q)' => statusOp'[q].this # o /\ statusOp'[q].this # from
    BY <1>2, <1>3, <1>7, StConstants DEF StBusy
  <2> QED
    BY <1>14, <2>1, StValNext DEF StValues, StInv
<1>17. Status!ValueOf(o)' = Status!ValueOf(from) /\ Status!ValueOf(from)' = moved
  BY <1>1, <1>7, <1>i DEF Status!ValueOf
<1>18. Status!Val' = [Status!Val EXCEPT ![from] = moved, ![o] = Status!Val[from]]
  <2>1. /\ Status!Val = [y \in Objects |-> Status!Val[y]]
        /\ Status!Val' = [y \in Objects |-> (Status!Val[y])']
    BY DEF Status!Val
  <2> QED
    BY <1>3, <1>14, <1>15, <1>16, <1>17, <2>1
<1>19. StatusValue!Moved = moved
  BY <1>m DEF StatusValue!Moved, Status!Value!Moved, StatusValue!Plain, Status!Value!Plain,
              StatusValue!Value, Status!Value!Value
<1> QED
  BY <1>14, <1>15, <1>18, <1>19 DEF StatusValue!Move

\* One more object has a representation, with a count of its own.
LEMMA StSharedCount ==
  ASSUME StInv, NEW r \in Reps, NEW o, o \notin Status!Holders(r), statusHeap[r] # None,
         statusHeap'[r] # None, statusHeap'[r].ref = statusHeap[r].ref + 1,
         Status!Holders(r)' = Status!Holders(r) \cup {o}, Status!Owed(r)' = Status!Owed(r),
         Status!Pending(r)' = Status!Pending(r)
  PROVE  statusHeap'[r].ref > 0 /\ statusHeap'[r].ref = StHolders(r)'
<1>1. /\ IsFiniteSet(Status!Holders(r)) /\ Cardinality(Status!Holders(r)) \in Nat
      /\ Cardinality(Status!Owed(r)) \in Nat /\ Cardinality(Status!Pending(r)) \in Nat
  BY StFinite
<1>2. Cardinality(Status!Holders(r) \cup {o}) = Cardinality(Status!Holders(r)) + 1
  BY <1>1, FS_AddElement
<1>3. StHolders(r)' = StHolders(r) + 1
  BY <1>1, <1>2 DEF StHolders
<1>4. statusHeap[r].ref > 0 /\ statusHeap[r].ref = StHolders(r) /\ StHolders(r) \in Int
  BY <1>1 DEF StInv, StCounts, StHolders
<1> QED
  BY <1>3, <1>4

LEMMA StCopy ==
  ASSUME StInv, NEW t \in Threads, Status!Copy(t)
  PROVE  StInv' /\ \E o, from \in Objects : StatusValue!Copy(o, from)
<1>0. StTypes /\ StCanonical /\ StCounts /\ StAlone /\ StShape
  BY DEF StInv
<1>1. PICK o, from : o = statusOp[t].this /\ from = statusOp[t].from
  OBVIOUS
<1>2. PICK old, w, was : old = status[o] /\ w = status[from] /\ was = Status!ValueOf(from)
  OBVIOUS
<1>3. PICK x : x = [statusOp[t] EXCEPT !.pc = "unref", !.old = old, !.from = None, !.was = was]
  OBVIOUS
<1>4. /\ statusOp[t].pc = "copy" /\ StBusy(t)
      /\ statusHeap' = [r \in Reps |-> IF r = w THEN [statusHeap[r] EXCEPT !.ref = @ + 1]
                                       ELSE statusHeap[r]]
      /\ status' = [status EXCEPT ![o] = w] /\ statusOp' = [statusOp EXCEPT ![t] = x]
  BY <1>1, <1>2, <1>3 DEF Status!Copy, StBusy
<1>5. /\ o \in Objects /\ from \in Objects /\ o # from /\ w # None /\ w # old
      /\ \A q \in Threads : StBusy(q) => statusOp[q].this # from
      /\ \A q \in Threads \ {t} : StBusy(q) => statusOp[q].this # o
  BY <1>0, <1>1, <1>2, <1>4, StConstants DEF StAlone, StAloneOf
<1>6. \A q \in Threads \ {t} : StBusy(q) => (statusOp[q].pc = "copy" => statusOp[q].from # o)
  BY <1>0, <1>1, <1>4 DEF StAlone, StAloneOf
<1>7. /\ statusOp[t] \in StOps /\ statusOp[t].new = None /\ statusOp[t].todo = None
  BY <1>0, <1>4 DEF StTypes, StShape, StShapeOf
<1>8. /\ old \in Reps \cup StInlined \cup {None} /\ w \in Reps \cup StInlined
      /\ was \in StWords /\ Status!Val[from] = was /\ Status!Val[from] # None
  <2>1. old \in Reps \cup StInlined \cup {None} /\ w \in Reps \cup StInlined
    BY <1>0, <1>2, <1>5 DEF StTypes
  <2>2. Status!Val[from] = was /\ Status!Val[from] \in StWords /\ Status!Val[from] # None
    BY <1>2, <1>5, StAlive
  <2> QED
    BY <2>1, <2>2
<1>9. /\ x \in StOps /\ x.pc = "unref" /\ x.this = o /\ x.from = None /\ x.was = was
      /\ x.old = old /\ x.todo = None /\ x.new = None
  <2>1. PICK y : y = [statusOp[t] EXCEPT !.pc = "unref", !.old = old]
    OBVIOUS
  <2>2. /\ y \in StOps /\ y.pc = "unref" /\ y.this = o /\ y.old = old /\ y.todo = None /\ y.new = None
    <3>1. PICK z : z = [statusOp[t] EXCEPT !.pc = "unref"]
      OBVIOUS
    <3>2. /\ z \in StOps /\ z.pc = "unref" /\ z.this = o /\ z.todo = None /\ z.new = None
      BY <1>1, <1>4, <1>7, <3>1 DEF StOps
    <3>3. y = [z EXCEPT !.old = old]
      BY <2>1, <3>1
    <3> QED
      BY <1>8, <3>2, <3>3 DEF StOps
  <2>3. PICK z : z = [y EXCEPT !.from = None]
    OBVIOUS
  <2>4. /\ z \in StOps /\ z.pc = "unref" /\ z.this = o /\ z.old = old /\ z.todo = None /\ z.new = None
        /\ z.from = None
    BY <2>2, <2>3 DEF StOps
  <2>5. x = [z EXCEPT !.was = was]
    BY <1>3, <2>1, <2>3
  <2> QED
    BY <1>8, <2>4, <2>5 DEF StOps
<1>10. w \in Reps => /\ from \in Status!Holders(w) /\ statusHeap[w] # None
                     /\ statusHeap[w] \in StReps
  <2>1. w \in Reps => from \in Status!Holders(w) /\ statusHeap[w] # None
    BY <1>2, <1>5, StHeld
  <2> QED
    BY <1>0, <2>1 DEF StTypes
<1>11. /\ \A r \in Reps : r # w => statusHeap'[r] = statusHeap[r]
       /\ w \in Reps => /\ statusHeap'[w] \in StReps /\ statusHeap'[w] # None
                        /\ statusHeap'[w].ref = statusHeap[w].ref + 1
                        /\ statusHeap'[w].code = statusHeap[w].code
                        /\ statusHeap'[w].message = statusHeap[w].message
                        /\ statusHeap'[w].payload = statusHeap[w].payload
  <2>1. ASSUME w \in Reps
        PROVE  /\ statusHeap'[w] \in StReps
               /\ statusHeap'[w].ref = statusHeap[w].ref + 1
               /\ statusHeap'[w].code = statusHeap[w].code
               /\ statusHeap'[w].message = statusHeap[w].message
               /\ statusHeap'[w].payload = statusHeap[w].payload
    <3>1. statusHeap'[w] = [statusHeap[w] EXCEPT !.ref = @ + 1]
      BY <1>4, <2>1
    <3> QED
      BY <1>10, <2>1, <3>1 DEF StReps
  <2> QED
    BY <1>4, <2>1, StConstants
<1>12. /\ statusOp'[t] = x /\ \A q \in Threads \ {t} : statusOp'[q] = statusOp[q]
       /\ statusOp' \in [Threads -> StOps]
       /\ status'[o] = w /\ \A y \in Objects \ {o} : status'[y] = status[y]
       /\ status' \in [Objects -> Reps \cup StInlined \cup {None}]
       /\ statusHeap' \in [Reps -> StReps \cup {None}] /\ StBusy(t)'
  <2>1. \A r \in Reps : statusHeap'[r] \in StReps \cup {None}
    BY <1>0, <1>11 DEF StTypes
  <2>2. statusHeap' \in [Reps -> StReps \cup {None}]
    BY <1>4, <2>1
  <2> QED
    BY <1>0, <1>4, <1>5, <1>8, <1>9, <2>2 DEF StTypes, StBusy
<1>13. StTurn(t, {o})
  BY <1>1, <1>5, <1>6, <1>9, <1>12 DEF StTurn, StTypes
<1>14. ASSUME NEW r \in Reps
       PROVE  /\ r = old => /\ o \in Status!Holders(r) /\ t \notin Status!Owed(r)
                            /\ Status!Holders(r)' = Status!Holders(r) \ {o}
                            /\ Status!Owed(r)' = Status!Owed(r) \cup {t}
                            /\ Status!Pending(r)' = Status!Pending(r)
              /\ r = w => /\ o \notin Status!Holders(r)
                          /\ Status!Holders(r)' = Status!Holders(r) \cup {o}
                          /\ Status!Owed(r)' = Status!Owed(r) /\ Status!Pending(r)' = Status!Pending(r)
              /\ r # old /\ r # w => StSame(r)
  <2>1. /\ \A y \in Objects \ {o} : y \in Status!Holders(r)' <=> y \in Status!Holders(r)
        /\ \A q \in Threads \ {t} : /\ q \in Status!Owed(r)' <=> q \in Status!Owed(r)
                                    /\ q \in Status!Pending(r)' <=> q \in Status!Pending(r)
        /\ t \notin Status!Owed(r) /\ (t \in Status!Owed(r)' <=> r = old)
        /\ t \notin Status!Pending(r) /\ t \notin Status!Pending(r)'
        /\ (o \in Status!Holders(r) <=> r = old) /\ (o \in Status!Holders(r)' <=> r = w)
        /\ Status!Holders(r) \subseteq Objects /\ Status!Owed(r) \subseteq Threads
        /\ Status!Pending(r) \subseteq Threads
        /\ Status!Holders(r)' \subseteq Objects /\ Status!Owed(r)' \subseteq Threads
        /\ Status!Pending(r)' \subseteq Threads
    BY <1>2, <1>4, <1>5, <1>7, <1>9, <1>12, <1>13, StSets, StConstants
  <2>2. Status!Pending(r)' = Status!Pending(r)
    BY ONLY <2>1
  <2>3. w # old /\ t \in Threads /\ o \in Objects
    BY <1>5
  <2>4. CASE r = old
    <3>1. Status!Owed(r)' = Status!Owed(r) \cup {t}
      BY ONLY <2>1, <2>3, <2>4
    <3>2. Status!Holders(r)' = Status!Holders(r) \ {o}
      BY ONLY <2>1, <2>3, <2>4
    <3> QED
      BY <2>1, <2>2, <2>3, <2>4, <3>1, <3>2
  <2>5. CASE r = w
    <3>1. Status!Owed(r)' = Status!Owed(r)
      BY ONLY <2>1, <2>3, <2>5
    <3>2. Status!Holders(r)' = Status!Holders(r) \cup {o}
      BY ONLY <2>1, <2>3, <2>5
    <3> QED
      BY <2>1, <2>2, <2>3, <2>5, <3>1, <3>2
  <2>6. CASE r # old /\ r # w
    <3>1. Status!Owed(r)' = Status!Owed(r)
      BY ONLY <2>1, <2>6
    <3>2. Status!Holders(r)' = Status!Holders(r)
      BY ONLY <2>1, <2>6
    <3> QED
      BY <2>2, <2>6, <3>1, <3>2 DEF StSame
  <2> QED
    BY <2>4, <2>5, <2>6
<1>15. StCounts'
  <2> SUFFICES ASSUME NEW r \in Reps
      PROVE IF statusHeap'[r] = None
            THEN Status!Holders(r)' = {} /\ Status!Owed(r)' = {} /\ Status!Pending(r)' = {}
            ELSE statusHeap'[r].ref > 0 /\ statusHeap'[r].ref = StHolders(r)'
    BY DEF StCounts
  <2>1. CASE r = old
    BY <1>5, <1>11, <1>14, <2>1, StHandedCount
  <2>2. CASE r = w
    <3>1. statusHeap[r] # None /\ statusHeap'[r] # None
          /\ statusHeap'[r].ref = statusHeap[r].ref + 1
      BY <1>10, <1>11, <2>2
    <3> QED
      BY <1>14, <2>2, <3>1, StSharedCount
  <2>3. CASE r # old /\ r # w
    BY <1>11, <1>14, <2>3, StSameCount
  <2> QED
    BY <2>1, <2>2, <2>3
<1>16. StCanonical'
  BY <1>0, <1>10, <1>11 DEF StCanonical, StPlain
<1>17. \A q \in Threads \ {t} : StBusy(q) /\ statusOp[q].new # None =>
         statusHeap'[statusOp[q].new] = statusHeap[statusOp[q].new]
  <2> SUFFICES ASSUME NEW q \in Threads \ {t}, StBusy(q), statusOp[q].new # None
      PROVE statusHeap'[statusOp[q].new] = statusHeap[statusOp[q].new]
    OBVIOUS
  <2>1. statusOp[q].new \in Reps /\ Status!Holders(statusOp[q].new) \subseteq {statusOp[q].this}
    BY StMine
  <2>2. statusOp[q].new # w
    BY <1>5, <1>10, <2>1
  <2> QED
    BY <1>11, <2>1, <2>2
<1>18. \A r \in Reps : statusHeap[r] # None =>
         statusHeap'[r] # None /\ StContents(r)' = StContents(r)
  BY <1>11 DEF StContents, Status!Contents
<1>19. \A r \in Reps : \A y \in Status!Holders(r) \ {o} :
         statusHeap'[r] # None /\ StContents(r)' = StContents(r)
  BY <1>0, <1>18 DEF StCounts
<1>20. Status!ValueOf(o)' = was
  <2>1. CASE w \in Reps
    <3>1. StContents(w)' = StContents(w)
      BY <1>10, <1>18, <2>1
    <3> QED
      BY <1>2, <1>12, <2>1, <3>1 DEF Status!ValueOf, StContents
  <2>2. CASE w \notin Reps
    BY <1>2, <1>12, <2>2 DEF Status!ValueOf
  <2> QED
    BY <2>1, <2>2
<1>21. StAloneOf(t)' /\ StShapeOf(t)' /\ StKeepsOf(t)'
  <2>1. StAloneOf(t)'
    BY <1>5, <1>9, <1>12, <1>13, <1>17, <1>19, StOthers
  <2>2. StShapeOf(t)'
    BY <1>9, <1>12 DEF StShapeOf
  <2>3. StKeepsOf(t)'
    BY <1>5, <1>9, <1>12, <1>20 DEF StKeepsOf
  <2> QED
    BY <2>1, <2>2, <2>3
<1>22. StInv' /\ \A y \in Objects \ {o} : (Status!Val[y])' = Status!Val[y]
  BY <1>5, <1>13, <1>15, <1>16, <1>17, <1>19, <1>21, StTurned
<1>23. (Status!Val[o])' = was
  BY <1>5, <1>9, <1>12, <1>22, StValNext DEF StValues, StInv
<1>24. Status!Val' = [Status!Val EXCEPT ![o] = was]
  BY <1>5, <1>22, <1>23, StPlaced
<1> QED
  BY <1>5, <1>8, <1>22, <1>24 DEF StatusValue!Copy

\* A representation that others have too is copied.
LEMMA StClone ==
  ASSUME StInv, NEW t \in Threads, Status!Clone(t)
  PROVE  StInv' /\ UNCHANGED Status!Val
<1>0. StTypes /\ StCanonical /\ StCounts /\ StAlone /\ StShape /\ StKeeps
  BY DEF StInv
<1>1. PICK o : o = statusOp[t].this
  OBVIOUS
<1>2. PICK old, a : old = status[o] /\ a = Status!NewAddress
  OBVIOUS
<1>3. PICK x : x = [statusOp[t] EXCEPT !.pc = "unref", !.old = old, !.new = a]
  OBVIOUS
<1>4. /\ statusOp[t].pc = "clone" /\ StBusy(t) /\ a \in Reps /\ statusHeap[a] = None
      /\ statusHeap' = [statusHeap EXCEPT ![a] = [statusHeap[old] EXCEPT !.ref = 1]]
      /\ UNCHANGED status /\ statusOp' = [statusOp EXCEPT ![t] = x]
  <2>1. Status!NewAddress \in Reps /\ statusHeap[Status!NewAddress] = None
    BY DEF Status!Clone, Status!Available, Status!NewAddress
  <2> QED
    BY <1>1, <1>2, <1>3, <2>1 DEF Status!Clone, StBusy
<1>5. /\ o \in Objects /\ old \in Reps /\ statusOp[t].new = None /\ statusOp[t].todo # None
      /\ statusOp[t] \in StOps /\ Status!ValueOf(o) = statusOp[t].was /\ statusOp[t].from = None
      /\ \A q \in Threads \ {t} : StBusy(q) => statusOp[q].this # o
  <2>1. o \in Objects /\ old \in Reps /\ statusOp[t].new = None /\ statusOp[t].todo # None
    BY <1>0, <1>1, <1>2, <1>4 DEF StShape, StShapeOf
  <2>2. statusOp[t] \in StOps
    BY <1>0 DEF StTypes
  <2>3. Status!ValueOf(o) = statusOp[t].was
    BY <1>0, <1>1, <1>4, <2>1, StConstants DEF StKeeps, StKeepsOf
  <2>4. statusOp[t].from = None /\ \A q \in Threads \ {t} : StBusy(q) => statusOp[q].this # o
    BY <1>0, <1>1, <1>4, <2>1, StConstants DEF StAlone, StAloneOf
  <2> QED
    BY <2>1, <2>2, <2>3, <2>4
<1>6. \A q \in Threads \ {t} : StBusy(q) => (statusOp[q].pc = "copy" => statusOp[q].from # o)
  BY <1>0, <1>1, <1>4 DEF StAlone, StAloneOf
<1>7. o \in Status!Holders(old) /\ statusHeap[old] # None /\ statusHeap[old] \in StReps /\ a # old
  <2>1. o \in Status!Holders(old) /\ statusHeap[old] # None
    BY <1>1, <1>2, <1>5, StHeld
  <2> QED
    BY <1>0, <1>4, <1>5, <2>1 DEF StTypes
<1>8. /\ x \in StOps /\ x.pc = "unref" /\ x.this = o /\ x.from = None /\ x.was = statusOp[t].was
      /\ x.old = old /\ x.todo = statusOp[t].todo /\ x.new = a
  <2>1. PICK y : y = [statusOp[t] EXCEPT !.pc = "unref"]
    OBVIOUS
  <2>2. /\ y \in StOps /\ y.pc = "unref" /\ y.this = o /\ y.todo = statusOp[t].todo
        /\ y.from = None /\ y.was = statusOp[t].was
    BY <1>1, <1>4, <1>5, <2>1 DEF StOps
  <2>3. PICK z : z = [y EXCEPT !.old = old]
    OBVIOUS
  <2>4. /\ z \in StOps /\ z.pc = "unref" /\ z.this = o /\ z.old = old /\ z.todo = statusOp[t].todo
        /\ z.from = None /\ z.was = statusOp[t].was
    BY <1>5, <2>2, <2>3 DEF StOps
  <2>5. x = [z EXCEPT !.new = a]
    BY <1>3, <2>1, <2>3
  <2> QED
    BY <1>4, <2>4, <2>5 DEF StOps
<1>9. /\ \A r \in Reps : r # a => statusHeap'[r] = statusHeap[r]
      /\ statusHeap'[a] \in StReps /\ statusHeap'[a] # None /\ statusHeap'[a].ref = 1
      /\ statusHeap'[a].code = statusHeap[old].code
      /\ statusHeap'[a].message = statusHeap[old].message
      /\ statusHeap'[a].payload = statusHeap[old].payload
  <2>1. statusHeap'[a] = [statusHeap[old] EXCEPT !.ref = 1]
    BY <1>0, <1>4 DEF StTypes
  <2>2. /\ statusHeap'[a] \in StReps /\ statusHeap'[a].ref = 1
        /\ statusHeap'[a].code = statusHeap[old].code
        /\ statusHeap'[a].message = statusHeap[old].message
        /\ statusHeap'[a].payload = statusHeap[old].payload
    BY <1>7, <2>1 DEF StReps
  <2> QED
    BY <1>0, <1>4, <2>2, StConstants DEF StTypes
<1>10. /\ statusOp'[t] = x /\ \A q \in Threads \ {t} : statusOp'[q] = statusOp[q]
       /\ statusOp' \in [Threads -> StOps] /\ status' = status
       /\ statusHeap' \in [Reps -> StReps \cup {None}] /\ StBusy(t)'
  <2>1. [statusHeap[old] EXCEPT !.ref = 1] \in StReps
    BY <1>7 DEF StReps
  <2> QED
    BY <1>0, <1>4, <1>8, <2>1 DEF StTypes, StBusy
<1>11. StTurn(t, {o})
  BY <1>0, <1>1, <1>5, <1>6, <1>8, <1>10 DEF StTurn, StTypes
<1>12. ASSUME NEW r \in Reps
       PROVE  /\ r = old => /\ o \in Status!Holders(r) /\ t \notin Status!Owed(r)
                            /\ Status!Holders(r)' = Status!Holders(r) \ {o}
                            /\ Status!Owed(r)' = Status!Owed(r) \cup {t}
                            /\ Status!Pending(r)' = Status!Pending(r)
              /\ r = a => Status!Holders(r)' = {} /\ Status!Owed(r)' = {} /\ Status!Pending(r)' = {t}
              /\ r # old /\ r # a => StSame(r)
  <2>1. /\ \A y \in Objects \ {o} : y \in Status!Holders(r)' <=> y \in Status!Holders(r)
        /\ \A q \in Threads \ {t} : /\ q \in Status!Owed(r)' <=> q \in Status!Owed(r)
                                    /\ q \in Status!Pending(r)' <=> q \in Status!Pending(r)
        /\ t \notin Status!Owed(r) /\ (t \in Status!Owed(r)' <=> r = old)
        /\ t \notin Status!Pending(r) /\ (t \in Status!Pending(r)' <=> r = a)
        /\ (o \in Status!Holders(r) <=> r = old) /\ o \notin Status!Holders(r)'
        /\ Status!Holders(r) \subseteq Objects /\ Status!Owed(r) \subseteq Threads
        /\ Status!Pending(r) \subseteq Threads
        /\ Status!Holders(r)' \subseteq Objects /\ Status!Owed(r)' \subseteq Threads
        /\ Status!Pending(r)' \subseteq Threads
    BY <1>2, <1>4, <1>5, <1>7, <1>8, <1>10, <1>11, StSets, StConstants
  <2>2. a # old /\ t \in Threads /\ o \in Objects
    BY <1>5, <1>7
  <2>3. r = a => Status!Holders(r) = {} /\ Status!Owed(r) = {} /\ Status!Pending(r) = {}
    BY <1>0, <1>4 DEF StCounts
  <2>4. CASE r = old
    <3>1. Status!Owed(r)' = Status!Owed(r) \cup {t}
      BY ONLY <2>1, <2>2, <2>4
    <3>2. Status!Holders(r)' = Status!Holders(r) \ {o}
      BY ONLY <2>1, <2>2, <2>4
    <3>3. Status!Pending(r)' = Status!Pending(r)
      BY ONLY <2>1, <2>2, <2>4
    <3> QED
      BY <2>1, <2>2, <2>4, <3>1, <3>2, <3>3
  <2>5. CASE r = a
    <3>1. Status!Owed(r)' = {}
      BY ONLY <2>1, <2>2, <2>3, <2>5
    <3>2. Status!Holders(r)' = {}
      BY ONLY <2>1, <2>2, <2>3, <2>5
    <3>3. Status!Pending(r)' = {t}
      BY ONLY <2>1, <2>2, <2>3, <2>5
    <3> QED
      BY <2>2, <2>5, <3>1, <3>2, <3>3
  <2>6. CASE r # old /\ r # a
    <3>1. Status!Owed(r)' = Status!Owed(r)
      BY ONLY <2>1, <2>6
    <3>2. Status!Holders(r)' = Status!Holders(r)
      BY ONLY <2>1, <2>6
    <3>3. Status!Pending(r)' = Status!Pending(r)
      BY ONLY <2>1, <2>6
    <3> QED
      BY <2>6, <3>1, <3>2, <3>3 DEF StSame
  <2> QED
    BY <2>4, <2>5, <2>6
<1>13. StCounts'
  <2> SUFFICES ASSUME NEW r \in Reps
      PROVE IF statusHeap'[r] = None
            THEN Status!Holders(r)' = {} /\ Status!Owed(r)' = {} /\ Status!Pending(r)' = {}
            ELSE statusHeap'[r].ref > 0 /\ statusHeap'[r].ref = StHolders(r)'
    BY DEF StCounts
  <2>1. CASE r = old
    BY <1>7, <1>9, <1>12, <2>1, StHandedCount
  <2>2. CASE r = a
    <3>1. Status!Holders(r)' = {} /\ Status!Owed(r)' = {} /\ Status!Pending(r)' = {t}
      BY <1>12, <2>2
    <3>2. StHolders(r)' = 1
      BY <3>1, StNewCount
    <3> QED
      BY <1>9, <2>2, <3>2
  <2>3. CASE r # old /\ r # a
    BY <1>9, <1>12, <2>3, StSameCount
  <2> QED
    BY <2>1, <2>2, <2>3
<1>14. StCanonical'
  BY <1>0, <1>5, <1>7, <1>9 DEF StCanonical, StPlain
<1>15. \A r \in Reps : statusHeap[r] # None =>
         statusHeap'[r] = statusHeap[r] /\ StContents(r)' = StContents(r)
  BY <1>4, <1>9 DEF StContents
<1>16. \A q \in Threads \ {t} : StBusy(q) /\ statusOp[q].new # None =>
         statusHeap'[statusOp[q].new] = statusHeap[statusOp[q].new]
  BY <1>15, StMine
<1>17. \A r \in Reps : \A y \in Status!Holders(r) \ {o} :
         statusHeap'[r] # None /\ StContents(r)' = StContents(r)
  BY <1>0, <1>15 DEF StCounts
<1>18. StContents(a)' = statusOp[t].was
  <2>1. Status!ValueOf(o) = Status!Contents(statusHeap[old])
    BY <1>2, <1>5 DEF Status!ValueOf
  <2>2. Status!Contents(statusHeap'[a]) = Status!Contents(statusHeap[old])
    BY <1>7, <1>9 DEF Status!Contents
  <2>3. StContents(a)' = Status!Contents(statusHeap'[a])
    BY DEF StContents
  <2> QED
    BY <1>5, <2>1, <2>2, <2>3
<1>19. StAloneOf(t)' /\ StShapeOf(t)' /\ StKeepsOf(t)'
  <2>1. StAloneOf(t)'
    BY <1>5, <1>8, <1>10, <1>11, <1>16, <1>17, StOthers
  <2>2. StShapeOf(t)'
    BY <1>2, <1>4, <1>5, <1>7, <1>8, <1>10, StConstants DEF StShapeOf
  <2>3. a # None
    BY <1>4, StConstants
  <2>4. StKeepsOf(t)'
    BY <1>8, <1>9, <1>10, <1>18, <2>3 DEF StKeepsOf, StContents
  <2> QED
    BY <2>1, <2>2, <2>4
<1>20. StInv' /\ \A y \in Objects \ {o} : (Status!Val[y])' = Status!Val[y]
  BY <1>5, <1>11, <1>13, <1>14, <1>16, <1>17, <1>19, StTurned
<1>21. (Status!Val[o])' = Status!Val[o]
  <2>1. Status!Val[o] = statusOp[t].was
    BY <1>0, <1>1, <1>4, <1>5, StVal DEF StValues
  <2>2. (Status!Val[o])' = x.was
    BY <1>5, <1>8, <1>10, <1>20, StValNext DEF StValues, StInv
  <2> QED
    BY <1>8, <2>1, <2>2
<1> QED
  BY <1>20, <1>21, StUnseen

\* What is the thread's alone is changed, and put into its object.
LEMMA StWrite ==
  ASSUME StInv, NEW t \in Threads, Status!Write(t)
  PROVE  /\ StInv'
         /\ \E o \in Objects : \/ \E p \in Payloads : StatusValue!SetPayload(o, p)
                               \/ StatusValue!ErasePayload(o)
<1>0. StTypes /\ StCanonical /\ StCounts /\ StAlone /\ StShape /\ StKeeps
  BY DEF StInv
<1>1. PICK o, r, todo : o = statusOp[t].this /\ r = statusOp[t].new /\ todo = statusOp[t].todo
  OBVIOUS
<1>2. PICK inlines \in BOOLEAN :
        inlines = /\ todo = NoPayload /\ statusHeap[r].payload # NoPayload
                  /\ statusHeap[r].message = NoMessage
  OBVIOUS
<1>3. PICK word : word = Status!Value!Plain(statusHeap[r].code)
  OBVIOUS
<1>4. /\ statusOp[t].pc = "write" /\ StBusy(t)
      /\ statusHeap' = IF inlines THEN [statusHeap EXCEPT ![r] = None]
                       ELSE [statusHeap EXCEPT ![r].payload = todo]
      /\ status' = [status EXCEPT ![o] = IF inlines THEN word ELSE r]
      /\ statusOp' = [statusOp EXCEPT ![t] = [pc |-> "idle"]]
  BY <1>1, <1>2, <1>3 DEF Status!Write, Status!Idle, StBusy
<1>5. /\ o \in Objects /\ r \in Reps /\ todo \in Payloads \cup {NoPayload}
      /\ statusHeap[r] \in StReps /\ statusHeap[r] # None /\ statusHeap[r].ref = 1
      /\ StContents(r) = statusOp[t].was
      /\ \A q \in Threads \ {t} : StBusy(q) => statusOp[q].this # o
      /\ \A q \in Threads \ {t} : StBusy(q) => (statusOp[q].pc = "copy" => statusOp[q].from # o)
  <2>1. r # None /\ o \in Objects /\ todo # None
    BY <1>0, <1>1, <1>4 DEF StShape, StShapeOf
  <2>2. r \in Reps /\ todo \in Payloads \cup {NoPayload}
    BY <1>0, <1>1, <1>4, <2>1 DEF StTypes, StOps
  <2>3. statusHeap[r] # None /\ statusHeap[r].ref = 1 /\ StContents(r) = statusOp[t].was
    BY <1>0, <1>1, <1>4, <2>1 DEF StKeeps, StKeepsOf
  <2>4. statusHeap[r] \in StReps
    BY <1>0, <2>2, <2>3 DEF StTypes
  <2>5. /\ \A q \in Threads \ {t} : StBusy(q) => statusOp[q].this # o
        /\ \A q \in Threads \ {t} : StBusy(q) => (statusOp[q].pc = "copy" => statusOp[q].from # o)
    BY <1>0, <1>1, <1>4, <2>1, StConstants DEF StAlone, StAloneOf
  <2> QED
    BY <2>1, <2>2, <2>3, <2>4, <2>5
<1>6. /\ \A q \in Threads : StBusy(q) /\ statusOp[q].new = r => q = t
      /\ Status!Owed(r) = {} /\ Status!Holders(r) \subseteq {o}
      /\ Status!Pending(r) \subseteq {t}
  <2>1. statusOp[t].new # None
    BY <1>1, <1>5, StConstants
  <2> QED
    BY <1>1, <1>4, <2>1, StMine
<1>7. /\ word = [code |-> statusHeap[r].code, message |-> NoMessage, payload |-> NoPayload,
                 moved |-> FALSE]
      /\ word \in StInlined /\ word \notin Reps /\ word # None
  <2>1. word = [code |-> statusHeap[r].code, message |-> NoMessage, payload |-> NoPayload,
                moved |-> FALSE]
    BY <1>3 DEF Status!Value!Plain, Status!Value!Value
  <2>2. statusHeap[r].code \in Codes
    BY <1>5 DEF StReps
  <2>3. word \in StInlined
    BY <2>1, <2>2, StConstants DEF StInlined, StWords, StPlain
  <2> QED
    BY <2>1, <2>3, StConstants
<1>8. /\ \A z \in Reps : z # r => statusHeap'[z] = statusHeap[z]
      /\ inlines => statusHeap'[r] = None
      /\ ~inlines => /\ statusHeap'[r] \in StReps /\ statusHeap'[r].ref = 1
                     /\ statusHeap'[r].code = statusHeap[r].code
                     /\ statusHeap'[r].message = statusHeap[r].message
                     /\ statusHeap'[r].payload = todo
      /\ statusHeap' \in [Reps -> StReps \cup {None}]
  <2>1. CASE inlines
    <3>1. statusHeap' = [statusHeap EXCEPT ![r] = None]
      BY <1>4, <2>1
    <3> QED
      BY <1>0, <1>5, <2>1, <3>1 DEF StTypes
  <2>2. CASE ~inlines
    <3>1. PICK y : y = [statusHeap[r] EXCEPT !.payload = todo]
      OBVIOUS
    <3>2. statusHeap' = [statusHeap EXCEPT ![r] = y]
      BY <1>4, <2>2, <3>1
    <3>3. /\ y \in StReps /\ y.ref = 1 /\ y.code = statusHeap[r].code
          /\ y.message = statusHeap[r].message /\ y.payload = todo
      BY <1>5, <3>1 DEF StReps
    <3> QED
      BY <1>0, <1>5, <2>2, <3>2, <3>3 DEF StTypes
  <2> QED
    BY <2>1, <2>2
<1>9. /\ statusOp'[t] = [pc |-> "idle"] /\ \A q \in Threads \ {t} : statusOp'[q] = statusOp[q]
      /\ statusOp' \in [Threads -> StOps] /\ ~StBusy(t)'
      /\ status'[o] = IF inlines THEN word ELSE r
      /\ \A y \in Objects \ {o} : status'[y] = status[y]
      /\ status' \in [Objects -> Reps \cup StInlined \cup {None}]
  <2>1. [pc |-> "idle"] \in StOps
    BY DEF StOps
  <2>2. (IF inlines THEN word ELSE r) \in Reps \cup StInlined \cup {None}
    BY <1>5, <1>7
  <2> QED
    BY <1>0, <1>4, <1>5, <2>1, <2>2 DEF StTypes, StBusy
<1>10. StTurn(t, {o})
  BY <1>1, <1>5, <1>8, <1>9 DEF StTurn, StTypes
<1>11. ASSUME NEW z \in Reps
       PROVE  /\ z # r => StSame(z)
              /\ z = r => /\ Status!Holders(z)' = IF inlines THEN {} ELSE {o}
                          /\ Status!Owed(z)' = {} /\ Status!Pending(z)' = {}
  <2>1. /\ \A y \in Objects \ {o} : y \in Status!Holders(z)' <=> y \in Status!Holders(z)
        /\ \A q \in Threads \ {t} : /\ q \in Status!Owed(z)' <=> q \in Status!Owed(z)
                                    /\ q \in Status!Pending(z)' <=> q \in Status!Pending(z)
        /\ t \notin Status!Owed(z) /\ t \notin Status!Owed(z)'
        /\ (t \in Status!Pending(z) => z = r) /\ t \notin Status!Pending(z)'
        /\ (o \in Status!Holders(z) => z = r) /\ (o \in Status!Holders(z)' <=> z = r /\ ~inlines)
        /\ Status!Holders(z) \subseteq Objects /\ Status!Owed(z) \subseteq Threads
        /\ Status!Pending(z) \subseteq Threads
        /\ Status!Holders(z)' \subseteq Objects /\ Status!Owed(z)' \subseteq Threads
        /\ Status!Pending(z)' \subseteq Threads
    <3>1. /\ \A y \in Objects \ {o} : y \in Status!Holders(z)' <=> y \in Status!Holders(z)
          /\ \A q \in Threads \ {t} : /\ q \in Status!Owed(z)' <=> q \in Status!Owed(z)
                                      /\ q \in Status!Pending(z)' <=> q \in Status!Pending(z)
          /\ t \notin Status!Owed(z) /\ t \notin Status!Owed(z)'
          /\ (t \in Status!Pending(z) => z = r) /\ t \notin Status!Pending(z)'
      BY <1>1, <1>4, <1>5, <1>9, <1>10, StSets
    <3>2. o \in Status!Holders(z) => z = r
      BY <1>1, <1>4, <1>5, <1>10, StSets, StConstants
    <3>3. o \in Status!Holders(z)' <=> status'[o] = z
      BY <1>5, <1>9, <1>10, StSets
    <3>4. o \in Status!Holders(z)' <=> z = r /\ ~inlines
      BY <1>7, <1>9, <3>3
    <3>5. /\ Status!Holders(z) \subseteq Objects /\ Status!Owed(z) \subseteq Threads
          /\ Status!Pending(z) \subseteq Threads
          /\ Status!Holders(z)' \subseteq Objects /\ Status!Owed(z)' \subseteq Threads
          /\ Status!Pending(z)' \subseteq Threads
      BY DEF Status!Holders, Status!Owed, Status!Pending
    <3> QED
      BY <3>1, <3>2, <3>4, <3>5
  <2>2. t \in Threads /\ o \in Objects /\ inlines \in BOOLEAN
    BY <1>5
  <2>3. CASE z # r
    <3>1. Status!Owed(z)' = Status!Owed(z)
      BY ONLY <2>1, <2>3
    <3>2. Status!Holders(z)' = Status!Holders(z)
      BY ONLY <2>1, <2>3
    <3>3. Status!Pending(z)' = Status!Pending(z)
      BY ONLY <2>1, <2>3
    <3> QED
      BY <2>3, <3>1, <3>2, <3>3 DEF StSame
  <2>4. CASE z = r
    <3>0. Status!Owed(z) = {} /\ Status!Holders(z) \subseteq {o} /\ Status!Pending(z) \subseteq {t}
      BY <1>6, <2>4
    <3>1. Status!Owed(z)' = {}
      BY ONLY <2>1, <2>2, <3>0
    <3>2. Status!Holders(z)' = IF inlines THEN {} ELSE {o}
      BY ONLY <2>1, <2>2, <2>4, <3>0
    <3>3. Status!Pending(z)' = {}
      BY ONLY <2>1, <2>2, <3>0
    <3> QED
      BY <2>4, <3>1, <3>2, <3>3
  <2> QED
    BY <2>3, <2>4
<1>12. StCounts'
  <2> SUFFICES ASSUME NEW z \in Reps
      PROVE IF statusHeap'[z] = None
            THEN Status!Holders(z)' = {} /\ Status!Owed(z)' = {} /\ Status!Pending(z)' = {}
            ELSE statusHeap'[z].ref > 0 /\ statusHeap'[z].ref = StHolders(z)'
    BY DEF StCounts
  <2>1. CASE z # r
    BY <1>8, <1>11, <2>1, StSameCount
  <2>2. CASE z = r /\ inlines
    BY <1>8, <1>11, <2>2
  <2>3. CASE z = r /\ ~inlines
    <3>1. Status!Holders(z)' = {o} /\ Status!Owed(z)' = {} /\ Status!Pending(z)' = {}
      BY <1>11, <2>3
    <3>2. StHolders(z)' = 1
      BY <3>1, StNewCount
    <3>3. statusHeap'[z] # None /\ statusHeap'[z].ref = 1
      BY <1>8, <2>3, StConstants
    <3> QED
      BY <3>2, <3>3
  <2> QED
    BY <2>1, <2>2, <2>3
<1>13. StCanonical'
  <2>1. statusHeap[r].code # "ok" /\ ~StPlain(statusHeap[r])
    BY <1>0, <1>5 DEF StCanonical
  <2>2. ~inlines => statusHeap'[r].code # "ok" /\ ~StPlain(statusHeap'[r])
    BY <1>2, <1>5, <1>8, <2>1 DEF StPlain
  <2> QED
    BY <1>0, <1>8, <2>2 DEF StCanonical, StPlain
<1>14. /\ \A q \in Threads \ {t} : StBusy(q) /\ statusOp[q].new # None =>
            statusHeap'[statusOp[q].new] = statusHeap[statusOp[q].new]
       /\ \A z \in Reps : \A y \in Status!Holders(z) \ {o} :
            statusHeap'[z] # None /\ StContents(z)' = StContents(z)
  <2>1. \A q \in Threads \ {t} : StBusy(q) /\ statusOp[q].new # None =>
          statusOp[q].new \in Reps /\ statusOp[q].new # r
    BY <1>6, StMine
  <2>2. \A z \in Reps : \A y \in Status!Holders(z) \ {o} : z # r /\ statusHeap[z] # None
    BY <1>0, <1>6 DEF StCounts
  <2> QED
    BY <1>8, <2>1, <2>2 DEF StContents
<1>15. StInv' /\ \A y \in Objects \ {o} : (Status!Val[y])' = Status!Val[y]
  BY <1>5, <1>9, <1>10, <1>12, <1>13, <1>14, StTurned
<1>16. PICK v : v = StContents(r)
  OBVIOUS
<1>17. /\ v = [code |-> statusHeap[r].code, message |-> statusHeap[r].message,
               payload |-> statusHeap[r].payload, moved |-> FALSE]
       /\ v \in StWords /\ v # None /\ Status!Val[o] = v
  <2>1. v = [code |-> statusHeap[r].code, message |-> statusHeap[r].message,
             payload |-> statusHeap[r].payload, moved |-> FALSE]
    BY <1>5, <1>16 DEF StContents, Status!Contents
  <2>2. v \in StWords
    BY <1>5, <2>1 DEF StReps, StWords
  <2>3. Status!Val[o] = statusOp[t].was
    BY <1>0, <1>1, <1>4, <1>5, StVal DEF StValues
  <2> QED
    BY <1>5, <1>16, <2>1, <2>2, <2>3, StConstants
<1>18. PICK y : y = [code |-> statusHeap[r].code, message |-> statusHeap[r].message,
                     payload |-> todo, moved |-> FALSE]
  OBVIOUS
<1>19. Status!Val' = [Status!Val EXCEPT ![o] = y]
  <2>1. \A q \in Threads : StBusy(q)' => statusOp'[q].this # o
    BY <1>5, <1>9 DEF StBusy
  <2>2. (Status!Val[o])' = Status!ValueOf(o)'
    BY <1>5, <1>15, <2>1, StValNext DEF StValues, StInv
  <2>3. Status!ValueOf(o)' = y
    <3>1. CASE inlines
      BY <1>2, <1>7, <1>9, <1>18, <3>1 DEF Status!ValueOf
    <3>2. CASE ~inlines
      <4>1. statusHeap'[r] # None
        BY <1>8, <3>2, StConstants
      <4>2. Status!Contents(statusHeap'[r]) = y
        BY <1>8, <1>18, <3>2, <4>1 DEF Status!Contents
      <4>3. status'[o] = r
        BY <1>9, <3>2
      <4> QED
        BY <1>5, <4>2, <4>3 DEF Status!ValueOf
    <3> QED
      BY <3>1, <3>2
  <2> QED
    BY <1>5, <1>15, <2>2, <2>3, StPlaced
<1>20. CASE todo = NoPayload
  <2>1. y = StatusValue!WithoutPayload(v)
    <3>0. /\ v.code = statusHeap[r].code /\ v.message = statusHeap[r].message /\ v.moved = FALSE
          /\ v \in StWords
      BY <1>17
    <3> DEFINE u == [v EXCEPT !.payload = NoPayload]
    <3>1. /\ u \in StWords /\ u.code = statusHeap[r].code /\ u.message = statusHeap[r].message
          /\ u.payload = NoPayload /\ u.moved = FALSE
      BY ONLY <3>0 DEF StWords
    <3> HIDE DEF u
    <3>2. u = [code |-> statusHeap[r].code, message |-> statusHeap[r].message,
               payload |-> NoPayload, moved |-> FALSE]
      BY ONLY <3>1 DEF StWords
    <3>3. u = StatusValue!WithoutPayload(v)
      BY DEF u, StatusValue!WithoutPayload
    <3> QED
      BY <1>18, <1>20, <3>2, <3>3
  <2>2. StatusValue!ErasePayload(o)
    BY <1>17, <1>19, <2>1 DEF StatusValue!ErasePayload
  <2> QED
    BY <1>5, <1>15, <2>2
<1>21. CASE todo \in Payloads
  <2>1. y = StatusValue!WithPayload(v, todo)
    <3>0. /\ v.code = statusHeap[r].code /\ v.message = statusHeap[r].message /\ v.moved = FALSE
          /\ v \in StWords /\ todo \in Payloads \cup {NoPayload} /\ v.code # "ok"
      BY <1>0, <1>5, <1>17 DEF StCanonical
    <3> DEFINE u == [v EXCEPT !.payload = todo, !.moved = FALSE]
               w == [v EXCEPT !.payload = todo]
    <3>1. /\ w \in StWords /\ w.code = statusHeap[r].code /\ w.message = statusHeap[r].message
          /\ w.payload = todo /\ w.moved = FALSE
      BY ONLY <3>0 DEF StWords
    <3>2. u = [w EXCEPT !.moved = FALSE]
      OBVIOUS
    <3> HIDE DEF w, u
    <3>3. /\ u \in StWords /\ u.code = statusHeap[r].code /\ u.message = statusHeap[r].message
          /\ u.payload = todo /\ u.moved = FALSE
      BY <3>1, <3>2 DEF StWords
    <3>4. u = [code |-> statusHeap[r].code, message |-> statusHeap[r].message,
               payload |-> todo, moved |-> FALSE]
      BY ONLY <3>3 DEF StWords
    <3>5. u = StatusValue!WithPayload(v, todo)
      BY <3>0 DEF u, StatusValue!WithPayload
    <3> QED
      BY <1>18, <3>4, <3>5
  <2>2. StatusValue!SetPayload(o, todo)
    BY <1>17, <1>19, <2>1 DEF StatusValue!SetPayload
  <2> QED
    BY <1>5, <1>15, <1>21, <2>2
<1> QED
  BY <1>5, <1>20, <1>21

-----------------------------------------------------------------------------
LEMMA StMoves ==
  ASSUME StInv, NEW t \in Threads, Status!Step(t)
  PROVE  StInv' /\ (StatusValue!Next \/ UNCHANGED Status!Val)
<1>1. CASE Status!Copy(t)
  <2>1. StInv' /\ \E o, from \in Objects : StatusValue!Copy(o, from)
    BY <1>1, StCopy
  <2> QED
    BY <2>1, Zenon DEF StatusValue!Next
<1>2. CASE Status!Unref(t) \/ Status!Decrement(t)
  BY <1>2, StUnref, StDecrement
<1>3. CASE Status!Prepare(t) \/ Status!Clone(t)
  BY <1>3, StPrepare, StClone
<1>4. CASE Status!Write(t)
  <2>1. /\ StInv'
        /\ \E o \in Objects : \/ \E p \in Payloads : StatusValue!SetPayload(o, p)
                              \/ StatusValue!ErasePayload(o)
    BY <1>4, StWrite
  <2> QED
    BY <2>1, Zenon DEF StatusValue!Next
<1> QED
  BY <1>1, <1>2, <1>3, <1>4, Zenon DEF Status!Step

LEMMA StBegins ==
  ASSUME StInv, NEW t \in Threads, NEW o \in Objects,
         \/ \E c \in Codes, m \in Messages : Status!Construct(t, o, c, m)
         \/ \E from \in Objects : Status!BeginCopy(t, o, from) \/ Status!Move(t, o, from)
         \/ \E p \in Payloads : Status!SetPayload(t, o, p)
         \/ Status!ErasePayload(t, o) \/ Status!Destroy(t, o)
  PROVE  StInv' /\ (StatusValue!Next \/ UNCHANGED Status!Val)
<1>1. CASE \E c \in Codes, m \in Messages : Status!Construct(t, o, c, m)
  <2>1. PICK c \in Codes, m \in Messages : Status!Construct(t, o, c, m)
    BY <1>1
  <2>2. StInv' /\ StatusValue!Construct(o, c, m)
    BY <2>1, StConstruct
  <2> QED
    BY <2>2, Zenon DEF StatusValue!Next
<1>2. CASE \E from \in Objects : Status!BeginCopy(t, o, from)
  BY <1>2, StBeginCopy
<1>3. CASE \E from \in Objects : Status!Move(t, o, from)
  <2>1. PICK from \in Objects : Status!Move(t, o, from)
    BY <1>3
  <2>2. StInv' /\ StatusValue!Move(o, from)
    BY <2>1, StMove
  <2> QED
    BY <2>2, Zenon DEF StatusValue!Next
<1>4. CASE \E p \in Payloads : Status!SetPayload(t, o, p)
  <2>1. PICK p \in Payloads : Status!SetPayload(t, o, p)
    BY <1>4
  <2>2. StInv' /\ (StatusValue!SetPayload(o, p) \/ UNCHANGED Status!Val)
    BY <2>1, StSetPayload
  <2> QED
    BY <2>2, Zenon DEF StatusValue!Next
<1>5. CASE Status!ErasePayload(t, o)
  BY <1>5, StErasePayload
<1>6. CASE Status!Destroy(t, o)
  <2>1. StInv' /\ StatusValue!Destroy(o)
    BY <1>6, StDestroy
  <2> QED
    BY <2>1, Zenon DEF StatusValue!Next
<1> QED
  BY <1>1, <1>2, <1>3, <1>4, <1>5, <1>6

LEMMA StStep ==
  ASSUME StInv, Status!Next
  PROVE  StInv' /\ (StatusValue!Next \/ UNCHANGED Status!Val)
<1>1. PICK t \in Threads :
        \/ Status!Step(t)
        \/ \E o \in Objects :
             \/ \E c \in Codes, m \in Messages : Status!Construct(t, o, c, m)
             \/ \E from \in Objects : Status!BeginCopy(t, o, from) \/ Status!Move(t, o, from)
             \/ \E p \in Payloads : Status!SetPayload(t, o, p)
             \/ Status!ErasePayload(t, o) \/ Status!Destroy(t, o)
  BY Zenon DEF Status!Next
<1> QED
  BY <1>1, StMoves, StBegins, Zenon

LEMMA StProperties == StInv => Status!CountIsHolders /\ Status!EqualityIsOfValues
<1> SUFFICES ASSUME StInv PROVE Status!CountIsHolders /\ Status!EqualityIsOfValues
  OBVIOUS
<1>1. Status!CountIsHolders
  <2>1. \A s : Status!Cardinality(s) = Cardinality(s)
    BY DEF Status!Cardinality, Cardinality, Status!IsFiniteSet, IsFiniteSet
  <2>2. ASSUME NEW r \in Reps
        PROVE  IF statusHeap[r] = None THEN StHolders(r) = 0
               ELSE StHolders(r) > 0 /\ statusHeap[r].ref = StHolders(r)
    <3>1. CASE statusHeap[r] = None
      BY <2>2, <3>1, FS_EmptySet DEF StInv, StCounts, StHolders
    <3>2. CASE statusHeap[r] # None
      BY <2>2, <3>2 DEF StInv, StCounts
    <3> QED
      BY <3>1, <3>2
  <2> QED
    BY <2>1, <2>2 DEF Status!CountIsHolders, StHolders
<1>2. Status!EqualityIsOfValues
  <2> SUFFICES ASSUME NEW a \in Objects, NEW b \in Objects,
                      status[a] # None, Status!Changing(a) = {}, status[b] # None, Status!Changing(b) = {}
      PROVE  Status!Equal(status[a], status[b]) <=> Status!ValueOf(a) = Status!ValueOf(b)
    BY DEF Status!EqualityIsOfValues
  \* What is inlined is plain, and what has a representation is not.
  <2>1. ASSUME NEW o \in Objects, status[o] # None, Status!Changing(o) = {}
        PROVE  /\ status[o] \notin Reps =>
                    Status!ValueOf(o) = status[o] /\ StPlain(Status!ValueOf(o))
               /\ status[o] \in Reps =>
                    Status!ValueOf(o) = Status!Contents(statusHeap[status[o]]) /\ ~StPlain(Status!ValueOf(o))
    <3>1. CASE status[o] \notin Reps
      BY <2>1, <3>1 DEF StInv, StTypes, StInlined, Status!ValueOf
    <3>2. CASE status[o] \in Reps
      <4>1. statusHeap[status[o]] # None
        BY <2>1, <3>2, StHeld DEF Status!Changing, StBusy
      <4>2. ~StPlain(statusHeap[status[o]])
        BY <3>2, <4>1 DEF StInv, StCanonical
      <4> QED
        BY <3>2, <4>1, <4>2 DEF Status!ValueOf, Status!Contents, StPlain
    <3> QED
      BY <3>1, <3>2
  <2> QED
    BY <2>1 DEF Status!Equal, Status!Inlined
<1> QED
  BY <1>1, <1>2

\* No object has a value at first.
LEMMA StValueInit == Status!Init => StatusValue!Init
<1> SUFFICES ASSUME Status!Init PROVE StatusValue!Init
  OBVIOUS
<1>1. StAlone /\ \A o \in Objects : status[o] = None
  BY StInit DEF StInv, Status!Init
<1>2. \A t \in Threads : ~StBusy(t)
  BY DEF Status!Init, Status!Idle, StBusy
<1>3. \A o \in Objects : Status!Val[o] = None
  BY <1>1, <1>2, StVal, StConstants DEF StValues, Status!ValueOf
<1>4. Status!Val = [o \in Objects |-> Status!Val[o]]
  BY DEF Status!Val
<1> QED
  BY <1>3, <1>4 DEF StatusValue!Init

-----------------------------------------------------------------------------
(* The units together.                                                     *)

\* Each part is in order, whichever unit moves.
SharingInv ==
  /\ StInv /\ SeqInv /\ RecInv
  /\ \E u \in Flags : Setting(u, Flags, "callback") /\ FlagInv(u)

LEMMA SharingInit == Init => SharingInv
<1> SUFFICES ASSUME Init PROVE SharingInv
  OBVIOUS
<1>1. /\ Status!Init /\ SequenceLock!Init /\ Recorder!Init
      /\ \E u \in Flags : Setting(u, Flags, "callback") /\ Flag(u)!Init
  BY Zenon DEF Init
<1>2. SeqInv
  BY <1>1, SeqInit
<1>3. RecInv /\ StInv
  BY <1>1, RecInit, StInit
<1>4. PICK u \in Flags : Setting(u, Flags, "callback") /\ Flag(u)!Init
  BY <1>1
<1>5. FlagInv(u)
  BY <1>4, FlagInit
<1> QED
  BY <1>2, <1>3, <1>4, <1>5 DEF SharingInv

\* What stands still stands, and what moves takes a step of its own.
LEMMA SharingMoves ==
  [Next]_vars =>
    /\ unit' = unit
    /\ UNCHANGED statuses \/ Status!Next
    /\ UNCHANGED sequence \/ SequenceLock!Next
    /\ UNCHANGED recorder \/ Recorder!Next
    /\ UNCHANGED flag \/ \E f \in Flags : unit = f /\ Flag(f)!Next
<1>1. CASE UNCHANGED vars
  BY <1>1 DEF vars
<1>2. CASE Next
  <2>1. \E changing \in {"detector", "memory", "statuses", "flag", "sequence", "cordz",
                         "recorder"} :
          /\ Still(changing)
          /\ changing = "statuses" => Status!Next
          /\ changing = "sequence" => SequenceLock!Next
          /\ changing = "recorder" => Recorder!Next
          /\ changing = "flag" => \E f \in Flags : unit = f /\ Flag(f)!Next
    BY <1>2, Zenon DEF Next
  <2> QED
    BY <2>1 DEF Still
<1> QED
  BY <1>1, <1>2

\* What stands still stays in order, and so does what moves; and values do as StatusValue says.
LEMMA SharingStep ==
  SharingInv /\ [Next]_vars => SharingInv' /\ [StatusValue!Next]_(Status!Val)
<1> SUFFICES ASSUME SharingInv, [Next]_vars
    PROVE SharingInv' /\ (StatusValue!Next \/ UNCHANGED Status!Val)
  OBVIOUS
<1>1. StInv /\ SeqInv /\ RecInv
  BY DEF SharingInv
<1>2. PICK u \in Flags : Setting(u, Flags, "callback") /\ FlagInv(u)
  BY DEF SharingInv
<1>3. /\ unit' = unit
      /\ UNCHANGED statuses \/ Status!Next
      /\ UNCHANGED sequence \/ SequenceLock!Next
      /\ UNCHANGED recorder \/ Recorder!Next
      /\ UNCHANGED flag \/ \E f \in Flags : unit = f /\ Flag(f)!Next
  BY SharingMoves
<1>4. StInv' /\ (StatusValue!Next \/ UNCHANGED Status!Val)
  BY <1>1, <1>3, StStep, StStands
<1>5. SeqInv' /\ RecInv'
  BY <1>1, <1>3, SeqStep, SeqStands, RecStep, RecStands
<1>6. FlagInv(u)'
  <2>1. \A f \in Flags : unit = f => f = u
    BY <1>2 DEF Setting
  <2>2. UNCHANGED flag \/ Flag(u)!Next
    BY <1>3, <2>1
  <2> QED
    BY <1>2, <2>2, FlagStep, FlagStands
<1>7. Setting(u, Flags, "callback")'
  BY <1>2, <1>3 DEF Setting
<1> QED
  BY <1>4, <1>5, <1>6, <1>7 DEF SharingInv

\* The count of a status's representation is the number of those who hold it, through every
\* interleaving of copies, moves, clones and releases, and equal statuses are those with
\* equal values: StatusRep, for any objects, threads and memory.
THEOREM CountsHold == Spec => []CountsAreHolders
<1>1. SharingInv => CountsAreHolders
  BY StProperties DEF SharingInv, CountsAreHolders
<1> QED
  BY SharingInit, SharingStep, <1>1, PTL DEF Spec

\* Objects that share representations behave as objects that each have a value of their
\* own: every step of StatusRep is one of StatusValue, or changes no value.
THEOREM ValuesAreKept == Spec => ImplementsStatusValue
<1>1. Init => StatusValue!Init
  BY StValueInit DEF Init
<1>2. ImplementsStatusValue <=> StatusValue!Init /\ [][StatusValue!Next]_(Status!Val)
  BY DEF ImplementsStatusValue, StatusValue!Spec
<1> QED
  BY <1>1, <1>2, SharingInit, SharingStep, PTL DEF Spec

\* The words of a flag that are read without its mutex are whole and its value on the heap
\* stays while it is copied; its callback has read the last value; and it says whether it
\* was modified, and is in the state that was restored last: FlagImpl, for any threads,
\* values, addresses and savers.
THEOREM FlagsSound == Spec => []FlagsAreSound
<1>1. SharingInv => FlagsAreSound
  <2> SUFFICES ASSUME SharingInv PROVE FlagsAreSound
    OBVIOUS
  <2>1. SequenceLock!NoTornReads /\ SequenceLock!SecondTrySucceeds
    BY SeqProperties DEF SharingInv
  <2>2. PICK u \in Flags : Setting(u, Flags, "callback") /\ FlagInv(u)
    BY DEF SharingInv
  <2>3. /\ Flag(u)!UnprotectedReadsAreStable /\ Flag(u)!CallbackSeesTheLastValue
        /\ u = "savers" => Flag(u)!ModifiedIsTrue /\ Flag(u)!SavedIsThere
    BY <2>2, FlagProperties
  <2>4. /\ unit = "callback" => u = "callback"
        /\ unit = "savers" => u = "savers"
    BY <2>2 DEF Setting, Flags
  <2>5. unit = "callback" => /\ Flag("callback")!UnprotectedReadsAreStable
                             /\ Flag("callback")!CallbackSeesTheLastValue
    BY <2>3, <2>4, Zenon
  <2>6. unit = "savers" => Flag("savers")!ModifiedIsTrue /\ Flag("savers")!SavedIsThere
    BY <2>3, <2>4, Zenon
  <2> QED
    BY <2>1, <2>5, <2>6 DEF FlagsAreSound
<1> QED
  BY SharingInit, SharingStep, <1>1, PTL DEF Spec

\* A sample has one user or is in the graveyard; one more than the limit may be in use; the
\* estimate is exact when nothing goes on; and Iterate visits every sample that stays,
\* while others come, go and are used again: SampleRecorder, for any threads and samples.
THEOREM RecorderSound == Spec => []RecorderIsSound
<1>1. SharingInv => RecorderIsSound
  BY RecProperties DEF SharingInv, RecorderIsSound
<1> QED
  BY SharingInit, SharingStep, <1>1, PTL DEF Spec

-----------------------------------------------------------------------------
(* GraphCycles and DeadlockDetector. What is proved of these modules holds *)
(* of the instances of Sharing, one unit at a time: their definitions are  *)
(* those of an instance of the proofs, word for word, so that each step of *)
(* the one is a step of the other.                                         *)

\* The unit does not change, and a step is one of its own or leaves the detector as it is.
LEMMA DetectorMoves ==
  ASSUME [Next]_vars
  PROVE  /\ unit' = unit
         /\ unit = "graph" => Detector("graph")!Next \/ UNCHANGED graph
         /\ \A u \in Detectors \ {"graph"} : unit = u => Detector(u)!DNext \/ UNCHANGED detector
         /\ unit \notin Detectors => UNCHANGED detector
<1>1. CASE UNCHANGED vars
  BY <1>1 DEF vars, detector
<1>2. CASE unit = "graph" /\ Detector("graph")!Next /\ UNCHANGED Others /\ Still("detector")
  BY <1>2 DEF Still, Detectors
<1>3. ASSUME NEW d \in Detectors \ {"graph"}, unit = d, Detector(d)!DNext, Still("detector")
      PROVE  /\ unit' = unit /\ unit # "graph"
             /\ \A u \in Detectors \ {"graph"} : unit = u => Detector(u)!DNext
  BY <1>3 DEF Still
<1>4. ASSUME NEW c \in {"memory", "statuses", "flag", "sequence", "cordz", "recorder"}, Still(c)
      PROVE  unit' = unit /\ UNCHANGED detector /\ UNCHANGED graph
  BY <1>4 DEF Still, detector
<1> QED
  BY <1>1, <1>2, <1>3, <1>4 DEF Next

\* What AcyclicGraph sees.
abstract == <<Detector("graph")!Live, Detector("graph")!PtrEdges, res>>

-----------------------------------------------------------------------------
(* The graph alone.                                                        *)

GraphProofs == INSTANCE DeadlockDetector_proofs WITH
  Threads <- Lockers["graph"], Ptrs <- Ptrs["graph"], NullPtr <- None, NoThread <- None,
  MaxNodes <- MaxNodes["graph"], MaxVersion <- MaxVersion["graph"], MaxLocks <- MaxLocks["graph"],
  MaxHolds <- MaxHolds["graph"], Modes <- Modes["graph"], Forgotten <- Forgotten["graph"]

\* What is assumed of the unit.
LEMMA GraphAssumed == GraphProofs!GraphCyclesAssumption /\ GraphProofs!DeadlockDetectorAssumption
<1>1. Detector("graph")!DeadlockDetectorAssumption
  BY SharingAssumption DEF Detectors
<1> QED
  BY <1>1 DEF Detector!DeadlockDetectorAssumption, GraphProofs!DeadlockDetectorAssumption,
     Detector!GraphCyclesAssumption, GraphProofs!GraphCyclesAssumption

\* It begins with the invariant.
LEMMA GraphBegins == Detector("graph")!DInit => GraphProofs!GraphInv
<1>1. Detector("graph")!DInit => GraphProofs!Init
  BY DEF Detector!DInit, GraphProofs!DInit, Detector!Init, GraphProofs!Init, Detector!Idle,
     GraphProofs!Idle
<1> QED
  BY <1>1, GraphAssumed, GraphProofs!InitGraph

\* Every step of the unit keeps it.
LEMMA GraphKeeps ==
  ASSUME GraphProofs!GraphInv, Detector("graph")!Next \/ UNCHANGED graph
  PROVE  GraphProofs!GraphInv' /\ GraphProofs!AcyclicStep
<1>1. Detector("graph")!Next => GraphProofs!Next
  BY DEF Detector!Next, GraphProofs!Next, Detector!Ids, GraphProofs!Ids, Detector!Contains,
     GraphProofs!Contains, Detector!graph, GraphProofs!graph, Detector!GetId, GraphProofs!GetId,
     Detector!NewNodes, GraphProofs!NewNodes, Detector!Last, GraphProofs!Last, Detector!Front,
     GraphProofs!Front, Detector!RemoveNode, GraphProofs!RemoveNode, Detector!RemoveEdge,
     GraphProofs!RemoveEdge, Detector!HasPtr, GraphProofs!HasPtr, Detector!Find, GraphProofs!Find,
     Detector!Valid, GraphProofs!Valid, Detector!InsertEdge, GraphProofs!InsertEdge,
     Detector!WithEdge, GraphProofs!WithEdge, Detector!Reorder, GraphProofs!Reorder,
     Detector!Below, GraphProofs!Below, Detector!Cardinality, GraphProofs!Cardinality,
     Detector!Cycle, GraphProofs!Cycle, Detector!Consistent, GraphProofs!Consistent,
     Detector!DeltaF, GraphProofs!DeltaF, Detector!DeltaB, GraphProofs!DeltaB, Detector!Visited,
     GraphProofs!Visited, Detector!Edges, GraphProofs!Edges, Detector!Rank, GraphProofs!Rank,
     Detector!In, GraphProofs!In, Detector!Out, GraphProofs!Out, Detector!Indices,
     GraphProofs!Indices, Detector!Node, GraphProofs!Node
<1>2. UNCHANGED graph => UNCHANGED GraphProofs!graph
  BY DEF graph, GraphProofs!graph
<1> QED
  BY <1>1, <1>2, GraphAssumed, GraphProofs!GraphSteps, GraphProofs!GraphStepsAreAcyclic

\* A step on its pointers is one of AcyclicGraph or none.
LEMMA GraphImplements ==
  ASSUME GraphProofs!AcyclicStep PROVE [AcyclicGraph!Next]_abstract
<1>1. GraphProofs!Live = Detector("graph")!Live /\ GraphProofs!Live' = Detector("graph")!Live'
  BY DEF GraphProofs!Live, Detector!Live, GraphProofs!Indices, Detector!Indices, GraphProofs!Node, Detector!Node
<1>2. GraphProofs!PtrEdges = Detector("graph")!PtrEdges /\ GraphProofs!PtrEdges' = Detector("graph")!PtrEdges'
  BY DEF GraphProofs!PtrEdges, Detector!PtrEdges, GraphProofs!Edges, Detector!Edges, GraphProofs!Out, Detector!Out,
     GraphProofs!Indices, Detector!Indices, GraphProofs!Node, Detector!Node
<1>3. Ptrs["graph"] \subseteq UNION {Ptrs[u] : u \in Detectors}
  BY DEF Detectors
<1>4. ASSUME NEW p \in Ptrs["graph"], GraphProofs!NodeAdded(p) \/ GraphProofs!NodeGone(p) PROVE AcyclicGraph!Next
  BY <1>1, <1>2, <1>3, <1>4 DEF GraphProofs!NodeAdded, GraphProofs!NodeGone, AcyclicGraph!Next, AcyclicGraph!GetId,
     AcyclicGraph!RemoveNode
<1>5. ASSUME NEW p \in GraphProofs!Live, NEW q \in GraphProofs!Live, GraphProofs!EdgeAsked(p, q) \/ GraphProofs!EdgeGone(p, q)
      PROVE  AcyclicGraph!Next
  <2>1. GraphProofs!PtrPath(q, p) <=> AcyclicGraph!Reaches(Detector("graph")!PtrEdges, q, p)
    BY <1>1, <1>2 DEF GraphProofs!PtrPath, AcyclicGraph!Reaches
  <2> QED
    BY <1>1, <1>2, <1>5, <2>1 DEF GraphProofs!EdgeAsked, GraphProofs!EdgeGone, AcyclicGraph!Next, AcyclicGraph!InsertEdge,
       AcyclicGraph!RemoveEdge
<1>6. GraphProofs!NothingAsked => AcyclicGraph!Next
  BY <1>1, <1>2 DEF GraphProofs!NothingAsked, AcyclicGraph!Next, AcyclicGraph!InsertNothing
<1>7. GraphProofs!NothingDone => UNCHANGED abstract
  BY <1>1, <1>2 DEF GraphProofs!NothingDone, abstract
<1> QED
  BY <1>4, <1>5, <1>6, <1>7 DEF GraphProofs!AcyclicStep

\* What a run checks of the unit.
LEMMA GraphHolds ==
  ASSUME GraphProofs!GraphInv
  PROVE  Detector("graph")!RanksOrderEdges /\ Detector("graph")!EdgesMirrored /\ Detector("graph")!PathsFound
<1>1. GraphProofs!RanksOrderEdges => Detector("graph")!RanksOrderEdges
  BY DEF Detector!RanksOrderEdges, GraphProofs!RanksOrderEdges, Detector!Rank, GraphProofs!Rank,
     Detector!Out, GraphProofs!Out, Detector!Indices, GraphProofs!Indices, Detector!Node,
     GraphProofs!Node
<1>2. GraphProofs!EdgesMirrored => Detector("graph")!EdgesMirrored
  BY DEF Detector!EdgesMirrored, GraphProofs!EdgesMirrored, Detector!In, GraphProofs!In,
     Detector!Out, GraphProofs!Out, Detector!Contains, GraphProofs!Contains, Detector!IsInjective,
     GraphProofs!IsInjective, Detector!Indices, GraphProofs!Indices, Detector!Node,
     GraphProofs!Node
<1>3. GraphProofs!PathsFound => Detector("graph")!PathsFound
  BY DEF Detector!PathsFound, GraphProofs!PathsFound, Detector!FindPath, GraphProofs!FindPath,
     Detector!Descend, GraphProofs!Descend, Detector!Push, GraphProofs!Push, Detector!Leave,
     GraphProofs!Leave, Detector!SetToSeq, GraphProofs!SetToSeq, Detector!Cardinality,
     GraphProofs!Cardinality, Detector!IsInjective, GraphProofs!IsInjective, Detector!Last,
     GraphProofs!Last, Detector!Front, GraphProofs!Front, Detector!Visited, GraphProofs!Visited,
     Detector!Edges, GraphProofs!Edges, Detector!Out, GraphProofs!Out, Detector!Indices,
     GraphProofs!Indices, Detector!Node, GraphProofs!Node
<1> QED
  BY <1>1, <1>2, <1>3, GraphProofs!RanksAreAll, GraphProofs!EdgesAgree, GraphProofs!PathsAreFound

-----------------------------------------------------------------------------
(* Threads that lock mutexes.                                              *)

LocksProofs == INSTANCE DeadlockDetector_proofs WITH
  Threads <- Lockers["locks"], Ptrs <- Ptrs["locks"], NullPtr <- None, NoThread <- None,
  MaxNodes <- MaxNodes["locks"], MaxVersion <- MaxVersion["locks"], MaxLocks <- MaxLocks["locks"],
  MaxHolds <- MaxHolds["locks"], Modes <- Modes["locks"], Forgotten <- Forgotten["locks"]

\* What is assumed of the unit.
LEMMA LocksAssumed == LocksProofs!GraphCyclesAssumption /\ LocksProofs!DeadlockDetectorAssumption
<1>1. Detector("locks")!DeadlockDetectorAssumption
  BY SharingAssumption DEF Detectors
<1> QED
  BY <1>1 DEF Detector!DeadlockDetectorAssumption, LocksProofs!DeadlockDetectorAssumption,
     Detector!GraphCyclesAssumption, LocksProofs!GraphCyclesAssumption

\* It begins with the invariant.
LEMMA LocksBegins == Detector("locks")!DInit => LocksProofs!DetectorInv
<1>1. Detector("locks")!DInit => LocksProofs!DInit
  BY DEF Detector!DInit, LocksProofs!DInit, Detector!Init, LocksProofs!Init, Detector!Idle,
     LocksProofs!Idle
<1> QED
  BY <1>1, LocksAssumed, LocksProofs!InitDetector

\* Every step of the unit keeps it.
LEMMA LocksKeeps ==
  ASSUME LocksProofs!DetectorInv, Detector("locks")!DNext \/ UNCHANGED detector
  PROVE  LocksProofs!DetectorInv' /\ LocksProofs!AcyclicStep
<1>1. Detector("locks")!DNext => LocksProofs!DNext
  BY DEF Detector!DNext, LocksProofs!DNext, Detector!CheckLock, LocksProofs!CheckLock,
     Detector!Acquire, LocksProofs!Acquire, Detector!StartCheck, LocksProofs!StartCheck,
     Detector!TryLock, LocksProofs!TryLock, Detector!Unlock, LocksProofs!Unlock,
     Detector!ForgetDeadlockInfo, LocksProofs!ForgetDeadlockInfo, Detector!Take, LocksProofs!Take,
     Detector!Available, LocksProofs!Available, Detector!LockEnter, LocksProofs!LockEnter,
     Detector!LockLeave, LocksProofs!LockLeave, Detector!Unheld, LocksProofs!Unheld, Detector!At,
     LocksProofs!At, Detector!Idle, LocksProofs!Idle, Detector!GetGraphId, LocksProofs!GetGraphId,
     Detector!GraphId, LocksProofs!GraphId, Detector!Id, LocksProofs!Id, Detector!Ptr,
     LocksProofs!Ptr, Detector!mutexes, LocksProofs!mutexes, Detector!graph, LocksProofs!graph,
     Detector!GetId, LocksProofs!GetId, Detector!NewNodes, LocksProofs!NewNodes, Detector!Last,
     LocksProofs!Last, Detector!Front, LocksProofs!Front, Detector!RemoveNode,
     LocksProofs!RemoveNode, Detector!RemoveEdge, LocksProofs!RemoveEdge, Detector!HasPtr,
     LocksProofs!HasPtr, Detector!Find, LocksProofs!Find, Detector!Valid, LocksProofs!Valid,
     Detector!InsertEdge, LocksProofs!InsertEdge, Detector!WithEdge, LocksProofs!WithEdge,
     Detector!Reorder, LocksProofs!Reorder, Detector!Below, LocksProofs!Below,
     Detector!Cardinality, LocksProofs!Cardinality, Detector!Cycle, LocksProofs!Cycle,
     Detector!Consistent, LocksProofs!Consistent, Detector!DeltaF, LocksProofs!DeltaF,
     Detector!DeltaB, LocksProofs!DeltaB, Detector!Visited, LocksProofs!Visited, Detector!Edges,
     LocksProofs!Edges, Detector!Rank, LocksProofs!Rank, Detector!In, LocksProofs!In, Detector!Out,
     LocksProofs!Out, Detector!Indices, LocksProofs!Indices, Detector!Node, LocksProofs!Node
<1>2. UNCHANGED detector => UNCHANGED LocksProofs!vars
  BY DEF detector, graph, LocksProofs!vars, LocksProofs!graph, LocksProofs!mutexes
<1> QED
  BY <1>1, <1>2, LocksAssumed, LocksProofs!StepsKeepInvariant, LocksProofs!DetectorStepsAreAcyclic

\* A step on its pointers is one of AcyclicGraph or none.
LEMMA LocksImplements ==
  ASSUME LocksProofs!AcyclicStep PROVE [AcyclicGraph!Next]_abstract
<1>1. LocksProofs!Live = Detector("graph")!Live /\ LocksProofs!Live' = Detector("graph")!Live'
  BY DEF LocksProofs!Live, Detector!Live, LocksProofs!Indices, Detector!Indices, LocksProofs!Node, Detector!Node
<1>2. LocksProofs!PtrEdges = Detector("graph")!PtrEdges /\ LocksProofs!PtrEdges' = Detector("graph")!PtrEdges'
  BY DEF LocksProofs!PtrEdges, Detector!PtrEdges, LocksProofs!Edges, Detector!Edges, LocksProofs!Out, Detector!Out,
     LocksProofs!Indices, Detector!Indices, LocksProofs!Node, Detector!Node
<1>3. Ptrs["locks"] \subseteq UNION {Ptrs[u] : u \in Detectors}
  BY DEF Detectors
<1>4. ASSUME NEW p \in Ptrs["locks"], LocksProofs!NodeAdded(p) \/ LocksProofs!NodeGone(p) PROVE AcyclicGraph!Next
  BY <1>1, <1>2, <1>3, <1>4 DEF LocksProofs!NodeAdded, LocksProofs!NodeGone, AcyclicGraph!Next, AcyclicGraph!GetId,
     AcyclicGraph!RemoveNode
<1>5. ASSUME NEW p \in LocksProofs!Live, NEW q \in LocksProofs!Live, LocksProofs!EdgeAsked(p, q) \/ LocksProofs!EdgeGone(p, q)
      PROVE  AcyclicGraph!Next
  <2>1. LocksProofs!PtrPath(q, p) <=> AcyclicGraph!Reaches(Detector("graph")!PtrEdges, q, p)
    BY <1>1, <1>2 DEF LocksProofs!PtrPath, AcyclicGraph!Reaches
  <2> QED
    BY <1>1, <1>2, <1>5, <2>1 DEF LocksProofs!EdgeAsked, LocksProofs!EdgeGone, AcyclicGraph!Next, AcyclicGraph!InsertEdge,
       AcyclicGraph!RemoveEdge
<1>6. LocksProofs!NothingAsked => AcyclicGraph!Next
  BY <1>1, <1>2 DEF LocksProofs!NothingAsked, AcyclicGraph!Next, AcyclicGraph!InsertNothing
<1>7. LocksProofs!NothingDone => UNCHANGED abstract
  BY <1>1, <1>2 DEF LocksProofs!NothingDone, abstract
<1> QED
  BY <1>4, <1>5, <1>6, <1>7 DEF LocksProofs!AcyclicStep

\* What a run checks of the unit.
LEMMA LocksHolds ==
  ASSUME LocksProofs!DetectorInv PROVE Detector("locks")!DeadlocksReported /\ Detector("locks")!NeverDies
<1>1. LocksProofs!DeadlocksReported => Detector("locks")!DeadlocksReported
  BY DEF Detector!DeadlocksReported, LocksProofs!DeadlocksReported, Detector!Ring,
     LocksProofs!Ring, Detector!WaitsFor, LocksProofs!WaitsFor, Detector!Tracked,
     LocksProofs!Tracked, Detector!Idle, LocksProofs!Idle, Detector!Cardinality,
     LocksProofs!Cardinality, Detector!IsInjective, LocksProofs!IsInjective
<1>2. LocksProofs!DetectorInv => Detector("locks")!NeverDies
  BY DEF LocksProofs!DetectorInv, LocksProofs!DetectorTypes, Detector!NeverDies
<1> QED
  BY <1>1, <1>2, LocksAssumed, LocksProofs!NoRing

-----------------------------------------------------------------------------
(* Threads that forget mutexes.                                            *)

ForgetProofs == INSTANCE DeadlockDetector_proofs WITH
  Threads <- Lockers["forget"], Ptrs <- Ptrs["forget"], NullPtr <- None, NoThread <- None,
  MaxNodes <- MaxNodes["forget"], MaxVersion <- MaxVersion["forget"], MaxLocks <- MaxLocks["forget"],
  MaxHolds <- MaxHolds["forget"], Modes <- Modes["forget"], Forgotten <- Forgotten["forget"]

\* What is assumed of the unit.
LEMMA ForgetAssumed == ForgetProofs!GraphCyclesAssumption /\ ForgetProofs!DeadlockDetectorAssumption
<1>1. Detector("forget")!DeadlockDetectorAssumption
  BY SharingAssumption DEF Detectors
<1> QED
  BY <1>1 DEF Detector!DeadlockDetectorAssumption, ForgetProofs!DeadlockDetectorAssumption,
     Detector!GraphCyclesAssumption, ForgetProofs!GraphCyclesAssumption

\* It begins with the invariant.
LEMMA ForgetBegins == Detector("forget")!DInit => ForgetProofs!DetectorInv
<1>1. Detector("forget")!DInit => ForgetProofs!DInit
  BY DEF Detector!DInit, ForgetProofs!DInit, Detector!Init, ForgetProofs!Init, Detector!Idle,
     ForgetProofs!Idle
<1> QED
  BY <1>1, ForgetAssumed, ForgetProofs!InitDetector

\* Every step of the unit keeps it.
LEMMA ForgetKeeps ==
  ASSUME ForgetProofs!DetectorInv, Detector("forget")!DNext \/ UNCHANGED detector
  PROVE  ForgetProofs!DetectorInv' /\ ForgetProofs!AcyclicStep
<1>1. Detector("forget")!DNext => ForgetProofs!DNext
  BY DEF Detector!DNext, ForgetProofs!DNext, Detector!CheckLock, ForgetProofs!CheckLock,
     Detector!Acquire, ForgetProofs!Acquire, Detector!StartCheck, ForgetProofs!StartCheck,
     Detector!TryLock, ForgetProofs!TryLock, Detector!Unlock, ForgetProofs!Unlock,
     Detector!ForgetDeadlockInfo, ForgetProofs!ForgetDeadlockInfo, Detector!Take,
     ForgetProofs!Take, Detector!Available, ForgetProofs!Available, Detector!LockEnter,
     ForgetProofs!LockEnter, Detector!LockLeave, ForgetProofs!LockLeave, Detector!Unheld,
     ForgetProofs!Unheld, Detector!At, ForgetProofs!At, Detector!Idle, ForgetProofs!Idle,
     Detector!GetGraphId, ForgetProofs!GetGraphId, Detector!GraphId, ForgetProofs!GraphId,
     Detector!Id, ForgetProofs!Id, Detector!Ptr, ForgetProofs!Ptr, Detector!mutexes,
     ForgetProofs!mutexes, Detector!graph, ForgetProofs!graph, Detector!GetId, ForgetProofs!GetId,
     Detector!NewNodes, ForgetProofs!NewNodes, Detector!Last, ForgetProofs!Last, Detector!Front,
     ForgetProofs!Front, Detector!RemoveNode, ForgetProofs!RemoveNode, Detector!RemoveEdge,
     ForgetProofs!RemoveEdge, Detector!HasPtr, ForgetProofs!HasPtr, Detector!Find,
     ForgetProofs!Find, Detector!Valid, ForgetProofs!Valid, Detector!InsertEdge,
     ForgetProofs!InsertEdge, Detector!WithEdge, ForgetProofs!WithEdge, Detector!Reorder,
     ForgetProofs!Reorder, Detector!Below, ForgetProofs!Below, Detector!Cardinality,
     ForgetProofs!Cardinality, Detector!Cycle, ForgetProofs!Cycle, Detector!Consistent,
     ForgetProofs!Consistent, Detector!DeltaF, ForgetProofs!DeltaF, Detector!DeltaB,
     ForgetProofs!DeltaB, Detector!Visited, ForgetProofs!Visited, Detector!Edges,
     ForgetProofs!Edges, Detector!Rank, ForgetProofs!Rank, Detector!In, ForgetProofs!In,
     Detector!Out, ForgetProofs!Out, Detector!Indices, ForgetProofs!Indices, Detector!Node,
     ForgetProofs!Node
<1>2. UNCHANGED detector => UNCHANGED ForgetProofs!vars
  BY DEF detector, graph, ForgetProofs!vars, ForgetProofs!graph, ForgetProofs!mutexes
<1> QED
  BY <1>1, <1>2, ForgetAssumed, ForgetProofs!StepsKeepInvariant, ForgetProofs!DetectorStepsAreAcyclic

\* A step on its pointers is one of AcyclicGraph or none.
LEMMA ForgetImplements ==
  ASSUME ForgetProofs!AcyclicStep PROVE [AcyclicGraph!Next]_abstract
<1>1. ForgetProofs!Live = Detector("graph")!Live /\ ForgetProofs!Live' = Detector("graph")!Live'
  BY DEF ForgetProofs!Live, Detector!Live, ForgetProofs!Indices, Detector!Indices, ForgetProofs!Node, Detector!Node
<1>2. ForgetProofs!PtrEdges = Detector("graph")!PtrEdges /\ ForgetProofs!PtrEdges' = Detector("graph")!PtrEdges'
  BY DEF ForgetProofs!PtrEdges, Detector!PtrEdges, ForgetProofs!Edges, Detector!Edges, ForgetProofs!Out, Detector!Out,
     ForgetProofs!Indices, Detector!Indices, ForgetProofs!Node, Detector!Node
<1>3. Ptrs["forget"] \subseteq UNION {Ptrs[u] : u \in Detectors}
  BY DEF Detectors
<1>4. ASSUME NEW p \in Ptrs["forget"], ForgetProofs!NodeAdded(p) \/ ForgetProofs!NodeGone(p) PROVE AcyclicGraph!Next
  BY <1>1, <1>2, <1>3, <1>4 DEF ForgetProofs!NodeAdded, ForgetProofs!NodeGone, AcyclicGraph!Next, AcyclicGraph!GetId,
     AcyclicGraph!RemoveNode
<1>5. ASSUME NEW p \in ForgetProofs!Live, NEW q \in ForgetProofs!Live, ForgetProofs!EdgeAsked(p, q) \/ ForgetProofs!EdgeGone(p, q)
      PROVE  AcyclicGraph!Next
  <2>1. ForgetProofs!PtrPath(q, p) <=> AcyclicGraph!Reaches(Detector("graph")!PtrEdges, q, p)
    BY <1>1, <1>2 DEF ForgetProofs!PtrPath, AcyclicGraph!Reaches
  <2> QED
    BY <1>1, <1>2, <1>5, <2>1 DEF ForgetProofs!EdgeAsked, ForgetProofs!EdgeGone, AcyclicGraph!Next, AcyclicGraph!InsertEdge,
       AcyclicGraph!RemoveEdge
<1>6. ForgetProofs!NothingAsked => AcyclicGraph!Next
  BY <1>1, <1>2 DEF ForgetProofs!NothingAsked, AcyclicGraph!Next, AcyclicGraph!InsertNothing
<1>7. ForgetProofs!NothingDone => UNCHANGED abstract
  BY <1>1, <1>2 DEF ForgetProofs!NothingDone, abstract
<1> QED
  BY <1>4, <1>5, <1>6, <1>7 DEF ForgetProofs!AcyclicStep

\* What a run checks of the unit.
LEMMA ForgetHolds ==
  ASSUME ForgetProofs!DetectorInv PROVE Detector("forget")!DeadlocksReported /\ Detector("forget")!NeverDies
<1>1. ForgetProofs!DeadlocksReported => Detector("forget")!DeadlocksReported
  BY DEF Detector!DeadlocksReported, ForgetProofs!DeadlocksReported, Detector!Ring,
     ForgetProofs!Ring, Detector!WaitsFor, ForgetProofs!WaitsFor, Detector!Tracked,
     ForgetProofs!Tracked, Detector!Idle, ForgetProofs!Idle, Detector!Cardinality,
     ForgetProofs!Cardinality, Detector!IsInjective, ForgetProofs!IsInjective
<1>2. ForgetProofs!DetectorInv => Detector("forget")!NeverDies
  BY DEF ForgetProofs!DetectorInv, ForgetProofs!DetectorTypes, Detector!NeverDies
<1> QED
  BY <1>1, <1>2, ForgetAssumed, ForgetProofs!NoRing

-----------------------------------------------------------------------------
(* A thread that shares mutexes.                                           *)

SharedProofs == INSTANCE DeadlockDetector_proofs WITH
  Threads <- Lockers["shared"], Ptrs <- Ptrs["shared"], NullPtr <- None, NoThread <- None,
  MaxNodes <- MaxNodes["shared"], MaxVersion <- MaxVersion["shared"], MaxLocks <- MaxLocks["shared"],
  MaxHolds <- MaxHolds["shared"], Modes <- Modes["shared"], Forgotten <- Forgotten["shared"]

\* What is assumed of the unit.
LEMMA SharedAssumed == SharedProofs!GraphCyclesAssumption /\ SharedProofs!DeadlockDetectorAssumption
<1>1. Detector("shared")!DeadlockDetectorAssumption
  BY SharingAssumption DEF Detectors
<1> QED
  BY <1>1 DEF Detector!DeadlockDetectorAssumption, SharedProofs!DeadlockDetectorAssumption,
     Detector!GraphCyclesAssumption, SharedProofs!GraphCyclesAssumption

\* It begins with the invariant.
LEMMA SharedBegins == Detector("shared")!DInit => SharedProofs!DetectorInv
<1>1. Detector("shared")!DInit => SharedProofs!DInit
  BY DEF Detector!DInit, SharedProofs!DInit, Detector!Init, SharedProofs!Init, Detector!Idle,
     SharedProofs!Idle
<1> QED
  BY <1>1, SharedAssumed, SharedProofs!InitDetector

\* Every step of the unit keeps it.
LEMMA SharedKeeps ==
  ASSUME SharedProofs!DetectorInv, Detector("shared")!DNext \/ UNCHANGED detector
  PROVE  SharedProofs!DetectorInv' /\ SharedProofs!AcyclicStep
<1>1. Detector("shared")!DNext => SharedProofs!DNext
  BY DEF Detector!DNext, SharedProofs!DNext, Detector!CheckLock, SharedProofs!CheckLock,
     Detector!Acquire, SharedProofs!Acquire, Detector!StartCheck, SharedProofs!StartCheck,
     Detector!TryLock, SharedProofs!TryLock, Detector!Unlock, SharedProofs!Unlock,
     Detector!ForgetDeadlockInfo, SharedProofs!ForgetDeadlockInfo, Detector!Take,
     SharedProofs!Take, Detector!Available, SharedProofs!Available, Detector!LockEnter,
     SharedProofs!LockEnter, Detector!LockLeave, SharedProofs!LockLeave, Detector!Unheld,
     SharedProofs!Unheld, Detector!At, SharedProofs!At, Detector!Idle, SharedProofs!Idle,
     Detector!GetGraphId, SharedProofs!GetGraphId, Detector!GraphId, SharedProofs!GraphId,
     Detector!Id, SharedProofs!Id, Detector!Ptr, SharedProofs!Ptr, Detector!mutexes,
     SharedProofs!mutexes, Detector!graph, SharedProofs!graph, Detector!GetId, SharedProofs!GetId,
     Detector!NewNodes, SharedProofs!NewNodes, Detector!Last, SharedProofs!Last, Detector!Front,
     SharedProofs!Front, Detector!RemoveNode, SharedProofs!RemoveNode, Detector!RemoveEdge,
     SharedProofs!RemoveEdge, Detector!HasPtr, SharedProofs!HasPtr, Detector!Find,
     SharedProofs!Find, Detector!Valid, SharedProofs!Valid, Detector!InsertEdge,
     SharedProofs!InsertEdge, Detector!WithEdge, SharedProofs!WithEdge, Detector!Reorder,
     SharedProofs!Reorder, Detector!Below, SharedProofs!Below, Detector!Cardinality,
     SharedProofs!Cardinality, Detector!Cycle, SharedProofs!Cycle, Detector!Consistent,
     SharedProofs!Consistent, Detector!DeltaF, SharedProofs!DeltaF, Detector!DeltaB,
     SharedProofs!DeltaB, Detector!Visited, SharedProofs!Visited, Detector!Edges,
     SharedProofs!Edges, Detector!Rank, SharedProofs!Rank, Detector!In, SharedProofs!In,
     Detector!Out, SharedProofs!Out, Detector!Indices, SharedProofs!Indices, Detector!Node,
     SharedProofs!Node
<1>2. UNCHANGED detector => UNCHANGED SharedProofs!vars
  BY DEF detector, graph, SharedProofs!vars, SharedProofs!graph, SharedProofs!mutexes
<1> QED
  BY <1>1, <1>2, SharedAssumed, SharedProofs!StepsKeepInvariant, SharedProofs!DetectorStepsAreAcyclic

\* A step on its pointers is one of AcyclicGraph or none.
LEMMA SharedImplements ==
  ASSUME SharedProofs!AcyclicStep PROVE [AcyclicGraph!Next]_abstract
<1>1. SharedProofs!Live = Detector("graph")!Live /\ SharedProofs!Live' = Detector("graph")!Live'
  BY DEF SharedProofs!Live, Detector!Live, SharedProofs!Indices, Detector!Indices, SharedProofs!Node, Detector!Node
<1>2. SharedProofs!PtrEdges = Detector("graph")!PtrEdges /\ SharedProofs!PtrEdges' = Detector("graph")!PtrEdges'
  BY DEF SharedProofs!PtrEdges, Detector!PtrEdges, SharedProofs!Edges, Detector!Edges, SharedProofs!Out, Detector!Out,
     SharedProofs!Indices, Detector!Indices, SharedProofs!Node, Detector!Node
<1>3. Ptrs["shared"] \subseteq UNION {Ptrs[u] : u \in Detectors}
  BY DEF Detectors
<1>4. ASSUME NEW p \in Ptrs["shared"], SharedProofs!NodeAdded(p) \/ SharedProofs!NodeGone(p) PROVE AcyclicGraph!Next
  BY <1>1, <1>2, <1>3, <1>4 DEF SharedProofs!NodeAdded, SharedProofs!NodeGone, AcyclicGraph!Next, AcyclicGraph!GetId,
     AcyclicGraph!RemoveNode
<1>5. ASSUME NEW p \in SharedProofs!Live, NEW q \in SharedProofs!Live, SharedProofs!EdgeAsked(p, q) \/ SharedProofs!EdgeGone(p, q)
      PROVE  AcyclicGraph!Next
  <2>1. SharedProofs!PtrPath(q, p) <=> AcyclicGraph!Reaches(Detector("graph")!PtrEdges, q, p)
    BY <1>1, <1>2 DEF SharedProofs!PtrPath, AcyclicGraph!Reaches
  <2> QED
    BY <1>1, <1>2, <1>5, <2>1 DEF SharedProofs!EdgeAsked, SharedProofs!EdgeGone, AcyclicGraph!Next, AcyclicGraph!InsertEdge,
       AcyclicGraph!RemoveEdge
<1>6. SharedProofs!NothingAsked => AcyclicGraph!Next
  BY <1>1, <1>2 DEF SharedProofs!NothingAsked, AcyclicGraph!Next, AcyclicGraph!InsertNothing
<1>7. SharedProofs!NothingDone => UNCHANGED abstract
  BY <1>1, <1>2 DEF SharedProofs!NothingDone, abstract
<1> QED
  BY <1>4, <1>5, <1>6, <1>7 DEF SharedProofs!AcyclicStep

\* What a run checks of the unit.
LEMMA SharedHolds ==
  ASSUME SharedProofs!DetectorInv PROVE Detector("shared")!HeldIsListed /\ Detector("shared")!NeverDies
<1>1. SharedProofs!HeldIsListed => Detector("shared")!HeldIsListed
  BY DEF Detector!HeldIsListed, SharedProofs!HeldIsListed, Detector!Tracked, SharedProofs!Tracked,
     Detector!At, SharedProofs!At, Detector!HasPtr, SharedProofs!HasPtr, Detector!Find,
     SharedProofs!Find, Detector!Id, SharedProofs!Id, Detector!Indices, SharedProofs!Indices,
     Detector!Node, SharedProofs!Node
<1>2. SharedProofs!DetectorInv => Detector("shared")!NeverDies
  BY DEF SharedProofs!DetectorInv, SharedProofs!DetectorTypes, Detector!NeverDies
<1> QED
  BY <1>1, <1>2, SharedAssumed, SharedProofs!ListIsComplete

-----------------------------------------------------------------------------
(* All units.                                                              *)

\* The unit that moves keeps the invariant of its own; of what stands still nothing is said.
DetectorsInv ==
  /\ unit = "graph" => GraphProofs!GraphInv
  /\ unit = "locks" => LocksProofs!DetectorInv
  /\ unit = "forget" => ForgetProofs!DetectorInv
  /\ unit = "shared" => SharedProofs!DetectorInv

\* A behaviour begins with it.
LEMMA DetectorsBegin == Init => DetectorsInv
<1> SUFFICES ASSUME Init PROVE DetectorsInv
  OBVIOUS
<1>1. PICK u \in Detectors : Setting(u, Detectors, "locks") /\ Detector(u)!DInit
  BY DEF Init
<1>2. \A d \in Detectors : unit = d => Detector(d)!DInit
  BY <1>1 DEF Setting
<1>3. /\ unit = "graph" => Detector("graph")!DInit
      /\ unit = "locks" => Detector("locks")!DInit
      /\ unit = "forget" => Detector("forget")!DInit
      /\ unit = "shared" => Detector("shared")!DInit
  BY <1>2 DEF Detectors
<1> QED
  BY <1>3, GraphBegins, LocksBegins, ForgetBegins, SharedBegins DEF DetectorsInv

\* Every step keeps it, and is a step of AcyclicGraph or none.
LEMMA DetectorsKeep == DetectorsInv /\ [Next]_vars => DetectorsInv' /\ [AcyclicGraph!Next]_abstract
<1> SUFFICES ASSUME DetectorsInv, [Next]_vars PROVE DetectorsInv' /\ [AcyclicGraph!Next]_abstract
  OBVIOUS
<1>1. /\ unit' = unit
      /\ unit = "graph" => Detector("graph")!Next \/ UNCHANGED graph
      /\ \A u \in Detectors \ {"graph"} : unit = u => Detector(u)!DNext \/ UNCHANGED detector
  BY DetectorMoves
<1>2. /\ unit = "locks" => Detector("locks")!DNext \/ UNCHANGED detector
      /\ unit = "forget" => Detector("forget")!DNext \/ UNCHANGED detector
      /\ unit = "shared" => Detector("shared")!DNext \/ UNCHANGED detector
  BY <1>1 DEF Detectors
<1>3. unit = "graph" => GraphProofs!GraphInv' /\ [AcyclicGraph!Next]_abstract
  BY <1>1, GraphKeeps, GraphImplements DEF DetectorsInv
<1>4. unit = "locks" => LocksProofs!DetectorInv' /\ [AcyclicGraph!Next]_abstract
  BY <1>2, LocksKeeps, LocksImplements DEF DetectorsInv
<1>5. unit = "forget" => ForgetProofs!DetectorInv' /\ [AcyclicGraph!Next]_abstract
  BY <1>2, ForgetKeeps, ForgetImplements DEF DetectorsInv
<1>6. unit = "shared" => SharedProofs!DetectorInv' /\ [AcyclicGraph!Next]_abstract
  BY <1>2, SharedKeeps, SharedImplements DEF DetectorsInv
<1>7. UNCHANGED <<nodes_, res>> => UNCHANGED abstract
  BY DEF abstract, Detector!Live, Detector!PtrEdges, Detector!Edges, Detector!Out, Detector!Indices, Detector!Node
<1>8. unit \notin Detectors => UNCHANGED <<nodes_, res>>
  BY DetectorMoves DEF detector, graph
<1>9. unit \in Detectors => unit \in {"graph", "locks", "forget", "shared"}
  BY DEF Detectors
<1> QED
  BY <1>1, <1>3, <1>4, <1>5, <1>6, <1>7, <1>8, <1>9 DEF DetectorsInv

\* The graph passes CheckInvariants after every operation and its paths are real ones; and
\* threads that wait for each other in a ring have been reported, whatever was forgotten,
\* tried or shared, without a correct program ever being taken for a wrong one.
THEOREM DeadlocksAreReported == Spec => []DeadlocksReported
<1>1. DetectorsInv => DeadlocksReported
  BY GraphHolds, LocksHolds, ForgetHolds, SharedHolds DEF DetectorsInv, DeadlocksReported
<1> QED
  BY DetectorsBegin, DetectorsKeep, <1>1, PTL DEF Spec

\* InsertEdge refuses an edge exactly if it would close a cycle: with whatever ids, expired or
\* not, and whatever was inserted, removed and used again before.
THEOREM GraphIsAcyclic == Spec => ImplementsAcyclicGraph
<1>1. Init => AcyclicGraph!Init
  <2> SUFFICES ASSUME Init PROVE AcyclicGraph!Init
    OBVIOUS
  <2>1. PICK u \in Detectors : Detector(u)!DInit
    BY DEF Init
  <2>2. nodes_ = <<>> /\ res = TRUE
    BY <2>1 DEF Detector!DInit, Detector!Init
  <2>3. Detector("graph")!Indices = {}
    BY <2>2 DEF Detector!Indices
  <2> QED
    BY <2>2, <2>3 DEF AcyclicGraph!Init, Detector!Live, Detector!PtrEdges, Detector!Edges
<1>2. DetectorsInv /\ [Next]_vars => [AcyclicGraph!Next]_<<Detector("graph")!Live, Detector("graph")!PtrEdges, res>>
  BY DetectorsKeep DEF abstract
<1>3. DetectorsInv /\ [Next]_vars => DetectorsInv'
  BY DetectorsKeep
<1> QED
  BY DetectorsBegin, <1>1, <1>2, <1>3, PTL DEF Spec, ImplementsAcyclicGraph, AcyclicGraph!Spec

-----------------------------------------------------------------------------
(* Several cords and a profiler.                                           *)

CordsProofs == INSTANCE CordzInfo_proofs WITH
  Cords <- Cords["cordz"], Profilers <- Profilers["cordz"], Reps <- CordReps, op <- cordOp

\* What is assumed of the unit.
LEMMA CordsAssumed == CordsProofs!CordzInfoAssumption
<1>1. Cordz("cordz")!CordzInfoAssumption
  BY SharingAssumption DEF Cordzes
<1> QED
  BY <1>1 DEF Cordz!CordzInfoAssumption, CordsProofs!CordzInfoAssumption, Cordz!IsFiniteSet,
     CordsProofs!IsFiniteSet

\* It begins with the invariant.
LEMMA CordsBegin == Cordz("cordz")!Init => CordsProofs!CordzInv
<1>1. Cordz("cordz")!Init => CordsProofs!Init
  BY DEF Cordz!Handles, CordsProofs!Handles, Cordz!Idle, CordsProofs!Idle, Cordz!NoSnapshot,
     CordsProofs!NoSnapshot, Cordz!Init, CordsProofs!Init
<1> QED
  BY <1>1, CordsAssumed, CordsProofs!CordzBegins

\* Every step of the unit keeps it.
LEMMA CordsKeep ==
  ASSUME CordsProofs!CordzInv, Cordz("cordz")!Next \/ UNCHANGED cordz
  PROVE  CordsProofs!CordzInv'
<1>1. Cordz("cordz")!Next => CordsProofs!Next
  BY DEF Cordz!cords, CordsProofs!cords, Cordz!reps, CordsProofs!reps, Cordz!list, CordsProofs!list,
     Cordz!queue, CordsProofs!queue, Cordz!handles, CordsProofs!handles, Cordz!Handles,
     CordsProofs!Handles, Cordz!First, CordsProofs!First, Cordz!Free, CordsProofs!Free, Cordz!Idle,
     CordsProofs!Idle, Cordz!NoSnapshot, CordsProofs!NoSnapshot, Cordz!Changed, CordsProofs!Changed,
     Cordz!Recount, CordsProofs!Recount, Cordz!Ref, CordsProofs!Ref, Cordz!Unref, CordsProofs!Unref,
     Cordz!Deleted, CordsProofs!Deleted, Cordz!Track, CordsProofs!Track, Cordz!Untracking,
     CordsProofs!Untracking, Cordz!Unlink, CordsProofs!Unlink, Cordz!SafeToDelete,
     CordsProofs!SafeToDelete, Cordz!ExtendLife, CordsProofs!ExtendLife, Cordz!Delete,
     CordsProofs!Delete, Cordz!Append, CordsProofs!Append, Cordz!Queue, CordsProofs!Queue,
     Cordz!Untracked, CordsProofs!Untracked, Cordz!Source, CordsProofs!Source, Cordz!MayChange,
     CordsProofs!MayChange, Cordz!Create, CordsProofs!Create, Cordz!Copy, CordsProofs!Copy,
     Cordz!Assign, CordsProofs!Assign, Cordz!Clear, CordsProofs!Clear, Cordz!BeginUpdate,
     CordsProofs!BeginUpdate, Cordz!SetTreeOrEmpty, CordsProofs!SetTreeOrEmpty, Cordz!IsOne,
     CordsProofs!IsOne, Cordz!Update, CordsProofs!Update, Cordz!Replace, CordsProofs!Replace,
     Cordz!RemoveAll, CordsProofs!RemoveAll, Cordz!EndUpdate, CordsProofs!EndUpdate, Cordz!Snapshot,
     CordsProofs!Snapshot, Cordz!Head, CordsProofs!Head, Cordz!RefCordRep, CordsProofs!RefCordRep,
     Cordz!UnrefCordRep, CordsProofs!UnrefCordRep, Cordz!NextInfo, CordsProofs!NextInfo,
     Cordz!UpToSnapshot, CordsProofs!UpToSnapshot, Cordz!EndSnapshot, CordsProofs!EndSnapshot,
     Cordz!DeleteQueued, CordsProofs!DeleteQueued, Cordz!CordStep, CordsProofs!CordStep,
     Cordz!ProfilerStep, CordsProofs!ProfilerStep, Cordz!Next, CordsProofs!Next, Cordz!Cardinality,
     CordsProofs!Cardinality
<1>2. UNCHANGED cordz => UNCHANGED CordsProofs!vars
  BY DEF cordz, Cordz!cords, CordsProofs!cords, Cordz!reps, CordsProofs!reps, Cordz!list, CordsProofs!list,
     Cordz!queue, CordsProofs!queue, Cordz!handles, CordsProofs!handles, Cordz!vars,
     CordsProofs!vars
<1> QED
  BY <1>1, <1>2, CordsAssumed, CordsProofs!CordzKeeps, CordsProofs!CordzStands

\* What a run checks of the unit.
LEMMA CordsHold ==
  ASSUME CordsProofs!CordzInv
  PROVE  /\ Cordz("cordz")!CountsAreHolders /\ Cordz("cordz")!NothingIsLeaked /\ Cordz("cordz")!ListIsExact
         /\ Cordz("cordz")!InspectedIsAlive /\ Cordz("cordz")!AnalyzedIsStable
<1>1. CordsProofs!CountsAreHolders => Cordz("cordz")!CountsAreHolders
  BY DEF Cordz!Owners, CordsProofs!Owners, Cordz!CountsAreHolders, CordsProofs!CountsAreHolders,
     Cordz!Cardinality, CordsProofs!Cardinality
<1>2. CordsProofs!NothingIsLeaked => Cordz("cordz")!NothingIsLeaked
  BY DEF Cordz!Idle, CordsProofs!Idle, Cordz!NoSnapshot, CordsProofs!NoSnapshot, Cordz!NothingIsLeaked,
     CordsProofs!NothingIsLeaked
<1>3. CordsProofs!ListIsExact => Cordz("cordz")!ListIsExact
  BY DEF Cordz!Listed, CordsProofs!Listed, Cordz!ListIsExact, CordsProofs!ListIsExact
<1>4. CordsProofs!InspectedIsAlive => Cordz("cordz")!InspectedIsAlive
  BY DEF Cordz!InspectedIsAlive, CordsProofs!InspectedIsAlive
<1>5. CordsProofs!AnalyzedIsStable => Cordz("cordz")!AnalyzedIsStable
  BY DEF Cordz!AnalyzedIsStable, CordsProofs!AnalyzedIsStable
<1> QED
  BY <1>1, <1>2, <1>3, <1>4, <1>5, CordsAssumed, CordsProofs!CordzHolds

-----------------------------------------------------------------------------
(* Several profilers.                                                      *)

ProfilersProofs == INSTANCE CordzInfo_proofs WITH
  Cords <- Cords["profilers"], Profilers <- Profilers["profilers"], Reps <- CordReps, op <- cordOp

\* What is assumed of the unit.
LEMMA ProfilersAssumed == ProfilersProofs!CordzInfoAssumption
<1>1. Cordz("profilers")!CordzInfoAssumption
  BY SharingAssumption DEF Cordzes
<1> QED
  BY <1>1 DEF Cordz!CordzInfoAssumption, ProfilersProofs!CordzInfoAssumption, Cordz!IsFiniteSet,
     ProfilersProofs!IsFiniteSet

\* It begins with the invariant.
LEMMA ProfilersBegin == Cordz("profilers")!Init => ProfilersProofs!CordzInv
<1>1. Cordz("profilers")!Init => ProfilersProofs!Init
  BY DEF Cordz!Handles, ProfilersProofs!Handles, Cordz!Idle, ProfilersProofs!Idle, Cordz!NoSnapshot,
     ProfilersProofs!NoSnapshot, Cordz!Init, ProfilersProofs!Init
<1> QED
  BY <1>1, ProfilersAssumed, ProfilersProofs!CordzBegins

\* Every step of the unit keeps it.
LEMMA ProfilersKeep ==
  ASSUME ProfilersProofs!CordzInv, Cordz("profilers")!Next \/ UNCHANGED cordz
  PROVE  ProfilersProofs!CordzInv'
<1>1. Cordz("profilers")!Next => ProfilersProofs!Next
  BY DEF Cordz!cords, ProfilersProofs!cords, Cordz!reps, ProfilersProofs!reps, Cordz!list,
     ProfilersProofs!list, Cordz!queue, ProfilersProofs!queue, Cordz!handles,
     ProfilersProofs!handles, Cordz!Handles, ProfilersProofs!Handles, Cordz!First,
     ProfilersProofs!First, Cordz!Free, ProfilersProofs!Free, Cordz!Idle, ProfilersProofs!Idle,
     Cordz!NoSnapshot, ProfilersProofs!NoSnapshot, Cordz!Changed, ProfilersProofs!Changed,
     Cordz!Recount, ProfilersProofs!Recount, Cordz!Ref, ProfilersProofs!Ref, Cordz!Unref,
     ProfilersProofs!Unref, Cordz!Deleted, ProfilersProofs!Deleted, Cordz!Track,
     ProfilersProofs!Track, Cordz!Untracking, ProfilersProofs!Untracking, Cordz!Unlink,
     ProfilersProofs!Unlink, Cordz!SafeToDelete, ProfilersProofs!SafeToDelete, Cordz!ExtendLife,
     ProfilersProofs!ExtendLife, Cordz!Delete, ProfilersProofs!Delete, Cordz!Append,
     ProfilersProofs!Append, Cordz!Queue, ProfilersProofs!Queue, Cordz!Untracked,
     ProfilersProofs!Untracked, Cordz!Source, ProfilersProofs!Source, Cordz!MayChange,
     ProfilersProofs!MayChange, Cordz!Create, ProfilersProofs!Create, Cordz!Copy,
     ProfilersProofs!Copy, Cordz!Assign, ProfilersProofs!Assign, Cordz!Clear, ProfilersProofs!Clear,
     Cordz!BeginUpdate, ProfilersProofs!BeginUpdate, Cordz!SetTreeOrEmpty,
     ProfilersProofs!SetTreeOrEmpty, Cordz!IsOne, ProfilersProofs!IsOne, Cordz!Update,
     ProfilersProofs!Update, Cordz!Replace, ProfilersProofs!Replace, Cordz!RemoveAll,
     ProfilersProofs!RemoveAll, Cordz!EndUpdate, ProfilersProofs!EndUpdate, Cordz!Snapshot,
     ProfilersProofs!Snapshot, Cordz!Head, ProfilersProofs!Head, Cordz!RefCordRep,
     ProfilersProofs!RefCordRep, Cordz!UnrefCordRep, ProfilersProofs!UnrefCordRep, Cordz!NextInfo,
     ProfilersProofs!NextInfo, Cordz!UpToSnapshot, ProfilersProofs!UpToSnapshot, Cordz!EndSnapshot,
     ProfilersProofs!EndSnapshot, Cordz!DeleteQueued, ProfilersProofs!DeleteQueued, Cordz!CordStep,
     ProfilersProofs!CordStep, Cordz!ProfilerStep, ProfilersProofs!ProfilerStep, Cordz!Next,
     ProfilersProofs!Next, Cordz!Cardinality, ProfilersProofs!Cardinality
<1>2. UNCHANGED cordz => UNCHANGED ProfilersProofs!vars
  BY DEF cordz, Cordz!cords, ProfilersProofs!cords, Cordz!reps, ProfilersProofs!reps, Cordz!list,
     ProfilersProofs!list, Cordz!queue, ProfilersProofs!queue, Cordz!handles,
     ProfilersProofs!handles, Cordz!vars, ProfilersProofs!vars
<1> QED
  BY <1>1, <1>2, ProfilersAssumed, ProfilersProofs!CordzKeeps, ProfilersProofs!CordzStands

\* What a run checks of the unit.
LEMMA ProfilersHold ==
  ASSUME ProfilersProofs!CordzInv
  PROVE  /\ Cordz("profilers")!CountsAreHolders /\ Cordz("profilers")!NothingIsLeaked /\ Cordz("profilers")!ListIsExact
         /\ Cordz("profilers")!InspectedIsAlive /\ Cordz("profilers")!AnalyzedIsStable
<1>1. ProfilersProofs!CountsAreHolders => Cordz("profilers")!CountsAreHolders
  BY DEF Cordz!Owners, ProfilersProofs!Owners, Cordz!CountsAreHolders, ProfilersProofs!CountsAreHolders,
     Cordz!Cardinality, ProfilersProofs!Cardinality
<1>2. ProfilersProofs!NothingIsLeaked => Cordz("profilers")!NothingIsLeaked
  BY DEF Cordz!Idle, ProfilersProofs!Idle, Cordz!NoSnapshot, ProfilersProofs!NoSnapshot,
     Cordz!NothingIsLeaked, ProfilersProofs!NothingIsLeaked
<1>3. ProfilersProofs!ListIsExact => Cordz("profilers")!ListIsExact
  BY DEF Cordz!Listed, ProfilersProofs!Listed, Cordz!ListIsExact, ProfilersProofs!ListIsExact
<1>4. ProfilersProofs!InspectedIsAlive => Cordz("profilers")!InspectedIsAlive
  BY DEF Cordz!InspectedIsAlive, ProfilersProofs!InspectedIsAlive
<1>5. ProfilersProofs!AnalyzedIsStable => Cordz("profilers")!AnalyzedIsStable
  BY DEF Cordz!AnalyzedIsStable, ProfilersProofs!AnalyzedIsStable
<1> QED
  BY <1>1, <1>2, <1>3, <1>4, <1>5, ProfilersAssumed, ProfilersProofs!CordzHolds

-----------------------------------------------------------------------------
(* Whichever unit runs.                                                    *)

CordzesInv ==
  /\ unit = "cordz" => CordsProofs!CordzInv
  /\ unit = "profilers" => ProfilersProofs!CordzInv

\* The units begin with their invariant.
LEMMA CordzesBegin == Init => CordzesInv
<1> SUFFICES ASSUME Init PROVE CordzesInv
  OBVIOUS
<1>1. PICK u \in Cordzes : Setting(u, Cordzes, "cordz") /\ Cordz(u)!Init
  BY DEF Init
<1>2. /\ unit = "cordz" => u = "cordz"
      /\ unit = "profilers" => u = "profilers"
  BY <1>1 DEF Setting, Cordzes
<1>3. /\ u = "cordz" => Cordz("cordz")!Init
      /\ u = "profilers" => Cordz("profilers")!Init
  BY <1>1
<1> QED
  BY <1>2, <1>3, CordsBegin, ProfilersBegin DEF CordzesInv

\* Every step keeps it.
LEMMA CordzesKeep == CordzesInv /\ [Next]_vars => CordzesInv'
<1> SUFFICES ASSUME CordzesInv, [Next]_vars PROVE CordzesInv'
  OBVIOUS
<1>1. CASE \E u \in Cordzes : unit = u /\ Cordz(u)!Next /\ Still("cordz")
  <2>1. PICK u \in Cordzes : unit = u /\ Cordz(u)!Next /\ Still("cordz")
    BY <1>1
  <2>2. unit' = unit
    BY <2>1 DEF Still
  <2>3. /\ u = "cordz" => Cordz("cordz")!Next
        /\ u = "profilers" => Cordz("profilers")!Next
    BY <2>1
  <2> QED
    BY <2>1, <2>2, <2>3, CordsKeep, ProfilersKeep DEF CordzesInv
<1>2. CASE unit' = unit /\ UNCHANGED cordz
  BY <1>2, CordsKeep, ProfilersKeep DEF CordzesInv
<1>3. CASE Next /\ ~\E u \in Cordzes : unit = u /\ Cordz(u)!Next /\ Still("cordz")
  BY <1>2, <1>3 DEF Next, Still
<1>4. CASE UNCHANGED vars
  BY <1>2, <1>4 DEF vars
<1> QED
  BY <1>1, <1>3, <1>4

\* However cords are made, copied, changed and destroyed while profilers take snapshots and walk
\* the list: every count is the number of holders, no info is leaked, the list has the infos of
\* the sampled cords, and what a profiler is at, or looks into, stays
\* (CordzInfo, CordzHandle, CordzUpdateScope).
THEOREM SampledCordsAreSound == Spec => []CordzIsSound
<1>1. CordzesInv => CordzIsSound
  <2> SUFFICES ASSUME CordzesInv, NEW u \in Cordzes, unit = u
               PROVE  /\ Cordz(u)!CountsAreHolders /\ Cordz(u)!NothingIsLeaked /\ Cordz(u)!ListIsExact
                      /\ Cordz(u)!InspectedIsAlive /\ Cordz(u)!AnalyzedIsStable
    BY DEF CordzIsSound
  <2>1. CASE u = "cordz"
    BY <2>1, CordsHold DEF CordzesInv
  <2>2. CASE u = "profilers"
    BY <2>2, ProfilersHold DEF CordzesInv
  <2> QED
    BY <2>1, <2>2 DEF Cordzes
<1> QED
  BY CordzesBegin, CordzesKeep, <1>1, PTL DEF Spec
=============================================================================
