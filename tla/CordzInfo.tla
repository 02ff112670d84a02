----------------------------- MODULE CordzInfo -----------------------------
(***************************************************************************)
(* Sampled cords (absl/strings/internal/cordz_info.cc, cordz_handle.cc and *)
(* the parts of cord.cc that call them). The thread of each cord keeps the *)
(* cord's CordzInfo in a global list. Profilers walk the list without its  *)
(* lock; what they may still see when it is untracked goes to the delete   *)
(* queue instead, behind the snapshots, and lives until these end. The     *)
(* tree of a cord is one counted CordRep here.                             *)
(***************************************************************************)
EXTENDS Integers, FiniteSets

CONSTANTS Cords, Profilers,    \* threads; a profiler is also its snapshot
          Infos,               \* addresses of CordzInfo: bound, each is used once
          Reps,                \* addresses of CordRep; both are sets of numbers
          None

CordzInfoAssumption ==
  /\ IsFiniteSet(Cords) /\ IsFiniteSet(Profilers)
  /\ IsFiniteSet(Infos) /\ Infos \cup Reps \subseteq Nat
  /\ Infos \cap Profilers = {} /\ None \notin Cords \cup Infos \cup Profilers \cup Reps

VARIABLES tree, cordz_info,            \* of each cord
          refcount,                    \* of each rep
          disturbed,                   \* history: the profilers whose rep has changed
          new,                         \* the addresses of infos not used so far
          alive,                       \* the handles that are not deleted
          rep_, mutex_,                \* of each info; who holds the mutex
          head, ci_prev_, ci_next_,    \* the global list
          dq_tail, dq_prev_, dq_next_, \* the delete queue
          op,                          \* of each cord: where its thread is
          profiler                     \* of each profiler: where it is

cords == <<tree, cordz_info>>
reps == <<refcount, disturbed>>
list == <<head, ci_prev_, ci_next_>>
queue == <<dq_tail, dq_prev_, dq_next_>>
handles == <<new, alive>>
vars == <<cords, reps, handles, rep_, mutex_, list, queue, op, profiler>>

Handles == Infos \cup Profilers
\* Memory is taken from the first free address: which one it is makes no difference.
First(addresses) == CHOOSE a \in addresses : \A b \in addresses : a <= b
Free == {r \in Reps : refcount[r] = 0}

Idle == [pc |-> "idle"]
NoSnapshot == [pc |-> "none", at |-> None, rep |-> None, to_delete |-> {}]

Init ==
  /\ tree = [c \in Cords |-> None] /\ cordz_info = [c \in Cords |-> None]
  /\ refcount = [r \in Reps |-> 0] /\ disturbed = {}
  /\ new = Infos /\ alive = {}
  /\ rep_ = [i \in Infos |-> None] /\ mutex_ = [i \in Infos |-> None]
  /\ head = None
  /\ ci_prev_ = [i \in Infos |-> None] /\ ci_next_ = [i \in Infos |-> None]
  /\ dq_tail = None
  /\ dq_prev_ = [h \in Handles |-> None] /\ dq_next_ = [h \in Handles |-> None]
  /\ op = [c \in Cords |-> Idle]
  /\ profiler = [p \in Profilers |-> NoSnapshot]

-----------------------------------------------------------------------------
(* Counts.                                                                 *)

Changed(rs) == disturbed' = disturbed \cup {p \in Profilers : profiler[p].rep \in rs}
\* A rep whose count becomes 0 is deleted.
Recount(count) == refcount' = count /\ Changed({r \in Reps : refcount[r] > 0 /\ count[r] = 0})
Ref(r) == Recount([refcount EXCEPT ![r] = @ + 1])
Unref(r) == Recount([refcount EXCEPT ![r] = @ - 1])

\* An info is deleted: what its rep_ refers to is released.
Deleted(is) ==
  /\ alive' = alive \ is
  /\ Recount([r \in Reps |-> refcount[r] - Cardinality({i \in is : rep_[i] = r})])

-----------------------------------------------------------------------------
(* The list.                                                               *)

\* A new info for cord c and tree r is put at the head. Nobody sees it before.
Track(c, r) ==
  new # {} /\ LET i == First(new) IN
    /\ new' = new \ {i} /\ alive' = alive \cup {i}
    /\ rep_' = [rep_ EXCEPT ![i] = r]
    /\ cordz_info' = [cordz_info EXCEPT ![c] = i]
    /\ ci_prev_' = [j \in Infos |-> IF j = head THEN i ELSE ci_prev_[j]]
    /\ ci_next_' = [ci_next_ EXCEPT ![i] = head]
    /\ head' = i

\* The thread of c untracks i, then tracks c anew if asked to, and then releases old.
Untracking(i, track, old) == [pc |-> "unlink", info |-> i, track |-> track, old |-> old]

\* CordzInfo::Untrack, under the lock of the list.
Unlink(c) ==
  /\ op[c].pc = "unlink"
  /\ LET i == op[c].info
         next == ci_next_[i]
         prev == ci_prev_[i] IN
     /\ ci_prev_' = [j \in Infos |-> IF j = next THEN prev ELSE ci_prev_[j]]
     /\ ci_next_' = [j \in Infos |-> IF j = prev THEN next ELSE ci_next_[j]]
     /\ head' = IF prev = None THEN next ELSE head
  /\ op' = [op EXCEPT ![c].pc = "safe"]
  /\ UNCHANGED <<cords, reps, handles, rep_, mutex_, queue, profiler>>

\* The fast path, if the queue is empty. The queue is looked at without its mutex.
SafeToDelete(c) ==
  /\ op[c].pc = "safe"
  /\ IF dq_tail = None
       THEN /\ rep_' = [rep_ EXCEPT ![op[c].info] = None]
            /\ alive' = alive \ {op[c].info}
            /\ op' = [op EXCEPT ![c].pc = "untracked"]
       ELSE /\ UNCHANGED <<rep_, alive>>
            /\ op' = [op EXCEPT ![c].pc = "extend"]
  /\ UNCHANGED <<cords, reps, new, mutex_, list, queue, profiler>>

\* Mutant: no reference is taken.
ExtendLife_NoRef(c) ==
  /\ op[c].pc = "extend" /\ mutex_[op[c].info] = None
  /\ op' = [op EXCEPT ![c].pc = "delete"]
  /\ UNCHANGED <<cords, reps, handles, rep_, mutex_, list, queue, profiler>>

\* The rep is kept for those who see the info.
ExtendLife(c) ==
  /\ op[c].pc = "extend" /\ mutex_[op[c].info] = None
  /\ IF rep_[op[c].info] = None THEN UNCHANGED reps ELSE Ref(rep_[op[c].info])
  /\ op' = [op EXCEPT ![c].pc = "delete"]
  /\ UNCHANGED <<cords, handles, rep_, mutex_, list, queue, profiler>>

\* CordzHandle::Delete, without the mutex,
Delete(c) ==
  /\ op[c].pc = "delete"
  /\ IF dq_tail = None
       THEN Deleted({op[c].info}) /\ op' = [op EXCEPT ![c].pc = "untracked"]
       ELSE UNCHANGED <<alive, reps>> /\ op' = [op EXCEPT ![c].pc = "queue"]
  /\ UNCHANGED <<cords, new, rep_, mutex_, list, queue, profiler>>

\* The end of the queue.
Append(h) ==
  /\ dq_prev_' = [dq_prev_ EXCEPT ![h] = dq_tail]
  /\ dq_next_' = [j \in Handles |-> IF j = h THEN None
                                    ELSE IF j = dq_tail THEN h ELSE dq_next_[j]]
  /\ dq_tail' = h

\* and with it.
Queue(c) ==
  /\ op[c].pc = "queue"
  /\ IF dq_tail = None THEN Deleted({op[c].info}) /\ UNCHANGED queue
                       ELSE Append(op[c].info) /\ UNCHANGED <<alive, reps>>
  /\ op' = [op EXCEPT ![c].pc = "untracked"]
  /\ UNCHANGED <<cords, new, rep_, mutex_, list, profiler>>

\* The rest of AssignSlow, UnrefTree, ~CordzUpdateScope.
Untracked(c) ==
  /\ op[c].pc = "untracked"
  /\ IF op[c].track
       THEN Track(c, tree[c])
       ELSE /\ cordz_info' = [cordz_info EXCEPT ![c] = None]
            /\ UNCHANGED <<handles, rep_, list>>
  /\ IF op[c].old = None THEN UNCHANGED reps ELSE Unref(op[c].old)
  /\ op' = [op EXCEPT ![c] = Idle]
  /\ UNCHANGED <<tree, mutex_, queue, profiler>>

-----------------------------------------------------------------------------
(* Cords. A cord that is assigned from stays as it is meanwhile.           *)

Source(d) == \E c \in Cords : op[c] # Idle /\ "from" \in DOMAIN op[c] /\ op[c].from = d
MayChange(c) == op[c] = Idle /\ ~Source(c)

\* EmplaceTree with a new tree. Any may be chosen to be sampled.
Create(c) ==
  /\ MayChange(c) /\ tree[c] = None
  /\ Free # {} /\ LET r == First(Free) IN
       /\ tree' = [tree EXCEPT ![c] = r]
       /\ Ref(r)
       /\ \/ Track(c, r)
          \/ UNCHANGED <<cordz_info, handles, rep_, list>>
  /\ UNCHANGED <<mutex_, queue, op, profiler>>

\* A copy, sampled if its source is.
Copy(c, d) ==
  /\ MayChange(c) /\ tree[c] = None /\ op[d] = Idle /\ tree[d] # None
  /\ tree' = [tree EXCEPT ![c] = tree[d]]
  /\ Ref(tree[d])
  /\ IF cordz_info[d] # None THEN Track(c, tree[d])
                             ELSE UNCHANGED <<cordz_info, handles, rep_, list>>
  /\ UNCHANGED <<mutex_, queue, op, profiler>>

\* AssignSlow between two trees.
Assign(c, d) ==
  /\ MayChange(c) /\ c # d /\ tree[c] # None /\ op[d] = Idle /\ tree[d] # None
  /\ cordz_info[d] # None => new # {}
  /\ tree' = [tree EXCEPT ![c] = tree[d]]
  /\ Ref(tree[d])
  /\ op' = [op EXCEPT ![c] = [pc |-> IF cordz_info[c] # None THEN "unlink" ELSE "untracked",
                              info |-> cordz_info[c], track |-> cordz_info[d] # None,
                              old |-> tree[c], from |-> d]]
  /\ UNCHANGED <<cordz_info, handles, rep_, mutex_, list, queue, profiler>>

\* Clear, ~Cord and others.
Clear(c) ==
  /\ MayChange(c) /\ tree[c] # None
  /\ tree' = [tree EXCEPT ![c] = None]
  /\ IF cordz_info[c] = None
       THEN Unref(tree[c]) /\ UNCHANGED op
       ELSE op' = [op EXCEPT ![c] = Untracking(cordz_info[c], FALSE, tree[c])] /\ UNCHANGED reps
  /\ UNCHANGED <<cordz_info, handles, rep_, mutex_, list, queue, profiler>>

\* A CordzUpdateScope begins.
BeginUpdate(c) ==
  /\ MayChange(c) /\ tree[c] # None
  /\ IF cordz_info[c] = None THEN UNCHANGED mutex_
     ELSE /\ mutex_[cordz_info[c]] = None
          /\ mutex_' = [mutex_ EXCEPT ![cordz_info[c]] = c]
  /\ op' = [op EXCEPT ![c] = [pc |-> "update"]]
  /\ UNCHANGED <<cords, reps, handles, rep_, list, queue, profiler>>

SetTreeOrEmpty(c, r) ==
  /\ tree' = [tree EXCEPT ![c] = r]
  /\ rep_' = [i \in Infos |-> IF i = cordz_info[c] THEN r ELSE rep_[i]]

\* In the scope: a tree that is seen to be shared with nobody
IsOne(c) ==
  /\ op[c].pc = "update" /\ refcount[tree[c]] = 1
  /\ op' = [op EXCEPT ![c].pc = "change"]
  /\ UNCHANGED <<cords, reps, handles, rep_, mutex_, list, queue, profiler>>

\* is changed in place,
Update(c) ==
  /\ op[c].pc = "change"
  /\ Changed({tree[c]})
  /\ op' = [op EXCEPT ![c].pc = "unlock"]
  /\ UNCHANGED <<cords, refcount, handles, rep_, mutex_, list, queue, profiler>>

\* or it is replaced,
Replace(c) ==
  /\ op[c].pc = "update"
  /\ Free # {} /\ LET r == First(Free) IN
       /\ SetTreeOrEmpty(c, r)
       /\ Recount([refcount EXCEPT ![r] = 1, ![tree[c]] = @ - 1])
  /\ op' = [op EXCEPT ![c].pc = "unlock"]
  /\ UNCHANGED <<cordz_info, handles, mutex_, list, queue, profiler>>

\* or everything is removed.
RemoveAll(c) ==
  /\ op[c].pc = "update"
  /\ SetTreeOrEmpty(c, None)
  /\ Unref(tree[c])
  /\ op' = [op EXCEPT ![c].pc = "unlock"]
  /\ UNCHANGED <<cordz_info, handles, mutex_, list, queue, profiler>>

\* The scope ends: CordzInfo::Unlock.
EndUpdate(c) ==
  /\ op[c].pc = "unlock"
  /\ LET i == cordz_info[c] IN
     /\ mutex_' = [j \in Infos |-> IF j = i THEN None ELSE mutex_[j]]
     /\ op' = [op EXCEPT ![c] = IF i # None /\ rep_[i] = None THEN Untracking(i, FALSE, None)
                                                              ELSE Idle]
  /\ UNCHANGED <<cords, reps, handles, rep_, list, queue, profiler>>

-----------------------------------------------------------------------------
(* Profilers.                                                              *)

\* A CordzSnapshot, and the iterator's begin.
Snapshot(p) ==
  /\ profiler[p].pc = "none"
  /\ Append(p)
  /\ alive' = alive \cup {p}
  /\ profiler' = [profiler EXCEPT ![p].pc = "begin"]
  /\ UNCHANGED <<cords, reps, new, rep_, mutex_, list, op>>

Head(p) ==
  /\ profiler[p].pc = "begin"
  /\ profiler' = [profiler EXCEPT ![p].pc = "at", ![p].at = head]
  /\ UNCHANGED <<cords, reps, handles, rep_, mutex_, list, queue, op>>

\* GetCordzStatistics looks at the rep, which it holds meanwhile.
RefCordRep(p) ==
  /\ profiler[p].pc = "at" /\ profiler[p].at # None /\ mutex_[profiler[p].at] = None
  /\ LET r == rep_[profiler[p].at] IN
     /\ IF r = None THEN UNCHANGED reps ELSE Ref(r)
     /\ profiler' = [profiler EXCEPT ![p].pc = "analyze", ![p].rep = r]
  /\ UNCHANGED <<cords, handles, rep_, mutex_, list, queue, op>>

UnrefCordRep(p) ==
  /\ profiler[p].pc = "analyze"
  /\ refcount' = [r \in Reps |-> IF r = profiler[p].rep THEN refcount[r] - 1 ELSE refcount[r]]
  /\ profiler' = [profiler EXCEPT ![p].pc = "next", ![p].rep = None]
  /\ UNCHANGED <<cords, disturbed, handles, rep_, mutex_, list, queue, op>>

NextInfo(p) ==
  /\ profiler[p].pc = "next"
  /\ profiler' = [profiler EXCEPT ![p].pc = "at", ![p].at = ci_next_[profiler[p].at]]
  /\ UNCHANGED <<cords, reps, handles, rep_, mutex_, list, queue, op>>

\* The infos from h on, if it is one: what is in every set with h that dq_next_ stays in.
UpToSnapshot(h) ==
  {i \in Infos :
     \A closed \in SUBSET Infos :
       /\ h \in Infos => h \in closed
       /\ \A j \in closed : dq_next_[j] \in Infos => dq_next_[j] \in closed
       => i \in closed}

\* ~CordzHandle of a snapshot, under the mutex: if it was first in the queue, what follows
\* up to the next snapshot can be deleted.
EndSnapshot(p) ==
  /\ profiler[p].pc \in {"begin", "at"}
  /\ LET first == dq_prev_[p] = None
         out == IF first THEN UpToSnapshot(dq_next_[p]) ELSE {}
         next == IF out = {} THEN dq_next_[p]
                 ELSE dq_next_[CHOOSE h \in out : dq_next_[h] \notin out] IN
     /\ dq_next_' = [h \in Handles |-> IF h = p \/ h \in out THEN None
                                       ELSE IF h = dq_prev_[p] THEN next ELSE dq_next_[h]]
     /\ dq_prev_' = [h \in Handles |-> IF h = p \/ h \in out THEN None
                                       ELSE IF h = next THEN dq_prev_[p] ELSE dq_prev_[h]]
     /\ dq_tail' = IF next = None THEN dq_prev_[p] ELSE dq_tail
     /\ profiler' = [profiler EXCEPT ![p] = [NoSnapshot EXCEPT !.pc = "deleting", !.to_delete = out]]
  /\ alive' = alive \ {p}
  /\ UNCHANGED <<cords, reps, new, rep_, mutex_, list, op>>

\* It is deleted without the mutex.
DeleteQueued(p) ==
  /\ profiler[p].pc = "deleting"
  /\ Deleted(profiler[p].to_delete)
  /\ profiler' = [profiler EXCEPT ![p] = NoSnapshot]
  /\ UNCHANGED <<cords, new, rep_, mutex_, list, queue, op>>

-----------------------------------------------------------------------------
CordStep(c) ==
  \/ Create(c) \/ (\E d \in Cords : Copy(c, d) \/ Assign(c, d)) \/ Clear(c)
  \/ BeginUpdate(c) \/ IsOne(c) \/ Update(c) \/ Replace(c) \/ RemoveAll(c) \/ EndUpdate(c)
  \/ Unlink(c) \/ SafeToDelete(c) \/ ExtendLife(c) \/ Delete(c) \/ Queue(c) \/ Untracked(c)
ProfilerStep(p) ==
  \/ Snapshot(p) \/ Head(p) \/ RefCordRep(p) \/ UnrefCordRep(p) \/ NextInfo(p)
  \/ EndSnapshot(p) \/ DeleteQueued(p)

Next == (\E c \in Cords : CordStep(c)) \/ (\E p \in Profilers : ProfilerStep(p))

Spec == Init /\ [][Next]_vars

-----------------------------------------------------------------------------
\* What a profiler is at has not been deleted, whatever was untracked meanwhile.
InspectedIsAlive == \A p \in Profilers : profiler[p].at # None => profiler[p].at \in alive

\* The rep that a profiler holds is neither deleted nor changed.
AnalyzedIsStable == disturbed = {}

\* The infos that own their rep: they are queued, or will be, or are taken from the queue.
Owners ==
  {i \in alive \cap Infos :
     ~\E c \in Cords : (cordz_info[c] = i /\ op[c].pc \notin {"delete", "queue", "untracked"})}

\* A count is the number of those who hold the rep: none is leaked and none is deleted twice.
CountsAreHolders ==
  \A r \in Reps : refcount[r] =
    Cardinality({c \in Cords : tree[c] = r})
    + Cardinality({c \in Cords : op[c].pc \notin {"idle", "update", "change", "unlock"} /\ op[c].old = r})
    + Cardinality({p \in Profilers : profiler[p].rep = r})
    + Cardinality({i \in Owners : rep_[i] = r})

\* Once there is no snapshot and nothing is going on, only what is tracked is left.
NothingIsLeaked ==
  (\A p \in Profilers : profiler[p] = NoSnapshot) /\ (\A c \in Cords : op[c] = Idle)
    => alive = {cordz_info[c] : c \in Cords} \ {None}

\* Where the list leads to: what is in every set with its head that ci_next_ stays in.
Listed ==
  {i \in Infos :
     \A closed \in SUBSET (Infos \cup {None}) :
       head \in closed /\ (\A j \in closed \ {None} : ci_next_[j] \in closed) => i \in closed}
\* A walk of the list meets the info of every sampled cord, and no other.
ListIsExact ==
  Listed = {cordz_info[c] : c \in {d \in Cords : op[d].pc \in {"idle", "update", "change", "unlock", "unlink"}}}
               \ {None}
=============================================================================
