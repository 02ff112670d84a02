----------------------------- MODULE StatusRep -----------------------------
(***************************************************************************)
(* absl::Status (absl/status/status.h, internal/status_internal.h and .cc) *)
(* is one word: a code, or a pointer to a counted representation that is   *)
(* shared by copies, on several threads, and cloned before it is changed   *)
(* if it may be shared. Payloads have one type here. An object that a      *)
(* thread changes is used by no other thread meanwhile: that is the        *)
(* caller's part.                                                          *)
(***************************************************************************)
EXTENDS Integers, FiniteSets

CONSTANTS Objects, Codes, Messages, NoMessage, Payloads, NoPayload, None,
          Threads,
          Reps           \* bound: addresses of representations

VARIABLES rep_,    \* of each object: an inlined value, an address, or None
          heap,    \* of each address: a representation or None
          op       \* of each thread: the member function it is in

vars == <<rep_, heap, op>>

Contents(v) ==
  IF v = None THEN None
  ELSE [code |-> v.code, message |-> v.message, payload |-> v.payload, moved |-> FALSE]

\* What an object says of itself.
ValueOf(o) == IF rep_[o] \in Reps THEN Contents(heap[rep_[o]]) ELSE rep_[o]

\* An object that is being changed is seen by no one: it counts as what it was before, or
\* is as soon as that is certain.
Changing(o) == {t \in Threads : op[t].pc # "idle" /\ op[t].this = o}
Val == [o \in Objects |->
         IF Changing(o) # {} THEN op[CHOOSE t \in Changing(o) : TRUE].was ELSE ValueOf(o)]

Value == INSTANCE StatusValue WITH val <- Val

StatusRepAssumption ==
  /\ Value!StatusValueAssumption
  /\ None \notin Reps \cup Objects \cup Payloads \cup {NoPayload}
  /\ IsFiniteSet(Objects) /\ IsFiniteSet(Threads)
  /\ LET Inlinable == [code : Codes, message : Messages, payload : Payloads \cup {NoPayload},
                       moved : BOOLEAN]
         Representations == [code : Codes, message : Messages,
                             payload : Payloads \cup {NoPayload}, ref : Nat]
     IN  None \notin Inlinable \cup Representations /\ Reps \cap Inlinable = {}

Idle == [pc |-> "idle"]
Init == /\ rep_ = [o \in Objects |-> None]
        /\ heap = [r \in Reps |-> None]
        /\ op = [t \in Threads |-> Idle]

Inlined(w) == w \notin Reps

\* Memory is taken from any free address, if one is left: which it is makes no difference.
NewAddress == CHOOSE r \in Reps : heap[r] = None
Available == \E r \in Reps : heap[r] = None

\* The word of a value that is inlined if it can be.
NewRep(v) == [code |-> v.code, message |-> v.message, payload |-> v.payload, ref |-> 1]

-----------------------------------------------------------------------------
(* Which objects a thread may use.                                         *)

Reading(o) == \E t \in Threads : op[t].pc # "idle" /\ op[t].from = o
MayChange(o) == rep_[o] # None /\ Changing(o) = {} /\ ~Reading(o)
MayRead(o) == rep_[o] # None /\ Changing(o) = {}
MayConstruct(o) == rep_[o] = None /\ Changing(o) = {}

\* Thread t begins to change o; next is what it does first.
Enter(t, o, from, next) ==
  op' = [op EXCEPT ![t] = [pc |-> next, this |-> o, from |-> from, was |-> ValueOf(o),
                           old |-> None, todo |-> None, new |-> None]]

-----------------------------------------------------------------------------
(* Constructors, assignments and the destructor.                           *)

\* Status(code, message).
Construct(t, o, c, m) ==
  /\ op[t].pc = "idle" /\ MayConstruct(o)
  /\ IF c = "ok" \/ m = NoMessage
       THEN rep_' = [rep_ EXCEPT ![o] = Value!Plain(c)] /\ UNCHANGED heap
       ELSE /\ Available
            /\ heap' = [heap EXCEPT ![NewAddress] = NewRep(Value!Made(c, m))]
            /\ rep_' = [rep_ EXCEPT ![o] = NewAddress]
  /\ UNCHANGED op

\* Status(const Status&) and operator=(const Status&).
BeginCopy(t, o, from) ==
  /\ op[t].pc = "idle" /\ o # from /\ MayRead(from) /\ (MayConstruct(o) \/ MayChange(o))
  /\ rep_[o] # rep_[from]
  /\ Enter(t, o, from, "copy")
  /\ UNCHANGED <<rep_, heap>>

\* Ref(x.rep_); rep_ = x.rep_.
Copy(t) ==
  LET w == rep_[op[t].from] IN
  /\ op[t].pc = "copy"
  /\ heap' = [r \in Reps |-> IF r = w THEN [heap[r] EXCEPT !.ref = @ + 1] ELSE heap[r]]
  /\ rep_' = [rep_ EXCEPT ![op[t].this] = w]
  /\ op' = [op EXCEPT ![t].pc = "unref", ![t].old = rep_[op[t].this], ![t].from = None,
                      ![t].was = ValueOf(op[t].from)]

\* Status(Status&&) and operator=(Status&&).
Move(t, o, from) ==
  /\ op[t].pc = "idle" /\ o # from /\ MayChange(from) /\ (MayConstruct(o) \/ MayChange(o))
  /\ rep_[o] # rep_[from]
  /\ rep_' = [rep_ EXCEPT ![o] = rep_[from], ![from] = Value!Moved]
  /\ op' = [op EXCEPT ![t] = [pc |-> "unref", this |-> None, from |-> None, was |-> None,
                              old |-> rep_[o], todo |-> None, new |-> None]]
  /\ UNCHANGED heap

\* ~Status.
Destroy(t, o) ==
  /\ op[t].pc = "idle" /\ MayChange(o)
  /\ rep_' = [rep_ EXCEPT ![o] = None]
  /\ op' = [op EXCEPT ![t] = [pc |-> "unref", this |-> None, from |-> None, was |-> None,
                              old |-> rep_[o], todo |-> None, new |-> None]]
  /\ UNCHANGED heap

-----------------------------------------------------------------------------
(* StatusRep::Unref: an atomic load, and a decrement unless it read 1.     *)

\* Where a thread goes on that has released a representation.
AfterUnref(t) == IF op[t].todo # None THEN [op[t] EXCEPT !.pc = "write"] ELSE Idle

\* Mutant: the count is not looked at again.
Decrement_Stale(t) ==
  /\ op[t].pc = "decrement"
  /\ heap' = [heap EXCEPT ![op[t].old].ref = @ - 1]
  /\ op' = [op EXCEPT ![t] = AfterUnref(t)]
  /\ UNCHANGED rep_

Unref(t) ==
  LET r == op[t].old IN
  /\ op[t].pc = "unref"
  /\ IF Inlined(r) THEN op' = [op EXCEPT ![t] = AfterUnref(t)] /\ UNCHANGED heap
     ELSE IF heap[r].ref = 1
       THEN heap' = [heap EXCEPT ![r] = None] /\ op' = [op EXCEPT ![t] = AfterUnref(t)]
       ELSE op' = [op EXCEPT ![t].pc = "decrement"] /\ UNCHANGED heap
  /\ UNCHANGED rep_

Decrement(t) ==
  LET r == op[t].old IN
  /\ op[t].pc = "decrement"
  /\ heap' = [heap EXCEPT ![r] = IF heap[r].ref = 1 THEN None ELSE [heap[r] EXCEPT !.ref = @ - 1]]
  /\ op' = [op EXCEPT ![t] = AfterUnref(t)]
  /\ UNCHANGED rep_

-----------------------------------------------------------------------------
(* SetPayload and ErasePayload.                                            *)

\* What is to be done to the representation: the payload it gets.
BeginChange(t, o, todo) ==
  op' = [op EXCEPT ![t] = [pc |-> "prepare", this |-> o, from |-> None, was |-> ValueOf(o),
                           old |-> None, todo |-> todo, new |-> None]]

\* OK has no payloads; an inlined value gets a representation of its own.
SetPayload(t, o, p) ==
  /\ op[t].pc = "idle" /\ MayChange(o)
  /\ IF rep_[o] = Value!Plain("ok") THEN UNCHANGED vars
     ELSE IF Inlined(rep_[o])
       THEN /\ Available
            /\ heap' = [heap EXCEPT ![NewAddress] = NewRep([rep_[o] EXCEPT !.payload = p])]
            /\ rep_' = [rep_ EXCEPT ![o] = NewAddress]
            /\ UNCHANGED op
     ELSE BeginChange(t, o, p) /\ UNCHANGED <<rep_, heap>>

ErasePayload(t, o) ==
  /\ op[t].pc = "idle" /\ MayChange(o) /\ ~Inlined(rep_[o])
  /\ BeginChange(t, o, NoPayload)
  /\ UNCHANGED <<rep_, heap>>

\* Mutant: a representation that others may have is changed.
Prepare_Shared(t) ==
  /\ op[t].pc = "prepare"
  /\ op' = [op EXCEPT ![t].pc = "write", ![t].new = rep_[op[t].this]]
  /\ UNCHANGED <<rep_, heap>>

\* PrepareToModify and CloneAndUnref, to the load of the count.
Prepare(t) ==
  LET r == rep_[op[t].this] IN
  /\ op[t].pc = "prepare"
  /\ op' = IF heap[r].ref = 1 THEN [op EXCEPT ![t].pc = "write", ![t].new = r]
           ELSE [op EXCEPT ![t].pc = "clone"]
  /\ UNCHANGED <<rep_, heap>>

Clone(t) ==
  LET old == rep_[op[t].this] IN
  /\ op[t].pc = "clone" /\ Available
  /\ heap' = [heap EXCEPT ![NewAddress] = [heap[old] EXCEPT !.ref = 1]]
  /\ op' = [op EXCEPT ![t].pc = "unref", ![t].old = old, ![t].new = NewAddress]
  /\ UNCHANGED rep_

\* StatusRep::SetPayload, or StatusRep::ErasePayload, which gives up a representation
\* that had a payload and has nothing but a code now; and the assignment of rep_.
Write(t) ==
  LET r == op[t].new
      inlines == /\ op[t].todo = NoPayload /\ heap[r].payload # NoPayload
                 /\ heap[r].message = NoMessage
  IN
  /\ op[t].pc = "write"
  /\ heap' = IF inlines THEN [heap EXCEPT ![r] = None]
             ELSE [heap EXCEPT ![r].payload = op[t].todo]
  /\ rep_' = [rep_ EXCEPT ![op[t].this] = IF inlines THEN Value!Plain(heap[r].code) ELSE r]
  /\ op' = [op EXCEPT ![t] = Idle]

-----------------------------------------------------------------------------
Step(t) == Copy(t) \/ Unref(t) \/ Decrement(t) \/ Prepare(t) \/ Clone(t) \/ Write(t)

Next ==
  \E t \in Threads :
    \/ Step(t)
    \/ \E o \in Objects :
         \/ \E c \in Codes, m \in Messages : Construct(t, o, c, m)
         \/ \E from \in Objects : BeginCopy(t, o, from) \/ Move(t, o, from)
         \/ \E p \in Payloads : SetPayload(t, o, p)
         \/ ErasePayload(t, o) \/ Destroy(t, o)

Spec == Init /\ [][Next]_vars

-----------------------------------------------------------------------------
\* The threads that hold a count of r beside the objects that point to it: one that has
\* not released it yet, or has a clone that no object points to. A thread that has cloned
\* still owes the count of its object.
Owed(r) == {t \in Threads : op[t].pc \in {"unref", "decrement"} /\ op[t].old = r}
Pending(r) == {t \in Threads : op[t].pc \in {"unref", "decrement", "write"}
                               /\ op[t].new = r /\ rep_[op[t].this] # r}
Released(o) == \E t \in Changing(o) : op[t].new \notin {None, rep_[o]}
Holders(r) == {o \in Objects : rep_[o] = r /\ ~Released(o)}

\* The count of a representation is the number of those that hold it, so that none is
\* used after it was freed and none is left when the last object is gone.
CountIsHolders ==
  \A r \in Reps :
    LET holders == Cardinality(Holders(r)) + Cardinality(Owed(r)) + Cardinality(Pending(r))
    IN  IF heap[r] = None THEN holders = 0 ELSE holders > 0 /\ heap[r].ref = holders

\* operator== for two words.
Equal(a, b) ==
  \/ a = b
  \/ ~Inlined(a) /\ ~Inlined(b) /\ Contents(heap[a]) = Contents(heap[b])

\* Comparing words, and representations only if there are two, compares values: no value
\* has an inlined form and a representation.
EqualityIsOfValues ==
  \A a, b \in {o \in Objects : rep_[o] # None /\ Changing(o) = {}} :
    Equal(rep_[a], rep_[b]) <=> ValueOf(a) = ValueOf(b)
=============================================================================
