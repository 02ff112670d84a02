--------------------------- MODULE SampleRecorder ---------------------------
(***************************************************************************)
(* The samples that profilers keep (absl/profiling/internal/               *)
(* sample_recorder.h). A sample is put into the list all_ once, without a  *)
(* lock, and stays there. Those that are not in use are also in the        *)
(* graveyard, a circular list under the lock of its own sample; to change  *)
(* a sample's dead takes that sample's lock too.                           *)
(***************************************************************************)
EXTENDS Integers, FiniteSets

CONSTANTS Threads,
          Samples,         \* bound: addresses of samples
          graveyard_,      \* the one that is no sample
          None,
          max_samples_

SampleRecorderAssumption ==
  /\ graveyard_ \notin Samples /\ None \notin Samples \cup {graveyard_} /\ None \notin Threads
  /\ max_samples_ \in Nat /\ IsFiniteSet(Threads) /\ IsFiniteSet(Samples)

VARIABLES size_estimate_,
          all_, next,      \* the list
          dead,            \* of each sample and the graveyard
          init_mu,         \* of each sample and the graveyard: who holds it
          created,         \* the samples that exist
          users,           \* of each sample: the threads that were given it
          op,              \* of each thread: where it is
          must             \* history, of each thread that iterates: what was registered
                           \* before and still is, and has not been visited

vars == <<size_estimate_, all_, next, dead, init_mu, created, users, op, must>>
list == <<all_, next>>

Nodes == Samples \cup {graveyard_}
Idle == [pc |-> "idle"]

Init ==
  /\ size_estimate_ = 0
  /\ all_ = None /\ next = [s \in Samples |-> None]
  /\ dead = [s \in Nodes |-> IF s = graveyard_ THEN graveyard_ ELSE None]
  /\ init_mu = [s \in Nodes |-> None]
  /\ created = {}
  /\ users = [s \in Samples |-> {}]
  /\ op = [t \in Threads |-> Idle]
  /\ must = [t \in Threads |-> {}]

Goto(t, pc) == op' = [op EXCEPT ![t] = [pc |-> pc]]
GotoWith(t, pc, s) == op' = [op EXCEPT ![t] = [pc |-> pc, sample |-> s]]

-----------------------------------------------------------------------------
(* Register.                                                               *)

\* fetch_add, and its result is compared.
Register(t) ==
  /\ op[t] = Idle
  /\ size_estimate_' = size_estimate_ + 1
  /\ Goto(t, IF size_estimate_ > max_samples_ THEN "drop" ELSE "pop")
  /\ UNCHANGED <<list, dead, init_mu, created, users, must>>

Drop(t) ==
  /\ op[t].pc = "drop"
  /\ size_estimate_' = size_estimate_ - 1
  /\ Goto(t, "idle")
  /\ UNCHANGED <<list, dead, init_mu, created, users, must>>

\* PopDead, under the graveyard's lock.
LockGraveyard(t) ==
  /\ op[t].pc = "pop" /\ init_mu[graveyard_] = None
  /\ IF dead[graveyard_] = graveyard_
       THEN Goto(t, "new") /\ UNCHANGED init_mu
       ELSE GotoWith(t, "pop sample", dead[graveyard_]) /\ init_mu' = [init_mu EXCEPT ![graveyard_] = t]
  /\ UNCHANGED <<size_estimate_, list, dead, created, users, must>>

\* And the sample's. PrepareForSampling is done here.
PopDead(t) ==
  /\ op[t].pc = "pop sample" /\ init_mu[op[t].sample] = None
  /\ LET s == op[t].sample IN
     /\ dead' = [dead EXCEPT ![graveyard_] = dead[s], ![s] = None]
     /\ users' = [users EXCEPT ![s] = @ \cup {t}]
     /\ GotoWith(t, "using", s)
  /\ init_mu' = [init_mu EXCEPT ![graveyard_] = None]
  /\ UNCHANGED <<size_estimate_, list, created, must>>

\* A new sample is prepared before anyone can see it. Its address makes no difference.
New(t) ==
  /\ op[t].pc = "new" /\ created # Samples
  /\ LET s == CHOOSE x \in Samples : x \notin created IN
       /\ created' = created \cup {s}
       /\ next' = [next EXCEPT ![s] = all_]
       /\ GotoWith(t, "push", s)
  /\ UNCHANGED <<size_estimate_, all_, dead, init_mu, users, must>>

\* Mutant: the head is stored whatever it has become.
PushNew_Store(t) ==
  /\ op[t].pc = "push"
  /\ LET s == op[t].sample IN
     /\ all_' = s
     /\ users' = [users EXCEPT ![s] = @ \cup {t}]
     /\ GotoWith(t, "using", s)
  /\ UNCHANGED <<size_estimate_, next, dead, init_mu, created, must>>

\* compare_exchange_weak, which may fail for no reason.
PushNew(t) ==
  /\ op[t].pc = "push"
  /\ LET s == op[t].sample IN
     \/ /\ all_ = next[s]
        /\ all_' = s
        /\ users' = [users EXCEPT ![s] = @ \cup {t}]
        /\ GotoWith(t, "using", s)
        /\ UNCHANGED next
     \/ /\ next' = [next EXCEPT ![s] = all_]
        /\ UNCHANGED <<all_, users, op>>
  /\ UNCHANGED <<size_estimate_, dead, init_mu, created, must>>

-----------------------------------------------------------------------------
(* Unregister. A thread goes on with other things while it uses a sample:  *)
(* "using" is the end of Register, and the sample is remembered in users.  *)

EndRegister(t) ==
  /\ op[t].pc = "using"
  /\ Goto(t, "idle")
  /\ UNCHANGED <<size_estimate_, list, dead, init_mu, created, users, must>>

\* PushDead: any thread may hand in a sample that is in use.
Unregister(t, s) ==
  /\ op[t] = Idle /\ users[s] # {} /\ \A u \in users[s] : op[u].pc = "using" => op[u].sample # s
  /\ users' = [users EXCEPT ![s] = {}]
  /\ must' = [u \in Threads |-> must[u] \ {s}]
  /\ GotoWith(t, "bury", s)
  /\ UNCHANGED <<size_estimate_, list, dead, init_mu, created>>

BuryLock(t) ==
  /\ op[t].pc = "bury" /\ init_mu[graveyard_] = None
  /\ init_mu' = [init_mu EXCEPT ![graveyard_] = t]
  /\ GotoWith(t, "bury sample", op[t].sample)
  /\ UNCHANGED <<size_estimate_, list, dead, created, users, must>>

PushDead(t) ==
  /\ op[t].pc = "bury sample" /\ init_mu[op[t].sample] = None
  /\ dead' = [dead EXCEPT ![op[t].sample] = dead[graveyard_], ![graveyard_] = op[t].sample]
  /\ init_mu' = [init_mu EXCEPT ![graveyard_] = None]
  /\ Goto(t, "sub")
  /\ UNCHANGED <<size_estimate_, list, created, users, must>>

EndUnregister(t) ==
  /\ op[t].pc = "sub"
  /\ size_estimate_' = size_estimate_ - 1
  /\ Goto(t, "idle")
  /\ UNCHANGED <<list, dead, init_mu, created, users, must>>

-----------------------------------------------------------------------------
(* Iterate.                                                                *)

Iterate(t) ==
  /\ op[t] = Idle
  /\ IF all_ = None THEN UNCHANGED op ELSE GotoWith(t, "at", all_)
  /\ must' = [must EXCEPT ![t] = {s \in Samples : users[s] # {}}]
  /\ UNCHANGED <<size_estimate_, list, dead, init_mu, created, users>>

\* The sample's lock is held while it is visited.
Visit(t) ==
  /\ op[t].pc = "at" /\ init_mu[op[t].sample] = None
  /\ init_mu' = [init_mu EXCEPT ![op[t].sample] = t]
  /\ GotoWith(t, IF dead[op[t].sample] = None THEN "visit" ELSE "pass", op[t].sample)
  /\ UNCHANGED <<size_estimate_, list, dead, created, users, must>>

Advance(t) ==
  /\ op[t].pc \in {"visit", "pass"}
  /\ LET s == op[t].sample IN
     /\ init_mu' = [init_mu EXCEPT ![s] = None]
     /\ IF next[s] = None THEN Goto(t, "visited all") ELSE GotoWith(t, "at", next[s])
     /\ must' = [must EXCEPT ![t] = IF op[t].pc = "visit" THEN @ \ {s} ELSE @]
  /\ UNCHANGED <<size_estimate_, list, dead, created, users>>

EndIterate(t) ==
  /\ op[t].pc = "visited all"
  /\ Goto(t, "idle")
  /\ must' = [must EXCEPT ![t] = {}]
  /\ UNCHANGED <<size_estimate_, list, dead, init_mu, created, users>>

-----------------------------------------------------------------------------
Next ==
  \E t \in Threads :
    \/ Register(t) \/ Drop(t) \/ LockGraveyard(t) \/ PopDead(t) \/ New(t) \/ PushNew(t)
    \/ EndRegister(t)
    \/ (\E s \in Samples : Unregister(t, s)) \/ BuryLock(t) \/ PushDead(t) \/ EndUnregister(t)
    \/ Iterate(t) \/ Visit(t) \/ Advance(t) \/ EndIterate(t)

Spec == Init /\ [][Next]_vars

-----------------------------------------------------------------------------
\* What Iterate is for: when it ends it has visited every sample that was registered before
\* it began and still is. New samples come and others are used again meanwhile.
VisitsWhatStays == \A t \in Threads : op[t].pc = "visited all" => must[t] = {}

\* Where dead leads to from the graveyard: what is in every set with it that dead stays in.
Buried ==
  {s \in Samples :
     \A closed \in SUBSET Nodes :
       graveyard_ \in closed /\ (\A x \in closed : dead[x] \in closed) => s \in closed}

\* A sample is given to one caller, and then is not in the graveyard; there are just those
\* whose dead is not null.
OneUserOrBuried ==
  /\ \A s \in Samples : Cardinality(users[s]) <= 1 /\ (s \in Buried => users[s] = {})
  /\ Buried = {s \in Samples : dead[s] # None}

\* The limit is soft: one more than max_samples_ may be in use, and never more.
SoftLimit == Cardinality({s \in Samples : users[s] # {}}) <= max_samples_ + 1

\* The estimate is exact when nothing goes on: no dropped sample stays counted.
EstimateIsExact ==
  (\A t \in Threads : op[t].pc \in {"idle", "using", "at", "visit", "pass", "visited all"}) =>
    size_estimate_ = Cardinality({s \in Samples : users[s] # {}})
=============================================================================
