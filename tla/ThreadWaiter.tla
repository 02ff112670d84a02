---------------------------- MODULE ThreadWaiter ----------------------------
(***************************************************************************)
(* PerThreadSem (absl/synchronization/internal/per_thread_sem.cc) and the  *)
(* classes that put a thread to sleep: FutexWaiter, SemWaiter and          *)
(* PthreadWaiter (StdcppWaiter has the same steps). One thread waits, some *)
(* post, and one calls PerThreadSem::Tick, which wakes a thread that has   *)
(* waited long so that it can become idle.                                 *)
(*                                                                         *)
(* The pthread mutex of PthreadWaiter is held from one wait on the         *)
(* condition variable to the next, so that is one step.                    *)
(***************************************************************************)
EXTENDS Integers, FiniteSets

CONSTANTS Kind,          \* "futex", "sem" or "pthread"
          Posters,       \* the threads that post
          MaxPosts,      \* bound: the posts in a behaviour
          MaxTokens,     \* bound: the tokens that Tick may leave in the semaphore
          kIdlePeriods   \* ticks before a waiting thread becomes idle

ThreadWaiterAssumption ==
  /\ Kind \in {"futex", "sem", "pthread"}
  /\ MaxPosts \in Nat /\ MaxTokens \in Nat \ {0} /\ kIdlePeriods \in Nat

VARIABLES
  count,    \* futex_, wakeups_ or wakeup_count_
  tokens,   \* the value of SemWaiter::sem_
  pc,       \* of the waiting thread
  timed,    \* its wait has a deadline
  first,    \* first_pass
  ret,      \* what its last wait returned
  age,      \* ticker - wait_start, while it waits; counted up to kIdlePeriods + 1
  is_idle,
  poster,   \* of each poster: "idle", or "poke" between the addition and the Poke
  posts,    \* posts so far, and
  taken,    \* how many of them waits have returned for; history
  tick      \* of the ticking thread: "idle", or "poke" when it is about to Poke

sem == <<count, tokens, posts, taken>>
waiter == <<pc, timed, first, ret>>
idle == <<age, is_idle>>
vars == <<count, tokens, pc, timed, first, ret, age, is_idle, poster, posts, taken, tick>>

Init ==
  /\ count = 0 /\ tokens = 0 /\ posts = 0 /\ taken = 0
  /\ pc = "out" /\ timed = FALSE /\ first = TRUE /\ ret = TRUE
  /\ age = 0 /\ is_idle = FALSE
  /\ poster = [p \in Posters |-> "idle"] /\ tick = "idle"

-----------------------------------------------------------------------------
(* The thread that waits.                                                  *)

\* AbslInternalPerThreadSemWait: the wait starts now. (wait_start is 1 where the
\* ticker is 0, which makes the thread one tick younger.)
Wait ==
  /\ pc = "out"
  /\ pc' = "check" /\ timed' \in BOOLEAN /\ first' = TRUE
  /\ age' \in {-1, 0} /\ is_idle' = FALSE
  /\ UNCHANGED <<sem, ret, poster, tick>>

\* The wait is over; wait_start is 0 again.
Return(r) ==
  pc' = "out" /\ ret' = r /\ is_idle' = FALSE /\ age' = 0 /\ UNCHANGED <<timed, first>>

\* Wait: consume a post (FutexWaiter, SemWaiter: load and exchange).
Consume ==
  /\ pc = "check" /\ count > 0
  /\ count' = count - 1
  /\ taken' = taken + 1
  /\ Return(TRUE)
  /\ UNCHANGED <<tokens, posts, poster, tick>>

\* MaybeBecomeIdle, in a pass that is not the first.
MaybeBecomeIdle == is_idle' = (is_idle \/ (~first /\ age > kIdlePeriods))

\* Wait: nothing to consume. PthreadWaiter sleeps at once, as it has the mutex.
Nothing ==
  /\ pc = "check" /\ count = 0
  /\ MaybeBecomeIdle
  /\ pc' = IF Kind = "pthread" THEN "asleep" ELSE "wait"
  /\ first' = FALSE
  /\ UNCHANGED <<sem, timed, ret, age, poster, tick>>

\* FutexWaiter::WaitUntil: the kernel puts the thread to sleep if the word is
\* still 0 (EWOULDBLOCK).
FutexWait ==
  /\ Kind = "futex" /\ pc = "wait"
  /\ pc' = IF count = 0 THEN "asleep" ELSE "check"
  /\ UNCHANGED <<sem, timed, first, ret, idle, poster, tick>>

\* SemWaiter: sem_wait takes a token, and else blocks.
SemWait ==
  /\ Kind = "sem" /\ pc = "wait" /\ tokens > 0
  /\ tokens' = tokens - 1
  /\ pc' = "check"
  /\ UNCHANGED <<count, posts, taken, timed, first, ret, idle, poster, tick>>

\* The deadline passes; a post may have come at the same time.
Timeout ==
  /\ timed
  /\ pc = IF Kind = "sem" THEN "wait" ELSE "asleep"
  /\ Return(FALSE)
  /\ UNCHANGED <<sem, poster, tick>>

\* EINTR; a spurious wake-up from the condition variable.
Interrupted ==
  /\ pc = "asleep"
  /\ pc' = "check"
  /\ UNCHANGED <<sem, timed, first, ret, idle, poster, tick>>

-----------------------------------------------------------------------------
(* The others.                                                             *)

\* Poke: wake the thread if it sleeps; SemWaiter posts a token in any case.
Poke ==
  /\ pc' = IF pc = "asleep" THEN "check" ELSE pc
  /\ tokens' = IF Kind = "sem" THEN tokens + 1 ELSE tokens
  /\ UNCHANGED <<timed, first, ret>>

\* Post: who raises the count from 0 has to poke.
Pokes(was) == was = 0

\* Mutant: a post that is already there is overwritten.
Raised_Saturates(was) == 1

\* The addition of a post.
Raised(was) == was + 1

\* FutexWaiter::Post, SemWaiter::Post: the addition.
Post(p) ==
  /\ Kind # "pthread" /\ poster[p] = "idle" /\ posts < MaxPosts
  /\ posts' = posts + 1
  /\ count' = Raised(count)
  /\ poster' = [poster EXCEPT ![p] = IF Pokes(count) THEN "poke" ELSE "idle"]
  /\ UNCHANGED <<tokens, taken, waiter, idle, tick>>

\* ... and the Poke.
PostPoke(p) ==
  /\ poster[p] = "poke"
  /\ Poke
  /\ poster' = [poster EXCEPT ![p] = "idle"]
  /\ UNCHANGED <<count, posts, taken, idle, tick>>

\* PthreadWaiter::Post does both under the mutex.
PthreadPost(p) ==
  /\ Kind = "pthread" /\ posts < MaxPosts
  /\ posts' = posts + 1
  /\ count' = Raised(count)
  /\ Poke
  /\ UNCHANGED <<taken, idle, poster, tick>>

\* Tick: the thread has waited for too long.
TooLong(a) == a > kIdlePeriods

\* PerThreadSem::Tick: count, see whether the thread waits and for how long ...
Tick ==
  /\ tick = "idle"
  /\ LET a == IF age > kIdlePeriods THEN age ELSE age + 1
     IN  IF pc = "out" THEN UNCHANGED <<age, tick>>
         ELSE /\ age' = a
              /\ tick' = IF TooLong(a) /\ ~is_idle THEN "poke" ELSE "idle"
  /\ UNCHANGED <<sem, waiter, is_idle, poster>>

\* ... and poke it.
TickPoke ==
  /\ tick = "poke" /\ tokens < MaxTokens
  /\ Poke
  /\ tick' = "idle"
  /\ UNCHANGED <<count, posts, taken, idle, poster>>

-----------------------------------------------------------------------------
WaiterStep == Consume \/ Nothing \/ FutexWait \/ SemWait

Next ==
  \/ Wait \/ WaiterStep \/ Timeout \/ Interrupted \/ Tick \/ TickPoke
  \/ \E p \in Posters : Post(p) \/ PostPoke(p) \/ PthreadPost(p)

\* A wait that can go on does, who has to poke does, and Tick is called again and
\* again; deadlines, posts and new waits need not happen.
Spec ==
  /\ Init /\ [][Next]_vars
  /\ WF_vars(WaiterStep) /\ WF_vars(Tick) /\ WF_vars(TickPoke)
  /\ \A p \in Posters : WF_vars(PostPoke(p))

-----------------------------------------------------------------------------
\* A thread sleeps with a post to consume only while the wake-up is on its way: a
\* token, or a poster that is about to poke.
NoLostWakeUp ==
  (pc = "asleep" \/ (Kind = "sem" /\ pc = "wait")) /\ count > 0 =>
    tokens > 0 \/ \E p \in Posters : poster[p] = "poke"

=============================================================================
