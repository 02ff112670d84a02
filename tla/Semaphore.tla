----------------------------- MODULE Semaphore -----------------------------
(***************************************************************************)
(* What PerThreadSem promises (the comments of WaiterBase): a semaphore    *)
(* that one thread waits on, with or without a deadline, and any thread    *)
(* posts.                                                                  *)
(***************************************************************************)
EXTENDS Naturals

VARIABLES n,      \* posts not yet consumed
          wait,   \* "none", "timed" or "untimed"
          ret     \* what the last wait returned

vars == <<n, wait, ret>>

Init == n = 0 /\ wait = "none" /\ ret = TRUE

Enter == wait = "none" /\ wait' \in {"timed", "untimed"} /\ UNCHANGED <<n, ret>>

Acquire == wait # "none" /\ n > 0 /\ n' = n - 1 /\ wait' = "none" /\ ret' = TRUE

Expire == wait = "timed" /\ wait' = "none" /\ ret' = FALSE /\ UNCHANGED n

Post == n' = n + 1 /\ UNCHANGED <<wait, ret>>

\* A wait that a post allows to end ends.
Spec == Init /\ [][Enter \/ Acquire \/ Expire \/ Post]_vars /\ WF_vars(Acquire)
=============================================================================
