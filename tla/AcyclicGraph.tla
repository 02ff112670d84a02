---------------------------- MODULE AcyclicGraph ----------------------------
(***************************************************************************)
(* What GraphCycles promises (graphcycles.h): a directed graph on          *)
(* pointers that never gets a cycle. InsertEdge refuses exactly the edges  *)
(* that would close one.                                                   *)
(***************************************************************************)
CONSTANT Ptrs

VARIABLES live,    \* the pointers that are nodes
          edges,
          res      \* what the last InsertEdge returned

\* A path of at least one edge leads from p to q: no set without q is closed, that is, has
\* the successors of p and those of its members.
Reaches(e, p, q) ==
  \A S \in SUBSET live : (\A a \in e : a[1] \in S \cup {p} => a[2] \in S) => q \in S

Init == live = {} /\ edges = {} /\ res = TRUE

GetId(p) == live' = live \cup {p} /\ UNCHANGED <<edges, res>>

RemoveNode(p) ==
  /\ live' = live \ {p}
  /\ edges' = {e \in edges : p \notin {e[1], e[2]}}
  /\ UNCHANGED res

InsertEdge(p, q) ==
  /\ res' = (p # q /\ ~Reaches(edges, q, p))
  /\ edges' = IF res' THEN edges \cup {<<p, q>>} ELSE edges
  /\ UNCHANGED live

\* An edge between nodes of which one is no longer there.
InsertNothing == res' = TRUE /\ UNCHANGED <<live, edges>>

RemoveEdge(p, q) == edges' = edges \ {<<p, q>>} /\ UNCHANGED <<live, res>>

Next ==
  \/ InsertNothing
  \/ \E p \in Ptrs : GetId(p) \/ RemoveNode(p)
  \/ \E p, q \in live : InsertEdge(p, q) \/ RemoveEdge(p, q)

Spec == Init /\ [][Next]_<<live, edges, res>>
=============================================================================
