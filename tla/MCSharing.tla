----------------------------- MODULE MCSharing -----------------------------
(* Sharing for TLC.                                                         *)
EXTENDS Sharing

CONSTANTS t1, t2, m1, m2, m3, s1, s2, c1, c2, p1, p2

\* Two threads that lock three mutexes, two that forget one, even a held one, and one that
\* shares mutexes with itself and has room for two in its list.
MCLockers == [graph |-> {}, locks |-> {t1, t2}, forget |-> {t1, t2}, shared |-> {t1}]
MCPtrs == [graph |-> {m1, m2, m3}, locks |-> {m1, m2, m3}, forget |-> {m1, m2}, shared |-> {m1, m2}]
MCMaxNodes == [graph |-> 3, locks |-> 3, forget |-> 2, shared |-> 2]
MCMaxVersion == [graph |-> 2, locks |-> 1, forget |-> 2, shared |-> 2]
MCMaxLocks == [graph |-> 1, locks |-> 3, forget |-> 2, shared |-> 2]
MCMaxHolds == [graph |-> 1, locks |-> 1, forget |-> 1, shared |-> 2]
MCModes == [graph |-> {}, locks |-> {FALSE}, forget |-> {FALSE}, shared |-> BOOLEAN]
MCForgotten == [graph |-> {}, locks |-> {}, forget |-> {m1}, shared |-> {m1}]

\* Values on the heap, of which two can be given up; a word, and two who save its state.
MCAddresses == [callback |-> {m1, m2, m3}, savers |-> {m1}]
MCSavers == [callback |-> {s1}, savers |-> {s1, s2}]
MCMaxChanges == [callback |-> 2, savers |-> 3]

\* Two cords and a profiler; one cord and two profilers.
MCCords == [cordz |-> {c1, c2}, profilers |-> {c1}]
MCProfilers == [cordz |-> {p1}, profilers |-> {p1, p2}]

\* No step of the detector depends on what the last InsertEdge returned.
View ==
  <<unit, CASE unit = "graph" -> graph
            [] unit \in Detectors \ {"graph"} -> Detector("locks")!DView
            [] unit = "arena" -> memory
            [] unit = "status" -> statuses
            [] unit \in Flags -> flag
            [] unit = "sequence" -> sequence
            [] unit \in Cordzes -> cordz
            [] unit = "recorder" -> recorder>>
=============================================================================
