------------------------------ MODULE HashSet ------------------------------
(***************************************************************************)
(* What a table of absl/container promises: it is a set of keys.           *)
(***************************************************************************)
CONSTANT Keys
VARIABLE keys

Init == keys = {}
Insert(k) == keys' = keys \cup {k}
Erase(k) == keys' = keys \ {k}
Clear == keys' = {}

Next == Clear \/ \E k \in Keys : Insert(k) \/ Erase(k)
Spec == Init /\ [][Next]_keys
=============================================================================
