---------------------------- MODULE StatusValue ----------------------------
(***************************************************************************)
(* What absl::Status promises: objects that have values of their own. What *)
(* is done to one object changes no other one.                             *)
(***************************************************************************)
CONSTANTS Objects, Codes, Messages, NoMessage, Payloads, NoPayload, None

StatusValueAssumption ==
  NoMessage \in Messages /\ NoPayload \notin Payloads /\ {"ok", "internal"} \subseteq Codes

VARIABLE val    \* of each object: its value, or None where no object is alive

Value(code, message, payload, moved) ==
  [code |-> code, message |-> message, payload |-> payload, moved |-> moved]
Plain(code) == Value(code, NoMessage, NoPayload, FALSE)
Moved == [Plain("internal") EXCEPT !.moved = TRUE]

\* Status(code, message): a message of OK is dropped.
Made(code, message) ==
  IF code = "ok" THEN Plain(code) ELSE [Plain(code) EXCEPT !.message = message]

\* SetPayload and ErasePayload.
WithPayload(v, p) == IF v.code = "ok" THEN v ELSE [v EXCEPT !.payload = p, !.moved = FALSE]
WithoutPayload(v) == [v EXCEPT !.payload = NoPayload]

Init == val = [o \in Objects |-> None]

Construct(o, c, m) == val[o] = None /\ val' = [val EXCEPT ![o] = Made(c, m)]
Destroy(o) == val[o] # None /\ val' = [val EXCEPT ![o] = None]
Copy(o, from) == val[from] # None /\ val' = [val EXCEPT ![o] = val[from]]
Move(o, from) ==
  val[from] # None /\ val' = [val EXCEPT ![from] = Moved, ![o] = val[from]]
SetPayload(o, p) == val[o] # None /\ val' = [val EXCEPT ![o] = WithPayload(@, p)]
ErasePayload(o) == val[o] # None /\ val' = [val EXCEPT ![o] = WithoutPayload(@)]

Next ==
  \E o \in Objects :
    \/ \E c \in Codes, m \in Messages : Construct(o, c, m)
    \/ \E from \in Objects : Copy(o, from) \/ Move(o, from)
    \/ \E p \in Payloads : SetPayload(o, p)
    \/ ErasePayload(o) \/ Destroy(o)

Spec == Init /\ [][Next]_val
=============================================================================
