------------------------------ MODULE FlagImpl ------------------------------
(***************************************************************************)
(* A flag (absl/flags/internal/flag.cc and .h) after its initialization.   *)
(* Its mutex is held all through an operation except while the mutation    *)
(* callback runs, so what is done under it up to there, and from there on, *)
(* is one step. A value on the heap may be read without the mutex: its     *)
(* pointer then carries two marks, that it is a candidate for this and     *)
(* that it has been read. SequenceLock is the storage of values of many    *)
(* words; here they are read and written at once.                          *)
(***************************************************************************)
EXTENDS Integers, FiniteSets

CONSTANTS Threads, Values, Default,
          OnHeap,        \* whether values are kept on the heap
          HasCallback,   \* whether SetCallback is used
          Addresses,     \* bound: of values on the heap
          Savers,        \* saved states
          None,
          MaxChanges     \* bound: modifications

FlagImplAssumption ==
  /\ Default \in Values /\ None \notin Values \cup Threads /\ MaxChanges \in Nat /\ Addresses # {}
  /\ OnHeap \in BOOLEAN /\ HasCallback \in BOOLEAN

VARIABLES ptr,               \* the storage: an address and its marks
          mem,               \* what is at each address
          freelist,          \* the addresses that were given up
          default_value, modified_, on_command_line_,
          count,             \* ModificationCount
          callback_,         \* whether there is one
          guard,             \* who runs it
          saved,             \* of each saver: a state or None
          op,                \* of each thread: where it is
          isSet,             \* history: the value is not the default
          observed           \* history: what the callback read last

data == <<default_value, modified_, on_command_line_, callback_, isSet>>
vars == <<ptr, mem, freelist, data, count, guard, saved, op, observed>>

Idle == [pc |-> "idle"]

Init ==
  /\ LET a == CHOOSE b \in Addresses : TRUE IN
       /\ ptr = [addr |-> a, candidate |-> OnHeap, read |-> FALSE]
       /\ mem = [b \in Addresses |-> IF b = a THEN Default ELSE None]
  /\ freelist = {}
  /\ default_value = Default /\ modified_ = FALSE /\ on_command_line_ = FALSE
  /\ count = 0 /\ callback_ = FALSE /\ guard = None
  /\ saved = [s \in Savers |-> None]
  /\ op = [t \in Threads |-> Idle]
  /\ isSet = FALSE /\ observed = None

Value == mem[ptr.addr]

-----------------------------------------------------------------------------
(* Reads.                                                                  *)

MarkedAsRead == [ptr EXCEPT !.read = ptr.candidate \/ @]

\* FlagValue::Get, where it may be done without the mutex: the pointer is loaded (was is
\* history: the value that is there then),
AllowsUnprotectedRead == ptr.candidate /\ ptr.read
GetUnprotected(t) ==
  /\ op[t] = Idle /\ AllowsUnprotectedRead
  /\ op' = [op EXCEPT ![t] = [pc |-> "copying", addr |-> ptr.addr, was |-> Value]]
  /\ UNCHANGED <<ptr, mem, freelist, data, count, guard, saved, observed>>

\* and the value is copied from there.
EndGet(t) ==
  /\ op[t].pc = "copying"
  /\ op' = [op EXCEPT ![t] = Idle]
  /\ UNCHANGED <<ptr, mem, freelist, data, count, guard, saved, observed>>

\* FlagImpl::Read, with the mutex.
Read(t) ==
  /\ op[t] = Idle /\ ~AllowsUnprotectedRead
  /\ ptr' = MarkedAsRead
  /\ UNCHANGED <<mem, freelist, data, count, guard, saved, op, observed>>

-----------------------------------------------------------------------------
(* StoreValue, InvokeCallback and what their callers do after them.        *)

\* Mutant: memory is reused whoever may have read it.
Stored_InPlace(v, source) ==
  /\ ptr' = [ptr EXCEPT !.candidate = @ \/ (OnHeap /\ source = "command line")]
  /\ mem' = [mem EXCEPT ![ptr.addr] = v]
  /\ UNCHANGED freelist

\* The storage of a new value. An address that is free makes no difference to another.
Stored(v, source) ==
  LET candidate == OnHeap /\ source = "command line" IN
  IF AllowsUnprotectedRead
    THEN LET a == CHOOSE b \in Addresses : mem[b] = None IN
           /\ \E b \in Addresses : mem[b] = None
           /\ ptr' = [addr |-> a, candidate |-> candidate, read |-> FALSE]
           /\ mem' = [mem EXCEPT ![a] = v]
           /\ freelist' = freelist \cup {ptr.addr}
    ELSE /\ ptr' = [ptr EXCEPT !.candidate = @ \/ candidate]
         /\ mem' = [mem EXCEPT ![ptr.addr] = v]
         /\ UNCHANGED freelist

\* What the caller does to modified_ and on_command_line_: {} is nothing.
After(modified, on_command_line) == [modified |-> modified, on_command_line |-> on_command_line]
Updated(new, old) == IF new = {} THEN old ELSE TRUE \in new

\* The mutex is released while a callback waits for its guard and runs.
InvokeCallback(t, modified, after) ==
  IF callback_
    THEN /\ op' = [op EXCEPT ![t] = [pc |-> "callback", after |-> after]]
         /\ modified_' = modified
         /\ UNCHANGED on_command_line_
    ELSE /\ modified_' = Updated(after.modified, modified)
         /\ on_command_line_' = Updated(after.on_command_line, on_command_line_)
         /\ UNCHANGED op

StoreValue(t, v, source, after) ==
  /\ count < MaxChanges
  /\ Stored(v, source)
  /\ count' = count + 1
  /\ InvokeCallback(t, TRUE, after)

EnterCallback(t) ==
  /\ op[t].pc = "callback" /\ guard = None
  /\ guard' = t
  /\ UNCHANGED <<ptr, mem, freelist, data, count, saved, op, observed>>

\* The callback reads the flag. Its guard is released.
Callback(t) ==
  /\ guard = t
  /\ observed' = Value /\ ptr' = MarkedAsRead
  /\ guard' = None
  /\ op' = [op EXCEPT ![t].pc = "relock"]
  /\ UNCHANGED <<mem, freelist, data, count, saved>>

\* The mutex is held again and the caller goes on.
Relock(t) ==
  /\ op[t].pc = "relock"
  /\ modified_' = Updated(op[t].after.modified, modified_)
  /\ on_command_line_' = Updated(op[t].after.on_command_line, on_command_line_)
  /\ op' = [op EXCEPT ![t] = Idle]
  /\ UNCHANGED <<ptr, mem, freelist, default_value, count, callback_, guard, saved, isSet, observed>>

-----------------------------------------------------------------------------
(* Operations.                                                             *)

\* SetFlag.
Write(t, v) ==
  /\ op[t] = Idle
  /\ StoreValue(t, v, "program", After({}, {}))
  /\ isSet' = TRUE
  /\ UNCHANGED <<default_value, callback_, guard, saved, observed>>

\* ParseFrom with SET_FLAGS_VALUE. (A value that cannot be parsed changes nothing.)
ParseValue(t, v, source) ==
  /\ op[t] = Idle
  /\ StoreValue(t, v, source, After({}, IF source = "command line" THEN {TRUE} ELSE {}))
  /\ isSet' = TRUE
  /\ UNCHANGED <<default_value, callback_, guard, saved, observed>>

\* ParseFrom with SET_FLAG_IF_DEFAULT.
ParseIfDefault(t, v, source) ==
  /\ op[t] = Idle /\ ~modified_
  /\ StoreValue(t, v, source, After({}, {}))
  /\ isSet' = TRUE
  /\ UNCHANGED <<default_value, callback_, guard, saved, observed>>

\* ParseFrom with SET_FLAGS_DEFAULT.
ParseDefault(t, v, source) ==
  /\ op[t] = Idle
  /\ default_value' = v
  /\ IF modified_ THEN UNCHANGED <<ptr, mem, freelist, count, modified_, on_command_line_, op>>
     ELSE StoreValue(t, v, source, After({FALSE}, {}))
  /\ UNCHANGED <<callback_, guard, saved, isSet, observed>>

SetCallback(t) ==
  /\ op[t] = Idle /\ HasCallback /\ ~callback_
  /\ callback_' = TRUE
  /\ op' = [op EXCEPT ![t] = [pc |-> "callback", after |-> After({}, {})]]
  /\ UNCHANGED <<ptr, mem, freelist, default_value, modified_, on_command_line_, count, guard,
                 saved, isSet, observed>>

\* FlagImpl::SaveState, again once the state was restored.
SaveState(t, s) ==
  /\ op[t] = Idle /\ (saved[s] # None => saved[s].restored)
  /\ saved' = [saved EXCEPT ![s] =
                 [value |-> Value, modified |-> modified_, isSet |-> isSet,
                  on_command_line |-> on_command_line_, count |-> count, restored |-> FALSE]]
  /\ UNCHANGED <<ptr, mem, freelist, data, count, guard, op, observed>>

\* FlagState::Restore. A state is restored once; what is kept of it is history.
RestoreState(t, s) ==
  /\ op[t] = Idle /\ saved[s] # None /\ ~saved[s].restored
  /\ IF saved[s].count = count
       THEN UNCHANGED <<ptr, mem, freelist, data, count, op>>
       ELSE /\ StoreValue(t, saved[s].value, "program",
                          After({saved[s].modified}, {saved[s].on_command_line}))
            /\ isSet' = saved[s].isSet
            /\ UNCHANGED <<default_value, callback_>>
  /\ saved' = [saved EXCEPT ![s].count = count', ![s].restored = TRUE]
  /\ UNCHANGED <<guard, observed>>

Next ==
  \E t \in Threads :
    \/ GetUnprotected(t) \/ EndGet(t) \/ Read(t)
    \/ EnterCallback(t) \/ Callback(t) \/ Relock(t)
    \/ SetCallback(t)
    \/ \E v \in Values : Write(t, v)
    \/ \E v \in Values, source \in {"program", "command line"} :
         ParseValue(t, v, source) \/ ParseIfDefault(t, v, source) \/ ParseDefault(t, v, source)
    \/ \E s \in Savers : SaveState(t, s) \/ RestoreState(t, s)

Spec == Init /\ [][Next]_vars

-----------------------------------------------------------------------------
\* While a value is copied without the mutex it stays as it is, whatever others set.
UnprotectedReadsAreStable ==
  \A t \in Threads : op[t].pc = "copying" => mem[op[t].addr] = op[t].was

\* When no thread is in an operation, the callback has read the value that the flag has:
\* no change goes without a callback after it.
CallbackSeesTheLastValue ==
  callback_ /\ (\A t \in Threads : op[t].pc \in {"idle", "copying"}) => observed = Value

\* "Has this flag's value been modified?"
ModifiedIsTrue ==
  (\A t \in Threads : op[t].pc \in {"idle", "copying"}) => modified_ = isSet

\* A flag that was not changed since its state was saved, or was restored, is in that state.
SavedIsThere ==
  \A s \in Savers : saved[s] # None /\ saved[s].count = count =>
    Value = saved[s].value /\ modified_ = saved[s].modified
    /\ on_command_line_ = saved[s].on_command_line
=============================================================================
