------------------------------ MODULE TtlStore ------------------------------
(***************************************************************************)
(* What a correlation store promises its callers, whatever the backend:    *)
(* the protocol CorrelationStore of src/core/correlation.py with the time  *)
(* to live both backends give a record.  Every call takes effect at one    *)
(* instant.  A call sees no record whose time was up when the call began,  *)
(* no record disappears before its time is up, and put_if_absent returns   *)
(* the record that is there afterwards, its own only if there was none.    *)
(***************************************************************************)
EXTENDS Integers

CONSTANTS
    Ids,        \* payload ids
    Texts,      \* originals and masks
    Inputs,     \* the records callers write
    Callers,    \* threads that call the store
    Ttl,        \* ttl_s
    None        \* Python's None, and a field a record lacks

VARIABLES
    clock,      \* monotonic()
    table,      \* the row of each id, or None
    op,         \* the call each caller is in, or None
    since,      \* when that call began, 0 outside a call
    reply       \* what its last call returned, until it makes another

vars == <<clock, table, op, since, reply>>

Records == [original : Texts \cup {None}, masked : Texts]
Mask(record) == IF record = None THEN None ELSE record.masked

\* What set_result writes: the record found, if any, with another mask.
Remasked(record, masked) ==
    [original |-> IF record = None THEN None ELSE record.original,
     masked |-> masked]

Calls ==
    [name : {"get", "get_result"}, id : Ids, input : {None}]
    \cup [name : {"set", "put_if_absent"}, id : Ids, input : Inputs]
    \cup [name : {"set_result"}, id : Ids, input : Texts]

Init ==
    /\ clock = 0
    /\ table = [i \in Ids |-> None]
    /\ op = [c \in Callers |-> None]
    /\ since = [c \in Callers |-> 0]
    /\ reply = [c \in Callers |-> None]

Tick ==
    /\ clock' > clock
    /\ UNCHANGED <<table, op, since, reply>>

Begin(c, call) ==
    /\ call \in Calls
    /\ op[c] = None
    /\ op' = [op EXCEPT ![c] = call]
    /\ since' = [since EXCEPT ![c] = clock]
    /\ reply' = [reply EXCEPT ![c] = None]
    /\ UNCHANGED <<clock, table>>

\* A row may be dropped once its time is up.
Expire(i) ==
    /\ table[i] # None
    /\ table[i].deadline <= clock
    /\ table' = [table EXCEPT ![i] = None]
    /\ UNCHANGED <<clock, op, since, reply>>

\* The record a call of c finds under i: an expired row has to be gone.
Finds(c, i, record) ==
    \/ table[i] = None /\ record = None
    \/ /\ table[i] # None
       /\ table[i].deadline > since[c]
       /\ record = table[i].data

Return(c, value) ==
    /\ op' = [op EXCEPT ![c] = None]
    /\ since' = [since EXCEPT ![c] = 0]
    /\ reply' = [reply EXCEPT ![c] = value]
    /\ UNCHANGED clock

Put(i, record) ==
    table' = [table EXCEPT ![i] = [data |-> record, deadline |-> clock + Ttl]]

Calling(c, name) == op[c] # None /\ op[c].name = name

Get(c) ==
    /\ Calling(c, "get")
    /\ \E record \in Records \cup {None} :
          Finds(c, op[c].id, record) /\ Return(c, record)
    /\ UNCHANGED table

GetResult(c) ==
    /\ Calling(c, "get_result")
    /\ \E record \in Records \cup {None} :
          Finds(c, op[c].id, record) /\ Return(c, Mask(record))
    /\ UNCHANGED table

PutIfAbsent(c) ==
    /\ Calling(c, "put_if_absent")
    /\ \/ /\ Finds(c, op[c].id, None)
          /\ Put(op[c].id, op[c].input)
          /\ Return(c, op[c].input)
       \/ /\ \E record \in Records :
                Finds(c, op[c].id, record) /\ Return(c, record)
          /\ UNCHANGED table

Set(c) ==
    /\ Calling(c, "set")
    /\ Put(op[c].id, op[c].input)
    /\ Return(c, None)

SetResult(c) ==
    /\ Calling(c, "set_result")
    /\ \E record \in Records \cup {None} :
          /\ Finds(c, op[c].id, record)
          /\ Put(op[c].id, Remasked(record, op[c].input))
    /\ Return(c, None)

Next ==
    \/ Tick
    \/ \E i \in Ids : Expire(i)
    \/ \E c \in Callers :
          \/ \E call \in Calls : Begin(c, call)
          \/ Get(c) \/ GetResult(c) \/ PutIfAbsent(c) \/ Set(c) \/ SetResult(c)

Spec == Init /\ [][Next]_vars

=============================================================================
