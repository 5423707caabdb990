----------------------------- MODULE MemoryStore -----------------------------
(***************************************************************************)
(* MemoryCorrelationStore of src/core/correlation.py: an OrderedDict from  *)
(* payload ids to (deadline, record) rows behind a lock, called from the   *)
(* event loop and from the threads of the inference pool.                  *)
(*                                                                         *)
(* Expired rows are removed from the front only, until the first that is   *)
(* still alive; that this finds them all rests on the order of the dict.   *)
(* The clock may advance between any two steps of a call.                  *)
(***************************************************************************)
EXTENDS Integers, Sequences, SequencesExt

CONSTANTS
    Ids,        \* payload ids
    Texts,      \* originals and masks
    Inputs,     \* the records callers write
    Callers,    \* threads that call the store
    Ttl,        \* ttl_s
    None,       \* Python's None, and a field a record lacks
    MaxClock    \* bound of the model: the last value of the clock

Records == [original : Texts \cup {None}, masked : Texts]
Deadlines == 0..(MaxClock + Ttl)
Rows == [id : Ids, deadline : Deadlines, data : Records]
Calls ==
    [name : {"get", "get_result"}, id : Ids, input : {None}]
    \cup [name : {"set", "put_if_absent"}, id : Ids, input : Inputs]
    \cup [name : {"set_result"}, id : Ids, input : Texts]

ASSUME StoreAssumption ==
    /\ Inputs \subseteq [original : Texts, masked : Texts]
    /\ Ttl \in Nat \ {0}
    /\ MaxClock \in Nat
    /\ None \notin Callers
    /\ None \notin Calls
    /\ None \notin Records
    /\ None \notin [data : Records, deadline : Deadlines]

VARIABLES
    clock,      \* monotonic()
    data,       \* _data, oldest row first
    lock,       \* who holds _lock, or None
    pc,         \* where each caller is: idle, purge (in _purge_expired), write
    op,         \* the call it is in, or None
    now,        \* "now" of its _purge_expired, 0 outside a call
    found,      \* "existing" of its set_result
    reply       \* what its last call returned, until it makes another

vars == <<clock, data, lock, pc, op, now, found, reply>>

-----------------------------------------------------------------------------
(* The ordered dict.                                                       *)

\* The place of id i in rows d; no id has two.
Places(d, i) == {p \in DOMAIN d : d[p].id = i}

\* _data.get(i), as a record or None.
Lookup(d, i) ==
    IF Places(d, i) = {} THEN None ELSE d[CHOOSE p \in Places(d, i) : TRUE].data

\* _write: a row that is already there keeps its place in an OrderedDict until
\* move_to_end.
WrittenInPlace(d, row) ==
    IF Places(d, row.id) = {}
    THEN Append(d, row)
    ELSE [d EXCEPT ![CHOOSE p \in Places(d, row.id) : TRUE] = row]
Written(d, row) ==
    IF Places(d, row.id) = {}
    THEN Append(d, row)
    ELSE Append(RemoveAt(d, CHOOSE p \in Places(d, row.id) : TRUE), row)

\* deadline > now ends the loop of _purge_expired.
IsExpiredLate(row, time) == row.deadline < time
IsExpired(row, time) == row.deadline <= time

\* row.get("masked") if row else None
Mask(record) == IF record = None THEN None ELSE record.masked

Init ==
    /\ clock = 0
    /\ data = <<>>
    /\ lock = None
    /\ pc = [c \in Callers |-> "idle"]
    /\ op = [c \in Callers |-> None]
    /\ now = [c \in Callers |-> 0]
    /\ found = [c \in Callers |-> None]
    /\ reply = [c \in Callers |-> None]

-----------------------------------------------------------------------------
Tick ==
    /\ clock < MaxClock
    /\ clock' = clock + 1
    /\ UNCHANGED <<data, lock, pc, op, now, found, reply>>

\* "with self._lock": one caller at a time is inside.
LockIgnored == TRUE
LockIsFree == lock = None

\* A call takes the lock and reads the clock for _purge_expired.
Begin(c, call) ==
    /\ pc[c] = "idle"
    /\ LockIsFree
    /\ lock' = c
    /\ pc' = [pc EXCEPT ![c] = "purge"]
    /\ op' = [op EXCEPT ![c] = call]
    /\ now' = [now EXCEPT ![c] = clock]
    /\ reply' = [reply EXCEPT ![c] = None]
    /\ UNCHANGED <<clock, data, found>>

\* One turn of the loop of _purge_expired: popitem(last=False).
PurgeOne(c) ==
    /\ pc[c] = "purge"
    /\ data # <<>>
    /\ IsExpired(Head(data), now[c])
    /\ data' = Tail(data)
    /\ UNCHANGED <<clock, lock, pc, op, now, found, reply>>

\* The loop is over and the call is the one named.
Purged(c, name) ==
    /\ pc[c] = "purge"
    /\ data # <<>> => ~IsExpired(Head(data), now[c])
    /\ op[c].name = name

Return(c, value) ==
    /\ lock' = None
    /\ pc' = [pc EXCEPT ![c] = "idle"]
    /\ op' = [op EXCEPT ![c] = None]
    /\ now' = [now EXCEPT ![c] = 0]
    /\ found' = [found EXCEPT ![c] = None]
    /\ reply' = [reply EXCEPT ![c] = value]

Get(c) ==
    /\ Purged(c, "get")
    /\ Return(c, Lookup(data, op[c].id))
    /\ UNCHANGED <<clock, data>>

\* get_result is get with the mask picked out of the record.
GetResult(c) ==
    /\ Purged(c, "get_result")
    /\ Return(c, Mask(Lookup(data, op[c].id)))
    /\ UNCHANGED <<clock, data>>

\* put_if_absent finds a record and returns it.
PutFinds(c) ==
    /\ Purged(c, "put_if_absent")
    /\ Places(data, op[c].id) # {}
    /\ Return(c, Lookup(data, op[c].id))
    /\ UNCHANGED <<clock, data>>

\* put_if_absent finds none, or the call is a set, and goes on to _write.
GoesOnToWrite(c) ==
    /\ pc' = [pc EXCEPT ![c] = "write"]
    /\ UNCHANGED <<clock, data, lock, op, now, reply>>

PutMisses(c) ==
    /\ Purged(c, "put_if_absent")
    /\ Places(data, op[c].id) = {}
    /\ GoesOnToWrite(c)
    /\ UNCHANGED found

SetWrites(c) ==
    /\ Purged(c, "set")
    /\ GoesOnToWrite(c)
    /\ UNCHANGED found

SetResultReads(c) ==
    /\ Purged(c, "set_result")
    /\ found' = [found EXCEPT ![c] = Lookup(data, op[c].id)]
    /\ GoesOnToWrite(c)

\* row = dict(existing) if existing else {}, with the new mask.
Remasked(record, masked) ==
    [original |-> IF record = None THEN None ELSE record.original,
     masked |-> masked]

\* The record _write is given.
Input(c) == IF op[c].name = "set_result"
            THEN Remasked(found[c], op[c].input)
            ELSE op[c].input

\* _write with a second reading of the clock; put_if_absent returns the row.
Write(c) ==
    /\ pc[c] = "write"
    /\ data' = Written(data, [id |-> op[c].id, deadline |-> clock + Ttl,
                              data |-> Input(c)])
    /\ Return(c, IF op[c].name = "put_if_absent" THEN op[c].input ELSE None)
    /\ UNCHANGED clock

CallStep(c) ==
    \/ \E call \in Calls : Begin(c, call)
    \/ PurgeOne(c) \/ Get(c) \/ GetResult(c) \/ PutFinds(c) \/ PutMisses(c)
    \/ SetWrites(c) \/ SetResultReads(c) \/ Write(c)

Next == Tick \/ \E c \in Callers : CallStep(c)

Spec == Init /\ [][Next]_vars

-----------------------------------------------------------------------------
(* Properties.                                                             *)

\* Every variable keeps its type.
TypeOK ==
    /\ clock \in 0..MaxClock
    /\ data \in Seq(Rows)
    /\ lock \in Callers \cup {None}
    /\ pc \in [Callers -> {"idle", "purge", "write"}]
    /\ op \in [Callers -> Calls \cup {None}]
    /\ now \in [Callers -> 0..MaxClock]
    /\ found \in [Callers -> Records \cup {None}]
    /\ reply \in [Callers -> Records \cup Texts \cup {None}]

\* The dict is ordered by deadline, whatever mix of calls wrote it: the earliest
\* deadline is at the front, where _purge_expired looks for it.
DeadlinesSorted ==
    \A p, q \in DOMAIN data : p < q => data[p].deadline <= data[q].deadline

\* A call that has purged sees no row that had expired when it began, and so
\* neither returns such a record nor keeps the original of one.
PurgeIsComplete ==
    \A c \in Callers :
        \/ pc[c] = "write"
        \/ pc[c] = "purge" /\ (data = <<>> \/ data[1].deadline > now[c])
        => \A p \in DOMAIN data : data[p].deadline > now[c]

\* The store keeps the promise of TtlStore, the ordered dict read as a map.
AsMap(d) ==
    [i \in Ids |->
        IF Places(d, i) = {} THEN None
        ELSE LET p == CHOOSE p \in Places(d, i) : TRUE
             IN  [data |-> d[p].data, deadline |-> d[p].deadline]]

Contract == INSTANCE TtlStore WITH table <- AsMap(data), since <- now

KeepsContract == Contract!Spec

=============================================================================
