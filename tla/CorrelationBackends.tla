-------------------------- MODULE CorrelationBackends --------------------------
(***************************************************************************)
(* The two backends of src/core/correlation.py side by side: one client    *)
(* makes the same calls to a MemoryCorrelationStore and to a               *)
(* RedisCorrelationStore and compares the replies.  Redis keeps a record   *)
(* under corr:<id> and a result under result:<id>, as two keys of their    *)
(* own; the memory store keeps the result inside the record.               *)
(***************************************************************************)
EXTENDS Integers

CONSTANTS
    Ids,        \* payload ids
    Texts,      \* originals and masks
    Inputs,     \* the records the client writes
    Ttl,        \* ttl_s
    None,       \* Python's None, Redis's nil, and a field a record lacks
    MaxClock    \* bound of the model: the last value of the clock

Records == [original : Texts \cup {None}, masked : Texts]

ASSUME BackendsAssumption ==
    /\ Inputs \subseteq [original : Texts, masked : Texts]
    /\ Ttl \in Nat \ {0}
    /\ MaxClock \in Nat

VARIABLES
    clock,      \* the time, the same for both
    memory,     \* _data of the memory store: entry of each id, or None
    corr,       \* the keys corr:<id> of Redis
    results,    \* the keys result:<id> of Redis
    fromMemory, \* what the last call returned from the memory store
    fromRedis,  \* and from Redis
    apart,      \* history: ids with a set_result since their last set
    plain       \* history: the last call was one of get, set and put_if_absent, and
                \* its id not apart

stores == <<memory, corr, results>>
backendsVars == <<clock, stores, fromMemory, fromRedis, apart, plain>>

\* What is under key i of table t: nothing once its deadline has come.
Value(t, i) ==
    IF t[i] # None /\ t[i].deadline > clock THEN t[i].data ELSE None

\* A write with the time to live.
Entry(data) == [data |-> data, deadline |-> clock + Ttl]
Written(t, i, data) == [t EXCEPT ![i] = Entry(data)]

BackendsInit ==
    /\ clock = 0
    /\ memory = [i \in Ids |-> None]
    /\ corr = [i \in Ids |-> None]
    /\ results = [i \in Ids |-> None]
    /\ fromMemory = None
    /\ fromRedis = None
    /\ apart = {}
    /\ plain = FALSE

Tick ==
    /\ clock < MaxClock
    /\ clock' = clock + 1
    /\ UNCHANGED <<stores, fromMemory, fromRedis, apart, plain>>

Get(i) ==
    /\ fromMemory' = Value(memory, i)
    /\ fromRedis' = Value(corr, i)
    /\ plain' = (i \notin apart)
    /\ UNCHANGED <<stores, apart>>

\* Redis: SET with EX.
RedisSet(i, data) == Written(corr, i, data)

Set(i, data) ==
    /\ memory' = Written(memory, i, data)
    /\ corr' = RedisSet(i, data)
    /\ fromMemory' = None
    /\ fromRedis' = None
    /\ apart' = apart \ {i}
    /\ plain' = TRUE
    /\ UNCHANGED results

\* The Lua script returns what it found, else its argument.
RedisPutNx(i, data) == Value(corr, i)
RedisPutReply(i, data) == IF Value(corr, i) = None THEN data ELSE Value(corr, i)

PutIfAbsent(i, data) ==
    /\ IF Value(memory, i) = None
       THEN memory' = Written(memory, i, data) /\ fromMemory' = data
       ELSE memory' = memory /\ fromMemory' = Value(memory, i)
    /\ corr' = IF Value(corr, i) = None THEN Written(corr, i, data) ELSE corr
    /\ fromRedis' = RedisPutReply(i, data)
    /\ plain' = (i \notin apart)
    /\ UNCHANGED <<results, apart>>

\* The memory store takes the mask out of the record, Redis reads another key.
GetResult(i) ==
    /\ fromMemory' = IF Value(memory, i) = None THEN None ELSE Value(memory, i).masked
    /\ fromRedis' = Value(results, i)
    /\ plain' = FALSE
    /\ UNCHANGED <<stores, apart>>

SetResult(i, text) ==
    /\ memory' = Written(memory, i,
          [original |-> IF Value(memory, i) = None THEN None
                        ELSE Value(memory, i).original,
           masked |-> text])
    /\ results' = Written(results, i, text)
    /\ fromMemory' = None
    /\ fromRedis' = None
    /\ apart' = apart \cup {i}
    /\ plain' = FALSE
    /\ UNCHANGED corr

Call(i) ==
    /\ \/ Get(i)
       \/ \E data \in Inputs : Set(i, data) \/ PutIfAbsent(i, data)
       \/ GetResult(i)
       \/ \E text \in Texts : SetResult(i, text)
    /\ UNCHANGED clock

BackendsNext == Tick \/ \E i \in Ids : Call(i)

BackendsSpec == BackendsInit /\ [][BackendsNext]_backendsVars

-----------------------------------------------------------------------------
(* Properties.                                                             *)

\* Every variable keeps its type.
BackendsTypeOK ==
    LET Entries(values) == [data : values, deadline : 0..(MaxClock + Ttl)] \cup {None}
    IN  /\ clock \in 0..MaxClock
        /\ memory \in [Ids -> Entries(Records)]
        /\ corr \in [Ids -> Entries(Inputs)]
        /\ results \in [Ids -> Entries(Texts)]
        /\ fromMemory \in Records \cup Texts \cup {None}
        /\ fromRedis \in Records \cup Texts \cup {None}
        /\ apart \subseteq Ids
        /\ plain \in BOOLEAN

\* As long as an id is used only through get, set and put_if_absent, as the engine
\* and the API do, both backends give the same replies.
RecordRepliesAgree == plain => fromMemory = fromRedis

\* Such an id has the same live record in both, with the same age; a set brings an
\* id back into line.
RecordsAgree == \A i \in Ids \ apart : Value(memory, i) = Value(corr, i)

\* The same call gets the same reply from both backends, whatever the call.
RepliesAgree == fromMemory = fromRedis

=============================================================================
