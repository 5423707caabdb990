-------------------------- MODULE DeploymentProofs --------------------------
(***************************************************************************)
(* What stands beside the API's container in the deployment.               *)
(*                                                                         *)
(* The published address of the tunnel, for every order of signals, lost   *)
(* connections, failures and restarts.  The invariant says where main()    *)
(* may be while the file exists at all.                                    *)
(*                                                                         *)
(* The Redis that takes the place of the store in memory, for any ids,     *)
(* texts, records, time to live and length of a run: for a client that     *)
(* does not call set_result the two are one.  That the live records are    *)
(* the same is not inductive: two records that are the same now may have   *)
(* different deadlines.  They never do: the rows of an id are the same,    *)
(* deadline included, or the time of both is up (Aligned).                 *)
(***************************************************************************)
EXTENDS Tunnel, CorrelationBackends, TLAPS

-----------------------------------------------------------------------------
(* The tunnel                                                              *)

\* main() between the publication of an address and the clause that removes it,
\* or a container that was killed there and has not cleared its file yet.
Publishing == {"read", "test", "write", "replace", "wait", "clean", "unwind",
               "killed", "boot"}

IInv ==
    /\ TypeOK
    /\ PublishedIsCurrent
    /\ file = "current" => pc \in Publishing

LEMMA InitEstablishes == Init => IInv
  BY DEF Init, IInv, TypeOK, PublishedIsCurrent, Steps

\* main() publishes only on the way from one line to the next.
LEMMA MainPreserves == IInv /\ Main => IInv'
<1> SUFFICES ASSUME IInv, Main PROVE IInv'
  OBVIOUS
<1> USE DEF IInv, TypeOK, PublishedIsCurrent, Publishing, Steps, Ended, Goes, Running
<1>1. CASE Boot BY <1>1 DEF Boot
<1>18. CASE BootFails BY <1>18 DEF BootFails
<1>2. CASE CheckStop BY <1>2 DEF CheckStop
<1>3. CASE Clear BY <1>3 DEF Clear
<1>4. CASE Spawn BY <1>4 DEF Spawn, Older
<1>5. CASE SpawnFails BY <1>5 DEF SpawnFails
<1>6. CASE Assign BY <1>6 DEF Assign
<1>7. CASE ReadUrl BY <1>7 DEF ReadUrl
<1>8. CASE ReadEnd BY <1>8 DEF ReadEnd
<1>9. CASE TestStop BY <1>9 DEF TestStop
<1>10. CASE Write BY <1>10 DEF Write
<1>11. CASE Replace BY <1>11 DEF Replace
<1>12. CASE Wait BY <1>12 DEF Wait
<1>13. CASE Clean BY <1>13 DEF Clean, Cleaned
<1>14. CASE Unwind BY <1>14 DEF Unwind, Cleaned
<1>15. CASE EnterPause BY <1>15 DEF EnterPause
<1>16. CASE Wake BY <1>16 DEF Wake
<1>17. CASE LeavePause BY <1>17 DEF LeavePause
<1> QED
  BY <1>1, <1>2, <1>3, <1>4, <1>5, <1>6, <1>7, <1>8, <1>9, <1>10, <1>11, <1>12,
     <1>13, <1>14, <1>15, <1>16, <1>17, <1>18 DEF Main

\* Signals only remove the file; the child and the container do not touch it.
LEMMA OthersPreserve ==
    IInv /\ (Signal \/ Shutdown \/ Announce \/ Die \/ Kill \/ Restart) => IInv'
<1> SUFFICES ASSUME IInv, Signal \/ Shutdown \/ Announce \/ Die \/ Kill \/ Restart
             PROVE  IInv'
  OBVIOUS
<1> USE DEF IInv, TypeOK, PublishedIsCurrent, Publishing, Steps, Ended, Running
<1>1. CASE Signal BY <1>1 DEF Signal
<1>2. CASE Shutdown BY <1>2 DEF Shutdown, Asked
<1>3. CASE Announce BY <1>3 DEF Announce
<1>4. CASE Die BY <1>4 DEF Die
<1>5. CASE Kill BY <1>5 DEF Kill
<1>6. CASE Restart BY <1>6 DEF Restart
<1> QED BY <1>1, <1>2, <1>3, <1>4, <1>5, <1>6

\* The inductive invariant holds in every reachable state.
THEOREM TunnelInvariance == Spec => []IInv
<1>1. IInv /\ [Next]_vars => IInv'
  <2>1. IInv /\ Next => IInv'
    BY MainPreserves, OthersPreserve DEF Next
  <2>2. IInv /\ UNCHANGED vars => IInv'
    BY DEF IInv, TypeOK, PublishedIsCurrent, vars
  <2> QED BY <2>1, <2>2
<1> QED BY InitEstablishes, <1>1, PTL DEF Spec

\* Every variable of run.py keeps its type.
THEOREM TypeCorrect == Spec => []TypeOK
<1>1. IInv => TypeOK BY DEF IInv
<1> QED BY <1>1, TunnelInvariance, PTL

\* The unlink that opens every round and the finally clause together: a new child never starts under the
\* address of the one before.
THEOREM AddressIsCurrent == Spec => []PublishedIsCurrent
<1>1. IInv => PublishedIsCurrent BY DEF IInv
<1> QED BY <1>1, TunnelInvariance, PTL

\* No address outlives the program or stands during a pause, whatever signals
\* and failures end it.
THEOREM NoStaleAddress == Spec => []GoneWhenDone
<1>1. IInv => GoneWhenDone
  BY DEF IInv, TypeOK, PublishedIsCurrent, Publishing, GoneWhenDone
<1> QED BY <1>1, TunnelInvariance, PTL

-----------------------------------------------------------------------------
(* The two backends of the correlation store                               *)

\* The row of i in table t, if there is one, is past its time.
Dead(t, i) == t[i] = None \/ ~(t[i].deadline > clock)
Aligned(i) == memory[i] = corr[i] \/ (Dead(memory, i) /\ Dead(corr, i))

BackendsInv ==
    /\ clock \in Nat
    /\ DOMAIN memory = Ids /\ memory = [i \in Ids |-> memory[i]]
    /\ DOMAIN corr = Ids /\ corr = [i \in Ids |-> corr[i]]
    /\ \A i \in Ids : memory[i] # None => memory[i].deadline \in Nat
    /\ \A i \in Ids : corr[i] # None => corr[i].deadline \in Nat
    /\ \A i \in Ids \ apart : Aligned(i)
    /\ RecordRepliesAgree

-----------------------------------------------------------------------------

\* A row past its time has no value.
LEMMA DeadHasNoValue == ASSUME NEW t, NEW i, Dead(t, i) PROVE Value(t, i) = None
BY DEF Dead, Value

\* Aligned rows have the same value.
LEMMA AlignedAgree == ASSUME NEW i, Aligned(i) PROVE Value(memory, i) = Value(corr, i)
BY DeadHasNoValue DEF Aligned, Value

\* What a write does to a table.
LEMMA WrittenFacts ==
    ASSUME BackendsInv, NEW t, DOMAIN t = Ids, NEW i \in Ids, NEW data
    PROVE  /\ Written(t, i, data) = [j \in Ids |-> Written(t, i, data)[j]]
           /\ DOMAIN Written(t, i, data) = Ids
           /\ Written(t, i, data)[i] = Entry(data)
           /\ \A j \in Ids : j # i => Written(t, i, data)[j] = t[j]
           /\ Entry(data).deadline \in Nat
<1>1. Entry(data).deadline = clock + Ttl /\ clock \in Nat /\ Ttl \in Nat
  BY BackendsAssumption DEF Entry, BackendsInv
<1>2. Written(t, i, data) = [j \in Ids |-> IF j = i THEN Entry(data) ELSE t[j]]
  BY DEF Written
<1>3. QED
  BY <1>1, <1>2

\* A step that leaves the clock and every row of the ids other than i alone keeps
\* their rows aligned.
LEMMA OthersAligned ==
    ASSUME BackendsInv, NEW i \in Ids, clock' = clock, apart' \cup {i} = apart \cup {i},
           \A j \in Ids : j # i => memory'[j] = memory[j] /\ corr'[j] = corr[j]
    PROVE  \A j \in Ids \ apart' : j # i => Aligned(j)'
BY DEF BackendsInv, Aligned, Dead

-----------------------------------------------------------------------------
(* The steps                                                               *)

\* Nothing is written before the first call.
LEMMA BackendsInitEstablishes == BackendsInit => BackendsInv
BY DEF BackendsInit, BackendsInv, Aligned, RecordRepliesAgree

\* As time goes by rows of the same deadline expire together.
LEMMA TickPreserves == BackendsInv /\ Tick => BackendsInv'
<1> SUFFICES ASSUME BackendsInv, Tick PROVE BackendsInv'
  OBVIOUS
<1>1. clock \in Nat /\ clock' = clock + 1 /\ UNCHANGED <<memory, corr, fromMemory, fromRedis, apart, plain>>
  BY DEF Tick, stores, BackendsInv
<1>2. ASSUME NEW i \in Ids \ apart PROVE Aligned(i)'
  BY <1>1, <1>2 DEF BackendsInv, Aligned, Dead
<1>3. QED
  BY <1>1, <1>2 DEF BackendsInv, RecordRepliesAgree

\* Both backends look under the same id.
LEMMA GetPreserves ==
    ASSUME BackendsInv, NEW i \in Ids, Get(i), clock' = clock PROVE BackendsInv'
<1>1. UNCHANGED <<clock, memory, corr, apart>>
  BY DEF Get, stores
<1>2. RecordRepliesAgree'
  BY AlignedAgree DEF Get, BackendsInv, RecordRepliesAgree
<1>3. QED
  BY <1>1, <1>2 DEF BackendsInv, Aligned, Dead

\* set writes the same row in both.
LEMMA SetPreserves ==
    ASSUME BackendsInv, NEW i \in Ids, NEW data, Set(i, data), clock' = clock PROVE BackendsInv'
<1>1. memory' = Written(memory, i, data) /\ corr' = Written(corr, i, data)
      /\ apart' = apart \ {i} /\ clock' = clock /\ fromMemory' = fromRedis'
  BY DEF Set, RedisSet
<1>2. DOMAIN memory = Ids /\ DOMAIN corr = Ids
  BY DEF BackendsInv
<1>3. /\ DOMAIN memory' = Ids /\ memory' = [j \in Ids |-> memory'[j]]
      /\ memory'[i] = Entry(data) /\ Entry(data).deadline \in Nat
      /\ \A j \in Ids : j # i => memory'[j] = memory[j]
  BY <1>1, <1>2, WrittenFacts
<1>4. /\ DOMAIN corr' = Ids /\ corr' = [j \in Ids |-> corr'[j]]
      /\ corr'[i] = Entry(data)
      /\ \A j \in Ids : j # i => corr'[j] = corr[j]
  BY <1>1, <1>2, WrittenFacts
<1>5. \A j \in Ids \ apart' : Aligned(j)'
  BY <1>1, <1>3, <1>4, OthersAligned DEF Aligned
<1>6. QED
  BY <1>1, <1>3, <1>4, <1>5 DEF BackendsInv, RecordRepliesAgree

\* put_if_absent writes in both or in neither, unless the id is apart.
LEMMA PutIfAbsentPreserves ==
    ASSUME BackendsInv, NEW i \in Ids, NEW data, PutIfAbsent(i, data), clock' = clock PROVE BackendsInv'
<1>1. memory' \in {memory, Written(memory, i, data)} /\ corr' \in {corr, Written(corr, i, data)}
      /\ apart' = apart
  BY DEF PutIfAbsent
<1>2. /\ DOMAIN memory = Ids /\ DOMAIN corr = Ids
      /\ \A j \in Ids : memory[j] # None => memory[j].deadline \in Nat
      /\ \A j \in Ids : corr[j] # None => corr[j].deadline \in Nat
  BY DEF BackendsInv
<1>3. /\ DOMAIN memory' = Ids /\ memory' = [j \in Ids |-> memory'[j]]
      /\ \A j \in Ids : j # i => memory'[j] = memory[j]
      /\ \A j \in Ids : memory'[j] # None => memory'[j].deadline \in Nat
  <2>1. CASE memory' = memory
    BY <2>1 DEF BackendsInv
  <2>2. CASE memory' = Written(memory, i, data)
    <3>1. /\ DOMAIN memory' = Ids /\ memory' = [j \in Ids |-> memory'[j]]
          /\ memory'[i] = Entry(data) /\ Entry(data).deadline \in Nat
          /\ \A j \in Ids : j # i => memory'[j] = memory[j]
      BY <2>2, <1>2, WrittenFacts
    <3>2. \A j \in Ids : memory'[j] # None => memory'[j].deadline \in Nat
      BY <3>1, <1>2
    <3>3. QED
      BY <3>1, <3>2
  <2>3. QED
    BY <1>1, <2>1, <2>2
<1>4. /\ DOMAIN corr' = Ids /\ corr' = [j \in Ids |-> corr'[j]]
      /\ \A j \in Ids : j # i => corr'[j] = corr[j]
      /\ \A j \in Ids : corr'[j] # None => corr'[j].deadline \in Nat
  <2>1. CASE corr' = corr
    BY <2>1 DEF BackendsInv
  <2>2. CASE corr' = Written(corr, i, data)
    <3>1. /\ DOMAIN corr' = Ids /\ corr' = [j \in Ids |-> corr'[j]]
          /\ corr'[i] = Entry(data) /\ Entry(data).deadline \in Nat
          /\ \A j \in Ids : j # i => corr'[j] = corr[j]
      BY <2>2, <1>2, WrittenFacts
    <3>2. \A j \in Ids : corr'[j] # None => corr'[j].deadline \in Nat
      BY <3>1, <1>2
    <3>3. QED
      BY <3>1, <3>2
  <2>3. QED
    BY <1>1, <2>1, <2>2
<1>5. i \notin apart => Aligned(i)' /\ fromMemory' = fromRedis'
  <2> SUFFICES ASSUME i \notin apart PROVE Aligned(i)' /\ fromMemory' = fromRedis'
    OBVIOUS
  <2>1. Aligned(i) /\ Value(memory, i) = Value(corr, i)
    BY AlignedAgree DEF BackendsInv
  <2>2. CASE Value(memory, i) = None
    <3>1. memory' = Written(memory, i, data) /\ corr' = Written(corr, i, data)
          /\ fromMemory' = data /\ fromRedis' = data
      BY <2>1, <2>2 DEF PutIfAbsent, RedisPutReply
    <3>2. memory'[i] = Entry(data) /\ corr'[i] = Entry(data)
      BY <3>1, <1>2, WrittenFacts
    <3>3. QED
      BY <3>1, <3>2 DEF Aligned
  <2>3. CASE Value(memory, i) # None
    <3>1. memory' = memory /\ corr' = corr /\ fromMemory' = fromRedis'
      BY <2>1, <2>3 DEF PutIfAbsent, RedisPutReply
    <3>2. QED
      BY <2>1, <3>1 DEF Aligned, Dead
  <2>4. QED
    BY <2>2, <2>3
<1>6. \A j \in Ids \ apart' : Aligned(j)'
  BY <1>1, <1>3, <1>4, <1>5, OthersAligned
<1>7. RecordRepliesAgree'
  BY <1>5 DEF PutIfAbsent, RecordRepliesAgree
<1>8. QED
  BY <1>3, <1>4, <1>6, <1>7 DEF BackendsInv

\* get_result is not compared, and changes nothing.
LEMMA GetResultPreserves ==
    ASSUME BackendsInv, NEW i \in Ids, GetResult(i), clock' = clock PROVE BackendsInv'
<1>1. UNCHANGED <<clock, memory, corr, apart>> /\ plain' = FALSE
  BY DEF GetResult, stores
<1>2. QED
  BY <1>1 DEF BackendsInv, Aligned, Dead, RecordRepliesAgree

\* set_result puts its id apart.
LEMMA SetResultPreserves ==
    ASSUME BackendsInv, NEW i \in Ids, NEW text, SetResult(i, text), clock' = clock PROVE BackendsInv'
<1>1. PICK data : memory' = Written(memory, i, data)
  BY DEF SetResult
<1>2. corr' = corr /\ apart' = apart \cup {i} /\ plain' = FALSE
  BY DEF SetResult
<1>3. DOMAIN memory = Ids
  BY DEF BackendsInv
<1>4. /\ DOMAIN memory' = Ids /\ memory' = [j \in Ids |-> memory'[j]]
      /\ memory'[i] = Entry(data) /\ Entry(data).deadline \in Nat
      /\ \A j \in Ids : j # i => memory'[j] = memory[j]
  BY <1>1, <1>3, WrittenFacts
<1>5. \A j \in Ids \ apart' : Aligned(j)'
  BY <1>2, <1>4, OthersAligned
<1>6. QED
  BY <1>2, <1>4, <1>5 DEF BackendsInv, RecordRepliesAgree

-----------------------------------------------------------------------------
(* The theorems                                                            *)

\* Rows stay aligned, and replies the same, whatever calls are made.
THEOREM BackendsInvariance == BackendsSpec => []BackendsInv
<1>1. BackendsInv /\ [BackendsNext]_backendsVars => BackendsInv'
  <2> SUFFICES ASSUME BackendsInv, [BackendsNext]_backendsVars PROVE BackendsInv'
    OBVIOUS
  <2>1. ASSUME NEW i \in Ids, Call(i) PROVE BackendsInv'
    BY <2>1, GetPreserves, SetPreserves, PutIfAbsentPreserves, GetResultPreserves,
       SetResultPreserves DEF Call
  <2>2. CASE UNCHANGED backendsVars
    BY <2>2 DEF backendsVars, stores, BackendsInv, Aligned, Dead, RecordRepliesAgree
  <2>3. QED
    BY <2>1, <2>2, TickPreserves DEF BackendsNext
<1>2. QED
  BY <1>1, BackendsInitEstablishes, PTL DEF BackendsSpec

\* Both backends have the same live record of every id no set_result has touched
\* since its last set.
THEOREM RecordsAlike == BackendsSpec => []RecordsAgree
<1>1. BackendsInv => RecordsAgree
  BY AlignedAgree DEF BackendsInv, RecordsAgree
<1>2. QED
  BY <1>1, BackendsInvariance, PTL

\* get, set and put_if_absent of such an id return the same from both.
THEOREM RepliesAlike == BackendsSpec => []RecordRepliesAgree
<1>1. BackendsInv => RecordRepliesAgree
  BY DEF BackendsInv
<1>2. QED
  BY <1>1, BackendsInvariance, PTL
=============================================================================
