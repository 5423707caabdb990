-------------------------- MODULE MemoryStoreProofs --------------------------
(***************************************************************************)
(* Proofs about MemoryStore for every set of ids, texts and callers, every *)
(* time to live and every length of time.                                  *)
(***************************************************************************)
EXTENDS MemoryStore, TLAPS

-----------------------------------------------------------------------------
(* The inductive invariant.                                                *)

\* Sorted by deadline, and no id twice.
Ordered(d) ==
    /\ \A p, q \in DOMAIN d : p < q => d[p].deadline <= d[q].deadline
    /\ \A p, q \in DOMAIN d : d[p].id = d[q].id => p = q

\* Only the holder of the lock is inside a call.
Locked ==
    \A c \in Callers :
        /\ pc[c] # "idle" <=> lock = c
        /\ pc[c] = "idle" <=> op[c] = None
        /\ now[c] <= clock

\* What the first part of a call has established when it reaches _write.
Prepared ==
    \A c \in Callers :
        pc[c] = "write" =>
            /\ op[c].name \in {"set", "put_if_absent", "set_result"}
            /\ \A row \in Range(data) : row.deadline > now[c]
            /\ op[c].name = "put_if_absent" => Places(data, op[c].id) = {}
            /\ op[c].name = "set_result" => found[c] = Lookup(data, op[c].id)

IInv ==
    /\ TypeOK
    /\ Ordered(data)
    /\ \A row \in Range(data) : row.deadline <= clock + Ttl
    /\ Locked
    /\ Prepared

-----------------------------------------------------------------------------
(* The ordered dict.                                                       *)

\* popitem(last=False) removes the row with the earliest deadline and no other.
LEMMA TailRows ==
    ASSUME NEW d \in Seq(Rows), d # <<>>, Ordered(d)
    PROVE  /\ Tail(d) \in Seq(Rows)
           /\ Head(d) \in Rows
           /\ Head(d) \in Range(d)
           /\ Ordered(Tail(d))
           /\ Range(Tail(d)) = Range(d) \ {Head(d)}
           /\ \A row \in Range(d) : Head(d).deadline <= row.deadline
<1>1. /\ Tail(d) \in Seq(Rows) /\ Head(d) \in Rows /\ Head(d) = d[1]
      /\ Len(d) \in Nat /\ Len(d) >= 1 /\ DOMAIN d = 1..Len(d)
      /\ DOMAIN Tail(d) = 1..(Len(d) - 1)
      /\ \A p \in 1..(Len(d) - 1) : Tail(d)[p] = d[p + 1]
  <2>1. Len(d) \in Nat /\ Len(d) >= 1 /\ DOMAIN d = 1..Len(d)
    OBVIOUS
  <2>2. Head(d) = d[1] /\ Head(d) \in Rows
    BY <2>1
  <2>3. Tail(d) \in Seq(Rows) /\ Len(Tail(d)) = Len(d) - 1
    OBVIOUS
  <2>4. DOMAIN Tail(d) = 1..(Len(d) - 1)
    BY <2>3
  <2>5. ASSUME NEW p \in 1..(Len(d) - 1) PROVE Tail(d)[p] = d[p + 1]
    BY <2>1
  <2>6. QED
    BY <2>1, <2>2, <2>3, <2>4, <2>5
<1>2. \A p \in DOMAIN d : d[p].deadline \in Int
  <2>1. \A p \in DOMAIN d : d[p] \in Rows
    OBVIOUS
  <2>2. QED
    BY <2>1, StoreAssumption DEF Rows, Deadlines
<1>3. Ordered(Tail(d))
  <2>1. ASSUME NEW p \in DOMAIN Tail(d), NEW q \in DOMAIN Tail(d)
        PROVE  /\ p < q => Tail(d)[p].deadline <= Tail(d)[q].deadline
               /\ Tail(d)[p].id = Tail(d)[q].id => p = q
    <3>1. p \in 1..(Len(d) - 1) /\ q \in 1..(Len(d) - 1)
      BY <1>1
    <3>2. /\ p + 1 \in DOMAIN d /\ q + 1 \in DOMAIN d
          /\ p < q <=> p + 1 < q + 1
          /\ p = q <=> p + 1 = q + 1
      BY <1>1, <3>1
    <3>3. Tail(d)[p] = d[p + 1] /\ Tail(d)[q] = d[q + 1]
      BY <1>1, <3>1
    <3>4. QED
      BY <3>2, <3>3 DEF Ordered
  <2>2. QED
    BY <2>1 DEF Ordered
<1>4. Range(Tail(d)) = Range(d) \ {Head(d)}
  <2>1. ASSUME NEW row \in Range(Tail(d)) PROVE row \in Range(d) \ {Head(d)}
    <3>1. PICK p \in 1..(Len(d) - 1) : row = d[p + 1]
      BY <1>1, <2>1 DEF Range
    <3>2. p + 1 \in DOMAIN d /\ 1 \in DOMAIN d /\ p + 1 # 1
      BY <1>1
    <3>3. d[p + 1] # d[1]
      BY <3>2 DEF Ordered
    <3>4. QED
      BY <1>1, <3>1, <3>2, <3>3 DEF Range
  <2>2. ASSUME NEW row \in Range(d) \ {Head(d)} PROVE row \in Range(Tail(d))
    <3>1. PICK p \in DOMAIN d : row = d[p] /\ p # 1
      BY <1>1, <2>2 DEF Range
    <3>2. p - 1 \in 1..(Len(d) - 1) /\ Tail(d)[p - 1] = row
      BY <1>1, <3>1
    <3>3. QED
      BY <1>1, <3>2 DEF Range
  <2>3. QED
    BY <2>1, <2>2
<1>5. \A row \in Range(d) : Head(d).deadline <= row.deadline
  <2> SUFFICES ASSUME NEW p \in DOMAIN d PROVE d[1].deadline <= d[p].deadline
    BY <1>1 DEF Range
  <2>1. CASE p = 1
    BY <1>2, <2>1
  <2>2. CASE p # 1
    BY <1>1, <2>2 DEF Ordered
  <2>3. QED
    BY <2>1, <2>2
<1>6. Head(d) \in Range(d)
  BY <1>1 DEF Range
<1>7. QED
  BY <1>1, <1>3, <1>4, <1>5, <1>6

\* A row with a new id and the latest deadline goes to the end.
LEMMA AppendRows ==
    ASSUME NEW d \in Seq(Rows), NEW row \in Rows, Ordered(d),
           \A r \in Range(d) : r.id # row.id /\ r.deadline <= row.deadline
    PROVE  /\ Append(d, row) \in Seq(Rows)
           /\ Ordered(Append(d, row))
           /\ Range(Append(d, row)) = Range(d) \cup {row}
<1>1. /\ Append(d, row) \in Seq(Rows) /\ Len(d) \in Nat
      /\ DOMAIN d = 1..Len(d) /\ DOMAIN Append(d, row) = 1..(Len(d) + 1)
      /\ \A p \in 1..Len(d) : Append(d, row)[p] = d[p]
      /\ Append(d, row)[Len(d) + 1] = row
  OBVIOUS
<1>2. \A p \in 1..Len(d) : d[p] \in Range(d)
  BY <1>1 DEF Range
<1>3. Ordered(Append(d, row))
  BY <1>1, <1>2 DEF Ordered
<1>4. Range(Append(d, row)) = Range(d) \cup {row}
  <2>1. DOMAIN Append(d, row) = DOMAIN d \cup {Len(d) + 1}
    BY <1>1
  <2>2. QED
    BY <1>1, <2>1 DEF Range
<1>5. QED
  BY <1>1, <1>3, <1>4

\* Taking one row out of the middle keeps the order of the others.
LEMMA RemoveRow ==
    ASSUME NEW d \in Seq(Rows), NEW p \in DOMAIN d, Ordered(d)
    PROVE  /\ RemoveAt(d, p) \in Seq(Rows)
           /\ Ordered(RemoveAt(d, p))
           /\ Range(RemoveAt(d, p)) = Range(d) \ {d[p]}
<1> DEFINE e == RemoveAt(d, p)
<1>1. Len(d) \in Nat /\ DOMAIN d = 1..Len(d) /\ p \in 1..Len(d)
  OBVIOUS
<1>2. /\ SubSeq(d, 1, p - 1) \in Seq(Rows) /\ SubSeq(d, p + 1, Len(d)) \in Seq(Rows)
      /\ Len(SubSeq(d, 1, p - 1)) = p - 1
      /\ Len(SubSeq(d, p + 1, Len(d))) = Len(d) - p
      /\ \A k \in 1..(p - 1) : SubSeq(d, 1, p - 1)[k] = d[k]
      /\ \A k \in 1..(Len(d) - p) : SubSeq(d, p + 1, Len(d))[k] = d[p + k]
  <2> DEFINE l == SubSeq(d, 1, p - 1)
             r == SubSeq(d, p + 1, Len(d))
  <2>1. l \in Seq(Rows) /\ Len(l) = p - 1
    BY <1>1
  <2>2. r \in Seq(Rows) /\ Len(r) = Len(d) - p
    BY <1>1
  <2>3. \A k \in 1..(p - 1) : l[k] = d[k]
    BY <1>1
  <2>4. \A k \in 1..(Len(d) - p) : r[k] = d[p + k]
    BY <1>1
  <2>5. QED
    BY <2>1, <2>2, <2>3, <2>4
<1>3. /\ e \in Seq(Rows) /\ DOMAIN e = 1..(Len(d) - 1)
      /\ \A k \in 1..(p - 1) : e[k] = d[k]
      /\ \A k \in p..(Len(d) - 1) : e[k] = d[k + 1]
  <2> DEFINE l == SubSeq(d, 1, p - 1)
             r == SubSeq(d, p + 1, Len(d))
  <2>1. e = l \o r
    BY DEF RemoveAt
  <2>2. /\ l \in Seq(Rows) /\ r \in Seq(Rows)
        /\ Len(l) = p - 1 /\ Len(r) = Len(d) - p
        /\ \A k \in 1..(p - 1) : l[k] = d[k]
        /\ \A k \in 1..(Len(d) - p) : r[k] = d[p + k]
    BY <1>2
  <2> HIDE DEF e, l, r
  <2>3. e \in Seq(Rows) /\ Len(e) = Len(l) + Len(r)
    BY <2>1, <2>2
  <2>3a. ASSUME NEW s \in Seq(Rows), NEW t \in Seq(Rows)
        PROVE  /\ \A i \in 1..Len(s) : (s \o t)[i] = s[i]
               /\ \A i \in 1..Len(t) : (s \o t)[Len(s) + i] = t[i]
    OBVIOUS
  <2>3b. \A i \in 1..Len(r) : e[Len(l) + i] = r[i]
    BY <2>1, <2>2, <2>3a
  <2>4. ASSUME NEW k \in 1..(p - 1) PROVE e[k] = d[k]
    <3>1. e[k] = l[k]
      BY <2>1, <2>2, <2>3a
    <3>2. QED
      BY <2>2, <3>1
  <2>5. ASSUME NEW k \in p..(Len(d) - 1) PROVE e[k] = d[k + 1]
    <3> DEFINE i == k - (p - 1)
    <3>1. i \in 1..(Len(d) - p) /\ p + i = k + 1 /\ (p - 1) + i = k
      BY <1>1, <2>5
    <3> HIDE DEF i
    <3>2. i \in 1..Len(r) /\ Len(l) + i = k
      BY <2>2, <3>1
    <3>3. r[i] = d[p + i]
      BY <2>2, <3>1
    <3>4. QED
      BY <2>3b, <3>1, <3>2, <3>3
  <2>6. QED
    BY <1>1, <2>2, <2>3, <2>4, <2>5
<1> HIDE DEF e
<1> DEFINE from(k) == IF k < p THEN k ELSE k + 1
<1>4. \A k \in DOMAIN e : from(k) \in DOMAIN d /\ from(k) # p /\ e[k] = d[from(k)]
  BY <1>1, <1>3
<1>5. \A k, l \in DOMAIN e : (k < l => from(k) < from(l)) /\ (from(k) = from(l) => k = l)
  BY <1>1, <1>3
<1>6. \A q \in DOMAIN d : q # p => \E k \in DOMAIN e : from(k) = q
  <2> SUFFICES ASSUME NEW q \in DOMAIN d, q # p PROVE \E k \in DOMAIN e : from(k) = q
    OBVIOUS
  <2>1. CASE q < p
    BY <1>1, <1>3, <2>1
  <2>2. CASE q > p
    <3>1. q - 1 \in DOMAIN e /\ from(q - 1) = q
      BY <1>1, <1>3, <2>2
    <3>2. QED
      BY <3>1
  <2>3. QED
    BY <1>1, <2>1, <2>2
<1> HIDE DEF from
<1>7. Ordered(e)
  BY <1>4, <1>5 DEF Ordered
<1>8. Range(e) = Range(d) \ {d[p]}
  <2>1. ASSUME NEW k \in DOMAIN e PROVE e[k] \in Range(d) /\ e[k] # d[p]
    BY <1>4 DEF Ordered, Range
  <2>2. ASSUME NEW q \in DOMAIN d, d[q] # d[p] PROVE d[q] \in Range(e)
    BY <1>4, <1>6, <2>2 DEF Range
  <2>3. QED
    BY <2>1, <2>2 DEF Range
<1>9. QED
  BY <1>3, <1>7, <1>8 DEF e

\* The dict read as a map: what Lookup and Table say of each row.
LEMMA RowFacts ==
    ASSUME NEW d \in Seq(Rows), Ordered(d)
    PROVE  /\ \A i : Places(d, i) = {} <=> \A row \in Range(d) : row.id # i
           /\ \A row \in Range(d) : Lookup(d, row.id) = row.data
           /\ \A p \in DOMAIN d : Places(d, d[p].id) = {p}
<1>1. \A p \in DOMAIN d : Places(d, d[p].id) = {p}
  BY DEF Places, Ordered
<1>2. \A i : Places(d, i) = {} <=> \A row \in Range(d) : row.id # i
  BY DEF Places, Range
<1>3. ASSUME NEW p \in DOMAIN d PROVE Lookup(d, d[p].id) = d[p].data
  <2>1. Places(d, d[p].id) = {p}
    BY <1>1
  <2>2. (CHOOSE q \in Places(d, d[p].id) : TRUE) = p
    BY <2>1
  <2>3. QED
    BY <2>1, <2>2 DEF Lookup
<1>4. QED
  BY <1>1, <1>2, <1>3 DEF Range

\* _write: the id has one row, the new one, at the end.
LEMMA WrittenRows ==
    ASSUME NEW d \in Seq(Rows), NEW row \in Rows, Ordered(d),
           \A r \in Range(d) : r.deadline <= row.deadline
    PROVE  /\ Written(d, row) \in Seq(Rows)
           /\ Ordered(Written(d, row))
           /\ Range(Written(d, row)) = {r \in Range(d) : r.id # row.id} \cup {row}
<1>1. CASE Places(d, row.id) = {}
  <2>1. \A r \in Range(d) : r.id # row.id
    BY <1>1, RowFacts
  <2>2. QED
    BY <1>1, <2>1, AppendRows DEF Written
<1>2. CASE Places(d, row.id) # {}
  <2> DEFINE p == CHOOSE q \in Places(d, row.id) : TRUE
             e == RemoveAt(d, p)
  <2>1. p \in DOMAIN d /\ d[p].id = row.id
    BY <1>2 DEF Places
  <2> HIDE DEF p
  <2>2. e \in Seq(Rows) /\ Ordered(e) /\ Range(e) = Range(d) \ {d[p]}
    BY <2>1, RemoveRow
  <2>3. \A r \in Range(d) : r.id = row.id <=> r = d[p]
    BY <2>1 DEF Range, Ordered
  <2>4. Range(e) = {r \in Range(d) : r.id # row.id}
    BY <2>2, <2>3
  <2> HIDE DEF e
  <2>5. /\ Append(e, row) \in Seq(Rows) /\ Ordered(Append(e, row))
        /\ Range(Append(e, row)) = Range(e) \cup {row}
    BY <2>2, <2>4, AppendRows
  <2>6. QED
    BY <1>2, <2>4, <2>5 DEF Written, p, e
<1>3. QED
  BY <1>1, <1>2

-----------------------------------------------------------------------------
(* The inductive invariant holds initially and is kept by every step.      *)

\* The dict is empty and no one is inside a call.
LEMMA InitIInv == Init => IInv
<1> SUFFICES ASSUME Init PROVE IInv
  OBVIOUS
<1>1. data \in Seq(Rows) /\ Range(data) = {} /\ DOMAIN data = {}
  BY DEF Init, Range
<1>2. TypeOK
  BY <1>1, StoreAssumption DEF Init, TypeOK
<1>3. Ordered(data)
  BY <1>1 DEF Ordered
<1>4. Locked /\ Prepared
  BY StoreAssumption DEF Init, Locked, Prepared
<1>5. QED
  BY <1>1, <1>2, <1>3, <1>4 DEF IInv

\* A caller inside a call is the only one.
LEMMA OnlyCaller ==
    ASSUME IInv, NEW c \in Callers, pc[c] # "idle"
    PROVE  /\ lock = c /\ op[c] \in Calls
           /\ \A o \in Callers : o # c => pc[o] = "idle" /\ op[o] = None
<1>1. lock = c
  BY DEF IInv, Locked
<1>2. op[c] \in Calls
  BY DEF IInv, Locked, TypeOK
<1>3. ASSUME NEW o \in Callers, o # c PROVE pc[o] = "idle" /\ op[o] = None
  BY <1>1, <1>3 DEF IInv, Locked
<1>4. QED
  BY <1>1, <1>2, <1>3

\* What _data.get returns.
LEMMA LookupType ==
    ASSUME NEW d \in Seq(Rows), NEW i
    PROVE  Lookup(d, i) \in Records \cup {None}
<1>1. CASE Places(d, i) = {}
  BY <1>1 DEF Lookup
<1>2. CASE Places(d, i) # {}
  <2> DEFINE p == CHOOSE q \in Places(d, i) : TRUE
  <2>1. p \in DOMAIN d
    BY <1>2 DEF Places
  <2>2. d[p] \in Rows
    BY <2>1
  <2>3. Lookup(d, i) = d[p].data
    BY <1>2 DEF Lookup
  <2>4. QED
    BY <2>2, <2>3 DEF Rows
<1>3. QED
  BY <1>1, <1>2

\* A mask picked out of a record is a text.
LEMMA MaskType ==
    ASSUME NEW record \in Records \cup {None}
    PROVE  Mask(record) \in Texts \cup {None}
BY DEF Mask, Records

\* The kinds of call, and what each carries.
LEMMA CallFields ==
    ASSUME NEW call \in Calls
    PROVE  /\ call.id \in Ids
           /\ call.name \in {"get", "get_result", "set", "put_if_absent", "set_result"}
           /\ call.name \in {"set", "put_if_absent"} => call.input \in Records
           /\ call.name = "set_result" => call.input \in Texts
BY StoreAssumption DEF Calls, Records

\* When the loop of _purge_expired ends, no row left had expired at its start.
LEMMA PurgedAll ==
    ASSUME IInv, NEW c \in Callers, NEW name, Purged(c, name)
    PROVE  \A row \in Range(data) : row.deadline > now[c]
<1>1. data \in Seq(Rows) /\ Ordered(data) /\ now[c] \in Int
  BY StoreAssumption DEF IInv, TypeOK
<1>2. CASE data = <<>>
  BY <1>2 DEF Range
<1>3. CASE data # <<>>
  <2>1. /\ Head(data) \in Rows
        /\ \A row \in Range(data) : Head(data).deadline <= row.deadline
    BY <1>1, <1>3, TailRows
  <2>2. ~(Head(data).deadline <= now[c])
    BY <1>3 DEF Purged, IsExpired
  <2>3. \A row \in Range(data) : row \in Rows
    BY <1>1 DEF Range
  <2>4. \A row \in Rows : row.deadline \in Int
    BY StoreAssumption DEF Rows, Deadlines
  <2>5. QED
    BY <1>1, <2>1, <2>2, <2>3, <2>4
<1>4. QED
  BY <1>2, <1>3

\* The end of a call frees the lock: no caller is then inside a call.
LEMMA ReturnPreserves ==
    ASSUME IInv, NEW c \in Callers, pc[c] # "idle",
           NEW value \in Records \cup Texts \cup {None}, Return(c, value),
           clock' = clock, data' \in Seq(Rows), Ordered(data'),
           \A row \in Range(data') : row.deadline <= clock + Ttl
    PROVE  IInv'
<1>1. \A o \in Callers : o # c => pc[o] = "idle" /\ op[o] = None
  BY OnlyCaller
<1>2. \A o \in Callers : pc'[o] = "idle" /\ op'[o] = None
  BY <1>1 DEF Return, IInv, TypeOK
<1>3. TypeOK'
  BY StoreAssumption DEF Return, IInv, TypeOK
<1>4. Locked'
  <2>1. \A o \in Callers : now'[o] <= clock'
    BY StoreAssumption DEF Return, IInv, TypeOK, Locked
  <2>2. \A o \in Callers : lock' # o
    BY StoreAssumption DEF Return
  <2>3. QED
    BY <1>2, <2>1, <2>2 DEF Locked
<1>5. Prepared'
  BY <1>2 DEF Prepared
<1>6. QED
  BY <1>3, <1>4, <1>5 DEF IInv

\* A call that goes on to _write holds the lock and has purged.
LEMMA GoesOnPreserves ==
    ASSUME IInv, NEW c \in Callers,
           NEW name \in {"set", "put_if_absent", "set_result"}, Purged(c, name),
           GoesOnToWrite(c), found' \in [Callers -> Records \cup {None}],
           name = "put_if_absent" => Places(data, op[c].id) = {},
           name = "set_result" => found'[c] = Lookup(data, op[c].id)
    PROVE  IInv'
<1>1. pc[c] = "purge" /\ op[c].name = name
  BY DEF Purged
<1>2. \A o \in Callers : o # c => pc[o] = "idle" /\ op[o] = None
  BY <1>1, OnlyCaller
<1>3. \A row \in Range(data) : row.deadline > now[c]
  BY PurgedAll
<1>4. TypeOK'
  BY DEF GoesOnToWrite, IInv, TypeOK
<1>5. Locked'
  BY <1>1 DEF GoesOnToWrite, IInv, TypeOK, Locked
<1>6. Prepared'
  <2>1. \A o \in Callers : pc'[o] = "write" => o = c
    BY <1>2 DEF GoesOnToWrite, IInv, TypeOK
  <2>2. Places(data', op'[c].id) = Places(data, op[c].id)
    BY DEF GoesOnToWrite, Places
  <2>3. Lookup(data', op'[c].id) = Lookup(data, op[c].id)
    BY DEF GoesOnToWrite
  <2>4. data' = data /\ op' = op /\ now' = now
    BY DEF GoesOnToWrite
  <2>5. QED
    BY <1>1, <1>3, <2>1, <2>2, <2>3, <2>4 DEF Prepared
<1>7. (Ordered(data) /\ \A row \in Range(data) : row.deadline <= clock + Ttl)'
  BY DEF GoesOnToWrite, IInv
<1>8. QED
  BY <1>4, <1>5, <1>6, <1>7 DEF IInv

\* Time only passes.
LEMMA TickPreserves == IInv /\ Tick => IInv'
<1> SUFFICES ASSUME IInv, Tick PROVE IInv'
  OBVIOUS
<1>1. clock \in Int /\ clock' = clock + 1 /\ clock' \in 0..MaxClock
  BY StoreAssumption DEF Tick, IInv, TypeOK
<1>2. TypeOK'
  BY <1>1 DEF Tick, IInv, TypeOK
<1>3. \A row \in Range(data) : row.deadline <= clock' + Ttl
  <2>1. \A row \in Range(data) : row \in Rows
    BY DEF IInv, TypeOK, Range
  <2>2. \A row \in Rows : row.deadline \in Int
    BY StoreAssumption DEF Rows, Deadlines
  <2>3. QED
    BY <1>1, <2>1, <2>2, StoreAssumption DEF IInv
<1>4. Locked'
  BY <1>1, StoreAssumption DEF Tick, IInv, TypeOK, Locked
<1>5. (Ordered(data) /\ Prepared)'
  BY DEF Tick, IInv, Prepared, Ordered, Places, Lookup
<1>6. QED
  BY <1>2, <1>3, <1>4, <1>5 DEF IInv, Tick

\* Only a caller that finds the lock free begins a call.
LEMMA BeginPreserves ==
    ASSUME IInv, NEW c \in Callers, NEW call \in Calls, Begin(c, call)
    PROVE  IInv'
<1>1. \A o \in Callers : pc[o] = "idle"
  BY StoreAssumption DEF Begin, LockIsFree, IInv, Locked
<1>2. TypeOK'
  BY DEF Begin, IInv, TypeOK
<1>3. Locked'
  <2>1. call # None
    BY StoreAssumption
  <2>2. clock <= clock
    BY StoreAssumption DEF IInv, TypeOK
  <2>3. QED
    BY <1>1, <2>1, <2>2, StoreAssumption DEF Begin, IInv, TypeOK, Locked, LockIsFree
<1>4. Prepared'
  BY <1>1 DEF Begin, IInv, TypeOK, Prepared
<1>5. QED
  BY <1>2, <1>3, <1>4 DEF IInv, Begin, Ordered

\* popitem keeps the dict ordered.
LEMMA PurgeOnePreserves ==
    ASSUME IInv, NEW c \in Callers, PurgeOne(c)
    PROVE  IInv'
<1>1. /\ data' \in Seq(Rows) /\ Ordered(data')
      /\ Range(data') = Range(data) \ {Head(data)}
  BY TailRows DEF PurgeOne, IInv, TypeOK
<1>2. \A o \in Callers : pc[o] # "write"
  BY OnlyCaller DEF PurgeOne
<1>3. TypeOK' /\ Locked'
  BY <1>1 DEF PurgeOne, IInv, TypeOK, Locked
<1>4. Prepared'
  BY <1>2 DEF PurgeOne, Prepared
<1>5. QED
  BY <1>1, <1>3, <1>4 DEF PurgeOne, IInv

\* The record _write is given is one, and its deadline the latest of all.
LEMMA NewRow ==
    ASSUME IInv, NEW c \in Callers, pc[c] = "write"
    PROVE  LET row == [id |-> op[c].id, deadline |-> clock + Ttl, data |-> Input(c)]
           IN  /\ row \in Rows /\ Input(c) \in Records
               /\ \A r \in Range(data) : r.deadline <= row.deadline
<1>1. op[c] \in Calls /\ op[c].name \in {"set", "put_if_absent", "set_result"}
  BY OnlyCaller DEF IInv, Prepared
<1>2. Input(c) \in Records
  <2>1. CASE op[c].name = "set_result"
    <3>1. op[c].input \in Texts /\ found[c] \in Records \cup {None}
      BY <1>1, <2>1, CallFields DEF IInv, TypeOK
    <3>2. QED
      BY <2>1, <3>1 DEF Input, Remasked, Records
  <2>2. CASE op[c].name # "set_result"
    BY <1>1, <2>2, CallFields DEF Input
  <2>3. QED
    BY <2>1, <2>2
<1>3. op[c].id \in Ids
  BY <1>1, CallFields
<1>4. clock + Ttl \in Deadlines
  BY StoreAssumption DEF IInv, TypeOK, Deadlines
<1>5. QED
  BY <1>2, <1>3, <1>4 DEF IInv, Rows

\* _write keeps the dict ordered, because the new deadline is the latest.
LEMMA WritePreserves ==
    ASSUME IInv, NEW c \in Callers, Write(c)
    PROVE  IInv'
<1> DEFINE row == [id |-> op[c].id, deadline |-> clock + Ttl, data |-> Input(c)]
<1>1. /\ pc[c] = "write" /\ data' = Written(data, row) /\ clock' = clock
      /\ Return(c, IF op[c].name = "put_if_absent" THEN op[c].input ELSE None)
  BY DEF Write
<1>2. row \in Rows /\ \A r \in Range(data) : r.deadline <= row.deadline
  BY <1>1, NewRow
<1>3. row.deadline <= clock + Ttl
  BY StoreAssumption DEF IInv, TypeOK
<1> HIDE DEF row
<1>4. /\ data' \in Seq(Rows) /\ Ordered(data')
      /\ Range(data') = {r \in Range(data) : r.id # row.id} \cup {row}
  BY <1>1, <1>2, WrittenRows DEF IInv, TypeOK
<1>5. \A r \in Range(data') : r.deadline <= clock + Ttl
  BY <1>3, <1>4 DEF IInv
<1>6. (IF op[c].name = "put_if_absent" THEN op[c].input ELSE None)
          \in Records \cup Texts \cup {None}
  BY <1>1, OnlyCaller, CallFields
<1>7. QED
  BY <1>1, <1>4, <1>5, <1>6, ReturnPreserves

\* Every step of a call keeps the invariant.
LEMMA CallStepPreserves ==
    ASSUME IInv, NEW c \in Callers, CallStep(c)
    PROVE  IInv'
<1>1. CASE \E call \in Calls : Begin(c, call)
  BY <1>1, BeginPreserves
<1>2. CASE PurgeOne(c)
  BY <1>2, PurgeOnePreserves
<1>3. ASSUME NEW name, Purged(c, name), NEW value \in Records \cup Texts \cup {None},
             Return(c, value), UNCHANGED <<clock, data>>
      PROVE  IInv'
  <2>1. pc[c] # "idle"
    BY <1>3 DEF Purged
  <2>2. /\ clock' = clock /\ data' \in Seq(Rows) /\ Ordered(data')
        /\ \A row \in Range(data') : row.deadline <= clock + Ttl
    BY <1>3 DEF IInv, TypeOK, Ordered, Range
  <2>3. QED
    BY <1>3, <2>1, <2>2, ReturnPreserves
<1>4. \A i : Lookup(data, i) \in Records \cup {None}
  BY LookupType DEF IInv, TypeOK
<1>5. CASE Get(c)
  BY <1>3, <1>4, <1>5 DEF Get
<1>6. CASE GetResult(c)
  <2>1. Mask(Lookup(data, op[c].id)) \in Texts \cup {None}
    BY <1>4, MaskType
  <2>2. QED
    BY <1>3, <1>6, <2>1 DEF GetResult
<1>7. CASE PutFinds(c)
  BY <1>3, <1>4, <1>7 DEF PutFinds
<1>8. CASE PutMisses(c)
  BY <1>8, GoesOnPreserves DEF PutMisses, IInv, TypeOK
<1>9. CASE SetWrites(c)
  BY <1>9, GoesOnPreserves DEF SetWrites, IInv, TypeOK
<1>10. CASE SetResultReads(c)
  <2>1. /\ found' \in [Callers -> Records \cup {None}]
        /\ found'[c] = Lookup(data, op[c].id)
    BY <1>4, <1>10 DEF SetResultReads, IInv, TypeOK
  <2>2. QED
    BY <1>10, <2>1, GoesOnPreserves DEF SetResultReads
<1>11. CASE Write(c)
  BY <1>11, WritePreserves
<1>12. QED
  BY <1>1, <1>2, <1>5, <1>6, <1>7, <1>8, <1>9, <1>10, <1>11 DEF CallStep

\* A step that changes nothing keeps the invariant.
LEMMA StutterPreserves == IInv /\ UNCHANGED vars => IInv'
BY DEF vars, IInv, TypeOK, Ordered, Locked, Prepared, Places, Lookup, Range

\* The invariant holds in every reachable state, for every set of ids, texts and
\* callers of the store and every time to live.
THEOREM StoreInvariance == Spec => []IInv
<1>1. Init => IInv
  BY InitIInv
<1>2. IInv /\ [Next]_vars => IInv'
  BY TickPreserves, CallStepPreserves, StutterPreserves DEF Next
<1>3. QED
  BY <1>1, <1>2, PTL DEF Spec

\* Every variable of the memory store keeps its type.
THEOREM TypeCorrect == Spec => []TypeOK
<1>1. IInv => TypeOK
  BY DEF IInv
<1>2. QED
  BY <1>1, StoreInvariance, PTL

\* Whatever mix of get, set, put_if_absent and set_result runs, the rows of _data
\* are in the order of their deadlines: the early break of _purge_expired relies
\* on it, and move_to_end of _write keeps it.
THEOREM SortedByDeadline == Spec => []DeadlinesSorted
<1>1. IInv => DeadlinesSorted
  BY DEF IInv, Ordered, DeadlinesSorted
<1>2. QED
  BY <1>1, StoreInvariance, PTL

\* When _purge_expired stops at the first row still alive, no row behind it had
\* expired either.
THEOREM PurgeFindsAll == Spec => []PurgeIsComplete
<1>1. ASSUME IInv PROVE PurgeIsComplete
  <2> SUFFICES ASSUME NEW c \in Callers,
                      \/ pc[c] = "write"
                      \/ pc[c] = "purge" /\ (data = <<>> \/ data[1].deadline > now[c]),
                      NEW p \in DOMAIN data
               PROVE  data[p].deadline > now[c]
    BY DEF PurgeIsComplete
  <2>1. CASE pc[c] = "write"
    BY <1>1, <2>1 DEF IInv, Prepared, Range
  <2>2. CASE pc[c] = "purge" /\ (data = <<>> \/ data[1].deadline > now[c])
    <3>1. data \in Seq(Rows) /\ now[c] \in Int /\ data # <<>> /\ data[p] \in Rows
      BY <1>1, StoreAssumption DEF IInv, TypeOK
    <3>2. Head(data).deadline <= data[p].deadline /\ Head(data) \in Rows
      BY <1>1, <3>1, TailRows DEF IInv, Range
    <3>3. Head(data).deadline > now[c]
      BY <2>2, <3>1
    <3>4. \A row \in Rows : row.deadline \in Int
      BY StoreAssumption DEF Rows, Deadlines
    <3>5. QED
      BY <3>1, <3>2, <3>3, <3>4
  <2>3. QED
    BY <2>1, <2>2
<1>2. QED
  BY <1>1, StoreInvariance, PTL

-----------------------------------------------------------------------------
(* The ordered dict as the map of TtlStore.                                *)

\* Each row of the dict is the entry of its id; an id without a row has none.
LEMMA MapFacts ==
    ASSUME NEW d \in Seq(Rows), Ordered(d)
    PROVE  /\ DOMAIN AsMap(d) = Ids
           /\ \A row \in Range(d) :
                 AsMap(d)[row.id] = [data |-> row.data, deadline |-> row.deadline]
           /\ \A i \in Ids :
                 (\A row \in Range(d) : row.id # i) => AsMap(d)[i] = None
<1>1. ASSUME NEW p \in DOMAIN d
      PROVE  AsMap(d)[d[p].id] = [data |-> d[p].data, deadline |-> d[p].deadline]
  <2>1. Places(d, d[p].id) = {p}
    BY RowFacts
  <2>2. (CHOOSE q \in Places(d, d[p].id) : TRUE) = p
    BY <2>1
  <2>3. d[p] \in Rows
    OBVIOUS
  <2>4. d[p].id \in Ids
    BY <2>3 DEF Rows
  <2>5. QED
    BY <2>1, <2>2, <2>4 DEF AsMap
<1>2. ASSUME NEW i \in Ids, \A row \in Range(d) : row.id # i PROVE AsMap(d)[i] = None
  <2>1. Places(d, i) = {}
    BY <1>2, RowFacts
  <2>2. QED
    BY <2>1 DEF AsMap
<1>3. DOMAIN AsMap(d) = Ids
  BY DEF AsMap
<1>4. \A row \in Range(d) :
         AsMap(d)[row.id] = [data |-> row.data, deadline |-> row.deadline]
  <2> SUFFICES ASSUME NEW row \in Range(d)
               PROVE  AsMap(d)[row.id] = [data |-> row.data, deadline |-> row.deadline]
    OBVIOUS
  <2>1. PICK p \in DOMAIN d : row = d[p]
    BY DEF Range
  <2>2. QED
    BY <1>1, <2>1
<1>5. QED
  BY <1>2, <1>3, <1>4

\* What a call finds in the dict once it has purged is what TtlStore lets it find.
LEMMA FindsLookup ==
    ASSUME IInv, NEW c \in Callers, NEW i \in Ids,
           \A row \in Range(data) : row.deadline > now[c]
    PROVE  Contract!Finds(c, i, Lookup(data, i))
<1>1. data \in Seq(Rows) /\ Ordered(data)
  BY DEF IInv, TypeOK
<1>2. CASE \A row \in Range(data) : row.id # i
  <2>1. Lookup(data, i) = None
    BY <1>1, <1>2, RowFacts DEF Lookup
  <2>2. AsMap(data)[i] = None
    BY <1>1, <1>2, MapFacts
  <2>3. QED
    BY <2>1, <2>2 DEF Contract!Finds
<1>3. CASE \E row \in Range(data) : row.id = i
  <2>1. PICK row \in Range(data) : row.id = i
    BY <1>3
  <2>2. Lookup(data, i) = row.data
    BY <1>1, <2>1, RowFacts
  <2>3. AsMap(data)[i] = [data |-> row.data, deadline |-> row.deadline]
    BY <1>1, <2>1, MapFacts
  <2>4. [data |-> row.data, deadline |-> row.deadline] # None
    <3>1. row \in Rows
      BY <1>1, <2>1 DEF Range
    <3>2. [data |-> row.data, deadline |-> row.deadline]
              \in [data : Records, deadline : Deadlines]
      BY <3>1 DEF Rows
    <3>3. QED
      BY <3>2, StoreAssumption
  <2>5. QED
    BY <2>1, <2>2, <2>3, <2>4 DEF Contract!Finds
<1>4. QED
  BY <1>2, <1>3

\* popitem is an expiry of the map.
LEMMA MapOfTail ==
    ASSUME NEW d \in Seq(Rows), d # <<>>, Ordered(d)
    PROVE  AsMap(Tail(d)) = [AsMap(d) EXCEPT ![Head(d).id] = None]
<1> DEFINE h == Head(d)
           t == Tail(d)
<1>1. /\ t \in Seq(Rows) /\ Ordered(t) /\ h \in Rows /\ h \in Range(d)
      /\ Range(t) = Range(d) \ {h}
  BY TailRows
<1>2. \A r \in Range(t) : r.id # h.id
  BY <1>1 DEF Range, Ordered
<1> HIDE DEF h, t
<1>3. ASSUME NEW i \in Ids PROVE AsMap(t)[i] = [AsMap(d) EXCEPT ![h.id] = None][i]
  <2>1. CASE i = h.id
    BY <1>1, <1>2, <2>1, MapFacts
  <2>2. CASE i # h.id /\ \E r \in Range(t) : r.id = i
    <3>1. PICK r \in Range(t) : r.id = i
      BY <2>2
    <3>2. r \in Range(d) /\ r \in Range(t)
      BY <1>1, <3>1
    <3>3. AsMap(d)[r.id] = [data |-> r.data, deadline |-> r.deadline]
      BY <3>2, MapFacts
    <3>4. AsMap(t)[r.id] = [data |-> r.data, deadline |-> r.deadline]
      BY <1>1, <3>2, MapFacts
    <3>5. AsMap(t)[i] = AsMap(d)[i]
      BY <3>1, <3>3, <3>4
    <3>6. QED
      BY <2>2, <3>5, MapFacts
  <2>3. CASE i # h.id /\ \A r \in Range(t) : r.id # i
    <3>1. \A r \in Range(d) : r.id # i
      BY <1>1, <2>3
    <3>2. QED
      BY <1>1, <2>3, <3>1, MapFacts
  <2>4. QED
    BY <2>1, <2>2, <2>3
<1>4. QED
  BY <1>1, <1>3, MapFacts DEF AsMap, h, t

\* _write is a write to the map.
LEMMA MapOfWritten ==
    ASSUME NEW d \in Seq(Rows), NEW row \in Rows, Ordered(d),
           \A r \in Range(d) : r.deadline <= row.deadline
    PROVE  AsMap(Written(d, row)) =
               [AsMap(d) EXCEPT ![row.id] =
                   [data |-> row.data, deadline |-> row.deadline]]
<1> DEFINE w == Written(d, row)
           entry == [data |-> row.data, deadline |-> row.deadline]
<1>1. /\ w \in Seq(Rows) /\ Ordered(w)
      /\ Range(w) = {r \in Range(d) : r.id # row.id} \cup {row}
  BY WrittenRows
<1> HIDE DEF w
<1>2. ASSUME NEW i \in Ids
      PROVE  AsMap(w)[i] = [AsMap(d) EXCEPT ![row.id] = entry][i]
  <2>1. CASE i = row.id
    BY <1>1, <2>1, MapFacts
  <2>2. CASE i # row.id /\ \E r \in Range(d) : r.id = i
    <3>1. PICK r \in Range(d) : r.id = i
      BY <2>2
    <3>2. r \in Range(d) /\ r \in Range(w)
      BY <1>1, <2>2, <3>1
    <3>3. AsMap(d)[r.id] = [data |-> r.data, deadline |-> r.deadline]
      BY <3>2, MapFacts
    <3>4. AsMap(w)[r.id] = [data |-> r.data, deadline |-> r.deadline]
      BY <1>1, <3>2, MapFacts
    <3>5. AsMap(w)[i] = AsMap(d)[i]
      BY <3>1, <3>3, <3>4
    <3>6. QED
      BY <2>2, <3>5, MapFacts
  <2>3. CASE i # row.id /\ \A r \in Range(d) : r.id # i
    BY <1>1, <2>3, MapFacts
  <2>4. QED
    BY <2>1, <2>2, <2>3
<1>3. QED
  BY <1>1, <1>2, MapFacts DEF AsMap, w

-----------------------------------------------------------------------------
(* The store implements TtlStore.                                          *)

\* The empty dict is the empty map.
LEMMA InitContract == Init => Contract!Init
<1> SUFFICES ASSUME Init PROVE Contract!Init
  OBVIOUS
<1>1. \A i \in Ids : Places(data, i) = {}
  BY DEF Init, Places
<1>2. AsMap(data) = [i \in Ids |-> None]
  BY <1>1 DEF AsMap
<1>3. QED
  BY <1>2 DEF Init, Contract!Init

\* The end of a call that has purged and writes nothing.
LEMMA ReadContract ==
    ASSUME IInv, NEW c \in Callers, NEW name, Purged(c, name),
           NEW value, Return(c, value), UNCHANGED <<clock, data>>
    PROVE  /\ Contract!Calling(c, name)
           /\ Contract!Return(c, value)
           /\ Contract!Finds(c, op[c].id, Lookup(data, op[c].id))
           /\ Lookup(data, op[c].id) \in Records \cup {None}
           /\ AsMap(data)' = AsMap(data)
<1>1. pc[c] = "purge" /\ op[c].name = name
  BY DEF Purged
<1>2. op[c] \in Calls
  BY <1>1, OnlyCaller
<1>3. op[c] # None /\ op[c].id \in Ids
  BY <1>2, StoreAssumption, CallFields
<1>4. Contract!Calling(c, name)
  BY <1>1, <1>3 DEF Contract!Calling
<1>5. Contract!Return(c, value)
  BY DEF Contract!Return, Return
<1>6. Contract!Finds(c, op[c].id, Lookup(data, op[c].id))
  BY <1>3, PurgedAll, FindsLookup
<1>7. AsMap(data)' = AsMap(data)
  OBVIOUS
<1>8. QED
  BY <1>4, <1>5, <1>6, <1>7, LookupType DEF IInv, TypeOK

\* A _write is a set, a set_result, or a put_if_absent that found nothing.
LEMMA WriteContract ==
    ASSUME IInv, NEW c \in Callers, Write(c)
    PROVE  Contract!Set(c) \/ Contract!SetResult(c) \/ Contract!PutIfAbsent(c)
<1> DEFINE row == [id |-> op[c].id, deadline |-> clock + Ttl, data |-> Input(c)]
<1>1. /\ pc[c] = "write" /\ data' = Written(data, row) /\ clock' = clock
      /\ Return(c, IF op[c].name = "put_if_absent" THEN op[c].input ELSE None)
  BY DEF Write
<1>2. row \in Rows /\ \A r \in Range(data) : r.deadline <= row.deadline
  BY <1>1, NewRow
<1>3. AsMap(data)' = [AsMap(data) EXCEPT ![row.id] =
                         [data |-> row.data, deadline |-> row.deadline]]
  <2>1. AsMap(data)' = AsMap(Written(data, row))
    BY <1>1
  <2>2. data \in Seq(Rows) /\ Ordered(data)
    BY DEF IInv, TypeOK
  <2> HIDE DEF row
  <2>3. QED
    BY <1>2, <2>1, <2>2, MapOfWritten
<1>4. Contract!Put(op[c].id, Input(c))
  BY <1>3 DEF Contract!Put
<1>5. /\ op[c] \in Calls /\ op[c] # None /\ op[c].id \in Ids
      /\ op[c].name \in {"set", "put_if_absent", "set_result"}
      /\ \A r \in Range(data) : r.deadline > now[c]
      /\ op[c].name = "put_if_absent" => Places(data, op[c].id) = {}
      /\ op[c].name = "set_result" => found[c] = Lookup(data, op[c].id)
  BY <1>1, OnlyCaller, StoreAssumption, CallFields DEF IInv, Prepared
<1>6. Contract!Finds(c, op[c].id, Lookup(data, op[c].id))
  BY <1>5, FindsLookup
<1>7. ASSUME NEW value, Return(c, value) PROVE Contract!Return(c, value)
  BY <1>1, <1>7 DEF Return, Contract!Return
<1>8. CASE op[c].name = "set"
  BY <1>1, <1>4, <1>5, <1>7, <1>8 DEF Contract!Set, Contract!Calling, Input
<1>9. CASE op[c].name = "set_result"
  <2>1. Lookup(data, op[c].id) \in Contract!Records \cup {None}
    BY LookupType DEF IInv, TypeOK, Contract!Records, Records
  <2>2. Input(c) = Contract!Remasked(Lookup(data, op[c].id), op[c].input)
    BY <1>5, <1>9 DEF Input, Remasked, Contract!Remasked
  <2>3. Return(c, None)
    BY <1>1, <1>9
  <2>4. QED
    BY <1>4, <1>5, <1>6, <1>7, <1>9, <2>1, <2>2, <2>3
    DEF Contract!SetResult, Contract!Calling
<1>10. CASE op[c].name = "put_if_absent"
  <2>1. Lookup(data, op[c].id) = None
    BY <1>5, <1>10 DEF Lookup
  <2>2. Input(c) = op[c].input
    BY <1>10 DEF Input
  <2>3. QED
    BY <1>1, <1>4, <1>5, <1>6, <1>7, <1>10, <2>1, <2>2
    DEF Contract!PutIfAbsent, Contract!Calling
<1>11. QED
  BY <1>5, <1>8, <1>9, <1>10

\* A step of a call is a step of TtlStore or changes nothing it can see.
LEMMA CallContract ==
    ASSUME IInv, NEW c \in Callers, CallStep(c)
    PROVE  Contract!Next \/ UNCHANGED Contract!vars
<1>1. CASE \E call \in Calls : Begin(c, call)
  <2>1. PICK call \in Calls : Begin(c, call)
    BY <1>1
  <2>2. op[c] = None
    BY <2>1 DEF Begin, IInv, Locked
  <2>3. call \in Contract!Calls
    BY DEF Calls, Contract!Calls
  <2>4. Contract!Begin(c, call)
    BY <2>1, <2>2, <2>3 DEF Begin, Contract!Begin
  <2>5. QED
    BY <2>3, <2>4 DEF Contract!Next
<1>2. CASE PurgeOne(c)
  <2> DEFINE h == Head(data)
  <2>1. /\ data \in Seq(Rows) /\ Ordered(data) /\ data # <<>>
        /\ h \in Rows /\ h \in Range(data) /\ data' = Tail(data)
    BY <1>2, TailRows DEF IInv, TypeOK, PurgeOne
  <2>2. AsMap(data)' = [AsMap(data) EXCEPT ![h.id] = None]
    BY <2>1, MapOfTail
  <2>3. AsMap(data)[h.id] = [data |-> h.data, deadline |-> h.deadline]
    BY <2>1, MapFacts
  <2>4. h.deadline <= clock
    <3>1. h.deadline <= now[c] /\ now[c] <= clock
      BY <1>2 DEF PurgeOne, IsExpired, IInv, Locked
    <3>2. h.deadline \in Int /\ now[c] \in Int /\ clock \in Int
      BY <2>1, StoreAssumption DEF IInv, TypeOK, Rows, Deadlines
    <3>3. QED
      BY <3>1, <3>2
  <2>5. [data |-> h.data, deadline |-> h.deadline] # None
    <3>1. [data |-> h.data, deadline |-> h.deadline]
              \in [data : Records, deadline : Deadlines]
      BY <2>1 DEF Rows
    <3>2. QED
      BY <3>1, StoreAssumption
  <2>6. h.id \in Ids
    BY <2>1 DEF Rows
  <2> HIDE DEF h
  <2>7. Contract!Expire(h.id)
    BY <1>2, <2>2, <2>3, <2>4, <2>5 DEF PurgeOne, Contract!Expire
  <2>8. QED
    BY <2>6, <2>7 DEF Contract!Next
<1>3. Records = Contract!Records
  BY DEF Records, Contract!Records
<1>4. CASE Get(c)
  <2>1. Purged(c, "get") /\ Return(c, Lookup(data, op[c].id)) /\ UNCHANGED <<clock, data>>
    BY <1>4 DEF Get
  <2>2. Contract!Get(c)
    BY <1>3, <2>1, ReadContract DEF Contract!Get
  <2>3. QED
    BY <2>2 DEF Contract!Next
<1>5. CASE GetResult(c)
  <2> DEFINE record == Lookup(data, op[c].id)
  <2>1. Purged(c, "get_result") /\ Return(c, Mask(record)) /\ UNCHANGED <<clock, data>>
    BY <1>5 DEF GetResult
  <2>2. Mask(record) = Contract!Mask(record)
    BY DEF Mask, Contract!Mask
  <2>3. /\ Contract!Calling(c, "get_result") /\ Contract!Return(c, Mask(record))
        /\ Contract!Finds(c, op[c].id, record) /\ record \in Records \cup {None}
        /\ AsMap(data)' = AsMap(data)
    BY <2>1, ReadContract
  <2> HIDE DEF record
  <2>4. Contract!GetResult(c)
    BY <1>3, <2>2, <2>3 DEF Contract!GetResult
  <2>5. QED
    BY <2>4 DEF Contract!Next
<1>6. CASE PutFinds(c)
  <2> DEFINE record == Lookup(data, op[c].id)
  <2>1. /\ Purged(c, "put_if_absent") /\ Return(c, record) /\ UNCHANGED <<clock, data>>
        /\ Places(data, op[c].id) # {}
    BY <1>6 DEF PutFinds
  <2>2. /\ Contract!Calling(c, "put_if_absent") /\ Contract!Return(c, record)
        /\ Contract!Finds(c, op[c].id, record)
        /\ AsMap(data)' = AsMap(data)
    BY <2>1, ReadContract
  <2>3. record \in Records
    <3>1. PICK row \in Range(data) : row.id = op[c].id
      BY <2>1 DEF Places, Range
    <3>2. data \in Seq(Rows) /\ Ordered(data)
      BY DEF IInv, TypeOK
    <3>3. row \in Rows
      BY <3>1, <3>2 DEF Range
    <3>4. record = row.data
      BY <3>1, <3>2, RowFacts
    <3>5. QED
      BY <3>3, <3>4 DEF Rows
  <2> HIDE DEF record
  <2>4. Contract!PutIfAbsent(c)
    BY <1>3, <2>2, <2>3 DEF Contract!PutIfAbsent
  <2>5. QED
    BY <2>4 DEF Contract!Next
<1>7. CASE PutMisses(c) \/ SetWrites(c) \/ SetResultReads(c)
  BY <1>7 DEF PutMisses, SetWrites, SetResultReads, GoesOnToWrite, Contract!vars
<1>8. CASE Write(c)
  BY <1>8, WriteContract DEF Contract!Next
<1>9. QED
  BY <1>1, <1>2, <1>4, <1>5, <1>6, <1>7, <1>8 DEF CallStep

\* MemoryCorrelationStore keeps the promise of the CorrelationStore protocol: each
\* of its calls, spread over the turns of _purge_expired and the write and run
\* beside the calls of other threads, acts as one atomic step on a map of records
\* that expire.
THEOREM StoreKeepsContract == Spec => KeepsContract
<1>1. Init => Contract!Init
  BY InitContract
<1>2. IInv /\ [Next]_vars => [Contract!Next]_(Contract!vars)
  <2>1. ASSUME IInv, Tick PROVE Contract!Next
    <3>1. clock' > clock
      BY <2>1, StoreAssumption DEF Tick, IInv, TypeOK
    <3>2. Contract!Tick
      BY <2>1, <3>1 DEF Tick, Contract!Tick
    <3>3. QED
      BY <3>2 DEF Contract!Next
  <2>2. ASSUME UNCHANGED vars PROVE UNCHANGED Contract!vars
    BY <2>2 DEF vars, Contract!vars
  <2>3. QED
    BY <2>1, <2>2, CallContract DEF Next
<1>3. QED
  BY <1>1, <1>2, StoreInvariance, PTL DEF Spec, KeepsContract, Contract!Spec

=============================================================================
