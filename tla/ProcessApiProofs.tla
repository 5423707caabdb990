-------------------------- MODULE ProcessApiProofs --------------------------
(***************************************************************************)
(* Proofs about ProcessApi for every set of requests, processes, ids and   *)
(* texts, whatever masks the detector gives, and without a bound on how    *)
(* often records expire or processes die but the model's own.              *)
(***************************************************************************)
EXTENDS ProcessApi, FiniteSetTheorems, TLAPS

-----------------------------------------------------------------------------
(* The inductive invariant.                                                *)

\* How far a request is, told by the handler, by its engine and by its answer.
Phases ==
    \A r \in Requests :
        /\ pc[r] = "idle" <=> ask[r] = None
        /\ pc[r] = "idle" <=> home[r] = None
        /\ pc[r] = "done" <=> status[r] # "none"
        /\ pc[r] = "submitted" <=> reply[r] = "waiting"
        /\ pc[r] \in {"idle", "reading", "checking"} => reply[r] = "idle"
        /\ pc[r] \in {"idle", "reading"} => record[r] = None
        /\ reply[r] # "idle" => record[r] = None
        /\ r \in open => reply[r] # "idle" /\ r \notin effect
        /\ r \in effect => reply[r] # "idle"
        /\ r \in effect <=> result[r] # None
        /\ reply[r] = "answered" => r \in effect

\* A verdict agrees with the stored record as long as none went.
Agreement ==
    \A r \in Requests :
        Verdict[r] # None /\ r \notin stale =>
            /\ store[ask[r].id] # None
            /\ Verdict[r] = Reply(store[ask[r].id], ask[r].payload)

\* A record of id i holds a payload that was sent for i, and a mask of it.
Origin(i, saved) ==
    \E s \in Requests :
        /\ ask[s] # None
        /\ ask[s].id = i
        /\ ask[s].payload = saved.original
        /\ saved.masked \in Masks[saved.original]

\* What OriginalOnlyForItsMask says of one text.
Justified(r, text) ==
    \E s \in Requests :
        /\ ask[s] # None
        /\ ask[s].id = ask[r].id
        /\ \/ text \in Masks[ask[s].payload]
           \/ /\ text = ask[s].payload
              /\ ask[r].payload \in Masks[ask[s].payload]

Sources ==
    /\ \A i \in Ids : store[i] # None => Origin(i, store[i])
    /\ \A r \in Requests : Verdict[r] # None => Justified(r, Verdict[r])

\* What a client is told is the verdict.
Truthful ==
    \A r \in Requests : Answered(r) => answer[r] = Verdict[r] /\ Verdict[r] # None

\* The requests a process has counted are finitely many, its own, and over.
Tallied ==
    /\ MetricsCountAnswers
    /\ \A p \in Processes :
          /\ IsFiniteSet(served[p])
          /\ \A r \in served[p] : home[r] = p /\ status[r] \in {"200", "429", "500"}

\* Only a 200 has a text.
Blank == \A r \in Requests : status[r] # "200" => answer[r] = None

IInv ==
    /\ TypeOK
    /\ Phases
    /\ Agreement
    /\ Sources
    /\ Truthful
    /\ Tallied

-----------------------------------------------------------------------------
(* The counters.                                                           *)

\* The requests of a process that got one status.
Got(p, how) == {r \in served[p] : status[r] = how}

\* One call of MetricsService adds one to the counters it is about.
Bump(k, kind) ==
    IF \/ k = "total"
       \/ k = kind
       \/ k = "successful" /\ kind \in {"masking", "unmasking"}
    THEN 1 ELSE 0

\* What it does to each counter.
LEMMA CountedFacts ==
    ASSUME NEW m \in [Counters -> Nat],
           NEW kind \in {"masking", "unmasking", "errors", "overloaded"}
    PROVE  /\ Counted(m, kind) \in [Counters -> Nat]
           /\ \A k \in Counters : Counted(m, kind)[k] = m[k] + Bump(k, kind)
<1>1. kind \in Counters /\ "total" \in Counters /\ "successful" \in Counters
  BY DEF Counters
<1>2. kind # "total" /\ kind # "successful"
  OBVIOUS
<1>3. \A k \in Counters : m[k] \in Nat
  OBVIOUS
<1>4. CASE kind \in {"masking", "unmasking"}
  <2>1. Counted(m, kind) =
            [k \in Counters |->
                IF k = kind \/ k = "successful" \/ k = "total" THEN m[k] + 1 ELSE m[k]]
    BY <1>1, <1>2, <1>4 DEF Counted
  <2>2. QED
    BY <1>3, <1>4, <2>1 DEF Bump
<1>5. CASE kind \notin {"masking", "unmasking"}
  <2>1. Counted(m, kind) =
            [k \in Counters |-> IF k = kind \/ k = "total" THEN m[k] + 1 ELSE m[k]]
    BY <1>1, <1>2, <1>5 DEF Counted
  <2>2. QED
    BY <1>3, <1>5, <2>1 DEF Bump
<1>6. QED
  BY <1>4, <1>5

\* A counter and a status that go together.
Matching(how, kind) ==
    \/ how = "200" /\ kind \in {"masking", "unmasking"}
    \/ how = "500" /\ kind = "errors"
    \/ how = "429" /\ kind = "overloaded"

\* The requests of other processes keep their statuses, so their counters fit.
LEMMA SameTally ==
    ASSUME NEW p \in Processes, Tallied, served'[p] = served[p],
           metrics'[p] = metrics[p], home' = home,
           \A r \in served[p] : status'[r] = status[r]
    PROVE  /\ \A how \in {"200", "429", "500"} : Got(p, how)' = Got(p, how)
           /\ IsFiniteSet(served'[p])
           /\ \A r \in served'[p] : home'[r] = p /\ status'[r] \in {"200", "429", "500"}
BY DEF Tallied, Got

\* MetricsCountAnswers in terms of Got.
Adds(p) ==
    /\ metrics[p].total = Cardinality(served[p])
    /\ metrics[p].total =
          metrics[p].successful + metrics[p].errors + metrics[p].overloaded
    /\ metrics[p].successful = metrics[p].masking + metrics[p].unmasking
    /\ metrics[p].successful = Cardinality(Got(p, "200"))
    /\ metrics[p].errors = Cardinality(Got(p, "500"))
    /\ metrics[p].overloaded = Cardinality(Got(p, "429"))

\* The two agree.
LEMMA AddsIsTallied == MetricsCountAnswers <=> \A p \in Processes : Adds(p)
BY DEF MetricsCountAnswers, Adds, Got

\* A request that is answered is counted once, under its status.
LEMMA FinishTallied ==
    ASSUME IInv, NEW r \in Requests, pc[r] \notin {"idle", "done"}, home' = home,
           NEW how, NEW kind, Matching(how, kind),
           NEW text, Finish(r, how, text, kind)
    PROVE  Tallied'
<1>1. PICK h \in Processes : h = home[r]
  BY DEF IInv, TypeOK, Phases
<1>2. status[r] = "none"
  BY DEF IInv, Phases
<1>3. \A p \in Processes : r \notin served[p]
  BY <1>2 DEF IInv, Tallied
<1>4. /\ status' = [status EXCEPT ![r] = how]
      /\ metrics' = [metrics EXCEPT ![h] = Counted(@, kind)]
      /\ served' = [served EXCEPT ![h] = @ \cup {r}]
  BY <1>1 DEF Finish
<1>5. ASSUME NEW p \in Processes, NEW s \in served[p] PROVE s # r /\ status'[s] = status[s]
  BY <1>3, <1>4, <1>5 DEF IInv, TypeOK
<1>6. ASSUME NEW p \in Processes, p # h
      PROVE  /\ Adds(p)' /\ IsFiniteSet(served'[p])
             /\ \A s \in served'[p] : home'[s] = p /\ status'[s] \in {"200", "429", "500"}
  <2>1. served'[p] = served[p] /\ metrics'[p] = metrics[p]
    BY <1>4, <1>6 DEF IInv, TypeOK
  <2>2. /\ \A k \in {"200", "429", "500"} : Got(p, k)' = Got(p, k)
        /\ IsFiniteSet(served'[p])
        /\ \A s \in served'[p] : home'[s] = p /\ status'[s] \in {"200", "429", "500"}
    BY <1>5, <2>1, SameTally DEF IInv
  <2>3. Adds(p)
    BY AddsIsTallied DEF IInv, Tallied
  <2>4. QED
    BY <2>1, <2>2, <2>3 DEF Adds
<1>7. /\ Adds(h)' /\ IsFiniteSet(served'[h])
      /\ \A s \in served'[h] : home'[s] = h /\ status'[s] \in {"200", "429", "500"}
  <2>1. how \in {"200", "429", "500"} /\ status'[r] = how
    BY <1>4 DEF Matching, IInv, TypeOK
  <2>2. served'[h] = served[h] \cup {r} /\ r \notin served[h] /\ IsFiniteSet(served[h])
    BY <1>1, <1>3, <1>4 DEF IInv, TypeOK, Tallied
  <2>3. /\ IsFiniteSet(served'[h])
        /\ Cardinality(served'[h]) = Cardinality(served[h]) + 1
    BY <2>2, FS_AddElement
  <2>4. ASSUME NEW k \in {"200", "429", "500"}
        PROVE  Cardinality(Got(h, k)') = Cardinality(Got(h, k)) + (IF k = how THEN 1 ELSE 0)
               /\ Cardinality(Got(h, k)) \in Nat
    <3>1. IsFiniteSet(Got(h, k)) /\ Cardinality(Got(h, k)) \in Nat
      <4>1. Got(h, k) \subseteq served[h]
        BY DEF Got
      <4>2. QED
        BY <2>2, <4>1, FS_Subset, FS_CardinalityType
    <3>2. CASE k = how
      <4>1. Got(h, k)' = Got(h, k) \cup {r} /\ r \notin Got(h, k)
        BY <1>5, <2>1, <2>2, <3>2 DEF Got
      <4>2. QED
        BY <3>1, <3>2, <4>1, FS_AddElement
    <3>3. CASE k # how
      <4>1. Got(h, k)' = Got(h, k)
        BY <1>5, <2>1, <2>2, <3>3 DEF Got
      <4>2. QED
        BY <3>1, <3>3, <4>1
    <3>4. QED
      BY <3>2, <3>3
  <2>5. metrics'[h] = Counted(metrics[h], kind) /\ metrics[h] \in [Counters -> Nat]
    BY <1>1, <1>4 DEF IInv, TypeOK
  <2>6. Adds(h)
    BY <1>1, AddsIsTallied DEF IInv, Tallied
  <2>7. kind \in {"masking", "unmasking", "errors", "overloaded"}
    BY DEF Matching
  <2>8. Adds(h)'
    <3>1. \A k \in Counters : /\ metrics[h][k] \in Nat
                              /\ metrics'[h][k] = metrics[h][k] + Bump(k, kind)
      BY <2>5, <2>7, CountedFacts
    <3>2. {"total", "successful", "masking", "unmasking", "errors", "overloaded"} = Counters
      BY DEF Counters
    <3>3. /\ Bump("total", kind) = 1
          /\ Bump("successful", kind) = (IF "200" = how THEN 1 ELSE 0)
          /\ Bump("errors", kind) = (IF "500" = how THEN 1 ELSE 0)
          /\ Bump("overloaded", kind) = (IF "429" = how THEN 1 ELSE 0)
          /\ Bump("masking", kind) + Bump("unmasking", kind) = Bump("successful", kind)
          /\ Bump("successful", kind) + Bump("errors", kind) + Bump("overloaded", kind) = 1
          /\ \A k \in Counters : Bump(k, kind) \in {0, 1}
      BY DEF Matching, Bump
    <3>4. /\ metrics'[h].total = Cardinality(served'[h])
          /\ metrics'[h].successful = Cardinality(Got(h, "200")')
          /\ metrics'[h].errors = Cardinality(Got(h, "500")')
          /\ metrics'[h].overloaded = Cardinality(Got(h, "429")')
      BY <2>3, <2>4, <2>6, <3>1, <3>2, <3>3 DEF Adds
    <3>5. metrics'[h].total =
              metrics'[h].successful + metrics'[h].errors + metrics'[h].overloaded
      BY <2>6, <3>1, <3>2, <3>3 DEF Adds
    <3>6. metrics'[h].successful = metrics'[h].masking + metrics'[h].unmasking
      BY <2>6, <3>1, <3>2, <3>3 DEF Adds
    <3>7. QED
      BY <3>4, <3>5, <3>6 DEF Adds
  <2>9. \A s \in served'[h] : home'[s] = h /\ status'[s] \in {"200", "429", "500"}
    BY <1>1, <1>5, <2>1, <2>2 DEF IInv, Tallied
  <2>10. QED
    BY <2>3, <2>8, <2>9
<1>8. \A p \in Processes : Adds(p)'
  BY <1>6, <1>7
<1>9. MetricsCountAnswers'
  BY <1>8 DEF MetricsCountAnswers, Adds, Got
<1>10. QED
  BY <1>6, <1>7, <1>9 DEF Tallied

-----------------------------------------------------------------------------
(* Verdicts and records.                                                   *)

\* A record's answer is a text.
LEMMA ReplyType ==
    ASSUME NEW saved \in Records, NEW payload
    PROVE  Reply(saved, payload) \in Texts
BY DEF Reply, Records

\* A verdict is a text or not there yet, and a record makes one.
LEMMA VerdictType ==
    ASSUME TypeOK, NEW r \in Requests
    PROVE  /\ Verdict[r] \in Texts \cup {None}
           /\ record[r] # None => Verdict[r] = Reply(record[r], ask[r].payload)
           /\ record[r] = None => Verdict[r] = result[r]
           /\ record[r] # None => Verdict[r] # None
<1>1. None \notin Texts
  BY ProcessAssumption
<1>2. CASE record[r] # None
  <2>1. record[r] \in Records /\ Verdict[r] = Reply(record[r], ask[r].payload)
    BY <1>2 DEF TypeOK, Verdict
  <2>2. QED
    BY <1>1, <1>2, <2>1, ReplyType
<1>3. CASE record[r] = None
  BY <1>3 DEF TypeOK, Verdict
<1>4. QED
  BY <1>2, <1>3

\* The answer of a record whose origin is known is justified.
LEMMA ReplyJustified ==
    ASSUME NEW r \in Requests, NEW saved \in Records, Origin(ask[r].id, saved)
    PROVE  Justified(r, Reply(saved, ask[r].payload))
<1>1. PICK s \in Requests :
          /\ ask[s] # None
          /\ ask[s].id = ask[r].id
          /\ ask[s].payload = saved.original
          /\ saved.masked \in Masks[saved.original]
  BY DEF Origin
<1>2. CASE ask[r].payload = saved.masked
  BY <1>1, <1>2 DEF Justified, Reply
<1>3. CASE ask[r].payload # saved.masked
  BY <1>1, <1>3 DEF Justified, Reply
<1>4. QED
  BY <1>2, <1>3

\* What a step leaves alone when it neither reads nor writes a record.
LEMMA ContentKept ==
    ASSUME IInv, UNCHANGED <<store, ask, record, result>>,
           \A r \in Requests : r \in stale => r \in stale'
    PROVE  /\ (Agreement /\ Sources)'
           /\ Verdict' = Verdict
<1>1. Verdict' = Verdict
  BY DEF Verdict
<1>2. Agreement'
  BY <1>1 DEF IInv, Agreement
<1>3. Sources'
  BY <1>1 DEF IInv, Sources, Origin, Justified
<1>4. QED
  BY <1>1, <1>2, <1>3

\* What a step leaves alone when it counts no request and ends none that was counted.
LEMMA TallyKept ==
    ASSUME IInv, UNCHANGED <<metrics, served>>,
           \A p \in Processes : \A r \in served[p] :
               home'[r] = home[r] /\ status'[r] = status[r]
    PROVE  Tallied'
<1>1. \A p \in Processes : \A how \in {"200", "429", "500"} : Got(p, how)' = Got(p, how)
  BY DEF Got
<1>2. \A p \in Processes : Adds(p)
  BY AddsIsTallied DEF IInv, Tallied
<1>3. \A p \in Processes : Adds(p)'
  BY <1>1, <1>2 DEF Adds
<1>4. MetricsCountAnswers'
  BY <1>3 DEF Adds, MetricsCountAnswers, Got
<1>5. QED
  BY <1>4 DEF IInv, Tallied

\* A request that is counted is over.
LEMMA CountedIsOver ==
    ASSUME IInv, NEW p \in Processes, NEW r \in served[p]
    PROVE  /\ status[r] # "none" /\ home[r] = p
           /\ r \in Requests /\ pc[r] = "done"
BY DEF IInv, Tallied, TypeOK, Phases

-----------------------------------------------------------------------------
(* The initial state and the steps.                                        *)

USE DEF requestVars, handlerVars, engineVars, answerVars, boundVars

\* No request has arrived.
LEMMA InitIInv == Init => IInv
<1> SUFFICES ASSUME Init PROVE IInv
  OBVIOUS
<1>1. TypeOK
  BY ProcessAssumption DEF Init, Engine!Init, TypeOK, Idle, Counters
<1>2. Phases
  BY DEF Init, Engine!Init, Phases
<1>3. Verdict = [r \in Requests |-> None]
  BY DEF Init, Verdict
<1>4. Agreement /\ Sources /\ Truthful
  BY <1>3 DEF Init, Agreement, Sources, Truthful, Answered
<1>5. \A p \in Processes : IsFiniteSet(served[p]) /\ Cardinality(served[p]) = 0
  BY FS_EmptySet DEF Init
<1>6. \A p \in Processes : \A how : Got(p, how) = {} /\ Cardinality(Got(p, how)) = 0
  BY FS_EmptySet DEF Init, Got
<1>7. \A p \in Processes : Adds(p)
  BY <1>5, <1>6 DEF Init, Adds, Idle
<1>8. Tallied
  BY <1>5, <1>7, AddsIsTallied DEF Init, Tallied
<1>9. QED
  BY <1>1, <1>2, <1>4, <1>8 DEF IInv

\* A request arrives: it may be the source of later records.
LEMMA ArrivePreserves ==
    ASSUME IInv, NEW r \in Requests, Arrive(r)
    PROVE  IInv'
<1>1. ask[r] = None /\ pc[r] = "idle" /\ record[r] = None /\ result[r] = None
  BY DEF Arrive, IInv, Phases
<1>2. TypeOK'
  BY DEF Arrive, IInv, TypeOK
<1>3. Phases'
  <2>1. ask'[r] # None /\ home'[r] # None
    BY ProcessAssumption DEF Arrive, IInv, TypeOK
  <2>2. QED
    BY <1>1, <2>1 DEF Arrive, IInv, TypeOK, Phases
<1>4. \A s \in Requests : ask[s] # None => ask'[s] = ask[s]
  BY <1>1 DEF Arrive, IInv, TypeOK
<1>5. \A s \in Requests : Verdict[s] # None => s # r
  BY <1>1 DEF Verdict
<1>6. Verdict' = Verdict
  <2>1. \A s \in Requests : record'[s] = record[s] /\ result'[s] = result[s]
    BY DEF Arrive
  <2>2. \A s \in Requests : s # r => ask'[s] = ask[s]
    BY DEF Arrive, IInv, TypeOK
  <2>3. QED
    BY <1>1, <2>1, <2>2 DEF Verdict
<1>7. \A s \in Requests : Verdict[s] # None => ask'[s] = ask[s]
  BY <1>5 DEF Arrive, IInv, TypeOK
<1>8. Agreement'
  BY <1>6, <1>7 DEF Arrive, IInv, Agreement
<1>9. Sources'
  <2>1. \A i, saved : Origin(i, saved) => Origin(i, saved)'
    BY <1>4 DEF Origin
  <2>2. ASSUME NEW s \in Requests, Verdict[s] # None, NEW text, Justified(s, text)
        PROVE  Justified(s, text)'
    BY <1>4, <1>7, <2>2 DEF Justified
  <2>3. \A s \in Requests : Verdict'[s] # None => Justified(s, Verdict[s])'
    BY <1>6, <2>2 DEF IInv, Sources
  <2>4. QED
    BY <1>6, <2>1, <2>3 DEF Arrive, IInv, Sources, Justified
<1>10. Truthful'
  BY <1>6 DEF Arrive, IInv, Truthful, Answered
<1>11. Tallied'
  <2>1. \A p \in Processes : \A s \in served[p] : s # r
    BY <1>1, CountedIsOver
  <2>2. \A p \in Processes : \A s \in served[p] : home'[s] = home[s] /\ status'[s] = status[s]
    BY <2>1 DEF Arrive, IInv, TypeOK
  <2>3. QED
    BY <2>2, TallyKept DEF Arrive
<1>12. QED
  BY <1>2, <1>3, <1>8, <1>9, <1>10, <1>11 DEF IInv

\* A record that is read is, at that moment, the stored one.
LEMMA ReadPreserves ==
    ASSUME IInv, NEW r \in Requests, Read(r)
    PROVE  IInv'
<1>1. /\ pc[r] = "reading" /\ ask[r] # None /\ ask[r] \in Asks /\ ask[r].id \in Ids
      /\ record[r] = None /\ result[r] = None /\ reply[r] = "idle"
  BY DEF Read, IInv, Phases, TypeOK, Asks
<1>2. record' = [record EXCEPT ![r] = store[ask[r].id]] /\ record'[r] = store[ask[r].id]
  BY DEF Read, IInv, TypeOK
<1>3. TypeOK'
  BY <1>1 DEF Read, IInv, TypeOK
<1>4. Phases'
  BY <1>1, <1>2 DEF Read, IInv, TypeOK, Phases
<1>5. \A s \in Requests : s # r => Verdict'[s] = Verdict[s]
  BY <1>2 DEF Read, IInv, TypeOK, Verdict
<1>6. CASE store[ask[r].id] = None
  <2>1. record' = record
    BY <1>1, <1>2, <1>6 DEF IInv, TypeOK
  <2>2. (Agreement /\ Sources)' /\ Verdict' = Verdict
    BY <2>1, ContentKept DEF Read
  <2>3. Truthful'
    BY <2>2 DEF Read, IInv, Truthful, Answered
  <2>4. Tallied'
    BY TallyKept DEF Read
  <2>5. QED
    BY <1>3, <1>4, <2>2, <2>3, <2>4 DEF IInv
<1>7. CASE store[ask[r].id] # None
  <2> DEFINE saved == store[ask[r].id]
  <2>1. saved \in Records /\ Origin(ask[r].id, saved)
    BY <1>1, <1>7 DEF IInv, TypeOK, Sources
  <2>2. Verdict'[r] = Reply(saved, ask[r].payload)
    BY <1>2, <1>7 DEF Read, Verdict
  <2>3. Agreement'
    BY <1>5, <1>7, <2>2 DEF Read, IInv, Agreement
  <2>4. Sources'
    <3>1. Justified(r, Verdict'[r])
      BY <2>1, <2>2, ReplyJustified
    <3>2. QED
      BY <1>5, <3>1 DEF Read, IInv, Sources, Origin, Justified
  <2>5. Truthful'
    <3>1. ~Answered(r)
      BY <1>1 DEF IInv, Phases, Answered
    <3>2. QED
      BY <1>5, <3>1 DEF Read, IInv, Truthful, Answered
  <2>6. Tallied'
    BY TallyKept DEF Read
  <2>7. QED
    BY <1>3, <1>4, <2>3, <2>4, <2>5, <2>6 DEF IInv
<1>8. QED
  BY <1>6, <1>7

\* The types of what Finish changes.
LEMMA FinishTypes ==
    ASSUME TypeOK, NEW r \in Requests, home[r] \in Processes,
           NEW how \in {"200", "429", "500"},
           NEW kind \in {"masking", "unmasking", "errors", "overloaded"},
           NEW text \in Texts \cup {None}, Finish(r, how, text, kind)
    PROVE  /\ pc' \in [Requests -> {"idle", "reading", "checking", "submitted", "done"}]
           /\ status' \in [Requests -> {"none", "200", "429", "500", "lost"}]
           /\ answer' \in [Requests -> Texts \cup {None}]
           /\ metrics' \in [Processes -> [Counters -> Nat]]
           /\ served' \in [Processes -> SUBSET Requests]
           /\ record' = record
<1>1. metrics[home[r]] \in [Counters -> Nat]
  BY DEF TypeOK
<1>2. Counted(metrics[home[r]], kind) \in [Counters -> Nat]
  BY <1>1, CountedFacts
<1>3. QED
  BY <1>2 DEF Finish, TypeOK

\* A request that ends without touching a record: a reading that failed, a record
\* that answers, a submit() that was refused or came back.
LEMMA FinishPreserves ==
    ASSUME IInv, NEW r \in Requests, pc[r] \notin {"idle", "done"},
           NEW how, NEW kind, Matching(how, kind),
           NEW text \in Texts \cup {None}, Finish(r, how, text, kind),
           how = "200" => text = Verdict[r] /\ text # None,
           UNCHANGED <<store, requestVars, result, boundVars, effect>>,
           open' \subseteq open,
           reply' \in [Requests ->
               {"idle", "waiting", "answered", "refused", "failed", "cancelled"}],
           \A s \in Requests : s # r => reply'[s] = reply[s],
           reply'[r] # "waiting",
           reply[r] # "idle" => reply'[r] # "idle",
           reply'[r] # "idle" => record[r] = None,
           reply'[r] = "answered" => r \in effect
    PROVE  IInv'
<1>1. home[r] \in Processes
  BY DEF IInv, TypeOK, Phases
<1>2. how \in {"200", "429", "500"} /\ kind \in {"masking", "unmasking", "errors", "overloaded"}
  BY DEF Matching
<1>3. TypeOK'
  BY <1>1, <1>2, FinishTypes DEF IInv, TypeOK
<1>4. /\ pc' = [pc EXCEPT ![r] = "done"] /\ status' = [status EXCEPT ![r] = how]
      /\ answer' = [answer EXCEPT ![r] = text] /\ record' = record
  BY DEF Finish
<1>5. Phases'
  BY <1>2, <1>4 DEF IInv, TypeOK, Phases
<1>6. (Agreement /\ Sources)' /\ Verdict' = Verdict
  BY <1>4, ContentKept
<1>7. Truthful'
  BY <1>2, <1>4, <1>6 DEF IInv, TypeOK, Truthful, Answered
<1>8. Tallied'
  BY FinishTallied
<1>9. QED
  BY <1>3, <1>5, <1>6, <1>7, <1>8 DEF IInv

\* A reading failed.
LEMMA ReadFailsPreserves ==
    ASSUME IInv, NEW r \in Requests, ReadFails(r)
    PROVE  IInv'
<1>1. pc[r] \in {"reading", "checking"} /\ reply[r] = "idle"
  BY DEF ReadFails, IInv, Phases
<1>2. Finish(r, "500", None, "errors") /\ Matching("500", "errors")
  BY DEF ReadFails, Matching
<1>3. QED
  BY <1>1, <1>2, FinishPreserves DEF ReadFails, IInv, TypeOK, Phases

\* The record that was read answers.
LEMMA AnswerFromRecordPreserves ==
    ASSUME IInv, NEW r \in Requests, AnswerFromRecord(r)
    PROVE  IInv'
<1>1. pc[r] = "checking" /\ reply[r] = "idle" /\ record[r] \in Records
  BY DEF AnswerFromRecord, IInv, TypeOK, Phases
<1>2. Verdict[r] = Reply(record[r], ask[r].payload) /\ Verdict[r] # None
  BY VerdictType DEF AnswerFromRecord, IInv
<1>3. PICK kind \in {"masking", "unmasking"} : Finish(r, "200", Verdict[r], kind)
  BY <1>2 DEF AnswerFromRecord, Reply
<1>4. Matching("200", kind) /\ Verdict[r] \in Texts \cup {None}
  BY VerdictType DEF IInv, Matching
<1>5. QED
  BY <1>1, <1>2, <1>3, <1>4, FinishPreserves DEF AnswerFromRecord, IInv, TypeOK, Phases

\* The engine takes the job, or turns it down.
LEMMA SubmitPreserves ==
    ASSUME IInv, NEW r \in Requests, Submit(r)
    PROVE  IInv'
<1>1. pc[r] = "checking" /\ reply[r] = "idle" /\ record[r] = None /\ result[r] = None
      /\ r \notin open /\ r \notin effect
  BY DEF Submit, IInv, Phases
<1>2. CASE Engine!Reject(r) /\ Fail(r, reply'[r])
  <2>1. PICK outcome \in {"refused", "failed"} :
            reply' = [reply EXCEPT ![r] = outcome] /\ UNCHANGED <<open, effect>>
    BY <1>2 DEF Engine!Reject
  <2>2. reply'[r] = outcome /\ \A s \in Requests : s # r => reply'[s] = reply[s]
    BY <2>1 DEF IInv, TypeOK
  <2>3. reply' \in [Requests ->
            {"idle", "waiting", "answered", "refused", "failed", "cancelled"}]
    BY <2>1 DEF IInv, TypeOK
  <2>4. PICK how, kind : Matching(how, kind) /\ how # "200" /\ Finish(r, how, None, kind)
    BY <1>2, <2>2 DEF Fail, Matching
  <2>5. UNCHANGED <<store, requestVars, result, boundVars>>
    BY DEF Submit
  <2>6. QED
    BY <1>1, <2>1, <2>2, <2>3, <2>4, <2>5, FinishPreserves
<1>3. CASE /\ Engine!Accept(r)
           /\ pc' = [pc EXCEPT ![r] = "submitted"]
           /\ UNCHANGED <<record, answerVars>>
  <2>1. /\ reply' = [reply EXCEPT ![r] = "waiting"] /\ open' = open \cup {r}
        /\ effect' = effect
        /\ UNCHANGED <<store, ask, home, record, result, status, answer, metrics,
                       served, stale, forgets, crashes>>
    BY <1>3 DEF Submit, Engine!Accept
  <2>2. TypeOK'
    BY <1>3, <2>1 DEF IInv, TypeOK
  <2>3. Phases'
    BY <1>1, <1>3, <2>1 DEF IInv, TypeOK, Phases
  <2>4. (Agreement /\ Sources)' /\ Verdict' = Verdict
    BY <2>1, ContentKept
  <2>5. Truthful'
    BY <2>1, <2>4 DEF IInv, Truthful, Answered
  <2>6. Tallied'
    BY <2>1, TallyKept
  <2>7. QED
    BY <2>2, <2>3, <2>4, <2>5, <2>6 DEF IInv
<1>4. QED
  BY <1>2, <1>3 DEF Submit

\* submit() returns the text its job got.
LEMMA SubmitReturnsPreserves ==
    ASSUME IInv, NEW r \in Requests, SubmitReturns(r)
    PROVE  IInv'
<1>1. pc[r] = "submitted" /\ reply[r] = "waiting" /\ record[r] = None /\ r \in effect
      /\ result[r] # None
  BY DEF SubmitReturns, Engine!Answer, IInv, Phases
<1>2. Verdict[r] = result[r] /\ result[r] \in Texts \cup {None}
  BY <1>1, VerdictType DEF IInv, TypeOK
<1>3. /\ reply' = [reply EXCEPT ![r] = "answered"] /\ UNCHANGED <<open, effect>>
      /\ Finish(r, "200", result[r], "masking") /\ Matching("200", "masking")
      /\ UNCHANGED <<store, requestVars, result, boundVars>>
  BY DEF SubmitReturns, Engine!Answer, Matching
<1>4. /\ reply'[r] = "answered" /\ \A s \in Requests : s # r => reply'[s] = reply[s]
      /\ reply' \in [Requests ->
            {"idle", "waiting", "answered", "refused", "failed", "cancelled"}]
  BY <1>3 DEF IInv, TypeOK
<1>5. QED
  BY <1>1, <1>2, <1>3, <1>4, FinishPreserves

\* submit() times out or fails.
LEMMA SubmitFailsPreserves ==
    ASSUME IInv, NEW r \in Requests, SubmitFails(r)
    PROVE  IInv'
<1>1. pc[r] = "submitted" /\ reply[r] = "waiting" /\ record[r] = None
  BY DEF SubmitFails, IInv, Phases
<1>2. PICK outcome \in {"refused", "failed", "cancelled"} :
          reply' = [reply EXCEPT ![r] = outcome]
  BY DEF SubmitFails, Engine!GiveUp
<1>3. open' \subseteq open /\ effect' = effect
      /\ UNCHANGED <<store, requestVars, result, boundVars>>
  BY DEF SubmitFails, Engine!GiveUp
<1>4. /\ reply'[r] = outcome /\ \A s \in Requests : s # r => reply'[s] = reply[s]
      /\ reply' \in [Requests ->
            {"idle", "waiting", "answered", "refused", "failed", "cancelled"}]
  BY <1>2 DEF IInv, TypeOK
<1>5. PICK how, kind : Matching(how, kind) /\ how # "200" /\ Finish(r, how, None, kind)
  BY DEF SubmitFails, Fail, Matching
<1>6. QED
  BY <1>1, <1>3, <1>4, <1>5, FinishPreserves

\* stop() cancels the request: it is over, and counted nowhere.
LEMMA CancelledPreserves ==
    ASSUME IInv, NEW r \in Requests, Cancelled(r)
    PROVE  IInv'
<1>1. pc[r] \in {"reading", "checking", "submitted"} /\ status[r] = "none"
      /\ (pc[r] = "submitted" => reply[r] = "waiting" /\ record[r] = None)
  BY DEF Cancelled, IInv, Phases
<1>2. reply' \in [Requests ->
          {"idle", "waiting", "answered", "refused", "failed", "cancelled"}]
      /\ (reply'[r] = "cancelled" \/ reply'[r] = reply[r])
      /\ \A s \in Requests : s # r => reply'[s] = reply[s]
  BY DEF Cancelled, Engine!GiveUp, engineVars, IInv, TypeOK
<1>3. /\ open' \subseteq open /\ effect' = effect
      /\ pc' = [pc EXCEPT ![r] = "done"] /\ status' = [status EXCEPT ![r] = "lost"]
      /\ UNCHANGED <<store, ask, home, record, result, answer, metrics, served,
                     stale, forgets, crashes>>
  BY DEF Cancelled, Engine!GiveUp, engineVars
<1>4. TypeOK'
  BY <1>2, <1>3 DEF IInv, TypeOK
<1>5. Phases'
  <2>1. pc'[r] = "done" /\ status'[r] = "lost"
        /\ \A s \in Requests : s # r => pc'[s] = pc[s] /\ status'[s] = status[s]
    BY <1>3 DEF IInv, TypeOK
  <2>2. CASE pc[r] \in {"reading", "checking"}
    <3>1. reply' = reply /\ reply[r] = "idle" /\ open' = open
      BY <2>2 DEF Cancelled, engineVars, IInv, Phases
    <3>2. QED
      BY <1>1, <1>3, <2>1, <2>2, <3>1 DEF IInv, Phases
  <2>3. CASE pc[r] = "submitted"
    <3>1. reply[r] = "waiting" /\ record[r] = None /\ reply'[r] \in {"cancelled", "waiting"}
      BY <1>1, <1>2, <2>3
    <3>2. reply'[r] = "cancelled"
      BY <2>3 DEF Cancelled
    <3>3. QED
      BY <1>2, <1>3, <2>1, <3>1, <3>2 DEF IInv, Phases
  <2>4. QED
    BY <1>1, <2>2, <2>3
<1>6. (Agreement /\ Sources)' /\ Verdict' = Verdict
  BY <1>3, ContentKept
<1>7. Truthful'
  BY <1>3, <1>6 DEF IInv, TypeOK, Truthful, Answered
<1>8. Tallied'
  <2>1. \A p \in Processes : \A s \in served[p] : s # r
    BY <1>1, CountedIsOver
  <2>2. \A p \in Processes : \A s \in served[p] : home'[s] = home[s] /\ status'[s] = status[s]
    BY <1>3, <2>1 DEF IInv, TypeOK
  <2>3. QED
    BY <1>3, <2>2, TallyKept
<1>9. QED
  BY <1>4, <1>5, <1>6, <1>7, <1>8 DEF IInv

\* A verdict is about a request that has arrived.
LEMMA VerdictArrived ==
    ASSUME IInv, NEW r \in Requests, Verdict[r] # None
    PROVE  ask[r] # None /\ ask[r] \in Asks /\ ask[r].id \in Ids
<1>1. record[r] # None \/ result[r] # None
  BY VerdictType DEF IInv
<1>2. pc[r] # "idle"
  BY <1>1 DEF IInv, Phases
<1>3. QED
  BY <1>2 DEF IInv, Phases, TypeOK, Asks

\* The first record of an id stays; the verdict is its answer.
LEMMA PutRecordPreserves ==
    ASSUME IInv, NEW r \in Requests, PutRecord(r)
    PROVE  IInv'
<1>1. /\ r \in open /\ reply[r] # "idle" /\ record[r] = None /\ result[r] = None
      /\ r \notin effect /\ ask[r] # None
  BY DEF PutRecord, Engine!TakeEffect, IInv, Phases
<1>2. ask[r] \in Asks /\ ask[r].id \in Ids /\ ask[r].payload \in Texts
  BY <1>1 DEF IInv, TypeOK, Asks
<1> DEFINE i == ask[r].id
           there == store[ask[r].id]
<1>3. PICK masked \in Masks[ask[r].payload] :
          LET mine == [original |-> ask[r].payload, masked |-> masked]
              row  == Winner(store[ask[r].id], mine)
          IN  /\ store' = [store EXCEPT ![ask[r].id] = row]
              /\ result' = [result EXCEPT ![r] = Reply(row, ask[r].payload)]
  BY DEF PutRecord
<1> DEFINE mine == [original |-> ask[r].payload, masked |-> masked]
           row  == Winner(there, mine)
<1>4. mine \in Records /\ masked \in Texts
  BY <1>2, ProcessAssumption DEF Records
<1>5. /\ row \in Records
      /\ there # None => row = there
      /\ there = None => row = mine
  BY <1>2, <1>4 DEF Winner, IInv, TypeOK
<1>6. Origin(i, row)
  <2>1. CASE there = None
    BY <1>1, <1>5, <2>1 DEF Origin
  <2>2. CASE there # None
    BY <1>2, <1>5, <2>2 DEF IInv, Sources
  <2>3. QED
    BY <2>1, <2>2
<1>7. /\ open' \subseteq open \ {r} /\ effect' = effect \cup {r} /\ reply' = reply
      /\ UNCHANGED <<ask, home, pc, record, status, answer, metrics, served,
                     stale, forgets, crashes>>
  BY DEF PutRecord, Engine!TakeEffect
<1>8. store' = [store EXCEPT ![i] = row] /\ result' = [result EXCEPT ![r] = Reply(row, ask[r].payload)]
  BY <1>3
<1>9. Reply(row, ask[r].payload) \in Texts /\ Reply(row, ask[r].payload) # None
  BY <1>5, ReplyType, ProcessAssumption
<1> HIDE DEF row, mine
<1>10. TypeOK'
  BY <1>2, <1>5, <1>7, <1>8, <1>9 DEF IInv, TypeOK
<1>11. Phases'
  BY <1>1, <1>7, <1>8, <1>9 DEF IInv, TypeOK, Phases
<1>12. /\ Verdict'[r] = Reply(row, ask[r].payload)
       /\ \A s \in Requests : s # r => Verdict'[s] = Verdict[s]
       /\ Verdict[r] = None
  BY <1>1, <1>7, <1>8 DEF IInv, TypeOK, Verdict
<1>13. store'[i] = row /\ \A o \in Ids : o # i => store'[o] = store[o]
  BY <1>2, <1>8 DEF IInv, TypeOK
<1>14. Agreement'
  <2> SUFFICES ASSUME NEW s \in Requests, Verdict'[s] # None, s \notin stale
               PROVE  store'[ask[s].id] # None /\ Verdict'[s] = Reply(store'[ask[s].id], ask[s].payload)
    BY <1>7 DEF Agreement
  <2>1. CASE s = r
    BY <1>5, <1>12, <1>13, <2>1, ProcessAssumption
  <2>2. CASE s # r
    <3>1. /\ store[ask[s].id] # None /\ ask[s].id \in Ids
          /\ Verdict[s] = Reply(store[ask[s].id], ask[s].payload)
      BY <1>12, <2>2, VerdictArrived DEF IInv, Agreement
    <3>2. store'[ask[s].id] = store[ask[s].id]
      BY <1>5, <1>13, <3>1
    <3>3. QED
      BY <1>12, <2>2, <3>1, <3>2
  <2>3. QED
    BY <2>1, <2>2
<1>15. Sources'
  <2>1. \A o, saved : Origin(o, saved)' = Origin(o, saved)
    BY <1>7 DEF Origin
  <2>2. \A s \in Requests : \A text : Justified(s, text)' = Justified(s, text)
    BY <1>7 DEF Justified
  <2>3. \A o \in Ids : store'[o] # None => Origin(o, store'[o])
    BY <1>6, <1>13 DEF IInv, Sources
  <2>4. \A s \in Requests : Verdict'[s] # None => Justified(s, Verdict'[s])
    BY <1>5, <1>6, <1>12, ReplyJustified DEF IInv, Sources
  <2>5. QED
    BY <2>3, <2>4, <1>7 DEF Sources, Origin, Justified
<1>16. Truthful'
  BY <1>7, <1>12 DEF IInv, Truthful, Answered
<1>17. Tallied'
  BY <1>7, TallyKept
<1>18. QED
  BY <1>10, <1>11, <1>14, <1>15, <1>16, <1>17 DEF IInv

\* Jobs are given up before they were recorded.
LEMMA EngineWithdrawsPreserves == IInv /\ EngineWithdraws => IInv'
<1> SUFFICES ASSUME IInv, EngineWithdraws PROVE IInv'
  OBVIOUS
<1>1. /\ open' \subseteq open
      /\ UNCHANGED <<store, ask, home, pc, record, reply, effect, result, status,
                     answer, metrics, served, stale, forgets, crashes>>
  BY DEF EngineWithdraws, Engine!Withdraw
<1>2. TypeOK' /\ Phases'
  BY <1>1 DEF IInv, TypeOK, Phases
<1>3. (Agreement /\ Sources)' /\ Verdict' = Verdict
  BY <1>1, ContentKept
<1>4. Truthful'
  BY <1>1, <1>3 DEF IInv, Truthful, Answered
<1>5. Tallied'
  BY <1>1, TallyKept
<1>6. QED
  BY <1>2, <1>3, <1>4, <1>5 DEF IInv

\* A record goes: the requests for its id that have begun are stale from then on.
LEMMA ForgetPreserves ==
    ASSUME IInv, NEW i \in Ids, Forget(i)
    PROVE  IInv'
<1>1. /\ store' = [store EXCEPT ![i] = None]
      /\ stale' = stale \cup {r \in Requests : ask[r] # None /\ ask[r].id = i}
      /\ forgets' = forgets + 1 /\ forgets < MaxForgets
      /\ UNCHANGED <<ask, home, pc, record, reply, open, effect, result, status,
                     answer, metrics, served, crashes>>
  BY DEF Forget
<1>2. TypeOK'
  BY <1>1, ProcessAssumption DEF IInv, TypeOK
<1>3. Phases'
  BY <1>1 DEF IInv, Phases
<1>4. Verdict' = Verdict
  BY <1>1 DEF Verdict
<1>5. store'[i] = None /\ \A o \in Ids : o # i => store'[o] = store[o]
  BY <1>1 DEF IInv, TypeOK
<1>6. Agreement'
  <2> SUFFICES ASSUME NEW s \in Requests, Verdict[s] # None, s \notin stale'
               PROVE  store'[ask[s].id] # None /\ Verdict[s] = Reply(store'[ask[s].id], ask[s].payload)
    BY <1>1, <1>4 DEF Agreement
  <2>1. ask[s].id \in Ids /\ ask[s].id # i /\ s \notin stale
    BY <1>1, VerdictArrived
  <2>2. QED
    BY <1>5, <2>1 DEF IInv, Agreement
<1>7. Sources'
  BY <1>1, <1>4, <1>5 DEF IInv, Sources, Origin, Justified
<1>8. Truthful'
  BY <1>1, <1>4 DEF IInv, Truthful, Answered
<1>9. Tallied'
  BY <1>1, TallyKept
<1>10. QED
  BY <1>2, <1>3, <1>6, <1>7, <1>8, <1>9 DEF IInv

\* A process dies: its requests are over, unanswered, and its counters start again.
LEMMA CrashPreserves ==
    ASSUME IInv, NEW p \in Processes, Crash(p)
    PROVE  IInv'
<1> DEFINE broken == {r \in Requests : home[r] = p /\ pc[r] # "done"}
<1>1. /\ pc' = [r \in Requests |-> IF r \in broken THEN "done" ELSE pc[r]]
      /\ status' = [r \in Requests |-> IF r \in broken THEN "lost" ELSE status[r]]
      /\ reply' = [r \in Requests |->
                      IF r \in broken /\ reply[r] = "waiting" THEN "cancelled" ELSE reply[r]]
      /\ metrics' = [metrics EXCEPT ![p] = Idle] /\ served' = [served EXCEPT ![p] = {}]
      /\ crashes' = crashes + 1 /\ crashes < MaxCrashes
      /\ UNCHANGED <<store, ask, home, record, effect, result, answer, stale, forgets>>
  BY DEF Crash
<1>2. open' \subseteq open
  BY DEF Crash
<1>3. \A r \in broken : pc[r] # "idle" /\ status[r] = "none"
  BY ProcessAssumption DEF IInv, Phases
<1> HIDE DEF broken
<1>4. TypeOK'
  <2>1. Idle \in [Counters -> Nat]
    BY DEF Idle, Counters
  <2>2. QED
    BY <1>1, <1>2, <2>1, ProcessAssumption DEF IInv, TypeOK
<1>5. Phases'
  <2> SUFFICES ASSUME NEW r \in Requests PROVE
        /\ pc'[r] = "idle" <=> ask'[r] = None
        /\ pc'[r] = "idle" <=> home'[r] = None
        /\ pc'[r] = "done" <=> status'[r] # "none"
        /\ pc'[r] = "submitted" <=> reply'[r] = "waiting"
        /\ pc'[r] \in {"idle", "reading", "checking"} => reply'[r] = "idle"
        /\ pc'[r] \in {"idle", "reading"} => record'[r] = None
        /\ reply'[r] # "idle" => record'[r] = None
        /\ r \in open' => reply'[r] # "idle" /\ r \notin effect'
        /\ r \in effect' => reply'[r] # "idle"
        /\ r \in effect' <=> result'[r] # None
        /\ reply'[r] = "answered" => r \in effect'
    BY DEF Phases
  <2>1. CASE r \in broken
    BY <1>1, <1>2, <1>3, <2>1 DEF IInv, Phases
  <2>2. CASE r \notin broken
    BY <1>1, <1>2, <2>2 DEF IInv, Phases
  <2>3. QED
    BY <2>1, <2>2
<1>6. (Agreement /\ Sources)' /\ Verdict' = Verdict
  BY <1>1, ContentKept
<1>7. Truthful'
  BY <1>1, <1>3, <1>6 DEF IInv, Truthful, Answered
<1>8. Tallied'
  <2>1. ASSUME NEW q \in Processes, q # p
        PROVE  /\ Adds(q)' /\ IsFiniteSet(served'[q])
               /\ \A s \in served'[q] : home'[s] = q /\ status'[s] \in {"200", "429", "500"}
    <3>1. \A s \in served[q] : status'[s] = status[s]
      BY <1>1, <1>3, CountedIsOver
    <3>2. served'[q] = served[q] /\ metrics'[q] = metrics[q]
      BY <1>1, <2>1 DEF IInv, TypeOK
    <3>3. /\ \A how \in {"200", "429", "500"} : Got(q, how)' = Got(q, how)
          /\ IsFiniteSet(served'[q])
          /\ \A s \in served'[q] : home'[s] = q /\ status'[s] \in {"200", "429", "500"}
      BY <1>1, <3>1, <3>2, SameTally DEF IInv
    <3>4. Adds(q)
      BY AddsIsTallied DEF IInv, Tallied
    <3>5. QED
      BY <3>2, <3>3, <3>4 DEF Adds
  <2>2. Adds(p)' /\ served'[p] = {}
    <3>1. metrics'[p] = Idle /\ served'[p] = {}
      BY <1>1 DEF IInv, TypeOK
    <3>2. \A how : Got(p, how)' = {}
      BY <3>1 DEF Got
    <3>3. QED
      BY <3>1, <3>2, FS_EmptySet DEF Adds, Idle
  <2>3. \A q \in Processes : Adds(q)'
    BY <2>1, <2>2
  <2>4. MetricsCountAnswers'
    BY <2>3 DEF MetricsCountAnswers, Adds, Got
  <2>5. QED
    BY <2>1, <2>2, <2>4, FS_EmptySet DEF Tallied
<1>9. QED
  BY <1>4, <1>5, <1>6, <1>7, <1>8 DEF IInv

\* A step that changes nothing keeps the invariant.
LEMMA StutterPreserves == IInv /\ UNCHANGED vars => IInv'
<1> SUFFICES ASSUME IInv, UNCHANGED vars PROVE IInv'
  OBVIOUS
<1>1. UNCHANGED <<store, ask, home, pc, record, reply, open, effect, result, status,
                  answer, metrics, served, stale, forgets, crashes>>
  BY DEF vars
<1>2. TypeOK' /\ Phases'
  BY <1>1 DEF IInv, TypeOK, Phases
<1>3. (Agreement /\ Sources)' /\ Verdict' = Verdict
  BY <1>1, ContentKept
<1>4. Truthful'
  BY <1>1, <1>3 DEF IInv, Truthful, Answered
<1>5. Tallied'
  BY <1>1, TallyKept
<1>6. QED
  BY <1>2, <1>3, <1>4, <1>5 DEF IInv

-----------------------------------------------------------------------------
(* The theorems.                                                           *)

\* The invariant holds in every reachable state, for every set of requests,
\* processes, ids and texts and every choice of masks.
THEOREM ProcessInvariance == Spec => []IInv
<1>1. Init => IInv
  BY InitIInv
<1>2. IInv /\ [Next]_vars => IInv'
  <2> SUFFICES ASSUME IInv, [Next]_vars PROVE IInv'
    OBVIOUS
  <2>1. ASSUME NEW r \in Requests, RequestStep(r) PROVE IInv'
    BY <2>1, ArrivePreserves, ReadPreserves, ReadFailsPreserves,
       AnswerFromRecordPreserves, SubmitPreserves, SubmitReturnsPreserves,
       SubmitFailsPreserves, CancelledPreserves, PutRecordPreserves
    DEF RequestStep
  <2>2. CASE Finished
    BY <2>2, StutterPreserves DEF Finished
  <2>3. QED
    BY <2>1, <2>2, EngineWithdrawsPreserves, ForgetPreserves, CrashPreserves,
       StutterPreserves DEF Next
<1>3. QED
  BY <1>1, <1>2, PTL DEF Spec

\* Every variable of the API keeps its type.
THEOREM TypeCorrect == Spec => []TypeOK
<1>1. IInv => TypeOK
  BY DEF IInv
<1>2. QED
  BY <1>1, ProcessInvariance, PTL

\* Until its record goes, every answer of POST /process for an id is the one a
\* retry of the same payload would get now: masks are idempotent and reversible
\* whatever requests race, time out or die with their process.
THEOREM AnswersStand == Spec => []AnswersReproducible
<1>1. IInv => AnswersReproducible
  BY DEF IInv, Agreement, Truthful, AnswersReproducible, Answered
<1>2. QED
  BY <1>1, ProcessInvariance, PTL

\* POST /process answers a mask of a payload sent for the id, or that payload to a
\* request that sent such a mask, and nothing else.
THEOREM OriginalsGoToMasks == Spec => []OriginalOnlyForItsMask
<1>1. IInv => OriginalOnlyForItsMask
  BY DEF IInv, Sources, Truthful, OriginalOnlyForItsMask, Justified, Answered
<1>2. QED
  BY <1>1, ProcessInvariance, PTL

\* The counters of /metrics add up to the requests their process answered.
THEOREM MetricsAddUp == Spec => []MetricsCountAnswers
<1>1. IInv => MetricsCountAnswers
  BY DEF IInv, Tallied
<1>2. QED
  BY <1>1, ProcessInvariance, PTL

-----------------------------------------------------------------------------
(* The API implements ProcessContract.                                     *)

\* No request has arrived and no verdict is fixed.
LEMMA InitContract == Init => Contract!Init
<1> SUFFICES ASSUME Init PROVE Contract!Init
  OBVIOUS
<1>1. Verdict = [r \in Requests |-> None]
  BY DEF Init, Verdict
<1>2. QED
  BY <1>1 DEF Init, Contract!Init

\* A request that is over without an answer is turned down.
LEMMA TurnedDown ==
    ASSUME IInv, NEW r \in Requests, pc[r] \notin {"idle", "done"},
           NEW how \in {"429", "500", "lost"},
           status' = [status EXCEPT ![r] = how], answer' = answer,
           UNCHANGED <<store, ask, record, result>>
    PROVE  Contract!Next
<1>1. ask[r] # None /\ status[r] = "none"
  BY DEF IInv, Phases
<1>2. Verdict' = Verdict
  BY DEF Verdict
<1>3. status' = [s \in Requests |-> IF s \in {r} THEN how ELSE status[s]]
  BY DEF IInv, TypeOK
<1>4. Contract!TurnDown({r}, how)
  BY <1>1, <1>2, <1>3 DEF Contract!TurnDown
<1>5. {r} \in SUBSET Requests
  OBVIOUS
<1>6. QED
  BY <1>4, <1>5 DEF Contract!Next

\* A request that has no answer has none to lose.
LEMMA NoAnswerYet ==
    ASSUME IInv, NEW r \in Requests, pc[r] # "done",
           NEW how, NEW kind, Finish(r, how, None, kind), answer[r] = None
    PROVE  answer' = answer /\ status' = [status EXCEPT ![r] = how] /\ record' = record
BY DEF Finish, IInv, TypeOK

\* Every step is a step of ProcessContract or changes nothing it can see.
LEMMA NextContract ==
    ASSUME IInv, Blank, Next
    PROVE  Contract!Next \/ UNCHANGED Contract!vars
<1>1. CASE Finished
  BY <1>1 DEF Finished, vars, Contract!vars, Verdict
<1>2. CASE EngineWithdraws
  BY <1>2 DEF EngineWithdraws, Engine!Withdraw, Contract!vars, Verdict
<1>3. ASSUME NEW i \in Ids, Forget(i) PROVE Contract!Next
  <2>1. Verdict' = Verdict
    BY <1>3 DEF Forget, Verdict
  <2>2. Contract!Forget(i)
    BY <1>3, <2>1 DEF Forget, Contract!Forget
  <2>3. QED
    BY <2>2 DEF Contract!Next
<1>4. ASSUME NEW p \in Processes, Crash(p) PROVE Contract!Next
  <2> DEFINE broken == {r \in Requests : home[r] = p /\ pc[r] # "done"}
  <2>1. status' = [r \in Requests |-> IF r \in broken THEN "lost" ELSE status[r]]
        /\ UNCHANGED <<store, ask, record, result, answer>>
    BY <1>4 DEF Crash
  <2>2. Verdict' = Verdict
    BY <2>1 DEF Verdict
  <2>3. \A r \in broken : ask[r] # None /\ status[r] = "none"
    BY ProcessAssumption DEF IInv, Phases
  <2>4. broken \in SUBSET Requests
    OBVIOUS
  <2> HIDE DEF broken
  <2>5. Contract!TurnDown(broken, "lost")
    BY <2>1, <2>2, <2>3 DEF Contract!TurnDown
  <2>6. QED
    BY <2>4, <2>5 DEF Contract!Next
<1>5. ASSUME NEW r \in Requests, RequestStep(r)
      PROVE  Contract!Next \/ UNCHANGED Contract!vars
  <2>1. CASE Arrive(r)
    <3>1. /\ ask[r] = None /\ record[r] = None /\ result[r] = None
          /\ UNCHANGED <<store, record, result, status, answer>>
      BY <2>1 DEF Arrive, IInv, Phases
    <3>2. PICK a \in Asks : ask' = [ask EXCEPT ![r] = a]
      BY <2>1 DEF Arrive
    <3>3. \A s \in Requests : s # r => ask'[s] = ask[s]
      BY <3>2 DEF IInv, TypeOK
    <3>4. Verdict' = Verdict
      BY <3>1, <3>3 DEF Verdict
    <3>5. a \in Contract!Asks
      BY DEF Asks, Contract!Asks
    <3>6. Contract!Arrive(r)
      BY <3>1, <3>2, <3>4, <3>5 DEF Contract!Arrive
    <3>7. QED
      BY <3>6 DEF Contract!Next
  <2>2. CASE Read(r)
    <3>1. /\ ask[r] # None /\ ask[r].id \in Ids /\ record[r] = None /\ result[r] = None
          /\ record' = [record EXCEPT ![r] = store[ask[r].id]]
          /\ UNCHANGED <<store, ask, result, status, answer>>
      BY <2>2 DEF Read, IInv, Phases, TypeOK, Asks
    <3>2. CASE store[ask[r].id] = None
      <4>1. record' = record
        BY <3>1, <3>2 DEF IInv, TypeOK
      <4>2. QED
        BY <3>1, <4>1 DEF Contract!vars, Verdict
    <3>3. CASE store[ask[r].id] # None
      <4> DEFINE saved == store[ask[r].id]
      <4>1. saved \in Contract!Records
        BY <3>1, <3>3 DEF IInv, TypeOK, Records, Contract!Records
      <4>2. Verdict[r] = None
        BY <3>1 DEF Verdict
      <4>3. Verdict' = [Verdict EXCEPT ![r] = Contract!Reply(saved, ask[r].payload)]
        BY <3>1, <3>3 DEF IInv, TypeOK, Verdict, Reply, Contract!Reply
      <4>4. store' = [store EXCEPT ![ask[r].id] = saved]
        BY <3>1 DEF IInv, TypeOK
      <4>5. Contract!Decide(r)
        BY <3>1, <3>3, <4>1, <4>2, <4>3, <4>4 DEF Contract!Decide
      <4>6. QED
        BY <4>5 DEF Contract!Next
    <3>4. QED
      BY <3>2, <3>3
  <2>3. ASSUME NEW how, NEW kind, how \in {"429", "500"},
               pc[r] \notin {"idle", "done"}, Finish(r, how, None, kind),
               UNCHANGED <<store, ask, result>>
        PROVE  Contract!Next
    <3>1. answer[r] = None
      BY <2>3 DEF Blank, IInv, Phases, Answered
    <3>2. answer' = answer /\ status' = [status EXCEPT ![r] = how] /\ record' = record
      BY <2>3, <3>1, NoAnswerYet
    <3>3. QED
      BY <2>3, <3>2, TurnedDown
  <2>4. CASE ReadFails(r)
    BY <2>3, <2>4 DEF ReadFails
  <2>5. ASSUME NEW kind, pc[r] \notin {"idle", "done"}, Verdict[r] # None,
               Finish(r, "200", Verdict[r], kind), UNCHANGED <<store, ask, result>>
        PROVE  Contract!Next
    <3>1. status[r] = "none"
      BY <2>5 DEF IInv, Phases
    <3>2. Verdict' = Verdict
      BY <2>5 DEF Finish, Verdict
    <3>3. Contract!Answer(r)
      BY <2>5, <3>1, <3>2 DEF Finish, Contract!Answer
    <3>4. QED
      BY <3>3 DEF Contract!Next
  <2>6. CASE AnswerFromRecord(r)
    <3>1. Verdict[r] = Reply(record[r], ask[r].payload) /\ Verdict[r] # None
      BY <2>6, VerdictType DEF AnswerFromRecord, IInv
    <3>2. PICK kind : Finish(r, "200", Verdict[r], kind)
      BY <2>6, <3>1 DEF AnswerFromRecord, Reply
    <3>3. pc[r] = "checking" /\ UNCHANGED <<store, ask, result>>
      BY <2>6 DEF AnswerFromRecord
    <3>4. QED
      BY <2>5, <3>1, <3>2, <3>3
  <2>7. ASSUME pc[r] \notin {"idle", "done"}, NEW outcome, Fail(r, outcome),
               UNCHANGED <<store, ask, result>>
        PROVE  Contract!Next
    <3>1. PICK how, kind : how \in {"429", "500"} /\ Finish(r, how, None, kind)
      BY <2>7 DEF Fail
    <3>2. QED
      BY <2>3, <2>7, <3>1
  <2>8. CASE Submit(r)
    <3>1. pc[r] = "checking" /\ UNCHANGED <<store, ask, result>>
      BY <2>8 DEF Submit
    <3>2. CASE Fail(r, reply'[r])
      BY <2>7, <3>1, <3>2
    <3>3. CASE UNCHANGED <<record, answerVars>>
      BY <3>1, <3>3 DEF Contract!vars, Verdict
    <3>4. QED
      BY <2>8, <3>2, <3>3 DEF Submit
  <2>9. CASE SubmitReturns(r)
    <3>1. pc[r] = "submitted" /\ record[r] = None /\ result[r] # None
      BY <2>9 DEF SubmitReturns, Engine!Answer, IInv, Phases
    <3>2. Verdict[r] = result[r]
      BY <3>1, VerdictType DEF IInv
    <3>3. Finish(r, "200", Verdict[r], "masking") /\ UNCHANGED <<store, ask, result>>
      BY <2>9, <3>2 DEF SubmitReturns
    <3>4. QED
      BY <2>5, <3>1, <3>2, <3>3
  <2>10. CASE SubmitFails(r)
    BY <2>7, <2>10 DEF SubmitFails
  <2>11. CASE Cancelled(r)
    <3>1. pc[r] \notin {"idle", "done"}
      BY <2>11 DEF Cancelled
    <3>2. QED
      BY <2>11, <3>1, TurnedDown DEF Cancelled
  <2>12. CASE PutRecord(r)
    <3>1. /\ r \in open /\ record[r] = None /\ result[r] = None
          /\ ask[r] # None /\ ask[r] \in Asks
      BY <2>12 DEF PutRecord, Engine!TakeEffect, IInv, Phases, TypeOK
    <3>2. PICK masked \in Masks[ask[r].payload] :
              LET mine == [original |-> ask[r].payload, masked |-> masked]
                  row  == Winner(store[ask[r].id], mine)
              IN  /\ store' = [store EXCEPT ![ask[r].id] = row]
                  /\ result' = [result EXCEPT ![r] = Reply(row, ask[r].payload)]
      BY <2>12 DEF PutRecord
    <3> DEFINE mine == [original |-> ask[r].payload, masked |-> masked]
               row  == Winner(store[ask[r].id], mine)
    <3>3. ask[r].id \in Ids /\ ask[r].payload \in Texts /\ masked \in Texts
      BY <3>1, <3>2, ProcessAssumption DEF Asks
    <3>4. mine \in Records /\ mine.original = ask[r].payload /\ mine.masked = masked
      BY <3>3 DEF Records
    <3>5. /\ row \in Records
          /\ store[ask[r].id] # None => row = store[ask[r].id]
          /\ store[ask[r].id] = None => row = mine
      BY <3>3, <3>4 DEF Winner, IInv, TypeOK
    <3>6. UNCHANGED <<ask, record, status, answer>>
      BY <2>12 DEF PutRecord
    <3>7. store' = [store EXCEPT ![ask[r].id] = row]
          /\ result' = [result EXCEPT ![r] = Reply(row, ask[r].payload)]
      BY <3>2
    <3> HIDE DEF mine, row
    <3>8. Verdict[r] = None
      BY <3>1 DEF Verdict
    <3>9. Verdict' = [Verdict EXCEPT ![r] = Contract!Reply(row, ask[r].payload)]
      BY <3>1, <3>6, <3>7 DEF IInv, TypeOK, Verdict, Reply, Contract!Reply
    <3>10. row \in Contract!Records
      BY <3>5 DEF Records, Contract!Records
    <3>11. IF store[ask[r].id] = None
           THEN row.original = ask[r].payload /\ row.masked \in Masks[ask[r].payload]
           ELSE row = store[ask[r].id]
      BY <3>2, <3>4, <3>5
    <3>12. Contract!Decide(r)
      BY <3>1, <3>6, <3>7, <3>8, <3>9, <3>10, <3>11 DEF Contract!Decide
    <3>13. QED
      BY <3>12 DEF Contract!Next
  <2>13. QED
    BY <1>5, <2>1, <2>2, <2>4, <2>6, <2>8, <2>9, <2>10, <2>11, <2>12 DEF RequestStep
<1>6. QED
  BY <1>1, <1>2, <1>3, <1>4, <1>5 DEF Next

\* A 200 is the only answer with a text.
LEMMA BlankInvariance == Spec => []Blank
<1>1. Init => Blank
  BY DEF Init, Blank
<1>2. IInv /\ Blank /\ [Next]_vars => Blank'
  <2> SUFFICES ASSUME IInv, Blank, [Next]_vars PROVE Blank'
    OBVIOUS
  <2>1. ASSUME UNCHANGED <<status, answer>> PROVE Blank'
    BY <2>1 DEF Blank
  <2>2. ASSUME NEW r \in Requests, NEW how, NEW text, NEW kind,
               Finish(r, how, text, kind), how = "200" \/ text = None
        PROVE  Blank'
    BY <2>2 DEF Finish, Blank, IInv, TypeOK
  <2>3. ASSUME NEW r \in Requests, NEW outcome, Fail(r, outcome) PROVE Blank'
    BY <2>2, <2>3 DEF Fail
  <2>4. ASSUME NEW p \in Processes, Crash(p) PROVE Blank'
    <3>1. \A r \in Requests : pc[r] # "done" => status[r] = "none"
      BY DEF IInv, Phases
    <3>2. answer' = answer
      BY <2>4 DEF Crash
    <3>3. \A r \in Requests : status'[r] = status[r] \/ pc[r] # "done"
      BY <2>4 DEF Crash
    <3>4. QED
      BY <3>1, <3>2, <3>3 DEF Blank
  <2>5. ASSUME NEW r \in Requests, Cancelled(r) PROVE Blank'
    <3>1. status[r] = "none"
      BY <2>5 DEF Cancelled, IInv, Phases
    <3>2. QED
      BY <2>5, <3>1 DEF Cancelled, Blank, IInv, TypeOK
  <2>6. ASSUME NEW r \in Requests, RequestStep(r) PROVE Blank'
    <3>1. CASE Arrive(r) \/ Read(r) \/ PutRecord(r)
      BY <2>1, <3>1 DEF Arrive, Read, PutRecord
    <3>2. CASE ReadFails(r)
      BY <2>2, <3>2 DEF ReadFails
    <3>3. CASE AnswerFromRecord(r)
      BY <2>2, <3>3 DEF AnswerFromRecord
    <3>4. CASE Submit(r)
      BY <2>1, <2>3, <3>4 DEF Submit
    <3>5. CASE SubmitReturns(r)
      BY <2>2, <3>5 DEF SubmitReturns
    <3>6. CASE SubmitFails(r)
      BY <2>3, <3>6 DEF SubmitFails
    <3>7. QED
      BY <2>5, <2>6, <3>1, <3>2, <3>3, <3>4, <3>5, <3>6 DEF RequestStep
  <2>7. QED
    BY <2>1, <2>4, <2>6 DEF Next, Finished, EngineWithdraws, Forget, vars
<1>3. QED
  BY <1>1, <1>2, ProcessInvariance, PTL DEF Spec

\* POST /process, spread over handlers, engines and processes, implements
\* ProcessContract: each request looks up or creates the record of its id at one
\* instant, and its answer is what that record says.
THEOREM ApiKeepsContract == Spec => KeepsContract
<1>1. Init => Contract!Init
  BY InitContract
<1>2. IInv /\ Blank /\ [Next]_vars => [Contract!Next]_(Contract!vars)
  <2>1. ASSUME UNCHANGED vars PROVE UNCHANGED Contract!vars
    BY <2>1 DEF vars, Contract!vars, Verdict
  <2>2. QED
    BY <2>1, NextContract
<1>3. QED
  BY <1>1, <1>2, ProcessInvariance, BlankInvariance, PTL
  DEF Spec, KeepsContract, Contract!Spec

=============================================================================
