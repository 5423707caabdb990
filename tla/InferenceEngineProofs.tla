------------------------ MODULE InferenceEngineProofs ------------------------
(***************************************************************************)
(* Proofs about InferenceEngine for every number of jobs and workers,      *)
(* every length, limit and batch size, both kinds of wait_for and both     *)
(* kinds of store.                                                         *)
(***************************************************************************)
EXTENDS InferenceEngine, FiniteSetTheorems, TLAPS

-----------------------------------------------------------------------------
(* The inductive invariant.                                                *)

\* started, _pool and the worker tasks move together with stop().
Lifecycle ==
    /\ started => stopPc = "off" /\ pool
    /\ stopPc = "gather" => ~started /\ pool
    /\ pool => started \/ stopPc = "gather"
    /\ ~started /\ stopPc = "off" => queue = <<>>
    /\ \A w \in Workers :
          /\ worker[w] = "absent" <=> ~pool
          /\ worker[w] = "done" => stopPc = "gather"
          /\ w \in cancelling =>
                stopPc = "gather" /\ worker[w] \notin {"absent", "done"}

\* What a worker task holds, by where its loop is suspended.
WorkerShape ==
    \A w \in Workers :
        /\ batch[w] # <<>> <=> worker[w] \in {"collecting", "executing"}
        /\ handoff[w] # NoJob => worker[w] = "collecting"
        /\ thread[w] # "none" <=> worker[w] = "executing"
        /\ thread[w] = "none" => todo[w] = {}
        /\ thread[w] = "ok" => todo[w] = {}
        /\ todo[w] \subseteq Range(batch[w])

\* A job gets its future when submit() queues it, and never without.
Accepted ==
    \A j \in Jobs :
        /\ InEngine(j) => future[j] # "none"
        /\ call[j] = "idle" => future[j] = "none"
        /\ call[j] = "waiting" => future[j] # "none"
        /\ call[j] = "answered" => future[j] = "result"

\* A job that may yet be answered is stored, or its thread still has it to store.
Recorded ==
    /\ \A j \in Jobs : future[j] = "result" => j \in written
    /\ \A w \in Workers : \A j \in Range(batch[w]) :
          thread[w] \in {"predict", "store", "ok"} /\ future[j] = "pending"
             => j \in todo[w] \/ j \in written

IInv == /\ TypeOK /\ Lifecycle /\ WorkerShape /\ Accepted /\ Recorded
        /\ JobNeverLost /\ JobInOnePlace

\* A job that no dispatched batch has.
Waiting(j) ==
    /\ future[j] = "pending"
    /\ \A w \in Workers : worker[w] = "executing" => j \notin Range(batch[w])

\* What a step does to a worker whose thread raised: nothing, or it settles every
\* job of the batch.
StaysRaised(w) == thread'[w] = "raised" /\ batch'[w] = batch[w]
IsSettled(w) == \A j \in Range(batch[w]) : future'[j] # "pending"

\* A job whose record Redis may still write was given up by its thread: it is not
\* stored again, and its future is open only until its worker resumes.
LateIsOver ==
    \A j \in late :
        /\ future[j] # "none"
        /\ \A w \in Workers : j \notin todo[w]
        /\ future[j] = "pending" =>
              \E w \in Workers : thread[w] = "raised" /\ j \in Range(batch[w])

\* A step no client and no record is touched by: it opens no job for execution,
\* hands no expired one to a thread, and leaves no job of a failed batch open.
Quiet ==
    /\ OpenJobs' \subseteq OpenJobs
    /\ call' = call /\ written' = written /\ late' = late
    /\ \A v \in Workers : \A j \in todo'[v] : j \in todo[v] \/ Waiting(j)
    /\ \A j \in Jobs : future'[j] \in {"none", "pending"} => future'[j] = future[j]
    /\ \A v \in Workers : thread[v] = "raised" => StaysRaised(v) \/ IsSettled(v)

-----------------------------------------------------------------------------
(* Typing of the helpers.                                                  *)

\* The empty list of jobs is typed as a queue or a batch.
LEMMA EmptyIsSeq == <<>> \in Seq(Jobs)
OBVIOUS

\* An empty list has no members.
LEMMA EmptyRange == ASSUME NEW s, s = <<>> PROVE Range(s) = {}
BY DEF Range

\* The members of a queue or batch are what it is a sequence of.
LEMMA RangeType == ASSUME NEW S, NEW s \in Seq(S) PROVE Range(s) \subseteq S
BY DEF Range

\* What popping the head of a queue does to its members.
LEMMA HeadTailFacts ==
    ASSUME NEW S, NEW s \in Seq(S), s # <<>>
    PROVE  /\ Tail(s) \in Seq(S)
           /\ Head(s) \in S
           /\ <<Head(s)>> \in Seq(S)
           /\ <<Head(s)>> # <<>>
           /\ Range(<<Head(s)>>) = {Head(s)}
           /\ Range(s) = {Head(s)} \cup Range(Tail(s))
<1>1. Tail(s) \in Seq(S) /\ Head(s) \in S /\ Len(s) >= 1
  OBVIOUS
<1>2. <<Head(s)>> \in Seq(S) /\ <<Head(s)>> # <<>>
  BY <1>1
<1>3. Range(<<Head(s)>>) = {Head(s)}
  BY DEF Range
<1>4. Range(s) = {Head(s)} \cup Range(Tail(s))
  <2>1. DOMAIN s = 1..Len(s) /\ DOMAIN Tail(s) = 1..(Len(s) - 1) /\ Len(s) \in Nat
    BY <1>1
  <2>2. \A i \in 1..(Len(s) - 1) : Tail(s)[i] = s[i + 1]
    BY <1>1
  <2>3. Head(s) = s[1]
    BY <1>1
  <2>4. ASSUME NEW x \in Range(s) PROVE x \in {Head(s)} \cup Range(Tail(s))
    <3>1. PICK i \in 1..Len(s) : x = s[i]
      BY <2>1, <2>4 DEF Range
    <3>2. CASE i = 1
      BY <3>1, <3>2, <2>3
    <3>3. CASE i # 1
      <4>1. i - 1 \in 1..(Len(s) - 1) /\ Tail(s)[i - 1] = x
        BY <3>1, <3>3, <2>1, <2>2
      <4>2. QED
        BY <4>1, <2>1 DEF Range
    <3>4. QED
      BY <3>2, <3>3
  <2>5. ASSUME NEW x \in {Head(s)} \cup Range(Tail(s)) PROVE x \in Range(s)
    <3>1. CASE x = Head(s)
      BY <3>1, <2>3, <2>1, <1>1 DEF Range
    <3>2. CASE x \in Range(Tail(s))
      <4>1. PICK i \in 1..(Len(s) - 1) : x = Tail(s)[i]
        BY <3>2, <2>1 DEF Range
      <4>2. i + 1 \in 1..Len(s) /\ x = s[i + 1]
        BY <4>1, <2>1, <2>2
      <4>3. QED
        BY <4>2, <2>1 DEF Range
    <3>3. QED
      BY <2>5, <3>1, <3>2
  <2>6. QED
    BY <2>4, <2>5
<1>5. QED
  BY <1>1, <1>2, <1>3, <1>4

\* What appending to a queue or a batch does to its members.
LEMMA AppendFacts ==
    ASSUME NEW S, NEW s \in Seq(S), NEW x \in S
    PROVE  /\ Append(s, x) \in Seq(S)
           /\ Append(s, x) # <<>>
           /\ Range(Append(s, x)) = Range(s) \cup {x}
<1>1. Append(s, x) \in Seq(S)
  OBVIOUS
<1>2. Append(s, x) # <<>>
  <2>1. Len(Append(s, x)) = Len(s) + 1 /\ Len(s) \in Nat
    OBVIOUS
  <2>2. QED
    BY <2>1
<1>3. DOMAIN Append(s, x) = DOMAIN s \cup {Len(s) + 1}
  OBVIOUS
<1>4. \A i \in DOMAIN s : Append(s, x)[i] = s[i]
  OBVIOUS
<1>5. Append(s, x)[Len(s) + 1] = x
  OBVIOUS
<1>6. Range(Append(s, x)) = Range(s) \cup {x}
  BY <1>3, <1>4, <1>5 DEF Range
<1>7. QED
  BY <1>1, <1>2, <1>6

Injective(s) == \A i, k \in DOMAIN s : s[i] = s[k] => i = k

\* Popping a queue that holds no job twice leaves one that holds no job twice, and
\* not the popped one.
LEMMA TailStaysInjective ==
    ASSUME NEW S, NEW s \in Seq(S), s # <<>>, Injective(s)
    PROVE  Injective(Tail(s)) /\ Head(s) \notin Range(Tail(s))
<1>1. /\ DOMAIN s = 1..Len(s) /\ DOMAIN Tail(s) = 1..(Len(s) - 1)
      /\ Len(s) \in Nat /\ Len(s) >= 1
  OBVIOUS
<1>2. \A i \in 1..(Len(s) - 1) : Tail(s)[i] = s[i + 1]
  OBVIOUS
<1>3. Head(s) = s[1]
  OBVIOUS
<1>4. ASSUME NEW i \in 1..(Len(s) - 1), NEW k \in 1..(Len(s) - 1),
             Tail(s)[i] = Tail(s)[k]
      PROVE  i = k
  <2>1. s[i + 1] = s[k + 1] /\ i + 1 \in DOMAIN s /\ k + 1 \in DOMAIN s
    BY <1>1, <1>2, <1>4
  <2>2. i + 1 = k + 1
    BY <2>1 DEF Injective
  <2>3. QED
    BY <2>2
<1>5. ASSUME NEW i \in 1..(Len(s) - 1), Tail(s)[i] = Head(s) PROVE FALSE
  <2>1. s[i + 1] = s[1] /\ i + 1 \in DOMAIN s /\ 1 \in DOMAIN s
    BY <1>1, <1>2, <1>3, <1>5
  <2>2. i + 1 = 1
    BY <2>1 DEF Injective
  <2>3. QED
    BY <2>2
<1>6. Injective(Tail(s))
  BY <1>1, <1>4 DEF Injective
<1>7. Head(s) \notin Range(Tail(s))
  BY <1>1, <1>5 DEF Range
<1>8. QED
  BY <1>6, <1>7

\* Appending a job that is not there yet keeps every job in one place.
LEMMA AppendStaysInjective ==
    ASSUME NEW S, NEW s \in Seq(S), NEW x \in S, x \notin Range(s), Injective(s),
           NEW t, t = Append(s, x)
    PROVE  Injective(t)
<1>1. DOMAIN t = DOMAIN s \cup {Len(s) + 1}
  OBVIOUS
<1>2. \A i \in DOMAIN s : t[i] = s[i]
  OBVIOUS
<1>3. t[Len(s) + 1] = x
  OBVIOUS
<1>4. \A i \in DOMAIN s : s[i] # x
  BY DEF Range
<1>5. ASSUME NEW i \in DOMAIN t, NEW k \in DOMAIN t, t[i] = t[k]
      PROVE  i = k
  <2>1. CASE i \in DOMAIN s /\ k \in DOMAIN s
    BY <1>2, <1>5, <2>1 DEF Injective
  <2>2. CASE i \notin DOMAIN s \/ k \notin DOMAIN s
    BY <1>1, <1>2, <1>3, <1>4, <1>5, <2>2
  <2>3. QED
    BY <2>1, <2>2
<1>6. QED
  BY <1>5 DEF Injective

\* Settling futures keeps their type.
LEMMA SettleType ==
    ASSUME TypeOK, NEW S, NEW how \in {"result", "error", "cancelled"}
    PROVE  /\ Settle(S, how) \in
                 [Jobs -> {"none", "pending", "result", "error", "cancelled"}]
           /\ \A j \in Jobs : Settle(S, how)[j] =
                 IF j \in S /\ future[j] = "pending" THEN how ELSE future[j]
BY DEF TypeOK, Settle

\* The end of a turn, and what collecting job list b leads to.
LEMMA ReleaseType ==
    ASSUME TypeOK, NEW w \in Workers, Release(w), thread[w] \notin {"predict", "store"}
    PROVE  /\ batch' \in [Workers -> Seq(Jobs)]
           /\ thread' \in [Workers -> {"none", "predict", "store", "ok", "raised"}]
           /\ todo' \in [Workers -> SUBSET Jobs]
           /\ batch'[w] = <<>> /\ thread'[w] = "none" /\ todo'[w] = {}
           /\ \A v \in Workers \ {w} :
                 batch'[v] = batch[v] /\ thread'[v] = thread[v] /\ todo'[v] = todo[v]
<1>1. /\ batch \in [Workers -> Seq(Jobs)]
      /\ thread \in [Workers -> {"none", "predict", "store", "ok", "raised"}]
      /\ todo \in [Workers -> SUBSET Jobs]
  BY DEF TypeOK
<1>2. /\ batch' = [batch EXCEPT ![w] = <<>>]
      /\ thread' = [thread EXCEPT ![w] = "none"]
      /\ todo' = [todo EXCEPT ![w] = {}]
  BY DEF Release
<1>3. QED
  BY <1>1, <1>2, EmptyIsSeq

\* What one turn of collect() may change: the worker, its batch and its thread.
LEMMA TurnEffect ==
    ASSUME TypeOK, NEW w \in Workers, NEW b \in Seq(Jobs),
           thread[w] = "none", todo[w] = {},
           Collect(w, b) \/ Dispatch(w, b)
    PROVE  /\ worker' \in
                 [Workers -> {"absent", "idle", "collecting", "executing", "done"}]
           /\ batch' \in [Workers -> Seq(Jobs)]
           /\ thread' \in [Workers -> {"none", "predict", "store", "ok", "raised"}]
           /\ todo' \in [Workers -> SUBSET Jobs]
           /\ \A v \in Workers \ {w} :
                 /\ worker'[v] = worker[v] /\ batch'[v] = batch[v]
                 /\ thread'[v] = thread[v] /\ todo'[v] = todo[v]
           /\ \/ /\ worker'[w] = "collecting" /\ batch'[w] = b
                 /\ thread'[w] = "none" /\ todo'[w] = {}
              \/ /\ worker'[w] = "executing" /\ batch'[w] = b
                 /\ thread'[w] = "predict" /\ todo'[w] = Live(b)
              \/ /\ worker'[w] = "idle" /\ batch'[w] = <<>>
                 /\ thread'[w] = "none" /\ todo'[w] = {}
                 /\ Live(b) = {}
<1>1. <<>> \in Seq(Jobs) /\ Range(b) \subseteq Jobs
  BY RangeType, EmptyIsSeq
<1>2. Live(b) \subseteq Jobs
  BY <1>1 DEF Live
<1>2a. /\ worker \in [Workers -> {"absent", "idle", "collecting", "executing", "done"}]
       /\ batch \in [Workers -> Seq(Jobs)]
       /\ thread \in [Workers -> {"none", "predict", "store", "ok", "raised"}]
       /\ todo \in [Workers -> SUBSET Jobs]
  BY DEF TypeOK
<1>3. CASE Dispatch(w, b)
  <2>1. CASE Live(b) # {}
    <3>1. /\ worker' = [worker EXCEPT ![w] = "executing"]
          /\ batch' = [batch EXCEPT ![w] = b]
          /\ thread' = [thread EXCEPT ![w] = "predict"]
          /\ todo' = [todo EXCEPT ![w] = Live(b)]
      BY <1>3, <2>1 DEF Dispatch
    <3>2. /\ batch' \in [Workers -> Seq(Jobs)]
          /\ batch'[w] = b
          /\ \A v \in Workers \ {w} : batch'[v] = batch[v]
      BY <3>1 DEF TypeOK
    <3>3. /\ todo' \in [Workers -> SUBSET Jobs]
          /\ todo'[w] = Live(b)
          /\ \A v \in Workers \ {w} : todo'[v] = todo[v]
      BY <1>2, <3>1 DEF TypeOK
    <3>4. QED
      BY <3>1, <3>2, <3>3 DEF TypeOK
  <2>2. CASE Live(b) = {}
    <3>1. /\ worker' = [worker EXCEPT ![w] = "idle"]
          /\ batch' = [batch EXCEPT ![w] = <<>>]
          /\ thread' = thread /\ todo' = todo
      BY <1>3, <2>2 DEF Dispatch
    <3>2. /\ worker' \in [Workers -> {"absent", "idle", "collecting", "executing", "done"}]
          /\ worker'[w] = "idle"
          /\ \A v \in Workers \ {w} : worker'[v] = worker[v]
      BY <1>2a, <3>1
    <3>3. /\ batch' \in [Workers -> Seq(Jobs)] /\ batch'[w] = <<>>
          /\ \A v \in Workers \ {w} : batch'[v] = batch[v]
      BY <1>1, <1>2a, <3>1
    <3>4. /\ thread' \in [Workers -> {"none", "predict", "store", "ok", "raised"}]
          /\ todo' \in [Workers -> SUBSET Jobs]
          /\ thread'[w] = "none" /\ todo'[w] = {}
          /\ \A v \in Workers \ {w} : thread'[v] = thread[v] /\ todo'[v] = todo[v]
      BY <1>2a, <3>1
    <3>5. QED
      BY <2>2, <3>2, <3>3, <3>4
  <2>3. QED
    BY <2>1, <2>2
<1>4. CASE Len(b) < BatchSize /\ Collect(w, b)
  <2>1. CASE Dispatch(w, b)
    BY <1>3, <2>1
  <2>2. CASE /\ worker' = [worker EXCEPT ![w] = "collecting"]
             /\ batch' = [batch EXCEPT ![w] = b]
             /\ thread' = thread /\ todo' = todo
    BY <1>2a, <2>2
  <2>3. QED
    BY <1>4, <2>1, <2>2 DEF Collect
<1>5. QED
  BY <1>3, <1>4 DEF Collect

-----------------------------------------------------------------------------
(* The initial states.                                                     *)

\* The engine as constructed satisfies the inductive invariant.
LEMMA InitIInv == Init => IInv
<1> SUFFICES ASSUME Init PROVE IInv
  OBVIOUS
<1> USE EngineAssumption
<1>1. TypeOK
  <2>1. /\ queue \in Seq(Jobs)
        /\ batch \in [Workers -> Seq(Jobs)]
    BY EmptyIsSeq DEF Init
  <2>2. starts \in 0..MaxStarts
    BY DEF Init
  <2>3. QED
    BY <2>1, <2>2 DEF Init, TypeOK
<1>2. Lifecycle
  BY DEF Init, Lifecycle
<1>3. WorkerShape
  BY DEF Init, WorkerShape
<1>4. Accepted /\ JobNeverLost /\ Recorded
  BY EmptyRange DEF Init, Accepted, JobNeverLost, Recorded, InEngine, Holds
<1>5. JobInOnePlace
  BY EmptyRange DEF Init, JobInOnePlace, Holds
<1>6. QED
  BY <1>1, <1>2, <1>3, <1>4, <1>5 DEF IInv

-----------------------------------------------------------------------------
(* Collecting and dispatching: the four actions that extend or close a     *)
(* batch differ only in where the jobs of list b come from.                *)

\* A worker that gains one job from the queue or from wait_for's inner task, and then
\* goes on collecting or dispatches, keeps the invariant.
LEMMA TurnPreserves ==
    ASSUME IInv, NEW w \in Workers, NEW b \in Seq(Jobs), b # <<>>,
           worker[w] \in {"idle", "collecting"},
           Collect(w, b) \/ Dispatch(w, b),
           UNCHANGED <<lifecycleVars, clientVars, storeVars>>,
           cancelling' \subseteq cancelling,
           queue' \in Seq(Jobs),
           handoff' \in [Workers -> Jobs \cup {NoJob}],
           handoff'[w] = NoJob,
           \A v \in Workers \ {w} : handoff'[v] = handoff[v],
           \A j \in Range(queue') : j \in Range(queue),
           Injective(queue'),
           \A j \in Range(b) : /\ InEngine(j) /\ j \notin Range(queue')
                              /\ \A v \in Workers \ {w} : ~Holds(v, j),
           \A j \in Jobs : InEngine(j) =>
               \/ j \in Range(queue') \/ j \in Range(b)
               \/ \E v \in Workers \ {w} : Holds(v, j)
    PROVE  IInv' /\ Quiet
<1> USE EngineAssumption
<1>1. /\ started' = started /\ pool' = pool /\ stopPc' = stopPc /\ starts' = starts
      /\ future' = future /\ call' = call /\ written' = written /\ late' = late
  BY DEF lifecycleVars, clientVars, storeVars
<1>2. thread[w] = "none" /\ todo[w] = {}
  BY DEF IInv, WorkerShape
<1>3. TypeOK
  BY DEF IInv
<1> DEFINE Kept  == /\ worker'[w] = "collecting" /\ batch'[w] = b
                    /\ thread'[w] = "none" /\ todo'[w] = {}
           Sent  == /\ worker'[w] = "executing" /\ batch'[w] = b
                    /\ thread'[w] = "predict" /\ todo'[w] = Live(b)
           Ended == /\ worker'[w] = "idle" /\ batch'[w] = <<>>
                    /\ thread'[w] = "none" /\ todo'[w] = {}
                    /\ Live(b) = {}
<1>4. /\ worker' \in
            [Workers -> {"absent", "idle", "collecting", "executing", "done"}]
      /\ batch' \in [Workers -> Seq(Jobs)]
      /\ thread' \in [Workers -> {"none", "predict", "store", "ok", "raised"}]
      /\ todo' \in [Workers -> SUBSET Jobs]
  BY <1>2, <1>3, TurnEffect
<1>5. \A v \in Workers \ {w} :
          /\ worker'[v] = worker[v] /\ batch'[v] = batch[v]
          /\ thread'[v] = thread[v] /\ todo'[v] = todo[v]
  BY <1>2, <1>3, TurnEffect
<1>6. Kept \/ Sent \/ Ended
  BY <1>2, <1>3, TurnEffect
<1> HIDE DEF Kept, Sent, Ended
<1>7. TypeOK'
  BY <1>1, <1>3, <1>4 DEF TypeOK
<1>8. pool /\ (started \/ stopPc = "gather")
  BY <1>3 DEF IInv, Lifecycle
<1>9. Lifecycle'
  BY <1>1, <1>5, <1>6, <1>8 DEF IInv, Lifecycle, Kept, Sent, Ended
<1>10. WorkerShape'
  <2>1. ASSUME NEW v \in Workers \ {w}
        PROVE  /\ batch'[v] # <<>> <=> worker'[v] \in {"collecting", "executing"}
               /\ handoff'[v] # NoJob => worker'[v] = "collecting"
               /\ thread'[v] # "none" <=> worker'[v] = "executing"
               /\ thread'[v] = "none" => todo'[v] = {}
               /\ thread'[v] = "ok" => todo'[v] = {}
               /\ todo'[v] \subseteq Range(batch'[v])
    BY <1>5 DEF IInv, WorkerShape
  <2>2. Live(b) \subseteq Range(b)
    BY DEF Live
  <2>3. /\ batch'[w] # <<>> <=> worker'[w] \in {"collecting", "executing"}
        /\ thread'[w] # "none" <=> worker'[w] = "executing"
        /\ thread'[w] = "none" => todo'[w] = {}
        /\ thread'[w] = "ok" => todo'[w] = {}
        /\ todo'[w] \subseteq Range(batch'[w])
    BY <1>6, <2>2 DEF Kept, Sent, Ended
  <2>4. QED
    BY <2>1, <2>3 DEF WorkerShape
<1>11. \A v \in Workers, j \in Jobs :
           Holds(v, j)' => IF v = w THEN j \in Range(b) ELSE Holds(v, j)
  <2>1. ASSUME NEW v \in Workers \ {w}, NEW j \in Jobs
        PROVE  Holds(v, j)' <=> Holds(v, j)
    BY <1>5 DEF Holds
  <2>2. ASSUME NEW j \in Jobs, Holds(w, j)' PROVE j \in Range(b)
    BY <1>6, <2>2, EmptyRange DEF Holds, Kept, Sent, Ended
  <2>3. QED
    BY <2>1, <2>2
<1>12. \A v \in Workers \ {w}, j \in Jobs : Holds(v, j) => Holds(v, j)'
  BY <1>5 DEF Holds
<1>13. Accepted'
  <2>1. \A j \in Jobs : InEngine(j)' => InEngine(j)
    BY <1>11 DEF InEngine
  <2>2. QED
    BY <1>1, <2>1 DEF IInv, Accepted
<1>14. JobNeverLost'
  <2> SUFFICES ASSUME NEW j \in Jobs, future[j] = "pending" PROVE InEngine(j)'
    BY <1>1 DEF JobNeverLost
  <2>1. InEngine(j)
    BY DEF IInv, JobNeverLost
  <2>2. CASE j \in Range(queue')
    BY <2>2 DEF InEngine
  <2>3. CASE \E v \in Workers \ {w} : Holds(v, j)
    BY <2>3, <1>12 DEF InEngine
  <2>4. CASE j \in Range(b)
    <3>1. j \in Live(b)
      BY <2>4 DEF Live
    <3>2. batch'[w] = b
      BY <3>1, <1>6 DEF Kept, Sent, Ended
    <3>3. QED
      BY <2>4, <3>2 DEF InEngine, Holds
  <2>5. QED
    BY <2>1, <2>2, <2>3, <2>4
<1>15. Recorded'
  <2>1. \A j \in Jobs : future[j] = "result" => j \in written
    BY DEF IInv, Recorded
  <2>2. ASSUME NEW v \in Workers, NEW j \in Range(batch'[v]),
               thread'[v] \in {"predict", "store", "ok"}, future[j] = "pending"
        PROVE  j \in todo'[v] \/ j \in written
    <3>1. CASE v = w
      <4>1. Sent
        BY <2>2, <3>1, <1>6 DEF Kept, Sent, Ended
      <4>2. j \in Live(b)
        BY <2>2, <3>1, <4>1 DEF Live, Sent
      <4>3. QED
        BY <3>1, <4>1, <4>2 DEF Sent
    <3>2. CASE v # w
      BY <2>2, <3>2, <1>5 DEF IInv, Recorded
    <3>3. QED
      BY <3>1, <3>2
  <2>3. QED
    BY <1>1, <2>1, <2>2 DEF Recorded
<1>16. JobInOnePlace'
  <2>1. \A i, k \in DOMAIN queue' : queue'[i] = queue'[k] => i = k
    BY DEF Injective
  <2>2. ASSUME NEW v \in Workers, NEW j \in Jobs, Holds(v, j)'
        PROVE  j \notin Range(queue') /\ \A u \in Workers : Holds(u, j)' => u = v
    <3>1. CASE v = w
      BY <1>11, <2>2, <3>1
    <3>2. CASE v # w
      BY <1>11, <2>2, <3>2 DEF IInv, JobInOnePlace
    <3>3. QED
      BY <3>1, <3>2
  <2>3. QED
    BY <2>1, <2>2 DEF JobInOnePlace
<1>17. \A v \in Workers : \A j \in todo'[v] : j \in todo[v] \/ Waiting(j)
  <2>1. ASSUME NEW v \in Workers, NEW j \in todo'[v], v = w PROVE Waiting(j)
    <3>1. j \in Range(b) /\ future[j] = "pending"
      BY <1>6, <2>1 DEF Kept, Sent, Ended, Live
    <3>2. \A u \in Workers : worker[u] = "executing" => j \notin Range(batch[u])
      BY <3>1 DEF Holds
    <3>3. QED
      BY <3>1, <3>2 DEF Waiting
  <2>2. QED
    BY <1>5, <2>1
<1>18. OpenJobs' \subseteq OpenJobs
  <2> SUFFICES ASSUME NEW j \in OpenJobs' PROVE j \in OpenJobs
    OBVIOUS
  <2>1. j \in Jobs
    BY DEF OpenJobs
  <2>2. worker[w] # "executing" /\ thread[w] = "none"
    BY <1>2
  <2>3. CASE /\ future'[j] = "pending"
             /\ \A v \in Workers : worker'[v] = "executing" => j \notin Range(batch'[v])
    <3>1. \A v \in Workers : worker[v] = "executing" => j \notin Range(batch[v])
      BY <1>5, <2>2, <2>3
    <3>2. QED
      BY <1>1, <2>1, <2>3, <3>1 DEF OpenJobs
  <2>4. ASSUME NEW v \in Workers, j \in todo'[v], thread'[v] \in {"predict", "store"}
        PROVE  j \in OpenJobs
    <3>1. CASE v # w
      BY <1>5, <2>1, <2>4, <3>1 DEF OpenJobs
    <3>2. CASE v = w
      <4>1. j \in Range(b) /\ future[j] = "pending"
        BY <1>6, <2>4, <3>2 DEF Kept, Sent, Ended, Live
      <4>2. \A u \in Workers : worker[u] = "executing" => j \notin Range(batch[u])
        BY <2>2, <4>1 DEF Holds
      <4>3. QED
        BY <2>1, <4>1, <4>2 DEF OpenJobs
    <3>3. QED
      BY <3>1, <3>2
  <2>5. QED
    BY <1>1, <2>1, <2>3, <2>4 DEF OpenJobs
<1>19. \A v \in Workers : thread[v] = "raised" => StaysRaised(v)
  BY <1>2, <1>5 DEF StaysRaised
<1>20. QED
  BY <1>1, <1>7, <1>9, <1>10, <1>13, <1>14, <1>15, <1>16, <1>17, <1>18, <1>19
     DEF IInv, Quiet

\* queue.get() of the first job of a batch.
LEMMA TakeFirstPreserves ==
    ASSUME IInv, NEW w \in Workers, TakeFirst(w) PROVE IInv' /\ Quiet
<1>1. /\ queue \in Seq(Jobs) /\ queue # <<>>
      /\ handoff \in [Workers -> Jobs \cup {NoJob}]
  BY DEF IInv, TypeOK, TakeFirst
<1> DEFINE b == <<Head(queue)>>
<1>2. /\ queue' = Tail(queue) /\ Collect(w, b) /\ handoff' = handoff
      /\ UNCHANGED <<lifecycleVars, clientVars, storeVars>>
      /\ cancelling' = cancelling
      /\ worker[w] = "idle"
  BY DEF TakeFirst, Popped
<1>3. /\ b \in Seq(Jobs) /\ b # <<>> /\ Range(b) = {Head(queue)}
      /\ Tail(queue) \in Seq(Jobs)
      /\ Range(queue) = {Head(queue)} \cup Range(Tail(queue))
  BY <1>1, HeadTailFacts
<1>4. handoff[w] = NoJob /\ batch[w] = <<>>
  BY <1>2 DEF IInv, WorkerShape
<1>5. \A j \in Jobs : ~Holds(w, j)
  BY <1>4, EmptyRange, EngineAssumption DEF Holds
<1>6. Injective(Tail(queue)) /\ Head(queue) \notin Range(Tail(queue))
  BY <1>1, TailStaysInjective DEF IInv, JobInOnePlace, Injective
<1>7. \A j \in Range(b) : /\ InEngine(j) /\ j \notin Range(queue')
                         /\ \A v \in Workers \ {w} : ~Holds(v, j)
  BY <1>1, <1>2, <1>3, <1>6, HeadTailFacts DEF IInv, JobInOnePlace, InEngine
<1>8. \A j \in Jobs : InEngine(j) =>
          \/ j \in Range(queue') \/ j \in Range(b)
          \/ \E v \in Workers \ {w} : Holds(v, j)
  BY <1>2, <1>3, <1>5 DEF InEngine
<1> HIDE DEF b
<1>9. QED
  BY <1>1, <1>2, <1>3, <1>4, <1>6, <1>7, <1>8, TurnPreserves

\* The pop inside wait_for, by its inner task or by the worker.
LEMMA PopNextPreserves ==
    ASSUME IInv, NEW w \in Workers, PopNext(w) PROVE IInv' /\ Quiet
<1> USE EngineAssumption
<1>1. /\ queue \in Seq(Jobs) /\ queue # <<>>
      /\ handoff \in [Workers -> Jobs \cup {NoJob}]
      /\ batch[w] \in Seq(Jobs)
      /\ worker[w] = "collecting" /\ handoff[w] = NoJob
      /\ queue' = Tail(queue)
      /\ UNCHANGED <<lifecycleVars, clientVars, cancelling, storeVars>>
  BY DEF IInv, TypeOK, PopNext, Popped
<1> DEFINE h == Head(queue)
           b == Append(batch[w], h)
<1>2. /\ h \in Jobs
      /\ Tail(queue) \in Seq(Jobs)
      /\ Range(queue) = {h} \cup Range(Tail(queue))
  BY <1>1, HeadTailFacts
<1>3. Injective(Tail(queue)) /\ h \notin Range(Tail(queue))
  BY <1>1, TailStaysInjective DEF IInv, JobInOnePlace, Injective
<1>4. \A v \in Workers : ~Holds(v, h)
  BY <1>2 DEF IInv, JobInOnePlace
<1> HIDE DEF h
<1>5. b \in Seq(Jobs) /\ b # <<>> /\ Range(b) = Range(batch[w]) \cup {h}
  <2>1. batch[w] \in Seq(Jobs) /\ h \in Jobs
    BY <1>1, <1>2
  <2>2. QED
    BY <2>1, AppendFacts
<1> HIDE DEF b
<1>6. CASE /\ handoff' = [handoff EXCEPT ![w] = h]
           /\ UNCHANGED <<pendingChars, worker, batch, thread, todo>>
  <2>1. /\ started' = started /\ pool' = pool /\ stopPc' = stopPc
        /\ starts' = starts /\ future' = future /\ call' = call
        /\ written' = written /\ late' = late /\ cancelling' = cancelling
        /\ worker' = worker /\ batch' = batch /\ thread' = thread /\ todo' = todo
    BY <1>1, <1>6 DEF lifecycleVars, clientVars, storeVars
  <2>2. /\ handoff' \in [Workers -> Jobs \cup {NoJob}]
        /\ handoff'[w] = h /\ h # NoJob
        /\ \A v \in Workers \ {w} : handoff'[v] = handoff[v]
    BY <1>1, <1>2, <1>6
  <2>3. TypeOK'
    BY <1>1, <1>2, <2>1, <2>2 DEF IInv, TypeOK
  <2>4. pool /\ (started \/ stopPc = "gather")
    BY <1>1 DEF IInv, Lifecycle
  <2>5. Lifecycle'
    BY <2>1, <2>4 DEF IInv, Lifecycle
  <2>6. WorkerShape'
    BY <1>1, <2>1, <2>2 DEF IInv, WorkerShape
  <2>7. \A j \in Jobs : InEngine(j)' <=> InEngine(j)
    BY <1>1, <1>2, <2>1, <2>2 DEF InEngine, Holds
  <2>8. Accepted' /\ JobNeverLost'
    BY <2>1, <2>7 DEF IInv, Accepted, JobNeverLost
  <2>9. Recorded'
    BY <2>1 DEF IInv, Recorded
  <2>10. JobInOnePlace'
    <3>1. \A i, k \in DOMAIN queue' : queue'[i] = queue'[k] => i = k
      BY <1>1, <1>3 DEF Injective
    <3>2. \A v \in Workers, j \in Jobs :
              Holds(v, j)' <=> Holds(v, j) \/ (v = w /\ j = h)
      BY <1>1, <2>1, <2>2 DEF Holds
    <3>3. \A j \in Jobs : j \in Range(queue') <=> j \in Range(queue) /\ j # h
      BY <1>1, <1>2, <1>3
    <3>4. QED
      BY <1>4, <3>1, <3>2, <3>3 DEF IInv, JobInOnePlace
  <2>11. Quiet
    BY <2>1 DEF Quiet, OpenJobs, StaysRaised
  <2>12. QED
    BY <2>3, <2>5, <2>6, <2>8, <2>9, <2>10, <2>11 DEF IInv
<1>7. CASE Collect(w, b) /\ handoff' = handoff
  <2>1. \A j \in Range(b) : /\ InEngine(j) /\ j \notin Range(queue')
                           /\ \A v \in Workers \ {w} : ~Holds(v, j)
    <3>1. \A j \in Range(b) : j \in Jobs
      BY <1>5, RangeType
    <3>2. \A j \in Range(b) : j = h \/ Holds(w, j)
      BY <1>5 DEF Holds
    <3>3. QED
      BY <1>1, <1>2, <1>3, <1>4, <3>1, <3>2 DEF IInv, JobInOnePlace, InEngine
  <2>2. \A j \in Jobs : InEngine(j) =>
            \/ j \in Range(queue') \/ j \in Range(b)
            \/ \E v \in Workers \ {w} : Holds(v, j)
    BY <1>1, <1>2, <1>5 DEF InEngine, Holds
  <2>3. QED
    BY <1>1, <1>2, <1>5, <1>7, <1>3, <2>1, <2>2, TurnPreserves
<1>8. QED
  BY <1>6, <1>7 DEF PopNext, h, b

\* The worker resumes with the job its inner task popped.
LEMMA ResumeWithItemPreserves ==
    ASSUME IInv, NEW w \in Workers, ResumeWithItem(w) PROVE IInv' /\ Quiet
<1> USE EngineAssumption
<1>1. /\ handoff \in [Workers -> Jobs \cup {NoJob}]
      /\ batch[w] \in Seq(Jobs) /\ queue \in Seq(Jobs)
      /\ handoff[w] \in Jobs
      /\ worker[w] = "collecting"
      /\ handoff' = [handoff EXCEPT ![w] = NoJob]
      /\ cancelling' \subseteq cancelling
      /\ queue' = queue
      /\ UNCHANGED <<lifecycleVars, clientVars, storeVars>>
  BY DEF IInv, TypeOK, WorkerShape, ResumeWithItem
<1> DEFINE h == handoff[w]
           b == Append(batch[w], h)
<1>2. b \in Seq(Jobs) /\ b # <<>> /\ Range(b) = Range(batch[w]) \cup {h}
  <2>1. batch[w] \in Seq(Jobs) /\ h \in Jobs
    BY <1>1
  <2> HIDE DEF h
  <2>2. QED
    BY <2>1, AppendFacts
<1>3. Collect(w, b)
  BY DEF ResumeWithItem
<1> HIDE DEF b
<1>4. Injective(queue')
  BY <1>1 DEF IInv, JobInOnePlace, Injective
<1>5. \A j \in Range(b) : /\ InEngine(j) /\ j \notin Range(queue')
                         /\ \A v \in Workers \ {w} : ~Holds(v, j)
  <2>1. \A j \in Range(b) : j \in Jobs /\ Holds(w, j)
    BY <1>2, RangeType DEF Holds
  <2>2. QED
    BY <1>1, <2>1 DEF IInv, JobInOnePlace, InEngine
<1>6. \A j \in Jobs : InEngine(j) =>
          \/ j \in Range(queue') \/ j \in Range(b)
          \/ \E v \in Workers \ {w} : Holds(v, j)
  BY <1>1, <1>2 DEF InEngine, Holds
<1>7. /\ handoff' \in [Workers -> Jobs \cup {NoJob}] /\ handoff'[w] = NoJob
      /\ \A v \in Workers \ {w} : handoff'[v] = handoff[v]
  BY <1>1
<1>8. QED
  BY <1>1, <1>2, <1>3, <1>5, <1>6, <1>7, <1>4, TurnPreserves

\* The batch is dispatched because its time is up.
LEMMA CollectTimeoutPreserves ==
    ASSUME IInv, NEW w \in Workers, CollectTimeout(w) PROVE IInv' /\ Quiet
<1> USE EngineAssumption
<1>1. /\ handoff \in [Workers -> Jobs \cup {NoJob}]
      /\ batch[w] \in Seq(Jobs) /\ batch[w] # <<>> /\ queue \in Seq(Jobs)
      /\ worker[w] = "collecting" /\ handoff[w] = NoJob
      /\ handoff' = handoff /\ cancelling' = cancelling /\ queue' = queue
      /\ Dispatch(w, batch[w])
      /\ UNCHANGED <<lifecycleVars, clientVars, storeVars>>
  BY DEF IInv, TypeOK, WorkerShape, CollectTimeout
<1>2. Injective(queue')
  BY <1>1 DEF IInv, JobInOnePlace, Injective
<1>3. \A j \in Range(batch[w]) : /\ InEngine(j) /\ j \notin Range(queue')
                                /\ \A v \in Workers \ {w} : ~Holds(v, j)
  <2>1. \A j \in Range(batch[w]) : j \in Jobs /\ Holds(w, j)
    BY <1>1, RangeType DEF Holds
  <2>2. QED
    BY <1>1, <2>1 DEF IInv, JobInOnePlace, InEngine
<1>4. \A j \in Jobs : InEngine(j) =>
          \/ j \in Range(queue') \/ j \in Range(batch[w])
          \/ \E v \in Workers \ {w} : Holds(v, j)
  BY <1>1 DEF InEngine, Holds
<1>5. QED
  BY <1>1, <1>3, <1>4, <1>2, TurnPreserves

-----------------------------------------------------------------------------
(* Finishing a batch and being cancelled: both release the batch of w and  *)
(* settle every future in it.                                              *)

\* Both ends of a turn, settled or cancelled, empty the batch and settle its jobs.
LEMMA ReleasePreserves ==
    ASSUME IInv, NEW w \in Workers, Release(w),
           thread[w] \notin {"predict", "store"},
           NEW how \in {"result", "error", "cancelled"},
           NEW next \in {"idle", "done"},
           future' = Settle(Held(w), how),
           worker' = [worker EXCEPT ![w] = next],
           next = "done" => stopPc = "gather" /\ w \notin cancelling',
           cancelling' \subseteq cancelling,
           worker[w] \in {"idle", "collecting", "executing"},
           handoff[w] = NoJob,
           how = "result" => thread[w] = "ok",
           UNCHANGED <<lifecycleVars, queue, call, handoff, storeVars>>
    PROVE  IInv' /\ Quiet
<1> USE EngineAssumption
<1>1. /\ started' = started /\ pool' = pool /\ stopPc' = stopPc /\ starts' = starts
      /\ queue' = queue /\ call' = call /\ handoff' = handoff /\ written' = written /\ late' = late
  BY DEF lifecycleVars, storeVars
<1>2. TypeOK
  BY DEF IInv
<1>3. /\ batch' \in [Workers -> Seq(Jobs)]
      /\ thread' \in [Workers -> {"none", "predict", "store", "ok", "raised"}]
      /\ todo' \in [Workers -> SUBSET Jobs]
      /\ batch'[w] = <<>> /\ thread'[w] = "none" /\ todo'[w] = {}
      /\ \A v \in Workers \ {w} :
            batch'[v] = batch[v] /\ thread'[v] = thread[v] /\ todo'[v] = todo[v]
  BY <1>2, ReleaseType DEF IInv
<1>4. /\ future' \in
            [Jobs -> {"none", "pending", "result", "error", "cancelled"}]
      /\ \A j \in Jobs : future'[j] =
            IF j \in Held(w) /\ future[j] = "pending" THEN how ELSE future[j]
  BY <1>2, SettleType
<1>5. /\ worker' \in [Workers -> {"absent", "idle", "collecting", "executing", "done"}]
      /\ worker'[w] = next
      /\ \A v \in Workers \ {w} : worker'[v] = worker[v]
  BY <1>2 DEF TypeOK
<1>6. TypeOK'
  BY <1>1, <1>2, <1>3, <1>4, <1>5 DEF TypeOK
<1>7. Lifecycle'
  BY <1>1, <1>5 DEF IInv, Lifecycle
<1>8. WorkerShape'
  <2>1. ASSUME NEW v \in Workers \ {w}
        PROVE  /\ batch'[v] # <<>> <=> worker'[v] \in {"collecting", "executing"}
               /\ handoff'[v] # NoJob => worker'[v] = "collecting"
               /\ thread'[v] # "none" <=> worker'[v] = "executing"
               /\ thread'[v] = "none" => todo'[v] = {}
               /\ thread'[v] = "ok" => todo'[v] = {}
               /\ todo'[v] \subseteq Range(batch'[v])
    <3>1. /\ batch'[v] = batch[v] /\ worker'[v] = worker[v]
          /\ thread'[v] = thread[v] /\ todo'[v] = todo[v]
          /\ handoff'[v] = handoff[v]
      BY <1>1, <1>3, <1>5
    <3>2. QED
      BY <3>1 DEF IInv, WorkerShape
  <2>2. /\ batch'[w] # <<>> <=> worker'[w] \in {"collecting", "executing"}
        /\ handoff'[w] # NoJob => worker'[w] = "collecting"
        /\ thread'[w] # "none" <=> worker'[w] = "executing"
        /\ todo'[w] = {}
    BY <1>1, <1>3, <1>5
  <2>3. QED
    BY <2>1, <2>2 DEF WorkerShape
<1>9. \A j \in Jobs : ~Holds(w, j)'
  BY <1>1, <1>3, EmptyRange DEF Holds
<1>10. \A v \in Workers \ {w}, j \in Jobs : Holds(v, j)' <=> Holds(v, j)
  BY <1>1, <1>3 DEF Holds
<1>11. Accepted'
  <2>1. \A j \in Jobs : InEngine(j)' => InEngine(j)
    BY <1>1, <1>9, <1>10 DEF InEngine
  <2>2. ASSUME NEW j \in Jobs
        PROVE  /\ future[j] = "none" <=> future'[j] = "none"
               /\ future[j] = "result" => future'[j] = "result"
    BY <1>4
  <2>3. QED
    BY <1>1, <2>1, <2>2 DEF IInv, Accepted
<1>12. JobNeverLost'
  <2> SUFFICES ASSUME NEW j \in Jobs, future'[j] = "pending" PROVE InEngine(j)'
    BY DEF JobNeverLost
  <2>1. future[j] = "pending" /\ j \notin Range(batch[w])
    BY <1>4 DEF Held
  <2>2. InEngine(j) /\ ~Holds(w, j)
    BY <2>1 DEF IInv, JobNeverLost, Holds
  <2>3. QED
    BY <1>1, <1>10, <2>2 DEF InEngine
<1>13. Recorded'
  <2>1. ASSUME NEW j \in Jobs, future'[j] = "result" PROVE j \in written
    <3>1. CASE future[j] = "result"
      BY <3>1 DEF IInv, Recorded
    <3>2. CASE future[j] # "result"
      <4>1. j \in Range(batch[w]) /\ future[j] = "pending" /\ how = "result"
        BY <1>4, <2>1, <3>2 DEF Held
      <4>2. todo[w] = {} /\ thread[w] = "ok"
        BY <4>1 DEF IInv, WorkerShape
      <4>3. QED
        BY <4>1, <4>2 DEF IInv, Recorded
    <3>3. QED
      BY <3>1, <3>2
  <2>2. ASSUME NEW v \in Workers, NEW j \in Range(batch'[v]),
               thread'[v] \in {"predict", "store", "ok"}, future'[j] = "pending"
        PROVE  j \in todo'[v] \/ j \in written
    <3>1. v # w
      BY <1>3, <2>2
    <3>2. j \in Jobs
      BY <1>3, RangeType
    <3>3. future[j] = "pending"
      BY <1>4, <2>2, <3>2
    <3>4. QED
      BY <1>3, <2>2, <3>1, <3>3 DEF IInv, Recorded
  <2>3. QED
    BY <1>1, <2>1, <2>2 DEF Recorded
<1>14. JobInOnePlace'
  BY <1>1, <1>9, <1>10 DEF IInv, JobInOnePlace
<1>15. \A v \in Workers : \A j \in todo'[v] : j \in todo[v]
  BY <1>3
<1>16. OpenJobs' \subseteq OpenJobs
  <2> SUFFICES ASSUME NEW j \in OpenJobs' PROVE j \in OpenJobs
    OBVIOUS
  <2>1. j \in Jobs
    BY DEF OpenJobs
  <2>2. CASE /\ future'[j] = "pending"
             /\ \A v \in Workers : worker'[v] = "executing" => j \notin Range(batch'[v])
    <3>1. future[j] = "pending" /\ j \notin Range(batch[w])
      BY <1>4, <2>1, <2>2 DEF Held
    <3>2. \A v \in Workers : worker[v] = "executing" => j \notin Range(batch[v])
      BY <1>3, <1>5, <2>2, <3>1
    <3>3. QED
      BY <2>1, <3>1, <3>2 DEF OpenJobs
  <2>3. ASSUME NEW v \in Workers, j \in todo'[v], thread'[v] \in {"predict", "store"}
        PROVE  j \in OpenJobs
    <3>1. v # w
      BY <1>3, <2>3
    <3>2. QED
      BY <1>3, <2>1, <2>3, <3>1 DEF OpenJobs
  <2>4. QED
    BY <1>1, <2>1, <2>2, <2>3 DEF OpenJobs
<1>17. IsSettled(w)
  BY <1>2, <1>4, RangeType DEF TypeOK, IsSettled, Held
<1>18. \A v \in Workers : thread[v] = "raised" => StaysRaised(v) \/ IsSettled(v)
  BY <1>3, <1>17 DEF StaysRaised
<1>19. \A j \in Jobs : future'[j] \in {"none", "pending"} => future'[j] = future[j]
  BY <1>4
<1>20. QED
  BY <1>1, <1>6, <1>7, <1>8, <1>11, <1>12, <1>13, <1>14, <1>15, <1>16, <1>18, <1>19
     DEF IInv, Quiet

\* A turn that ends with its thread's verdict.
LEMMA WorkerFinishesPreserves ==
    ASSUME IInv, NEW w \in Workers, WorkerFinishes(w) PROVE IInv' /\ Quiet
<1>1. /\ Release(w)
      /\ future' = Settle(Held(w), Verdict(w))
      /\ worker' = [worker EXCEPT ![w] = "idle"]
      /\ cancelling' = cancelling
      /\ worker[w] = "executing" /\ thread[w] \notin {"predict", "store"}
      /\ UNCHANGED <<lifecycleVars, queue, call, handoff, storeVars>>
  BY DEF WorkerFinishes
<1>2. /\ Verdict(w) \in {"result", "error", "cancelled"}
      /\ Verdict(w) = "result" => thread[w] = "ok"
  BY DEF Verdict
<1>3. handoff[w] = NoJob
  BY <1>1 DEF IInv, WorkerShape
<1>4. QED
  BY <1>1, <1>2, <1>3, ReleasePreserves

\* A turn that ends with the cancellation of its worker.
LEMMA WorkerCancelledPreserves ==
    ASSUME IInv, NEW w \in Workers, WorkerCancelled(w) PROVE IInv' /\ Quiet
<1>1. /\ Release(w)
      /\ future' = Settle(Held(w), "cancelled")
      /\ worker' = [worker EXCEPT ![w] = "done"]
      /\ cancelling' \subseteq cancelling /\ w \notin cancelling'
      /\ worker[w] \in {"idle", "collecting", "executing"}
      /\ handoff[w] = NoJob
      /\ w \in cancelling /\ thread[w] \notin {"predict", "store"}
      /\ UNCHANGED <<lifecycleVars, queue, call, handoff, storeVars>>
  BY DEF WorkerCancelled, CanUnwind, IInv, WorkerShape
<1>2. stopPc = "gather"
  BY <1>1 DEF IInv, Lifecycle
<1>3. QED
  BY <1>1, <1>2, ReleasePreserves

-----------------------------------------------------------------------------
(* Calls, threads and stop().                                              *)

\* start().
LEMMA StartPreserves == ASSUME IInv, Start PROVE IInv'
<1> USE EngineAssumption
<1>1. /\ started' = TRUE /\ pool' = TRUE /\ stopPc' = stopPc /\ stopPc = "off"
      /\ starts' \in 0..MaxStarts
      /\ queue' = queue /\ future' = future /\ call' = call
      /\ cancelling' = cancelling /\ handoff' = handoff /\ batch' = batch
      /\ thread' = thread /\ todo' = todo /\ written' = written /\ late' = late
      /\ ~started
  BY DEF Start, IInv, TypeOK, queueVars, clientVars, threadVars, storeVars
<1>2. worker' = [w \in Workers |-> "idle"]
  BY DEF Start
<1>3. \A w \in Workers : worker[w] = "absent"
  BY <1>1 DEF IInv, Lifecycle
<1>4. TypeOK'
  BY <1>1, <1>2 DEF IInv, TypeOK
<1>5. Lifecycle'
  BY <1>1, <1>2 DEF IInv, Lifecycle
<1>6. WorkerShape'
  BY <1>1, <1>2, <1>3 DEF IInv, WorkerShape
<1>7. Accepted' /\ JobNeverLost' /\ JobInOnePlace' /\ Recorded'
  BY <1>1 DEF IInv, Accepted, JobNeverLost, JobInOnePlace, Recorded, InEngine, Holds
<1>8. QED
  BY <1>4, <1>5, <1>6, <1>7 DEF IInv

\* submit() up to its await.
LEMMA SubmitPreserves == ASSUME IInv, NEW j \in Jobs, Submit(j) PROVE IInv'
<1> USE EngineAssumption
<1>1. /\ started' = started /\ pool' = pool /\ stopPc' = stopPc /\ starts' = starts
      /\ worker' = worker /\ cancelling' = cancelling /\ handoff' = handoff
      /\ batch' = batch /\ thread' = thread /\ todo' = todo /\ written' = written /\ late' = late
      /\ call[j] = "idle"
  BY DEF Submit, lifecycleVars, workerVars, threadVars, storeVars
<1>2. future[j] = "none" /\ ~InEngine(j)
  BY <1>1 DEF IInv, Accepted
<1>3. Lifecycle' /\ WorkerShape'
  <2>1. queue' = queue \/ started
    BY DEF Submit, queueVars
  <2>2. Lifecycle'
    BY <1>1, <2>1 DEF IInv, Lifecycle
  <2>3. WorkerShape'
    BY <1>1 DEF IInv, WorkerShape
  <2>4. QED
    BY <2>2, <2>3
<1>4. CASE \E answer \in {"refused", "failed"} :
              /\ call' = [call EXCEPT ![j] = answer]
              /\ queue' = queue /\ future' = future
  <2>1. TypeOK'
    BY <1>1, <1>4 DEF IInv, TypeOK
  <2>2. Accepted' /\ JobNeverLost' /\ JobInOnePlace' /\ Recorded'
    BY <1>1, <1>4 DEF IInv, TypeOK, Accepted, JobNeverLost, JobInOnePlace, Recorded,
                      InEngine, Holds
  <2>3. QED
    BY <1>3, <2>1, <2>2 DEF IInv
<1>5. CASE /\ queue' = Append(queue, j)
           /\ future' = [future EXCEPT ![j] = "pending"]
           /\ call' = [call EXCEPT ![j] = "waiting"]
  <2>1. queue' \in Seq(Jobs) /\ Range(queue') = Range(queue) \cup {j}
    BY <1>5, AppendFacts DEF IInv, TypeOK
  <2>2. TypeOK'
    BY <1>1, <1>5, <2>1 DEF IInv, TypeOK
  <2>3. \A k \in Jobs : InEngine(k)' <=> InEngine(k) \/ k = j
    BY <1>1, <2>1 DEF InEngine, Holds
  <2>4. /\ future'[j] = "pending" /\ call'[j] = "waiting"
        /\ \A k \in Jobs \ {j} : future'[k] = future[k] /\ call'[k] = call[k]
    BY <1>5 DEF IInv, TypeOK
  <2>5. Accepted' /\ JobNeverLost'
    BY <2>3, <2>4 DEF IInv, Accepted, JobNeverLost
  <2>6. Recorded'
    <3>1. ASSUME NEW k \in Jobs, future'[k] = "result" PROVE k \in written'
      BY <1>1, <2>4, <3>1 DEF IInv, Recorded
    <3>2. ASSUME NEW v \in Workers, NEW k \in Range(batch'[v]),
                 thread'[v] \in {"predict", "store", "ok"}, future'[k] = "pending"
          PROVE  k \in todo'[v] \/ k \in written'
      <4>1. k \in Jobs /\ k # j
        BY <1>1, <1>2, RangeType DEF IInv, TypeOK, InEngine, Holds
      <4>2. future[k] = "pending"
        BY <2>4, <3>2, <4>1
      <4>3. QED
        BY <1>1, <3>2, <4>2 DEF IInv, Recorded
    <3>3. QED
      BY <3>1, <3>2 DEF Recorded
  <2>7. JobInOnePlace'
    <3>1. j \notin Range(queue) /\ \A v \in Workers : ~Holds(v, j)
      BY <1>2 DEF InEngine
    <3>2. Injective(queue')
      <4>1. queue \in Seq(Jobs) /\ Injective(queue)
        BY DEF IInv, TypeOK, JobInOnePlace, Injective
      <4>2. queue' = Append(queue, j) /\ j \notin Range(queue)
        BY <1>5, <3>1
      <4>3. QED
        BY <4>1, <4>2, AppendStaysInjective
    <3>3. \A v \in Workers, k \in Jobs : Holds(v, k)' <=> Holds(v, k)
      BY <1>1 DEF Holds
    <3>4. QED
      BY <2>1, <3>1, <3>2, <3>3 DEF IInv, JobInOnePlace, Injective
  <2>8. QED
    BY <1>3, <2>2, <2>5, <2>6, <2>7 DEF IInv
<1>6. QED
  BY <1>4, <1>5 DEF Submit, queueVars

\* submit() returns with its settled future.
LEMMA SubmitReturnsPreserves ==
    ASSUME IInv, NEW j \in Jobs, SubmitReturns(j) PROVE IInv'
<1> USE EngineAssumption
<1>1. /\ started' = started /\ pool' = pool /\ stopPc' = stopPc /\ starts' = starts
      /\ worker' = worker /\ cancelling' = cancelling /\ handoff' = handoff
      /\ batch' = batch /\ thread' = thread /\ todo' = todo /\ written' = written /\ late' = late
      /\ queue' = queue /\ future' = future
      /\ call[j] = "waiting" /\ future[j] # "pending"
      /\ call' = [call EXCEPT ![j] = Outcome(future[j])]
  BY DEF SubmitReturns, lifecycleVars, queueVars, workerVars, threadVars, storeVars
<1>2. future[j] \in {"result", "error", "cancelled"}
  BY <1>1 DEF IInv, Accepted, TypeOK
<1>3. /\ Outcome(future[j]) \in {"answered", "failed", "cancelled"}
      /\ Outcome(future[j]) = "answered" => future[j] = "result"
  BY <1>2 DEF Outcome
<1>4. TypeOK'
  BY <1>1, <1>3 DEF IInv, TypeOK
<1>5. /\ Lifecycle' /\ WorkerShape' /\ JobNeverLost' /\ JobInOnePlace'
      /\ Recorded'
  BY <1>1 DEF IInv, Lifecycle, WorkerShape, JobNeverLost, JobInOnePlace, Recorded,
              InEngine, Holds
<1>6. Accepted'
  <2>1. \A k \in Jobs : InEngine(k)' <=> InEngine(k)
    BY <1>1 DEF InEngine, Holds
  <2>2. \A k \in Jobs \ {j} : call'[k] = call[k]
    BY <1>1 DEF IInv, TypeOK
  <2>3. call'[j] = Outcome(future[j])
    BY <1>1 DEF IInv, TypeOK
  <2>4. QED
    BY <1>1, <1>3, <2>1, <2>2, <2>3 DEF IInv, Accepted
<1>7. QED
  BY <1>4, <1>5, <1>6 DEF IInv

\* submit() gives up waiting.
LEMMA SubmitAbandonedPreserves ==
    ASSUME IInv, NEW j \in Jobs, SubmitAbandoned(j) PROVE IInv'
<1> USE EngineAssumption
<1>0. PICK how \in {"refused", "cancelled"} : call' = [call EXCEPT ![j] = how]
  BY DEF SubmitAbandoned
<1>1. /\ started' = started /\ pool' = pool /\ stopPc' = stopPc /\ starts' = starts
      /\ worker' = worker /\ cancelling' = cancelling /\ handoff' = handoff
      /\ batch' = batch /\ thread' = thread /\ todo' = todo /\ written' = written /\ late' = late
      /\ queue' = queue
      /\ call[j] = "waiting"
      /\ future' = Settle({j}, "cancelled")
  BY DEF SubmitAbandoned, lifecycleVars, queueVars, workerVars, threadVars, storeVars
<1>2. /\ future' \in
            [Jobs -> {"none", "pending", "result", "error", "cancelled"}]
      /\ \A k \in Jobs : future'[k] =
            IF k \in {j} /\ future[k] = "pending" THEN "cancelled" ELSE future[k]
  BY <1>1, SettleType DEF IInv
<1>3. /\ call'[j] = how
      /\ \A k \in Jobs \ {j} : call'[k] = call[k] /\ future'[k] = future[k]
      /\ future'[j] \in {future[j], "cancelled"}
      /\ future[j] = "result" => future'[j] = "result"
      /\ future'[j] # "pending" /\ (future'[j] = "result" => future[j] = "result")
  BY <1>0, <1>1, <1>2 DEF IInv, TypeOK
<1>4. TypeOK'
  BY <1>0, <1>1, <1>2 DEF IInv, TypeOK
<1>5. Lifecycle' /\ WorkerShape' /\ JobInOnePlace'
  BY <1>1 DEF IInv, Lifecycle, WorkerShape, JobInOnePlace, Holds
<1>6. \A k \in Jobs : InEngine(k)' <=> InEngine(k)
  BY <1>1 DEF InEngine, Holds
<1>7. Accepted' /\ JobNeverLost'
  BY <1>3, <1>6 DEF IInv, Accepted, JobNeverLost
<1>8. Recorded'
  <2>1. ASSUME NEW k \in Jobs, future'[k] = "result" PROVE k \in written'
    BY <1>1, <1>3, <2>1 DEF IInv, Recorded
  <2>2. ASSUME NEW v \in Workers, NEW k \in Range(batch'[v]),
               thread'[v] \in {"predict", "store", "ok"}, future'[k] = "pending"
        PROVE  k \in todo'[v] \/ k \in written'
    <3>1. k \in Jobs
      BY <1>1, RangeType DEF IInv, TypeOK
    <3>2. future[k] = "pending"
      BY <1>3, <2>2, <3>1
    <3>3. QED
      BY <1>1, <2>2, <3>2 DEF IInv, Recorded
  <2>3. QED
    BY <2>1, <2>2 DEF Recorded
<1>9. QED
  BY <1>4, <1>5, <1>7, <1>8 DEF IInv

\* A thread step leaves futures, queue and batches alone: what it must not
\* forget is the jobs it still owes a record.
LEMMA ThreadPreserves ==
    ASSUME IInv, NEW w \in Workers,
           NEW next \in {"store", "ok", "raised"}, NEW rest \in SUBSET Jobs,
           thread[w] \in {"predict", "store"},
           thread' = [thread EXCEPT ![w] = next],
           todo' = [todo EXCEPT ![w] = rest],
           rest \subseteq todo[w],
           next = "ok" => rest = {},
           written \subseteq written', written' \subseteq Jobs, late' \subseteq Jobs,
           next # "raised" => todo[w] \subseteq rest \cup written',
           UNCHANGED <<lifecycleVars, queueVars, clientVars, workerVars>>
    PROVE  IInv'
<1> USE EngineAssumption
<1>1. /\ started' = started /\ pool' = pool /\ stopPc' = stopPc /\ starts' = starts
      /\ worker' = worker /\ cancelling' = cancelling /\ handoff' = handoff
      /\ batch' = batch /\ queue' = queue /\ future' = future /\ call' = call
  BY DEF lifecycleVars, queueVars, clientVars, workerVars
<1>2. /\ thread' \in [Workers -> {"none", "predict", "store", "ok", "raised"}]
      /\ thread'[w] = next
      /\ \A v \in Workers \ {w} : thread'[v] = thread[v]
  BY DEF IInv, TypeOK
<1>3. /\ todo' \in [Workers -> SUBSET Jobs]
      /\ todo'[w] = rest
      /\ \A v \in Workers \ {w} : todo'[v] = todo[v]
  BY DEF IInv, TypeOK
<1>4. TypeOK'
  BY <1>1, <1>2, <1>3 DEF IInv, TypeOK
<1>5. Lifecycle' /\ Accepted' /\ JobNeverLost' /\ JobInOnePlace'
  BY <1>1 DEF IInv, Lifecycle, Accepted, JobNeverLost, JobInOnePlace, InEngine, Holds
<1>6. WorkerShape'
  BY <1>1, <1>2, <1>3 DEF IInv, WorkerShape
<1>7. Recorded'
  <2>1. \A j \in Jobs : future'[j] = "result" => j \in written'
    BY <1>1 DEF IInv, Recorded
  <2>2. ASSUME NEW v \in Workers, NEW j \in Range(batch'[v]),
               thread'[v] \in {"predict", "store", "ok"}, future'[j] = "pending"
        PROVE  j \in todo'[v] \/ j \in written'
    <3>1. CASE v = w
      <4>1. j \in todo[w] \/ j \in written
        BY <1>1, <2>2, <3>1 DEF IInv, Recorded
      <4>2. QED
        BY <1>2, <1>3, <2>2, <3>1, <4>1
    <3>2. CASE v # w
      BY <1>1, <1>2, <1>3, <2>2, <3>2 DEF IInv, Recorded
    <3>3. QED
      BY <3>1, <3>2
  <2>3. QED
    BY <2>1, <2>2 DEF Recorded
<1>8. QED
  BY <1>4, <1>5, <1>6, <1>7 DEF IInv

\* The detector returns or raises.
LEMMA ThreadPredictPreserves ==
    ASSUME IInv, NEW w \in Workers, ThreadPredict(w) PROVE IInv'
<1>1. PICK next \in {"store", "raised"} : thread' = [thread EXCEPT ![w] = next]
  BY DEF ThreadPredict
<1>2. /\ thread[w] = "predict" /\ todo' = todo /\ written' = written /\ late' = late
      /\ UNCHANGED <<lifecycleVars, queueVars, clientVars, workerVars>>
  BY DEF ThreadPredict, storeVars
<1>3. /\ todo[w] \in SUBSET Jobs /\ todo' = [todo EXCEPT ![w] = todo[w]]
      /\ written' \subseteq Jobs /\ late' \subseteq Jobs
  BY <1>2 DEF IInv, TypeOK
<1>4. QED
  BY <1>1, <1>2, <1>3, ThreadPreserves

\* One job of the batch is masked and stored, or that fails.
LEMMA ThreadStorePreserves ==
    ASSUME IInv, NEW w \in Workers, ThreadStore(w) PROVE IInv'
<1>1. PICK j \in todo[w] :
          /\ todo' = [todo EXCEPT ![w] = todo[w] \ {j}]
          /\ \/ /\ written' = written \cup {j}
                /\ thread' = [thread EXCEPT ![w] =
                                  IF todo[w] = {j} THEN "ok" ELSE "store"]
                /\ late' = late
             \/ /\ thread' = [thread EXCEPT ![w] = "raised"]
                /\ late' \in {late, late \cup {j}}
                /\ written' = written
  BY DEF ThreadStore
<1>2. /\ thread[w] = "store"
      /\ UNCHANGED <<lifecycleVars, queueVars, clientVars, workerVars>>
  BY DEF ThreadStore
<1> DEFINE rest == todo[w] \ {j}
<1>3. /\ todo[w] \subseteq Jobs /\ written \subseteq Jobs /\ late \subseteq Jobs
      /\ rest \in SUBSET Jobs /\ rest \subseteq todo[w]
  BY DEF IInv, TypeOK
<1>4. CASE /\ written' = written \cup {j}
           /\ thread' = [thread EXCEPT ![w] =
                             IF todo[w] = {j} THEN "ok" ELSE "store"]
           /\ late' = late
  <2> DEFINE next == IF todo[w] = {j} THEN "ok" ELSE "store"
  <2>1. /\ next \in {"store", "ok", "raised"}
        /\ next = "ok" => rest = {}
        /\ todo[w] \subseteq rest \cup written'
    BY <1>4
  <2>2. thread' = [thread EXCEPT ![w] = next] /\ todo' = [todo EXCEPT ![w] = rest]
    BY <1>1, <1>4
  <2>3. written \subseteq written' /\ written' \subseteq Jobs /\ late' \subseteq Jobs
    BY <1>3, <1>4
  <2> HIDE DEF next, rest
  <2>4. QED
    BY <1>2, <1>3, <2>1, <2>2, <2>3, ThreadPreserves
<1>5. CASE /\ thread' = [thread EXCEPT ![w] = "raised"]
           /\ late' \in {late, late \cup {j}}
           /\ written' = written
  <2>1. written \subseteq written' /\ written' \subseteq Jobs /\ late' \subseteq Jobs
    BY <1>3, <1>5
  <2>2. todo' = [todo EXCEPT ![w] = rest]
    BY <1>1
  <2> DEFINE next == "raised"
  <2>3. /\ next \in {"store", "ok", "raised"} /\ next = "raised" /\ next # "ok"
        /\ thread[w] \in {"predict", "store"}
        /\ thread' = [thread EXCEPT ![w] = next]
    BY <1>2, <1>5
  <2> HIDE DEF next, rest
  <2>4. QED
    BY <1>2, <1>3, <2>1, <2>2, <2>3, ThreadPreserves
<1>6. QED
  BY <1>1, <1>4, <1>5

\* Redis runs a put_if_absent nobody waits for any more.
LEMMA RedisWritesLatePreserves ==
    ASSUME IInv, NEW j \in Jobs, RedisWritesLate(j) PROVE IInv'
<1>1. /\ started' = started /\ pool' = pool /\ stopPc' = stopPc /\ starts' = starts
      /\ worker' = worker /\ cancelling' = cancelling /\ handoff' = handoff
      /\ batch' = batch /\ queue' = queue /\ future' = future /\ call' = call
      /\ thread' = thread /\ todo' = todo
      /\ written' = written \cup {j} /\ late' = late \ {j}
  BY DEF RedisWritesLate, lifecycleVars, queueVars, clientVars, workerVars
<1>2. TypeOK'
  BY <1>1 DEF IInv, TypeOK
<1>3. /\ Lifecycle' /\ WorkerShape' /\ Accepted' /\ JobNeverLost' /\ JobInOnePlace'
      /\ Recorded'
  BY <1>1 DEF IInv, Lifecycle, WorkerShape, Accepted, JobNeverLost, JobInOnePlace,
              Recorded, InEngine, Holds
<1>4. QED
  BY <1>2, <1>3 DEF IInv

\* stop() up to gather().
LEMMA StopBeginsPreserves == ASSUME IInv, StopBegins PROVE IInv'
<1> USE EngineAssumption
<1>1. /\ started /\ started' = FALSE /\ stopPc' = "gather" /\ cancelling' = Workers
      /\ pool' = pool /\ starts' = starts /\ worker' = worker /\ handoff' = handoff
      /\ batch' = batch /\ thread' = thread /\ todo' = todo /\ written' = written /\ late' = late
      /\ queue' = queue /\ future' = future /\ call' = call
  BY DEF StopBegins, queueVars, clientVars, threadVars, storeVars
<1>2. TypeOK'
  BY <1>1 DEF IInv, TypeOK
<1>3. Lifecycle'
  BY <1>1 DEF IInv, Lifecycle
<1>4. /\ WorkerShape' /\ Accepted' /\ JobNeverLost' /\ JobInOnePlace'
      /\ Recorded'
  BY <1>1 DEF IInv, WorkerShape, Accepted, JobNeverLost, JobInOnePlace, Recorded,
              InEngine, Holds
<1>5. QED
  BY <1>2, <1>3, <1>4 DEF IInv

\* Once the workers are gone only the queue can hold a job, so draining it
\* leaves no open future.
LEMMA DrainEffect ==
    ASSUME IInv, Drain,
           \A w \in Workers : worker[w] \in {"absent", "done"},
           \A w \in Workers : batch'[w] = batch[w] /\ handoff'[w] = handoff[w],
           call' = call, written' = written /\ late' = late
    PROVE  /\ queue' = <<>> /\ queue' \in Seq(Jobs) /\ stopPc' = "off"
           /\ future' \in
                 [Jobs -> {"none", "pending", "result", "error", "cancelled"}]
           /\ Accepted' /\ JobNeverLost' /\ JobInOnePlace'
           /\ \A j \in Jobs : /\ future'[j] # "pending"
                              /\ future'[j] = "result" => future[j] = "result"
<1> USE EngineAssumption
<1>1. queue' = <<>> /\ stopPc' = "off" /\ future' = Settle(Range(queue), "cancelled")
  BY DEF Drain
<1>2. queue' \in Seq(Jobs)
  BY <1>1, EmptyIsSeq
<1>3. /\ future' \in
            [Jobs -> {"none", "pending", "result", "error", "cancelled"}]
      /\ \A j \in Jobs : future'[j] =
            IF j \in Range(queue) /\ future[j] = "pending"
            THEN "cancelled" ELSE future[j]
  BY <1>1, SettleType DEF IInv
<1>4. ASSUME NEW w \in Workers, NEW j \in Jobs PROVE ~Holds(w, j) /\ ~Holds(w, j)'
  <2>1. batch[w] = <<>> /\ handoff[w] = NoJob
    BY DEF IInv, WorkerShape
  <2>2. QED
    BY <2>1, EmptyRange DEF Holds
<1>5. \A j \in Jobs : ~InEngine(j)' /\ (InEngine(j) => j \in Range(queue))
  BY <1>1, <1>4, EmptyRange DEF InEngine
<1>6. \A j \in Jobs : future'[j] # "pending"
  BY <1>3, <1>5 DEF IInv, JobNeverLost
<1>7. JobNeverLost'
  BY <1>6 DEF JobNeverLost
<1>8. Accepted'
  BY <1>3, <1>5 DEF IInv, Accepted
<1>9. JobInOnePlace'
  BY <1>1, <1>4 DEF JobInOnePlace
<1>10. QED
  BY <1>1, <1>2, <1>3, <1>6, <1>7, <1>8, <1>9

\* stop() from gather() to aclose(), or to its end with a memory store.
LEMMA StopGathersPreserves == ASSUME IInv, StopGathers PROVE IInv'
<1> USE EngineAssumption
<1>1. /\ started' = started /\ starts' = starts /\ call' = call
      /\ cancelling' = cancelling /\ handoff' = handoff /\ batch' = batch
      /\ thread' = thread /\ todo' = todo /\ written' = written /\ late' = late
      /\ pool' = FALSE /\ stopPc = "gather"
      /\ worker' = [w \in Workers |-> "absent"]
      /\ \A w \in Workers : worker[w] = "done"
  BY DEF StopGathers, Gathered, threadVars, storeVars
<1>2. ~started
  BY <1>1 DEF IInv, Lifecycle
<1>3. /\ thread = [w \in Workers |-> "none"]
      /\ \A w \in Workers : batch[w] = <<>> /\ handoff[w] = NoJob /\ todo[w] = {}
  BY <1>1 DEF IInv, TypeOK, WorkerShape
<1>4. WorkerShape'
  BY <1>1, <1>3, EmptyRange DEF IInv, WorkerShape
<1>5. \A w \in Workers : \A j \in Range(batch[w]) : FALSE
  BY <1>3, EmptyRange
<1>6. \A w \in Workers : w \notin cancelling'
  BY <1>1 DEF IInv, Lifecycle
<1>7. CASE stopPc' = "closing" /\ queue' = queue /\ future' = future
  <2>1. TypeOK'
    BY <1>1, <1>7 DEF IInv, TypeOK
  <2>2. Lifecycle'
    BY <1>1, <1>2, <1>6, <1>7 DEF IInv, Lifecycle
  <2>3. Accepted' /\ JobNeverLost' /\ JobInOnePlace' /\ Recorded'
    BY <1>1, <1>7 DEF IInv, Accepted, JobNeverLost, JobInOnePlace, Recorded,
                      InEngine, Holds
  <2>4. QED
    BY <1>4, <2>1, <2>2, <2>3 DEF IInv
<1>8. CASE Drain
  <2>1. /\ queue' = <<>> /\ queue' \in Seq(Jobs) /\ stopPc' = "off"
        /\ future' \in
              [Jobs -> {"none", "pending", "result", "error", "cancelled"}]
        /\ Accepted' /\ JobNeverLost' /\ JobInOnePlace'
        /\ \A j \in Jobs : /\ future'[j] # "pending"
                           /\ future'[j] = "result" => future[j] = "result"
    BY <1>1, <1>8, DrainEffect
  <2>2. TypeOK'
    BY <1>1, <2>1 DEF IInv, TypeOK
  <2>3. Lifecycle'
    BY <1>1, <1>2, <1>6, <2>1 DEF IInv, Lifecycle
  <2>4. Recorded'
    BY <1>1, <1>5, <2>1 DEF IInv, Recorded
  <2>5. QED
    BY <1>4, <2>1, <2>2, <2>3, <2>4 DEF IInv
<1>9. QED
  BY <1>7, <1>8 DEF StopGathers, queueVars

\* stop() after aclose(), which may have raised.
LEMMA StopClosesPreserves == ASSUME IInv, StopCloses PROVE IInv'
<1> USE EngineAssumption
<1>1. /\ started' = started /\ pool' = pool /\ starts' = starts /\ call' = call
      /\ worker' = worker /\ cancelling' = cancelling /\ handoff' = handoff
      /\ batch' = batch /\ thread' = thread /\ todo' = todo /\ written' = written /\ late' = late
      /\ stopPc = "closing"
  BY DEF StopCloses, workerVars, threadVars, storeVars
<1>2. ~started /\ ~pool
  BY <1>1 DEF IInv, Lifecycle
<1>3. \A w \in Workers : worker[w] = "absent"
  BY <1>2 DEF IInv, Lifecycle
<1>4. WorkerShape'
  BY <1>1 DEF IInv, WorkerShape
<1>5. CASE stopPc' = "failed" /\ queue' = queue /\ future' = future
  <2>1. TypeOK'
    BY <1>1, <1>5 DEF IInv, TypeOK
  <2>2. Lifecycle'
    BY <1>1, <1>2, <1>3, <1>5 DEF IInv, Lifecycle
  <2>3. Accepted' /\ JobNeverLost' /\ JobInOnePlace' /\ Recorded'
    BY <1>1, <1>5 DEF IInv, Accepted, JobNeverLost, JobInOnePlace, Recorded,
                      InEngine, Holds
  <2>4. QED
    BY <1>4, <2>1, <2>2, <2>3 DEF IInv
<1>6. CASE Drain
  <2>1. /\ queue' = <<>> /\ queue' \in Seq(Jobs) /\ stopPc' = "off"
        /\ future' \in
              [Jobs -> {"none", "pending", "result", "error", "cancelled"}]
        /\ Accepted' /\ JobNeverLost' /\ JobInOnePlace'
        /\ \A j \in Jobs : /\ future'[j] # "pending"
                           /\ future'[j] = "result" => future[j] = "result"
    BY <1>1, <1>3, <1>6, DrainEffect
  <2>2. TypeOK'
    BY <1>1, <2>1 DEF IInv, TypeOK
  <2>3. Lifecycle'
    BY <1>1, <1>2, <1>3, <2>1 DEF IInv, Lifecycle
  <2>4. Recorded'
    <3>1. \A j \in Jobs : future'[j] = "result" => j \in written'
      BY <1>1, <2>1 DEF IInv, Recorded
    <3>2. \A w \in Workers : batch'[w] = <<>>
      BY <1>1, <1>3 DEF IInv, WorkerShape
    <3>3. QED
      BY <3>1, <3>2, EmptyRange DEF Recorded
  <2>5. QED
    BY <1>4, <2>1, <2>2, <2>3, <2>4 DEF IInv
<1>7. QED
  BY <1>5, <1>6 DEF StopCloses, queueVars

-----------------------------------------------------------------------------
(* The theorems.                                                           *)

\* Every step keeps the inductive invariant.
LEMMA StepIInv == IInv /\ [Next]_vars => IInv'
<1> SUFFICES ASSUME IInv, [Next]_vars PROVE IInv'
  OBVIOUS
<1>1. CASE Start
  BY <1>1, StartPreserves
<1>2. ASSUME NEW j \in Jobs, ClientStep(j) PROVE IInv'
  BY <1>2, SubmitPreserves, SubmitReturnsPreserves, SubmitAbandonedPreserves
     DEF ClientStep
<1>3. ASSUME NEW w \in Workers, WorkerStep(w) PROVE IInv'
  BY <1>3, TakeFirstPreserves, PopNextPreserves, ResumeWithItemPreserves,
     CollectTimeoutPreserves, WorkerFinishesPreserves, WorkerCancelledPreserves
     DEF WorkerStep
<1>4. ASSUME NEW w \in Workers, ThreadStep(w) PROVE IInv'
  BY <1>4, ThreadPredictPreserves, ThreadStorePreserves DEF ThreadStep
<1>5. CASE StopBegins
  BY <1>5, StopBeginsPreserves
<1>6. CASE StopGathers
  BY <1>6, StopGathersPreserves
<1>7. CASE StopCloses
  BY <1>7, StopClosesPreserves
<1>8. CASE UNCHANGED vars
  BY <1>8 DEF vars, lifecycleVars, queueVars, clientVars, workerVars, threadVars,
     storeVars, IInv, TypeOK, Lifecycle, WorkerShape, Accepted, Recorded,
     JobNeverLost, JobInOnePlace, InEngine, Holds
<1>9. ASSUME NEW j \in Jobs, RedisWritesLate(j) PROVE IInv'
  BY <1>9, RedisWritesLatePreserves
<1>10. QED
  BY <1>1, <1>2, <1>3, <1>4, <1>5, <1>6, <1>7, <1>8, <1>9 DEF Next, Terminating

\* The inductive invariant holds in every reachable state of the engine.
THEOREM Invariance == Spec => []IInv
<1>1. Init => IInv
  BY InitIInv
<1>2. IInv /\ [Next]_vars => IInv'
  BY StepIInv
<1>3. QED
  BY <1>1, <1>2, PTL DEF Spec

\* Every variable keeps its type.
THEOREM TypeCorrect == Spec => []TypeOK
<1>1. IInv => TypeOK
  BY DEF IInv
<1>2. QED
  BY <1>1, Invariance, PTL

\* No accepted job is lost between queue, inner task and batch.
THEOREM NoJobLost == Spec => []JobNeverLost
<1>1. IInv => JobNeverLost
  BY DEF IInv
<1>2. QED
  BY <1>1, Invariance, PTL

\* No job is in two places at once.
THEOREM NoJobDuplicated == Spec => []JobInOnePlace
<1>1. IInv => JobInOnePlace
  BY DEF IInv
<1>2. QED
  BY <1>1, Invariance, PTL

\* A client is answered only after its record is stored.
THEOREM AnswersAreRecorded == Spec => []AnswerIsRecorded
<1>1. IInv => AnswerIsRecorded
  BY DEF IInv, Accepted, Recorded, AnswerIsRecorded
<1>2. QED
  BY <1>1, Invariance, PTL

\* stop() never outruns a thread.
THEOREM ThreadsAreAwaited == Spec => []StopWaitsForInference
<1>1. IInv => StopWaitsForInference
  BY DEF IInv, Lifecycle, WorkerShape, TypeOK, StopWaitsForInference
<1>2. QED
  BY <1>1, Invariance, PTL

\* stop() leaves nothing behind.
THEOREM StopIsClean == Spec => []StopLeavesNothing
<1>1. IInv => StopLeavesNothing
  <2> SUFFICES ASSUME IInv, ~started, stopPc \in {"off", "failed"} PROVE
        /\ stopPc = "off" => queue = <<>>
        /\ \A j \in Jobs : future[j] = "pending" => j \in Range(queue)
        /\ \A w \in Workers : worker[w] = "absent" /\ batch[w] = <<>>
    BY DEF StopLeavesNothing
  <2>1. ~pool /\ (stopPc = "off" => queue = <<>>)
    BY DEF IInv, Lifecycle
  <2>2. ASSUME NEW w \in Workers
        PROVE  worker[w] = "absent" /\ batch[w] = <<>> /\ handoff[w] = NoJob
    BY <2>1 DEF IInv, Lifecycle, WorkerShape
  <2>3. \A j \in Jobs : InEngine(j) => j \in Range(queue)
    BY <2>2, EmptyRange, EngineAssumption DEF InEngine, Holds
  <2>4. QED
    BY <2>1, <2>2, <2>3 DEF IInv, JobNeverLost
<1>2. QED
  BY <1>1, Invariance, PTL

\* Workers stay alive from start() to stop().
THEOREM StaysRunning == Spec => []RunningWhileStarted
<1>1. IInv => RunningWhileStarted
  BY DEF IInv, Lifecycle, RunningWhileStarted
<1>2. QED
  BY <1>1, Invariance, PTL

-----------------------------------------------------------------------------
(* The characters charged.                                                 *)

Inside == {j \in Jobs : InEngine(j)}
Charged == Letters(Inside)

\* No worker has a job twice.
NoRepeats ==
    \A w \in Workers : Injective(batch[w]) /\ handoff[w] \notin Range(batch[w])

\* What is charged is what is inside, once each.
Exact ==
    /\ IsFiniteSet(Charged)
    /\ pendingChars = Cardinality(Charged)
    /\ pendingChars <= QueueChars

\* A character of a set of jobs.
LEMMA LetterOf ==
    ASSUME NEW S, NEW x
    PROVE  x \in Letters(S) <=> \E j \in S : \E c \in 1..Length[j] : x = <<j, c>>
BY DEF Letters

\* Of a list without repetitions, each character of its jobs counts once.
LEMMA CharsCount ==
    ASSUME NEW s \in Seq(Jobs), Injective(s), IsFiniteSet(Letters(Range(s)))
    PROVE  Chars(s) = Cardinality(Letters(Range(s)))
<1> DEFINE P == UNION {{i} \X (1..Length[s[i]]) : i \in DOMAIN s}
           L == Letters(Range(s))
           f == [x \in P |-> <<s[x[1]], x[2]>>]
<1>1. \A x : x \in P <=> \E i \in DOMAIN s : \E c \in 1..Length[s[i]] : x = <<i, c>>
  OBVIOUS
<1>2. ASSUME NEW x \in P PROVE f[x] \in L
  <2>1. PICK i \in DOMAIN s : \E c \in 1..Length[s[i]] : x = <<i, c>>
    BY <1>1
  <2>2. PICK c \in 1..Length[s[i]] : x = <<i, c>>
    BY <2>1
  <2>3. f[x] = <<s[i], c>> /\ s[i] \in Range(s)
    BY <2>2 DEF Range
  <2>4. QED
    BY <2>2, <2>3, LetterOf
<1>3. ASSUME NEW x \in P, NEW y \in P, f[x] = f[y] PROVE x = y
  <2>1. PICK i \in DOMAIN s : \E c \in 1..Length[s[i]] : x = <<i, c>>
    BY <1>1
  <2>1a. PICK c \in 1..Length[s[i]] : x = <<i, c>>
    BY <2>1
  <2>2. PICK k \in DOMAIN s : \E d \in 1..Length[s[k]] : y = <<k, d>>
    BY <1>1
  <2>2a. PICK d \in 1..Length[s[k]] : y = <<k, d>>
    BY <2>2
  <2>3. f[x] = <<s[i], c>> /\ f[y] = <<s[k], d>>
    BY <2>1a, <2>2a
  <2>4. s[i] = s[k] /\ c = d
    BY <1>3, <2>3
  <2>5. i = k
    BY <2>4 DEF Injective
  <2>6. QED
    BY <2>1a, <2>2a, <2>4, <2>5
<1>4. ASSUME NEW y \in L PROVE \E x \in P : f[x] = y
  <2>1. PICK j \in Range(s) : \E c \in 1..Length[j] : y = <<j, c>>
    BY LetterOf
  <2>1a. PICK c \in 1..Length[j] : y = <<j, c>>
    BY <2>1
  <2>2. PICK i \in DOMAIN s : s[i] = j
    BY DEF Range
  <2>3. <<i, c>> \in P
    BY <1>1, <2>1a, <2>2
  <2>4. f[<<i, c>>] = y
    BY <2>1a, <2>2, <2>3
  <2>5. QED
    BY <2>3, <2>4
<1>5. f \in [P -> L]
  BY <1>2
<1>6. f \in Injection(P, L)
  BY <1>3, <1>5 DEF Injection, IsInjective
<1>7. f \in Surjection(P, L)
  BY <1>4, <1>5 DEF Surjection
<1> HIDE DEF f, L, P
<1>8. IsFiniteSet(L)
  BY DEF L
<1>9. Cardinality(P) = Cardinality(L)
  BY <1>6, <1>7, <1>8, FS_Injection
<1>10. QED
  BY <1>9 DEF Chars, P, L

\* A payload has finitely many characters, as many as it is long.
LEMMA LettersOfOne ==
    ASSUME NEW j \in Jobs
    PROVE  /\ IsFiniteSet(Letters({j})) /\ Cardinality(Letters({j})) = Length[j]
<1>1. Length[j] \in Nat
  BY EngineAssumption
<1> DEFINE places == 1..Length[j]
<1>2. IsFiniteSet(places) /\ Cardinality(places) = Length[j]
  <2>1. 1 \in Int /\ Length[j] \in Int
    BY <1>1
  <2>2. /\ IsFiniteSet(places)
        /\ Cardinality(places) = IF 1 > Length[j] THEN 0 ELSE Length[j] - 1 + 1
    BY <2>1, FS_Interval
  <2>3. Length[j] = IF 1 > Length[j] THEN 0 ELSE Length[j] - 1 + 1
    BY <1>1
  <2>4. QED
    BY <2>2, <2>3
<1>3. IsFiniteSet({j}) /\ Cardinality({j}) = 1
  BY FS_Singleton
<1>4. IsFiniteSet({j} \X places) /\ Cardinality({j} \X places) = 1 * Length[j]
  <2> HIDE DEF places
  <2> DEFINE job == {j}
  <2>1. IsFiniteSet(job) /\ Cardinality(job) = 1
    BY <1>3
  <2> HIDE DEF job
  <2>2. /\ IsFiniteSet(job \X places)
        /\ Cardinality(job \X places) = Cardinality(job) * Cardinality(places)
    BY <1>2, <2>1, FS_Product
  <2>3. QED
    BY <1>2, <2>1, <2>2 DEF job
<1>5. Letters({j}) = {j} \X places
  BY DEF Letters
<1>6. QED
  BY <1>1, <1>4, <1>5

\* Nothing enters, leaves or is charged.
LEMMA NothingMoves ==
    ASSUME Exact, Inside' = Inside, pendingChars' = pendingChars
    PROVE  Exact'
BY DEF Exact, Charged

\* submit() charges the job it queues.
LEMMA Arriving ==
    ASSUME Exact, NEW j \in Jobs, j \notin Inside, Inside' = Inside \cup {j},
           pendingChars' = pendingChars + Length[j], pendingChars' <= QueueChars
    PROVE  Exact'
<1>1. Charged' = Charged \cup Letters({j})
  <2>1. Letters(Inside \cup {j}) = Letters(Inside) \cup Letters({j})
    BY LetterOf
  <2>2. Charged' = Letters(Inside')
    BY DEF Charged
  <2>3. QED
    BY <2>1, <2>2 DEF Charged
<1>2. Charged \cap Letters({j}) = {}
  BY LetterOf DEF Charged
<1>3. IsFiniteSet(Charged) /\ pendingChars = Cardinality(Charged)
  BY DEF Exact
<1>4. IsFiniteSet(Letters({j})) /\ Cardinality(Letters({j})) = Length[j]
  BY LettersOfOne
<1>5. IsFiniteSet({}) /\ Cardinality({}) = 0
  BY FS_EmptySet
<1>6. /\ IsFiniteSet(Charged \cup Letters({j}))
      /\ Cardinality(Charged \cup Letters({j})) =
            Cardinality(Charged) + Cardinality(Letters({j}))
              - Cardinality(Charged \cap Letters({j}))
  BY <1>3, <1>4, FS_Union
<1>7. Cardinality(Charged) \in Nat /\ Length[j] \in Nat
  BY <1>3, FS_CardinalityType, EngineAssumption
<1>8. Cardinality(Charged \cap Letters({j})) = 0
  BY <1>2, <1>5
<1>9. Cardinality(Charged \cup Letters({j})) = pendingChars + Length[j]
  BY <1>3, <1>4, <1>6, <1>7, <1>8
<1>10. IsFiniteSet(Charged') /\ Cardinality(Charged') = pendingChars'
  BY <1>1, <1>6, <1>9
<1>11. QED
  BY <1>10 DEF Exact

\* A list of jobs leaves, and its characters are released.
LEMMA Leaving ==
    ASSUME Exact, NEW s \in Seq(Jobs), Injective(s), Range(s) \subseteq Inside,
           Inside' = Inside \ Range(s), pendingChars' = pendingChars - Chars(s)
    PROVE  Exact'
<1> DEFINE L == Letters(Range(s))
<1>1. L \subseteq Charged
  BY LetterOf DEF Charged
<1>2. Charged' = Charged \ L
  <2>1. Letters(Inside \ Range(s)) = Letters(Inside) \ L
    BY LetterOf
  <2>2. Charged' = Letters(Inside')
    BY DEF Charged
  <2>3. QED
    BY <2>1, <2>2 DEF Charged
<1>3. /\ IsFiniteSet(Charged) /\ pendingChars = Cardinality(Charged)
      /\ pendingChars <= QueueChars
  BY DEF Exact
<1>4. IsFiniteSet(L)
  BY <1>1, <1>3, FS_Subset
<1>5. Chars(s) = Cardinality(L)
  BY <1>4, CharsCount
<1> HIDE DEF L
<1>6. /\ IsFiniteSet(Charged \ L)
      /\ Cardinality(Charged \ L) = Cardinality(Charged) - Cardinality(Charged \cap L)
  BY <1>3, FS_Difference
<1>7. Charged \cap L = L
  BY <1>1
<1>8. Cardinality(L) \in Nat /\ Cardinality(Charged) \in Nat /\ QueueChars \in Nat
  BY <1>3, <1>4, FS_CardinalityType, EngineAssumption
<1>9. pendingChars' = Cardinality(Charged \ L) /\ pendingChars' <= QueueChars
  <2>1. Cardinality(Charged \cap L) = Cardinality(L)
    BY <1>7
  <2>2. Cardinality(Charged \ L) = pendingChars - Cardinality(L)
    BY <1>3, <1>6, <2>1
  <2>3. pendingChars' = pendingChars - Cardinality(L)
    BY <1>5
  <2>4. QED
    BY <1>3, <1>8, <2>2, <2>3
<1>10. QED
  BY <1>2, <1>6, <1>9 DEF Exact

\* What is inside follows the queue, the batches and the jobs handed over.
LEMMA SamePlaces ==
    ASSUME queue' = queue, batch' = batch, handoff' = handoff
    PROVE  Inside' = Inside /\ (NoRepeats => NoRepeats')
BY DEF Inside, InEngine, Holds, NoRepeats

\* A worker that gains a job and goes on collecting, dispatches, or drops the batch
\* and releases its characters.
LEMMA TurnCharges ==
    ASSUME IInv, NoRepeats, Exact, NEW w \in Workers, NEW b \in Seq(Jobs), Injective(b),
           worker[w] \in {"idle", "collecting"},
           Collect(w, b) \/ Dispatch(w, b),
           handoff'[w] = NoJob,
           \A v \in Workers \ {w} : handoff'[v] = handoff[v],
           \A j \in Range(queue') : j \in Range(queue),
           \A j \in Range(b) : /\ InEngine(j) /\ j \notin Range(queue')
                              /\ \A v \in Workers \ {w} : ~Holds(v, j),
           \A j \in Jobs : InEngine(j) =>
               \/ j \in Range(queue') \/ j \in Range(b)
               \/ \E v \in Workers \ {w} : Holds(v, j)
    PROVE  NoRepeats' /\ Exact'
<1> USE EngineAssumption
<1>1. thread[w] = "none" /\ todo[w] = {} /\ TypeOK
  BY DEF IInv, WorkerShape
<1>2. /\ batch' \in [Workers -> Seq(Jobs)]
      /\ \A v \in Workers \ {w} : batch'[v] = batch[v]
  BY <1>1, TurnEffect
<1>3. \/ batch'[w] = b /\ pendingChars' = pendingChars
      \/ batch'[w] = <<>> /\ pendingChars' = pendingChars - Chars(b)
  BY <1>1 DEF TypeOK, Collect, Dispatch
<1>4. Injective(<<>>)
  BY DEF Injective
<1>5. Range(b) \subseteq Jobs
  BY RangeType
<1>6. NoRepeats'
  <2>1. ASSUME NEW v \in Workers \ {w}
        PROVE  Injective(batch'[v]) /\ handoff'[v] \notin Range(batch'[v])
    BY <1>2, <2>1 DEF NoRepeats
  <2>2. Injective(batch'[w])
    BY <1>3, <1>4
  <2>3. NoJob \notin Range(batch'[w])
    BY <1>2, RangeType
  <2>4. QED
    BY <2>1, <2>2, <2>3 DEF NoRepeats, Injective
<1>7. \A v \in Workers \ {w}, j \in Jobs : Holds(v, j)' <=> Holds(v, j)
  BY <1>2 DEF Holds
<1>8. \A j \in Jobs : Holds(w, j)' <=> j \in Range(batch'[w])
  BY DEF Holds
<1>9. \A j \in Jobs : InEngine(j)' <=>
         \/ j \in Range(queue') \/ j \in Range(batch'[w])
         \/ \E v \in Workers \ {w} : Holds(v, j)
  BY <1>7, <1>8 DEF InEngine
<1>10. \A j \in Jobs : InEngine(j) <=>
         \/ j \in Range(queue') \/ j \in Range(b)
         \/ \E v \in Workers \ {w} : Holds(v, j)
  BY <1>5 DEF InEngine
<1>11. CASE batch'[w] = b /\ pendingChars' = pendingChars
  <2>1. Inside' = Inside
    BY <1>9, <1>10, <1>11 DEF Inside
  <2>2. QED
    BY <1>6, <1>11, <2>1, NothingMoves
<1>12. CASE batch'[w] = <<>> /\ pendingChars' = pendingChars - Chars(b)
  <2>1. \A j \in Jobs : InEngine(j)' <=> InEngine(j) /\ j \notin Range(b)
    BY <1>9, <1>10, <1>12, EmptyRange
  <2>2. Inside' = Inside \ Range(b) /\ Range(b) \subseteq Inside
    BY <1>5, <2>1 DEF Inside
  <2>3. QED
    BY <1>6, <1>12, <2>2, Leaving
<1>13. QED
  BY <1>3, <1>11, <1>12

\* queue.get() of the first job of a batch.
LEMMA TakeFirstCharges ==
    ASSUME IInv, NoRepeats, Exact, NEW w \in Workers, TakeFirst(w)
    PROVE  NoRepeats' /\ Exact'
<1>1. queue \in Seq(Jobs) /\ queue # <<>>
  BY DEF IInv, TypeOK, TakeFirst
<1> DEFINE b == <<Head(queue)>>
<1>2. queue' = Tail(queue) /\ Collect(w, b) /\ handoff' = handoff /\ worker[w] = "idle"
  BY DEF TakeFirst, Popped
<1>3. /\ b \in Seq(Jobs) /\ Range(b) = {Head(queue)}
      /\ Range(queue) = {Head(queue)} \cup Range(Tail(queue))
  BY <1>1, HeadTailFacts
<1>4. handoff[w] = NoJob /\ batch[w] = <<>>
  BY <1>2 DEF IInv, WorkerShape
<1>5. \A j \in Jobs : ~Holds(w, j)
  BY <1>4, EmptyRange, EngineAssumption DEF Holds
<1>6. Head(queue) \notin Range(Tail(queue))
  BY <1>1, TailStaysInjective DEF IInv, JobInOnePlace, Injective
<1>7. \A j \in Range(b) : /\ InEngine(j) /\ j \notin Range(queue')
                         /\ \A v \in Workers \ {w} : ~Holds(v, j)
  BY <1>1, <1>2, <1>3, <1>6, HeadTailFacts DEF IInv, JobInOnePlace, InEngine
<1>8. \A j \in Jobs : InEngine(j) =>
          \/ j \in Range(queue') \/ j \in Range(b)
          \/ \E v \in Workers \ {w} : Holds(v, j)
  BY <1>2, <1>3, <1>5 DEF InEngine
<1>9. Injective(b)
  BY DEF Injective
<1> HIDE DEF b
<1>10. QED
  BY <1>2, <1>3, <1>4, <1>7, <1>8, <1>9, TurnCharges

\* The pop inside wait_for, by its inner task or by the worker.
LEMMA PopNextCharges ==
    ASSUME IInv, NoRepeats, Exact, NEW w \in Workers, PopNext(w)
    PROVE  NoRepeats' /\ Exact'
<1> USE EngineAssumption
<1>1. /\ queue \in Seq(Jobs) /\ queue # <<>>
      /\ handoff \in [Workers -> Jobs \cup {NoJob}]
      /\ batch[w] \in Seq(Jobs)
      /\ worker[w] = "collecting" /\ handoff[w] = NoJob
      /\ queue' = Tail(queue)
  BY DEF IInv, TypeOK, PopNext, Popped
<1> DEFINE h == Head(queue)
           b == Append(batch[w], h)
<1>2. h \in Jobs /\ Range(queue) = {h} \cup Range(Tail(queue))
  BY <1>1, HeadTailFacts
<1>3. h \notin Range(Tail(queue))
  BY <1>1, TailStaysInjective DEF IInv, JobInOnePlace, Injective
<1>4. \A v \in Workers : ~Holds(v, h)
  BY <1>2 DEF IInv, JobInOnePlace
<1> HIDE DEF h
<1>5. b \in Seq(Jobs) /\ Range(b) = Range(batch[w]) \cup {h} /\ Injective(b)
  <2>1. /\ batch[w] \in Seq(Jobs) /\ h \in Jobs /\ h \notin Range(batch[w])
        /\ Injective(batch[w])
    BY <1>1, <1>2, <1>4 DEF Holds, NoRepeats
  <2>2. QED
    BY <2>1, AppendFacts, AppendStaysInjective
<1> HIDE DEF b
<1>6. CASE handoff' = [handoff EXCEPT ![w] = h] /\ batch' = batch /\ pendingChars' = pendingChars
  <2>1. /\ handoff'[w] = h /\ h # NoJob
        /\ \A v \in Workers \ {w} : handoff'[v] = handoff[v]
    BY <1>1, <1>2, <1>6
  <2>2. NoRepeats'
    <3>1. ASSUME NEW v \in Workers
          PROVE  Injective(batch'[v]) /\ handoff'[v] \notin Range(batch'[v])
      BY <1>2, <1>4, <1>6, <2>1 DEF NoRepeats, Holds
    <3>2. QED
      BY <3>1 DEF NoRepeats, Injective
  <2>3. \A j \in Jobs : InEngine(j)' <=> InEngine(j)
    BY <1>1, <1>2, <1>6, <2>1 DEF InEngine, Holds
  <2>4. Inside' = Inside
    BY <2>3 DEF Inside
  <2>5. QED
    BY <1>6, <2>2, <2>4, NothingMoves
<1>7. CASE Collect(w, b) /\ handoff' = handoff
  <2>1. \A j \in Range(b) : /\ InEngine(j) /\ j \notin Range(queue')
                           /\ \A v \in Workers \ {w} : ~Holds(v, j)
    <3>1. \A j \in Range(b) : j \in Jobs
      BY <1>5, RangeType
    <3>2. \A j \in Range(b) : j = h \/ Holds(w, j)
      BY <1>5 DEF Holds
    <3>3. QED
      BY <1>1, <1>2, <1>3, <1>4, <3>1, <3>2 DEF IInv, JobInOnePlace, InEngine
  <2>2. \A j \in Jobs : InEngine(j) =>
            \/ j \in Range(queue') \/ j \in Range(b)
            \/ \E v \in Workers \ {w} : Holds(v, j)
    BY <1>1, <1>2, <1>5 DEF InEngine, Holds
  <2>3. \A j \in Range(queue') : j \in Range(queue)
    BY <1>1, <1>2
  <2>4. QED
    BY <1>1, <1>5, <1>7, <2>1, <2>2, <2>3, TurnCharges
<1>8. QED
  BY <1>6, <1>7 DEF PopNext, h, b

\* The worker resumes with the job its inner task popped.
LEMMA ResumeWithItemCharges ==
    ASSUME IInv, NoRepeats, Exact, NEW w \in Workers, ResumeWithItem(w)
    PROVE  NoRepeats' /\ Exact'
<1> USE EngineAssumption
<1>1. /\ handoff \in [Workers -> Jobs \cup {NoJob}]
      /\ batch[w] \in Seq(Jobs) /\ handoff[w] \in Jobs
      /\ worker[w] = "collecting"
      /\ handoff' = [handoff EXCEPT ![w] = NoJob]
      /\ queue' = queue
  BY DEF IInv, TypeOK, WorkerShape, ResumeWithItem
<1> DEFINE h == handoff[w]
           b == Append(batch[w], h)
<1>2. b \in Seq(Jobs) /\ Range(b) = Range(batch[w]) \cup {h} /\ Injective(b)
  <2>1. /\ batch[w] \in Seq(Jobs) /\ h \in Jobs /\ h \notin Range(batch[w])
        /\ Injective(batch[w])
    BY <1>1 DEF NoRepeats
  <2> HIDE DEF h
  <2>2. QED
    BY <2>1, AppendFacts, AppendStaysInjective
<1>3. Collect(w, b)
  BY DEF ResumeWithItem
<1> HIDE DEF b
<1>4. \A j \in Range(b) : /\ InEngine(j) /\ j \notin Range(queue')
                         /\ \A v \in Workers \ {w} : ~Holds(v, j)
  <2>1. \A j \in Range(b) : j \in Jobs /\ Holds(w, j)
    BY <1>2, RangeType DEF Holds
  <2>2. QED
    BY <1>1, <2>1 DEF IInv, JobInOnePlace, InEngine
<1>5. \A j \in Jobs : InEngine(j) =>
          \/ j \in Range(queue') \/ j \in Range(b)
          \/ \E v \in Workers \ {w} : Holds(v, j)
  BY <1>1, <1>2 DEF InEngine, Holds
<1>6. handoff'[w] = NoJob /\ \A v \in Workers \ {w} : handoff'[v] = handoff[v]
  BY <1>1
<1>7. QED
  BY <1>1, <1>2, <1>3, <1>4, <1>5, <1>6, TurnCharges

\* The batch is dispatched because its time is up.
LEMMA CollectTimeoutCharges ==
    ASSUME IInv, NoRepeats, Exact, NEW w \in Workers, CollectTimeout(w)
    PROVE  NoRepeats' /\ Exact'
<1> USE EngineAssumption
<1>1. /\ batch[w] \in Seq(Jobs)
      /\ worker[w] = "collecting" /\ handoff[w] = NoJob
      /\ handoff' = handoff /\ queue' = queue
      /\ Dispatch(w, batch[w])
  BY DEF IInv, TypeOK, CollectTimeout
<1>2. Injective(batch[w])
  BY DEF NoRepeats
<1>3. \A j \in Range(batch[w]) : /\ InEngine(j) /\ j \notin Range(queue')
                                /\ \A v \in Workers \ {w} : ~Holds(v, j)
  <2>1. \A j \in Range(batch[w]) : j \in Jobs /\ Holds(w, j)
    BY <1>1, RangeType DEF Holds
  <2>2. QED
    BY <1>1, <2>1 DEF IInv, JobInOnePlace, InEngine
<1>4. \A j \in Jobs : InEngine(j) =>
          \/ j \in Range(queue') \/ j \in Range(batch[w])
          \/ \E v \in Workers \ {w} : Holds(v, j)
  BY <1>1 DEF InEngine, Holds
<1>5. QED
  BY <1>1, <1>2, <1>3, <1>4, TurnCharges

\* Both ends of a turn release the characters of its batch.
LEMMA ReleaseCharges ==
    ASSUME IInv, NoRepeats, Exact, NEW w \in Workers, Release(w),
           handoff[w] = NoJob, queue' = queue, handoff' = handoff
    PROVE  NoRepeats' /\ Exact'
<1> USE EngineAssumption
<1>1. /\ batch \in [Workers -> Seq(Jobs)] /\ batch[w] \in Seq(Jobs)
      /\ batch' = [batch EXCEPT ![w] = <<>>]
      /\ pendingChars' = pendingChars - Chars(batch[w])
  BY DEF IInv, TypeOK, Release
<1>2. batch'[w] = <<>> /\ \A v \in Workers \ {w} : batch'[v] = batch[v]
  BY <1>1
<1>3. NoRepeats'
  <2>1. ASSUME NEW v \in Workers
        PROVE  Injective(batch'[v]) /\ handoff'[v] \notin Range(batch'[v])
    <3>1. CASE v = w
      BY <1>2, <3>1, EmptyRange DEF Injective
    <3>2. CASE v # w
      BY <1>2, <3>2 DEF NoRepeats
    <3>3. QED
      BY <3>1, <3>2
  <2>2. QED
    BY <2>1 DEF NoRepeats, Injective
<1>4. \A j \in Jobs : Holds(w, j) <=> j \in Range(batch[w])
  BY DEF Holds
<1>5. \A j \in Jobs : ~Holds(w, j)'
  BY <1>2, EmptyRange DEF Holds
<1>6. \A v \in Workers \ {w}, j \in Jobs : Holds(v, j)' <=> Holds(v, j)
  BY <1>2 DEF Holds
<1>7. \A j \in Jobs : j \in Range(batch[w]) =>
          j \notin Range(queue) /\ \A v \in Workers \ {w} : ~Holds(v, j)
  BY <1>4 DEF IInv, JobInOnePlace
<1>8. \A j \in Jobs : InEngine(j)' <=> InEngine(j) /\ j \notin Range(batch[w])
  BY <1>4, <1>5, <1>6, <1>7 DEF InEngine
<1>9. Range(batch[w]) \subseteq Jobs
  BY <1>1, RangeType
<1>10. /\ Inside' = Inside \ Range(batch[w])
       /\ Range(batch[w]) \subseteq Inside
  BY <1>4, <1>8, <1>9 DEF Inside, InEngine
<1>11. Injective(batch[w])
  BY DEF NoRepeats
<1>12. QED
  BY <1>1, <1>3, <1>10, <1>11, Leaving

\* submit(): refused, or queued and charged.
LEMMA SubmitCharges ==
    ASSUME IInv, NoRepeats, Exact, NEW j \in Jobs, Submit(j)
    PROVE  NoRepeats' /\ Exact'
<1> USE EngineAssumption
<1>1. batch' = batch /\ handoff' = handoff
  BY DEF Submit, workerVars
<1>2. CASE queue' = queue /\ pendingChars' = pendingChars
  BY <1>1, <1>2, SamePlaces, NothingMoves
<1>3. CASE /\ Admits(j) /\ queue' = Append(queue, j)
           /\ pendingChars' = pendingChars + Length[j]
  <2>1. queue \in Seq(Jobs)
    BY DEF IInv, TypeOK
  <2>2. Range(queue') = Range(queue) \cup {j}
    BY <1>3, <2>1, AppendFacts
  <2>3. future[j] = "none"
    BY DEF IInv, Accepted, Submit
  <2>4. j \notin Inside
    BY <2>3 DEF IInv, Accepted, Inside
  <2>5. Inside' = Inside \cup {j}
    BY <1>1, <2>2 DEF Inside, InEngine, Holds
  <2>6. pendingChars' <= QueueChars
    BY <1>3 DEF Admits
  <2>7. NoRepeats'
    BY <1>1 DEF NoRepeats
  <2>8. QED
    BY <1>3, <2>4, <2>5, <2>6, <2>7, Arriving
<1>4. QED
  BY <1>2, <1>3 DEF Submit, queueVars

\* The while loop of stop() releases what it takes from the queue.
LEMMA DrainCharges ==
    ASSUME IInv, NoRepeats, Exact, Drain, batch' = batch, handoff' = handoff
    PROVE  NoRepeats' /\ Exact'
<1>1. /\ queue \in Seq(Jobs) /\ Injective(queue)
      /\ queue' = <<>> /\ pendingChars' = pendingChars - Chars(queue)
  BY DEF IInv, TypeOK, JobInOnePlace, Injective, Drain
<1>2. NoRepeats'
  BY DEF NoRepeats
<1>3. Range(queue) \subseteq Jobs
  BY <1>1, RangeType
<1>4. \A w \in Workers, j \in Jobs : Holds(w, j)' <=> Holds(w, j)
  BY DEF Holds
<1>5. \A j \in Jobs : InEngine(j)' <=> InEngine(j) /\ j \notin Range(queue)
  BY <1>1, <1>4, EmptyRange DEF IInv, JobInOnePlace, InEngine
<1>6. Inside' = Inside \ Range(queue) /\ Range(queue) \subseteq Inside
  BY <1>3, <1>5 DEF Inside, InEngine
<1>7. QED
  BY <1>1, <1>2, <1>6, Leaving

\* stop() after gather(), and after aclose().
LEMMA StopCharges ==
    ASSUME IInv, NoRepeats, Exact, StopGathers \/ StopCloses
    PROVE  NoRepeats' /\ Exact'
<1>1. batch' = batch /\ handoff' = handoff
  BY DEF StopGathers, StopCloses, workerVars
<1>2. CASE Drain
  BY <1>1, <1>2, DrainCharges
<1>3. CASE queue' = queue /\ pendingChars' = pendingChars
  BY <1>1, <1>3, SamePlaces, NothingMoves
<1>4. QED
  BY <1>2, <1>3 DEF StopGathers, StopCloses, queueVars

\* Every step of the engine releases what it charged, and only that.
LEMMA StepCharges ==
    IInv /\ NoRepeats /\ Exact /\ [Next]_vars => NoRepeats' /\ Exact'
<1> SUFFICES ASSUME IInv, NoRepeats, Exact, [Next]_vars PROVE NoRepeats' /\ Exact'
  OBVIOUS
<1>1. ASSUME queue' = queue, pendingChars' = pendingChars, batch' = batch,
             handoff' = handoff
      PROVE  NoRepeats' /\ Exact'
  BY <1>1, SamePlaces, NothingMoves
<1>2. CASE Start \/ StopBegins \/ Terminating \/ UNCHANGED vars
  BY <1>1, <1>2 DEF Start, StopBegins, Terminating, vars, queueVars, workerVars
<1>3. CASE StopGathers \/ StopCloses
  BY <1>3, StopCharges
<1>4. ASSUME NEW j \in Jobs, ClientStep(j) \/ RedisWritesLate(j)
      PROVE  NoRepeats' /\ Exact'
  <2>1. CASE Submit(j)
    BY <2>1, SubmitCharges
  <2>2. CASE SubmitReturns(j) \/ SubmitAbandoned(j) \/ RedisWritesLate(j)
    BY <1>1, <2>2 DEF SubmitReturns, SubmitAbandoned, RedisWritesLate, queueVars,
                      workerVars
  <2>3. QED
    BY <1>4, <2>1, <2>2 DEF ClientStep
<1>5. ASSUME NEW w \in Workers, ThreadStep(w) PROVE NoRepeats' /\ Exact'
  BY <1>1, <1>5 DEF ThreadStep, ThreadPredict, ThreadStore, queueVars, workerVars
<1>6. ASSUME NEW w \in Workers, WorkerStep(w) PROVE NoRepeats' /\ Exact'
  <2>1. CASE TakeFirst(w)
    BY <2>1, TakeFirstCharges
  <2>2. CASE PopNext(w)
    BY <2>2, PopNextCharges
  <2>3. CASE ResumeWithItem(w)
    BY <2>3, ResumeWithItemCharges
  <2>4. CASE CollectTimeout(w)
    BY <2>4, CollectTimeoutCharges
  <2>5. CASE WorkerFinishes(w)
    <3>1. handoff[w] = NoJob
      BY <2>5 DEF WorkerFinishes, IInv, WorkerShape
    <3>2. QED
      BY <2>5, <3>1, ReleaseCharges DEF WorkerFinishes
  <2>6. CASE WorkerCancelled(w)
    BY <2>6, ReleaseCharges DEF WorkerCancelled, CanUnwind
  <2>7. QED
    BY <1>6, <2>1, <2>2, <2>3, <2>4, <2>5, <2>6 DEF WorkerStep
<1>7. QED
  BY <1>2, <1>3, <1>4, <1>5, <1>6 DEF Next

\* A new engine has nothing charged.
LEMMA InitCharges == Init => NoRepeats /\ Exact
<1> SUFFICES ASSUME Init PROVE NoRepeats /\ Exact
  OBVIOUS
<1> USE EngineAssumption DEF Init
<1>1. \A j \in Jobs : ~InEngine(j)
  BY EmptyRange DEF InEngine, Holds
<1>2. Charged = {}
  BY <1>1, LetterOf DEF Charged, Inside
<1>3. NoRepeats
  BY EmptyRange DEF NoRepeats, Injective
<1>4. QED
  BY <1>2, <1>3, FS_EmptySet DEF Exact

\* The characters charged are at all times those of the jobs in the queue, in
\* wait_for's inner task and in the batches, each once, and never more than the cap.
THEOREM CapacityIsExact == Spec => []PendingCharsExact
<1>1. Init => NoRepeats /\ Exact
  BY InitCharges
<1>2. IInv /\ NoRepeats /\ Exact /\ [Next]_vars => NoRepeats' /\ Exact'
  BY StepCharges
<1>3. Exact => PendingCharsExact
  BY DEF Exact, Charged, Inside, PendingCharsExact
<1>4. QED
  BY <1>1, <1>2, <1>3, Invariance, PTL DEF Spec

-----------------------------------------------------------------------------
(* Expired jobs, and the refinement of SubmitContract.                     *)

\* Everything but the client's own steps and the stores of a thread is quiet.
LEMMA OtherStepsAreQuiet ==
    ASSUME IInv,
           \/ Start \/ StopBegins \/ StopGathers \/ StopCloses \/ UNCHANGED vars
           \/ \E w \in Workers : WorkerStep(w) \/ ThreadPredict(w)
    PROVE  Quiet
<1> USE EngineAssumption
<1>1. CASE Start
  <2>1. \A w \in Workers : worker[w] = "absent"
    BY <1>1 DEF Start, IInv, Lifecycle
  <2>2. \A w \in Workers : batch[w] = <<>>
    BY <2>1 DEF IInv, WorkerShape
  <2>3. /\ call' = call /\ written' = written /\ late' = late /\ todo' = todo
        /\ thread' = thread /\ future' = future /\ batch' = batch
    BY <1>1 DEF Start, clientVars, threadVars, storeVars
  <2>4. QED
    BY <2>1, <2>2, <2>3, EmptyRange DEF Quiet, OpenJobs, StaysRaised
<1>2. CASE StopBegins
  BY <1>2 DEF StopBegins, clientVars, threadVars, storeVars, Quiet, OpenJobs, StaysRaised
<1>3. CASE \/ StopGathers \/ StopCloses
  <2>1. /\ call' = call /\ written' = written /\ late' = late /\ todo' = todo
        /\ thread' = thread /\ batch' = batch
    BY <1>3 DEF StopGathers, StopCloses, threadVars, storeVars, workerVars
  <2>2. \A w \in Workers : worker[w] \in {"absent", "done"}
    BY <1>3 DEF StopGathers, StopCloses, Gathered, IInv, Lifecycle
  <2>3. \A j \in Jobs : future'[j] \in {"none", "pending"} => future'[j] = future[j]
    <3>1. CASE future' = future
      BY <3>1
    <3>2. CASE Drain
      <4>1. future' = Settle(Range(queue), "cancelled")
        BY <3>2 DEF Drain
      <4>2. QED
        BY <4>1, SettleType DEF IInv
    <3>3. QED
      BY <1>3, <3>1, <3>2 DEF StopGathers, StopCloses
  <2>4. QED
    BY <2>1, <2>2, <2>3 DEF Quiet, OpenJobs, StaysRaised
<1>4. CASE UNCHANGED vars
  BY <1>4 DEF vars, lifecycleVars, queueVars, clientVars, workerVars, threadVars,
     storeVars, Quiet, OpenJobs, StaysRaised
<1>5. ASSUME NEW w \in Workers, WorkerStep(w) PROVE Quiet
  BY <1>5, TakeFirstPreserves, PopNextPreserves, ResumeWithItemPreserves,
     CollectTimeoutPreserves, WorkerFinishesPreserves, WorkerCancelledPreserves
     DEF WorkerStep
<1>6. ASSUME NEW w \in Workers, ThreadPredict(w) PROVE Quiet
  <2>1. /\ call' = call /\ written' = written /\ late' = late /\ todo' = todo
        /\ future' = future /\ batch' = batch /\ worker' = worker
    BY <1>6 DEF ThreadPredict, clientVars, workerVars, storeVars
  <2>2. /\ thread[w] = "predict"
        /\ \A v \in Workers \ {w} : thread'[v] = thread[v]
    BY <1>6 DEF ThreadPredict, IInv, TypeOK
  <2>3. QED
    BY <2>1, <2>2 DEF Quiet, OpenJobs, StaysRaised
<1>7. QED
  BY <1>1, <1>2, <1>3, <1>4, <1>5, <1>6

\* What one store does, in the words of the contract.
LEMMA StoreEffect ==
    ASSUME IInv, LateIsOver, NEW w \in Workers, ThreadStore(w)
    PROVE  /\ call' = call /\ future' = future /\ batch' = batch
           /\ \A v \in Workers : todo'[v] \subseteq todo[v]
           /\ \A v \in Workers \ {w} : thread'[v] = thread[v]
           /\ \E j \in Jobs :
                 /\ j \in todo[w] /\ j \in OpenJobs
                 /\ \A v \in Workers : j \notin todo'[v]
                 /\ \/ /\ written' = written /\ OpenJobs' \subseteq OpenJobs
                       /\ late' \in {late, late \cup {j}} /\ thread'[w] = "raised"
                    \/ /\ written' = written \cup {j} /\ late' = late
                       /\ OpenJobs' \subseteq OpenJobs \ {j}
<1> USE EngineAssumption
<1>1. /\ thread[w] = "store" /\ call' = call /\ future' = future
      /\ batch' = batch /\ worker' = worker
  BY DEF ThreadStore, clientVars, workerVars
<1>2. PICK j \in todo[w] :
          /\ todo' = [todo EXCEPT ![w] = todo[w] \ {j}]
          /\ \/ /\ written' = written \cup {j} /\ late' = late
             \/ /\ written' = written /\ late' \in {late, late \cup {j}}
                /\ thread' = [thread EXCEPT ![w] = "raised"]
          /\ \A v \in Workers \ {w} : thread'[v] = thread[v]
  <2>1. \A x : thread' = [thread EXCEPT ![w] = x] =>
                 \A v \in Workers \ {w} : thread'[v] = thread[v]
    BY DEF IInv, TypeOK
  <2>2. QED
    BY <2>1 DEF ThreadStore
<1>3. /\ todo'[w] = todo[w] \ {j}
      /\ \A v \in Workers \ {w} : todo'[v] = todo[v]
      /\ j \in Jobs
      /\ thread' = [thread EXCEPT ![w] = "raised"] => thread'[w] = "raised"
  BY <1>2 DEF IInv, TypeOK
<1>4. j \in OpenJobs
  BY <1>1, <1>3 DEF OpenJobs
<1>5. OpenJobs' \subseteq OpenJobs \cup late'
  BY <1>1, <1>2, <1>3 DEF OpenJobs
<1>6. late \subseteq OpenJobs
  BY DEF OpenJobs, IInv, TypeOK
<1>7. \A v \in Workers : j \notin todo'[v]
  <2>1. Holds(w, j)
    BY <1>1, <1>2 DEF IInv, WorkerShape, Holds
  <2>2. ASSUME NEW v \in Workers \ {w} PROVE j \notin todo[v]
    <3>1. ~Holds(v, j)
      BY <1>3, <2>1 DEF IInv, JobInOnePlace
    <3>2. QED
      BY <3>1 DEF IInv, WorkerShape, Holds
  <2>3. QED
    BY <1>3, <2>2
<1>8. CASE written' = written \cup {j} /\ late' = late
  <2>1. j \in Range(batch[w]) /\ worker[w] = "executing"
    BY <1>1, <1>2 DEF IInv, WorkerShape
  <2>2. j \notin late
    BY <1>2 DEF LateIsOver
  <2>3. j \notin OpenJobs'
    BY <1>1, <1>7, <1>8, <2>1, <2>2 DEF OpenJobs
  <2>4. OpenJobs' \subseteq OpenJobs \ {j}
    BY <1>5, <1>6, <1>8, <2>3
  <2>5. QED
    BY <1>1, <1>2, <1>3, <1>4, <1>7, <1>8, <2>4
<1>9. CASE /\ written' = written /\ late' \in {late, late \cup {j}}
           /\ thread' = [thread EXCEPT ![w] = "raised"]
  BY <1>1, <1>2, <1>3, <1>4, <1>5, <1>6, <1>7, <1>9
<1>10. QED
  BY <1>2, <1>8, <1>9

\* Every step keeps LateIsOver: only a store that raises adds to late, when the job
\* has left the list of its thread.
LEMMA LateStep ==
    ASSUME IInv, LateIsOver, [Next]_vars PROVE LateIsOver'
<1> SUFFICES ASSUME NEW j \in late'
             PROVE  /\ future'[j] # "none"
                    /\ \A w \in Workers : j \notin todo'[w]
                    /\ future'[j] = "pending" =>
                          \E w \in Workers : thread'[w] = "raised" /\ j \in Range(batch'[w])
  BY DEF LateIsOver
<1> USE EngineAssumption
<1>1. CASE Quiet
  <2>1. /\ j \in late /\ j \in Jobs
        /\ future[j] # "none"
        /\ \A w \in Workers : j \notin todo[w]
        /\ future[j] = "pending" =>
              \E w \in Workers : thread[w] = "raised" /\ j \in Range(batch[w])
    BY <1>1 DEF Quiet, LateIsOver, IInv, TypeOK
  <2>2. ~Waiting(j)
    BY <2>1 DEF Waiting, IInv, WorkerShape
  <2>3. \A w \in Workers : j \notin todo'[w]
    BY <1>1, <2>1, <2>2 DEF Quiet
  <2>4. future'[j] = "pending" =>
            \E w \in Workers : thread'[w] = "raised" /\ j \in Range(batch'[w])
    BY <1>1, <2>1 DEF Quiet, StaysRaised, IsSettled
  <2>5. future'[j] # "none"
    BY <1>1, <2>1 DEF Quiet
  <2>6. QED
    BY <2>3, <2>4, <2>5
<1>2. ASSUME NEW w \in Workers, ThreadStore(w)
      PROVE  /\ future'[j] # "none"
             /\ \A v \in Workers : j \notin todo'[v]
             /\ future'[j] = "pending" =>
                   \E v \in Workers : thread'[v] = "raised" /\ j \in Range(batch'[v])
  <2>1. /\ future' = future /\ batch' = batch
        /\ \A v \in Workers : todo'[v] \subseteq todo[v]
        /\ \A v \in Workers \ {w} : thread'[v] = thread[v]
        /\ thread[w] = "store"
    BY <1>2, StoreEffect DEF ThreadStore
  <2>2. CASE j \in late
    BY <2>1, <2>2 DEF LateIsOver
  <2>3. CASE j \notin late
    <3>1. /\ j \in todo[w] /\ thread'[w] = "raised"
          /\ \A v \in Workers : j \notin todo'[v]
      BY <1>2, <2>3, StoreEffect
    <3>2. j \in Range(batch[w]) /\ j \in Jobs
      BY <3>1 DEF IInv, WorkerShape, TypeOK
    <3>3. future[j] # "none"
      BY <3>2 DEF IInv, Accepted, InEngine, Holds
    <3>4. QED
      BY <2>1, <3>1, <3>2, <3>3
  <2>4. QED
    BY <2>2, <2>3
<1>3. ASSUME NEW k \in Jobs, ClientStep(k) \/ RedisWritesLate(k)
      PROVE  /\ future'[j] # "none"
             /\ \A v \in Workers : j \notin todo'[v]
             /\ future'[j] = "pending" =>
                   \E v \in Workers : thread'[v] = "raised" /\ j \in Range(batch'[v])
  <2>1. /\ todo' = todo /\ thread' = thread /\ batch' = batch /\ late' \subseteq late
    BY <1>3 DEF ClientStep, Submit, SubmitReturns, SubmitAbandoned, RedisWritesLate,
                threadVars, storeVars, workerVars
  <2>2. /\ j \in late /\ j \in Jobs /\ future[j] # "none"
        /\ \A w \in Workers : j \notin todo[w]
        /\ future[j] = "pending" =>
              \E w \in Workers : thread[w] = "raised" /\ j \in Range(batch[w])
    BY <2>1 DEF LateIsOver, IInv, TypeOK
  <2>3. future'[j] = future[j] \/ future'[j] = "cancelled"
    <3>1. CASE Submit(k)
      <4>1. future[k] = "none"
        BY <3>1 DEF Submit, IInv, Accepted
      <4>2. QED
        BY <2>2, <3>1, <4>1 DEF Submit, IInv, TypeOK
    <3>2. CASE SubmitAbandoned(k)
      BY <2>2, <3>2, SettleType DEF SubmitAbandoned, IInv
    <3>3. QED
      BY <1>3, <3>1, <3>2 DEF ClientStep, SubmitReturns, RedisWritesLate, clientVars
  <2>4. QED
    BY <2>1, <2>2, <2>3
<1>4. QED
  BY <1>1, <1>2, <1>3, OtherStepsAreQuiet DEF Next, ThreadStep, Terminating

\* A record that may still be written after its thread gave up belongs to a job
\* that no thread runs again and whose future is, or is about to be, settled.
THEOREM LateInvariance == Spec => []LateIsOver
<1>1. Init => LateIsOver
  BY DEF Init, LateIsOver
<1>2. IInv /\ LateIsOver /\ [Next]_vars => LateIsOver'
  BY LateStep
<1>3. QED
  BY <1>1, <1>2, Invariance, PTL DEF Spec

\* No single step runs or records a job whose request was over.
LEMMA ExpiredStep ==
    ASSUME IInv, LateIsOver, [Next]_vars,
           NEW j \in Jobs, future[j] # "pending", j \notin late,
           \A w \in Workers : j \notin todo[w]
    PROVE  /\ j \notin late'
           /\ \A w \in Workers : j \notin todo'[w]
           /\ j \in written' => j \in written
<1>1. CASE Quiet
  BY <1>1 DEF Quiet, Waiting
<1>2. CASE \E w \in Workers : ThreadStore(w)
  BY <1>2, StoreEffect
<1>3. CASE \E k \in Jobs : ClientStep(k)
  BY <1>3 DEF ClientStep, Submit, SubmitReturns, SubmitAbandoned, threadVars, storeVars
<1>4. CASE \E k \in Jobs : RedisWritesLate(k)
  BY <1>4 DEF RedisWritesLate
<1>5. QED
  BY <1>1, <1>2, <1>3, <1>4, OtherStepsAreQuiet DEF Next, ThreadStep, Terminating

\* A job that was over when its batch was dispatched is never run or recorded.
THEOREM ExpiredJobsStayExpired == Spec => ExpiredJobNotRevived
<1>1. IInv /\ LateIsOver /\ [Next]_vars =>
        \A j \in Jobs :
            /\ future[j] # "pending"
            /\ j \notin late
            /\ \A w \in Workers : j \notin todo[w]
            => /\ j \notin late'
               /\ \A w \in Workers : j \notin todo'[w]
               /\ j \in written' => j \in written
  BY ExpiredStep
<1>2. QED
  BY <1>1, Invariance, LateInvariance, PTL DEF Spec, ExpiredJobNotRevived

\* The engine starts in an initial state of the contract.
LEMMA InitRefines == Init => Contract!Init
<1> SUFFICES ASSUME Init PROVE Contract!Init
  OBVIOUS
<1>1. OpenJobs = {}
  BY DEF Init, OpenJobs
<1>2. call = [j \in Jobs |-> "idle"] /\ written = {}
  BY DEF Init
<1>3. QED
  BY <1>1, <1>2 DEF Contract!Init

\* While only the call or the future of one job changes, so does only its
\* openness.
LEMMA SubmitRefines ==
    ASSUME IInv, NEW j \in Jobs, Submit(j)
    PROVE  Contract!Accept(j) \/ Contract!Reject(j)
<1>1. /\ written' = written /\ late' = late /\ todo' = todo /\ thread' = thread
      /\ batch' = batch /\ worker' = worker
      /\ call[j] = "idle"
  BY DEF Submit, threadVars, storeVars, workerVars
<1>2. CASE /\ future' = future
           /\ \E answer \in {"refused", "failed"} : call' = [call EXCEPT ![j] = answer]
  <2>1. OpenJobs' = OpenJobs
    BY <1>1, <1>2 DEF OpenJobs
  <2>2. QED
    BY <1>1, <1>2, <2>1 DEF Contract!Reject
<1>3. CASE /\ future' = [future EXCEPT ![j] = "pending"]
           /\ call' = [call EXCEPT ![j] = "waiting"]
  <2>1. /\ future'[j] = "pending"
        /\ \A k \in Jobs \ {j} : future'[k] = future[k]
    BY <1>3 DEF IInv, TypeOK
  <2>2. \A w \in Workers : j \notin Range(batch[w])
    BY <1>1 DEF IInv, Accepted, InEngine, Holds
  <2>3. \A k \in Jobs \ {j} : k \in OpenJobs' <=> k \in OpenJobs
    BY <1>1, <2>1 DEF OpenJobs
  <2>4. j \in OpenJobs'
    BY <1>1, <2>1, <2>2 DEF OpenJobs
  <2>5. OpenJobs \subseteq Jobs /\ OpenJobs' \subseteq Jobs
    BY DEF OpenJobs
  <2>6. OpenJobs' = OpenJobs \cup {j}
    BY <2>3, <2>4, <2>5
  <2>7. QED
    BY <1>1, <1>3, <2>6 DEF Contract!Accept
<1>4. QED
  BY <1>2, <1>3 DEF Submit

\* A settled future is an answer of a recorded job, or a failure the contract allows.
LEMMA SubmitReturnsRefines ==
    ASSUME IInv, NEW j \in Jobs, SubmitReturns(j)
    PROVE  Contract!Answer(j) \/ Contract!GiveUp(j)
<1>1. /\ written' = written /\ late' = late /\ todo' = todo /\ thread' = thread
      /\ batch' = batch /\ worker' = worker /\ future' = future
      /\ call[j] = "waiting" /\ future[j] # "pending"
      /\ call' = [call EXCEPT ![j] = Outcome(future[j])]
  BY DEF SubmitReturns, threadVars, storeVars, workerVars
<1>2. OpenJobs' = OpenJobs
  BY <1>1 DEF OpenJobs
<1>3. future[j] \in {"result", "error", "cancelled"}
  BY <1>1 DEF IInv, Accepted, TypeOK
<1>4. CASE future[j] = "result"
  <2>1. j \in written
    BY <1>4 DEF IInv, Recorded
  <2>2. QED
    BY <1>1, <1>2, <1>4, <2>1 DEF Outcome, Contract!Answer
<1>5. CASE future[j] \in {"error", "cancelled"}
  <2>1. Outcome(future[j]) \in {"refused", "failed", "cancelled"}
    BY <1>5 DEF Outcome
  <2>2. QED
    BY <1>1, <1>2, <2>1 DEF Contract!GiveUp
<1>6. QED
  BY <1>3, <1>4, <1>5

\* A timeout or a cancellation is the caller giving up; a job not yet dispatched is withdrawn.
LEMMA SubmitAbandonedRefines ==
    ASSUME IInv, NEW j \in Jobs, SubmitAbandoned(j) PROVE Contract!GiveUp(j)
<1>1. /\ written' = written /\ late' = late /\ todo' = todo /\ thread' = thread
      /\ batch' = batch /\ worker' = worker
      /\ future' = Settle({j}, "cancelled")
      /\ call[j] = "waiting"
      /\ \E how \in {"refused", "cancelled"} : call' = [call EXCEPT ![j] = how]
  BY DEF SubmitAbandoned, threadVars, storeVars, workerVars
<1>2. \A k \in Jobs : future'[k] =
          IF k \in {j} /\ future[k] = "pending" THEN "cancelled" ELSE future[k]
  BY <1>1, SettleType DEF IInv
<1>3. \A k \in Jobs \ {j} : k \in OpenJobs' <=> k \in OpenJobs
  BY <1>1, <1>2 DEF OpenJobs
<1>4. j \in OpenJobs' => j \in OpenJobs
  BY <1>1, <1>2 DEF OpenJobs
<1>5. OpenJobs \subseteq Jobs /\ OpenJobs' \subseteq Jobs
  BY DEF OpenJobs
<1>6. OpenJobs' = OpenJobs \/ OpenJobs' = OpenJobs \ {j}
  BY <1>3, <1>4, <1>5
<1>7. QED
  BY <1>1, <1>6 DEF Contract!GiveUp

\* Every step of the engine is a step of the contract or leaves it alone.
LEMMA StepRefines == IInv /\ LateIsOver /\ [Next]_vars => [Contract!Next]_(Contract!vars)
<1> SUFFICES ASSUME IInv, LateIsOver, [Next]_vars PROVE Contract!Next
  OBVIOUS
<1>1. CASE Quiet
  BY <1>1 DEF Quiet, Contract!Next, Contract!Withdraw
<1>2. ASSUME NEW j \in Jobs, ClientStep(j) PROVE Contract!Next
  BY <1>2, SubmitRefines, SubmitReturnsRefines, SubmitAbandonedRefines
     DEF ClientStep, Contract!Next
<1>3. ASSUME NEW w \in Workers, ThreadStore(w) PROVE Contract!Next
  <2>1. PICK j \in Jobs :
            /\ j \in OpenJobs
            /\ \/ written' = written /\ OpenJobs' \subseteq OpenJobs
               \/ /\ written' = written \cup {j}
                  /\ OpenJobs' \subseteq OpenJobs \ {j}
    BY <1>3, StoreEffect
  <2>2. call' = call
    BY <1>3, StoreEffect
  <2>3. Contract!TakeEffect(j) \/ Contract!Withdraw
    BY <2>1, <2>2 DEF Contract!TakeEffect, Contract!Withdraw
  <2>4. QED
    BY <2>3 DEF Contract!Next
<1>4. ASSUME NEW j \in Jobs, RedisWritesLate(j) PROVE Contract!Next
  <2>1. /\ late' = late \ {j} /\ written' = written \cup {j} /\ call' = call
        /\ future' = future /\ batch' = batch /\ worker' = worker
        /\ todo' = todo /\ thread' = thread /\ j \in late
    BY <1>4 DEF RedisWritesLate, clientVars, workerVars
  <2>2. j \in OpenJobs /\ OpenJobs' \subseteq OpenJobs
    BY <2>1 DEF OpenJobs
  <2>3. j \notin OpenJobs'
    BY <2>1 DEF OpenJobs, LateIsOver, IInv, WorkerShape
  <2>4. Contract!TakeEffect(j)
    BY <2>1, <2>2, <2>3 DEF Contract!TakeEffect
  <2>5. QED
    BY <2>4 DEF Contract!Next
<1>5. QED
  BY <1>1, <1>2, <1>3, <1>4, OtherStepsAreQuiet DEF Next, ThreadStep, Terminating

\* The engine implements SubmitContract.
THEOREM EngineKeepsContract == Spec => KeepsContract
<1>1. Init => Contract!Init
  BY InitRefines
<1>2. IInv /\ LateIsOver /\ [Next]_vars => [Contract!Next]_(Contract!vars)
  BY StepRefines
<1>3. QED
  BY <1>1, <1>2, Invariance, LateInvariance, PTL DEF Spec, KeepsContract, Contract!Spec

=============================================================================
