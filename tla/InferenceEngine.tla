--------------------------- MODULE InferenceEngine ---------------------------
(***************************************************************************)
(* The in-process inference engine of src/core/engine.py together with the *)
(* batching policy of src/core/batcher.py.                                 *)
(*                                                                         *)
(* Coroutines on one event loop submit jobs to a bounded queue.  Worker    *)
(* tasks on the same loop gather jobs into batches, hand each batch to a   *)
(* thread of a pool, and settle the futures the submitters await.  stop()  *)
(* cancels the workers, waits for them and drains the queue.  A step of    *)
(* this module is what one task does between two awaits, or what a pool    *)
(* thread does around one call of the store.                               *)
(*                                                                         *)
(* Whether asyncio.wait_for may swallow a cancellation depends on the      *)
(* interpreter: up to Python 3.11 it returns the result of an inner task   *)
(* that has already finished, from 3.12 on it does not.  The Dockerfile    *)
(* ships 3.10, the README allows "Python 3.10+"; LegacyWaitFor chooses.    *)
(***************************************************************************)
EXTENDS Integers, FiniteSets, Sequences, Functions

CONSTANTS
    Jobs,           \* the calls of submit(), each with a payload of its own
    Workers,        \* the worker tasks: settings.worker_threads of them
    Length,         \* Length[j] = len(payload) of job j
    QueueSize,      \* settings.worker_queue_size
    QueueChars,     \* settings.worker_queue_chars
    BatchSize,      \* settings.worker_batch_size
    LegacyWaitFor,  \* TRUE: asyncio.wait_for of Python <= 3.11
    RedisStore,     \* TRUE: the store is Redis (has aclose, may lose a reply)
    Cancellable,    \* bound of the model: jobs whose request's task may be cancelled
    MaxStarts,      \* bound of the model: how often start() is called
    NoJob           \* the "None" of get_next

ASSUME EngineAssumption ==
    /\ Length \in [Jobs -> Nat]
    /\ QueueSize \in Nat \ {0}
    /\ QueueChars \in Nat \ {0}
    /\ BatchSize \in Nat \ {0}
    /\ LegacyWaitFor \in BOOLEAN
    /\ RedisStore \in BOOLEAN
    /\ Cancellable \subseteq Jobs
    /\ MaxStarts \in Nat
    /\ NoJob \notin Jobs

VARIABLES
    started,        \* _started
    pool,           \* _pool is not None
    stopPc,         \* where stop() is; "failed" when aclose() raised
    starts,         \* number of start() calls so far (bounded by MaxStarts)
    queue,          \* _queue
    pendingChars,   \* _pending_chars
    future,         \* the future of each job
    call,           \* what the submit() call of each job came to
    worker,         \* the worker task: where _worker_loop is suspended
    cancelling,     \* workers with a cancellation not yet delivered
    handoff,        \* job that wait_for's inner task popped, worker not resumed
    batch,          \* the list "batch" of each worker
    thread,         \* what the pool thread of the worker is doing
    todo,           \* jobs of "active" that _process_batch has yet to store
    written,        \* jobs whose put_if_absent took effect in the store
    late            \* jobs whose EVAL Redis may still run, its client gone

lifecycleVars == <<started, pool, stopPc, starts>>
clientVars    == <<future, call>>
queueVars     == <<queue, pendingChars>>
workerVars    == <<worker, cancelling, handoff, batch>>
storeVars     == <<written, late>>
threadVars    == <<thread, todo, storeVars>>
vars == <<lifecycleVars, queueVars, clientVars, workerVars, threadVars>>

-----------------------------------------------------------------------------
(* Helpers.                                                                *)

\* The characters of a list of jobs: sum(len(job.payload) for job in s), counted as
\* the pairs of a place in the list and a place in the payload found there.
Chars(s) == Cardinality(UNION {{i} \X (1..Length[s[i]]) : i \in DOMAIN s})

\* Admission: _pending_chars covers queued, collected and running jobs.
AdmitsUncharged(j) == pendingChars <= QueueChars /\ Len(queue) < QueueSize
Admits(j) == /\ pendingChars + Length[j] <= QueueChars
             /\ Len(queue) < QueueSize

\* The futures after every pending one of S is settled the same way.
Settle(S, how) ==
    [j \in Jobs |-> IF j \in S /\ future[j] = "pending" THEN how ELSE future[j]]

\* The jobs the worker must settle: every collected one, also when collection was
\* cut short.
HeldFirst(w) == {batch[w][i] : i \in {1} \cap DOMAIN batch[w]}
Held(w) == Range(batch[w])

\* active = [job for job in batch if not job.future.done()]
LiveUnfiltered(b) == Range(b)
Live(b) == {j \in Range(b) : future[j] = "pending"}

Init ==
    /\ started = FALSE
    /\ pool = FALSE
    /\ stopPc = "off"
    /\ starts = 0
    /\ queue = <<>>
    /\ pendingChars = 0
    /\ future = [j \in Jobs |-> "none"]
    /\ call = [j \in Jobs |-> "idle"]
    /\ worker = [w \in Workers |-> "absent"]
    /\ cancelling = {}
    /\ handoff = [w \in Workers |-> NoJob]
    /\ batch = [w \in Workers |-> <<>>]
    /\ thread = [w \in Workers |-> "none"]
    /\ todo = [w \in Workers |-> {}]
    /\ written = {}
    /\ late = {}

-----------------------------------------------------------------------------
(* start() and submit().                                                   *)

\* The lifespan handler awaits start() and stop() one after the other.
Start ==
    /\ stopPc = "off"
    /\ ~started
    /\ starts < MaxStarts
    /\ started' = TRUE
    /\ pool' = TRUE
    /\ starts' = starts + 1
    /\ worker' = [w \in Workers |-> "idle"]
    /\ UNCHANGED <<stopPc, queueVars, clientVars, cancelling, handoff, batch,
                   threadVars>>

\* submit() up to its await: RuntimeError, None (overloaded) or a queued job.  (No
\* detector of the repository has a validate_text that refuses a payload.)
Submit(j) ==
    /\ call[j] = "idle"
    /\ \/ /\ ~started
          /\ call' = [call EXCEPT ![j] = "failed"]
          /\ UNCHANGED <<queueVars, future>>
       \/ /\ started
          /\ ~Admits(j)
          /\ call' = [call EXCEPT ![j] = "refused"]
          /\ UNCHANGED <<queueVars, future>>
       \/ /\ started
          /\ Admits(j)
          /\ queue' = Append(queue, j)
          /\ pendingChars' = pendingChars + Length[j]
          /\ future' = [future EXCEPT ![j] = "pending"]
          /\ call' = [call EXCEPT ![j] = "waiting"]
    /\ UNCHANGED <<lifecycleVars, workerVars, threadVars>>

\* What the awaiting submit() makes of its settled future.
Outcome(f) == IF f = "result" THEN "answered"
              ELSE IF f = "error" THEN "failed" ELSE "cancelled"

SubmitReturns(j) ==
    /\ call[j] = "waiting"
    /\ future[j] # "pending"
    /\ call' = [call EXCEPT ![j] = Outcome(future[j])]
    /\ UNCHANGED <<lifecycleVars, queueVars, future, workerVars, threadVars>>

\* The request times out, or its task is cancelled (the server gives up on it).  The
\* future is cancelled, the job stays where it is and keeps its characters.  From
\* Python 3.12 on this wins even over a result that is set but not yet delivered.
SubmitAbandoned(j) ==
    /\ call[j] = "waiting"
    /\ future[j] = "pending" \/ ~LegacyWaitFor
    /\ future' = Settle({j}, "cancelled")
    /\ \E how \in {"refused"} \cup (IF j \in Cancellable THEN {"cancelled"} ELSE {}) :
          call' = [call EXCEPT ![j] = how]
    /\ UNCHANGED <<lifecycleVars, queueVars, workerVars, threadVars>>

-----------------------------------------------------------------------------
(* The worker task: collecting a batch.                                    *)

\* The end of one turn of the loop: the batch leaves the worker and its
\* characters are released.  A thread that still runs is not ended by this.
Release(w) ==
    /\ pendingChars' = pendingChars - Chars(batch[w])
    /\ batch' = [batch EXCEPT ![w] = <<>>]
    /\ IF thread[w] \in {"predict", "store"}
       THEN UNCHANGED <<thread, todo>>
       ELSE /\ thread' = [thread EXCEPT ![w] = "none"]
            /\ todo' = [todo EXCEPT ![w] = {}]

\* Batch b is complete.  Only jobs whose future is open go to the thread; when
\* none is, the turn ends at once.
Dispatch(w, b) ==
    \/ /\ Live(b) # {}
       /\ worker' = [worker EXCEPT ![w] = "executing"]
       /\ batch' = [batch EXCEPT ![w] = b]
       /\ thread' = [thread EXCEPT ![w] = "predict"]
       /\ todo' = [todo EXCEPT ![w] = Live(b)]
       /\ UNCHANGED pendingChars
    \/ /\ Live(b) = {}
       /\ worker' = [worker EXCEPT ![w] = "idle"]
       /\ batch' = [batch EXCEPT ![w] = <<>>]
       /\ pendingChars' = pendingChars - Chars(b)
       /\ UNCHANGED <<thread, todo>>

\* collect() after one more job: wait for the next, or the batch is full.
Collect(w, b) ==
    \/ /\ Len(b) < BatchSize
       /\ worker' = [worker EXCEPT ![w] = "collecting"]
       /\ batch' = [batch EXCEPT ![w] = b]
       /\ UNCHANGED <<thread, todo, pendingChars>>
    \/ /\ Len(b) >= BatchSize
       /\ Dispatch(w, b)

\* Queue.get() removes what it returns.
PeekedOnly == queue
Popped == Tail(queue)

\* first = await self._queue.get()
TakeFirst(w) ==
    /\ worker[w] = "idle"
    /\ w \notin cancelling
    /\ queue # <<>>
    /\ queue' = Popped
    /\ Collect(w, <<Head(queue)>>)
    /\ UNCHANGED <<lifecycleVars, clientVars, cancelling, handoff, storeVars>>

\* The pop inside wait_for(queue.get(), ...): on Python <= 3.11 by a task of its
\* own, which may finish before the worker learns of it; later by the worker.
PopNext(w) ==
    /\ worker[w] = "collecting"
    /\ handoff[w] = NoJob
    /\ queue # <<>>
    /\ queue' = Popped
    /\ \/ /\ LegacyWaitFor
          /\ handoff' = [handoff EXCEPT ![w] = Head(queue)]
          /\ UNCHANGED <<pendingChars, worker, batch, thread, todo>>
       \/ /\ ~LegacyWaitFor
          /\ w \notin cancelling
          /\ Collect(w, Append(batch[w], Head(queue)))
          /\ UNCHANGED handoff
    /\ UNCHANGED <<lifecycleVars, clientVars, cancelling, storeVars>>

\* wait_for of Python <= 3.11 resumes after its inner task finished: it returns
\* the job, and a cancellation that arrived in between is gone.
ResumeWithItem(w) ==
    /\ handoff[w] # NoJob
    /\ handoff' = [handoff EXCEPT ![w] = NoJob]
    /\ cancelling' = cancelling \ {w}
    /\ Collect(w, Append(batch[w], handoff[w]))
    /\ UNCHANGED <<lifecycleVars, clientVars, queue, storeVars>>

\* get_next returned None, or the time was up before it was called.
CollectTimeout(w) ==
    /\ worker[w] = "collecting"
    /\ w \notin cancelling
    /\ handoff[w] = NoJob
    /\ Dispatch(w, batch[w])
    /\ UNCHANGED <<lifecycleVars, clientVars, queue, cancelling, handoff,
                   storeVars>>

-----------------------------------------------------------------------------
(* The pool thread: _process_batch.                                        *)

\* predict_batch: it raises, or returns one result per job (a wrong count is
\* turned into an error).
ThreadPredict(w) ==
    /\ thread[w] = "predict"
    /\ \E next \in {"store", "raised"} : thread' = [thread EXCEPT ![w] = next]
    /\ UNCHANGED <<lifecycleVars, queueVars, clientVars, workerVars, todo,
                   storeVars>>

\* The batch is stored in its order, job by job.
IsNextToStore(w, j) ==
    \E i \in DOMAIN batch[w] :
        /\ batch[w][i] = j
        /\ j \in todo[w]
        /\ \A k \in 1..(i - 1) : batch[w][k] \notin todo[w]

\* mask_text and put_if_absent of one job.  Masking or the store may raise; when
\* the Redis client gives up on a reply, its EVAL may already be on the way.
ThreadStore(w) ==
    /\ thread[w] = "store"
    /\ \E j \in todo[w] :
        /\ IsNextToStore(w, j)
        /\ todo' = [todo EXCEPT ![w] = @ \ {j}]
        /\ \/ /\ written' = written \cup {j}
              /\ thread' = [thread EXCEPT ![w] =
                                IF todo[w] = {j} THEN "ok" ELSE "store"]
              /\ UNCHANGED late
           \/ /\ thread' = [thread EXCEPT ![w] = "raised"]
              /\ late' \in {late} \cup (IF RedisStore THEN {late \cup {j}} ELSE {})
              /\ UNCHANGED written
    /\ UNCHANGED <<lifecycleVars, queueVars, clientVars, workerVars>>

\* Redis runs a put_if_absent its client no longer waits for, at once or much
\* later, also after stop().
RedisWritesLate(j) ==
    /\ j \in late
    /\ written' = written \cup {j}
    /\ late' = late \ {j}
    /\ UNCHANGED <<lifecycleVars, queueVars, clientVars, workerVars, thread, todo>>

-----------------------------------------------------------------------------
(* The worker task: finishing a batch, and being cancelled.                *)

\* One failure anywhere in _process_batch fails the whole batch.
VerdictIgnored(w) == "result"
Verdict(w) == IF thread[w] = "ok" THEN "result" ELSE "error"

\* The thread is done and the worker resumes: every open future of the batch
\* gets its result, or "inference failed" when anything in the batch raised.
WorkerFinishes(w) ==
    /\ worker[w] = "executing"
    /\ thread[w] \in {"ok", "raised"}
    /\ w \notin cancelling
    /\ future' = Settle(Held(w), Verdict(w))
    /\ worker' = [worker EXCEPT ![w] = "idle"]
    /\ Release(w)
    /\ UNCHANGED <<lifecycleVars, queue, call, cancelling, handoff, storeVars>>

\* A worker can take its cancellation unless its thread is still running:
\* CancelledError at the shield waits for the thread before it is re-raised.
CanUnwindAtOnce(w) == w \in cancelling /\ handoff[w] = NoJob
CanUnwindUnlessRunning(w) ==
    w \in cancelling /\ handoff[w] = NoJob /\ worker[w] # "executing"
CanUnwind(w) ==
    /\ w \in cancelling
    /\ handoff[w] = NoJob
    /\ \/ worker[w] \in {"idle", "collecting"}
       \/ worker[w] = "executing" /\ thread[w] \in {"ok", "raised"}

WorkerCancelled(w) ==
    /\ CanUnwind(w)
    /\ future' = Settle(Held(w), "cancelled")
    /\ worker' = [worker EXCEPT ![w] = "done"]
    /\ cancelling' = cancelling \ {w}
    /\ Release(w)
    /\ UNCHANGED <<lifecycleVars, queue, call, handoff, storeVars>>

-----------------------------------------------------------------------------
(* stop().                                                                 *)

StopBegins ==
    /\ started
    /\ stopPc = "off"
    /\ started' = FALSE
    /\ stopPc' = "gather"
    /\ cancelling' = Workers
    /\ UNCHANGED <<pool, starts, queueVars, clientVars, worker, handoff, batch,
                   threadVars>>

\* The while loop at the end of stop().
DrainForgotten == stopPc' = "off" /\ UNCHANGED <<queueVars, future>>
Drain ==
    /\ queue' = <<>>
    /\ pendingChars' = pendingChars - Chars(queue)
    /\ future' = Settle(Range(queue), "cancelled")
    /\ stopPc' = "off"

\* gather() returns when every worker task has ended.
GatheredFirst == \E w \in Workers : worker[w] = "done"
Gathered == \A w \in Workers : worker[w] = "done"

\* gather() returned; the pool is shut down, which waits for its threads.  A
\* memory store has no aclose(), so the queue is drained in the same step.
StopGathers ==
    /\ stopPc = "gather"
    /\ Gathered
    /\ worker' = [w \in Workers |-> "absent"]
    /\ pool' = FALSE
    /\ \/ /\ RedisStore
          /\ stopPc' = "closing"
          /\ UNCHANGED <<queueVars, future>>
       \/ /\ ~RedisStore
          /\ Drain
    /\ UNCHANGED <<started, starts, call, cancelling, handoff, batch,
                   threadVars>>

\* await store.aclose(); when it raises, stop() ends without the drain.
StopCloses ==
    /\ stopPc = "closing"
    /\ \/ Drain
       \/ /\ stopPc' = "failed"
          /\ UNCHANGED <<queueVars, future>>
    /\ UNCHANGED <<started, pool, starts, call, workerVars, threadVars>>

\* The process may end once stop() has and every call has returned.
Terminating ==
    /\ ~started
    /\ stopPc \in {"off", "failed"}
    /\ \A j \in Jobs : call[j] \notin {"idle", "waiting"}
    /\ UNCHANGED vars

-----------------------------------------------------------------------------
WorkerStep(w) ==
    \/ TakeFirst(w) \/ PopNext(w) \/ ResumeWithItem(w) \/ CollectTimeout(w)
    \/ WorkerFinishes(w) \/ WorkerCancelled(w)

ThreadStep(w) == ThreadPredict(w) \/ ThreadStore(w)

ClientStep(j) == Submit(j) \/ SubmitReturns(j) \/ SubmitAbandoned(j)

Next ==
    \/ Start \/ StopBegins \/ StopGathers \/ StopCloses \/ Terminating
    \/ \E j \in Jobs : ClientStep(j) \/ RedisWritesLate(j)
    \/ \E w \in Workers : WorkerStep(w) \/ ThreadStep(w)

Spec == Init /\ [][Next]_vars

\* The event loop runs every ready task and every due timer of a worker, and
\* inference and store calls return.  Nothing obliges a client to call, a request
\* to time out, or anyone to start or stop the engine.
Fairness ==
    /\ \A w \in Workers : WF_vars(WorkerStep(w)) /\ WF_vars(ThreadStep(w))
    /\ \A j \in Jobs : WF_vars(SubmitReturns(j))
    /\ WF_vars(StopGathers)
    /\ WF_vars(StopCloses)

FairSpec == Spec /\ Fairness

-----------------------------------------------------------------------------
(* Properties.                                                             *)

\* Every variable keeps its type; pendingChars is left to PendingCharsExact.
TypeOK ==
    /\ started \in BOOLEAN
    /\ pool \in BOOLEAN
    /\ stopPc \in {"off", "gather", "closing", "failed"}
    /\ starts \in 0..MaxStarts
    /\ queue \in Seq(Jobs)
    /\ future \in [Jobs -> {"none", "pending", "result", "error", "cancelled"}]
    /\ call \in [Jobs -> {"idle", "waiting", "answered", "refused", "failed",
                          "cancelled"}]
    /\ worker \in [Workers -> {"absent", "idle", "collecting", "executing", "done"}]
    /\ cancelling \subseteq Workers
    /\ handoff \in [Workers -> Jobs \cup {NoJob}]
    /\ batch \in [Workers -> Seq(Jobs)]
    /\ thread \in [Workers -> {"none", "predict", "store", "ok", "raised"}]
    /\ todo \in [Workers -> SUBSET Jobs]
    /\ written \subseteq Jobs
    /\ late \subseteq Jobs

\* The jobs a worker task answers for, and all the jobs inside the engine.
Holds(w, j) == j \in Range(batch[w]) \/ handoff[w] = j
InEngine(j) == j \in Range(queue) \/ \E w \in Workers : Holds(w, j)

\* The characters of a set of jobs.
Letters(S) == UNION {{j} \X (1..Length[j]) : j \in S}

\* _pending_chars is exactly the characters of the jobs inside the engine, each
\* counted once whatever path they leave by (answered, failed, expired,
\* cancelled, drained), so admission neither leaks capacity nor exceeds its cap.
PendingCharsExact ==
    /\ pendingChars = Cardinality(Letters({j \in Jobs : InEngine(j)}))
    /\ pendingChars <= QueueChars

\* A future somebody may await always belongs to a job the engine still has:
\* no job falls between the queue, wait_for's inner task and a batch.
JobNeverLost == \A j \in Jobs : future[j] = "pending" => InEngine(j)

\* No job is in two places of the engine at once, so none is run by two workers
\* and the characters of none are released twice.
JobInOnePlace ==
    /\ \A i, k \in DOMAIN queue : queue[i] = queue[k] => i = k
    /\ \A w \in Workers, j \in Jobs :
          Holds(w, j) => /\ j \notin Range(queue)
                         /\ \A v \in Workers : Holds(v, j) => v = w

\* A client is given a mask only after the record that undoes it was stored,
\* also when another job of its batch failed.
AnswerIsRecorded ==
    \A j \in Jobs : (call[j] = "answered" \/ future[j] = "result") => j \in written

\* A job whose request was already over (429 or cancelled) when its batch was
\* dispatched is never run or recorded afterwards.
ExpiredJobNotRevived ==
    [][\A j \in Jobs :
         /\ future[j] # "pending"
         /\ j \notin late
         /\ \A w \in Workers : j \notin todo[w]
         => /\ j \notin late'
            /\ \A w \in Workers : j \notin todo'[w]
            /\ j \in written' => j \in written]_vars

\* stop() does not pull the pool or the accounting from under a running thread:
\* a worker ends, and the pool closes, only after its inference has returned.
StopWaitsForInference ==
    \A w \in Workers :
        thread[w] # "none" => pool /\ worker[w] = "executing" /\ batch[w] # <<>>

\* When stop() has returned nothing is left over: no job, no open future, no
\* worker (and so, by PendingCharsExact, no charged character).  When aclose()
\* raised, the queue is all that is left, and only its jobs have open futures.
StopLeavesNothing ==
    ~started /\ stopPc \in {"off", "failed"} =>
        /\ stopPc = "off" => queue = <<>>
        /\ \A j \in Jobs : future[j] = "pending" => j \in Range(queue)
        /\ \A w \in Workers : worker[w] = "absent" /\ batch[w] = <<>>

\* Failed batches, expired jobs and earlier stops kill no worker of a started
\* engine: "running", which /health reports, holds from start() to stop().
RunningWhileStarted ==
    started => /\ pool
               /\ \A w \in Workers : worker[w] \notin {"absent", "done"}

\* The engine keeps the promise of SubmitContract: a job is open while its future
\* is, until its batch is dispatched, and from then on while a healthy thread
\* still has it to store, or Redis may still run its command.
OpenJobs ==
    {j \in Jobs : \/ j \in late
                  \/ /\ future[j] = "pending"
                     /\ \A w \in Workers :
                           worker[w] = "executing" => j \notin Range(batch[w])
                  \/ \E w \in Workers :
                        j \in todo[w] /\ thread[w] \in {"predict", "store"}}

Contract == INSTANCE SubmitContract
                WITH reply <- call, open <- OpenJobs, effect <- written

KeepsContract == Contract!Spec

\* Every stop() gets past the wait for its workers.
StopTerminates == stopPc = "gather" ~> stopPc # "gather"

\* Every submit() returns even if no request ever times out.
SubmitsComplete == \A j \in Jobs : call[j] = "waiting" ~> call[j] # "waiting"

=============================================================================
