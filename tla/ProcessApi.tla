------------------------------ MODULE ProcessApi ------------------------------
(***************************************************************************)
(* POST /process of src/api/main.py on top of the inference engine, in one *)
(* or several API processes that share a correlation store.                *)
(*                                                                         *)
(* The handler reads the store, answers from the record it finds, and else *)
(* submits the payload to the engine of its process, whose thread masks it *)
(* and calls put_if_absent.  The engines appear through SubmitContract,    *)
(* which InferenceEngine implements; the store is a map, as TtlStore says. *)
(* A read that found nothing is out of date when the record is written.    *)
(* With the memory store the read and the submit happen without an await   *)
(* between them; the model lets other steps come in between for both.      *)
(***************************************************************************)
EXTENDS Integers, FiniteSets

CONSTANTS
    Requests,   \* the requests
    Processes,  \* the API processes, settings.api_workers of them
    Ids,        \* payload ids
    Texts,      \* payloads, originals and masks
    Masks,      \* Masks[t]: the masks the detector and mask_text may give t
    None,       \* Python's None
    MaxForgets, \* bound of the model: records that expire or are lost
    MaxCrashes  \* bound of the model: processes that die

Records == [original : Texts, masked : Texts]
Asks == [id : Ids, payload : Texts]

ASSUME ProcessAssumption ==
    /\ Masks \in [Texts -> SUBSET Texts]
    /\ MaxForgets \in Nat
    /\ MaxCrashes \in Nat
    /\ None \notin Texts \cup Records \cup Asks \cup Processes

VARIABLES
    store,      \* the correlation records
    ask,        \* payload_id and payload of each request, None before it arrives
    home,       \* the process it reached, or None
    pc,         \* where process() is in it
    record,     \* "record" of process(): what it read
    reply,      \* what became of its submit() call
    open,       \* submitted jobs that may still be recorded
    effect,     \* submitted jobs that were recorded
    result,     \* what _process_batch made of its job
    status,     \* none, the HTTP status, or lost with the connection
    answer,     \* the text of a 200, else None
    metrics,    \* the counters of each process
    served,     \* history: requests each process answered since it started
    stale,      \* history: requests that had begun when their record went
    forgets,    \* number of Forget steps (bounded by MaxForgets)
    crashes     \* number of Crash steps (bounded by MaxCrashes)

requestVars == <<ask, home>>
handlerVars == <<pc, record>>
engineVars  == <<reply, open, effect>>
answerVars  == <<status, answer, metrics, served>>
boundVars   == <<stale, forgets, crashes>>
vars == <<store, requestVars, handlerVars, engineVars, result, answerVars,
          boundVars>>

Engine == INSTANCE SubmitContract WITH Jobs <- Requests

-----------------------------------------------------------------------------
(* Helpers.                                                                *)

\* A saved mask gets the original, any other payload the saved mask.
ReplyUnasked(saved, payload) == saved.original
Reply(saved, payload) ==
    IF payload = saved.masked THEN saved.original ELSE saved.masked

\* put_if_absent: the record that is there afterwards.
WinnerIsLast(there, mine) == mine
Winner(there, mine) == IF there = None THEN mine ELSE there

\* MetricsService.record, record_error and record_overloaded.
Idle == [total |-> 0, successful |-> 0, masking |-> 0, unmasking |-> 0,
         errors |-> 0, overloaded |-> 0]
CountedApart(m, kind) ==
    CASE kind \in {"masking", "unmasking"} ->
            [m EXCEPT !.total = @ + 1, !.successful = @ + 1, ![kind] = @ + 1]
      [] kind \in {"errors", "overloaded"} -> [m EXCEPT ![kind] = @ + 1]
Counted(m, kind) ==
    IF kind \in {"masking", "unmasking"}
    THEN [m EXCEPT !.total = @ + 1, !.successful = @ + 1, ![kind] = @ + 1]
    ELSE [m EXCEPT !.total = @ + 1, ![kind] = @ + 1]

\* process() returns or raises: one counter, one status.
Finish(r, how, text, kind) ==
    /\ pc' = [pc EXCEPT ![r] = "done"]
    /\ status' = [status EXCEPT ![r] = how]
    /\ answer' = [answer EXCEPT ![r] = text]
    /\ metrics' = [metrics EXCEPT ![home[r]] = Counted(@, kind)]
    /\ served' = [served EXCEPT ![home[r]] = @ \cup {r}]
    /\ UNCHANGED record

\* A submit() that gave no result: 429 for None, 500 for an exception.
Fail(r, outcome) ==
    IF outcome = "refused"
    THEN Finish(r, "429", None, "overloaded")
    ELSE Finish(r, "500", None, "errors")

Init ==
    /\ store = [i \in Ids |-> None]
    /\ ask = [r \in Requests |-> None]
    /\ home = [r \in Requests |-> None]
    /\ pc = [r \in Requests |-> "idle"]
    /\ record = [r \in Requests |-> None]
    /\ Engine!Init
    /\ result = [r \in Requests |-> None]
    /\ status = [r \in Requests |-> "none"]
    /\ answer = [r \in Requests |-> None]
    /\ metrics = [p \in Processes |-> Idle]
    /\ served = [p \in Processes |-> {}]
    /\ stale = {}
    /\ forgets = 0
    /\ crashes = 0

-----------------------------------------------------------------------------
(* The handler.                                                            *)

Arrive(r) ==
    /\ pc[r] = "idle"
    /\ \E a \in Asks : ask' = [ask EXCEPT ![r] = a]
    /\ \E p \in Processes : home' = [home EXCEPT ![r] = p]
    /\ pc' = [pc EXCEPT ![r] = "reading"]
    /\ UNCHANGED <<store, record, engineVars, result, answerVars, boundVars>>

\* The store is read; the reply still has to reach the coroutine.
Read(r) ==
    /\ pc[r] = "reading"
    /\ record' = [record EXCEPT ![r] = store[ask[r].id]]
    /\ pc' = [pc EXCEPT ![r] = "checking"]
    /\ UNCHANGED <<store, requestVars, engineVars, result, answerVars, boundVars>>

\* aget raises: Redis is unreachable or too slow.
ReadFails(r) ==
    /\ pc[r] \in {"reading", "checking"}
    /\ Finish(r, "500", None, "errors")
    /\ UNCHANGED <<store, requestVars, engineVars, result, boundVars>>

AnswerFromRecord(r) ==
    /\ pc[r] = "checking"
    /\ record[r] # None
    /\ IF ask[r].payload = record[r].masked
       THEN Finish(r, "200", record[r].original, "unmasking")
       ELSE Finish(r, "200", record[r].masked, "masking")
    /\ UNCHANGED <<store, requestVars, engineVars, result, boundVars>>

Submit(r) ==
    /\ pc[r] = "checking"
    /\ record[r] = None
    /\ \/ /\ Engine!Accept(r)
          /\ pc' = [pc EXCEPT ![r] = "submitted"]
          /\ UNCHANGED <<record, answerVars>>
       \/ /\ Engine!Reject(r)
          /\ Fail(r, reply'[r])
    /\ UNCHANGED <<store, requestVars, result, boundVars>>

\* submit() returns the masked text, times out, fails, or is cancelled by stop().
SubmitReturns(r) ==
    /\ pc[r] = "submitted"
    /\ Engine!Answer(r)
    /\ Finish(r, "200", result[r], "masking")
    /\ UNCHANGED <<store, requestVars, result, boundVars>>

SubmitFails(r) ==
    /\ pc[r] = "submitted"
    /\ Engine!GiveUp(r)
    /\ reply'[r] # "cancelled"
    /\ Fail(r, reply'[r])
    /\ UNCHANGED <<store, requestVars, result, boundVars>>

\* The task of the request is cancelled at one of its two awaits, or stop() cancels
\* the future it awaits.  CancelledError is no Exception: nothing counts the request,
\* no answer is sent.
Cancelled(r) ==
    /\ \/ pc[r] \in {"reading", "checking"} /\ UNCHANGED engineVars
       \/ pc[r] = "submitted" /\ Engine!GiveUp(r) /\ reply'[r] = "cancelled"
    /\ pc' = [pc EXCEPT ![r] = "done"]
    /\ status' = [status EXCEPT ![r] = "lost"]
    /\ UNCHANGED <<store, requestVars, record, result, answer, metrics, served,
                   boundVars>>

-----------------------------------------------------------------------------
(* The engines, the store and the processes.                               *)

\* _process_batch masks the payload, records it and picks the reply.
PutRecord(r) ==
    /\ \E others \in SUBSET (open \ {r}) : open' = others
    /\ Engine!TakeEffect(r)
    /\ \E masked \in Masks[ask[r].payload] :
          LET mine == [original |-> ask[r].payload, masked |-> masked]
              row  == Winner(store[ask[r].id], mine)
          IN  /\ store' = [store EXCEPT ![ask[r].id] = row]
              /\ result' = [result EXCEPT ![r] = Reply(row, ask[r].payload)]
    /\ UNCHANGED <<requestVars, handlerVars, answerVars, boundVars>>

\* Jobs are given up before they were recorded.
EngineWithdraws ==
    /\ \E others \in SUBSET open : others # open /\ open' = others
    /\ Engine!Withdraw
    /\ UNCHANGED <<store, requestVars, handlerVars, result, answerVars, boundVars>>

\* A record's time to live is over, or the store restarted without it.
Forget(i) ==
    /\ forgets < MaxForgets
    /\ store[i] # None
    /\ store' = [store EXCEPT ![i] = None]
    /\ stale' = stale \cup {r \in Requests : ask[r] # None /\ ask[r].id = i}
    /\ forgets' = forgets + 1
    /\ UNCHANGED <<requestVars, handlerVars, engineVars, result, answerVars, crashes>>

\* A process dies and another takes its place: its connections break, its counters
\* start again, and of its jobs only those on their way to Redis may be recorded.
Crash(p) ==
    /\ crashes < MaxCrashes
    /\ crashes' = crashes + 1
    /\ LET broken == {r \in Requests : home[r] = p /\ pc[r] # "done"}
       IN  /\ pc' = [r \in Requests |-> IF r \in broken THEN "done" ELSE pc[r]]
           /\ status' = [r \in Requests |->
                            IF r \in broken THEN "lost" ELSE status[r]]
           /\ reply' = [r \in Requests |->
                           IF r \in broken /\ reply[r] = "waiting"
                           THEN "cancelled" ELSE reply[r]]
    /\ \E left \in SUBSET {r \in open : home[r] = p} :
          open' = {r \in open : home[r] # p} \cup left
    /\ metrics' = [metrics EXCEPT ![p] = Idle]
    /\ served' = [served EXCEPT ![p] = {}]
    /\ UNCHANGED <<store, requestVars, record, effect, result, answer, stale, forgets>>

RequestStep(r) ==
    \/ Arrive(r) \/ Read(r) \/ ReadFails(r) \/ AnswerFromRecord(r)
    \/ Submit(r) \/ SubmitReturns(r) \/ SubmitFails(r) \/ Cancelled(r)
    \/ PutRecord(r)

\* Every request is over; a request that never ends would be a deadlock.
Finished ==
    /\ \A r \in Requests : pc[r] = "done"
    /\ UNCHANGED vars

Next ==
    \/ Finished
    \/ \E r \in Requests : RequestStep(r)
    \/ EngineWithdraws
    \/ \E i \in Ids : Forget(i)
    \/ \E p \in Processes : Crash(p)

Spec == Init /\ [][Next]_vars

-----------------------------------------------------------------------------
(* Properties.                                                             *)

Counters == {"total", "successful", "masking", "unmasking", "errors", "overloaded"}
Answered(r) == status[r] = "200"

\* Every variable keeps its type.
TypeOK ==
    /\ store \in [Ids -> Records \cup {None}]
    /\ ask \in [Requests -> Asks \cup {None}]
    /\ home \in [Requests -> Processes \cup {None}]
    /\ pc \in [Requests -> {"idle", "reading", "checking", "submitted", "done"}]
    /\ record \in [Requests -> Records \cup {None}]
    /\ reply \in [Requests ->
          {"idle", "waiting", "answered", "refused", "failed", "cancelled"}]
    /\ open \subseteq Requests
    /\ effect \subseteq Requests
    /\ result \in [Requests -> Texts \cup {None}]
    /\ status \in [Requests -> {"none", "200", "429", "500", "lost"}]
    /\ answer \in [Requests -> Texts \cup {None}]
    /\ metrics \in [Processes -> [Counters -> Nat]]
    /\ served \in [Processes -> SUBSET Requests]
    /\ stale \subseteq Requests
    /\ forgets \in 0..MaxForgets
    /\ crashes \in 0..MaxCrashes

\* Until the record of an id goes, every answer given for the id is the one the
\* stored record still gives: a retry gets the same mask, and the mask, sent back,
\* gets the original.  Racing requests, processes, timeouts and crashes do not
\* matter.
AnswersReproducible ==
    \A r \in Requests :
        Answered(r) /\ r \notin stale =>
            /\ store[ask[r].id] # None
            /\ answer[r] = Reply(store[ask[r].id], ask[r].payload)

\* A text that is answered is a mask of a payload sent for that id, or that payload
\* itself to a request that sent a mask of it, however often the id's record went
\* and came.
OriginalOnlyForItsMask ==
    \A r \in Requests :
        Answered(r) =>
            \E s \in Requests :
                /\ ask[s] # None
                /\ ask[s].id = ask[r].id
                /\ \/ answer[r] \in Masks[ask[s].payload]
                   \/ /\ answer[r] = ask[s].payload
                      /\ ask[r].payload \in Masks[ask[s].payload]

\* The counters of a process add up to the requests it answered since it started:
\* total has the errors and the refusals too, and a request that was cancelled is
\* in none.
MetricsCountAnswers ==
    \A p \in Processes :
        LET With(how) == Cardinality({r \in served[p] : status[r] = how})
            m == metrics[p]
        IN  /\ m.total = Cardinality(served[p])
            /\ m.total = m.successful + m.errors + m.overloaded
            /\ m.successful = m.masking + m.unmasking
            /\ m.successful = With("200")
            /\ m.errors = With("500")
            /\ m.overloaded = With("429")

\* The answer a request can get: it is fixed when the handler reads a record or the
\* engine writes one.
Verdict ==
    [r \in Requests |->
        IF record[r] # None THEN Reply(record[r], ask[r].payload) ELSE result[r]]

Contract == INSTANCE ProcessContract WITH verdict <- Verdict

KeepsContract == Contract!Spec

=============================================================================
