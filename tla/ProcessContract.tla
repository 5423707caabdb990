--------------------------- MODULE ProcessContract ---------------------------
(***************************************************************************)
(* What POST /process promises its clients, with no engine, no process and *)
(* no await.  At one instant between the arrival of a request and its      *)
(* answer the service looks up the payload id, stores the payload with a   *)
(* mask of it if the id is new, and fixes the answer: the original to who  *)
(* sent the mask, the mask to anyone else.  A request that is turned down  *)
(* with 429 or 500, or whose connection is lost, may have that effect      *)
(* without the answer, even afterwards.                                    *)
(***************************************************************************)
CONSTANTS
    Requests,   \* the requests
    Ids,        \* payload ids
    Texts,      \* payloads, originals and masks
    Masks,      \* Masks[t]: the masks the detector may give text t
    None        \* Python's None

VARIABLES
    store,      \* the record of each id, or None
    ask,        \* what each request asks, None before it arrives
    verdict,    \* the answer fixed for it, or None
    status,     \* what came of it
    answer      \* the text of its answer, or None

vars == <<store, ask, verdict, status, answer>>

Records == [original : Texts, masked : Texts]
Asks == [id : Ids, payload : Texts]

\* The answer a record gives to a payload.
Reply(record, payload) ==
    IF payload = record.masked THEN record.original ELSE record.masked

Init ==
    /\ store = [i \in Ids |-> None]
    /\ ask = [r \in Requests |-> None]
    /\ verdict = [r \in Requests |-> None]
    /\ status = [r \in Requests |-> "none"]
    /\ answer = [r \in Requests |-> None]

Arrive(r) ==
    /\ ask[r] = None
    /\ \E a \in Asks : ask' = [ask EXCEPT ![r] = a]
    /\ UNCHANGED <<store, verdict, status, answer>>

Decide(r) ==
    /\ ask[r] # None
    /\ verdict[r] = None
    /\ \E record \in Records :
          /\ IF store[ask[r].id] = None
             THEN /\ record.original = ask[r].payload
                  /\ record.masked \in Masks[ask[r].payload]
             ELSE record = store[ask[r].id]
          /\ store' = [store EXCEPT ![ask[r].id] = record]
          /\ verdict' = [verdict EXCEPT ![r] = Reply(record, ask[r].payload)]
    /\ UNCHANGED <<ask, status, answer>>

Answer(r) ==
    /\ status[r] = "none"
    /\ verdict[r] # None
    /\ status' = [status EXCEPT ![r] = "200"]
    /\ answer' = [answer EXCEPT ![r] = verdict[r]]
    /\ UNCHANGED <<store, ask, verdict>>

\* Requests end without an answer: one alone, or all that one process had.
TurnDown(S, how) ==
    /\ \A r \in S : ask[r] # None /\ status[r] = "none"
    /\ status' = [r \in Requests |-> IF r \in S THEN how ELSE status[r]]
    /\ UNCHANGED <<store, ask, verdict, answer>>

\* The time to live of a record is over, or the store lost it.
Forget(i) ==
    /\ store' = [store EXCEPT ![i] = None]
    /\ UNCHANGED <<ask, verdict, status, answer>>

Next ==
    \/ \E r \in Requests : Arrive(r) \/ Decide(r) \/ Answer(r)
    \/ \E S \in SUBSET Requests, how \in {"429", "500", "lost"} : TurnDown(S, how)
    \/ \E i \in Ids : Forget(i)

Spec == Init /\ [][Next]_vars

=============================================================================
