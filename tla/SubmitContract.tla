---------------------------- MODULE SubmitContract ----------------------------
(***************************************************************************)
(* What InferenceEngine.submit promises its caller, without queue, worker, *)
(* batch or thread.  An accepted job may take effect (its record is        *)
(* stored) at most once, at some moment while it is open.  A caller is     *)
(* answered only after the effect.  A caller that is refused, cancelled or *)
(* told of a failure may or may not find the effect; a job that was        *)
(* withdrawn never takes effect afterwards.                                *)
(***************************************************************************)
CONSTANTS Jobs

VARIABLES
    reply,    \* what each call has come to
    open,     \* accepted jobs that may still take effect
    effect    \* jobs that have taken effect

vars == <<reply, open, effect>>

Init ==
    /\ reply = [j \in Jobs |-> "idle"]
    /\ open = {}
    /\ effect = {}

Accept(j) ==
    /\ reply[j] = "idle"
    /\ reply' = [reply EXCEPT ![j] = "waiting"]
    /\ open' = open \cup {j}
    /\ UNCHANGED effect

Reject(j) ==
    /\ reply[j] = "idle"
    /\ \E answer \in {"refused", "failed"} :
          reply' = [reply EXCEPT ![j] = answer]
    /\ UNCHANGED <<open, effect>>

\* One job takes effect; others may be withdrawn by the same step, as when the
\* rest of a batch is given up.
TakeEffect(j) ==
    /\ j \in open
    /\ effect' = effect \cup {j}
    /\ open' \subseteq open \ {j}
    /\ UNCHANGED reply

Withdraw ==
    /\ open' \subseteq open
    /\ UNCHANGED <<reply, effect>>

Answer(j) ==
    /\ reply[j] = "waiting"
    /\ j \in effect
    /\ reply' = [reply EXCEPT ![j] = "answered"]
    /\ UNCHANGED <<open, effect>>

\* The caller stops waiting; a job that has not started is withdrawn with it.
GiveUp(j) ==
    /\ reply[j] = "waiting"
    /\ \E answer \in {"refused", "failed", "cancelled"} :
          reply' = [reply EXCEPT ![j] = answer]
    /\ open' \in {open, open \ {j}}
    /\ UNCHANGED effect

Next ==
    \/ Withdraw
    \/ \E j \in Jobs :
          Accept(j) \/ Reject(j) \/ TakeEffect(j) \/ Answer(j) \/ GiveUp(j)

Spec == Init /\ [][Next]_vars

=============================================================================
