------------------------------ MODULE Pipeline ------------------------------
(***************************************************************************)
(* What becomes of one text in _process_batch of the engine: the detector  *)
(* of Detection looks at it, and mask_text of Masking is given what that   *)
(* returns.  A detector is a plug-in, though, and mask_text takes whatever *)
(* list it is given: the runs that begin with Masking's own Predictions    *)
(* stand for the detectors outside this repository, broken ones included.  *)
(***************************************************************************)
EXTENDS Detection, Masking

\* Both modules know the labels that are not masked.
ASSUME PipelineAssumption ==
    /\ Auxiliary = PublicLabels
    /\ \E t \in Texts : Len(t) = Length

pipelineVars == <<detectionVars, vars>>

-----------------------------------------------------------------------------
\* mask_text waits for the detector.
Waiting == pc = "detect"

DetectorInit ==
    /\ DetectInit
    /\ pc = "detect"
    /\ text \in {t \in Texts : Len(t) = Length}
    /\ entities = <<>>
    /\ spans = <<>> /\ intervals = <<>> /\ k = 1
    /\ out = <<>> /\ known = {}

\* No detector of this repository: nothing of Detection happens.
PlugInInit ==
    /\ kind = "other" /\ filtered = FALSE
    /\ matches = {} /\ predicted = {} /\ result = {}
    /\ stage = "done" /\ ordered = <<>> /\ turn = 1 /\ kept = <<>>
    /\ Init

PipelineInit == DetectorInit \/ PlugInInit

Detect ==
    /\ Waiting
    /\ stage # "done"
    /\ DetectNext
    /\ UNCHANGED vars

\* The list a detector returns.  All but the recall model, which goes through its
\* labels one after the other, have the entities in the order of their starts.
Lists(E) ==
    {s \in [1..Cardinality(E) -> E] :
        /\ Range(s) = E
        /\ kind # "model" => \A i \in 2..Cardinality(E) : s[i - 1].start <= s[i].start}

\* Mutant of HandOver: mask_text is given what the rules kept.
HandOverKept ==
    /\ Waiting
    /\ stage = "done"
    /\ entities' \in IF kind \in {"rules", "hybrid"} THEN {kept} ELSE Lists(result)
    /\ pc' = "check"
    /\ UNCHANGED <<detectionVars, text, spans, intervals, k, out, known>>

\* mask_text(job.payload, entities).
HandOver ==
    /\ Waiting
    /\ stage = "done"
    /\ entities' \in Lists(result)
    /\ pc' = "check"
    /\ UNCHANGED <<detectionVars, text, spans, intervals, k, out, known>>

Mask ==
    /\ ~Waiting
    /\ Next
    /\ UNCHANGED detectionVars

PipelineNext == Detect \/ HandOver \/ Mask

PipelineSpec == PipelineInit /\ [][PipelineNext]_pipelineVars

-----------------------------------------------------------------------------
\* The character p lies in something private that this kind of detector looks for.
Found(p) ==
    \/ kind # "rules" /\ Shown(Personal(predicted), p)
    \/ kind \in {"rules", "hybrid"} /\ Shown(matches, p)
    \/ kind = "rubert" /\ Shown(Emails, p)

\* From the patterns and the model to the masked text: a text that a detector of
\* this repository looked at is never refused, shows every character that none of
\* the detector's parts found private, and hides all the others.
MaskHidesWhatWasFound ==
    kind \in Kinds =>
        /\ pc # "invalid"
        /\ pc = "masked" =>
              \A p \in DOMAIN text : out[p] = IF Found(p) THEN MaskChar ELSE text[p]
=============================================================================
