----------------------------- MODULE Detection -----------------------------
(***************************************************************************)
(* What a detector built by create_detector returns for one text: the      *)
(* matches of the regular expressions (src/models/rules.py), the entities  *)
(* of a model, and how the detectors combine them: rules alone, a model    *)
(* alone, both (hybrid), or a RuBERT model whose e-mails are completed,    *)
(* each with or without the POSTPROCESS filter.                            *)
(*                                                                         *)
(* A list whose order nothing depends on is a set here: mask_text sorts    *)
(* what it is given.  The order in which _dedupe looks at the matches      *)
(* decides what it drops, and is modelled.                                 *)
(***************************************************************************)
EXTENDS Integers, Sequences, FiniteSets, Functions

CONSTANTS
    Length,         \* number of characters of the text
    Rules,          \* the labels of _RULES, in its order
    Email,          \* the label of the pattern _EMAIL
    Labels,         \* all labels
    Auxiliary,         \* AUXILIARY, and public_labels of a RuBERT checkpoint
    Matchings,      \* what the patterns may match: sets of entities
    ModelPredictions    \* what a model may predict: sets of entities

Entities == {e \in [start : 0..Length, end : 0..Length, label : Labels] : e.start < e.end}

Kinds == {"rules", "model", "hybrid", "rubert"}

ASSUME DetectionAssumption ==
    /\ Length \in Nat
    /\ Rules \in Seq(Labels)
    /\ Email \in Range(Rules)
    /\ Range(Rules) \cap Auxiliary = {}
    /\ \A M \in Matchings : IsFiniteSet(M) /\ \A m \in M : m \in Entities /\ m.label \in Range(Rules)
    /\ \A P \in ModelPredictions : IsFiniteSet(P) /\ P \subseteq Entities

VARIABLES
    kind,       \* the detector create_detector builds
    filtered,   \* config.postprocess
    matches,    \* what the patterns match in the text
    predicted,  \* what the model predicts for it
    stage,      \* the next thing to run: one of Stages
    ordered,    \* spans of _dedupe, sorted
    turn,       \* the iteration of its loop
    kept,       \* out of _dedupe
    result      \* the entities the detector returns

detectionVars == <<kind, filtered, matches, predicted, stage, ordered, turn, kept, result>>

-----------------------------------------------------------------------------

Has(s, p) == s.start < p /\ p <= s.end
Within(s, t) == s.start >= t.start /\ s.end <= t.end

\* The place of a label in _RULES.
Rank(label) == CHOOSE i \in DOMAIN Rules : Rules[i] = label

\* Matches are collected rule by rule, then sorted stably by (start, -length).
Before(a, b) ==
    \/ a.start < b.start
    \/ a.start = b.start /\ a.end > b.end
    \/ a.start = b.start /\ a.end = b.end /\ Rank(a.label) < Rank(b.label)

InOrder(M) ==
    {s \in [1..Cardinality(M) -> M] :
        /\ Range(s) = M
        /\ \A i, j \in 1..Cardinality(M) : i < j => Before(s[i], s[j])}

DetectInit ==
    /\ kind \in Kinds
    /\ filtered \in BOOLEAN
    /\ matches \in Matchings
    /\ predicted \in ModelPredictions
    /\ stage = IF kind \in {"rules", "hybrid"} THEN "sort" ELSE "predict"
    /\ ordered = <<>>
    /\ turn = 1
    /\ kept = <<>>
    /\ result = {}

-----------------------------------------------------------------------------
(* rule_spans and _dedupe.                                                 *)

SortMatches ==
    /\ stage = "sort"
    /\ ordered' \in InOrder(matches)
    /\ stage' = "dedupe"
    /\ UNCHANGED <<kind, filtered, matches, predicted, turn, kept, result>>

\* Mutant of Contained: an overlap suffices.
Overlaps(s, list) == list # <<>> /\ s.start < list[Len(list)].end
\* The test looks at the last kept span only.
Contained(s, list) == list # <<>> /\ Within(s, list[Len(list)])

DropSpan ==
    /\ stage = "dedupe"
    /\ turn <= Len(ordered)
    /\ Contained(ordered[turn], kept)
    /\ turn' = turn + 1
    /\ UNCHANGED <<kind, filtered, matches, predicted, stage, ordered, kept, result>>

KeepSpan ==
    /\ stage = "dedupe"
    /\ turn <= Len(ordered)
    /\ ~Contained(ordered[turn], kept)
    /\ kept' = Append(kept, ordered[turn])
    /\ turn' = turn + 1
    /\ UNCHANGED <<kind, filtered, matches, predicted, stage, ordered, result>>

\* RuleDetector returns the kept spans; HybridDetector adds the model's.
EndDedupe ==
    /\ stage = "dedupe"
    /\ turn > Len(ordered)
    /\ result' = Range(kept) \cup (IF kind = "hybrid" THEN predicted ELSE {})
    /\ stage' = "filter"
    /\ UNCHANGED <<kind, filtered, matches, predicted, ordered, turn, kept>>

-----------------------------------------------------------------------------
(* Models.                                                                 *)

\* A student or recall model: its predictions are the result.
PredictModel ==
    /\ stage = "predict"
    /\ kind = "model"
    /\ result' = predicted
    /\ stage' = "filter"
    /\ UNCHANGED <<kind, filtered, matches, predicted, ordered, turn, kept>>

Personal(E) == {e \in E : e.label \notin Auxiliary}
Emails == {m \in matches : m.label = Email}

\* No entity covers the whole e-mail m.
Completes(m, E) == ~\E e \in E : e.start <= m.start /\ e.end >= m.end

\* RubertOnnxInference drops public labels, then supplement_emails completes.
PredictRubert ==
    /\ stage = "predict"
    /\ kind = "rubert"
    /\ LET E == Personal(predicted)
       IN  result' = E \cup {m \in Emails : Completes(m, E)}
    /\ stage' = "filter"
    /\ UNCHANGED <<kind, filtered, matches, predicted, ordered, turn, kept>>

-----------------------------------------------------------------------------

\* PostProcessedDetector, when POSTPROCESS is set.
Filter ==
    /\ stage = "filter"
    /\ result' = IF filtered THEN Personal(result) ELSE result
    /\ stage' = "done"
    /\ UNCHANGED <<kind, filtered, matches, predicted, ordered, turn, kept>>

Detected == stage = "done" /\ UNCHANGED detectionVars

DetectNext ==
    \/ SortMatches \/ DropSpan \/ KeepSpan \/ EndDedupe
    \/ PredictModel \/ PredictRubert
    \/ Filter
    \/ Detected

DetectSpec == DetectInit /\ [][DetectNext]_detectionVars

-----------------------------------------------------------------------------
(* Properties.                                                             *)

Stages == {"sort", "dedupe", "predict", "filter", "done"}

\* The types of the variables.
DetectTypeOK ==
    /\ kind \in Kinds
    /\ filtered \in BOOLEAN
    /\ matches \in Matchings
    /\ predicted \in ModelPredictions
    /\ stage \in Stages
    /\ ordered \in Seq(matches)
    /\ turn \in 1..Len(ordered) + 1
    /\ kept \in Seq(matches)
    /\ result \subseteq Entities

\* Of two spans _dedupe keeps, the later starts and ends later: none lies
\* within another, although each was compared with one kept span only.
KeptAscend ==
    \A i, j \in DOMAIN kept : i < j => kept[i].start < kept[j].start /\ kept[i].end < kept[j].end

Shown(E, p) == \E e \in E : Has(e, p)

\* The characters that will be masked are those of the private entities the
\* model predicts (unless there is no model), of the rules' matches (for rules
\* and hybrid), and of the e-mails (for RuBERT): dropping nested matches,
\* completing e-mails and POSTPROCESS neither lose nor add a character.
CoverageIsUnion ==
    stage = "done" =>
        \A p \in 1..Length :
            Shown(Personal(result), p)
            <=> \/ kind # "rules" /\ Shown(Personal(predicted), p)
                \/ kind \in {"rules", "hybrid"} /\ Shown(matches, p)
                \/ kind = "rubert" /\ Shown(Emails, p)

\* Every e-mail lies whole within one private entity of the result, for each
\* detector that looks for e-mails by pattern.
EmailsWhole ==
    stage = "done" /\ kind # "model" =>
        \A m \in Emails : \E e \in Personal(result) : Within(m, e)
=============================================================================
