------------------------------ MODULE Masking ------------------------------
(***************************************************************************)
(* mask_text and unmask_text of src/core/masking.py, one loop iteration a  *)
(* step: the check of the detector's entities, the merge of their spans    *)
(* into intervals, the writing of the masked text, and the splicing of the *)
(* stored spans back into it.                                              *)
(*                                                                         *)
(* The engine stores the spans beside the original and the mask; the API   *)
(* gives the stored original back whole, so unmask_text serves other       *)
(* readers of a record.  It must be safe on spans that are not those that  *)
(* mask_text produced, too.                                                *)
(***************************************************************************)
EXTENDS Integers, Sequences, Functions

CONSTANTS
    Texts,          \* texts, sequences of characters
    Predictions,    \* what a detector may return: sequences of entities
    PublicLabels,   \* PUBLIC_PERSON and PUBLIC_ADDRESS
    MaskChar,       \* MASK_CHAR
    Strays          \* span lists other than the one mask_text returned

ASSUME MaskingAssumption ==
    /\ \A t \in Texts : t \in Seq(Range(t))
    /\ \A entities \in Predictions :
           /\ entities \in Seq(Range(entities))
           /\ \A i \in DOMAIN entities : DOMAIN entities[i] = {"start", "end", "label"}
    /\ \A from \in Strays : from \in Seq(Range(from))

VARIABLES
    pc,         \* where the run is: one of Phases
    text,       \* text of mask_text
    entities,   \* entities of mask_text
    spans,      \* spans: the list under construction, then the stored one
    intervals,  \* intervals
    k,          \* the iteration of the loop pc names
    out,        \* the characters written: chunks joined, then chars
    known       \* restored: the offsets that are restored

vars == <<pc, text, entities, spans, intervals, k, out, known>>

-----------------------------------------------------------------------------
(* Offsets count from 0 and ends are exclusive: the span covers the        *)
(* characters start+1..end of a sequence.                                  *)

Covers(s, p) == s.start < p /\ p <= s.end

\* _valid_span; an offset that is no integer (a bool, a float) is outside Int.
ValidSpan(s, length) ==
    /\ s.start \in Int
    /\ s.end \in Int
    /\ 0 <= s.start
    /\ s.start < s.end
    /\ s.end <= length

Masked(e) == e.label \notin PublicLabels

\* text[s.start:s.end].
Slice(t, s) == SubSeq(t, s.start + 1, s.end)

\* list.sort(key=lambda s: s.start) sorts stably: t is s in the order of p.
SortedBy(s, p) ==
    \A i, j \in DOMAIN s : i < j =>
        \/ s[p[i]].start < s[p[j]].start
        \/ s[p[i]].start = s[p[j]].start /\ p[i] < p[j]
Sorted(s) ==
    {[i \in DOMAIN s |-> s[p[i]]] : p \in {q \in Bijection(DOMAIN s, DOMAIN s) : SortedBy(s, q)}}

-----------------------------------------------------------------------------

Init ==
    /\ pc = "check"
    /\ text \in Texts
    /\ entities \in Predictions
    /\ spans = <<>>
    /\ intervals = <<>>
    /\ k = 1
    /\ out = <<>>
    /\ known = {}

\* ValueError("invalid entity offsets"): nothing is returned.
RejectEntity ==
    /\ pc = "check"
    /\ k <= Len(entities)
    /\ ~ValidSpan(entities[k], Len(text))
    /\ pc' = "invalid"
    /\ UNCHANGED <<text, entities, spans, intervals, k, out, known>>

TakeEntity ==
    /\ pc = "check"
    /\ k <= Len(entities)
    /\ ValidSpan(entities[k], Len(text))
    /\ spans' = IF Masked(entities[k])
                THEN Append(spans, [start |-> entities[k].start, end |-> entities[k].end,
                                    text |-> Slice(text, entities[k])])
                ELSE spans
    /\ k' = k + 1
    /\ UNCHANGED <<pc, text, entities, intervals, out, known>>

SortSpans ==
    /\ pc = "check"
    /\ k > Len(entities)
    /\ spans' \in Sorted(spans)
    /\ k' = 1
    /\ pc' = "merge"
    /\ UNCHANGED <<text, entities, intervals, out, known>>

Larger(i, j) == IF i < j THEN j ELSE i

\* Mutant of Merged: the end of the later span wins.
LastEnd(done, s) ==
    IF done # <<>> /\ s.start <= done[Len(done)].end
    THEN [done EXCEPT ![Len(done)].end = s.end]
    ELSE Append(done, [start |-> s.start, end |-> s.end])

\* Mutant of Merged: touching spans stay apart.
TouchingApart(done, s) ==
    IF done # <<>> /\ s.start < done[Len(done)].end
    THEN [done EXCEPT ![Len(done)].end = Larger(@, s.end)]
    ELSE Append(done, [start |-> s.start, end |-> s.end])

\* A span that starts inside or at the end of the last interval extends it.
Merged(done, s) ==
    LET last == done[Len(done)]
    IN  IF done # <<>> /\ s.start <= last.end
        THEN [done EXCEPT ![Len(done)] = [start |-> last.start, end |-> Larger(last.end, s.end)]]
        ELSE Append(done, [start |-> s.start, end |-> s.end])

MergeSpan ==
    /\ pc = "merge"
    /\ k <= Len(spans)
    /\ intervals' = Merged(intervals, spans[k])
    /\ k' = k + 1
    /\ UNCHANGED <<pc, text, entities, spans, out, known>>

EndMerge ==
    /\ pc = "merge"
    /\ k > Len(spans)
    /\ k' = 1
    /\ pc' = "write"
    /\ UNCHANGED <<text, entities, spans, intervals, out, known>>

\* The text from position, which is Len(out), to the interval, then its mask.
WithInterval(written, t, interval) ==
    [p \in 1..interval.end |->
        IF p <= Len(written) THEN written[p]
        ELSE IF p <= interval.start THEN t[p] ELSE MaskChar]

WriteInterval ==
    /\ pc = "write"
    /\ k <= Len(intervals)
    /\ out' = WithInterval(out, text, intervals[k])
    /\ k' = k + 1
    /\ UNCHANGED <<pc, text, entities, spans, intervals, known>>

\* The text from the last interval to the end.
WriteRest ==
    /\ pc = "write"
    /\ k > Len(intervals)
    /\ out' = [p \in DOMAIN text |-> IF p <= Len(out) THEN out[p] ELSE text[p]]
    /\ pc' = "masked"
    /\ UNCHANGED <<text, entities, spans, intervals, k, known>>

-----------------------------------------------------------------------------
(* unmask_text.                                                            *)

\* A caller passes the masked text and a list of spans, which is sorted.
Unmask(from) ==
    /\ pc = "masked"
    /\ spans' \in Sorted(from)
    /\ k' = 1
    /\ known' = {}
    /\ UNCHANGED <<text, entities, intervals, out>>

UnmaskStored == pc' = "restore" /\ Unmask(spans)

\* The spans are not those that were stored; pc remembers it.
UnmaskStray == pc' = "splice" /\ \E from \in Strays : Unmask(from)

Restoring == pc \in {"restore", "splice"}

\* The two checks of one iteration, the second made at every offset.
Fits(s) == ValidSpan(s, Len(out)) /\ Len(s.text) = s.end - s.start
\* Mutant of Conflicts: compares with the mask, too.
ConflictsAnywhere(s) == \E p \in DOMAIN out : Covers(s, p) /\ out[p] # s.text[p - s.start]
\* Mutant of Conflicts: the last span wins.
NeverConflicts(s) == FALSE
Conflicts(s) == \E p \in known : Covers(s, p) /\ out[p] # s.text[p - s.start]

\* "invalid restoration span" or "conflicting restoration spans".
RejectSpan ==
    /\ Restoring
    /\ k <= Len(spans)
    /\ ~Fits(spans[k]) \/ Conflicts(spans[k])
    /\ pc' = "refused"
    /\ UNCHANGED <<text, entities, spans, intervals, k, out, known>>

Spliced(written, s) ==
    [p \in DOMAIN written |-> IF Covers(s, p) THEN s.text[p - s.start] ELSE written[p]]

RestoreSpan ==
    /\ Restoring
    /\ k <= Len(spans)
    /\ Fits(spans[k])
    /\ ~Conflicts(spans[k])
    /\ out' = Spliced(out, spans[k])
    /\ known' = known \cup (spans[k].start + 1)..spans[k].end
    /\ k' = k + 1
    /\ UNCHANGED <<pc, text, entities, spans, intervals>>

EndRestore ==
    /\ Restoring
    /\ k > Len(spans)
    /\ pc' = IF pc = "restore" THEN "restored" ELSE "spliced"
    /\ UNCHANGED <<text, entities, spans, intervals, k, out, known>>

Finished ==
    /\ pc \in {"invalid", "refused", "restored", "spliced"}
    /\ UNCHANGED vars

Next ==
    \/ RejectEntity \/ TakeEntity \/ SortSpans
    \/ MergeSpan \/ EndMerge
    \/ WriteInterval \/ WriteRest
    \/ UnmaskStored \/ UnmaskStray
    \/ RejectSpan \/ RestoreSpan \/ EndRestore
    \/ Finished

Spec == Init /\ [][Next]_vars

-----------------------------------------------------------------------------
(* Properties.                                                             *)

Phases ==
    {"check", "invalid", "merge", "write", "masked",
     "restore", "restored", "splice", "spliced", "refused"}

\* The types of the variables.
TypeOK ==
    /\ pc \in Phases
    /\ text \in Texts
    /\ entities \in Seq(Range(entities))
    /\ spans \in Seq(Range(spans))
    /\ \A i \in DOMAIN intervals :
           /\ intervals[i] \in [start : Nat, end : Nat]
           /\ intervals[i].start < intervals[i].end
    /\ k \in Nat \ {0}
    /\ out \in Seq(Range(out))
    /\ Len(out) <= Len(text)
    /\ known \subseteq DOMAIN out

Private(p) == \E i \in DOMAIN entities : Masked(entities[i]) /\ Covers(entities[i], p)

\* A masked text is returned only if every entity, public or not, has valid
\* offsets ("fail instead of leaking unmasked text").  It has the length of the
\* original; it shows MASK_CHAR exactly where some private entity lies, however
\* the entities nest, overlap or touch and in whatever order the detector lists
\* them, and the original character everywhere else ("positions preserved").
MaskIsExact ==
    pc = "masked" =>
        /\ \A i \in DOMAIN entities : ValidSpan(entities[i], Len(text))
        /\ Len(out) = Len(text)
        /\ \A p \in DOMAIN text : out[p] = IF Private(p) THEN MaskChar ELSE text[p]

\* An entity with invalid offsets, public or not, makes mask_text raise: nothing
\* is merged, written or restored.
InvalidFailsClosed ==
    pc \notin {"check", "invalid"} =>
        \A i \in DOMAIN entities : ValidSpan(entities[i], Len(text))

\* The merged intervals neither overlap nor touch and stay within the text, so
\* the writing loop does not repeat work however the predictions overlap.
IntervalsApart ==
    \A i \in DOMAIN intervals :
        /\ intervals[i].end <= Len(text)
        /\ \A j \in DOMAIN intervals : i < j => intervals[i].end < intervals[j].start

\* Restoring with the stored spans yields the original; overlapping spans never
\* count as conflicting, because all were cut from one text.
RestoresOriginal ==
    /\ pc = "restored" => out = text
    /\ pc = "restore" /\ k <= Len(spans) => Fits(spans[k]) /\ ~Conflicts(spans[k])

\* With any other spans a restoration that does not raise shows the text of
\* every span at its place: none has overwritten another's.
RestorationStands ==
    pc = "spliced" =>
        \A i \in DOMAIN spans :
            /\ Fits(spans[i])
            /\ \A p \in DOMAIN out : Covers(spans[i], p) => out[p] = spans[i].text[p - spans[i].start]

=============================================================================
