--------------------------- MODULE StudentWindows ---------------------------
(***************************************************************************)
(* A batch through the character-level student: BatchedDetector skips the  *)
(* empty texts, StudentDetector cuts the others into overlapping windows,  *)
(* tags up to FlushAt windows at a time, merges what the windows of a text *)
(* predict, and BatchedDetector puts the results back in input order.      *)
(*                                                                         *)
(* A text is its length.  What the network finds in a window is any member *)
(* of Findings that fits it.  The predictions of a text and the merged     *)
(* spans are sets: the loops sort them, and equal predictions merge.       *)
(* Labels are numbers; the code orders them as strings.                    *)
(***************************************************************************)
EXTENDS Integers, Sequences, FiniteSets

CONSTANTS
    Batches,    \* the batches: sequences of lengths
    MaxLen,     \* max_len
    FlushAt,    \* 16
    Overlap,    \* 128
    Findings    \* what the network may find in one window

Span == [start : Nat, end : Nat, label : Nat]
NoSpan == [start |-> 0, end |-> 0, label |-> 0]

ASSUME WindowsAssumption ==
    /\ Batches \subseteq Seq(Nat)
    /\ MaxLen \in Nat \ {0}
    /\ FlushAt \in Nat \ {0}
    /\ Overlap \in Nat
    /\ \A F \in Findings : F \subseteq {s \in Span : s.start < s.end}

VARIABLES
    texts,      \* lengths of the texts of the batch
    positions,  \* where the non-empty ones are
    stage,      \* the next thing to run
    owner,      \* the text in turn
    offset,     \* where its next window begins
    pending,    \* windows that wait for the network
    seen,       \* windows of each text the network has tagged
    results,    \* what it has found in them
    todo,       \* entities the merge has not come to
    closed,     \* merged, without its last entity
    last,       \* merged[-1]; NoSpan while merged is empty
    out         \* what predict_batch returns

batchVars == <<texts, positions, stage, owner, offset, pending, seen, results,
               todo, closed, last, out>>

-----------------------------------------------------------------------------

Lesser(a, b) == IF a < b THEN a ELSE b
Larger(a, b) == IF a > b THEN a ELSE b

\* The characters two windows of a text have in common.
Shared == Lesser(Overlap, MaxLen \div 4)

\* Mutant of Step: windows that only touch.
StepApart == MaxLen
Step == Larger(1, MaxLen - Shared)

\* positions = [i for i, text in enumerate(texts) if text]
Positions(batch) ==
    {p \in UNION {[1..n -> DOMAIN batch] : n \in 0..Len(batch)} :
        /\ \A i, j \in DOMAIN p : i < j => p[i] < p[j]
        /\ {p[i] : i \in DOMAIN p} = {i \in DOMAIN batch : batch[i] > 0}}

Length(o) == texts[positions[o]]

BatchInit ==
    /\ texts \in Batches
    /\ positions \in Positions(texts)
    /\ stage = IF positions = <<>> THEN "done" ELSE "cut"
    /\ owner = 1
    /\ offset = 0
    /\ pending = <<>>
    /\ seen = [o \in DOMAIN positions |-> {}]
    /\ results = [o \in DOMAIN positions |-> {}]
    /\ todo = {}
    /\ closed = {}
    /\ last = NoSpan
    /\ out = [i \in DOMAIN texts |-> {}]

-----------------------------------------------------------------------------
(* Windows                                                                 *)

Window == [owner |-> owner, start |-> offset, end |-> Lesser(offset + MaxLen, Length(owner))]

\* Append one window; the last one of a text reaches its end.
CutWindow ==
    /\ stage = "cut"
    /\ owner \in DOMAIN positions
    /\ pending' = Append(pending, Window)
    /\ stage' = IF Len(pending') = FlushAt THEN "flush" ELSE "cut"
    /\ IF offset + MaxLen >= Length(owner)
       THEN owner' = owner + 1 /\ offset' = 0
       ELSE owner' = owner /\ offset' = offset + Step
    /\ UNCHANGED <<texts, positions, seen, results, todo, closed, last, out>>

NextAfterCut == IF pending = <<>> THEN "merge" ELSE "flush"

\* All texts are cut: flush what is left, then merge.
EndCut ==
    /\ stage = "cut"
    /\ owner \notin DOMAIN positions
    /\ stage' = NextAfterCut
    /\ owner' = IF NextAfterCut = "merge" THEN 1 ELSE owner
    /\ todo' = IF NextAfterCut = "merge" THEN results[1] ELSE {}
    /\ UNCHANGED <<texts, positions, offset, pending, seen, results, closed, last, out>>

Fits(F, w) == \A s \in F : s.end <= w.end - w.start
Moved(s, w) == [start |-> w.start + s.start, end |-> w.start + s.end, label |-> s.label]
Of(o) == {i \in DOMAIN pending : pending[i].owner = o}

\* The network tags the pending windows; each finding moves to its place.
Flush ==
    /\ stage = "flush"
    /\ \E found \in [DOMAIN pending -> Findings] :
        /\ \A i \in DOMAIN pending : Fits(found[i], pending[i])
        /\ results' = [o \in DOMAIN positions |->
             results[o] \cup UNION {{Moved(s, pending[i]) : s \in found[i]} : i \in Of(o)}]
    /\ seen' = [o \in DOMAIN positions |->
         seen[o] \cup {[start |-> pending[i].start, end |-> pending[i].end] : i \in Of(o)}]
    /\ pending' = <<>>
    /\ stage' = "cut"
    /\ UNCHANGED <<texts, positions, owner, offset, todo, closed, last, out>>

\* Fewer tags than characters, or the network raises: the batch fails.
FlushRaises ==
    /\ stage = "flush"
    /\ stage' = "raised"
    /\ UNCHANGED <<texts, positions, owner, offset, pending, seen, results,
                   todo, closed, last, out>>

-----------------------------------------------------------------------------
(* Merging                                                                 *)

SortsBefore(a, b) ==
    \/ a.label < b.label
    \/ a.label = b.label /\ a.start < b.start
    \/ a.label = b.label /\ a.start = b.start /\ a.end <= b.end

SortsFirst(e) == e \in todo /\ \A f \in todo : SortsBefore(e, f)

Overlaps(e) == last # NoSpan /\ last.label = e.label /\ e.start < last.end

Extend ==
    /\ stage = "merge"
    /\ \E e \in todo :
        /\ SortsFirst(e)
        /\ Overlaps(e)
        /\ last' = [last EXCEPT !.end = Larger(@, e.end)]
        /\ todo' = todo \ {e}
    /\ UNCHANGED <<texts, positions, stage, owner, offset, pending, seen, results, closed, out>>

Closed == IF last = NoSpan THEN closed ELSE closed \cup {last}

AppendSpan ==
    /\ stage = "merge"
    /\ \E e \in todo :
        /\ SortsFirst(e)
        /\ ~Overlaps(e)
        /\ closed' = Closed
        /\ last' = e
        /\ todo' = todo \ {e}
    /\ UNCHANGED <<texts, positions, stage, owner, offset, pending, seen, results, out>>

\* Mutant of Place: the results keep the order of the non-empty texts.
PlaceCompact(o) == o
\* results[position] = entities
Place(o) == positions[o]

\* One text is merged; predict_batch puts it back in its place.
EndMerge ==
    /\ stage = "merge"
    /\ todo = {}
    /\ out' = [out EXCEPT ![Place(owner)] = Closed]
    /\ closed' = {}
    /\ last' = NoSpan
    /\ owner' = owner + 1
    /\ stage' = IF owner' \in DOMAIN positions THEN "merge" ELSE "done"
    /\ todo' = IF owner' \in DOMAIN positions THEN results[owner'] ELSE {}
    /\ UNCHANGED <<texts, positions, offset, pending, seen, results>>

BatchFinished ==
    /\ stage \in {"done", "raised"}
    /\ UNCHANGED batchVars

BatchNext ==
    \/ CutWindow \/ EndCut \/ Flush \/ FlushRaises
    \/ Extend \/ AppendSpan \/ EndMerge \/ BatchFinished

BatchSpec == BatchInit /\ [][BatchNext]_batchVars

-----------------------------------------------------------------------------
Pcs == {"cut", "flush", "merge", "done", "raised"}
OwnedWindows == [owner : DOMAIN positions, start : Nat, end : Nat]
Proper == {s \in Span : s.start < s.end}

BatchTypeOK ==
    /\ texts \in Batches
    /\ positions \in Positions(texts)
    /\ stage \in Pcs
    /\ owner \in 1..Len(positions) + 1
    /\ offset \in Nat
    /\ pending \in Seq(OwnedWindows)
    /\ seen \in [DOMAIN positions -> SUBSET [start : Nat, end : Nat]]
    /\ results \in [DOMAIN positions -> SUBSET Proper]
    /\ todo \subseteq Proper
    /\ closed \subseteq Proper
    /\ last \in Proper \cup {NoSpan}
    /\ out \in [DOMAIN texts -> SUBSET Proper]

(* When the network is done with a batch, every piece of every text that is *)
(* longer by one than the overlap of two windows, or shorter, was whole in  *)
(* one of them: no entity that short is seen only in parts.                 *)
ShortSpansWhole ==
    stage \in {"merge", "done"} =>
        \A o \in DOMAIN positions : \A a, b \in 0..Length(o) :
            a < b /\ b - a <= Shared + 1 =>
                \E w \in seen[o] : w.start <= a /\ b <= w.end

Covered(S, label, p) == \E s \in S : s.label = label /\ s.start < p /\ p <= s.end
Inside(S, label, p) == \E s \in S : s.label = label /\ s.start < p /\ p < s.end

\* M are the spans of S with those that overlap made one, and no others.
IsMerge(M, S) ==
    /\ \A s \in S : \A p \in s.start + 1..s.end : Covered(M, s.label, p)
    /\ \A m \in M : \A p \in m.start + 1..m.end : Covered(S, m.label, p)
    /\ \A m \in M : \A p \in m.start + 1..m.end - 1 : Inside(S, m.label, p)
    /\ \A m, n \in M : m # n /\ m.label = n.label => m.end <= n.start \/ n.end <= m.start

\* Every text gets the merge of what the network found in its own windows, and
\* an empty one gets nothing.
MergeIsExact ==
    stage = "done" =>
        /\ \A o \in DOMAIN positions : IsMerge(out[positions[o]], results[o])
        /\ \A i \in DOMAIN texts : texts[i] = 0 => out[i] = {}
=============================================================================
