---------------------------- MODULE BioDecoding ----------------------------
(***************************************************************************)
(* Three loops turn BIO tags into spans: bio_decode of the RuBERT models   *)
(* (one column of tags over tokens), _decode of the recall model (a column *)
(* for each type) and tags_to_entities of the student (one column over     *)
(* characters).  Each is modelled as it is written, one token at a time.   *)
(*                                                                         *)
(* The list of spans is a set: no order is promised, and two spans of one  *)
(* column never begin at the same token.                                   *)
(***************************************************************************)
EXTENDS Integers, Sequences

CONSTANTS
    Labels,         \* the labels of the tags
    NoLabel,        \* the label of "O"
    Types,          \* self.types of the recall model, in its order
    PublicLabels,   \* public_labels of a RuBERT checkpoint
    Tokenizations   \* sequences of offsets: texts after sorted(vote)

ASSUME DecodingAssumption ==
    /\ NoLabel \notin Labels
    /\ Types \in Seq(Labels)
    /\ Types # <<>>
    /\ PublicLabels \subseteq Labels
    /\ Tokenizations \subseteq Seq([start : Nat, end : Nat])

O == [prefix |-> "O", label |-> NoLabel]
Tags == {O} \cup [prefix : {"B", "I"}, label : Labels]
Spans == [start : Nat, end : Nat, label : Labels]
None == [start |-> 0, end |-> 0, label |-> NoLabel]

VARIABLES
    decoder,    \* which of the loops runs
    offsets,    \* the tokens, or the characters
    columns,    \* the tags: one sequence as long as offsets, or one for each type
    c,          \* the column in turn
    k,          \* the token in turn: i of the student while no span is open, else j
    cur,        \* the open span
    spans,      \* the spans closed so far
    result      \* what the decoder returns; None until then

vars == <<decoder, offsets, columns, c, k, cur, spans, result>>

-----------------------------------------------------------------------------
(* The reference: what the tags mean                                       *)

\* A token goes on with the span of the one before.
Continues(col, m) ==
    m > 1 /\ col[m].prefix = "I" /\ col[m - 1].label = col[m].label
Begins(col, m) == col[m].prefix # "O" /\ ~Continues(col, m)

\* Tokens i to j are one span.
IsRun(col, i, j) ==
    /\ Begins(col, i)
    /\ \A m \in i + 1..j : Continues(col, m)
    /\ j < Len(col) => ~Continues(col, j + 1)

Between(tokens, i, j, label) ==
    [start |-> tokens[i].start, end |-> tokens[j].end, label |-> label]

\* The spans of a column that end by token n.
SpansUpTo(tokens, col, n) ==
    UNION {{Between(tokens, i, j, col[i].label) : j \in {m \in i..n : IsRun(col, i, m)}} :
               i \in 1..n}

-----------------------------------------------------------------------------
Columns(d, n) ==
    {C \in [1..(IF d = "recall" THEN Len(Types) ELSE 1) -> [1..n -> Tags]] :
        d = "recall" => \A i \in DOMAIN C : \A m \in 1..n :
            C[i][m] # O => C[i][m].label = Types[i]}

\* The student's tokens are the characters.
Characters(n) == [i \in 1..n |-> [start |-> i - 1, end |-> i]]

Init ==
    /\ decoder \in {"rubert", "recall", "student"}
    /\ \E t \in Tokenizations :
        offsets = IF decoder = "student" THEN Characters(Len(t)) ELSE t
    /\ columns \in Columns(decoder, Len(offsets))
    /\ c = 1
    /\ k = 1
    /\ cur = None
    /\ spans = {}
    /\ result = {None}

Tag == columns[c][k]
Decoding(d) == decoder = d /\ result = {None} /\ k <= Len(offsets)
Kept == IF cur = None THEN spans ELSE spans \cup {cur}

\* A token of its own as a span, and the open span with the token added.
Opened == [start |-> offsets[k].start, end |-> offsets[k].end, label |-> Tag.label]
Extended == [cur EXCEPT !.end = offsets[k].end]

-----------------------------------------------------------------------------
(* bio_decode                                                              *)

RubertOutside ==
    /\ Decoding("rubert")
    /\ Tag = O
    /\ spans' = Kept
    /\ cur' = None
    /\ k' = k + 1
    /\ UNCHANGED <<decoder, offsets, columns, c, result>>

\* Mutant of Fresh: an "I" goes on with any open span.
FreshOnB == Tag.prefix = "B" \/ cur = None
\* prefix == "B" or cur is None or cur[2] != label
Fresh == Tag.prefix = "B" \/ cur = None \/ cur.label # Tag.label

RubertInside ==
    /\ Decoding("rubert")
    /\ Tag # O
    /\ IF Fresh
       THEN spans' = Kept /\ cur' = Opened
       ELSE spans' = spans /\ cur' = Extended
    /\ k' = k + 1
    /\ UNCHANGED <<decoder, offsets, columns, c, result>>

-----------------------------------------------------------------------------
(* RecallOnnxInference._decode                                             *)

\* "O" and "B" close the open span; "B" and "I" open one or extend it.
RecallToken ==
    /\ Decoding("recall")
    /\ spans' = IF Tag.prefix \in {"O", "B"} THEN Kept ELSE spans
    /\ cur' = IF Tag = O THEN None
              ELSE IF Tag.prefix = "B" \/ cur = None THEN Opened ELSE Extended
    /\ k' = k + 1
    /\ UNCHANGED <<decoder, offsets, columns, c, result>>

-----------------------------------------------------------------------------
(* tags_to_entities                                                        *)

StudentSkip ==
    /\ Decoding("student")
    /\ cur = None
    /\ Tag = O
    /\ k' = k + 1
    /\ UNCHANGED <<decoder, offsets, columns, c, cur, spans, result>>

StudentOpen ==
    /\ Decoding("student")
    /\ cur = None
    /\ Tag # O
    /\ cur' = Opened
    /\ k' = k + 1
    /\ UNCHANGED <<decoder, offsets, columns, c, spans, result>>

GoesOn == Tag = [prefix |-> "I", label |-> cur.label]

StudentExtend ==
    /\ Decoding("student")
    /\ cur # None
    /\ GoesOn
    /\ cur' = Extended
    /\ k' = k + 1
    /\ UNCHANGED <<decoder, offsets, columns, c, spans, result>>

\* The tag that ends a span is looked at again: i = j.
StudentClose ==
    /\ Decoding("student")
    /\ cur # None
    /\ ~GoesOn
    /\ spans' = Kept
    /\ cur' = None
    /\ UNCHANGED <<decoder, offsets, columns, c, k, result>>

-----------------------------------------------------------------------------
\* Only the RuBERT models drop the spans of their public labels.
Hidden == IF decoder = "rubert" THEN PublicLabels ELSE {}

\* After the last token the open span is closed; the next column, or the result.
EndColumn ==
    /\ result = {None}
    /\ k > Len(offsets)
    /\ spans' = Kept
    /\ cur' = None
    /\ IF c < Len(columns)
       THEN c' = c + 1 /\ k' = 1 /\ result' = result
       ELSE c' = c /\ k' = k /\ result' = {s \in Kept : s.label \notin Hidden}
    /\ UNCHANGED <<decoder, offsets, columns>>

Finished ==
    /\ result # {None}
    /\ UNCHANGED vars

Next ==
    \/ RubertOutside \/ RubertInside
    \/ RecallToken
    \/ StudentSkip \/ StudentOpen \/ StudentExtend \/ StudentClose
    \/ EndColumn \/ Finished

Spec == Init /\ [][Next]_vars

-----------------------------------------------------------------------------
TypeOK ==
    /\ decoder \in {"rubert", "recall", "student"}
    /\ offsets \in Seq([start : Nat, end : Nat])
    /\ columns \in Columns(decoder, Len(offsets))
    /\ c \in 1..Len(columns)
    /\ k \in 1..Len(offsets) + 1
    /\ cur \in Spans \cup {None}
    /\ spans \subseteq Spans
    /\ result \in (SUBSET Spans) \cup {{None}}

(* Whatever the tags, ill-formed ones included (an "I" after "O" or after    *)
(* another label), each loop returns exactly the maximal runs of tokens that *)
(* go on with one another, with the offsets of their first and last token,   *)
(* and without the public labels of a RuBERT checkpoint.                     *)
DecodesExactly ==
    result # {None} =>
        result = {s \in UNION {SpansUpTo(offsets, columns[i], Len(offsets)) : i \in DOMAIN columns} :
                    s.label \notin Hidden}
=============================================================================
