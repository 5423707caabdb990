------------------------------ MODULE Tagging ------------------------------
(***************************************************************************)
(* Where the tags come from.  In training, token_labels_from_entities of   *)
(* the distillation notebook turns the entities of a row into one tag for  *)
(* each token, and bio_decode turns them back into the gold spans that     *)
(* every model is measured by (canonical_gold_spans).  In the student, the *)
(* Viterbi algorithm of BiLSTMCRF.decode chooses the tags of a window.     *)
(***************************************************************************)
EXTENDS BioDecoding, Functions

CONSTANTS
    BirthPlace,     \* the label that goes before all others
    Address,        \* the container label, which is not tagged
    NumTags,        \* cfg.num_tags
    Rows,           \* rows: the entities of a text, with its tokens
    Crfs,           \* transitions, _start and _end of BiLSTMCRF
    Emissions       \* scores: what the network says of the characters of a window

ASSUME TaggingAssumption ==
    /\ BirthPlace \in Labels /\ Address \notin Labels
    /\ Range(Types) = Labels
    /\ \A row \in Rows :
          /\ row.tokens \in Seq([start : Nat, end : Nat])
          /\ \A m \in DOMAIN row.tokens : row.tokens[m].start < row.tokens[m].end
          /\ \A m, n \in DOMAIN row.tokens : m < n => row.tokens[m].end <= row.tokens[n].start
          /\ row.entities \subseteq [start : Nat, end : Nat, label : Labels \cup {Address}]
    /\ NumTags \in Nat \ {0}
    /\ Crfs \subseteq [first : [1..NumTags -> Int], last : [1..NumTags -> Int],
                       trans : [1..NumTags -> [1..NumTags -> Int]]]
    /\ Emissions \subseteq Seq([1..NumTags -> Int])

VARIABLES
    row,        \* the row that is tagged
    crf,        \* the network's parameters
    scores,     \* emissions[b, :length]
    path        \* what decode returns for it

taggingVars == <<row, crf, scores, path>>

-----------------------------------------------------------------------------
(* token_labels_from_entities                                              *)

Order(label) == CHOOSE i \in DOMAIN Types : Types[i] = label

\* span_priority: the smaller tuple comes first.
GoesBefore(a, b) ==
    LET Class(e) == IF e.label = BirthPlace THEN 1 ELSE 2
        Size(e) == e.end - e.start
    IN  \/ Class(a) < Class(b)
        \/ /\ Class(a) = Class(b)
           /\ \/ Size(a) < Size(b)
              \/ Size(a) = Size(b) /\ a.start < b.start
              \/ Size(a) = Size(b) /\ a.start = b.start /\ Order(a.label) < Order(b.label)

Covering(entities, token) ==
    {x \in entities : x.label # Address /\ x.start < token.end /\ x.end > token.start}
BestOf(entities) == CHOOSE x \in entities : \A y \in entities \ {x} : GoesBefore(x, y)

\* Mutant of FirstToken: a span begins where no span of its label is going on.
FirstUncovered(entities, tokens, m, best) ==
    m = 1 \/ \A x \in Covering(entities, tokens[m - 1]) : x.label # best.label
\* s == best["start"]
FirstToken(entities, tokens, m, best) == tokens[m].start = best.start

TokenTag(entities, tokens, m) ==
    LET covering == Covering(entities, tokens[m])
        best == BestOf(covering)
    IN  IF covering = {} THEN O
        ELSE [prefix |-> IF FirstToken(entities, tokens, m, best) THEN "B" ELSE "I",
              label |-> best.label]

\* canonical_gold_spans; bio_decode returns the runs of the tags (DecodesExactly).
GoldSpans(entities, tokens) ==
    SpansUpTo(tokens, [m \in DOMAIN tokens |-> TokenTag(entities, tokens, m)], Len(tokens))

-----------------------------------------------------------------------------
(* BiLSTMCRF.decode                                                        *)

Argmax(f) == CHOOSE i \in DOMAIN f : \A j \in DOMAIN f : f[j] < f[i] \/ (f[j] = f[i] /\ i <= j)

\* Mutant of Into: the transition is read the wrong way round.
IntoReversed(v, j) == [i \in DOMAIN v |-> v[i] + crf.trans[j][i]]
\* v_exp: the score of reaching tag j from each tag before it.
Into(v, j) == [i \in DOMAIN v |-> v[i] + crf.trans[i][j]]

\* v after character t, for each tag.
V[t \in DOMAIN scores] ==
    [j \in DOMAIN crf.first |->
        IF t = 1 THEN crf.first[j] + scores[1][j]
        ELSE LET into == Into(V[t - 1], j) IN into[Argmax(into)] + scores[t][j]]

\* back: the tag from which j was reached best.
Back(t, j) == Argmax(Into(V[t - 1], j))

\* From the best last tag back along the pointers.
PathFrom[t \in DOMAIN scores] ==
    IF t = Len(scores) THEN Argmax([j \in DOMAIN crf.last |-> V[t][j] + crf.last[j]])
    ELSE Back(t + 1, PathFrom[t + 1])

Viterbi ==
    /\ path = <<>>
    /\ scores # <<>>
    /\ path' = [t \in DOMAIN scores |-> PathFrom[t]]
    /\ UNCHANGED <<row, crf, scores>>

-----------------------------------------------------------------------------
NoRow == [tokens |-> <<>>, entities |-> {}]

TaggingInit ==
    /\ row \in Rows \cup {NoRow}
    /\ crf \in Crfs
    /\ scores \in Emissions
    /\ path = <<>>

TaggingSpec == TaggingInit /\ [][Viterbi]_taggingVars

-----------------------------------------------------------------------------
(* Properties.                                                             *)

\* An entity leads on a token, whose tag it gives, if it goes before all others that
\* share a character with it.
LeadsAt(x, m) ==
    LET covering == Covering(row.entities, row.tokens[m])
    IN  x \in covering /\ \A y \in covering : y = x \/ GoesBefore(x, y)
LedBy(label, m) == \E y \in row.entities : y.label = label /\ LeadsAt(y, m)
\* ... by an entity that does not begin with the token.
LedAcross(label, m) ==
    \E y \in row.entities : y.label = label /\ LeadsAt(y, m) /\ y.start # row.tokens[m].start

\* What becomes of the entities.  Tokens that one entity leads, one behind the other,
\* come into one gold span of its label.  This span begins before them only if they do
\* not begin with the entity and the token before them is led by its label; it goes on
\* behind them exactly if the next token is led by an entity of its label that does not
\* begin with that token.  So an entity that leads on all of its tokens and begins with
\* the first keeps its beginning, and two neighbours of one label stay apart; but it is
\* merged with what is behind it where this is an entity of its label around it, one
\* that overlaps it, or a neighbour that begins within a token.  Gold spans do not
\* overlap, and each token of one is led by an entity of its label.
GoldKeepsEntities ==
    LET tokens == row.tokens
        gold == GoldSpans(row.entities, tokens)
    IN  /\ \A x \in row.entities, m \in DOMAIN tokens : \A n \in m..Len(tokens) :
              (\A q \in m..n : LeadsAt(x, q)) =>
                  \E g \in gold :
                      /\ g.label = x.label
                      /\ g.start <= tokens[m].start /\ tokens[n].end <= g.end
                      /\ g.start < tokens[m].start
                            <=> m > 1 /\ x.start # tokens[m].start /\ LedBy(x.label, m - 1)
                      /\ tokens[n].end < g.end
                            <=> n < Len(tokens) /\ LedAcross(x.label, n + 1)
        /\ \A g, h \in gold : g = h \/ g.end <= h.start \/ h.end <= g.start
        /\ \A g \in gold : \E m \in DOMAIN tokens : \E n \in m..Len(tokens) :
              /\ g = Between(tokens, m, n, g.label)
              /\ \A q \in m..n : LedBy(g.label, q)

\* The score of the first t tags of a path.
Score(p) ==
    LET upTo[t \in DOMAIN p] ==
          IF t = 1 THEN crf.first[p[1]] + scores[1][p[1]]
          ELSE upTo[t - 1] + crf.trans[p[t - 1]][p[t]] + scores[t][p[t]]
    IN  upTo
Total(p) == Score(p)[Len(p)] + crf.last[p[Len(p)]]

\* The tags the student's decoder chooses have the highest score of all sequences of
\* tags, although at each character only one way to each tag is kept.
BestPath ==
    path # <<>> =>
        \A q \in [DOMAIN scores -> 1..NumTags] : Total(q) <= Total(path)
=============================================================================
