--------------------------- MODULE OnnxInference ---------------------------
(***************************************************************************)
(* RubertOnnxInference.predict_batch and RecallOnnxInference.predict_batch *)
(* cut texts into overlapping windows; a token that several windows hold   *)
(* keeps one of their answers, and the answers kept are decoded.  RuBERT   *)
(* takes all windows of all texts, the shortest first, and keeps the       *)
(* answer with the most confidence; recall takes text after text and keeps *)
(* the one nearest the middle of its window.  Both replace an answer only  *)
(* by a strictly better one.                                               *)
(*                                                                         *)
(* Windows go through the network batch_size at a time, and only then do   *)
(* their tokens vote, window by window: one action for each window stands  *)
(* for both, as a failure of the network discards every vote.  Decoding is *)
(* that of BioDecoding, of any one text: texts share nothing by then.  The *)
(* student's tags come from its own network, without a vote.               *)
(***************************************************************************)
EXTENDS BioDecoding, FiniteSets, Functions

CONSTANTS
    Encodings,      \* what the tokenizer may return: sequences of windows
    Confidences     \* conf: how sure RuBERT is of a token

\* A window belongs to a text and holds tokens; special ones have no characters.
HasCharacters(token) == token.start # token.end

\* The windows of a text come from one tokenization: two tokens are the same or apart.
ASSUME VotingAssumption ==
    /\ Confidences \subseteq Nat
    /\ \A e \in Encodings :
          /\ e \in Seq([owner : Nat, tokens : Seq([start : Nat, end : Nat])])
          /\ \A j \in DOMAIN e : \A i, m \in DOMAIN e[j].tokens :
                /\ e[j].tokens[i].start <= e[j].tokens[i].end
                /\ i < m /\ HasCharacters(e[j].tokens[i]) /\ HasCharacters(e[j].tokens[m]) =>
                      e[j].tokens[i].end <= e[j].tokens[m].start
          /\ \A j, l \in DOMAIN e : e[j].owner = e[l].owner =>
                \A t \in Range(e[j].tokens), u \in Range(e[l].tokens) :
                   HasCharacters(t) /\ HasCharacters(u) =>
                      t = u \/ t.end <= u.start \/ u.end <= t.start

VARIABLES
    pc,         \* "vote", "decode", or "raised" by the network
    windows,    \* enc, over all texts
    voted,      \* the windows whose tokens have voted
    said,       \* what the network answered for the tokens of those
    votes,      \* of each text: the answers kept
    text        \* the text whose answers are decoded

votingVars == <<windows, voted, said, votes, text>>
inferenceVars == <<vars, pc, votingVars>>

Windows == DOMAIN windows
Size(j) == Len(windows[j].tokens)
Texts == {windows[j].owner : j \in Windows}

\* One tag for a token from RuBERT, one for each type from recall.
Answers ==
    {t \in [1..(IF decoder = "recall" THEN Len(Types) ELSE 1) -> Tags] :
        decoder = "recall" => \A i \in DOMAIN t : t[i] # O => t[i].label = Types[i]}

Smaller(a, b) == IF a < b THEN a ELSE b

-----------------------------------------------------------------------------
PredictInit ==
    /\ c = 1
    /\ k = 1
    /\ cur = None
    /\ spans = {}
    /\ result = {None}
    /\ voted = {}
    /\ \/ /\ decoder \in {"rubert", "recall"}
          /\ windows \in Encodings
          /\ pc = "vote"
          /\ offsets = <<>>
          /\ columns = <<>>
       \/ /\ decoder = "student"
          /\ windows = <<>>
          /\ pc = "decode"
          /\ \E t \in Tokenizations : offsets = Characters(Len(t))
          /\ columns \in Columns(decoder, Len(offsets))
    /\ said = [j \in Windows |-> <<>>]
    /\ votes = [o \in Texts |-> {}]
    /\ text = 0

\* order: RuBERT sorts by length, stably.
Precedes(i, j) ==
    IF decoder = "rubert"
    THEN Size(i) < Size(j) \/ (Size(i) = Size(j) /\ i < j)
    ELSE i < j

IsNext(j) ==
    /\ j \in Windows \ voted
    /\ \A i \in Windows \ (voted \cup {j}) : Precedes(j, i)

\* The places of a window that hold characters: not s == e.
Places(j) == {i \in 1..Size(j) : HasCharacters(windows[j].tokens[i])}

\* The confidence of RuBERT; the distance to the nearer end of the window.
Rank(j, i, answers) ==
    IF decoder = "rubert" THEN answers[i].conf ELSE Smaller(i - 1, Size(j) - i)

\* What window j says of its tokens that have characters.
Ballot(j, answers) ==
    {[token |-> windows[j].tokens[i], rank |-> Rank(j, i, answers), tags |-> answers[i].tags] :
        i \in Places(j)}

\* Mutant of Better: the last window has its way.
BetterAlways(v, kept) == TRUE
\* cur is None or p > cur[1]
Better(v, kept) == \A u \in kept : u.token = v.token => v.rank > u.rank

Count(ballot, kept) ==
    LET winners == {v \in ballot : Better(v, kept)}
    IN  winners \cup {u \in kept : \A v \in winners : v.token # u.token}

\* Recall has no use for a confidence.
Certainties == IF decoder = "rubert" THEN Confidences ELSE {0}

VoteWindow ==
    /\ pc = "vote"
    /\ \E j \in Windows :
        /\ IsNext(j)
        /\ \E answers \in [Places(j) -> [conf : Certainties, tags : Answers]] :
            /\ said' = [said EXCEPT ![j] = answers]
            /\ votes' = [votes EXCEPT ![windows[j].owner] = Count(Ballot(j, answers), @)]
        /\ voted' = voted \cup {j}
    /\ UNCHANGED <<vars, pc, windows, text>>

\* The shape of the output is wrong, a value is not finite, or the session fails.
NetworkRaises ==
    /\ pc = "vote"
    /\ voted # Windows
    /\ pc' = "raised"
    /\ UNCHANGED <<vars, votingVars>>

\* sorted(vote)
Ascending(tokens) ==
    {s \in [1..Cardinality(tokens) -> tokens] :
        /\ Range(s) = tokens
        /\ \A m \in 2..Cardinality(tokens) : s[m - 1].start < s[m].start}

\* The answers in the order of their tokens go to the decoder.
HandOver ==
    /\ pc = "vote"
    /\ voted = Windows
    /\ pc' = "decode"
    /\ \E o \in Texts : \E tokens \in Ascending({v.token : v \in votes[o]}) :
        LET TagsOf(m) == (CHOOSE v \in votes[o] : v.token = tokens[m]).tags
        IN  /\ text' = o
            /\ offsets' = tokens
            /\ columns' = [i \in 1..(IF decoder = "recall" THEN Len(Types) ELSE 1) |->
                              [m \in DOMAIN tokens |-> TagsOf(m)[i]]]
    /\ UNCHANGED <<decoder, c, k, cur, spans, result, windows, voted, said, votes>>

Decode ==
    /\ pc = "decode"
    /\ Next
    /\ UNCHANGED <<pc, votingVars>>

Raised ==
    /\ pc = "raised"
    /\ UNCHANGED inferenceVars

PredictNext == VoteWindow \/ NetworkRaises \/ HandOver \/ Decode \/ Raised

PredictSpec == PredictInit /\ [][PredictNext]_inferenceVars

-----------------------------------------------------------------------------
\* What the windows of text o alone say, each answer with its window.
Said(o) ==
    UNION {{[window |-> j, vote |-> v] : v \in Ballot(j, said[j])} :
        j \in {i \in Windows : windows[i].owner = o}}

\* An answer that another one outranks, or that was as good but came first.
Loses(s, o) ==
    \E t \in Said(o) :
        /\ t.vote.token = s.vote.token
        /\ \/ t.vote.rank > s.vote.rank
           \/ t.vote.rank = s.vote.rank /\ t.window # s.window /\ Precedes(t.window, s.window)

\* The decoder is given every token of the text that any window holds, in order,
\* each with its best answer, the first of equally good ones; the windows of the
\* other texts in the batch have no part in it.
BestVoteWins ==
    pc = "decode" /\ decoder # "student" =>
        /\ {offsets[m] : m \in DOMAIN offsets} = {s.vote.token : s \in Said(text)}
        /\ \A m \in DOMAIN offsets :
              /\ m > 1 => offsets[m - 1].end <= offsets[m].start
              /\ \E s \in Said(text) :
                    /\ s.vote.token = offsets[m]
                    /\ ~Loses(s, text)
                    /\ \A i \in DOMAIN columns : columns[i][m] = s.vote.tags[i]
=============================================================================
