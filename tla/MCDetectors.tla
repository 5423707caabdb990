----------------------------- MODULE MCDetectors -----------------------------
(* The ways of a text through the networks: the windows of the student or    *)
(* those of an ONNX model, tagging in training, the student's Viterbi        *)
(* recursion.  None of them shares state with another, so in each behaviour  *)
(* one is at work and the others have nothing to do.                         *)
(*                                                                           *)
(* Student: windows of 8 characters that overlap by 2, at most two at a time *)
(* through the network, over batches with empty texts, texts of exactly one  *)
(* window and one character more; its decoding loop, over any tags.          *)
(* ONNX: four tokens in one window with every answer, so that every sequence *)
(* of up to four tags over two labels, one of them public, is decoded; two   *)
(* and three windows that share a token, of equal and of different lengths;  *)
(* two texts whose windows alternate; a text without characters.             *)
(* Training: rows of four tokens that touch, with up to three entities of    *)
(* two labels or of the container; they begin with a token or within one,    *)
(* end with one or within, and lie beside, across, in and around each other. *)
(* Viterbi: two tags, every weight 0 or 1, windows of up to three            *)
(* characters.                                                               *)
EXTENDS StudentWindows, OnnxInference, Tagging

CONSTANTS a, b

\* What the student's decoding adds to its scores: nothing.
Level == [first |-> <<0, 0>>, trans |-> <<<<0, 0>>, <<0, 0>>>>, last |-> <<0, 0>>]

NoBatch == texts = <<>> /\ BatchInit
NoPrediction == decoder = "student" /\ offsets = <<>> /\ PredictInit
NoTagging == row = NoRow /\ scores = <<>> /\ crf = Level /\ TaggingInit

DetectorInit ==
    \/ NoPrediction /\ NoTagging /\ BatchInit
    \/ NoBatch /\ NoTagging /\ PredictInit
    \/ NoBatch /\ NoPrediction /\ scores = <<>> /\ crf = Level /\ TaggingInit
    \/ NoBatch /\ NoPrediction /\ row = NoRow /\ TaggingInit

DetectorNext ==
    \/ BatchNext /\ UNCHANGED <<inferenceVars, taggingVars>>
    \/ PredictNext /\ UNCHANGED <<batchVars, taggingVars>>
    \/ Viterbi /\ UNCHANGED <<batchVars, inferenceVars>>

DetectorSpec == DetectorInit /\ [][DetectorNext]_<<batchVars, inferenceVars, taggingVars>>

SomeBatches == {<<>>, <<0>>, <<15>>, <<9, 3>>, <<8, 0, 14>>, <<0, 5>>}

At(start, end, label) == [start |-> start, end |-> end, label |-> label]

SomeFindings ==
    {{},
     {At(6, 8, 1)},                 \* ends with the window
     {At(0, 2, 1), At(2, 3, 1)},    \* begins with it, and one that touches
     {At(1, 3, 1)},
     {At(0, 8, 1)},
     {At(0, 3, 2), At(5, 7, 1)}}

TwoLabels == {a, b}
TwoTypes == <<a, b>>
OnlyB == {b}
TwoConfidences == {1, 2}

Token(start, end) == [start |-> start, end |-> end]
Special == Token(0, 0)
T1 == Token(0, 2)
T2 == Token(3, 4)
T3 == Token(4, 6)
T4 == Token(7, 8)
UpToFour == {SubSeq(<<T1, T2, T3, T4>>, 1, n) : n \in 0..4}

Win(o, tokens) == [owner |-> o, tokens |-> <<Special>> \o tokens \o <<Special>>]

SomeEncodings ==
    {<<Win(1, <<>>)>>,
     <<Win(1, <<T1, T2, T3, T4>>)>>,
     <<Win(1, <<T1, T2>>), Win(1, <<T2, T3>>)>>,
     <<Win(1, <<T1, T2, T3>>), Win(1, <<T3>>)>>,
     <<Win(1, <<T1, Special>>), Win(1, <<T1>>), Win(1, <<Special, T1>>)>>,
     <<Win(1, <<T1>>), Win(2, <<T1, T2>>), Win(2, <<T2>>)>>}

\* Rows: two words and a comma between them, the second word of two tokens, and up to
\* three entities of any two labels, or of the container.  The first and the last
\* token have two characters, so that 1 and 5 lie within them.
Words == <<T1, Token(2, 3), T2, T3>>
Entities == [start : {0, 1, 2, 3, 5}, end : {2, 4, 5, 6}, label : {a, b, Address}]
SomeRows ==
    {[tokens |-> Words, entities |-> {x, y, z}] :
        x, y, z \in {e \in Entities : e.start < e.end}}

\* Two tags, and everything they may weigh.
Weights == [1..2 -> {0, 1}]
SomeCrfs == [first : Weights, trans : [1..2 -> Weights], last : Weights]
SomeEmissions == UNION {[1..n -> Weights] : n \in 0..3}
=============================================================================
