------------------------------ MODULE MCCorpus ------------------------------
(* Three runs of any scripts, each with a stop at any point or without.      *)
(* Files with copies within a split and across splits, one of a text in      *)
(* other letters, and a feed that holds copies of them and of itself, a      *)
(* foreign text and a row with a crossing; and, over files of one row, every *)
(* row an extractor can be given: three tokens with any tags, sets of up to  *)
(* three spans, numbers in four forms, values that occur twice or overlap.   *)
EXTENDS Corpus

\* Texts of the files and feeds: a and A have one key.
FileTexts == {"a", "A", "b", "c", "foreign"}
\* Texts for the extractors.
WordTexts == {"words", "twice"}
NumberTexts == {"pair", "ten", "long", "four"}
SomeTexts == FileTexts \cup WordTexts \cup NumberTexts \cup {"everything"}

SomeValues == {"u", "v", "w", "x"}
SomeWidth == [u |-> 3, v |-> 3, w |-> 3, x |-> 5]
SomeLength ==
    [t \in SomeTexts |->
        CASE t = "b" -> 10 [] t = "everything" -> 32
          [] t \in FileTexts \ {"b"} -> 6 [] t \in WordTexts -> 11 [] OTHER -> 13]

Nowhere == [v \in SomeValues |-> {}]
SomeOccurs ==
    [t \in SomeTexts |->
        CASE t = "words" -> [u |-> {0}, v |-> {4}, w |-> {8}, x |-> {2}]
          [] t = "twice" -> [u |-> {0, 4}, v |-> {}, w |-> {8}, x |-> {2, 6}]
          [] OTHER -> Nowhere]
SomeDigits ==
    [t \in SomeTexts |->
        CASE t = "pair" -> 1..5 \cup 7..12
          [] t = "ten" -> 2..11
          [] t = "long" -> 0..6
          [] t = "four" -> 5..9
          [] OTHER -> {}]
SomeMarks == [t \in SomeTexts |-> IF t = "words" THEN {6, 8, 9, 10} ELSE {}]
SomeMaxSpan == [PERSON |-> 7]

SomeKey == [t \in SomeTexts |-> IF t = "A" THEN "a" ELSE t]
AllButForeign == SomeTexts \ {"foreign"}
SomeHome == [t \in SomeTexts |-> CASE t = "a" -> 1 [] t = "b" -> 3 [] OTHER -> 2]

\* Files.  Records of hybrid with an entity to restore, a public address around
\* one, a famous person, and one whose entities cross those of its row.
Old(n, text) == Row(<<"old", 0, n>>, "old", text, {At(0, 4, "STREET")})
Record(n, text, entities) == Row(<<"old", 0, n>>, "hybrid", text, entities)
SomeSources == {"old", "hybrid"}
SomeFamous == {[text |-> "a", start |-> 0, end |-> 2]}
Hybrid ==
    <<<<Record(1, "a", {At(0, 2, "PERSON"), At(2, 4, "SNILS")}),
        Record(2, "b", {At(0, 6, "PUBLIC_ADDRESS"), At(3, 6, "IP_ADDRESS")})>>,
      <<Record(3, "A", {At(4, 6, "OMS"), At(0, 1, "PUBLIC_PERSON")}),
        Record(4, "c", {At(0, 2, "OMS")})>>,
      <<>>>>

Csv(train, dev, test) == [csv |-> <<train, dev, test>>, hybrid |-> Hybrid]
One == [Csv(<<Old(1, "a")>>, <<>>, <<>>) EXCEPT !.hybrid = Empty]
SomeCorpora ==
    {One,
     Csv(<<Old(1, "a"), Old(3, "A")>>, <<Old(4, "b")>>, <<Old(5, "a")>>),
     Csv(<<>>, <<Old(1, "a")>>, <<Old(2, "b"), Old(3, "A")>>)}

SomePartWidth ==
    [l \in {Parts("all", Chances)[i] : i \in DOMAIN Parts("all", Chances)}
           \cup {"", "CARD_NUMBER", "CARDHOLDER", "CVV", "PIN", "CITIZENSHIP"} |->
        CASE l = "CITIZENSHIP" -> 4 [] l = "CARD_NUMBER" -> 3 [] OTHER -> 1]
Drawn(text, kind, chances) == [text |-> text, kind |-> kind, chances |-> chances]
SomeGenerated ==
    <<Drawn("a", "citizenship", {"opener"}),
      Drawn("b", "card", {}),
      Drawn("A", "citizenship", {"opener"}),
      Drawn("everything", "all", Chances)>>

\* Feeds.
Spans(text, spans) == [source |-> "hivetrace", text |-> text, spans |-> spans]
Negative(text) == [source |-> "multiconer", text |-> text]
FileFeeds ==
    {<<Negative("b"), Spans("A", {At(0, 2, "PERSON")}), Negative("c")>>,
     <<Negative("c"), Negative("foreign"), Spans("c", {At(0, 2, "PERSON")})>>,
     <<Negative("b"), Spans("c", {At(0, 3, "PERSON"), At(2, 5, "PHONE")})>>}

SpanSets ==
    {S \in SUBSET {At(0, 3, "PERSON"), At(0, 10, "ADDRESS"), At(2, 5, "PHONE"), At(3, 9, "EMAIL"),
                   At(4, 7, "PERSON"), At(0, 11, "PERSON"), At(8, 11, "PHONE"), At(1, 2, "other")} :
        Cardinality(S) <= 3}
Numbers == {At(0, 13, "PASSPORT"), At(0, 8, "PASSPORT"), At(4, 10, "PASSPORT")}

Word(value, prefix, label) == [value |-> value, prefix |-> prefix, label |-> label]
Tagged(tags) == {<<Word("u", x[1][1], x[1][2]), Word("v", x[2][1], x[2][2]), Word("w", x[3][1], x[3][2])>> :
                    x \in tags \X tags \X tags}
BenchTags == {<<"B", "FIRST_NAME">>, <<"I", "LAST_NAME">>, <<"I", "STREET">>, <<"O", "O">>}
AlexTags == {<<"B", "PERSON">>, <<"I", "PERSON">>, <<"B", "PHONE">>, <<"O", "O">>}
Found(labels, most) ==
    UNION {[1..n -> {Word(v, "", l) : v \in {"u", "w", "x"}, l \in labels}] : n \in 1..most}

Tokens(source, text, tokens) == [source |-> source, text |-> text, tokens |-> tokens]
RowFeeds ==
    {<<Spans("words", S)>> : S \in SpanSets}
    \cup {<<Spans(t, {n})>> : t \in NumberTexts, n \in Numbers}
    \cup {<<Tokens("redmadrobot", t, x)>> : t \in WordTexts, x \in Tagged(BenchTags)}
    \cup {<<Tokens("alexen2", "words", x)>> : x \in Tagged(AlexTags)}
    \cup {<<Tokens("meddies", "twice", x)>> : x \in Found({"PERSON", "other"}, 2)}
    \cup {<<Tokens("alrosait", "twice", x)>> : x \in Found({"PERSON"}, 3)}

SomeFeeds == FileFeeds \cup RowFeeds

CorpusInit == Init /\ (feed \in RowFeeds => files = One)
CorpusSpec == CorpusInit /\ [][Next]_vars
=============================================================================
