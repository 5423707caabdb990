----------------------------- MODULE CorpusRows -----------------------------
(***************************************************************************)
(* How a row of a source becomes a text with entities: the extractors of   *)
(* integrate_new_pii.py and the Builder of make_rare_label_supplement.py,  *)
(* with the check both make of a row.                                      *)
(*                                                                         *)
(* A text is a name with a length; the values in it are names with a       *)
(* width, and Occurs says where find meets one.  Regular expressions look  *)
(* at Digits alone.  Labels are the ones the maps of the sources yield,    *)
(* "PASSPORT" for a document number before it is split, and "other" for a  *)
(* label no map has.  The entities of a row are a set: the lists are       *)
(* sorted, and twins are dropped or nest.                                  *)
(***************************************************************************)
EXTENDS Integers, Sequences, FiniteSets, SequencesExt, FiniteSetsExt, TLC

CONSTANTS
    Texts, Values,
    Length,     \* len(text)
    Width,      \* len(value)
    Occurs,     \* where a value is found in a text
    Digits,     \* the places of the digits of a text
    Marks,      \* the places of its marks ",.!?:;"
    MaxSpan,    \* MAX_SPAN_LEN, of the labels that have one
    PartWidth   \* the length of a generated value, by its label, and of wording

ASSUME RowsAssumption ==
    /\ Length \in [Texts -> Nat]
    /\ Width \in [Values -> Nat \ {0}]
    /\ \A t \in Texts : \A v \in Values : Occurs[t][v] \subseteq 0..Length[t] - Width[v]
    /\ \A t \in Texts : Digits[t] \cup Marks[t] \subseteq 0..Length[t] - 1
    /\ \A l \in DOMAIN PartWidth : PartWidth[l] \in Nat /\ (l # "" => PartWidth[l] > 0)

SERIES == 4
NUMBER == 6
NameParts == {"FIRST_NAME", "MIDDLE_NAME", "LAST_NAME"}
Documents == {"PASSPORT", "DRIVER_LICENSE"}

At(start, end, label) == [start |-> start, end |-> end, label |-> label]

\* What a row should be: its entities are spans of its text, without a crossing.
InText(t, e) == e.start \in Nat /\ e.end \in Nat /\ e.start < e.end /\ e.end <= Length[t]
Inside(t, entities) == \A e \in entities : InText(t, e)
Disjoint(d, e) == d.end <= e.start \/ e.end <= d.start
Nested(d, e) == d.start <= e.start /\ e.end <= d.end
Laminar(entities) == \A d, e \in entities : Disjoint(d, e) \/ Nested(d, e) \/ Nested(e, d)
SoundRow(row) == Inside(row.text, row.entities) /\ Laminar(row.entities)

-----------------------------------------------------------------------------
(* The check of a row                                                      *)

\* key=lambda x: (x["start"], x["start"] - x["end"]); entities in one place are alike.
Place(e) == [start |-> e.start, end |-> e.end]
Before(a, b) == a.start < b.start \/ (a.start = b.start /\ a.end > b.end)
Sorted(places) ==
    [k \in 1..Cardinality(places) |->
        CHOOSE a \in places : Cardinality({b \in places : Before(b, a)}) = k - 1]

\* The ends that are left when those up to start are popped.
StillOpen(ends, start) == SubSeq(ends, 1, Max({0} \cup {i \in DOMAIN ends : ends[i] > start}))

\* Mutant of Visit: only the entity before is remembered.
VisitAlone(st, e) ==
    [ends |-> <<e.end>>,
     ok |-> st.ok /\ (StillOpen(st.ends, e.start) = <<>> \/ e.end <= Last(st.ends))]

\* An entity must end before what is still open where it begins.
Visit(st, e) ==
    LET open == StillOpen(st.ends, e.start)
    IN  [ends |-> Append(open, e.end),
         ok |-> st.ok /\ (open = <<>> \/ e.end <= Last(open))]

Visits(list) ==
    LET st[n \in 0..Len(list)] ==
          IF n = 0 THEN [ends |-> <<>>, ok |-> TRUE] ELSE Visit(st[n - 1], list[n])
    IN  st

ValidRow(entities) ==
    LET list == Sorted({Place(e) : e \in entities}) IN Visits(list)[Len(list)].ok

Sanitized(entities) ==
    {e \in entities : e.label \in DOMAIN MaxSpan => e.end - e.start <= MaxSpan[e.label]}

-----------------------------------------------------------------------------
(* Document numbers                                                        *)

AllDigits(t, i, n) == i..i + n - 1 \subseteq Digits[t]

\* Where n digits stand between start and end; the first of the places.
Groups(t, start, end, n) == {i \in start..end - n : AllDigits(t, i, n)}

\* Four digits, no digit, six digits.
Pairs(t, start, end) ==
    {p \in Groups(t, start, end, SERIES) \X Groups(t, start, end, NUMBER) :
        p[1] + SERIES < p[2] /\ p[1] + SERIES..p[2] - 1 \cap Digits[t] = {}}

DocumentSpans(t, start, end) ==
    LET Series(i) == At(i, i + SERIES, "SERIES")
        Number(i) == At(i, i + NUMBER, "NUMBER")
        Found(n) == Groups(t, start, end, n)
        pairs == Pairs(t, start, end)
    IN  IF pairs # {}
        THEN LET i == Min({p[1] : p \in pairs})
                 j == Min({p[2] : p \in {q \in pairs : q[1] = i}})
             IN  {Series(i), Number(j)}
        ELSE IF Found(SERIES + NUMBER) # {}
        THEN LET i == Min(Found(SERIES + NUMBER)) IN {Series(i), Number(i + SERIES)}
        ELSE IF Found(NUMBER) # {} THEN {Number(Min(Found(NUMBER)))}
        ELSE IF Found(SERIES) # {} THEN {Series(Min(Found(SERIES)))}
        ELSE {}

\* What a marked span yields: nothing, itself, or the parts of a document number.
Entities(t, e) ==
    IF e.label \in Documents THEN DocumentSpans(t, e.start, e.end)
    ELSE IF e.label = "other" THEN {} ELSE {e}

-----------------------------------------------------------------------------
(* Finding values                                                          *)

\* text.find(value, from); the length of the text stands for -1.
Find(t, v, from) == Min({p \in Occurs[t][v] : p >= from} \cup {Length[t]})
Missing(t, p) == p = Length[t]

\* The end of each token, which is looked for from the end of the one before.
AlignTokens(t, tokens) ==
    LET ends[n \in 0..Len(tokens)] ==
          IF n = 0 THEN 0
          ELSE Find(t, tokens[n].value, ends[n - 1]) + Width[tokens[n].value]
    IN  ends

Starts(tokens, ends, n) == ends[n] - Width[tokens[n].value]
Marked(tokens, ends, n) == At(Starts(tokens, ends, n), ends[n], tokens[n].label)
Prolonged(runs, end) == [runs EXCEPT ![Len(runs)].end = end]

\* Neighbours with one label are one span, whatever their prefixes.
RunOfToken(tokens, ends, runs, n) ==
    IF tokens[n].label = "O" THEN runs
    ELSE IF n > 1 /\ tokens[n - 1].label = tokens[n].label THEN Prolonged(runs, ends[n])
    ELSE Append(runs, Marked(tokens, ends, n))

TokenRuns(tokens, ends) ==
    LET runs[n \in 0..Len(tokens)] ==
          IF n = 0 THEN <<>> ELSE RunOfToken(tokens, ends, runs[n - 1], n)
    IN  runs

\* The parts of a name that stand no more than two characters apart are one PERSON.
MergeName(merged, r) ==
    IF r.label \notin NameParts THEN Append(merged, r)
    ELSE IF merged # <<>> /\ Last(merged).label = "PERSON" /\ r.start - Last(merged).end <= 2
    THEN Prolonged(merged, r.end)
    ELSE Append(merged, [r EXCEPT !.label = "PERSON"])

NamesMerged(runs) ==
    LET merged[n \in 0..Len(runs)] ==
          IF n = 0 THEN <<>> ELSE MergeName(merged[n - 1], runs[n])
    IN  merged

\* Markers are found one after another; one without a label may be missing.
FindMarker(t, st, m) ==
    LET p == Find(t, m.value, st.cursor)
        end == p + Width[m.value]
    IN  IF Missing(t, p) THEN [st EXCEPT !.ok = @ /\ m.label = "other"]
        ELSE [st EXCEPT !.cursor = end, !.found = @ \cup Entities(t, At(p, end, m.label))]

MarkersFound(t, tokens) ==
    LET st[n \in 0..Len(tokens)] ==
          IF n = 0 THEN [cursor |-> 0, found |-> {}, ok |-> TRUE]
          ELSE FindMarker(t, st[n - 1], tokens[n])
    IN  st

\* " ".join(tokens)
JoinedEnds(tokens) ==
    LET ends[n \in 0..Len(tokens)] ==
          IF n = 0 THEN -1 ELSE ends[n - 1] + 1 + Width[tokens[n].value]
    IN  ends

\* "I" goes on with the last span of its label.
RunOfPrefix(tokens, ends, runs, n) ==
    IF tokens[n].label \in {"O", "other"} THEN runs
    ELSE IF runs # <<>> /\ tokens[n].prefix = "I" /\ Last(runs).label = tokens[n].label
    THEN Prolonged(runs, ends[n])
    ELSE Append(runs, Marked(tokens, ends, n))

PrefixRuns(tokens, ends) ==
    LET runs[n \in 0..Len(tokens)] ==
          IF n = 0 THEN <<>> ELSE RunOfPrefix(tokens, ends, runs[n - 1], n)
    IN  runs

\* A span without the marks at its end.
Trimmed(t, r) ==
    [r EXCEPT !.end = Max({r.start} \cup {x \in r.start + 1..r.end : x - 1 \notin Marks[t]})]

\* A place that no value before it has taken, or the next one behind it.
NextPlace(t, v, taken, p) ==
    IF Missing(t, p) \/ \A e \in taken : p + Width[v] <= e.start \/ e.end <= p THEN p
    ELSE Find(t, v, p + Width[v])

\* There are no more places than characters.
FreePlace(t, v, taken) ==
    LET at[n \in 0..Length[t]] ==
          IF n = 0 THEN Find(t, v, 0) ELSE NextPlace(t, v, taken, at[n - 1])
    IN  at

TakePlace(t, st, m) ==
    LET p == FreePlace(t, m.value, st.taken)[Length[t]]
    IN  IF m.label = "other" THEN st
        ELSE IF Missing(t, p) THEN [st EXCEPT !.ok = FALSE]
        ELSE [st EXCEPT !.taken = @ \cup {At(p, p + Width[m.value], m.label)}]

PlacesTaken(t, tokens) ==
    LET st[n \in 0..Len(tokens)] ==
          IF n = 0 THEN [taken |-> {}, ok |-> TRUE] ELSE TakePlace(t, st[n - 1], tokens[n])
    IN  st

-----------------------------------------------------------------------------
(* The extractors.  A row they give up is "skip", an error ends the run.   *)

Outcome(status, entities) == [status |-> status, entities |-> entities]
Checked(entities, otherwise) ==
    IF ValidRow(entities) THEN Outcome("row", entities) ELSE Outcome(otherwise, {})

Hivetrace(row) == Checked(UNION {Entities(row.text, e) : e \in row.spans}, "raise")

Redmadrobot(row) ==
    LET N == Len(row.tokens)
        ends == AlignTokens(row.text, row.tokens)
        runs == TokenRuns(row.tokens, ends)[N]
        merged == NamesMerged(runs)[Len(runs)]
    IN  IF \E n \in 1..N : Missing(row.text, Starts(row.tokens, ends, n))
        THEN Outcome("raise", {})
        ELSE Checked(Sanitized(UNION {Entities(row.text, merged[n]) : n \in DOMAIN merged}), "raise")

Meddies(row) ==
    LET last == MarkersFound(row.text, row.tokens)[Len(row.tokens)]
    IN  IF last.ok THEN Checked(last.found, "skip") ELSE Outcome("skip", {})

\* A tokenized sentence with a public figure, as a negative.
Multiconer(row) == Outcome("row", {})

Alexen2(row) ==
    LET runs == PrefixRuns(row.tokens, JoinedEnds(row.tokens))[Len(row.tokens)]
        trimmed == {Trimmed(row.text, runs[n]) : n \in DOMAIN runs}
    IN  Checked(Sanitized({e \in trimmed : e.end > e.start}), "raise")

Alrosait(row) ==
    LET last == PlacesTaken(row.text, row.tokens)[Len(row.tokens)]
    IN  IF last.ok THEN Checked(last.taken, "skip") ELSE Outcome("skip", {})

Extracted(row) ==
    CASE row.source = "hivetrace" -> Hivetrace(row)
      [] row.source = "redmadrobot" -> Redmadrobot(row)
      [] row.source = "meddies" -> Meddies(row)
      [] row.source = "multiconer" -> Multiconer(row)
      [] row.source = "alexen2" -> Alexen2(row)
      [] row.source = "alrosait" -> Alrosait(row)

\* What a source gives for a row: spans of the text, tokens with tags, or values in it.
SourceRow(row) ==
    /\ row.text \in Texts
    /\ row.source = "hivetrace" => Inside(row.text, row.spans)
    /\ row.source \in {"redmadrobot", "meddies", "alexen2", "alrosait"} =>
           /\ Len(row.tokens) \in Nat /\ DOMAIN row.tokens = 1..Len(row.tokens)
           /\ \A n \in DOMAIN row.tokens : row.tokens[n].value \in Values
    /\ row.source = "alexen2" /\ row.tokens # <<>> =>
           JoinedEnds(row.tokens)[Len(row.tokens)] = Length[row.text]

-----------------------------------------------------------------------------
(* Generated rows.  A part is its label, "" for wording and separators; a row *)
(* is of a kind, with some of the parts that are left to chance.            *)

Kinds == {"passport", "card", "address", "citizenship", "all"}
Chances == {"opener", "person", "birth", "head", "country", "postal", "apartment", "closer"}

Passport == <<"", "PASSPORT_SERIES", "", "PASSPORT_NUMBER", "", "PASSPORT_ISSUER",
              "", "PASSPORT_DIVISION_CODE", "", "PASSPORT_ISSUE_DATE">>
Card == <<"", "CARD_NUMBER", "", "CARDHOLDER", "", "CVV", "", "PIN">>
Citizenship == <<"", "CITIZENSHIP">>

If(condition, parts) == IF condition THEN parts ELSE <<>>

Address(chances) ==
    If("head" \in chances, <<"">>) \o If("country" \in chances, <<"COUNTRY", "">>)
    \o If("postal" \in chances, <<"", "POSTAL_CODE", "">>)
    \o <<"", "CITY", "", "STREET", "", "HOUSE">> \o If("apartment" \in chances, <<"", "APARTMENT">>)

Person(chances) == <<"", "PERSON">> \o If("birth" \in chances, <<"", "BIRTH_DATE">>)

\* generate_row; no block begins or ends with a space that strip would take off.
Parts(kind, chances) ==
    LET first == kind = "all" \/ (kind \in {"passport", "address"} /\ "person" \in chances)
    IN  If("opener" \in chances, <<"">>)
        \o If(first, Person(chances) \o <<"">>)
        \o If(kind \in {"passport", "all"}, Passport) \o If(kind = "all", <<"">>)
        \o If(kind = "card", Card) \o If(kind = "citizenship", Citizenship)
        \o If(kind \in {"address", "all"}, Address(chances))
        \o If("closer" \in chances, <<"">>)

\* Builder: each part goes where the text ends so far.
AddPart(st, part) ==
    LET end == st.pos + PartWidth[part]
    IN  [pos |-> end,
         entities |-> st.entities \cup (IF part = "" THEN {} ELSE {At(st.pos, end, part)})]

Builds(parts) ==
    LET st[n \in 0..Len(parts)] ==
          IF n = 0 THEN [pos |-> 0, entities |-> {}] ELSE AddPart(st[n - 1], parts[n])
    IN  st

Built(parts) == Builds(parts)[Len(parts)]
=============================================================================
