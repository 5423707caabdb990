------------------------------- MODULE Corpus -------------------------------
(***************************************************************************)
(* The scripts that make the training corpus, run by hand one after        *)
(* another over the files data/csv and data/hybrid, each of three splits:  *)
(*   integrate  integrate_new_pii.py: rows of new sources, without copies  *)
(*   rare       make_rare_label_supplement.py: generated rows              *)
(*   dedup      dedup_csv_splits.py: one row for each text                 *)
(*   enrich     enrich_csv.py: entities of hybrid back into csv            *)
(*   relabel    relabel_public_persons.py: public figures out of hybrid    *)
(* A script opens the file of a split for writing in place, which empties  *)
(* it, and writes its rows; it may be stopped at any point, and then a     *)
(* part of them is in the file.  One that raises stops by itself.          *)
(*                                                                         *)
(* A file is a sequence of rows; one that was emptied reads as no rows.    *)
(* The manifest and the counts that are printed are left out.              *)
(***************************************************************************)
EXTENDS CorpusRows

CONSTANTS
    Key,        \* norm_text
    Russian,    \* the texts that is_russian accepts
    Home,       \* split_for, of a key
    Famous,     \* the names match_famous knows: spans of texts
    Feeds,      \* what the new sources may hold
    Generated,  \* what generate_row draws, row after row: a text, a kind, chances
    OldSources, \* the sources of the rows in the files to begin with
    Corpora,    \* what may be in the files to begin with
    MaxRuns     \* how many scripts are run

Splits == 1..3      \* train, dev, test
Scripts == {"integrate", "rare", "dedup", "enrich", "relabel"}
BonusLabels == {"SNILS", "OMS", "MILITARY_ID", "BIRTH_CERTIFICATE", "IP_ADDRESS"}

NewSources == {"hivetrace", "redmadrobot", "meddies", "multiconer", "alexen2", "alrosait"}

\* The rows of some sources, whose entities are in E.
RowsOf(sources, E) ==
    [id : sources \X Nat \X Nat, source : sources, text : Texts, entities : SUBSET E]
Entity == [start : Nat, end : Nat, label : STRING]

\* At first the files hold no rows that a script replaces, and csv no crossing.
ASSUME CorpusAssumption ==
    /\ \A t \in Texts : Home[Key[t]] \in Splits
    /\ Russian \subseteq Texts
    /\ OldSources \cap (NewSources \cup {"rare"}) = {}
    /\ Corpora \subseteq [csv : [Splits -> Seq(RowsOf(OldSources, Entity))],
                          hybrid : [Splits -> Seq(RowsOf(OldSources, Entity))]]
    /\ \A f \in Corpora : \A s \in Splits :
          /\ \A i \in DOMAIN f.csv[s] : SoundRow(f.csv[s][i])
          /\ \A i \in DOMAIN f.hybrid[s] : Inside(f.hybrid[s][i].text, f.hybrid[s][i].entities)
    /\ \A f \in Feeds \cup {Generated} : Len(f) \in Nat /\ DOMAIN f = 1..Len(f)
    /\ \A f \in Feeds : \A i \in DOMAIN f : f[i].source \in NewSources /\ SourceRow(f[i])
    /\ \A i \in DOMAIN Generated : Generated[i].text \in Texts
    /\ MaxRuns \in Nat

VARIABLES
    files,      \* files.csv and files.hybrid: the rows of each split
    feed,       \* the rows of the new sources
    script,     \* the script that runs
    phase,      \* what it does; "idle" when none runs
    turn,       \* the split, or the row of the feed, in turn
    seen,       \* the keys it has met
    fresh,      \* additions: the rows it adds to each split
    out,        \* the rows it has for each split
    runs,       \* how many scripts were run
    \* history
    before,     \* the files when the script was started
    last,       \* the script that ran before, if it came to its end
    clean,      \* dedup has run since the last run of rare
    lost        \* the keys of rows it was stopped before it had written

process == <<script, phase, turn, seen, fresh, out>>
history == <<before, last, clean, lost>>
vars == <<files, feed, process, runs, history>>

Empty == [s \in Splits |-> <<>>]
Keys(rows) == {Key[rows[i].text] : i \in DOMAIN rows}
AllKeys(f) == UNION {Keys(f[s]) : s \in Splits}

Init ==
    /\ files \in Corpora
    /\ feed \in Feeds
    /\ script = "none"
    /\ phase = "idle"
    /\ turn = 1
    /\ seen = {}
    /\ fresh = Empty
    /\ out = Empty
    /\ runs = 0
    /\ before = files
    /\ last = "none"
    /\ clean = FALSE
    /\ lost = {}

-----------------------------------------------------------------------------
(* Starting and ending                                                     *)

Row(id, source, text, entities) ==
    [id |-> id, source |-> source, text |-> text, entities |-> entities]

\* The k-th of a set of numbers, and the rows at some of the places, in their order.
Nth(S, k) == CHOOSE i \in S : Cardinality({j \in S : j <= i}) = k
Pick(rows, S) == [k \in 1..Cardinality(S) |-> rows[Nth(S, k)]]

\* The row at the end of the additions to its split.
Added(additions, source, text, entities) ==
    LET s == Home[Key[text]]
        id == <<source, s, Len(additions[s])>>
    IN  [additions EXCEPT ![s] = Append(@, Row(id, source, text, entities))]

GeneratedRow(g) == Built(Parts(g.kind, g.chances))

\* The first generated row of each key.
FirstDrawn(i) == \A j \in 1..i - 1 : Key[Generated[j].text] # Key[Generated[i].text]
RareRow(s, k, g) == Row(<<"rare", s, k>>, "rare", g.text, GeneratedRow(g).entities)

RareAdditions ==
    [s \in Splits |->
        LET drawn == Pick(Generated, {i \in DOMAIN Generated :
                                         FirstDrawn(i) /\ Home[Key[Generated[i].text]] = s})
        IN  [k \in DOMAIN drawn |-> RareRow(s, k - 1, drawn[k])]]

\* A generated row that is not valid would end the script before it writes.
ASSUME GeneratedAssumption ==
    \A i \in DOMAIN Generated :
        /\ Generated[i].kind \in Kinds
        /\ Generated[i].chances \subseteq Chances
        /\ Parts(Generated[i].kind, Generated[i].chances) \in Seq(DOMAIN PartWidth)
        /\ GeneratedRow(Generated[i]).pos = Length[Generated[i].text]
        /\ ValidRow(GeneratedRow(Generated[i]).entities)

Launch(s) ==
    /\ phase = "idle"
    /\ runs < MaxRuns
    /\ runs' = runs + 1
    /\ script' = s
    /\ phase' = "read"
    /\ turn' = 1
    /\ seen' = {}
    /\ fresh' = IF s = "rare" THEN RareAdditions ELSE Empty
    /\ out' = Empty
    /\ before' = files
    /\ clean' = (clean /\ s # "rare")
    /\ lost' = {}
    /\ UNCHANGED <<files, feed, last>>

Where == IF script = "relabel" THEN "hybrid" ELSE "csv"

\* What a process held is gone with it.
Ends ==
    /\ script' = "none"
    /\ phase' = "idle"
    /\ turn' = 1
    /\ seen' = {}
    /\ fresh' = Empty
    /\ out' = Empty

\* A script raises, or is stopped, while no file is open.
Fails ==
    /\ Ends
    /\ last' = "none"
    /\ UNCHANGED <<files, feed, runs, before, clean, lost>>

Stopped ==
    /\ phase \in {"read", "take", "open"}
    /\ Fails

\* Stopped while it writes: a part of the rows is in the file.
Torn ==
    /\ phase = "write"
    /\ Ends
    /\ \E n \in 0..Len(out[turn]) :
        LET rows == SubSeq(out[turn], 1, n)
        IN  /\ files' = [files EXCEPT ![Where][turn] = rows]
            /\ lost' = Keys(out[turn]) \ Keys(rows)
    /\ last' = "none"
    /\ UNCHANGED <<feed, runs, before, clean>>

-----------------------------------------------------------------------------
(* integrate                                                               *)

\* Rows of an earlier run are left out; the others are kept, and their keys.
NotNew(rows) == Pick(rows, {i \in DOMAIN rows : rows[i].source \notin NewSources})

ReadAll ==
    /\ phase = "read"
    /\ script = "integrate"
    /\ out' = [s \in Splits |-> NotNew(files.csv[s])]
    /\ seen' = AllKeys(out')
    /\ phase' = "take"
    /\ UNCHANGED <<files, feed, script, turn, fresh, runs, history>>

Taking == phase = "take" /\ turn <= Len(feed)
Given == Extracted(feed[turn])
Kept == Sanitized(Given.entities)
Unusable == Given.status = "skip" \/ feed[turn].text \notin Russian

\* Mutant of Known: only copies within the new sources are left out.
KnownAnew == \E s \in Splits : Key[feed[turn].text] \in Keys(fresh[s])
Known == Key[feed[turn].text] \in seen

SkipRow ==
    /\ Taking
    /\ Given.status # "raise"
    /\ Unusable \/ (ValidRow(Kept) /\ Known)
    /\ turn' = turn + 1
    /\ UNCHANGED <<files, feed, script, phase, seen, fresh, out, runs, history>>

AddRow ==
    /\ Taking
    /\ Given.status = "row"
    /\ ~Unusable
    /\ ValidRow(Kept)
    /\ ~Known
    /\ seen' = seen \cup {Key[feed[turn].text]}
    /\ fresh' = Added(fresh, feed[turn].source, feed[turn].text, Kept)
    /\ turn' = turn + 1
    /\ UNCHANGED <<files, feed, script, phase, out, runs, history>>

\* An extractor, or the check of its row, raises: nothing was written yet.
RowRaises ==
    /\ Taking
    /\ Given.status = "raise" \/ (~Unusable /\ ~ValidRow(Kept))
    /\ Fails

\* existing[split] + additions[split]
EndTake ==
    /\ phase = "take"
    /\ turn > Len(feed)
    /\ out' = [s \in Splits |-> out[s] \o fresh[s]]
    /\ phase' = "open"
    /\ turn' = 1
    /\ UNCHANGED <<files, feed, script, seen, fresh, runs, history>>

\* --dry-run
DryRun ==
    /\ phase = "take"
    /\ turn > Len(feed)
    /\ Fails

-----------------------------------------------------------------------------
(* The scripts that go from split to split                                 *)

Reading(s) == phase = "read" /\ script = s

ReadTo(rows) ==
    /\ out' = [out EXCEPT ![turn] = rows]
    /\ phase' = "open"
    /\ UNCHANGED <<files, feed, script, turn, fresh, runs, history>>

\* Mutant of Others: what an earlier run has added stays.
OthersAndRare(rows) == rows
Others(rows) == Pick(rows, {i \in DOMAIN rows : rows[i].source # "rare"})

ReadRare ==
    /\ Reading("rare")
    /\ ReadTo(Others(files.csv[turn]) \o fresh[turn])
    /\ UNCHANGED seen

\* Mutant of FirstOfKey: a text that a split has twice is dropped from it.
FirstOfKeyAlone(rows, i) ==
    /\ Key[rows[i].text] \notin seen
    /\ \A j \in DOMAIN rows \ {i} : Key[rows[j].text] # Key[rows[i].text]
\* No row of this split before it, and no row of a split before, has its key.
FirstOfKey(rows, i) ==
    /\ Key[rows[i].text] \notin seen
    /\ \A j \in 1..i - 1 : Key[rows[j].text] # Key[rows[i].text]

Firsts(rows) == Pick(rows, {i \in DOMAIN rows : FirstOfKey(rows, i)})

ReadDedup ==
    /\ Reading("dedup")
    /\ ReadTo(Firsts(files.csv[turn]))
    /\ seen' = seen \cup Keys(files.csv[turn])

\* The record of hybrid with the id and the text of a row.
Twins(r) ==
    {h \in UNION {{files.hybrid[s][i] : i \in DOMAIN files.hybrid[s]} : s \in Splits} :
        h.id = r.id /\ h.text = r.text}
Bonus(r) ==
    UNION {{e \in h.entities : e.label \in BonusLabels} : h \in Twins(r)}
Enriched(r) == [r EXCEPT !.entities = @ \cup Bonus(r)]
Crosses(r) == Enriched(r) # r /\ ~ValidRow(Enriched(r).entities)

ReadEnrich ==
    /\ Reading("enrich")
    /\ \A i \in DOMAIN files.csv[turn] : ~Crosses(files.csv[turn][i])
    /\ ReadTo([i \in DOMAIN files.csv[turn] |-> Enriched(files.csv[turn][i])])
    /\ UNCHANGED seen

\* The splits before this one are written.
EnrichRaises ==
    /\ Reading("enrich")
    /\ \E i \in DOMAIN files.csv[turn] : Crosses(files.csv[turn][i])
    /\ Fails

IsFamous(t, e) == [text |-> t, start |-> e.start, end |-> e.end] \in Famous

\* Public figures, public addresses and all that is inside these, famous persons.
Stripped(r) ==
    LET public == {e \in r.entities : e.label = "PUBLIC_ADDRESS"}
        Goes(e) ==
            \/ e.label \in {"PUBLIC_PERSON", "PUBLIC_ADDRESS"}
            \/ \E p \in public : p.start <= e.start /\ e.end <= p.end
            \/ e.label = "PERSON" /\ IsFamous(r.text, e)
    IN  [r EXCEPT !.entities = {e \in @ : ~Goes(e)}]

ReadRelabel ==
    /\ Reading("relabel")
    /\ ReadTo([i \in DOMAIN files.hybrid[turn] |-> Stripped(files.hybrid[turn][i])])
    /\ UNCHANGED seen

-----------------------------------------------------------------------------
(* Writing                                                                 *)

\* path.open("w")
Open ==
    /\ phase = "open"
    /\ files' = [files EXCEPT ![Where][turn] = <<>>]
    /\ phase' = "write"
    /\ UNCHANGED <<feed, script, turn, seen, fresh, out, runs, history>>

Write ==
    /\ phase = "write"
    /\ files' = [files EXCEPT ![Where][turn] = out[turn]]
    /\ IF turn \in Splits \ {3}
       THEN /\ turn' = turn + 1
            /\ phase' = IF script = "integrate" THEN "open" ELSE "read"
            /\ UNCHANGED <<script, seen, fresh, out, last, clean>>
       ELSE /\ Ends
            /\ last' = script
            /\ clean' = (clean \/ script = "dedup")
    /\ UNCHANGED <<feed, runs, before, lost>>

AllRun ==
    /\ phase = "idle"
    /\ runs = MaxRuns
    /\ UNCHANGED vars

Next ==
    \/ \E s \in Scripts : Launch(s)
    \/ Stopped \/ Torn
    \/ ReadAll \/ SkipRow \/ AddRow \/ RowRaises \/ EndTake \/ DryRun
    \/ ReadRare \/ ReadDedup \/ ReadEnrich \/ EnrichRaises \/ ReadRelabel
    \/ Open \/ Write \/ AllRun

Spec == Init /\ [][Next]_vars

-----------------------------------------------------------------------------
Rows == UNION {{files.csv[s][i] : i \in DOMAIN files.csv[s]} : s \in Splits}

\* Whatever was run and wherever it was stopped, the entities of a row of the
\* corpus lie inside its text and nest or keep apart: no extractor, no generated
\* row and no enrichment puts a crossing into a file.
RowsSound == \A r \in Rows : SoundRow(r)

Places == UNION {{<<s, i>> : i \in DOMAIN files.csv[s]} : s \in Splits}
TextAt(p) == files.csv[p[1]][p[2]].text

\* Once dedup has come to its end the corpus holds each text once, so none is in
\* two splits, and it stays so whatever integrate, enrich and relabel do and
\* wherever they are stopped, until rare is run again.
CleanSinceDedup ==
    clean => \A p, q \in Places : p # q => Key[TextAt(p)] # Key[TextAt(q)]

\* A text the corpus had when a script was started is in it when none runs, unless
\* the script was stopped while its row was to be written: what dedup drops is
\* elsewhere, and what integrate and rare replace comes back.
TextsSurvive ==
    phase = "idle" => AllKeys(before.csv) \subseteq AllKeys(files.csv) \cup lost

\* A script that is run again after it came to its end changes nothing.
RerunChangesNothing ==
    [][phase = "write" /\ phase' = "idle" /\ last = script /\ last' = script
          => files' = before]_vars
=============================================================================
