---------------------------- MODULE CorpusProofs ----------------------------
(***************************************************************************)
(* What the scripts that make the corpus keep, whatever is run and wherever *)
(* it is stopped: after dedup no text is in the corpus twice (CleanStays),  *)
(* none is lost but what a stopped write had not yet put down (NoTextLost), *)
(* a script that is run again changes nothing (RerunsAreIdle), and the      *)
(* entities of each row lie in its text without a crossing (RowsStaySound). *)
(* Proved of Spec for all corpora, sources, keys and numbers of runs that   *)
(* RowsAssumption, CorpusAssumption and GeneratedAssumption admit.          *)
(*                                                                         *)
(* The first two need to know how far the script is: which files are as it  *)
(* found them (Untouched), what its rows make up for (Integrated, Covered), *)
(* and that rows of a script stand in the split of their key (AllSettled),  *)
(* so that what integrate and rare leave out comes back to the same split.  *)
(* The third needs what a script leaves behind (Ended) and what it has made *)
(* of that so far (Progress).  The last needs what each loop over the       *)
(* tokens, runs or parts of a row keeps from step to step, and that the     *)
(* walk of ValidRow lets through what does not cross (ValidIsLaminar).      *)
(***************************************************************************)
EXTENDS Corpus, FiniteSetTheorems, TLAPS

-----------------------------------------------------------------------------
(* The invariant                                                           *)

FeedEntities == UNION {UNION {Sanitized(Extracted(f[i]).entities) : i \in DOMAIN f} : f \in Feeds}
DrawnEntities == UNION {GeneratedRow(Generated[i]).entities : i \in DOMAIN Generated}
Sources == OldSources \cup NewSources \cup {"rare"}
\* The rows a file may ever hold.
AnyRow == RowsOf(Sources, Entity \cup FeedEntities \cup DrawnEntities)

File == Seq(AnyRow)
Files == [csv : [Splits -> File], hybrid : [Splits -> File]]

\* The type of the state, and where each phase is reached.
Shapes ==
    /\ files \in Files
    /\ before \in Files
    /\ feed \in Feeds
    /\ phase \in {"idle", "read", "take", "open", "write"}
    /\ script \in Scripts \cup {"none"}
    /\ turn \in Nat \ {0}
    /\ fresh \in [Splits -> File]
    /\ out \in [Splits -> File]
    /\ phase \in {"read", "open", "write"} => turn \in Splits
    /\ phase # "idle" => script \in Scripts
    /\ phase = "take" => script = "integrate"
    /\ phase = "read" /\ script = "integrate" => turn = 1 /\ fresh = Empty
    /\ script = "rare" => fresh = RareAdditions
    /\ clean \in BOOLEAN

\* The keys of the rows that integrate keeps.
OldKeys(rows) == {Key[rows[i].text] : i \in {j \in DOMAIN rows : rows[j].source \notin NewSources}}
AllOld(f) == UNION {OldKeys(f[s]) : s \in Splits}

\* A row of the feed that integrate takes, unless it knows its key.
Usable(row) ==
    /\ Extracted(row).status = "row"
    /\ row.text \in Russian
    /\ ValidRow(Sanitized(Extracted(row).entities))
FeedKeys == {Key[feed[i].text] : i \in {j \in DOMAIN feed : Usable(feed[j])}}
RareKeys == {Key[Generated[i].text] : i \in DOMAIN Generated}

\* The rows of a script are in the split of their key, and it makes them again.
Settled(rows, s, taken) ==
    \A i \in DOMAIN rows :
        LET k == Key[rows[i].text]
        IN  /\ rows[i].source \in NewSources => Home[k] = s /\ k \in taken
            /\ rows[i].source = "rare" => Home[k] = s /\ k \in RareKeys

AllSettled ==
    \A s \in Splits :
        /\ Settled(files.csv[s], s, FeedKeys)
        /\ Settled(before.csv[s], s, FeedKeys)
        /\ Settled(fresh[s], s, FeedKeys)
        /\ script # "relabel" => Settled(out[s], s, FeedKeys)

\* The files that the script has not opened yet are as it found them.
Untouched ==
    phase # "idle" =>
        \A s \in Splits :
            s > turn \/ (s = turn /\ phase # "write") \/ phase = "take" \/ script = "relabel"
            => files.csv[s] = before.csv[s]

\* No key twice in a file, and none in two files.
Distinct(rows) == \A i, j \in DOMAIN rows : i # j => Key[rows[i].text] # Key[rows[j].text]
Unique(f) ==
    /\ \A s \in Splits : Distinct(f[s])
    /\ \A s, t \in Splits : s # t => Keys(f[s]) \cap Keys(f[t]) = {}

Cleanness ==
    clean => /\ Unique(files.csv)
             /\ phase # "idle" => Unique(before.csv) /\ script # "rare"

\* integrate, at the feed: it keeps the old rows and knows the keys it has met.
Taken ==
    phase = "take" =>
        /\ out = [s \in Splits |-> NotNew(before.csv[s])]
        /\ seen = AllOld(before.csv) \cup AllKeys(fresh)
        /\ \A i \in DOMAIN feed : i < turn /\ Usable(feed[i]) => Key[feed[i].text] \in seen
        /\ AllKeys(fresh) \cap AllOld(before.csv) = {}
        /\ \A s \in Splits : Distinct(fresh[s]) /\ \A k \in Keys(fresh[s]) : Home[k] = s

\* integrate, at the files: what it left out of a split is an old text of another,
\* and what it adds is no old text and belongs to the split.
Integrated ==
    script = "integrate" /\ phase \in {"open", "write"} =>
        \A s \in Splits :
            /\ s < turn => files.csv[s] = out[s]
            /\ OldKeys(before.csv[s]) \subseteq Keys(out[s])
            /\ Keys(before.csv[s]) \subseteq Keys(out[s]) \cup AllOld(before.csv)
            /\ \A k \in Keys(out[s]) :
                  k \in OldKeys(before.csv[s]) \/ (Home[k] = s /\ k \notin AllOld(before.csv))
            /\ clean => Distinct(out[s])

InTurn == script \in {"rare", "dedup", "enrich"} /\ phase # "idle"
Made == phase \in {"open", "write"}
Written == UNION {Keys(files.csv[s]) : s \in 1..turn - 1}
Behind == UNION {Keys(before.csv[s]) : s \in 1..turn - 1}

\* The splits behind lost no text, nor will the one in turn.
Covered ==
    InTurn =>
        /\ Behind \subseteq Written
        /\ Made => Keys(before.csv[turn]) \subseteq Keys(out[turn]) \cup Written

\* dedup and enrich add no text to a split.
NothingAdded ==
    InTurn /\ script # "rare" =>
        /\ \A s \in 1..turn - 1 : Keys(files.csv[s]) \subseteq Keys(before.csv[s])
        /\ Made => /\ Keys(out[turn]) \subseteq Keys(before.csv[turn])
                   /\ clean \/ script = "dedup" => Distinct(out[turn])

\* dedup: the splits behind share no text.
Deduplicated ==
    InTurn /\ script = "dedup" =>
        /\ seen = Behind \cup (IF Made THEN Keys(before.csv[turn]) ELSE {})
        /\ \A s \in 1..turn - 1 : Distinct(files.csv[s])
        /\ \A s, t \in 1..turn - 1 : s # t => Keys(files.csv[s]) \cap Keys(files.csv[t]) = {}
        /\ Made => Keys(out[turn]) \cap Behind = {}

CorpusInv ==
    /\ Shapes /\ AllSettled /\ Untouched /\ Cleanness
    /\ Taken /\ Integrated
    /\ Covered /\ NothingAdded /\ Deduplicated
    /\ TextsSurvive

-----------------------------------------------------------------------------
(* Places in their order                                                   *)

\* The least-number principle.
LEMMA LeastOf == ASSUME NEW S, S \subseteq Nat, S # {} PROVE \E m \in S : \A n \in S : m <= n
<1> DEFINE Less == {pair \in Nat \X Nat : pair[1] < pair[2]}
<1>1. IsWellFoundedOn(Less, Nat)
  BY NatLessThanWellFounded DEF OpToRel
<1>2. \E m \in S : \A n \in S : <<n, m>> \notin Less
  <2> HIDE DEF Less
  <2> QED BY <1>1, WFMin
<1>3. \A m, n \in Nat : n < m => <<n, m>> \in Less
  OBVIOUS
<1> HIDE DEF Less
<1>4. PICK m \in S : \A n \in S : <<n, m>> \notin Less
  BY <1>2
<1>5. ASSUME NEW n \in S PROVE m <= n
  <2>1. ~(n < m)
    BY <1>3, <1>4, n \in Nat, m \in Nat
  <2> QED BY <2>1, n \in Nat, m \in Nat
<1> QED BY <1>4, <1>5

UpTo(S, i) == {j \in S : j <= i}

\* How many places of S there are up to i, and the way back.
LEMMA NthIs ==
    ASSUME NEW n \in Nat, NEW S, S \subseteq 1..n
    PROVE  /\ IsFiniteSet(S) /\ Cardinality(S) \in Nat
           /\ \A k \in 1..Cardinality(S) : Nth(S, k) \in S /\ Cardinality(UpTo(S, Nth(S, k))) = k
           /\ \A i \in S : Cardinality(UpTo(S, i)) \in 1..Cardinality(S) /\ Nth(S, Cardinality(UpTo(S, i))) = i
<1> DEFINE c == Cardinality(S)
           rank == [i \in S |-> Cardinality(UpTo(S, i))]
<1>1. IsFiniteSet(S) /\ c \in Nat
  <2>1. IsFiniteSet(1..n)
    BY FS_Interval
  <2>2. IsFiniteSet(S)
    BY <2>1, FS_Subset
  <2> QED BY <2>2, FS_CardinalityType
<1>2. ASSUME NEW i \in S PROVE IsFiniteSet(UpTo(S, i)) /\ Cardinality(UpTo(S, i)) \in 1..c
  <2>1. UpTo(S, i) \in SUBSET S /\ i \in UpTo(S, i)
    BY DEF UpTo
  <2>2. IsFiniteSet(UpTo(S, i)) /\ Cardinality(UpTo(S, i)) <= c
    BY <1>1, <2>1, FS_Subset
  <2>3. Cardinality(UpTo(S, i)) \in Nat
    BY <2>2, FS_CardinalityType
  <2>4. Cardinality(UpTo(S, i)) # 0
    BY <2>1, <2>2, FS_EmptySet
  <2> QED BY <2>2, <2>3, <2>4, <1>1
<1>3. ASSUME NEW i \in S, NEW j \in S, i < j PROVE rank[i] # rank[j]
  <2>0. S \subseteq Int /\ i \in Int /\ j \in Int
    OBVIOUS
  <2>1. UpTo(S, i) \in SUBSET UpTo(S, j) /\ j \in UpTo(S, j) /\ j \notin UpTo(S, i)
    <3>1. ASSUME NEW h \in S, h <= i PROVE h <= j
      <4>1. h \in Int
        BY <2>0
      <4> QED BY ONLY <1>3, <2>0, <3>1, <4>1
    <3>2. j <= j /\ ~(j <= i)
      BY ONLY <1>3, <2>0
    <3> QED BY <3>1, <3>2 DEF UpTo
  <2>2. Cardinality(UpTo(S, j)) = Cardinality(UpTo(S, i)) => UpTo(S, j) = UpTo(S, i)
    BY <1>2, <2>1, FS_Subset
  <2> QED BY <2>1, <2>2
<1>4. rank \in Injection(S, 1..c)
  <2>1. rank \in [S -> 1..c]
    BY <1>2
  <2>2. ASSUME NEW i \in S, NEW j \in S, rank[i] = rank[j] PROVE i = j
    <3>1. i < j \/ j < i \/ i = j
      OBVIOUS
    <3> QED BY <1>3, <2>2, <3>1
  <2> HIDE DEF rank
  <2> QED BY <2>1, <2>2 DEF Injection, IsInjective
<1>5. rank \in Surjection(S, 1..c)
  <2>1. IsFiniteSet(1..c) /\ Cardinality(1..c) = c
    BY <1>1, FS_Interval
  <2> HIDE DEF rank, c
  <2>2. Cardinality(S) = Cardinality(1..c)
    BY <2>1 DEF c
  <2> QED BY ONLY <1>4, <2>1, <2>2, FS_Injection
<1>6. ASSUME NEW k \in 1..c PROVE Nth(S, k) \in S /\ Cardinality(UpTo(S, Nth(S, k))) = k
  <2>1. PICK i \in S : rank[i] = k
    <3> HIDE DEF rank
    <3> QED BY <1>5 DEF Surjection
  <2>2. \E i_1 \in S : Cardinality({j \in S : j <= i_1}) = k
    BY <2>1 DEF UpTo
  <2> QED BY <2>2 DEF Nth, UpTo
<1>7. ASSUME NEW i \in S PROVE Nth(S, Cardinality(UpTo(S, i))) = i
  <2>1. Cardinality(UpTo(S, i)) \in 1..c
    BY <1>2
  <2> DEFINE j == Nth(S, Cardinality(UpTo(S, i)))
  <2>2. j \in S /\ Cardinality(UpTo(S, j)) = Cardinality(UpTo(S, i))
    BY <1>6, <2>1
  <2>3. rank[i] = rank[j]
    BY <2>2
  <2> QED BY <1>4, <2>2, <2>3 DEF Injection, IsInjective
<1> QED BY <1>1, <1>2, <1>6, <1>7

\* The rows at some places: each of them once.
LEMMA PickIs ==
    ASSUME NEW rows, Len(rows) \in Nat, DOMAIN rows = 1..Len(rows), NEW S \in SUBSET DOMAIN rows
    PROVE  /\ Cardinality(S) \in Nat
           /\ Len(Pick(rows, S)) = Cardinality(S) /\ DOMAIN Pick(rows, S) = 1..Cardinality(S)
           /\ Pick(rows, S) = [k \in 1..Cardinality(S) |-> Pick(rows, S)[k]]
           /\ \A k \in 1..Cardinality(S) : Nth(S, k) \in S /\ Pick(rows, S)[k] = rows[Nth(S, k)]
           /\ \A k, m \in 1..Cardinality(S) : Nth(S, k) = Nth(S, m) => k = m
           /\ \A i \in S : \E k \in 1..Cardinality(S) : Nth(S, k) = i
<1>1. S \subseteq 1..Len(rows)
  OBVIOUS
<1>2. /\ Cardinality(S) \in Nat
      /\ \A k \in 1..Cardinality(S) : Nth(S, k) \in S /\ Cardinality(UpTo(S, Nth(S, k))) = k
      /\ \A i \in S : Cardinality(UpTo(S, i)) \in 1..Cardinality(S) /\ Nth(S, Cardinality(UpTo(S, i))) = i
  BY <1>1, NthIs
<1>3. /\ DOMAIN Pick(rows, S) = 1..Cardinality(S)
      /\ Pick(rows, S) = [k \in 1..Cardinality(S) |-> Pick(rows, S)[k]]
      /\ \A k \in 1..Cardinality(S) : Pick(rows, S)[k] = rows[Nth(S, k)]
  BY DEF Pick
<1>4. Len(Pick(rows, S)) = Cardinality(S)
  BY <1>2, <1>3
<1> QED BY <1>2, <1>3, <1>4

-----------------------------------------------------------------------------
(* Files                                                                   *)

LEMMA FileFacts ==
    ASSUME NEW rows \in File
    PROVE  /\ Len(rows) \in Nat /\ DOMAIN rows = 1..Len(rows)
           /\ \A i \in DOMAIN rows : rows[i] \in AnyRow
  BY DEF File

LEMMA NoRows ==
    /\ <<>> \in File /\ Keys(<<>>) = {} /\ Distinct(<<>>)
    /\ \A s, taken : Settled(<<>>, s, taken)
  BY DEF File, Keys, Distinct, Settled

LEMMA PickFile ==
    ASSUME NEW rows \in File, NEW S \in SUBSET DOMAIN rows
    PROVE  /\ Pick(rows, S) \in File
           /\ Keys(Pick(rows, S)) = {Key[rows[i].text] : i \in S}
           /\ (\A i, j \in S : i # j => Key[rows[i].text] # Key[rows[j].text]) => Distinct(Pick(rows, S))
           /\ \A s, taken : Settled(rows, s, taken) => Settled(Pick(rows, S), s, taken)
<1> DEFINE c == Cardinality(S)
           picked == Pick(rows, S)
<1>1. Len(rows) \in Nat /\ DOMAIN rows = 1..Len(rows) /\ \A i \in DOMAIN rows : rows[i] \in AnyRow
  BY FileFacts
<1>2. /\ c \in Nat /\ DOMAIN picked = 1..c
      /\ picked = [k \in 1..c |-> picked[k]]
      /\ \A k \in 1..c : Nth(S, k) \in S /\ picked[k] = rows[Nth(S, k)]
      /\ \A k, m \in 1..c : Nth(S, k) = Nth(S, m) => k = m
      /\ \A i \in S : \E k \in 1..c : Nth(S, k) = i
  BY <1>1, PickIs
<1> HIDE DEF c, picked
<1>3. picked \in File
  <2>1. \A k \in 1..c : picked[k] \in AnyRow
    BY <1>1, <1>2
  <2> QED BY <1>2, <2>1 DEF File
<1>4. Keys(picked) = {Key[rows[i].text] : i \in S}
  BY <1>2 DEF Keys
<1>5. ASSUME \A i, j \in S : i # j => Key[rows[i].text] # Key[rows[j].text] PROVE Distinct(picked)
  BY <1>2, <1>5 DEF Distinct
<1>6. ASSUME NEW s, NEW taken, Settled(rows, s, taken) PROVE Settled(picked, s, taken)
  BY <1>1, <1>2, <1>6 DEF Settled
<1> QED BY <1>3, <1>4, <1>5, <1>6 DEF picked

\* What dedup leaves of a split: each key it has not met, once.
LEMMA FirstsFile ==
    ASSUME NEW rows \in File
    PROVE  /\ Firsts(rows) \in File
           /\ Keys(Firsts(rows)) = Keys(rows) \ seen
           /\ Distinct(Firsts(rows))
           /\ \A s, taken : Settled(rows, s, taken) => Settled(Firsts(rows), s, taken)
<1> DEFINE S == {i \in DOMAIN rows : FirstOfKey(rows, i)}
<1>1. S \in SUBSET DOMAIN rows /\ Firsts(rows) = Pick(rows, S)
  BY DEF Firsts
<1>2. Len(rows) \in Nat /\ DOMAIN rows = 1..Len(rows)
  BY FileFacts
<1>3. {Key[rows[i].text] : i \in S} = Keys(rows) \ seen
  <2>1. {Key[rows[i].text] : i \in S} \subseteq Keys(rows) \ seen
    BY DEF Keys, FirstOfKey
  <2>2. ASSUME NEW k \in Keys(rows), k \notin seen PROVE \E i \in S : Key[rows[i].text] = k
    <3> DEFINE P == {i \in DOMAIN rows : Key[rows[i].text] = k}
    <3>1. P \subseteq Nat /\ P # {}
      BY <1>2 DEF Keys
    <3>2. PICK m \in P : \A n \in P : m <= n
      <4> HIDE DEF P
      <4> QED BY <3>1, LeastOf
    <3>3. ASSUME NEW j \in 1..m - 1 PROVE Key[rows[j].text] # k
      <4>1. j \in DOMAIN rows /\ ~(m <= j)
        BY <1>2, <3>2
      <4> QED BY <3>2, <4>1
    <3>4. FirstOfKey(rows, m)
      BY <2>2, <3>2, <3>3 DEF FirstOfKey
    <3> QED BY <3>2, <3>4
  <2> HIDE DEF S
  <2> QED BY <2>1, <2>2
<1>4. ASSUME NEW i \in S, NEW j \in S, i # j PROVE Key[rows[i].text] # Key[rows[j].text]
  <2>1. i \in 1..j - 1 \/ j \in 1..i - 1
    BY <1>2, <1>4
  <2> QED BY <2>1 DEF FirstOfKey
<1> HIDE DEF S
<1> QED BY <1>1, <1>3, <1>4, PickFile

\* What integrate keeps of a split, and the rows that rare leaves.
LEMMA KeptFile ==
    ASSUME NEW rows \in File
    PROVE  /\ NotNew(rows) \in File /\ Others(rows) \in File
           /\ Keys(NotNew(rows)) = OldKeys(rows)
           /\ Distinct(rows) => Distinct(NotNew(rows))
           /\ \A s, taken : Settled(rows, s, taken) =>
                 /\ Settled(NotNew(rows), s, taken) /\ Settled(Others(rows), s, taken)
                 /\ \A k \in Keys(rows) \ OldKeys(rows) : Home[k] = s /\ k \in taken
                 /\ \A k \in Keys(rows) \ Keys(Others(rows)) : Home[k] = s /\ k \in RareKeys
<1> DEFINE O == {i \in DOMAIN rows : rows[i].source \notin NewSources}
           U == {i \in DOMAIN rows : rows[i].source # "rare"}
<1>1. O \in SUBSET DOMAIN rows /\ NotNew(rows) = Pick(rows, O)
  BY DEF NotNew
<1>2. U \in SUBSET DOMAIN rows /\ Others(rows) = Pick(rows, U)
  BY DEF Others
<1>3. OldKeys(rows) = {Key[rows[i].text] : i \in O}
  BY DEF OldKeys
<1>4. ASSUME NEW s, NEW taken, Settled(rows, s, taken), NEW k \in Keys(rows) \ OldKeys(rows)
      PROVE  Home[k] = s /\ k \in taken
  <2>1. PICK i \in DOMAIN rows : k = Key[rows[i].text]
    BY DEF Keys
  <2>2. rows[i].source \in NewSources
    BY <1>3, <1>4, <2>1
  <2> QED BY <1>4, <2>1, <2>2 DEF Settled
<1> HIDE DEF O
<1>5. /\ NotNew(rows) \in File /\ Keys(NotNew(rows)) = OldKeys(rows)
      /\ \A s, taken : Settled(rows, s, taken) => Settled(NotNew(rows), s, taken)
  BY <1>1, <1>3, PickFile
<1>6. ASSUME Distinct(rows) PROVE Distinct(NotNew(rows))
  <2>1. \A i, j \in O : i # j => Key[rows[i].text] # Key[rows[j].text]
    BY <1>1, <1>6 DEF Distinct
  <2> QED BY <1>1, <2>1, PickFile
<1>7. /\ Others(rows) \in File /\ Keys(Others(rows)) = {Key[rows[i].text] : i \in U}
      /\ \A s, taken : Settled(rows, s, taken) => Settled(Others(rows), s, taken)
  <2> HIDE DEF U
  <2> QED BY <1>2, PickFile
<1>8. ASSUME NEW s, NEW taken, Settled(rows, s, taken), NEW k \in Keys(rows) \ Keys(Others(rows))
      PROVE  Home[k] = s /\ k \in RareKeys
  <2>1. PICK i \in DOMAIN rows : k = Key[rows[i].text]
    BY DEF Keys
  <2>2. rows[i].source = "rare"
    BY <1>7, <1>8, <2>1
  <2> QED BY <1>8, <2>1, <2>2 DEF Settled
<1> QED BY <1>4, <1>5, <1>6, <1>7, <1>8

LEMMA ConcatFile ==
    ASSUME NEW a \in File, NEW b \in File
    PROVE  /\ a \o b \in File /\ Keys(a \o b) = Keys(a) \cup Keys(b)
           /\ Distinct(a) /\ Distinct(b) /\ Keys(a) \cap Keys(b) = {} => Distinct(a \o b)
           /\ \A s, taken : Settled(a, s, taken) /\ Settled(b, s, taken) => Settled(a \o b, s, taken)
<1> DEFINE ab == a \o b
<1>1. /\ Len(a) \in Nat /\ DOMAIN a = 1..Len(a) /\ Len(b) \in Nat /\ DOMAIN b = 1..Len(b)
  BY FileFacts
<1>2. /\ ab \in File /\ DOMAIN ab = 1..Len(a) + Len(b)
      /\ \A i \in DOMAIN ab : \/ i \in DOMAIN a /\ ab[i] = a[i]
                              \/ i > Len(a) /\ i - Len(a) \in DOMAIN b /\ ab[i] = b[i - Len(a)]
      /\ \A i \in DOMAIN a : i \in DOMAIN ab /\ ab[i] = a[i]
      /\ \A i \in DOMAIN b : i + Len(a) \in DOMAIN ab /\ ab[i + Len(a)] = b[i]
  BY <1>1 DEF File
<1> HIDE DEF ab
<1>3. Keys(ab) = Keys(a) \cup Keys(b)
  BY <1>1, <1>2 DEF Keys
<1>4. ASSUME Distinct(a), Distinct(b), Keys(a) \cap Keys(b) = {} PROVE Distinct(ab)
  <2>1. \A i \in DOMAIN a : \A j \in DOMAIN b : Key[a[i].text] # Key[b[j].text]
    BY <1>4 DEF Keys
  <2> SUFFICES ASSUME NEW i \in DOMAIN ab, NEW j \in DOMAIN ab, i # j PROVE Key[ab[i].text] # Key[ab[j].text]
    BY DEF Distinct
  <2>2. CASE i \in DOMAIN a /\ j \in DOMAIN a
    BY <1>2, <1>4, <2>2 DEF Distinct
  <2>3. CASE i > Len(a) /\ j > Len(a)
    <3>1. i - Len(a) # j - Len(a)
      BY <1>1, <1>2
    <3> QED BY <1>1, <1>2, <1>4, <2>3, <3>1 DEF Distinct
  <2>4. CASE i \in DOMAIN a /\ j > Len(a)
    BY <1>1, <1>2, <2>1, <2>4
  <2>5. CASE j \in DOMAIN a /\ i > Len(a)
    BY <1>1, <1>2, <2>1, <2>5
  <2> QED BY <1>2, <2>2, <2>3, <2>4, <2>5
<1>5. ASSUME NEW s, NEW taken, Settled(a, s, taken), Settled(b, s, taken) PROVE Settled(ab, s, taken)
  BY <1>2, <1>5 DEF Settled
<1> QED BY <1>2, <1>3, <1>4, <1>5 DEF ab

LEMMA AppendFile ==
    ASSUME NEW a \in File, NEW r \in AnyRow
    PROVE  /\ Append(a, r) \in File /\ Keys(Append(a, r)) = Keys(a) \cup {Key[r.text]}
           /\ Distinct(a) /\ Key[r.text] \notin Keys(a) => Distinct(Append(a, r))
           /\ \A s, taken : Settled(a, s, taken) /\ Settled(<<r>>, s, taken) => Settled(Append(a, r), s, taken)
<1>1. <<r>> \in File /\ Keys(<<r>>) = {Key[r.text]} /\ Distinct(<<r>>)
  BY DEF File, Keys, Distinct
<1>2. Append(a, r) = a \o <<r>>
  BY DEF File
<1> QED BY <1>1, <1>2, ConcatFile

LEMMA PrefixFile ==
    ASSUME NEW a \in File, NEW n \in 0..Len(a)
    PROVE  /\ SubSeq(a, 1, n) \in File /\ Keys(SubSeq(a, 1, n)) \subseteq Keys(a)
           /\ Distinct(a) => Distinct(SubSeq(a, 1, n))
           /\ \A s, taken : Settled(a, s, taken) => Settled(SubSeq(a, 1, n), s, taken)
<1> DEFINE p == SubSeq(a, 1, n)
<1>1. Len(a) \in Nat /\ DOMAIN a = 1..Len(a)
  BY FileFacts
<1>2. p \in File /\ DOMAIN p \subseteq DOMAIN a /\ \A i \in DOMAIN p : p[i] = a[i]
  BY <1>1 DEF File
<1> HIDE DEF p
<1>3. Keys(p) \subseteq Keys(a)
  BY <1>2 DEF Keys
<1>4. Distinct(a) => Distinct(p)
  BY <1>2 DEF Distinct
<1>5. ASSUME NEW s, NEW taken, Settled(a, s, taken) PROVE Settled(p, s, taken)
  BY <1>2, <1>5 DEF Settled
<1> QED BY <1>2, <1>3, <1>4, <1>5 DEF p

\* Rows with the same texts and sources.
LEMMA SameRows ==
    ASSUME NEW a \in File, NEW b \in File, DOMAIN a = DOMAIN b,
           \A i \in DOMAIN a : a[i].text = b[i].text /\ a[i].source = b[i].source
    PROVE  /\ Keys(a) = Keys(b)
           /\ Distinct(a) => Distinct(b)
           /\ \A s, taken : Settled(a, s, taken) => Settled(b, s, taken)
<1>1. Keys(a) = Keys(b)
  BY DEF Keys
<1>2. Distinct(a) => Distinct(b)
  BY DEF Distinct
<1>3. ASSUME NEW s, NEW taken, Settled(a, s, taken) PROVE Settled(b, s, taken)
  BY <1>3 DEF Settled
<1> QED BY <1>1, <1>2, <1>3

-----------------------------------------------------------------------------
(* Typing                                                                  *)

Typing ==
    /\ "rare" \notin NewSources
    /\ \A t \in Texts : Home[Key[t]] \in Splits
    /\ Splits = {1, 2, 3} /\ Splits \subseteq Nat

LEMMA Typed == Typing
<1>1. "rare" \notin NewSources
  BY DEF NewSources
<1>2. \A t \in Texts : Home[Key[t]] \in Splits
  BY CorpusAssumption
<1>3. Splits = {1, 2, 3} /\ Splits \subseteq Nat
  BY DEF Splits
<1> QED BY <1>1, <1>2, <1>3 DEF Typing

\* A row that a script makes.
LEMMA MadeRow ==
    ASSUME NEW source \in NewSources \cup {"rare"}, NEW s \in Nat, NEW n \in Nat,
           NEW text \in Texts,
           NEW entities, entities \subseteq FeedEntities \/ entities \subseteq DrawnEntities
    PROVE  LET r == Row(<<source, s, n>>, source, text, entities)
           IN  r \in AnyRow /\ r.text = text /\ r.source = source
<1>1. source \in Sources
  BY DEF Sources
<1>2. entities \in SUBSET (Entity \cup FeedEntities \cup DrawnEntities)
  OBVIOUS
<1> QED BY <1>1, <1>2 DEF Row, RowsOf, AnyRow

\* The generated rows: each key once, in the split it belongs to.
LEMMA RareFile ==
    /\ RareAdditions \in [Splits -> File]
    /\ \A s \in Splits : \A taken : Settled(RareAdditions[s], s, taken)
    /\ \A s \in Splits : \A i \in DOMAIN RareAdditions[s] : RareAdditions[s][i].source = "rare"
    /\ \A k \in RareKeys : Home[k] \in Splits => k \in Keys(RareAdditions[Home[k]])
<1> DEFINE S(s) == {i \in DOMAIN Generated : FirstDrawn(i) /\ Home[Key[Generated[i].text]] = s}
           drawn(s) == Pick(Generated, S(s))
           rows(s) == [k \in DOMAIN drawn(s) |-> RareRow(s, k - 1, drawn(s)[k])]
<1>1. RareAdditions = [s \in Splits |-> rows(s)]
  BY DEF RareAdditions
<1>2. /\ Len(Generated) \in Nat /\ DOMAIN Generated = 1..Len(Generated)
      /\ \A i \in DOMAIN Generated : Generated[i].text \in Texts
  BY CorpusAssumption
<1>3. ASSUME NEW s \in Splits
      PROVE  /\ Cardinality(S(s)) \in Nat /\ DOMAIN drawn(s) = 1..Cardinality(S(s))
             /\ \A k \in DOMAIN drawn(s) : Nth(S(s), k) \in S(s) /\ drawn(s)[k] = Generated[Nth(S(s), k)]
             /\ \A i \in S(s) : \E k \in DOMAIN drawn(s) : Nth(S(s), k) = i
  <2> DEFINE at == S(s)
  <2>1. at \in SUBSET DOMAIN Generated
    OBVIOUS
  <2>2. drawn(s) = Pick(Generated, at)
    OBVIOUS
  <2> HIDE DEF S, at, drawn
  <2>3. /\ Cardinality(at) \in Nat /\ DOMAIN Pick(Generated, at) = 1..Cardinality(at)
        /\ \A k \in 1..Cardinality(at) : Nth(at, k) \in at /\ Pick(Generated, at)[k] = Generated[Nth(at, k)]
        /\ \A i \in at : \E k \in 1..Cardinality(at) : Nth(at, k) = i
    BY <1>2, <2>1, PickIs
  <2>4. /\ Cardinality(at) \in Nat /\ DOMAIN drawn(s) = 1..Cardinality(at)
        /\ \A k \in DOMAIN drawn(s) : Nth(at, k) \in at /\ drawn(s)[k] = Generated[Nth(at, k)]
        /\ \A i \in at : \E k \in DOMAIN drawn(s) : Nth(at, k) = i
    BY <2>2, <2>3
  <2> QED BY <2>4 DEF at
<1> HIDE DEF drawn
<1>4. ASSUME NEW s \in Splits, NEW k \in DOMAIN drawn(s)
      PROVE  /\ rows(s)[k] \in AnyRow /\ rows(s)[k].source = "rare"
             /\ \E i \in S(s) : drawn(s)[k] = Generated[i] /\ rows(s)[k].text = Generated[i].text
  <2>1. PICK i \in S(s) : drawn(s)[k] = Generated[i]
    <3> HIDE DEF S
    <3> QED BY <1>3
  <2>2. Generated[i].text \in Texts /\ GeneratedRow(Generated[i]).entities \subseteq DrawnEntities
    BY <1>2 DEF DrawnEntities
  <2>3. k - 1 \in Nat /\ s \in Nat
    <3> HIDE DEF S
    <3>1. k \in 1..Cardinality(S(s)) /\ Cardinality(S(s)) \in Nat
      BY <1>3
    <3> QED BY <3>1, Typed DEF Typing
  <2>4. rows(s)[k] = Row(<<"rare", s, k - 1>>, "rare", Generated[i].text, GeneratedRow(Generated[i]).entities)
    BY <2>1 DEF RareRow
  <2> HIDE DEF rows, S
  <2>5. rows(s)[k] \in AnyRow /\ rows(s)[k].text = Generated[i].text /\ rows(s)[k].source = "rare"
    BY <2>2, <2>3, <2>4, MadeRow
  <2> QED BY <2>1, <2>5
<1>5. ASSUME NEW s \in Splits PROVE rows(s) \in File /\ DOMAIN rows(s) = DOMAIN drawn(s)
  <2>1. \A k \in DOMAIN drawn(s) : rows(s)[k] \in AnyRow
    BY <1>4
  <2>2. rows(s) = [k \in DOMAIN drawn(s) |-> rows(s)[k]] /\ DOMAIN rows(s) = DOMAIN drawn(s)
    OBVIOUS
  <2> HIDE DEF rows, S
  <2>3. rows(s) \in File
    BY <1>3, <2>1, <2>2 DEF File
  <2> QED BY <2>2, <2>3
<1>8. ASSUME NEW s \in Splits, NEW i \in DOMAIN rows(s) PROVE rows(s)[i].source = "rare"
  BY <1>4, <1>5
<1>6. ASSUME NEW s \in Splits, NEW taken PROVE Settled(rows(s), s, taken)
  <2>1. ASSUME NEW k \in DOMAIN rows(s)
        PROVE  /\ rows(s)[k].source = "rare" /\ Home[Key[rows(s)[k].text]] = s
               /\ Key[rows(s)[k].text] \in RareKeys
    <3>1. PICK i \in S(s) : rows(s)[k].text = Generated[i].text
      BY <1>4, <1>5
    <3> QED BY <1>4, <1>5, <3>1 DEF RareKeys
  <2> HIDE DEF rows
  <2> QED BY <2>1, Typed DEF Settled, Typing
<1>7. ASSUME NEW k \in RareKeys, Home[k] \in Splits PROVE k \in Keys(rows(Home[k]))
  <2> DEFINE P == {i \in DOMAIN Generated : Key[Generated[i].text] = k}
  <2>1. P \subseteq Nat /\ P # {}
    BY <1>2 DEF RareKeys
  <2>2. PICK m \in P : \A n \in P : m <= n
    <3> HIDE DEF P
    <3> QED BY <2>1, LeastOf
  <2>3. ASSUME NEW j \in 1..m - 1 PROVE Key[Generated[j].text] # k
    <3>1. j \in DOMAIN Generated /\ ~(m <= j)
      BY <1>2, <2>2
    <3> QED BY <2>2, <3>1
  <2>4. FirstDrawn(m)
    BY <2>2, <2>3 DEF FirstDrawn
  <2>5. m \in S(Home[k])
    BY <2>2, <2>4
  <2>6. PICK n \in DOMAIN drawn(Home[k]) : drawn(Home[k])[n] = Generated[m]
    <3> HIDE DEF S
    <3> QED BY <1>3, <1>7, <2>5
  <2>7. rows(Home[k])[n].text = Generated[m].text
    BY <2>6 DEF RareRow, Row
  <2> QED BY <1>5, <1>7, <2>2, <2>6, <2>7 DEF Keys
<1> HIDE DEF rows
<1> QED BY <1>1, <1>5, <1>6, <1>7, <1>8

-----------------------------------------------------------------------------
(* What a script that runs has not lost                                    *)

PutInTurn(rows) == [files EXCEPT ![Where][turn] = rows]

LEMMA PutFile ==
    ASSUME files \in Files, turn \in Splits, NEW rows \in File,
           NEW f, f = [files EXCEPT ![Where][turn] = rows]
    PROVE  /\ f \in Files
           /\ script # "relabel" => f.csv = [files.csv EXCEPT ![turn] = rows]
           /\ script = "relabel" => f.csv = files.csv
<1>1. CASE script = "relabel"
  BY <1>1 DEF Files, Where
<1>2. CASE script # "relabel"
  BY <1>2 DEF Files, Where
<1> QED BY <1>1, <1>2

LEMMA Put ==
    ASSUME NEW csv \in [Splits -> File], NEW t \in Splits, NEW rows \in File,
           NEW after, after = [csv EXCEPT ![t] = rows]
    PROVE  after \in [Splits -> File] /\ after[t] = rows /\ \A s \in Splits \ {t} : after[s] = csv[s]
  OBVIOUS

\* Until its file is opened every text is in some file; while it is written, in
\* another file or among the rows to come.
LEMMA NothingLost ==
    ASSUME CorpusInv
    PROVE  /\ phase \in {"read", "take", "open"} => AllKeys(before.csv) \subseteq AllKeys(files.csv)
           /\ phase = "write" /\ script # "relabel" =>
                \A k \in AllKeys(before.csv) :
                    k \in Keys(out[turn]) \/ \E s \in Splits \ {turn} : k \in Keys(files.csv[s])
           /\ phase = "write" /\ script = "relabel" => AllKeys(before.csv) \subseteq AllKeys(files.csv)
<1>t. Splits = {1, 2, 3}
  BY DEF Splits
<1>0. /\ Shapes /\ Untouched /\ Integrated /\ Covered
  BY DEF CorpusInv
<1>1. CASE phase # "idle" /\ (script = "relabel" \/ phase = "take")
  <2>1. \A s \in Splits : files.csv[s] = before.csv[s]
    BY <1>0, <1>1 DEF Untouched
  <2> QED BY <1>1, <2>1 DEF AllKeys
<1>2. CASE phase = "read" /\ script = "integrate"
  <2>1. turn = 1
    BY <1>0, <1>2 DEF Shapes
  <2>2. \A s \in Splits : s > 1 \/ s = 1
    BY <1>t
  <2>3. \A s \in Splits : files.csv[s] = before.csv[s]
    BY <1>0, <1>2, <2>1, <2>2 DEF Untouched
  <2> QED BY <1>2, <2>3 DEF AllKeys
<1>3. CASE phase \in {"open", "write"} /\ script = "integrate"
  <2>1. turn \in Splits
    BY <1>0, <1>3 DEF Shapes
  <2>2. \A s \in Splits : /\ s < turn => files.csv[s] = out[s]
                         /\ OldKeys(before.csv[s]) \subseteq Keys(out[s])
                         /\ Keys(before.csv[s]) \subseteq Keys(out[s]) \cup AllOld(before.csv)
    BY <1>0, <1>3 DEF Integrated
  <2>3. \A s \in Splits : s > turn => Keys(files.csv[s]) = Keys(before.csv[s])
    BY <1>0, <1>3 DEF Untouched
  <2>9. phase # "write" => Keys(files.csv[turn]) = Keys(before.csv[turn])
    BY <1>0, <1>3, <2>1 DEF Untouched
  <2>4. \A s \in Splits : OldKeys(before.csv[s]) \subseteq Keys(before.csv[s])
    BY DEF OldKeys, Keys
  <2>5. \A s \in Splits : s < turn \/ s = turn \/ s > turn
    BY <1>t, <2>1
  <2>6. ASSUME NEW k \in AllKeys(before.csv), phase = "write"
        PROVE  k \in Keys(out[turn]) \/ \E s \in Splits \ {turn} : k \in Keys(files.csv[s])
    <3>1. PICK s \in Splits : k \in Keys(before.csv[s])
      BY DEF AllKeys
    <3>2. CASE s > turn
      <4>1. s # turn
        BY <1>t, <2>1, <3>2
      <4> QED BY <2>3, <3>1, <3>2, <4>1
    <3>3. CASE s <= turn /\ k \in Keys(out[s])
      <4>1. CASE s = turn
        BY <3>3, <4>1
      <4>2. CASE s < turn
        <5>1. s # turn
          BY <1>t, <2>1, <4>2
        <5> QED BY <2>2, <3>3, <4>2, <5>1
      <4> QED BY <1>t, <2>1, <3>3, <4>1, <4>2
    <3>4. CASE k \in AllOld(before.csv)
      <4>1. PICK u \in Splits : k \in OldKeys(before.csv[u])
        BY <3>4 DEF AllOld
      <4>2. CASE u = turn
        BY <2>2, <4>1, <4>2
      <4>3. CASE u < turn
        <5>1. u # turn
          BY <1>t, <2>1, <4>3
        <5> QED BY <2>2, <4>1, <4>3, <5>1
      <4>4. CASE u > turn
        <5>1. u # turn
          BY <1>t, <2>1, <4>4
        <5> QED BY <2>3, <2>4, <4>1, <4>4, <5>1
      <4> QED BY <2>5, <4>2, <4>3, <4>4
    <3>5. s > turn \/ s <= turn
      BY <1>t, <2>1
    <3>6. k \in Keys(out[s]) \/ k \in AllOld(before.csv)
      BY <2>2, <3>1
    <3> QED BY <3>2, <3>3, <3>4, <3>5, <3>6
  <2>7. ASSUME NEW k \in AllKeys(before.csv), phase = "open" PROVE k \in AllKeys(files.csv)
    <3>1. PICK s \in Splits : k \in Keys(before.csv[s])
      BY DEF AllKeys
    <3>2. CASE s >= turn
      <4>1. s > turn \/ s = turn
        BY <1>t, <2>1, <3>2
      <4>2. Keys(files.csv[s]) = Keys(before.csv[s])
        BY <2>3, <2>7, <2>9, <4>1
      <4> QED BY <3>1, <4>2 DEF AllKeys
    <3>3. CASE s < turn /\ k \in Keys(out[s])
      BY <2>2, <3>3 DEF AllKeys
    <3>4. CASE k \in AllOld(before.csv)
      <4>1. PICK u \in Splits : k \in OldKeys(before.csv[u])
        BY <3>4 DEF AllOld
      <4>2. CASE u < turn
        BY <2>2, <4>1, <4>2 DEF AllKeys
      <4>3. CASE u >= turn
        <5>1. u > turn \/ u = turn
          BY <1>t, <2>1, <4>3
        <5>2. Keys(files.csv[u]) = Keys(before.csv[u])
          BY <2>3, <2>7, <2>9, <5>1
        <5> QED BY <2>4, <4>1, <5>2 DEF AllKeys
      <4> QED BY <1>t, <2>1, <4>2, <4>3
    <3>5. s < turn \/ s >= turn
      BY <1>t, <2>1
    <3> QED BY <2>2, <3>1, <3>2, <3>3, <3>4, <3>5
  <2> QED BY <1>3, <2>6, <2>7
<1>4. CASE phase \in {"read", "open", "write"} /\ script \in {"rare", "dedup", "enrich"}
  <2>1. turn \in Splits /\ InTurn
    BY <1>0, <1>4 DEF Shapes, InTurn
  <2>2. \A s \in Splits : s > turn => Keys(files.csv[s]) = Keys(before.csv[s])
    BY <1>0, <1>4 DEF Untouched
  <2>9. phase # "write" => Keys(files.csv[turn]) = Keys(before.csv[turn])
    BY <1>0, <1>4, <2>1 DEF Untouched
  <2>3. /\ Behind \subseteq Written
        /\ phase = "write" => Keys(before.csv[turn]) \subseteq Keys(out[turn]) \cup Written
    BY <1>0, <2>1 DEF Covered, Made
  <2>4. \A s \in Splits : s < turn <=> s \in 1..turn - 1
    BY <1>t, <2>1
  <2>5. ASSUME NEW k \in Written PROVE \E s \in Splits \ {turn} : k \in Keys(files.csv[s])
    <3>1. PICK s \in 1..turn - 1 : k \in Keys(files.csv[s])
      BY DEF Written
    <3>2. s \in Splits \ {turn}
      BY <1>t, <2>1
    <3> QED BY <3>1, <3>2
  <2>6. ASSUME NEW k, NEW s \in Splits, k \in Keys(before.csv[s]), s < turn PROVE k \in Written
    BY <2>3, <2>4, <2>6 DEF Behind
  <2>7. ASSUME NEW k \in AllKeys(before.csv), phase = "write"
        PROVE  k \in Keys(out[turn]) \/ \E s \in Splits \ {turn} : k \in Keys(files.csv[s])
    <3>1. PICK s \in Splits : k \in Keys(before.csv[s])
      BY DEF AllKeys
    <3>2. CASE s > turn
      <4>1. s # turn
        BY <1>t, <2>1, <3>2
      <4> QED BY <2>2, <3>1, <3>2, <4>1
    <3>3. CASE s = turn
      BY <2>3, <2>5, <2>7, <3>1, <3>3
    <3>4. CASE s < turn
      BY <2>5, <2>6, <3>1, <3>4
    <3> QED BY <1>t, <2>1, <3>2, <3>3, <3>4
  <2>8. ASSUME NEW k \in AllKeys(before.csv), phase # "write" PROVE k \in AllKeys(files.csv)
    <3>1. PICK s \in Splits : k \in Keys(before.csv[s])
      BY DEF AllKeys
    <3>2. CASE s >= turn
      <4>1. s > turn \/ s = turn
        BY <1>t, <2>1, <3>2
      <4>2. Keys(files.csv[s]) = Keys(before.csv[s])
        BY <2>2, <2>8, <2>9, <4>1
      <4> QED BY <3>1, <4>2 DEF AllKeys
    <3>3. CASE s < turn
      BY <2>5, <2>6, <3>1, <3>3 DEF AllKeys
    <3>4. s < turn \/ s >= turn
      BY <1>t, <2>1
    <3> QED BY <3>2, <3>3, <3>4
  <2> QED BY <1>4, <2>7, <2>8
<1>5. CASE phase = "idle"
  BY <1>5
<1> QED BY <1>0, <1>1, <1>2, <1>3, <1>4, <1>5 DEF Shapes, Scripts

\* In a clean corpus the rows to come have no key of another file.
LEMMA RowsApart ==
    ASSUME CorpusInv, Made, clean, script # "relabel"
    PROVE  /\ Distinct(out[turn])
           /\ \A t \in Splits \ {turn} : Keys(out[turn]) \cap Keys(files.csv[t]) = {}
<1> USE Typed DEF Typing
<1>0. /\ Shapes /\ AllSettled /\ Untouched /\ Cleanness /\ Integrated /\ NothingAdded
  BY DEF CorpusInv
<1>1. /\ turn \in Splits /\ phase # "idle" /\ script \in Scripts /\ Unique(before.csv) /\ script # "rare"
  BY <1>0 DEF Shapes, Made, Cleanness
<1>2. \A t \in Splits : t > turn => files.csv[t] = before.csv[t]
  BY <1>0, <1>1 DEF Untouched
<1>3. \A t \in Splits \ {turn} : t < turn \/ t > turn
  BY <1>1
<1>4. \A s, t \in Splits : s # t => Keys(before.csv[s]) \cap Keys(before.csv[t]) = {}
  BY <1>1 DEF Unique
<1>5. CASE script = "integrate"
  <2>1. \A s \in Splits :
          /\ s < turn => files.csv[s] = out[s]
          /\ Distinct(out[s])
          /\ \A k \in Keys(out[s]) : k \in OldKeys(before.csv[s]) \/ (Home[k] = s /\ k \notin AllOld(before.csv))
    BY <1>0, <1>5 DEF Integrated, Made
  <2>2. \A s \in Splits : OldKeys(before.csv[s]) \subseteq Keys(before.csv[s]) /\ OldKeys(before.csv[s]) \subseteq AllOld(before.csv)
    BY DEF OldKeys, Keys, AllOld
  <2>3. \A s \in Splits : \A k \in Keys(before.csv[s]) \ OldKeys(before.csv[s]) : Home[k] = s
    <3>1. \A s \in Splits : before.csv[s] \in File /\ Settled(before.csv[s], s, FeedKeys)
      BY <1>0 DEF Shapes, Files, AllSettled
    <3> QED BY <3>1, KeptFile
  <2>4. ASSUME NEW t \in Splits \ {turn}, NEW k \in Keys(out[turn]), k \in Keys(files.csv[t]) PROVE FALSE
    <3>1. CASE t < turn
      <4>1. k \in Keys(out[t])
        BY <2>1, <2>4, <3>1
      <4> QED BY <1>1, <1>4, <2>1, <2>2, <4>1
    <3>2. CASE t > turn
      <4>1. k \in Keys(before.csv[t])
        BY <1>2, <2>4, <3>2
      <4> QED BY <1>1, <1>4, <2>1, <2>2, <2>3, <4>1
    <3> QED BY <1>3, <3>1, <3>2
  <2> QED BY <1>1, <2>1, <2>4
<1>6. CASE script \in {"dedup", "enrich"}
  <2>1. /\ \A s \in 1..turn - 1 : Keys(files.csv[s]) \subseteq Keys(before.csv[s])
        /\ Keys(out[turn]) \subseteq Keys(before.csv[turn]) /\ Distinct(out[turn])
    BY <1>0, <1>1, <1>6 DEF NothingAdded, InTurn
  <2>2. ASSUME NEW t \in Splits \ {turn} PROVE Keys(files.csv[t]) \subseteq Keys(before.csv[t])
    <3>1. CASE t < turn
      <4>1. t \in 1..turn - 1
        BY <1>1, <3>1
      <4> QED BY <2>1, <4>1
    <3>2. CASE t > turn
      BY <1>2, <3>2
    <3> QED BY <1>3, <3>1, <3>2
  <2> QED BY <1>1, <1>4, <2>1, <2>2
<1> QED BY <1>1, <1>5, <1>6 DEF Scripts

-----------------------------------------------------------------------------
(* Every step keeps the invariant                                          *)

LEMMA EmptyFiles ==
    /\ Empty \in [Splits -> File]
    /\ AllKeys(Empty) = {}
    /\ \A s \in Splits : Empty[s] = <<>>
    /\ \A s \in Splits : Settled(Empty[s], s, FeedKeys) /\ Distinct(Empty[s]) /\ Keys(Empty[s]) = {}
<1>1. \A s \in Splits : Empty[s] = <<>>
  BY DEF Empty
<1>2. Empty \in [Splits -> File]
  BY NoRows DEF Empty
<1>3. \A s \in Splits : Settled(Empty[s], s, FeedKeys) /\ Distinct(Empty[s]) /\ Keys(Empty[s]) = {}
  BY <1>1, NoRows
<1> QED BY <1>1, <1>2, <1>3 DEF AllKeys

LEMMA InitHolds == Init => CorpusInv
<1> SUFFICES ASSUME Init PROVE CorpusInv
  OBVIOUS
<1> USE DEF Init
<1>1. files \in [csv : [Splits -> Seq(RowsOf(OldSources, Entity))], hybrid : [Splits -> Seq(RowsOf(OldSources, Entity))]]
  BY CorpusAssumption
<1>2. RowsOf(OldSources, Entity) \subseteq AnyRow
  BY DEF RowsOf, AnyRow, Sources
<1>3. Seq(RowsOf(OldSources, Entity)) \subseteq File
  BY <1>2 DEF File
<1>4. files \in Files
  BY <1>1, <1>3 DEF Files
<1>5. RareAdditions \in [Splits -> File]
  BY RareFile
<1>6. Shapes
  <2>1. phase = "idle" /\ script = "none" /\ turn = 1 /\ fresh = Empty /\ out = Empty /\ clean = FALSE
    BY DEF Init
  <2>2. before \in Files /\ feed \in Feeds
    BY <1>4 DEF Init
  <2>3. clean \in BOOLEAN
    BY <2>1
  <2>4. fresh \in [Splits -> File] /\ out \in [Splits -> File]
    BY <2>1, EmptyFiles
  <2> HIDE DEF Init
  <2> QED BY <1>4, <2>1, <2>2, <2>3, <2>4 DEF Shapes
<1>7. ASSUME NEW s \in Splits PROVE Settled(files.csv[s], s, FeedKeys)
  <2>1. files.csv[s] \in Seq(RowsOf(OldSources, Entity))
    BY <1>1
  <2>2. \A i \in DOMAIN files.csv[s] : files.csv[s][i].source \in OldSources
    <3>1. \A i \in DOMAIN files.csv[s] : files.csv[s][i] \in RowsOf(OldSources, Entity)
      BY ONLY <2>1
    <3>2. \A r \in RowsOf(OldSources, Entity) : r.source \in OldSources
      BY DEF RowsOf
    <3> QED BY <3>1, <3>2
  <2>3. \A x \in OldSources : x \notin NewSources /\ x # "rare"
    BY CorpusAssumption
  <2> QED BY <2>2, <2>3 DEF Settled
<1>8. AllSettled
  BY <1>7, EmptyFiles DEF AllSettled
<1>9. TextsSurvive
  BY DEF TextsSurvive
<1> QED BY <1>6, <1>8, <1>9 DEF CorpusInv, Untouched, Cleanness, Taken, Integrated, Covered, NothingAdded,
       Deduplicated, InTurn

LEMMA StutterHolds == CorpusInv /\ UNCHANGED vars => CorpusInv'
<1> SUFFICES ASSUME CorpusInv, UNCHANGED vars PROVE CorpusInv'
  OBVIOUS
<1> USE DEF vars, process, history
<1>1. FeedKeys' = FeedKeys
  BY DEF FeedKeys
<1>2. Shapes' /\ AllSettled' /\ Untouched' /\ Cleanness'
  BY <1>1 DEF CorpusInv, Shapes, AllSettled, Untouched, Cleanness
<1>3. Taken' /\ Integrated' /\ TextsSurvive'
  BY DEF CorpusInv, Taken, Integrated, TextsSurvive
<1>4. InTurn' = InTurn /\ Made' = Made /\ Written' = Written /\ Behind' = Behind
  BY DEF InTurn, Made, Written, Behind
<1>5. Covered' /\ NothingAdded' /\ Deduplicated'
  BY <1>4 DEF CorpusInv, Covered, NothingAdded, Deduplicated
<1> QED BY <1>2, <1>3, <1>5 DEF CorpusInv

LEMMA LaunchHolds == ASSUME CorpusInv, NEW s \in Scripts, Launch(s) PROVE CorpusInv'
<1> USE DEF Launch
<1>0. /\ Shapes /\ AllSettled /\ Cleanness
  BY DEF CorpusInv
<1>1. FeedKeys' = FeedKeys
  BY DEF FeedKeys
<1>2. Shapes'
  BY <1>0, EmptyFiles, RareFile DEF Shapes, Scripts, Splits
<1>3. AllSettled'
  BY <1>0, <1>1, EmptyFiles, RareFile DEF AllSettled
<1>4. Untouched' /\ Taken' /\ Integrated' /\ TextsSurvive'
  BY DEF Untouched, Taken, Integrated, TextsSurvive
<1>5. Cleanness'
  BY <1>0 DEF Cleanness
<1>6. Behind' = {} /\ Written' = {} /\ Made' = FALSE
  BY DEF Behind, Written, Made
<1>7. Covered' /\ NothingAdded' /\ Deduplicated'
  BY <1>6 DEF Covered, NothingAdded, Deduplicated
<1> QED BY <1>2, <1>3, <1>4, <1>5, <1>7 DEF CorpusInv

\* A script that fails leaves the files as they are.
LEMMA FailsHolds == ASSUME CorpusInv, phase \in {"read", "take", "open"}, Fails PROVE CorpusInv'
<1> USE DEF Fails, Ends
<1>0. /\ Shapes /\ AllSettled /\ Cleanness
  BY DEF CorpusInv
<1>1. FeedKeys' = FeedKeys
  BY DEF FeedKeys
<1>2. Shapes'
  BY <1>0, EmptyFiles DEF Shapes, Scripts
<1>3. AllSettled'
  BY <1>0, <1>1, EmptyFiles DEF AllSettled
<1>4. Cleanness'
  BY <1>0 DEF Cleanness
<1>5. TextsSurvive'
  BY NothingLost DEF TextsSurvive
<1>6. Untouched' /\ Taken' /\ Integrated' /\ Covered' /\ NothingAdded' /\ Deduplicated'
  BY DEF Untouched, Taken, Integrated, Covered, NothingAdded, Deduplicated, InTurn
<1> QED BY <1>2, <1>3, <1>4, <1>5, <1>6 DEF CorpusInv

\* What opening, writing and a stop have in common: the file in turn changes.
LEMMA Placed ==
    ASSUME CorpusInv, phase \in {"open", "write"}, NEW rows \in File,
           script # "relabel" => Settled(rows, turn, FeedKeys),
           clean /\ script # "relabel" => /\ Distinct(rows)
                                          /\ \A t \in Splits \ {turn} : Keys(rows) \cap Keys(files.csv[t]) = {}
    PROVE  /\ turn \in Splits /\ PutInTurn(rows) \in Files
           /\ script = "relabel" => PutInTurn(rows).csv = files.csv
           /\ script # "relabel" => /\ PutInTurn(rows).csv[turn] = rows
                                 /\ \A s \in Splits \ {turn} : PutInTurn(rows).csv[s] = files.csv[s]
           /\ \A s \in Splits : Settled(PutInTurn(rows).csv[s], s, FeedKeys)
           /\ clean => Unique(PutInTurn(rows).csv)
<1> DEFINE f == PutInTurn(rows)
<1>0. /\ Shapes /\ AllSettled /\ Cleanness
  BY DEF CorpusInv
<1>1. turn \in Splits /\ files \in Files /\ files.csv \in [Splits -> File]
  BY <1>0 DEF Shapes, Files
<1>2. /\ f \in Files
      /\ script # "relabel" => f.csv = [files.csv EXCEPT ![turn] = rows]
      /\ script = "relabel" => f.csv = files.csv
  BY <1>1, PutFile DEF PutInTurn
<1> HIDE DEF f
<1>3. script # "relabel" => f.csv[turn] = rows /\ \A s \in Splits \ {turn} : f.csv[s] = files.csv[s]
  BY <1>1, <1>2, Put
<1>4. \A s \in Splits : Settled(f.csv[s], s, FeedKeys)
  BY <1>0, <1>2, <1>3 DEF AllSettled
<1>5. ASSUME clean PROVE Unique(f.csv)
  <2>1. Unique(files.csv)
    BY <1>0, <1>5 DEF Cleanness
  <2>2. CASE script = "relabel"
    BY <1>2, <2>1, <2>2
  <2>3. CASE script # "relabel"
    BY <1>3, <1>5, <2>1, <2>3 DEF Unique
  <2> QED BY <2>2, <2>3
<1> QED BY <1>1, <1>2, <1>3, <1>4, <1>5 DEF f

LEMMA TornHolds == ASSUME CorpusInv, Torn PROVE CorpusInv'
<1> USE DEF Ends
<1>0. /\ Shapes /\ AllSettled /\ Cleanness /\ turn \in Splits /\ out[turn] \in File
  BY DEF CorpusInv, Torn, Shapes
<1>1. FeedKeys' = FeedKeys
  BY DEF Torn, FeedKeys
<1>2. PICK n \in 0..Len(out[turn]) :
          /\ files' = PutInTurn(SubSeq(out[turn], 1, n))
          /\ lost' = Keys(out[turn]) \ Keys(SubSeq(out[turn], 1, n))
  BY DEF Torn, PutInTurn
<1> DEFINE rows == SubSeq(out[turn], 1, n)
<1>e. /\ Ends /\ phase = "write" /\ Made /\ UNCHANGED <<feed, runs, before, clean>>
  BY DEF Torn, Made
<1>3. /\ rows \in File /\ Keys(rows) \subseteq Keys(out[turn])
      /\ Distinct(out[turn]) => Distinct(rows)
      /\ script # "relabel" => Settled(rows, turn, FeedKeys)
  <2>1. script # "relabel" => Settled(out[turn], turn, FeedKeys)
    BY <1>0 DEF AllSettled
  <2> QED BY <1>0, <2>1, PrefixFile
<1>4. clean /\ script # "relabel" => /\ Distinct(rows)
                                   /\ \A t \in Splits \ {turn} : Keys(rows) \cap Keys(files.csv[t]) = {}
  <2> SUFFICES ASSUME clean, script # "relabel"
               PROVE  Distinct(rows) /\ \A t \in Splits \ {turn} : Keys(rows) \cap Keys(files.csv[t]) = {}
    OBVIOUS
  <2>1. /\ Distinct(out[turn])
        /\ \A t \in Splits \ {turn} : Keys(out[turn]) \cap Keys(files.csv[t]) = {}
    BY <1>e, RowsApart
  <2> HIDE DEF rows
  <2> QED BY <1>3, <2>1
<1> HIDE DEF rows
<1>5. /\ PutInTurn(rows) \in Files
      /\ script = "relabel" => PutInTurn(rows).csv = files.csv
      /\ script # "relabel" => /\ PutInTurn(rows).csv[turn] = rows
                              /\ \A s \in Splits \ {turn} : PutInTurn(rows).csv[s] = files.csv[s]
      /\ \A s \in Splits : Settled(PutInTurn(rows).csv[s], s, FeedKeys)
      /\ clean => Unique(PutInTurn(rows).csv)
  BY <1>e, <1>3, <1>4, Placed
<1>p. files' = PutInTurn(rows)
  BY <1>2 DEF rows
<1>6. Shapes'
  BY <1>0, <1>5, <1>p, <1>e, EmptyFiles DEF Shapes, Scripts
<1>7. AllSettled'
  BY <1>0, <1>1, <1>5, <1>p, <1>e, EmptyFiles DEF AllSettled
<1>8. Cleanness'
  BY <1>5, <1>p, <1>e DEF Cleanness
<1>9. TextsSurvive'
  <2>1. CASE script = "relabel"
    BY <1>5, <1>p, <1>e, <2>1, NothingLost DEF TextsSurvive
  <2>2. CASE script # "relabel"
    <3>1. ASSUME NEW k \in AllKeys(before.csv) PROVE k \in AllKeys(files'.csv) \cup lost'
      <4>1. k \in Keys(out[turn]) \/ \E s \in Splits \ {turn} : k \in Keys(files.csv[s])
        BY <1>e, <2>2, NothingLost
      <4>2. CASE k \in Keys(out[turn])
        <5>1. k \in Keys(rows) \/ k \in lost'
          BY <1>2, <4>2 DEF rows
        <5>2. Keys(rows) \subseteq AllKeys(files'.csv)
          BY <1>0, <1>5, <1>p, <2>2 DEF AllKeys
        <5> QED BY <5>1, <5>2
      <4>3. ASSUME NEW s \in Splits \ {turn}, k \in Keys(files.csv[s]) PROVE k \in AllKeys(files'.csv)
        BY <1>5, <1>p, <2>2, <4>3 DEF AllKeys
      <4> QED BY <4>1, <4>2, <4>3
    <3> QED BY <1>e, <3>1 DEF TextsSurvive
  <2> QED BY <2>1, <2>2
<1>10. Untouched' /\ Taken' /\ Integrated' /\ Covered' /\ NothingAdded' /\ Deduplicated'
  BY <1>e DEF Untouched, Taken, Integrated, Covered, NothingAdded, Deduplicated, InTurn
<1> QED BY <1>6, <1>7, <1>8, <1>9, <1>10 DEF CorpusInv

LEMMA ReadAllHolds == ASSUME CorpusInv, ReadAll PROVE CorpusInv'
<1> USE DEF ReadAll, history
<1>0. /\ Shapes /\ AllSettled /\ Cleanness /\ Untouched
  BY DEF CorpusInv
<1>1. FeedKeys' = FeedKeys
  BY DEF FeedKeys
<1>2. turn = 1 /\ fresh = Empty
  BY <1>0 DEF Shapes
<1>3. \A s \in Splits : files.csv[s] = before.csv[s] /\ before.csv[s] \in File /\ out'[s] = NotNew(before.csv[s])
  <2>1. \A s \in Splits : s > 1 \/ s = 1
    BY DEF Splits
  <2>2. \A s \in Splits : files.csv[s] = before.csv[s]
    BY <1>0, <1>2, <2>1 DEF Untouched
  <2>3. \A s \in Splits : before.csv[s] \in File
    BY <1>0 DEF Shapes, Files
  <2> QED BY <2>2, <2>3
<1>4. \A s \in Splits : /\ out'[s] \in File /\ Keys(out'[s]) = OldKeys(before.csv[s])
                       /\ Settled(out'[s], s, FeedKeys)
  <2>1. \A s \in Splits : Settled(before.csv[s], s, FeedKeys)
    BY <1>0 DEF AllSettled
  <2> QED BY <1>3, <2>1, KeptFile
<1>5. seen' = AllOld(before.csv)
  BY <1>4 DEF AllKeys, AllOld
<1>6. Shapes'
  <2>1. out' \in [Splits -> File]
    BY <1>4
  <2> QED BY <1>0, <2>1 DEF Shapes
<1>7. AllSettled'
  BY <1>0, <1>1, <1>4 DEF AllSettled
<1>8. Untouched' /\ Cleanness'
  BY <1>0, <1>3 DEF Untouched, Cleanness
<1>9. Taken'
  <2>1. out' = [s \in Splits |-> NotNew(before.csv[s])]
    BY <1>3
  <2>2. seen' = AllOld(before.csv) \cup AllKeys(Empty)
    BY <1>5, EmptyFiles
  <2>3. \A i \in DOMAIN feed : ~(i < 1)
    BY <1>0, CorpusAssumption DEF Shapes
  <2> QED BY <1>2, <2>1, <2>2, <2>3, EmptyFiles DEF Taken
<1>10. Integrated' /\ Covered' /\ NothingAdded' /\ Deduplicated' /\ TextsSurvive'
  BY DEF Integrated, Covered, NothingAdded, Deduplicated, InTurn, TextsSurvive
<1> QED BY <1>6, <1>7, <1>8, <1>9, <1>10 DEF CorpusInv

LEMMA FeedFacts ==
    ASSUME Shapes, Taking
    PROVE  /\ turn \in DOMAIN feed /\ DOMAIN feed = 1..Len(feed) /\ Len(feed) \in Nat
           /\ feed[turn].source \in NewSources /\ feed[turn].text \in Texts
           /\ Kept \subseteq FeedEntities
<1>1. feed \in Feeds /\ turn \in Nat \ {0} /\ turn <= Len(feed)
  BY DEF Shapes, Taking
<1>2. DOMAIN feed = 1..Len(feed) /\ Len(feed) \in Nat
  BY <1>1, CorpusAssumption
<1>3. turn \in DOMAIN feed
  BY <1>1, <1>2
<1>4. feed[turn].source \in NewSources /\ feed[turn].text \in Texts
  BY <1>1, <1>3, CorpusAssumption DEF SourceRow
<1>5. Kept = Sanitized(Extracted(feed[turn]).entities)
  BY DEF Kept, Given
<1>6. Kept \subseteq FeedEntities
  BY <1>1, <1>3, <1>5 DEF FeedEntities
<1> QED BY <1>2, <1>3, <1>4, <1>6

LEMMA SkipRowHolds == ASSUME CorpusInv, SkipRow PROVE CorpusInv'
<1> USE DEF SkipRow, history
<1>0. /\ Shapes /\ AllSettled /\ Cleanness /\ Untouched /\ Taken /\ phase = "take" /\ script = "integrate"
  BY DEF CorpusInv, Taking, Shapes
<1>1. FeedKeys' = FeedKeys
  BY DEF FeedKeys
<1>2. Shapes'
  BY <1>0 DEF Shapes
<1>3. AllSettled' /\ Untouched' /\ Cleanness'
  BY <1>0, <1>1 DEF AllSettled, Untouched, Cleanness
<1>4. Usable(feed[turn]) => Key[feed[turn].text] \in seen
  BY DEF Usable, Unusable, Known, Kept, Given
<1>5. Taken'
  <2>1. ASSUME NEW i \in DOMAIN feed, i < turn + 1, Usable(feed[i]) PROVE Key[feed[i].text] \in seen
    <3>1. i = turn \/ i < turn
      BY <1>0, <2>1, FeedFacts DEF Shapes
    <3> QED BY <1>0, <1>4, <2>1, <3>1 DEF Taken
  <2> QED BY <1>0, <2>1 DEF Taken
<1>6. Integrated' /\ Covered' /\ NothingAdded' /\ Deduplicated' /\ TextsSurvive'
  BY <1>0 DEF Integrated, Covered, NothingAdded, Deduplicated, InTurn, TextsSurvive
<1> QED BY <1>2, <1>3, <1>5, <1>6 DEF CorpusInv

LEMMA AddRowHolds == ASSUME CorpusInv, AddRow PROVE CorpusInv'
<1> USE DEF AddRow, history
<1> DEFINE key == Key[feed[turn].text]
           t == Home[key]
<1>0. /\ Shapes /\ AllSettled /\ Cleanness /\ Untouched /\ Taken /\ phase = "take" /\ script = "integrate"
  BY DEF CorpusInv, Taking, Shapes
<1>1. FeedKeys' = FeedKeys
  BY DEF FeedKeys
<1>f. /\ turn \in DOMAIN feed /\ feed[turn].source \in NewSources /\ feed[turn].text \in Texts
      /\ Kept \subseteq FeedEntities /\ t \in Splits /\ t \in Nat
  BY <1>0, FeedFacts, Typed DEF Typing
<1>u. Usable(feed[turn])
  BY DEF Usable, Unusable, Kept, Given
<1>k. key \in FeedKeys /\ key \notin seen
  BY <1>f, <1>u DEF FeedKeys, Known
<1>2. PICK r \in AnyRow : /\ r.text = feed[turn].text /\ r.source = feed[turn].source
                         /\ fresh' = [fresh EXCEPT ![t] = Append(@, r)]
  <2>1. Len(fresh[t]) \in Nat
    BY <1>0, <1>f, FileFacts DEF Shapes
  <2> DEFINE r == Row(<<feed[turn].source, t, Len(fresh[t])>>, feed[turn].source, feed[turn].text, Kept)
  <2>2. r \in AnyRow /\ r.text = feed[turn].text /\ r.source = feed[turn].source
    BY <1>f, <2>1, MadeRow
  <2>3. fresh' = [fresh EXCEPT ![t] = Append(@, r)]
    BY DEF Added
  <2> QED BY <2>2, <2>3
<1>3. fresh[t] \in File /\ Settled(fresh[t], t, FeedKeys) /\ Distinct(fresh[t])
  <2> HIDE DEF t
  <2>1. fresh[t] \in File
    BY <1>0, <1>f DEF Shapes
  <2>2. Settled(fresh[t], t, FeedKeys)
    BY <1>0, <1>f DEF AllSettled
  <2>3. Distinct(fresh[t])
    BY <1>0, <1>f DEF Taken
  <2> QED BY <2>1, <2>2, <2>3
<1>4. Settled(<<r>>, t, FeedKeys)
  <2>1. r.source \in NewSources /\ r.source # "rare" /\ Key[r.text] = key /\ Home[key] = t
    BY <1>2, <1>f, Typed DEF Typing
  <2> HIDE DEF key, t
  <2>2. DOMAIN <<r>> = {1} /\ <<r>>[1] = r
    OBVIOUS
  <2>3. key \in FeedKeys
    BY <1>k DEF key
  <2> QED BY ONLY <2>1, <2>2, <2>3 DEF Settled
<1>5. key \notin AllOld(before.csv) /\ key \notin AllKeys(fresh)
  BY <1>0, <1>k DEF Taken
<1> HIDE DEF key, t
<1>6. /\ Append(fresh[t], r) \in File /\ Keys(Append(fresh[t], r)) = Keys(fresh[t]) \cup {key}
      /\ Settled(Append(fresh[t], r), t, FeedKeys) /\ Distinct(Append(fresh[t], r))
  <2>1. Key[r.text] = key /\ key \notin Keys(fresh[t])
    BY <1>2, <1>5, <1>f DEF key, AllKeys
  <2> QED BY <1>3, <1>4, <2>1, AppendFile
<1>7. /\ fresh' \in [Splits -> File] /\ fresh'[t] = Append(fresh[t], r)
      /\ \A s \in Splits \ {t} : fresh'[s] = fresh[s]
  BY <1>0, <1>2, <1>6, <1>f, Put DEF Shapes
<1>8. AllKeys(fresh') = AllKeys(fresh) \cup {key}
  BY <1>6, <1>7, <1>f DEF AllKeys
<1>9. Shapes'
  BY <1>0, <1>7 DEF Shapes
<1>10. AllSettled'
  <2>1. \A s \in Splits : Settled(fresh'[s], s, FeedKeys)
    BY <1>0, <1>6, <1>7 DEF AllSettled
  <2> QED BY <1>0, <1>1, <2>1 DEF AllSettled
<1>11. Untouched' /\ Cleanness'
  BY <1>0 DEF Untouched, Cleanness
<1>12. Taken'
  <2>1. seen' = seen \cup {key}
    BY DEF key
  <2>2. seen' = AllOld(before.csv) \cup AllKeys(fresh')
    BY <1>0, <1>8, <2>1 DEF Taken
  <2>3. ASSUME NEW i \in DOMAIN feed, i < turn + 1, Usable(feed[i]) PROVE Key[feed[i].text] \in seen'
    <3>1. i = turn \/ i < turn
      BY <1>0, <2>3, FeedFacts DEF Shapes
    <3>2. i < turn => Key[feed[i].text] \in seen
      BY <1>0, <2>3 DEF Taken
    <3> QED BY <2>1, <3>1, <3>2 DEF key
  <2>4. AllKeys(fresh') \cap AllOld(before.csv) = {}
    BY <1>0, <1>5, <1>8 DEF Taken
  <2>5. ASSUME NEW s \in Splits PROVE Distinct(fresh'[s]) /\ \A k \in Keys(fresh'[s]) : Home[k] = s
    <3>1. Distinct(fresh[s]) /\ \A k \in Keys(fresh[s]) : Home[k] = s
      BY <1>0 DEF Taken
    <3>2. s = t => Keys(fresh'[s]) = Keys(fresh[s]) \cup {key} /\ Distinct(fresh'[s])
      BY <1>6, <1>7
    <3>3. s # t => fresh'[s] = fresh[s]
      BY <1>7
    <3>4. Home[key] = t
      BY DEF t
    <3> QED BY <3>1, <3>2, <3>3, <3>4
  <2>6. /\ phase' = "take" /\ out' = [s \in Splits |-> NotNew(before'.csv[s])] /\ turn' = turn + 1
        /\ UNCHANGED <<feed, before>>
    BY <1>0 DEF Taken
  <2> QED BY <2>2, <2>3, <2>4, <2>5, <2>6 DEF Taken
<1>13. Integrated' /\ Covered' /\ NothingAdded' /\ Deduplicated' /\ TextsSurvive'
  BY <1>0 DEF Integrated, Covered, NothingAdded, Deduplicated, InTurn, TextsSurvive
<1> QED BY <1>9, <1>10, <1>11, <1>12, <1>13 DEF CorpusInv

LEMMA EndTakeHolds == ASSUME CorpusInv, EndTake PROVE CorpusInv'
<1>e. /\ phase' = "open" /\ turn' = 1 /\ turn > Len(feed) /\ out' = [s \in Splits |-> out[s] \o fresh[s]]
      /\ UNCHANGED <<files, feed, script, seen, fresh, runs, before, last, clean, lost>>
  BY DEF EndTake, history
<1>0. /\ Shapes /\ AllSettled /\ Cleanness /\ Untouched /\ Taken /\ phase = "take" /\ script = "integrate"
  BY DEF CorpusInv, Shapes, EndTake
<1>1. FeedKeys' = FeedKeys
  BY <1>e DEF FeedKeys
<1>2. ASSUME NEW s \in Splits
      PROVE  /\ before.csv[s] \in File /\ fresh[s] \in File
             /\ Settled(before.csv[s], s, FeedKeys) /\ Settled(fresh[s], s, FeedKeys)
             /\ Distinct(fresh[s]) /\ out[s] = NotNew(before.csv[s]) /\ out'[s] = out[s] \o fresh[s]
  <2>1. before.csv[s] \in File /\ fresh[s] \in File
    BY <1>0 DEF Shapes, Files
  <2>2. Settled(before.csv[s], s, FeedKeys) /\ Settled(fresh[s], s, FeedKeys)
    BY <1>0 DEF AllSettled
  <2>3. Distinct(fresh[s]) /\ out[s] = NotNew(before.csv[s])
    BY <1>0 DEF Taken
  <2>4. out'[s] = out[s] \o fresh[s]
    BY <1>e
  <2> QED BY <2>1, <2>2, <2>3, <2>4
<1>3. ASSUME NEW s \in Splits
      PROVE  /\ out[s] \in File /\ Keys(out[s]) = OldKeys(before.csv[s])
             /\ Settled(out[s], s, FeedKeys)
             /\ Distinct(before.csv[s]) => Distinct(out[s])
             /\ \A k \in Keys(before.csv[s]) \ OldKeys(before.csv[s]) : Home[k] = s /\ k \in FeedKeys
  <2>1. before.csv[s] \in File /\ Settled(before.csv[s], s, FeedKeys) /\ out[s] = NotNew(before.csv[s])
    BY <1>2
  <2>2. /\ out[s] \in File /\ Keys(out[s]) = OldKeys(before.csv[s])
        /\ Distinct(before.csv[s]) => Distinct(out[s])
    BY <2>1, KeptFile
  <2>3. /\ Settled(out[s], s, FeedKeys)
        /\ \A k \in Keys(before.csv[s]) \ OldKeys(before.csv[s]) : Home[k] = s /\ k \in FeedKeys
    BY <2>1, KeptFile
  <2> QED BY <2>2, <2>3
<1>4. ASSUME NEW s \in Splits
      PROVE  /\ out'[s] \in File /\ Keys(out'[s]) = OldKeys(before.csv[s]) \cup Keys(fresh[s])
             /\ Settled(out'[s], s, FeedKeys)
             /\ Distinct(out[s]) /\ Keys(out[s]) \cap Keys(fresh[s]) = {} => Distinct(out'[s])
  <2>1. out[s] \in File /\ fresh[s] \in File /\ out'[s] = out[s] \o fresh[s]
    BY <1>2, <1>3
  <2>2. /\ out'[s] \in File /\ Keys(out'[s]) = Keys(out[s]) \cup Keys(fresh[s])
        /\ Distinct(out[s]) /\ Distinct(fresh[s]) /\ Keys(out[s]) \cap Keys(fresh[s]) = {} => Distinct(out'[s])
        /\ Settled(out[s], s, FeedKeys) /\ Settled(fresh[s], s, FeedKeys) => Settled(out'[s], s, FeedKeys)
    BY <2>1, ConcatFile
  <2> QED BY <1>2, <1>3, <2>2
<1>5. ASSUME NEW s \in Splits
      PROVE  OldKeys(before.csv[s]) \cap Keys(fresh[s]) = {} /\ Keys(fresh[s]) \cap AllOld(before.csv) = {}
  BY <1>0 DEF Taken, AllOld, AllKeys
<1>6. Shapes'
  <2>1. out' \in [Splits -> File]
    BY <1>e, <1>4
  <2> QED BY <1>0, <1>e, <2>1 DEF Shapes, Splits
<1>7. AllSettled'
  BY <1>0, <1>1, <1>4, <1>e DEF AllSettled
<1>8. \A s \in Splits : files.csv[s] = before.csv[s]
  BY <1>0 DEF Untouched
<1>9. Untouched' /\ Cleanness'
  BY <1>0, <1>8, <1>e DEF Untouched, Cleanness
<1>10. \A k \in FeedKeys : k \in AllOld(before.csv) \cup AllKeys(fresh)
  <2>1. ASSUME NEW i \in DOMAIN feed, Usable(feed[i]) PROVE Key[feed[i].text] \in seen
    <3>1. i < turn
      <4>1. DOMAIN feed = 1..Len(feed) /\ Len(feed) \in Nat /\ turn \in Nat /\ turn > Len(feed)
        BY <1>0, <1>e, CorpusAssumption DEF Shapes
      <4> QED BY <4>1
    <3> QED BY <1>0, <2>1, <3>1 DEF Taken
  <2> QED BY <1>0, <2>1 DEF FeedKeys, Taken
<1>11. Integrated'
  <2>1. ASSUME NEW s \in Splits, NEW k \in Keys(before.csv[s]) PROVE k \in Keys(out'[s]) \cup AllOld(before.csv)
    <3>1. CASE k \in OldKeys(before.csv[s])
      BY <1>4, <3>1
    <3>2. CASE k \notin OldKeys(before.csv[s])
      <4>1. Home[k] = s /\ k \in FeedKeys
        BY <1>3, <3>2
      <4>2. CASE k \in AllKeys(fresh)
        <5>1. PICK u \in Splits : k \in Keys(fresh[u])
          BY <4>2 DEF AllKeys
        <5>2. u = s
          BY <1>0, <4>1, <5>1 DEF Taken
        <5> QED BY <1>4, <5>1, <5>2
      <4> QED BY <1>10, <4>1, <4>2
    <3> QED BY <3>1, <3>2
  <2>2. \A s \in Splits : ~(s < 1)
    BY DEF Splits
  <2>3. ASSUME NEW s \in Splits, NEW k \in Keys(out'[s])
        PROVE  k \in OldKeys(before.csv[s]) \/ (Home[k] = s /\ k \notin AllOld(before.csv))
    BY <1>0, <1>4, <1>5 DEF Taken
  <2>4. ASSUME clean PROVE \A s \in Splits : Distinct(out'[s])
    <3>1. \A s \in Splits : Distinct(before.csv[s])
      BY <1>0, <2>4 DEF Cleanness, Unique
    <3> QED BY <1>3, <1>4, <1>5, <3>1
  <2>5. ASSUME NEW s \in Splits
        PROVE  OldKeys(before.csv[s]) \subseteq Keys(out'[s]) /\ Keys(before.csv[s]) \subseteq Keys(out'[s]) \cup AllOld(before.csv)
    BY <1>4, <2>1
  <2> QED BY <1>e, <2>2, <2>3, <2>4, <2>5 DEF Integrated
<1>12. Taken' /\ Covered' /\ NothingAdded' /\ Deduplicated' /\ TextsSurvive'
  BY <1>0, <1>e DEF Taken, Covered, NothingAdded, Deduplicated, InTurn, TextsSurvive
<1> QED BY <1>6, <1>7, <1>9, <1>11, <1>12 DEF CorpusInv

\* The scripts that go from split to split read one that is as they found it.
LEMMA InTurnFacts ==
    ASSUME CorpusInv, phase = "read", script \in {"rare", "dedup", "enrich", "relabel"}
    PROVE  /\ turn \in Splits /\ files.csv[turn] \in File /\ files.csv[turn] = before.csv[turn]
           /\ Settled(files.csv[turn], turn, FeedKeys)
           /\ clean => Distinct(files.csv[turn])
           /\ files.hybrid[turn] \in File
<1>0. /\ Shapes /\ AllSettled /\ Untouched /\ Cleanness
  BY DEF CorpusInv
<1>1. turn \in Splits
  BY <1>0 DEF Shapes
<1>2. files.csv[turn] \in File /\ files.hybrid[turn] \in File
  BY <1>0, <1>1 DEF Shapes, Files
<1>3. files.csv[turn] = before.csv[turn]
  BY <1>0, <1>1 DEF Untouched
<1>4. Settled(files.csv[turn], turn, FeedKeys)
  BY <1>0, <1>1 DEF AllSettled
<1>5. clean => Distinct(files.csv[turn])
  BY <1>0, <1>1 DEF Cleanness, Unique
<1> QED BY <1>1, <1>2, <1>3, <1>4, <1>5

LEMMA ReadToHolds ==
    ASSUME CorpusInv, phase = "read", script \in {"rare", "dedup", "enrich", "relabel"},
           NEW rows \in File, ReadTo(rows),
           script # "relabel" => /\ Settled(rows, turn, FeedKeys)
                                 /\ Keys(before.csv[turn]) \subseteq Keys(rows) \cup Written,
           script \in {"dedup", "enrich"} => Keys(rows) \subseteq Keys(before.csv[turn]),
           script = "enrich" /\ clean => Distinct(rows),
           script = "dedup" => /\ Distinct(rows) /\ Keys(rows) \cap Behind = {}
                               /\ seen' = seen \cup Keys(before.csv[turn])
    PROVE  CorpusInv'
<1>e. /\ out' = [out EXCEPT ![turn] = rows] /\ phase' = "open"
      /\ UNCHANGED <<files, feed, script, turn, fresh, runs, before, last, clean, lost>>
  BY DEF ReadTo, history
<1>0. /\ Shapes /\ AllSettled /\ Cleanness /\ Untouched /\ Covered /\ NothingAdded /\ Deduplicated
  BY DEF CorpusInv
<1>1. FeedKeys' = FeedKeys
  BY <1>e DEF FeedKeys
<1>2. turn \in Splits /\ out \in [Splits -> File]
  BY <1>0 DEF Shapes
<1>3. out' \in [Splits -> File] /\ out'[turn] = rows /\ \A s \in Splits \ {turn} : out'[s] = out[s]
  BY <1>2, <1>e, Put
<1>4. Shapes'
  BY <1>0, <1>e, <1>2, <1>3 DEF Shapes
<1>5. AllSettled'
  <2>1. ASSUME script # "relabel", NEW s \in Splits PROVE Settled(out'[s], s, FeedKeys)
    BY <1>0, <1>3, <2>1 DEF AllSettled
  <2> QED BY <1>0, <1>1, <1>e, <2>1 DEF AllSettled
<1>6. Untouched' /\ Cleanness'
  BY <1>0, <1>e DEF Untouched, Cleanness
<1>7. /\ Written' = Written /\ Behind' = Behind /\ Made' /\ ~Made /\ (InTurn' <=> script # "relabel")
      /\ script # "relabel" => InTurn
  BY <1>e DEF Written, Behind, Made, InTurn
<1>8. Covered'
  BY <1>0, <1>3, <1>7, <1>e DEF Covered
<1>9. NothingAdded'
  <2>1. CASE script \in {"dedup", "enrich"}
    <3>1. \A s \in 1..turn - 1 : Keys(files.csv[s]) \subseteq Keys(before.csv[s])
      BY <1>0, <1>7, <2>1 DEF NothingAdded
    <3> QED BY <1>3, <1>7, <1>e, <2>1, <3>1 DEF NothingAdded
  <2>2. CASE script \in {"rare", "relabel"}
    BY <1>7, <1>e, <2>2 DEF NothingAdded
  <2> QED BY <2>1, <2>2
<1>10. Deduplicated'
  <2>1. CASE script = "dedup"
    <3>1. seen = Behind
      BY <1>0, <1>7, <2>1 DEF Deduplicated
    <3>2. /\ \A s \in 1..turn - 1 : Distinct(files.csv[s])
          /\ \A s, t \in 1..turn - 1 : s # t => Keys(files.csv[s]) \cap Keys(files.csv[t]) = {}
      BY <1>0, <1>7, <2>1 DEF Deduplicated
    <3>3. seen' = Behind' \cup Keys(before'.csv[turn'])
      BY <1>7, <1>e, <2>1, <3>1
    <3> QED BY <1>3, <1>7, <1>e, <2>1, <3>2, <3>3 DEF Deduplicated
  <2>2. CASE script # "dedup"
    BY <1>e, <2>2 DEF Deduplicated
  <2> QED BY <2>1, <2>2
<1>11. Taken' /\ Integrated' /\ TextsSurvive'
  BY <1>e DEF Taken, Integrated, TextsSurvive
<1> QED BY <1>4, <1>5, <1>6, <1>8, <1>9, <1>10, <1>11 DEF CorpusInv

LEMMA ReadRareHolds == ASSUME CorpusInv, ReadRare PROVE CorpusInv'
<1> DEFINE rows == Others(files.csv[turn]) \o fresh[turn]
<1>0. phase = "read" /\ script = "rare" /\ ReadTo(rows)
  BY DEF ReadRare, Reading
<1>1. /\ turn \in Splits /\ files.csv[turn] \in File /\ files.csv[turn] = before.csv[turn]
      /\ Settled(files.csv[turn], turn, FeedKeys)
  BY <1>0, InTurnFacts
<1>2. fresh = RareAdditions
  BY <1>0 DEF CorpusInv, Shapes
<1>3. fresh[turn] \in File /\ Settled(fresh[turn], turn, FeedKeys)
  BY <1>1, <1>2, RareFile
<1>4. /\ Others(files.csv[turn]) \in File /\ Settled(Others(files.csv[turn]), turn, FeedKeys)
      /\ \A k \in Keys(files.csv[turn]) \ Keys(Others(files.csv[turn])) : Home[k] = turn /\ k \in RareKeys
  BY <1>1, KeptFile
<1>5. rows \in File /\ Keys(rows) = Keys(Others(files.csv[turn])) \cup Keys(fresh[turn])
  BY <1>3, <1>4, ConcatFile
<1>6. Settled(rows, turn, FeedKeys)
  BY <1>3, <1>4, ConcatFile
<1>7. Keys(before.csv[turn]) \subseteq Keys(rows)
  BY <1>1, <1>2, <1>4, <1>5, RareFile
<1> HIDE DEF rows
<1> QED BY <1>0, <1>5, <1>6, <1>7, ReadToHolds

LEMMA ReadDedupHolds == ASSUME CorpusInv, ReadDedup PROVE CorpusInv'
<1> DEFINE rows == Firsts(files.csv[turn])
<1>0. phase = "read" /\ script = "dedup" /\ ReadTo(rows) /\ seen' = seen \cup Keys(files.csv[turn])
  BY DEF ReadDedup, Reading
<1>1. /\ turn \in Splits /\ files.csv[turn] \in File /\ files.csv[turn] = before.csv[turn]
      /\ Settled(files.csv[turn], turn, FeedKeys)
  BY <1>0, InTurnFacts
<1>2. seen = Behind /\ Behind \subseteq Written
  BY <1>0 DEF CorpusInv, Deduplicated, Covered, InTurn, Made
<1>3. rows \in File /\ Keys(rows) = Keys(files.csv[turn]) \ seen /\ Distinct(rows)
  BY <1>1, FirstsFile
<1>4. Settled(rows, turn, FeedKeys)
  BY <1>1, FirstsFile
<1>5. /\ Keys(before.csv[turn]) \subseteq Keys(rows) \cup Written /\ Keys(rows) \subseteq Keys(before.csv[turn])
      /\ Keys(rows) \cap Behind = {} /\ seen' = seen \cup Keys(before.csv[turn])
  BY <1>0, <1>1, <1>2, <1>3
<1> HIDE DEF rows
<1> QED BY <1>0, <1>3, <1>4, <1>5, ReadToHolds

\* What is added to a row are entities of hybrid, and what is taken away was there.
LEMMA ChangedRow ==
    ASSUME Shapes, NEW r \in AnyRow
    PROVE  /\ Enriched(r) \in AnyRow /\ Enriched(r).text = r.text /\ Enriched(r).source = r.source
           /\ Stripped(r) \in AnyRow /\ Stripped(r).text = r.text /\ Stripped(r).source = r.source
<1> DEFINE E == Entity \cup FeedEntities \cup DrawnEntities
<1>1. AnyRow = [id : Sources \X Nat \X Nat, source : Sources, text : Texts, entities : SUBSET E]
  BY DEF AnyRow, RowsOf
<1>2. \A h \in Twins(r) : h \in AnyRow
  <2>1. \A s \in Splits : \A i \in DOMAIN files.hybrid[s] : files.hybrid[s][i] \in AnyRow
    BY DEF Shapes, Files, File
  <2> QED BY <2>1 DEF Twins
<1> HIDE DEF E
<1>3. Bonus(r) \subseteq E
  BY <1>1, <1>2 DEF Bonus
<1>4. Enriched(r) \in AnyRow /\ Enriched(r).text = r.text /\ Enriched(r).source = r.source
  BY <1>1, <1>3 DEF Enriched
<1>5. Stripped(r) \in AnyRow /\ Stripped(r).text = r.text /\ Stripped(r).source = r.source
  BY <1>1 DEF Stripped
<1> QED BY <1>4, <1>5

LEMMA ReadEnrichHolds == ASSUME CorpusInv, ReadEnrich PROVE CorpusInv'
<1> DEFINE old == files.csv[turn]
           rows == [i \in DOMAIN old |-> Enriched(old[i])]
<1>0. phase = "read" /\ script = "enrich" /\ ReadTo(rows)
  BY DEF ReadEnrich, Reading
<1>1. /\ turn \in Splits /\ old \in File /\ old = before.csv[turn]
      /\ Settled(old, turn, FeedKeys)
      /\ clean => Distinct(old)
  BY <1>0, InTurnFacts
<1>2. Shapes
  BY DEF CorpusInv
<1> HIDE DEF old
<1>3. Len(old) \in Nat /\ DOMAIN old = 1..Len(old) /\ \A i \in DOMAIN old : old[i] \in AnyRow
  BY <1>1, FileFacts
<1>4. \A i \in DOMAIN old : rows[i] \in AnyRow /\ rows[i].text = old[i].text /\ rows[i].source = old[i].source
  BY <1>2, <1>3, ChangedRow
<1>5. DOMAIN rows = DOMAIN old /\ rows \in File
  BY <1>3, <1>4 DEF File
<1> HIDE DEF rows
<1>6. Keys(rows) = Keys(old) /\ (Distinct(old) => Distinct(rows)) /\ Settled(rows, turn, FeedKeys)
  BY <1>1, <1>4, <1>5, SameRows
<1> QED BY <1>0, <1>1, <1>5, <1>6, ReadToHolds

LEMMA ReadRelabelHolds == ASSUME CorpusInv, ReadRelabel PROVE CorpusInv'
<1> DEFINE old == files.hybrid[turn]
           rows == [i \in DOMAIN old |-> Stripped(old[i])]
<1>0. phase = "read" /\ script = "relabel" /\ ReadTo(rows)
  BY DEF ReadRelabel, Reading
<1>1. old \in File
  BY <1>0, InTurnFacts
<1>2. Shapes
  BY DEF CorpusInv
<1> HIDE DEF old
<1>3. Len(old) \in Nat /\ DOMAIN old = 1..Len(old) /\ \A i \in DOMAIN old : old[i] \in AnyRow
  BY <1>1, FileFacts
<1>4. \A i \in DOMAIN old : rows[i] \in AnyRow
  BY <1>2, <1>3, ChangedRow
<1>5. rows \in File
  BY <1>3, <1>4 DEF File
<1> HIDE DEF rows
<1> QED BY <1>0, <1>5, ReadToHolds

LEMMA OpenHolds == ASSUME CorpusInv, Open PROVE CorpusInv'
<1>e. /\ files' = [files EXCEPT ![Where][turn] = <<>>] /\ phase = "open" /\ phase' = "write"
      /\ UNCHANGED <<feed, script, turn, seen, fresh, out, runs, before, last, clean, lost>>
  BY DEF Open, history
<1>0. /\ Shapes /\ AllSettled /\ Cleanness /\ Untouched /\ Integrated /\ Covered /\ NothingAdded /\ Deduplicated
  BY DEF CorpusInv
<1>1. FeedKeys' = FeedKeys
  BY <1>e DEF FeedKeys
<1>2. /\ turn \in Splits /\ files' \in Files
      /\ script = "relabel" => files'.csv = files.csv
      /\ script # "relabel" => \A s \in Splits \ {turn} : files'.csv[s] = files.csv[s]
      /\ \A s \in Splits : Settled(files'.csv[s], s, FeedKeys)
      /\ clean => Unique(files'.csv)
  <2>1. /\ <<>> \in File /\ Settled(<<>>, turn, FeedKeys) /\ Distinct(<<>>)
        /\ \A t \in Splits \ {turn} : Keys(<<>>) \cap Keys(files.csv[t]) = {}
    BY NoRows
  <2> DEFINE none == <<>>
  <2>2. files' = PutInTurn(none)
    BY <1>e DEF PutInTurn
  <2> HIDE DEF none
  <2>3. /\ none \in File /\ Settled(none, turn, FeedKeys) /\ Distinct(none)
        /\ \A t \in Splits \ {turn} : Keys(none) \cap Keys(files.csv[t]) = {}
    BY <2>1 DEF none
  <2>4. phase \in {"open", "write"}
    BY <1>e
  <2>5. /\ turn \in Splits /\ PutInTurn(none) \in Files
        /\ script = "relabel" => PutInTurn(none).csv = files.csv
        /\ script # "relabel" => \A s \in Splits \ {turn} : PutInTurn(none).csv[s] = files.csv[s]
        /\ \A s \in Splits : Settled(PutInTurn(none).csv[s], s, FeedKeys)
        /\ clean => Unique(PutInTurn(none).csv)
    BY <2>3, <2>4, Placed
  <2> QED BY <2>2, <2>5
<1>3. Shapes'
  BY <1>0, <1>e, <1>2 DEF Shapes
<1>4. AllSettled'
  BY <1>0, <1>1, <1>e, <1>2 DEF AllSettled
<1>5. Cleanness'
  BY <1>0, <1>e, <1>2 DEF Cleanness
<1>6. \A s \in Splits : s > turn \/ s < turn => s # turn
  BY <1>2 DEF Splits
<1>7. Untouched'
  <2>1. \A s \in Splits : s > turn \/ script = "relabel" => files'.csv[s] = files.csv[s]
    BY <1>2, <1>6
  <2> QED BY <1>0, <1>e, <2>1 DEF Untouched
<1>8. \A s \in Splits : s < turn => files'.csv[s] = files.csv[s]
  BY <1>2, <1>6
<1>9. Integrated'
  BY <1>0, <1>e, <1>8 DEF Integrated
<1>10. \A s \in 1..turn - 1 : s \in Splits /\ files'.csv[s] = files.csv[s]
  <2>1. \A s \in 1..turn - 1 : s \in Splits /\ s < turn
    BY <1>2 DEF Splits
  <2> QED BY <1>8, <2>1
<1>11. /\ Written' = Written /\ Behind' = Behind /\ Made' /\ Made /\ InTurn' = InTurn
  BY <1>e, <1>10 DEF Written, Behind, Made, InTurn
<1>12. Covered' /\ NothingAdded' /\ Deduplicated'
  BY <1>0, <1>e, <1>10, <1>11 DEF Covered, NothingAdded, Deduplicated
<1>13. Taken' /\ TextsSurvive'
  BY <1>e DEF Taken, TextsSurvive
<1> QED BY <1>3, <1>4, <1>5, <1>7, <1>9, <1>12, <1>13 DEF CorpusInv

LEMMA WriteFacts ==
    ASSUME CorpusInv, Write
    PROVE  /\ turn \in Splits /\ Made /\ files' \in Files /\ FeedKeys' = FeedKeys
           /\ script = "relabel" => files'.csv = files.csv
           /\ script # "relabel" => files'.csv[turn] = out[turn] /\ \A s \in Splits \ {turn} : files'.csv[s] = files.csv[s]
           /\ \A s \in Splits : Settled(files'.csv[s], s, FeedKeys)
           /\ clean => Unique(files'.csv)
           /\ UNCHANGED <<feed, runs, before, lost>>
<1>1. /\ phase = "write" /\ files' = PutInTurn(out[turn])
      /\ UNCHANGED <<feed, runs, before, lost>>
  BY DEF Write, PutInTurn
<1>2. out[turn] \in File /\ (script # "relabel" => Settled(out[turn], turn, FeedKeys))
  BY <1>1 DEF CorpusInv, Shapes, AllSettled
<1>3. Made /\ FeedKeys' = FeedKeys
  BY <1>1 DEF Made, FeedKeys
<1>4. clean /\ script # "relabel" => /\ Distinct(out[turn])
                                   /\ \A t \in Splits \ {turn} : Keys(out[turn]) \cap Keys(files.csv[t]) = {}
  BY <1>3, RowsApart
<1>5. /\ turn \in Splits /\ files' \in Files
      /\ script = "relabel" => files'.csv = files.csv
      /\ script # "relabel" => files'.csv[turn] = out[turn] /\ \A s \in Splits \ {turn} : files'.csv[s] = files.csv[s]
      /\ \A s \in Splits : Settled(files'.csv[s], s, FeedKeys)
      /\ clean => Unique(files'.csv)
  BY <1>1, <1>2, <1>4, Placed
<1> QED BY <1>1, <1>3, <1>5

\* On to the next split.
LEMMA WriteOn == ASSUME CorpusInv, Write, turn \in {1, 2} PROVE CorpusInv'
<1>w. /\ turn \in Splits /\ Made /\ files' \in Files /\ FeedKeys' = FeedKeys
      /\ script = "relabel" => files'.csv = files.csv
      /\ script # "relabel" => files'.csv[turn] = out[turn] /\ \A s \in Splits \ {turn} : files'.csv[s] = files.csv[s]
      /\ \A s \in Splits : Settled(files'.csv[s], s, FeedKeys)
      /\ clean => Unique(files'.csv)
  BY WriteFacts
<1>e. /\ turn' = turn + 1 /\ phase = "write" /\ phase' = IF script = "integrate" THEN "open" ELSE "read"
      /\ UNCHANGED <<feed, script, seen, fresh, out, runs, before, last, clean, lost>>
  BY <1>w DEF Write, Splits
<1>0. /\ Shapes /\ AllSettled /\ Cleanness /\ Untouched /\ Integrated /\ Covered /\ NothingAdded /\ Deduplicated
  BY DEF CorpusInv
<1>n. /\ turn + 1 \in Splits
      /\ \A s \in Splits : /\ s > turn \/ s < turn => s # turn
                           /\ s >= turn + 1 => s > turn
                           /\ s < turn + 1 => s < turn \/ s = turn
  BY DEF Splits
<1>3. Shapes'
  <2>1. script = "integrate" \/ script # "integrate"
    OBVIOUS
  <2> QED BY <1>0, <1>e, <1>w, <1>n DEF Shapes, Splits
<1>4. AllSettled'
  BY <1>0, <1>e, <1>w DEF AllSettled
<1>5. Cleanness'
  BY <1>0, <1>e, <1>w DEF Cleanness
<1>6. \A s \in Splits : s > turn \/ script = "relabel" => files'.csv[s] = before.csv[s]
  <2>1. \A s \in Splits : s > turn \/ script = "relabel" => files'.csv[s] = files.csv[s]
    BY <1>w, <1>n
  <2> QED BY <1>0, <1>e, <2>1 DEF Untouched
<1>7. Untouched'
  <2>1. \A s \in Splits : s > turn + 1 \/ s = turn + 1 => s > turn
    BY DEF Splits
  <2>2. phase' # "take"
    BY <1>e
  <2> QED BY <1>6, <1>e, <2>1, <2>2 DEF Untouched
<1>8. \A s \in Splits : s < turn => files'.csv[s] = files.csv[s]
  BY <1>w, <1>n
<1>9. Integrated'
  <2>1. CASE script = "integrate"
    <3>1. \A s \in Splits : s < turn + 1 => files'.csv[s] = out[s]
      BY <1>0, <1>e, <1>n, <1>w, <1>8, <2>1 DEF Integrated
    <3> QED BY <1>0, <1>e, <2>1, <3>1 DEF Integrated
  <2>2. CASE script # "integrate"
    BY <1>e, <2>2 DEF Integrated
  <2> QED BY <2>1, <2>2
<1>10. \A s \in 1..turn - 1 : s \in Splits /\ files'.csv[s] = files.csv[s]
  <2>1. \A s \in 1..turn - 1 : s \in Splits /\ s < turn
    BY <1>w DEF Splits
  <2> QED BY <1>8, <2>1
<1>11. CASE script \in {"integrate", "relabel"}
  <2>1. Covered' /\ NothingAdded' /\ Deduplicated'
    BY <1>e, <1>11 DEF Covered, NothingAdded, Deduplicated, InTurn
  <2>2. Taken' /\ TextsSurvive'
    BY <1>e, <1>11 DEF Taken, TextsSurvive
  <2> QED BY <1>3, <1>4, <1>5, <1>7, <1>9, <2>1, <2>2 DEF CorpusInv
<1>12. CASE script \in {"rare", "dedup", "enrich"}
  <2>1. InTurn /\ InTurn' /\ ~Made' /\ Made
    BY <1>e, <1>12 DEF InTurn, Made
  <2>2. files'.csv[turn] = out[turn]
    BY <1>w, <1>12
  <2>3. 1..turn' - 1 = (1..turn - 1) \cup {turn}
    BY <1>e, <1>w DEF Splits
  <2>4. Written' = Written \cup Keys(out[turn])
    <3>1. Written' = UNION {Keys(files'.csv[s]) : s \in 1..turn' - 1}
      BY DEF Written
    <3> QED BY <1>10, <2>2, <2>3, <3>1 DEF Written
  <2>5. Behind' = Behind \cup Keys(before.csv[turn])
    <3>1. Behind' = UNION {Keys(before.csv[s]) : s \in 1..turn' - 1}
      BY <1>e DEF Behind
    <3> QED BY <2>3, <3>1 DEF Behind
  <2>6. Covered'
    BY <1>0, <2>1, <2>4, <2>5 DEF Covered
  <2>7. NothingAdded'
    <3>1. CASE script # "rare"
      <4>1. \A s \in 1..turn - 1 : Keys(files.csv[s]) \subseteq Keys(before.csv[s])
        BY <1>0, <2>1, <3>1 DEF NothingAdded
      <4>2. Keys(out[turn]) \subseteq Keys(before.csv[turn])
        BY <1>0, <2>1, <3>1 DEF NothingAdded
      <4>3. \A s \in 1..turn' - 1 : Keys(files'.csv[s]) \subseteq Keys(before.csv[s])
        BY <1>10, <2>2, <2>3, <4>1, <4>2
      <4> QED BY <1>e, <2>1, <4>3 DEF NothingAdded
    <3>2. CASE script = "rare"
      BY <1>e, <3>2 DEF NothingAdded
    <3> QED BY <3>1, <3>2
  <2>8. Deduplicated'
    <3>1. CASE script = "dedup"
      <4>1. seen' = Behind'
        BY <1>0, <1>e, <2>1, <2>5, <3>1 DEF Deduplicated
      <4>2. /\ \A s \in 1..turn - 1 : Distinct(files.csv[s]) /\ Keys(files.csv[s]) \subseteq Behind
            /\ \A s, t \in 1..turn - 1 : s # t => Keys(files.csv[s]) \cap Keys(files.csv[t]) = {}
            /\ Distinct(out[turn]) /\ Keys(out[turn]) \cap Behind = {}
        BY <1>0, <2>1, <3>1 DEF Deduplicated, NothingAdded, Behind
      <4>3. \A s \in 1..turn' - 1 : Distinct(files'.csv[s])
        BY <1>10, <2>2, <2>3, <4>2
      <4>4. ASSUME NEW s \in 1..turn' - 1, NEW t \in 1..turn' - 1, s # t
            PROVE  Keys(files'.csv[s]) \cap Keys(files'.csv[t]) = {}
        <5>1. (s \in 1..turn - 1 \/ s = turn) /\ (t \in 1..turn - 1 \/ t = turn)
          BY <2>3
        <5> QED BY <1>10, <2>2, <4>2, <4>4, <5>1
      <4> QED BY <1>e, <2>1, <4>1, <4>3, <4>4 DEF Deduplicated
    <3>2. CASE script # "dedup"
      BY <1>e, <3>2 DEF Deduplicated
    <3> QED BY <3>1, <3>2
  <2>9. Taken' /\ TextsSurvive'
    BY <1>e, <1>12 DEF Taken, TextsSurvive
  <2> QED BY <1>3, <1>4, <1>5, <1>7, <1>9, <2>6, <2>7, <2>8, <2>9 DEF CorpusInv
<1>13. script \in Scripts
  BY <1>0, <1>e DEF Shapes
<1> QED BY <1>11, <1>12, <1>13 DEF Scripts

\* The last split: the script has come to its end.
LEMMA WriteLast == ASSUME CorpusInv, Write, turn = 3 PROVE CorpusInv'
<1>w. /\ turn \in Splits /\ Made /\ files' \in Files /\ FeedKeys' = FeedKeys
      /\ script = "relabel" => files'.csv = files.csv
      /\ script # "relabel" => files'.csv[turn] = out[turn] /\ \A s \in Splits \ {turn} : files'.csv[s] = files.csv[s]
      /\ \A s \in Splits : Settled(files'.csv[s], s, FeedKeys)
      /\ clean => Unique(files'.csv)
  BY WriteFacts
<1>e. /\ Ends /\ phase = "write" /\ clean' = (clean \/ script = "dedup")
      /\ UNCHANGED <<feed, runs, before, lost>>
  BY DEF Write
<1> USE DEF Ends
<1>0. /\ Shapes /\ AllSettled /\ Cleanness /\ Deduplicated /\ NothingAdded
  BY DEF CorpusInv
<1>3. Shapes'
  <2>1. clean' \in BOOLEAN
    BY <1>e
  <2> QED BY <1>0, <1>e, <1>w, <2>1, EmptyFiles DEF Shapes, Scripts
<1>4. AllSettled'
  BY <1>0, <1>e, <1>w, EmptyFiles DEF AllSettled
<1>n. 1..turn - 1 = {1, 2} /\ Splits = {1, 2, 3}
  BY DEF Splits
<1>5. Cleanness'
  <2>1. ASSUME script = "dedup" PROVE Unique(files'.csv)
    <3>1. InTurn
      BY <1>e, <2>1 DEF InTurn
    <3>2. /\ \A s \in {1, 2} : Distinct(files.csv[s]) /\ Keys(files.csv[s]) \subseteq Behind
          /\ \A s, t \in {1, 2} : s # t => Keys(files.csv[s]) \cap Keys(files.csv[t]) = {}
          /\ Distinct(out[turn]) /\ Keys(out[turn]) \cap Behind = {}
      BY <1>0, <1>n, <1>w, <2>1, <3>1 DEF Deduplicated, NothingAdded, Behind
    <3>3. /\ files'.csv[1] = files.csv[1] /\ files'.csv[2] = files.csv[2] /\ files'.csv[3] = out[turn]
      BY <1>n, <1>w, <2>1
    <3> QED BY <1>n, <3>2, <3>3 DEF Unique
  <2> QED BY <1>0, <1>e, <1>w, <2>1 DEF Cleanness
<1>6. TextsSurvive'
  <2>1. CASE script = "relabel"
    BY <1>e, <1>w, <2>1, NothingLost DEF TextsSurvive
  <2>2. CASE script # "relabel"
    <3>1. ASSUME NEW k \in AllKeys(before.csv) PROVE k \in AllKeys(files'.csv)
      <4>1. k \in Keys(out[turn]) \/ \E s \in Splits \ {turn} : k \in Keys(files.csv[s])
        BY <1>e, <2>2, NothingLost
      <4> QED BY <1>w, <2>2, <4>1 DEF AllKeys
    <3> QED BY <1>e, <3>1 DEF TextsSurvive
  <2> QED BY <2>1, <2>2
<1>7. Untouched' /\ Taken' /\ Integrated' /\ Covered' /\ NothingAdded' /\ Deduplicated'
  BY <1>e DEF Untouched, Taken, Integrated, Covered, NothingAdded, Deduplicated, InTurn
<1> QED BY <1>3, <1>4, <1>5, <1>6, <1>7 DEF CorpusInv

-----------------------------------------------------------------------------
(* The theorems                                                            *)

\* The invariant holds in every state of every sequence of runs.
THEOREM CorpusInvariance == Spec => []CorpusInv
<1>1. ASSUME CorpusInv, [Next]_vars PROVE CorpusInv'
  <2>1. ASSUME NEW s \in Scripts, Launch(s) PROVE CorpusInv'
    BY <1>1, <2>1, LaunchHolds
  <2>2. CASE Stopped \/ RowRaises \/ DryRun \/ EnrichRaises
    <3>1. Fails /\ phase \in {"read", "take", "open"}
      BY <2>2 DEF Stopped, RowRaises, DryRun, EnrichRaises, Taking, Reading
    <3> QED BY <1>1, <3>1, FailsHolds
  <2>3. CASE Torn
    BY <1>1, <2>3, TornHolds
  <2>4. CASE ReadAll
    BY <1>1, <2>4, ReadAllHolds
  <2>5. CASE SkipRow
    BY <1>1, <2>5, SkipRowHolds
  <2>6. CASE AddRow
    BY <1>1, <2>6, AddRowHolds
  <2>7. CASE EndTake
    BY <1>1, <2>7, EndTakeHolds
  <2>8. CASE ReadRare
    BY <1>1, <2>8, ReadRareHolds
  <2>9. CASE ReadDedup
    BY <1>1, <2>9, ReadDedupHolds
  <2>10. CASE ReadEnrich
    BY <1>1, <2>10, ReadEnrichHolds
  <2>11. CASE ReadRelabel
    BY <1>1, <2>11, ReadRelabelHolds
  <2>12. CASE Open
    BY <1>1, <2>12, OpenHolds
  <2>13. CASE Write
    <3>1. turn \in {1, 2} \/ turn = 3
      BY <1>1, <2>13, WriteFacts DEF Splits
    <3> QED BY <1>1, <2>13, <3>1, WriteOn, WriteLast
  <2>14. CASE AllRun \/ UNCHANGED vars
    BY <1>1, <2>14, StutterHolds DEF AllRun
  <2> QED BY <1>1, <2>1, <2>2, <2>3, <2>4, <2>5, <2>6, <2>7, <2>8, <2>9, <2>10, <2>11, <2>12, <2>13, <2>14 DEF Next
<1> QED BY InitHolds, <1>1, PTL DEF Spec

\* Once dedup has come to its end no text is in the corpus twice, whatever
\* integrate, enrich and relabel do and wherever they are stopped.
THEOREM CleanStays == Spec => []CleanSinceDedup
<1>1. CorpusInv => CleanSinceDedup
  <2> SUFFICES ASSUME CorpusInv, clean, NEW p \in Places, NEW q \in Places, p # q
               PROVE  Key[TextAt(p)] # Key[TextAt(q)]
    BY DEF CleanSinceDedup
  <2>1. Unique(files.csv)
    BY DEF CorpusInv, Cleanness
  <2>2. PICK s \in Splits : \E i \in DOMAIN files.csv[s] : p = <<s, i>>
    BY DEF Places
  <2>3. PICK i \in DOMAIN files.csv[s] : p = <<s, i>>
    BY <2>2
  <2>4. PICK t \in Splits : \E j \in DOMAIN files.csv[t] : q = <<t, j>>
    BY DEF Places
  <2>5. PICK j \in DOMAIN files.csv[t] : q = <<t, j>>
    BY <2>4
  <2>6. TextAt(p) = files.csv[s][i].text /\ TextAt(q) = files.csv[t][j].text
    BY <2>3, <2>5 DEF TextAt
  <2>7. CASE s = t
    BY <2>1, <2>3, <2>5, <2>6, <2>7 DEF Unique, Distinct
  <2>8. CASE s # t
    BY <2>1, <2>6, <2>8 DEF Unique, Keys
  <2> QED BY <2>7, <2>8
<1> QED BY CorpusInvariance, <1>1, PTL

\* When no script runs every text the corpus had before the last run is in it,
\* unless its row was to be written when the script was stopped.
THEOREM NoTextLost == Spec => []TextsSurvive
<1>1. CorpusInv => TextsSurvive
  BY DEF CorpusInv
<1> QED BY CorpusInvariance, <1>1, PTL

-----------------------------------------------------------------------------
(* What a script leaves, it would leave again                              *)

\* The rows of the feed that integrate adds to a split when it has gone through
\* n of them and the corpus has the old keys.
Takes(g, old, i) ==
    /\ i \in DOMAIN g /\ Usable(g[i]) /\ Key[g[i].text] \notin old
    /\ \A j \in 1..i - 1 : Usable(g[j]) => Key[g[j].text] # Key[g[i].text]
Chosen(g, old, n, s) == {i \in 1..n : Takes(g, old, i) /\ Home[Key[g[i].text]] = s}
NewRow(g, s, k, i) ==
    Row(<<g[i].source, s, k>>, g[i].source, g[i].text, Sanitized(Extracted(g[i]).entities))
Additions(g, old, n, s) ==
    [k \in 1..Cardinality(Chosen(g, old, n, s)) |-> NewRow(g, s, k - 1, Nth(Chosen(g, old, n, s), k))]

\* A row of csv has what the records of hybrid with its id and text could give it.
Complete(hybrid, rows) ==
    \A i \in DOMAIN rows : \A s \in Splits : \A j \in DOMAIN hybrid[s] :
        hybrid[s][j].id = rows[i].id /\ hybrid[s][j].text = rows[i].text
        => {e \in hybrid[s][j].entities : e.label \in BonusLabels} \subseteq rows[i].entities
Bare(rows) == \A i \in DOMAIN rows : Stripped(rows[i]) = rows[i]

\* The files that a script x writes, and what it makes of the one of split s.
Side(x, f) == IF x = "relabel" THEN f.hybrid ELSE f.csv
Fine(x, hybrid, rows, s) ==
    /\ x = "rare" => rows = Others(rows) \o RareAdditions[s]
    /\ x = "enrich" => Complete(hybrid, rows)
    /\ x = "relabel" => Bare(rows)
Whole(g, f) == \A s \in Splits : f.csv[s] = NotNew(f.csv[s]) \o Additions(g, AllOld(f.csv), Len(g), s)
Stable(x, g, f) ==
    /\ \A s \in Splits : Fine(x, f.hybrid, Side(x, f)[s], s)
    /\ x = "dedup" => Unique(f.csv)
    /\ x = "integrate" => Whole(g, f)

\* A script that came to its end has left what it would leave.
Ended == phase = "idle" => Stable(last, feed, files)

\* One that is run again meets that, and puts back what it finds.
Again ==
    phase # "idle" /\ last = script =>
        /\ Stable(script, feed, before)
        /\ \A s \in Splits : s # turn \/ phase # "write" => Side(script, files)[s] = Side(script, before)[s]
        /\ Made /\ script # "integrate" => out[turn] = Side(script, before)[turn]

OtherSide == phase # "idle" /\ script # "relabel" => files.hybrid = before.hybrid

\* What it has made so far.
Progress ==
    phase # "idle" =>
        /\ \A s \in 1..turn - 1 : phase # "take" => Fine(script, files.hybrid, Side(script, files)[s], s)
        /\ Made => Fine(script, files.hybrid, out[turn], turn)
        /\ phase = "take" => \A s \in Splits : fresh[s] = Additions(feed, AllOld(before.csv), turn - 1, s)
        /\ Made /\ script = "integrate" =>
              \A s \in Splits : out[s] = NotNew(before.csv[s]) \o Additions(feed, AllOld(before.csv), Len(feed), s)

RerunInv == Ended /\ Again /\ OtherSide /\ Progress

LEMMA NthOfInterval ==
    ASSUME NEW n \in Nat
    PROVE  Cardinality(1..n) = n /\ \A k \in 1..n : Nth(1..n, k) = k
<1> DEFINE S == 1..n
<1>1. Cardinality(S) = n
  BY FS_Interval
<1>2. ASSUME NEW k \in 1..n PROVE Nth(S, k) = k
  <2>1. UpTo(S, k) = 1..k
    BY DEF UpTo
  <2>2. Cardinality(UpTo(S, k)) = k
    BY <2>1, FS_Interval
  <2>3. S \subseteq 1..n /\ k \in S
    OBVIOUS
  <2> HIDE DEF S
  <2>4. Nth(S, Cardinality(UpTo(S, k))) = k
    BY <2>3, NthIs
  <2> QED BY <2>2, <2>4
<1> QED BY <1>1, <1>2

\* The next place comes last.
LEMMA NthGrows ==
    ASSUME NEW n \in Nat, NEW S, S \subseteq 1..n
    PROVE  /\ Cardinality(S) \in Nat /\ Cardinality(S \cup {n + 1}) = Cardinality(S) + 1
           /\ \A k \in 1..Cardinality(S) : Nth(S \cup {n + 1}, k) = Nth(S, k)
           /\ Nth(S \cup {n + 1}, Cardinality(S) + 1) = n + 1
<1> DEFINE T == S \cup {n + 1}
           c == Cardinality(S)
<1>1. T \subseteq 1..n + 1 /\ n + 1 \notin S /\ n + 1 \in T /\ n + 1 \in Nat
  OBVIOUS
<1>2. IsFiniteSet(S) /\ c \in Nat /\ \A k \in 1..c : Nth(S, k) \in S /\ Cardinality(UpTo(S, Nth(S, k))) = k
  BY NthIs
<1>3. Cardinality(T) = c + 1
  BY <1>1, <1>2, FS_AddElement
<1>4. \A i \in S : UpTo(T, i) = UpTo(S, i)
  <2>1. \A i \in S : i \in 1..n
    OBVIOUS
  <2>2. \A i \in 1..n : ~(n + 1 <= i)
    OBVIOUS
  <2> QED BY <2>1, <2>2 DEF UpTo
<1>5. UpTo(T, n + 1) = T
  <2>1. \A i \in T : i <= n + 1
    BY <1>1
  <2> QED BY <2>1 DEF UpTo
<1> HIDE DEF T
<1>6. \A i \in T : Nth(T, Cardinality(UpTo(T, i))) = i
  BY <1>1, NthIs
<1>7. ASSUME NEW k \in 1..c PROVE Nth(T, k) = Nth(S, k)
  <2>1. Nth(S, k) \in S /\ Nth(S, k) \in T
    BY <1>2 DEF T
  <2> QED BY <1>2, <1>4, <1>6, <2>1
<1>8. Nth(T, c + 1) = n + 1
  BY <1>1, <1>3, <1>5, <1>6
<1> QED BY <1>2, <1>3, <1>7, <1>8 DEF T

\* All rows, and the first ones.
LEMMA PickFirst ==
    ASSUME NEW a \in File, NEW b \in File
    PROVE  Pick(a, DOMAIN a) = a /\ Pick(a \o b, 1..Len(a)) = a
<1>1. Len(a) \in Nat /\ DOMAIN a = 1..Len(a) /\ a = [k \in 1..Len(a) |-> a[k]]
  BY FileFacts DEF File
<1>2. \A k \in 1..Len(a) : (a \o b)[k] = a[k]
  BY DEF File
<1>3. Cardinality(1..Len(a)) = Len(a) /\ \A k \in 1..Len(a) : Nth(1..Len(a), k) = k
  BY <1>1, NthOfInterval
<1>4. Pick(a, 1..Len(a)) = a
  BY <1>1, <1>3 DEF Pick
<1>5. Pick(a \o b, 1..Len(a)) = a
  BY <1>1, <1>2, <1>3 DEF Pick
<1> QED BY <1>1, <1>4, <1>5

\* No row of another script is left over, and what is added is left out again.
LEMMA LeftOver ==
    ASSUME NEW rows \in File, NEW new \in File
    PROVE  /\ (\A i \in DOMAIN new : new[i].source \in NewSources) => NotNew(NotNew(rows) \o new) = NotNew(rows)
           /\ (\A i \in DOMAIN new : new[i].source = "rare") => Others(Others(rows) \o new) = Others(rows)
<1>1. ASSUME NEW S \in SUBSET DOMAIN rows
      PROVE  \A k \in DOMAIN Pick(rows, S) : \E i \in S : Pick(rows, S)[k] = rows[i]
  <2>1. Len(rows) \in Nat /\ DOMAIN rows = 1..Len(rows)
    BY FileFacts
  <2> QED BY <2>1, PickIs
<1>2. NotNew(rows) \in File /\ Others(rows) \in File
  BY KeptFile
<1>3. \A k \in DOMAIN NotNew(rows) : NotNew(rows)[k].source \notin NewSources
  <2> DEFINE S == {i \in DOMAIN rows : rows[i].source \notin NewSources}
  <2>1. NotNew(rows) = Pick(rows, S) /\ S \in SUBSET DOMAIN rows /\ \A i \in S : rows[i].source \notin NewSources
    BY DEF NotNew
  <2> HIDE DEF S
  <2> QED BY <1>1, <2>1
<1>4. \A k \in DOMAIN Others(rows) : Others(rows)[k].source # "rare"
  <2> DEFINE S == {i \in DOMAIN rows : rows[i].source # "rare"}
  <2>1. Others(rows) = Pick(rows, S) /\ S \in SUBSET DOMAIN rows /\ \A i \in S : rows[i].source # "rare"
    BY DEF Others
  <2> HIDE DEF S
  <2> QED BY <1>1, <2>1
<1>5. ASSUME NEW a \in File
      PROVE  /\ Len(a) \in Nat /\ DOMAIN a = 1..Len(a) /\ 1..Len(a) \subseteq DOMAIN (a \o new)
             /\ \A i \in 1..Len(a) : (a \o new)[i] = a[i]
             /\ \A i \in DOMAIN (a \o new) : i \in 1..Len(a) \/ \E j \in DOMAIN new : (a \o new)[i] = new[j]
  <2>1. Len(a) \in Nat /\ DOMAIN a = 1..Len(a) /\ Len(new) \in Nat /\ DOMAIN new = 1..Len(new)
    BY FileFacts
  <2>2. DOMAIN (a \o new) = 1..Len(a) + Len(new) /\ \A i \in 1..Len(a) : (a \o new)[i] = a[i]
    BY <2>1 DEF File
  <2>3. ASSUME NEW i \in DOMAIN (a \o new), i \notin 1..Len(a) PROVE \E j \in DOMAIN new : (a \o new)[i] = new[j]
    <3>1. i - Len(a) \in DOMAIN new /\ (a \o new)[i] = new[i - Len(a)]
      BY <2>1, <2>2, <2>3 DEF File
    <3> QED BY <3>1
  <2>4. 1..Len(a) \subseteq DOMAIN (a \o new)
    BY <2>1, <2>2
  <2> QED BY <2>1, <2>2, <2>3, <2>4
<1>6. ASSUME \A i \in DOMAIN new : new[i].source \in NewSources
      PROVE  NotNew(NotNew(rows) \o new) = NotNew(rows)
  <2> DEFINE a == NotNew(rows)
             ab == a \o new
  <2>1. a \in File /\ \A k \in DOMAIN a : a[k].source \notin NewSources
    BY <1>2, <1>3
  <2> HIDE DEF a
  <2>2. {i \in DOMAIN ab : ab[i].source \notin NewSources} = 1..Len(a)
    BY <1>5, <1>6, <2>1
  <2>3. NotNew(ab) = Pick(ab, 1..Len(a))
    BY <2>2 DEF NotNew
  <2> QED BY <2>1, <2>3, PickFirst DEF a
<1>7. ASSUME \A i \in DOMAIN new : new[i].source = "rare"
      PROVE  Others(Others(rows) \o new) = Others(rows)
  <2> DEFINE a == Others(rows)
             ab == a \o new
  <2>1. a \in File /\ \A k \in DOMAIN a : a[k].source # "rare"
    BY <1>2, <1>4
  <2> HIDE DEF a
  <2>2. {i \in DOMAIN ab : ab[i].source # "rare"} = 1..Len(a)
    BY <1>5, <1>7, <2>1
  <2>3. Others(ab) = Pick(ab, 1..Len(a))
    BY <2>2 DEF Others
  <2> QED BY <2>1, <2>3, PickFirst DEF a
<1> QED BY <1>6, <1>7

FeedTyped(g) == DOMAIN g = 1..Len(g) /\ Len(g) \in Nat

LEMMA FeedIsTyped == ASSUME NEW g \in Feeds PROVE FeedTyped(g)
  BY CorpusAssumption DEF FeedTyped

\* The rows that integrate adds: what they are, and how they grow row by row.
LEMMA AdditionsFacts ==
    ASSUME NEW g, NEW old, NEW n \in Nat, NEW s
    PROVE  /\ Cardinality(Chosen(g, old, n, s)) \in Nat
           /\ DOMAIN Additions(g, old, n, s) = 1..Cardinality(Chosen(g, old, n, s))
           /\ \A k \in 1..Cardinality(Chosen(g, old, n, s)) : Nth(Chosen(g, old, n, s), k) \in Chosen(g, old, n, s)
<1> DEFINE S == Chosen(g, old, n, s)
<1>1. S \subseteq 1..n
  BY DEF Chosen
<1> HIDE DEF S
<1>2. Cardinality(S) \in Nat /\ \A k \in 1..Cardinality(S) : Nth(S, k) \in S
  BY <1>1, NthIs
<1>3. DOMAIN Additions(g, old, n, s) = 1..Cardinality(S)
  BY DEF Additions, S
<1> QED BY <1>2, <1>3 DEF S

LEMMA AdditionsRows ==
    ASSUME NEW g, NEW old, NEW n \in Nat, NEW s, NEW k \in DOMAIN Additions(g, old, n, s)
    PROVE  \E i \in 1..n : Takes(g, old, i) /\ Additions(g, old, n, s)[k] = NewRow(g, s, k - 1, i)
<1> DEFINE S == Chosen(g, old, n, s)
           i == Nth(S, k)
<1>1. k \in 1..Cardinality(S) /\ i \in S
  BY AdditionsFacts
<1>2. Additions(g, old, n, s)[k] = NewRow(g, s, k - 1, i)
  BY <1>1 DEF Additions
<1>3. i \in 1..n /\ Takes(g, old, i)
  BY <1>1 DEF Chosen
<1> QED BY <1>2, <1>3

LEMMA AdditionsFile ==
    ASSUME NEW g \in Feeds, NEW old, NEW n \in Nat, NEW s \in Splits
    PROVE  /\ Additions(g, old, n, s) \in File
           /\ \A k \in DOMAIN Additions(g, old, n, s) : Additions(g, old, n, s)[k].source \in NewSources
           /\ \A k \in Keys(Additions(g, old, n, s)) : \E i \in 1..n : Takes(g, old, i) /\ k = Key[g[i].text]
<1> DEFINE A == Additions(g, old, n, s)
           c == Cardinality(Chosen(g, old, n, s))
<1>1. c \in Nat /\ DOMAIN A = 1..c
  BY AdditionsFacts
<1>0. \A k \in DOMAIN A : \E i \in 1..n : Takes(g, old, i) /\ A[k] = NewRow(g, s, k - 1, i)
  BY AdditionsRows
<1>2. ASSUME NEW k \in DOMAIN A
      PROVE  /\ A[k] \in AnyRow /\ A[k].source \in NewSources
             /\ \E i \in 1..n : Takes(g, old, i) /\ A[k].text = g[i].text
  <2>1. PICK i \in 1..n : Takes(g, old, i) /\ A[k] = NewRow(g, s, k - 1, i)
    <3> HIDE DEF A
    <3> QED BY <1>0
  <2>2. i \in DOMAIN g
    BY <2>1 DEF Takes
  <2>3. g[i].source \in NewSources /\ g[i].text \in Texts
    BY <2>2, CorpusAssumption DEF SourceRow
  <2>4. Sanitized(Extracted(g[i]).entities) \subseteq FeedEntities
    BY <2>2 DEF FeedEntities
  <2>5. k - 1 \in Nat /\ s \in Nat
    <3> HIDE DEF A, c
    <3> QED BY <1>1, Typed DEF Typing
  <2> HIDE DEF A
  <2>6. A[k] \in AnyRow /\ A[k].text = g[i].text /\ A[k].source = g[i].source
    BY <2>1, <2>3, <2>4, <2>5, MadeRow DEF NewRow
  <2> QED BY <2>1, <2>3, <2>6
<1>3. A = [k \in 1..c |-> A[k]]
  BY DEF Additions
<1> HIDE DEF A, c
<1>4. A \in File
  BY <1>1, <1>2, <1>3 DEF File
<1>5. \A k \in Keys(A) : \E i \in 1..n : Takes(g, old, i) /\ k = Key[g[i].text]
  BY <1>2 DEF Keys
<1> QED BY <1>2, <1>4, <1>5 DEF A

LEMMA AdditionsKeys ==
    ASSUME NEW g \in Feeds, NEW old, NEW n \in Nat, NEW s \in Splits, NEW k \in Keys(Additions(g, old, n, s))
    PROVE  \E i \in 1..n : Takes(g, old, i) /\ k = Key[g[i].text]
<1>1. \A m \in Keys(Additions(g, old, n, s)) : \E i \in 1..n : Takes(g, old, i) /\ m = Key[g[i].text]
  BY AdditionsFile
<1> QED BY <1>1

LEMMA AdditionsGrow ==
    ASSUME NEW g \in Feeds, NEW old, NEW n \in Nat, NEW s \in Splits
    PROVE  /\ Takes(g, old, n + 1) /\ Home[Key[g[n + 1].text]] = s =>
                 Additions(g, old, n + 1, s)
                 = Append(Additions(g, old, n, s), NewRow(g, s, Len(Additions(g, old, n, s)), n + 1))
           /\ ~(Takes(g, old, n + 1) /\ Home[Key[g[n + 1].text]] = s) =>
                 Additions(g, old, n + 1, s) = Additions(g, old, n, s)
<1> DEFINE S == Chosen(g, old, n, s)
           T == Chosen(g, old, n + 1, s)
           c == Cardinality(S)
           A == Additions(g, old, n, s)
           grows == Takes(g, old, n + 1) /\ Home[Key[g[n + 1].text]] = s
<1>1. 1..n + 1 = (1..n) \cup {n + 1}
  OBVIOUS
<1>2. ~grows => T = S
  BY <1>1 DEF Chosen
<1>3. grows => T = S \cup {n + 1}
  BY <1>1 DEF Chosen
<1>4. S \subseteq 1..n
  BY DEF Chosen
<1> HIDE DEF S, T, grows
<1>5. /\ c \in Nat /\ Cardinality(S \cup {n + 1}) = c + 1
      /\ \A k \in 1..c : Nth(S \cup {n + 1}, k) = Nth(S, k)
      /\ Nth(S \cup {n + 1}, c + 1) = n + 1
  BY <1>4, NthGrows
<1>6. /\ A = [k \in 1..c |-> NewRow(g, s, k - 1, Nth(S, k))]
      /\ Additions(g, old, n + 1, s) = [k \in 1..Cardinality(T) |-> NewRow(g, s, k - 1, Nth(T, k))]
  BY DEF Additions, S, T
<1>7. ASSUME grows PROVE Additions(g, old, n + 1, s) = Append(A, NewRow(g, s, Len(A), n + 1))
  <2> DEFINE B == [k \in 1..c + 1 |-> NewRow(g, s, k - 1, Nth(S \cup {n + 1}, k))]
  <2>1. Additions(g, old, n + 1, s) = B
    BY <1>3, <1>5, <1>6, <1>7
  <2>2. Len(A) = c /\ A \in File
    <3>1. A \in File
      BY AdditionsFile
    <3>2. DOMAIN A = 1..c
      BY <1>6
    <3> QED BY <1>5, <3>1, <3>2 DEF File
  <2> DEFINE L == Append(A, NewRow(g, s, Len(A), n + 1))
  <2> HIDE DEF A
  <2>3. /\ DOMAIN L = 1..c + 1 /\ L = [k \in 1..c + 1 |-> L[k]]
        /\ \A k \in 1..c : L[k] = A[k]
    BY <1>5, <2>2 DEF File
  <2>4. L[c + 1] = NewRow(g, s, c, n + 1)
    BY <1>5, <2>2 DEF File
  <2>5. ASSUME NEW k \in 1..c + 1 PROVE B[k] = L[k]
    <3>1. CASE k \in 1..c
      BY <1>5, <1>6, <2>3, <3>1
    <3>2. B[c + 1] = NewRow(g, s, c + 1 - 1, n + 1)
      BY <1>5
    <3>3. c + 1 - 1 = c
      BY <1>5
    <3>4. k \in 1..c \/ k = c + 1
      BY <1>5
    <3> HIDE DEF B, L
    <3> QED BY <2>4, <3>1, <3>2, <3>3, <3>4
  <2>6. B = [k \in 1..c + 1 |-> B[k]]
    OBVIOUS
  <2> HIDE DEF B, L
  <2>7. B = L
    BY <2>3, <2>5, <2>6
  <2> QED BY <2>1, <2>7 DEF L
<1>8. ASSUME ~grows PROVE Additions(g, old, n + 1, s) = A
  BY <1>2, <1>6, <1>8
<1> QED BY <1>7, <1>8 DEF grows

\* After the last row of the feed nothing more is added.
LEMMA AdditionsEnd ==
    ASSUME NEW g \in Feeds, NEW old, NEW n \in Nat, n >= Len(g), NEW s
    PROVE  Additions(g, old, n, s) = Additions(g, old, Len(g), s)
<1>1. FeedTyped(g)
  BY FeedIsTyped
<1>2. \A i : Takes(g, old, i) => i \in 1..Len(g)
  BY <1>1 DEF Takes, FeedTyped
<1>3. 1..Len(g) \subseteq 1..n
  BY <1>1 DEF FeedTyped
<1>4. Chosen(g, old, n, s) = Chosen(g, old, Len(g), s)
  BY <1>2, <1>3 DEF Chosen
<1> QED BY <1>4 DEF Additions

LEMMA NoAdditions ==
    ASSUME NEW g \in Feeds, NEW old, NEW s \in Splits
    PROVE  Additions(g, old, 0, s) = <<>>
<1> DEFINE A == Additions(g, old, 0, s)
<1>1. A \in File
  BY AdditionsFile
<1>2. Chosen(g, old, 0, s) = {}
  BY DEF Chosen
<1>3. Cardinality(Chosen(g, old, 0, s)) = 0
  BY <1>2, FS_EmptySet
<1>4. DOMAIN A = 1..0
  BY <1>3 DEF Additions
<1> HIDE DEF A
<1>5. Len(A) = 0
  BY <1>1, <1>4, FileFacts
<1>6. A = <<>>
  BY <1>1, <1>5 DEF File
<1> QED BY <1>6 DEF A

LEMMA InitAgain == Init => RerunInv
  BY DEF Init, RerunInv, Ended, Again, OtherSide, Progress, Stable, Fine

LEMMA StutterAgain == RerunInv /\ UNCHANGED vars => RerunInv'
<1> SUFFICES ASSUME RerunInv, UNCHANGED vars PROVE RerunInv'
  OBVIOUS
<1> USE DEF vars, process, history
<1>1. Made' = Made
  BY DEF Made
<1>2. Ended' /\ OtherSide'
  BY DEF RerunInv, Ended, OtherSide
<1>3. Again'
  BY <1>1 DEF RerunInv, Again
<1>4. Progress'
  BY <1>1 DEF RerunInv, Progress
<1> QED BY <1>2, <1>3, <1>4 DEF RerunInv

LEMMA LaunchAgain == ASSUME RerunInv, NEW s \in Scripts, Launch(s) PROVE RerunInv'
<1>e. /\ phase = "idle" /\ phase' = "read" /\ script' = s /\ turn' = 1 /\ before' = files
      /\ UNCHANGED <<files, feed, last>>
  BY DEF Launch
<1>1. ~Made'
  BY <1>e DEF Made
<1>2. Ended' /\ OtherSide'
  BY <1>e DEF Ended, OtherSide
<1>3. Again'
  <2>1. Stable(last, feed, files)
    BY <1>e DEF RerunInv, Ended
  <2> QED BY <1>1, <1>e, <2>1 DEF Again
<1>4. Progress'
  BY <1>1, <1>e DEF Progress
<1> QED BY <1>2, <1>3, <1>4 DEF RerunInv

\* What was begun before a stop counts for nothing.
LEMMA StopAgain == ASSUME phase' = "idle", last' = "none" PROVE RerunInv'
  BY DEF RerunInv, Ended, Again, OtherSide, Progress, Stable, Fine

LEMMA ReadAllAgain == ASSUME CorpusInv, RerunInv, ReadAll PROVE RerunInv'
<1>e. /\ phase = "read" /\ script = "integrate" /\ phase' = "take"
      /\ UNCHANGED <<files, feed, script, turn, fresh, before, last>>
  BY DEF ReadAll, history
<1>1. ~Made' /\ ~Made
  BY <1>e DEF Made
<1>2. turn = 1 /\ fresh = Empty /\ feed \in Feeds
  BY <1>e DEF CorpusInv, Shapes
<1>3. Ended' /\ OtherSide'
  BY <1>e DEF RerunInv, Ended, OtherSide
<1>4. Again'
  BY <1>1, <1>e DEF RerunInv, Again
<1>5. \A s \in Splits : fresh[s] = Additions(feed, AllOld(before.csv), 0, s)
  BY <1>2, NoAdditions, EmptyFiles
<1>6. Progress'
  BY <1>1, <1>2, <1>5, <1>e DEF Progress
<1> QED BY <1>3, <1>4, <1>6 DEF RerunInv

\* integrate goes on to the next row of the feed.
LEMMA TakeAgain ==
    ASSUME RerunInv, phase = "take", phase' = "take", UNCHANGED <<files, feed, script, before, last>>,
           \A s \in Splits : fresh'[s] = Additions(feed, AllOld(before.csv), turn' - 1, s)
    PROVE  RerunInv'
<1>1. ~Made' /\ ~Made
  BY DEF Made
<1>2. Ended' /\ OtherSide'
  BY DEF RerunInv, Ended, OtherSide
<1>3. Again'
  BY <1>1 DEF RerunInv, Again
<1>4. Progress'
  BY <1>1 DEF Progress
<1> QED BY <1>2, <1>3, <1>4 DEF RerunInv

LEMMA TakeFacts ==
    ASSUME CorpusInv, RerunInv, Taking
    PROVE  /\ turn \in DOMAIN feed /\ feed \in Feeds /\ turn - 1 \in Nat /\ turn - 1 + 1 = turn
           /\ \A j \in 1..turn - 1 : Usable(feed[j]) => Key[feed[j].text] \in seen
           /\ seen = AllOld(before.csv) \cup AllKeys(fresh)
           /\ \A s \in Splits : fresh[s] = Additions(feed, AllOld(before.csv), turn - 1, s)
<1>1. phase = "take" /\ Shapes /\ Taken
  BY DEF CorpusInv, Taking
<1>2. turn \in DOMAIN feed /\ DOMAIN feed = 1..Len(feed) /\ Len(feed) \in Nat /\ feed \in Feeds /\ turn \in Nat \ {0}
  BY <1>1, FeedFacts DEF Shapes
<1>3. \A j \in 1..turn - 1 : j \in DOMAIN feed /\ j < turn
  BY <1>2
<1>4. \A j \in 1..turn - 1 : Usable(feed[j]) => Key[feed[j].text] \in seen
  BY <1>1, <1>3 DEF Taken
<1>5. seen = AllOld(before.csv) \cup AllKeys(fresh)
  BY <1>1 DEF Taken
<1>6. \A s \in Splits : fresh[s] = Additions(feed, AllOld(before.csv), turn - 1, s)
  BY <1>1 DEF RerunInv, Progress
<1>7. turn - 1 \in Nat /\ turn - 1 + 1 = turn
  BY <1>2
<1> QED BY <1>2, <1>4, <1>5, <1>6, <1>7

LEMMA SkipRowAgain == ASSUME CorpusInv, RerunInv, SkipRow PROVE RerunInv'
<1>e. /\ Taking /\ phase = "take" /\ phase' = "take" /\ turn' = turn + 1
      /\ UNCHANGED <<files, feed, script, fresh, before, last>>
  BY DEF SkipRow, Taking, history
<1> DEFINE old == AllOld(before.csv)
<1>1. /\ turn \in DOMAIN feed /\ feed \in Feeds /\ turn - 1 \in Nat /\ turn - 1 + 1 = turn
      /\ seen = old \cup AllKeys(fresh)
      /\ \A s \in Splits : fresh[s] = Additions(feed, old, turn - 1, s)
  BY <1>e, TakeFacts
<1> HIDE DEF old
<1>2. Usable(feed[turn]) => Key[feed[turn].text] \in seen
  BY DEF SkipRow, Usable, Unusable, Known, Kept, Given
<1>3. ASSUME Takes(feed, old, turn) PROVE FALSE
  <2>1. Key[feed[turn].text] \in AllKeys(fresh)
    BY <1>1, <1>2, <1>3 DEF Takes
  <2>2. PICK u \in Splits : Key[feed[turn].text] \in Keys(fresh[u])
    BY <2>1 DEF AllKeys
  <2>3. Key[feed[turn].text] \in Keys(Additions(feed, old, turn - 1, u))
    BY <1>1, <2>2
  <2>4. \E i \in 1..turn - 1 : Takes(feed, old, i) /\ Key[feed[turn].text] = Key[feed[i].text]
    BY <1>1, <2>3, AdditionsKeys
  <2> QED BY <1>3, <2>4 DEF Takes
<1>4. \A s \in Splits : fresh'[s] = Additions(feed, old, turn' - 1, s)
  <2>1. \A s \in Splits : Additions(feed, old, turn - 1 + 1, s) = Additions(feed, old, turn - 1, s)
    BY <1>1, <1>3, AdditionsGrow
  <2>2. turn' - 1 = turn - 1 + 1
    BY <1>1, <1>e
  <2> QED BY <1>1, <1>e, <2>1, <2>2
<1> QED BY <1>4, <1>e, TakeAgain DEF old

LEMMA AddRowAgain == ASSUME CorpusInv, RerunInv, AddRow PROVE RerunInv'
<1>e. /\ Taking /\ phase = "take" /\ phase' = "take" /\ turn' = turn + 1
      /\ fresh' = Added(fresh, feed[turn].source, feed[turn].text, Kept)
      /\ UNCHANGED <<files, feed, script, before, last>>
  BY DEF AddRow, Taking, history
<1> DEFINE old == AllOld(before.csv)
           key == Key[feed[turn].text]
           t == Home[key]
           n == turn - 1
<1>1. /\ turn \in DOMAIN feed /\ feed \in Feeds /\ n \in Nat /\ n + 1 = turn
      /\ \A j \in 1..n : Usable(feed[j]) => Key[feed[j].text] \in seen
      /\ seen = old \cup AllKeys(fresh)
      /\ \A s \in Splits : fresh[s] = Additions(feed, old, n, s)
  BY <1>e, TakeFacts
<1>2. Usable(feed[turn]) /\ key \notin seen
  BY DEF AddRow, Usable, Unusable, Known, Kept, Given
<1>3. Takes(feed, old, turn)
  BY <1>1, <1>2 DEF Takes
<1>4. fresh \in [Splits -> File]
  BY DEF CorpusInv, Shapes
<1>5. NewRow(feed, t, Len(fresh[t]), turn)
      = Row(<<feed[turn].source, t, Len(fresh[t])>>, feed[turn].source, feed[turn].text, Kept)
  BY DEF NewRow, Kept, Given
<1>6. fresh' = [fresh EXCEPT ![t] = Append(@, NewRow(feed, t, Len(fresh[t]), turn))]
  BY <1>5, <1>e DEF Added
<1> HIDE DEF old
<1>7. ASSUME NEW s \in Splits PROVE fresh'[s] = Additions(feed, old, turn, s)
  <2>1. CASE s = t
    <3>1. Takes(feed, old, n + 1) /\ Home[Key[feed[n + 1].text]] = s
      BY <1>1, <1>3, <2>1
    <3> HIDE DEF n
    <3>2. Additions(feed, old, n + 1, s)
          = Append(Additions(feed, old, n, s), NewRow(feed, s, Len(Additions(feed, old, n, s)), n + 1))
      BY <1>1, <3>1, AdditionsGrow
    <3>3. Additions(feed, old, turn, s) = Append(fresh[s], NewRow(feed, s, Len(fresh[s]), turn))
      BY <1>1, <3>2
    <3> HIDE DEF t
    <3> QED BY <1>4, <1>6, <2>1, <3>3
  <2>2. CASE s # t
    <3>1. Home[Key[feed[n + 1].text]] # s
      BY <1>1, <2>2
    <3> HIDE DEF n
    <3>2. Additions(feed, old, n + 1, s) = Additions(feed, old, n, s)
      BY <1>1, <3>1, AdditionsGrow
    <3> HIDE DEF t
    <3> QED BY <1>1, <1>4, <1>6, <2>2, <3>2
  <2> QED BY <2>1, <2>2
<1>8. turn' - 1 = turn
  BY <1>1, <1>e
<1> QED BY <1>7, <1>8, <1>e, TakeAgain DEF old

LEMMA EndTakeAgain == ASSUME CorpusInv, RerunInv, EndTake PROVE RerunInv'
<1>e. /\ phase = "take" /\ phase' = "open" /\ turn' = 1 /\ turn > Len(feed)
      /\ out' = [s \in Splits |-> out[s] \o fresh[s]]
      /\ UNCHANGED <<files, feed, script, before, last>>
  BY DEF EndTake, history
<1>1. script = "integrate" /\ feed \in Feeds /\ turn \in Nat \ {0} /\ FeedTyped(feed)
  BY <1>e, FeedIsTyped DEF CorpusInv, Shapes
<1>2. Made' /\ ~Made
  BY <1>e DEF Made
<1>3. turn - 1 \in Nat /\ turn - 1 >= Len(feed)
  BY <1>1, <1>e DEF FeedTyped
<1>4. ASSUME NEW s \in Splits
      PROVE  out'[s] = NotNew(before.csv[s]) \o Additions(feed, AllOld(before.csv), Len(feed), s)
  <2>1. out[s] = NotNew(before.csv[s])
    BY <1>e DEF CorpusInv, Taken
  <2>2. fresh[s] = Additions(feed, AllOld(before.csv), turn - 1, s)
    BY <1>e DEF RerunInv, Progress
  <2>3. fresh[s] = Additions(feed, AllOld(before.csv), Len(feed), s)
    BY <1>1, <1>3, <2>2, AdditionsEnd
  <2> QED BY <1>e, <2>1, <2>3
<1>5. Ended' /\ OtherSide'
  BY <1>e DEF RerunInv, Ended, OtherSide
<1>6. Again'
  BY <1>1, <1>e DEF RerunInv, Again
<1>7. Progress'
  BY <1>1, <1>4, <1>e DEF Progress, Fine
<1> QED BY <1>5, <1>6, <1>7 DEF RerunInv

LEMMA FineAside ==
    ASSUME NEW x, NEW g, NEW h, NEW rows, NEW s, x = "relabel" \/ g = h, Fine(x, g, rows, s)
    PROVE  Fine(x, h, rows, s)
  BY DEF Fine

\* A script that goes from split to split has the rows of the one in turn.
LEMMA ReadToAgain ==
    ASSUME CorpusInv, RerunInv, phase = "read", script \in {"rare", "dedup", "enrich", "relabel"},
           NEW rows \in File, ReadTo(rows), Fine(script, files.hybrid, rows, turn),
           last = script => rows = Side(script, before)[turn]
    PROVE  RerunInv'
<1>e. /\ out' = [out EXCEPT ![turn] = rows] /\ phase' = "open"
      /\ UNCHANGED <<files, feed, script, turn, fresh, before, last>>
  BY DEF ReadTo, history
<1>1. turn \in Splits /\ out \in [Splits -> File]
  BY DEF CorpusInv, Shapes
<1>2. out'[turn] = rows
  BY <1>1, <1>e, Put
<1>3. Made' /\ ~Made
  BY <1>e DEF Made
<1>4. Ended' /\ OtherSide'
  BY <1>e DEF RerunInv, Ended, OtherSide
<1>5. Again'
  BY <1>2, <1>e DEF RerunInv, Again
<1>6. Progress'
  BY <1>2, <1>3, <1>e DEF RerunInv, Progress
<1> QED BY <1>4, <1>5, <1>6 DEF RerunInv

LEMMA ReadRareAgain == ASSUME CorpusInv, RerunInv, ReadRare PROVE RerunInv'
<1> DEFINE old == files.csv[turn]
           new == RareAdditions[turn]
           rows == Others(old) \o new
<1>0. phase = "read" /\ script = "rare" /\ ReadTo(Others(old) \o fresh[turn])
  BY DEF ReadRare, Reading
<1>1. turn \in Splits /\ old \in File /\ old = before.csv[turn]
  BY <1>0, InTurnFacts
<1>2. fresh = RareAdditions
  BY <1>0 DEF CorpusInv, Shapes
<1>3. new \in File /\ \A i \in DOMAIN new : new[i].source = "rare"
  BY <1>1, RareFile
<1>4. ReadTo(rows)
  BY <1>0, <1>2
<1>5. last = script => old = rows
  BY <1>0, <1>1 DEF RerunInv, Again, Stable, Fine, Side
<1> HIDE DEF old, new
<1>6. Others(old) \in File /\ Others(rows) = Others(old)
  BY <1>1, <1>3, KeptFile, LeftOver
<1>7. rows \in File
  BY <1>3, <1>6, ConcatFile
<1>8. Fine(script, files.hybrid, rows, turn)
  BY <1>0, <1>6 DEF Fine, new
<1>9. last = script => rows = Side(script, before)[turn]
  BY <1>0, <1>1, <1>5 DEF Side
<1> HIDE DEF rows
<1> QED BY <1>0, <1>4, <1>7, <1>8, <1>9, ReadToAgain

LEMMA ReadDedupAgain == ASSUME CorpusInv, RerunInv, ReadDedup PROVE RerunInv'
<1> DEFINE old == files.csv[turn]
           rows == Firsts(old)
<1>0. phase = "read" /\ script = "dedup" /\ ReadTo(rows)
  BY DEF ReadDedup, Reading
<1>1. turn \in Splits /\ old \in File /\ old = before.csv[turn]
  BY <1>0, InTurnFacts
<1>2. seen = Behind
  BY <1>0 DEF CorpusInv, Deduplicated, InTurn, Made
<1>3. rows \in File
  BY <1>1, FirstsFile
<1>4. Fine(script, files.hybrid, rows, turn)
  BY <1>0 DEF Fine
<1>5. ASSUME last = script PROVE rows = old
  <2>1. Unique(before.csv)
    BY <1>0, <1>5 DEF RerunInv, Again, Stable
  <2>2. Distinct(old) /\ \A s \in Splits : s # turn => Keys(before.csv[s]) \cap Keys(old) = {}
    BY <1>1, <2>1 DEF Unique
  <2>3. \A s \in 1..turn - 1 : s \in Splits /\ s # turn
    BY <1>1 DEF Splits
  <2>4. Keys(old) \cap seen = {}
    BY <1>2, <2>2, <2>3 DEF Behind
  <2>5. Len(old) \in Nat /\ DOMAIN old = 1..Len(old)
    BY <1>1, FileFacts
  <2> HIDE DEF old
  <2>6. ASSUME NEW i \in DOMAIN old PROVE FirstOfKey(old, i)
    <3>1. Key[old[i].text] \notin seen
      BY <2>4 DEF Keys
    <3>2. \A j \in 1..i - 1 : j \in DOMAIN old /\ j # i
      BY <2>5
    <3> QED BY <2>2, <3>1, <3>2 DEF FirstOfKey, Distinct
  <2>7. {i \in DOMAIN old : FirstOfKey(old, i)} = DOMAIN old
    BY <2>6
  <2>8. Pick(old, DOMAIN old) = old
    BY <1>1, PickFirst
  <2> QED BY <2>7, <2>8 DEF Firsts
<1>6. last = script => rows = Side(script, before)[turn]
  BY <1>0, <1>1, <1>5 DEF Side
<1> HIDE DEF rows
<1> QED BY <1>0, <1>3, <1>4, <1>6, ReadToAgain

\* A row that was given all it could get gets nothing more.
LEMMA GivenAll ==
    ASSUME Shapes, NEW r \in AnyRow,
           \A s \in Splits : \A j \in DOMAIN files.hybrid[s] :
               files.hybrid[s][j].id = r.id /\ files.hybrid[s][j].text = r.text
               => {e \in files.hybrid[s][j].entities : e.label \in BonusLabels} \subseteq r.entities
    PROVE  Enriched(r) = r
<1>1. Bonus(r) \subseteq r.entities
  <2>1. \A h \in Twins(r) : {e \in h.entities : e.label \in BonusLabels} \subseteq r.entities
    BY DEF Twins
  <2> QED BY <2>1 DEF Bonus
<1>2. r.entities \cup Bonus(r) = r.entities
  BY <1>1
<1>3. Enriched(r) = [r EXCEPT !.entities = r.entities]
  BY <1>2 DEF Enriched
<1> QED BY <1>3 DEF AnyRow, RowsOf

\* One that went through enrich was.
LEMMA GivesAll ==
    ASSUME NEW r \in AnyRow, NEW s \in Splits, NEW j \in DOMAIN files.hybrid[s],
           files.hybrid[s][j].id = Enriched(r).id, files.hybrid[s][j].text = Enriched(r).text
    PROVE  {e \in files.hybrid[s][j].entities : e.label \in BonusLabels} \subseteq Enriched(r).entities
<1> DEFINE h == files.hybrid[s][j]
<1>1. /\ Enriched(r).id = r.id /\ Enriched(r).text = r.text
      /\ Enriched(r).entities = r.entities \cup Bonus(r)
  BY DEF Enriched, AnyRow, RowsOf
<1>2. h \in Twins(r)
  BY <1>1 DEF Twins
<1>3. {e \in h.entities : e.label \in BonusLabels} \subseteq Bonus(r)
  BY <1>2 DEF Bonus
<1> QED BY <1>1, <1>3

LEMMA ReadEnrichAgain == ASSUME CorpusInv, RerunInv, ReadEnrich PROVE RerunInv'
<1> DEFINE old == files.csv[turn]
           rows == [i \in DOMAIN old |-> Enriched(old[i])]
<1>0. phase = "read" /\ script = "enrich" /\ ReadTo(rows)
  BY DEF ReadEnrich, Reading
<1>1. turn \in Splits /\ old \in File /\ old = before.csv[turn]
  BY <1>0, InTurnFacts
<1>2. Shapes /\ files.hybrid = before.hybrid
  BY <1>0 DEF CorpusInv, RerunInv, OtherSide
<1>3. ASSUME last = script PROVE Complete(files.hybrid, old)
  BY <1>0, <1>1, <1>2, <1>3 DEF RerunInv, Again, Stable, Fine, Side
<1>4. last = script => old = Side(script, before)[turn]
  BY <1>0, <1>1 DEF Side
<1> HIDE DEF old
<1>5. Len(old) \in Nat /\ DOMAIN old = 1..Len(old) /\ \A i \in DOMAIN old : old[i] \in AnyRow
  BY <1>1, FileFacts
<1>6. \A i \in DOMAIN old : rows[i] \in AnyRow /\ rows[i] = Enriched(old[i])
  BY <1>2, <1>5, ChangedRow
<1>7. DOMAIN rows = DOMAIN old /\ rows \in File
  BY <1>5, <1>6 DEF File
<1>8. ASSUME last = script PROVE rows = old
  <2>1. ASSUME NEW i \in DOMAIN old PROVE Enriched(old[i]) = old[i]
    <3> DEFINE r == old[i]
    <3>1. r \in AnyRow
      BY <1>5
    <3>2. \A s \in Splits : \A j \in DOMAIN files.hybrid[s] :
               files.hybrid[s][j].id = r.id /\ files.hybrid[s][j].text = r.text
               => {e \in files.hybrid[s][j].entities : e.label \in BonusLabels} \subseteq r.entities
      BY <1>3, <1>8 DEF Complete
    <3> HIDE DEF r
    <3>3. Enriched(r) = r
      BY <1>2, <3>1, <3>2, GivenAll
    <3> QED BY <3>3 DEF r
  <2>2. old = [i \in DOMAIN old |-> old[i]]
    BY <1>1 DEF File
  <2> QED BY <2>1, <2>2
<1>9. Complete(files.hybrid, rows)
  <2> SUFFICES ASSUME NEW i \in DOMAIN rows, NEW s \in Splits, NEW j \in DOMAIN files.hybrid[s],
                      files.hybrid[s][j].id = rows[i].id, files.hybrid[s][j].text = rows[i].text
               PROVE  {e \in files.hybrid[s][j].entities : e.label \in BonusLabels} \subseteq rows[i].entities
    BY DEF Complete
  <2> HIDE DEF rows
  <2>1. old[i] \in AnyRow /\ rows[i] = Enriched(old[i])
    BY <1>5, <1>6, <1>7
  <2> QED BY <2>1, GivesAll
<1>10. Fine(script, files.hybrid, rows, turn)
  BY <1>0, <1>9 DEF Fine
<1>11. last = script => rows = Side(script, before)[turn]
  BY <1>4, <1>8
<1> HIDE DEF rows
<1> QED BY <1>0, <1>7, <1>10, <1>11, ReadToAgain

\* A row that was stripped holds nothing more to strip.
LEMMA StrippedTwice == ASSUME NEW r \in AnyRow PROVE Stripped(Stripped(r)) = Stripped(r)
<1> DEFINE Public(E) == {e \in E : e.label = "PUBLIC_ADDRESS"}
           Goes(E, e) == \/ e.label \in {"PUBLIC_PERSON", "PUBLIC_ADDRESS"}
                         \/ \E p \in Public(E) : p.start <= e.start /\ e.end <= p.end
                         \/ e.label = "PERSON" /\ IsFamous(r.text, e)
           Left(E) == {e \in E : ~Goes(E, e)}
           E == r.entities
<1>1. Stripped(r) = [r EXCEPT !.entities = Left(E)]
  BY DEF Stripped
<1>2. Stripped(r).text = r.text /\ Stripped(r).entities = Left(E)
  BY <1>1 DEF AnyRow, RowsOf
<1>3. Stripped(Stripped(r)) = [Stripped(r) EXCEPT !.entities = Left(Left(E))]
  BY <1>2 DEF Stripped
<1>4. Left(Left(E)) = Left(E)
  OBVIOUS
<1> HIDE DEF Left
<1>5. [Stripped(r) EXCEPT !.entities = Left(E)] = Stripped(r)
  BY <1>1 DEF AnyRow, RowsOf
<1> QED BY <1>3, <1>4, <1>5

LEMMA ReadRelabelAgain == ASSUME CorpusInv, RerunInv, ReadRelabel PROVE RerunInv'
<1> DEFINE old == files.hybrid[turn]
           rows == [i \in DOMAIN old |-> Stripped(old[i])]
<1>0. phase = "read" /\ script = "relabel" /\ ReadTo(rows)
  BY DEF ReadRelabel, Reading
<1>1. turn \in Splits /\ old \in File
  BY <1>0, InTurnFacts
<1>2. Shapes
  BY DEF CorpusInv
<1>3. ASSUME last = script PROVE old = Side(script, before)[turn] /\ Bare(old)
  <2>1. old = Side(script, before)[turn]
    BY <1>0, <1>1, <1>3 DEF RerunInv, Again, Side
  <2>2. Bare(Side(script, before)[turn])
    BY <1>0, <1>1, <1>3 DEF RerunInv, Again, Stable, Fine
  <2> QED BY <2>1, <2>2
<1> HIDE DEF old
<1>4. Len(old) \in Nat /\ DOMAIN old = 1..Len(old) /\ \A i \in DOMAIN old : old[i] \in AnyRow
  BY <1>1, FileFacts
<1>5. \A i \in DOMAIN old : rows[i] \in AnyRow /\ rows[i] = Stripped(old[i])
  BY <1>2, <1>4, ChangedRow
<1>6. DOMAIN rows = DOMAIN old /\ rows \in File
  BY <1>4, <1>5 DEF File
<1>7. ASSUME last = script PROVE rows = Side(script, before)[turn]
  <2>1. old = [i \in DOMAIN old |-> old[i]]
    BY <1>1 DEF File
  <2>2. \A i \in DOMAIN old : Stripped(old[i]) = old[i]
    BY <1>3, <1>7 DEF Bare
  <2> QED BY <1>3, <1>7, <2>1, <2>2
<1>8. Bare(rows)
  <2> HIDE DEF rows
  <2>1. \A i \in DOMAIN rows : old[i] \in AnyRow /\ rows[i] = Stripped(old[i])
    BY <1>4, <1>5, <1>6
  <2>2. \A i \in DOMAIN rows : Stripped(rows[i]) = rows[i]
    BY <2>1, StrippedTwice
  <2> QED BY <2>2 DEF Bare
<1>9. Fine(script, files.hybrid, rows, turn)
  BY <1>0, <1>8 DEF Fine
<1> HIDE DEF rows
<1> QED BY <1>0, <1>6, <1>7, <1>9, ReadToAgain

\* Rows put into the file in turn.
LEMMA SidePut ==
    ASSUME files \in Files, turn \in Splits, NEW rows \in File
    PROVE  /\ Side(script, PutInTurn(rows))[turn] = rows
           /\ \A s \in Splits \ {turn} : Side(script, PutInTurn(rows))[s] = Side(script, files)[s]
           /\ script # "relabel" => PutInTurn(rows).hybrid = files.hybrid
           /\ script = "relabel" => PutInTurn(rows).csv = files.csv
<1>1. CASE script = "relabel"
  BY <1>1 DEF Files, Where, PutInTurn, Side
<1>2. CASE script # "relabel"
  BY <1>2 DEF Files, Where, PutInTurn, Side
<1> QED BY <1>1, <1>2

LEMMA OpenAgain == ASSUME CorpusInv, RerunInv, Open PROVE RerunInv'
<1>e. /\ files' = PutInTurn(<<>>) /\ phase = "open" /\ phase' = "write"
      /\ UNCHANGED <<feed, script, turn, seen, fresh, out, runs, before, last>>
  BY DEF Open, history, PutInTurn
<1>1. turn \in Splits /\ files \in Files /\ script \in Scripts
  BY <1>e DEF CorpusInv, Shapes
<1> DEFINE none == <<>>
<1>2. none \in File /\ files' = PutInTurn(none)
  BY <1>e, NoRows
<1> HIDE DEF none
<1>3. /\ \A s \in Splits \ {turn} : Side(script, files')[s] = Side(script, files)[s]
      /\ script # "relabel" => files'.hybrid = files.hybrid
  BY <1>1, <1>2, SidePut
<1>4. Made /\ Made'
  BY <1>e DEF Made
<1>5. Ended' /\ OtherSide'
  BY <1>3, <1>e DEF RerunInv, Ended, OtherSide
<1>6. Again'
  BY <1>3, <1>4, <1>e DEF RerunInv, Again
<1>7. \A s \in 1..turn - 1 : s \in Splits \ {turn}
  BY <1>1 DEF Splits
<1>8. /\ \A s \in 1..turn - 1 : Fine(script, files.hybrid, Side(script, files)[s], s)
      /\ Fine(script, files.hybrid, out[turn], turn)
      /\ script = "integrate" =>
            \A s \in Splits : out[s] = NotNew(before.csv[s]) \o Additions(feed, AllOld(before.csv), Len(feed), s)
  BY <1>4, <1>e DEF RerunInv, Progress
<1>9. /\ \A s \in 1..turn - 1 : Fine(script, files'.hybrid, Side(script, files')[s], s)
      /\ Fine(script, files'.hybrid, out[turn], turn)
  <2>1. \A s \in 1..turn - 1 : Side(script, files')[s] = Side(script, files)[s]
    BY <1>3, <1>7
  <2> QED BY <1>3, <1>8, <2>1, FineAside
<1>10. Progress'
  BY <1>8, <1>9, <1>e DEF Progress
<1> QED BY <1>5, <1>6, <1>10 DEF RerunInv

\* What is written, and that a script that is run again writes what was there.
LEMMA WritesAgain ==
    ASSUME CorpusInv, RerunInv, Write
    PROVE  /\ turn \in Splits /\ Made /\ phase = "write" /\ script \in Scripts /\ out \in [Splits -> File]
           /\ Side(script, files')[turn] = out[turn]
           /\ \A s \in Splits \ {turn} : Side(script, files')[s] = Side(script, files)[s]
           /\ script # "relabel" => files'.hybrid = files.hybrid
           /\ script = "relabel" => files'.csv = files.csv
           /\ last = script => \A s \in Splits : Side(script, files')[s] = Side(script, before)[s]
           /\ \A s \in 1..turn : Fine(script, files'.hybrid, Side(script, files')[s], s)
           /\ UNCHANGED <<feed, before>>
<1>e. /\ files' = PutInTurn(out[turn]) /\ phase = "write" /\ UNCHANGED <<feed, before>>
  BY DEF Write, PutInTurn
<1>1. turn \in Splits /\ files \in Files /\ out \in [Splits -> File] /\ script \in Scripts
  BY <1>e DEF CorpusInv, Shapes
<1> DEFINE rows == out[turn]
<1>2. rows \in File /\ files' = PutInTurn(rows)
  BY <1>1, <1>e
<1>3. Made
  BY <1>e DEF Made
<1>4. last = script => rows = Side(script, before)[turn]
  <2>1. CASE script # "integrate"
    BY <1>3, <1>e, <2>1 DEF RerunInv, Again
  <2>2. ASSUME script = "integrate", last = script PROVE rows = before.csv[turn]
    <3>1. Whole(feed, before)
      BY <1>e, <2>2 DEF RerunInv, Again, Stable
    <3>2. rows = NotNew(before.csv[turn]) \o Additions(feed, AllOld(before.csv), Len(feed), turn)
      BY <1>1, <1>3, <1>e, <2>2 DEF RerunInv, Progress
    <3> QED BY <1>1, <3>1, <3>2 DEF Whole
  <2> QED BY <2>1, <2>2 DEF Side
<1>5. Fine(script, files.hybrid, rows, turn)
  BY <1>3, <1>e DEF RerunInv, Progress
<1> HIDE DEF rows
<1>6. /\ Side(script, files')[turn] = rows
      /\ \A s \in Splits \ {turn} : Side(script, files')[s] = Side(script, files)[s]
      /\ script # "relabel" => files'.hybrid = files.hybrid
      /\ script = "relabel" => files'.csv = files.csv
  BY <1>1, <1>2, SidePut
<1>7. ASSUME last = script, NEW s \in Splits PROVE Side(script, files')[s] = Side(script, before)[s]
  <2>1. CASE s = turn
    BY <1>4, <1>6, <1>7, <2>1
  <2>2. CASE s # turn
    BY <1>6, <1>7, <1>e, <2>2 DEF RerunInv, Again
  <2> QED BY <2>1, <2>2
<1>8. ASSUME NEW s \in 1..turn PROVE Fine(script, files'.hybrid, Side(script, files')[s], s)
  <2>1. CASE s = turn
    BY <1>5, <1>6, <2>1, FineAside
  <2>2. CASE s # turn
    <3>1. s \in 1..turn - 1 /\ s \in Splits \ {turn}
      BY <1>1, <2>2 DEF Splits
    <3>2. Fine(script, files.hybrid, Side(script, files)[s], s)
      BY <1>e, <3>1 DEF RerunInv, Progress
    <3>3. Side(script, files')[s] = Side(script, files)[s]
      BY <1>6, <3>1
    <3> QED BY <1>6, <3>2, <3>3, FineAside
  <2> QED BY <2>1, <2>2
<1> QED BY <1>1, <1>3, <1>6, <1>7, <1>8, <1>e DEF rows

LEMMA WriteOnAgain == ASSUME CorpusInv, RerunInv, Write, turn \in {1, 2} PROVE RerunInv'
<1>w. /\ turn \in Splits /\ Made /\ phase = "write" /\ script \in Scripts /\ out \in [Splits -> File]
      /\ Side(script, files')[turn] = out[turn]
      /\ \A s \in Splits \ {turn} : Side(script, files')[s] = Side(script, files)[s]
      /\ script # "relabel" => files'.hybrid = files.hybrid
      /\ last = script => \A s \in Splits : Side(script, files')[s] = Side(script, before)[s]
      /\ \A s \in 1..turn : Fine(script, files'.hybrid, Side(script, files')[s], s)
      /\ UNCHANGED <<feed, before>>
  BY WritesAgain
<1>e. /\ turn' = turn + 1 /\ phase' \in {"open", "read"} /\ (phase' = "open" => script = "integrate")
      /\ UNCHANGED <<script, out, last>>
  BY DEF Write, Splits
<1>1. turn' - 1 = turn
  BY <1>e
<1>2. Made' => script = "integrate"
  BY <1>e DEF Made
<1>3. Ended' /\ OtherSide'
  BY <1>e, <1>w DEF RerunInv, Ended, OtherSide
<1>4. Again'
  <2>1. last = script => Stable(script, feed, before)
    BY <1>w DEF RerunInv, Again
  <2> QED BY <1>2, <1>e, <1>w, <2>1 DEF Again
<1>5. Progress'
  <2>1. script = "integrate" =>
            \A s \in Splits : out[s] = NotNew(before.csv[s]) \o Additions(feed, AllOld(before.csv), Len(feed), s)
    BY <1>w DEF RerunInv, Progress
  <2>2. Made' => Fine(script, files'.hybrid, out[turn'], turn')
    BY <1>2 DEF Fine
  <2>3. \A s \in 1..turn' - 1 : Fine(script, files'.hybrid, Side(script, files')[s], s)
    BY <1>1, <1>w
  <2>4. phase' # "take"
    BY <1>e
  <2> QED BY <1>2, <1>e, <1>w, <2>1, <2>2, <2>3, <2>4 DEF Progress
<1> QED BY <1>3, <1>4, <1>5 DEF RerunInv

\* What integrate leaves is what it would leave again: the old rows are the same,
\* so it knows the same keys and adds the same rows.
LEMMA IntegrateWhole ==
    ASSUME CorpusInv, RerunInv, Write, turn = 3, script = "integrate"
    PROVE  Whole(feed, files')
<1> DEFINE O == AllOld(before.csv)
           new(s) == Additions(feed, O, Len(feed), s)
<1>w. /\ Made /\ phase = "write" /\ feed \in Feeds /\ before \in Files
      /\ Side(script, files')[turn] = out[turn]
      /\ \A s \in Splits \ {turn} : Side(script, files')[s] = Side(script, files)[s]
  BY WritesAgain DEF CorpusInv, Shapes
<1>1. ASSUME NEW s \in Splits PROVE files'.csv[s] = out[s]
  <2>1. CASE s = turn
    BY <1>w, <2>1 DEF Side
  <2>2. CASE s # turn
    <3>1. s < turn
      BY <2>2 DEF Splits
    <3> QED BY <1>w, <2>2, <3>1 DEF Side, CorpusInv, Integrated
  <2> QED BY <2>1, <2>2
<1>2. \A s \in Splits : out[s] = NotNew(before.csv[s]) \o new(s)
  BY <1>w DEF RerunInv, Progress
<1>3. Len(feed) \in Nat
  BY <1>w, FeedIsTyped DEF FeedTyped
<1>4. ASSUME NEW s \in Splits
      PROVE  new(s) \in File /\ before.csv[s] \in File /\ \A k \in DOMAIN new(s) : new(s)[k].source \in NewSources
  <2>1. before.csv[s] \in File
    BY <1>w DEF Files
  <2> HIDE DEF O
  <2> QED BY <1>3, <1>w, <2>1, AdditionsFile
<1> HIDE DEF O, new
<1>5. ASSUME NEW s \in Splits
      PROVE  NotNew(files'.csv[s]) = NotNew(before.csv[s]) /\ OldKeys(files'.csv[s]) = OldKeys(before.csv[s])
  <2> DEFINE old == before.csv[s]
             add == new(s)
             all == NotNew(old) \o add
  <2>1. old \in File /\ add \in File /\ \A k \in DOMAIN add : add[k].source \in NewSources
    BY <1>4
  <2>2. files'.csv[s] = all
    BY <1>1, <1>2
  <2> HIDE DEF old, add
  <2>3. NotNew(all) = NotNew(old) /\ NotNew(old) \in File
    BY <2>1, LeftOver, KeptFile
  <2>4. all \in File
    BY <2>1, <2>3, ConcatFile
  <2> HIDE DEF all
  <2>5. Keys(NotNew(all)) = OldKeys(all) /\ Keys(NotNew(old)) = OldKeys(old)
    BY <2>1, <2>4, KeptFile
  <2> QED BY <2>2, <2>3, <2>5 DEF old
<1>6. AllOld(files'.csv) = O
  BY <1>5 DEF AllOld, O
<1>7. \A s \in Splits : files'.csv[s] = NotNew(files'.csv[s]) \o Additions(feed, AllOld(files'.csv), Len(feed), s)
  BY <1>1, <1>2, <1>5, <1>6 DEF new
<1> QED BY <1>7 DEF Whole

LEMMA WriteLastAgain == ASSUME CorpusInv, CorpusInv', RerunInv, Write, turn = 3 PROVE RerunInv'
<1>w. /\ script \in Scripts /\ \A s \in 1..turn : Fine(script, files'.hybrid, Side(script, files')[s], s)
      /\ feed' = feed
  BY WritesAgain
<1>e. phase' = "idle" /\ last' = script /\ clean' = (clean \/ script = "dedup")
  BY DEF Write, Ends
<1>1. ASSUME script = "dedup" PROVE Unique(files'.csv)
  <2>1. clean'
    BY <1>1, <1>e
  <2> QED BY <2>1 DEF CorpusInv, Cleanness
<1>2. \A s \in Splits : Fine(script, files'.hybrid, Side(script, files')[s], s)
  BY <1>w DEF Splits
<1>3. Stable(script, feed, files')
  BY <1>1, <1>2, IntegrateWhole DEF Stable
<1>4. Ended'
  BY <1>3, <1>e, <1>w DEF Ended
<1>5. Again' /\ OtherSide' /\ Progress'
  BY <1>e DEF Again, OtherSide, Progress
<1> QED BY <1>4, <1>5 DEF RerunInv

LEMMA NextAgain == ASSUME CorpusInv, CorpusInv', RerunInv, [Next]_vars PROVE RerunInv'
<1>1. ASSUME NEW s \in Scripts, Launch(s) PROVE RerunInv'
  BY <1>1, LaunchAgain
<1>2. CASE Stopped \/ RowRaises \/ DryRun \/ EnrichRaises
  BY <1>2, StopAgain DEF Stopped, RowRaises, DryRun, EnrichRaises, Fails, Ends
<1>3. CASE Torn
  BY <1>3, StopAgain DEF Torn, Ends
<1>4. CASE ReadAll
  BY <1>4, ReadAllAgain
<1>5. CASE SkipRow
  BY <1>5, SkipRowAgain
<1>6. CASE AddRow
  BY <1>6, AddRowAgain
<1>7. CASE EndTake
  BY <1>7, EndTakeAgain
<1>8. CASE ReadRare
  BY <1>8, ReadRareAgain
<1>9. CASE ReadDedup
  BY <1>9, ReadDedupAgain
<1>10. CASE ReadEnrich
  BY <1>10, ReadEnrichAgain
<1>11. CASE ReadRelabel
  BY <1>11, ReadRelabelAgain
<1>12. CASE Open
  BY <1>12, OpenAgain
<1>13. CASE Write
  <2>1. turn \in {1, 2} \/ turn = 3
    BY <1>13, WritesAgain DEF Splits
  <2> QED BY <1>13, <2>1, WriteOnAgain, WriteLastAgain
<1>14. CASE AllRun \/ UNCHANGED vars
  BY <1>14, StutterAgain DEF AllRun
<1> QED BY <1>1, <1>2, <1>3, <1>4, <1>5, <1>6, <1>7, <1>8, <1>9, <1>10, <1>11, <1>12, <1>13, <1>14 DEF Next

\* The files a script does not write are as it found them, too.
LEMMA SameFiles ==
    ASSUME CorpusInv, CorpusInv', RerunInv, Write, last = script
    PROVE  files' = before
<1>w. /\ phase = "write" /\ script \in Scripts
      /\ script # "relabel" => files'.hybrid = files.hybrid
      /\ script = "relabel" => files'.csv = files.csv
      /\ \A s \in Splits : Side(script, files')[s] = Side(script, before)[s]
      /\ UNCHANGED before
  BY WritesAgain
<1>1. files' \in Files /\ before \in Files /\ files \in Files
  BY DEF CorpusInv, Shapes
<1>2. CASE script = "relabel"
  <2>1. \A s \in Splits : files.csv[s] = before.csv[s]
    BY <1>2, <1>w DEF CorpusInv, Untouched
  <2>2. files'.csv = before.csv
    BY <1>1, <1>2, <1>w, <2>1 DEF Files
  <2>3. files'.hybrid = before.hybrid
    BY <1>1, <1>2, <1>w DEF Files, Side
  <2> QED BY <1>1, <2>2, <2>3 DEF Files
<1>3. CASE script # "relabel"
  <2>1. files'.hybrid = before.hybrid
    BY <1>3, <1>w DEF RerunInv, OtherSide
  <2>2. files'.csv = before.csv
    BY <1>1, <1>3, <1>w DEF Files, Side
  <2> QED BY <1>1, <2>1, <2>2 DEF Files
<1> QED BY <1>2, <1>3

\* Whatever was run and stopped before, a script that is run again right after it
\* came to its end leaves both corpora as they are.
THEOREM RerunsAreIdle == Spec => RerunChangesNothing
<1>1. Init => CorpusInv /\ RerunInv
  BY InitHolds, InitAgain
<1>2. CorpusInv /\ CorpusInv' /\ RerunInv /\ [Next]_vars => RerunInv'
  BY NextAgain
<1>3. CorpusInv /\ CorpusInv' /\ RerunInv /\ [Next]_vars
      => [phase = "write" /\ phase' = "idle" /\ last = script /\ last' = script => files' = before]_vars
  <2> SUFFICES ASSUME CorpusInv, CorpusInv', RerunInv, Next,
                      phase = "write", phase' = "idle", last = script, last' = script
               PROVE  files' = before
    BY DEF Next
  <2>1. script \in Scripts
    BY DEF CorpusInv, Shapes
  <2>2. CASE Write
    BY <2>2, SameFiles
  <2>3. CASE Torn
    BY <2>1, <2>3 DEF Torn, Scripts
  <2>4. Write \/ Torn
    BY DEF Next, Launch, Stopped, ReadAll, SkipRow, AddRow, RowRaises, EndTake, DryRun, Taking,
           ReadRare, ReadDedup, ReadEnrich, EnrichRaises, ReadRelabel, Reading, Open, AllRun
  <2> QED BY <2>2, <2>3, <2>4
<1> QED BY <1>1, <1>2, <1>3, CorpusInvariance, PTL DEF Spec, RerunChangesNothing

-----------------------------------------------------------------------------
(* How a row is made: what the walks of CorpusRows yield                   *)

LEMMA GreatestOf ==
    ASSUME NEW n \in Nat, NEW S, S \subseteq 0..n, S # {}
    PROVE  \E m \in S : \A x \in S : m >= x
<1> DEFINE Above == {b \in Nat : \A x \in S : b >= x}
<1>1. Above \subseteq Nat /\ n \in Above
  OBVIOUS
<1>2. PICK b \in Above : \A c \in Above : b <= c
  <2> HIDE DEF Above
  <2> QED BY ONLY <1>1, LeastOf
<1>3. b \in Nat /\ \A x \in S : b >= x
  BY <1>2
<1>4. ASSUME b \notin S PROVE FALSE
  <2>1. \A x \in S : x \in Nat /\ b - 1 >= x
    <3>1. ASSUME NEW x \in S PROVE x \in Nat /\ b - 1 >= x
      <4>1. x \in Nat /\ b >= x /\ b # x
        BY <1>3, <1>4
      <4> QED BY <1>3, <4>1
    <3> QED BY <3>1
  <2>2. b - 1 \in Nat
    <3>1. PICK x \in S : TRUE
      OBVIOUS
    <3> QED BY <1>3, <2>1, <3>1
  <2>3. b - 1 \in Above
    BY <2>1, <2>2
  <2>4. b <= b - 1
    BY <1>2, <2>3
  <2> QED BY <1>3, <2>4
<1> QED BY <1>3, <1>4

-----------------------------------------------------------------------------
(* Walks: what is made step by step                                        *)

LEMMA Upwards ==
    ASSUME NEW N \in Nat, NEW S, 0 \in S, \A n \in 1..N : n - 1 \in S => n \in S
    PROVE  \A n \in 0..N : n \in S
<1> DEFINE Out == {n \in 0..N : n \notin S}
<1>1. ASSUME Out # {} PROVE FALSE
  <2>1. Out \subseteq Nat
    OBVIOUS
  <2> HIDE DEF Out
  <2>2. PICK m \in Out : \A n \in Out : m <= n
    BY ONLY <1>1, <2>1, LeastOf
  <2>3. m \in 1..N /\ m - 1 \in 0..N /\ ~(m <= m - 1)
    <3>1. m \in 0..N /\ m \notin S
      BY <2>2 DEF Out
    <3>2. m # 0
      BY <3>1
    <3> QED BY <3>1, <3>2
  <2>4. m - 1 \in S
    BY <2>2, <2>3 DEF Out
  <2>5. m \notin S
    BY <2>2 DEF Out
  <2> QED BY <2>3, <2>4, <2>5
<1> QED BY <1>1

\* Each step G[n] leads from the states of S[n - 1] to those of S[n].
Leads(N, S, G, first) ==
    /\ first \in S[0]
    /\ \A n \in 1..N : \A x \in S[n - 1] : G[n][x] \in S[n]

\* A walk has a state for each step, and each is in the set for its step.
LEMMA WalkExists ==
    ASSUME NEW N \in Nat, NEW S, NEW G, NEW first, Leads(N, S, G, first)
    PROVE  \E f : /\ f = [n \in 0..N |-> IF n = 0 THEN first ELSE G[n][f[n - 1]]]
                  /\ \A n \in 0..N : f[n] \in S[n]
<1> DEFINE Rule(f, m) == [n \in 0..m |-> IF n = 0 THEN first ELSE G[n][f[n - 1]]]
           Good(f, m) == f = Rule(f, m) /\ \A n \in 0..m : f[n] \in S[n]
           P == {m \in 0..N : \E f : Good(f, m)}
<1> USE DEF Leads
<1>1. 0 \in P
  <2> DEFINE f == [n \in 0..0 |-> first]
  <2>1. f = Rule(f, 0)
    OBVIOUS
  <2>2. \A n \in 0..0 : f[n] \in S[n]
    OBVIOUS
  <2>3. \E g : Good(g, 0)
    <3> HIDE DEF f
    <3> QED BY <2>1, <2>2
  <2> QED BY <2>3
<1>2. ASSUME NEW m \in 1..N, m - 1 \in P PROVE m \in P
  <2>1. PICK f : Good(f, m - 1)
    BY <1>2
  <2> DEFINE g == [n \in 0..m |-> IF n = m THEN G[m][f[m - 1]] ELSE f[n]]
  <2>2. \A n \in 0..m : n # m => n \in 0..m - 1
    OBVIOUS
  <2>3. \A n \in 0..m - 1 : g[n] = f[n]
    OBVIOUS
  <2>4. ASSUME NEW n \in 0..m PROVE g[n] = IF n = 0 THEN first ELSE G[n][g[n - 1]]
    <3>1. CASE n = m
      <4>1. g[n - 1] = f[m - 1] /\ n # 0
        BY <2>3, <3>1
      <4> QED BY <3>1, <4>1
    <3>2. CASE n # m
      <4>1. n \in 0..m - 1
        BY <2>2, <3>2
      <4>2. n # 0 => n - 1 \in 0..m - 1
        BY <4>1
      <4>3. f[n] = IF n = 0 THEN first ELSE G[n][f[n - 1]]
        BY <2>1, <4>1
      <4> HIDE DEF g
      <4> QED BY <2>3, <4>1, <4>2, <4>3
    <3> QED BY <3>1, <3>2
  <2>5. ASSUME NEW n \in 0..m PROVE g[n] \in S[n]
    <3>1. CASE n = m
      <4>1. m - 1 \in 0..m - 1 /\ f[m - 1] \in S[m - 1]
        BY <2>1
      <4> QED BY <3>1, <4>1
    <3>2. CASE n # m
      BY <2>1, <2>2, <3>2
    <3> QED BY <3>1, <3>2
  <2>6. g = Rule(g, m)
    <3>1. g = [n \in 0..m |-> g[n]]
      OBVIOUS
    <3> HIDE DEF g
    <3> QED BY <2>4, <3>1
  <2> HIDE DEF g
  <2> QED BY <2>5, <2>6
<1>3. N \in P
  <2> HIDE DEF P
  <2>1. \A m \in 0..N : m \in P
    BY <1>1, <1>2, Upwards
  <2> QED BY <2>1
<1> QED BY <1>3

-----------------------------------------------------------------------------
(* The places of a row in their order                                      *)

PlacesUpTo(L) == [start : 0..L, end : 0..L]
Ahead(P, a) == {b \in P : Before(b, a)}

LEMMA PlacesAreFinite == ASSUME NEW L \in Nat PROVE IsFiniteSet(PlacesUpTo(L))
<1> DEFINE S == (0..L) \X (0..L)
           f == [p \in S |-> [start |-> p[1], end |-> p[2]]]
<1>1. IsFiniteSet(S)
  <2>1. IsFiniteSet(0..L)
    BY FS_Interval
  <2> QED BY <2>1, FS_Product
<1>2. f \in Surjection(S, PlacesUpTo(L))
  <2>1. f \in [S -> PlacesUpTo(L)]
    BY DEF PlacesUpTo
  <2>2. ASSUME NEW p \in PlacesUpTo(L) PROVE \E x \in S : f[x] = p
    <3>1. <<p.start, p.end>> \in S /\ p = [start |-> p.start, end |-> p.end]
      BY DEF PlacesUpTo
    <3>2. f[<<p.start, p.end>>] = p
      BY <3>1
    <3> QED BY <3>1, <3>2
  <2> HIDE DEF f, S
  <2> QED BY <2>1, <2>2 DEF Surjection
<1> HIDE DEF f, S
<1> QED BY <1>1, <1>2, FS_Surjection

LEMMA BeforeIsOrder ==
    ASSUME NEW L \in Nat, NEW a \in PlacesUpTo(L), NEW b \in PlacesUpTo(L)
    PROVE  /\ ~Before(a, a)
           /\ a # b => Before(a, b) \/ Before(b, a)
           /\ Before(a, b) => ~Before(b, a)
           /\ \A c \in PlacesUpTo(L) : Before(c, a) /\ Before(a, b) => Before(c, b)
<1>1. a = b <=> a.start = b.start /\ a.end = b.end
  BY DEF PlacesUpTo
<1>2. a.start \in Int /\ a.end \in Int /\ b.start \in Int /\ b.end \in Int
  BY DEF PlacesUpTo
<1>3. \A c \in PlacesUpTo(L) : c.start \in Int /\ c.end \in Int
  BY DEF PlacesUpTo
<1> QED BY <1>1, <1>2, <1>3 DEF Before

\* Each place stands once in the list, behind the places before it.
LEMMA SortedIs ==
    ASSUME NEW L \in Nat, NEW P, P \subseteq PlacesUpTo(L)
    PROVE  /\ Cardinality(P) \in Nat
           /\ Sorted(P) \in [1..Cardinality(P) -> P]
           /\ \A a \in P : \E k \in 1..Cardinality(P) : Sorted(P)[k] = a
           /\ \A j, k \in 1..Cardinality(P) : j < k => Before(Sorted(P)[j], Sorted(P)[k])
<1> DEFINE c == Cardinality(P)
           rank == [a \in P |-> Cardinality(Ahead(P, a)) + 1]
<1>1. IsFiniteSet(P) /\ c \in Nat
  <2>1. IsFiniteSet(PlacesUpTo(L))
    BY PlacesAreFinite
  <2>2. IsFiniteSet(P)
    BY <2>1, FS_Subset
  <2> QED BY <2>2, FS_CardinalityType
<1>2. ASSUME NEW a \in P, NEW A \in SUBSET P, NEW x \in A, Ahead(P, a) \subseteq A, x \notin Ahead(P, a)
      PROVE  /\ IsFiniteSet(Ahead(P, a)) /\ Cardinality(Ahead(P, a)) \in Nat
             /\ Cardinality(A) \in Nat /\ Cardinality(Ahead(P, a)) < Cardinality(A)
  <2>1. IsFiniteSet(A) /\ Cardinality(A) \in Nat
    BY <1>1, FS_Subset, FS_CardinalityType
  <2>2. /\ IsFiniteSet(Ahead(P, a)) /\ Cardinality(Ahead(P, a)) <= Cardinality(A)
        /\ Cardinality(A) = Cardinality(Ahead(P, a)) => A = Ahead(P, a)
    BY <1>2, <2>1, FS_Subset
  <2>3. Cardinality(Ahead(P, a)) \in Nat
    BY <2>2, FS_CardinalityType
  <2> QED BY <1>2, <2>1, <2>2, <2>3
<1>3. ASSUME NEW a \in P PROVE rank[a] \in 1..c /\ Cardinality(Ahead(P, a)) \in Nat
  <2>1. a \notin Ahead(P, a) /\ Ahead(P, a) \subseteq P
    BY BeforeIsOrder DEF Ahead
  <2>2. Cardinality(Ahead(P, a)) \in Nat /\ Cardinality(Ahead(P, a)) < c
    BY <1>2, <2>1
  <2> QED BY <1>1, <2>2
<1>4. ASSUME NEW a \in P, NEW b \in P, Before(a, b) PROVE rank[a] < rank[b]
  <2>1. Ahead(P, a) \subseteq Ahead(P, b) /\ a \in Ahead(P, b) /\ a \notin Ahead(P, a) /\ Ahead(P, b) \in SUBSET P
    BY <1>4, BeforeIsOrder DEF Ahead
  <2>2. Cardinality(Ahead(P, a)) < Cardinality(Ahead(P, b))
    BY <1>2, <2>1
  <2> QED BY <1>3, <2>2
<1>5. \A a, b \in P : rank[a] = rank[b] => a = b
  <2>1. SUFFICES ASSUME NEW a \in P, NEW b \in P, a # b PROVE rank[a] # rank[b]
    OBVIOUS
  <2>2. Before(a, b) \/ Before(b, a)
    BY <2>1, BeforeIsOrder
  <2>3. rank[a] \in Int /\ rank[b] \in Int
    BY <1>3
  <2> HIDE DEF rank
  <2> QED BY <1>4, <2>2, <2>3
<1>6. rank \in Surjection(P, 1..c)
  <2>1. rank \in [P -> 1..c]
    BY <1>3
  <2> HIDE DEF rank
  <2>2. rank \in Injection(P, 1..c)
    BY <1>5, <2>1 DEF Injection, IsInjective
  <2>3. IsFiniteSet(1..c) /\ Cardinality(1..c) = c
    BY <1>1, FS_Interval
  <2> HIDE DEF c
  <2>4. Cardinality(P) = Cardinality(1..c)
    BY <2>3 DEF c
  <2> QED BY ONLY <2>2, <2>3, <2>4, FS_Injection
<1>7. ASSUME NEW k \in 1..c PROVE Sorted(P)[k] \in P /\ rank[Sorted(P)[k]] = k
  <2>1. PICK a \in P : rank[a] = k
    <3> HIDE DEF rank
    <3> QED BY <1>6 DEF Surjection
  <2>2. Cardinality({b \in P : Before(b, a)}) = k - 1
    BY <1>3, <2>1 DEF Ahead
  <2> DEFINE x == CHOOSE y \in P : Cardinality({b \in P : Before(b, y)}) = k - 1
  <2>3. x \in P /\ Cardinality({b \in P : Before(b, x)}) = k - 1
    BY <2>2
  <2>4. Sorted(P)[k] = x
    BY DEF Sorted
  <2> HIDE DEF x
  <2>5. Cardinality(Ahead(P, x)) = k - 1
    BY <2>3 DEF Ahead
  <2> QED BY <2>3, <2>4, <2>5
<1>8. Sorted(P) \in [1..c -> P]
  <2> DEFINE list == Sorted(P)
             Choice(k) == CHOOSE a \in P : Cardinality({b \in P : Before(b, a)}) = k - 1
  <2>1. list = [k \in 1..c |-> Choice(k)]
    BY DEF Sorted
  <2> HIDE DEF c, rank, list, Choice
  <2>2. ASSUME NEW k \in 1..c PROVE list[k] \in P
    BY <1>7 DEF list
  <2>3. list \in [1..c -> P]
    BY ONLY <2>1, <2>2
  <2> QED BY <2>3 DEF list
<1>9. ASSUME NEW a \in P PROVE \E k \in 1..c : Sorted(P)[k] = a
  <2>1. rank[a] \in 1..c
    BY <1>3
  <2>2. Sorted(P)[rank[a]] \in P /\ rank[Sorted(P)[rank[a]]] = rank[a]
    BY <1>7, <2>1
  <2> HIDE DEF rank
  <2>3. Sorted(P)[rank[a]] = a
    BY <1>5, <2>2
  <2> QED BY <2>1, <2>3
<1>10. ASSUME NEW j \in 1..c, NEW k \in 1..c, j < k PROVE Before(Sorted(P)[j], Sorted(P)[k])
  <2> DEFINE a == Sorted(P)[j]
             b == Sorted(P)[k]
  <2>1. a \in P /\ b \in P /\ rank[a] = j /\ rank[b] = k
    BY <1>7
  <2> HIDE DEF rank, a, b
  <2>2. ~(k < j) /\ j # k
    BY <1>10
  <2>3. ~Before(b, a) /\ a # b
    BY <1>4, <2>1, <2>2
  <2>4. Before(a, b) \/ Before(b, a)
    BY <2>1, <2>3, BeforeIsOrder
  <2> QED BY <2>3, <2>4 DEF a, b
<1> QED BY <1>1, <1>8, <1>9, <1>10
-----------------------------------------------------------------------------
(* The check of a row                                                      *)

\* What is still open: the ends behind the start, if the ends never grow.
Falling(ends) == \A i, j \in DOMAIN ends : i < j => ends[i] >= ends[j]

LEMMA StillOpenIs ==
    ASSUME NEW ends \in Seq(Nat), NEW start \in Nat
    PROVE  LET open == StillOpen(ends, start)
           IN  /\ open \in Seq(Nat) /\ (Falling(ends) => Falling(open))
               /\ Len(open) \in Nat
               /\ \A i \in DOMAIN ends : ends[i] > start => i \in DOMAIN open
               /\ \A i \in DOMAIN open : i \in DOMAIN ends /\ open[i] = ends[i]
               /\ DOMAIN open = 1..Len(open)
<1> DEFINE S == {0} \cup {i \in DOMAIN ends : ends[i] > start}
           m == Max(S)
<1>1. DOMAIN ends = 1..Len(ends) /\ Len(ends) \in Nat /\ \A i \in DOMAIN ends : ends[i] \in Nat
  OBVIOUS
<1>2. S \subseteq 0..Len(ends) /\ 0 \in S
  BY <1>1
<1>3. \E x \in S : \A y \in S : x >= y
  <2> HIDE DEF S
  <2> QED BY <1>1, <1>2, GreatestOf
<1>4. m \in S /\ \A y \in S : m >= y
  <2> HIDE DEF S
  <2> QED BY <1>3 DEF Max
<1>5. m \in 0..Len(ends)
  BY <1>2, <1>4
<1>6. \A i \in DOMAIN ends : ends[i] > start => i \in 1..m
  <2>1. SUFFICES ASSUME NEW i \in DOMAIN ends, ends[i] > start PROVE i \in 1..m
    OBVIOUS
  <2>2. m >= i
    BY <1>4, <2>1
  <2> QED BY <1>1, <1>5, <2>2
<1> HIDE DEF m
<1>7. StillOpen(ends, start) = SubSeq(ends, 1, m)
  BY DEF StillOpen, m, S
<1>8. /\ SubSeq(ends, 1, m) \in Seq(Nat) /\ Len(SubSeq(ends, 1, m)) = m
      /\ DOMAIN SubSeq(ends, 1, m) = 1..m
      /\ \A i \in 1..m : SubSeq(ends, 1, m)[i] = ends[i]
  BY <1>1, <1>5
<1>9. 1..m \subseteq DOMAIN ends
  BY <1>1, <1>5
<1>10. Falling(ends) => Falling(SubSeq(ends, 1, m))
  BY <1>8, <1>9 DEF Falling
<1> QED BY <1>5, <1>6, <1>7, <1>8, <1>9, <1>10

\* Of two places that are sorted, the second lies behind the first or in it.
Apart(a, b) == a.end <= b.start \/ b.end <= a.end

Listed(L, list) ==
    /\ Len(list) \in Nat
    /\ \A k \in 1..Len(list) : list[k] \in PlacesUpTo(L) /\ list[k].start < list[k].end
    /\ \A j, k \in 1..Len(list) : j < k => Before(list[j], list[k])

\* After n places: while the check holds, what is open is remembered.
Remembers(list, n, st) ==
    /\ Falling(st.ends)
    /\ \A j \in 1..n : list[j].end > list[n].start => \E i \in DOMAIN st.ends : st.ends[i] = list[j].end
    /\ \A j, k \in 1..n : j < k => Apart(list[j], list[k])

VisitStates(list, n) ==
    {st \in [ends : Seq(Nat), ok : BOOLEAN] : st.ok => Remembers(list, n, st)}

LEMMA VisitStep ==
    ASSUME NEW L \in Nat, NEW list, Listed(L, list),
           NEW n \in 1..Len(list), NEW st \in VisitStates(list, n - 1)
    PROVE  Visit(st, list[n]) \in VisitStates(list, n)
<1> DEFINE e == list[n]
           open == StillOpen(st.ends, e.start)
           next == Visit(st, e)
<1>1. /\ e \in PlacesUpTo(L) /\ e.start \in Nat /\ e.end \in Nat /\ e.start < e.end
      /\ \A j \in 1..n - 1 : list[j].start \in Nat /\ list[j].end \in Nat /\ list[j].start <= e.start
  <2>1. \A k \in 1..Len(list) : list[k].start \in Nat /\ list[k].end \in Nat /\ list[k].start < list[k].end
    BY DEF Listed, PlacesUpTo
  <2>2. ASSUME NEW j \in 1..n - 1 PROVE list[j].start <= e.start
    <3>1. j \in 1..Len(list) /\ n \in 1..Len(list) /\ j < n
      BY DEF Listed
    <3>2. Before(list[j], e)
      BY <3>1 DEF Listed
    <3> QED BY <2>1, <3>1, <3>2 DEF Before
  <2>3. \A j \in 1..n - 1 : j \in 1..Len(list)
    BY DEF Listed
  <2> QED BY <2>1, <2>2, <2>3 DEF Listed
<1>2. st.ends \in Seq(Nat) /\ st.ok \in BOOLEAN /\ (st.ok => Remembers(list, n - 1, st))
  BY DEF VisitStates
<1>3. /\ open \in Seq(Nat) /\ (Falling(st.ends) => Falling(open)) /\ Len(open) \in Nat
      /\ \A i \in DOMAIN st.ends : st.ends[i] > e.start => i \in DOMAIN open
      /\ \A i \in DOMAIN open : i \in DOMAIN st.ends /\ open[i] = st.ends[i]
      /\ DOMAIN open = 1..Len(open)
  <2> DEFINE ends == st.ends
             start == e.start
  <2>1. ends \in Seq(Nat) /\ start \in Nat
    BY <1>1, <1>2
  <2>2. open = StillOpen(ends, start)
    OBVIOUS
  <2> HIDE DEF ends, start, open
  <2>3. /\ open \in Seq(Nat) /\ (Falling(ends) => Falling(open)) /\ Len(open) \in Nat
        /\ \A i \in DOMAIN ends : ends[i] > start => i \in DOMAIN open
        /\ \A i \in DOMAIN open : i \in DOMAIN ends /\ open[i] = ends[i]
        /\ DOMAIN open = 1..Len(open)
    BY ONLY <2>1, <2>2, StillOpenIs
  <2> QED BY <2>3 DEF ends, start
<1>4. next = [ends |-> Append(open, e.end), ok |-> st.ok /\ (open = <<>> \/ e.end <= Last(open))]
  BY DEF Visit
<1> HIDE DEF e, open, next
<1>5. next \in [ends : Seq(Nat), ok : BOOLEAN]
  BY <1>1, <1>2, <1>3, <1>4
<1>6. ASSUME next.ok PROVE Remembers(list, n, next)
  <2>1. st.ok /\ (open = <<>> \/ e.end <= Last(open))
    BY <1>4, <1>6
  <2>2. /\ Len(next.ends) = Len(open) + 1 /\ DOMAIN next.ends = 1..Len(open) + 1
        /\ next.ends[Len(open) + 1] = e.end
        /\ \A i \in DOMAIN open : i \in DOMAIN next.ends /\ next.ends[i] = open[i]
    BY <1>1, <1>3, <1>4
  <2>3. \A i \in DOMAIN open : open[i] \in Nat /\ e.end <= open[i]
    <3>1. SUFFICES ASSUME NEW i \in DOMAIN open PROVE open[i] \in Nat /\ e.end <= open[i]
      OBVIOUS
    <3>2. open # <<>> /\ Last(open) = open[Len(open)] /\ Len(open) \in DOMAIN open
      BY <1>3 DEF Last
    <3>3. e.end <= open[Len(open)]
      BY <2>1, <3>2
    <3>4. open[i] >= open[Len(open)]
      <4>1. i = Len(open) \/ i < Len(open)
        BY <1>3
      <4>2. open[i] \in Nat
        BY <1>3
      <4>3. Falling(open)
        BY <1>2, <1>3, <2>1 DEF Remembers
      <4> QED BY <3>2, <4>1, <4>2, <4>3 DEF Falling
    <3>5. open[i] \in Nat /\ open[Len(open)] \in Nat
      BY <1>3, <3>2
    <3> QED BY <1>1, <3>3, <3>4, <3>5
  <2>4. Falling(next.ends)
    <3>1. SUFFICES ASSUME NEW i \in 1..Len(open) + 1, NEW j \in 1..Len(open) + 1, i < j
                   PROVE next.ends[i] >= next.ends[j]
      BY <2>2 DEF Falling
    <3>2. i \in DOMAIN open
      BY <1>3, <3>1
    <3>3. CASE j \in DOMAIN open
      BY <1>2, <1>3, <2>1, <2>2, <3>1, <3>2, <3>3 DEF Remembers, Falling
    <3>4. CASE j \notin DOMAIN open
      <4>1. j = Len(open) + 1
        BY <1>3, <3>4
      <4> QED BY <1>1, <2>2, <2>3, <3>2, <4>1
    <3> QED BY <3>3, <3>4
  <2>5. ASSUME NEW j \in 1..n - 1, list[j].end > e.start
        PROVE  \E i \in DOMAIN open : open[i] = list[j].end
    <3>0. list[j].end \in Nat
      BY <1>1
    <3>1. n - 1 \in 1..n - 1 /\ list[n - 1].start \in Nat /\ list[n - 1].start <= e.start
      BY <1>1
    <3>2. list[j].end > list[n - 1].start
      BY <1>1, <2>5, <3>0, <3>1
    <3>3. PICK i \in DOMAIN st.ends : st.ends[i] = list[j].end
      BY <1>2, <2>1, <3>2 DEF Remembers
    <3> QED BY <1>3, <2>5, <3>3
  <2>6. ASSUME NEW j \in 1..n, list[j].end > list[n].start
        PROVE  \E i \in DOMAIN next.ends : next.ends[i] = list[j].end
    <3>1. CASE j = n
      <4>1. Len(open) + 1 \in DOMAIN next.ends
        BY <1>3, <2>2
      <4> QED BY <2>2, <3>1, <4>1 DEF e
    <3>2. CASE j # n
      <4>1. j \in 1..n - 1
        BY <3>2
      <4>2. PICK i \in DOMAIN open : open[i] = list[j].end
        BY <2>5, <2>6, <4>1 DEF e
      <4> QED BY <2>2, <4>2
    <3> QED BY <3>1, <3>2
  <2>7. ASSUME NEW j \in 1..n, NEW k \in 1..n, j < k PROVE Apart(list[j], list[k])
    <3>1. CASE k # n
      <4>1. j \in 1..n - 1 /\ k \in 1..n - 1
        BY <2>7, <3>1
      <4> QED BY <1>2, <2>1, <2>7, <4>1 DEF Remembers
    <3>2. CASE k = n
      <4>1. j \in 1..n - 1
        BY <2>7, <3>2
      <4>2. list[j].end \in Nat
        BY <1>1, <4>1
      <4>3. CASE list[j].end > e.start
        <5>1. PICK i \in DOMAIN open : open[i] = list[j].end
          BY <2>5, <4>1, <4>3
        <5>2. e.end <= list[j].end
          BY <2>3, <5>1
        <5> QED BY <3>2, <5>2 DEF Apart, e
      <4>4. CASE ~(list[j].end > e.start)
        <5>1. list[j].end <= e.start
          BY <1>1, <4>2, <4>4
        <5> QED BY <3>2, <5>1 DEF Apart, e
      <4> QED BY <4>3, <4>4
    <3> QED BY <3>1, <3>2
  <2> QED BY <2>4, <2>6, <2>7 DEF Remembers
<1> QED BY <1>5, <1>6 DEF VisitStates, next, e

LEMMA VisitsAre ==
    ASSUME NEW L \in Nat, NEW list, Listed(L, list)
    PROVE  \A n \in 0..Len(list) : Visits(list)[n] \in VisitStates(list, n)
<1> DEFINE N == Len(list)
           first == [ends |-> <<>>, ok |-> TRUE]
           S == [n \in 0..N |-> VisitStates(list, n)]
           G == [n \in 1..N |-> [st \in S[n - 1] |-> Visit(st, list[n])]]
           Rule(f) == [n \in 0..N |-> IF n = 0 THEN first ELSE Visit(f[n - 1], list[n])]
<1>1. N \in Nat
  BY DEF Listed
<1>2. first \in S[0]
  BY <1>1 DEF VisitStates, Remembers, Falling
<1>3. ASSUME NEW n \in 1..N, NEW st \in S[n - 1]
      PROVE  Visit(st, list[n]) \in S[n] /\ G[n][st] = Visit(st, list[n])
  <2>1. n \in 0..N /\ n - 1 \in 0..N
    BY <1>1
  <2> QED BY <1>3, <2>1, VisitStep
<1>4. PICK f : f = [n \in 0..N |-> IF n = 0 THEN first ELSE G[n][f[n - 1]]] /\ \A n \in 0..N : f[n] \in S[n]
  <2> HIDE DEF first, S, G, N
  <2>1. \A n \in 1..N : \A st \in S[n - 1] : G[n][st] \in S[n]
    BY <1>3
  <2>2. Leads(N, S, G, first)
    BY <1>2, <2>1 DEF Leads
  <2> QED BY ONLY <1>1, <2>2, WalkExists
<1>5. f = Rule(f)
  <2>1. \A n \in 0..N : n # 0 => n \in 1..N /\ n - 1 \in 0..N
    BY <1>1
  <2> HIDE DEF first, S, G, N
  <2> QED BY <1>3, <1>4, <2>1
<1>6. Visits(list) = Rule(Visits(list))
  BY <1>5 DEF Visits
<1> HIDE DEF first, S, G, N
<1>7. \A n \in 0..N : Visits(list)[n] = IF n = 0 THEN first ELSE Visit(Visits(list)[n - 1], list[n])
  BY <1>6
<1> DEFINE Right == {n \in 0..N : Visits(list)[n] \in S[n]}
<1>8. 0 \in Right /\ \A n \in 1..N : n - 1 \in Right => n \in Right
  <2>1. 0 \in 0..N /\ \A n \in 1..N : n \in 0..N /\ n # 0
    BY <1>1
  <2> QED BY <1>2, <1>3, <1>7, <2>1
<1>9. \A n \in 0..N : n \in Right
  <2> HIDE DEF Right
  <2> QED BY <1>1, <1>8, Upwards
<1> QED BY <1>9 DEF S, N

-----------------------------------------------------------------------------
(* Sound rows                                                              *)

\* What the check of a row lets through has no crossing.
LEMMA ValidIsLaminar ==
    ASSUME NEW t \in Texts, NEW E, Inside(t, E), ValidRow(E)
    PROVE  Laminar(E)
<1> DEFINE L == Length[t]
           P == {Place(e) : e \in E}
           list == Sorted(P)
           N == Len(list)
<1>1. L \in Nat
  BY RowsAssumption
<1>2. \A e \in E : e.start \in 0..L /\ e.end \in 0..L /\ e.start < e.end
  BY <1>1 DEF Inside, InText
<1>3. /\ P \subseteq PlacesUpTo(L) /\ \A p \in P : p.start < p.end
      /\ \A e \in E : Place(e) \in P
  BY <1>2 DEF PlacesUpTo, Place
<1>4. ValidRow(E) = Visits(list)[N].ok
  BY DEF ValidRow
<1> HIDE DEF P
<1>5. /\ Cardinality(P) \in Nat
      /\ list \in [1..Cardinality(P) -> P]
      /\ \A a \in P : \E k \in 1..Cardinality(P) : list[k] = a
      /\ \A j, k \in 1..Cardinality(P) : j < k => Before(list[j], list[k])
  BY <1>1, <1>3, SortedIs
<1>6. N = Cardinality(P)
  BY <1>5
<1> HIDE DEF list, N
<1>7. Listed(L, list)
  BY <1>3, <1>5, <1>6 DEF Listed, N
<1>8. Visits(list)[N] \in VisitStates(list, N)
  BY <1>1, <1>5, <1>6, <1>7, VisitsAre DEF N
<1>9. \A j, k \in 1..N : j < k => Apart(list[j], list[k])
  BY <1>4, <1>8 DEF VisitStates, Remembers
<1>10. ASSUME NEW a \in P, NEW b \in P
       PROVE  a = b \/ (Before(a, b) /\ Apart(a, b)) \/ (Before(b, a) /\ Apart(b, a))
  <2>1. PICK j \in 1..N : list[j] = a
    BY <1>5, <1>6
  <2>2. PICK k \in 1..N : list[k] = b
    BY <1>5, <1>6
  <2>3. j < k \/ k < j \/ j = k
    BY <1>5, <1>6
  <2> QED BY <1>5, <1>6, <1>9, <2>1, <2>2, <2>3
<1>11. ASSUME NEW d \in E, NEW e \in E PROVE Disjoint(d, e) \/ Nested(d, e) \/ Nested(e, d)
  <2> DEFINE a == Place(d)
             b == Place(e)
  <2>1. a \in P /\ b \in P
    BY <1>3
  <2>2. a.start = d.start /\ a.end = d.end /\ b.start = e.start /\ b.end = e.end
    BY DEF Place
  <2>3. d.start \in Int /\ d.end \in Int /\ e.start \in Int /\ e.end \in Int
    BY <1>1, <1>2
  <2> HIDE DEF a, b
  <2>4. a = b \/ (Before(a, b) /\ Apart(a, b)) \/ (Before(b, a) /\ Apart(b, a))
    BY <1>10, <2>1
  <2> QED BY <2>2, <2>3, <2>4 DEF Before, Apart, Disjoint, Nested
<1> QED BY <1>11 DEF Laminar

-----------------------------------------------------------------------------
(* What the extractors find lies in the text                               *)

Span(t, Y) == {e \in [start : Nat, end : Nat, label : Y] : InText(t, e)}

LEMMA LeastIs == ASSUME NEW S, S \subseteq Nat, S # {} PROVE Min(S) \in S /\ \A x \in S : Min(S) <= x
<1>1. \E m \in S : \A n \in S : m <= n
  BY LeastOf
<1> QED BY <1>1 DEF Min

LEMMA GreatestIs ==
    ASSUME NEW n \in Nat, NEW S, S \subseteq 0..n, S # {}
    PROVE  Max(S) \in S /\ \A x \in S : Max(S) >= x
<1>1. \E m \in S : \A x \in S : m >= x
  BY GreatestOf
<1> QED BY <1>1 DEF Max

LEMMA TextFacts ==
    ASSUME NEW t \in Texts
    PROVE  /\ Length[t] \in Nat
           /\ \A v \in Values : /\ Width[v] \in Nat \ {0}
                               /\ \A p \in Occurs[t][v] : p \in Nat /\ p + Width[v] <= Length[t]
<1>1. Length[t] \in Nat /\ \A v \in Values : Width[v] \in Nat \ {0}
  BY RowsAssumption
<1>2. \A v \in Values : Occurs[t][v] \subseteq 0..Length[t] - Width[v]
  BY RowsAssumption
<1>3. ASSUME NEW v \in Values, NEW p \in Occurs[t][v] PROVE p \in Nat /\ p + Width[v] <= Length[t]
  <2>1. p \in 0..Length[t] - Width[v]
    BY <1>2
  <2> QED BY <1>1, <2>1
<1> QED BY <1>1, <1>3

LEMMA FindIs ==
    ASSUME NEW t \in Texts, NEW v \in Values, NEW from \in Nat
    PROVE  /\ Find(t, v, from) \in Nat
           /\ ~Missing(t, Find(t, v, from)) => Find(t, v, from) \in Occurs[t][v] /\ Find(t, v, from) >= from
<1> DEFINE S == {p \in Occurs[t][v] : p >= from} \cup {Length[t]}
<1>1. S \subseteq Nat /\ S # {}
  BY TextFacts
<1>2. Min(S) \in S
  <2> HIDE DEF S
  <2> QED BY <1>1, LeastIs
<1>3. Find(t, v, from) = Min(S)
  BY DEF Find
<1> QED BY <1>1, <1>2, <1>3 DEF Missing

LEMMA FoundPlace ==
    ASSUME NEW t \in Texts, NEW v \in Values, NEW p \in Occurs[t][v], NEW Y, NEW l \in Y
    PROVE  At(p, p + Width[v], l) \in Span(t, Y) /\ ~Missing(t, p)
<1>1. /\ p \in Nat /\ Width[v] \in Nat \ {0} /\ p + Width[v] <= Length[t] /\ Length[t] \in Nat
  BY TextFacts
<1> QED BY <1>1 DEF At, Span, InText, Missing

LEMMA GroupsLie ==
    ASSUME NEW start \in Nat, NEW end \in Nat, NEW n \in Nat, NEW t
    PROVE  \A i \in Groups(t, start, end, n) : i \in Nat /\ start <= i /\ i + n <= end
BY DEF Groups

LEMMA DocumentLies ==
    ASSUME NEW t \in Texts, NEW start \in Nat, NEW end \in Nat, end <= Length[t]
    PROVE  DocumentSpans(t, start, end) \subseteq Span(t, {"SERIES", "NUMBER"})
<1> DEFINE Y == {"SERIES", "NUMBER"}
           Series(i) == At(i, i + SERIES, "SERIES")
           Number(i) == At(i, i + NUMBER, "NUMBER")
           Found(n) == Groups(t, start, end, n)
           pairs == Pairs(t, start, end)
           firsts == {p[1] : p \in pairs}
           i0 == Min(firsts)
           seconds == {p[2] : p \in {q \in pairs : q[1] = i0}}
           j0 == Min(seconds)
<1>0. Length[t] \in Nat /\ SERIES = 4 /\ NUMBER = 6
  BY TextFacts DEF SERIES, NUMBER
<1>1. \A i \in Found(SERIES) : i \in Nat /\ i + 4 <= end
  BY <1>0, GroupsLie
<1>2. \A i \in Found(NUMBER) : i \in Nat /\ i + 6 <= end
  BY <1>0, GroupsLie
<1>3. \A i \in Found(SERIES + NUMBER) : i \in Nat /\ i + 10 <= end
  BY <1>0, GroupsLie
<1>4. \A i \in Nat : i + 4 <= end => Series(i) \in Span(t, Y)
  BY <1>0 DEF At, Span, InText
<1>5. \A i \in Nat : i + 6 <= end => Number(i) \in Span(t, Y)
  BY <1>0 DEF At, Span, InText
<1>6. pairs \subseteq Found(SERIES) \X Found(NUMBER)
  BY DEF Pairs
<1>7. ASSUME pairs # {} PROVE {Series(i0), Number(j0)} \subseteq Span(t, Y)
  <2>1. \A p \in pairs : p[1] \in Found(SERIES) /\ p[2] \in Found(NUMBER)
    BY <1>6
  <2>2. firsts \subseteq Nat /\ firsts # {} /\ firsts \subseteq Found(SERIES)
    BY <1>1, <1>7, <2>1
  <2>3. i0 \in firsts
    <3> HIDE DEF firsts
    <3> QED BY <2>2, LeastIs
  <2>4. seconds \subseteq Found(NUMBER) /\ seconds # {}
    <3> HIDE DEF i0
    <3> QED BY <2>1, <2>3
  <2>5. seconds \subseteq Nat
    BY <1>2, <2>4
  <2>6. j0 \in seconds
    <3> HIDE DEF seconds
    <3> QED BY <2>4, <2>5, LeastIs
  <2>7. i0 \in Found(SERIES) /\ j0 \in Found(NUMBER)
    <3> HIDE DEF firsts, seconds, i0, j0
    <3> QED BY <2>2, <2>3, <2>4, <2>6
  <2> HIDE DEF i0, j0, Found, Series, Number
  <2> QED BY <1>1, <1>2, <1>4, <1>5, <2>7
<1>8. ASSUME NEW n \in {SERIES, NUMBER, SERIES + NUMBER}, Found(n) # {}
      PROVE  Min(Found(n)) \in Found(n)
  <2>1. Found(n) \subseteq Nat
    BY <1>1, <1>2, <1>3
  <2> HIDE DEF Found
  <2> QED BY <1>8, <2>1, LeastIs
<1>9. ASSUME Found(SERIES + NUMBER) # {}
      PROVE  LET i == Min(Found(SERIES + NUMBER)) IN {Series(i), Number(i + SERIES)} \subseteq Span(t, Y)
  <2> DEFINE i == Min(Found(SERIES + NUMBER))
  <2>1. i \in Nat /\ i + 10 <= end
    BY <1>3, <1>8, <1>9
  <2> HIDE DEF i
  <2>2. i + 4 <= end /\ i + SERIES \in Nat /\ (i + SERIES) + 6 <= end
    BY <1>0, <2>1
  <2> HIDE DEF Series, Number
  <2> QED BY <1>4, <1>5, <2>1, <2>2 DEF i
<1>10. ASSUME Found(NUMBER) # {} PROVE {Number(Min(Found(NUMBER)))} \subseteq Span(t, Y)
  <2>1. Min(Found(NUMBER)) \in Found(NUMBER)
    BY <1>8, <1>10
  <2> HIDE DEF Found, Number
  <2> QED BY <1>2, <1>5, <2>1
<1>11. ASSUME Found(SERIES) # {} PROVE {Series(Min(Found(SERIES)))} \subseteq Span(t, Y)
  <2>1. Min(Found(SERIES)) \in Found(SERIES)
    BY <1>8, <1>11
  <2> HIDE DEF Found, Series
  <2> QED BY <1>1, <1>4, <2>1
<1>12. DocumentSpans(t, start, end) =
         IF pairs # {} THEN {Series(i0), Number(j0)}
         ELSE IF Found(SERIES + NUMBER) # {}
         THEN {Series(Min(Found(SERIES + NUMBER))), Number(Min(Found(SERIES + NUMBER)) + SERIES)}
         ELSE IF Found(NUMBER) # {} THEN {Number(Min(Found(NUMBER)))}
         ELSE IF Found(SERIES) # {} THEN {Series(Min(Found(SERIES)))}
         ELSE {}
  BY DEF DocumentSpans
<1> HIDE DEF pairs, i0, j0, Found, Series, Number
<1> QED BY <1>7, <1>9, <1>10, <1>11, <1>12 DEF Y

LEMMA EntitiesLie ==
    ASSUME NEW t \in Texts, NEW e, InText(t, e)
    PROVE  /\ Inside(t, Entities(t, e))
           /\ \A Y : {"SERIES", "NUMBER"} \subseteq Y /\ e \in Span(t, Y) => Entities(t, e) \subseteq Span(t, Y)
<1>1. e.start \in Nat /\ e.end \in Nat /\ e.end <= Length[t]
  BY DEF InText
<1>2. DocumentSpans(t, e.start, e.end) \subseteq Span(t, {"SERIES", "NUMBER"})
  BY <1>1, DocumentLies
<1>3. Entities(t, e) \subseteq DocumentSpans(t, e.start, e.end) \cup {e}
  BY DEF Entities
<1>4. \A Y : {"SERIES", "NUMBER"} \subseteq Y => Span(t, {"SERIES", "NUMBER"}) \subseteq Span(t, Y)
  BY DEF Span
<1>5. Inside(t, DocumentSpans(t, e.start, e.end))
  BY <1>2 DEF Inside, Span
<1> QED BY <1>2, <1>3, <1>4, <1>5 DEF Inside

LEMMA HivetraceLies ==
    ASSUME NEW row, SourceRow(row), row.source = "hivetrace"
    PROVE  Inside(row.text, UNION {Entities(row.text, e) : e \in row.spans})
<1>1. row.text \in Texts /\ \A e \in row.spans : InText(row.text, e)
  BY DEF SourceRow, Inside
<1>2. \A e \in row.spans : Inside(row.text, Entities(row.text, e))
  BY <1>1, EntitiesLie
<1> QED BY <1>2 DEF Inside

-----------------------------------------------------------------------------
(* Tokens and runs                                                         *)

Tokens(tokens) ==
    /\ Len(tokens) \in Nat /\ DOMAIN tokens = 1..Len(tokens)
    /\ \A n \in 1..Len(tokens) : tokens[n].value \in Values

\* Each token ends in the text, behind the one before.
Laid(t, tokens, ends) ==
    \A n \in 1..Len(tokens) :
        /\ ends[n - 1] \in Int /\ ends[n] \in Nat /\ Starts(tokens, ends, n) \in Nat
        /\ ends[n - 1] <= Starts(tokens, ends, n)
        /\ Starts(tokens, ends, n) < ends[n] /\ ends[n] <= Length[t]

LEMMA AlignIs ==
    ASSUME NEW t \in Texts, NEW tokens, Tokens(tokens)
    PROVE  /\ AlignTokens(t, tokens)[0] = 0
           /\ \A n \in 0..Len(tokens) : AlignTokens(t, tokens)[n] \in Nat
           /\ \A n \in 1..Len(tokens) :
                AlignTokens(t, tokens)[n] = Find(t, tokens[n].value, AlignTokens(t, tokens)[n - 1]) + Width[tokens[n].value]
<1> DEFINE N == Len(tokens)
           first == 0
           S == [n \in 0..N |-> Nat]
           G == [n \in 1..N |-> [x \in S[n - 1] |-> Find(t, tokens[n].value, x) + Width[tokens[n].value]]]
           Rule(f) == [n \in 0..N |-> IF n = 0 THEN first ELSE Find(t, tokens[n].value, f[n - 1]) + Width[tokens[n].value]]
<1>1. N \in Nat
  BY DEF Tokens
<1>2. first \in S[0]
  BY <1>1
<1>3. ASSUME NEW n \in 1..N, NEW x \in S[n - 1]
      PROVE  /\ Find(t, tokens[n].value, x) + Width[tokens[n].value] \in S[n]
             /\ G[n][x] = Find(t, tokens[n].value, x) + Width[tokens[n].value]
  <2>1. n \in 0..N /\ n - 1 \in 0..N /\ x \in Nat
    BY <1>1
  <2>2. tokens[n].value \in Values
    BY DEF Tokens
  <2>3. Find(t, tokens[n].value, x) \in Nat /\ Width[tokens[n].value] \in Nat
    BY <2>1, <2>2, FindIs, TextFacts
  <2>4. Find(t, tokens[n].value, x) + Width[tokens[n].value] \in Nat
    BY <2>3
  <2> QED BY <2>1, <2>4
<1>4. PICK f : f = [n \in 0..N |-> IF n = 0 THEN first ELSE G[n][f[n - 1]]] /\ \A n \in 0..N : f[n] \in S[n]
  <2> HIDE DEF first, S, G, N
  <2>1. \A n \in 1..N : \A x \in S[n - 1] : G[n][x] \in S[n]
    BY <1>3
  <2>2. Leads(N, S, G, first)
    BY <1>2, <2>1 DEF Leads
  <2> QED BY ONLY <1>1, <2>2, WalkExists
<1>5. f = Rule(f)
  <2>1. \A n \in 0..N : n # 0 => n \in 1..N /\ n - 1 \in 0..N
    BY <1>1
  <2> HIDE DEF first, S, G, N
  <2> QED BY <1>3, <1>4, <2>1
<1>6. AlignTokens(t, tokens) = Rule(AlignTokens(t, tokens))
  BY <1>5 DEF AlignTokens
<1> HIDE DEF first, S, G, N
<1>7. \A n \in 0..N : AlignTokens(t, tokens)[n] =
          IF n = 0 THEN first ELSE Find(t, tokens[n].value, AlignTokens(t, tokens)[n - 1]) + Width[tokens[n].value]
  BY <1>6
<1> DEFINE Right == {n \in 0..N : AlignTokens(t, tokens)[n] \in S[n]}
<1>8. 0 \in Right /\ \A n \in 1..N : n - 1 \in Right => n \in Right
  <2>1. 0 \in 0..N /\ \A n \in 1..N : n \in 0..N /\ n # 0
    BY <1>1
  <2> QED BY <1>2, <1>3, <1>7, <2>1
<1>9. \A n \in 0..N : n \in Right
  <2> HIDE DEF Right
  <2> QED BY <1>1, <1>8, Upwards
<1>10. \A n \in 0..N : AlignTokens(t, tokens)[n] \in Nat
  BY <1>9 DEF S
<1>11. \A n \in 1..N : n \in 0..N /\ n # 0
  BY <1>1
<1>12. 0 \in 0..N
  BY <1>1
<1> QED BY <1>7, <1>10, <1>11, <1>12 DEF N, first

LEMMA AlignLays ==
    ASSUME NEW t \in Texts, NEW tokens, Tokens(tokens),
           \A n \in 1..Len(tokens) : ~Missing(t, Starts(tokens, AlignTokens(t, tokens), n))
    PROVE  Laid(t, tokens, AlignTokens(t, tokens))
<1> DEFINE ends == AlignTokens(t, tokens)
<1>1. SUFFICES ASSUME NEW n \in 1..Len(tokens)
               PROVE  /\ ends[n - 1] \in Int /\ ends[n] \in Nat /\ Starts(tokens, ends, n) \in Nat
                      /\ ends[n - 1] <= Starts(tokens, ends, n)
                      /\ Starts(tokens, ends, n) < ends[n] /\ ends[n] <= Length[t]
  BY DEF Laid
<1> DEFINE v == tokens[n].value
           p == Find(t, v, ends[n - 1])
<1>2. n - 1 \in 0..Len(tokens) /\ n \in 0..Len(tokens) /\ v \in Values
  BY DEF Tokens
<1>3. ends[n - 1] \in Nat /\ ends[n] \in Nat /\ ends[n] = p + Width[v]
  BY <1>2, AlignIs
<1>4. Width[v] \in Nat \ {0} /\ p \in Nat
  BY <1>2, <1>3, FindIs, TextFacts
<1> HIDE DEF p, v, ends
<1>5. Starts(tokens, ends, n) = p
  <2>1. Starts(tokens, ends, n) = ends[n] - Width[v]
    BY DEF Starts, v
  <2> QED BY <1>3, <1>4, <2>1
<1>6. ~Missing(t, p)
  BY <1>5 DEF ends
<1>7. p \in Occurs[t][v] /\ p >= ends[n - 1]
  BY <1>2, <1>3, <1>6, FindIs DEF p
<1>8. p + Width[v] <= Length[t] /\ Length[t] \in Nat
  BY <1>2, <1>7, TextFacts
<1> QED BY <1>3, <1>4, <1>5, <1>7, <1>8

LEMMA JoinedIs ==
    ASSUME NEW tokens, Tokens(tokens)
    PROVE  /\ \A n \in 0..Len(tokens) : JoinedEnds(tokens)[n] \in Int /\ JoinedEnds(tokens)[n] >= -1
           /\ \A n \in 1..Len(tokens) : JoinedEnds(tokens)[n] = JoinedEnds(tokens)[n - 1] + 1 + Width[tokens[n].value]
<1> DEFINE N == Len(tokens)
           first == -1
           S == [n \in 0..N |-> {y \in Int : y >= -1}]
           G == [n \in 1..N |-> [x \in S[n - 1] |-> x + 1 + Width[tokens[n].value]]]
           Rule(f) == [n \in 0..N |-> IF n = 0 THEN first ELSE f[n - 1] + 1 + Width[tokens[n].value]]
<1>1. N \in Nat
  BY DEF Tokens
<1>2. first \in S[0]
  BY <1>1
<1>3. ASSUME NEW n \in 1..N, NEW x \in S[n - 1]
      PROVE  x + 1 + Width[tokens[n].value] \in S[n] /\ G[n][x] = x + 1 + Width[tokens[n].value]
  <2>1. n \in 0..N /\ n - 1 \in 0..N /\ x \in Int /\ x >= -1
    BY <1>1
  <2>2. tokens[n].value \in Values
    BY DEF Tokens
  <2>3. Width[tokens[n].value] \in Nat
    BY <2>2, RowsAssumption
  <2>4. x + 1 + Width[tokens[n].value] \in Int /\ x + 1 + Width[tokens[n].value] >= -1
    BY <2>1, <2>3
  <2> QED BY <2>1, <2>4
<1>4. PICK f : f = [n \in 0..N |-> IF n = 0 THEN first ELSE G[n][f[n - 1]]] /\ \A n \in 0..N : f[n] \in S[n]
  <2> HIDE DEF first, S, G, N
  <2>1. \A n \in 1..N : \A x \in S[n - 1] : G[n][x] \in S[n]
    BY <1>3
  <2>2. Leads(N, S, G, first)
    BY <1>2, <2>1 DEF Leads
  <2> QED BY ONLY <1>1, <2>2, WalkExists
<1>5. f = Rule(f)
  <2>1. \A n \in 0..N : n # 0 => n \in 1..N /\ n - 1 \in 0..N
    BY <1>1
  <2> HIDE DEF first, S, G, N
  <2> QED BY <1>3, <1>4, <2>1
<1>6. JoinedEnds(tokens) = Rule(JoinedEnds(tokens))
  BY <1>5 DEF JoinedEnds
<1> HIDE DEF first, S, G, N
<1>7. \A n \in 0..N : JoinedEnds(tokens)[n] =
          IF n = 0 THEN first ELSE JoinedEnds(tokens)[n - 1] + 1 + Width[tokens[n].value]
  BY <1>6
<1> DEFINE Right == {n \in 0..N : JoinedEnds(tokens)[n] \in S[n]}
<1>8. 0 \in Right /\ \A n \in 1..N : n - 1 \in Right => n \in Right
  <2>1. 0 \in 0..N /\ \A n \in 1..N : n \in 0..N /\ n # 0
    BY <1>1
  <2> QED BY <1>2, <1>3, <1>7, <2>1
<1>9. \A n \in 0..N : n \in Right
  <2> HIDE DEF Right
  <2> QED BY <1>1, <1>8, Upwards
<1>10. \A n \in 0..N : JoinedEnds(tokens)[n] \in Int /\ JoinedEnds(tokens)[n] >= -1
  BY <1>9 DEF S
<1>11. \A n \in 1..N : n \in 0..N /\ n # 0
  BY <1>1
<1> QED BY <1>7, <1>10, <1>11 DEF N

\* The last token ends where the text does.
LEMMA JoinedLays ==
    ASSUME NEW t \in Texts, NEW tokens, Tokens(tokens),
           Len(tokens) # 0 => JoinedEnds(tokens)[Len(tokens)] = Length[t]
    PROVE  Laid(t, tokens, JoinedEnds(tokens))
<1> DEFINE ends == JoinedEnds(tokens)
           N == Len(tokens)
           Low == {m \in 0..N : ends[N - m] <= Length[t]}
<1>1. N \in Nat /\ Length[t] \in Nat /\ \A n \in 1..N : tokens[n].value \in Values
  BY TextFacts DEF Tokens
<1>2. /\ \A n \in 0..N : ends[n] \in Int /\ ends[n] >= -1
      /\ \A n \in 1..N : ends[n] = ends[n - 1] + 1 + Width[tokens[n].value]
  BY JoinedIs
<1>3. \A n \in 1..N : Width[tokens[n].value] \in Nat \ {0}
  BY <1>1, RowsAssumption
<1> HIDE DEF ends, N
<1>4. CASE N = 0
  <2>1. 1..N = {}
    BY <1>4
  <2> QED BY <2>1 DEF Laid, N
<1>5. CASE N # 0
  <2>1. 0 \in Low
    <3>1. ends[N] = Length[t]
      BY <1>5 DEF ends, N
    <3>2. N - 0 = N /\ 0 \in 0..N
      BY <1>1
    <3> QED BY <1>1, <3>1, <3>2
  <2>2. ASSUME NEW m \in 1..N, m - 1 \in Low PROVE m \in Low
    <3>1. N - (m - 1) \in 1..N /\ (N - (m - 1)) - 1 = N - m /\ N - m \in 0..N /\ m \in 0..N
      BY <1>1
    <3> DEFINE k == N - (m - 1)
    <3>2. ends[k] <= Length[t]
      BY <2>2
    <3> HIDE DEF k
    <3>3. k \in 1..N /\ k \in 0..N /\ k - 1 \in 0..N /\ k - 1 = N - m
      BY <1>1, <3>1 DEF k
    <3>4. ends[k] = ends[k - 1] + 1 + Width[tokens[k].value]
      BY <1>2, <3>3
    <3>5. ends[k] \in Int /\ ends[k - 1] \in Int /\ Width[tokens[k].value] \in Nat
      BY <1>2, <1>3, <3>3
    <3>6. ends[k - 1] <= Length[t]
      BY <1>1, <3>2, <3>4, <3>5
    <3> QED BY <3>1, <3>3, <3>6
  <2>3. \A m \in 0..N : m \in Low
    <3> HIDE DEF Low
    <3> QED BY <1>1, <2>1, <2>2, Upwards
  <2>4. ASSUME NEW n \in 1..N PROVE ends[n] <= Length[t]
    <3>1. N - n \in 0..N /\ N - (N - n) = n
      BY <1>1
    <3> QED BY <2>3, <3>1
  <2>5. ASSUME NEW n \in 1..N
        PROVE  /\ ends[n - 1] \in Int /\ ends[n] \in Nat /\ Starts(tokens, ends, n) \in Nat
               /\ ends[n - 1] <= Starts(tokens, ends, n)
               /\ Starts(tokens, ends, n) < ends[n] /\ ends[n] <= Length[t]
    <3> DEFINE w == Width[tokens[n].value]
    <3>1. n - 1 \in 0..N /\ n \in 0..N
      BY <1>1
    <3>2. /\ ends[n] = ends[n - 1] + 1 + w /\ w \in Nat \ {0}
          /\ ends[n - 1] \in Int /\ ends[n - 1] >= -1
      BY <1>2, <1>3, <3>1
    <3>3. Starts(tokens, ends, n) = ends[n] - w
      BY DEF Starts
    <3> HIDE DEF w
    <3> QED BY <2>4, <3>2, <3>3
  <2> QED BY <2>5 DEF Laid, N, ends
<1> QED BY <1>4, <1>5

\* Runs that follow one another.
Climbing(spans) == \A i, j \in DOMAIN spans : i < j => spans[i].end <= spans[j].start

RunStates(t, Y, ends, n) ==
    {spans \in Seq(Span(t, Y)) : Climbing(spans) /\ \A i \in DOMAIN spans : spans[i].end <= ends[n]}

LEMMA SpanFacts ==
    ASSUME NEW t \in Texts, NEW Y, NEW e \in Span(t, Y)
    PROVE  /\ e.start \in Nat /\ e.end \in Nat /\ e.label \in Y /\ Length[t] \in Nat
           /\ e.start < e.end /\ e.end <= Length[t]
           /\ \A x \in Nat : e.start < x /\ x <= Length[t] => [e EXCEPT !.end = x] \in Span(t, Y)
           /\ \A l \in Y : [e EXCEPT !.label = l] \in Span(t, Y)
BY TextFacts DEF Span, InText

\* A list whose last member is prolonged.
LEMMA ProlongedIs ==
    ASSUME NEW t \in Texts, NEW Y, NEW spans \in Seq(Span(t, Y)), NEW x \in Nat, x <= Length[t],
           \A i \in DOMAIN spans : spans[i].start < x
    PROVE  /\ Prolonged(spans, x) \in Seq(Span(t, Y))
           /\ DOMAIN Prolonged(spans, x) = DOMAIN spans
           /\ \A i \in DOMAIN spans :
                /\ Prolonged(spans, x)[i].start = spans[i].start
                /\ Prolonged(spans, x)[i].end = IF i = Len(spans) THEN x ELSE spans[i].end
<1> DEFINE g == Prolonged(spans, x)
<1>1. Len(spans) \in Nat /\ DOMAIN spans = 1..Len(spans) /\ \A i \in DOMAIN spans : spans[i] \in Span(t, Y)
  OBVIOUS
<1>2. DOMAIN g = DOMAIN spans /\ g = [i \in 1..Len(spans) |-> g[i]]
  BY <1>1 DEF Prolonged
<1>3. ASSUME NEW i \in DOMAIN spans
      PROVE  g[i] = IF i = Len(spans) THEN [spans[i] EXCEPT !.end = x] ELSE spans[i]
  BY <1>1 DEF Prolonged
<1> HIDE DEF g
<1>4. ASSUME NEW i \in DOMAIN spans
      PROVE  /\ g[i] \in Span(t, Y) /\ g[i].start = spans[i].start
             /\ g[i].end = IF i = Len(spans) THEN x ELSE spans[i].end
  <2>1. spans[i] \in Span(t, Y)
    BY <1>1
  <2>2. [spans[i] EXCEPT !.end = x] \in Span(t, Y)
    BY <2>1, SpanFacts
  <2>3. [spans[i] EXCEPT !.end = x].start = spans[i].start /\ [spans[i] EXCEPT !.end = x].end = x
    BY <2>1 DEF Span
  <2> QED BY <1>3, <2>1, <2>2, <2>3
<1>5. g \in Seq(Span(t, Y))
  <2>1. g \in [1..Len(spans) -> Span(t, Y)]
    BY <1>1, <1>2, <1>4
  <2> QED BY <1>1, <2>1
<1> QED BY <1>2, <1>4, <1>5 DEF g

\* One token more: the spans stay, the last goes on, or there is a new one.
LEMMA RunSteps ==
    ASSUME NEW t \in Texts, NEW tokens, Tokens(tokens), NEW ends, Laid(t, tokens, ends),
           NEW Y, NEW n \in 1..Len(tokens), NEW spans \in RunStates(t, Y, ends, n - 1)
    PROVE  /\ spans \in RunStates(t, Y, ends, n)
           /\ Prolonged(spans, ends[n]) \in RunStates(t, Y, ends, n)
           /\ tokens[n].label \in Y => Append(spans, Marked(tokens, ends, n)) \in RunStates(t, Y, ends, n)
<1> DEFINE at == Starts(tokens, ends, n)
<1>1. /\ ends[n - 1] \in Int /\ ends[n] \in Nat /\ at \in Nat
      /\ ends[n - 1] <= at /\ at < ends[n] /\ ends[n] <= Length[t]
  BY DEF Laid
<1>2. /\ spans \in Seq(Span(t, Y)) /\ Len(spans) \in Nat /\ DOMAIN spans = 1..Len(spans)
      /\ Climbing(spans) /\ \A i \in DOMAIN spans : spans[i].end <= ends[n - 1]
  BY DEF RunStates
<1>3. \A i \in DOMAIN spans : /\ spans[i] \in Span(t, Y)
                              /\ spans[i].start \in Nat /\ spans[i].end \in Nat /\ spans[i].start < spans[i].end
  <2>1. \A i \in DOMAIN spans : spans[i] \in Span(t, Y)
    BY <1>2
  <2> QED BY <2>1, SpanFacts
<1> DEFINE e == Marked(tokens, ends, n)
<1>9. e = At(at, ends[n], tokens[n].label)
  BY DEF Marked
<1> HIDE DEF at, e
<1>4. \A i \in DOMAIN spans : spans[i].end <= at /\ spans[i].end <= ends[n] /\ spans[i].start < ends[n]
  BY <1>1, <1>2, <1>3
<1>5. spans \in RunStates(t, Y, ends, n)
  BY <1>2, <1>4 DEF RunStates
<1>6. Prolonged(spans, ends[n]) \in RunStates(t, Y, ends, n)
  <2> DEFINE g == Prolonged(spans, ends[n])
  <2>1. /\ g \in Seq(Span(t, Y)) /\ DOMAIN g = DOMAIN spans
        /\ \A i \in DOMAIN spans : /\ g[i].start = spans[i].start
                                  /\ g[i].end = IF i = Len(spans) THEN ends[n] ELSE spans[i].end
    <3>1. ends[n] \in Nat /\ ends[n] <= Length[t] /\ \A i \in DOMAIN spans : spans[i].start < ends[n]
      BY <1>1, <1>4
    <3> QED BY ONLY <1>2, <3>1, ProlongedIs
  <2> HIDE DEF g
  <2>2. \A i \in DOMAIN g : g[i].end <= ends[n]
    BY <1>1, <1>4, <2>1
  <2>3. ASSUME NEW i \in DOMAIN g, NEW j \in DOMAIN g, i < j PROVE g[i].end <= g[j].start
    <3>1. i # Len(spans)
      BY <1>2, <2>1, <2>3
    <3> QED BY <1>2, <2>1, <2>3, <3>1 DEF Climbing
  <2> QED BY <2>1, <2>2, <2>3 DEF RunStates, Climbing, g
<1>7. ASSUME tokens[n].label \in Y PROVE Append(spans, e) \in RunStates(t, Y, ends, n)
  <2> DEFINE g == Append(spans, e)
  <2>1. e \in Span(t, Y) /\ e.start = at /\ e.end = ends[n]
    BY <1>1, <1>7, <1>9 DEF At, Span, InText
  <2>2. /\ g \in Seq(Span(t, Y)) /\ DOMAIN g = 1..Len(spans) + 1 /\ g[Len(spans) + 1] = e
        /\ \A i \in 1..Len(spans) : g[i] = spans[i]
    BY <1>2, <2>1
  <2> HIDE DEF g
  <2>3. \A i \in DOMAIN g : i \in DOMAIN spans \/ i = Len(spans) + 1
    BY <1>2, <2>2
  <2>4. \A i \in DOMAIN g : g[i].end <= ends[n]
    BY <1>1, <1>2, <1>4, <2>1, <2>2, <2>3
  <2>5. ASSUME NEW i \in DOMAIN g, NEW j \in DOMAIN g, i < j PROVE g[i].end <= g[j].start
    <3>1. i \in 1..Len(spans)
      BY <1>2, <2>2, <2>5
    <3>2. CASE j \in 1..Len(spans)
      BY <1>2, <2>2, <2>5, <3>1, <3>2 DEF Climbing
    <3>3. CASE j \notin 1..Len(spans)
      <4>1. j = Len(spans) + 1
        BY <1>2, <2>3, <3>3
      <4> QED BY <1>2, <1>4, <2>1, <2>2, <3>1, <4>1
    <3> QED BY <3>2, <3>3
  <2> QED BY <2>2, <2>4, <2>5 DEF RunStates, Climbing, g
<1> QED BY <1>5, <1>6, <1>7 DEF e

LabelsOf(tokens) == {tokens[n].label : n \in 1..Len(tokens)} \cup {"PERSON", "SERIES", "NUMBER"}

LEMMA TokenRunsLie ==
    ASSUME NEW t \in Texts, NEW tokens, Tokens(tokens), NEW ends, Laid(t, tokens, ends)
    PROVE  TokenRuns(tokens, ends)[Len(tokens)] \in RunStates(t, LabelsOf(tokens), ends, Len(tokens))
<1> DEFINE N == Len(tokens)
           Y == LabelsOf(tokens)
           first == <<>>
           S == [n \in 0..N |-> RunStates(t, Y, ends, n)]
           G == [n \in 1..N |-> [x \in S[n - 1] |-> RunOfToken(tokens, ends, x, n)]]
           Rule(f) == [n \in 0..N |-> IF n = 0 THEN first ELSE RunOfToken(tokens, ends, f[n - 1], n)]
<1>1. N \in Nat
  BY DEF Tokens
<1>2. first \in S[0]
  BY <1>1 DEF RunStates, Climbing
<1>3. ASSUME NEW n \in 1..N, NEW x \in S[n - 1]
      PROVE  RunOfToken(tokens, ends, x, n) \in S[n] /\ G[n][x] = RunOfToken(tokens, ends, x, n)
  <2>1. n \in 0..N /\ n - 1 \in 0..N /\ x \in RunStates(t, Y, ends, n - 1)
    BY <1>1
  <2>2. tokens[n].label \in Y
    BY DEF LabelsOf
  <2>3. RunOfToken(tokens, ends, x, n) \in RunStates(t, Y, ends, n)
    <3> HIDE DEF Y
    <3> QED BY <2>1, <2>2, RunSteps DEF RunOfToken
  <2> QED BY <2>1, <2>3
<1>4. PICK f : f = [n \in 0..N |-> IF n = 0 THEN first ELSE G[n][f[n - 1]]] /\ \A n \in 0..N : f[n] \in S[n]
  <2> HIDE DEF first, S, G, N
  <2>1. \A n \in 1..N : \A x \in S[n - 1] : G[n][x] \in S[n]
    BY <1>3
  <2>2. Leads(N, S, G, first)
    BY <1>2, <2>1 DEF Leads
  <2> QED BY ONLY <1>1, <2>2, WalkExists
<1>5. f = Rule(f)
  <2>1. \A n \in 0..N : n # 0 => n \in 1..N /\ n - 1 \in 0..N
    BY <1>1
  <2> HIDE DEF first, S, G, N
  <2> QED BY <1>3, <1>4, <2>1
<1>6. TokenRuns(tokens, ends) = Rule(TokenRuns(tokens, ends))
  BY <1>5 DEF TokenRuns
<1> HIDE DEF first, S, G, N
<1>7. \A n \in 0..N : TokenRuns(tokens, ends)[n] =
          IF n = 0 THEN first ELSE RunOfToken(tokens, ends, TokenRuns(tokens, ends)[n - 1], n)
  BY <1>6
<1> DEFINE Right == {n \in 0..N : TokenRuns(tokens, ends)[n] \in S[n]}
<1>8. 0 \in Right /\ \A n \in 1..N : n - 1 \in Right => n \in Right
  <2>1. 0 \in 0..N /\ \A n \in 1..N : n \in 0..N /\ n # 0
    BY <1>1
  <2> QED BY <1>2, <1>3, <1>7, <2>1
<1>9. \A n \in 0..N : n \in Right
  <2> HIDE DEF Right
  <2> QED BY <1>1, <1>8, Upwards
<1> QED BY <1>1, <1>9 DEF S, N, Y

LEMMA PrefixRunsLie ==
    ASSUME NEW t \in Texts, NEW tokens, Tokens(tokens), NEW ends, Laid(t, tokens, ends)
    PROVE  PrefixRuns(tokens, ends)[Len(tokens)] \in RunStates(t, LabelsOf(tokens), ends, Len(tokens))
<1> DEFINE N == Len(tokens)
           Y == LabelsOf(tokens)
           first == <<>>
           S == [n \in 0..N |-> RunStates(t, Y, ends, n)]
           G == [n \in 1..N |-> [x \in S[n - 1] |-> RunOfPrefix(tokens, ends, x, n)]]
           Rule(f) == [n \in 0..N |-> IF n = 0 THEN first ELSE RunOfPrefix(tokens, ends, f[n - 1], n)]
<1>1. N \in Nat
  BY DEF Tokens
<1>2. first \in S[0]
  BY <1>1 DEF RunStates, Climbing
<1>3. ASSUME NEW n \in 1..N, NEW x \in S[n - 1]
      PROVE  RunOfPrefix(tokens, ends, x, n) \in S[n] /\ G[n][x] = RunOfPrefix(tokens, ends, x, n)
  <2>1. n \in 0..N /\ n - 1 \in 0..N /\ x \in RunStates(t, Y, ends, n - 1)
    BY <1>1
  <2>2. tokens[n].label \in Y
    BY DEF LabelsOf
  <2>3. RunOfPrefix(tokens, ends, x, n) \in RunStates(t, Y, ends, n)
    <3> HIDE DEF Y
    <3> QED BY <2>1, <2>2, RunSteps DEF RunOfPrefix
  <2> QED BY <2>1, <2>3
<1>4. PICK f : f = [n \in 0..N |-> IF n = 0 THEN first ELSE G[n][f[n - 1]]] /\ \A n \in 0..N : f[n] \in S[n]
  <2> HIDE DEF first, S, G, N
  <2>1. \A n \in 1..N : \A x \in S[n - 1] : G[n][x] \in S[n]
    BY <1>3
  <2>2. Leads(N, S, G, first)
    BY <1>2, <2>1 DEF Leads
  <2> QED BY ONLY <1>1, <2>2, WalkExists
<1>5. f = Rule(f)
  <2>1. \A n \in 0..N : n # 0 => n \in 1..N /\ n - 1 \in 0..N
    BY <1>1
  <2> HIDE DEF first, S, G, N
  <2> QED BY <1>3, <1>4, <2>1
<1>6. PrefixRuns(tokens, ends) = Rule(PrefixRuns(tokens, ends))
  BY <1>5 DEF PrefixRuns
<1> HIDE DEF first, S, G, N
<1>7. \A n \in 0..N : PrefixRuns(tokens, ends)[n] =
          IF n = 0 THEN first ELSE RunOfPrefix(tokens, ends, PrefixRuns(tokens, ends)[n - 1], n)
  BY <1>6
<1> DEFINE Right == {n \in 0..N : PrefixRuns(tokens, ends)[n] \in S[n]}
<1>8. 0 \in Right /\ \A n \in 1..N : n - 1 \in Right => n \in Right
  <2>1. 0 \in 0..N /\ \A n \in 1..N : n \in 0..N /\ n # 0
    BY <1>1
  <2> QED BY <1>2, <1>3, <1>7, <2>1
<1>9. \A n \in 0..N : n \in Right
  <2> HIDE DEF Right
  <2> QED BY <1>1, <1>8, Upwards
<1> QED BY <1>1, <1>9 DEF S, N, Y

\* The spans that are still to come lie behind.
MergedStates(t, Y, spans, n) ==
    {merged \in Seq(Span(t, Y)) :
        \A i \in DOMAIN merged : \A k \in n + 1..Len(spans) : merged[i].end <= spans[k].start}

LEMMA MergeStep ==
    ASSUME NEW t \in Texts, NEW Y, "PERSON" \in Y, NEW spans \in Seq(Span(t, Y)), Climbing(spans),
           NEW n \in 1..Len(spans), NEW merged \in MergedStates(t, Y, spans, n - 1)
    PROVE  MergeName(merged, spans[n]) \in MergedStates(t, Y, spans, n)
<1> DEFINE r == spans[n]
<1>1. /\ Len(spans) \in Nat /\ DOMAIN spans = 1..Len(spans)
      /\ \A k \in 1..Len(spans) : spans[k] \in Span(t, Y)
  OBVIOUS
<1>2. /\ r.start \in Nat /\ r.end \in Nat /\ r.start < r.end /\ r.end <= Length[t]
      /\ \A k \in n + 1..Len(spans) : k \in 1..Len(spans) /\ spans[k].start \in Nat /\ r.end <= spans[k].start
  <2>1. r.start \in Nat /\ r.end \in Nat /\ r.start < r.end /\ r.end <= Length[t]
    BY <1>1, SpanFacts
  <2>2. ASSUME NEW k \in n + 1..Len(spans)
        PROVE  k \in 1..Len(spans) /\ spans[k].start \in Nat /\ r.end <= spans[k].start
    <3>1. k \in DOMAIN spans /\ n \in DOMAIN spans /\ n < k
      BY <1>1
    <3>2. r.end <= spans[k].start
      BY <3>1 DEF Climbing
    <3>3. spans[k].start \in Nat
      BY <1>1, <3>1, SpanFacts
    <3> QED BY <1>1, <3>1, <3>2, <3>3
  <2> QED BY <2>1, <2>2
<1>3. /\ merged \in Seq(Span(t, Y)) /\ Len(merged) \in Nat /\ DOMAIN merged = 1..Len(merged)
      /\ \A i \in DOMAIN merged : \A k \in n..Len(spans) : merged[i].end <= spans[k].start
  BY DEF MergedStates
<1>4. \A i \in DOMAIN merged : merged[i].start \in Nat /\ merged[i].end \in Nat /\ merged[i].start < merged[i].end
  <2>1. \A i \in DOMAIN merged : merged[i] \in Span(t, Y)
    BY <1>3
  <2> QED BY <2>1, SpanFacts
<1>5. \A i \in DOMAIN merged : merged[i].end <= r.start
  <2>1. n \in n..Len(spans)
    BY <1>1
  <2> QED BY <1>3, <2>1
<1>6. r \in Span(t, Y) /\ [r EXCEPT !.label = "PERSON"] \in Span(t, Y)
      /\ [r EXCEPT !.label = "PERSON"].end = r.end
  <2>1. r \in Span(t, Y)
    BY <1>1
  <2>2. [r EXCEPT !.label = "PERSON"].end = r.end
    BY <2>1 DEF Span
  <2> QED BY <2>1, <2>2, SpanFacts
<1> HIDE DEF r
<1>7. ASSUME NEW g \in Seq(Span(t, Y)),
             \A i \in DOMAIN g : g[i].end = r.end \/ (i \in DOMAIN merged /\ g[i].end = merged[i].end)
      PROVE  g \in MergedStates(t, Y, spans, n)
  <2>1. ASSUME NEW i \in DOMAIN g, NEW k \in n + 1..Len(spans) PROVE g[i].end <= spans[k].start
    <3>1. k \in n..Len(spans)
      BY <1>1
    <3> QED BY <1>2, <1>3, <1>7, <3>1
  <2> QED BY <1>7, <2>1 DEF MergedStates
<1>8. ASSUME NEW e \in Span(t, Y), e.end = r.end
      PROVE  Append(merged, e) \in MergedStates(t, Y, spans, n)
  <2> DEFINE g == Append(merged, e)
  <2>1. /\ g \in Seq(Span(t, Y)) /\ DOMAIN g = 1..Len(merged) + 1 /\ g[Len(merged) + 1] = e
        /\ \A i \in 1..Len(merged) : g[i] = merged[i]
    BY <1>3
  <2> HIDE DEF g
  <2>2. \A i \in DOMAIN g : g[i].end = r.end \/ (i \in DOMAIN merged /\ g[i].end = merged[i].end)
    <3>1. \A i \in DOMAIN g : i \in 1..Len(merged) \/ i = Len(merged) + 1
      BY <1>3, <2>1
    <3> QED BY <1>3, <1>8, <2>1, <3>1
  <2>3. g \in MergedStates(t, Y, spans, n)
    BY <1>7, <2>1, <2>2
  <2> QED BY <2>3 DEF g
<1>9. Prolonged(merged, r.end) \in MergedStates(t, Y, spans, n)
  <2> DEFINE g == Prolonged(merged, r.end)
  <2>1. \A i \in DOMAIN merged : merged[i].start < r.end
    BY <1>2, <1>4, <1>5
  <2>2. /\ g \in Seq(Span(t, Y)) /\ DOMAIN g = DOMAIN merged
        /\ \A i \in DOMAIN merged : g[i].end = IF i = Len(merged) THEN r.end ELSE merged[i].end
    <3> DEFINE x == r.end
    <3>1. x \in Nat /\ x <= Length[t] /\ merged \in Seq(Span(t, Y)) /\ t \in Texts
      BY <1>2, <1>3
    <3>2. \A i \in DOMAIN merged : merged[i].start < x
      BY <2>1
    <3> HIDE DEF x
    <3>3. /\ Prolonged(merged, x) \in Seq(Span(t, Y))
          /\ DOMAIN Prolonged(merged, x) = DOMAIN merged
          /\ \A i \in DOMAIN merged :
               Prolonged(merged, x)[i].end = IF i = Len(merged) THEN x ELSE merged[i].end
      BY ONLY <3>1, <3>2, ProlongedIs
    <3> QED BY <3>3 DEF x
  <2> HIDE DEF g
  <2>3. g \in MergedStates(t, Y, spans, n)
    BY <1>7, <2>2
  <2> QED BY <2>3 DEF g
<1>10. MergeName(merged, r) \in {Append(merged, r), Prolonged(merged, r.end),
                                  Append(merged, [r EXCEPT !.label = "PERSON"])}
  BY DEF MergeName
<1> QED BY <1>6, <1>8, <1>9, <1>10 DEF r

LEMMA NamesMergedLie ==
    ASSUME NEW t \in Texts, NEW Y, "PERSON" \in Y, NEW spans \in Seq(Span(t, Y)), Climbing(spans)
    PROVE  NamesMerged(spans)[Len(spans)] \in Seq(Span(t, Y))
<1> DEFINE N == Len(spans)
           first == <<>>
           S == [n \in 0..N |-> MergedStates(t, Y, spans, n)]
           G == [n \in 1..N |-> [x \in S[n - 1] |-> MergeName(x, spans[n])]]
           Rule(f) == [n \in 0..N |-> IF n = 0 THEN first ELSE MergeName(f[n - 1], spans[n])]
<1>1. N \in Nat
  OBVIOUS
<1>2. first \in S[0]
  BY <1>1 DEF MergedStates
<1>3. ASSUME NEW n \in 1..N, NEW x \in S[n - 1]
      PROVE  MergeName(x, spans[n]) \in S[n] /\ G[n][x] = MergeName(x, spans[n])
  <2>1. n \in 0..N /\ n - 1 \in 0..N /\ x \in MergedStates(t, Y, spans, n - 1)
    BY <1>1
  <2>2. MergeName(x, spans[n]) \in MergedStates(t, Y, spans, n)
    BY <2>1, MergeStep
  <2> QED BY <2>1, <2>2
<1>4. PICK f : f = [n \in 0..N |-> IF n = 0 THEN first ELSE G[n][f[n - 1]]] /\ \A n \in 0..N : f[n] \in S[n]
  <2> HIDE DEF first, S, G, N
  <2>1. \A n \in 1..N : \A x \in S[n - 1] : G[n][x] \in S[n]
    BY <1>3
  <2>2. Leads(N, S, G, first)
    BY <1>2, <2>1 DEF Leads
  <2> QED BY ONLY <1>1, <2>2, WalkExists
<1>5. f = Rule(f)
  <2>1. \A n \in 0..N : n # 0 => n \in 1..N /\ n - 1 \in 0..N
    BY <1>1
  <2> HIDE DEF first, S, G, N
  <2> QED BY <1>3, <1>4, <2>1
<1>6. NamesMerged(spans) = Rule(NamesMerged(spans))
  BY <1>5 DEF NamesMerged
<1> HIDE DEF first, S, G, N
<1>7. \A n \in 0..N : NamesMerged(spans)[n] =
          IF n = 0 THEN first ELSE MergeName(NamesMerged(spans)[n - 1], spans[n])
  BY <1>6
<1> DEFINE Right == {n \in 0..N : NamesMerged(spans)[n] \in S[n]}
<1>8. 0 \in Right /\ \A n \in 1..N : n - 1 \in Right => n \in Right
  <2>1. 0 \in 0..N /\ \A n \in 1..N : n \in 0..N /\ n # 0
    BY <1>1
  <2> QED BY <1>2, <1>3, <1>7, <2>1
<1>9. \A n \in 0..N : n \in Right
  <2> HIDE DEF Right
  <2> QED BY <1>1, <1>8, Upwards
<1>10. NamesMerged(spans)[N] \in MergedStates(t, Y, spans, N)
  BY <1>1, <1>9 DEF S
<1> QED BY <1>10 DEF MergedStates, N


TokenRow(row) == Tokens(row.tokens) /\ row.text \in Texts

LEMMA TokenRowIs ==
    ASSUME NEW row, SourceRow(row), row.source \in {"redmadrobot", "meddies", "alexen2", "alrosait"}
    PROVE  TokenRow(row)
BY DEF SourceRow, TokenRow, Tokens

LEMMA CheckedLies ==
    ASSUME NEW t, NEW E, Inside(t, E), NEW otherwise
    PROVE  Inside(t, Checked(E, otherwise).entities)
BY DEF Checked, Outcome, Inside

LEMMA SanitizedLies == ASSUME NEW t, NEW E, Inside(t, E) PROVE Inside(t, Sanitized(E))
BY DEF Sanitized, Inside

LEMMA SpansLie == ASSUME NEW t, NEW Y, NEW E, E \subseteq Span(t, Y) PROVE Inside(t, E)
BY DEF Span, Inside

LEMMA RedmadrobotLies ==
    ASSUME NEW row, TokenRow(row)
    PROVE  Inside(row.text, Redmadrobot(row).entities)
<1> DEFINE t == row.text
           tokens == row.tokens
           N == Len(tokens)
           Y == LabelsOf(tokens)
           ends == AlignTokens(t, tokens)
           spans == TokenRuns(tokens, ends)[N]
           merged == NamesMerged(spans)[Len(spans)]
           E == UNION {Entities(t, merged[n]) : n \in DOMAIN merged}
           misses == \E n \in 1..N : Missing(t, Starts(tokens, ends, n))
<1>1. Redmadrobot(row) = IF misses THEN Outcome("raise", {}) ELSE Checked(Sanitized(E), "raise")
  BY DEF Redmadrobot
<1>2. Inside(t, Outcome("raise", {}).entities)
  BY DEF Outcome, Inside
<1>3. ASSUME ~misses PROVE Inside(t, Checked(Sanitized(E), "raise").entities)
  <2>1. t \in Texts /\ Tokens(tokens)
    BY DEF TokenRow
  <2>2. Laid(t, tokens, ends)
    BY <1>3, <2>1, AlignLays
  <2> HIDE DEF ends, t, tokens
  <2>3. spans \in RunStates(t, Y, ends, N)
    BY <2>1, <2>2, TokenRunsLie
  <2>4. spans \in Seq(Span(t, Y)) /\ Climbing(spans) /\ "PERSON" \in Y /\ {"SERIES", "NUMBER"} \subseteq Y
    BY <2>3 DEF RunStates, LabelsOf
  <2> HIDE DEF spans, Y
  <2>5. merged \in Seq(Span(t, Y))
    BY <2>1, <2>4, NamesMergedLie
  <2> HIDE DEF merged
  <2>6. \A n \in DOMAIN merged : merged[n] \in Span(t, Y)
    BY <2>5
  <2>7. \A n \in DOMAIN merged : Inside(t, Entities(t, merged[n]))
    BY <2>1, <2>6, EntitiesLie DEF Span
  <2>8. Inside(t, E)
    BY <2>7 DEF Inside
  <2> HIDE DEF E
  <2> QED BY <2>8, SanitizedLies, CheckedLies
<1> HIDE DEF E, misses
<1> QED BY <1>1, <1>2, <1>3 DEF t

LEMMA TrimmedLies ==
    ASSUME NEW t \in Texts, NEW Y, NEW e \in Span(t, Y)
    PROVE  /\ Trimmed(t, e).start = e.start
           /\ Trimmed(t, e).end \in Nat /\ Trimmed(t, e).end <= e.end
<1> DEFINE S == {e.start} \cup {x \in e.start + 1..e.end : x - 1 \notin Marks[t]}
<1>1. e.start \in Nat /\ e.end \in Nat /\ e.start < e.end
  BY SpanFacts
<1>2. S \subseteq 0..e.end /\ S # {}
  BY <1>1
<1>3. Max(S) \in S
  <2> HIDE DEF S
  <2> QED BY <1>1, <1>2, GreatestIs
<1>4. Max(S) \in Nat /\ Max(S) <= e.end
  <2>1. Max(S) \in 0..e.end
    BY <1>2, <1>3
  <2> HIDE DEF S
  <2> QED BY <1>1, <2>1
<1>5. Trimmed(t, e) = [e EXCEPT !.end = Max(S)]
  BY DEF Trimmed
<1>6. Trimmed(t, e).start = e.start /\ Trimmed(t, e).end = Max(S)
  <2> HIDE DEF S
  <2> QED BY <1>5 DEF Span
<1> QED BY <1>4, <1>6

LEMMA Alexen2Lies ==
    ASSUME NEW row, TokenRow(row),
           row.tokens # <<>> => JoinedEnds(row.tokens)[Len(row.tokens)] = Length[row.text]
    PROVE  Inside(row.text, Alexen2(row).entities)
<1> DEFINE t == row.text
           tokens == row.tokens
           N == Len(tokens)
           Y == LabelsOf(tokens)
           ends == JoinedEnds(tokens)
           spans == PrefixRuns(tokens, ends)[N]
           trimmed == {Trimmed(t, spans[n]) : n \in DOMAIN spans}
           E == {e \in trimmed : e.end > e.start}
<1>1. Alexen2(row) = Checked(Sanitized(E), "raise")
  BY DEF Alexen2
<1>2. t \in Texts /\ Tokens(tokens) /\ Length[t] \in Nat
  BY TextFacts DEF TokenRow
<1>3. Len(tokens) # 0 => ends[N] = Length[t]
  <2>1. Len(tokens) # 0 => tokens # <<>>
    OBVIOUS
  <2> QED BY <2>1
<1>4. Laid(t, tokens, ends)
  BY <1>2, <1>3, JoinedLays
<1> HIDE DEF ends, t, tokens
<1>5. spans \in RunStates(t, Y, ends, N)
  BY <1>2, <1>4, PrefixRunsLie
<1>6. \A n \in DOMAIN spans : spans[n] \in Span(t, Y)
  <2>1. spans \in Seq(Span(t, Y))
    BY <1>5 DEF RunStates
  <2> HIDE DEF spans
  <2> QED BY <2>1
<1> HIDE DEF spans, Y
<1>7. ASSUME NEW n \in DOMAIN spans, Trimmed(t, spans[n]).end > Trimmed(t, spans[n]).start
      PROVE  InText(t, Trimmed(t, spans[n]))
  <2> DEFINE e == spans[n]
             x == Trimmed(t, e)
  <2>1. e \in Span(t, Y)
    BY <1>6
  <2>2. e.start \in Nat /\ e.end \in Nat /\ e.end <= Length[t]
    BY <1>2, <2>1, SpanFacts
  <2> HIDE DEF e
  <2>3. x.start = e.start /\ x.end \in Nat /\ x.end <= e.end
    BY <1>2, <2>1, TrimmedLies
  <2> HIDE DEF x
  <2>4. x.end > x.start
    BY <1>7 DEF x, e
  <2>5. InText(t, x)
    BY <1>2, <2>2, <2>3, <2>4 DEF InText
  <2> QED BY <2>5 DEF x, e
<1>8. Inside(t, E)
  BY <1>7 DEF Inside
<1> HIDE DEF E
<1>9. Inside(t, Checked(Sanitized(E), "raise").entities)
  BY <1>8, SanitizedLies, CheckedLies
<1> QED BY <1>1, <1>9 DEF t

-----------------------------------------------------------------------------
(* Values that are found                                                   *)

MarkerStates(t, Y) == [cursor : Nat, found : SUBSET Span(t, Y), ok : BOOLEAN]

LEMMA MarkerStep ==
    ASSUME NEW t \in Texts, NEW Y, {"SERIES", "NUMBER"} \subseteq Y,
           NEW m, m.value \in Values, m.label \in Y, NEW st \in MarkerStates(t, Y)
    PROVE  FindMarker(t, st, m) \in MarkerStates(t, Y)
<1> DEFINE p == Find(t, m.value, st.cursor)
           end == p + Width[m.value]
           e == At(p, end, m.label)
<1>1. st.cursor \in Nat /\ st.found \subseteq Span(t, Y) /\ st.ok \in BOOLEAN
  BY DEF MarkerStates
<1>2. FindMarker(t, st, m) =
        IF Missing(t, p) THEN [st EXCEPT !.ok = @ /\ m.label = "other"]
        ELSE [st EXCEPT !.cursor = end, !.found = @ \cup Entities(t, e)]
  BY DEF FindMarker
<1>3. p \in Nat /\ (~Missing(t, p) => p \in Occurs[t][m.value]) /\ Width[m.value] \in Nat
  BY <1>1, FindIs, TextFacts
<1>4. end \in Nat
  BY <1>3
<1>5. ASSUME ~Missing(t, p) PROVE Entities(t, e) \subseteq Span(t, Y)
  <2>1. e \in Span(t, Y)
    <3> HIDE DEF p
    <3> QED BY <1>3, <1>5, FoundPlace
  <2> HIDE DEF e
  <2>2. InText(t, e)
    BY <2>1 DEF Span
  <2> QED BY <2>1, <2>2, EntitiesLie
<1> HIDE DEF p, end, e
<1>6. [st EXCEPT !.ok = @ /\ m.label = "other"] \in MarkerStates(t, Y)
  BY <1>1 DEF MarkerStates
<1>7. ASSUME ~Missing(t, p)
      PROVE  [st EXCEPT !.cursor = end, !.found = @ \cup Entities(t, e)] \in MarkerStates(t, Y)
  BY <1>1, <1>4, <1>5, <1>7 DEF MarkerStates
<1> QED BY <1>2, <1>6, <1>7

PlaceStates(t, Y) == [taken : SUBSET Span(t, Y), ok : BOOLEAN]

LEMMA MarkersLie ==
    ASSUME NEW t \in Texts, NEW tokens, Tokens(tokens)
    PROVE  MarkersFound(t, tokens)[Len(tokens)].found \subseteq Span(t, LabelsOf(tokens))
<1> DEFINE N == Len(tokens)
           Y == LabelsOf(tokens)
           first == [cursor |-> 0, found |-> {}, ok |-> TRUE]
           S == [n \in 0..N |-> MarkerStates(t, Y)]
           G == [n \in 1..N |-> [x \in S[n - 1] |-> FindMarker(t, x, tokens[n])]]
           Rule(f) == [n \in 0..N |-> IF n = 0 THEN first ELSE FindMarker(t, f[n - 1], tokens[n])]
<1>1. N \in Nat
  BY DEF Tokens
<1>2. first \in S[0]
  BY <1>1 DEF MarkerStates
<1>3. ASSUME NEW n \in 1..N, NEW x \in S[n - 1]
      PROVE  FindMarker(t, x, tokens[n]) \in S[n] /\ G[n][x] = FindMarker(t, x, tokens[n])
  <2>1. n \in 0..N /\ n - 1 \in 0..N /\ x \in MarkerStates(t, Y)
    BY <1>1
  <2>2. tokens[n].label \in Y /\ tokens[n].value \in Values /\ {"SERIES", "NUMBER"} \subseteq Y
    BY DEF LabelsOf, Tokens
  <2>3. FindMarker(t, x, tokens[n]) \in MarkerStates(t, Y)
    <3> HIDE DEF Y
    <3> QED BY <2>1, <2>2, MarkerStep
  <2> QED BY <2>1, <2>3
<1>4. PICK f : f = [n \in 0..N |-> IF n = 0 THEN first ELSE G[n][f[n - 1]]] /\ \A n \in 0..N : f[n] \in S[n]
  <2> HIDE DEF first, S, G, N
  <2>1. \A n \in 1..N : \A x \in S[n - 1] : G[n][x] \in S[n]
    BY <1>3
  <2>2. Leads(N, S, G, first)
    BY <1>2, <2>1 DEF Leads
  <2> QED BY ONLY <1>1, <2>2, WalkExists
<1>5. f = Rule(f)
  <2>1. \A n \in 0..N : n # 0 => n \in 1..N /\ n - 1 \in 0..N
    BY <1>1
  <2> HIDE DEF first, S, G, N
  <2> QED BY <1>3, <1>4, <2>1
<1>6. MarkersFound(t, tokens) = Rule(MarkersFound(t, tokens))
  BY <1>5 DEF MarkersFound
<1> HIDE DEF first, S, G, N
<1>7. \A n \in 0..N : MarkersFound(t, tokens)[n] =
          IF n = 0 THEN first ELSE FindMarker(t, MarkersFound(t, tokens)[n - 1], tokens[n])
  BY <1>6
<1> DEFINE Right == {n \in 0..N : MarkersFound(t, tokens)[n] \in S[n]}
<1>8. 0 \in Right /\ \A n \in 1..N : n - 1 \in Right => n \in Right
  <2>1. 0 \in 0..N /\ \A n \in 1..N : n \in 0..N /\ n # 0
    BY <1>1
  <2> QED BY <1>2, <1>3, <1>7, <2>1
<1>9. \A n \in 0..N : n \in Right
  <2> HIDE DEF Right
  <2> QED BY <1>1, <1>8, Upwards
<1>10. MarkersFound(t, tokens)[N] \in MarkerStates(t, Y)
  BY <1>1, <1>9 DEF S
<1> QED BY <1>10 DEF MarkerStates, N, Y

LEMMA FreePlaceIs ==
    ASSUME NEW t \in Texts, NEW v \in Values, NEW taken
    PROVE  FreePlace(t, v, taken)[Length[t]] \in Occurs[t][v] \cup {Length[t]}
<1> DEFINE N == Length[t]
           Spots == Occurs[t][v] \cup {Length[t]}
           first == Find(t, v, 0)
           S == [n \in 0..N |-> Spots]
           G == [n \in 1..N |-> [x \in S[n - 1] |-> NextPlace(t, v, taken, x)]]
           Rule(f) == [n \in 0..N |-> IF n = 0 THEN first ELSE NextPlace(t, v, taken, f[n - 1])]
<1>1. N \in Nat
  BY TextFacts
<1>0. \A from \in Nat : Find(t, v, from) \in Spots
  BY FindIs DEF Missing
<1>2. first \in S[0]
  BY <1>0, <1>1
<1>3. ASSUME NEW n \in 1..N, NEW x \in S[n - 1]
      PROVE  NextPlace(t, v, taken, x) \in S[n] /\ G[n][x] = NextPlace(t, v, taken, x)
  <2>1. n \in 0..N /\ n - 1 \in 0..N /\ x \in Spots
    BY <1>1
  <2>2. x \in Nat /\ Width[v] \in Nat
    BY <2>1, TextFacts
  <2>3. x + Width[v] \in Nat
    BY <2>2
  <2>4. Find(t, v, x + Width[v]) \in Spots
    BY <1>0, <2>3
  <2>5. NextPlace(t, v, taken, x) \in Spots
    <3> HIDE DEF Spots
    <3> QED BY <2>1, <2>4 DEF NextPlace
  <2> QED BY <2>1, <2>5
<1>4. PICK f : f = [n \in 0..N |-> IF n = 0 THEN first ELSE G[n][f[n - 1]]] /\ \A n \in 0..N : f[n] \in S[n]
  <2> HIDE DEF first, S, G, N
  <2>1. \A n \in 1..N : \A x \in S[n - 1] : G[n][x] \in S[n]
    BY <1>3
  <2>2. Leads(N, S, G, first)
    BY <1>2, <2>1 DEF Leads
  <2> QED BY ONLY <1>1, <2>2, WalkExists
<1>5. f = Rule(f)
  <2>1. \A n \in 0..N : n # 0 => n \in 1..N /\ n - 1 \in 0..N
    BY <1>1
  <2> HIDE DEF first, S, G, N
  <2> QED BY <1>3, <1>4, <2>1
<1>6. FreePlace(t, v, taken) = Rule(FreePlace(t, v, taken))
  BY <1>5 DEF FreePlace
<1> HIDE DEF first, S, G, N
<1>7. \A n \in 0..N : FreePlace(t, v, taken)[n] =
          IF n = 0 THEN first ELSE NextPlace(t, v, taken, FreePlace(t, v, taken)[n - 1])
  BY <1>6
<1> DEFINE Right == {n \in 0..N : FreePlace(t, v, taken)[n] \in S[n]}
<1>8. 0 \in Right /\ \A n \in 1..N : n - 1 \in Right => n \in Right
  <2>1. 0 \in 0..N /\ \A n \in 1..N : n \in 0..N /\ n # 0
    BY <1>1
  <2> QED BY <1>2, <1>3, <1>7, <2>1
<1>9. \A n \in 0..N : n \in Right
  <2> HIDE DEF Right
  <2> QED BY <1>1, <1>8, Upwards
<1>10. FreePlace(t, v, taken)[N] \in Spots
  BY <1>1, <1>9 DEF S
<1> QED BY <1>10 DEF N

LEMMA PlaceStep ==
    ASSUME NEW t \in Texts, NEW Y, NEW m, m.value \in Values, m.label \in Y, NEW st \in PlaceStates(t, Y)
    PROVE  TakePlace(t, st, m) \in PlaceStates(t, Y)
<1> DEFINE p == FreePlace(t, m.value, st.taken)[Length[t]]
           e == At(p, p + Width[m.value], m.label)
<1>1. st.taken \subseteq Span(t, Y) /\ st.ok \in BOOLEAN
  BY DEF PlaceStates
<1>2. TakePlace(t, st, m) =
        IF m.label = "other" THEN st
        ELSE IF Missing(t, p) THEN [st EXCEPT !.ok = FALSE]
        ELSE [st EXCEPT !.taken = @ \cup {e}]
  BY DEF TakePlace
<1>3. p \in Occurs[t][m.value] \cup {Length[t]}
  BY FreePlaceIs
<1> HIDE DEF p
<1>4. ~Missing(t, p) => e \in Span(t, Y)
  BY <1>3, FoundPlace DEF Missing
<1> HIDE DEF e
<1>5. [st EXCEPT !.ok = FALSE] \in PlaceStates(t, Y)
  BY <1>1 DEF PlaceStates
<1>6. ~Missing(t, p) => [st EXCEPT !.taken = @ \cup {e}] \in PlaceStates(t, Y)
  BY <1>1, <1>4 DEF PlaceStates
<1> QED BY <1>2, <1>5, <1>6

LEMMA PlacesLie ==
    ASSUME NEW t \in Texts, NEW tokens, Tokens(tokens)
    PROVE  PlacesTaken(t, tokens)[Len(tokens)].taken \subseteq Span(t, LabelsOf(tokens))
<1> DEFINE N == Len(tokens)
           Y == LabelsOf(tokens)
           first == [taken |-> {}, ok |-> TRUE]
           S == [n \in 0..N |-> PlaceStates(t, Y)]
           G == [n \in 1..N |-> [x \in S[n - 1] |-> TakePlace(t, x, tokens[n])]]
           Rule(f) == [n \in 0..N |-> IF n = 0 THEN first ELSE TakePlace(t, f[n - 1], tokens[n])]
<1>1. N \in Nat
  BY DEF Tokens
<1>2. first \in S[0]
  BY <1>1 DEF PlaceStates
<1>3. ASSUME NEW n \in 1..N, NEW x \in S[n - 1]
      PROVE  TakePlace(t, x, tokens[n]) \in S[n] /\ G[n][x] = TakePlace(t, x, tokens[n])
  <2>1. n \in 0..N /\ n - 1 \in 0..N /\ x \in PlaceStates(t, Y)
    BY <1>1
  <2>2. tokens[n].label \in Y /\ tokens[n].value \in Values
    BY DEF LabelsOf, Tokens
  <2>3. TakePlace(t, x, tokens[n]) \in PlaceStates(t, Y)
    <3> HIDE DEF Y
    <3> QED BY <2>1, <2>2, PlaceStep
  <2> QED BY <2>1, <2>3
<1>4. PICK f : f = [n \in 0..N |-> IF n = 0 THEN first ELSE G[n][f[n - 1]]] /\ \A n \in 0..N : f[n] \in S[n]
  <2> HIDE DEF first, S, G, N
  <2>1. \A n \in 1..N : \A x \in S[n - 1] : G[n][x] \in S[n]
    BY <1>3
  <2>2. Leads(N, S, G, first)
    BY <1>2, <2>1 DEF Leads
  <2> QED BY ONLY <1>1, <2>2, WalkExists
<1>5. f = Rule(f)
  <2>1. \A n \in 0..N : n # 0 => n \in 1..N /\ n - 1 \in 0..N
    BY <1>1
  <2> HIDE DEF first, S, G, N
  <2> QED BY <1>3, <1>4, <2>1
<1>6. PlacesTaken(t, tokens) = Rule(PlacesTaken(t, tokens))
  BY <1>5 DEF PlacesTaken
<1> HIDE DEF first, S, G, N
<1>7. \A n \in 0..N : PlacesTaken(t, tokens)[n] =
          IF n = 0 THEN first ELSE TakePlace(t, PlacesTaken(t, tokens)[n - 1], tokens[n])
  BY <1>6
<1> DEFINE Right == {n \in 0..N : PlacesTaken(t, tokens)[n] \in S[n]}
<1>8. 0 \in Right /\ \A n \in 1..N : n - 1 \in Right => n \in Right
  <2>1. 0 \in 0..N /\ \A n \in 1..N : n \in 0..N /\ n # 0
    BY <1>1
  <2> QED BY <1>2, <1>3, <1>7, <2>1
<1>9. \A n \in 0..N : n \in Right
  <2> HIDE DEF Right
  <2> QED BY <1>1, <1>8, Upwards
<1>10. PlacesTaken(t, tokens)[N] \in PlaceStates(t, Y)
  BY <1>1, <1>9 DEF S
<1> QED BY <1>10 DEF PlaceStates, N, Y

\* Whatever a source gives, the entities of the row lie in its text.
LEMMA ExtractedLies ==
    ASSUME NEW row, row.source \in NewSources, SourceRow(row)
    PROVE  Inside(row.text, Extracted(row).entities)
<1>0. \A E, x : Outcome(x, E).entities = E
  BY DEF Outcome
<1>1. Inside(row.text, {})
  BY DEF Inside
<1>2. CASE row.source = "hivetrace"
  <2>1. Inside(row.text, UNION {Entities(row.text, e) : e \in row.spans})
    BY <1>2, HivetraceLies
  <2>2. Inside(row.text, Hivetrace(row).entities)
    BY <2>1, CheckedLies DEF Hivetrace
  <2> QED BY <1>2, <2>2 DEF Extracted
<1>3. CASE row.source = "redmadrobot"
  <2>1. TokenRow(row)
    BY <1>3, TokenRowIs
  <2>2. Inside(row.text, Redmadrobot(row).entities)
    BY <2>1, RedmadrobotLies
  <2> QED BY <1>3, <2>2 DEF Extracted
<1>4. CASE row.source = "meddies"
  <2> DEFINE final == MarkersFound(row.text, row.tokens)[Len(row.tokens)]
  <2>1. TokenRow(row)
    BY <1>4, TokenRowIs
  <2>2. Inside(row.text, final.found)
    BY <2>1, MarkersLie, SpansLie DEF TokenRow
  <2>3. Meddies(row) = IF final.ok THEN Checked(final.found, "skip") ELSE Outcome("skip", {})
    BY DEF Meddies
  <2> HIDE DEF final
  <2>4. Inside(row.text, Checked(final.found, "skip").entities)
    BY <2>2, CheckedLies
  <2>5. Inside(row.text, Meddies(row).entities)
    BY <1>0, <1>1, <2>3, <2>4
  <2> QED BY <1>4, <2>5 DEF Extracted
<1>5. CASE row.source = "multiconer"
  <2>1. Inside(row.text, Multiconer(row).entities)
    BY <1>0, <1>1 DEF Multiconer
  <2> QED BY <1>5, <2>1 DEF Extracted
<1>6. CASE row.source = "alexen2"
  <2>1. TokenRow(row)
    BY <1>6, TokenRowIs
  <2>2. row.tokens # <<>> => JoinedEnds(row.tokens)[Len(row.tokens)] = Length[row.text]
    BY <1>6 DEF SourceRow
  <2>3. Inside(row.text, Alexen2(row).entities)
    BY <2>1, <2>2, Alexen2Lies
  <2> QED BY <1>6, <2>3 DEF Extracted
<1>7. CASE row.source = "alrosait"
  <2> DEFINE final == PlacesTaken(row.text, row.tokens)[Len(row.tokens)]
  <2>1. TokenRow(row)
    BY <1>7, TokenRowIs
  <2>2. Inside(row.text, final.taken)
    BY <2>1, PlacesLie, SpansLie DEF TokenRow
  <2>3. Alrosait(row) = IF final.ok THEN Checked(final.taken, "skip") ELSE Outcome("skip", {})
    BY DEF Alrosait
  <2> HIDE DEF final
  <2>4. Inside(row.text, Checked(final.taken, "skip").entities)
    BY <2>2, CheckedLies
  <2>5. Inside(row.text, Alrosait(row).entities)
    BY <1>0, <1>1, <2>3, <2>4
  <2> QED BY <1>7, <2>5 DEF Extracted
<1> QED BY <1>2, <1>3, <1>4, <1>5, <1>6, <1>7 DEF NewSources

-----------------------------------------------------------------------------
(* What is generated lies in its text                                      *)

BuiltStates ==
    {st \in [pos : Nat, entities : SUBSET [start : Nat, end : Nat, label : DOMAIN PartWidth]] :
        \A e \in st.entities : e.start < e.end /\ e.end <= st.pos}

LEMMA PartStep ==
    ASSUME NEW part \in DOMAIN PartWidth, NEW st \in BuiltStates
    PROVE  AddPart(st, part) \in BuiltStates
<1> DEFINE w == PartWidth[part]
           to == st.pos + w
           e == At(st.pos, to, part)
           new == IF part = "" THEN {} ELSE {e}
           E == st.entities \cup new
<1>0. w \in Nat
  BY RowsAssumption
<1>1. part # "" => w > 0
  BY RowsAssumption
<1>2. /\ st.pos \in Nat /\ st.entities \subseteq [start : Nat, end : Nat, label : DOMAIN PartWidth]
      /\ \A x \in st.entities : x.start < x.end /\ x.end <= st.pos
  BY DEF BuiltStates
<1>8. AddPart(st, part) = [pos |-> to, entities |-> E]
  BY DEF AddPart
<1> HIDE DEF w
<1>3. to \in Nat /\ st.pos \in Nat /\ st.pos <= to
  <2>1. st.pos \in Nat
    BY <1>2
  <2> QED BY ONLY <1>0, <2>1
<1>5. ASSUME part # "" PROVE st.pos < to
  <2>1. w > 0
    BY <1>1, <1>5
  <2> QED BY ONLY <1>0, <1>3, <2>1
<1>4. /\ e \in [start : Nat, end : Nat, label : DOMAIN PartWidth]
      /\ e.end = to /\ (part # "" => e.start < e.end)
  <2>1. e.start = st.pos /\ e.end = to /\ e.label = part
    BY DEF At
  <2>2. e \in [start : Nat, end : Nat, label : DOMAIN PartWidth]
    BY <1>3 DEF At
  <2> HIDE DEF e, to
  <2> QED BY <1>5, <2>1, <2>2
<1> HIDE DEF to, e
<1>6. E \subseteq [start : Nat, end : Nat, label : DOMAIN PartWidth]
  BY <1>2, <1>4
<1>9. \A x \in E : x \in st.entities \/ (x = e /\ part # "")
  OBVIOUS
<1> HIDE DEF E
<1>7. ASSUME NEW x \in E PROVE x.start < x.end /\ x.end <= to
  <2>1. CASE x \in st.entities
    <3>1. x \in [start : Nat, end : Nat, label : DOMAIN PartWidth] /\ x.end <= st.pos /\ x.start < x.end
      BY <1>2, <2>1
    <3>2. x.end \in Nat
      BY <3>1
    <3>3. to \in Nat /\ st.pos \in Nat /\ st.pos <= to
      BY <1>3
    <3> QED BY <3>1, <3>2, <3>3
  <2>2. CASE x \notin st.entities
    <3>1. x = e /\ part # ""
      BY <1>9, <2>2
    <3>2. x.end = to /\ x.start < x.end
      BY <1>4, <3>1
    <3>3. to <= to
      BY <1>3
    <3> QED BY <3>2, <3>3
  <2> QED BY <2>1, <2>2
<1> QED BY <1>3, <1>6, <1>7, <1>8 DEF BuiltStates

LEMMA BuiltIs ==
    ASSUME NEW parts \in Seq(DOMAIN PartWidth)
    PROVE  Built(parts) \in BuiltStates
<1> DEFINE N == Len(parts)
           first == [pos |-> 0, entities |-> {}]
           S == [n \in 0..N |-> BuiltStates]
           G == [n \in 1..N |-> [x \in S[n - 1] |-> AddPart(x, parts[n])]]
           Rule(f) == [n \in 0..N |-> IF n = 0 THEN first ELSE AddPart(f[n - 1], parts[n])]
<1>1. N \in Nat
  OBVIOUS
<1>2. first \in S[0]
  BY <1>1 DEF BuiltStates
<1>3. ASSUME NEW n \in 1..N, NEW x \in S[n - 1]
      PROVE  AddPart(x, parts[n]) \in S[n] /\ G[n][x] = AddPart(x, parts[n])
  <2>1. n \in 0..N /\ n - 1 \in 0..N /\ x \in BuiltStates
    BY <1>1
  <2>2. parts[n] \in DOMAIN PartWidth
    OBVIOUS
  <2>3. AddPart(x, parts[n]) \in BuiltStates
    BY <2>1, <2>2, PartStep
  <2> QED BY <2>1, <2>3
<1>4. PICK f : f = [n \in 0..N |-> IF n = 0 THEN first ELSE G[n][f[n - 1]]] /\ \A n \in 0..N : f[n] \in S[n]
  <2> HIDE DEF first, S, G, N
  <2>1. \A n \in 1..N : \A x \in S[n - 1] : G[n][x] \in S[n]
    BY <1>3
  <2>2. Leads(N, S, G, first)
    BY <1>2, <2>1 DEF Leads
  <2> QED BY ONLY <1>1, <2>2, WalkExists
<1>5. f = Rule(f)
  <2>1. \A n \in 0..N : n # 0 => n \in 1..N /\ n - 1 \in 0..N
    BY <1>1
  <2> HIDE DEF first, S, G, N
  <2> QED BY <1>3, <1>4, <2>1
<1>6. Builds(parts) = Rule(Builds(parts))
  BY <1>5 DEF Builds
<1> HIDE DEF first, S, G, N
<1>7. \A n \in 0..N : Builds(parts)[n] =
          IF n = 0 THEN first ELSE AddPart(Builds(parts)[n - 1], parts[n])
  BY <1>6
<1> DEFINE Right == {n \in 0..N : Builds(parts)[n] \in S[n]}
<1>8. 0 \in Right /\ \A n \in 1..N : n - 1 \in Right => n \in Right
  <2>1. 0 \in 0..N /\ \A n \in 1..N : n \in 0..N /\ n # 0
    BY <1>1
  <2> QED BY <1>2, <1>3, <1>7, <2>1
<1>9. \A n \in 0..N : n \in Right
  <2> HIDE DEF Right
  <2> QED BY <1>1, <1>8, Upwards
<1>10. Builds(parts)[N] \in BuiltStates
  BY <1>1, <1>9 DEF S
<1> QED BY <1>10 DEF Built, N

LEMMA GeneratedLies ==
    ASSUME NEW i \in DOMAIN Generated
    PROVE  Inside(Generated[i].text, GeneratedRow(Generated[i]).entities)
<1> DEFINE g == Generated[i]
           row == GeneratedRow(g)
<1>1. /\ Parts(g.kind, g.chances) \in Seq(DOMAIN PartWidth)
      /\ row.pos = Length[g.text]
  BY GeneratedAssumption
<1>2. row \in BuiltStates
  BY <1>1, BuiltIs DEF GeneratedRow
<1> HIDE DEF row, g
<1>3. \A e \in row.entities : InText(g.text, e)
  <2>1. ASSUME NEW e \in row.entities PROVE InText(g.text, e)
    <3>1. e.start \in Nat /\ e.end \in Nat /\ e.start < e.end /\ e.end <= row.pos
      BY <1>2 DEF BuiltStates
    <3> QED BY <1>1, <3>1 DEF InText
  <2> QED BY <2>1
<1> QED BY <1>3 DEF Inside, row, g

-----------------------------------------------------------------------------
(* Every step keeps the rows sound                                         *)

SoundRows == {r \in AnyRow : SoundRow(r)}
InsideRows == {r \in AnyRow : Inside(r.text, r.entities)}
RowsOfScript == IF script = "relabel" THEN InsideRows ELSE SoundRows

\* hybrid is not checked for crossings: what enrich takes from it is.
SoundInv ==
    \A s \in Splits :
        /\ files.csv[s] \in Seq(SoundRows)
        /\ files.hybrid[s] \in Seq(InsideRows)
        /\ fresh[s] \in Seq(SoundRows)
        /\ out[s] \in Seq(RowsOfScript)

LEMMA PickKeeps ==
    ASSUME NEW X, NEW rows \in Seq(X), NEW S \in SUBSET DOMAIN rows
    PROVE  Pick(rows, S) \in Seq(X)
<1> DEFINE c == Cardinality(S)
           picked == Pick(rows, S)
<1>1. Len(rows) \in Nat /\ DOMAIN rows = 1..Len(rows) /\ \A i \in DOMAIN rows : rows[i] \in X
  OBVIOUS
<1>2. /\ c \in Nat /\ picked = [k \in 1..c |-> picked[k]]
      /\ \A k \in 1..c : Nth(S, k) \in S /\ picked[k] = rows[Nth(S, k)]
  BY <1>1, PickIs
<1> HIDE DEF c, picked
<1>3. \A k \in 1..c : picked[k] \in X
  BY <1>1, <1>2
<1>4. picked \in Seq(X)
  BY <1>2, <1>3
<1> QED BY <1>4 DEF picked

LEMMA SoundFacts ==
    ASSUME NEW X, NEW rows \in Seq(X)
    PROVE  Len(rows) \in Nat /\ DOMAIN rows = 1..Len(rows) /\ \A i \in DOMAIN rows : rows[i] \in X
  OBVIOUS

LEMMA NoRowsSound == \A s \in Splits : Empty[s] \in Seq(SoundRows) /\ Empty[s] \in Seq(RowsOfScript')
  BY DEF Empty

\* A row that passes the check is sound if its entities lie in its text.
LEMMA CheckedRow ==
    ASSUME NEW r \in AnyRow, Inside(r.text, r.entities), ValidRow(r.entities)
    PROVE  r \in SoundRows
<1>1. r.text \in Texts
  BY DEF AnyRow, RowsOf
<1>2. Laminar(r.entities)
  BY <1>1, ValidIsLaminar
<1> QED BY <1>2 DEF SoundRows, SoundRow

\* The rows that are generated.
LEMMA RareSound == \A s \in Splits : RareAdditions[s] \in Seq(SoundRows)
<1> DEFINE S(s) == {i \in DOMAIN Generated : FirstDrawn(i) /\ Home[Key[Generated[i].text]] = s}
           drawn(s) == Pick(Generated, S(s))
<1>1. Len(Generated) \in Nat /\ DOMAIN Generated = 1..Len(Generated)
  BY CorpusAssumption
<1>2. ASSUME NEW s \in Splits PROVE RareAdditions[s] \in Seq(SoundRows)
  <2> DEFINE rows == RareAdditions[s]
  <2>1. rows = [k \in DOMAIN drawn(s) |-> RareRow(s, k - 1, drawn(s)[k])]
    BY DEF RareAdditions
  <2>2. rows \in File
    BY RareFile
  <2>3. \A k \in DOMAIN drawn(s) : \E i \in DOMAIN Generated : drawn(s)[k] = Generated[i]
    <3> DEFINE at == S(s)
    <3>1. at \in SUBSET DOMAIN Generated
      OBVIOUS
    <3> HIDE DEF S, at
    <3>2. /\ DOMAIN Pick(Generated, at) = 1..Cardinality(at)
          /\ \A k \in 1..Cardinality(at) :
                Nth(at, k) \in at /\ Pick(Generated, at)[k] = Generated[Nth(at, k)]
      BY <1>1, <3>1, PickIs
    <3>3. \A k \in DOMAIN Pick(Generated, at) :
              \E i \in DOMAIN Generated : Pick(Generated, at)[k] = Generated[i]
      BY <3>1, <3>2
    <3> QED BY <3>3 DEF at
  <2> HIDE DEF drawn, rows
  <2>4. ASSUME NEW k \in DOMAIN rows PROVE rows[k] \in SoundRows
    <3>1. k \in DOMAIN drawn(s) /\ rows[k] = RareRow(s, k - 1, drawn(s)[k]) /\ rows[k] \in AnyRow
      BY <2>1, <2>2, FileFacts
    <3>2. PICK i \in DOMAIN Generated : drawn(s)[k] = Generated[i]
      BY <2>3, <3>1
    <3>3. /\ rows[k].text = Generated[i].text
          /\ rows[k].entities = GeneratedRow(Generated[i]).entities
      BY <3>1, <3>2 DEF RareRow, Row
    <3>4. Inside(rows[k].text, rows[k].entities)
      BY <3>3, GeneratedLies
    <3>5. ValidRow(rows[k].entities)
      BY <3>3, GeneratedAssumption
    <3> QED BY <3>1, <3>4, <3>5, CheckedRow
  <2>5. Len(rows) \in Nat /\ rows = [k \in 1..Len(rows) |-> rows[k]]
    BY <2>2 DEF File
  <2>6. DOMAIN rows = 1..Len(rows)
    BY <2>2, FileFacts
  <2>7. rows \in Seq(SoundRows)
    BY <2>4, <2>5, <2>6
  <2> QED BY <2>7 DEF rows
<1> QED BY <1>2

LEMMA InitSound == Init => SoundInv
<1> SUFFICES ASSUME Init, NEW s \in Splits
             PROVE  /\ files.csv[s] \in Seq(SoundRows) /\ files.hybrid[s] \in Seq(InsideRows)
                    /\ fresh[s] \in Seq(SoundRows) /\ out[s] \in Seq(RowsOfScript)
  BY DEF SoundInv
<1> DEFINE R == RowsOf(OldSources, Entity)
<1>1. R \subseteq AnyRow
  BY DEF RowsOf, AnyRow, Sources
<1>2. /\ files.csv[s] \in Seq(R) /\ \A i \in DOMAIN files.csv[s] : SoundRow(files.csv[s][i])
      /\ files.hybrid[s] \in Seq(R)
      /\ \A i \in DOMAIN files.hybrid[s] : Inside(files.hybrid[s][i].text, files.hybrid[s][i].entities)
  <2>1. files \in Corpora
    BY DEF Init
  <2>2. files \in [csv : [Splits -> Seq(R)], hybrid : [Splits -> Seq(R)]]
    BY <2>1, CorpusAssumption
  <2> HIDE DEF R
  <2> QED BY <2>1, <2>2, CorpusAssumption
<1> HIDE DEF R
<1>3. files.csv[s] \in Seq(SoundRows)
  <2>1. \A i \in DOMAIN files.csv[s] : files.csv[s][i] \in SoundRows
    BY <1>1, <1>2 DEF SoundRows
  <2> QED BY <1>2, <2>1
<1>4. files.hybrid[s] \in Seq(InsideRows)
  <2>1. \A i \in DOMAIN files.hybrid[s] : files.hybrid[s][i] \in InsideRows
    BY <1>1, <1>2 DEF InsideRows
  <2> QED BY <1>2, <2>1
<1>5. fresh[s] = <<>> /\ out[s] = <<>>
  BY DEF Init, Empty
<1> QED BY <1>3, <1>4, <1>5

LEMMA StutterSound == SoundInv /\ UNCHANGED vars => SoundInv'
<1> SUFFICES ASSUME SoundInv, UNCHANGED vars PROVE SoundInv'
  OBVIOUS
<1>1. RowsOfScript' = RowsOfScript
  BY DEF vars, process, RowsOfScript
<1> QED BY <1>1 DEF vars, process, SoundInv

LEMMA LaunchSound == ASSUME SoundInv, NEW s \in Scripts, Launch(s) PROVE SoundInv'
<1>1. \A t \in Splits : fresh'[t] \in Seq(SoundRows) /\ out'[t] \in Seq(RowsOfScript')
  BY RareSound, NoRowsSound DEF Launch
<1>2. files' = files
  BY DEF Launch
<1> QED BY <1>1, <1>2 DEF SoundInv

LEMMA EndsSound ==
    ASSUME Ends, \A s \in Splits : files'.csv[s] \in Seq(SoundRows) /\ files'.hybrid[s] \in Seq(InsideRows)
    PROVE  SoundInv'
<1>1. \A t \in Splits : fresh'[t] \in Seq(SoundRows) /\ out'[t] \in Seq(RowsOfScript')
  BY NoRowsSound DEF Ends
<1> QED BY <1>1 DEF SoundInv

LEMMA FailsSound == ASSUME SoundInv, Fails PROVE SoundInv'
<1>1. Ends /\ files' = files
  BY DEF Fails
<1> QED BY <1>1, EndsSound DEF SoundInv

\* A file is replaced by rows of the script that runs.
LEMMA PutSound ==
    ASSUME CorpusInv, SoundInv, turn \in Splits, NEW rows \in Seq(RowsOfScript),
           NEW f, f = [files EXCEPT ![Where][turn] = rows]
    PROVE  \A s \in Splits : f.csv[s] \in Seq(SoundRows) /\ f.hybrid[s] \in Seq(InsideRows)
<1>1. files \in Files
  BY DEF CorpusInv, Shapes
<1>2. \A s \in Splits : files.csv[s] \in Seq(SoundRows) /\ files.hybrid[s] \in Seq(InsideRows)
  BY DEF SoundInv
<1>3. CASE script = "relabel"
  <2>1. rows \in Seq(InsideRows)
    BY <1>3 DEF RowsOfScript
  <2>2. f.csv = files.csv /\ f.hybrid = [files.hybrid EXCEPT ![turn] = rows]
    BY <1>1, <1>3 DEF Files, Where
  <2>3. files.hybrid \in [Splits -> File]
    BY <1>1 DEF Files
  <2> QED BY <1>2, <2>1, <2>2, <2>3
<1>4. CASE script # "relabel"
  <2>1. rows \in Seq(SoundRows)
    BY <1>4 DEF RowsOfScript
  <2>2. f.hybrid = files.hybrid /\ f.csv = [files.csv EXCEPT ![turn] = rows]
    BY <1>1, <1>4 DEF Files, Where
  <2>3. files.csv \in [Splits -> File]
    BY <1>1 DEF Files
  <2> QED BY <1>2, <2>1, <2>2, <2>3
<1> QED BY <1>3, <1>4

LEMMA TornSound == ASSUME CorpusInv, SoundInv, Torn PROVE SoundInv'
<1>1. turn \in Splits /\ Ends
  BY DEF CorpusInv, Shapes, Torn
<1>2. PICK n \in 0..Len(out[turn]) : files' = [files EXCEPT ![Where][turn] = SubSeq(out[turn], 1, n)]
  BY DEF Torn
<1> DEFINE rows == SubSeq(out[turn], 1, n)
<1>3. rows \in Seq(RowsOfScript)
  <2>1. out[turn] \in Seq(RowsOfScript)
    BY <1>1 DEF SoundInv
  <2> QED BY <1>2, <2>1
<1> HIDE DEF rows
<1>4. files' = [files EXCEPT ![Where][turn] = rows]
  BY <1>2 DEF rows
<1>5. \A s \in Splits : files'.csv[s] \in Seq(SoundRows) /\ files'.hybrid[s] \in Seq(InsideRows)
  BY <1>1, <1>3, <1>4, PutSound
<1> QED BY <1>1, <1>5, EndsSound

LEMMA OpenSound == ASSUME CorpusInv, SoundInv, Open PROVE SoundInv'
<1>1. turn \in Splits /\ UNCHANGED <<script, fresh, out>>
  BY DEF CorpusInv, Shapes, Open
<1> DEFINE none == <<>>
<1>2. none \in Seq(RowsOfScript) /\ files' = [files EXCEPT ![Where][turn] = none]
  BY DEF Open
<1> HIDE DEF none
<1>3. \A s \in Splits : files'.csv[s] \in Seq(SoundRows) /\ files'.hybrid[s] \in Seq(InsideRows)
  BY <1>1, <1>2, PutSound
<1>4. RowsOfScript' = RowsOfScript
  BY <1>1 DEF RowsOfScript
<1> QED BY <1>1, <1>3, <1>4 DEF SoundInv

LEMMA WriteSound == ASSUME CorpusInv, SoundInv, Write PROVE SoundInv'
<1>1. turn \in Splits /\ files' = [files EXCEPT ![Where][turn] = out[turn]]
  BY DEF CorpusInv, Shapes, Write
<1>2. out[turn] \in Seq(RowsOfScript)
  BY <1>1 DEF SoundInv
<1>3. \A s \in Splits : files'.csv[s] \in Seq(SoundRows) /\ files'.hybrid[s] \in Seq(InsideRows)
  BY <1>1, <1>2, PutSound
<1>4. Ends \/ UNCHANGED <<script, fresh, out>>
  BY DEF Write
<1>5. ASSUME UNCHANGED <<script, fresh, out>> PROVE SoundInv'
  <2>1. RowsOfScript' = RowsOfScript
    BY <1>5 DEF RowsOfScript
  <2> QED BY <1>3, <1>5, <2>1 DEF SoundInv
<1> QED BY <1>3, <1>4, <1>5, EndsSound

\* integrate reads the rows it keeps, and adds rows that were checked.
LEMMA ReadAllSound == ASSUME CorpusInv, SoundInv, ReadAll PROVE SoundInv'
<1>1. /\ script = "integrate" /\ UNCHANGED <<files, script, fresh>>
      /\ out' = [s \in Splits |-> NotNew(files.csv[s])]
  BY DEF ReadAll
<1>2. RowsOfScript' = SoundRows
  BY <1>1 DEF RowsOfScript
<1>3. ASSUME NEW s \in Splits PROVE out'[s] \in Seq(SoundRows)
  <2> DEFINE rows == files.csv[s]
             S == {i \in DOMAIN rows : rows[i].source \notin NewSources}
  <2>1. rows \in Seq(SoundRows) /\ S \in SUBSET DOMAIN rows /\ out'[s] = Pick(rows, S)
    BY <1>1 DEF SoundInv, NotNew
  <2> HIDE DEF rows, S
  <2> QED BY <2>1, PickKeeps
<1> QED BY <1>1, <1>2, <1>3 DEF SoundInv

LEMMA AddRowSound == ASSUME CorpusInv, SoundInv, AddRow PROVE SoundInv'
<1> DEFINE g == feed[turn]
           t == Home[Key[g.text]]
           r == Row(<<g.source, t, Len(fresh[t])>>, g.source, g.text, Kept)
<1>0. /\ Shapes /\ Taking /\ ValidRow(Kept) /\ UNCHANGED <<files, script, out>>
      /\ fresh' = [fresh EXCEPT ![t] = Append(@, r)]
  BY DEF CorpusInv, AddRow, Added
<1>1. /\ turn \in DOMAIN feed /\ g.source \in NewSources /\ g.text \in Texts
      /\ Kept \subseteq FeedEntities /\ t \in Splits /\ t \in Nat
  BY <1>0, FeedFacts, Typed DEF Typing
<1>2. fresh[t] \in Seq(SoundRows) /\ Len(fresh[t]) \in Nat /\ fresh \in [Splits -> File]
  BY <1>0, <1>1 DEF SoundInv, Shapes
<1>3. SourceRow(g)
  BY <1>0, <1>1, CorpusAssumption DEF Shapes
<1> HIDE DEF g, t
<1>4. r \in AnyRow /\ r.text = g.text /\ r.entities = Kept
  BY <1>1, <1>2, MadeRow DEF Row
<1>5. Inside(g.text, Kept)
  <2>1. Kept = Sanitized(Extracted(g).entities)
    BY DEF Kept, Given, g
  <2> QED BY <1>1, <1>3, <2>1, ExtractedLies, SanitizedLies
<1> HIDE DEF r
<1>6. r \in SoundRows
  BY <1>0, <1>4, <1>5, CheckedRow
<1>7. Append(fresh[t], r) \in Seq(SoundRows)
  BY <1>2, <1>6
<1>8. \A s \in Splits : fresh'[s] \in Seq(SoundRows)
  BY <1>0, <1>1, <1>2, <1>7 DEF SoundInv
<1>9. RowsOfScript' = RowsOfScript
  BY <1>0 DEF RowsOfScript
<1> QED BY <1>0, <1>8, <1>9 DEF SoundInv

LEMMA EndTakeSound == ASSUME CorpusInv, SoundInv, EndTake PROVE SoundInv'
<1>1. script = "integrate" /\ UNCHANGED <<files, script, fresh>> /\ out' = [s \in Splits |-> out[s] \o fresh[s]]
  BY DEF CorpusInv, Shapes, EndTake
<1>2. RowsOfScript' = SoundRows /\ RowsOfScript = SoundRows
  BY <1>1 DEF RowsOfScript
<1>3. ASSUME NEW s \in Splits PROVE out'[s] \in Seq(SoundRows)
  <2>1. out[s] \in Seq(SoundRows) /\ fresh[s] \in Seq(SoundRows) /\ out'[s] = out[s] \o fresh[s]
    BY <1>1, <1>2 DEF SoundInv
  <2> QED BY <2>1
<1> QED BY <1>1, <1>2, <1>3 DEF SoundInv

\* The other scripts read the file in turn.
LEMMA ReadToSound ==
    ASSUME CorpusInv, SoundInv, phase = "read", NEW rows \in Seq(RowsOfScript), ReadTo(rows)
    PROVE  SoundInv'
<1>1. /\ turn \in Splits /\ out \in [Splits -> File]
  BY DEF CorpusInv, Shapes
<1>2. /\ out' = [out EXCEPT ![turn] = rows] /\ UNCHANGED <<files, script, fresh>>
  BY DEF ReadTo
<1>3. RowsOfScript' = RowsOfScript
  BY <1>2 DEF RowsOfScript
<1>4. \A s \in Splits : out'[s] \in Seq(RowsOfScript)
  BY <1>1, <1>2 DEF SoundInv
<1> QED BY <1>2, <1>3, <1>4 DEF SoundInv

LEMMA ReadRareSound == ASSUME CorpusInv, SoundInv, ReadRare PROVE SoundInv'
<1> DEFINE old == files.csv[turn]
           S == {i \in DOMAIN old : old[i].source # "rare"}
           rows == Pick(old, S) \o fresh[turn]
<1>1. turn \in Splits /\ phase = "read" /\ RowsOfScript = SoundRows /\ ReadTo(rows)
  BY DEF CorpusInv, Shapes, ReadRare, Reading, Others, RowsOfScript
<1>2. old \in Seq(SoundRows) /\ fresh[turn] \in Seq(SoundRows) /\ S \in SUBSET DOMAIN old
  BY <1>1 DEF SoundInv
<1> HIDE DEF old, S
<1>3. Pick(old, S) \in Seq(SoundRows)
  BY <1>2, PickKeeps
<1>4. rows \in Seq(SoundRows)
  BY <1>2, <1>3
<1> HIDE DEF rows
<1> QED BY <1>1, <1>4, ReadToSound

LEMMA ReadDedupSound == ASSUME CorpusInv, SoundInv, ReadDedup PROVE SoundInv'
<1> DEFINE old == files.csv[turn]
           S == {i \in DOMAIN old : FirstOfKey(old, i)}
           rows == Pick(old, S)
<1>1. turn \in Splits /\ phase = "read" /\ RowsOfScript = SoundRows /\ ReadTo(rows)
  BY DEF CorpusInv, Shapes, ReadDedup, Reading, Firsts, RowsOfScript
<1>2. old \in Seq(SoundRows) /\ S \in SUBSET DOMAIN old
  BY <1>1 DEF SoundInv
<1> HIDE DEF old, S
<1>3. rows \in Seq(SoundRows)
  BY <1>2, PickKeeps
<1> HIDE DEF rows
<1> QED BY <1>1, <1>3, ReadToSound

\* What enrich adds lies in the text, and a row that changes is checked.
LEMMA EnrichedSound ==
    ASSUME CorpusInv, SoundInv, NEW r \in SoundRows, ~Crosses(r)
    PROVE  Enriched(r) \in SoundRows
<1>1. r \in AnyRow /\ SoundRow(r)
  BY DEF SoundRows
<1>2. /\ Enriched(r) \in AnyRow /\ Enriched(r).text = r.text
      /\ Enriched(r).entities = r.entities \cup Bonus(r)
  <2>1. Enriched(r).entities = r.entities \cup Bonus(r)
    BY <1>1 DEF Enriched, AnyRow, RowsOf
  <2> QED BY <1>1, <2>1, ChangedRow DEF CorpusInv
<1>3. \A h \in Twins(r) : Inside(r.text, h.entities)
  <2>1. \A s \in Splits : \A i \in DOMAIN files.hybrid[s] : files.hybrid[s][i] \in InsideRows
    BY SoundFacts DEF SoundInv
  <2> QED BY <2>1 DEF Twins, InsideRows
<1>4. Inside(r.text, Bonus(r))
  BY <1>3 DEF Bonus, Inside
<1>5. Inside(r.text, Enriched(r).entities)
  BY <1>1, <1>2, <1>4 DEF SoundRow, Inside
<1>6. CASE Enriched(r) = r
  BY <1>6
<1>7. CASE Enriched(r) # r
  <2>1. ValidRow(Enriched(r).entities)
    BY <1>7 DEF Crosses
  <2> QED BY <1>2, <1>5, <2>1, CheckedRow
<1> QED BY <1>6, <1>7

LEMMA ReadEnrichSound == ASSUME CorpusInv, SoundInv, ReadEnrich PROVE SoundInv'
<1> DEFINE old == files.csv[turn]
           rows == [i \in DOMAIN old |-> Enriched(old[i])]
<1>1. /\ turn \in Splits /\ phase = "read" /\ RowsOfScript = SoundRows /\ ReadTo(rows)
      /\ \A i \in DOMAIN old : ~Crosses(old[i])
  BY DEF CorpusInv, Shapes, ReadEnrich, Reading, RowsOfScript
<1>2. old \in Seq(SoundRows)
  BY <1>1 DEF SoundInv
<1> HIDE DEF old
<1>3. Len(old) \in Nat /\ DOMAIN old = 1..Len(old) /\ \A i \in DOMAIN old : old[i] \in SoundRows
  BY <1>2, SoundFacts
<1>4. \A i \in DOMAIN old : rows[i] \in SoundRows
  BY <1>1, <1>3, EnrichedSound
<1>5. DOMAIN rows = DOMAIN old /\ rows = [i \in DOMAIN old |-> rows[i]]
  OBVIOUS
<1> HIDE DEF rows
<1>6. rows \in Seq(SoundRows)
  BY <1>3, <1>4, <1>5
<1> QED BY <1>1, <1>6, ReadToSound

LEMMA ReadRelabelSound == ASSUME CorpusInv, SoundInv, ReadRelabel PROVE SoundInv'
<1> DEFINE old == files.hybrid[turn]
           rows == [i \in DOMAIN old |-> Stripped(old[i])]
<1>1. turn \in Splits /\ phase = "read" /\ RowsOfScript = InsideRows /\ ReadTo(rows) /\ Shapes
  BY DEF CorpusInv, Shapes, ReadRelabel, Reading, RowsOfScript
<1>2. old \in Seq(InsideRows)
  BY <1>1 DEF SoundInv
<1> HIDE DEF old
<1>3. Len(old) \in Nat /\ DOMAIN old = 1..Len(old) /\ \A i \in DOMAIN old : old[i] \in InsideRows
  BY <1>2, SoundFacts
<1>4. ASSUME NEW i \in DOMAIN old PROVE rows[i] \in InsideRows
  <2>1. old[i] \in AnyRow /\ Inside(old[i].text, old[i].entities)
    BY <1>3 DEF InsideRows
  <2>2. Stripped(old[i]) \in AnyRow /\ Stripped(old[i]).text = old[i].text
    BY <1>1, <2>1, ChangedRow
  <2>3. Stripped(old[i]).entities \subseteq old[i].entities
    BY <2>1 DEF Stripped, AnyRow, RowsOf
  <2> QED BY <2>1, <2>2, <2>3 DEF InsideRows, Inside
<1>5. DOMAIN rows = DOMAIN old /\ rows = [i \in DOMAIN old |-> rows[i]]
  OBVIOUS
<1> HIDE DEF rows
<1>6. rows \in Seq(InsideRows)
  BY <1>3, <1>4, <1>5
<1> QED BY <1>1, <1>6, ReadToSound

LEMMA NextSound == ASSUME CorpusInv, SoundInv, [Next]_vars PROVE SoundInv'
<1>1. ASSUME NEW s \in Scripts, Launch(s) PROVE SoundInv'
  BY <1>1, LaunchSound
<1>2. CASE Stopped \/ RowRaises \/ DryRun \/ EnrichRaises
  BY <1>2, FailsSound DEF Stopped, RowRaises, DryRun, EnrichRaises
<1>3. CASE Torn
  BY <1>3, TornSound
<1>4. CASE ReadAll
  BY <1>4, ReadAllSound
<1>5. CASE SkipRow
  <2>1. UNCHANGED <<files, script, fresh, out>>
    BY <1>5 DEF SkipRow
  <2>2. RowsOfScript' = RowsOfScript
    BY <2>1 DEF RowsOfScript
  <2> QED BY <2>1, <2>2 DEF SoundInv
<1>6. CASE AddRow
  BY <1>6, AddRowSound
<1>7. CASE EndTake
  BY <1>7, EndTakeSound
<1>8. CASE ReadRare
  BY <1>8, ReadRareSound
<1>9. CASE ReadDedup
  BY <1>9, ReadDedupSound
<1>10. CASE ReadEnrich
  BY <1>10, ReadEnrichSound
<1>11. CASE ReadRelabel
  BY <1>11, ReadRelabelSound
<1>12. CASE Open
  BY <1>12, OpenSound
<1>13. CASE Write
  BY <1>13, WriteSound
<1>14. CASE AllRun \/ UNCHANGED vars
  BY <1>14, StutterSound DEF AllRun
<1> QED BY <1>1, <1>2, <1>3, <1>4, <1>5, <1>6, <1>7, <1>8, <1>9, <1>10, <1>11, <1>12, <1>13, <1>14 DEF Next

\* Whatever was run and stopped, the entities of each row of csv lie in its text
\* and nest or keep apart: what the extractors find and the rows that are generated
\* lie in the text, and the check lets no crossing through.
THEOREM RowsStaySound == Spec => []RowsSound
<1>1. CorpusInv /\ SoundInv /\ [Next]_vars => SoundInv'
  BY NextSound
<1>2. SoundInv => RowsSound
  <2>1. ASSUME SoundInv, NEW s \in Splits, NEW i \in DOMAIN files.csv[s] PROVE SoundRow(files.csv[s][i])
    <3>1. files.csv[s] \in Seq(SoundRows)
      BY <2>1 DEF SoundInv
    <3>2. files.csv[s][i] \in SoundRows
      BY <3>1, SoundFacts
    <3> QED BY <3>2 DEF SoundRows
  <2> QED BY <2>1 DEF RowsSound, Rows
<1> QED BY CorpusInvariance, InitSound, <1>1, <1>2, PTL DEF Spec
=============================================================================
