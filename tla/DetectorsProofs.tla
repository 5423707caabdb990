--------------------------- MODULE DetectorsProofs ---------------------------
(***************************************************************************)
(* The detectors' algorithms, for every input.                             *)
(*                                                                         *)
(* Batches and windows of the student and of BatchedDetector, for every    *)
(* batch, window length, overlap and size of a flush: no short piece of a  *)
(* text is seen only in parts, and every text gets the merge of its own    *)
(* findings.  The invariant (WindowsInv) says what the windows cut so far  *)
(* cover (CutCovers), what the merge of the text in turn has achieved      *)
(* (MergeSoFar, LastInOrder), and that the texts before it are in place.   *)
(*                                                                         *)
(* BIO decoding, for every tokenization and every sequence of tags: the    *)
(* three loops return the reference.  Before token k a loop has closed the *)
(* runs of its column that ended before the open span, and the open span   *)
(* is the run in progress (Column in DecodingInv); the columns before are  *)
(* complete.                                                               *)
(*                                                                         *)
(* Votes between the windows of an ONNX model, for every tokenization and  *)
(* every answer of the network.  The windows counted are the first ones in *)
(* the order of their lengths (InTurn), and the votes of a text are the    *)
(* surest answers among all that those windows gave it (VotesStand); so    *)
(* the text handed over carries the best answer for each of its tokens.    *)
(*                                                                         *)
(* Tagging, for every row: the order of entities has one least element     *)
(* (BestCovers), so the tags of an entity that leads on its tokens are one *)
(* run (EntityIsKept).                                                     *)
(*                                                                         *)
(* The Viterbi search, for every length of a window and number of tags, by *)
(* induction along the window: no way to a tag is better than the one in   *)
(* the table (TableBounds), and the pointers lead along one as good        *)
(* (PointersAttain).  The induction is over sets of numbers (InductionUpTo,*)
(* from the least-number principle), and a table defined by recursion is   *)
(* shown to exist before its equation is used (Chain, TableIs).            *)
(***************************************************************************)
EXTENDS StudentWindows, OnnxInference, Tagging, FiniteSetTheorems, TLAPS

-----------------------------------------------------------------------------
(* Batches, windows and their merge                                        *)

\* A piece of text o that some window of seen or pending holds whole.
Whole(o, a, b) ==
    \/ \E w \in seen[o] : w.start <= a /\ b <= w.end
    \/ \E i \in DOMAIN pending :
          pending[i].owner = o /\ pending[i].start <= a /\ b <= pending[i].end

Cut(o, a) == o < owner \/ (o = owner /\ a < offset)

CutCovers ==
    stage \in {"cut", "flush"} =>
        \A o \in DOMAIN positions : \A a, b \in 0..Length(o) :
            a < b /\ b - a <= Shared + 1 /\ Cut(o, a) => Whole(o, a, b)

BatchProgress ==
    /\ stage = "merge" => owner \in DOMAIN positions /\ todo \subseteq results[owner]
    /\ stage = "done" => owner = Len(positions) + 1
    /\ stage \in {"cut", "flush"} => todo = {} /\ closed = {} /\ last = NoSpan
    /\ stage \in {"cut", "flush"} => positions # <<>>

MergeSoFar ==
    stage = "merge" =>
        /\ \A s \in results[owner] : s \in todo \/
              \A p \in s.start + 1..s.end : Covered(Closed, s.label, p)
        /\ \A m \in Closed : \A p \in m.start + 1..m.end :
              Covered(results[owner], m.label, p)
        /\ \A m \in Closed : \A p \in m.start + 1..m.end - 1 :
              Inside(results[owner], m.label, p)

\* Where the last span stands between those before it and the entities to come.
LastInOrder ==
    stage = "merge" =>
        /\ last = NoSpan => closed = {}
        /\ last # NoSpan =>
              /\ \A m \in closed : m.label < last.label \/
                    (m.label = last.label /\ m.end <= last.start)
              /\ \A e \in todo : last.label < e.label \/
                    (last.label = e.label /\ last.start <= e.start)
        /\ \A m, n \in closed : m # n /\ m.label = n.label =>
              m.end <= n.start \/ n.end <= m.start

Placed ==
    /\ stage \in {"merge", "done"} =>
          \A o \in DOMAIN positions : o < owner => IsMerge(out[positions[o]], results[o])
    /\ \A i \in DOMAIN texts : texts[i] = 0 => out[i] = {}

WindowsInv ==
    /\ BatchTypeOK
    /\ BatchProgress
    /\ CutCovers
    /\ ShortSpansWhole
    /\ MergeSoFar
    /\ LastInOrder
    /\ Placed

-----------------------------------------------------------------------------
(* Arithmetic and the enumeration of the non-empty texts                   *)

\* Two windows in a row share exactly Shared characters.
LEMMA StepFacts ==
    /\ Shared \in Nat
    /\ Step \in Nat \ {0}
    /\ Step + Shared = MaxLen
  BY WindowsAssumption DEF Shared, Step, Lesser, Larger

\* What an element of Positions is.
LEMMA PositionsFacts ==
    ASSUME NEW batch \in Seq(Nat), NEW p \in Positions(batch)
    PROVE  /\ p \in Seq(DOMAIN batch)
           /\ DOMAIN p = 1..Len(p)
           /\ Len(p) \in Nat
           /\ \A o \in DOMAIN p : p[o] \in DOMAIN batch /\ batch[p[o]] \in Nat \ {0}
           /\ \A o, q \in DOMAIN p : p[o] = p[q] => o = q
<1>1. PICK n \in 0..Len(batch) : p \in [1..n -> DOMAIN batch]
  BY DEF Positions
<1>2. n \in Nat /\ p \in Seq(DOMAIN batch) /\ Len(p) = n /\ DOMAIN p = 1..n
  BY <1>1
<1>3. ASSUME NEW o \in DOMAIN p PROVE p[o] \in DOMAIN batch /\ batch[p[o]] \in Nat \ {0}
  <2>1. p[o] \in DOMAIN batch
    BY <1>1, <1>2, <1>3
  <2>2. p[o] \in {i \in DOMAIN batch : batch[i] > 0}
    BY <1>3 DEF Positions
  <2>3. batch[p[o]] \in Nat
    BY <2>1
  <2> QED BY <2>1, <2>2, <2>3
<1>4. ASSUME NEW o \in DOMAIN p, NEW q \in DOMAIN p, p[o] = p[q] PROVE o = q
  <2>1. \A i, j \in DOMAIN p : i < j => p[i] < p[j]
    BY DEF Positions
  <2>2. p[o] \in Nat
    BY <1>3
  <2>3. o \in Nat /\ q \in Nat
    BY <1>2, <1>4
  <2> QED BY <1>4, <2>1, <2>2, <2>3
<1> QED BY <1>2, <1>3, <1>4

LEMMA WindowsFacts ==
    ASSUME BatchTypeOK
    PROVE  /\ positions \in Seq(DOMAIN texts)
           /\ DOMAIN positions = 1..Len(positions)
           /\ Len(positions) \in Nat
           /\ \A o \in DOMAIN positions :
                 positions[o] \in DOMAIN texts /\ Length(o) \in Nat \ {0}
           /\ \A o, q \in DOMAIN positions : positions[o] = positions[q] => o = q
  <1>1. texts \in Seq(Nat) /\ positions \in Positions(texts)
    BY WindowsAssumption DEF BatchTypeOK
  <1> QED BY <1>1, PositionsFacts DEF Length

-----------------------------------------------------------------------------
LEMMA InitEstablishes == BatchInit => WindowsInv
<1> SUFFICES ASSUME BatchInit PROVE WindowsInv
  OBVIOUS
<1>0. /\ texts \in Seq(Nat) /\ positions \in Positions(texts)
      /\ positions \in Seq(DOMAIN texts)
      /\ DOMAIN positions = 1..Len(positions) /\ Len(positions) \in Nat
  BY WindowsAssumption, PositionsFacts DEF BatchInit
<1>1. BatchTypeOK
  <2>1. owner \in 1..Len(positions) + 1 /\ pending \in Seq(OwnedWindows)
    BY <1>0 DEF BatchInit
  <2> QED BY <1>0, <2>1 DEF BatchInit, BatchTypeOK, Pcs
<1>2. BatchProgress
  BY <1>0 DEF BatchInit, BatchProgress
<1>3. CutCovers
  BY <1>0 DEF BatchInit, CutCovers, Cut, Length
<1>4. ShortSpansWhole
  BY <1>0 DEF BatchInit, ShortSpansWhole
<1>5. MergeSoFar /\ LastInOrder
  BY DEF BatchInit, MergeSoFar, LastInOrder
<1>6. Placed
  BY <1>0 DEF BatchInit, Placed
<1> QED BY <1>1, <1>2, <1>3, <1>4, <1>5, <1>6 DEF WindowsInv

\* A window holds every short piece that begins before the next one does.
LEMMA WindowHolds ==
    ASSUME BatchTypeOK, owner \in DOMAIN positions,
           NEW a \in 0..Length(owner), NEW b \in 0..Length(owner),
           a < b, b - a <= Shared + 1, offset <= a,
           offset + MaxLen >= Length(owner) \/ a < offset + Step
    PROVE  Window.start <= a /\ b <= Window.end
<1>1. Length(owner) \in Nat /\ offset \in Nat
  BY WindowsFacts DEF BatchTypeOK
<1> QED BY <1>1, StepFacts, WindowsAssumption DEF Window, Lesser

LEMMA CutPreserves == WindowsInv /\ CutWindow => WindowsInv'
<1> SUFFICES ASSUME WindowsInv, CutWindow PROVE WindowsInv'
  OBVIOUS
<1>0. /\ BatchTypeOK /\ positions \in Seq(DOMAIN texts) /\ DOMAIN positions = 1..Len(positions)
      /\ Len(positions) \in Nat /\ owner \in 1..Len(positions) /\ offset \in Nat
      /\ \A o \in DOMAIN positions : Length(o) \in Nat
      /\ stage = "cut" /\ stage' \in {"cut", "flush"}
      /\ UNCHANGED <<texts, positions, seen, results, todo, closed, last, out>>
  BY WindowsFacts DEF WindowsInv, BatchTypeOK, CutWindow
<1>1. Window \in OwnedWindows
  BY <1>0, WindowsAssumption DEF Window, OwnedWindows, Lesser
<1>2. /\ pending \in Seq(OwnedWindows)
      /\ pending' = Append(pending, Window)
      /\ pending' \in Seq(OwnedWindows)
  BY <1>0, <1>1 DEF BatchTypeOK, CutWindow
<1>3. BatchTypeOK'
  <2>1. owner' \in 1..Len(positions) + 1 /\ offset' \in Nat
    BY <1>0, StepFacts DEF CutWindow
  <2>2. OwnedWindows' = OwnedWindows
    BY <1>0 DEF OwnedWindows
  <2> QED BY <1>0, <1>2, <2>1, <2>2 DEF BatchTypeOK, Pcs
<1>4. CutCovers'
  <2> SUFFICES ASSUME NEW o \in DOMAIN positions, NEW a \in 0..Length(o), NEW b \in 0..Length(o),
                      a < b, b - a <= Shared + 1, Cut(o, a)'
               PROVE  Whole(o, a, b)'
    BY <1>0 DEF CutCovers, Length
  <2>1. CASE Cut(o, a)
    <3>1. Whole(o, a, b)
      BY <1>0, <2>1 DEF WindowsInv, CutCovers
    <3>2. \A i \in DOMAIN pending : i \in DOMAIN pending' /\ pending'[i] = pending[i]
      BY <1>1, <1>2
    <3> QED BY <3>1, <3>2, <1>0 DEF Whole
  <2>2. CASE ~Cut(o, a)
    <3>1. o = owner /\ offset <= a /\ (offset + MaxLen >= Length(owner) \/ a < offset + Step)
      BY <1>0, <2>2, StepFacts DEF CutWindow, Cut
    <3>2. Window.start <= a /\ b <= Window.end /\ Window.owner = o
      BY <1>0, <3>1, WindowHolds DEF Window
    <3>3. Len(pending') \in DOMAIN pending' /\ pending'[Len(pending')] = Window
      BY <1>1, <1>2
    <3> QED BY <3>2, <3>3 DEF Whole
  <2> QED BY <2>1, <2>2
<1>5. BatchProgress'
  BY <1>0 DEF WindowsInv, BatchProgress
<1>6. (ShortSpansWhole /\ MergeSoFar /\ LastInOrder /\ Placed)'
  BY <1>0 DEF WindowsInv, ShortSpansWhole, MergeSoFar, LastInOrder, Placed
<1> QED BY <1>3, <1>4, <1>5, <1>6 DEF WindowsInv

LEMMA EndCutPreserves == WindowsInv /\ EndCut => WindowsInv'
<1> SUFFICES ASSUME WindowsInv, EndCut PROVE WindowsInv'
  OBVIOUS
<1>0. /\ BatchTypeOK /\ DOMAIN positions = 1..Len(positions)
      /\ Len(positions) \in Nat /\ owner = Len(positions) + 1 /\ positions # <<>>
      /\ \A o \in DOMAIN positions : Length(o) \in Nat
      /\ stage = "cut" /\ stage' = NextAfterCut
      /\ todo = {} /\ closed = {} /\ last = NoSpan
      /\ UNCHANGED <<texts, positions, offset, pending, seen, results, closed, last, out>>
  BY WindowsFacts DEF WindowsInv, BatchTypeOK, EndCut, BatchProgress
<1>1. 1 \in DOMAIN positions
  <2>1. positions \in Seq(DOMAIN texts)
    BY <1>0, WindowsFacts
  <2>2. Len(positions) # 0
    BY <1>0, <2>1
  <2> QED BY <1>0, <2>2
<1>2. CASE pending = <<>>
  <2>1. stage' = "merge" /\ owner' = 1 /\ todo' = results[1]
    BY <1>0, <1>2 DEF EndCut, NextAfterCut
  <2>2. BatchTypeOK'
    <3>1. results[1] \subseteq Proper
      BY <1>0, <1>1 DEF BatchTypeOK
    <3>2. 1 \in 1..Len(positions) + 1
      BY <1>0
    <3> QED BY <1>0, <2>1, <3>1, <3>2 DEF BatchTypeOK, Pcs, OwnedWindows
  <2>3. ShortSpansWhole'
    <3> SUFFICES ASSUME NEW o \in DOMAIN positions, NEW a \in 0..Length(o), NEW b \in 0..Length(o),
                        a < b, b - a <= Shared + 1
                 PROVE  \E w \in seen[o] : w.start <= a /\ b <= w.end
      BY <1>0 DEF ShortSpansWhole, Length
    <3>1. Cut(o, a)
      BY <1>0 DEF Cut
    <3>2. Whole(o, a, b)
      BY <1>0, <3>1 DEF WindowsInv, CutCovers
    <3> QED BY <1>2, <3>2 DEF Whole
  <2>4. BatchProgress' /\ CutCovers'
    BY <1>0, <1>1, <2>1 DEF BatchProgress, CutCovers
  <2>5. Closed' = {}
    BY <1>0 DEF Closed
  <2>6. MergeSoFar' /\ LastInOrder'
    BY <1>0, <2>1, <2>5 DEF MergeSoFar, LastInOrder
  <2>7. Placed'
    BY <1>0, <2>1 DEF WindowsInv, Placed
  <2> QED BY <2>2, <2>3, <2>4, <2>6, <2>7 DEF WindowsInv
<1>3. CASE pending # <<>>
  <2>1. stage' = "flush" /\ owner' = owner /\ todo' = {}
    BY <1>0, <1>3 DEF EndCut, NextAfterCut
  <2>2. BatchTypeOK'
    BY <1>0, <2>1 DEF BatchTypeOK, Pcs, OwnedWindows
  <2>3. CutCovers'
    BY <1>0, <2>1 DEF WindowsInv, CutCovers, Cut, Whole, Length
  <2>4. (BatchProgress /\ ShortSpansWhole /\ MergeSoFar /\ LastInOrder /\ Placed)'
    BY <1>0, <2>1 DEF WindowsInv, BatchProgress, ShortSpansWhole, MergeSoFar, LastInOrder, Placed
  <2> QED BY <2>2, <2>3, <2>4 DEF WindowsInv
<1> QED BY <1>2, <1>3

LEMMA FlushPreserves == WindowsInv /\ Flush => WindowsInv'
<1> SUFFICES ASSUME WindowsInv, Flush PROVE WindowsInv'
  OBVIOUS
<1>0. /\ BatchTypeOK /\ stage = "flush" /\ stage' = "cut" /\ pending' = <<>>
      /\ pending \in Seq(OwnedWindows)
      /\ seen' = [o \in DOMAIN positions |->
            seen[o] \cup {[start |-> pending[i].start, end |-> pending[i].end] : i \in Of(o)}]
      /\ UNCHANGED <<texts, positions, owner, offset, todo, closed, last, out>>
  BY DEF WindowsInv, BatchTypeOK, Flush
<1>1. \A i \in DOMAIN pending : pending[i] \in OwnedWindows
  BY <1>0
<1>2. results' \in [DOMAIN positions -> SUBSET Proper]
  <2>1. PICK found \in [DOMAIN pending -> Findings] :
          results' = [o \in DOMAIN positions |->
             results[o] \cup UNION {{Moved(s, pending[i]) : s \in found[i]} : i \in Of(o)}]
    BY DEF Flush
  <2>2. ASSUME NEW i \in DOMAIN pending, NEW s \in found[i]
        PROVE  Moved(s, pending[i]) \in Proper
    <3>1. found[i] \in Findings
      BY <2>1
    <3>2. s \in Span /\ s.start < s.end
      BY <3>1, WindowsAssumption
    <3>3. pending[i].start \in Nat
      BY <1>1 DEF OwnedWindows
    <3> QED BY <3>2, <3>3 DEF Moved, Proper, Span
  <2>3. ASSUME NEW o \in DOMAIN positions
        PROVE  UNION {{Moved(s, pending[i]) : s \in found[i]} : i \in Of(o)} \subseteq Proper
    BY <2>2 DEF Of
  <2>4. \A o \in DOMAIN positions : results[o] \subseteq Proper
    BY <1>0 DEF BatchTypeOK
  <2> QED BY <2>1, <2>3, <2>4
<1>3. seen' \in [DOMAIN positions -> SUBSET [start : Nat, end : Nat]]
  <2>1. ASSUME NEW o \in DOMAIN positions, NEW i \in Of(o)
        PROVE  [start |-> pending[i].start, end |-> pending[i].end] \in [start : Nat, end : Nat]
    BY <1>1 DEF Of, OwnedWindows
  <2>2. \A o \in DOMAIN positions : seen[o] \subseteq [start : Nat, end : Nat]
    BY <1>0 DEF BatchTypeOK
  <2> QED BY <1>0, <2>1, <2>2
<1>4. BatchTypeOK'
  BY <1>0, <1>2, <1>3 DEF BatchTypeOK, Pcs, OwnedWindows
<1>5. CutCovers'
  <2> SUFFICES ASSUME NEW o \in DOMAIN positions, NEW a \in 0..Length(o), NEW b \in 0..Length(o),
                      a < b, b - a <= Shared + 1, Cut(o, a)
               PROVE  \E w \in seen'[o] : w.start <= a /\ b <= w.end
    BY <1>0 DEF CutCovers, Length, Cut, Whole
  <2>1. Whole(o, a, b)
    BY <1>0 DEF WindowsInv, CutCovers
  <2>2. CASE \E w \in seen[o] : w.start <= a /\ b <= w.end
    BY <1>0, <2>2
  <2>3. ASSUME NEW i \in DOMAIN pending, pending[i].owner = o,
               pending[i].start <= a, b <= pending[i].end
        PROVE  \E w \in seen'[o] : w.start <= a /\ b <= w.end
    <3>1. [start |-> pending[i].start, end |-> pending[i].end] \in seen'[o]
      BY <1>0, <2>3 DEF Of
    <3> QED BY <2>3, <3>1
  <2> QED BY <2>1, <2>2, <2>3 DEF Whole
<1>6. (BatchProgress /\ ShortSpansWhole /\ MergeSoFar /\ LastInOrder)'
  BY <1>0 DEF WindowsInv, BatchProgress, ShortSpansWhole, MergeSoFar, LastInOrder
<1>7. Placed'
  BY <1>0 DEF WindowsInv, Placed
<1> QED BY <1>4, <1>5, <1>6, <1>7 DEF WindowsInv

LEMMA FlushRaisesPreserves == WindowsInv /\ FlushRaises => WindowsInv'
  BY DEF WindowsInv, FlushRaises, BatchTypeOK, Pcs, OwnedWindows, BatchProgress, CutCovers, ShortSpansWhole,
         MergeSoFar, LastInOrder, Placed

-----------------------------------------------------------------------------
(* The merge                                                               *)

\* The entities the merge compares.
LEMMA MergeTypes ==
    ASSUME WindowsInv, stage = "merge"
    PROVE  /\ BatchTypeOK
           /\ owner \in DOMAIN positions
           /\ results[owner] \subseteq Proper
           /\ todo \subseteq results[owner]
           /\ closed \subseteq Proper
           /\ last \in Proper \cup {NoSpan}
           /\ \A s \in Proper : s.start \in Nat /\ s.end \in Nat /\ s.label \in Nat
                                /\ s.start < s.end /\ s # NoSpan
           /\ Closed \subseteq Proper
<1>1. BatchTypeOK /\ owner \in DOMAIN positions /\ todo \subseteq results[owner]
  BY DEF WindowsInv, BatchProgress
<1>2. \A s \in Proper : s.start \in Nat /\ s.end \in Nat /\ s.label \in Nat
                      /\ s.start < s.end /\ s # NoSpan
  BY DEF Proper, Span, NoSpan
<1> QED BY <1>1, <1>2 DEF BatchTypeOK, Closed

LEMMA ExtendSpanPreserves == WindowsInv /\ Extend => WindowsInv'
<1> SUFFICES ASSUME WindowsInv, Extend PROVE WindowsInv'
  OBVIOUS
<1>1. PICK e \in todo :
        /\ SortsFirst(e)
        /\ Overlaps(e)
        /\ last' = [last EXCEPT !.end = Larger(@, e.end)]
        /\ todo' = todo \ {e}
  BY DEF Extend
<1>0. /\ stage = "merge"
      /\ UNCHANGED <<texts, positions, stage, owner, offset, pending, seen, results, closed, out>>
  BY DEF Extend
<1> DEFINE R == results[owner]
<1>2. /\ BatchTypeOK /\ owner \in DOMAIN positions /\ R \subseteq Proper /\ todo \subseteq R
      /\ closed \subseteq Proper
      /\ \A s \in Proper : s.start \in Nat /\ s.end \in Nat /\ s.label \in Nat
                           /\ s.start < s.end /\ s # NoSpan
  BY <1>0, MergeTypes
<1>3. /\ last # NoSpan /\ last \in Proper /\ e \in R /\ e \in Proper
      /\ last.label = e.label /\ last.start <= e.start /\ e.start < last.end
  BY <1>0, <1>1, <1>2, MergeTypes DEF WindowsInv, LastInOrder, Overlaps
<1>4. /\ last' = [start |-> last.start, end |-> Larger(last.end, e.end), label |-> last.label]
      /\ last' \in Proper
      /\ last'.start = last.start /\ last'.label = last.label
      /\ last'.end = Larger(last.end, e.end)
  BY <1>1, <1>2, <1>3 DEF Proper, Span, Larger
<1>5. Closed = closed \cup {last} /\ Closed' = closed \cup {last'}
  BY <1>0, <1>2, <1>3, <1>4 DEF Closed
<1>6. BatchTypeOK'
  BY <1>0, <1>1, <1>2, <1>4 DEF BatchTypeOK, OwnedWindows
<1>7. MergeSoFar'
  <2>1. ASSUME NEW s \in R, s \notin todo', NEW p \in s.start + 1..s.end
        PROVE  Covered(closed \cup {last'}, s.label, p)
    <3>1. p \in Int /\ s \in Proper
      BY <1>2, <2>1
    <3>2. CASE s = e
      BY <1>2, <1>3, <1>4, <3>1, <3>2, <2>1 DEF Covered, Larger
    <3>3. CASE s # e
      <4>1. Covered(closed \cup {last}, s.label, p)
        BY <1>0, <1>1, <1>5, <2>1, <3>3 DEF WindowsInv, MergeSoFar
      <4> QED BY <1>2, <1>3, <1>4, <3>1, <4>1 DEF Covered, Larger
    <3> QED BY <3>2, <3>3
  <2>2. ASSUME NEW m \in closed \cup {last'}, NEW p \in m.start + 1..m.end
        PROVE  Covered(R, m.label, p)
    <3>1. CASE m \in closed
      BY <1>0, <1>5, <2>2, <3>1 DEF WindowsInv, MergeSoFar
    <3>2. CASE m = last' /\ p <= last.end
      <4>1. p \in last.start + 1..last.end
        BY <1>2, <1>3, <1>4, <2>2, <3>2
      <4> QED BY <1>0, <1>4, <1>5, <3>2, <4>1 DEF WindowsInv, MergeSoFar
    <3>3. CASE m = last' /\ ~(p <= last.end)
      BY <1>2, <1>3, <1>4, <2>2, <3>3 DEF Covered, Larger
    <3> QED BY <2>2, <3>1, <3>2, <3>3
  <2>3. ASSUME NEW m \in closed \cup {last'}, NEW p \in m.start + 1..m.end - 1
        PROVE  Inside(R, m.label, p)
    <3>1. CASE m \in closed
      BY <1>0, <1>5, <2>3, <3>1 DEF WindowsInv, MergeSoFar
    <3>2. CASE m = last' /\ p < last.end
      <4>1. p \in last.start + 1..last.end - 1
        BY <1>2, <1>3, <1>4, <2>3, <3>2
      <4> QED BY <1>0, <1>4, <1>5, <3>2, <4>1 DEF WindowsInv, MergeSoFar
    <3>3. CASE m = last' /\ ~(p < last.end)
      BY <1>2, <1>3, <1>4, <2>3, <3>3 DEF Inside, Larger
    <3> QED BY <2>3, <3>1, <3>2, <3>3
  <2> QED BY <1>0, <1>5, <2>1, <2>2, <2>3 DEF MergeSoFar
<1>8. LastInOrder'
  <2>1. last' # NoSpan
    BY <1>2, <1>4
  <2>2. todo' \subseteq todo
    BY <1>1
  <2> QED BY <1>0, <1>3, <1>4, <2>1, <2>2 DEF WindowsInv, LastInOrder
<1>9. BatchProgress'
  BY <1>0, <1>1, <1>2 DEF BatchProgress
<1>10. (CutCovers /\ ShortSpansWhole /\ Placed)'
  <2> USE <1>0 DEF WindowsInv
  <2>1. CutCovers' BY DEF CutCovers
  <2>2. ShortSpansWhole' BY DEF ShortSpansWhole, Length
  <2>3. Placed' BY DEF Placed, IsMerge, Covered, Inside
  <2> QED BY <2>1, <2>2, <2>3
<1> QED BY <1>10, <1>6, <1>7, <1>8, <1>9 DEF WindowsInv

LEMMA AppendSpanPreserves == WindowsInv /\ AppendSpan => WindowsInv'
<1> SUFFICES ASSUME WindowsInv, AppendSpan PROVE WindowsInv'
  OBVIOUS
<1>1. PICK e \in todo :
        /\ SortsFirst(e)
        /\ ~Overlaps(e)
        /\ closed' = Closed
        /\ last' = e
        /\ todo' = todo \ {e}
  BY DEF AppendSpan
<1>0. /\ stage = "merge"
      /\ UNCHANGED <<texts, positions, stage, owner, offset, pending, seen, results, out>>
  BY DEF AppendSpan
<1> DEFINE R == results[owner]
<1>2. /\ BatchTypeOK /\ owner \in DOMAIN positions /\ R \subseteq Proper /\ todo \subseteq R
      /\ closed \subseteq Proper /\ last \in Proper \cup {NoSpan} /\ Closed \subseteq Proper
      /\ \A s \in Proper : s.start \in Nat /\ s.end \in Nat /\ s.label \in Nat
                           /\ s.start < s.end /\ s # NoSpan
  BY <1>0, MergeTypes
<1>3. e \in R /\ e \in Proper /\ e # NoSpan
  BY <1>2
<1>4. Closed' = Closed \cup {e}
  BY <1>1, <1>3 DEF Closed
<1>5. ASSUME NEW m \in Closed
      PROVE  m.label < e.label \/ (m.label = e.label /\ m.end <= e.start)
  <2>1. last # NoSpan /\ last \in Proper /\ m \in Proper
    BY <1>0, <1>2, <1>5 DEF WindowsInv, LastInOrder, Closed
  <2>2. last.label < e.label \/ (last.label = e.label /\ last.end <= e.start)
    BY <1>0, <1>1, <1>2, <1>3, <2>1 DEF WindowsInv, LastInOrder, Overlaps
  <2>3. CASE m = last
    BY <2>2, <2>3
  <2>4. CASE m \in closed
    <3>1. m.label < last.label \/ (m.label = last.label /\ m.end <= last.start)
      BY <1>0, <2>1, <2>4 DEF WindowsInv, LastInOrder
    <3> QED BY <1>2, <1>3, <2>1, <2>2, <3>1
  <2> QED BY <2>1, <1>5, <2>3, <2>4 DEF Closed
<1>6. BatchTypeOK'
  BY <1>0, <1>1, <1>2, <1>3 DEF BatchTypeOK, OwnedWindows
<1>7. MergeSoFar'
  <2>1. ASSUME NEW s \in R, s \notin todo', NEW p \in s.start + 1..s.end
        PROVE  Covered(Closed \cup {e}, s.label, p)
    <3>1. p \in Int /\ s.start < p /\ p <= s.end
      BY <1>2, <2>1
    <3>2. CASE s = e
      BY <3>1, <3>2 DEF Covered
    <3>3. CASE s # e
      <4>1. Covered(Closed, s.label, p)
        BY <1>0, <1>1, <2>1, <3>3 DEF WindowsInv, MergeSoFar
      <4> QED BY <4>1 DEF Covered
    <3> QED BY <3>2, <3>3
  <2>2. ASSUME NEW m \in Closed \cup {e}, NEW p \in m.start + 1..m.end
        PROVE  Covered(R, m.label, p)
    <3>1. CASE m \in Closed
      BY <1>0, <2>2, <3>1 DEF WindowsInv, MergeSoFar
    <3>2. CASE m = e
      BY <1>2, <1>3, <2>2, <3>2 DEF Covered
    <3> QED BY <2>2, <3>1, <3>2
  <2>3. ASSUME NEW m \in Closed \cup {e}, NEW p \in m.start + 1..m.end - 1
        PROVE  Inside(R, m.label, p)
    <3>1. CASE m \in Closed
      BY <1>0, <2>3, <3>1 DEF WindowsInv, MergeSoFar
    <3>2. CASE m = e
      BY <1>2, <1>3, <2>3, <3>2 DEF Inside
    <3> QED BY <2>3, <3>1, <3>2
  <2> QED BY <1>0, <1>4, <2>1, <2>2, <2>3 DEF MergeSoFar
<1>8. LastInOrder'
  <2>1. ASSUME NEW f \in todo'
        PROVE  e.label < f.label \/ (e.label = f.label /\ e.start <= f.start)
    <3>1. SortsBefore(e, f) /\ f \in Proper
      BY <1>1, <1>2, <2>1 DEF SortsFirst
    <3> QED BY <1>2, <1>3, <3>1 DEF SortsBefore
  <2>2. ASSUME NEW m \in Closed, NEW n \in Closed, m # n, m.label = n.label
        PROVE  m.end <= n.start \/ n.end <= m.start
    <3>1. CASE m \in closed /\ n \in closed
      BY <1>0, <2>2, <3>1 DEF WindowsInv, LastInOrder
    <3>2. CASE last # NoSpan /\ (m = last \/ n = last)
      <4>1. \A s \in closed : s.label < last.label \/
               (s.label = last.label /\ s.end <= last.start)
        BY <1>0, <3>2 DEF WindowsInv, LastInOrder
      <4>2. last \in Proper
        BY <1>2, <3>2
      <4> QED BY <1>2, <2>2, <3>2, <4>1, <4>2 DEF Closed
    <3> QED BY <2>2, <3>1, <3>2 DEF Closed
  <2>3. last' # NoSpan /\ last' = e /\ closed' = Closed
    BY <1>1, <1>3
  <2> QED BY <1>5, <2>1, <2>2, <2>3 DEF LastInOrder
<1>9. BatchProgress'
  BY <1>0, <1>1, <1>2 DEF BatchProgress
<1>10. (CutCovers /\ ShortSpansWhole /\ Placed)'
  <2> USE <1>0 DEF WindowsInv
  <2>1. CutCovers' BY DEF CutCovers
  <2>2. ShortSpansWhole' BY DEF ShortSpansWhole, Length
  <2>3. Placed' BY DEF Placed, IsMerge, Covered, Inside
  <2> QED BY <2>1, <2>2, <2>3
<1> QED BY <1>6, <1>7, <1>8, <1>9, <1>10 DEF WindowsInv

\* What the loop has achieved when nothing is left is the merge.
LEMMA LoopMerges ==
    ASSUME WindowsInv, stage = "merge", todo = {}
    PROVE  IsMerge(Closed, results[owner])
<1>1. /\ closed \subseteq Proper /\ last \in Proper \cup {NoSpan} /\ Closed \subseteq Proper
      /\ \A s \in Proper : s.start \in Nat /\ s.end \in Nat /\ s.label \in Nat
                           /\ s.start < s.end /\ s # NoSpan
  BY MergeTypes
<1>2. ASSUME NEW m \in Closed, NEW n \in Closed, m # n, m.label = n.label
      PROVE  m.end <= n.start \/ n.end <= m.start
  <2>1. CASE m \in closed /\ n \in closed
    BY <1>2, <2>1 DEF WindowsInv, LastInOrder
  <2>2. CASE last # NoSpan /\ (m = last \/ n = last)
    <3>1. \A s \in closed : s.label < last.label \/
             (s.label = last.label /\ s.end <= last.start)
      BY <2>2 DEF WindowsInv, LastInOrder
    <3>2. last \in Proper
      BY <1>1, <2>2
    <3> QED BY <1>1, <1>2, <2>2, <3>1, <3>2 DEF Closed
  <2> QED BY <1>2, <2>1, <2>2 DEF Closed
<1> QED BY <1>2 DEF WindowsInv, MergeSoFar, IsMerge

LEMMA EndMergePreserves == WindowsInv /\ EndMerge => WindowsInv'
<1> SUFFICES ASSUME WindowsInv, EndMerge PROVE WindowsInv'
  OBVIOUS
<1>0. /\ stage = "merge" /\ todo = {} /\ owner' = owner + 1 /\ closed' = {} /\ last' = NoSpan
      /\ out' = [out EXCEPT ![positions[owner]] = Closed]
      /\ UNCHANGED <<texts, positions, offset, pending, seen, results>>
  BY DEF EndMerge, Place
<1>1. /\ BatchTypeOK /\ owner \in DOMAIN positions /\ Closed \subseteq Proper
      /\ DOMAIN positions = 1..Len(positions) /\ Len(positions) \in Nat
      /\ \A o \in DOMAIN positions :
             positions[o] \in DOMAIN texts /\ Length(o) \in Nat \ {0}
      /\ \A o, q \in DOMAIN positions : positions[o] = positions[q] => o = q
      /\ out \in [DOMAIN texts -> SUBSET Proper]
      /\ \A o \in DOMAIN positions : results[o] \subseteq Proper
  BY <1>0, MergeTypes, WindowsFacts DEF BatchTypeOK
<1>2. IsMerge(Closed, results[owner])
  BY <1>0, LoopMerges
<1>3. /\ stage' \in {"merge", "done"} /\ owner' \in 1..Len(positions) + 1
      /\ stage' = "merge" => owner' \in DOMAIN positions /\ todo' = results[owner']
      /\ stage' = "done" => owner' = Len(positions) + 1 /\ todo' = {}
  BY <1>0, <1>1 DEF EndMerge
<1>4. BatchTypeOK'
  <2>1. out' \in [DOMAIN texts -> SUBSET Proper] /\ todo' \subseteq Proper
    BY <1>0, <1>1, <1>3
  <2> QED BY <1>0, <1>1, <1>3, <2>1 DEF BatchTypeOK, Pcs, OwnedWindows
<1>5. BatchProgress'
  BY <1>0, <1>3 DEF BatchProgress
<1>6. CutCovers' /\ ShortSpansWhole'
  BY <1>0, <1>3 DEF WindowsInv, CutCovers, ShortSpansWhole, Length
<1>7. Closed' = {}
  BY <1>0 DEF Closed
<1>8. MergeSoFar' /\ LastInOrder'
  BY <1>0, <1>3, <1>7 DEF MergeSoFar, LastInOrder
<1>9. Placed'
  <2>1. ASSUME NEW o \in DOMAIN positions, o < owner'
        PROVE  IsMerge(out'[positions[o]], results[o])
    <3>1. CASE o = owner
      BY <1>0, <1>1, <1>2, <3>1
    <3>2. CASE o # owner
      <4>1. o < owner /\ positions[o] # positions[owner]
        BY <1>0, <1>1, <2>1, <3>2
      <4>2. out'[positions[o]] = out[positions[o]]
        BY <1>0, <1>1, <4>1
      <4> QED BY <1>0, <4>1, <4>2 DEF WindowsInv, Placed
    <3> QED BY <3>1, <3>2
  <2>2. ASSUME NEW i \in DOMAIN texts, texts[i] = 0 PROVE out'[i] = {}
    <3>1. i # positions[owner]
      BY <1>1, <2>2 DEF Length
    <3> QED BY <1>0, <1>1, <2>2, <3>1 DEF WindowsInv, Placed
  <2>3. \A o \in DOMAIN positions : o < owner' => IsMerge(out'[positions[o]], results[o])
    BY <2>1
  <2> QED BY <1>0, <2>2, <2>3 DEF Placed, IsMerge, Covered, Inside
<1> QED BY <1>4, <1>5, <1>6, <1>8, <1>9 DEF WindowsInv

LEMMA StutterPreserves == WindowsInv /\ UNCHANGED batchVars => WindowsInv'
<1> SUFFICES ASSUME WindowsInv, UNCHANGED batchVars PROVE WindowsInv'
  OBVIOUS
<1> USE DEF batchVars, WindowsInv
<1>1. BatchTypeOK' BY DEF BatchTypeOK, OwnedWindows
<1>2. BatchProgress' BY DEF BatchProgress
<1>3. CutCovers' BY DEF CutCovers, Whole, Cut, Length
<1>4. ShortSpansWhole' BY DEF ShortSpansWhole, Length
<1>5. MergeSoFar' BY DEF MergeSoFar, Closed, Covered, Inside
<1>6. LastInOrder' BY DEF LastInOrder
<1>7. Placed' BY DEF Placed, IsMerge, Covered, Inside
<1> QED BY <1>1, <1>2, <1>3, <1>4, <1>5, <1>6, <1>7

-----------------------------------------------------------------------------
\* The inductive invariant holds in every reachable state.
THEOREM WindowsInvariance == BatchSpec => []WindowsInv
<1>1. WindowsInv /\ BatchNext => WindowsInv'
  <2>1. WindowsInv /\ BatchFinished => WindowsInv'
    BY StutterPreserves DEF BatchFinished
  <2> QED BY <2>1, CutPreserves, EndCutPreserves, FlushPreserves, FlushRaisesPreserves,
             ExtendSpanPreserves, AppendSpanPreserves, EndMergePreserves DEF BatchNext
<1>2. WindowsInv /\ UNCHANGED batchVars => WindowsInv'
  BY StutterPreserves
<1> QED BY <1>1, <1>2, InitEstablishes, PTL DEF BatchSpec

\* Every variable of the two detectors keeps its type.
THEOREM BatchTypeCorrect == BatchSpec => []BatchTypeOK
<1>1. WindowsInv => BatchTypeOK BY DEF WindowsInv
<1> QED BY <1>1, WindowsInvariance, PTL

\* The step of the windows and the flush of the last batch lose no short piece of
\* any text, for every window length, overlap and flush size.
THEOREM NothingShortIsSplit == BatchSpec => []ShortSpansWhole
<1>1. WindowsInv => ShortSpansWhole BY DEF WindowsInv
<1> QED BY <1>1, WindowsInvariance, PTL

\* The merge loop and the positions of BatchedDetector give every text the merge
\* of its own findings, and empty texts nothing.
THEOREM MergedInPlace == BatchSpec => []MergeIsExact
<1>1. WindowsInv => MergeIsExact
  <2>1. ASSUME WindowsInv, stage = "done", NEW o \in DOMAIN positions
        PROVE  IsMerge(out[positions[o]], results[o])
    <3>1. DOMAIN positions = 1..Len(positions) /\ Len(positions) \in Nat
      BY <2>1, WindowsFacts DEF WindowsInv
    <3>2. o < owner
      BY <2>1, <3>1 DEF WindowsInv, BatchProgress
    <3> QED BY <2>1, <3>2 DEF WindowsInv, Placed
  <2> QED BY <2>1 DEF WindowsInv, Placed, MergeIsExact
<1> QED BY <1>1, WindowsInvariance, PTL

-----------------------------------------------------------------------------
(* BIO decoding                                                            *)

Col == columns[c]

\* The spans of the columns before the one in turn.
Earlier == UNION {SpansUpTo(offsets, columns[i], Len(offsets)) : i \in 1..c - 1}

\* The open span began at token i and has come to token k - 1.
OpenFrom(i) ==
    /\ i \in 1..k - 1
    /\ Begins(Col, i)
    /\ \A m \in i + 1..k - 1 : Continues(Col, m)
    /\ Col[k - 1].label = Col[i].label
    /\ cur = Between(offsets, i, k - 1, Col[i].label)

Column ==
    result = {None} =>
        /\ cur = None =>
              /\ spans = Earlier \cup SpansUpTo(offsets, Col, k - 1)
              /\ k <= Len(offsets) => ~Continues(Col, k)
        /\ cur # None =>
              /\ spans = Earlier \cup SpansUpTo(offsets, Col, k - 2)
              /\ \E i \in 1..k - 1 : OpenFrom(i)

DecodingInv == TypeOK /\ Column /\ DecodesExactly

-----------------------------------------------------------------------------
(* The reference, from one token to the next                               *)

LEMMA SpansMember ==
    ASSUME NEW T, NEW col, NEW n, NEW s
    PROVE  s \in SpansUpTo(T, col, n) <=>
              \E i \in 1..n : \E j \in i..n : IsRun(col, i, j) /\ s = Between(T, i, j, col[i].label)
  BY DEF SpansUpTo

\* A token that the next one goes on from, or an "O", ends no run.
LEMMA NoRunEnds ==
    ASSUME NEW T, NEW n \in Nat \ {0}, NEW col \in Seq(Tags), n <= Len(col),
           col[n] = O \/ (n < Len(col) /\ Continues(col, n + 1))
    PROVE  SpansUpTo(T, col, n) = SpansUpTo(T, col, n - 1)
<1>1. ASSUME NEW i \in 1..n, NEW j \in i..n, IsRun(col, i, j) PROVE j <= n - 1
  <2> SUFFICES ASSUME j = n PROVE FALSE
    OBVIOUS
  <2>1. CASE n < Len(col) /\ Continues(col, n + 1)
    BY <1>1, <2>1 DEF IsRun
  <2>2. CASE col[n] = O
    <3>1. CASE i = n
      BY <1>1, <2>2, <3>1 DEF IsRun, Begins, O
    <3>2. CASE i < n
      <4>1. Continues(col, n)
        BY <1>1, <3>2 DEF IsRun
      <4> QED BY <2>2, <4>1 DEF Continues, O
    <3> QED BY <3>1, <3>2
  <2> QED BY <2>1, <2>2
<1>2. ASSUME NEW s \in SpansUpTo(T, col, n) PROVE s \in SpansUpTo(T, col, n - 1)
  <2>0. PICK i \in 1..n : \E j \in i..n : IsRun(col, i, j) /\ s = Between(T, i, j, col[i].label)
    BY <1>2, SpansMember
  <2>1. PICK j \in i..n : IsRun(col, i, j) /\ s = Between(T, i, j, col[i].label)
    BY <2>0
  <2>2. i \in 1..n - 1 /\ j \in i..n - 1
    BY <1>1, <2>1
  <2> QED BY <2>1, <2>2, SpansMember
<1>3. ASSUME NEW s \in SpansUpTo(T, col, n - 1) PROVE s \in SpansUpTo(T, col, n)
  <2>0. PICK i \in 1..n - 1 : \E j \in i..n - 1 : IsRun(col, i, j) /\ s = Between(T, i, j, col[i].label)
    BY <1>3, SpansMember
  <2>1. PICK j \in i..n - 1 : IsRun(col, i, j) /\ s = Between(T, i, j, col[i].label)
    BY <2>0
  <2>2. i \in 1..n /\ j \in i..n
    OBVIOUS
  <2> QED BY <2>1, <2>2, SpansMember
<1> QED BY <1>2, <1>3

\* A run that token n ends is the only one to end there.
LEMMA OneRunEnds ==
    ASSUME NEW T, NEW n \in Nat \ {0}, NEW col \in Seq(Tags), n <= Len(col), NEW i \in 1..n,
           IsRun(col, i, n)
    PROVE  SpansUpTo(T, col, n) = SpansUpTo(T, col, n - 1) \cup {Between(T, i, n, col[i].label)}
<1>1. Begins(col, i) /\ \A m \in i + 1..n : Continues(col, m)
  BY DEF IsRun
<1>2. ASSUME NEW a \in 1..n, IsRun(col, a, n) PROVE a = i
  <2>1. CASE a < i
    <3>1. Continues(col, i)
      BY <1>2, <2>1 DEF IsRun
    <3> QED BY <1>1, <3>1 DEF Begins
  <2>2. CASE i < a
    <3>1. Continues(col, a)
      BY <1>1, <2>2
    <3> QED BY <1>2, <3>1 DEF IsRun, Begins
  <2> QED BY <2>1, <2>2
<1>3. ASSUME NEW s \in SpansUpTo(T, col, n)
      PROVE  s \in SpansUpTo(T, col, n - 1) \cup {Between(T, i, n, col[i].label)}
  <2>0. PICK a \in 1..n : \E j \in a..n : IsRun(col, a, j) /\ s = Between(T, a, j, col[a].label)
    BY <1>3, SpansMember
  <2>1. PICK j \in a..n : IsRun(col, a, j) /\ s = Between(T, a, j, col[a].label)
    BY <2>0
  <2>2. CASE j = n
    BY <1>2, <2>1, <2>2
  <2>3. CASE j < n
    <3>1. a \in 1..n - 1 /\ j \in a..n - 1
      BY <2>3
    <3> QED BY <2>1, <3>1, SpansMember
  <2> QED BY <2>2, <2>3
<1>4. ASSUME NEW s \in SpansUpTo(T, col, n - 1) PROVE s \in SpansUpTo(T, col, n)
  <2>0. PICK a \in 1..n - 1 : \E j \in a..n - 1 : IsRun(col, a, j) /\ s = Between(T, a, j, col[a].label)
    BY <1>4, SpansMember
  <2>1. PICK j \in a..n - 1 : IsRun(col, a, j) /\ s = Between(T, a, j, col[a].label)
    BY <2>0
  <2>2. a \in 1..n /\ j \in a..n
    OBVIOUS
  <2> QED BY <2>1, <2>2, SpansMember
<1>5. Between(T, i, n, col[i].label) \in SpansUpTo(T, col, n)
  <2>1. n \in i..n
    OBVIOUS
  <2> QED BY <2>1, SpansMember
<1> QED BY <1>3, <1>4, <1>5

LEMMA NoSpansYet == ASSUME NEW T, NEW col PROVE SpansUpTo(T, col, 0) = {}
  BY DEF SpansUpTo

-----------------------------------------------------------------------------
(* Types                                                                   *)

LEMMA Elements == ASSUME NEW S, NEW s \in Seq(S), NEW i \in 1..Len(s) PROVE s[i] \in S
  OBVIOUS

LEMMA DecodingFacts ==
    ASSUME TypeOK
    PROVE  /\ Col \in Seq(Tags)
           /\ Len(Col) = Len(offsets) /\ Len(offsets) \in Nat
           /\ DOMAIN columns = 1..Len(columns) /\ Len(columns) \in Nat
           /\ \A i \in DOMAIN columns : columns[i] \in Seq(Tags)
           /\ \A m \in 1..Len(offsets) :
                 /\ offsets[m] \in [start : Nat, end : Nat]
                 /\ Col[m] \in Tags
           /\ None \notin Spans
           /\ c \in DOMAIN columns
<1>1. offsets \in Seq([start : Nat, end : Nat]) /\ Len(offsets) \in Nat
  BY DEF TypeOK
<1> DEFINE width == IF decoder = "recall" THEN Len(Types) ELSE 1
<1>2. width \in Nat
  BY DecodingAssumption
<1>3. columns \in [1..width -> [1..Len(offsets) -> Tags]]
  BY DEF TypeOK, Columns
<1>4. DOMAIN columns = 1..width /\ Len(columns) = width
  BY <1>2, <1>3
<1>5. ASSUME NEW i \in DOMAIN columns PROVE columns[i] \in [1..Len(offsets) -> Tags]
  BY <1>3, <1>4
<1>6. ASSUME NEW i \in DOMAIN columns
      PROVE  columns[i] \in Seq(Tags) /\ Len(columns[i]) = Len(offsets)
  BY <1>1, <1>5
<1>7. c \in DOMAIN columns
  BY <1>4 DEF TypeOK
<1>8. None \notin Spans
  BY DecodingAssumption DEF None, Spans
<1>9. ASSUME NEW m \in 1..Len(offsets)
      PROVE  offsets[m] \in [start : Nat, end : Nat] /\ Col[m] \in Tags
  <2>1. offsets[m] \in [start : Nat, end : Nat]
    BY <1>1, Elements
  <2>2. columns[c] \in [1..Len(offsets) -> Tags]
    BY <1>5, <1>7
  <2>3. columns[c][m] \in Tags
    BY <2>2
  <2> QED BY <2>1, <2>3 DEF Col
<1> QED BY <1>1, <1>2, <1>4, <1>6, <1>7, <1>8, <1>9 DEF Col

\* The tag in turn is that of the column at token k.
LEMMA TokenFacts ==
    ASSUME DecodingInv, k <= Len(offsets)
    PROVE  Col[k] = Tag /\ Tag \in Tags /\ k \in 1..Len(offsets)
<1>1. TypeOK /\ k \in 1..Len(offsets) + 1
  BY DEF DecodingInv, TypeOK
<1>2. k \in 1..Len(offsets)
  BY <1>1, DecodingFacts
<1>3. Col[k] \in Tags
  BY <1>1, <1>2, DecodingFacts
<1>4. Col[k] = Tag
  BY DEF Col, Tag
<1> QED BY <1>2, <1>3, <1>4

\* A tag that is no "O" is a "B" or an "I" of some label.
LEMMA TagFacts ==
    ASSUME NEW t \in Tags, t # O
    PROVE  t.prefix \in {"B", "I"} /\ t.label \in Labels /\ t.label # NoLabel
           /\ t = [prefix |-> t.prefix, label |-> t.label]
  BY DecodingAssumption DEF Tags

-----------------------------------------------------------------------------
(* The four things a step does                                             *)

\* If token k does not go on with the open span, closing it completes the runs
\* that ended before k.
LEMMA Closing ==
    ASSUME DecodingInv, result = {None}, k <= Len(offsets) => ~Continues(Col, k)
    PROVE  Kept = Earlier \cup SpansUpTo(offsets, Col, k - 1) /\ Kept \subseteq Spans
<1>0. /\ Col \in Seq(Tags) /\ Len(Col) = Len(offsets) /\ Len(offsets) \in Nat
      /\ k \in 1..Len(offsets) + 1 /\ cur \in Spans \cup {None} /\ spans \subseteq Spans
  BY DecodingFacts DEF DecodingInv, TypeOK
<1>1. CASE cur = None
  BY <1>0, <1>1 DEF DecodingInv, Column, Kept
<1>2. CASE cur # None
  <2>1. /\ spans = Earlier \cup SpansUpTo(offsets, Col, k - 2)
        /\ \E i \in 1..k - 1 : OpenFrom(i)
    BY <1>2 DEF DecodingInv, Column
  <2>2. PICK i \in 1..k - 1 : OpenFrom(i)
    BY <2>1
  <2>3. k - 1 \in Nat \ {0} /\ k - 1 <= Len(Col) /\ k - 2 = (k - 1) - 1 /\ (k - 1) + 1 = k
    BY <1>0, <2>2
  <2>4. SpansUpTo(offsets, Col, k - 1) = SpansUpTo(offsets, Col, k - 2) \cup {cur}
    <3> DEFINE n == k - 1
    <3>1. n \in Nat \ {0} /\ n <= Len(Col) /\ n + 1 = k /\ n - 1 = k - 2 /\ i \in 1..n
      BY <2>3
    <3>2. Begins(Col, i) /\ \A m \in i + 1..n : Continues(Col, m)
      BY <2>2 DEF OpenFrom
    <3>3. n < Len(Col) => ~Continues(Col, n + 1)
      BY <1>0, <3>1
    <3>4. SpansUpTo(offsets, Col, n) = SpansUpTo(offsets, Col, n - 1) \cup {Between(offsets, i, n, Col[i].label)}
      <4>1. IsRun(Col, i, n)
        BY <3>2, <3>3 DEF IsRun
      <4> HIDE DEF n
      <4> QED BY <1>0, <3>1, <4>1, OneRunEnds
    <3> QED BY <2>2, <3>1, <3>4 DEF OpenFrom
  <2> QED BY <1>0, <1>2, <2>1, <2>4 DEF Kept
<1> QED BY <1>1, <1>2

\* What no step of a loop changes.
Same == UNCHANGED <<decoder, offsets, columns, c, result>>

LEMMA TypesPreserved ==
    ASSUME DecodingInv, result = {None}, k' \in 1..Len(offsets) + 1, cur' \in Spans \cup {None},
           spans' \subseteq Spans, Same
    PROVE  TypeOK'
  BY DEF DecodingInv, TypeOK, Same

\* "O": the open span is closed and no run ends here.
LEMMA OutsidePreserves ==
    ASSUME DecodingInv, result = {None}, k <= Len(offsets), Tag = O,
           spans' = Kept, cur' = None, k' = k + 1, Same
    PROVE  DecodingInv'
<1>0. /\ Col \in Seq(Tags) /\ Len(Col) = Len(offsets) /\ Len(offsets) \in Nat
      /\ k \in 1..Len(offsets) /\ Col[k] = O /\ Col' = Col /\ Earlier' = Earlier
  <2>1. TypeOK /\ k \in 1..Len(offsets) + 1
    BY DEF DecodingInv, TypeOK
  <2>2. Col \in Seq(Tags) /\ Len(Col) = Len(offsets) /\ Len(offsets) \in Nat
    BY <2>1, DecodingFacts
  <2>3. k \in 1..Len(offsets)
    BY <2>1, <2>2
  <2>4. Col[k] = O /\ Col' = Col /\ Earlier' = Earlier
    BY DEF Tag, Same, Col, Earlier
  <2> QED BY <2>2, <2>3, <2>4
<1>1. ~Continues(Col, k)
  BY <1>0 DEF Continues, O
<1>2. spans' = Earlier \cup SpansUpTo(offsets, Col, k - 1) /\ spans' \subseteq Spans
  BY <1>1, Closing
<1>3. SpansUpTo(offsets, Col, k) = SpansUpTo(offsets, Col, k - 1)
  BY <1>0, NoRunEnds
<1>4. k + 1 <= Len(offsets) => ~Continues(Col, k + 1)
  <2> SUFFICES ASSUME k + 1 <= Len(offsets), Continues(Col, k + 1) PROVE FALSE
    OBVIOUS
  <2>1. Col[k + 1] \in Tags /\ Col[k + 1].prefix = "I" /\ Col[k + 1].label = NoLabel
    BY <1>0, DecodingFacts DEF DecodingInv, Continues, O
  <2>2. Col[k + 1] # O
    BY <2>1 DEF O
  <2> QED BY <2>1, <2>2, TagFacts
<1>5. TypeOK'
  BY <1>0, <1>2, TypesPreserved
<1>7. Column'
  BY <1>0, <1>2, <1>3, <1>4 DEF Column, Same
<1>8. DecodesExactly'
  BY DEF DecodesExactly, Same
<1> QED BY <1>5, <1>7, <1>8 DEF DecodingInv

\* A token that goes on with nothing opens a span of its own.
LEMMA OpenPreserves ==
    ASSUME DecodingInv, result = {None}, k <= Len(offsets), Tag # O, ~Continues(Col, k),
           spans' = Kept, cur' = Opened, k' = k + 1, Same
    PROVE  DecodingInv'
<1>0. /\ Col \in Seq(Tags) /\ Len(Col) = Len(offsets) /\ Len(offsets) \in Nat
      /\ k \in 1..Len(offsets) /\ Col[k] = Tag /\ Tag \in Tags /\ Tag # O
      /\ offsets[k] \in [start : Nat, end : Nat]
      /\ Col' = Col /\ Earlier' = Earlier /\ offsets' = offsets /\ None \notin Spans
  <2>1. TypeOK /\ k \in 1..Len(offsets) + 1
    BY DEF DecodingInv, TypeOK
  <2>2. /\ Col \in Seq(Tags) /\ Len(Col) = Len(offsets) /\ Len(offsets) \in Nat
        /\ None \notin Spans
    BY <2>1, DecodingFacts
  <2>3. k \in 1..Len(offsets)
    BY <2>1, <2>2
  <2>4. offsets[k] \in [start : Nat, end : Nat] /\ Col[k] \in Tags
    BY <2>1, <2>3, DecodingFacts
  <2>5. Col[k] = Tag
    BY DEF Col, Tag
  <2>6. Col' = Col /\ Earlier' = Earlier /\ offsets' = offsets
    BY DEF Same, Col, Earlier
  <2> QED BY <2>2, <2>3, <2>4, <2>5, <2>6
<1>2. spans' = Earlier \cup SpansUpTo(offsets, Col, k - 1) /\ spans' \subseteq Spans
  BY Closing
<1>3. cur' = Between(offsets, k, k, Col[k].label) /\ cur' \in Spans
  <2>1. Tag.label \in Labels
    BY <1>0, TagFacts
  <2> QED BY <1>0, <2>1 DEF Opened, Between, Spans
<1>4. Begins(Col, k)
  <2>1. Tag.prefix # "O"
    BY <1>0, TagFacts
  <2> QED BY <1>0, <2>1 DEF Begins
<1>5. TypeOK'
  BY <1>0, <1>2, <1>3, TypesPreserved
<1>. PICK i \in 1..Len(offsets) : i = k
  BY <1>0
<1>6. OpenFrom(i)'
  BY <1>0, <1>3, <1>4 DEF OpenFrom
<1>7. Column'
  <2>1. \E a \in 1..k' - 1 : OpenFrom(a)'
    BY <1>0, <1>6
  <2> QED BY <1>0, <1>2, <1>3, <2>1 DEF Column
<1>8. DecodesExactly'
  BY DEF DecodesExactly, Same
<1> QED BY <1>5, <1>7, <1>8 DEF DecodingInv

\* A token that goes on extends the open span, and no run ends before it.
LEMMA ExtendPreserves ==
    ASSUME DecodingInv, result = {None}, k <= Len(offsets), Continues(Col, k), cur # None,
           spans' = spans, cur' = Extended, k' = k + 1, Same
    PROVE  DecodingInv'
<1>0. /\ Col \in Seq(Tags) /\ Len(Col) = Len(offsets) /\ Len(offsets) \in Nat
      /\ k \in 1..Len(offsets) /\ cur \in Spans /\ spans \subseteq Spans
      /\ offsets[k] \in [start : Nat, end : Nat]
      /\ Col' = Col /\ Earlier' = Earlier /\ offsets' = offsets /\ None \notin Spans
  <2>1. /\ TypeOK /\ k \in 1..Len(offsets) + 1 /\ cur \in Spans \cup {None}
        /\ spans \subseteq Spans
    BY DEF DecodingInv, TypeOK
  <2>2. /\ Col \in Seq(Tags) /\ Len(Col) = Len(offsets) /\ Len(offsets) \in Nat
        /\ None \notin Spans
    BY <2>1, DecodingFacts
  <2>3. k \in 1..Len(offsets)
    BY <2>1, <2>2
  <2>4. offsets[k] \in [start : Nat, end : Nat]
    BY <2>1, <2>3, DecodingFacts
  <2>5. Col' = Col /\ Earlier' = Earlier /\ offsets' = offsets
    BY DEF Same, Col, Earlier
  <2> QED BY <2>1, <2>2, <2>3, <2>4, <2>5
<1>1. /\ spans = Earlier \cup SpansUpTo(offsets, Col, k - 2)
      /\ \E i \in 1..k - 1 : OpenFrom(i)
  BY DEF DecodingInv, Column
<1>2. PICK i \in 1..k - 1 : OpenFrom(i)
  BY <1>1
<1>3. cur' = Between(offsets, i, k, Col[i].label) /\ cur' \in Spans
  BY <1>0, <1>2 DEF OpenFrom, Extended, Between, Spans
<1>4. SpansUpTo(offsets, Col, k - 1) = SpansUpTo(offsets, Col, k - 2)
  <2> DEFINE n == k - 1
  <2>1. n \in Nat \ {0} /\ n < Len(Col) /\ n + 1 = k /\ n - 1 = k - 2
    BY <1>0, <1>2
  <2>2. Continues(Col, n + 1)
    BY <2>1
  <2>3. SpansUpTo(offsets, Col, n) = SpansUpTo(offsets, Col, n - 1)
    <3> HIDE DEF n
    <3> QED BY <1>0, <2>1, <2>2, NoRunEnds
  <2> QED BY <2>1, <2>3
<1>5. TypeOK'
  BY <1>0, <1>3, TypesPreserved
<1>6. OpenFrom(i)'
  <2>1. Col[k].label = Col[i].label
    BY <1>2 DEF OpenFrom, Continues
  <2>2. \A m \in i + 1..k : Continues(Col, m)
    BY <1>0, <1>2 DEF OpenFrom
  <2>3. i \in 1..k /\ Begins(Col, i)
    BY <1>0, <1>2 DEF OpenFrom
  <2> QED BY <1>0, <1>3, <2>1, <2>2, <2>3 DEF OpenFrom
<1>7. Column'
  <2>1. \E a \in 1..k' - 1 : OpenFrom(a)'
    BY <1>0, <1>2, <1>6
  <2> QED BY <1>0, <1>1, <1>3, <1>4, <2>1 DEF Column
<1>8. DecodesExactly'
  BY DEF DecodesExactly, Same
<1> QED BY <1>5, <1>7, <1>8 DEF DecodingInv

\* The student closes the open span and stays at the token.
LEMMA ClosePreserves ==
    ASSUME DecodingInv, result = {None}, k <= Len(offsets), ~Continues(Col, k),
           spans' = Kept, cur' = None, k' = k, Same
    PROVE  DecodingInv'
<1>0. Col' = Col /\ Earlier' = Earlier /\ offsets' = offsets /\ k \in 1..Len(offsets) + 1
  BY DecodingFacts DEF DecodingInv, TypeOK, Col, Same, Earlier
<1>2. spans' = Earlier \cup SpansUpTo(offsets, Col, k - 1) /\ spans' \subseteq Spans
  BY Closing
<1>5. TypeOK'
  BY <1>0, <1>2, TypesPreserved
<1>7. Column'
  BY <1>0, <1>2 DEF Column
<1>8. DecodesExactly'
  BY DEF DecodesExactly, Same
<1> QED BY <1>5, <1>7, <1>8 DEF DecodingInv

-----------------------------------------------------------------------------
(* The invariant                                                           *)

LEMMA InitHolds == Init => DecodingInv
<1> SUFFICES ASSUME Init PROVE DecodingInv
  OBVIOUS
<1>1. offsets \in Seq([start : Nat, end : Nat]) /\ Len(offsets) \in Nat
  <2>1. PICK t \in Tokenizations :
            offsets = IF decoder = "student" THEN Characters(Len(t)) ELSE t
    BY DEF Init
  <2>2. t \in Seq([start : Nat, end : Nat]) /\ Len(t) \in Nat
    BY DecodingAssumption
  <2>3. Characters(Len(t)) \in [1..Len(t) -> [start : Nat, end : Nat]]
    BY <2>2 DEF Characters
  <2>4. Characters(Len(t)) \in Seq([start : Nat, end : Nat])
    BY <2>2, <2>3, SMTT(30)
  <2>5. offsets \in Seq([start : Nat, end : Nat])
    BY <2>1, <2>2, <2>4
  <2> QED BY <2>5
<1>2. TypeOK
  <2> DEFINE width == IF decoder = "recall" THEN Len(Types) ELSE 1
  <2>1. width \in Nat /\ width >= 1
    BY DecodingAssumption
  <2>2. columns \in [1..width -> [1..Len(offsets) -> Tags]]
    BY DEF Init, Columns
  <2>3. Len(columns) = width
    BY <2>1, <2>2
  <2>4. c \in 1..Len(columns) /\ k \in 1..Len(offsets) + 1
    <3> HIDE DEF width
    <3> QED BY <1>1, <2>1, <2>3 DEF Init
  <2>5. /\ decoder \in {"rubert", "recall", "student"}
        /\ columns \in Columns(decoder, Len(offsets))
        /\ cur = None /\ spans = {} /\ result = {None}
    BY DEF Init
  <2>6. cur \in Spans \cup {None} /\ spans \subseteq Spans /\ result \in (SUBSET Spans) \cup {{None}}
    BY <2>5
  <2> HIDE DEF width
  <2> QED BY <1>1, <2>4, <2>5, <2>6 DEF TypeOK
<1>3. Column
  <2>1. Earlier = {} /\ SpansUpTo(offsets, Col, k - 1) = {}
    BY NoSpansYet DEF Init, Earlier
  <2>2. ~Continues(Col, k)
    BY DEF Init, Continues
  <2> QED BY <2>1, <2>2 DEF Init, Column
<1>4. DecodesExactly
  BY DEF Init, DecodesExactly
<1> QED BY <1>2, <1>3, <1>4 DEF DecodingInv

\* What the open span says of the tag before token k.
LEMMA OpenLabel ==
    ASSUME DecodingInv, result = {None}, cur # None
    PROVE  k > 1 /\ Col[k - 1].label = cur.label /\ cur.label \in Labels
<1>1. PICK i \in 1..k - 1 : OpenFrom(i)
  BY DEF DecodingInv, Column
<1> QED BY <1>1 DEF OpenFrom, Between, DecodingInv, TypeOK, Spans

LEMMA RubertOutsidePreserves == ASSUME DecodingInv, RubertOutside PROVE DecodingInv'
  BY OutsidePreserves DEF RubertOutside, Decoding, Same

LEMMA RubertInsidePreserves == ASSUME DecodingInv, RubertInside PROVE DecodingInv'
<1>0. /\ result = {None} /\ k <= Len(offsets) /\ Tag # O /\ k' = k + 1 /\ Same
      /\ Col[k] = Tag /\ Tag \in Tags /\ k \in 1..Len(offsets)
  <2>1. result = {None} /\ k <= Len(offsets) /\ Tag # O /\ k' = k + 1 /\ Same
    BY DEF RubertInside, Decoding, Same
  <2>2. Col[k] = Tag /\ Tag \in Tags /\ k \in 1..Len(offsets)
    BY <2>1, TokenFacts
  <2> QED BY <2>1, <2>2
<1>1. CASE Fresh
  <2>1. ~Continues(Col, k)
    <3>1. CASE cur = None
      BY <1>0, <3>1 DEF DecodingInv, Column
    <3>2. CASE cur # None
      BY <1>0, <1>1, <3>2, OpenLabel DEF Fresh, Continues
    <3> QED BY <3>1, <3>2
  <2>2. spans' = Kept /\ cur' = Opened
    BY <1>1 DEF RubertInside
  <2> QED BY <1>0, <2>1, <2>2, OpenPreserves
<1>2. CASE ~Fresh
  <2>1. cur # None /\ Continues(Col, k)
    <3>1. cur # None /\ Tag.prefix # "B" /\ cur.label = Tag.label
      BY <1>2 DEF Fresh
    <3>2. Tag.prefix = "I"
      BY <1>0, <3>1, TagFacts
    <3> QED BY <1>0, <3>1, <3>2, OpenLabel DEF Continues
  <2>2. spans' = spans /\ cur' = Extended
    BY <1>2 DEF RubertInside
  <2> QED BY <1>0, <2>1, <2>2, ExtendPreserves
<1> QED BY <1>1, <1>2

\* A column of the recall model has tags of one label.
LEMMA OneLabel ==
    ASSUME DecodingInv, decoder = "recall", NEW m \in 1..Len(offsets), Col[m] # O
    PROVE  Col[m].label = Types[c]
<1>1. columns \in Columns(decoder, Len(offsets)) /\ c \in DOMAIN columns
  BY DecodingFacts DEF DecodingInv, TypeOK
<1> QED BY <1>1 DEF Columns, Col

LEMMA RecallPreserves == ASSUME DecodingInv, RecallToken PROVE DecodingInv'
<1>0. /\ result = {None} /\ k <= Len(offsets) /\ k' = k + 1 /\ Same /\ decoder = "recall"
      /\ Col[k] = Tag /\ Tag \in Tags /\ k \in 1..Len(offsets)
  <2>1. result = {None} /\ k <= Len(offsets) /\ k' = k + 1 /\ Same /\ decoder = "recall"
    BY DEF RecallToken, Decoding, Same
  <2>2. Col[k] = Tag /\ Tag \in Tags /\ k \in 1..Len(offsets)
    BY <2>1, TokenFacts
  <2> QED BY <2>1, <2>2
<1>1. CASE Tag = O
  <2>1. spans' = Kept /\ cur' = None
    BY <1>1 DEF RecallToken, O
  <2> QED BY <1>0, <1>1, <2>1, OutsidePreserves
<1>2. CASE Tag # O /\ (Tag.prefix = "B" \/ cur = None)
  <2>1. spans' = Kept /\ cur' = Opened
    BY <1>0, <1>2, TagFacts DEF RecallToken, Kept
  <2>2. ~Continues(Col, k)
    BY <1>0, <1>2 DEF Continues, DecodingInv, Column
  <2> QED BY <1>0, <1>2, <2>1, <2>2, OpenPreserves
<1>3. CASE Tag # O /\ Tag.prefix # "B" /\ cur # None
  <2>1. Tag.prefix = "I"
    BY <1>0, <1>3, TagFacts
  <2>2. spans' = spans /\ cur' = Extended
    BY <1>3, <2>1 DEF RecallToken
  <2>3. k > 1 /\ Col[k - 1].label \in Labels /\ k - 1 \in 1..Len(offsets)
    BY <1>0, <1>3, OpenLabel
  <2>4. Col[k - 1] # O
    BY <2>3, DecodingAssumption DEF O
  <2>5. Col[k - 1].label = Col[k].label
    BY <1>0, <1>3, <2>3, <2>4, OneLabel
  <2>6. Continues(Col, k)
    BY <1>0, <2>1, <2>3, <2>5 DEF Continues
  <2> QED BY <1>0, <1>3, <2>2, <2>6, ExtendPreserves
<1> QED BY <1>1, <1>2, <1>3

LEMMA StudentSkipPreserves == ASSUME DecodingInv, StudentSkip PROVE DecodingInv'
  BY OutsidePreserves DEF StudentSkip, Decoding, Same, Kept

LEMMA StudentOpenPreserves == ASSUME DecodingInv, StudentOpen PROVE DecodingInv'
<1>1. ~Continues(Col, k)
  BY DEF StudentOpen, Decoding, DecodingInv, Column
<1> QED BY <1>1, OpenPreserves DEF StudentOpen, Decoding, Same, Kept

\* While a span is open, to go on with it is to continue the token before.
LEMMA GoesOnIsContinues ==
    ASSUME DecodingInv, result = {None}, k <= Len(offsets), cur # None
    PROVE  GoesOn <=> Continues(Col, k)
<1>1. /\ k > 1 /\ Col[k - 1].label = cur.label /\ cur.label \in Labels
      /\ Col[k] = Tag /\ Tag \in Tags
  BY OpenLabel, TokenFacts
<1>2. ASSUME Tag.prefix = "I" PROVE Tag = [prefix |-> "I", label |-> Tag.label]
  <2>1. Tag # O
    BY <1>2 DEF O
  <2> QED BY <1>1, <1>2, <2>1, TagFacts
<1>3. GoesOn <=> Tag.prefix = "I" /\ Tag.label = cur.label
  BY <1>2 DEF GoesOn
<1> QED BY <1>1, <1>3 DEF Continues

LEMMA StudentExtendPreserves == ASSUME DecodingInv, StudentExtend PROVE DecodingInv'
  BY GoesOnIsContinues, ExtendPreserves DEF StudentExtend, Decoding, Same

LEMMA StudentClosePreserves == ASSUME DecodingInv, StudentClose PROVE DecodingInv'
  BY GoesOnIsContinues, ClosePreserves DEF StudentClose, Decoding, Same

LEMMA EndColumnPreserves == ASSUME DecodingInv, EndColumn PROVE DecodingInv'
<1> DEFINE n == Len(offsets)
<1>0. /\ n \in Nat /\ k = n + 1 /\ DOMAIN columns = 1..Len(columns) /\ Len(columns) \in Nat
      /\ c \in 1..Len(columns) /\ None \notin Spans /\ result = {None}
  <2>1. /\ n \in Nat /\ DOMAIN columns = 1..Len(columns) /\ Len(columns) \in Nat
        /\ c \in DOMAIN columns /\ None \notin Spans
    BY DecodingFacts DEF DecodingInv
  <2>2. k \in 1..n + 1 /\ k > n /\ result = {None}
    BY DEF DecodingInv, TypeOK, EndColumn
  <2> QED BY <2>1, <2>2
<1>1. Kept = Earlier \cup SpansUpTo(offsets, Col, n) /\ Kept \subseteq Spans
  BY <1>0, Closing
<1>2. Kept = UNION {SpansUpTo(offsets, columns[i], n) : i \in 1..c}
  <2>1. 1..c = (1..c - 1) \cup {c}
    BY <1>0
  <2> QED BY <1>1, <2>1 DEF Earlier, Col
<1>3. CASE c < Len(columns)
  <2>1. /\ c' = c + 1 /\ k' = 1 /\ result' = result /\ spans' = Kept /\ cur' = None
        /\ decoder' = decoder /\ offsets' = offsets /\ columns' = columns
    BY <1>3 DEF EndColumn
  <2>2. TypeOK'
    BY <1>0, <1>1, <1>3, <2>1 DEF DecodingInv, TypeOK
  <2>3. Earlier' = Kept
    BY <1>0, <1>2, <2>1 DEF Earlier
  <2>4. SpansUpTo(offsets, Col, 0)' = {}
    BY NoSpansYet
  <2>5. Column'
    BY <1>0, <2>1, <2>3, <2>4, NoSpansYet DEF Column, Continues
  <2>6. DecodesExactly'
    BY <1>0, <2>1 DEF DecodesExactly
  <2> QED BY <2>2, <2>5, <2>6 DEF DecodingInv
<1>4. CASE ~(c < Len(columns))
  <2>1. /\ c' = c /\ k' = k /\ result' = {s \in Kept : s.label \notin Hidden}
        /\ spans' = Kept /\ cur' = None
        /\ decoder' = decoder /\ offsets' = offsets /\ columns' = columns
    BY <1>4 DEF EndColumn
  <2>2. TypeOK'
    BY <1>0, <1>1, <2>1 DEF DecodingInv, TypeOK
  <2>3. Column'
    BY <1>0, <1>1, <2>1 DEF Column
  <2>4. DecodesExactly'
    BY <1>0, <1>2, <1>4, <2>1 DEF DecodesExactly, Hidden
  <2> QED BY <2>2, <2>3, <2>4 DEF DecodingInv
<1> QED BY <1>3, <1>4

LEMMA StepHolds == DecodingInv /\ [Next]_vars => DecodingInv'
<1> SUFFICES ASSUME DecodingInv, [Next]_vars PROVE DecodingInv'
  OBVIOUS
<1>1. CASE RubertOutside BY <1>1, RubertOutsidePreserves
<1>2. CASE RubertInside BY <1>2, RubertInsidePreserves
<1>3. CASE RecallToken BY <1>3, RecallPreserves
<1>4. CASE StudentSkip BY <1>4, StudentSkipPreserves
<1>5. CASE StudentOpen BY <1>5, StudentOpenPreserves
<1>6. CASE StudentExtend BY <1>6, StudentExtendPreserves
<1>7. CASE StudentClose BY <1>7, StudentClosePreserves
<1>8. CASE EndColumn BY <1>8, EndColumnPreserves
<1>9. CASE UNCHANGED vars
  <2> USE <1>9 DEF vars
  <2>1. TypeOK'
    BY DEF DecodingInv, TypeOK
  <2>2. Column'
    BY DEF DecodingInv, Column, Earlier, Col, OpenFrom
  <2>3. DecodesExactly'
    BY DEF DecodingInv, DecodesExactly, Hidden
  <2> QED BY <2>1, <2>2, <2>3 DEF DecodingInv
<1> QED BY <1>1, <1>2, <1>3, <1>4, <1>5, <1>6, <1>7, <1>8, <1>9 DEF Next, Finished

(* What the loops have closed is, at every token, exactly what the tags so   *)
(* far mean: bio_decode, _decode and tags_to_entities for every input.       *)
THEOREM BioInvariance == Spec => []DecodingInv
  BY InitHolds, StepHolds, PTL DEF Spec

(* The open span and the closed ones are always spans of the text's tokens   *)
(* with labels of the tag set.                                               *)
THEOREM DecoderTypeCorrect == Spec => []TypeOK
<1>1. DecodingInv => TypeOK
  BY DEF DecodingInv
<1> QED BY <1>1, BioInvariance, PTL

(* For every tokenization and every tag sequence, ill-formed ones included,  *)
(* the three decoders return the maximal runs and nothing else.              *)
THEOREM DecodersAgree == Spec => []DecodesExactly
<1>1. DecodingInv => DecodesExactly
  BY DEF DecodingInv
<1> QED BY <1>1, BioInvariance, PTL

-----------------------------------------------------------------------------
(* Votes between windows                                                   *)

TokenType == [start : Nat, end : Nat]
AnswerType(j) == [Places(j) -> [conf : Certainties, tags : Answers]]

\* What the windows counted so far say of text o.
Heard(o) ==
    UNION {{[window |-> j, vote |-> v] : v \in Ballot(j, said[j])} :
        j \in {i \in voted : windows[i].owner = o}}

\* Another answer among H for the same token was better, or as good and earlier.
Beaten(s, H) ==
    \E t \in H :
        /\ t.vote.token = s.vote.token
        /\ \/ t.vote.rank > s.vote.rank
           \/ t.vote.rank = s.vote.rank /\ t.window # s.window /\ Precedes(t.window, s.window)

\* Every answer kept is one of those heard, unbeaten; every token heard of has one.
Stands(kept, H) ==
    /\ \A v \in kept : \E s \in H : s.vote = v /\ ~Beaten(s, H)
    /\ \A s \in H : \E v \in kept : v.token = s.vote.token

VotingTypes ==
    /\ decoder \in {"rubert", "recall", "student"}
    /\ windows \in Encodings \cup {<<>>}
    /\ voted \subseteq Windows
    /\ DOMAIN said = Windows
    /\ \A j \in voted : said[j] \in AnswerType(j)
    /\ DOMAIN votes = Texts
    /\ pc \in {"vote", "decode", "raised"}

InTurn == \A i \in voted, j \in Windows \ voted : Precedes(i, j)

VotesStand == \A o \in Texts : Stands(votes[o], Heard(o))

Undecoded == c = 1 /\ k = 1 /\ cur = None /\ spans = {} /\ result = {None}

VotingInv ==
    /\ VotingTypes /\ InTurn /\ VotesStand
    /\ pc = "decode" => DecodingInv /\ (decoder # "student" => voted = Windows)
    /\ pc # "decode" => Undecoded
    /\ BestVoteWins

-----------------------------------------------------------------------------
\* What the tokenizer's windows are made of.
LEMMA WindowFacts ==
    ASSUME windows \in Encodings \cup {<<>>}, NEW j \in Windows
    PROVE  /\ windows[j].tokens \in Seq(TokenType) /\ Size(j) \in Nat /\ j \in Nat
           /\ windows[j].owner \in Texts
           /\ \A i, m \in Places(j) : windows[j].tokens[i] = windows[j].tokens[m] => i = m
           /\ Places(j) \subseteq 1..Size(j)
           /\ \A i \in Places(j) : /\ windows[j].tokens[i] \in TokenType
                                   /\ windows[j].tokens[i].start < windows[j].tokens[i].end
<1>1. /\ windows \in Encodings /\ DOMAIN windows = 1..Len(windows) /\ Len(windows) \in Nat
      /\ windows \in Seq([owner : Nat, tokens : Seq([start : Nat, end : Nat])])
  <2>1. windows # <<>>
    BY DEF Windows
  <2>2. windows \in Encodings
    BY <2>1
  <2>3. windows \in Seq([owner : Nat, tokens : Seq([start : Nat, end : Nat])])
    BY <2>2, VotingAssumption
  <2>4. QED
    BY <2>2, <2>3
<1>2. windows[j] \in [owner : Nat, tokens : Seq([start : Nat, end : Nat])]
  <2> DEFINE W == [owner : Nat, tokens : Seq([start : Nat, end : Nat])]
  <2>1. windows \in Seq(W) /\ j \in DOMAIN windows
    BY <1>1 DEF Windows
  <2> HIDE DEF W
  <2>2. windows[j] \in W
    BY <2>1
  <2>3. QED
    BY <2>2 DEF W
<1>3. windows[j].tokens \in Seq(TokenType) /\ Size(j) \in Nat /\ j \in Nat
  BY <1>1, <1>2 DEF TokenType, Size, Windows
<1>4. /\ DOMAIN windows[j].tokens = 1..Size(j)
      /\ \A i \in 1..Size(j) : windows[j].tokens[i] \in TokenType
  BY <1>3 DEF Size
<1>5. \A i, m \in 1..Size(j) :
         /\ windows[j].tokens[i].start <= windows[j].tokens[i].end
         /\ i < m /\ HasCharacters(windows[j].tokens[i]) /\ HasCharacters(windows[j].tokens[m])
              => windows[j].tokens[i].end <= windows[j].tokens[m].start
  BY <1>1, <1>4, VotingAssumption DEF Windows
<1>6. Places(j) \subseteq 1..Size(j)
  BY DEF Places
<1>7. \A i \in Places(j) : /\ windows[j].tokens[i] \in TokenType
                           /\ windows[j].tokens[i].start < windows[j].tokens[i].end
  BY <1>4, <1>5 DEF Places, HasCharacters, TokenType
<1>8. ASSUME NEW i \in Places(j), NEW m \in Places(j),
             windows[j].tokens[i] = windows[j].tokens[m], i < m
      PROVE  FALSE
  <2>1. windows[j].tokens[i].end <= windows[j].tokens[m].start
    BY <1>5, <1>6, <1>8 DEF Places
  <2>2. QED
    BY <1>7, <1>8, <2>1 DEF TokenType
<1>9. \A i, m \in Places(j) : windows[j].tokens[i] = windows[j].tokens[m] => i = m
  <2>1. \A i \in Places(j) : i \in Int
    BY <1>6
  <2>2. QED
    BY <1>8, <2>1
<1>10. windows[j].owner \in Texts
  BY DEF Texts
<1>11. QED
  BY <1>3, <1>6, <1>7, <1>9, <1>10

\* Two tokens with characters in windows of one text are the same or apart.
LEMMA TokensApart ==
    ASSUME windows \in Encodings \cup {<<>>}, NEW j \in Windows, NEW l \in Windows,
           windows[j].owner = windows[l].owner, NEW i \in Places(j), NEW m \in Places(l)
    PROVE  LET t == windows[j].tokens[i]
               u == windows[l].tokens[m]
           IN  t = u \/ t.end <= u.start \/ u.end <= t.start
<1>1. windows \in Encodings
  BY DEF Windows
<1>2. /\ windows[j].tokens[i] \in Range(windows[j].tokens)
      /\ windows[l].tokens[m] \in Range(windows[l].tokens)
  BY WindowFacts DEF Range, Size, Places
<1>3. HasCharacters(windows[j].tokens[i]) /\ HasCharacters(windows[l].tokens[m])
  BY DEF Places
<1>4. QED
  BY <1>1, <1>2, <1>3, VotingAssumption DEF Windows

\* The members of a ballot: one for each token, with a number for a rank.
LEMMA BallotFacts ==
    ASSUME windows \in Encodings \cup {<<>>}, NEW j \in Windows, NEW answers \in AnswerType(j),
           decoder \in {"rubert", "recall", "student"}
    PROVE  /\ \A v \in Ballot(j, answers) :
                 /\ v.rank \in Int /\ v.tags \in Answers
                 /\ \E i \in Places(j) : v.token = windows[j].tokens[i]
           /\ \A v, u \in Ballot(j, answers) : v.token = u.token => v = u
<1>1. ASSUME NEW i \in Places(j) PROVE Rank(j, i, answers) \in Int /\ answers[i].tags \in Answers
  <2>1. answers[i] \in [conf : Certainties, tags : Answers]
    BY DEF AnswerType
  <2>2. i \in Int /\ Size(j) \in Int
    BY WindowFacts
  <2>3. Certainties \subseteq Int
    BY VotingAssumption DEF Certainties
  <2>4. Smaller(i - 1, Size(j) - i) \in Int
    BY <2>2 DEF Smaller
  <2>5. QED
    BY <2>1, <2>3, <2>4 DEF Rank
<1>2. ASSUME NEW v \in Ballot(j, answers)
      PROVE  /\ v.rank \in Int /\ v.tags \in Answers
             /\ \E i \in Places(j) : v.token = windows[j].tokens[i]
  BY <1>1, <1>2 DEF Ballot
<1>3. ASSUME NEW v \in Ballot(j, answers), NEW u \in Ballot(j, answers), v.token = u.token
      PROVE  v = u
  <2>1. PICK i \in Places(j) :
            v = [token |-> windows[j].tokens[i], rank |-> Rank(j, i, answers),
                 tags |-> answers[i].tags]
    BY DEF Ballot
  <2>2. PICK m \in Places(j) :
            u = [token |-> windows[j].tokens[m], rank |-> Rank(j, m, answers),
                 tags |-> answers[m].tags]
    BY DEF Ballot
  <2>3. windows[j].tokens[i] = windows[j].tokens[m]
    BY <1>3, <2>1, <2>2
  <2>4. i = m
    BY <2>3, WindowFacts
  <2>5. QED
    BY <2>1, <2>2, <2>4
<1>4. QED
  BY <1>2, <1>3

\* Counting one more ballot, of a window that all windows heard of go before.
LEMMA CountBest ==
    ASSUME NEW H, NEW B, NEW K, NEW j \in Windows,
           \A s \in H : /\ s.vote.rank \in Int /\ s.window # j /\ ~Precedes(j, s.window),
           \A v \in B : v.rank \in Int,
           \A v, u \in B : v.token = u.token => v = u,
           Stands(K, H),
           NEW G, \A t : t \in G <=> t \in H \/ \E v \in B : t = [window |-> j, vote |-> v]
    PROVE  Stands(Count(B, K), G)
<1>1. /\ \A v \in K : \E s \in H : s.vote = v /\ ~Beaten(s, H)
      /\ \A s \in H : \E v \in K : v.token = s.vote.token
  BY DEF Stands
<1>2. \A v \in K : v.rank \in Int
  BY <1>1
<1>3. ASSUME NEW v \in K, NEW t \in H, t.vote.token = v.token PROVE t.vote.rank <= v.rank
  <2>1. PICK s \in H : s.vote = v /\ ~Beaten(s, H)
    BY <1>1
  <2>2. ~(t.vote.rank > s.vote.rank)
    BY <1>3, <2>1 DEF Beaten
  <2>3. QED
    BY <2>1, <2>2
<1>4. \A t \in G : t \in H \/ (t.window = j /\ t.vote \in B)
  OBVIOUS
<1> DEFINE winners == {v \in B : Better(v, K)}
<1>5. Count(B, K) = winners \cup {u \in K : \A v \in winners : v.token # u.token}
  BY DEF Count
<1>6. ASSUME NEW v \in winners PROVE \E s \in G : s.vote = v /\ ~Beaten(s, G)
  <2> DEFINE s == [window |-> j, vote |-> v]
  <2>1. s \in G /\ s.vote = v /\ s.window = j
    OBVIOUS
  <2> HIDE DEF s
  <2>2. ASSUME NEW t \in G, t.vote.token = v.token
        PROVE  /\ ~(t.vote.rank > v.rank)
               /\ ~(t.vote.rank = v.rank /\ t.window # j)
    <3>1. CASE t \in H
      <4>1. PICK u \in K : u.token = t.vote.token
        BY <1>1, <3>1
      <4>2. t.vote.rank <= u.rank
        BY <1>3, <3>1, <4>1
      <4>3. v.rank > u.rank
        BY <2>2, <4>1 DEF Better
      <4>4. QED
        BY <1>2, <3>1, <4>1, <4>2, <4>3
    <3>2. CASE t.window = j /\ t.vote \in B
      <4>1. t.vote = v
        BY <2>2, <3>2
      <4>2. QED
        BY <3>2, <4>1
    <3>3. QED
      BY <1>4, <3>1, <3>2
  <2>3. ~Beaten(s, G)
    BY <2>1, <2>2 DEF Beaten
  <2>4. QED
    BY <2>1, <2>3
<1>7. ASSUME NEW v \in K, \A w \in winners : w.token # v.token
      PROVE  \E s \in G : s.vote = v /\ ~Beaten(s, G)
  <2>1. PICK s \in H : s.vote = v /\ ~Beaten(s, H)
    BY <1>1
  <2>2. ASSUME NEW t \in G, t.vote.token = v.token
        PROVE  /\ ~(t.vote.rank > v.rank)
               /\ ~(/\ t.vote.rank = v.rank /\ t.window # s.window
                    /\ Precedes(t.window, s.window))
    <3>1. CASE t \in H
      BY <2>1, <2>2, <3>1 DEF Beaten
    <3>2. CASE t.window = j /\ t.vote \in B
      <4>1. ~Better(t.vote, K)
        BY <1>7, <2>2, <3>2
      <4>2. PICK u \in K : u.token = t.vote.token /\ ~(t.vote.rank > u.rank)
        BY <4>1 DEF Better
      <4>3. PICK r \in H : r.vote = u
        BY <1>1
      <4>4. u.rank <= v.rank
        BY <1>3, <2>2, <4>2, <4>3
      <4>5. t.vote.rank <= v.rank
        BY <1>2, <3>2, <4>2, <4>4
      <4>6. ~Precedes(j, s.window)
        OBVIOUS
      <4>7. QED
        BY <1>2, <3>2, <4>5, <4>6
    <3>3. QED
      BY <1>4, <3>1, <3>2
  <2>3. ~Beaten(s, G)
    BY <2>1, <2>2 DEF Beaten
  <2>4. QED
    BY <2>1, <2>3
<1>8. ASSUME NEW s \in G PROVE \E v \in Count(B, K) : v.token = s.vote.token
  <2>1. ASSUME NEW u \in K, u.token = s.vote.token
        PROVE  \E v \in Count(B, K) : v.token = s.vote.token
    BY <1>5, <2>1
  <2>2. CASE s \in H
    BY <1>1, <2>1, <2>2
  <2>3. CASE s.vote \in B
    <3>1. CASE Better(s.vote, K)
      BY <1>5, <2>3, <3>1
    <3>2. CASE ~Better(s.vote, K)
      <4>1. PICK u \in K : u.token = s.vote.token
        BY <3>2 DEF Better
      <4>2. QED
        BY <2>1, <4>1
    <3>3. QED
      BY <3>1, <3>2
  <2>4. QED
    BY <1>4, <2>2, <2>3
<1>9. \A v \in Count(B, K) : \E s \in G : s.vote = v /\ ~Beaten(s, G)
  <2> HIDE DEF winners
  <2>1. QED
    BY <1>5, <1>6, <1>7
<1>10. QED
  BY <1>8, <1>9 DEF Stands

\* What is heard of a text.
LEMMA HeardOf ==
    ASSUME NEW o, NEW s
    PROVE  s \in Heard(o) <=>
              \E j \in voted : /\ windows[j].owner = o
                               /\ \E v \in Ballot(j, said[j]) : s = [window |-> j, vote |-> v]
BY DEF Heard

\* Precedes is an order.
LEMMA NotBothPrecede ==
    ASSUME windows \in Encodings \cup {<<>>}, NEW i \in Windows, NEW j \in Windows, Precedes(i, j)
    PROVE  i # j /\ ~Precedes(j, i)
<1>1. Size(i) \in Nat /\ Size(j) \in Nat /\ i \in Nat /\ j \in Nat
  BY WindowFacts
<1>2. QED
  BY <1>1 DEF Precedes

\* The next window votes.
LEMMA VoteWindowPreserves == ASSUME VotingInv, VoteWindow PROVE VotingInv'
<1>0. PICK j \in Windows :
         /\ IsNext(j)
         /\ \E answers \in [Places(j) -> [conf : Certainties, tags : Answers]] :
               /\ said' = [said EXCEPT ![j] = answers]
               /\ votes' = [votes EXCEPT ![windows[j].owner] = Count(Ballot(j, answers), @)]
         /\ voted' = voted \cup {j}
  BY DEF VoteWindow
<1>1. PICK answers \in [Places(j) -> [conf : Certainties, tags : Answers]] :
         /\ IsNext(j)
         /\ said' = [said EXCEPT ![j] = answers]
         /\ votes' = [votes EXCEPT ![windows[j].owner] = Count(Ballot(j, answers), @)]
         /\ voted' = voted \cup {j}
  BY <1>0
<1>2. /\ pc = "vote" /\ pc' = pc /\ windows' = windows /\ text' = text
      /\ decoder' = decoder /\ offsets' = offsets /\ columns' = columns
      /\ c' = c /\ k' = k /\ cur' = cur /\ spans' = spans /\ result' = result
  BY DEF VoteWindow, vars
<1>3. VotingTypes /\ InTurn /\ VotesStand /\ Undecoded
  BY <1>2 DEF VotingInv
<1>4. /\ windows \in Encodings \cup {<<>>} /\ voted \subseteq Windows
      /\ DOMAIN said = Windows /\ DOMAIN votes = Texts
      /\ \A i \in voted : said[i] \in AnswerType(i)
      /\ decoder \in {"rubert", "recall", "student"}
  BY <1>3 DEF VotingTypes
<1>5. j \notin voted /\ \A i \in Windows \ (voted \cup {j}) : Precedes(j, i)
  BY <1>1 DEF IsNext
<1>6. /\ Windows' = Windows /\ Texts' = Texts
      /\ \A i : Places(i)' = Places(i) /\ AnswerType(i)' = AnswerType(i)
      /\ \A i, l : Precedes(i, l)' <=> Precedes(i, l)
  BY <1>2 DEF Windows, Texts, Places, Size, AnswerType, Certainties, Answers, Precedes
<1>7. answers \in AnswerType(j)
  BY DEF AnswerType
<1>8. said'[j] = answers /\ \A i \in voted : said'[i] = said[i]
  BY <1>1, <1>4, <1>5
<1>9. VotingTypes'
  BY <1>1, <1>2, <1>4, <1>6, <1>7, <1>8 DEF VotingTypes
<1>10. InTurn'
  <2>1. ASSUME NEW i \in voted', NEW l \in Windows \ voted' PROVE Precedes(i, l)
    BY <1>1, <1>3, <1>5, <2>1 DEF InTurn
  <2>2. QED
    BY <1>6, <2>1 DEF InTurn
<1>11. \A i \in voted : i # j /\ ~Precedes(j, i)
  BY <1>3, <1>4, <1>5, NotBothPrecede DEF InTurn
<1>12. \A i, a : Ballot(i, a)' = Ballot(i, a)
  BY <1>2 DEF Ballot, Places, Size, Rank
<1>13. ASSUME NEW o \in Texts PROVE Stands(votes'[o], Heard(o)')
  <2>1. \A s : s \in Heard(o)' <=>
           \/ s \in Heard(o)
           \/ windows[j].owner = o /\ \E v \in Ballot(j, answers) : s = [window |-> j, vote |-> v]
    <3>1. \A s : s \in Heard(o)' <=>
             \E i \in voted' : /\ windows[i].owner = o
                               /\ \E v \in Ballot(i, said'[i]) : s = [window |-> i, vote |-> v]
      BY <1>2, <1>12 DEF Heard
    <3>2. QED
      BY <1>1, <1>8, <3>1, HeardOf
  <2>2. Stands(votes[o], Heard(o))
    BY <1>3 DEF VotesStand
  <2>3. CASE windows[j].owner # o
    <3>1. Heard(o)' = Heard(o)
      BY <2>1, <2>3
    <3>2. votes'[o] = votes[o]
      BY <1>1, <1>4, <2>3
    <3>3. QED
      BY <2>2, <3>1, <3>2
  <2>4. CASE windows[j].owner = o
    <3>1. \A t : t \in Heard(o)' <=>
             t \in Heard(o) \/ \E v \in Ballot(j, answers) : t = [window |-> j, vote |-> v]
      BY <2>1, <2>4
    <3>2. votes'[o] = Count(Ballot(j, answers), votes[o])
      BY <1>1, <1>4, <2>4
    <3>3. \A s \in Heard(o) : s.vote.rank \in Int /\ s.window # j /\ ~Precedes(j, s.window)
      BY <1>4, <1>11, HeardOf, BallotFacts
    <3>4. /\ \A v \in Ballot(j, answers) : v.rank \in Int
          /\ \A v, u \in Ballot(j, answers) : v.token = u.token => v = u
      BY <1>4, <1>7, BallotFacts
    <3> DEFINE B == Ballot(j, answers)
               K == votes[o]
               H == Heard(o)
               G == Heard(o)'
    <3>5. /\ \A t : t \in G <=> t \in H \/ \E v \in B : t = [window |-> j, vote |-> v]
          /\ \A s \in H : s.vote.rank \in Int /\ s.window # j /\ ~Precedes(j, s.window)
          /\ \A v \in B : v.rank \in Int
          /\ \A v, u \in B : v.token = u.token => v = u
          /\ Stands(K, H)
      BY <2>2, <3>1, <3>3, <3>4
    <3> HIDE DEF B, K, H, G
    <3>6. Stands(Count(B, K), G)
      BY <3>5, CountBest
    <3>7. QED
      BY <3>2, <3>6 DEF B, K, G
  <2>5. QED
    BY <2>3, <2>4
<1>14. VotesStand'
  <2>1. ASSUME NEW o \in Texts PROVE Stands(votes[o], Heard(o))'
    <3>1. \A s \in Heard(o)' : Beaten(s, Heard(o))' <=> Beaten(s, Heard(o)')
      BY <1>6 DEF Beaten
    <3>2. QED
      BY <1>13, <3>1 DEF Stands
  <2>2. QED
    BY <1>6, <2>1 DEF VotesStand
<1>15. Undecoded' /\ BestVoteWins'
  BY <1>2, <1>3 DEF Undecoded, BestVoteWins
<1>16. QED
  BY <1>2, <1>9, <1>10, <1>14, <1>15 DEF VotingInv

\* The tokens of the windows are finitely many.
LEMMA FiniteTokens ==
    ASSUME windows \in Encodings \cup {<<>>}
    PROVE  IsFiniteSet(UNION {Range(windows[j].tokens) : j \in Windows})
<1>1. ASSUME NEW S, NEW s \in Seq(S) PROVE IsFiniteSet(DOMAIN s)
  <2>1. DOMAIN s = 1..Len(s) /\ Len(s) \in Nat
    OBVIOUS
  <2>2. QED
    BY <2>1, FS_Interval
<1>2. ASSUME NEW D, NEW f, f = [x \in D |-> f[x]], IsFiniteSet(D) PROVE IsFiniteSet(Range(f))
  <2>1. DOMAIN f = D
    BY <1>2
  <2>2. f \in Surjection(D, Range(f))
    BY <1>2, <2>1 DEF Surjection, Range
  <2>3. QED
    BY <1>2, <2>2, FS_Surjection
<1> DEFINE f == [j \in Windows |-> Range(windows[j].tokens)]
<1>3. IsFiniteSet(Windows)
  <2>1. CASE windows = <<>>
    <3>1. Windows = {}
      BY <2>1 DEF Windows
    <3>2. QED
      BY <3>1, FS_EmptySet
  <2>2. CASE windows \in Encodings
    BY <1>1, <2>2, VotingAssumption DEF Windows
  <2>3. QED
    BY <2>1, <2>2
<1>4. IsFiniteSet(Range(f))
  <2>1. f = [x \in Windows |-> f[x]]
    OBVIOUS
  <2> HIDE DEF f
  <2>2. QED
    BY <1>2, <1>3, <2>1
<1>5. \A T \in Range(f) : IsFiniteSet(T)
  <2>1. SUFFICES ASSUME NEW j \in Windows PROVE IsFiniteSet(Range(windows[j].tokens))
    BY DEF Range
  <2>2. windows[j].tokens \in Seq(TokenType)
    BY WindowFacts
  <2> DEFINE s == windows[j].tokens
  <2>3. s = [x \in DOMAIN s |-> s[x]] /\ IsFiniteSet(DOMAIN s)
    BY <1>1, <2>2
  <2> HIDE DEF s
  <2>4. IsFiniteSet(Range(s))
    BY <1>2, <2>3
  <2>5. QED
    BY <2>4 DEF s
<1>6. Range(f) = {Range(windows[j].tokens) : j \in Windows}
  BY DEF Range
<1>7. IsFiniteSet(UNION Range(f))
  <2> HIDE DEF f
  <2>1. QED
    BY <1>4, <1>5, FS_UNION
<1>8. QED
  BY <1>6, <1>7

\* Where an answer that was kept comes from.
LEMMA KeptFrom ==
    ASSUME VotingTypes, VotesStand, NEW o \in Texts, NEW v \in votes[o]
    PROVE  /\ v.tags \in Answers
           /\ \E j \in Windows : /\ windows[j].owner = o
                                 /\ \E i \in Places(j) : v.token = windows[j].tokens[i]
           /\ \E s \in Heard(o) : s.vote = v /\ ~Beaten(s, Heard(o))
<1>1. PICK s \in Heard(o) : s.vote = v /\ ~Beaten(s, Heard(o))
  BY DEF VotesStand, Stands
<1>2. PICK j \in voted : windows[j].owner = o /\ v \in Ballot(j, said[j])
  BY <1>1, HeardOf
<1>3. j \in Windows /\ said[j] \in AnswerType(j)
  BY DEF VotingTypes
<1>4. v.tags \in Answers /\ \E i \in Places(j) : v.token = windows[j].tokens[i]
  BY <1>2, <1>3, BallotFacts DEF VotingTypes
<1>5. QED
  BY <1>1, <1>2, <1>3, <1>4

\* The votes stand or fall with the windows, what they said and the votes.
LEMMA VotesStandAlike ==
    ASSUME VotesStand, UNCHANGED <<decoder, windows, voted, said, votes>>
    PROVE  VotesStand'
<1>1. \A o : Heard(o)' = Heard(o)
  BY DEF Heard, Ballot, Places, Size, Rank
<1>2. \A s, H : Beaten(s, H)' <=> Beaten(s, H)
  BY DEF Beaten, Precedes, Size
<1>3. Texts' = Texts /\ votes' = votes
  BY DEF Texts, Windows
<1>4. \A K, H : Stands(K, H)' <=> Stands(K, H)
  BY <1>2 DEF Stands
<1>5. QED
  BY <1>1, <1>3, <1>4 DEF VotesStand

\* The best answers, sorted, are what the decoder is given.
LEMMA HandOverPreserves == ASSUME VotingInv, HandOver PROVE VotingInv'
<1>1. /\ pc = "vote" /\ voted = Windows /\ pc' = "decode"
      /\ decoder' = decoder /\ windows' = windows /\ voted' = voted /\ said' = said
      /\ votes' = votes /\ c' = c /\ k' = k /\ cur' = cur /\ spans' = spans
      /\ result' = result
  BY DEF HandOver
<1>2. /\ VotingTypes /\ InTurn /\ VotesStand /\ Undecoded
      /\ windows \in Encodings \cup {<<>>} /\ decoder \in {"rubert", "recall", "student"}
  BY <1>1 DEF VotingInv, VotingTypes
<1> DEFINE S(o) == {v.token : v \in votes[o]}
           width == IF decoder = "recall" THEN Len(Types) ELSE 1
           chosen(o, t) == CHOOSE v \in votes[o] : v.token = t
<1>3. PICK o \in Texts : \E tokens \in Ascending(S(o)) :
         /\ text' = o /\ offsets' = tokens
         /\ columns' = [i \in 1..width |->
                           [m \in DOMAIN tokens |-> chosen(o, tokens[m]).tags[i]]]
  BY DEF HandOver
<1>4. PICK tokens \in Ascending(S(o)) :
         /\ text' = o /\ offsets' = tokens
         /\ columns' = [i \in 1..width |->
                           [m \in DOMAIN tokens |-> chosen(o, tokens[m]).tags[i]]]
  BY <1>3
<1>5. \A t \in S(o) : chosen(o, t) \in votes[o] /\ chosen(o, t).token = t
  OBVIOUS
<1> DEFINE n == Cardinality(S(o))
<1>6. /\ tokens \in [1..n -> S(o)] /\ Range(tokens) = S(o)
      /\ \A m \in 2..n : tokens[m - 1].start < tokens[m].start
  BY DEF Ascending
<1>7. \A t \in S(o) : /\ t \in TokenType
                      /\ \E j \in Windows : /\ windows[j].owner = o
                                            /\ \E i \in Places(j) : t = windows[j].tokens[i]
  BY <1>2, KeptFrom, WindowFacts
<1>8. n \in Nat
  <2>1. S(o) \subseteq UNION {Range(windows[j].tokens) : j \in Windows}
    <3>1. ASSUME NEW j \in Windows, NEW i \in Places(j)
          PROVE  windows[j].tokens[i] \in Range(windows[j].tokens)
      BY <1>2, WindowFacts DEF Range, Size
    <3>2. QED
      BY <1>7, <3>1
  <2> HIDE DEF S
  <2>2. IsFiniteSet(S(o))
    BY <1>2, <2>1, FiniteTokens, FS_Subset
  <2>3. QED
    BY <2>2, FS_CardinalityType
<1> HIDE DEF n
<1>9. offsets' \in Seq(TokenType) /\ Len(offsets') = n
  <2>1. tokens \in [1..n -> TokenType]
    BY <1>6, <1>7
  <2>2. QED
    BY <1>4, <1>8, <2>1
<1>10. ASSUME NEW m \in 1..n
       PROVE  /\ tokens[m] \in S(o)
              /\ chosen(o, tokens[m]) \in votes[o] /\ chosen(o, tokens[m]).token = tokens[m]
              /\ chosen(o, tokens[m]).tags \in Answers
  <2>1. tokens[m] \in S(o)
    BY <1>6
  <2>2. chosen(o, tokens[m]) \in votes[o] /\ chosen(o, tokens[m]).token = tokens[m]
    BY <1>5, <2>1
  <2> HIDE DEF chosen
  <2>3. chosen(o, tokens[m]).tags \in Answers
    BY <1>2, <2>2, KeptFrom
  <2>4. QED
    BY <2>1, <2>2, <2>3
<1> HIDE DEF chosen
<1>11. width \in Nat /\ width >= 1
  BY DecodingAssumption
<1>12. columns' \in Columns(decoder', Len(offsets'))
  <2>1. ASSUME NEW i \in 1..width, NEW m \in 1..n
        PROVE  /\ chosen(o, tokens[m]).tags[i] \in Tags
               /\ decoder = "recall" /\ chosen(o, tokens[m]).tags[i] # O
                     => chosen(o, tokens[m]).tags[i].label = Types[i]
    BY <1>10 DEF Answers
  <2>2. DOMAIN tokens = 1..n
    BY <1>6
  <2>3. columns' = [i \in 1..width |-> [m \in 1..n |-> chosen(o, tokens[m]).tags[i]]]
    BY <1>4, <2>2
  <2> DEFINE col(i) == [m \in 1..n |-> chosen(o, tokens[m]).tags[i]]
  <2>4. \A i \in 1..width : /\ col(i) \in [1..n -> Tags]
                            /\ \A m \in 1..n : col(i)[m] = chosen(o, tokens[m]).tags[i]
    BY <2>1
  <2>5. columns' = [i \in 1..width |-> col(i)]
    BY <2>3
  <2> HIDE DEF col, width
  <2>6. /\ columns' \in [1..width -> [1..n -> Tags]]
        /\ DOMAIN columns' = 1..width
        /\ decoder = "recall" => \A i \in 1..width : \A m \in 1..n :
              columns'[i][m] # O => columns'[i][m].label = Types[i]
    BY <2>1, <2>4, <2>5
  <2>7. QED
    BY <1>1, <1>9, <2>6 DEF Columns, width
<1>13. DecodingInv'
  <2>1. /\ c' = 1 /\ k' = 1 /\ cur' = None /\ spans' = {} /\ result' = {None}
    BY <1>1, <1>2 DEF Undecoded
  <2>2. Len(columns') = width
    <3>1. columns' \in [1..width -> [1..n -> Tags]]
      BY <1>1, <1>9, <1>12 DEF Columns
    <3> HIDE DEF width
    <3>2. QED
      BY <1>11, <3>1
  <2>3. c' \in 1..Len(columns') /\ k' \in 1..Len(offsets') + 1
    <3> HIDE DEF width
    <3>1. QED
      BY <1>8, <1>9, <1>11, <2>1, <2>2
  <2>4. TypeOK'
    <3>1. cur' \in Spans \cup {None} /\ spans' \subseteq Spans
          /\ result' \in (SUBSET Spans) \cup {{None}}
      BY <2>1
    <3>2. QED
      BY <1>1, <1>2, <1>9, <1>12, <2>3, <3>1 DEF TypeOK, TokenType
  <2>5. Column'
    <3>1. Earlier' = {} /\ SpansUpTo(offsets', Col', k' - 1) = {}
      BY <2>1, NoSpansYet DEF Earlier
    <3>2. ~Continues(Col', k')
      BY <2>1 DEF Continues
    <3>3. QED
      BY <2>1, <3>1, <3>2 DEF Column
  <2>6. DecodesExactly'
    BY <2>1 DEF DecodesExactly
  <2>7. QED
    BY <2>4, <2>5, <2>6 DEF DecodingInv
<1>14. Said(o)' = Heard(o)
  BY <1>1 DEF Said, Heard, Ballot, Places, Size, Rank, Windows
<1>15. \A s : Loses(s, o)' <=> Beaten(s, Heard(o))
  BY <1>1, <1>14 DEF Loses, Beaten, Precedes, Size
<1>16. BestVoteWins'
  <2>1. {offsets'[m] : m \in DOMAIN offsets'} = {s.vote.token : s \in Heard(o)}
    <3>1. {offsets'[m] : m \in DOMAIN offsets'} = S(o)
      BY <1>4, <1>6 DEF Range
    <3>2. S(o) = {s.vote.token : s \in Heard(o)}
      <4>1. Stands(votes[o], Heard(o))
        BY <1>2 DEF VotesStand
      <4>2. QED
        BY <4>1 DEF Stands
    <3>3. QED
      BY <3>1, <3>2
  <2>2. DOMAIN offsets' = 1..n /\ DOMAIN columns' = 1..width
    BY <1>4, <1>6
  <2>3. ASSUME NEW m \in 1..n, m > 1 PROVE offsets'[m - 1].end <= offsets'[m].start
    <3>1. m - 1 \in 1..n /\ m \in 2..n
      BY <1>8, <2>3
    <3> DEFINE t == tokens[m - 1]
               u == tokens[m]
    <3>2. t \in S(o) /\ u \in S(o) /\ t.start < u.start
      BY <1>6, <3>1
    <3> HIDE DEF t, u
    <3>3. PICK j \in Windows : /\ windows[j].owner = o
                               /\ \E i \in Places(j) : t = windows[j].tokens[i]
      BY <1>7, <3>2
    <3>4. PICK i \in Places(j) : t = windows[j].tokens[i]
      BY <3>3
    <3>5. PICK l \in Windows : /\ windows[l].owner = o
                               /\ \E q \in Places(l) : u = windows[l].tokens[q]
      BY <1>7, <3>2
    <3>6. PICK q \in Places(l) : u = windows[l].tokens[q]
      BY <3>5
    <3>7. t = u \/ t.end <= u.start \/ u.end <= t.start
      BY <1>2, <3>3, <3>4, <3>5, <3>6, TokensApart
    <3>8. t \in TokenType /\ u \in TokenType /\ u.start < u.end
      BY <1>2, <3>4, <3>6, WindowFacts
    <3>9. t.end <= u.start
      BY <3>2, <3>7, <3>8 DEF TokenType
    <3>10. QED
      BY <1>4, <3>9 DEF t, u
  <2>4. ASSUME NEW m \in 1..n
        PROVE  \E s \in Heard(o) : /\ s.vote.token = offsets'[m]
                                   /\ ~Beaten(s, Heard(o))
                                   /\ \A i \in DOMAIN columns' : columns'[i][m] = s.vote.tags[i]
    <3>1. /\ chosen(o, tokens[m]) \in votes[o] /\ chosen(o, tokens[m]).token = tokens[m]
      BY <1>10
    <3>2. PICK s \in Heard(o) : s.vote = chosen(o, tokens[m]) /\ ~Beaten(s, Heard(o))
      BY <1>2, <3>1, KeptFrom
    <3>3. \A i \in 1..width : columns'[i][m] = chosen(o, tokens[m]).tags[i]
      BY <1>4, <1>6
    <3>4. QED
      BY <1>4, <2>2, <3>1, <3>2, <3>3
  <2>5. text' = o
    BY <1>4
  <2>6. /\ {offsets'[m] : m \in DOMAIN offsets'} = {s.vote.token : s \in Said(o)'}
        /\ \A m \in DOMAIN offsets' :
              /\ m > 1 => offsets'[m - 1].end <= offsets'[m].start
              /\ \E s \in Said(o)' :
                    /\ s.vote.token = offsets'[m]
                    /\ ~Loses(s, o)'
                    /\ \A i \in DOMAIN columns' : columns'[i][m] = s.vote.tags[i]
    BY <1>14, <1>15, <2>1, <2>2, <2>3, <2>4
  <2>7. QED
    BY <2>5, <2>6 DEF BestVoteWins
<1>17. VotingTypes' /\ InTurn' /\ VotesStand'
  <2>1. VotingTypes'
    <3>1. /\ Windows' = Windows /\ Texts' = Texts
          /\ \A i : AnswerType(i)' = AnswerType(i)
      BY <1>1 DEF Windows, Texts, AnswerType, Places, Size, Certainties, Answers
    <3>2. QED
      BY <1>1, <1>2, <3>1 DEF VotingTypes
  <2>2. InTurn'
    BY <1>1, <1>2 DEF InTurn, Windows, Precedes, Size
  <2>3. VotesStand'
    BY <1>1, <1>2, VotesStandAlike
  <2>4. QED
    BY <2>1, <2>2, <2>3
<1>18. QED
  BY <1>1, <1>13, <1>16, <1>17 DEF VotingInv, Windows

\* Nothing about the votes or their windows changes.
VotesAlike == UNCHANGED <<decoder, offsets, columns, windows, voted, said, votes, text>>

LEMMA VotesAlikePreserves ==
    ASSUME VotingInv, VotesAlike
    PROVE  /\ pc' \in {"vote", "decode", "raised"} => VotingTypes'
           /\ InTurn' /\ VotesStand'
           /\ (pc' = "decode" => pc = "decode") => BestVoteWins'
<1> USE DEF VotesAlike
<1>1. pc' \in {"vote", "decode", "raised"} => VotingTypes'
  <2>1. /\ Windows' = Windows /\ Texts' = Texts
        /\ \A i : AnswerType(i)' = AnswerType(i)
    BY DEF Windows, Texts, AnswerType, Places, Size, Certainties, Answers
  <2>2. VotingTypes
    BY DEF VotingInv
  <2>3. \A j \in voted' : said'[j] \in AnswerType(j)'
    <3>1. \A j \in voted : said[j] \in AnswerType(j)
      BY <2>2 DEF VotingTypes
    <3>2. QED
      BY <2>1, <3>1
  <2>4. /\ decoder' \in {"rubert", "recall", "student"}
        /\ windows' \in Encodings \cup {<<>>} /\ voted' \subseteq Windows'
        /\ DOMAIN said' = Windows' /\ DOMAIN votes' = Texts'
    BY <2>1, <2>2 DEF VotingTypes
  <2>5. QED
    BY <2>3, <2>4 DEF VotingTypes
<1>2. InTurn'
  BY DEF VotingInv, InTurn, Windows, Precedes, Size
<1>3. VotesStand'
  BY VotesStandAlike DEF VotingInv, VotesAlike
<1>4. (pc' = "decode" => pc = "decode") => BestVoteWins'
  <2>1. \A o : Said(o)' = Said(o)
    BY DEF Said, Windows, Ballot, Places, Size, Rank
  <2>2. \A s, o : Loses(s, o)' <=> Loses(s, o)
    BY <2>1 DEF Loses, Precedes, Size
  <2>3. /\ Said(text)' = Said(text) /\ text' = text
        /\ \A s : Loses(s, text)' <=> Loses(s, text)
    BY <2>1, <2>2
  <2> DEFINE Body ==
        /\ {offsets[m] : m \in DOMAIN offsets} = {s.vote.token : s \in Said(text)}
        /\ \A m \in DOMAIN offsets :
              /\ m > 1 => offsets[m - 1].end <= offsets[m].start
              /\ \E s \in Said(text) :
                    /\ s.vote.token = offsets[m]
                    /\ ~Loses(s, text)
                    /\ \A i \in DOMAIN columns : columns[i][m] = s.vote.tags[i]
  <2>4. Body => Body'
    <3>1. Said(text)' = Said(text) /\ offsets' = offsets /\ columns' = columns
      BY <2>3
    <3>2. \A s \in Said(text) : Loses(s, text)' <=> Loses(s, text)
      BY <2>3
    <3> SUFFICES ASSUME Body PROVE Body'
      OBVIOUS
    <3>3. {offsets'[m] : m \in DOMAIN offsets'} = {s.vote.token : s \in Said(text)'}
      <4>1. {offsets'[m] : m \in DOMAIN offsets'} = {offsets[m] : m \in DOMAIN offsets}
        BY <3>1
      <4>2. {s.vote.token : s \in Said(text)'} = {s.vote.token : s \in Said(text)}
        BY <3>1
      <4>3. QED
        BY <4>1, <4>2
    <3>4. ASSUME NEW m \in DOMAIN offsets
          PROVE  \E s \in Said(text)' : /\ s.vote.token = offsets'[m]
                                        /\ ~Loses(s, text)'
                                        /\ \A i \in DOMAIN columns' : columns'[i][m] = s.vote.tags[i]
      <4>1. PICK s \in Said(text) : /\ s.vote.token = offsets[m]
                                    /\ ~Loses(s, text)
                                    /\ \A i \in DOMAIN columns : columns[i][m] = s.vote.tags[i]
        BY <3>4
      <4>2. QED
        BY <3>1, <3>2, <4>1
    <3>5. \A m \in DOMAIN offsets' : m > 1 => offsets'[m - 1].end <= offsets'[m].start
      BY <3>1
    <3>6. QED
      BY <3>1, <3>3, <3>4, <3>5
  <2>5. BestVoteWins <=> (pc = "decode" /\ decoder # "student" => Body)
    BY DEF BestVoteWins
  <2>6. BestVoteWins' <=> (pc' = "decode" /\ decoder' # "student" => Body')
    BY DEF BestVoteWins
  <2> HIDE DEF Body
  <2>7. QED
    BY <2>4, <2>5, <2>6 DEF VotingInv
<1>5. QED
  BY <1>1, <1>2, <1>3, <1>4

\* The network raises.
LEMMA NetworkRaisesPreserves == ASSUME VotingInv, NetworkRaises PROVE VotingInv'
<1>1. VotesAlike /\ pc = "vote" /\ pc' = "raised" /\ UNCHANGED <<c, k, cur, spans, result>>
  BY DEF NetworkRaises, VotesAlike, vars, votingVars
<1>2. VotingTypes' /\ InTurn' /\ VotesStand' /\ BestVoteWins'
  BY <1>1, VotesAlikePreserves
<1>3. Undecoded'
  BY <1>1 DEF VotingInv, Undecoded
<1>4. QED
  BY <1>1, <1>2, <1>3 DEF VotingInv

\* A step of the decoding loop.
LEMMA DecodePreserves == ASSUME VotingInv, Decode PROVE VotingInv'
<1>1. pc = "decode" /\ pc' = pc /\ Next /\ UNCHANGED votingVars
  BY DEF Decode
<1>2. UNCHANGED <<decoder, offsets, columns>>
  BY <1>1 DEF Next, RubertOutside, RubertInside, RecallToken, StudentSkip, StudentOpen,
              StudentExtend, StudentClose, EndColumn, Finished, vars
<1>3. VotesAlike
  BY <1>1, <1>2 DEF VotesAlike, votingVars
<1>4. VotingTypes' /\ InTurn' /\ VotesStand' /\ BestVoteWins'
  BY <1>1, <1>3, VotesAlikePreserves
<1>5. DecodingInv'
  <2>1. DecodingInv
    BY <1>1 DEF VotingInv
  <2>2. QED
    BY <1>1, <2>1, StepHolds
<1>6. decoder' # "student" => voted' = Windows'
  BY <1>1, <1>3 DEF VotingInv, VotesAlike, Windows
<1>7. QED
  BY <1>1, <1>4, <1>5, <1>6 DEF VotingInv

LEMMA PredictStutters == ASSUME VotingInv, UNCHANGED inferenceVars PROVE VotingInv'
<1>1. VotesAlike /\ pc' = pc /\ UNCHANGED vars
  BY DEF inferenceVars, votingVars, vars, VotesAlike
<1>2. VotingTypes' /\ InTurn' /\ VotesStand' /\ BestVoteWins'
  BY <1>1, VotesAlikePreserves DEF VotingInv, VotingTypes
<1>3. Undecoded' <=> Undecoded
  BY <1>1 DEF Undecoded, vars
<1>4. DecodingInv => DecodingInv'
  BY <1>1, StepHolds
<1>5. QED
  BY <1>1, <1>2, <1>3, <1>4 DEF VotingInv, VotesAlike, Windows

\* Before the first vote.
LEMMA PredictInitHolds == PredictInit => VotingInv
<1> SUFFICES ASSUME PredictInit PROVE VotingInv
  OBVIOUS
<1>1. /\ Undecoded /\ voted = {} /\ DOMAIN said = Windows /\ DOMAIN votes = Texts
      /\ votes = [o \in Texts |-> {}]
  BY DEF PredictInit, Undecoded
<1>2. /\ decoder \in {"rubert", "recall", "student"} /\ windows \in Encodings \cup {<<>>}
      /\ pc \in {"vote", "decode", "raised"}
      /\ pc = "decode" => decoder = "student"
  BY DEF PredictInit
<1>3. VotingTypes /\ InTurn
  BY <1>1, <1>2 DEF VotingTypes, InTurn
<1>4. VotesStand
  BY <1>1 DEF VotesStand, Stands, Heard
<1>5. pc = "decode" => DecodingInv
  <2>1. SUFFICES ASSUME pc = "decode" PROVE Init
    BY InitHolds
  <2>2. QED
    BY <2>1 DEF PredictInit, Init
<1>6. BestVoteWins
  BY <1>2 DEF BestVoteWins
<1>7. QED
  BY <1>1, <1>2, <1>3, <1>4, <1>5, <1>6 DEF VotingInv

\* At every moment the answers kept for a text are the best of its windows so far.
THEOREM VotingInvariance == PredictSpec => []VotingInv
<1>1. VotingInv /\ [PredictNext]_inferenceVars => VotingInv'
  BY VoteWindowPreserves, NetworkRaisesPreserves, HandOverPreserves, DecodePreserves,
     PredictStutters DEF PredictNext, Raised
<1>2. QED
  BY <1>1, PredictInitHolds, PTL DEF PredictSpec

\* For all windows, answers and confidences: the decoder is given every token of its
\* text, in order, each with its best answer; the other texts have no part in it.
THEOREM BestAnswersAreDecoded == PredictSpec => []BestVoteWins
<1>1. VotingInv => BestVoteWins
  BY DEF VotingInv
<1>2. QED
  BY <1>1, VotingInvariance, PTL

\* And what the decoder makes of them are the maximal runs of those answers.
THEOREM RunsOfBestAnswers == PredictSpec => []DecodesExactly
<1>1. VotingInv => DecodesExactly
  BY DEF VotingInv, VotingTypes, DecodingInv, Undecoded, DecodesExactly
<1>2. QED
  BY <1>1, VotingInvariance, PTL

-----------------------------------------------------------------------------
(* Induction over the natural numbers, for sets                            *)

\* The least-number principle.
LEMMA LeastOf == ASSUME NEW S, S \subseteq Nat, S # {} PROVE \E m \in S : \A n \in S : m <= n
<1> DEFINE Less == {pair \in Nat \X Nat : pair[1] < pair[2]}
<1>1. IsWellFoundedOn(Less, Nat)
  BY NatLessThanWellFounded DEF OpToRel
<1>2. \E m \in S : \A n \in S : <<n, m>> \notin Less
  <2> HIDE DEF Less
  <2> QED BY <1>1, WFMin
<1>3. \A m, n \in Nat : n < m => <<n, m>> \in Less
  OBVIOUS
<1> HIDE DEF Less
<1>4. PICK m \in S : \A n \in S : <<n, m>> \notin Less
  BY <1>2
<1>5. ASSUME NEW n \in S PROVE m <= n
  <2>1. ~(n < m)
    BY <1>3, <1>4, n \in Nat, m \in Nat
  <2> QED BY <2>1, n \in Nat, m \in Nat
<1> QED BY <1>4, <1>5

\* What holds of 0 and passes on to the next holds of all.
LEMMA Induction ==
    ASSUME NEW S, 0 \in S, \A n \in Nat : n \in S => n + 1 \in S
    PROVE  \A n \in Nat : n \in S
<1> SUFFICES ASSUME Nat \ S # {} PROVE FALSE
  OBVIOUS
<1>1. PICK m \in Nat \ S : \A n \in Nat \ S : m <= n
  BY LeastOf
<1> QED BY <1>1, m - 1 \in Nat \/ m = 0

\* What holds of 1 and passes on to the next, up to N.
LEMMA InductionUpTo ==
    ASSUME NEW N \in Nat, NEW S, N # 0 => 1 \in S, \A t \in 2..N : t - 1 \in S => t \in S
    PROVE  \A t \in 1..N : t \in S
<1> DEFINE R == {n \in Nat : n \in 1..N => n \in S}
<1>1. 0 \in R
  OBVIOUS
<1>2. ASSUME NEW n \in Nat, n \in R PROVE n + 1 \in R
  <2>1. SUFFICES ASSUME n + 1 \in 1..N PROVE n + 1 \in S
    OBVIOUS
  <2>2. CASE n = 0
    BY <2>1, <2>2
  <2>3. CASE n # 0
    <3>1. n \in S /\ n + 1 \in 2..N /\ (n + 1) - 1 = n
      BY <1>2, <2>1, <2>3
    <3> QED BY <3>1
  <2> QED BY <2>2, <2>3
<1>3. \A n \in Nat : n \in R
  <2> HIDE DEF R
  <2> QED BY <1>1, <1>2, Induction
<1> QED BY <1>3

-----------------------------------------------------------------------------
(* Tagging: one entity goes before all others of a token                   *)

Marked == [start : Nat, end : Nat, label : Labels \cup {Address}]

LEMMA OrderOf ==
    ASSUME NEW l \in Labels
    PROVE  Order(l) \in Nat /\ Types[Order(l)] = l
<1>1. \E i \in DOMAIN Types : Types[i] = l
  BY TaggingAssumption DEF Range
<1>2. DOMAIN Types = 1..Len(Types)
  BY DecodingAssumption
<1>3. Order(l) \in DOMAIN Types /\ Types[Order(l)] = l
  BY <1>1 DEF Order
<1> QED BY <1>2, <1>3

\* Of two entities one goes before the other, and only one.
LEMMA Antisymmetric ==
    ASSUME NEW x \in Marked, NEW y \in Marked, x.label \in Labels, y.label \in Labels,
           GoesBefore(x, y)
    PROVE  ~GoesBefore(y, x)
<1>1. /\ x.start \in Nat /\ x.end \in Nat /\ y.start \in Nat /\ y.end \in Nat
      /\ Order(x.label) \in Nat /\ Order(y.label) \in Nat
  BY OrderOf DEF Marked
<1> QED BY <1>1 DEF GoesBefore

\* The value is least at m.
LEMMA LeastAt ==
    ASSUME NEW S, NEW f, \A x \in S : f[x] \in Nat, S # {}
    PROVE  \E m \in S : \A x \in S : f[m] <= f[x]
<1>1. \E n \in {f[x] : x \in S} : \A i \in {f[x] : x \in S} : n <= i
  <2> DEFINE T == {f[x] : x \in S}
  <2>1. T \subseteq Nat /\ T # {}
    OBVIOUS
  <2> HIDE DEF T
  <2>2. \E n \in T : \A i \in T : n <= i
    BY <2>1, LeastOf
  <2> QED BY <2>2 DEF T
<1> QED BY <1>1

LEMMA BestCovers ==
    ASSUME NEW C, C \subseteq Marked, C # {}, NEW bound \in Nat,
           \A x \in C : x.label \in Labels /\ x.start < bound
    PROVE  /\ BestOf(C) \in C
           /\ \A y \in C \ {BestOf(C)} : GoesBefore(BestOf(C), y)
<1> DEFINE class == [x \in C |-> IF x.label = BirthPlace THEN 1 ELSE 2]
           size == [x \in C |-> x.end - x.start + bound]
           place == [x \in C |-> x.start]
           order == [x \in C |-> Order(x.label)]
<1>1. \A x \in C : /\ x.start \in Nat /\ x.end \in Nat /\ Order(x.label) \in Nat
                   /\ class[x] \in Nat /\ size[x] \in Nat /\ place[x] \in Nat /\ order[x] \in Nat
  <2> TAKE x \in C
  <2>1. x.start \in Nat /\ x.end \in Nat /\ x.start < bound
    BY DEF Marked
  <2>2. Order(x.label) \in Nat
    BY OrderOf
  <2> QED BY <2>1, <2>2
<1> HIDE DEF class, size, place, order
<1>2. PICK a \in C : \A x \in C : class[a] <= class[x]
  BY <1>1, LeastAt
<1> DEFINE A == {x \in C : class[x] = class[a]}
<1>3. PICK b \in A : \A x \in A : size[b] <= size[x]
  <2>1. A # {} /\ \A x \in A : size[x] \in Nat
    BY <1>1
  <2> QED BY <2>1, LeastAt
<1> DEFINE B == {x \in A : size[x] = size[b]}
<1>4. PICK c1 \in B : \A x \in B : place[c1] <= place[x]
  <2>1. B # {} /\ \A x \in B : place[x] \in Nat
    BY <1>1
  <2> QED BY <2>1, LeastAt
<1> DEFINE D == {x \in B : place[x] = place[c1]}
<1>5. PICK d \in D : \A x \in D : order[d] <= order[x]
  <2>1. D # {} /\ \A x \in D : order[x] \in Nat
    BY <1>1
  <2> QED BY <2>1, LeastAt
<1>6. ASSUME NEW y \in C \ {d} PROVE GoesBefore(d, y)
  <2>1. d \in C /\ y \in C /\ d # y
    OBVIOUS
  <2>2. /\ class[d] <= class[y]
        /\ class[d] = class[y] => size[d] <= size[y]
        /\ class[d] = class[y] /\ size[d] = size[y] => place[d] <= place[y]
        /\ class[d] = class[y] /\ size[d] = size[y] /\ place[d] = place[y] => order[d] <= order[y]
    BY <1>2, <1>3, <1>4, <1>5
  <2>3. /\ class[d] = (IF d.label = BirthPlace THEN 1 ELSE 2)
        /\ class[y] = (IF y.label = BirthPlace THEN 1 ELSE 2)
        /\ size[d] = d.end - d.start + bound /\ size[y] = y.end - y.start + bound
        /\ place[d] = d.start /\ place[y] = y.start
        /\ order[d] = Order(d.label) /\ order[y] = Order(y.label)
    BY <2>1 DEF class, size, place, order
  <2>4. /\ d.start \in Nat /\ d.end \in Nat /\ y.start \in Nat /\ y.end \in Nat
        /\ Order(d.label) \in Nat /\ Order(y.label) \in Nat
    BY <1>1, <2>1
  <2>5. ~(/\ d.end - d.start = y.end - y.start /\ d.start = y.start
          /\ Order(d.label) = Order(y.label))
    <3>1. SUFFICES ASSUME d.end - d.start = y.end - y.start, d.start = y.start,
                          Order(d.label) = Order(y.label)
                   PROVE  FALSE
      OBVIOUS
    <3>2. d.end = y.end
      BY <2>4, <3>1
    <3>3. d.label = y.label
      BY <2>1, <3>1, OrderOf
    <3> QED BY <2>1, <3>1, <3>2, <3>3 DEF Marked
  <2> HIDE DEF A, B, D
  <2> QED BY ONLY <2>2, <2>3, <2>4, <2>5, bound \in Nat DEF GoesBefore
<1>7. d \in C
  OBVIOUS
<1> HIDE DEF A, B, D
<1> QED BY <1>6, <1>7 DEF BestOf

\* Only the entity that goes before all others is BestOf.
LEMMA BestIs ==
    ASSUME NEW C, C \subseteq Marked, \A x \in C : x.label \in Labels,
           NEW x \in C, \A y \in C : y = x \/ GoesBefore(x, y)
    PROVE  BestOf(C) = x
<1>1. /\ BestOf(C) \in C
      /\ \A y \in C \ {BestOf(C)} : GoesBefore(BestOf(C), y)
  BY DEF BestOf
<1> QED BY <1>1, Antisymmetric

-----------------------------------------------------------------------------
(* Gold spans                                                              *)

\* The tags of a row, whose tokens follow one another.
GoldTags(r) == [m \in DOMAIN r.tokens |-> TokenTag(r.entities, r.tokens, m)]

LEMMA TokenOf ==
    ASSUME NEW S, NEW s \in Seq(S), NEW m \in 1..Len(s)
    PROVE  s[m] \in S
OBVIOUS

LEMMA RowFacts ==
    ASSUME NEW r \in Rows
    PROVE  /\ Len(r.tokens) \in Nat /\ DOMAIN r.tokens = 1..Len(r.tokens)
           /\ \A m \in 1..Len(r.tokens) :
                 /\ r.tokens[m].start \in Nat /\ r.tokens[m].end \in Nat
                 /\ r.tokens[m].start < r.tokens[m].end
           /\ \A m, n \in 1..Len(r.tokens) : m < n => r.tokens[m].end <= r.tokens[n].start
           /\ r.entities \subseteq Marked
<1>1. r.tokens \in Seq([start : Nat, end : Nat])
  BY TaggingAssumption
<1>2. Len(r.tokens) \in Nat /\ DOMAIN r.tokens = 1..Len(r.tokens)
  BY <1>1
<1>3. \A m \in 1..Len(r.tokens) : r.tokens[m] \in [start : Nat, end : Nat]
  BY <1>1, TokenOf
<1> QED BY <1>2, <1>3, TaggingAssumption DEF Marked

LEMMA CoveringFacts ==
    ASSUME NEW r \in Rows, NEW m \in 1..Len(r.tokens)
    PROVE  /\ Covering(r.entities, r.tokens[m]) \subseteq Marked
           /\ \A x \in Covering(r.entities, r.tokens[m]) :
                 /\ x \in r.entities /\ x.label \in Labels
                 /\ x.start \in Nat /\ x.end \in Nat
                 /\ x.start < r.tokens[m].end /\ x.end > r.tokens[m].start
  BY RowFacts DEF Covering, Marked

\* A tag is that of the entity that goes before all others of the token.
LEMMA TagIs ==
    ASSUME NEW r \in Rows, NEW m \in 1..Len(r.tokens)
    PROVE  LET C == Covering(r.entities, r.tokens[m])
               tag == GoldTags(r)[m]
           IN  /\ C = {} => tag = O
               /\ C # {} =>
                     /\ BestOf(C) \in C
                     /\ tag.label = BestOf(C).label
                     /\ tag.prefix = IF r.tokens[m].start = BestOf(C).start THEN "B" ELSE "I"
<1> DEFINE C == Covering(r.entities, r.tokens[m])
<1>1. GoldTags(r)[m] = TokenTag(r.entities, r.tokens, m)
  BY RowFacts DEF GoldTags
<1>2. C # {} => BestOf(C) \in C
  <2>1. C \subseteq Marked /\ \A x \in C : x.label \in Labels /\ x.start < r.tokens[m].end
    BY CoveringFacts
  <2>2. r.tokens[m].end \in Nat
    BY RowFacts
  <2> HIDE DEF C
  <2> QED BY <2>1, <2>2, BestCovers
<1> QED BY <1>1, <1>2 DEF TokenTag, FirstToken

\* A run has one label, and none of its tags is an "O".
LEMMA RunLabel ==
    ASSUME NEW r \in Rows, NEW i \in 1..Len(r.tokens), NEW j \in i..Len(r.tokens),
           IsRun(GoldTags(r), i, j)
    PROVE  \A m \in i..j : GoldTags(r)[m].label = GoldTags(r)[i].label /\ GoldTags(r)[m].prefix # "O"
<1> DEFINE col == GoldTags(r)
           S == {n \in Nat : i + n <= j => col[i + n].label = col[i].label}
<1>1. 0 \in S
  OBVIOUS
<1>2. ASSUME NEW n \in Nat, n \in S PROVE n + 1 \in S
  <2>1. SUFFICES ASSUME i + (n + 1) <= j PROVE col[i + (n + 1)].label = col[i].label
    OBVIOUS
  <2>2. i + (n + 1) \in i + 1..j /\ (i + (n + 1)) - 1 = i + n
    BY <2>1
  <2>3. Continues(col, i + (n + 1))
    BY <2>2 DEF IsRun
  <2> QED BY <1>2, <2>1, <2>2, <2>3 DEF Continues
<1>3. \A n \in Nat : n \in S
  <2> HIDE DEF S
  <2> QED BY <1>1, <1>2, Induction
<1>4. ASSUME NEW m \in i..j PROVE col[m].label = col[i].label /\ col[m].prefix # "O"
  <2>1. m - i \in Nat /\ i + (m - i) = m
    OBVIOUS
  <2>2. col[m].label = col[i].label
    BY <1>3, <2>1
  <2>3. m = i \/ Continues(col, m)
    BY DEF IsRun
  <2> QED BY <2>2, <2>3 DEF IsRun, Begins, Continues
<1> QED BY <1>4

\* The tag of a token is that of the entity that leads on it.
LEMMA LeaderTags ==
    ASSUME row \in Rows, NEW m \in 1..Len(row.tokens), NEW x, LeadsAt(x, m)
    PROVE  /\ x \in row.entities /\ x.label \in Labels
           /\ GoldTags(row)[m].label = x.label
           /\ GoldTags(row)[m].prefix = IF row.tokens[m].start = x.start THEN "B" ELSE "I"
           /\ \A y : LeadsAt(y, m) => y = x
<1> DEFINE C == Covering(row.entities, row.tokens[m])
<1>1. C \subseteq Marked /\ \A y \in C : y.label \in Labels /\ y \in row.entities
  BY CoveringFacts
<1>2. x \in C /\ \A y \in C : y = x \/ GoesBefore(x, y)
  BY DEF LeadsAt
<1>3. BestOf(C) = x
  <2> HIDE DEF C
  <2> QED BY ONLY <1>1, <1>2, BestIs
<1>4. ASSUME NEW y, LeadsAt(y, m) PROVE y = x
  <2>1. y \in C /\ \A z \in C : z = y \/ GoesBefore(y, z)
    BY <1>4 DEF LeadsAt
  <2>2. BestOf(C) = y
    <3> HIDE DEF C
    <3> QED BY ONLY <1>1, <2>1, BestIs
  <2> QED BY <1>3, <2>2
<1>5. C # {}
  BY <1>2
<1> QED BY <1>1, <1>2, <1>3, <1>4, <1>5, TagIs

\* A token whose tag is no "O" is led by an entity of the label of its tag.
LEMMA TagOfLeader ==
    ASSUME row \in Rows, NEW m \in 1..Len(row.tokens), GoldTags(row)[m].label \in Labels
    PROVE  \E x \in row.entities : LeadsAt(x, m)
<1> DEFINE C == Covering(row.entities, row.tokens[m])
           x == BestOf(C)
<1>1. C # {}
  BY TagIs, DecodingAssumption DEF O
<1>2. C \subseteq Marked /\ \A y \in C : y.label \in Labels /\ y \in row.entities
                                         /\ y.start < row.tokens[m].end
  BY CoveringFacts
<1>3. row.tokens[m].end \in Nat
  BY RowFacts
<1>4. x \in C /\ \A y \in C \ {x} : GoesBefore(x, y)
  <2> HIDE DEF C
  <2> QED BY <1>1, <1>2, <1>3, BestCovers
<1>5. LeadsAt(x, m)
  <2> HIDE DEF x
  <2> QED BY <1>4 DEF LeadsAt
<1> QED BY <1>2, <1>4, <1>5

\* A token goes on with the span of the one before exactly if both are led by one
\* label and the entity that leads on it does not begin with it.
LEMMA GoesOnBehind ==
    ASSUME row \in Rows, NEW m \in 2..Len(row.tokens)
    PROVE  Continues(GoldTags(row), m) <=>
              \E label \in Labels : LedBy(label, m - 1) /\ LedAcross(label, m)
<1> DEFINE col == GoldTags(row)
<1>0. m \in 1..Len(row.tokens) /\ m - 1 \in 1..Len(row.tokens) /\ m > 1
  BY RowFacts
<1>1. ASSUME Continues(col, m)
      PROVE  \E label \in Labels : LedBy(label, m - 1) /\ LedAcross(label, m)
  <2>1. col[m].prefix = "I" /\ col[m - 1].label = col[m].label
    BY <1>1 DEF Continues
  <2>2. Covering(row.entities, row.tokens[m]) # {}
    BY <1>0, <2>1, TagIs DEF O
  <2>3. col[m].label \in Labels
    BY <1>0, <2>2, TagIs, CoveringFacts
  <2>4. PICK x \in row.entities : LeadsAt(x, m)
    BY <1>0, <2>3, TagOfLeader
  <2>5. PICK y \in row.entities : LeadsAt(y, m - 1)
    BY <1>0, <2>1, <2>3, TagOfLeader
  <2>6. x.label = col[m].label /\ x.start # row.tokens[m].start
    BY <1>0, <2>1, <2>4, LeaderTags
  <2>7. y.label = col[m - 1].label
    BY <1>0, <2>5, LeaderTags
  <2>8. LedBy(col[m].label, m - 1)
    BY <2>1, <2>5, <2>7 DEF LedBy
  <2>9. LedAcross(col[m].label, m)
    BY <2>4, <2>6 DEF LedAcross
  <2> QED BY <2>3, <2>8, <2>9
<1>2. ASSUME NEW label \in Labels, LedBy(label, m - 1), LedAcross(label, m)
      PROVE  Continues(col, m)
  <2>1. PICK x \in row.entities : x.label = label /\ LeadsAt(x, m) /\ x.start # row.tokens[m].start
    BY <1>2 DEF LedAcross
  <2>2. PICK y \in row.entities : y.label = label /\ LeadsAt(y, m - 1)
    BY <1>2 DEF LedBy
  <2>3. col[m].label = label /\ col[m].prefix = "I"
    BY <1>0, <2>1, LeaderTags
  <2>4. col[m - 1].label = label
    BY <1>0, <2>2, LeaderTags
  <2> QED BY <1>0, <2>3, <2>4 DEF Continues
<1> QED BY <1>1, <1>2

\* Tokens that go on with one another, the first of them tagged, lie in a run; it begins
\* before them if the first goes on with the token before, and ends behind them if the
\* next token goes on with the last.
LEMMA RunAround ==
    ASSUME row \in Rows, NEW m \in 1..Len(row.tokens), NEW n \in m..Len(row.tokens),
           GoldTags(row)[m].label \in Labels,
           \A q \in m + 1..n : Continues(GoldTags(row), q)
    PROVE  \E i \in 1..m : \E j \in n..Len(row.tokens) :
              /\ IsRun(GoldTags(row), i, j)
              /\ i < m <=> Continues(GoldTags(row), m)
              /\ n < j <=> n < Len(row.tokens) /\ Continues(GoldTags(row), n + 1)
<1> DEFINE col == GoldTags(row)
           L == Len(row.tokens)
           Before == {p \in 1..m : \A q \in p + 1..n : Continues(col, q)}
           Behind == {p \in n..L : \A q \in m + 1..p : Continues(col, q)}
<1>0. L \in Nat /\ Len(col) = L
  BY RowFacts DEF GoldTags
<1>1. PICK i \in Before : \A p \in Before : i <= p
  <2> DEFINE f == [p \in Before |-> p]
  <2>1. m \in Before /\ \A p \in Before : f[p] \in Nat
    OBVIOUS
  <2>2. \E i \in Before : \A p \in Before : f[i] <= f[p]
    <3> HIDE DEF Before, f
    <3> QED BY <2>1, LeastAt
  <2> QED BY <2>2
<1>2. PICK j \in Behind : \A p \in Behind : p <= j
  <2> DEFINE f == [p \in Behind |-> L - p]
  <2>1. n \in Behind /\ \A p \in Behind : f[p] \in Nat
    BY <1>0
  <2>2. PICK j \in Behind : \A p \in Behind : f[j] <= f[p]
    <3> HIDE DEF Behind, f
    <3> QED BY <2>1, LeastAt
  <2>3. \A p \in Behind : p \in Int /\ f[p] = L - p
    BY <1>0
  <2> HIDE DEF Behind, f
  <2>4. \A p \in Behind : p <= j
    BY <1>0, <2>2, <2>3
  <2> QED BY <2>4
<1>3. i \in 1..m /\ j \in n..L
  OBVIOUS
<1>4. ASSUME NEW q \in i + 1..j PROVE Continues(col, q)
  <2>1. q \in i + 1..n \/ q \in m + 1..j
    BY <1>0, <1>3
  <2> QED BY <2>1
<1>5. ~Continues(col, i)
  <2>1. SUFFICES ASSUME Continues(col, i) PROVE FALSE
    OBVIOUS
  <2>2. i > 1
    BY <2>1 DEF Continues
  <2>3. i - 1 \in 1..m
    BY <1>3, <2>2
  <2>4. ASSUME NEW q \in (i - 1) + 1..n PROVE Continues(col, q)
    <3>1. q = i \/ q \in i + 1..n
      BY <1>3
    <3> QED BY <3>1, <2>1
  <2>5. i - 1 \in Before
    BY <2>3, <2>4
  <2>6. i <= i - 1
    BY <1>1, <2>5
  <2> QED BY <1>3, <2>6
<1>6. j < L => ~Continues(col, j + 1)
  <2>1. SUFFICES ASSUME j < L, Continues(col, j + 1) PROVE FALSE
    OBVIOUS
  <2>2. j + 1 \in n..L
    BY <1>0, <1>3, <2>1
  <2>3. ASSUME NEW q \in m + 1..(j + 1) PROVE Continues(col, q)
    <3>1. q = j + 1 \/ q \in m + 1..j
      BY <1>3
    <3> QED BY <3>1, <2>1
  <2>4. j + 1 \in Behind
    BY <2>2, <2>3
  <2>5. j + 1 <= j
    BY <1>2, <2>4
  <2> QED BY <1>3, <2>5
<1>7. col[i].prefix # "O"
  <2>1. CASE i = m
    <3>1. Covering(row.entities, row.tokens[m]) # {}
      BY TagIs, DecodingAssumption DEF O
    <3> QED BY <2>1, <3>1, TagIs
  <2>2. CASE i < m
    <3>1. i + 1 \in i + 1..n /\ i + 1 \in 1..L /\ i \in 1..L /\ (i + 1) - 1 = i
      BY <1>0, <1>3, <2>2
    <3>2. Continues(col, i + 1)
      BY <3>1
    <3>3. col[i + 1].prefix = "I" /\ col[i + 1].label = col[i].label
      BY <3>1, <3>2 DEF Continues
    <3>4. Covering(row.entities, row.tokens[i + 1]) # {}
      BY <3>1, <3>3, TagIs DEF O
    <3>5. col[i].label \in Labels
      <4> DEFINE p == i + 1
                 C == Covering(row.entities, row.tokens[p])
      <4>1. C # {} => BestOf(C) \in C /\ col[p].label = BestOf(C).label
        BY <3>1, TagIs
      <4>2. \A y \in C : y.label \in Labels
        BY <3>1, CoveringFacts
      <4> HIDE DEF C
      <4>3. col[p].label \in Labels
        BY <3>4, <4>1, <4>2 DEF C
      <4> QED BY <3>3, <4>3
    <3>6. Covering(row.entities, row.tokens[i]) # {}
      BY <3>1, <3>5, TagIs, DecodingAssumption DEF O
    <3> QED BY <3>1, <3>6, TagIs
  <2> QED BY <1>3, <2>1, <2>2
<1>8. IsRun(col, i, j)
  BY <1>0, <1>4, <1>5, <1>6, <1>7 DEF IsRun, Begins
<1>9. i < m <=> Continues(col, m)
  <2>1. i < m => m \in i + 1..n
    BY <1>3
  <2> QED BY <1>3, <1>5, <2>1
<1>10. n < j <=> n < L /\ Continues(col, n + 1)
  <2>1. n < j => n + 1 \in m + 1..j /\ n < L
    BY <1>0, <1>3
  <2> QED BY <1>0, <1>3, <1>6, <2>1
<1> HIDE DEF Before, Behind
<1> QED BY <1>3, <1>8, <1>9, <1>10

\* Where tokens begin and end, one before the other.
LEMMA TokenOrder ==
    ASSUME row \in Rows, NEW i \in 1..Len(row.tokens), NEW j \in i..Len(row.tokens)
    PROVE  /\ row.tokens[i].start <= row.tokens[j].start /\ row.tokens[i].end <= row.tokens[j].end
           /\ i < j <=> row.tokens[i].start < row.tokens[j].start
           /\ i < j <=> row.tokens[i].end < row.tokens[j].end
<1>1. j \in 1..Len(row.tokens)
  BY RowFacts
<1>2. i < j => row.tokens[i].end <= row.tokens[j].start
  BY <1>1, RowFacts
<1>3. /\ row.tokens[i].start \in Nat /\ row.tokens[i].end \in Nat
      /\ row.tokens[i].start < row.tokens[i].end
  BY RowFacts
<1>4. /\ row.tokens[j].start \in Nat /\ row.tokens[j].end \in Nat
      /\ row.tokens[j].start < row.tokens[j].end
  BY <1>1, RowFacts
<1>5. CASE i = j
  BY <1>3, <1>5
<1>6. CASE i < j
  BY <1>2, <1>3, <1>4, <1>6
<1> QED BY <1>5, <1>6

\* The tokens that an entity leads, one behind the other, are in one gold span.
LEMMA EntityIsKept ==
    ASSUME row \in Rows, NEW x \in row.entities,
           NEW m \in 1..Len(row.tokens), NEW n \in m..Len(row.tokens),
           \A q \in m..n : LeadsAt(x, q)
    PROVE  \E g \in GoldSpans(row.entities, row.tokens) :
              /\ g.label = x.label
              /\ g.start <= row.tokens[m].start /\ row.tokens[n].end <= g.end
              /\ g.start < row.tokens[m].start
                    <=> m > 1 /\ x.start # row.tokens[m].start /\ LedBy(x.label, m - 1)
              /\ row.tokens[n].end < g.end
                    <=> n < Len(row.tokens) /\ LedAcross(x.label, n + 1)
<1> DEFINE T == row.tokens
           col == GoldTags(row)
           L == Len(T)
<1>0. L \in Nat /\ n \in 1..L /\ m \in m..n /\ n \in m..n
  BY RowFacts
<1>1. LeadsAt(x, m) /\ LeadsAt(x, n)
  BY <1>0
<1>2. x.label \in Labels /\ col[m].label = x.label
  BY <1>1, LeaderTags
<1>3. ASSUME NEW q \in m + 1..n PROVE Continues(col, q)
  <2>1. q \in 2..L /\ q \in m..n /\ q - 1 \in m..n /\ q - 1 \in 1..L /\ q \in 1..L
    BY <1>0
  <2>2. LeadsAt(x, q) /\ LeadsAt(x, q - 1)
    BY <2>1
  <2>3. x \in Covering(row.entities, T[q - 1])
    BY <2>2 DEF LeadsAt
  <2>4. x.start < T[q - 1].end /\ x.start \in Nat
    BY <2>1, <2>3, CoveringFacts
  <2>5. q - 1 < q => T[q - 1].end <= T[q].start
    BY <2>1, RowFacts
  <2>6. T[q - 1].end \in Nat /\ T[q].start \in Nat
    BY <2>1, RowFacts
  <2>7. x.start # T[q].start
    BY <2>1, <2>4, <2>5, <2>6
  <2>8. LedBy(x.label, q - 1) /\ LedAcross(x.label, q)
    BY <2>2, <2>7 DEF LedBy, LedAcross
  <2> QED BY <1>2, <2>1, <2>8, GoesOnBehind
<1>4. PICK i \in 1..m : \E j \in n..L :
          /\ IsRun(col, i, j)
          /\ i < m <=> Continues(col, m)
          /\ n < j <=> n < L /\ Continues(col, n + 1)
  BY <1>2, <1>3, RunAround
<1>5. PICK j \in n..L :
          /\ IsRun(col, i, j)
          /\ i < m <=> Continues(col, m)
          /\ n < j <=> n < L /\ Continues(col, n + 1)
  BY <1>4
<1>6. i \in 1..L /\ j \in i..L /\ m \in i..j /\ m \in i..L
  BY <1>0
<1> DEFINE g == Between(T, i, j, x.label)
<1>7. g \in GoldSpans(row.entities, T)
  <2>1. col[m].label = col[i].label
    BY <1>5, <1>6, RunLabel
  <2> QED BY <1>2, <1>5, <1>6, <2>1, SpansMember DEF GoldSpans, GoldTags
<1>8. g.start = T[i].start /\ g.end = T[j].end /\ g.label = x.label
  BY DEF Between
<1>9. T[i].start <= T[m].start /\ (i < m <=> T[i].start < T[m].start)
  BY <1>6, TokenOrder
<1>10. T[n].end <= T[j].end /\ (n < j <=> T[n].end < T[j].end)
  BY <1>0, TokenOrder
<1>11. Continues(col, m) <=> m > 1 /\ x.start # T[m].start /\ LedBy(x.label, m - 1)
  <2>1. CASE m = 1
    BY <2>1 DEF Continues
  <2>2. CASE m > 1
    <3>1. m \in 2..L
      BY <2>2, <1>0
    <3>2. ASSUME Continues(col, m) PROVE x.start # T[m].start /\ LedBy(x.label, m - 1)
      <4>1. PICK label \in Labels : LedBy(label, m - 1) /\ LedAcross(label, m)
        BY <3>1, <3>2, GoesOnBehind
      <4>2. PICK y \in row.entities : y.label = label /\ LeadsAt(y, m) /\ y.start # T[m].start
        BY <4>1 DEF LedAcross
      <4>3. y = x
        BY <1>1, <4>2, LeaderTags
      <4> QED BY <4>1, <4>2, <4>3
    <3>3. ASSUME x.start # T[m].start, LedBy(x.label, m - 1) PROVE Continues(col, m)
      <4>1. LedAcross(x.label, m)
        BY <1>1, <3>3 DEF LedAcross
      <4> QED BY <1>2, <3>1, <3>3, <4>1, GoesOnBehind
    <3> QED BY <2>2, <3>2, <3>3
  <2> QED BY <2>1, <2>2
<1>12. ASSUME n < L PROVE Continues(col, n + 1) <=> LedAcross(x.label, n + 1)
  <2>1. n + 1 \in 2..L /\ (n + 1) - 1 = n
    BY <1>0, <1>12
  <2>2. ASSUME Continues(col, n + 1) PROVE LedAcross(x.label, n + 1)
    <3>1. PICK label \in Labels : LedBy(label, (n + 1) - 1) /\ LedAcross(label, n + 1)
      BY <2>1, <2>2, GoesOnBehind
    <3>2. PICK y \in row.entities : y.label = label /\ LeadsAt(y, n)
      BY <2>1, <3>1 DEF LedBy
    <3>3. y = x
      BY <1>0, <1>1, <3>2, LeaderTags
    <3> QED BY <3>1, <3>2, <3>3
  <2>3. ASSUME LedAcross(x.label, n + 1) PROVE Continues(col, n + 1)
    <3>1. LedBy(x.label, (n + 1) - 1)
      BY <1>1, <2>1 DEF LedBy
    <3> QED BY <1>2, <2>1, <2>3, <3>1, GoesOnBehind
  <2> QED BY <2>2, <2>3
<1> HIDE DEF g
<1>13. g.start < T[m].start <=> m > 1 /\ x.start # T[m].start /\ LedBy(x.label, m - 1)
  BY <1>5, <1>8, <1>9, <1>11
<1>14. T[n].end < g.end <=> n < L /\ LedAcross(x.label, n + 1)
  BY <1>5, <1>8, <1>10, <1>12
<1> QED BY <1>7, <1>8, <1>9, <1>10, <1>13, <1>14

\* Two gold spans are one, or do not overlap.
LEMMA SpansApart ==
    ASSUME row \in Rows,
           NEW g \in GoldSpans(row.entities, row.tokens), NEW h \in GoldSpans(row.entities, row.tokens)
    PROVE  g = h \/ g.end <= h.start \/ h.end <= g.start
<1> DEFINE T == row.tokens
           col == GoldTags(row)
           L == Len(T)
           Run(s, i, j) == IsRun(col, i, j) /\ s = Between(T, i, j, col[i].label)
<1>0. L \in Nat /\ Len(col) = L
  BY RowFacts DEF GoldTags
<1>1. ASSUME NEW s \in GoldSpans(row.entities, T) PROVE \E i \in 1..L : \E j \in i..L : Run(s, i, j)
  <2>1. s \in SpansUpTo(T, col, L)
    BY <1>1 DEF GoldSpans, GoldTags
  <2> HIDE DEF T, col
  <2> QED BY ONLY <2>1, SpansMember
<1>2. PICK i \in 1..L : \E j \in i..L : Run(g, i, j)
  BY <1>1
<1>3. PICK j \in i..L : Run(g, i, j)
  BY <1>2
<1>4. PICK a \in 1..L : \E b \in a..L : Run(h, a, b)
  BY <1>1
<1>5. PICK b \in a..L : Run(h, a, b)
  BY <1>4
<1>6. j \in 1..L /\ b \in 1..L
  BY <1>0
<1>7. g.start = T[i].start /\ g.end = T[j].end /\ h.start = T[a].start /\ h.end = T[b].end
  BY <1>3, <1>5 DEF Between
<1>8. i < a => j < a
  <2>1. a \in i + 1..j => Continues(col, a)
    BY <1>3 DEF IsRun
  <2>2. ~Continues(col, a)
    BY <1>5 DEF IsRun, Begins
  <2> QED BY <2>1, <2>2
<1>9. a < i => b < i
  <2>1. i \in a + 1..b => Continues(col, i)
    BY <1>5 DEF IsRun
  <2>2. ~Continues(col, i)
    BY <1>3 DEF IsRun, Begins
  <2> QED BY <2>1, <2>2
<1>10. CASE i = a
  <2>1. j < b => j + 1 \in a + 1..b /\ j < L
    BY <1>0, <1>10
  <2>2. b < j => b + 1 \in i + 1..j /\ b < L
    BY <1>0, <1>10
  <2>3. ~(j < b)
    BY <1>0, <1>3, <1>5, <2>1 DEF IsRun
  <2>4. ~(b < j)
    BY <1>0, <1>3, <1>5, <2>2 DEF IsRun
  <2>5. j = b
    BY <1>6, <2>3, <2>4
  <2> QED BY <1>3, <1>5, <1>10, <2>5
<1>11. CASE i < a
  BY <1>6, <1>7, <1>8, <1>11, RowFacts
<1>12. CASE a < i
  BY <1>6, <1>7, <1>9, <1>12, RowFacts
<1> QED BY <1>10, <1>11, <1>12

\* The tokens of a gold span are led by entities of its label.
LEMMA SpanIsLed ==
    ASSUME row \in Rows, NEW g \in GoldSpans(row.entities, row.tokens)
    PROVE  \E m \in 1..Len(row.tokens) : \E n \in m..Len(row.tokens) :
              /\ g = Between(row.tokens, m, n, g.label)
              /\ \A q \in m..n : LedBy(g.label, q)
<1> DEFINE T == row.tokens
           col == GoldTags(row)
           L == Len(T)
<1>1. PICK i \in 1..L : \E j \in i..L : IsRun(col, i, j) /\ g = Between(T, i, j, col[i].label)
  BY SpansMember DEF GoldSpans, GoldTags
<1>2. PICK j \in i..L : IsRun(col, i, j) /\ g = Between(T, i, j, col[i].label)
  BY <1>1
<1>3. g.label = col[i].label
  BY <1>2 DEF Between
<1>4. ASSUME NEW q \in i..j PROVE LedBy(g.label, q)
  <2>1. q \in 1..L
    BY RowFacts
  <2>2. col[q].label = col[i].label /\ col[q].prefix # "O"
    BY <1>2, RunLabel
  <2>3. Covering(row.entities, T[q]) # {}
    BY <2>1, <2>2, TagIs DEF O
  <2>4. col[q].label \in Labels
    BY <2>1, <2>3, TagIs, CoveringFacts
  <2>5. PICK x \in row.entities : LeadsAt(x, q)
    BY <2>1, <2>4, TagOfLeader
  <2>6. x.label = col[q].label
    BY <2>1, <2>5, LeaderTags
  <2> QED BY <1>3, <2>2, <2>5, <2>6 DEF LedBy
<1> QED BY <1>2, <1>3, <1>4

LEMMA KeepsEntities == row \in Rows \cup {NoRow} => GoldKeepsEntities
<1>1. ASSUME row \in Rows PROVE GoldKeepsEntities
  <2>1. DOMAIN row.tokens = 1..Len(row.tokens)
    BY <1>1, RowFacts
  <2> QED BY <1>1, <2>1, EntityIsKept, SpansApart, SpanIsLed DEF GoldKeepsEntities
<1>2. ASSUME row = NoRow PROVE GoldKeepsEntities
  <2>1. row.entities = {} /\ row.tokens = <<>>
    BY <1>2 DEF NoRow
  <2>2. GoldSpans(row.entities, row.tokens) = {}
    <3>1. 1..Len(row.tokens) = {}
      BY <2>1
    <3> QED BY <3>1 DEF GoldSpans, SpansUpTo
  <2> QED BY <2>1, <2>2 DEF GoldKeepsEntities
<1> QED BY <1>1, <1>2

\* What token_labels_from_entities and canonical_gold_spans make of the entities of a
\* row: the tokens an entity leads lie in one gold span of its label, which goes beyond
\* them exactly where GoldKeepsEntities says; gold spans do not overlap, and come of
\* entities of their label throughout.  For every row of entities, however they
\* overlap, and every sequence of tokens that do not.
THEOREM EntitiesSurviveTagging == TaggingSpec => []GoldKeepsEntities
<1>1. TaggingInit => row \in Rows \cup {NoRow}
  BY DEF TaggingInit
<1>2. row \in Rows \cup {NoRow} /\ [Viterbi]_taggingVars => (row \in Rows \cup {NoRow})'
  BY DEF Viterbi, taggingVars
<1> QED BY <1>1, <1>2, KeepsEntities, PTL DEF TaggingSpec
-----------------------------------------------------------------------------
(* The Viterbi search                                                      *)

\* Some place of a row of numbers holds its greatest, and is the first to do so.
LEMMA ArgmaxIsGreatest ==
    ASSUME NEW K \in Nat \ {0}, NEW f \in [1..K -> Int]
    PROVE  Argmax(f) \in 1..K /\ \A j \in 1..K : f[j] <= f[Argmax(f)]
<1> DEFINE Leads(i, n) == \A j \in 1..n : f[j] < f[i] \/ (f[j] = f[i] /\ i <= j)
           S == {n \in Nat : \E i \in 1..n : Leads(i, n)}
<1>1. 1 \in S
  <2>1. 1 \in 1..1 /\ Leads(1, 1)
    OBVIOUS
  <2> QED BY <2>1
<1>2. ASSUME NEW n \in 2..K, n - 1 \in S PROVE n \in S
  <2>1. PICK i \in 1..n - 1 : Leads(i, n - 1)
    BY <1>2
  <2>2. i \in 1..n /\ n \in 1..n /\ f[i] \in Int /\ f[n] \in Int /\ i < n
    BY <1>2
  <2>3. \A j \in 1..n : f[j] \in Int /\ (j \in 1..n - 1 \/ j = n)
    BY <1>2
  <2>4. CASE f[n] <= f[i]
    <3>1. Leads(i, n)
      BY <2>1, <2>2, <2>3, <2>4
    <3> QED BY <2>2, <3>1
  <2>5. CASE f[i] < f[n]
    <3>1. Leads(n, n)
      BY <2>1, <2>2, <2>3, <2>5
    <3> QED BY <2>2, <3>1
  <2> QED BY <2>2, <2>4, <2>5
<1>3. \A n \in 1..K : n \in S
  <2> HIDE DEF S
  <2> QED BY <1>1, <1>2, InductionUpTo
<1>4. \E i \in 1..K : Leads(i, K)
  <2>1. K \in 1..K
    OBVIOUS
  <2>2. K \in S
    BY <1>3, <2>1
  <2> QED BY <2>2
<1>5. Argmax(f) \in 1..K /\ Leads(Argmax(f), K)
  BY <1>4 DEF Argmax
<1>6. ASSUME NEW j \in 1..K PROVE f[j] <= f[Argmax(f)]
  <2>1. f[j] \in Int /\ f[Argmax(f)] \in Int
    BY <1>5
  <2> QED BY <1>5, <2>1
<1> QED BY <1>5, <1>6

\* What leads on from each of N values to the next.
Links(N, S) == [1..N -> [S -> S]]

\* A chain of N values, each of which is made from the one before.
LEMMA Chain ==
    ASSUME NEW S, NEW N \in Nat, NEW first \in S, NEW G \in Links(N, S)
    PROVE  \E f \in [1..N -> S] : \A t \in 1..N : f[t] = IF t = 1 THEN first ELSE G[t][f[t - 1]]
<1> DEFINE Made(f, n) == \A t \in 1..n : f[t] = IF t = 1 THEN first ELSE G[t][f[t - 1]]
           P == {n \in Nat : n <= N => \E f \in [1..n -> S] : Made(f, n)}
<1>1. 0 \in P
  <2>1. [t \in 1..0 |-> first] \in [1..0 -> S] /\ Made([t \in 1..0 |-> first], 0)
    OBVIOUS
  <2> QED BY <2>1
<1>2. ASSUME NEW n \in Nat, n \in P PROVE n + 1 \in P
  <2>1. SUFFICES ASSUME n + 1 <= N PROVE \E f \in [1..n + 1 -> S] : Made(f, n + 1)
    OBVIOUS
  <2>2. PICK f \in [1..n -> S] : Made(f, n)
    BY <1>2, <2>1
  <2> DEFINE next == IF n = 0 THEN first ELSE G[n + 1][f[n]]
             g == [t \in 1..n + 1 |-> IF t = n + 1 THEN next ELSE f[t]]
  <2>3. next \in S
    <3>1. n # 0 => f[n] \in S /\ G[n + 1] \in [S -> S]
      BY <2>1 DEF Links
    <3> QED BY <3>1
  <2>4. g \in [1..n + 1 -> S]
    BY <2>3
  <2>5. ASSUME NEW t \in 1..n + 1 PROVE g[t] = IF t = 1 THEN first ELSE G[t][g[t - 1]]
    <3>1. CASE t = n + 1
      <4>1. g[t] = next /\ (n # 0 => g[t - 1] = f[n])
        BY <3>1
      <4> QED BY <3>1, <4>1
    <3>2. CASE t # n + 1
      <4>1. t \in 1..n /\ g[t] = f[t] /\ (t # 1 => g[t - 1] = f[t - 1])
        BY <3>2
      <4> QED BY <2>2, <4>1
    <3> QED BY <3>1, <3>2
  <2> HIDE DEF g
  <2> QED BY <2>4, <2>5
<1>3. \A n \in Nat : n \in P
  <2> HIDE DEF P
  <2> QED BY <1>1, <1>2, Induction
<1> QED BY <1>3

LEMMA ChainOfNumbers ==
    ASSUME NEW N \in Nat, NEW first \in Int, NEW G \in Links(N, Int)
    PROVE  \E f \in [1..N -> Int] : \A t \in 1..N : f[t] = IF t = 1 THEN first ELSE G[t][f[t - 1]]
<1> DEFINE S == Int
<1>1. first \in S /\ G \in Links(N, S)
  OBVIOUS
<1> HIDE DEF S
<1>2. \E f \in [1..N -> S] : \A t \in 1..N : f[t] = IF t = 1 THEN first ELSE G[t][f[t - 1]]
  BY <1>1, Chain
<1> QED BY <1>2 DEF S

\* The parameters of a network and the scores of a window.
Weighed ==
    /\ crf \in [first : [1..NumTags -> Int], last : [1..NumTags -> Int],
                trans : [1..NumTags -> [1..NumTags -> Int]]]
    /\ scores \in Seq([1..NumTags -> Int])

LEMMA WeighedFacts ==
    ASSUME Weighed
    PROVE  /\ NumTags \in Nat \ {0}
           /\ Len(scores) \in Nat /\ DOMAIN scores = 1..Len(scores)
           /\ \A t \in 1..Len(scores) : scores[t] \in [1..NumTags -> Int]
           /\ DOMAIN crf.first = 1..NumTags /\ DOMAIN crf.last = 1..NumTags
           /\ crf.first \in [1..NumTags -> Int] /\ crf.last \in [1..NumTags -> Int]
           /\ \A i \in 1..NumTags : crf.trans[i] \in [1..NumTags -> Int]
<1>1. NumTags \in Nat \ {0}
  BY TaggingAssumption
<1>2. scores \in Seq([1..NumTags -> Int])
  BY DEF Weighed
<1>3. \A t \in 1..Len(scores) : scores[t] \in [1..NumTags -> Int]
  BY <1>2, TokenOf
<1>4. Len(scores) \in Nat /\ DOMAIN scores = 1..Len(scores)
  BY <1>2
<1> QED BY <1>1, <1>3, <1>4 DEF Weighed

Scores == [1..NumTags -> Int]

LEMMA IntoIs ==
    ASSUME Weighed, NEW v \in Scores, NEW j \in 1..NumTags
    PROVE  /\ Into(v, j) \in [1..NumTags -> Int]
           /\ \A i \in 1..NumTags : Into(v, j)[i] = v[i] + crf.trans[i][j]
<1>1. \A i \in 1..NumTags : v[i] \in Int /\ crf.trans[i][j] \in Int
  BY WeighedFacts DEF Scores
<1> QED BY <1>1 DEF Into, Scores

\* One step of the search: the best way to each tag.
Onward(v, t) == [j \in 1..NumTags |-> Into(v, j)[Argmax(Into(v, j))] + scores[t][j]]

LEMMA OnwardIsScores ==
    ASSUME Weighed, NEW v \in Scores, NEW t \in 1..Len(scores)
    PROVE  Onward(v, t) \in Scores
<1>1. ASSUME NEW j \in 1..NumTags PROVE Into(v, j)[Argmax(Into(v, j))] + scores[t][j] \in Int
  <2>1. Into(v, j) \in [1..NumTags -> Int]
    BY IntoIs
  <2>2. Argmax(Into(v, j)) \in 1..NumTags
    BY <2>1, WeighedFacts, ArgmaxIsGreatest
  <2>3. scores[t][j] \in Int
    BY WeighedFacts
  <2> QED BY <2>1, <2>2, <2>3
<1> QED BY <1>1 DEF Onward, Scores

\* The table is the one its recursion describes.
LEMMA TableIs ==
    ASSUME Weighed, scores # <<>>
    PROVE  /\ V \in [1..Len(scores) -> Scores]
           /\ V[1] = [j \in 1..NumTags |-> crf.first[j] + scores[1][j]]
           /\ \A t \in 2..Len(scores) : V[t] = Onward(V[t - 1], t)
<1> DEFINE N == Len(scores)
           first == [j \in 1..NumTags |-> crf.first[j] + scores[1][j]]
           G == [t \in 1..N |-> [v \in Scores |-> Onward(v, t)]]
           Body(f) == [t \in DOMAIN scores |->
                         [j \in DOMAIN crf.first |->
                            IF t = 1 THEN crf.first[j] + scores[1][j]
                            ELSE LET into == Into(f[t - 1], j) IN into[Argmax(into)] + scores[t][j]]]
<1>1. N \in Nat \ {0}
  BY WeighedFacts
<1>2. first \in Scores
  <2>1. \A j \in 1..NumTags : crf.first[j] \in Int /\ scores[1][j] \in Int
    BY <1>1, WeighedFacts
  <2> QED BY <2>1 DEF Scores
<1>3. G \in Links(N, Scores)
  BY OnwardIsScores DEF Links
<1>4. \E f \in [1..N -> Scores] : \A t \in 1..N : f[t] = IF t = 1 THEN first ELSE G[t][f[t - 1]]
  <2>1. N \in Nat
    BY <1>1
  <2> HIDE DEF first, G, N
  <2> QED BY ONLY <2>1, <1>2, <1>3, Chain
<1>5. PICK f \in [1..N -> Scores] : \A t \in 1..N : f[t] = IF t = 1 THEN first ELSE G[t][f[t - 1]]
  BY <1>4
<1>6. \A g : \A t \in 1..N :
         Body(g)[t] = IF t = 1 THEN first ELSE Onward(g[t - 1], t)
  BY WeighedFacts DEF Onward
<1>7. ASSUME NEW t \in 1..N, t # 1 PROVE f[t] = Onward(f[t - 1], t)
  <2>1. t - 1 \in 1..N /\ f[t - 1] \in Scores
    BY <1>7
  <2>2. G[t][f[t - 1]] = Onward(f[t - 1], t)
    BY <2>1
  <2> QED BY <1>5, <1>7, <2>2
<1>8. ASSUME NEW t \in 1..N PROVE f[t] = Body(f)[t]
  <2>1. f[t] = IF t = 1 THEN first ELSE Onward(f[t - 1], t)
    BY <1>5, <1>7
  <2>2. Body(f)[t] = IF t = 1 THEN first ELSE Onward(f[t - 1], t)
    BY <1>6
  <2> HIDE DEF Body, first
  <2> QED BY <2>1, <2>2
<1>9. f = Body(f)
  <2>1. DOMAIN f = 1..N /\ f = [t \in 1..N |-> f[t]]
    OBVIOUS
  <2>2. DOMAIN Body(f) = 1..N /\ Body(f) = [t \in 1..N |-> Body(f)[t]]
    BY WeighedFacts
  <2> HIDE DEF Body
  <2> QED BY <1>8, <2>1, <2>2
<1>10. V = Body(V)
  BY <1>9 DEF V
<1> DEFINE P == {t \in 1..N : V[t] \in Scores}
<1> HIDE DEF Body, first
<1>11. \A t \in 1..N : V[t] = IF t = 1 THEN first ELSE Onward(V[t - 1], t)
  BY <1>6, <1>10
<1>12. 1 \in P /\ V[1] = first
  BY <1>1, <1>2, <1>11
<1>13. ASSUME NEW t \in 2..N PROVE V[t] = Onward(V[t - 1], t)
  <2>1. t \in 1..N /\ t # 1
    BY <1>1
  <2> QED BY <1>11, <2>1
<1>14. ASSUME NEW t \in 2..N, t - 1 \in P PROVE t \in P
  <2>1. t \in 1..N /\ V[t - 1] \in Scores
    BY <1>14
  <2> QED BY <1>13, <2>1, OnwardIsScores
<1>15. ASSUME NEW t \in 1..N PROVE V[t] \in Scores
  <2>1. N \in Nat
    BY <1>1
  <2> HIDE DEF P
  <2>2. \A u \in 1..N : u \in P
    BY <2>1, <1>12, <1>14, InductionUpTo
  <2> QED BY <2>2 DEF P
<1>16. V \in [1..N -> Scores]
  <2>1. DOMAIN V = 1..N /\ V = [t \in 1..N |-> V[t]]
    BY <1>10, WeighedFacts DEF Body
  <2> QED BY <1>15, <2>1
<1> QED BY <1>12, <1>13, <1>16 DEF first

\* The path is the one its recursion describes.
LEMMA PathIs ==
    ASSUME Weighed, scores # <<>>
    PROVE  /\ PathFrom \in [1..Len(scores) -> 1..NumTags]
           /\ PathFrom[Len(scores)] = Argmax([j \in 1..NumTags |-> V[Len(scores)][j] + crf.last[j]])
           /\ \A t \in 1..Len(scores) - 1 : PathFrom[t] = Back(t + 1, PathFrom[t + 1])
<1> DEFINE N == Len(scores)
           lastTag == Argmax([j \in 1..NumTags |-> V[N][j] + crf.last[j]])
           G == [u \in 1..N |-> [j \in 1..NumTags |-> IF u = 1 THEN 1 ELSE Back(N + 2 - u, j)]]
           Body(g) == [t \in DOMAIN scores |->
                         IF t = Len(scores)
                         THEN Argmax([j \in DOMAIN crf.last |-> V[t][j] + crf.last[j]])
                         ELSE Back(t + 1, g[t + 1])]
<1>1. N \in Nat \ {0} /\ NumTags \in Nat \ {0}
  BY WeighedFacts
<1>0. DOMAIN scores = 1..N /\ DOMAIN crf.last = 1..NumTags
  BY WeighedFacts
<1>2. lastTag \in 1..NumTags
  <2>1. V[N] \in Scores
    BY <1>1, TableIs
  <2>2. \A j \in 1..NumTags : V[N][j] \in Int /\ crf.last[j] \in Int
    BY <2>1, WeighedFacts DEF Scores
  <2>3. [j \in 1..NumTags |-> V[N][j] + crf.last[j]] \in [1..NumTags -> Int]
    BY <2>2
  <2> QED BY <1>1, <2>3, ArgmaxIsGreatest
<1>3. ASSUME NEW t \in 2..N, NEW j \in 1..NumTags PROVE Back(t, j) \in 1..NumTags
  <2>1. V[t - 1] \in Scores
    BY <1>1, TableIs
  <2>2. Into(V[t - 1], j) \in [1..NumTags -> Int]
    BY <2>1, IntoIs
  <2> QED BY <1>1, <2>2, ArgmaxIsGreatest DEF Back
<1>4. G \in [1..N -> [1..NumTags -> 1..NumTags]]
  <2>1. ASSUME NEW u \in 1..N, NEW j \in 1..NumTags, u # 1
        PROVE  Back(N + 2 - u, j) \in 1..NumTags
    <3>1. N + 2 - u \in 2..N
      BY <1>1, <2>1
    <3> QED BY <1>3, <3>1
  <2>2. 1 \in 1..NumTags
    BY <1>1
  <2> QED BY <2>1, <2>2
<1>5. \E f \in [1..N -> 1..NumTags] : \A u \in 1..N : f[u] = IF u = 1 THEN lastTag ELSE G[u][f[u - 1]]
  <2> DEFINE S == 1..NumTags
  <2>1. lastTag \in S /\ G \in Links(N, S) /\ N \in Nat
    BY <1>1, <1>2, <1>4 DEF Links
  <2> HIDE DEF lastTag, G, S, N
  <2>2. \E f \in [1..N -> S] : \A u \in 1..N : f[u] = IF u = 1 THEN lastTag ELSE G[u][f[u - 1]]
    BY ONLY <2>1, Chain
  <2> QED BY <2>2 DEF S
<1>6. PICK f \in [1..N -> 1..NumTags] : \A u \in 1..N : f[u] = IF u = 1 THEN lastTag ELSE G[u][f[u - 1]]
  BY <1>5
<1> DEFINE g == [t \in 1..N |-> f[N + 1 - t]]
<1>7. \A h : \A t \in 1..N : Body(h)[t] = IF t = N THEN lastTag ELSE Back(t + 1, h[t + 1])
  BY <1>0
<1>8. ASSUME NEW t \in 1..N PROVE g[t] = Body(g)[t]
  <2>1. CASE t = N
    <3>1. N + 1 - t = 1 /\ 1 \in 1..N
      BY <1>1, <2>1
    <3>2. g[t] = f[1]
      BY <3>1
    <3>3. f[1] = lastTag
      BY <1>6, <3>1
    <3> QED BY <1>7, <2>1, <3>2, <3>3
  <2>2. CASE t # N
    <3> DEFINE u == N + 1 - t
    <3>1. u \in 2..N /\ u \in 1..N /\ u # 1 /\ t + 1 \in 1..N /\ N + 1 - (t + 1) = u - 1 /\ N + 2 - u = t + 1
      BY <1>1, <2>2
    <3>2. g[t] = f[u] /\ g[t + 1] = f[u - 1] /\ f[u - 1] \in 1..NumTags
      BY <3>1
    <3>3. f[u] = G[u][f[u - 1]]
      BY <1>6, <3>1
    <3>4. G[u][f[u - 1]] = Back(t + 1, f[u - 1])
      BY <3>1, <3>2
    <3> QED BY <1>7, <2>2, <3>2, <3>3, <3>4
  <2> QED BY <2>1, <2>2
<1>9. g = Body(g)
  <2>1. g = [t \in 1..N |-> g[t]]
    OBVIOUS
  <2>2. DOMAIN Body(g) = 1..N
    BY <1>0
  <2>3. Body(g) = [t \in DOMAIN Body(g) |-> Body(g)[t]]
    OBVIOUS
  <2> HIDE DEF Body, g
  <2> QED BY <1>8, <2>1, <2>2, <2>3
<1>10. PathFrom = Body(PathFrom)
  <2> HIDE DEF g
  <2> QED BY <1>9 DEF PathFrom
<1> DEFINE P == {u \in 1..N : PathFrom[N + 1 - u] \in 1..NumTags}
<1> HIDE DEF Body, lastTag
<1>11. \A t \in 1..N : PathFrom[t] = IF t = N THEN lastTag ELSE Back(t + 1, PathFrom[t + 1])
  BY <1>7, <1>10
<1>12. PathFrom[N] = lastTag
  BY <1>1, <1>11
<1>13. ASSUME NEW t \in 1..N - 1 PROVE PathFrom[t] = Back(t + 1, PathFrom[t + 1])
  <2>1. t \in 1..N /\ t # N
    BY <1>1
  <2> QED BY <1>11, <2>1
<1>14. 1 \in P
  <2>1. 1 \in 1..N /\ N + 1 - 1 = N
    BY <1>1
  <2> QED BY <1>2, <1>12, <2>1
<1>15. ASSUME NEW u \in 2..N, u - 1 \in P PROVE u \in P
  <2> DEFINE t == N + 1 - u
  <2>1. t \in 1..N - 1 /\ N + 1 - (u - 1) = t + 1 /\ t + 1 \in 2..N /\ u \in 1..N
    BY <1>1
  <2>2. PathFrom[t + 1] \in 1..NumTags
    BY <1>15, <2>1
  <2>3. PathFrom[t] = Back(t + 1, PathFrom[t + 1])
    BY <1>13, <2>1
  <2> QED BY <1>3, <2>1, <2>2, <2>3
<1>16. ASSUME NEW t \in 1..N PROVE PathFrom[t] \in 1..NumTags
  <2>1. N \in Nat
    BY <1>1
  <2>2. \A u \in 1..N : u \in P
    <3> HIDE DEF P
    <3> QED BY <2>1, <1>14, <1>15, InductionUpTo
  <2>3. N + 1 - t \in 1..N /\ N + 1 - (N + 1 - t) = t
    BY <1>1
  <2>4. N + 1 - t \in P
    BY <2>2, <2>3
  <2> QED BY <2>3, <2>4
<1>17. PathFrom \in [1..N -> 1..NumTags]
  <2>1. DOMAIN PathFrom = 1..N /\ PathFrom = [t \in DOMAIN PathFrom |-> PathFrom[t]]
    BY <1>0, <1>10 DEF Body
  <2> QED BY <1>16, <2>1
<1> QED BY <1>12, <1>13, <1>17 DEF lastTag

\* The scores of a path's beginnings.
LEMMA ScoreIs ==
    ASSUME Weighed, scores # <<>>, NEW p \in [1..Len(scores) -> 1..NumTags]
    PROVE  /\ Score(p) \in [1..Len(scores) -> Int]
           /\ Score(p)[1] = crf.first[p[1]] + scores[1][p[1]]
           /\ \A t \in 2..Len(scores) :
                Score(p)[t] = Score(p)[t - 1] + crf.trans[p[t - 1]][p[t]] + scores[t][p[t]]
<1> DEFINE N == Len(scores)
           first == crf.first[p[1]] + scores[1][p[1]]
           Gain(t) == crf.trans[p[t - 1]][p[t]]
           G == [t \in 1..N |-> [v \in Int |-> IF t = 1 THEN v ELSE v + Gain(t) + scores[t][p[t]]]]
           Body(f) == [t \in DOMAIN p |->
                         IF t = 1 THEN crf.first[p[1]] + scores[1][p[1]]
                         ELSE f[t - 1] + crf.trans[p[t - 1]][p[t]] + scores[t][p[t]]]
<1>1. N \in Nat \ {0}
  BY WeighedFacts
<1>2. first \in Int
  <2>1. p[1] \in 1..NumTags /\ 1 \in 1..N
    BY <1>1
  <2>2. crf.first[p[1]] \in Int
    BY <2>1, WeighedFacts
  <2>3. scores[1][p[1]] \in Int
    BY <2>1, WeighedFacts
  <2> QED BY <2>2, <2>3
<1>3. ASSUME NEW t \in 2..N PROVE Gain(t) \in Int /\ scores[t][p[t]] \in Int
  <2>1. t \in 1..N /\ t - 1 \in 1..N
    BY <1>1
  <2>2. p[t] \in 1..NumTags /\ p[t - 1] \in 1..NumTags
    BY <2>1
  <2> QED BY <2>1, <2>2, WeighedFacts
<1> HIDE DEF Gain
<1>4. G \in Links(N, Int)
  BY <1>1, <1>3 DEF Links
<1>5. \E f \in [1..N -> Int] : \A t \in 1..N : f[t] = IF t = 1 THEN first ELSE G[t][f[t - 1]]
  <2>1. N \in Nat
    BY <1>1
  <2> HIDE DEF first, G, N
  <2> QED BY <2>1, <1>2, <1>4, ChainOfNumbers
<1>6. PICK f \in [1..N -> Int] : \A t \in 1..N : f[t] = IF t = 1 THEN first ELSE G[t][f[t - 1]]
  BY <1>5
<1>7. \A g : \A t \in 1..N :
         Body(g)[t] = IF t = 1 THEN first ELSE g[t - 1] + Gain(t) + scores[t][p[t]]
  BY DEF Gain
<1>8. ASSUME NEW t \in 1..N PROVE f[t] = Body(f)[t]
  <2>1. t # 1 => t - 1 \in 1..N /\ f[t - 1] \in Int
    BY <1>1
  <2>2. t # 1 => G[t][f[t - 1]] = f[t - 1] + Gain(t) + scores[t][p[t]]
    BY <2>1
  <2>3. f[t] = IF t = 1 THEN first ELSE f[t - 1] + Gain(t) + scores[t][p[t]]
    BY <1>6, <2>2
  <2> HIDE DEF Body, first
  <2> QED BY <1>7, <2>3
<1>9. f = Body(f)
  <2>1. f = [t \in 1..N |-> f[t]]
    OBVIOUS
  <2>2. Body(f) = [t \in 1..N |-> Body(f)[t]]
    OBVIOUS
  <2> HIDE DEF Body
  <2> QED BY <1>8, <2>1, <2>2
<1>10. Score(p) = Body(Score(p))
  BY <1>9 DEF Score
<1> DEFINE P == {t \in 1..N : Score(p)[t] \in Int}
<1> HIDE DEF Body, first
<1>11. \A t \in 1..N : Score(p)[t] = IF t = 1 THEN first ELSE Score(p)[t - 1] + Gain(t) + scores[t][p[t]]
  BY <1>7, <1>10
<1>12. 1 \in P /\ Score(p)[1] = first
  BY <1>1, <1>2, <1>11
<1>13. ASSUME NEW t \in 2..N PROVE Score(p)[t] = Score(p)[t - 1] + Gain(t) + scores[t][p[t]]
  <2>1. t \in 1..N /\ t # 1
    BY <1>1
  <2> QED BY <1>11, <2>1
<1>14. ASSUME NEW t \in 2..N, t - 1 \in P PROVE t \in P
  <2>1. t \in 1..N /\ Score(p)[t - 1] \in Int
    BY <1>14
  <2> QED BY <1>3, <1>13, <2>1
<1>15. ASSUME NEW t \in 1..N PROVE Score(p)[t] \in Int
  <2>1. N \in Nat
    BY <1>1
  <2>2. \A u \in 1..N : u \in P
    <3> HIDE DEF P
    <3> QED BY <2>1, <1>12, <1>14, InductionUpTo
  <2> QED BY <2>2
<1>16. Score(p) \in [1..N -> Int]
  <2>1. DOMAIN Score(p) = 1..N /\ Score(p) = [t \in DOMAIN Score(p) |-> Score(p)[t]]
    BY <1>10 DEF Body
  <2> QED BY <1>15, <2>1
<1> QED BY <1>12, <1>13, <1>16 DEF first, Gain

\* No way to a tag is better than the one in the table.
LEMMA TableBounds ==
    ASSUME Weighed, scores # <<>>, NEW q \in [1..Len(scores) -> 1..NumTags]
    PROVE  \A t \in 1..Len(scores) : Score(q)[t] <= V[t][q[t]]
<1> DEFINE N == Len(scores)
           P == {t \in 1..N : Score(q)[t] <= V[t][q[t]]}
<1>1. N \in Nat \ {0} /\ NumTags \in Nat \ {0} /\ 1 \in 1..N
  BY WeighedFacts
<1>2. 1 \in P
  <2>1. q[1] \in 1..NumTags
    BY <1>1
  <2>2. V[1][q[1]] = crf.first[q[1]] + scores[1][q[1]]
    BY <2>1, TableIs
  <2>3. Score(q)[1] = V[1][q[1]]
    BY <2>2, ScoreIs
  <2>4. Score(q)[1] \in Int
    BY <1>1, ScoreIs
  <2> QED BY <1>1, <2>3, <2>4
<1>3. ASSUME NEW t \in 2..N, t - 1 \in P PROVE t \in P
  <2> DEFINE s == t - 1
             i == q[s]
             j == q[t]
             into == Into(V[s], j)
  <2>2. s \in 1..N /\ t \in 1..N /\ i \in 1..NumTags /\ j \in 1..NumTags
    BY <1>1
  <2>3. Score(q)[s] <= V[s][i]
    BY <1>3
  <2>4. Score(q)[t] = Score(q)[s] + crf.trans[i][j] + scores[t][j]
    BY <2>2, ScoreIs
  <2>5. V[t] = Onward(V[s], t) /\ V[s] \in Scores
    BY <2>2, TableIs
  <2>6. V[t][j] = into[Argmax(into)] + scores[t][j]
    BY <2>2, <2>5 DEF Onward
  <2>7. into \in [1..NumTags -> Int] /\ into[i] = V[s][i] + crf.trans[i][j]
    BY <2>2, <2>5, IntoIs
  <2>8. into[i] <= into[Argmax(into)] /\ Argmax(into) \in 1..NumTags
    <3> HIDE DEF into, i
    <3> QED BY <1>1, <2>2, <2>7, ArgmaxIsGreatest
  <2>9. into[i] \in Int /\ into[Argmax(into)] \in Int
    <3> HIDE DEF into, i
    <3> QED BY <2>2, <2>7, <2>8
  <2>10. /\ Score(q)[s] \in Int /\ V[s][i] \in Int /\ crf.trans[i][j] \in Int /\ scores[t][j] \in Int
    BY <2>2, <2>5, ScoreIs, WeighedFacts DEF Scores
  <2> DEFINE a == Score(q)[s]
             b == V[s][i]
             d == crf.trans[i][j]
             e == scores[t][j]
             m == into[Argmax(into)]
  <2>11. a + d + e <= m + e
    <3>1. a <= b /\ b + d <= m /\ a \in Int /\ b \in Int /\ d \in Int /\ e \in Int /\ m \in Int
      BY <2>3, <2>7, <2>8, <2>9, <2>10
    <3> HIDE DEF a, b, d, e, m
    <3> QED BY ONLY <3>1
  <2> QED BY <2>2, <2>4, <2>6, <2>11
<1>4. \A t \in 1..N : t \in P
  <2>1. N \in Nat
    BY <1>1
  <2> HIDE DEF P
  <2> QED BY <2>1, <1>2, <1>3, InductionUpTo
<1> QED BY <1>4

\* The pointers lead along a way as good as the table says.
LEMMA PointersAttain ==
    ASSUME Weighed, scores # <<>>
    PROVE  \A t \in 1..Len(scores) : Score(PathFrom)[t] = V[t][PathFrom[t]]
<1> DEFINE N == Len(scores)
           q == PathFrom
           P == {t \in 1..N : Score(q)[t] = V[t][q[t]]}
<1>1. N \in Nat \ {0} /\ 1 \in 1..N /\ q \in [1..N -> 1..NumTags]
  BY WeighedFacts, PathIs
<1>2. 1 \in P
  <2>1. q[1] \in 1..NumTags
    BY <1>1
  <2>2. V[1][q[1]] = crf.first[q[1]] + scores[1][q[1]]
    BY <2>1, TableIs
  <2>3. Score(q)[1] = V[1][q[1]]
    BY <1>1, <2>2, ScoreIs
  <2> QED BY <1>1, <2>3
<1>3. ASSUME NEW t \in 2..N, t - 1 \in P PROVE t \in P
  <2> DEFINE s == t - 1
             i == q[s]
             j == q[t]
             into == Into(V[s], j)
  <2>2. s \in 1..N /\ s \in 1..N - 1 /\ t \in 1..N /\ s + 1 = t
    BY <1>1
  <2>3. i \in 1..NumTags /\ j \in 1..NumTags
    BY <1>1, <2>2
  <2>4. Score(q)[s] = V[s][i]
    BY <1>3
  <2>5. Score(q)[t] = Score(q)[s] + crf.trans[i][j] + scores[t][j]
    BY <1>1, <2>2, ScoreIs
  <2>6. V[t] = Onward(V[s], t) /\ V[s] \in Scores
    BY <2>2, TableIs
  <2>7. V[t][j] = into[Argmax(into)] + scores[t][j]
    BY <2>3, <2>6 DEF Onward
  <2>8. i = Argmax(into)
    BY <2>2, PathIs DEF Back
  <2>9. into[i] = V[s][i] + crf.trans[i][j]
    BY <2>3, <2>6, IntoIs
  <2>10. Score(q)[t] = V[t][j]
    <3> HIDE DEF into, i, j
    <3> QED BY <2>4, <2>5, <2>7, <2>8, <2>9
  <2> QED BY <2>2, <2>10
<1>4. \A t \in 1..N : t \in P
  <2>1. N \in Nat
    BY <1>1
  <2> HIDE DEF P
  <2> QED BY <2>1, <1>2, <1>3, InductionUpTo
<1> QED BY <1>4

LEMMA PathIsBest ==
    ASSUME Weighed, scores # <<>>, NEW q \in [1..Len(scores) -> 1..NumTags]
    PROVE  Total(q) <= Total(PathFrom)
<1> DEFINE N == Len(scores)
           sums == [j \in 1..NumTags |-> V[N][j] + crf.last[j]]
           z == PathFrom[N]
<1>1. N \in 1..N /\ NumTags \in Nat \ {0} /\ q[N] \in 1..NumTags
  BY WeighedFacts
<1>2. PathFrom \in [1..N -> 1..NumTags] /\ z = Argmax(sums)
  BY PathIs
<1>3. \A j \in 1..NumTags : V[N][j] \in Int /\ crf.last[j] \in Int
  <2>1. V[N] \in Scores
    BY <1>1, TableIs
  <2> QED BY <2>1, WeighedFacts DEF Scores
<1>4. sums \in [1..NumTags -> Int]
  BY <1>3
<1>5. z \in 1..NumTags /\ sums[q[N]] <= sums[z]
  <2> HIDE DEF sums, z
  <2> QED BY <1>1, <1>2, <1>4, ArgmaxIsGreatest
<1>6. Len(q) = N /\ Len(PathFrom) = N
  BY <1>1, <1>2, WeighedFacts
<1>7. Score(q)[N] <= V[N][q[N]] /\ Score(q)[N] \in Int
  BY <1>1, TableBounds, ScoreIs
<1>8. Score(PathFrom)[N] = V[N][z]
  BY <1>1, PointersAttain
<1>9. Score(q)[N] + crf.last[q[N]] <= Score(PathFrom)[N] + crf.last[z]
  <2>1. V[N][q[N]] + crf.last[q[N]] <= V[N][z] + crf.last[z]
    BY <1>1, <1>5
  <2>2. /\ V[N][q[N]] \in Int /\ crf.last[q[N]] \in Int /\ V[N][z] \in Int /\ crf.last[z] \in Int
    BY <1>1, <1>3, <1>5
  <2> QED BY <1>7, <1>8, <2>1, <2>2
<1> QED BY <1>6, <1>9 DEF Total

\* The scores are not changed, and the path is empty or the one of the pointers.
PathInv ==
    /\ Weighed
    /\ path # <<>> => scores # <<>> /\ path = PathFrom

\* The path that BiLSTMCRF.decode returns has the highest score of all sequences of
\* tags, for every number of tags, every text and every weight and score.
THEOREM ViterbiIsOptimal == TaggingSpec => []BestPath
<1>1. TaggingInit => PathInv
  BY TaggingAssumption DEF TaggingInit, PathInv, Weighed
<1>2. ASSUME PathInv, [Viterbi]_taggingVars PROVE PathInv'
  <2>1. CASE Viterbi
    <3>1. crf' = crf /\ scores' = scores /\ scores # <<>> /\ path' = [t \in DOMAIN scores |-> PathFrom[t]]
      BY <2>1 DEF Viterbi
    <3>2. Weighed
      BY <1>2 DEF PathInv
    <3>3. path' = PathFrom
      BY <3>1, <3>2, WeighedFacts, PathIs
    <3>4. PathFrom' = PathFrom
      <4>1. V' = V
        BY <3>1 DEF V, Into
      <4> QED BY <3>1, <4>1 DEF PathFrom, Back, Into
    <3> QED BY <3>1, <3>2, <3>3, <3>4 DEF PathInv, Weighed
  <2>2. CASE UNCHANGED taggingVars
    <3>1. crf' = crf /\ scores' = scores /\ path' = path
      BY <2>2 DEF taggingVars
    <3>2. PathFrom' = PathFrom
      <4>1. V' = V
        BY <3>1 DEF V, Into
      <4> QED BY <3>1, <4>1 DEF PathFrom, Back, Into
    <3> QED BY <1>2, <3>1, <3>2 DEF PathInv, Weighed
  <2> QED BY <1>2, <2>1, <2>2
<1>3. PathInv => BestPath
  <2>1. SUFFICES ASSUME PathInv, path # <<>>,
                        NEW q \in [DOMAIN scores -> 1..NumTags]
                 PROVE  Total(q) <= Total(path)
    BY DEF BestPath
  <2>2. Weighed /\ scores # <<>> /\ path = PathFrom
    BY <2>1 DEF PathInv
  <2>3. q \in [1..Len(scores) -> 1..NumTags]
    BY <2>2, WeighedFacts
  <2> QED BY <2>2, <2>3, PathIsBest
<1> QED BY <1>1, <1>2, <1>3, PTL DEF TaggingSpec
=============================================================================
