--------------------------- MODULE PipelineProofs ---------------------------
(***************************************************************************)
(* For texts, rules, predictions and lists of entities of any number.      *)
(*                                                                         *)
(* Masking: the mask is exact, invalid offsets fail closed, and the stored *)
(* spans restore the original.  The argument follows the loops of          *)
(* mask_text and unmask_text: each has an invariant that says what its     *)
(* first k - 1 iterations have achieved.                                   *)
(*                                                                         *)
(* Detection: _dedupe keeps matches that ascend, and neither it nor the    *)
(* detectors built on it lose or add a character, or cut an e-mail.  The   *)
(* comparison with the last kept span suffices because the matches are     *)
(* sorted by start, longer ones first; the invariant of the loop           *)
(* (DetectIInv) says so.                                                   *)
(*                                                                         *)
(* Detection and masking: the masked text hides what the detector found    *)
(* private and nothing else.  While mask_text waits, the invariant of the  *)
(* detectors holds; afterwards that of mask_text does, too, over a list    *)
(* of exactly the entities the detector returned (Handed).                 *)
(***************************************************************************)
EXTENDS Pipeline, FiniteSetTheorems, TLAPS

-----------------------------------------------------------------------------
(* mask_text and unmask_text: the inductive invariant.                     *)

\* The characters that some of the first n spans of a list cover.
Reach(list, n, p) == \E i \in 1..n : Covers(list[i], p)

\* The first n entities are accounted for by the spans, all cut from the text.
Gathered(n) ==
    /\ \A i \in 1..Len(spans) : ValidSpan(spans[i], Len(text)) /\ spans[i].text = Slice(text, spans[i])
    /\ \A p \in 1..Len(text) :
           Reach(spans, Len(spans), p) <=> \E i \in 1..n : Masked(entities[i]) /\ Covers(entities[i], p)

Shapes ==
    /\ pc \in Phases
    /\ text \in Texts /\ text \in Seq(Range(text))
    /\ entities \in Seq(Range(entities))
    /\ spans \in Seq(Range(spans))
    /\ intervals \in Seq([start : Nat, end : Nat])
    /\ \A i \in 1..Len(intervals) : intervals[i].start < intervals[i].end
    /\ k \in Nat \ {0}
    /\ out \in Seq(Range(out))
    /\ Len(out) <= Len(text)
    /\ known \subseteq 1..Len(out)

Apart ==
    \A i \in 1..Len(intervals) :
        /\ intervals[i].end <= Len(text)
        /\ \A j \in 1..Len(intervals) : i < j => intervals[i].end < intervals[j].start

\* The loop over the entities.
Checking ==
    pc = "check" =>
        /\ k <= Len(entities) + 1
        /\ \A i \in 1..k - 1 : ValidSpan(entities[i], Len(text))
        /\ Gathered(k - 1)
        /\ intervals = <<>> /\ out = <<>> /\ known = {}

Checked ==
    pc \notin {"check", "invalid"} =>
        \A i \in 1..Len(entities) : ValidSpan(entities[i], Len(text))

Own ==
    pc \in {"merge", "write", "masked", "restore"} => Gathered(Len(entities))

\* The loop over the sorted spans.
Merging ==
    pc = "merge" =>
        /\ k <= Len(spans) + 1
        /\ \A i, j \in 1..Len(spans) : i < j => spans[i].start <= spans[j].start
        /\ \A p \in 1..Len(text) :
               Reach(intervals, Len(intervals), p) <=> Reach(spans, k - 1, p)
        /\ \A i \in 1..Len(intervals), j \in k..Len(spans) : intervals[i].start <= spans[j].start
        /\ out = <<>> /\ known = {}

\* What the characters written so far show.
ShowsMask ==
    \A p \in 1..Len(out) : out[p] = IF Private(p) THEN MaskChar ELSE text[p]

\* The loop over the intervals.
Writing ==
    pc = "write" =>
        /\ k <= Len(intervals) + 1
        /\ \A p \in 1..Len(text) : Reach(intervals, Len(intervals), p) <=> Private(p)
        /\ Len(out) = IF k = 1 THEN 0 ELSE intervals[k - 1].end
        /\ ShowsMask
        /\ known = {}

Finishing ==
    pc = "masked" => Len(out) = Len(text) /\ ShowsMask

\* The loop of unmask_text over the stored spans.
RestoringOwn ==
    pc = "restore" =>
        /\ k <= Len(spans) + 1
        /\ Len(out) = Len(text)
        /\ known = {p \in 1..Len(text) : Reach(spans, k - 1, p)}
        /\ \A p \in 1..Len(text) :
               out[p] = IF p \in known \/ ~Private(p) THEN text[p] ELSE MaskChar

\* ... and over others.
RestoringOther ==
    pc \in {"splice", "spliced"} =>
        /\ pc = "spliced" => k > Len(spans)
        /\ \A i \in 1..k - 1 : i <= Len(spans) =>
               /\ Fits(spans[i])
               /\ \A p \in 1..Len(out) : Covers(spans[i], p) =>
                      p \in known /\ out[p] = spans[i].text[p - spans[i].start]

IInv ==
    /\ Shapes /\ Apart
    /\ Checking /\ Checked /\ Own
    /\ Merging /\ Writing /\ Finishing
    /\ RestoringOwn /\ RestoringOther
    /\ pc = "restored" => out = text

-----------------------------------------------------------------------------
(* Sequences.                                                              *)

\* A sequence is one over the values it takes.
LEMMA OverItsRange ==
    ASSUME NEW S, NEW s \in Seq(S)
    PROVE  s \in Seq(Range(s))
BY DEF Range

LEMMA Elements ==
    ASSUME NEW S, NEW s \in Seq(S)
    PROVE  \A i \in 1..Len(s) : s[i] \in S
OBVIOUS

\* A stable sort rearranges: the values and their number stay.
LEMMA SortedRearranges ==
    ASSUME NEW s, s \in Seq(Range(s)), NEW t \in Sorted(s)
    PROVE  /\ t \in Seq(Range(t)) /\ Len(t) = Len(s)
           /\ \A i \in 1..Len(s) : \E j \in 1..Len(s) : t[i] = s[j]
           /\ \A j \in 1..Len(s) : \E i \in 1..Len(s) : t[i] = s[j]
           /\ \A i, j \in 1..Len(s) : i < j => t[i].start < t[j].start \/ t[i].start = t[j].start
<1>1. DOMAIN s = 1..Len(s) /\ Len(s) \in Nat
  OBVIOUS
<1>2. PICK p \in Bijection(DOMAIN s, DOMAIN s) :
          SortedBy(s, p) /\ t = [i \in DOMAIN s |-> s[p[i]]]
  BY DEF Sorted
<1>3. p \in [1..Len(s) -> 1..Len(s)] /\ \A j \in 1..Len(s) : \E i \in 1..Len(s) : p[i] = j
  BY <1>1 DEF Bijection, Injection, Surjection
<1>4. t = [i \in 1..Len(s) |-> s[p[i]]]
  BY <1>1, <1>2
<1>5. t \in Seq(Range(s)) /\ Len(t) = Len(s)
  <2>1. t \in [1..Len(s) -> Range(s)]
    BY <1>1, <1>3, <1>4 DEF Range
  <2>2. QED
    BY <1>1, <1>4, <2>1
<1>6. t \in Seq(Range(t))
  BY <1>5, OverItsRange
<1>7. \A i, j \in 1..Len(s) : i < j => t[i].start < t[j].start \/ t[i].start = t[j].start
  BY <1>1, <1>2, <1>4 DEF SortedBy
<1>8. QED
  BY <1>3, <1>4, <1>5, <1>6, <1>7

-----------------------------------------------------------------------------
(* The loop over the entities.                                             *)

LEMMA InitEstablishes == Init => IInv
<1> SUFFICES ASSUME Init PROVE IInv
  OBVIOUS
<1>1. Shapes /\ Apart
  BY MaskingAssumption DEF Init, Shapes, Apart, Phases
<1>2. Checking
  BY <1>1 DEF Init, Checking, Gathered, Reach, Shapes
<1>3. QED
  BY <1>1, <1>2 DEF Init, IInv, Checked, Own, Merging, Writing, Finishing, RestoringOwn,
     RestoringOther

LEMMA RejectEntityPreserves ==
    ASSUME IInv, RejectEntity
    PROVE  IInv'
<1>1. Shapes' /\ Apart'
  BY DEF IInv, RejectEntity, Shapes, Apart, Phases
<1>2. QED
  BY <1>1 DEF IInv, RejectEntity, Checking, Checked, Own, Merging, Writing, Finishing,
     RestoringOwn, RestoringOther

LEMMA TakeEntityPreserves ==
    ASSUME IInv, TakeEntity
    PROVE  IInv'
<1> DEFINE e == entities[k]
           s == [start |-> e.start, end |-> e.end, text |-> Slice(text, e)]
<1>1. /\ pc' = "check" /\ k \in 1..Len(entities) /\ k' = k + 1
      /\ ValidSpan(e, Len(text))
      /\ UNCHANGED <<text, entities, intervals, out, known>>
  BY DEF IInv, TakeEntity, Checking, Shapes
<1>2. ValidSpan(s, Len(text)) /\ s.text = Slice(text, s)
  BY <1>1 DEF ValidSpan, Slice
<1>3. \A p \in 1..Len(text) : Covers(s, p) <=> Covers(e, p)
  BY DEF Covers
<1>4. CASE Masked(e)
  <2>1. /\ spans' = Append(spans, s)
    BY <1>4 DEF TakeEntity
  <2> HIDE DEF s
  <2>2. /\ Len(spans') = Len(spans) + 1 /\ Len(spans) \in Nat
        /\ \A i \in 1..Len(spans) : spans'[i] = spans[i]
        /\ spans'[Len(spans) + 1] = s
        /\ spans' \in Seq(Range(spans'))
    <3>1. spans \in Seq(Range(spans) \cup {s})
      BY DEF IInv, Shapes, Range
    <3>2. spans' \in Seq(Range(spans) \cup {s})
      BY <2>1, <3>1
    <3>3. spans' \in Seq(Range(spans'))
      BY <3>2, OverItsRange
    <3>4. QED
      BY <2>1, <3>1, <3>3
  <2>3. \A i \in 1..Len(spans') :
            ValidSpan(spans'[i], Len(text)) /\ spans'[i].text = Slice(text, spans'[i])
    <3>1. \A i \in 1..Len(spans) :
              ValidSpan(spans[i], Len(text)) /\ spans[i].text = Slice(text, spans[i])
      BY <1>1 DEF IInv, Checking, Gathered, TakeEntity
    <3>2. \A i \in 1..Len(spans') : i \in 1..Len(spans) \/ i = Len(spans) + 1
      BY <2>2
    <3>3. QED
      BY <1>2, <2>2, <3>1, <3>2
  <2>4. ASSUME NEW p \in 1..Len(text)
        PROVE  Reach(spans', Len(spans'), p)
               <=> \E i \in 1..k : Masked(entities[i]) /\ Covers(entities[i], p)
    <3>1. Reach(spans', Len(spans'), p) <=> Reach(spans, Len(spans), p) \/ Covers(s, p)
      BY <2>2 DEF Reach
    <3>2. Reach(spans, Len(spans), p)
          <=> \E i \in 1..k - 1 : Masked(entities[i]) /\ Covers(entities[i], p)
      BY <1>1 DEF IInv, Checking, Gathered, TakeEntity
    <3>3. (\E i \in 1..k : Masked(entities[i]) /\ Covers(entities[i], p))
          <=> (\E i \in 1..k - 1 : Masked(entities[i]) /\ Covers(entities[i], p)) \/ Covers(e, p)
      BY <1>1, <1>4
    <3>4. QED
      BY <1>3, <3>1, <3>2, <3>3
  <2>5. Gathered(k - 1)'
    <3>1. k' - 1 = k
      BY <1>1
    <3>2. \A p \in 1..Len(text) :
              Reach(spans', Len(spans'), p)
              <=> \E i \in 1..k' - 1 : Masked(entities[i]) /\ Covers(entities[i], p)
      BY <2>4, <3>1
    <3>3. QED
      BY <1>1, <2>3, <3>2 DEF Gathered
  <2>6. Shapes' /\ Apart'
    <3>1. Shapes'
      BY <1>1, <2>2 DEF IInv, Shapes, Phases
    <3>2. Apart'
      BY <1>1 DEF IInv, Apart
    <3>3. QED
      BY <3>1, <3>2
  <2>7. Checking'
    BY <1>1, <2>5 DEF IInv, Checking, TakeEntity, Shapes
  <2>8. QED
    BY <1>1, <2>6, <2>7 DEF IInv, Checked, Own, Merging, Writing, Finishing, RestoringOwn,
       RestoringOther
<1>5. CASE ~Masked(e)
  <2>1. spans' = spans
    BY <1>5 DEF TakeEntity
  <2>2. Gathered(k - 1)'
    <3>1. \A p \in 1..Len(text) :
            (\E i \in 1..k : Masked(entities[i]) /\ Covers(entities[i], p))
            <=> \E i \in 1..k - 1 : Masked(entities[i]) /\ Covers(entities[i], p)
      BY <1>1, <1>5
    <3>2. k' - 1 = k
      BY <1>1
    <3>3. QED
      BY <1>1, <2>1, <3>1, <3>2 DEF IInv, Checking, Gathered, TakeEntity, Reach
  <2>3. Shapes' /\ Apart'
    <3>1. Shapes'
      BY <1>1, <2>1 DEF IInv, Shapes, Phases
    <3>2. Apart'
      BY <1>1 DEF IInv, Apart
    <3> QED BY <3>1, <3>2
  <2>4. Checking'
    BY <1>1, <2>2 DEF IInv, Checking, TakeEntity, Shapes
  <2>5. QED
    BY <1>1, <2>3, <2>4 DEF IInv, Checked, Own, Merging, Writing, Finishing, RestoringOwn,
       RestoringOther
<1>6. QED
  BY <1>4, <1>5

\* Sorting keeps what the spans cover and orders their starts.
LEMMA SortSpansPreserves ==
    ASSUME IInv, SortSpans
    PROVE  IInv'
<1>1. /\ pc = "check" /\ pc' = "merge" /\ k' = 1 /\ k - 1 = Len(entities)
      /\ spans' \in Sorted(spans)
      /\ UNCHANGED <<text, entities, intervals, out, known>>
  BY SMTT(30) DEF IInv, SortSpans, Checking, Shapes
<1>2. /\ intervals = <<>> /\ out = <<>> /\ known = {}
      /\ \A i \in 1..Len(entities) : ValidSpan(entities[i], Len(text))
      /\ Gathered(Len(entities))
  BY <1>1 DEF IInv, Checking
<1>3. /\ spans' \in Seq(Range(spans')) /\ Len(spans') = Len(spans)
      /\ \A i \in 1..Len(spans) : \E j \in 1..Len(spans) : spans'[i] = spans[j]
      /\ \A j \in 1..Len(spans) : \E i \in 1..Len(spans) : spans'[i] = spans[j]
      /\ \A i, j \in 1..Len(spans) : i < j =>
             spans'[i].start < spans'[j].start \/ spans'[i].start = spans'[j].start
  <2>1. spans \in Seq(Range(spans))
    BY DEF IInv, Shapes
  <2>2. PICK t \in Sorted(spans) : spans' = t
    BY <1>1
  <2>3. /\ t \in Seq(Range(t)) /\ Len(t) = Len(spans)
        /\ \A i \in 1..Len(spans) : \E j \in 1..Len(spans) : t[i] = spans[j]
        /\ \A j \in 1..Len(spans) : \E i \in 1..Len(spans) : t[i] = spans[j]
        /\ \A i, j \in 1..Len(spans) : i < j => t[i].start < t[j].start \/ t[i].start = t[j].start
    BY ONLY <2>1, SortedRearranges
  <2>4. QED
    BY <2>2, <2>3
<1>4. Gathered(Len(entities))'
  <2>1. \A i \in 1..Len(spans') :
            ValidSpan(spans'[i], Len(text)) /\ spans'[i].text = Slice(text, spans'[i])
    <3>1. ASSUME NEW i \in 1..Len(spans)
          PROVE  ValidSpan(spans'[i], Len(text)) /\ spans'[i].text = Slice(text, spans'[i])
      <4>1. PICK j \in 1..Len(spans) : spans'[i] = spans[j]
        BY <1>3
      <4>2. QED
        BY <1>2, <4>1 DEF Gathered
    <3>2. QED
      BY <1>3, <3>1
  <2>2. \A p : Reach(spans', Len(spans'), p) <=> Reach(spans, Len(spans), p)
    BY <1>3 DEF Reach
  <2>3. QED
    BY <1>1, <1>2, <2>1, <2>2 DEF Gathered
<1>5. Shapes' /\ Apart'
  BY <1>1, <1>3 DEF IInv, Shapes, Apart, Phases
<1>6. Merging'
  <2>1. \A i \in 1..Len(spans') : spans'[i].start \in Int
    BY <1>4 DEF Gathered, ValidSpan
  <2>2. \A i, j \in 1..Len(spans') : i < j => spans'[i].start <= spans'[j].start
    <3>1. ASSUME NEW i \in 1..Len(spans'), NEW j \in 1..Len(spans'), i < j
          PROVE  spans'[i].start <= spans'[j].start
      <4>1. spans'[i].start < spans'[j].start \/ spans'[i].start = spans'[j].start
        BY <1>3, <3>1
      <4>2. spans'[i].start \in Int /\ spans'[j].start \in Int
        BY <2>1
      <4>3. QED
        BY <4>1, <4>2
    <3>2. QED
      BY <3>1
  <2>3. \A p : ~Reach(intervals', Len(intervals'), p) /\ ~Reach(spans', k' - 1, p)
    BY <1>1, <1>2 DEF Reach
  <2>4. Len(spans') \in Nat
    BY <1>3
  <2>5. QED
    BY <1>1, <1>2, <2>2, <2>3, <2>4 DEF Merging
<1>7. QED
  BY <1>1, <1>2, <1>4, <1>5, <1>6 DEF IInv, Checking, Checked, Own, Writing, Finishing,
     RestoringOwn, RestoringOther

-----------------------------------------------------------------------------
(* The loop over the sorted spans.                                         *)

\* What one merge does to intervals that lie apart.
LEMMA MergeKeepsApart ==
    ASSUME NEW length \in Nat,
           NEW done \in Seq([start : Nat, end : Nat]),
           \A i \in 1..Len(done) : done[i].start < done[i].end /\ done[i].end <= length,
           \A i, j \in 1..Len(done) : i < j => done[i].end < done[j].start,
           NEW s, ValidSpan(s, length),
           \A i \in 1..Len(done) : done[i].start <= s.start,
           NEW next, next = Merged(done, s)
    PROVE  /\ next \in Seq([start : Nat, end : Nat])
           /\ \A i \in 1..Len(next) :
                  next[i].start < next[i].end /\ next[i].end <= length /\ next[i].start <= s.start
           /\ \A i, j \in 1..Len(next) : i < j => next[i].end < next[j].start
           /\ \A p \in Int :
                  Reach(next, Len(next), p) <=> Reach(done, Len(done), p) \/ Covers(s, p)
<1>1. s.start \in Nat /\ s.end \in Nat /\ s.start < s.end /\ s.end <= length
  BY DEF ValidSpan
<1> DEFINE n == Len(done)
           last == done[n]
           both == [start |-> last.start, end |-> Larger(last.end, s.end)]
           own == [start |-> s.start, end |-> s.end]
<1>2. n \in Nat /\ (done # <<>> <=> n > 0)
      /\ \A i \in 1..n : done[i] \in [start : Nat, end : Nat]
  <2>1. n \in Nat /\ (done # <<>> <=> n > 0)
    OBVIOUS
  <2>2. QED
    BY <2>1, Elements
<1>3. CASE done # <<>> /\ s.start <= last.end
  <2>1. n \in 1..n /\ last \in [start : Nat, end : Nat] /\ next = [done EXCEPT ![n] = both]
    <3>1. n \in 1..n
      BY <1>2, <1>3
    <3>2. QED
      BY <1>2, <1>3, <3>1 DEF Merged
  <2>2. both \in [start : Nat, end : Nat] /\ both.start = last.start /\ last.end <= both.end
        /\ s.end <= both.end /\ (both.end = last.end \/ both.end = s.end)
    BY <1>1, <2>1 DEF Larger
  <2> HIDE DEF both
  <2>3. next \in Seq([start : Nat, end : Nat]) /\ Len(next) = n
        /\ \A i \in 1..n : next[i] = IF i = n THEN both ELSE done[i]
    BY <1>2, <2>1, <2>2
  <2>4. \A i \in 1..Len(next) :
            next[i].start < next[i].end /\ next[i].end <= length /\ next[i].start <= s.start
    <3>1. both.start < both.end /\ both.end <= length /\ both.start <= s.start
      BY <1>1, <2>1, <2>2
    <3>2. QED
      BY <2>3, <3>1
  <2>5. \A i, j \in 1..Len(next) : i < j => next[i].end < next[j].start
    <3>1. ASSUME NEW i \in 1..n, NEW j \in 1..n, i < j PROVE next[i].end < next[j].start
      <4>1. i # n
        BY <1>2, <3>1
      <4>2. next[i].end < done[j].start
        BY <2>3, <3>1, <4>1
      <4>3. next[j].start = done[j].start
        BY <2>2, <2>3
      <4>4. QED
        BY <4>2, <4>3
    <3>2. QED
      BY <2>3, <3>1
  <2>6. ASSUME NEW p \in Int
        PROVE  Reach(next, Len(next), p) <=> Reach(done, Len(done), p) \/ Covers(s, p)
    <3>1. last.start <= s.start
      BY <2>1
    <3>2. Covers(both, p) <=> Covers(last, p) \/ Covers(s, p)
      BY <1>1, <1>3, <2>1, <2>2, <3>1 DEF Covers
    <3>3. QED
      BY <2>1, <2>3, <3>2 DEF Reach
  <2>7. QED
    BY <2>3, <2>4, <2>5, <2>6
<1>4. CASE ~(done # <<>> /\ s.start <= last.end)
  <2>1. next = Append(done, own) /\ own \in [start : Nat, end : Nat]
    BY <1>1, <1>4 DEF Merged
  <2>2. own.start = s.start /\ own.end = s.end
    OBVIOUS
  <2> HIDE DEF own
  <2>3. /\ next \in Seq([start : Nat, end : Nat]) /\ Len(next) = n + 1
        /\ \A i \in 1..n : next[i] = done[i]
        /\ next[n + 1] = own
    BY <2>1
  <2>4. \A i \in 1..n + 1 : i \in 1..n \/ i = n + 1
    BY <1>2
  <2>5. \A i \in 1..n : done[i].end < s.start
    <3>1. ASSUME NEW i \in 1..n PROVE done[i].end < s.start
      <4>1. n \in 1..n /\ done # <<>> /\ last \in [start : Nat, end : Nat]
        BY <1>2
      <4>5. last.end < s.start
        <5>1. s.start \in Int /\ last.end \in Int
          BY <1>1, <4>1
        <5>2. ~(s.start <= last.end)
          BY <1>4, <4>1
        <5> QED BY ONLY <5>1, <5>2
      <4>2. i = n \/ done[i].end < last.start
        BY <1>2
      <4>3. done[i] \in [start : Nat, end : Nat] /\ last.start < last.end
        BY <1>2, <4>1
      <4>4. QED
        BY <1>1, <4>1, <4>2, <4>3, <4>5
    <3>2. QED
      BY <3>1
  <2>6. \A i \in 1..Len(next) :
            next[i].start < next[i].end /\ next[i].end <= length /\ next[i].start <= s.start
    <3>1. own.start < own.end /\ own.end <= length /\ own.start <= s.start
      BY <1>1, <2>2
    <3>2. ASSUME NEW i \in 1..n + 1
          PROVE  next[i].start < next[i].end /\ next[i].end <= length /\ next[i].start <= s.start
      <4>1. CASE i \in 1..n
        <5>1. next[i] = done[i]
          BY <2>3, <4>1
        <5>2. QED
          BY <4>1, <5>1
      <4>2. CASE i = n + 1
        <5>1. next[i] = own
          BY <2>3, <4>2
        <5>2. QED
          BY <3>1, <5>1
      <4>3. QED
        BY <2>4, <4>1, <4>2
    <3>3. QED
      BY <2>3, <3>2
  <2>7. \A i, j \in 1..Len(next) : i < j => next[i].end < next[j].start
    <3>1. ASSUME NEW i \in 1..n + 1, NEW j \in 1..n + 1, i < j PROVE next[i].end < next[j].start
      <4>1. i \in 1..n
        BY <1>2, <3>1
      <4>2. CASE j = n + 1
        BY <2>2, <2>3, <2>5, <4>1, <4>2
      <4>3. CASE j \in 1..n
        BY <2>3, <3>1, <4>1, <4>3
      <4>4. QED
        BY <2>4, <4>2, <4>3
    <3>2. QED
      BY <2>3, <3>1
  <2>8. ASSUME NEW p \in Int
        PROVE  Reach(next, Len(next), p) <=> Reach(done, Len(done), p) \/ Covers(s, p)
    <3>1. Covers(own, p) <=> Covers(s, p)
      BY <2>2 DEF Covers
    <3>2. n + 1 \in 1..n + 1 /\ \A i \in 1..n : i \in 1..n + 1
      BY <1>2
    <3>3. Reach(next, Len(next), p) <=> (\E i \in 1..n : Covers(done[i], p)) \/ Covers(own, p)
      <4>1. Reach(next, Len(next), p) <=> \E i \in 1..n + 1 : Covers(next[i], p)
        BY <2>3 DEF Reach
      <4>2. (\E i \in 1..n + 1 : Covers(next[i], p))
            <=> (\E i \in 1..n : Covers(next[i], p)) \/ Covers(next[n + 1], p)
        BY <2>4, <3>2
      <4>3. QED
        <5>1. next[n + 1] = own /\ \A i \in 1..n : next[i] = done[i]
          BY <2>3
        <5>2. QED
          BY <4>1, <4>2, <5>1, Zenon
    <3>4. QED
      BY <3>1, <3>3 DEF Reach
  <2>9. QED
    BY <2>3, <2>6, <2>7, <2>8
<1>5. QED
  BY <1>3, <1>4

LEMMA MergeSpanPreserves ==
    ASSUME IInv, MergeSpan
    PROVE  IInv'
<1> DEFINE s == spans[k]
<1>1. /\ pc = "merge" /\ pc' = "merge" /\ k \in 1..Len(spans) /\ k' = k + 1
      /\ intervals' = Merged(intervals, s)
      /\ UNCHANGED <<text, entities, spans, out, known>>
  BY DEF IInv, MergeSpan, Shapes
<1>2. Gathered(Len(entities)) /\ ValidSpan(s, Len(text))
  BY <1>1 DEF IInv, Own, Gathered
<1>3. \A i \in 1..Len(intervals) : intervals[i].start <= s.start
  BY <1>1 DEF IInv, Merging
<1> HIDE DEF s
<1>4. /\ intervals' \in Seq([start : Nat, end : Nat])
      /\ \A i \in 1..Len(intervals') :
             /\ intervals'[i].start < intervals'[i].end
             /\ intervals'[i].end <= Len(text)
             /\ intervals'[i].start <= s.start
      /\ \A i, j \in 1..Len(intervals') : i < j => intervals'[i].end < intervals'[j].start
      /\ \A p \in Int : Reach(intervals', Len(intervals'), p)
                        <=> Reach(intervals, Len(intervals), p) \/ Covers(s, p)
  <2>1. Len(text) \in Nat /\ intervals \in Seq([start : Nat, end : Nat])
    BY DEF IInv, Shapes
  <2>2. \A i \in 1..Len(intervals) :
            intervals[i].start < intervals[i].end /\ intervals[i].end <= Len(text)
    BY DEF IInv, Shapes, Apart
  <2>3. \A i, j \in 1..Len(intervals) : i < j => intervals[i].end < intervals[j].start
    BY DEF IInv, Apart
  <2>4. QED
    BY <1>1, <1>2, <1>3, <2>1, <2>2, <2>3, MergeKeepsApart
<1>5. Shapes' /\ Apart'
  BY <1>1, <1>4, SMTT(30) DEF IInv, Shapes, Apart
<1>6. Merging'
  <2>1. ASSUME NEW p \in 1..Len(text)
        PROVE  Reach(intervals', Len(intervals'), p) <=> Reach(spans, k, p)
    <3>1. Reach(spans, k, p) <=> Reach(spans, k - 1, p) \/ Covers(s, p)
      BY <1>1 DEF Reach, s
    <3>2. Reach(intervals, Len(intervals), p) <=> Reach(spans, k - 1, p)
      BY <1>1 DEF IInv, Merging
    <3>3. QED
      BY <1>4, <3>1, <3>2
  <2>2. \A i \in 1..Len(intervals'), j \in k + 1..Len(spans) : intervals'[i].start <= spans[j].start
    <3>1. \A j \in k + 1..Len(spans) : s.start <= spans[j].start
      BY <1>1 DEF IInv, Merging, s
    <3>2. \A j \in 1..Len(spans) : spans[j].start \in Int
      BY <1>2 DEF Gathered, ValidSpan
    <3>3. s.start \in Int /\ \A i \in 1..Len(intervals') : intervals'[i].start \in Int
      <4>1. \A i \in 1..Len(intervals') : intervals'[i] \in [start : Nat, end : Nat]
        BY <1>4, Elements
      <4>2. QED
        BY <1>2, <4>1 DEF ValidSpan
    <3>4. QED
      BY <1>1, <1>4, <3>1, <3>2, <3>3, SMTT(30)
  <2>3. k' - 1 = k /\ k' <= Len(spans) + 1
    BY <1>1
  <2>4. QED
    BY <1>1, <2>1, <2>2, <2>3 DEF IInv, Merging
<1>7. QED
  BY <1>1, <1>2, <1>5, <1>6 DEF IInv, Checking, Checked, Own, Gathered, Writing, Finishing,
     RestoringOwn, RestoringOther

\* At the end of the loop the intervals cover what the private entities cover.
LEMMA EndMergePreserves ==
    ASSUME IInv, EndMerge
    PROVE  IInv'
<1>1. /\ pc = "merge" /\ pc' = "write" /\ k = Len(spans) + 1 /\ k' = 1
      /\ UNCHANGED <<text, entities, spans, intervals, out, known>>
  <2>1. pc = "merge" /\ k <= Len(spans) + 1 /\ k > Len(spans) /\ k \in Nat /\ Len(spans) \in Nat
    BY DEF IInv, EndMerge, Merging, Shapes
  <2>2. k = Len(spans) + 1
    BY <2>1
  <2>3. QED
    BY <2>1, <2>2 DEF EndMerge
<1>2. Gathered(Len(entities)) /\ Gathered(Len(entities))'
  BY <1>1 DEF IInv, Own, Gathered
<1>3. \A p \in 1..Len(text) : Reach(intervals, Len(intervals), p) <=> Private(p)
  <2>1. ASSUME NEW p \in 1..Len(text) PROVE Reach(intervals, Len(intervals), p) <=> Private(p)
    <3>1. Reach(intervals, Len(intervals), p) <=> Reach(spans, k - 1, p)
      BY <1>1 DEF IInv, Merging
    <3>2. k - 1 = Len(spans)
      BY <1>1 DEF IInv, Shapes
    <3>3. Reach(spans, Len(spans), p)
          <=> \E i \in 1..Len(entities) : Masked(entities[i]) /\ Covers(entities[i], p)
      BY <1>2 DEF Gathered
    <3>4. DOMAIN entities = 1..Len(entities)
      BY DEF IInv, Shapes
    <3>5. QED
      BY <3>1, <3>2, <3>3, <3>4 DEF Private
  <2>2. QED
    BY <2>1
<1>4. Shapes' /\ Apart'
  BY <1>1 DEF IInv, Shapes, Apart, Phases
<1>5. Writing'
  <2>1. Len(intervals) \in Nat /\ out = <<>> /\ known = {}
    BY <1>1 DEF IInv, Shapes, Merging
  <2>2. QED
    BY <1>1, <1>3, <2>1 DEF Writing, Reach, Private, ShowsMask
<1>6. QED
  BY <1>1, <1>2, <1>4, <1>5 DEF IInv, Checking, Checked, Own, Merging, Finishing,
     RestoringOwn, RestoringOther

-----------------------------------------------------------------------------
(* The loop over the intervals.                                            *)

\* One interval: the characters before it are the text's, those in it masks.
LEMMA WriteIntervalPreserves ==
    ASSUME IInv, WriteInterval
    PROVE  IInv'
<1> DEFINE v == intervals[k]
           from == IF k = 1 THEN 0 ELSE intervals[k - 1].end
<1>1. /\ pc = "write" /\ pc' = "write" /\ k \in 1..Len(intervals) /\ k' = k + 1
      /\ out' = WithInterval(out, text, v)
      /\ UNCHANGED <<text, entities, spans, intervals, known>>
  BY DEF IInv, WriteInterval, Shapes
<1>2. /\ Len(text) \in Nat /\ Len(intervals) \in Nat
      /\ \A i \in 1..Len(intervals) : intervals[i] \in [start : Nat, end : Nat]
      /\ \A i \in 1..Len(intervals) :
             intervals[i].start < intervals[i].end /\ intervals[i].end <= Len(text)
      /\ \A i, j \in 1..Len(intervals) : i < j => intervals[i].end < intervals[j].start
  <2>1. Len(text) \in Nat /\ intervals \in Seq([start : Nat, end : Nat])
    BY DEF IInv, Shapes
  <2>2. \A i \in 1..Len(intervals) : intervals[i] \in [start : Nat, end : Nat]
    BY <2>1, Elements
  <2>3. \A i, j \in 1..Len(intervals) : i < j => intervals[i].end < intervals[j].start
    BY DEF IInv, Apart
  <2>4. \A i \in 1..Len(intervals) :
            intervals[i].start < intervals[i].end /\ intervals[i].end <= Len(text)
    BY DEF IInv, Shapes, Apart
  <2>5. Len(intervals) \in Nat
    BY <2>1
  <2>6. QED
    BY <2>1, <2>2, <2>3, <2>4, <2>5
<1>3. /\ Len(out) = from
      /\ ShowsMask /\ known = {}
      /\ \A p \in 1..Len(text) : Reach(intervals, Len(intervals), p) <=> Private(p)
  BY <1>1 DEF IInv, Writing
<1>4. from \in Nat /\ from <= v.start /\ v.start < v.end /\ v.end <= Len(text)
      /\ v.start \in Nat /\ v.end \in Nat
  <2>1. CASE k = 1
    BY <1>1, <1>2, <2>1
  <2>2. CASE k # 1
    <3>1. k - 1 \in 1..Len(intervals) /\ k - 1 < k
      BY <1>1, <1>2, <2>2
    <3>2. from = intervals[k - 1].end /\ intervals[k - 1].end \in Nat
      BY <1>2, <2>2, <3>1
    <3>3. intervals[k - 1].end < v.start
      BY <1>1, <1>2, <3>1
    <3>4. v.start \in Nat /\ v.end \in Nat /\ v.start < v.end /\ v.end <= Len(text)
      BY <1>1, <1>2
    <3>5. QED
      BY <3>2, <3>3, <3>4
  <2>3. QED
    BY <2>1, <2>2
\* A character after the written ones and before the end of v: v alone decides.
<1>5. ASSUME NEW p \in 1..v.end, p > from
      PROVE  Private(p) <=> p > v.start
  <2>1. p \in 1..Len(text) /\ p \in Int
    BY <1>2, <1>4
  <2>2. Private(p) <=> \E i \in 1..Len(intervals) : Covers(intervals[i], p)
    BY <1>3, <2>1 DEF Reach
  <2>3. ASSUME NEW i \in 1..Len(intervals), Covers(intervals[i], p)
        PROVE  i = k
    <3>1. intervals[i].start < p /\ p <= intervals[i].end
      BY <2>3 DEF Covers
    <3>2. intervals[i].start \in Nat /\ intervals[i].end \in Nat
      BY <1>2
    <3>3. ~(k < i)
      <4>1. SUFFICES ASSUME k < i PROVE FALSE
        OBVIOUS
      <4>2. v.end < intervals[i].start
        BY <1>1, <1>2, <4>1
      <4>3. QED
        BY <1>4, <1>5, <3>1, <3>2, <4>2
    <3>4. ~(i < k)
      <4>1. SUFFICES ASSUME i < k PROVE FALSE
        OBVIOUS
      <4>2. k - 1 \in 1..Len(intervals) /\ from = intervals[k - 1].end /\ i <= k - 1
        BY <1>1, <1>2, <4>1
      <4>3. intervals[i].end <= from
        <5>1. CASE i = k - 1
          BY <3>2, <4>2, <5>1
        <5>2. CASE i < k - 1
          <6>1. intervals[i].end < intervals[k - 1].start /\ intervals[k - 1].start < intervals[k - 1].end
            BY <1>2, <4>2, <5>2
          <6>2. intervals[k - 1].start \in Nat /\ intervals[k - 1].end \in Nat
            BY <1>2, <4>2
          <6>3. QED
            BY <3>2, <4>2, <6>1, <6>2
        <5>3. QED
          BY <1>1, <4>2, <5>1, <5>2
      <4>4. QED
        BY <1>4, <1>5, <2>1, <3>1, <3>2, <4>3
    <3>5. QED
      BY <1>1, <3>3, <3>4
  <2>4. Covers(v, p) <=> p > v.start
    BY <1>4, <1>5 DEF Covers
  <2>5. QED
    BY <1>1, <2>2, <2>3, <2>4
<1> HIDE DEF v, from
<1>6. /\ out' \in Seq(Range(out')) /\ Len(out') = v.end
      /\ \A p \in 1..v.end :
             out'[p] = IF p <= from THEN out[p] ELSE IF p <= v.start THEN text[p] ELSE MaskChar
  <2>1. out' = [p \in 1..v.end |->
                   IF p <= from THEN out[p] ELSE IF p <= v.start THEN text[p] ELSE MaskChar]
    BY <1>1, <1>3 DEF WithInterval
  <2>2. out' \in [1..v.end -> Range(out')]
    BY <2>1 DEF Range
  <2>3. out' \in Seq(Range(out')) /\ Len(out') = v.end
    <3>1. PICK b \in Nat : b = v.end
      BY <1>4
    <3>2. out' \in [1..b -> Range(out')]
      BY <2>2, <3>1
    <3>3. QED
      BY <3>1, <3>2
  <2>4. QED
    BY <2>1, <2>3
<1>7. ShowsMask'
  <2>1. ASSUME NEW p \in 1..v.end
        PROVE  out'[p] = IF Private(p) THEN MaskChar ELSE text[p]
    <3>1. CASE p <= from
      <4>1. p \in 1..Len(out)
        BY <1>3, <1>4, <3>1
      <4>2. QED
        BY <1>3, <1>6, <3>1, <4>1 DEF ShowsMask
    <3>2. CASE ~(p <= from)
      <4>1. p > from
        BY <1>4, <3>2
      <4>2. QED
        BY <1>4, <1>5, <1>6, <3>2, <4>1
    <3>3. QED
      BY <3>1, <3>2
  <2>2. \A p : Private(p)' <=> Private(p)
    BY <1>1 DEF Private
  <2>3. QED
    BY <1>1, <1>6, <2>1, <2>2 DEF ShowsMask
<1>8. Shapes' /\ Apart'
  BY <1>1, <1>3, <1>4, <1>6 DEF IInv, Shapes, Apart
<1>9. Writing'
  <2>1. k' # 1 /\ k' - 1 = k /\ k' <= Len(intervals) + 1
    BY <1>1, <1>2
  <2>2. Len(out') = intervals[k].end
    BY <1>6 DEF v
  <2>3. \A p : Private(p)' <=> Private(p)
    BY <1>1 DEF Private
  <2>4. \A p \in 1..Len(text) : Reach(intervals, Len(intervals), p)' <=> Private(p)'
    BY <1>1, <1>3, <2>3 DEF Reach
  <2>5. QED
    BY <1>1, <1>3, <1>7, <2>1, <2>2, <2>4 DEF Writing
<1>10. QED
  BY <1>1, <1>8, <1>9 DEF IInv, Checking, Checked, Own, Gathered, Merging, Finishing,
     RestoringOwn, RestoringOther

\* The rest of the text lies after the last interval.
LEMMA WriteRestPreserves ==
    ASSUME IInv, WriteRest
    PROVE  IInv'
<1> DEFINE n == Len(intervals)
<1>1. /\ pc = "write" /\ pc' = "masked" /\ k = n + 1
      /\ out' = [p \in DOMAIN text |-> IF p <= Len(out) THEN out[p] ELSE text[p]]
      /\ UNCHANGED <<text, entities, spans, intervals, k, known>>
  <2>1. pc = "write" /\ k <= n + 1 /\ k > n /\ k \in Nat /\ n \in Nat
    BY DEF IInv, WriteRest, Writing, Shapes
  <2>2. k = n + 1
    BY <2>1
  <2>3. QED
    BY <2>1, <2>2 DEF WriteRest
<1>2. /\ Len(text) \in Nat /\ n \in Nat /\ DOMAIN text = 1..Len(text) /\ Len(out) \in Nat
      /\ Len(out) <= Len(text)
      /\ \A i \in 1..n : intervals[i] \in [start : Nat, end : Nat]
      /\ \A i, j \in 1..n : i < j => intervals[i].end < intervals[j].start
      /\ \A i \in 1..n : intervals[i].start < intervals[i].end
  <2>1. /\ Len(text) \in Nat /\ n \in Nat /\ DOMAIN text = 1..Len(text) /\ Len(out) \in Nat
        /\ Len(out) <= Len(text) /\ intervals \in Seq([start : Nat, end : Nat])
        /\ \A i \in 1..n : intervals[i].start < intervals[i].end
    BY DEF IInv, Shapes
  <2>2. \A i \in 1..n : intervals[i] \in [start : Nat, end : Nat]
    BY <2>1, Elements
  <2>3. QED
    BY <2>1, <2>2 DEF IInv, Apart
<1>3. /\ Len(out) = IF n = 0 THEN 0 ELSE intervals[n].end
      /\ ShowsMask /\ known = {}
      /\ \A p \in 1..Len(text) : Reach(intervals, n, p) <=> Private(p)
  <2>1. (k = 1 <=> n = 0) /\ k - 1 = n
    BY <1>1, <1>2
  <2>2. QED
    BY <1>1, <2>1 DEF IInv, Writing
<1>4. ASSUME NEW p \in 1..Len(text), p > Len(out)
      PROVE  ~Private(p)
  <2>1. SUFFICES ASSUME NEW i \in 1..n, Covers(intervals[i], p) PROVE FALSE
    BY <1>3 DEF Reach
  <2>2. n \in 1..n /\ n # 0
    BY <1>2
  <2>3. p <= intervals[i].end /\ intervals[i].end \in Nat
    BY <1>2, <2>1 DEF Covers
  <2>4. intervals[i].end <= intervals[n].end
    <3>1. CASE i = n
      BY <2>3, <3>1
    <3>2. CASE i < n
      <4>1. intervals[i].end < intervals[n].start /\ intervals[n].start < intervals[n].end
        BY <1>2, <2>2, <3>2
      <4>2. intervals[n].start \in Nat /\ intervals[n].end \in Nat
        BY <1>2, <2>2
      <4>3. QED
        BY <2>3, <4>1, <4>2
    <3>3. QED
      BY <1>2, <3>1, <3>2
  <2>5. Len(out) = intervals[n].end
    BY <1>3, <2>2
  <2>6. QED
    BY <1>2, <1>4, <2>3, <2>4, <2>5
<1> HIDE DEF n
<1>5. /\ out' \in Seq(Range(out')) /\ Len(out') = Len(text)
      /\ \A p \in 1..Len(text) : out'[p] = IF p <= Len(out) THEN out[p] ELSE text[p]
  <2>1. out' = [p \in 1..Len(text) |-> IF p <= Len(out) THEN out[p] ELSE text[p]]
    BY <1>1, <1>2
  <2>2. out' \in [1..Len(text) -> Range(out')]
    BY <2>1 DEF Range
  <2>3. out' \in Seq(Range(out')) /\ Len(out') = Len(text)
    BY <1>2, <2>1, <2>2
  <2>4. QED
    BY <2>1, <2>3
<1>6. ShowsMask'
  <2>1. ASSUME NEW p \in 1..Len(text)
        PROVE  out'[p] = IF Private(p) THEN MaskChar ELSE text[p]
    <3>1. CASE p <= Len(out)
      <4>1. p \in 1..Len(out)
        BY <1>2, <3>1
      <4>2. QED
        BY <1>3, <1>5, <3>1, <4>1 DEF ShowsMask
    <3>2. CASE ~(p <= Len(out))
      BY <1>2, <1>4, <1>5, <3>2
    <3>3. QED
      BY <3>1, <3>2
  <2>2. \A p : Private(p)' <=> Private(p)
    BY <1>1 DEF Private
  <2>3. QED
    BY <1>1, <1>5, <2>1, <2>2 DEF ShowsMask
<1>7. Shapes' /\ Apart'
  <2>1. known' \subseteq 1..Len(out') /\ Len(out') <= Len(text)
    BY <1>1, <1>2, <1>3, <1>5
  <2>2. QED
    BY <1>1, <1>5, <2>1 DEF IInv, Shapes, Apart, Phases
<1>8. Finishing'
  BY <1>1, <1>5, <1>6 DEF Finishing
<1>9. QED
  BY <1>1, <1>7, <1>8 DEF IInv, Checking, Checked, Own, Gathered, Merging, Writing,
     RestoringOwn, RestoringOther

-----------------------------------------------------------------------------
(* unmask_text.                                                            *)

\* The loop starts with nothing restored.
LEMMA UnmaskStoredPreserves ==
    ASSUME IInv, UnmaskStored
    PROVE  IInv'
<1>1. /\ pc = "masked" /\ pc' = "restore" /\ k' = 1 /\ known' = {}
      /\ spans' \in Sorted(spans)
      /\ UNCHANGED <<text, entities, intervals, out>>
  BY DEF UnmaskStored, Unmask
<1>2. Gathered(Len(entities)) /\ Len(out) = Len(text) /\ ShowsMask
  BY <1>1 DEF IInv, Own, Finishing
<1>3. /\ spans' \in Seq(Range(spans')) /\ Len(spans') = Len(spans)
      /\ \A i \in 1..Len(spans) : \E j \in 1..Len(spans) : spans'[i] = spans[j]
      /\ \A j \in 1..Len(spans) : \E i \in 1..Len(spans) : spans'[i] = spans[j]
  BY <1>1, SortedRearranges DEF IInv, Shapes
<1>4. Gathered(Len(entities))'
  <2>1. \A i \in 1..Len(spans') :
            ValidSpan(spans'[i], Len(text)) /\ spans'[i].text = Slice(text, spans'[i])
    <3>1. ASSUME NEW i \in 1..Len(spans)
          PROVE  ValidSpan(spans'[i], Len(text)) /\ spans'[i].text = Slice(text, spans'[i])
      <4>1. PICK j \in 1..Len(spans) : spans'[i] = spans[j]
        BY <1>3
      <4>2. QED
        BY <1>2, <4>1 DEF Gathered
    <3>2. QED
      BY <1>3, <3>1
  <2>2. \A p : Reach(spans', Len(spans'), p) <=> Reach(spans, Len(spans), p)
    BY <1>3 DEF Reach
  <2>3. QED
    BY <1>1, <1>2, <2>1, <2>2 DEF Gathered
<1>5. Shapes' /\ Apart'
  BY <1>1, <1>3 DEF IInv, Shapes, Apart, Phases
<1>6. RestoringOwn'
  <2>1. Len(spans') \in Nat /\ k' <= Len(spans') + 1
    BY <1>1, <1>3
  <2>2. known' = {p \in 1..Len(text) : Reach(spans', k' - 1, p)}
    BY <1>1 DEF Reach
  <2>3. \A p \in 1..Len(text) :
            out[p] = IF p \in known' \/ ~Private(p) THEN text[p] ELSE MaskChar
    BY <1>1, <1>2 DEF ShowsMask
  <2>4. \A p : Private(p)' <=> Private(p)
    BY <1>1 DEF Private
  <2>5. QED
    BY <1>1, <1>2, <2>1, <2>2, <2>3, <2>4 DEF RestoringOwn
<1>7. QED
  BY <1>1, <1>4, <1>5, <1>6 DEF IInv, Checking, Checked, Own, Merging, Writing, Finishing,
     RestoringOther

LEMMA UnmaskStrayPreserves ==
    ASSUME IInv, UnmaskStray
    PROVE  IInv'
<1>1. PICK from \in Strays : Unmask(from)
  BY DEF UnmaskStray
<1>2. /\ pc = "masked" /\ pc' = "splice" /\ k' = 1 /\ known' = {}
      /\ spans' \in Sorted(from)
      /\ UNCHANGED <<text, entities, intervals, out>>
  BY <1>1 DEF UnmaskStray, Unmask
<1>3. spans' \in Seq(Range(spans'))
  BY <1>2, MaskingAssumption, SortedRearranges
<1>4. Shapes' /\ Apart'
  BY <1>2, <1>3 DEF IInv, Shapes, Apart, Phases
<1>5. QED
  BY <1>2, <1>4 DEF IInv, Checking, Checked, Own, Merging, Writing, Finishing,
     RestoringOwn, RestoringOther

LEMMA RejectSpanPreserves ==
    ASSUME IInv, RejectSpan
    PROVE  IInv'
<1>1. /\ pc \in {"restore", "splice"} /\ pc' = "refused"
      /\ UNCHANGED <<text, entities, spans, intervals, k, out, known>>
  BY DEF RejectSpan, Restoring
<1>2. Shapes' /\ Apart'
  BY <1>1 DEF IInv, Shapes, Apart, Phases
<1>3. QED
  BY <1>1, <1>2 DEF IInv, Checking, Checked, Own, Merging, Writing, Finishing,
     RestoringOwn, RestoringOther

LEMMA SubSeqCharacter ==
    ASSUME NEW S, NEW t \in Seq(S), NEW m \in Int, NEW n \in Int,
           1 <= m, n <= Len(t), m <= n, NEW j \in 1..n - m + 1
    PROVE  SubSeq(t, m, n)[j] = t[m + j - 1] /\ Len(SubSeq(t, m, n)) = n - m + 1
OBVIOUS

\* The characters of a span are those of its slice.
LEMMA SliceCharacter ==
    ASSUME NEW t, t \in Seq(Range(t)), NEW s, ValidSpan(s, Len(t)), NEW p \in Int, Covers(s, p)
    PROVE  Slice(t, s)[p - s.start] = t[p] /\ Len(Slice(t, s)) = s.end - s.start
<1>1. s.start \in Int /\ s.end \in Int /\ 0 <= s.start /\ s.start < p /\ p <= s.end /\ s.end <= Len(t)
  BY DEF ValidSpan, Covers
<1>2. PICK a, b \in Int : a = s.start /\ b = s.end
  BY <1>1
<1>3. SubSeq(t, a + 1, b)[p - a] = t[p] /\ Len(SubSeq(t, a + 1, b)) = b - a
  <2>1. /\ a + 1 \in Int /\ 1 <= a + 1 /\ b <= Len(t) /\ a + 1 <= b
        /\ b - (a + 1) + 1 = b - a /\ p - a \in 1..b - (a + 1) + 1
        /\ (a + 1) + (p - a) - 1 = p
    <3>1. 0 <= a /\ a < p /\ p <= b /\ b <= Len(t)
      BY <1>1, <1>2
    <3>2. QED
      BY <3>1
  <2> DEFINE m == a + 1
             j == p - a
  <2>2. m \in Int /\ j \in 1..b - m + 1
    BY <2>1
  <2>3. SubSeq(t, m, b)[j] = t[m + j - 1] /\ Len(SubSeq(t, m, b)) = b - m + 1
    <3> HIDE DEF m, j
    <3>1. QED
      BY <2>1, <2>2, SubSeqCharacter DEF m
  <2>4. QED
    BY <2>1, <2>3
<1>4. QED
  BY <1>2, <1>3 DEF Slice

\* With the stored spans no iteration raises.
LEMMA OwnSpanFits ==
    ASSUME IInv, pc = "restore", k <= Len(spans)
    PROVE  /\ Fits(spans[k]) /\ ~Conflicts(spans[k])
           /\ \A p \in 1..Len(text) :
                  Covers(spans[k], p) => spans[k].text[p - spans[k].start] = text[p]
<1> DEFINE s == spans[k]
<1>1. k \in 1..Len(spans) /\ text \in Seq(Range(text)) /\ Len(text) \in Nat
  BY DEF IInv, Shapes
<1>2. Gathered(Len(entities)) /\ Len(out) = Len(text)
      /\ known = {p \in 1..Len(text) : Reach(spans, k - 1, p)}
  BY DEF IInv, Own, RestoringOwn
<1>3. ValidSpan(s, Len(text)) /\ s.text = Slice(text, s)
  BY <1>1, <1>2 DEF Gathered
<1> HIDE DEF s
<1>4. \A p \in 1..Len(text) : Covers(s, p) => s.text[p - s.start] = text[p]
  BY <1>1, <1>3, SliceCharacter
<1>5. Fits(s)
  <2>1. s.end \in Int /\ s.start \in Int /\ s.start < s.end
    BY <1>3 DEF ValidSpan
  <2>2. Covers(s, s.end)
    BY <2>1 DEF Covers
  <2>3. Len(s.text) = s.end - s.start
    BY <1>1, <1>3, <2>1, <2>2, SliceCharacter
  <2>4. QED
    BY <1>2, <1>3, <2>3 DEF Fits
<1>6. ~Conflicts(s)
  <2>1. \A p \in known : out[p] = text[p]
    BY <1>2 DEF IInv, RestoringOwn
  <2>2. QED
    BY <1>2, <1>4, <2>1 DEF Conflicts
<1>7. QED
  BY <1>4, <1>5, <1>6 DEF s

LEMMA RestoreSpanPreserves ==
    ASSUME IInv, RestoreSpan
    PROVE  IInv'
<1>1. PICK s : s = spans[k]
  OBVIOUS
<1>2. /\ pc \in {"restore", "splice"} /\ pc' = pc /\ k \in 1..Len(spans) /\ k' = k + 1
      /\ Fits(s) /\ ~Conflicts(s)
      /\ out' = Spliced(out, s)
      /\ known' = known \cup (s.start + 1)..s.end
      /\ UNCHANGED <<text, entities, spans, intervals>>
  BY <1>1 DEF IInv, RestoreSpan, Restoring, Shapes
<1>3. /\ s.start \in Int /\ s.end \in Int /\ 0 <= s.start /\ s.start < s.end /\ s.end <= Len(out)
      /\ Len(out) \in Nat /\ Len(out) <= Len(text) /\ Len(text) \in Nat
  BY <1>2 DEF Fits, ValidSpan, IInv, Shapes
<1>4. \A p \in Int : Covers(s, p) <=> p \in (s.start + 1)..s.end
  BY <1>3 DEF Covers
<1>5. /\ out' \in Seq(Range(out')) /\ Len(out') = Len(out)
      /\ \A p \in 1..Len(out) :
             out'[p] = IF Covers(s, p) THEN s.text[p - s.start] ELSE out[p]
  <2>1. out' = [p \in 1..Len(out) |-> IF Covers(s, p) THEN s.text[p - s.start] ELSE out[p]]
    BY <1>2 DEF Spliced, IInv, Shapes
  <2>2. out' \in [1..Len(out) -> Range(out')]
    BY <2>1 DEF Range
  <2>3. out' \in Seq(Range(out')) /\ Len(out') = Len(out)
    BY <1>3, <2>1, <2>2
  <2>4. QED
    BY <2>1, <2>3
<1>6. known' \subseteq 1..Len(out')
  <2>1. known \subseteq 1..Len(out)
    BY DEF IInv, Shapes
  <2>2. (s.start + 1)..s.end \subseteq 1..Len(out)
    BY <1>3
  <2>3. QED
    BY <1>2, <1>5, <2>1, <2>2
<1>7. Shapes' /\ Apart'
  <2>1. Shapes /\ Apart
    BY DEF IInv
  <2>2. pc' \in Phases /\ k' \in Nat \ {0} /\ Len(out') <= Len(text)
    BY <1>2, <1>3, <1>5 DEF Phases
  <2>3. Shapes'
    BY <1>2, <1>5, <1>6, <2>1, <2>2 DEF Shapes
  <2>4. Apart'
    BY <1>2, <2>1 DEF Apart
  <2>5. QED
    BY <2>3, <2>4
<1>8. CASE pc = "restore"
  <2>1. /\ k <= Len(spans)
        /\ \A p \in 1..Len(text) : Covers(s, p) => s.text[p - s.start] = text[p]
    BY <1>1, <1>2, <1>8, OwnSpanFits DEF IInv, Shapes
  <2>2. /\ Len(out) = Len(text) /\ Len(spans) \in Nat
        /\ known = {p \in 1..Len(text) : Reach(spans, k - 1, p)}
        /\ \A p \in 1..Len(text) :
               out[p] = IF p \in known \/ ~Private(p) THEN text[p] ELSE MaskChar
    BY <1>8 DEF IInv, RestoringOwn, Shapes
  <2>3. \A p \in 1..Len(text) : p \in known' <=> p \in known \/ Covers(s, p)
    BY <1>2, <1>4
  <2>4. known' = {p \in 1..Len(text) : Reach(spans, k, p)}
    <3>1. ASSUME NEW p \in 1..Len(text)
          PROVE  Reach(spans, k, p) <=> Reach(spans, k - 1, p) \/ Covers(s, p)
      BY <1>1, <1>2 DEF Reach
    <3>2. known' \subseteq 1..Len(text)
      BY <1>5, <1>6, <2>2
    <3>3. QED
      BY <2>2, <2>3, <3>1, <3>2
  <2>5. \A p \in 1..Len(text) :
            out'[p] = IF p \in known' \/ ~Private(p) THEN text[p] ELSE MaskChar
    BY <1>5, <2>1, <2>2, <2>3
  <2>6. k' - 1 = k /\ k' <= Len(spans) + 1
    BY <1>2, <2>2
  <2>7. \A p : Private(p)' <=> Private(p)
    BY <1>2 DEF Private
  <2>8. RestoringOwn'
    BY <1>2, <1>5, <2>2, <2>4, <2>5, <2>6, <2>7 DEF RestoringOwn, Reach
  <2>9. QED
    BY <1>2, <1>7, <1>8, <2>8 DEF IInv, Checking, Checked, Own, Gathered, Reach, Merging, Writing,
       Finishing, RestoringOther
<1>9. CASE pc = "splice"
  <2>1. \A i \in 1..k - 1 : i <= Len(spans) =>
            /\ Fits(spans[i])
            /\ \A p \in 1..Len(out) : Covers(spans[i], p) =>
                   p \in known /\ out[p] = spans[i].text[p - spans[i].start]
    BY <1>9 DEF IInv, RestoringOther
  <2>2. \A x : Fits(x)' <=> Fits(x)
    BY <1>5 DEF Fits
  <2>3. ASSUME NEW i \in 1..k
        PROVE  /\ Fits(spans[i])'
               /\ \A p \in 1..Len(out') : Covers(spans[i], p) =>
                      p \in known' /\ out'[p] = spans[i].text[p - spans[i].start]
    <3>1. CASE i = k
      <4>1. spans[i] = s /\ Fits(s)' /\ spans' = spans
        BY <1>1, <1>2, <2>2, <3>1
      <4>2. \A p \in 1..Len(out') : Covers(s, p) => p \in known' /\ out'[p] = s.text[p - s.start]
        BY <1>2, <1>4, <1>5
      <4>3. QED
        BY <4>1, <4>2
    <3>2. CASE i # k
      <4>1. i \in 1..k - 1 /\ i <= Len(spans)
        BY <1>2, <3>2
      <4>2. PICK t : t = spans[i]
        OBVIOUS
      <4>3. /\ Fits(t)
            /\ \A p \in 1..Len(out) : Covers(t, p) => p \in known /\ out[p] = t.text[p - t.start]
        BY <2>1, <4>1, <4>2
      <4>4. ASSUME NEW p \in 1..Len(out), Covers(t, p)
            PROVE  p \in known' /\ out'[p] = t.text[p - t.start]
        <5>1. p \in known /\ out[p] = t.text[p - t.start]
          BY <4>3, <4>4
        <5>2. Covers(s, p) => out[p] = s.text[p - s.start]
          BY <1>2, <5>1 DEF Conflicts
        <5>3. out'[p] = out[p]
          BY <1>5, <5>2
        <5>4. QED
          BY <1>2, <5>1, <5>3
      <4>5. Fits(t)' /\ spans' = spans
        BY <1>2, <2>2, <4>3
      <4>6. QED
        BY <1>5, <4>2, <4>4, <4>5
    <3>3. QED
      BY <3>1, <3>2
  <2>4. k' - 1 = k /\ spans' = spans
    BY <1>2
  <2>5. RestoringOther'
    BY <1>2, <1>9, <2>3, <2>4 DEF RestoringOther
  <2>6. QED
    BY <1>2, <1>7, <1>9, <2>5 DEF IInv, Checking, Checked, Own, Merging, Writing, Finishing,
       RestoringOwn
<1>10. QED
  BY <1>2, <1>8, <1>9

\* A character that no span restored was never masked.
LEMMA EndRestorePreserves ==
    ASSUME IInv, EndRestore
    PROVE  IInv'
<1>1. /\ pc \in {"restore", "splice"} /\ k > Len(spans)
      /\ pc' = IF pc = "restore" THEN "restored" ELSE "spliced"
      /\ UNCHANGED <<text, entities, spans, intervals, k, out, known>>
  BY DEF EndRestore, Restoring
<1>2. Shapes' /\ Apart'
  BY <1>1 DEF IInv, Shapes, Apart, Phases
<1>3. CASE pc = "restore"
  <2>1. /\ k <= Len(spans) + 1 /\ Len(out) = Len(text)
        /\ known = {p \in 1..Len(text) : Reach(spans, k - 1, p)}
        /\ \A p \in 1..Len(text) :
               out[p] = IF p \in known \/ ~Private(p) THEN text[p] ELSE MaskChar
        /\ Gathered(Len(entities))
    BY <1>3 DEF IInv, RestoringOwn, Own
  <2>2. k - 1 = Len(spans)
    BY <1>1, <2>1, SMTT(30) DEF IInv, Shapes
  <2>3. DOMAIN entities = 1..Len(entities) /\ DOMAIN text = 1..Len(text) /\ DOMAIN out = 1..Len(out)
        /\ text = [p \in 1..Len(text) |-> text[p]] /\ out = [p \in 1..Len(out) |-> out[p]]
    BY DEF IInv, Shapes
  <2>4. \A p \in 1..Len(text) : Private(p) => p \in known
    BY <2>1, <2>2, <2>3 DEF Gathered, Private
  <2>5. \A p \in 1..Len(text) : out[p] = text[p]
    BY <2>1, <2>4
  <2>6. out = text
    BY <2>1, <2>3, <2>5
  <2>7. QED
    BY <1>1, <1>2, <1>3, <2>6 DEF IInv, Checking, Checked, Own, Merging, Writing, Finishing,
       RestoringOwn, RestoringOther
<1>4. CASE pc = "splice"
  BY <1>1, <1>2, <1>4 DEF IInv, Checking, Checked, Own, Merging, Writing, Finishing,
     RestoringOwn, RestoringOther, Fits
<1>5. QED
  BY <1>1, <1>3, <1>4

-----------------------------------------------------------------------------

LEMMA FinishedPreserves ==
    ASSUME IInv, UNCHANGED vars
    PROVE  IInv'
<1>1. Shapes' /\ Apart'
  BY DEF vars, IInv, Shapes, Apart
<1>2. \A n : Gathered(n)' <=> Gathered(n)
  BY DEF vars, Gathered, Reach
<1>3. (\A p : Private(p)' <=> Private(p)) /\ (ShowsMask' <=> ShowsMask)
  BY DEF vars, Private, ShowsMask
<1>4. Checking' /\ Checked' /\ Own'
  BY <1>2 DEF vars, IInv, Checking, Checked, Own
<1>5. Merging' /\ Writing' /\ Finishing'
  BY <1>3 DEF vars, IInv, Merging, Writing, Finishing, Reach
<1>6. RestoringOwn' /\ RestoringOther'
  BY <1>3 DEF vars, IInv, RestoringOwn, RestoringOther, Reach, Fits
<1>7. QED
  BY <1>1, <1>4, <1>5, <1>6 DEF vars, IInv

\* Every step of mask_text and unmask_text preserves the invariant, whoever called them.
LEMMA NextPreserves ==
    ASSUME IInv, [Next]_vars
    PROVE  IInv'
<1>1. CASE RejectEntity
  BY <1>1, RejectEntityPreserves
<1>2. CASE TakeEntity
  BY <1>2, TakeEntityPreserves
<1>3. CASE SortSpans
  BY <1>3, SortSpansPreserves
<1>4. CASE MergeSpan
  BY <1>4, MergeSpanPreserves
<1>5. CASE EndMerge
  BY <1>5, EndMergePreserves
<1>6. CASE WriteInterval
  BY <1>6, WriteIntervalPreserves
<1>7. CASE WriteRest
  BY <1>7, WriteRestPreserves
<1>8. CASE UnmaskStored
  BY <1>8, UnmaskStoredPreserves
<1>9. CASE UnmaskStray
  BY <1>9, UnmaskStrayPreserves
<1>10. CASE RejectSpan
  BY <1>10, RejectSpanPreserves
<1>11. CASE RestoreSpan
  BY <1>11, RestoreSpanPreserves
<1>12. CASE EndRestore
  BY <1>12, EndRestorePreserves
<1>13. CASE Finished
  BY <1>13, FinishedPreserves DEF Finished
<1>14. CASE UNCHANGED vars
  BY <1>14, FinishedPreserves
<1>15. QED
  BY <1>1, <1>2, <1>3, <1>4, <1>5, <1>6, <1>7, <1>8, <1>9, <1>10, <1>11, <1>12, <1>13, <1>14
     DEF Next

\* The invariant of the loops holds always.
THEOREM MaskingInvariance == Spec => []IInv
  BY InitEstablishes, NextPreserves, PTL DEF Spec

\* The types of the variables, for texts and predictions of any length.
THEOREM TypeCorrect == Spec => []TypeOK
<1>1. IInv => TypeOK
  <2> SUFFICES ASSUME IInv PROVE TypeOK
    OBVIOUS
  <2>1. intervals \in Seq([start : Nat, end : Nat]) /\ DOMAIN intervals = 1..Len(intervals)
    BY DEF IInv, Shapes
  <2>2. \A i \in DOMAIN intervals : intervals[i] \in [start : Nat, end : Nat]
    BY <2>1, Elements
  <2>3. QED
    BY <2>1, <2>2 DEF IInv, Shapes, TypeOK
<1>2. QED
  BY <1>1, MaskingInvariance, PTL

LEMMA ExactOf == IInv => MaskIsExact
<1> SUFFICES ASSUME IInv, pc = "masked"
             PROVE  /\ \A i \in DOMAIN entities : ValidSpan(entities[i], Len(text))
                    /\ Len(out) = Len(text)
                    /\ \A p \in DOMAIN text : out[p] = IF Private(p) THEN MaskChar ELSE text[p]
  BY DEF MaskIsExact
<1>1. \A i \in DOMAIN entities : ValidSpan(entities[i], Len(text))
  <2>1. DOMAIN entities = 1..Len(entities)
    BY DEF IInv, Shapes
  <2>2. QED
    BY <2>1 DEF IInv, Checked
<1>2. QED
  BY <1>1 DEF IInv, Shapes, Finishing, ShowsMask

\* A mask comes of valid entities only, and shows MASK_CHAR on the private ones and
\* nowhere else.
THEOREM MaskExact == Spec => []MaskIsExact
  BY ExactOf, MaskingInvariance, PTL

\* An entity with invalid offsets goes no further than the check.
THEOREM FailsClosed == Spec => []InvalidFailsClosed
<1>1. IInv => InvalidFailsClosed
  <2> SUFFICES ASSUME IInv PROVE InvalidFailsClosed
    OBVIOUS
  <2>1. DOMAIN entities = 1..Len(entities)
    BY DEF IInv, Shapes
  <2>2. QED
    BY <2>1 DEF IInv, Checked, InvalidFailsClosed
<1>2. QED
  BY <1>1, MaskingInvariance, PTL

\* The merged intervals are disjoint and do not touch.
THEOREM IntervalsDisjoint == Spec => []IntervalsApart
<1>1. IInv => IntervalsApart
  <2> SUFFICES ASSUME IInv PROVE IntervalsApart
    OBVIOUS
  <2>1. DOMAIN intervals = 1..Len(intervals)
    BY DEF IInv, Shapes
  <2>2. QED
    BY <2>1 DEF IInv, Apart, IntervalsApart
<1>2. QED
  BY <1>1, MaskingInvariance, PTL

LEMMA RestoresOf == IInv => RestoresOriginal
  BY OwnSpanFits DEF IInv, RestoresOriginal

\* The stored spans restore the original, and never conflict.
THEOREM RoundTrip == Spec => []RestoresOriginal
  BY RestoresOf, MaskingInvariance, PTL

LEMMA StandsOf == IInv => RestorationStands
<1> SUFFICES ASSUME IInv, pc = "spliced" PROVE RestorationStands
  BY DEF RestorationStands
<1>1. k > Len(spans) /\ k \in Nat /\ Len(spans) \in Nat
      /\ DOMAIN spans = 1..Len(spans) /\ DOMAIN out = 1..Len(out)
  BY DEF IInv, Shapes, RestoringOther
<1>2. \A i \in 1..Len(spans) : i \in 1..k - 1 /\ i <= Len(spans)
  BY <1>1
<1>3. QED
  BY <1>1, <1>2 DEF IInv, RestoringOther, RestorationStands

\* No span overwrites another's text, whatever spans the store returns.
THEOREM SplicesStand == Spec => []RestorationStands
  BY StandsOf, MaskingInvariance, PTL
-----------------------------------------------------------------------------
(* The detectors: the inductive invariant.                                 *)

DetectShapes ==
    /\ kind \in Kinds
    /\ filtered \in BOOLEAN
    /\ matches \in Matchings
    /\ predicted \in ModelPredictions
    /\ stage \in Stages
    /\ ordered \in Seq(matches)
    /\ turn \in 1..Len(ordered) + 1
    /\ kept \in Seq(matches)
    /\ result \subseteq Entities

Ascends ==
    \A i, j \in 1..Len(kept) : i < j => kept[i].start < kept[j].start /\ kept[i].end < kept[j].end

\* The loop of _dedupe.
Deduping ==
    stage = "dedupe" =>
        /\ kind \in {"rules", "hybrid"}
        /\ Range(ordered) = matches
        /\ \A i, j \in 1..Len(ordered) : i < j => Before(ordered[i], ordered[j])
        /\ \A i \in 1..turn - 1 : \E j \in 1..Len(kept) : Within(ordered[i], kept[j])
        /\ \A i \in 1..Len(kept), j \in turn..Len(ordered) : Before(kept[i], ordered[j])

Starting == stage = "sort" => kind \in {"rules", "hybrid"} /\ turn = 1 /\ kept = <<>> /\ ordered = <<>>
Alone == stage = "predict" => kind \in {"model", "rubert"}

\* What the private entities E of a result are, for each kind of detector.
Combined(E) ==
    /\ kind \in {"rules", "hybrid"} => \A m \in matches : \E e \in E : Within(m, e)
    /\ kind = "rules" => E \subseteq matches
    /\ kind = "hybrid" => Personal(predicted) \subseteq E /\ E \subseteq matches \cup Personal(predicted)
    /\ kind = "model" => E = Personal(predicted)
    /\ kind = "rubert" =>
           /\ Personal(predicted) \subseteq E /\ E \subseteq Emails \cup Personal(predicted)
           /\ \A m \in Emails : \E e \in E : Within(m, e)

Returning == stage \in {"filter", "done"} => Combined(Personal(result))

DetectIInv == DetectShapes /\ Ascends /\ Starting /\ Alone /\ Deduping /\ Returning

-----------------------------------------------------------------------------

\* A match is an entity, and private.
LEMMA MatchesArePrivate ==
    ASSUME DetectShapes
    PROVE  \A m \in matches :
               /\ m \in Entities /\ m.start \in Int /\ m.end \in Int /\ m.start < m.end
               /\ m.label \notin Auxiliary
<1> SUFFICES ASSUME NEW m \in matches
             PROVE  /\ m \in Entities /\ m.start \in Int /\ m.end \in Int /\ m.start < m.end
                    /\ m.label \notin Auxiliary
  OBVIOUS
<1>1. m \in Entities /\ m.label \in Range(Rules) /\ Length \in Nat
  BY DetectionAssumption DEF DetectShapes
<1>2. m.start \in 0..Length /\ m.end \in 0..Length /\ m.start < m.end
  BY <1>1 DEF Entities
<1>3. m.label \notin Auxiliary
  BY <1>1, DetectionAssumption
<1>4. QED
  BY <1>1, <1>2, <1>3

LEMMA DetectInitEstablishes == DetectInit => DetectIInv
<1> SUFFICES ASSUME DetectInit PROVE DetectIInv
  OBVIOUS
<1>1. DetectShapes
  BY DEF DetectInit, DetectShapes, Kinds, Stages
<1>2. QED
  BY <1>1 DEF DetectInit, DetectIInv, Ascends, Starting, Alone, Deduping, Returning, Kinds

LEMMA SortMatchesPreserves ==
    ASSUME DetectIInv, SortMatches
    PROVE  DetectIInv'
<1>1. /\ stage = "sort" /\ stage' = "dedupe" /\ turn = 1 /\ kept = <<>> /\ kind \in {"rules", "hybrid"}
      /\ ordered' \in InOrder(matches)
      /\ UNCHANGED <<kind, filtered, matches, predicted, turn, kept, result>>
  BY DEF DetectIInv, SortMatches, Starting
<1>2. IsFiniteSet(matches)
  BY DetectionAssumption DEF DetectIInv, DetectShapes
<1>3. PICK n \in Nat : n = Cardinality(matches)
  BY <1>2, FS_CardinalityType
<1>4. /\ ordered' \in [1..n -> matches] /\ Range(ordered') = matches
      /\ \A i, j \in 1..n : i < j => Before(ordered'[i], ordered'[j])
  BY <1>1, <1>3 DEF InOrder
<1>5. ordered' \in Seq(matches) /\ Len(ordered') = n
  BY <1>3, <1>4
<1>6. DetectShapes'
  BY <1>1, <1>3, <1>5 DEF DetectIInv, DetectShapes, Stages
<1>7. Deduping'
  BY <1>1, <1>3, <1>4, <1>5 DEF Deduping
<1>8. QED
  BY <1>1, <1>6, <1>7 DEF DetectIInv, Ascends, Starting, Alone, Returning

\* A dropped span lies within the last kept one.
LEMMA DropSpanPreserves ==
    ASSUME DetectIInv, DropSpan
    PROVE  DetectIInv'
<1>1. /\ stage = "dedupe" /\ stage' = "dedupe" /\ turn \in 1..Len(ordered) /\ turn' = turn + 1
      /\ Len(kept) \in 1..Len(kept) /\ Within(ordered[turn], kept[Len(kept)])
      /\ UNCHANGED <<kind, filtered, matches, predicted, ordered, kept, result>>
  BY DEF DetectIInv, DetectShapes, DropSpan, Contained
<1>2. DetectShapes'
  BY <1>1 DEF DetectIInv, DetectShapes
<1>3. Deduping'
  <2>1. \A i \in 1..turn : i = turn \/ i \in 1..turn - 1
    BY <1>1
  <2>2. \A i \in 1..turn : \E j \in 1..Len(kept) : Within(ordered[i], kept[j])
    BY <1>1, <2>1 DEF DetectIInv, Deduping
  <2>3. turn' - 1 = turn /\ \A j \in turn'..Len(ordered) : j \in turn..Len(ordered)
    BY <1>1
  <2>4. QED
    BY <1>1, <2>2, <2>3 DEF DetectIInv, Deduping
<1>4. QED
  BY <1>1, <1>2, <1>3 DEF DetectIInv, Ascends, Starting, Alone, Returning

\* A span that is not within the last kept one starts and ends after it.
LEMMA KeepSpanPreserves ==
    ASSUME DetectIInv, KeepSpan
    PROVE  DetectIInv'
<1> DEFINE n == Len(kept)
           s == ordered[turn]
<1>1. /\ stage = "dedupe" /\ stage' = "dedupe" /\ turn \in 1..Len(ordered) /\ turn' = turn + 1
      /\ kept' = Append(kept, s) /\ ~Contained(s, kept)
      /\ UNCHANGED <<kind, filtered, matches, predicted, ordered, result>>
  BY DEF DetectIInv, DetectShapes, KeepSpan
<1>2. /\ n \in Nat /\ s \in matches
      /\ kept' \in Seq(matches) /\ Len(kept') = n + 1
      /\ \A i \in 1..n : kept'[i] = kept[i] /\ kept[i] \in matches
      /\ kept'[n + 1] = s
      /\ \A i \in 1..n + 1 : i \in 1..n \/ i = n + 1
  <2>1. kept \in Seq(matches) /\ ordered \in Seq(matches)
    BY DEF DetectIInv, DetectShapes
  <2>2. s \in matches
    BY <1>1, <2>1
  <2> HIDE DEF s
  <2>3. QED
    BY <1>1, <2>1, <2>2
<1>3. \A i \in 1..n : Before(kept[i], s)
  BY <1>1 DEF DetectIInv, Deduping
<1> HIDE DEF s
<1>4. \A m \in matches : m.start \in Int /\ m.end \in Int
  BY MatchesArePrivate DEF DetectIInv
<1>5. ASSUME NEW i \in 1..n PROVE kept[i].start < s.start /\ kept[i].end < s.end
  <2>1. n \in 1..n /\ kept # <<>>
    BY <1>2
  <2>2. kept[n].start <= s.start /\ (kept[n].start = s.start => kept[n].end >= s.end)
    BY <1>2, <1>3, <1>4, <2>1 DEF Before
  <2>3. ~Within(s, kept[n])
    BY <1>1, <2>1 DEF Contained
  <2>4. kept[n].start < s.start /\ kept[n].end < s.end
    BY <1>2, <1>4, <2>1, <2>2, <2>3 DEF Within
  <2>5. i # n => kept[i].start < kept[n].start /\ kept[i].end < kept[n].end
    BY <1>2, <2>1 DEF DetectIInv, Ascends
  <2>6. QED
    BY <1>2, <1>4, <2>1, <2>4, <2>5
<1>6. Ascends'
  <2>1. ASSUME NEW i \in 1..n + 1, NEW j \in 1..n + 1, i < j
        PROVE  kept'[i].start < kept'[j].start /\ kept'[i].end < kept'[j].end
    <3>1. i \in 1..n
      BY <1>2, <2>1
    <3>2. CASE j = n + 1
      BY <1>2, <1>5, <3>1, <3>2
    <3>3. CASE j \in 1..n
      BY <1>2, <2>1, <3>1, <3>3 DEF DetectIInv, Ascends
    <3>4. QED
      BY <1>2, <3>2, <3>3
  <2>2. QED
    BY <1>2, <2>1 DEF Ascends
<1>7. DetectShapes'
  BY <1>1, <1>2 DEF DetectIInv, DetectShapes
<1>8. Deduping'
  <2>1. Within(s, s) /\ n + 1 \in 1..n + 1
    BY <1>2, <1>4 DEF Within
  <2>2. ASSUME NEW i \in 1..turn PROVE \E j \in 1..n + 1 : Within(ordered[i], kept'[j])
    <3>1. CASE i = turn
      BY <1>2, <2>1, <3>1 DEF s
    <3>2. CASE i # turn
      <4>1. i \in 1..turn - 1
        BY <1>1, <3>2
      <4>2. PICK j \in 1..n : Within(ordered[i], kept[j])
        BY <1>1, <4>1 DEF DetectIInv, Deduping
      <4>3. QED
        BY <1>2, <4>2
    <3>3. QED
      BY <3>1, <3>2
  <2>3. ASSUME NEW i \in 1..n + 1, NEW j \in turn + 1..Len(ordered)
        PROVE  Before(kept'[i], ordered[j])
    <3>1. j \in turn..Len(ordered) /\ j \in 1..Len(ordered) /\ turn < j
      BY <1>1
    <3>2. CASE i \in 1..n
      BY <1>1, <1>2, <3>1, <3>2 DEF DetectIInv, Deduping
    <3>3. CASE i = n + 1
      BY <1>1, <1>2, <3>1, <3>3 DEF DetectIInv, Deduping, s
    <3>4. QED
      BY <1>2, <3>2, <3>3
  <2>4. turn' - 1 = turn
    BY <1>1
  <2>5. QED
    BY <1>1, <1>2, <2>2, <2>3, <2>4 DEF DetectIInv, Deduping
<1>9. QED
  BY <1>1, <1>6, <1>7, <1>8 DEF DetectIInv, Starting, Alone, Returning

\* Every match lies within a kept one, and matches are private.
LEMMA EndDedupePreserves ==
    ASSUME DetectIInv, EndDedupe
    PROVE  DetectIInv'
<1>1. /\ stage = "dedupe" /\ stage' = "filter" /\ turn > Len(ordered) /\ kind \in {"rules", "hybrid"}
      /\ result' = Range(kept) \cup (IF kind = "hybrid" THEN predicted ELSE {})
      /\ UNCHANGED <<kind, filtered, matches, predicted, ordered, turn, kept>>
  BY DEF DetectIInv, EndDedupe, Deduping
<1>2. /\ Len(ordered) \in Nat /\ turn - 1 = Len(ordered) /\ DOMAIN ordered = 1..Len(ordered)
      /\ DOMAIN kept = 1..Len(kept) /\ \A i \in 1..Len(kept) : kept[i] \in matches
  BY <1>1 DEF DetectIInv, DetectShapes
<1>3. Range(kept) \subseteq Personal(matches) /\ Personal(matches) = matches /\ matches \subseteq Entities
  BY <1>2, MatchesArePrivate DEF DetectIInv, Range, Personal
<1>4. predicted \subseteq Entities
  BY DetectionAssumption DEF DetectIInv, DetectShapes
<1>5. DetectShapes'
  BY <1>1, <1>3, <1>4 DEF DetectIInv, DetectShapes, Stages
<1>6. ASSUME NEW m \in matches PROVE \E e \in Range(kept) : Within(m, e)
  <2>1. PICK i \in 1..Len(ordered) : m = ordered[i]
    BY <1>1, <1>2 DEF DetectIInv, Deduping, Range
  <2>2. PICK j \in 1..Len(kept) : Within(ordered[i], kept[j])
    BY <1>1, <1>2, <2>1 DEF DetectIInv, Deduping
  <2>3. QED
    BY <1>2, <2>1, <2>2 DEF Range
<1>7. Range(kept) \subseteq Personal(result')
  BY <1>1, <1>3 DEF Personal
<1>8. Personal(result') \subseteq Range(kept) \cup Personal(predicted)
  BY <1>1 DEF Personal
<1>9. kind = "rules" => Personal(result') \subseteq Range(kept)
  BY <1>1 DEF Personal
<1>10. kind = "hybrid" => Personal(predicted) \subseteq Personal(result')
  BY <1>1 DEF Personal
<1>11. Returning'
  <2>1. \A m \in matches : \E e \in Personal(result') : Within(m, e)
    BY <1>6, <1>7
  <2>2. Range(kept) \subseteq matches
    BY <1>3
  <2>3. QED
    BY <1>1, <1>8, <1>9, <1>10, <2>1, <2>2 DEF Returning, Combined, Personal
<1>12. QED
  BY <1>1, <1>5, <1>11 DEF DetectIInv, Ascends, Starting, Alone, Deduping

LEMMA PredictModelPreserves ==
    ASSUME DetectIInv, PredictModel
    PROVE  DetectIInv'
<1>1. DetectShapes'
  BY DetectionAssumption DEF DetectIInv, PredictModel, DetectShapes, Stages
<1>2. QED
  BY <1>1 DEF DetectIInv, PredictModel, Ascends, Starting, Alone, Deduping, Returning, Combined, Personal

\* An e-mail no entity covers whole becomes an entity itself.
LEMMA PredictRubertPreserves ==
    ASSUME DetectIInv, PredictRubert
    PROVE  DetectIInv'
<1> DEFINE E == Personal(predicted)
           added == {m \in Emails : Completes(m, E)}
<1>1. /\ stage' = "filter" /\ kind = "rubert"
      /\ result' = E \cup added
      /\ UNCHANGED <<kind, filtered, matches, predicted, ordered, turn, kept>>
  BY DEF PredictRubert
<1>2. \A m \in matches : m \in Entities /\ m.start \in Int /\ m.end \in Int /\ m.label \notin Auxiliary
  BY MatchesArePrivate DEF DetectIInv
<1>3. E \subseteq Entities /\ Emails \subseteq matches
  BY DetectionAssumption DEF DetectIInv, DetectShapes, Personal, Emails
<1>4. DetectShapes'
  <2>1. result' \subseteq Entities
    BY <1>1, <1>2, <1>3
  <2>2. QED
    BY <1>1, <2>1 DEF DetectIInv, DetectShapes, Stages
<1>5. Personal(result') = result'
  BY <1>1, <1>2, <1>3 DEF Personal
<1>6. ASSUME NEW m \in Emails PROVE \E e \in result' : Within(m, e)
  <2>1. CASE Completes(m, E)
    <3>1. m \in result' /\ Within(m, m)
      BY <1>1, <1>2, <1>3, <2>1 DEF Within
    <3>2. QED
      BY <3>1
  <2>2. CASE ~Completes(m, E)
    <3>1. PICK e \in E : e.start <= m.start /\ e.end >= m.end
      BY <2>2 DEF Completes
    <3>2. e.start \in Int /\ e.end \in Int /\ m.start \in Int /\ m.end \in Int
      BY <1>2, <1>3, DetectionAssumption DEF Entities
    <3>3. Within(m, e) /\ e \in result'
      BY <1>1, <3>1, <3>2 DEF Within
    <3>4. QED
      BY <3>3
  <2>3. QED
    BY <2>1, <2>2
<1> HIDE DEF E
<1>7. Returning'
  <2>1. E = Personal(predicted)' /\ Emails' = Emails
    BY <1>1 DEF E, Personal, Emails
  <2>2. E \subseteq result' /\ result' \subseteq Emails \cup E
    BY <1>1
  <2>3. Personal(result)' = result'
    BY <1>5 DEF Personal
  <2>4. QED
    BY <1>1, <1>6, <2>1, <2>2, <2>3 DEF Returning, Combined
<1>8. QED
  BY <1>1, <1>4, <1>7 DEF DetectIInv, Ascends, Starting, Alone, Deduping

\* The filter leaves the private entities as they are.
LEMMA FilterPreserves ==
    ASSUME DetectIInv, Filter
    PROVE  DetectIInv'
<1>1. /\ stage = "filter" /\ stage' = "done"
      /\ result' = IF filtered THEN Personal(result) ELSE result
      /\ UNCHANGED <<kind, filtered, matches, predicted, ordered, turn, kept>>
  BY DEF Filter
<1>2. Personal(result)' = Personal(result) /\ result' \subseteq result
  BY <1>1 DEF Personal
<1>3. DetectShapes'
  BY <1>1, <1>2 DEF DetectIInv, DetectShapes, Stages
<1>4. Personal(predicted)' = Personal(predicted) /\ Emails' = Emails
  BY <1>1 DEF Personal, Emails
<1>5. Returning'
  BY <1>1, <1>2, <1>4 DEF DetectIInv, Returning, Combined
<1>6. QED
  BY <1>1, <1>3, <1>5 DEF DetectIInv, Ascends, Starting, Alone, Deduping

LEMMA StutterPreserves ==
    ASSUME DetectIInv, UNCHANGED detectionVars
    PROVE  DetectIInv'
<1>1. /\ kind' = kind /\ filtered' = filtered /\ matches' = matches /\ predicted' = predicted
      /\ stage' = stage /\ ordered' = ordered /\ turn' = turn /\ kept' = kept /\ result' = result
  BY DEF detectionVars
<1>2. DetectShapes' /\ Ascends' /\ Starting' /\ Alone'
  BY <1>1 DEF DetectIInv, DetectShapes, Ascends, Starting, Alone
<1>3. Deduping'
  BY <1>1 DEF DetectIInv, Deduping
<1>4. Personal(result)' = Personal(result) /\ Personal(predicted)' = Personal(predicted) /\ Emails' = Emails
  BY <1>1 DEF Personal, Emails
<1>5. Returning'
  BY <1>1, <1>4 DEF DetectIInv, Returning, Combined
<1>6. QED
  BY <1>2, <1>3, <1>5 DEF DetectIInv

-----------------------------------------------------------------------------

\* Every step of a detector preserves its invariant.
LEMMA DetectNextPreserves ==
    ASSUME DetectIInv, [DetectNext]_detectionVars
    PROVE  DetectIInv'
  BY SortMatchesPreserves, DropSpanPreserves, KeepSpanPreserves, EndDedupePreserves,
     PredictModelPreserves, PredictRubertPreserves, FilterPreserves, StutterPreserves
     DEF DetectNext, Detected

\* The invariant of the loop and of the detectors holds always.
THEOREM DetectionInvariance == DetectSpec => []DetectIInv
  BY DetectInitEstablishes, DetectNextPreserves, PTL DEF DetectSpec

\* The types of the variables.
THEOREM DetectTypeCorrect == DetectSpec => []DetectTypeOK
<1>1. DetectIInv => DetectTypeOK
  BY DEF DetectIInv, DetectShapes, DetectTypeOK
<1>2. QED
  BY <1>1, DetectionInvariance, PTL

\* The kept spans ascend in starts and in ends.
THEOREM DedupeAscends == DetectSpec => []KeptAscend
<1>1. DetectIInv => KeptAscend
  <2> SUFFICES ASSUME DetectIInv PROVE KeptAscend
    OBVIOUS
  <2>1. DOMAIN kept = 1..Len(kept)
    BY DEF DetectIInv, DetectShapes
  <2>2. QED
    BY <2>1 DEF DetectIInv, Ascends, KeptAscend
<1>2. QED
  BY <1>1, DetectionInvariance, PTL

\* What a detector that is done covers is the union of what its parts found.
LEMMA CoverageOf == DetectIInv => CoverageIsUnion
<1> SUFFICES ASSUME DetectIInv, stage = "done", NEW p \in 1..Length
             PROVE  Shown(Personal(result), p)
                    <=> \/ kind # "rules" /\ Shown(Personal(predicted), p)
                        \/ kind \in {"rules", "hybrid"} /\ Shown(matches, p)
                        \/ kind = "rubert" /\ Shown(Emails, p)
  BY DEF CoverageIsUnion
<1> DEFINE E == Personal(result)
           Q == Personal(predicted)
<1>1. Combined(E)
  BY DEF DetectIInv, Returning
<1>2. E \subseteq Entities /\ matches \subseteq Entities /\ Emails \subseteq matches
  BY MatchesArePrivate DEF DetectIInv, DetectShapes, Personal, Emails
<1>3. \A e \in Entities : e.start \in Int /\ e.end \in Int
  BY DetectionAssumption DEF Entities
<1> HIDE DEF E, Q
<1>4. ASSUME NEW M, M \subseteq Entities, \A m \in M : \E e \in E : Within(m, e), Shown(M, p)
      PROVE  Shown(E, p)
  <2>1. PICK m \in M : Has(m, p)
    BY <1>4 DEF Shown
  <2>2. PICK e \in E : Within(m, e)
    BY <1>4
  <2>3. m.start \in Int /\ m.end \in Int /\ e.start \in Int /\ e.end \in Int
    BY <1>2, <1>3, <1>4
  <2>4. Has(e, p)
    BY <2>1, <2>2, <2>3 DEF Has, Within
  <2>5. QED
    BY <2>4 DEF Shown
<1>5. CASE kind = "rules"
  <2>1. E \subseteq matches /\ \A m \in matches : \E e \in E : Within(m, e)
    BY <1>1, <1>5 DEF Combined
  <2>2. Shown(matches, p) => Shown(E, p)
    BY <1>2, <1>4, <2>1
  <2>3. QED
    BY <1>5, <2>1, <2>2 DEF Shown, E
<1>6. CASE kind = "hybrid"
  <2>1. /\ Q \subseteq E /\ E \subseteq matches \cup Q
        /\ \A m \in matches : \E e \in E : Within(m, e)
    BY <1>1, <1>6 DEF Combined, Q
  <2>2. Shown(matches, p) => Shown(E, p)
    BY <1>2, <1>4, <2>1
  <2>3. QED
    BY <1>6, <2>1, <2>2 DEF Shown, E, Q
<1>7. CASE kind = "model"
  BY <1>1, <1>7 DEF Combined, E, Q
<1>8. CASE kind = "rubert"
  <2>1. /\ Q \subseteq E /\ E \subseteq Emails \cup Q
        /\ \A m \in Emails : \E e \in E : Within(m, e)
    BY <1>1, <1>8 DEF Combined, Q
  <2>2. Shown(Emails, p) => Shown(E, p)
    BY <1>2, <1>4, <2>1
  <2>3. QED
    BY <1>8, <2>1, <2>2 DEF Shown, E, Q
<1>9. QED
  BY <1>5, <1>6, <1>7, <1>8 DEF DetectIInv, DetectShapes, Kinds

\* What will be masked is the union of what the parts of the detector found.
THEOREM NothingLostOrAdded == DetectSpec => []CoverageIsUnion
  BY CoverageOf, DetectionInvariance, PTL

\* No e-mail is cut.
THEOREM EmailsStayWhole == DetectSpec => []EmailsWhole
<1>1. DetectIInv => EmailsWhole
  BY DEF DetectIInv, DetectShapes, Returning, Combined, Emails, Kinds, EmailsWhole
<1>2. QED
  BY <1>1, DetectionInvariance, PTL

-----------------------------------------------------------------------------
(* Detection and masking                                                   *)

\* mask_text has not begun.
Idle == spans = <<>> /\ intervals = <<>> /\ k = 1 /\ out = <<>> /\ known = {}

\* mask_text was given the entities of the detector, which are valid.
Handed ==
    /\ stage = "done"
    /\ entities \in Seq(result) /\ Range(entities) = result
    /\ pc # "invalid"

PipelineInv ==
    /\ text \in Texts /\ text \in Seq(Range(text))
    /\ pc = "detect" => kind \in Kinds /\ Idle
    /\ pc # "detect" => IInv
    /\ kind \in Kinds =>
           /\ DetectIInv
           /\ IsFiniteSet(result)
           /\ Len(text) = Length
           /\ pc # "detect" => Handed

\* What a detector returns is finite.
LEMMA ResultStaysFinite ==
    ASSUME DetectIInv, IsFiniteSet(result), DetectNext
    PROVE  IsFiniteSet(result')
<1>1. IsFiniteSet(matches) /\ IsFiniteSet(predicted)
  BY DetectionAssumption DEF DetectIInv, DetectShapes
<1>2. Range(kept) \subseteq matches
  BY DEF DetectIInv, DetectShapes, Range
<1>3. ASSUME NEW M, NEW P, M \subseteq matches, P \subseteq predicted PROVE IsFiniteSet(P \cup M)
  BY <1>1, <1>3, FS_Subset, FS_Union
<1>4. CASE EndDedupe
  <2>1. result' \subseteq predicted \cup Range(kept)
    BY <1>4 DEF EndDedupe
  <2>2. IsFiniteSet(predicted \cup Range(kept))
    BY <1>2, <1>3
  <2>3. QED
    BY <2>1, <2>2, FS_Subset
<1>5. CASE PredictModel
  BY <1>1, <1>5 DEF PredictModel
<1>6. CASE PredictRubert
  <2>1. result' \subseteq predicted \cup matches
    BY <1>6 DEF PredictRubert, Personal, Emails
  <2>2. IsFiniteSet(predicted \cup matches)
    BY <1>3
  <2>3. QED
    BY <2>1, <2>2, FS_Subset
<1>7. CASE Filter
  <2>1. result' \subseteq result
    BY <1>7 DEF Filter, Personal
  <2>2. QED
    BY <2>1, FS_Subset
<1>8. QED
  BY <1>4, <1>5, <1>6, <1>7
     DEF DetectNext, SortMatches, DropSpan, KeepSpan, Detected, detectionVars

LEMMA PipelineInitEstablishes == PipelineInit => PipelineInv
<1>1. DetectorInit => PipelineInv
  <2> SUFFICES ASSUME DetectorInit PROVE PipelineInv
    OBVIOUS
  <2>1. DetectIInv
    BY DetectInitEstablishes DEF DetectorInit
  <2>2. text \in Texts /\ text \in Seq(Range(text)) /\ Len(text) = Length
    BY MaskingAssumption DEF DetectorInit
  <2>3. kind \in Kinds /\ Idle /\ pc = "detect" /\ result = {}
    BY DEF DetectorInit, DetectInit, Idle
  <2>4. QED
    BY <2>1, <2>2, <2>3, FS_EmptySet DEF PipelineInv
<1>2. PlugInInit => PipelineInv
  <2> SUFFICES ASSUME PlugInInit PROVE PipelineInv
    OBVIOUS
  <2>1. IInv
    BY InitEstablishes DEF PlugInInit
  <2>2. kind \notin Kinds /\ pc # "detect"
    BY DEF PlugInInit, Init, Kinds
  <2>3. text \in Texts /\ text \in Seq(Range(text))
    BY MaskingAssumption DEF PlugInInit, Init
  <2>4. QED
    BY <2>1, <2>2, <2>3 DEF PipelineInv
<1>3. QED
  BY <1>1, <1>2 DEF PipelineInit

\* While the detector works mask_text waits.
LEMMA DetectStepPreserves ==
    ASSUME PipelineInv, Detect
    PROVE  PipelineInv'
<1>1. /\ pc = "detect" /\ kind \in Kinds /\ DetectIInv /\ DetectNext /\ UNCHANGED vars
      /\ Len(text) = Length /\ Idle /\ text \in Texts /\ text \in Seq(Range(text))
  BY DEF PipelineInv, Detect, Waiting
<1>2. DetectIInv' /\ IsFiniteSet(result')
  BY <1>1, DetectNextPreserves, ResultStaysFinite DEF PipelineInv
<1>3. kind' \in Kinds
  BY <1>2 DEF DetectIInv, DetectShapes
<1>4. pc' = "detect" /\ text' = text /\ Idle'
  BY <1>1 DEF vars, Idle
<1>5. QED
  BY <1>1, <1>2, <1>3, <1>4 DEF PipelineInv

\* An entity of the detector has valid offsets.
LEMMA EntitiesAreValid ==
    ASSUME NEW e \in Entities, Len(text) = Length
    PROVE  ValidSpan(e, Len(text))
<1>1. Length \in Nat /\ e.start \in 0..Length /\ e.end \in 0..Length /\ e.start < e.end
  BY DetectionAssumption DEF Entities
<1>2. QED
  BY <1>1 DEF ValidSpan

\* mask_text begins with the list of the detector.
LEMMA HandOverPreserves ==
    ASSUME PipelineInv, HandOver
    PROVE  PipelineInv'
<1>1. /\ pc = "detect" /\ pc' = "check" /\ stage = "done" /\ kind \in Kinds /\ DetectIInv /\ Idle
      /\ Len(text) = Length /\ text \in Texts /\ text \in Seq(Range(text))
      /\ entities' \in Lists(result)
  BY DEF PipelineInv, HandOver, Waiting
<1>2. /\ UNCHANGED detectionVars
      /\ text' = text /\ spans' = spans /\ intervals' = intervals /\ k' = k /\ out' = out
      /\ known' = known
  BY DEF HandOver
<1>3. stage' = stage /\ result' = result /\ kind' = kind
  BY <1>2 DEF detectionVars
<1>4. DetectIInv'
  BY <1>1, <1>2, StutterPreserves
<1>5. entities' \in Seq(result) /\ Range(entities') = result
  <2>1. IsFiniteSet(result)
    BY <1>1 DEF PipelineInv
  <2>2. PICK n \in Nat : n = Cardinality(result)
    BY <2>1, FS_CardinalityType
  <2>3. entities' \in [1..n -> result] /\ Range(entities') = result
    BY <1>1, <2>2 DEF Lists
  <2>4. QED
    BY <2>2, <2>3
<1>6. Idle' /\ pc' = "check"
  BY <1>1, <1>2 DEF Idle
<1>7. IInv'
  <2>1. entities' \in Seq(Range(entities'))
    BY <1>5
  <2>2. Shapes' /\ Apart'
    BY <1>1, <1>2, <1>6, <2>1 DEF Idle, Shapes, Apart, Phases
  <2>3. Checking'
    BY <1>1, <1>2, <1>6, <2>1 DEF Idle, Checking, Gathered, Reach
  <2>4. QED
    BY <1>6, <2>2, <2>3
       DEF IInv, Checked, Own, Merging, Writing, Finishing, RestoringOwn, RestoringOther
<1>8. Handed'
  BY <1>1, <1>3, <1>5 DEF Handed
<1>9. QED
  BY <1>1, <1>2, <1>3, <1>4, <1>7, <1>8 DEF PipelineInv

\* No step of mask_text refuses an entity of the detector.
LEMMA MaskPreserves ==
    ASSUME PipelineInv, Mask
    PROVE  PipelineInv'
<1>1. /\ pc # "detect" /\ Next /\ IInv /\ text \in Texts /\ text \in Seq(Range(text))
      /\ UNCHANGED detectionVars
  BY DEF PipelineInv, Mask, Waiting
<1>2. IInv'
  BY <1>1, NextPreserves
<1>3. pc' # "detect"
  BY <1>2 DEF IInv, Shapes, Phases
<1>4. text' = text /\ entities' = entities
  BY <1>1 DEF Next, RejectEntity, TakeEntity, SortSpans, MergeSpan, EndMerge, WriteInterval,
              WriteRest, UnmaskStored, UnmaskStray, Unmask, RejectSpan, RestoreSpan,
              EndRestore, Finished, vars
<1>5. kind' = kind /\ stage' = stage /\ result' = result
  BY <1>1 DEF detectionVars
<1>6. ASSUME kind \in Kinds
      PROVE  DetectIInv' /\ IsFiniteSet(result') /\ Len(text') = Length /\ Handed'
  <2>1. DetectIInv /\ IsFiniteSet(result) /\ Len(text) = Length /\ Handed
    BY <1>1, <1>6 DEF PipelineInv
  <2>2. DetectIInv'
    BY <1>1, <2>1, StutterPreserves
  <2>3. ~RejectEntity
    <3> SUFFICES ASSUME RejectEntity PROVE FALSE
      OBVIOUS
    <3>1. k \in 1..Len(entities) /\ ~ValidSpan(entities[k], Len(text))
      BY <1>1 DEF RejectEntity, IInv, Shapes
    <3>2. entities[k] \in Entities
      BY <2>1, <3>1 DEF Handed, DetectIInv, DetectShapes
    <3>3. QED
      BY <2>1, <3>1, <3>2, EntitiesAreValid
  <2>4. pc' # "invalid"
    BY <1>1, <2>1, <2>3
       DEF Handed, Next, TakeEntity, SortSpans, MergeSpan, EndMerge, WriteInterval, WriteRest,
           UnmaskStored, UnmaskStray, Unmask, RejectSpan, RestoreSpan, EndRestore, Finished, vars
  <2>5. QED
    BY <1>4, <1>5, <2>1, <2>2, <2>4 DEF Handed
<1>7. QED
  BY <1>1, <1>2, <1>3, <1>4, <1>5, <1>6 DEF PipelineInv

LEMMA PipelineStutters ==
    ASSUME PipelineInv, UNCHANGED pipelineVars
    PROVE  PipelineInv'
<1>1. UNCHANGED detectionVars /\ UNCHANGED vars
  BY DEF pipelineVars
<1>2. pc # "detect" => IInv'
  BY <1>1, NextPreserves DEF PipelineInv
<1>3. kind \in Kinds => DetectIInv'
  BY <1>1, StutterPreserves DEF PipelineInv
<1>4. kind' = kind /\ stage' = stage /\ result' = result
  BY <1>1 DEF detectionVars
<1>5. /\ pc' = pc /\ text' = text /\ entities' = entities /\ spans' = spans
      /\ intervals' = intervals /\ k' = k /\ out' = out /\ known' = known
  BY <1>1 DEF vars
<1>6. QED
  BY <1>2, <1>3, <1>4, <1>5 DEF PipelineInv, Idle, Handed

\* Detector and mask_text keep their invariants, and the list between them is complete.
THEOREM PipelineInvariance == PipelineSpec => []PipelineInv
<1>1. PipelineInv /\ [PipelineNext]_pipelineVars => PipelineInv'
  BY DetectStepPreserves, HandOverPreserves, MaskPreserves, PipelineStutters DEF PipelineNext
<1>2. QED
  BY <1>1, PipelineInitEstablishes, PTL DEF PipelineSpec

\* A character is masked exactly if a part of the detector found it private, and no
\* text is refused.
THEOREM FoundIsHidden == PipelineSpec => []MaskHidesWhatWasFound
<1>1. PipelineInv => MaskHidesWhatWasFound
  <2> SUFFICES ASSUME PipelineInv, kind \in Kinds
               PROVE  /\ pc # "invalid"
                      /\ pc = "masked" =>
                            \A p \in DOMAIN text : out[p] = IF Found(p) THEN MaskChar ELSE text[p]
    BY DEF MaskHidesWhatWasFound
  <2>1. pc # "invalid"
    BY DEF PipelineInv, Handed
  <2>2. ASSUME pc = "masked", NEW p \in DOMAIN text
        PROVE  out[p] = IF Found(p) THEN MaskChar ELSE text[p]
    <3>1. IInv /\ DetectIInv /\ Handed /\ Len(text) = Length
      BY <2>2 DEF PipelineInv
    <3>2. p \in 1..Length
      BY <2>2, <3>1 DEF IInv, Shapes
    <3>3. Found(p) <=> Shown(Personal(result), p)
      BY <3>1, <3>2, CoverageOf DEF CoverageIsUnion, Found, Handed
    <3>4. Private(p) <=> Shown(Personal(result), p)
      <4>1. \A e : (\E i \in DOMAIN entities : e = entities[i]) <=> e \in result
        BY <3>1 DEF Handed, Range
      <4>2. \A e : (Masked(e) /\ Covers(e, p)) <=> (e.label \notin Auxiliary /\ Has(e, p))
        BY PipelineAssumption DEF Masked, Covers, Has
      <4>3. QED
        BY <4>1, <4>2 DEF Private, Shown, Personal
    <3>5. out[p] = IF Private(p) THEN MaskChar ELSE text[p]
      BY <2>2, <3>1, ExactOf DEF MaskIsExact
    <3>6. QED
      BY <3>3, <3>4, <3>5
  <2>3. QED
    BY <2>1, <2>2
<1>2. QED
  BY <1>1, PipelineInvariance, PTL

\* Behind any detector, of this repository or not, the mask is exact and the stored
\* spans give the original back.
THEOREM PipelineIsExact == PipelineSpec => [](MaskIsExact /\ RestoresOriginal /\ RestorationStands)
<1>1. PipelineInv => MaskIsExact /\ RestoresOriginal /\ RestorationStands
  <2>1. IInv => MaskIsExact /\ RestoresOriginal /\ RestorationStands
    BY ExactOf, RestoresOf, StandsOf
  <2>2. pc = "detect" => MaskIsExact /\ RestoresOriginal /\ RestorationStands
    BY DEF MaskIsExact, RestoresOriginal, RestorationStands
  <2>3. QED
    BY <2>1, <2>2 DEF PipelineInv
<1>2. QED
  BY <1>1, PipelineInvariance, PTL
=============================================================================
