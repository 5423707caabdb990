---------------------------- MODULE MCMemoryStore ----------------------------
(***************************************************************************)
(* Two threads, two ids and two texts, a time to live of two ticks and a   *)
(* clock of four: a row can expire, be written again and expire again.     *)
(***************************************************************************)
EXTENDS MemoryStore, TLC

CONSTANTS i1, i2, x, y, c1, c2

TwoIds == {i1, i2}
TwoTexts == {x, y}
TwoCallers == {c1, c2}
TwoInputs == {[original |-> x, masked |-> y], [original |-> y, masked |-> x]}

\* Ids, callers and texts are interchangeable (the two inputs swap with the texts).
StoreSymmetry ==
    Permutations(TwoIds) \cup Permutations(TwoCallers) \cup Permutations(TwoTexts)

=============================================================================
