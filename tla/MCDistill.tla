------------------------------ MODULE MCDistill ------------------------------
(* Three runs, each with one of five environments: with and without pruning,  *)
(* with two tokenizers each, training the teacher by force and skipping the  *)
(* student's training among them; two sets of kept ids, two losses, up to    *)
(* three epochs.                                                             *)
EXTENDS Distill

CONSTANTS t1, t2, k1, k2

TwoTokenizers == {t1, t2}
TwoKeepSorted == {k1, k2}
TwoLosses == {1, 2}

Env(tokenizer, prune, force, teacherEpochs, distillEpochs) ==
    [tokenizer |-> tokenizer, prune |-> prune, force |-> force,
     teacherEpochs |-> teacherEpochs, distillEpochs |-> distillEpochs]
SomeSettings ==
    {Env(t1, FALSE, FALSE, 3, 1), Env(t1, TRUE, FALSE, 1, 3), Env(t2, TRUE, TRUE, 2, 1),
     Env(t2, FALSE, TRUE, 1, 1), Env(t1, FALSE, FALSE, 0, 0)}
=============================================================================
