-------------------------- MODULE MCInferenceEngine --------------------------
(***************************************************************************)
(* Small instances of InferenceEngine.  With four jobs both limits bite on *)
(* their own: two queued short jobs fill the queue (QueueSize = 2) with    *)
(* characters to spare, and the long job with two short ones exhausts the  *)
(* characters (QueueChars = 4) while some of them are in a batch and the   *)
(* queue has room.                                                         *)
(***************************************************************************)
EXTENDS InferenceEngine, TLC

CONSTANTS j1, j2, j3, long, w1, w2

FourJobs == {j1, j2, j3, long}
ThreeJobs == {j1, j2, long}
OnlyLong == {long}
TwoWorkers == {w1, w2}
Lengths == [j \in Jobs |-> IF j = long THEN 2 ELSE 1]

\* Worker tasks are interchangeable, and so are the short jobs.
EngineSymmetry == Permutations(TwoWorkers) \cup Permutations({j1, j2, j3})

=============================================================================
