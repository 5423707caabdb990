---------------------------- MODULE MCProcessApi ----------------------------
(***************************************************************************)
(* Three requests in two processes.  A text with two masks (the detector *)
(* sees other padding in another batch), and the masks, which sent as      *)
(* payloads mask to themselves.                                            *)
(***************************************************************************)
EXTENDS ProcessApi, TLC

CONSTANTS r1, r2, r3, p1, p2, i1, plain, starsA, starsB

ThreeRequests == {r1, r2, r3}
TwoProcesses == {p1, p2}
OneId == {i1}
ThreeTexts == {plain, starsA, starsB}
TwoMasks == (plain :> {starsA, starsB}) @@ (starsA :> {starsA}) @@ (starsB :> {starsB})

\* Requests and processes are interchangeable; so are the masks.
ProcessSymmetry == Permutations(ThreeRequests) \cup Permutations(TwoProcesses)
    \cup Permutations({starsA, starsB})

\* One fault a run, of either kind.
OneFault == forgets + crashes <= 1

=============================================================================
