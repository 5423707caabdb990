----------------------- MODULE MCCorrelationBackends -----------------------
(***************************************************************************)
(* Two ids, two records, a time to live of two ticks and a clock of four:  *)
(* a key can expire, be written again and expire again.                    *)
(***************************************************************************)
EXTENDS CorrelationBackends

CONSTANTS i1, i2, x, y

TwoIds == {i1, i2}
TwoTexts == {x, y}
TwoInputs == {[original |-> x, masked |-> y], [original |-> y, masked |-> x]}

=============================================================================
