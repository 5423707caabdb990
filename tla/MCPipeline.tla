---------------------------- MODULE MCPipeline ----------------------------
(***************************************************************************)
(* Detectors of this repository: a text of three characters; three rules   *)
(* of which one may match twice; up to one entity of a model, private or   *)
(* public.  What a detector does not look at is left empty.                *)
(*                                                                         *)
(* Other detectors: a text of four characters, one of them the mask        *)
(* character itself; up to three entities on any of its spans, and         *)
(* entities with invalid offsets, private and public.                      *)
(***************************************************************************)
EXTENDS Pipeline

CONSTANTS a, b, c, star, half

TwoTexts == {<<a, b, star, c>>, <<a, star, b>>}
PublicOnes == {"PUBLIC_ADDRESS"}

InitRestricted ==
    /\ PipelineInit
    /\ Waiting => /\ kind = "rules" => predicted = {}
                  /\ kind = "model" => matches = {}
                  /\ kind = "rubert" => matches = Emails
    /\ ~Waiting => Len(text) = 4

SpecRestricted == InitRestricted /\ [][PipelineNext]_pipelineVars

-----------------------------------------------------------------------------
(* Detection                                                               *)

ThreeRules == <<"EMAIL", "URL", "PIN">>
FiveLabels == Range(ThreeRules) \cup {"PERSON"} \cup PublicOnes

Labelled(label) == {e \in Entities : e.label = label}
AtMostOne(S) == {{}} \cup {{e} : e \in S}

\* finditer yields matches that do not overlap.
Disjoint(x, y) == x.end <= y.start \/ y.end <= x.start
AtMostTwo(S) ==
    {{}} \cup {{x, y} : <<x, y>> \in {q \in S \X S : q[1] = q[2] \/ Disjoint(q[1], q[2])}}

SomeMatchings ==
    {E \cup U \cup P : E \in AtMostOne(Labelled("EMAIL")),
                       U \in AtMostTwo(Labelled("URL")),
                       P \in AtMostOne(Labelled("PIN"))}
SomePredictions == AtMostOne(Labelled("PERSON") \cup Labelled("PUBLIC_ADDRESS"))

-----------------------------------------------------------------------------
(* Masking                                                                 *)

Proper == {s \in [start : 0..3, end : 1..4] : s.start < s.end}
Improper == {[start |-> 2, end |-> 5], [start |-> 2, end |-> 2], [start |-> half, end |-> 2]}
At(s, label) == [start |-> s.start, end |-> s.end, label |-> label]
SomeEntities ==
    {At(s, "PERSON") : s \in Proper}
    \cup {At(s, l) : s \in Improper, l \in {"PERSON", "PUBLIC_ADDRESS"}}
    \cup {At([start |-> 1, end |-> 3], "PUBLIC_ADDRESS")}
UpToThree == UNION {[1..n -> SomeEntities] : n \in 0..3}

\* Spans that overlap and agree, overlap and differ, are too long, or lie.
Span(from, to, chars) == [start |-> from, end |-> to, text |-> chars]
OtherSpans ==
    {<<Span(0, 2, <<a, b>>), Span(1, 3, <<b, c>>)>>,
     <<Span(1, 3, <<c, b>>), Span(0, 2, <<a, b>>)>>,
     <<Span(0, 2, <<a, a>>), Span(1, 2, <<star>>)>>,
     <<Span(0, 2, <<a, b, c>>)>>,
     <<Span(3, 4, <<a>>), Span(3, 5, <<a, b>>)>>}
=============================================================================
