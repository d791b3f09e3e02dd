----------------------------- MODULE MCPipeline -----------------------------
(* Instances of Pipeline for TLC: the number of states of each stage.      *)
EXTENDS Pipeline, TLC

\* A stage in the middle takes several cycles (tests/pipeline_alg3.si); the last
\* one too.
MCMiddle == (0 :> 1) @@ (1 :> 3) @@ (2 :> 2)

\* The first stage takes two cycles, and so does the last one.
MCEnds == (0 :> 2) @@ (1 :> 1) @@ (2 :> 2)

\* The first stage takes two cycles.
MCFirst == (0 :> 2) @@ (1 :> 1)
=============================================================================
