------------------------------ MODULE Pipeline ------------------------------
(***************************************************************************)
(* The circuit that the Silice compiler writes for a pipeline of an        *)
(* algorithm (src/src/Algorithm.cpp).  Each stage is a state machine of    *)
(* its own: idle, or in one of its states.  A stage that has executed its  *)
(* last state is full until the next stage starts and takes what it holds. *)
(* Stage 0 starts whenever the algorithm goes to the state that contains   *)
(* the pipeline.  The variable that trickles down carries the number of    *)
(* the token: the n-th execution of stage 0 makes token n.                 *)
(***************************************************************************)
EXTENDS Integers

CONSTANTS N,            \* number of stages
          Last,         \* the number of states of each stage
          Stalling,     \* the stages that use stall
          Conditional,  \* is the pipeline in a conditional or a loop?
          MaxTokens     \* bound: the algorithm feeds the pipeline until that many

Stages == 0 .. N - 1

ASSUME StagesAssumption ==
  /\ N \in Nat /\ N >= 2
  /\ Last \in [Stages -> Nat \ {0}]
  /\ Stalling \subseteq Stages
  /\ Conditional \in BOOLEAN
  /\ MaxTokens \in Nat

VARIABLES root,     \* the algorithm: in the state with the pipeline, in another, ended
          disable,  \* 1stdisable: this time the algorithm does not reach the pipeline
          asks,     \* the stages for which the condition of their stall is true
          idx,      \* Q of the index of each stage: 0 is idle, 1 is its entry
          full,     \* Q of full
          data,     \* Q of the trickling variable of each stage
          took,     \* tokens that each stage has started
          made      \* tokens that each stage has finished

inputs == <<root, disable, asks>>
vars   == <<root, disable, asks, idx, full, data, took, made>>

Zero == [s \in Stages |-> 0]

Init ==
  /\ root = "elsewhere"
  /\ disable = FALSE
  /\ asks = {}
  /\ idx  = Zero
  /\ full = [s \in Stages |-> FALSE]
  /\ data = Zero
  /\ took = Zero
  /\ made = Zero

\* What the algorithm does next, and what the stages will ask for.
Inputs ==
  /\ root' \in IF root = "ended" THEN {"ended"} ELSE {"feeding", "elsewhere", "ended"}
  /\ root' = "feeding" => took[0] < MaxTokens
  /\ disable' \in IF Conditional /\ root' = "feeding" THEN BOOLEAN ELSE {FALSE}
  /\ asks' \in SUBSET Stalling

AtEnd(s) == idx[s] = Last[s]

\* The code of the states of stage 0, all of them, is under ~1stdisable.
Runs(s) == idx[s] # 0 /\ (s = 0 => ~disable)

Stalls(s) == s \in asks /\ AtEnd(s) /\ Runs(s)

Finishes(s) == AtEnd(s) /\ Runs(s) /\ ~Stalls(s)

\* A stage can start when it is idle or in its last state.
Ready(s) == idx[s] = 0 \/ AtEnd(s)

\* mutant: full is not kept from one cycle to the next.
FullFresh(s) == AtEnd(s) /\ Runs(s)

\* D of full after the code of the stage; D of the trickling variable: stage 0
\* captures what it computes, the others hold what they have taken.
FullD(s) == full[s] \/ (AtEnd(s) /\ Runs(s))

DataD(s) == IF s = 0 /\ AtEnd(0) /\ Runs(0) THEN made[0] + 1 ELSE data[s]

\* mutant: a stage starts again before the next one takes what it holds.
SpareAlways(s, start) == TRUE

\* Nothing waits in the stage, or the next stage takes it.
Spare(s, start) == s = N - 1 \/ ~FullD(s) \/ start[s + 1]

\* The stages that start, from the last one to the first one.
Triggers(start, feed) ==
  \A s \in Stages :
    start[s] <=> /\ Ready(s)
                 /\ s = 0 => feed
                 /\ s # 0 => FullD(s - 1) /\ ~Stalls(s - 1)
                 /\ Spare(s, start)
                 /\ ~Stalls(s)

\* mutant: a stage that stalls goes on to the state after its last one.
IndexStalled(s, waits) ==
  IF AtEnd(s) THEN IF Stalls(s) THEN Last[s] + 1 ELSE 0
  ELSE IF Runs(s) /\ (idx[s] = 1 \/ s \notin waits) THEN idx[s] + 1 ELSE idx[s]

\* The index that the code of a stage goes to; in a state that is not the first
\* one it may wait (a loop, an algorithm that is called).
Index(s, waits) ==
  IF AtEnd(s) THEN IF Stalls(s) THEN Last[s] ELSE 0
  ELSE IF Runs(s) /\ (idx[s] = 1 \/ s \notin waits) THEN idx[s] + 1 ELSE idx[s]

FullAfter(s, start) == FullD(s) /\ ~(s # N - 1 /\ start[s + 1])

\* mutant: the variable is taken by idle stages.
TakenIdle(s, next) == IF s # 0 /\ next = 0 THEN DataD(s - 1) ELSE DataD(s)

Taken(s, next) == IF s # 0 /\ next = 1 /\ ~Stalls(s) THEN DataD(s - 1) ELSE DataD(s)

\* Stage 0 begins a token when it executes its entry, unless it has stalled there.
Begins(s, start) == IF s = 0 THEN idx[0] = 1 /\ Runs(0) /\ ~full[0] ELSE start[s]

One(b) == IF b THEN 1 ELSE 0

\* One clock cycle: the stages execute their states, the triggers start some.
Cycle(waits) ==
  \E start \in [Stages -> BOOLEAN] :
    LET next(s) == IF start[s] THEN 1 ELSE Index(s, waits) IN
    /\ Triggers(start, root' = "feeding")
    /\ idx'  = [s \in Stages |-> next(s)]
    /\ full' = [s \in Stages |-> FullAfter(s, start)]
    /\ data' = [s \in Stages |-> Taken(s, next(s))]
    /\ took' = [s \in Stages |-> took[s] + One(Begins(s, start))]
    /\ made' = [s \in Stages |-> made[s] + One(Finishes(s))]

Next == Inputs /\ \E waits \in SUBSET Stages : Cycle(waits)

\* The clock never stops, and stages do not stall or wait for ever: infinitely
\* often the algorithm reaches the pipeline, the stall conditions are false, and
\* then no stage waits.
Calm == Next /\ asks' = {} /\ ~disable'
Flow == asks = {} /\ ~disable /\ Inputs /\ Cycle({})

Spec     == Init /\ [][Next]_vars
FairSpec == Spec /\ WF_vars(Next) /\ SF_vars(Calm) /\ SF_vars(Flow)

\* mutant: the last stage, which has no full, is not looked at.
doneButLast == root = "ended" /\ \A s \in 0 .. N - 2 : idx[s] = 0 /\ ~full[s]

\* The done output of the algorithm.
done ==
  /\ root = "ended"
  /\ \A s \in Stages : idx[s] = 0 /\ (s # N - 1 => ~full[s])
-----------------------------------------------------------------------------
TypeOK ==
  /\ root \in {"feeding", "elsewhere", "ended"}
  /\ disable \in BOOLEAN
  /\ asks \subseteq Stalling
  /\ idx \in [Stages -> Nat] /\ \A s \in Stages : idx[s] <= Last[s]
  /\ full \in [Stages -> BOOLEAN]
  /\ data \in [Stages -> Nat]
  /\ took \in [Stages -> Nat]
  /\ made \in [Stages -> Nat]

\* Where stage 0 never waits for its code to be reached again: the pipeline is on
\* every path of the algorithm, or stage 0 is one state that does not stall.
Regular == ~Conditional \/ (Last[0] = 1 /\ 0 \notin Stalling)

\* Every token that a stage begins is finished by it before it begins another one,
\* and is taken once by the next stage: none is lost, none is taken twice (the
\* triggers, Algorithm.cpp:10543-10587).
EveryTokenPasses ==
  \A s \in Stages :
    /\ took[s] = made[s] + One(idx[s] # 0 /\ (s = 0 => idx[0] # 1 \/ full[0]))
    /\ s # N - 1 => made[s] = took[s + 1] + One(full[s] /\ idx[s] = 0)

\* The token that a stage works on is the one it has begun, in order: what
\* trickles is never overwritten by the token behind it.
InOrder ==
  \A s \in Stages \ {0} :
    /\ idx[s] # 0 => data[s] = took[s]
    /\ full[s - 1] /\ idx[s - 1] = 0 => data[s - 1] = made[s - 1]

\* An algorithm is not done before all that entered its pipelines came out of them
\* (Documentation.md:1754).
Drained ==
  done => \A s \in Stages : took[s] = made[N - 1] /\ made[s] = made[N - 1]

\* Every token goes through, whatever the stages ahead of it do.
TokensExit == \A k \in 1 .. MaxTokens : made[0] >= k ~> made[N - 1] >= k
=============================================================================
