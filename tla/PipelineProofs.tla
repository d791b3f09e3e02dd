--------------------------- MODULE PipelineProofs ---------------------------
(***************************************************************************)
(* Theorems about Pipeline, for any number of stages of any number of      *)
(* states, whichever of them stall.                                        *)
(***************************************************************************)
EXTENDS Pipeline, TLAPS, WellFoundedInduction

\* The algorithm passes the pipeline by only when it is in a conditional.
Reached == disable => Conditional

\* Only a stage that stalls is full and busy; it is in its last state.
StalledAtEnd ==
  \A s \in Stages : s # N - 1 /\ full[s] /\ idx[s] # 0 => AtEnd(s) /\ s \in Stalling

IInv == TypeOK /\ Reached /\ StalledAtEnd /\ EveryTokenPasses /\ InOrder

USE DEF Stages

\* The variables stay in their types and no stage leaves its states.
LEMMA TypeStep == TypeOK /\ [Next]_vars => TypeOK'
<1> SUFFICES ASSUME TypeOK, [Next]_vars
             PROVE  TypeOK'
  OBVIOUS
<1>1. CASE UNCHANGED vars
  BY <1>1 DEF TypeOK, vars, inputs
<1>2. CASE Next
  <2>1. PICK waits \in SUBSET Stages : Inputs /\ Cycle(waits)
    BY <1>2 DEF Next
  <2>2. PICK start \in [Stages -> BOOLEAN] :
          /\ idx'  = [s \in Stages |-> IF start[s] THEN 1 ELSE Index(s, waits)]
          /\ full' = [s \in Stages |-> FullAfter(s, start)]
          /\ data' = [s \in Stages |-> Taken(s, IF start[s] THEN 1 ELSE Index(s, waits))]
          /\ took' = [s \in Stages |-> took[s] + One(Begins(s, start))]
          /\ made' = [s \in Stages |-> made[s] + One(Finishes(s))]
    BY <2>1 DEF Cycle
  <2>3. root' \in {"feeding", "elsewhere", "ended"} /\ disable' \in BOOLEAN
        /\ asks' \subseteq Stalling
    BY <2>1, StagesAssumption DEF Inputs, TypeOK
  <2>4. ASSUME NEW s \in Stages
        PROVE  Index(s, waits) \in 0 .. Last[s]
    <3>1. /\ idx[s] \in Nat /\ Last[s] \in Nat /\ idx[s] <= Last[s]
      BY StagesAssumption DEF TypeOK
    <3>2. CASE AtEnd(s)
      BY <3>1, <3>2 DEF Index
    <3>3. CASE ~AtEnd(s)
      <4>1. idx[s] + 1 <= Last[s]
        BY <3>1, <3>3 DEF AtEnd
      <4>2. Index(s, waits) \in {idx[s], idx[s] + 1}
        BY <3>3 DEF Index
      <4> QED
        BY <3>1, <4>1, <4>2
    <3> QED
      BY <3>2, <3>3
  <2>5. idx' \in [Stages -> Nat] /\ \A s \in Stages : idx'[s] <= Last[s]
    BY <2>2, <2>4, StagesAssumption
  <2>6. full' \in [Stages -> BOOLEAN]
    BY <2>2 DEF FullAfter
  <2>7. ASSUME NEW s \in Stages, NEW next
        PROVE  Taken(s, next) \in Nat
    <3>1. 0 \in Stages /\ (s # 0 => s - 1 \in Stages)
      BY StagesAssumption
    <3>2. \A t \in Stages : DataD(t) \in Nat
      BY <3>1 DEF DataD, TypeOK
    <3> QED
      BY <3>1, <3>2 DEF Taken
  <2>8. data' \in [Stages -> Nat]
    BY <2>2, <2>7
  <2>9. took' \in [Stages -> Nat] /\ made' \in [Stages -> Nat]
    BY <2>2 DEF One, TypeOK
  <2> QED
    BY <2>3, <2>5, <2>6, <2>8, <2>9 DEF TypeOK
<1> QED
  BY <1>1, <1>2

\* What a cycle does to a stage, from what the stage was.
LEMMA IndexStep ==
  ASSUME TypeOK, NEW s \in Stages, NEW waits
  PROVE  /\ AtEnd(s) => Index(s, waits) = IF Stalls(s) THEN idx[s] ELSE 0
         /\ ~AtEnd(s) /\ idx[s] = 0 => Index(s, waits) = 0
         /\ ~AtEnd(s) /\ idx[s] # 0 => Index(s, waits) \in {idx[s], idx[s] + 1}
         /\ ~AtEnd(s) /\ ~Runs(s) => Index(s, waits) = idx[s]
         /\ ~AtEnd(s) /\ Runs(s) /\ idx[s] = 1 => Index(s, waits) = 2
<1>1. idx[s] \in Nat /\ Last[s] \in Nat \ {0} /\ idx[s] <= Last[s]
  BY StagesAssumption DEF TypeOK
<1> QED
  BY <1>1 DEF Index, AtEnd, Runs

\* A stage starts when it is ready, does not stall, and what it holds is taken;
\* the stage before it is then full and does not stall.
LEMMA StartStep ==
  ASSUME NEW start \in [Stages -> BOOLEAN], NEW feed, Triggers(start, feed),
         NEW s \in Stages, start[s]
  PROVE  /\ Ready(s) /\ ~Stalls(s)
         /\ s # N - 1 => ~FullD(s) \/ start[s + 1]
         /\ s # 0 => FullD(s - 1) /\ ~Stalls(s - 1)
BY DEF Triggers, Spare

\* A stage that is followed by one that starts is full and does not stall.
LEMMA TakenStep ==
  ASSUME NEW start \in [Stages -> BOOLEAN], NEW feed, Triggers(start, feed),
         NEW s \in Stages, s # N - 1, start[s + 1]
  PROVE  FullD(s) /\ ~Stalls(s)
<1>1. s + 1 \in Stages /\ s + 1 # 0 /\ (s + 1) - 1 = s
  BY StagesAssumption
<1> QED
  BY <1>1 DEF Triggers

\* A cycle is made of the registers and of the triggers.
LEMMA NextIsCycle ==
  ASSUME Next
  PROVE  \E waits \in SUBSET Stages, start \in [Stages -> BOOLEAN] :
           /\ Inputs /\ Triggers(start, root' = "feeding")
           /\ idx'  = [s \in Stages |-> IF start[s] THEN 1 ELSE Index(s, waits)]
           /\ full' = [s \in Stages |-> FullAfter(s, start)]
           /\ data' = [s \in Stages |-> Taken(s, IF start[s] THEN 1 ELSE Index(s, waits))]
           /\ took' = [s \in Stages |-> took[s] + One(Begins(s, start))]
           /\ made' = [s \in Stages |-> made[s] + One(Finishes(s))]
BY DEF Next, Cycle

\* Together, the parts of the invariant are kept by every cycle.
LEMMA Step == Regular /\ IInv /\ [Next]_vars => IInv'
<1> SUFFICES ASSUME Regular, IInv, [Next]_vars
             PROVE  IInv'
  OBVIOUS
<1>1. CASE UNCHANGED vars
  BY <1>1 DEF IInv, TypeOK, Reached, StalledAtEnd, EveryTokenPasses, InOrder, AtEnd,
              vars, inputs
<1>2. CASE Next
  <2>1. PICK waits \in SUBSET Stages, start \in [Stages -> BOOLEAN] :
           /\ Inputs /\ Triggers(start, root' = "feeding")
           /\ idx'  = [s \in Stages |-> IF start[s] THEN 1 ELSE Index(s, waits)]
           /\ full' = [s \in Stages |-> FullAfter(s, start)]
           /\ data' = [s \in Stages |-> Taken(s, IF start[s] THEN 1 ELSE Index(s, waits))]
           /\ took' = [s \in Stages |-> took[s] + One(Begins(s, start))]
           /\ made' = [s \in Stages |-> made[s] + One(Finishes(s))]
    BY <1>2, NextIsCycle
  <2>2. TypeOK'
    BY <1>2, TypeStep DEF IInv
  <2>3. Reached'
    BY <2>1 DEF Inputs, Reached
  <2>4. \* what is known of a stage
        ASSUME NEW s \in Stages
        PROVE  /\ idx[s] \in Nat /\ Last[s] \in Nat \ {0} /\ idx[s] <= Last[s]
               /\ took[s] \in Nat /\ made[s] \in Nat /\ full[s] \in BOOLEAN
               /\ s # N - 1 => s + 1 \in Stages
               /\ s # 0 => s - 1 \in Stages
               /\ s # 0 \/ Last[0] # 1 \/ 0 \in Stalling => (Runs(s) <=> idx[s] # 0)
    <3>1. s # N - 1 => s + 1 \in Stages
      BY StagesAssumption
    <3>2. s # 0 => s - 1 \in Stages
      BY StagesAssumption
    <3>3. s # 0 \/ Last[0] # 1 \/ 0 \in Stalling => (Runs(s) <=> idx[s] # 0)
      BY DEF IInv, Reached, Regular, Runs
    <3> QED
      BY <3>1, <3>2, <3>3, StagesAssumption DEF IInv, TypeOK
  <2>5. StalledAtEnd'
    <3> SUFFICES ASSUME NEW s \in Stages, s # N - 1, full'[s], idx'[s] # 0
                 PROVE  idx'[s] = Last[s] /\ s \in Stalling
      BY DEF StalledAtEnd, AtEnd
    <3>1. FullD(s) /\ ~start[s + 1]
      BY <2>1 DEF FullAfter
    <3>2. ~start[s]
      BY <3>1, <2>1, StartStep
    <3>3. idx'[s] = Index(s, waits)
      BY <2>1, <3>2
    <3>4. CASE AtEnd(s)
      BY <2>4, <3>3, <3>4, IndexStep DEF Stalls, AtEnd, IInv, TypeOK
    <3>5. CASE ~AtEnd(s)
      <4>1. full[s] /\ idx[s] = 0
        BY <3>1, <3>5 DEF FullD, IInv, StalledAtEnd
      <4> QED
        BY <4>1, <3>3, <3>5, IndexStep DEF IInv
    <3> QED
      BY <3>4, <3>5
  <2>6. \* a stage that is full and does not stall, or finishes, gives its token
        ASSUME NEW s \in Stages, s # N - 1, FullD(s), ~Stalls(s)
        PROVE  /\ made'[s] = took[s + 1] + 1
               /\ DataD(s) = took[s + 1] + 1
    <3>1. /\ full[s] /\ idx[s] = 0 => made[s] = took[s + 1] + 1
          /\ idx[s] # 0 => made[s] = took[s + 1]
          /\ took[s + 1] \in Nat
      BY <2>4, <2>6 DEF IInv, EveryTokenPasses, One
    <3>2. CASE AtEnd(s) /\ Runs(s)
      <4>1. idx[s] # 0 /\ Finishes(s)
        BY <2>6, <3>2 DEF Finishes, Runs
      <4>2. made'[s] = made[s] + 1
        BY <2>1, <4>1 DEF One
      <4>3. s # 0 => data[s] = made[s] + 1
        BY <4>1 DEF One, IInv, EveryTokenPasses, InOrder
      <4>4. DataD(s) = made[s] + 1
        BY <3>2, <4>3 DEF DataD
      <4> QED
        BY <3>1, <4>1, <4>2, <4>4
    <3>3. CASE ~(AtEnd(s) /\ Runs(s))
      <4>1. full[s]
        BY <2>6, <3>3 DEF FullD
      <4>2. idx[s] = 0
        <5> SUFFICES ASSUME idx[s] # 0
                     PROVE  FALSE
          OBVIOUS
        <5>1. AtEnd(s) /\ s \in Stalling
          BY <2>6, <4>1 DEF IInv, StalledAtEnd
        <5> QED
          BY <2>4, <3>3, <5>1
      <4>3. s + 1 \in Stages \ {0} /\ (s + 1) - 1 = s
        BY <2>4, <2>6
      <4>4. data[s] = made[s]
        BY <4>1, <4>2, <4>3 DEF IInv, InOrder
      <4>5. made'[s] = made[s]
        BY <2>1, <2>4, <3>3 DEF Finishes, One
      <4>6. DataD(s) = data[s]
        BY <3>3 DEF DataD
      <4> QED
        BY <3>1, <4>1, <4>2, <4>4, <4>5, <4>6
    <3> QED
      BY <3>2, <3>3
  <2>7. EveryTokenPasses'
    <3> SUFFICES ASSUME NEW s \in Stages
                 PROVE
            /\ took'[s] = made'[s] + One(idx'[s] # 0 /\ (s = 0 => idx'[0] # 1 \/ full'[0]))
            /\ s # N - 1 => made'[s] = took'[s + 1] + One(full'[s] /\ idx'[s] = 0)
      BY DEF EveryTokenPasses
    <3>1. took[s] = made[s] + One(idx[s] # 0 /\ (s = 0 => idx[0] # 1 \/ full[0]))
      BY DEF IInv, EveryTokenPasses
    <3>2. ASSUME s # 0
          PROVE  took'[s] = made'[s] + One(idx'[s] # 0)
      <4>1. took'[s] = took[s] + One(start[s])
        BY <2>1, <3>2 DEF Begins
      <4>2. CASE start[s]
        BY <2>1, <2>4, <3>1, <3>2, <4>1, <4>2, StartStep DEF Ready, Finishes, Runs, One
      <4>3. CASE ~start[s]
        BY <2>1, <2>4, <3>1, <3>2, <4>1, <4>3, IndexStep
           DEF Finishes, Stalls, Runs, One, IInv
      <4> QED
        BY <4>2, <4>3
    <3>3. ASSUME s = 0
          PROVE  took'[0] = made'[0] + One(idx'[0] # 0 /\ (idx'[0] # 1 \/ full'[0]))
      <4>1. /\ 0 \in Stages /\ 0 # N - 1 /\ 0 + 1 = 1
            /\ idx[0] \in Nat /\ Last[0] \in Nat \ {0} /\ idx[0] <= Last[0]
            /\ took[0] \in Nat /\ made[0] \in Nat
        BY <2>4, <3>3, StagesAssumption
      <4>2. /\ idx[0] # 0 /\ (idx[0] # 1 \/ full[0]) => took[0] = made[0] + 1
            /\ idx[0] = 0 \/ (idx[0] = 1 /\ ~full[0]) => took[0] = made[0]
        BY <4>1 DEF One, IInv, EveryTokenPasses
      <4>3. /\ idx[0] = 1 /\ Runs(0) /\ ~full[0] => took'[0] = took[0] + 1
            /\ ~(idx[0] = 1 /\ Runs(0) /\ ~full[0]) => took'[0] = took[0]
        BY <2>1, <4>1 DEF Begins, One
      <4>4. /\ Finishes(0) => made'[0] = made[0] + 1
            /\ ~Finishes(0) => made'[0] = made[0]
        BY <2>1, <4>1 DEF One
      <4>5. full[0] /\ idx[0] # 0 => AtEnd(0) /\ Runs(0)
        BY <2>4, <4>1 DEF IInv, StalledAtEnd
      <4>6. CASE start[0]
        <5>1. Ready(0) /\ ~Stalls(0) /\ (FullD(0) => start[1])
          <6>1. PICK feed : Triggers(start, feed)
            BY <2>1
          <6>2. Ready(0) /\ ~Stalls(0) /\ (~FullD(0) \/ start[0 + 1])
            BY <6>1, <4>1, <4>6, StartStep
          <6> QED
            BY <4>1, <6>2
        <5>2. idx'[0] = 1
          BY <2>1, <4>1, <4>6
        <5>3. ~full'[0]
          BY <2>1, <4>1, <5>1 DEF FullAfter
        <5>4. took'[0] = made'[0]
          <6>1. CASE idx[0] = 0
            BY <4>1, <4>2, <4>3, <4>4, <6>1 DEF Finishes, Runs
          <6>2. CASE idx[0] # 0 /\ Runs(0)
            <7>1. Finishes(0)
              BY <5>1, <6>2 DEF Finishes, Ready
            <7> QED
              BY <4>1, <4>2, <4>3, <4>4, <6>2, <7>1
          <6>3. CASE idx[0] # 0 /\ ~Runs(0)
            <7>1. ~Finishes(0) /\ ~full[0]
              BY <4>5, <6>3 DEF Finishes
            <7>2. idx[0] = 1
              BY <2>4, <4>1, <5>1, <6>3 DEF Ready, AtEnd
            <7> QED
              BY <4>1, <4>2, <4>3, <4>4, <6>3, <7>1, <7>2
          <6> QED
            BY <6>1, <6>2, <6>3
        <5> QED
          BY <4>1, <5>2, <5>3, <5>4, <2>2 DEF One, TypeOK
      <4>7. CASE ~start[0]
        <5>1. idx'[0] = Index(0, waits)
          BY <2>1, <4>1, <4>7
        <5>2. CASE idx[0] = 0
          BY <4>1, <4>2, <4>3, <4>4, <5>1, <5>2, IndexStep
             DEF Finishes, One, AtEnd, Runs, Stalls, IInv
        <5>3. CASE idx[0] # 0 /\ ~Runs(0)
          <6>1. Last[0] = 1 /\ idx[0] = 1 /\ ~full[0] /\ ~Finishes(0) /\ ~FullD(0)
            <7>1. Last[0] = 1
              BY <2>4, <4>1, <5>3
            <7>2. ~full[0] /\ ~Finishes(0) /\ ~FullD(0)
              BY <4>5, <5>3 DEF Finishes, FullD
            <7> QED
              BY <4>1, <5>3, <7>1, <7>2
          <6>2. ~full'[0]
            BY <2>1, <4>1, <6>1 DEF FullAfter
          <6>3. idx'[0] = 0
            BY <4>1, <5>1, <5>3, <6>1, IndexStep DEF AtEnd, Stalls, IInv
          <6> QED
            BY <4>1, <4>2, <4>3, <4>4, <5>3, <6>1, <6>2, <6>3 DEF One
        <5>4. CASE Runs(0) /\ ~AtEnd(0)
          <6>1. ~Finishes(0) /\ ~full[0] /\ idx[0] # 0
            BY <4>5, <5>4 DEF Finishes, Runs
          <6>2. idx'[0] \notin {0, 1}
            BY <4>1, <5>1, <5>4, <6>1, IndexStep DEF IInv
          <6>3. took'[0] = made'[0] + 1
            <7>1. CASE idx[0] = 1
              BY <4>1, <4>2, <4>3, <4>4, <5>4, <6>1, <7>1
            <7>2. CASE idx[0] # 1
              BY <4>1, <4>2, <4>3, <4>4, <6>1, <7>2
            <7> QED
              BY <7>1, <7>2
          <6> QED
            BY <6>2, <6>3 DEF One
        <5>5. CASE Runs(0) /\ AtEnd(0) /\ Stalls(0)
          <6>1. full'[0]
            BY <2>1, <4>1, <5>5, TakenStep DEF FullAfter, FullD
          <6>2. idx'[0] = idx[0] /\ idx[0] # 0 /\ ~Finishes(0)
            BY <4>1, <5>1, <5>5, IndexStep DEF IInv, Finishes, Runs
          <6> QED
            BY <4>1, <4>2, <4>3, <4>4, <5>5, <6>1, <6>2 DEF One
        <5>6. CASE Runs(0) /\ AtEnd(0) /\ ~Stalls(0)
          <6>1. idx'[0] = 0 /\ idx[0] # 0 /\ Finishes(0)
            BY <4>1, <5>1, <5>6, IndexStep DEF IInv, Finishes, Runs
          <6> QED
            BY <4>1, <4>2, <4>3, <4>4, <5>6, <6>1 DEF One
        <5> QED
          BY <5>2, <5>3, <5>4, <5>5, <5>6
      <4> QED
        BY <4>6, <4>7
    <3>4. ASSUME s # N - 1
          PROVE  made'[s] = took'[s + 1] + One(full'[s] /\ idx'[s] = 0)
      <4>1. s + 1 \in Stages /\ s + 1 # 0
        BY <2>4, <3>4
      <4>2. /\ start[s + 1] => took'[s + 1] = took[s + 1] + 1
            /\ ~start[s + 1] => took'[s + 1] = took[s + 1]
            /\ took[s + 1] \in Nat
        BY <2>1, <2>4, <4>1 DEF Begins, One
      <4>3. full'[s] <=> FullD(s) /\ ~start[s + 1]
        BY <2>1, <3>4 DEF FullAfter
      <4>4. /\ full[s] /\ idx[s] = 0 => made[s] = took[s + 1] + 1
            /\ ~(full[s] /\ idx[s] = 0) => made[s] = took[s + 1]
        BY <3>4, <4>2 DEF One, IInv, EveryTokenPasses
      <4>5. CASE start[s + 1]
        <5>1. FullD(s) /\ ~Stalls(s)
          BY <2>1, <3>4, <4>5, TakenStep
        <5> QED
          BY <2>6, <3>4, <4>2, <4>3, <4>5, <5>1 DEF One
      <4>6. CASE ~start[s + 1] /\ ~FullD(s)
        <5>1. ~full[s] /\ ~Finishes(s)
          BY <4>6 DEF FullD, Finishes
        <5>2. made'[s] = made[s]
          BY <2>1, <2>4, <5>1 DEF One
        <5> QED
          BY <4>2, <4>3, <4>4, <4>6, <5>1, <5>2 DEF One
      <4>7. CASE ~start[s + 1] /\ FullD(s)
        <5>1. ~start[s]
          BY <2>1, <3>4, <4>7, StartStep
        <5>2. idx'[s] = Index(s, waits)
          BY <2>1, <5>1
        <5>3. CASE Stalls(s)
          <6>1. idx'[s] = idx[s] /\ idx[s] # 0 /\ ~Finishes(s)
            BY <2>4, <5>2, <5>3, IndexStep DEF Stalls, Finishes, Runs, IInv
          <6>2. made'[s] = made[s]
            BY <2>1, <2>4, <6>1 DEF One
          <6> QED
            BY <4>2, <4>3, <4>4, <4>7, <6>1, <6>2 DEF One
        <5>4. CASE ~Stalls(s)
          <6>1. made'[s] = took[s + 1] + 1
            BY <2>6, <3>4, <4>7, <5>4
          <6>2. AtEnd(s) \/ idx[s] = 0
            BY <3>4, <4>7 DEF FullD, IInv, StalledAtEnd
          <6>3. idx'[s] = 0
            BY <5>2, <5>4, <6>2, IndexStep DEF IInv
          <6> QED
            BY <4>2, <4>3, <4>7, <6>1, <6>3 DEF One
        <5> QED
          BY <5>3, <5>4
      <4> QED
        BY <4>5, <4>6, <4>7
    <3> QED
      BY <3>2, <3>3, <3>4
  <2>8. InOrder'
    <3> SUFFICES ASSUME NEW s \in Stages \ {0}
                 PROVE  /\ idx'[s] # 0 => data'[s] = took'[s]
                        /\ full'[s - 1] /\ idx'[s - 1] = 0 => data'[s - 1] = made'[s - 1]
      BY DEF InOrder
    <3>1. s - 1 \in Stages /\ s - 1 # N - 1 /\ (s - 1) + 1 = s
      BY StagesAssumption
    <3>2. ASSUME idx'[s] # 0
          PROVE  data'[s] = took'[s]
      <4>1. CASE start[s]
        <5>1. FullD(s - 1) /\ ~Stalls(s - 1) /\ ~Stalls(s)
          BY <2>1, <4>1, StartStep
        <5>2. DataD(s - 1) = took[s] + 1
          BY <2>6, <3>1, <5>1
        <5>3. data'[s] = DataD(s - 1)
          BY <2>1, <4>1, <5>1 DEF Taken
        <5>4. took'[s] = took[s] + 1
          BY <2>1, <4>1 DEF Begins, One
        <5> QED
          BY <5>2, <5>3, <5>4
      <4>2. CASE ~start[s]
        <5>1. idx'[s] = Index(s, waits) /\ idx[s] # 0
          BY <2>1, <2>4, <3>2, <4>2, IndexStep DEF IInv, Stalls, AtEnd
        <5>2. Runs(s)
          BY <2>4, <5>1
        <5>3. Index(s, waits) = 1 => Stalls(s)
          BY <2>4, <5>1, <5>2, IndexStep DEF IInv
        <5>4. data'[s] = DataD(s)
          BY <2>1, <4>2, <5>3 DEF Taken
        <5>5. took'[s] = took[s]
          BY <2>1, <2>4, <4>2 DEF Begins, One
        <5> QED
          BY <5>1, <5>4, <5>5 DEF DataD, IInv, InOrder
      <4> QED
        BY <4>1, <4>2
    <3>3. ASSUME full'[s - 1], idx'[s - 1] = 0
          PROVE  data'[s - 1] = made'[s - 1]
      <4>1. FullD(s - 1) /\ ~start[s]
        BY <2>1, <3>1, <3>3 DEF FullAfter
      <4>2. ~start[s - 1]
        BY <2>1, <3>1, <3>3
      <4>3. idx'[s - 1] = Index(s - 1, waits)
        BY <2>1, <3>1, <4>2
      <4>4. ~Stalls(s - 1)
        <5> SUFFICES ASSUME Stalls(s - 1)
                     PROVE  FALSE
          OBVIOUS
        <5>1. Index(s - 1, waits) = idx[s - 1] /\ idx[s - 1] # 0
          BY <3>1, IndexStep DEF Stalls, Runs, IInv
        <5> QED
          BY <3>3, <4>3, <5>1
      <4>5. data'[s - 1] = DataD(s - 1)
        BY <2>1, <3>1, <3>3, <4>3, <4>2 DEF Taken
      <4> QED
        BY <2>6, <3>1, <4>1, <4>4, <4>5
    <3> QED
      BY <3>2, <3>3
  <2> QED
    BY <2>2, <2>3, <2>5, <2>7, <2>8 DEF IInv
<1> QED
  BY <1>1, <1>2

\* The invariant holds at the start.
LEMMA Start == Init => IInv
<1> SUFFICES ASSUME Init
             PROVE  IInv
  OBVIOUS
<1>1. \A s \in Stages : /\ idx[s] = 0 /\ ~full[s]
                        /\ took[s] = 0 /\ made[s] = 0
  BY DEF Init, Zero
<1>2. TypeOK
  <2>1. \A s \in Stages : 0 <= Last[s]
    BY StagesAssumption
  <2>2. Zero \in [Stages -> Nat]
    BY DEF Zero
  <2> QED
    BY <1>1, <2>1, <2>2 DEF Init, TypeOK
<1>3. Reached /\ StalledAtEnd
  BY <1>1 DEF Init, Reached, StalledAtEnd
<1>4. EveryTokenPasses
  <2> SUFFICES ASSUME NEW s \in Stages
               PROVE  /\ took[s] = made[s] + One(idx[s] # 0 /\ (s = 0 => idx[0] # 1 \/ full[0]))
                      /\ s # N - 1 => made[s] = took[s + 1] + One(full[s] /\ idx[s] = 0)
    BY DEF EveryTokenPasses
  <2>1. s # N - 1 => s + 1 \in Stages
    BY StagesAssumption
  <2> QED
    BY <1>1, <2>1 DEF One
<1>5. InOrder
  <2>1. \A s \in Stages \ {0} : s - 1 \in Stages
    BY StagesAssumption
  <2> QED
    BY <1>1, <2>1 DEF InOrder
<1> QED
  BY <1>2, <1>3, <1>4, <1>5 DEF IInv

\* No stage of any pipeline leaves its states, whatever stalls, waits or disables it.
THEOREM TypeCorrect == Spec => []TypeOK
<1>1. Init => TypeOK
  BY Start DEF IInv
<1> QED
  BY <1>1, TypeStep, PTL DEF Spec

\* Every token that a stage begins is finished and is taken exactly once by the next
\* stage, for any number of stages and of states, when the pipeline is on every path
\* of the algorithm or stage 0 is one state that does not stall.
THEOREM TokensPass == Regular => (Spec => []EveryTokenPasses)
<1> SUFFICES ASSUME Regular
             PROVE  Spec => []EveryTokenPasses
  OBVIOUS
<1>1. IInv /\ [Next]_vars => IInv'
  BY Step
<1>2. IInv => EveryTokenPasses
  BY DEF IInv
<1> QED
  BY <1>1, <1>2, Start, PTL DEF Spec

\* What a stage works on is its own token, under the same condition: nothing that
\* trickles down is overwritten.
THEOREM TokensInOrder == Regular => (Spec => []InOrder)
<1> SUFFICES ASSUME Regular
             PROVE  Spec => []InOrder
  OBVIOUS
<1>1. IInv /\ [Next]_vars => IInv'
  BY Step
<1>2. IInv => InOrder
  BY DEF IInv
<1> QED
  BY <1>1, <1>2, Start, PTL DEF Spec

-----------------------------------------------------------------------------
(* A pipeline is emptied from the last stage to the first one: an induction over the *)
(* distance to the last stage, from the well-foundedness of < on the naturals.       *)

Below == {p \in Nat \X Nat : p[1] < p[2]}

\* Every set of naturals that is not empty has a least element.
LEMMA Least ==
  ASSUME NEW T, T \subseteq Nat, T # {}
  PROVE  \E m \in T : \A n \in T : m <= n
<1>1. IsWellFoundedOn(Below, Nat)
  BY NatLessThanWellFounded DEF OpToRel, Below
<1>2. PICK m \in T : \A n \in T : <<n, m>> \notin Below
  BY <1>1, WFMin
<1>3. ASSUME NEW n \in T PROVE m <= n
  <2>1. <<n, m>> \in Nat \X Nat
    OBVIOUS
  <2>2. <<n, m>>[1] < <<n, m>>[2] => <<n, m>> \in Below
    BY <2>1, Zenon DEF Below
  <2> QED
    BY <1>2, <2>1, <2>2
<1> QED
  BY <1>3

\* A set that holds 0, and n + 1 with every n, holds every natural.
LEMMA Induction ==
  ASSUME NEW S, 0 \in S, \A n \in Nat : n \in S => n + 1 \in S
  PROVE  Nat \subseteq S
<1> SUFFICES ASSUME Nat \ S # {} PROVE FALSE
  OBVIOUS
<1>1. PICK m \in Nat \ S : \A n \in Nat \ S : m <= n
  BY Least
<1>2. m # 0 /\ m - 1 \in Nat /\ m - 1 \in S
  BY <1>1
<1> QED
  BY <1>1, <1>2

\* When nothing is in the pipeline, every stage has finished what it began and
\* what the last one has finished.
LEMMA Emptied == TypeOK /\ EveryTokenPasses => Drained
<1> SUFFICES ASSUME TypeOK, EveryTokenPasses, done
             PROVE  \A s \in Stages : took[s] = made[N - 1] /\ made[s] = made[N - 1]
  BY DEF Drained
<1>1. N \in Nat /\ N >= 2
  BY StagesAssumption
<1>2. ASSUME NEW s \in Stages
      PROVE  took[s] = made[s] /\ made[s] \in Nat
  BY <1>1, <1>2 DEF EveryTokenPasses, TypeOK, done, One
<1>3. ASSUME NEW s \in Stages, s # N - 1
      PROVE  made[s] = made[s + 1]
  <2>1. s + 1 \in Stages
    BY <1>1, <1>3
  <2>2. made[s] = took[s + 1] + One(full[s] /\ idx[s] = 0) /\ ~full[s]
    BY <1>3 DEF EveryTokenPasses, done
  <2> QED
    BY <2>1, <2>2, <1>2 DEF One
<1> DEFINE S == {d \in Nat : d <= N - 1 => made[N - 1 - d] = made[N - 1]}
<1>4. 0 \in S
  BY <1>1
<1>5. ASSUME NEW d \in Nat, d \in S PROVE d + 1 \in S
  <2> SUFFICES ASSUME d + 1 <= N - 1
               PROVE  made[N - 1 - (d + 1)] = made[N - 1]
    OBVIOUS
  <2>1. N - 1 - (d + 1) \in Stages /\ N - 1 - (d + 1) # N - 1
    BY <1>1
  <2>2. N - 1 - (d + 1) + 1 = N - 1 - d /\ d <= N - 1
    BY <1>1
  <2> QED
    BY <2>1, <2>2, <1>3, <1>5
<1>6. Nat \subseteq S
  <2> HIDE DEF S
  <2> QED
    BY <1>4, <1>5, Induction
<1>7. ASSUME NEW s \in Stages PROVE made[s] = made[N - 1]
  <2>1. N - 1 - s \in Nat /\ N - 1 - s <= N - 1 /\ N - 1 - (N - 1 - s) = s
    BY <1>1
  <2> QED
    BY <2>1, <1>6
<1> QED
  BY <1>2, <1>7

\* An algorithm that is done leaves nothing in its pipelines, under the same condition:
\* every token that the first stage began has come out of the last one.
THEOREM AllDrained == Regular => (Spec => []Drained)
<1> SUFFICES ASSUME Regular
             PROVE  Spec => []Drained
  OBVIOUS
<1>1. IInv /\ [Next]_vars => IInv'
  BY Step
<1>2. IInv => Drained
  BY Emptied DEF IInv
<1> QED
  BY <1>1, <1>2, Start, PTL DEF Spec
=============================================================================
