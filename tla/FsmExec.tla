------------------------------ MODULE FsmExec ------------------------------
(***************************************************************************)
(* The circuit that FsmCompiler writes, executed beside the program it     *)
(* comes from (FsmSource).  In a cycle the circuit executes the code of    *)
(* its state; the last index it assigns is the state of the next cycle     *)
(* (registers: Q at the start of the cycle, D at its end).  Tests have any *)
(* outcome, the same for both.                                             *)
(***************************************************************************)
EXTENDS FsmCompiler, FiniteSetsExt

CONSTANT Programs     \* the programs that are compiled

S == INSTANCE FsmSource

VARIABLES prog,    \* the program
          fsm,     \* what it is compiled to
          idx,     \* Q of the index: the current state, 0 when it has ended
          nidx,    \* D of the index
          todo,    \* what remains of the code of the state in this cycle
          caller,  \* Q and D of the caller id
          saved,   \* Q and D of the caller id saved by each subroutine
          pos,     \* the next event of the program
          ticks    \* cycles since the last event

vars == <<prog, fsm, idx, nidx, todo, caller, saved, pos, ticks>>

Reg(v) == [q |-> v, d |-> v]

Init ==
  /\ prog \in Programs
  /\ fsm = Compile(prog)
  /\ idx = 1
  /\ nidx = 1
  /\ todo = fsm.code[1]
  /\ caller = Reg(0)
  /\ saved = [s \in DOMAIN prog |-> Reg(0)]
  /\ pos = S!Begin(prog)
  /\ ticks = 0

Do(what) == todo # <<>> /\ Head(todo).do = what

\* An instruction.
Execute ==
  /\ Do("ins")
  /\ todo' = Tail(todo)
  /\ pos' = IF pos.do = "ins" THEN S!AfterIns(prog, pos) ELSE pos
  /\ ticks' = 0
  /\ UNCHANGED <<prog, fsm, idx, nidx, caller, saved>>

\* return in the algorithm is written as an assignment of the index.
Exit ==
  /\ Do("exit")
  /\ todo' = Tail(todo)
  /\ nidx' = 0
  /\ pos' = IF pos.do = "exit" THEN [pos EXCEPT !.do = "done", !.at = <<>>] ELSE pos
  /\ UNCHANGED <<prog, fsm, idx, caller, saved, ticks>>

\* An if, switch or while, or the wait for an algorithm.
Branch ==
  /\ Do("test")
  /\ \E k \in DOMAIN Head(todo).cases :
       /\ todo' = Head(todo).cases[k] \o Tail(todo)
       /\ pos' = IF pos.do = "test" THEN S!AfterTest(prog, pos, k) ELSE pos
  /\ ticks' = 0
  /\ UNCHANGED <<prog, fsm, idx, nidx, caller, saved>>

\* The next state.
Assign ==
  /\ Do("index")
  /\ nidx' = Head(todo).to
  /\ todo' = Tail(todo)
  /\ UNCHANGED <<prog, fsm, idx, caller, saved, pos, ticks>>

\* A call: the caller id is set, and saved first if the caller is a subroutine.
Call ==
  /\ Do("call")
  /\ LET b == Head(todo).from
         e == fsm.graph.blocks[b].end
         s == fsm.graph.blocks[b].sub
     IN /\ nidx' = Index(fsm.graph, e.to).to
        /\ saved' = IF s = 1 THEN saved ELSE [saved EXCEPT ![s].d = caller.q]
        /\ caller' = [caller EXCEPT !.d = b]
  /\ todo' = Tail(todo)
  /\ UNCHANGED <<prog, fsm, idx, pos, ticks>>

Callers(s) == {b \in fsm.graph.callers : Callee(fsm.graph, b) = s}

\* A return: to the only caller, or to the one that the caller id names.
Return ==
  /\ Do("return")
  /\ LET all   == Callers(Head(todo).sub)
         these == IF Cardinality(all) = 1 THEN all ELSE all \cap {caller.q}
     IN IF these = {} THEN nidx' = 0 /\ UNCHANGED caller
        ELSE LET back == fsm.graph.blocks[CHOOSE b \in these : TRUE].end.back
                 s    == fsm.graph.blocks[back].sub
             IN /\ nidx' = Index(fsm.graph, back).to
                /\ caller' = IF s = 1 THEN caller ELSE [caller EXCEPT !.d = saved[s].q]
  /\ todo' = Tail(todo)
  /\ UNCHANGED <<prog, fsm, idx, saved, pos, ticks>>

\* The clock edge.
Tick ==
  /\ todo = <<>>
  /\ idx # 0
  /\ nidx = 0 \/ nidx \in DOMAIN fsm.code
  /\ idx' = nidx
  /\ todo' = IF nidx = 0 THEN <<>> ELSE fsm.code[nidx]
  /\ caller' = Reg(caller.d)
  /\ saved' = [s \in DOMAIN saved |-> Reg(saved[s].d)]
  /\ ticks' = ticks + 1
  /\ UNCHANGED <<prog, fsm, nidx, pos>>

Ended == idx = 0 /\ UNCHANGED vars

Next == Execute \/ Exit \/ Branch \/ Assign \/ Call \/ Return \/ Tick \/ Ended

Spec == Init /\ [][Next]_vars
-----------------------------------------------------------------------------
\* The index is a block of the graph, the caller ids are those of the calls, and
\* the position in the source is at a statement.
TypeOK ==
  LET blocks == DOMAIN fsm.graph.blocks
      Regs   == [q : fsm.graph.callers \cup {0}, d : fsm.graph.callers \cup {0}]
  IN /\ idx \in blocks \cup {0}
     /\ nidx \in blocks \cup {0}
     /\ \A k \in DOMAIN todo : todo[k].do \in {"ins", "exit", "test", "index", "call", "return"}
     /\ caller \in Regs
     /\ saved \in [DOMAIN prog -> Regs]
     /\ pos.do \in {"ins", "exit", "test", "done"}
     /\ pos.do = "test" => pos.at \in S!Places(prog)
     /\ ticks \in Nat

\* The circuit executes the instructions and tests of the program, in its order,
\* and ends when it ends: what gather, generateStates and
\* writeStatelessBlockGraph are for.
SameEvents ==
  /\ \A what \in {"ins", "exit", "test"} :
       Do(what) => pos.do = what /\ pos.at = Head(todo).at
  /\ idx = 0 => pos.do = "done"

\* Cycles follow the rules of the control flow: never more than it calls for, and
\* one at least for each ++: (splitOrContinueBlock, preventIfElseCodeDup,
\* fastForward).
CyclesPredicted ==
  Do("ins") \/ Do("test") => ticks \in pos.lo .. pos.hi

\* Cycles follow the rules of the documentation (Documentation.md:1334-1380).
CyclesDocumented ==
  Do("ins") \/ Do("test") => ticks <= pos.doc

\* The state that comes next has code, and each state with code has been given a
\* number: the assertion of writeCombinationalStates (Algorithm.cpp:8324), and its
\* default case that should never happen.
OnlyWrittenStates ==
  /\ nidx = 0 \/ nidx \in DOMAIN fsm.code
  /\ DOMAIN fsm.code \subseteq fsm.graph.states

\* A side of a conditional that does not reach what follows holds a state: the
\* assertions of preventIfElseCodeDup (Algorithm.cpp:4200-4201).
DeadendNotStateless ==
  idx = 1 =>
    LET x == renumberStates(gatherBody(prog)) IN
    \A b \in Ifs(x) :
      LET e == x.blocks[b].end IN
      \/ x.blocks[e.after].st
      \/ /\ Deadend(x, e.thenTrail) => ~e.thenLess
         /\ Deadend(x, e.elseTrail) => ~e.elseLess

\* How often the code writes the instruction or the test at a place.
RECURSIVE Copies(_, _)
Copies(code, at) ==
  IF code = <<>> THEN 0
  ELSE LET i == Head(code) IN
       (IF i.do \in {"ins", "exit", "test"} /\ i.at = at THEN 1 ELSE 0)
       + (IF i.do = "test" THEN Copies(S!FlattenSeq(i.cases), at) ELSE 0)
       + Copies(Tail(code), at)

\* No instruction and no test of the program is written twice
\* (preventIfElseCodeDup, Documentation.md:1445-1450).
NoCodeDup ==
  idx = 1 => \A at \in S!Places(prog) :
               MapThenSumSet(LAMBDA b : Copies(fsm.code[b], at), DOMAIN fsm.code) <= 1
=============================================================================
