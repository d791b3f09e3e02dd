---------------------------- MODULE FsmCompiler ----------------------------
(***************************************************************************)
(* How the Silice compiler turns an algorithm into a finite state machine  *)
(* (src/src/Algorithm.cpp): gather builds a graph of blocks, generateStates*)
(* decides which of them are states, writeCombinationalStates writes the   *)
(* code of each state.  Only control is kept: an instruction or a test is  *)
(* its place in the source, and the operators are those of the compiler.   *)
(*                                                                         *)
(* A program is a sequence of bodies, the algorithm first and then its     *)
(* subroutines.  A body is a sequence of statements:                       *)
(*   <<"ins">>  <<"step">>  <<"break">>  <<"return">>                      *)
(*   <<"label", l>>  <<"goto", l>>  <<"block", body>>                      *)
(*   <<"if", body, body>>  <<"ifthen", body>>  <<"while", body>>           *)
(*   <<"switch", has a default, body, body>>                               *)
(*   <<"call", s, reads back>>  <<"join">>                                 *)
(* The place of a statement is its path: the number of the body, then the  *)
(* index of a statement and the number of its branch, alternately.         *)
(***************************************************************************)
EXTENDS Naturals, Sequences, FiniteSets

\* What ends a block (t_end_action); nowhere is nullptr, a jump to a label not
\* met yet.
None      == [op |-> "none"]
nowhere   == 0
Goto(b)   == [op |-> "next", next |-> b]

\* t_combinational_block: instructions, is_state, no_skip, end action and the
\* subroutine it belongs to (1 is the algorithm itself).
Block(s) == [ins |-> <<>>, st |-> FALSE, ns |-> FALSE, end |-> None, sub |-> s]

(***************************************************************************)
(* gather: x is the graph being built, with cur the current block, brk     *)
(* where break goes, labels and forward jumps, tops the entry of each      *)
(* subroutine and last the last block of the machine.                      *)
(***************************************************************************)
addBlock(x, s) == [x EXCEPT !.blocks = Append(@, Block(s)),
                            !.last = Len(x.blocks) + 1]

SubOf(x) == x.blocks[x.cur].sub

\* Adds a block in the context of the current one.
More(x) == addBlock(x, SubOf(x))

New(x) == Len(x.blocks) + 1

End(x, b, e)    == [x EXCEPT !.blocks[b].end = e]
SetState(x, b)  == [x EXCEPT !.blocks[b].st = TRUE]
At(x, b)        == [x EXCEPT !.cur = b]
Instr(x, i)     == [x EXCEPT !.blocks[x.cur].ins = Append(@, i)]
Ins(at)         == [do |-> "ins", at |-> at]

\* The subroutine that a block ending with a call goes to.
Callee(x, b) == x.blocks[x.blocks[b].end.to].sub

\* getChildren, with the return states known after analyzeSubroutineCalls.
Children(x, b) ==
  LET e == x.blocks[b].end IN
  CASE e.op = "none"   -> {}
    [] e.op = "next"   -> {e.next}
    [] e.op = "if"     -> {e.then, e.else, e.after}
    [] e.op = "switch" -> {e.cases[i] : i \in DOMAIN e.cases} \cup {e.after}
    [] e.op = "while"  -> {e.iter, e.after}
    [] e.op = "wait"   -> {b, e.next}
    [] e.op = "return" -> {x.blocks[c].end.back : c \in {d \in x.callers : Callee(x, d) = e.sub}}
    [] e.op = "call"   -> {e.to}

RECURSIVE Spread(_, _)
Spread(x, S) ==
  LET T == S \cup UNION {Children(x, b) : b \in S \ {nowhere}}
  IN IF T = S THEN S ELSE Spread(x, T)

\* isStateLessGraph: no state, no subroutine call and no unresolved jump can be
\* reached from the block.
StateLess(x, head) ==
  LET S == Spread(x, {head})
  IN /\ nowhere \notin S
     /\ \A b \in S : ~x.blocks[b].st /\ x.blocks[b].end.op # "call"

RECURSIVE gatherSeq(_, _, _, _)
RECURSIVE gather(_, _, _)

gatherSeq(x, body, at, i) ==
  IF i > Len(body) THEN x
  ELSE gatherSeq(gather(x, body[i], Append(at, i)), body, at, i + 1)

\* Gathers a body into block b; the result's cur is where the body ends.
Into(x, b, body, at) == gatherSeq(At(x, b), body, at, 1)

\* mutant: fastForward may skip the state of a step.
gatherStepSkipped(x) == At(SetState(End(More(x), x.cur, Goto(New(x))), New(x)), New(x))

\* splitOrContinueBlock: a step is a state that is never skipped, a label is a
\* state only if something jumps to it.
gatherStep(x) ==
  LET y == Goto(New(x))
      z == End(More(x), x.cur, y)
  IN At([z EXCEPT !.blocks[New(x)].st = TRUE, !.blocks[New(x)].ns = TRUE], New(x))

gatherLabel(x, l) ==
  At([End(More(x), x.cur, Goto(New(x))) EXCEPT !.labels = @ \cup {<<l, New(x)>>}],
     New(x))

gatherJump(x, l) ==
  LET known == {p \in x.labels : p[1] = l}
      to    == IF known = {} THEN nowhere ELSE (CHOOSE p \in known : TRUE)[2]
      y     == IF known = {} THEN [x EXCEPT !.forward = @ \cup {<<x.cur, l>>}]
                             ELSE SetState(x, to)
  IN At(More(End(y, x.cur, Goto(to))), New(x))

gatherBreakLoop(x) ==
  At(More(SetState(End(x, x.cur, Goto(x.brk)), x.brk)), New(x))

\* In a subroutine the block that returns becomes a state, the one after it does
\* not; in the algorithm a return is an instruction.
gatherReturnFrom(x, at) ==
  IF SubOf(x) = 1 THEN Instr(x, [do |-> "exit", at |-> at])
  ELSE At(More(SetState(End(x, x.cur, [op |-> "return", sub |-> SubOf(x)]), x.cur)),
          New(x))

gatherBlock(x, body, at) ==
  LET y == Into(End(More(x), x.cur, Goto(New(x))), New(x), body, at)
      z == addBlock(y, SubOf(x))
  IN At(End(z, y.cur, Goto(New(y))), New(y))

\* The states of the sides are looked for once, here.
gatherIf(x, at, A, B, isElse) ==
  LET then  == New(x)
      else  == New(x) + 1
      y     == Into(More(More(x)), then, A, Append(at, 1))
      z     == IF isElse THEN Into(y, else, B, Append(at, 2)) ELSE At(y, else)
      after == New(z)
      g     == End(End(addBlock(z, SubOf(x)), y.cur, Goto(after)), z.cur, Goto(after))
  IN At(End(g, x.cur,
            [op |-> "if", test |-> at, after |-> after,
             then |-> then, thenLess |-> StateLess(g, then), thenTrail |-> y.cur,
             else |-> else, elseTrail |-> z.cur,
             elseLess |-> ~isElse \/ StateLess(g, else)]),
        after)

gatherWhile(x, at, A) ==
  LET header == New(x)
      iter   == header + 1
      after  == header + 2
      y == [End(More(More(More(x))), x.cur, Goto(header)) EXCEPT !.brk = after]
      z == Into(y, iter, A, Append(at, 1))
      g == End(End(SetState(z, header), z.cur, Goto(header)), header,
               [op |-> "while", test |-> at, iter |-> iter, after |-> after])
  IN At([g EXCEPT !.brk = x.brk, !.last = after], after)

RECURSIVE gatherCases(_, _, _, _, _)
gatherCases(x, bodies, at, s, after) ==
  IF bodies = <<>> THEN <<x, <<>>>>
  ELSE LET b == New(x)
           y == Into(addBlock(x, s), b, Head(bodies), at)
           z == End(y, y.cur, Goto(after))
           r == gatherCases(z, Tail(bodies), [at EXCEPT ![Len(at)] = @ + 1], s, after)
       IN <<r[1], <<b>> \o r[2]>>

\* mutant: only the first case is looked at.
AnyCaseFirst(x, cases) == ~StateLess(x, cases[1])

AnyCase(x, cases) == \E i \in DOMAIN cases : ~StateLess(x, cases[i])

gatherSwitchCase(x, at, default, bodies) ==
  LET after == New(x)
      r  == gatherCases(More(x), bodies, Append(at, 1), SubOf(x), after)
      g  == End(r[1], x.cur,
                [op |-> "switch", test |-> at, cases |-> r[2], default |-> default,
                 after |-> after])
  IN At([g EXCEPT !.blocks[after].st = AnyCase(g, r[2])], after)

\* gatherSyncExec and the readback of gatherJoinExec, which is an instruction
\* only if the subroutine has outputs (see blockIsEmpty).
gatherSyncExec(x, at, s, back) ==
  LET y == SetState(More(Instr(x, Ins(at))), New(x))
      z == At(End(y, x.cur, [op |-> "call", to |-> x.tops[s], back |-> New(x)]),
              New(x))
  IN IF back THEN Instr(z, Ins(Append(at, 1))) ELSE z

\* gatherJoinExec for an algorithm: a state that waits, then a state that reads
\* the outputs back.
gatherJoinExec(x, at) ==
  LET wait == New(x)
      y == SetState(SetState(More(More(End(x, x.cur, Goto(wait)))), wait), wait + 1)
      z == End(y, wait, [op |-> "wait", test |-> at, next |-> wait + 1])
  IN Instr(At(z, wait + 1), Ins(Append(at, 1)))

gather(x, s, at) ==
  CASE s[1] = "ins"    -> Instr(x, Ins(at))
    [] s[1] = "step"   -> gatherStep(x)
    [] s[1] = "label"  -> gatherLabel(x, s[2])
    [] s[1] = "goto"   -> gatherJump(x, s[2])
    [] s[1] = "break"  -> gatherBreakLoop(x)
    [] s[1] = "return" -> gatherReturnFrom(x, at)
    [] s[1] = "block"  -> gatherBlock(x, s[2], Append(at, 1))
    [] s[1] = "if"     -> gatherIf(x, at, s[2], s[3], TRUE)
    [] s[1] = "ifthen" -> gatherIf(x, at, s[2], <<>>, FALSE)
    [] s[1] = "while"  -> gatherWhile(x, at, s[2])
    [] s[1] = "switch" -> gatherSwitchCase(x, at, s[2], Tail(Tail(s)))
    [] s[1] = "call"   -> gatherSyncExec(x, at, s[2], s[3])
    [] s[1] = "join"   -> gatherJoinExec(x, at)

\* Block 1 is the top of the algorithm.
Start == [blocks |-> <<[Block(1) EXCEPT !.st = TRUE]>>, cur |-> 1, brk |-> nowhere,
          labels |-> {}, forward |-> {}, callers |-> {}, tops |-> <<1>>, last |-> 1,
          reached |-> {}, states |-> {}]

\* gatherSubroutine, for the subroutines of the program from the s-th on.
RECURSIVE gatherSubroutines(_, _, _)
gatherSubroutines(x, prog, s) ==
  IF s > Len(prog) THEN x
  ELSE LET top == New(x)
           y == Into([addBlock(x, s) EXCEPT !.tops = Append(@, top)], top, prog[s], <<s>>)
           z == SetState(End(y, y.cur, [op |-> "return", sub |-> s]), top)
       IN gatherSubroutines(At(z, 1), prog, s + 1)

\* resolveForwardJumpRefs.
Target(x, l) == (CHOOSE p \in x.labels : p[1] = l)[2]

Resolve(x) ==
  [x EXCEPT !.blocks = [b \in DOMAIN @ |->
     LET jumps == {f \in x.forward : f[1] = b}
         there == {Target(x, f[2]) : f \in x.forward}
         c == [@[b] EXCEPT !.st = @ \/ b \in there]
     IN IF jumps = {} THEN c
        ELSE [c EXCEPT !.end = Goto(Target(x, (CHOOSE f \in jumps : TRUE)[2]))]]]

\* The block that makes a call is its caller id.
analyzeSubroutineCalls(x) ==
  [x EXCEPT !.callers = {b \in DOMAIN x.blocks : x.blocks[b].end.op = "call"}]

\* gatherBody: subroutines first, then the body of the algorithm as a block.
gatherBody(prog) ==
  analyzeSubroutineCalls(
    Resolve(gatherBlock(gatherSubroutines(Start, prog, 2), prog[1], <<1>>)))

(***************************************************************************)
(* generateStates                                                          *)
(***************************************************************************)
\* blockIsEmpty: an instruction of no effect is not in ins.
Empty(x, b) == x.blocks[b].ins = <<>>

\* fastForward: through the empty blocks that follow a state, to the last state
\* among them.  fuel bounds a walk that would not end (see StuckForward).
RECURSIVE Forward(_, _, _, _)
Forward(x, b, state, fuel) ==
  LET e == x.blocks[b].end IN
  IF ~Empty(x, b) \/ e.op # "next" \/ fuel = 0 \/ x.blocks[e.next].ns THEN state
  ELSE Forward(x, e.next, IF x.blocks[e.next].st THEN e.next ELSE state, fuel - 1)

fastForward(x, b) ==
  IF x.blocks[b].ns THEN b ELSE Forward(x, b, b, Len(x.blocks))

\* renumberStates: the blocks that the traversal visits, which are those that
\* get a parent state, and among them the states, which get a number.
Visits(x, b) ==
  {IF x.blocks[c].st THEN fastForward(x, c) ELSE c : c \in Children(x, b)}

RECURSIVE Visited(_, _)
Visited(x, S) ==
  LET T == S \cup UNION {Visits(x, b) : b \in S}
  IN IF T = S THEN S ELSE Visited(x, T)

renumberStates(x) ==
  LET V == Visited(x, {1})
  IN [x EXCEPT !.reached = V, !.states = {b \in V : x.blocks[b].st}]

\* preventIfElseCodeDup.
Deadend(x, b) == b \notin x.reached

\* mutant: the else side is not looked at.
AfterIsStateThen(x, e) ==
  \/ ~Deadend(x, e.thenTrail) /\ ~e.thenLess
  \/ Deadend(x, e.thenTrail) /\ Deadend(x, e.elseTrail)

AfterIsState(x, e) ==
  LET thenDead == Deadend(x, e.thenTrail)
      elseDead == Deadend(x, e.elseTrail)
  IN \/ ~thenDead /\ ~e.thenLess
     \/ ~elseDead /\ ~e.elseLess
     \/ thenDead /\ elseDead

Ifs(x) == {b \in x.reached : x.blocks[b].end.op = "if"}

preventIfElseCodeDup(x) ==
  LET promoted == {x.blocks[b].end.after :
                     b \in {c \in Ifs(x) : AfterIsState(x, x.blocks[c].end)}}
  IN [x EXCEPT !.blocks = [b \in DOMAIN @ |-> [@[b] EXCEPT !.st = @ \/ b \in promoted]]]

\* mutant: the states added by preventIfElseCodeDup are not numbered.
generateStatesOnce(x) == preventIfElseCodeDup(renumberStates(x))

generateStates(x) == renumberStates(preventIfElseCodeDup(renumberStates(x)))

(***************************************************************************)
(* writeCombinationalStates: the code of a state is a sequence of          *)
(*   [do |-> "ins" or "exit", at]      an instruction                      *)
(*   [do |-> "test", at, cases]        an if, while, switch or wait        *)
(*   [do |-> "index", to, state]       the next state (0 ends), the block  *)
(*                                     that stands for it                  *)
(*   [do |-> "call", from], [do |-> "return", sub]                         *)
(***************************************************************************)
\* fastForwardToFSMState and pushState.
Index(x, b) ==
  LET s == fastForward(x, b)
  IN [do |-> "index", state |-> s, to |-> IF Empty(x, s) /\ s = x.last THEN 0 ELSE s]

Test(at, cases) == [do |-> "test", at |-> at, cases |-> cases]

\* stop is nowhere at the top of a state.
RECURSIVE writeStatelessBlockGraph(_, _, _)
RECURSIVE Chain(_, _, _)

writeStatelessBlockGraph(x, b, stop) ==
  IF stop # nowhere /\ x.blocks[b].st THEN <<Index(x, b)>> ELSE Chain(x, b, stop)

Follow(x, b, stop) ==
  IF x.blocks[b].st THEN <<Index(x, b)>>
  ELSE IF b = stop THEN <<>>
  ELSE Chain(x, b, stop)

\* 'after' is collapsed into the only side that reaches it.
writeIf(x, e, stop) ==
  LET thenDead == Deadend(x, e.thenTrail)
      elseDead == Deadend(x, e.elseTrail)
      st       == x.blocks[e.after].st
      after    == IF st \/ thenDead = elseDead THEN <<>>
                  ELSE writeStatelessBlockGraph(x, e.after, stop)
      side(b, dead) == writeStatelessBlockGraph(x, b, e.after)
                         \o (IF dead THEN <<>> ELSE after)
  IN <<Test(e.test, <<side(e.then, thenDead), side(e.else, elseDead)>>)>>
       \o (IF st \/ thenDead # elseDead THEN <<>> ELSE Follow(x, e.after, stop))

Chain(x, b, stop) ==
  LET e == x.blocks[b].end IN
  x.blocks[b].ins \o
  CASE e.op = "next"   -> Follow(x, e.next, stop)
    [] e.op = "if"     -> writeIf(x, e, stop)
    [] e.op = "switch" ->
         <<Test(e.test, [i \in DOMAIN e.cases |->
                           writeStatelessBlockGraph(x, e.cases[i], e.after)]
                          \o (IF e.default THEN <<>> ELSE <<<<>>>>))>>
           \o (IF x.blocks[e.after].st THEN <<>> ELSE Follow(x, e.after, stop))
    [] e.op = "while"  ->
         <<Test(e.test, <<writeStatelessBlockGraph(x, e.iter, e.after),
                          IF x.blocks[e.after].st THEN <<Index(x, e.after)>>
                          ELSE writeStatelessBlockGraph(x, e.after, stop)>>)>>
    [] e.op = "wait"   -> <<Test(e.test, <<<<Index(x, e.next)>>, <<Index(x, b)>>>>)>>
    [] e.op = "return" -> <<[do |-> "return", sub |-> e.sub]>>
    [] e.op = "call"   -> <<[do |-> "call", from |-> b]>>
    [] e.op = "none"   -> <<[do |-> "index", state |-> nowhere, to |-> 0]>>

\* The states that a piece of code queues for writing.
RECURSIVE Pushed(_, _)
Pushed(x, code) ==
  UNION {LET i == code[k] IN
         CASE i.do = "index"  -> {i.state} \ {nowhere}
           [] i.do = "test"   -> UNION {Pushed(x, i.cases[j]) : j \in DOMAIN i.cases}
           [] i.do = "call"   -> {fastForward(x, x.blocks[i.from].end.to),
                                  fastForward(x, x.blocks[i.from].end.back)}
           [] OTHER           -> {}
         : k \in DOMAIN code}

CodeOf(x, b) == writeStatelessBlockGraph(x, b, nowhere)

RECURSIVE Produced(_, _, _)
Produced(x, queue, code) ==
  IF queue = {} THEN code
  ELSE LET b == CHOOSE c \in queue : TRUE
           c == CodeOf(x, b)
           done == [s \in DOMAIN code \cup {b} |-> IF s = b THEN c ELSE code[s]]
       IN Produced(x, (queue \cup Pushed(x, c)) \ DOMAIN done, done)

\* The machine: the code of each state that is written, and the graph.
Compile(prog) ==
  LET x == generateStates(gatherBody(prog))
  IN [graph |-> x, code |-> Produced(x, {1}, <<>>)]
=============================================================================
