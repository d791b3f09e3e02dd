----------------------------- MODULE FsmSource -----------------------------
(***************************************************************************)
(* What an algorithm means: the specification of FsmCompiler.  Statements  *)
(* are executed one after the other, as the documentation describes them   *)
(* (src/learn-silice/Documentation.md:1284-1500), and the cycles a program *)
(* takes between two instructions or tests are bounded by its rules.       *)
(*                                                                         *)
(* A position is the next event of the program (an instruction, a test or  *)
(* the end), with the calls in progress and the cycles spent to reach it:  *)
(* at least lo, at most hi if a cycle follows an if-then-else whenever one *)
(* side takes cycles and reaches what follows it, at most doc if that also *)
(* requires the other side to reach it.                                    *)
(***************************************************************************)
EXTENDS Naturals, Sequences, SequencesExt

Branches(s) ==
  CASE s[1] \in {"ifthen", "while", "block"} -> <<s[2]>>
    [] s[1] = "if"     -> <<s[2], s[3]>>
    [] s[1] = "switch" -> Tail(Tail(s))
    [] OTHER           -> <<>>

RECURSIVE Body(_, _)
StatementAt(prog, at) == Body(prog, Front(at))[Last(at)]
Body(prog, at) == IF Len(at) = 1 THEN prog[at[1]]
                  ELSE Branches(StatementAt(prog, Front(at)))[Last(at)]

\* The places of the statements of a body and of those they contain.
RECURSIVE PlacesIn(_, _)
PlacesIn(body, at) ==
  UNION {{Append(at, i)} \cup
           UNION {PlacesIn(Branches(body[i])[k], at \o <<i, k>>) :
                    k \in DOMAIN Branches(body[i])} : i \in DOMAIN body}

Places(prog) == UNION {PlacesIn(prog[s], <<s>>) : s \in DOMAIN prog}

Jumped(prog) ==
  {l[2] : l \in {s \in {StatementAt(prog, p) : p \in Places(prog)} : s[1] = "goto"}}

LabelAt(prog, l) == CHOOSE p \in Places(prog) : StatementAt(prog, p) = <<"label", l>>

\* Does a body take cycles of its own?
RECURSIVE TakesCycles(_, _)
TakesCycles(prog, body) ==
  \E i \in DOMAIN body :
    LET s == body[i] IN
    \/ s[1] \in {"step", "goto", "break", "return", "while", "call", "join"}
    \/ s[1] = "label" /\ s[2] \in Jumped(prog)
    \/ \E k \in DOMAIN Branches(s) : TakesCycles(prog, Branches(s)[k])

\* Is the end of a body reached?  deep tells to look into nested conditionals.
RECURSIVE FallsOut(_, _, _)
FallsOut(prog, body, deep) ==
  IF body = <<>> THEN TRUE
  ELSE LET s == Last(body) IN
       \/ s[1] = "label" /\ s[2] \in Jumped(prog)
       \/ /\ FallsOut(prog, Front(body), deep)
          /\ s[1] \notin {"goto", "break", "return"}
          /\ s[1] = "block" => FallsOut(prog, s[2], deep)
          /\ s[1] = "if" /\ deep => FallsOut(prog, s[2], deep) \/ FallsOut(prog, s[3], deep)

\* A cycle after a conditional, according to how it is decided.
Sides(s) == IF s[1] = "ifthen" THEN {s[2], <<>>} ELSE {s[2], s[3]}

JoinIf(prog, s) ==
  \/ \E A \in Sides(s) : TakesCycles(prog, A) /\ FallsOut(prog, A, FALSE)
  \/ \A A \in Sides(s) : ~FallsOut(prog, A, FALSE)

JoinIfDocumented(prog, s) ==
  /\ \E A \in Sides(s) : TakesCycles(prog, A)
  /\ \A A \in Sides(s) : FallsOut(prog, A, TRUE)

\* Does a break leave the loop of this body?  What follows is then a state.
RECURSIVE Breaks(_)
Breaks(body) ==
  \E i \in DOMAIN body :
    \/ body[i][1] = "break"
    \/ body[i][1] # "while" /\ \E k \in DOMAIN Branches(body[i]) : Breaks(Branches(body[i])[k])

JoinSwitch(prog, s) == \E k \in DOMAIN Branches(s) : TakesCycles(prog, Branches(s)[k])

One(b) == IF b THEN 1 ELSE 0

NextTo(at) == [at EXCEPT ![Len(at)] = @ + 1]
Parent(at) == SubSeq(at, 1, Len(at) - 2)

RECURSIVE Loop(_, _)
Loop(prog, at) == IF StatementAt(prog, Parent(at))[1] = "while" THEN Parent(at)
                  ELSE Loop(prog, Parent(at))

Spend(p, n)      == [p EXCEPT !.hi = @ + n, !.doc = @ + n]
Event(p, do, at) == [p EXCEPT !.do = do, !.at = at]

\* What follows a conditional.
Joined(prog, p, at) ==
  LET s == StatementAt(prog, at) IN
  CASE s[1] \in {"if", "ifthen"} ->
         [p EXCEPT !.at = NextTo(at), !.hi = @ + One(JoinIf(prog, s)),
                   !.doc = @ + One(JoinIfDocumented(prog, s))]
    [] s[1] = "switch" -> [Spend(p, One(JoinSwitch(prog, s))) EXCEPT !.at = NextTo(at)]
    [] s[1] = "block"  -> [p EXCEPT !.at = NextTo(at)]
    [] s[1] = "while"  -> [p EXCEPT !.at = at]

\* The end of a body: back to the loop, after the conditional, to the caller, or
\* the end of the algorithm.
RECURSIVE Settle(_, _)
Leave(prog, p) ==
  IF Len(p.at) > 2 THEN Settle(prog, Joined(prog, p, Parent(p.at)))
  ELSE IF p.at[1] = 1 THEN Event(p, "done", <<>>)
  ELSE LET call == Head(p.calls)
           q    == [Spend(p, 1) EXCEPT !.calls = Tail(@)]
       IN IF StatementAt(prog, call)[3] THEN Event(q, "ins", Append(call, 1))
          ELSE Settle(prog, [q EXCEPT !.at = NextTo(call)])

\* The instructions that end with a return from a subroutine are a state.
Returning(prog, at) ==
  LET body == Body(prog, Front(at))
      i    == Last(at)
  IN /\ at[1] # 1
     /\ i > 1 => body[i - 1][1] # "ins"
     /\ \E j \in i .. Len(body) : /\ body[j][1] = "return"
                                 /\ \A k \in i .. j - 1 : body[k][1] = "ins"

\* From a place to the next event.
Settle(prog, q) ==
  IF Last(q.at) > Len(Body(prog, Front(q.at))) THEN Leave(prog, q)
  ELSE LET s == StatementAt(prog, q.at)
           p == [q EXCEPT !.hi = @ + One(Returning(prog, q.at))] IN
  CASE s[1] \in {"ins", "call"} -> Event(p, "ins", p.at)
    [] s[1] \in {"if", "ifthen", "switch"} -> Event(p, "test", p.at)
    [] s[1] \in {"while", "join"} -> Event(Spend(p, 1), "test", p.at)
    [] s[1] = "step"  -> Settle(prog, [Spend(p, 1) EXCEPT !.at = NextTo(@), !.lo = @ + 1])
    [] s[1] = "label" -> Settle(prog, [Spend(p, One(s[2] \in Jumped(prog)))
                                         EXCEPT !.at = NextTo(@)])
    [] s[1] = "goto"  -> Settle(prog, [Spend(p, 1) EXCEPT !.at = NextTo(LabelAt(prog, s[2]))])
    [] s[1] = "break" -> Settle(prog, [Spend(p, 1) EXCEPT !.at = NextTo(Loop(prog, @))])
    [] s[1] = "block" -> Settle(prog, [p EXCEPT !.at = @ \o <<1, 1>>])
    [] s[1] = "return" ->
         IF p.at[1] = 1 THEN Event(p, "exit", p.at)
         ELSE Leave(prog, [p EXCEPT !.at = <<p.at[1], 1>>])

Ready(at, calls) ==
  [do |-> "none", at |-> at, calls |-> calls, lo |-> 0, hi |-> 0, doc |-> 0]

\* The top of an algorithm is a state of its own.
Begin(prog) == Settle(prog, Spend(Ready(<<1, 1>>, <<>>), 1))

\* After an instruction: a call enters the subroutine, a readback (an odd place)
\* ends the call or the wait.
AfterIns(prog, p) ==
  IF Len(p.at) % 2 = 1 THEN Settle(prog, Ready(NextTo(Front(p.at)), p.calls))
  ELSE LET s == StatementAt(prog, p.at) IN
       IF s[1] = "call" THEN Settle(prog, Spend(Ready(<<s[2], 1>>, <<p.at>> \o p.calls), 1))
       ELSE Settle(prog, Ready(NextTo(p.at), p.calls))

\* After a test: its k-th outcome.
AfterTest(prog, p, k) ==
  LET s == StatementAt(prog, p.at)
      q == Ready(p.at, p.calls)
  IN CASE s[1] = "while" /\ k = 2 ->
            Settle(prog, [q EXCEPT !.at = NextTo(@), !.hi = One(Breaks(s[2]))])
       [] s[1] = "join" -> IF k = 1 THEN Spend(Event(q, "ins", Append(p.at, 1)), 1)
                           ELSE Settle(prog, q)
       [] s[1] # "join" /\ k > Len(Branches(s)) /\ s[1] # "while"
                        -> Settle(prog, Joined(prog, q, p.at))
       [] OTHER         -> Settle(prog, [q EXCEPT !.at = @ \o <<k, 1>>])
=============================================================================
