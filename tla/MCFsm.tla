------------------------------- MODULE MCFsm -------------------------------
(***************************************************************************)
(* Small programs for FsmExec: all those of a given size, and families     *)
(* with jumps, subroutines and joins.                                      *)
(***************************************************************************)
EXTENDS FsmExec

i    == <<"ins">>
step == <<"step">>
brk  == <<"break">>
ret  == <<"return">>
join == <<"join">>
here == <<"label", 1>>
jump == <<"goto", 1>>
call(s, back) == <<"call", s, back>>

\* The bodies of n statements, made of instructions, steps and the given
\* statements; loop is for the statements that are only allowed in a loop.
RECURSIVE Bodies(_, _, _), Statements(_, _, _)
Bodies(n, given, loop) ==
  IF n = 0 THEN {<<>>}
  ELSE UNION {{<<s>> \o b : s \in Statements(k, given, loop), b \in Bodies(n - k, given, loop)} :
                k \in 1 .. n}
Statements(n, given, loop) ==
  IF n = 1 THEN {i, step} \cup given
  ELSE {<<"ifthen", a>> : a \in Bodies(n - 1, given, loop)}
       \cup {<<"while", a>> : a \in Bodies(n - 1, given \cup loop, {})}
       \cup UNION {{<<"if", a, b>> : a \in Bodies(k, given, loop), b \in Bodies(n - 1 - k, given, loop)} :
                     k \in 0 .. n - 1}
       \cup UNION {{<<"switch", TRUE, a, b>> : a \in Bodies(k, given, loop), b \in Bodies(n - 1 - k, given, loop)} :
                     k \in 0 .. n - 1}

Upto(n, given, loop) == UNION {Bodies(k, given, loop) : k \in 0 .. n}

\* Labels and jumps: one label, not in a branch of a conditional, and the same
\* with a return at the end.
Statement(p, s) == {q \in S!Places(p) : S!StatementAt(p, q) = s}

InBranch(p, at) ==
  \E n \in 1 .. Len(at) - 2 :
    n % 2 = 0 /\ S!StatementAt(p, SubSeq(at, 1, n))[1] \in {"if", "ifthen", "switch"}

Structured == {<<<<i>> \o b \o <<i>>>> : b \in Upto(4, {<<"while", <<>>>>}, {brk})}
Backward   == {<<<<i, here, i>> \o b \o <<i>>>> : b \in Upto(4, {jump}, {brk})}
Ahead      == {<<b \o <<here, i, ret>>>> : b \in Upto(3, {jump}, {brk})}
Jumps      == {p \in {<<<<i>> \o b \o <<i>>>> : b \in Upto(4, {jump, <<"block", <<here, i>>>>}, {})} :
                 /\ Cardinality(Statement(p, here)) = 1
                 /\ Statement(p, jump) # {}
                 /\ \A at \in Statement(p, here) : ~InBranch(p, at)}
Returns    == {<<<<i, call(2, r), i>>, b \o <<i>>>> : b \in Upto(3, {ret}, {brk}), r \in BOOLEAN}
Calls      == {<<b \o <<i>>, <<step, i>>, <<i, call(2, FALSE), i, call(2, TRUE)>>>> :
                 b \in Upto(3, {call(2, FALSE), call(3, TRUE)}, {brk})}
Joins      == {<<b \o <<i>>>> : b \in Upto(2, {join}, {brk})}

MCPrograms == Structured \cup Backward \cup Ahead \cup Jumps \cup Returns \cup Calls \cup Joins
-----------------------------------------------------------------------------
\* The programs of the findings.
\* tests/return_in_algorithm.si
MCReturn == {<<<<<<"while", <<<<"ifthen", <<ret>>>>, i>>>>>>>>}
\* A label in a branch, jumped to from after the conditional.
MCLabel  == {<<<<<<"ifthen", <<i, here, i>>>>, i, jump>>>>}
MCDead   == {<<<<<<"ifthen", <<here>>>>, <<"while", <<i>>>>, jump>>>>}
\* A switch without default, with a state in a case.
MCSwitch == {<<<<i, <<"switch", FALSE, <<i, step, i>>, <<i>>>>, i>>>>}
\* Only one side reaches what follows.
MCOneSide == {<<<<<<"while", <<<<"if", <<brk>>, <<i, step, i>>>>, i>>>>>>>>}
\* A break leaves the loop.
MCExit   == {<<<<<<"while", <<i, <<"ifthen", <<brk>>>>, i>>>>, i>>>>}
\* A subroutine that never returns.
MCNoReturn == {<<<<i, call(2, FALSE), i>>, <<here, i, jump>>>>}
=============================================================================
