---------------------------- MODULE SdramMemory ----------------------------
(***************************************************************************)
(* What the users of the arbiter are promised: a memory that takes one     *)
(* request at a time, any number of cycles, and answers it with a pulse of *)
(* done.  Sdram (the controller and the chip) is shown to implement it.    *)
(***************************************************************************)
EXTENDS SdramArbiter

VARIABLES mem,    \* the word at each address
          todo    \* the request that is not answered yet

vars == <<asks, waiting, answers, buffered, working, sd, ans, mem, todo>>

TypeOK ==
  /\ ArbiterTypeOK
  /\ mem \in [Addr -> Data]
  /\ todo \in Requests \cup {None}

Init ==
  /\ ArbiterInit
  /\ mem \in [Addr -> Data]
  /\ todo = None

\* The request that in_valid is raised for is taken in the same cycle.
Taken == IF sd.valid THEN sd.req ELSE None

Work ==
  /\ ans' = Quiet
  /\ todo' = IF sd.valid THEN sd.req ELSE todo
  /\ UNCHANGED mem

Read ==
  /\ todo # None
  /\ IsRead(todo)
  /\ ans' = [done |-> TRUE, data |-> mem[todo.addr]]
  /\ todo' = Taken
  /\ UNCHANGED mem

Write ==
  /\ todo # None
  /\ ~IsRead(todo)
  /\ ans' = [done |-> TRUE, data |-> None]
  /\ mem' = [mem EXCEPT ![todo.addr] = todo.data]
  /\ todo' = Taken

Next ==
  /\ UsersStep
  /\ Arbitrate
  /\ (Work \/ Read \/ Write)

Spec == Init /\ [][Next]_vars

\* A user that reads gets the word its own address holds, and a user that
\* writes finds its word there, when it sees done.
OwnAnswer ==
  \A i \in Users :
    answers[i].done =>
      /\ waiting[i] # None
      /\ IF IsRead(waiting[i])
           THEN answers[i].data = mem[waiting[i].addr]
           ELSE mem[waiting[i].addr] = waiting[i].data
=============================================================================
