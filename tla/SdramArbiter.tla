--------------------------- MODULE SdramArbiter ---------------------------
(***************************************************************************)
(* The N-way arbiter of the SDRAM (projects/common/sdram_arbitrers.si) and *)
(* the units it serves.  One step is one clock cycle; outputs are          *)
(* registers, seen by the other side one cycle after they are written.     *)
(* What answers the arbiter is left to the modules that extend this one:   *)
(* SdramMemory (a memory that takes any time) and Sdram (the controller).  *)
(***************************************************************************)
EXTENDS Integers

CONSTANTS Nway,   \* number of users; sd0 has the highest priority
          Addr,   \* addresses
          Data,   \* 16 bit words
          None    \* no request, no word, nobody

ASSUME NwayAssumption == Nway \in Nat \ {0}
ASSUME NoneAssumption == None \notin Data /\ None \notin Nat

Users == 0 .. Nway - 1

\* addr, rw and data_in: a read (rw = 0) carries no word.
Requests == [addr : Addr, data : Data \cup {None}]
IsRead(r) == r.data = None

ASSUME NotARequest == None \notin Requests

VARIABLES asks,      \* asks[i]: what user i raises in_valid for in this cycle
          waiting,   \* waiting[i]: the request user i waits for
          answers,   \* answers[i]: done and data_out of sd_i
          buffered,  \* buffered[i]: buffered_sd_i, None when its in_valid is 0
          working,   \* the user being served
          sd,        \* in_valid and the request given to the memory
          ans        \* done and data_out of the memory

arbiterVars == <<answers, buffered, working, sd>>
userVars == <<asks, waiting>>

\* data_out is looked at when done is high and the request was a read: its
\* value is left out in the other cycles.
Answer == [done : BOOLEAN, data : Data \cup {None}]
Quiet == [done |-> FALSE, data |-> None]

ArbiterTypeOK ==
  /\ asks \in [Users -> Requests \cup {None}]
  /\ waiting \in [Users -> Requests \cup {None}]
  /\ answers \in [Users -> Answer]
  /\ buffered \in [Users -> Requests \cup {None}]
  /\ working \in Users \cup {None}
  /\ sd \in [valid : BOOLEAN, req : Requests \cup {None}]
  /\ ans \in Answer

ArbiterInit ==
  /\ asks = [i \in Users |-> None]
  /\ waiting = [i \in Users |-> None]
  /\ answers = [i \in Users |-> Quiet]
  /\ buffered = [i \in Users |-> None]
  /\ working = None
  /\ sd = [valid |-> FALSE, req |-> None]
  /\ ans = Quiet

---------------------------------------------------------------------------
\* A user pulses in_valid for one cycle, then waits for done.
Free(i) == waiting[i] = None \/ answers[i].done

UsersStep ==
  /\ asks' \in [Users -> Requests \cup {None}]
  /\ \A i \in Users : ~Free(i) => asks'[i] = None
  /\ waiting' = [i \in Users |-> IF Free(i) THEN asks'[i] ELSE waiting[i]]

\* in_valids, one-hot, computed before this cycle's requests are buffered.
Hot == {i \in Users : /\ buffered[i] # None
                      /\ \A j \in 0 .. i - 1 : buffered[j] = None}

\* mutant: a request is buffered only when nobody is being served.
LatchedWhenIdle(i) == IF asks[i] # None /\ working = None THEN asks[i] ELSE buffered[i]

\* What buffered_sd_i holds once this cycle's request is buffered.
Latched(i) == IF asks[i] # None THEN asks[i] ELSE buffered[i]

\* case 1<<i, the memory is done.
Finish ==
  /\ working # None
  /\ ans.done
  /\ answers' = [i \in Users |->
                   IF i = working
                     THEN [done |-> TRUE, data |-> IF IsRead(sd.req) THEN ans.data ELSE None]
                     ELSE Quiet]
  /\ buffered' = [i \in Users |-> IF i = working THEN None ELSE Latched(i)]
  /\ working' = None
  /\ sd' = [sd EXCEPT !.valid = FALSE]

\* The other cycles pulse done down and buffer the requests.
Buffer ==
  /\ answers' = [i \in Users |-> Quiet]
  /\ buffered' = [i \in Users |-> Latched(i)]

\* case 1<<i, the memory is not done.
Hold ==
  /\ working # None
  /\ ~ans.done
  /\ Buffer
  /\ sd' = [sd EXCEPT !.valid = FALSE]
  /\ UNCHANGED working

\* default, a request is pending.
Grant ==
  /\ working = None
  /\ \E i \in Hot :
       /\ sd' = [valid |-> TRUE, req |-> Latched(i)]
       /\ working' = i
  /\ Buffer

\* default, none is.
Rest ==
  /\ working = None
  /\ Hot = {}
  /\ Buffer
  /\ sd' = [sd EXCEPT !.valid = FALSE]
  /\ UNCHANGED working

Arbitrate == Finish \/ Hold \/ Grant \/ Rest

---------------------------------------------------------------------------
\* Where the request of user i is: on its way to the buffer, in the buffer,
\* or answered.  "buffer requests", "pulses high when ready",
\* "track in valid here to ensure we never misss a request".
Asked(i) == asks[i] # None
Held(i) == buffered[i] # None
Answered(i) == answers[i].done

\* A request is never lost, replaced or served twice: from the cycle a user
\* pulses in_valid to the cycle it sees done, its request is in exactly one
\* place, and it is the one the memory was given.
NoneLost ==
  \A i \in Users :
    /\ waiting[i] # None <=> Asked(i) \/ Held(i) \/ Answered(i)
    /\ Asked(i) => asks[i] = waiting[i] /\ ~Held(i) /\ ~Answered(i)
    /\ Held(i) => buffered[i] = waiting[i] /\ ~Answered(i)
    /\ working = i => Held(i) /\ sd.req = buffered[i]

\* The two users of highest priority are always answered: sd0 cannot shut sd1
\* out, as it raises in_valid again one cycle too late for the next grant.
Served == \A i \in Users \cap {0, 1} : waiting[i] # None ~> answers[i].done
=============================================================================
