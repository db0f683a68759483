---------------------------- MODULE TokenBucket -----------------------------
(***************************************************************************)
(* What a rate limiter promises each client, with no map, no sweep and no  *)
(* proxies: a bucket that fills at Rate units a tick up to Burst, and a    *)
(* request that is granted exactly when the client's bucket holds its cost.*)
(***************************************************************************)
EXTENDS Integers

CONSTANTS Clients, Cost, Rate, Burst

VARIABLES
  level,    \* units in each client's bucket
  granted,  \* requests granted to each client so far
  last      \* the last decision: who asked, and the verdict

Init ==
  /\ level = [c \in Clients |-> Burst]
  /\ granted = [c \in Clients |-> 0]
  /\ last = << >>

Refilled(n) == IF n + Rate > Burst THEN Burst ELSE n + Rate

Tick ==
  /\ level' = [c \in Clients |-> Refilled(level[c])]
  /\ UNCHANGED <<granted, last>>

Grant(c) ==
  /\ level[c] >= Cost
  /\ level' = [level EXCEPT ![c] = @ - Cost]
  /\ granted' = [granted EXCEPT ![c] = @ + 1]
  /\ last' = <<c, "granted">>

Refuse(c) ==
  /\ level[c] < Cost
  /\ last' = <<c, "refused">>
  /\ UNCHANGED <<level, granted>>

Next == Tick \/ \E c \in Clients : Grant(c) \/ Refuse(c)

Spec == Init /\ [][Next]_<<level, granted, last>>
=============================================================================
