----------------------------- MODULE MatchQueue -----------------------------
(***************************************************************************)
(* What the benchmark server promises the clients that ask for matches: a  *)
(* request is played at most as often as was asked for, one run at a time, *)
(* and never again once a client it needs has left.                        *)
(***************************************************************************)
EXTENDS Naturals

CONSTANTS
  Slots, Clients,
  Runs     \* how many runs may be asked for

VARIABLES
  here,     \* clients that are logged on
  request   \* for each slot the requests in it: none or one

vars == <<here, request>>

Free == {}

Queued(clients, runs) == [needs |-> clients, left |-> runs, running |-> FALSE]

Init == here = {} /\ request = [e \in Slots |-> Free]

Arrive(c) == here' = here \cup {c} /\ UNCHANGED request

(* A client that is logged on asks; the request may need it to play.       *)
Ask(e, c, n) ==
  /\ c \in here /\ request[e] = Free
  /\ \E needs \in SUBSET {c} : request' = [request EXCEPT ![e] = {Queued(needs, n)}]
  /\ UNCHANGED here

(* Requests done with are forgotten, and one run of another may start.     *)
Start(done, started) ==
  /\ \A e \in done : \E r \in request[e] : ~r.running /\ r.left = 0
  /\ \A e \in started : \E r \in request[e] : ~r.running /\ r.left > 0 /\ r.needs \subseteq here
  /\ request' = [e \in Slots |->
       IF e \in done THEN Free
       ELSE IF e \in started
         THEN {[r EXCEPT !.running = TRUE, !.left = @ - 1] : r \in request[e]}
       ELSE request[e]]
  /\ UNCHANGED here

Finish(ended) ==
  /\ \A e \in ended : \E r \in request[e] : r.running
  /\ request' = [e \in Slots |->
       IF e \in ended THEN {[r EXCEPT !.running = FALSE] : r \in request[e]} ELSE request[e]]
  /\ UNCHANGED here

Leave(c) ==
  /\ here' = here \ {c}
  /\ request' = [e \in Slots |->
       {IF c \in r.needs THEN [r EXCEPT !.left = 0] ELSE r : r \in request[e]}]

Next ==
  \/ \E c \in Clients : Arrive(c) \/ Leave(c)
  \/ \E e \in Slots, c \in Clients, n \in Runs : Ask(e, c, n)
  \/ \E done \in SUBSET Slots, started \in {{}} \cup {{e} : e \in Slots} : Start(done, started)
  \/ \E ended \in SUBSET Slots : Finish(ended)

Spec == Init /\ [][Next]_vars
=============================================================================
