------------------------------ MODULE MCDealer ------------------------------
(***************************************************************************)
(* Small matches for model checking Dealer.                                *)
(***************************************************************************)
EXTENDS DealerProperties

(* Two players, one round of limit betting with one raise, antes of one.   *)
TinyLimit ==
  [bettingType |-> "limit", numPlayers |-> 2, numRounds |-> 1,
   stack |-> [p \in 0..1 |-> 3], blind |-> [p \in 0..1 |-> 1],
   raiseSize |-> [r \in {0} |-> 1], firstPlayer |-> [r \in {0} |-> 0],
   maxRaises |-> [r \in {0} |-> 1]]

(* The stronger hand goes to player 0 first and to player 1 after that.    *)
Deck == [i \in 1..10 |-> [p \in 0..1 |-> IF i = 1 THEN 1 - p ELSE p]]

TinySetups ==
  [game : {TinyLimit}, fixedSeats : BOOLEAN, deck : {Deck}]

RotatingSetup ==
  [game : {TinyLimit}, fixedSeats : {FALSE}, deck : {Deck}]

Ask(type) == [type |-> type, size |-> 0]

AllAsks   == {Ask(t) : t \in {"fold", "call", "raise", "garbled"}}
CallsOnly == {Ask("call")}
=============================================================================
