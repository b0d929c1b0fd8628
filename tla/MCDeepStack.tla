---------------------------- MODULE MCDeepStack ----------------------------
(***************************************************************************)
(* The shipped leduc.game for model checking DeepStack, with an ante of    *)
(* one chip: 12 antes a player.                                            *)
(***************************************************************************)
EXTENDS DeepStackRestart

Leduc ==
  [bettingType |-> "nolimit", numPlayers |-> 2, numRounds |-> 2,
   stack |-> [p \in 0..1 |-> stack], blind |-> [p \in 0..1 |-> ante],
   raiseSize |-> [r \in 0..1 |-> 0], firstPlayer |-> [r \in 0..1 |-> 0],
   maxRaises |-> [r \in 0..1 |-> 255]]

PotBets == <<1, 2>>
=============================================================================
