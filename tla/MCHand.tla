------------------------------- MODULE MCHand -------------------------------
(***************************************************************************)
(* Small games for model checking Hand: a chip is a unit of the blinds, so *)
(* that the shipped leduc.game (stacks of 1200, blinds of 100) has stacks  *)
(* of 12, and its short-stacked relatives fewer.                           *)
(***************************************************************************)
EXTENDS Showdown

CONSTANTS MaxStack  (* bound on the stacks of the games below              *)

GameDef(bettingType, stack, blind, raiseSize, firstPlayer, maxRaises) ==
  LET n == Len(stack)
      rounds == Len(firstPlayer)
  IN  [bettingType |-> bettingType,
       numPlayers  |-> n,
       numRounds   |-> rounds,
       stack       |-> [p \in 0..n - 1 |-> stack[p + 1]],
       blind       |-> [p \in 0..n - 1 |-> blind[p + 1]],
       raiseSize   |-> [r \in 0..rounds - 1 |-> raiseSize],
       firstPlayer |-> [r \in 0..rounds - 1 |-> firstPlayer[r + 1]],
       maxRaises   |-> [r \in 0..rounds - 1 |-> maxRaises]]

SomeoneHasChips(g) == \E p \in Players(g) : g.blind[p] < g.stack[p]

(* Two players, two rounds, no limit: every pair of stacks up to MaxStack  *)
(* with the antes of leduc.game, and straight and reversed blinds.         *)
NoLimit2p ==
  {g \in {GameDef("nolimit", stack, blind, 1, first, 255) :
               stack \in [1..2 -> 2..MaxStack],
               blind \in {<<1, 1>>, <<1, 2>>, <<2, 1>>},
               first \in {<<0, 0>>, <<1, 0>>}} :
     SomeoneHasChips(g)}

(* Three players, one or two rounds, no limit, unequal stacks: side pots.  *)
NoLimit3p ==
  {g \in {GameDef("nolimit", stack, blind, 1, first, 2) :
               stack \in [1..3 -> 1..MaxStack - 1],
               blind \in {<<1, 1, 1>>, <<1, 1, 0>>},
               first \in {<<2, 0>>}} :
     SomeoneHasChips(g)}

(* Three players, limit, the same stack for everybody: Kuhn's game with    *)
(* one round and one raise, and games whose raises run into the end of the *)
(* stacks.                                                                 *)
Limit3p ==
  {GameDef("limit", [p \in 1..3 |-> chips], blind, size, first, 2) :
     chips \in {MaxStack, MaxStack + 1}, blind \in {<<1, 1, 1>>, <<1, 2, 0>>},
     size \in {1, 2}, first \in {<<0>>, <<2, 0>>}}

AllGames == NoLimit2p \union NoLimit3p \union Limit3p

(* A limit game with one short stack.                                      *)
LimitShortStack == {GameDef("limit", <<6, 6, 3>>, <<1, 1, 1>>, 2, <<0, 0>>, 4)}
=============================================================================
