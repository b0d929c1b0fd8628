----------------------------- MODULE Settlement -----------------------------
(***************************************************************************)
(* What a finished hand is worth to each player: valueOfState() of         *)
(* src/ACPCServer/game.c, with the loop over side pots written as a sum    *)
(* over the levels of the pot.  Showdown.tla has the loop itself and       *)
(* compares the two.                                                       *)
(*                                                                         *)
(* The strength of a hand, rankHand(), is a parameter: any function of the *)
(* players into the naturals.  The code divides a pot between the winners  *)
(* in floating point; here every value is multiplied by Shares(game), a    *)
(* number divisible by every possible number of winners.                   *)
(***************************************************************************)
EXTENDS AcpcGame

Shares(game) == ProductSet(1..game.numPlayers)

(* The pot is cut at every amount some player has spent.                   *)
PotLevels(game, state) ==
  {state.spent[p] : p \in Players(game)} \ {0}

PotSize_mutantWholeLevel(game, state, level) == level

PotSize(game, state, level) ==
  level - Max({0} \union {l \in PotLevels(game, state) : l < level})

Contributors(game, state, level) ==
  {p \in Players(game) : state.spent[p] >= level}

Winners_mutantFoldedMayWin(game, state, rank, level) ==
  LET in == Contributors(game, state, level)
  IN  {p \in in : \A q \in in : rank[q] <= rank[p]}

Winners_mutantNoTies(game, state, rank, level) ==
  LET live == {p \in Contributors(game, state, level) : ~state.playerFolded[p]}
  IN  {p \in live : \A q \in live \ {p} : rank[q] < rank[p]}

Winners(game, state, rank, level) ==
  LET live == {p \in Contributors(game, state, level) : ~state.playerFolded[p]}
  IN  {p \in live : \A q \in live : rank[q] <= rank[p]}

(* What the side pot that ends at a level is worth to a contributor who    *)
(* did not fold.                                                           *)
PotShare(game, state, rank, level, p) ==
  LET size    == PotSize(game, state, level) * Shares(game)
      winners == Winners(game, state, rank, level)
      losers  == Contributors(game, state, level) \ winners
  IN  IF p \in winners
        THEN (size \div Cardinality(winners)) * Cardinality(losers)
        ELSE -size

valueOfState(game, state, rank, p) ==
  IF state.playerFolded[p] THEN -state.spent[p] * Shares(game)
  ELSE IF OnlyOneLeft(game, state)
    THEN Shares(game) *
           MapThenSumSet(LAMBDA q : state.spent[q], Players(game) \ {p})
  ELSE MapThenSumSet(LAMBDA l : PotShare(game, state, rank, l, p),
                     {l \in PotLevels(game, state) : l <= state.spent[p]})
=============================================================================
