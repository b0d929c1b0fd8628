--------------------------- MODULE HandProperties ---------------------------
(***************************************************************************)
(* What should be true of every hand the dealer plays.                     *)
(***************************************************************************)
EXTENDS Hand, Settlement

(* The state has the types of struct State; nobody has more chips in the   *)
(* pot than the stack the game gives them.                                 *)
TypeOK ==
  /\ game \in Games
  /\ state \in StateType(game)
  /\ \A p \in Players(game) : state.spent[p] <= game.stack[p]

-----------------------------------------------------------------------------
(* Turns                                                                   *)

(* While a hand is not finished somebody can act, so that the search of    *)
(* nextPlayer() ends (game.c:471), and more players can act than have      *)
(* called, so that the hand is not stuck behind a round that is over.      *)
SomebodyCanAct ==
  ~state.finished =>
     /\ ActingPlayers(game, state) # {}
     /\ numCalled(game, state) < numActingPlayers(game, state)

(* Nobody is asked twice about the same bet: between two actions of a      *)
(* player in a round somebody else raised.  currentPlayer() only ever      *)
(* looks one action back (game.c:483); it is the count of callers that     *)
(* closes the round in time.                                               *)
NobodyAnswersTwice ==
  \A r \in Rounds(game) :
    LET acts == state.action[r]
    IN  \A i, j \in DOMAIN acts :
          i < j /\ acts[i].player = acts[j].player =>
            \E k \in i + 1..j - 1 : acts[k].type = "raise"

(* A round that has ended passed nobody over: whoever can still act has    *)
(* acted in every earlier round, and in the last one too when the hand     *)
(* ends with chips behind.                                                 *)
NobodyIsPassedOver ==
  ~state.finished \/ numActingPlayers(game, state) > 1 =>
    \A r \in 0..state.round, p \in ActingPlayers(game, state) :
      r < state.round \/ state.finished =>
        \E i \in DOMAIN state.action[r] : state.action[r][i].player = p

-----------------------------------------------------------------------------
(* Chips                                                                   *)

(* "largest bet so far, including all previous rounds" (game.h:80): no     *)
(* player has more chips in the pot than maxSpent, and while the hand is   *)
(* open some player who has not folded has exactly that many.              *)
MaxSpentIsLargestBet ==
  /\ \A p \in Players(game) : state.spent[p] <= state.maxSpent
  /\ \E p \in Players(game) : /\ ~state.playerFolded[p]
                              /\ state.spent[p] = state.maxSpent

(* When betting closes, at the start of a later round or at a showdown,    *)
(* every player still in has matched the largest bet or is all-in.         *)
BetsAreMatched ==
  /\ state.finished \/ (state.round > 0 /\ CurrentActions(state) = << >>)
  /\ ~OnlyOneLeft(game, state)
  => \A p \in Players(game) :
        state.playerFolded[p] \/ state.spent[p] = state.maxSpent
                              \/ AllIn(game, state, p)

(* An action isValidAction() lets through, as it asks for it or corrected, *)
(* never trips the assertions of doAction(): no-limit raises are larger    *)
(* than the current bet and covered by the stack, and the array of actions *)
(* of the round has room.                                                  *)
AcceptedActionsAreSafe ==
  \A type \in ActionTypes, size \in Sizes :
    LET asked == [type |-> type, size |-> size]
    IN  isValidAction(game, state, TRUE, asked) =>
          ActionAsserts(game, state, fixAction(game, state, asked))

(* Chips do not come back during a hand and the price of staying in does   *)
(* not drop: spent, maxSpent and, within a round, minNoLimitRaiseTo never  *)
(* decrease.                                                               *)
ChipsStayIn ==
  [][state.finished \/
       /\ \A p \in Players(game) : state'.spent[p] >= state.spent[p]
       /\ state'.maxSpent >= state.maxSpent
       /\ state'.round = state.round =>
            state'.minNoLimitRaiseTo >= state.minNoLimitRaiseTo]_vars

-----------------------------------------------------------------------------
(* Messages                                                                *)

(* "spent, maxSpent, actingPlayer, finished, and playerFolded are all      *)
(* determined by the betting taken" (game.c:726): whoever reads the        *)
(* betting that printBetting() writes gets back the very same state.       *)
BettingDeterminesState ==
  readBetting(game, printBetting(state)) = <<state>>

-----------------------------------------------------------------------------
(* Settlement                                                              *)

RankFunctions == [Players(game) -> 0..(game.numPlayers - 1)]

Value(rank, p) == valueOfState(game, state, rank, p)

(* At every possible showdown the values valueOfState() gives the players  *)
(* add up to zero: the dealer neither creates nor loses chips.             *)
SettlementIsZeroSum ==
  state.finished =>
    \A rank \in RankFunctions :
      MapThenSumSet(LAMBDA p : Value(rank, p), Players(game)) = 0

(* The table stakes rule: nobody loses more than the most any other player *)
(* put in, and nobody wins from anyone more than the own stake.            *)
TableStakes ==
  state.finished =>
    \A rank \in RankFunctions, p \in Players(game) :
      LET covered == MapThenSumSet(LAMBDA q : Min({state.spent[p], state.spent[q]}),
                                   Players(game) \ {p})
          others  == Max({state.spent[q] : q \in Players(game) \ {p}})
      IN  /\ Value(rank, p) <= covered * Shares(game)
          /\ Value(rank, p) >= -Min({state.spent[p], others}) * Shares(game)

(* Whoever is at the showdown with a hand nobody there beats does not lose *)
(* chips, however the side pots fall.                                      *)
BestHandDoesNotLose ==
  state.finished =>
    LET live == {p \in Players(game) : ~state.playerFolded[p]}
    IN  \A rank \in RankFunctions, p \in live :
          (\A q \in live : rank[q] <= rank[p]) => Value(rank, p) >= 0

-----------------------------------------------------------------------------
(* Progress                                                                *)

(* Whatever the players do, hands end.                                     *)
HandsEnd == []<>state.finished

(* A hand is a hand of the abstract game of Betting.tla.                   *)
Table == INSTANCE Betting WITH
  committed <- state.spent,
  live      <- {p \in Players(game) : ~state.playerFolded[p]},
  over      <- state.finished

ImplementsBetting == Table!Spec
=============================================================================
