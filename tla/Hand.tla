-------------------------------- MODULE Hand --------------------------------
(***************************************************************************)
(* One hand after the other, as the dealer plays them: initState(), then   *)
(* one valid action of the current player after the other with doAction(), *)
(* until stateFinished().  The game is chosen once, among Games.           *)
(***************************************************************************)
EXTENDS AcpcGame

CONSTANTS
  Games,   (* the game definitions readGame() may have returned            *)
  Sizes    (* the raise sizes the players ask for                          *)

(* Somebody has chips beyond the blind: in a game where every blind is a   *)
(* whole stack nextPlayer() would search for ever.                         *)
ASSUME GamesAssumption ==
  \A game \in Games :
    /\ IsGame(game)
    /\ \E p \in Players(game) : game.blind[p] < game.stack[p]
    /\ game.numPlayers <= MAX_NUM_ACTIONS

ASSUME SizesAssumption == Sizes \subseteq Int

VARIABLES
  game,   (* const Game *game                                              *)
  state   (* State *state                                                  *)

vars == <<game, state>>

Init ==
  /\ game \in Games
  /\ state = initState(game)

(* The current player asks for an action.  isValidAction(), called with    *)
(* tryFixing, accepts it and corrects its size; doAction() carries it out, *)
(* unless one of its assertions aborts the program.                        *)
Act(type, size) ==
  LET asked == [type |-> type, size |-> size]
      done  == fixAction(game, state, asked)
  IN  /\ isValidAction(game, state, TRUE, asked)
      /\ ActionAsserts(game, state, done)
      /\ state' = doAction(game, state, done)
      /\ UNCHANGED game

Fold  == Act("fold", 0)
Call  == Act("call", 0)
Raise == \E size \in (IF game.bettingType = "nolimit" THEN Sizes ELSE {0}) :
           Act("raise", size)

(* The dealer deals the next hand.                                         *)
NewHand ==
  /\ state.finished
  /\ state' = initState(game)
  /\ UNCHANGED game

Next == Fold \/ Call \/ Raise \/ NewHand

(* The dealer goes on as long as there is a next step: it substitutes a    *)
(* call for an action it cannot use, so somebody's action always comes.    *)
Spec == Init /\ [][Next]_vars /\ WF_vars(Next)

=============================================================================
