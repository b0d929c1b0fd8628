------------------------------ MODULE AcpcGame ------------------------------
(***************************************************************************)
(* The rules of betting as src/ACPCServer/game.c implements them: pure     *)
(* operators over a game definition (struct Game) and the state of a hand  *)
(* (struct State).  Both the dealer and every client that links game.c run *)
(* these functions; Hand.tla and Dealer.tla make machines of them.         *)
(*                                                                         *)
(* A game is a record of the fields of struct Game that betting reads, a   *)
(* state a record of the fields of struct State that betting writes.       *)
(* action[r] is the sequence of the actions of round r; the player of      *)
(* actingPlayer[r][i] is a field of the i-th action.  Cards do not         *)
(* influence the betting and are left to the modules that deal them.       *)
(*                                                                         *)
(* An operator X_mutant... is a wrong version of X that the properties     *)
(* must refute; nothing else uses it.                                      *)
(***************************************************************************)
EXTENDS Integers, SequencesExt

CONSTANTS
  INT32_MAX,       (* largest chip count an int32_t holds                   *)
  MAX_NUM_ACTIONS  (* length of the array of actions of one round           *)

ASSUME LimitsAssumption ==
  /\ INT32_MAX \in Nat \ {0}
  /\ MAX_NUM_ACTIONS \in Nat \ {0}

Chips       == 0..INT32_MAX
ActionTypes == {"fold", "call", "raise"}

Players(game) == 0..(game.numPlayers - 1)
Rounds(game)  == 0..(game.numRounds - 1)

(***************************************************************************)
(* The sanity checks readGame() makes before it hands out a game.  That    *)
(* stacks, blinds and raises are not negative is not among them: it is     *)
(* what game definitions are taken to say.                                 *)
(***************************************************************************)
IsGame(game) ==
  /\ game.bettingType \in {"limit", "nolimit"}
  /\ game.numPlayers \in Nat /\ game.numPlayers >= 2
  /\ game.numRounds \in Nat \ {0}
  /\ game.stack \in [Players(game) -> Chips]
  /\ game.blind \in [Players(game) -> Chips]
  /\ \A p \in Players(game) : game.blind[p] <= game.stack[p]
  /\ game.raiseSize \in [Rounds(game) -> Chips]
  /\ game.firstPlayer \in [Rounds(game) -> Players(game)]
  /\ game.maxRaises \in [Rounds(game) -> Nat]

LargestBlind(game) == Max({game.blind[p] : p \in Players(game)})

-----------------------------------------------------------------------------
(* Whose turn it is, and how the current round stands.                     *)

AllIn(game, state, p) == state.spent[p] >= game.stack[p]

ActingPlayers(game, state) ==
  {p \in Players(game) : ~state.playerFolded[p] /\ ~AllIn(game, state, p)}

numActingPlayers(game, state) == Cardinality(ActingPlayers(game, state))

numFolded(game, state) ==
  Cardinality({p \in Players(game) : state.playerFolded[p]})

CurrentActions(state) == state.action[state.round]

(* The loop of nextPlayer() goes round the table until it meets a player   *)
(* who can act; it has no exit when there is none.                         *)
nextPlayer(game, state, curPlayer) ==
  LET seatsAway == {k \in 1..game.numPlayers :
                      (curPlayer + k) % game.numPlayers
                        \in ActingPlayers(game, state)}
  IN  (curPlayer + Min(seatsAway)) % game.numPlayers

currentPlayer(game, state) ==
  LET acts == CurrentActions(state)
  IN  nextPlayer(game, state,
                 IF acts = << >>
                   THEN game.firstPlayer[state.round] + game.numPlayers - 1
                   ELSE acts[Len(acts)].player)

RaisesIn(acts) == {i \in DOMAIN acts : acts[i].type = "raise"}

numRaises(state) == Cardinality(RaisesIn(CurrentActions(state)))

Callers_mutantCountsAllIn(game, state) ==
  LET acts == CurrentActions(state)
  IN  {i \in DOMAIN acts : /\ acts[i].type \in {"call", "raise"}
                           /\ \A j \in RaisesIn(acts) : j <= i}

Callers_mutantSkipsRaiser(game, state) ==
  LET acts == CurrentActions(state)
  IN  {i \in DOMAIN acts : /\ acts[i].type = "call"
                           /\ ~AllIn(game, state, acts[i].player)
                           /\ \A j \in RaisesIn(acts) : j <= i}

Callers_mutantPastRaise(game, state) ==
  LET acts == CurrentActions(state)
  IN  {i \in DOMAIN acts : /\ acts[i].type \in {"call", "raise"}
                           /\ ~AllIn(game, state, acts[i].player)}

(* Scanning back to the raise that opened the current bet: the raiser and  *)
(* the callers after it who still have chips behind.                       *)
Callers(game, state) ==
  LET acts == CurrentActions(state)
  IN  {i \in DOMAIN acts :
         /\ acts[i].type \in {"call", "raise"}
         /\ ~AllIn(game, state, acts[i].player)
         /\ \A j \in RaisesIn(acts) : j <= i}

numCalled(game, state) == Cardinality(Callers(game, state))

OnlyOneLeft_mutantOffByOne(game, state) ==
  numFolded(game, state) >= game.numPlayers

OnlyOneLeft(game, state) == numFolded(game, state) + 1 >= game.numPlayers

BettingClosed_mutantStrict(game, state) ==
  numCalled(game, state) > numActingPlayers(game, state)

BettingClosed(game, state) ==
  numCalled(game, state) >= numActingPlayers(game, state)

-----------------------------------------------------------------------------
(* The fields of struct State.  Sizes are what players ask for, so any     *)
(* integer; what is paid is checked against the stacks.                    *)
ActionType(game) ==
  [type : ActionTypes, size : Int, player : Players(game)]

StateType(game) ==
  [round : Rounds(game), finished : BOOLEAN,
   spent : [Players(game) -> Chips], maxSpent : Chips, minNoLimitRaiseTo : Nat,
   playerFolded : [Players(game) -> BOOLEAN],
   action : [Rounds(game) -> Seq(ActionType(game))]]

initState(game) ==
  LET bigBlind == LargestBlind(game)
  IN  [round             |-> 0,
       finished          |-> FALSE,
       spent             |-> game.blind,
       maxSpent          |-> bigBlind,
       minNoLimitRaiseTo |-> IF game.bettingType # "nolimit" THEN 0
                             ELSE IF bigBlind > 0 THEN 2 * bigBlind ELSE 1,
       playerFolded      |-> [p \in Players(game) |-> FALSE],
       action            |-> [r \in Rounds(game) |-> << >>]]

-----------------------------------------------------------------------------
(* Which raises are possible: none, or a range of sizes.  A limit raise    *)
(* has no size, which the code renders as the range 0..0.                  *)

raiseIsValid_mutantNoRoomCheck(game, state) ==
  /\ numRaises(state) < game.maxRaises[state.round]
  /\ numActingPlayers(game, state) > 1
  /\ \/ game.bettingType # "nolimit"
     \/ state.maxSpent < game.stack[currentPlayer(game, state)]

raiseIsValid(game, state) ==
  /\ numRaises(state) < game.maxRaises[state.round]
  /\ Len(CurrentActions(state)) + game.numPlayers <= MAX_NUM_ACTIONS
  /\ numActingPlayers(game, state) > 1
  /\ \/ game.bettingType # "nolimit"
     \/ LET own == game.stack[currentPlayer(game, state)]
        IN  \/ state.minNoLimitRaiseTo <= own
            \/ state.maxSpent < own             \* all-in below the minimum

MinRaise(game, state) ==
  LET own == game.stack[currentPlayer(game, state)]
  IN  IF state.minNoLimitRaiseTo > own THEN own
                                       ELSE state.minNoLimitRaiseTo

MaxRaise(game, state) == game.stack[currentPlayer(game, state)]

foldIsValid_mutantUnguarded(game, state) == TRUE

(* A player who has matched the bet, or has no chips left, may not fold.   *)
foldIsValid(game, state) ==
  LET p == currentPlayer(game, state)
  IN  state.spent[p] \notin {state.maxSpent, game.stack[p]}

(* isValidAction() either rejects the action or leaves a valid one in      *)
(* *action.  fixAction is that action, isValidAction the verdict: with     *)
(* tryFixing a no-limit raise is clamped into the valid range, and    *)
(* any other action loses its size.                                        *)
fixAction_mutantNoMinimum(game, state, action) ==
  IF action.type = "raise" /\ game.bettingType = "nolimit"
    THEN [action EXCEPT !.size = Min({@, MaxRaise(game, state)})]
    ELSE action

fixAction(game, state, action) ==
  IF action.type = "raise" /\ game.bettingType = "nolimit"
    THEN [action EXCEPT !.size =
            IF @ < MinRaise(game, state) THEN MinRaise(game, state)
            ELSE IF @ > MaxRaise(game, state) THEN MaxRaise(game, state)
            ELSE @]
  ELSE IF action.type = "raise" THEN action
  ELSE [action EXCEPT !.size = 0]

isValidAction_mutantNoCheck(game, state, tryFixing, action) ==
  /\ ~state.finished
  /\ action.type \in ActionTypes
  /\ action.type = "raise" =>
       /\ raiseIsValid(game, state)
       /\ game.bettingType = "nolimit" /\ ~tryFixing =>
            action.size \in MinRaise(game, state)..MaxRaise(game, state)
  /\ action.type \in {"fold", "call"} => foldIsValid(game, state)

isValidAction(game, state, tryFixing, action) ==
  /\ ~state.finished
  /\ action.type \in ActionTypes
  /\ action.type = "raise" =>
       /\ raiseIsValid(game, state)
       /\ game.bettingType = "nolimit" /\ ~tryFixing =>
            action.size \in MinRaise(game, state)..MaxRaise(game, state)
  /\ action.type = "fold" => foldIsValid(game, state)

-----------------------------------------------------------------------------
(* doAction: record the action, move the chips, then see whether it closed *)
(* the round or the hand.                                                  *)

(* The two assertions doAction() makes of a no-limit raise, and the one it *)
(* makes of the array of actions.                                          *)
ActionAsserts(game, state, action) ==
  /\ Len(CurrentActions(state)) < MAX_NUM_ACTIONS
  /\ action.type = "raise" /\ game.bettingType = "nolimit" =>
       /\ action.size > state.maxSpent
       /\ action.size <= game.stack[currentPlayer(game, state)]

Recorded(game, state, action) ==
  [state EXCEPT !.action[state.round] =
     Append(@, [type   |-> action.type,
                size   |-> action.size,
                player |-> currentPlayer(game, state)])]

(* What the largest bet becomes when p raises.                             *)
RaisedTo(game, state, p, action) ==
  IF game.bettingType = "nolimit" THEN action.size
  ELSE IF state.maxSpent + game.raiseSize[state.round] > game.stack[p]
    THEN game.stack[p]
    ELSE state.maxSpent + game.raiseSize[state.round]

NextMinRaiseTo_mutantNoMaximum(game, state, action) ==
  2 * action.size - state.maxSpent

NextMinRaiseTo(game, state, action) ==
  LET raiseTo == 2 * action.size - state.maxSpent
  IN  IF game.bettingType = "nolimit" /\ raiseTo > state.minNoLimitRaiseTo
        THEN raiseTo ELSE state.minNoLimitRaiseTo

CallTo_mutantNoCap(game, state, p) == state.maxSpent

CallTo(game, state, p) ==
  IF state.maxSpent > game.stack[p] THEN game.stack[p] ELSE state.maxSpent

(* The chips and the folded flag of player p after the action.             *)
Paid(game, state, p, action) ==
  CASE action.type = "fold" ->
         [state EXCEPT !.playerFolded[p] = TRUE]
    [] action.type = "call" ->
         [state EXCEPT !.spent[p] = CallTo(game, state, p)]
    [] action.type = "raise" ->
         LET raisedTo == RaisedTo(game, state, p, action)
         IN  [state EXCEPT !.minNoLimitRaiseTo = NextMinRaiseTo(game, state, action),
                           !.maxSpent = raisedTo,
                           !.spent[p] = raisedTo]

(* The end of doAction(): the hand is over when one player is left; when   *)
(* everyone who can still act has called, the next round starts, or the    *)
(* hand goes to a showdown because it is the last round or because fewer   *)
(* than two players can act.                                               *)
Closed(game, state) ==
  CASE OnlyOneLeft(game, state) ->
         [state EXCEPT !.finished = TRUE]
    [] ~OnlyOneLeft(game, state) /\ ~BettingClosed(game, state) ->
         state
    [] OTHER ->
         IF numActingPlayers(game, state) <= 1
           THEN [state EXCEPT !.finished = TRUE, !.round = game.numRounds - 1]
         ELSE IF state.round + 1 < game.numRounds
           THEN [state EXCEPT !.round = @ + 1,
                              !.minNoLimitRaiseTo =
                                 Max({1, LargestBlind(game)}) + state.maxSpent]
           ELSE [state EXCEPT !.finished = TRUE]

Played(game, state, action) ==
  Paid(game, Recorded(game, state, action), currentPlayer(game, state), action)

doAction(game, state, action) == Closed(game, Played(game, state, action))

-----------------------------------------------------------------------------
(* The betting part of a state as it travels in messages and logs:         *)
(* printBetting() writes the actions of the rounds so far without their    *)
(* players, readBetting() plays them again from the initial state, without *)
(* correcting any, and fails on the first it finds invalid.  The reader's  *)
(* result is << >> for failure and <<state>> otherwise.                    *)

printBetting(state) ==
  LET first[n \in 0..state.round + 1] ==     \* the first n rounds
        IF n = 0 THEN << >>
        ELSE first[n - 1] \o [i \in DOMAIN state.action[n - 1] |->
                                [type |-> state.action[n - 1][i].type,
                                 size |-> state.action[n - 1][i].size]]
  IN  first[state.round + 1]

readBetting(game, betting) ==
  LET after[i \in 0..Len(betting)] ==        \* the first i actions
        IF i = 0 THEN <<initState(game)>>
        ELSE LET before == after[i - 1]
             IN  IF before # << >> /\ isValidAction(game, before[1], FALSE, betting[i])
                   THEN <<doAction(game, before[1],
                                   fixAction(game, before[1], betting[i]))>>
                   ELSE << >>
  IN  after[Len(betting)]
=============================================================================
