--------------------------- MODULE AcpcGameProofs ---------------------------
(***************************************************************************)
(* What the functions of game.c return and preserve, for every game that   *)
(* passes the checks of readGame() and every well-typed state.             *)
(***************************************************************************)
EXTENDS Settlement, BasicLemmas, SequenceTheorems

(* The big blind is a chip count, no blind is larger, and somebody pays it.*)
LEMMA LargestBlindIsABlind ==
  ASSUME NEW game, IsGame(game)
  PROVE  /\ LargestBlind(game) \in Chips
         /\ \A p \in Players(game) : game.blind[p] <= LargestBlind(game)
         /\ \E p \in Players(game) : game.blind[p] = LargestBlind(game)
<1> DEFINE Blinds == {game.blind[p] : p \in Players(game)}
<1>1. Blinds \subseteq Nat /\ \A b \in Blinds : b <= INT32_MAX
  BY LimitsAssumption DEF IsGame, Chips
<1>2. Blinds # {}
  <2>1. 0 \in Players(game)
    BY DEF IsGame, Players
  <2>2. QED
    BY <2>1
<1>3. INT32_MAX \in Nat
  BY LimitsAssumption
<1> HIDE DEF Blinds
<1>4. Max(Blinds) \in Blinds /\ \A b \in Blinds : b <= Max(Blinds)
  BY <1>1, <1>2, <1>3, MaxOfNats
<1>5. Max(Blinds) = LargestBlind(game)
  BY DEF LargestBlind, Blinds
<1>6. QED
  BY <1>4, <1>5 DEF Blinds, IsGame, Chips

(* Players are finitely many, so those who can act are counted by a        *)
(* natural number, which is positive when there is one.                    *)
LEMMA ActingPlayersCount ==
  ASSUME NEW game, IsGame(game), NEW state
  PROVE  /\ IsFiniteSet(Players(game))
         /\ Cardinality(Players(game)) = game.numPlayers
         /\ IsFiniteSet(ActingPlayers(game, state))
         /\ numActingPlayers(game, state) \in Nat
         /\ numActingPlayers(game, state) = 0 <=> ActingPlayers(game, state) = {}
<1>1. IsFiniteSet(Players(game)) /\ Cardinality(Players(game)) = game.numPlayers
  <2> DEFINE last == game.numPlayers - 1
  <2>1. last \in Int /\ 0 <= last /\ last + 1 = game.numPlayers
    BY DEF IsGame
  <2> HIDE DEF last
  <2>2. IsFiniteSet(0..last) /\ Cardinality(0..last) = last - 0 + 1
    BY <2>1, FS_Interval
  <2>3. Players(game) = 0..last
    BY DEF Players, last
  <2>4. QED
    BY <2>1, <2>2, <2>3
<1>2. ActingPlayers(game, state) \in SUBSET Players(game)
  BY DEF ActingPlayers
<1>3. IsFiniteSet(ActingPlayers(game, state))
  BY <1>1, <1>2, FS_Subset
<1>4. QED
  BY <1>1, <1>3, FS_CardinalityType, FS_EmptySet DEF numActingPlayers

(* Going round the table twice comes back to the same seat.                *)
LEMMA TwiceAround ==
  ASSUME NEW n \in Nat \ {0}, NEW q \in 0..(n - 1)
  PROVE  (q + 2 * n) % n = q
  OBVIOUS

(* The search of nextPlayer() ends: some seat within one turn of the table *)
(* is that of a player who can act.                                        *)
LEMMA SomebodyWithinATurn ==
  ASSUME NEW game, IsGame(game), NEW state,
         NEW cur \in 0..(2 * game.numPlayers - 1),
         ActingPlayers(game, state) # {}
  PROVE  {k \in 1..game.numPlayers :
            (cur + k) % game.numPlayers \in ActingPlayers(game, state)} # {}
<1> DEFINE n == game.numPlayers
<1>1. n \in Nat \ {0}
  BY DEF IsGame
<1>2. PICK q \in ActingPlayers(game, state) : q \in 0..(n - 1)
  BY DEF ActingPlayers, Players
<1>3. CASE cur < q
  <2>1. q - cur \in 1..n /\ (cur + (q - cur)) % n = q
    BY <1>1, <1>2, <1>3
  <2>2. QED
    BY <1>2, <2>1
<1>4. CASE cur >= q /\ cur < q + n
  <2>1. q + n - cur \in 1..n
    BY <1>1, <1>2, <1>4
  <2>2. cur + (q + n - cur) = n * 1 + q
    BY <1>1, <1>2
  <2>3. (n * 1 + q) % n = q
    BY <1>1, <1>2, Remainder
  <2>4. QED
    BY <1>2, <2>1, <2>2, <2>3
<1>5. CASE cur >= q + n
  <2>1. q + n + n - cur \in 1..n
    BY <1>1, <1>2, <1>5
  <2>2. (cur + (q + n + n - cur)) % n = q
    <3>1. cur + (q + n + n - cur) = q + 2 * n
      BY <1>1, <1>2
    <3>2. (q + 2 * n) % n = q
      BY <1>1, <1>2, TwiceAround
    <3>3. QED
      BY <3>1, <3>2
  <2>3. QED
    BY <1>2, <2>1, <2>2
<1>6. QED
  BY <1>1, <1>2, <1>3, <1>4, <1>5

(* nextPlayer() finds a player who can act, and the nearest one.           *)
LEMMA NextPlayerIsNearest ==
  ASSUME NEW game, IsGame(game), NEW state,
         NEW cur \in 0..(2 * game.numPlayers - 1),
         ActingPlayers(game, state) # {}
  PROVE  \E k \in 1..game.numPlayers :
           /\ nextPlayer(game, state, cur) = (cur + k) % game.numPlayers
           /\ nextPlayer(game, state, cur) \in ActingPlayers(game, state)
           /\ \A j \in 1..k - 1 :
                (cur + j) % game.numPlayers \notin ActingPlayers(game, state)
<1> DEFINE n == game.numPlayers
           away == {k \in 1..n : (cur + k) % n \in ActingPlayers(game, state)}
<1>1. n \in Nat \ {0} /\ away \subseteq Nat
  BY DEF IsGame
<1>2. Min(away) \in away /\ \A k \in away : Min(away) <= k
  <2>1. away # {}
    BY SomebodyWithinATurn
  <2> HIDE DEF away
  <2>2. QED
    BY <1>1, <2>1, MinOfNats
<1>3. \A j \in 1..Min(away) - 1 : (cur + j) % n \notin ActingPlayers(game, state)
  <2>1. \A j \in 1..Min(away) - 1 : j \in 1..n /\ ~(Min(away) <= j)
    BY <1>1, <1>2
  <2>2. QED
    BY <1>2, <2>1
<1>4. nextPlayer(game, state, cur) = (cur + Min(away)) % n
  BY DEF nextPlayer
<1>5. Min(away) \in 1..n /\ (cur + Min(away)) % n \in ActingPlayers(game, state)
  BY <1>2
<1> DEFINE k == Min(away)
<1>6. /\ k \in 1..n /\ nextPlayer(game, state, cur) = (cur + k) % n
      /\ nextPlayer(game, state, cur) \in ActingPlayers(game, state)
      /\ \A j \in 1..k - 1 : (cur + j) % n \notin ActingPlayers(game, state)
  BY <1>3, <1>4, <1>5
<1> HIDE DEF k
<1>7. QED
  BY <1>6

(* The part of it most proofs need.                                        *)
LEMMA NextPlayerCanAct ==
  ASSUME NEW game, IsGame(game), NEW state,
         NEW cur \in 0..(2 * game.numPlayers - 1),
         ActingPlayers(game, state) # {}
  PROVE  nextPlayer(game, state, cur) \in ActingPlayers(game, state)
BY NextPlayerIsNearest

-----------------------------------------------------------------------------
(* What every step keeps, besides the types: stacks are not overdrawn and  *)
(* nothing has been recorded for rounds to come.                           *)
WellFormed(game, state) ==
  /\ state \in StateType(game)
  /\ \A p \in Players(game) : state.spent[p] <= game.stack[p]
  /\ \A r \in Rounds(game) : r > state.round => state.action[r] = << >>

AskedActions == [type : ActionTypes, size : Int]

(* The last action of a round is one of its actions.                       *)
LEMMA LastElement ==
  ASSUME NEW S, NEW seq \in Seq(S), seq # << >>
  PROVE  Len(seq) \in DOMAIN seq /\ seq[Len(seq)] \in S
  OBVIOUS

(* The player doAction() finds is one who can act.                         *)
LEMMA CurrentPlayerCanAct ==
  ASSUME NEW game, IsGame(game), NEW state, state \in StateType(game),
         ActingPlayers(game, state) # {}
  PROVE  /\ currentPlayer(game, state) \in ActingPlayers(game, state)
         /\ currentPlayer(game, state) \in Players(game)
<1> DEFINE acts == CurrentActions(state)
           cur  == IF acts = << >>
                     THEN game.firstPlayer[state.round] + game.numPlayers - 1
                     ELSE acts[Len(acts)].player
<1>1. cur \in 0..(2 * game.numPlayers - 1)
  <2>1. CASE acts = << >>
    <3>1. state.round \in Rounds(game)
      BY DEF StateType
    <3>2. game.firstPlayer[state.round] \in 0..game.numPlayers - 1 /\ game.numPlayers \in Nat
      BY <3>1 DEF IsGame, Players
    <3>3. QED
      BY <2>1, <3>2
  <2>2. CASE acts # << >>
    <3>1. acts \in Seq(ActionType(game))
      BY DEF StateType, CurrentActions
    <3>2. acts[Len(acts)] \in ActionType(game)
      BY <2>2, <3>1, LastElement
    <3>3. QED
      BY <2>2, <3>2 DEF Players, IsGame, ActionType
  <2>3. QED
    BY <2>1, <2>2
<1>2. currentPlayer(game, state) \in ActingPlayers(game, state)
  BY <1>1, NextPlayerCanAct DEF currentPlayer
<1>3. QED
  BY <1>2 DEF ActingPlayers

(* What becomes of each field when the current player acts.                *)
MovesChips(game, state, action, after) ==
  LET p == currentPlayer(game, state)
  IN  /\ after.round = state.round
      /\ after.finished = state.finished
      /\ after.action = [state.action EXCEPT ![state.round] =
                           Append(@, [type |-> action.type,
                                      size |-> action.size, player |-> p])]
      /\ after.playerFolded = IF action.type = "fold"
                                THEN [state.playerFolded EXCEPT ![p] = TRUE]
                                ELSE state.playerFolded
      /\ action.type = "fold" => after.spent = state.spent
      /\ action.type = "call" =>
           after.spent = [state.spent EXCEPT ![p] = CallTo(game, state, p)]
      /\ action.type = "raise" =>
           after.spent = [state.spent EXCEPT ![p] = RaisedTo(game, state, p, action)]
      /\ after.maxSpent = IF action.type = "raise"
                            THEN RaisedTo(game, state, p, action)
                            ELSE state.maxSpent
      /\ after.minNoLimitRaiseTo = IF action.type = "raise"
                                     THEN NextMinRaiseTo(game, state, action)
                                     ELSE state.minNoLimitRaiseTo

(* Recording an action and moving the chips keeps the types and changes    *)
(* only the acting player's chips and folded flag.                         *)
LEMMA PlayedEffect ==
  ASSUME NEW game, IsGame(game),
         NEW state, WellFormed(game, state),
         ActingPlayers(game, state) # {},
         NEW action, action \in AskedActions,
         ActionAsserts(game, state, action)
  PROVE  /\ WellFormed(game, Played(game, state, action))
         /\ MovesChips(game, state, action, Played(game, state, action))
<1> DEFINE p      == currentPlayer(game, state)
           entry  == [type |-> action.type, size |-> action.size, player |-> p]
           record == Recorded(game, state, action)
           after  == Played(game, state, action)
<1>1. state \in StateType(game) /\ state.round \in Rounds(game)
  BY DEF WellFormed, StateType
<1>2. p \in Players(game)
  BY <1>1, CurrentPlayerCanAct
<1>3. entry \in ActionType(game)
  BY <1>2 DEF AskedActions, ActionType
<1>4. /\ record \in StateType(game)
      /\ record = [state EXCEPT !.action =
                      [state.action EXCEPT ![state.round] = Append(@, entry)]]
  <2>1. Append(state.action[state.round], entry) \in Seq(ActionType(game))
    BY <1>1, <1>3 DEF StateType
  <2>2. QED
    BY <1>1, <2>1 DEF StateType, Recorded
<1>5. CallTo(game, state, p) \in Chips /\ CallTo(game, state, p) <= game.stack[p]
  <2>1. game.stack[p] \in Chips /\ state.maxSpent \in Chips
    BY <1>1, <1>2 DEF StateType, IsGame
  <2>2. QED
    BY <2>1, LimitsAssumption DEF CallTo, Chips
<1>6. ASSUME action.type = "raise"
      PROVE  /\ RaisedTo(game, state, p, action) \in Chips
             /\ RaisedTo(game, state, p, action) <= game.stack[p]
             /\ NextMinRaiseTo(game, state, action) \in Nat
  <2>1. /\ game.stack[p] \in Nat /\ game.stack[p] <= INT32_MAX
        /\ game.raiseSize[state.round] \in Nat
        /\ state.maxSpent \in Nat /\ state.minNoLimitRaiseTo \in Nat
        /\ action.size \in Int
    BY <1>1, <1>2, LimitsAssumption DEF StateType, IsGame, Chips, AskedActions
  <2>2. game.bettingType = "nolimit" =>
          action.size > state.maxSpent /\ action.size <= game.stack[p]
    BY <1>6 DEF ActionAsserts
  <2>3. NextMinRaiseTo(game, state, action) \in Nat
    BY <2>1 DEF NextMinRaiseTo
  <2>4. /\ RaisedTo(game, state, p, action) \in Nat
        /\ RaisedTo(game, state, p, action) <= game.stack[p]
    BY <2>1, <2>2 DEF RaisedTo
  <2>5. QED
    BY <2>1, <2>3, <2>4, LimitsAssumption DEF Chips
<1>7. record.round = state.round /\ record.maxSpent = state.maxSpent
      /\ record.spent = state.spent /\ record.playerFolded = state.playerFolded
      /\ record.minNoLimitRaiseTo = state.minNoLimitRaiseTo
      /\ record.finished = state.finished
      /\ record.action = [state.action EXCEPT ![state.round] = Append(@, entry)]
  BY <1>1, <1>4 DEF StateType
<1>8. \A r \in Rounds(game) : r > state.round => record.action[r] = << >>
  BY <1>1, <1>7 DEF WellFormed, StateType, Rounds, IsGame
<1>9. CASE action.type = "fold"
  <2>1. after = [record EXCEPT !.playerFolded = [@ EXCEPT ![p] = TRUE]]
    BY <1>9 DEF Played, Paid
  <2>2. after \in StateType(game)
    <3>1. [record.playerFolded EXCEPT ![p] = TRUE] \in [Players(game) -> BOOLEAN]
      BY <1>2, <1>4 DEF StateType
    <3>2. QED
      BY <1>4, <2>1, <3>1 DEF StateType
  <2>3. /\ after.round = record.round /\ after.finished = record.finished
        /\ after.action = record.action /\ after.spent = record.spent
        /\ after.maxSpent = record.maxSpent
        /\ after.minNoLimitRaiseTo = record.minNoLimitRaiseTo
        /\ after.playerFolded = [record.playerFolded EXCEPT ![p] = TRUE]
    BY <1>4, <2>1 DEF StateType
  <2>4. WellFormed(game, after)
    BY <1>7, <1>8, <2>2, <2>3 DEF WellFormed
  <2>5. QED
    BY <1>7, <1>9, <2>3, <2>4 DEF MovesChips
<1>10. CASE action.type = "call"
  <2>1. after = [record EXCEPT !.spent = [@ EXCEPT ![p] = CallTo(game, record, p)]]
    BY <1>10 DEF Played, Paid
  <2>2. CallTo(game, record, p) = CallTo(game, state, p)
    BY <1>7 DEF CallTo
  <2>3. after \in StateType(game)
    <3>1. [record.spent EXCEPT ![p] = CallTo(game, record, p)]
            \in [Players(game) -> Chips]
      BY <1>2, <1>4, <1>5, <2>2 DEF StateType
    <3>2. QED
      BY <1>4, <2>1, <3>1 DEF StateType
  <2>4. /\ after.round = record.round /\ after.finished = record.finished
        /\ after.action = record.action
        /\ after.spent = [record.spent EXCEPT ![p] = CallTo(game, state, p)]
        /\ after.maxSpent = record.maxSpent
        /\ after.minNoLimitRaiseTo = record.minNoLimitRaiseTo
        /\ after.playerFolded = record.playerFolded
    BY <1>4, <2>1, <2>2 DEF StateType
  <2>5. \A q \in Players(game) : after.spent[q] <= game.stack[q]
    BY <1>1, <1>2, <1>5, <1>7, <2>4 DEF WellFormed, StateType
  <2>6. WellFormed(game, after)
    BY <1>7, <1>8, <2>3, <2>4, <2>5 DEF WellFormed
  <2>7. QED
    BY <1>7, <1>10, <2>4, <2>6 DEF MovesChips
<1>11. CASE action.type = "raise"
  <2> DEFINE raisedTo == RaisedTo(game, state, p, action)
             nextMin  == NextMinRaiseTo(game, state, action)
  <2>1. /\ RaisedTo(game, record, p, action) = raisedTo
        /\ NextMinRaiseTo(game, record, action) = nextMin
    BY <1>7 DEF RaisedTo, NextMinRaiseTo
  <2>2. after = [record EXCEPT !.minNoLimitRaiseTo = nextMin,
                               !.maxSpent = raisedTo,
                               !.spent = [@ EXCEPT ![p] = raisedTo]]
    BY <1>11, <2>1 DEF Played, Paid
  <2>3. raisedTo \in Chips /\ raisedTo <= game.stack[p] /\ nextMin \in Nat
    BY <1>6, <1>11
  <2> HIDE DEF raisedTo, nextMin
  <2>4. after \in StateType(game)
    <3>1. [record.spent EXCEPT ![p] = raisedTo] \in [Players(game) -> Chips]
      BY <1>2, <1>4, <2>3 DEF StateType
    <3>2. QED
      BY <1>4, <2>2, <2>3, <3>1 DEF StateType
  <2>5. /\ after.round = record.round /\ after.finished = record.finished
        /\ after.action = record.action
        /\ after.spent = [record.spent EXCEPT ![p] = raisedTo]
        /\ after.maxSpent = raisedTo
        /\ after.minNoLimitRaiseTo = nextMin
        /\ after.playerFolded = record.playerFolded
    BY <1>4, <2>2 DEF StateType
  <2>6. \A q \in Players(game) : after.spent[q] <= game.stack[q]
    BY <1>1, <1>2, <1>7, <2>3, <2>5 DEF WellFormed, StateType
  <2>7. WellFormed(game, after)
    BY <1>7, <1>8, <2>4, <2>5, <2>6 DEF WellFormed
  <2>8. QED
    BY <1>7, <1>11, <2>5, <2>7 DEF raisedTo, nextMin, MovesChips
<1>12. QED
  BY <1>9, <1>10, <1>11 DEF AskedActions, ActionTypes

-----------------------------------------------------------------------------
(* The callers of a round are some of its actions; there are none in a     *)
(* round without actions.                                                  *)
LEMMA CallersCount ==
  ASSUME NEW game, NEW state, state \in StateType(game)
  PROVE  /\ IsFiniteSet(Callers(game, state))
         /\ numCalled(game, state) \in Nat
         /\ CurrentActions(state) = << >> => numCalled(game, state) = 0
<1>1. CurrentActions(state) \in Seq(ActionType(game))
  BY DEF StateType, CurrentActions
<1>2. Callers(game, state) \in SUBSET (1..Len(CurrentActions(state)))
  BY <1>1 DEF Callers
<1>3. IsFiniteSet(1..Len(CurrentActions(state)))
  BY <1>1, FS_Interval
<1>4. IsFiniteSet(Callers(game, state))
  BY <1>2, <1>3, FS_Subset
<1>5. CurrentActions(state) = << >> => Callers(game, state) = {}
  BY <1>2
<1>6. QED
  BY <1>4, <1>5, FS_CardinalityType, FS_EmptySet DEF numCalled

(* The least a no-limit bet adds at the start of a round is a chip.        *)
LEMMA SmallestOpeningBet ==
  ASSUME NEW game, IsGame(game)
  PROVE  Max({1, LargestBlind(game)}) \in Nat \ {0}
<1>1. LargestBlind(game) \in Nat
  BY LargestBlindIsABlind, LimitsAssumption DEF Chips
<1>2. /\ {1, LargestBlind(game)} \subseteq Nat /\ {1, LargestBlind(game)} # {}
      /\ \A b \in {1, LargestBlind(game)} : b <= 1 + LargestBlind(game)
      /\ 1 + LargestBlind(game) \in Nat
  BY <1>1
<1>3. /\ Max({1, LargestBlind(game)}) \in {1, LargestBlind(game)}
      /\ \A b \in {1, LargestBlind(game)} : b <= Max({1, LargestBlind(game)})
  BY <1>2, MaxOfNats
<1>4. QED
  BY <1>1, <1>3

(* The hand is open: more players can act than have called.                *)
Open(game, state) == numCalled(game, state) < numActingPlayers(game, state)

(* Closing a round keeps the types, chips and folds, and leaves the hand   *)
(* either finished or open.                                                *)
ClosesTo(game, state, after) ==
  /\ WellFormed(game, after)
  /\ ~after.finished => Open(game, after)
  /\ after.round >= state.round
  /\ after.spent = state.spent
  /\ after.maxSpent = state.maxSpent
  /\ after.playerFolded = state.playerFolded
  /\ after.action = state.action
  /\ after.round = state.round =>
       after.minNoLimitRaiseTo = state.minNoLimitRaiseTo
  /\ \/ after.minNoLimitRaiseTo = state.minNoLimitRaiseTo
     \/ after.minNoLimitRaiseTo =
          Max({1, LargestBlind(game)}) + state.maxSpent

LEMMA ClosedEffect ==
  ASSUME NEW game, IsGame(game),
         NEW state, WellFormed(game, state), ~state.finished
  PROVE  ClosesTo(game, state, Closed(game, state))
<1> USE DEF ClosesTo
<1> DEFINE after == Closed(game, state)
           final == [state EXCEPT !.finished = TRUE]
           last  == [state EXCEPT !.finished = TRUE, !.round = game.numRounds - 1]
           next  == [state EXCEPT !.round = @ + 1,
                                  !.minNoLimitRaiseTo =
                                     Max({1, LargestBlind(game)}) + state.maxSpent]
<1>1. /\ state \in StateType(game) /\ state.round \in Nat
      /\ state.round <= game.numRounds - 1
      /\ game.numRounds \in Nat \ {0}
  BY DEF WellFormed, StateType, Rounds, IsGame
<1>2. numActingPlayers(game, state) \in Nat /\ numCalled(game, state) \in Nat
  BY <1>1, ActingPlayersCount, CallersCount
<1>2a. /\ WellFormed(game, final)
       /\ final.round = state.round /\ final.finished
       /\ final.spent = state.spent /\ final.maxSpent = state.maxSpent
       /\ final.playerFolded = state.playerFolded /\ final.action = state.action
       /\ final.minNoLimitRaiseTo = state.minNoLimitRaiseTo
  <2>1. /\ final \in StateType(game)
        /\ final.round = state.round /\ final.finished
        /\ final.spent = state.spent /\ final.maxSpent = state.maxSpent
        /\ final.playerFolded = state.playerFolded /\ final.action = state.action
        /\ final.minNoLimitRaiseTo = state.minNoLimitRaiseTo
    BY <1>1 DEF StateType
  <2>2. QED
    BY <2>1 DEF WellFormed
<1>3. CASE OnlyOneLeft(game, state)
  <2>1. after = final
    BY <1>3 DEF Closed
  <2>2. QED
    BY <1>1, <1>2a, <2>1
<1>4. CASE ~OnlyOneLeft(game, state) /\ ~BettingClosed(game, state)
  <2>1. after = state
    BY <1>4 DEF Closed
  <2>2. Open(game, state)
    BY <1>2, <1>4 DEF BettingClosed, Open
  <2>3. QED
    BY <1>1, <2>1, <2>2
<1>5. CASE /\ ~OnlyOneLeft(game, state) /\ BettingClosed(game, state)
           /\ numActingPlayers(game, state) <= 1
  <2>1. after = last
    BY <1>5 DEF Closed
  <2>2. game.numRounds - 1 \in Rounds(game)
    BY <1>1 DEF Rounds
  <2>3. /\ last \in StateType(game)
        /\ last.round = game.numRounds - 1 /\ last.finished
        /\ last.spent = state.spent /\ last.maxSpent = state.maxSpent
        /\ last.playerFolded = state.playerFolded /\ last.action = state.action
        /\ last.minNoLimitRaiseTo = state.minNoLimitRaiseTo
    BY <1>1, <2>2 DEF StateType
  <2>4. WellFormed(game, last)
    BY <1>1, <2>3 DEF WellFormed, Rounds
  <2>5. QED
    BY <1>1, <2>1, <2>3, <2>4
<1>6. CASE /\ ~OnlyOneLeft(game, state) /\ BettingClosed(game, state)
           /\ ~(numActingPlayers(game, state) <= 1)
           /\ state.round + 1 < game.numRounds
  <2> DEFINE nextMin == Max({1, LargestBlind(game)}) + state.maxSpent
  <2>1. after = next
    BY <1>6 DEF Closed
  <2>2. nextMin \in Nat
    BY <1>1, SmallestOpeningBet, LimitsAssumption DEF StateType, Chips
  <2> HIDE DEF nextMin
  <2>3. state.round + 1 \in Rounds(game)
    BY <1>1, <1>6 DEF Rounds
  <2>4. next = [state EXCEPT !.round = @ + 1, !.minNoLimitRaiseTo = nextMin]
    BY DEF nextMin
  <2>5. /\ next \in StateType(game)
        /\ next.round = state.round + 1 /\ next.finished = state.finished
        /\ next.spent = state.spent /\ next.maxSpent = state.maxSpent
        /\ next.playerFolded = state.playerFolded /\ next.action = state.action
        /\ next.minNoLimitRaiseTo = nextMin
    BY <1>1, <2>2, <2>3, <2>4 DEF StateType
  <2> HIDE DEF next
  <2>6. WellFormed(game, next)
    BY <1>1, <2>5 DEF WellFormed, Rounds
  <2>7. CurrentActions(next) = << >>
    BY <1>1, <2>3, <2>5 DEF CurrentActions, WellFormed
  <2>8. numCalled(game, next) = 0
    BY <2>5, <2>7, CallersCount
  <2>9. numActingPlayers(game, next) = numActingPlayers(game, state)
    BY <2>5 DEF numActingPlayers, ActingPlayers, AllIn
  <2>10. Open(game, next)
    BY <1>2, <1>6, <2>8, <2>9 DEF Open
  <2>11. QED
    BY <1>1, <2>1, <2>5, <2>6, <2>7, <2>10 DEF nextMin
<1>7. CASE /\ ~OnlyOneLeft(game, state) /\ BettingClosed(game, state)
           /\ ~(numActingPlayers(game, state) <= 1)
           /\ ~(state.round + 1 < game.numRounds)
  <2>1. after = final
    BY <1>7 DEF Closed
  <2>2. QED
    BY <1>1, <1>2a, <2>1
<1>8. QED
  BY <1>3, <1>4, <1>5, <1>6, <1>7

-----------------------------------------------------------------------------
(* Counting callers.  A caller with chips behind has put in exactly the    *)
(* largest bet; that is why nobody who is counted already goes all-in by   *)
(* calling once more, and every action brings the round closer to its end. *)
CallersMatchBet(game, state) ==
  \A i \in Callers(game, state) :
    state.spent[CurrentActions(state)[i].player] = state.maxSpent

(* What an appended sequence holds.                                        *)
LEMMA AppendedElements ==
  ASSUME NEW S, NEW seq \in Seq(S), NEW e \in S
  PROVE  /\ DOMAIN Append(seq, e) = DOMAIN seq \cup {Len(seq) + 1}
         /\ Len(Append(seq, e)) = Len(seq) + 1
         /\ \A i \in DOMAIN seq : Append(seq, e)[i] = seq[i]
         /\ Append(seq, e)[Len(seq) + 1] = e
         /\ Len(seq) \in Nat /\ DOMAIN seq = 1..Len(seq)
  OBVIOUS

(* How an action changes who can act and who has called.                   *)
MovesCallers(game, state, action, after) ==
  LET p    == currentPlayer(game, state)
      mine == IF AllIn(game, after, p) THEN {}
                ELSE {Len(CurrentActions(state)) + 1}
  IN  /\ Len(CurrentActions(after)) = Len(CurrentActions(state)) + 1
      /\ ActingPlayers(game, after) =
           IF action.type = "fold" \/ AllIn(game, after, p)
             THEN ActingPlayers(game, state) \ {p}
             ELSE ActingPlayers(game, state)
      /\ action.type = "fold"  => Callers(game, after) = Callers(game, state)
      /\ action.type = "call"  =>
           Callers(game, after) = Callers(game, state) \cup mine
      /\ action.type = "raise" => Callers(game, after) = mine

(* That is what it does, and whoever has called still matches the bet.     *)
LEMMA PlayedCallers ==
  ASSUME NEW game, IsGame(game),
         NEW state, WellFormed(game, state),
         ActingPlayers(game, state) # {},
         CallersMatchBet(game, state),
         NEW action, action \in AskedActions,
         ActionAsserts(game, state, action)
  PROVE  /\ CallersMatchBet(game, Played(game, state, action))
         /\ MovesCallers(game, state, action, Played(game, state, action))
<1> DEFINE p     == currentPlayer(game, state)
           entry == [type |-> action.type, size |-> action.size, player |-> p]
           after == Played(game, state, action)
           acts  == CurrentActions(state)
           new   == CurrentActions(after)
           n     == Len(acts)
           mine  == IF AllIn(game, after, p) THEN {} ELSE {n + 1}
<1>1. /\ state \in StateType(game) /\ state.round \in Rounds(game)
      /\ acts \in Seq(ActionType(game))
  BY DEF WellFormed, StateType, CurrentActions
<1>2. p \in ActingPlayers(game, state) /\ p \in Players(game)
  BY <1>1, CurrentPlayerCanAct
<1>3. entry \in ActionType(game)
  BY <1>2 DEF ActionType, AskedActions
<1>4. /\ after \in StateType(game)
      /\ new = Append(acts, entry)
      /\ after.playerFolded = IF action.type = "fold"
                                THEN [state.playerFolded EXCEPT ![p] = TRUE]
                                ELSE state.playerFolded
      /\ action.type = "fold" =>
           after.spent = state.spent /\ after.maxSpent = state.maxSpent
      /\ action.type = "call" =>
           /\ after.spent = [state.spent EXCEPT ![p] = CallTo(game, state, p)]
           /\ after.maxSpent = state.maxSpent
      /\ action.type = "raise" =>
           \E x : after.spent = [state.spent EXCEPT ![p] = x] /\ after.maxSpent = x
  <2>1. WellFormed(game, after) /\ MovesChips(game, state, action, after)
    BY PlayedEffect
  <2> HIDE DEF after, entry, p
  <2>2. new = Append(acts, entry)
    BY <1>1, <2>1 DEF CurrentActions, StateType, MovesChips, entry, p
  <2>3. QED
    BY <2>1, <2>2 DEF WellFormed, MovesChips, p
<1> HIDE DEF after, entry
<1>5. /\ DOMAIN new = DOMAIN acts \cup {n + 1} /\ Len(new) = n + 1
      /\ \A i \in DOMAIN acts : new[i] = acts[i]
      /\ new[n + 1] = entry
      /\ n \in Nat /\ DOMAIN acts = 1..n
  BY <1>1, <1>3, <1>4, AppendedElements
<1>6. \A q \in Players(game) \ {p} :
        /\ after.spent[q] = state.spent[q]
        /\ after.playerFolded[q] = state.playerFolded[q]
  BY <1>1, <1>2, <1>4 DEF StateType, AskedActions, ActionTypes
<1>7. after.playerFolded[p] = (action.type = "fold")
  BY <1>1, <1>2, <1>4 DEF StateType, ActingPlayers
<1>8. ActingPlayers(game, after) =
        IF action.type = "fold" \/ AllIn(game, after, p)
          THEN ActingPlayers(game, state) \ {p} ELSE ActingPlayers(game, state)
  BY <1>2, <1>6, <1>7 DEF ActingPlayers, AllIn
<1>9. /\ entry.type = action.type /\ entry.player = p
      /\ \A i \in DOMAIN acts : acts[i].player \in Players(game)
  <2>1. entry.type = action.type /\ entry.player = p
    BY DEF entry
  <2>2. \A i \in DOMAIN acts : acts[i] \in ActionType(game)
    BY <1>1
  <2>3. QED
    BY <2>1, <2>2 DEF ActionType
<1>10. RaisesIn(new) = IF action.type = "raise" THEN RaisesIn(acts) \cup {n + 1}
                                                ELSE RaisesIn(acts)
  BY <1>5, <1>9 DEF RaisesIn
<1>11. RaisesIn(acts) \subseteq DOMAIN acts
  BY DEF RaisesIn
<1>12. CASE action.type = "fold"
  <2>1. \A i \in DOMAIN acts :
          AllIn(game, after, acts[i].player) <=> AllIn(game, state, acts[i].player)
    BY <1>4, <1>12 DEF AllIn
  <2>2. Callers(game, after) = Callers(game, state)
    BY <1>5, <1>9, <1>10, <1>11, <1>12, <2>1 DEF Callers
  <2>3. CallersMatchBet(game, after)
    BY <1>4, <1>5, <1>12, <2>2 DEF CallersMatchBet, Callers
  <2>4. QED
    BY <1>5, <1>8, <1>12, <2>2, <2>3 DEF after, MovesCallers
<1>13. CASE action.type = "call"
  <2>1. after.spent[p] = CallTo(game, state, p)
    BY <1>1, <1>2, <1>4, <1>13 DEF StateType
  <2>2. \A i \in Callers(game, state) :
          acts[i].player = p => after.spent[p] = state.spent[p]
    <3>1. ~AllIn(game, state, p) /\ state.spent[p] \in Int
          /\ state.maxSpent \in Int /\ game.stack[p] \in Int
      BY <1>1, <1>2, LimitsAssumption DEF ActingPlayers, StateType, IsGame, Chips
    <3>2. \A i \in Callers(game, state) :
            acts[i].player = p => state.spent[p] = state.maxSpent
      BY DEF CallersMatchBet
    <3>3. QED
      BY <2>1, <3>1, <3>2 DEF CallTo, AllIn
  <2>3. Callers(game, after) \ {n + 1} = Callers(game, state)
    <3>1. ASSUME NEW i \in DOMAIN acts
          PROVE  i \in Callers(game, after) <=> i \in Callers(game, state)
      <4>1. CASE acts[i].player # p
        <5>1. AllIn(game, after, acts[i].player) <=> AllIn(game, state, acts[i].player)
          BY <1>6, <1>9, <4>1 DEF AllIn
        <5>2. QED
          BY <1>5, <1>10, <1>13, <5>1 DEF Callers
      <4>2. CASE acts[i].player = p
        <5>1. ~AllIn(game, state, p)
          BY <1>2 DEF ActingPlayers
        <5>2. i \in Callers(game, state) => ~AllIn(game, after, p)
          BY <2>2, <4>2, <5>1 DEF AllIn
        <5>3. QED
          BY <1>5, <1>10, <1>13, <4>2, <5>1, <5>2 DEF Callers
      <4>3. QED
        BY <4>1, <4>2
    <3>2. QED
      BY <1>5, <3>1 DEF Callers
  <2>4. n + 1 \in Callers(game, after) <=> ~AllIn(game, after, p)
    BY <1>5, <1>9, <1>10, <1>11, <1>13 DEF Callers
  <2>5. n + 1 \notin Callers(game, state)
    BY <1>5 DEF Callers
  <2>6. Callers(game, after) = Callers(game, state) \cup mine
    BY <2>3, <2>4, <2>5
  <2>7. ~AllIn(game, after, p) => after.spent[p] = state.maxSpent
    <3>1. state.maxSpent \in Int /\ game.stack[p] \in Int
      BY <1>1, <1>2, LimitsAssumption DEF StateType, IsGame, Chips
    <3>2. QED
      BY <2>1, <3>1 DEF CallTo, AllIn
  <2>8. CallersMatchBet(game, after)
    <3>1. ASSUME NEW i \in Callers(game, state)
          PROVE  after.spent[new[i].player] = after.maxSpent
      BY <1>4, <1>5, <1>6, <1>9, <1>13, <2>2 DEF CallersMatchBet, Callers
    <3>2. QED
      BY <1>4, <1>5, <1>9, <1>13, <2>6, <2>7, <3>1 DEF CallersMatchBet
  <2>9. QED
    BY <1>5, <1>8, <1>13, <2>6, <2>8 DEF after, MovesCallers
<1>14. CASE action.type = "raise"
  <2>1. \A i \in DOMAIN acts : i \notin Callers(game, after)
    <3>1. n + 1 \in RaisesIn(new) /\ \A i \in DOMAIN acts : ~(n + 1 <= i)
      BY <1>5, <1>10, <1>14
    <3>2. QED
      BY <3>1 DEF Callers
  <2>2. n + 1 \in Callers(game, after) <=> ~AllIn(game, after, p)
    BY <1>5, <1>9, <1>10, <1>11, <1>14 DEF Callers
  <2>3. Callers(game, after) = mine
    BY <1>5, <2>1, <2>2 DEF Callers
  <2>4. after.spent[p] = after.maxSpent
    BY <1>1, <1>2, <1>4, <1>14 DEF StateType
  <2>5. CallersMatchBet(game, after)
    BY <1>5, <1>9, <2>3, <2>4 DEF CallersMatchBet
  <2>6. QED
    BY <1>5, <1>8, <1>14, <2>3, <2>5 DEF after, MovesCallers
<1>15. QED
  BY <1>12, <1>13, <1>14 DEF AskedActions, ActionTypes

-----------------------------------------------------------------------------
(* There is room in the round's array for an action of everybody who still *)
(* has to act.                                                             *)
Room(game, state) ==
  Len(CurrentActions(state)) + numActingPlayers(game, state)
    <= MAX_NUM_ACTIONS + numCalled(game, state)

(* A fold takes the player from those who can act, a call adds a caller or *)
(* an all-in player, and a raise is only valid with room for everybody.    *)
LEMMA PlayedRoom ==
  ASSUME NEW game, IsGame(game),
         NEW state, WellFormed(game, state), Room(game, state),
         ActingPlayers(game, state) # {},
         CallersMatchBet(game, state),
         NEW action, action \in AskedActions,
         ActionAsserts(game, state, action),
         action.type = "raise" =>
           Len(CurrentActions(state)) + game.numPlayers <= MAX_NUM_ACTIONS
  PROVE  Room(game, Played(game, state, action))
<1> DEFINE p     == currentPlayer(game, state)
           after == Played(game, state, action)
           n     == Len(CurrentActions(state))
           able  == ActingPlayers(game, state)
           able2 == ActingPlayers(game, after)
           done  == Callers(game, state)
           done2 == Callers(game, after)
<1>1. MovesCallers(game, state, action, after) /\ WellFormed(game, after)
  BY PlayedCallers, PlayedEffect
<1>2. state \in StateType(game) /\ after \in StateType(game)
  BY <1>1 DEF WellFormed
<1>3. p \in able /\ p \in Players(game)
  BY <1>2, CurrentPlayerCanAct
<1>4. n \in Nat /\ n + 1 \notin done
  <2>1. CurrentActions(state) \in Seq(ActionType(game))
    BY <1>2 DEF StateType, CurrentActions
  <2>2. QED
    BY <2>1 DEF Callers
<1>5. /\ IsFiniteSet(able) /\ IsFiniteSet(able2)
      /\ IsFiniteSet(done) /\ IsFiniteSet(done2)
      /\ IsFiniteSet(Players(game)) /\ Cardinality(Players(game)) = game.numPlayers
  BY <1>2, ActingPlayersCount, CallersCount
<1>6. /\ Cardinality(able) \in Nat /\ Cardinality(able2) \in Nat
      /\ Cardinality(done) \in Nat /\ Cardinality(done2) \in Nat
      /\ game.numPlayers \in Nat
  BY <1>5, FS_CardinalityType DEF IsGame
<1> HIDE DEF p, after, n
<1>7. n + Cardinality(able) <= MAX_NUM_ACTIONS + Cardinality(done)
  BY DEF Room, numActingPlayers, numCalled, n
<1>8. Cardinality(able \ {p}) = Cardinality(able) - 1
  BY <1>3, <1>5, FS_RemoveElement
<1>9. Cardinality(done \cup {n + 1}) = Cardinality(done) + 1
  BY <1>4, <1>5, FS_AddElement
<1>10. /\ Len(CurrentActions(after)) = n + 1
       /\ able2 = IF action.type = "fold" \/ AllIn(game, after, p)
                    THEN able \ {p} ELSE able
       /\ action.type = "fold" => done2 = done
       /\ action.type = "call" => done2 = done \cup (IF AllIn(game, after, p) THEN {}
                                                                        ELSE {n + 1})
       /\ action.type = "raise" => done2 = IF AllIn(game, after, p) THEN {} ELSE {n + 1}
  BY <1>1 DEF MovesCallers, p, n
<1>11. n + 1 + Cardinality(able2) <= MAX_NUM_ACTIONS + Cardinality(done2)
  <2>1. CASE action.type = "fold"
    BY <1>4, <1>6, <1>7, <1>8, <1>10, <2>1, LimitsAssumption
  <2>2. CASE action.type = "call"
    <3>1. CASE AllIn(game, after, p)
      <4>1. able2 = able \ {p} /\ done2 = done
        BY <1>10, <2>2, <3>1
      <4>2. QED
        BY <1>4, <1>6, <1>7, <1>8, <4>1, LimitsAssumption
    <3>2. CASE ~AllIn(game, after, p)
      <4>1. able2 = able /\ done2 = done \cup {n + 1}
        BY <1>10, <2>2, <3>2
      <4>2. QED
        BY <1>4, <1>6, <1>7, <1>9, <4>1, LimitsAssumption
    <3>3. QED
      BY <3>1, <3>2
  <2>3. CASE action.type = "raise"
    <3>1. n + game.numPlayers <= MAX_NUM_ACTIONS
      BY <2>3 DEF n
    <3>2. Cardinality(able) <= game.numPlayers
      <4>1. able \subseteq Players(game)
        BY DEF ActingPlayers
      <4>2. QED
        BY <1>5, <4>1, FS_Subset
    <3>3. CASE AllIn(game, after, p)
      <4>1. able2 = able \ {p}
        BY <1>10, <2>3, <3>3
      <4>2. QED
        BY <1>4, <1>6, <1>8, <3>1, <3>2, <4>1, LimitsAssumption
    <3>4. CASE ~AllIn(game, after, p)
      <4>1. able2 = able /\ done2 = {n + 1}
        BY <1>10, <2>3, <3>4
      <4>2. Cardinality(done2) = 1
        BY <4>1, FS_Singleton
      <4>3. QED
        BY <1>4, <1>6, <3>1, <3>2, <4>1, <4>2, LimitsAssumption
    <3>5. QED
      BY <3>3, <3>4
  <2>4. QED
    BY <2>1, <2>2, <2>3 DEF AskedActions, ActionTypes
<1>12. QED
  BY <1>10, <1>11 DEF Room, numActingPlayers, numCalled, after

(* A new round starts with no callers and room for everybody.              *)
LEMMA ClosedCallers ==
  ASSUME NEW game, IsGame(game), game.numPlayers <= MAX_NUM_ACTIONS,
         NEW state, WellFormed(game, state), ~state.finished,
         CallersMatchBet(game, state), Room(game, state)
  PROVE  /\ CallersMatchBet(game, Closed(game, state))
         /\ Room(game, Closed(game, state))
<1> DEFINE after == Closed(game, state)
<1>1. /\ WellFormed(game, after)
      /\ after.round >= state.round
      /\ after.spent = state.spent
      /\ after.maxSpent = state.maxSpent
      /\ after.playerFolded = state.playerFolded
      /\ after.action = state.action
  <2>1. ClosesTo(game, state, after)
    BY ClosedEffect
  <2>2. QED
    BY <2>1, Zenon DEF ClosesTo
<1>2. /\ state \in StateType(game) /\ after \in StateType(game)
      /\ state.round \in Int /\ after.round \in Rounds(game) /\ after.round \in Int
  BY <1>1 DEF WellFormed, StateType, Rounds
<1> HIDE DEF after
<1>3. ActingPlayers(game, after) = ActingPlayers(game, state)
  BY <1>1 DEF ActingPlayers, AllIn
<1>4. CASE after.round = state.round
  <2>1. CurrentActions(after) = CurrentActions(state)
    BY <1>1, <1>4 DEF CurrentActions
  <2>2. Callers(game, after) = Callers(game, state)
    BY <1>1, <2>1 DEF Callers, AllIn
  <2>3. CallersMatchBet(game, after)
    BY <1>1, <2>1, <2>2 DEF CallersMatchBet
  <2>4. Room(game, after)
    BY <1>3, <2>1, <2>2 DEF Room, numActingPlayers, numCalled
  <2>5. QED
    BY <2>3, <2>4 DEF after
<1>5. CASE after.round # state.round
  <2>1. CurrentActions(after) = << >>
    BY <1>1, <1>2, <1>5 DEF CurrentActions, WellFormed
  <2>2. Callers(game, after) = {} /\ Len(CurrentActions(after)) = 0
    BY <2>1 DEF Callers
  <2>3. numCalled(game, after) = 0
    BY <1>2, <2>1, CallersCount
  <2>4. numActingPlayers(game, after) <= game.numPlayers
    <3>1. ActingPlayers(game, after) \subseteq Players(game)
      BY DEF ActingPlayers
    <3>2. QED
      BY <3>1, ActingPlayersCount, FS_Subset DEF numActingPlayers
  <2>5. numActingPlayers(game, after) \in Nat /\ game.numPlayers \in Nat
    BY ActingPlayersCount DEF IsGame
  <2>6. Room(game, after)
    BY <2>2, <2>3, <2>4, <2>5, LimitsAssumption DEF Room
  <2>7. QED
    BY <2>2, <2>6 DEF CallersMatchBet, after
<1>6. QED
  BY <1>4, <1>5
-----------------------------------------------------------------------------
(* The hands that come about: a hand that starts sound stays so.           *)

(* In a no-limit game the smallest raise is more than the current bet.     *)
RaisesAreRaises(game, state) ==
  game.bettingType = "nolimit" => state.maxSpent < state.minNoLimitRaiseTo

Sound(game, state) ==
  /\ WellFormed(game, state)
  /\ ~state.finished => Open(game, state)
  /\ CallersMatchBet(game, state)
  /\ Room(game, state)
  /\ RaisesAreRaises(game, state)

(* An open hand has a player who can act, and the player doAction() finds  *)
(* is one.                                                                 *)
LEMMA OpenHandHasActor ==
  ASSUME NEW game, IsGame(game), NEW state, Sound(game, state), ~state.finished
  PROVE  /\ ActingPlayers(game, state) # {}
         /\ currentPlayer(game, state) \in ActingPlayers(game, state)
         /\ currentPlayer(game, state) \in Players(game)
<1>1. state \in StateType(game)
  BY DEF Sound, WellFormed
<1>2. /\ numCalled(game, state) \in Nat /\ numActingPlayers(game, state) \in Nat
      /\ numCalled(game, state) < numActingPlayers(game, state)
  BY <1>1, CallersCount, ActingPlayersCount DEF Sound, Open
<1>3. numActingPlayers(game, state) # 0
  BY <1>2
<1>4. ActingPlayers(game, state) # {}
  BY <1>1, <1>3, ActingPlayersCount
<1>5. QED
  BY <1>1, <1>4, CurrentPlayerCanAct

(* A raise that is possible has a size beyond the largest bet.             *)
LEMMA RaiseRange ==
  ASSUME NEW game, IsGame(game), NEW state, Sound(game, state), ~state.finished,
         raiseIsValid(game, state)
  PROVE  /\ MinRaise(game, state) \in Nat /\ MaxRaise(game, state) \in Chips
         /\ MinRaise(game, state) <= MaxRaise(game, state)
         /\ game.bettingType = "nolimit" => state.maxSpent < MinRaise(game, state)
<1> DEFINE own == game.stack[currentPlayer(game, state)]
<1>1. own \in Chips /\ own \in Nat /\ state.maxSpent \in Nat
      /\ state.minNoLimitRaiseTo \in Nat
  <2>1. own \in Chips
    BY OpenHandHasActor DEF IsGame
  <2>2. state.maxSpent \in Chips /\ state.minNoLimitRaiseTo \in Nat
    BY DEF Sound, WellFormed, StateType
  <2>3. QED
    BY <2>1, <2>2, LimitsAssumption DEF Chips
<1>2. game.bettingType = "nolimit" => state.maxSpent < state.minNoLimitRaiseTo
  BY DEF Sound, RaisesAreRaises
<1>3. game.bettingType = "nolimit" =>
        state.minNoLimitRaiseTo <= own \/ state.maxSpent < own
  BY DEF raiseIsValid
<1>4. /\ MaxRaise(game, state) = own
      /\ MinRaise(game, state) =
           IF state.minNoLimitRaiseTo > own THEN own ELSE state.minNoLimitRaiseTo
  BY DEF MaxRaise, MinRaise
<1> HIDE DEF own
<1>5. QED
  BY <1>1, <1>2, <1>3, <1>4

(* A valid action is of the size doAction() asserts, and there is room to  *)
(* record it.                                                              *)
LEMMA ValidActionIsSafe ==
  ASSUME NEW game, IsGame(game), NEW state, Sound(game, state),
         NEW action \in AskedActions, isValidAction(game, state, FALSE, action)
  PROVE  /\ ActionAsserts(game, state, action)
         /\ action.type = "raise" =>
              Len(CurrentActions(state)) + game.numPlayers <= MAX_NUM_ACTIONS
<1> DEFINE n == Len(CurrentActions(state))
<1>1. /\ ~state.finished
      /\ action.type = "raise" =>
           /\ raiseIsValid(game, state)
           /\ game.bettingType = "nolimit" =>
                action.size \in MinRaise(game, state)..MaxRaise(game, state)
  BY DEF isValidAction
<1>2. state \in StateType(game)
  BY DEF Sound, WellFormed
<1>3. n \in Nat /\ game.numPlayers \in Nat
  BY <1>2 DEF StateType, CurrentActions, IsGame
<1>4. n < MAX_NUM_ACTIONS
  <2>1. /\ numCalled(game, state) \in Nat /\ numActingPlayers(game, state) \in Nat
        /\ numCalled(game, state) < numActingPlayers(game, state)
        /\ n + numActingPlayers(game, state)
             <= MAX_NUM_ACTIONS + numCalled(game, state)
    BY <1>1, <1>2, CallersCount, ActingPlayersCount DEF Sound, Open, Room
  <2>2. QED
    BY <1>3, <2>1, LimitsAssumption
<1>5. ASSUME action.type = "raise", game.bettingType = "nolimit"
      PROVE  /\ action.size > state.maxSpent
             /\ action.size <= game.stack[currentPlayer(game, state)]
  <2>1. /\ MinRaise(game, state) \in Nat /\ MaxRaise(game, state) \in Nat
        /\ state.maxSpent < MinRaise(game, state) /\ state.maxSpent \in Nat
    BY <1>1, <1>2, <1>5, RaiseRange, LimitsAssumption DEF Chips, StateType
  <2>2. MaxRaise(game, state) = game.stack[currentPlayer(game, state)]
    BY DEF MaxRaise
  <2>3. action.size \in MinRaise(game, state)..MaxRaise(game, state)
    BY <1>1, <1>5
  <2> HIDE DEF n
  <2>4. QED
    BY <2>1, <2>2, <2>3
<1>6. action.type = "raise" => n + game.numPlayers <= MAX_NUM_ACTIONS
  BY <1>1 DEF raiseIsValid
<1>7. QED
  BY <1>4, <1>5, <1>6 DEF ActionAsserts

(* What isValidAction() corrects is valid as it is then: raises of a       *)
(* no-limit game get a size within the range, folds and calls have none.   *)
LEMMA FixedActionIsValid ==
  ASSUME NEW game, IsGame(game), NEW state, Sound(game, state),
         NEW asked \in AskedActions, isValidAction(game, state, TRUE, asked)
  PROVE  LET done == fixAction(game, state, asked)
         IN  /\ done \in AskedActions /\ done.type = asked.type
             /\ isValidAction(game, state, FALSE, done)
             /\ asked.type # "raise" => done.size = 0
             /\ asked.type = "raise" /\ game.bettingType = "nolimit" => done.size \in Chips
             /\ asked.type = "raise" /\ game.bettingType # "nolimit" => done = asked
<1> DEFINE done == fixAction(game, state, asked)
           low  == MinRaise(game, state)
           high == MaxRaise(game, state)
<1>1. /\ ~state.finished /\ asked.type \in ActionTypes /\ asked.size \in Int
      /\ asked.type = "raise" => raiseIsValid(game, state)
      /\ asked.type = "fold" => foldIsValid(game, state)
  BY DEF isValidAction, AskedActions
<1>2. asked.type = "raise" => low \in Nat /\ high \in Chips /\ high \in Nat /\ low <= high
  BY <1>1, RaiseRange, LimitsAssumption DEF Chips
<1> HIDE DEF low, high
<1>3. CASE asked.type = "raise" /\ game.bettingType = "nolimit"
  <2> DEFINE size == IF asked.size < low THEN low
                     ELSE IF asked.size > high THEN high ELSE asked.size
  <2>1. done = [asked EXCEPT !.size = size]
    BY <1>3 DEF fixAction, low, high
  <2>2. size \in low..high /\ size \in Chips /\ size \in Int
    BY <1>1, <1>2, <1>3, LimitsAssumption DEF Chips
  <2> HIDE DEF size
  <2>3. done \in AskedActions /\ done.type = asked.type /\ done.size = size
    BY <2>1, <2>2 DEF AskedActions
  <2> HIDE DEF done
  <2>4. isValidAction(game, state, FALSE, done)
    BY <1>1, <1>3, <2>2, <2>3 DEF isValidAction, low, high
  <2>5. QED
    BY <1>3, <2>2, <2>3, <2>4 DEF done
<1>4. CASE asked.type = "raise" /\ game.bettingType # "nolimit"
  <2>1. done = asked
    BY <1>4 DEF fixAction
  <2>2. QED
    BY <1>1, <1>4, <2>1 DEF isValidAction
<1>5. CASE asked.type # "raise"
  <2>1. done = [asked EXCEPT !.size = 0]
    BY <1>5 DEF fixAction
  <2>2. done \in AskedActions /\ done.type = asked.type /\ done.size = 0
    BY <2>1 DEF AskedActions
  <2> HIDE DEF done
  <2>3. isValidAction(game, state, FALSE, done)
    BY <1>1, <1>5, <2>2 DEF isValidAction
  <2>4. QED
    BY <1>5, <2>2, <2>3 DEF done
<1>6. QED
  BY <1>3, <1>4, <1>5

(* In a game that leaves somebody chips a new hand is sound.               *)
LEMMA NewHandIsSound ==
  ASSUME NEW g, IsGame(g), g.numPlayers <= MAX_NUM_ACTIONS,
         \E p \in Players(g) : g.blind[p] < g.stack[p]
  PROVE  Sound(g, initState(g))
<1> DEFINE big == LargestBlind(g)
           s   == initState(g)
<1>1. IsGame(g) /\ g.numPlayers <= MAX_NUM_ACTIONS
  OBVIOUS
<1>2. PICK q \in Players(g) : g.blind[q] < g.stack[q]
  OBVIOUS
<1>3. big \in Chips /\ big \in Nat
  BY <1>1, LargestBlindIsABlind, LimitsAssumption DEF Chips
<1> HIDE DEF big
<1>4. /\ s.round = 0 /\ s.finished = FALSE /\ s.spent = g.blind
      /\ s.maxSpent = big
      /\ s.minNoLimitRaiseTo = IF g.bettingType # "nolimit" THEN 0
                                   ELSE IF big > 0 THEN 2 * big ELSE 1
      /\ s.playerFolded = [p \in Players(g) |-> FALSE]
      /\ s.action = [r \in Rounds(g) |-> << >>]
  BY DEF initState, big
<1>5. 0 \in Rounds(g)
  BY <1>1 DEF IsGame, Rounds
<1>6. WellFormed(g, s)
  <2>1. s \in StateType(g)
    <3>1. /\ [p \in Players(g) |-> FALSE] \in [Players(g) -> BOOLEAN]
          /\ [r \in Rounds(g) |-> << >>] \in [Rounds(g) -> Seq(ActionType(g))]
          /\ (IF g.bettingType # "nolimit" THEN 0
              ELSE IF big > 0 THEN 2 * big ELSE 1) \in Nat
          /\ g.blind \in [Players(g) -> Chips]
      BY <1>1, <1>3 DEF IsGame
    <3>2. QED
      BY <1>3, <1>5, <3>1 DEF StateType, initState, big
  <2>2. QED
    BY <1>1, <1>4, <2>1 DEF WellFormed, IsGame
<1>7. CurrentActions(s) = << >>
  BY <1>4, <1>5 DEF CurrentActions
<1>8. Callers(g, s) = {}
  BY <1>7 DEF Callers
<1>9. numCalled(g, s) = 0
  BY <1>6, <1>7, CallersCount DEF WellFormed
<1>10. q \in ActingPlayers(g, s)
  BY <1>1, <1>2, <1>4, LimitsAssumption DEF ActingPlayers, AllIn, IsGame, Chips
<1>11. /\ numActingPlayers(g, s) \in Nat
       /\ numActingPlayers(g, s) # 0
       /\ numActingPlayers(g, s) <= g.numPlayers
  <2>1. ActingPlayers(g, s) \subseteq Players(g)
    BY DEF ActingPlayers
  <2>2. QED
    BY <1>1, <1>10, <2>1, ActingPlayersCount, FS_Subset DEF numActingPlayers
<1>12. Open(g, s)
  BY <1>9, <1>11 DEF Open
<1>13. Room(g, s)
  <2>1. Len(CurrentActions(s)) = 0
    BY <1>7
  <2>2. QED
    BY <1>1, <1>9, <1>11, <2>1, LimitsAssumption DEF Room, IsGame
<1>14. CallersMatchBet(g, s)
  BY <1>8 DEF CallersMatchBet
<1>15. RaisesAreRaises(g, s)
  BY <1>3, <1>4 DEF RaisesAreRaises
<1>16. QED
  BY <1>6, <1>12, <1>13, <1>14, <1>15 DEF Sound

(* What a valid action leaves before doAction() looks whether betting      *)
(* closed.                                                                 *)
LEMMA ValidActionPlays ==
  ASSUME NEW game, IsGame(game), NEW state, Sound(game, state),
         NEW action \in AskedActions, isValidAction(game, state, FALSE, action)
  PROVE  LET after == Played(game, state, action)
         IN  /\ WellFormed(game, after)
             /\ MovesChips(game, state, action, after)
             /\ CallersMatchBet(game, after) /\ Room(game, after)
             /\ ~after.finished
<1> DEFINE after == Played(game, state, action)
<1>1. ~state.finished
  BY DEF isValidAction
<1>2. /\ ActionAsserts(game, state, action)
      /\ action.type = "raise" =>
           Len(CurrentActions(state)) + game.numPlayers <= MAX_NUM_ACTIONS
  BY ValidActionIsSafe
<1>3. /\ WellFormed(game, state) /\ Room(game, state)
      /\ ActingPlayers(game, state) # {} /\ CallersMatchBet(game, state)
  BY <1>1, OpenHandHasActor DEF Sound
<1>4. WellFormed(game, after) /\ MovesChips(game, state, action, after)
  BY <1>2, <1>3, PlayedEffect
<1>5. CallersMatchBet(game, after)
  BY <1>2, <1>3, PlayedCallers
<1>6. Room(game, after)
  BY <1>2, <1>3, PlayedRoom
<1>7. ~after.finished
  BY <1>1, <1>4 DEF MovesChips
<1>8. QED
  BY <1>4, <1>5, <1>6, <1>7

(* A whole doAction() keeps Sound.                                         *)
LEMMA ValidActionKeepsSound ==
  ASSUME NEW game, IsGame(game), game.numPlayers <= MAX_NUM_ACTIONS,
         NEW state, Sound(game, state),
         NEW action \in AskedActions, isValidAction(game, state, FALSE, action)
  PROVE  Sound(game, doAction(game, state, action))
<1> DEFINE after == Played(game, state, action)
           done  == doAction(game, state, action)
<1>1. /\ ActionAsserts(game, state, action)
      /\ WellFormed(game, after) /\ ~after.finished
      /\ MovesChips(game, state, action, after)
      /\ CallersMatchBet(game, after) /\ Room(game, after)
      /\ done = Closed(game, after)
  BY ValidActionPlays, ValidActionIsSafe DEF doAction
<1> HIDE DEF done
<1>2. /\ WellFormed(game, done)
      /\ ~done.finished => Open(game, done)
      /\ done.maxSpent = after.maxSpent
      /\ \/ done.minNoLimitRaiseTo = after.minNoLimitRaiseTo
         \/ done.minNoLimitRaiseTo =
              Max({1, LargestBlind(game)}) + after.maxSpent
  <2>1. ClosesTo(game, after, done)
    BY <1>1, ClosedEffect
  <2>2. QED
    BY <2>1, Zenon DEF ClosesTo
<1>3. CallersMatchBet(game, done) /\ Room(game, done)
  BY <1>1, ClosedCallers
<1>4. game.bettingType = "nolimit" => after.maxSpent < after.minNoLimitRaiseTo
  <2>1. /\ state.maxSpent \in Int /\ state.minNoLimitRaiseTo \in Int
        /\ action.size \in Int
    BY LimitsAssumption DEF Sound, WellFormed, StateType, Chips, AskedActions
  <2>2. CASE action.type = "raise" /\ game.bettingType = "nolimit"
    <3>1. action.size > state.maxSpent
      BY <1>1, <2>2 DEF ActionAsserts
    <3>2. /\ after.maxSpent = action.size
          /\ after.minNoLimitRaiseTo = NextMinRaiseTo(game, state, action)
      BY <1>1, <2>2 DEF MovesChips, RaisedTo
    <3>3. NextMinRaiseTo(game, state, action) >= 2 * action.size - state.maxSpent
      BY <2>1, <2>2 DEF NextMinRaiseTo
    <3>4. NextMinRaiseTo(game, state, action) \in Int
      BY <2>1 DEF NextMinRaiseTo
    <3>5. QED
      BY <2>1, <3>1, <3>2, <3>3, <3>4
  <2>3. CASE action.type # "raise"
    <3>1. /\ after.maxSpent = state.maxSpent
          /\ after.minNoLimitRaiseTo = state.minNoLimitRaiseTo
      BY <1>1, <2>3 DEF MovesChips
    <3>2. QED
      BY <3>1 DEF Sound, RaisesAreRaises
  <2>4. QED
    BY <2>2, <2>3
<1>5. RaisesAreRaises(game, done)
  <2>1. after.maxSpent \in Nat
    BY <1>1, LimitsAssumption DEF WellFormed, StateType, Chips
  <2>2. QED
    BY <1>1, <1>2, <1>4, <2>1, SmallestOpeningBet DEF RaisesAreRaises
<1>6. QED
  BY <1>1, <1>2, <1>3, <1>5 DEF Sound, done

-----------------------------------------------------------------------------
(* What printBetting() writes of a state: the actions without their        *)
(* players, round after round.                                             *)

Shown(acts) ==
  [i \in DOMAIN acts |-> [type |-> acts[i].type, size |-> acts[i].size]]

Betted == Seq(AskedActions)

IsPrinting(s, f) ==
  /\ f[0] = << >>
  /\ \A i \in 1..s.round + 1 : f[i] = f[i - 1] \o Shown(s.action[i - 1])

(* The actions of a round are written one for one.                         *)
LEMMA ShownIsBetted ==
  ASSUME NEW g, NEW acts \in Seq(ActionType(g))
  PROVE  Shown(acts) \in Betted /\ Len(Shown(acts)) = Len(acts)
<1>1. PICK n \in Nat : n = Len(acts) /\ DOMAIN acts = 1..n
  OBVIOUS
<1>2. ASSUME NEW i \in 1..n
      PROVE  [type |-> acts[i].type, size |-> acts[i].size] \in AskedActions
  <2>1. acts[i] \in ActionType(g)
    BY <1>1
  <2>2. QED
    BY <2>1 DEF ActionType, AskedActions
<1>3. Shown(acts) \in [1..n -> AskedActions]
  BY <1>1, <1>2 DEF Shown
<1>4. Shown(acts) \in Betted
  BY <1>3, SeqDef DEF Betted
<1>5. Len(Shown(acts)) = n
  <2>1. DOMAIN Shown(acts) = 1..Len(Shown(acts)) /\ Len(Shown(acts)) \in Nat
    BY <1>4 DEF Betted
  <2>2. DOMAIN Shown(acts) = 1..n
    BY <1>3
  <2>3. PICK k \in Nat : k = Len(Shown(acts)) /\ 1..k = 1..n
    BY <2>1, <2>2
  <2>4. k = n
    BY <2>3
  <2>5. QED
    BY <2>3, <2>4
<1>6. QED
  BY <1>1, <1>4, <1>5

(* printBetting() adds one round after the other.                          *)
LEMMA BettingIsPrinted ==
  ASSUME NEW g, IsGame(g), NEW s \in StateType(g)
  PROVE  \E f \in [0..s.round + 1 -> Betted] :
           IsPrinting(s, f) /\ printBetting(s) = f[s.round + 1]
<1> DEFINE acts(i) == Shown(s.action[i - 1])
<1>1. PICK n \in Nat : n = s.round + 1
  BY DEF StateType, Rounds
<1>2. \A i \in 1..n : acts(i) \in Betted
  <2>1. TAKE i \in 1..n
  <2>2. i - 1 \in Rounds(g)
    <3>1. s.round \in Rounds(g) /\ g.numRounds \in Nat
      BY DEF StateType, IsGame
    <3>2. QED
      BY <1>1, <3>1 DEF Rounds
  <2>3. s.action[i - 1] \in Seq(ActionType(g))
    BY <2>2 DEF StateType
  <2>4. QED
    BY <2>3, ShownIsBetted
<1> DEFINE step == [x \in Betted \X (1..n) |-> x[1] \o acts(x[2])]
           Body(h) == h = [i \in 0..n |->
                             IF i = 0 THEN << >>
                             ELSE h[i - 1] \o
                                    [j \in DOMAIN s.action[i - 1] |->
                                       [type |-> s.action[i - 1][j].type,
                                        size |-> s.action[i - 1][j].size]]]
<1>3. << >> \in Betted /\ \A a, b \in Betted : a \o b \in Betted
  BY DEF Betted
<1>4. step \in [Betted \X (1..n) -> Betted]
  <2> HIDE DEF acts
  <2>1. QED
    BY <1>2, <1>3
<1>5. PICK f \in [0..n -> Betted] :
        f[0] = << >> /\ \A i \in 1..n : f[i] = step[<<f[i - 1], i>>]
  <2> HIDE DEF step
  <2>1. PICK e : e = << >>
    OBVIOUS
  <2>2. StepsIn(Betted, e, n, step)
    BY <1>3, <1>4, <2>1 DEF StepsIn
  <2>3. PICK f : IsSteps(Betted, e, n, step, f)
    BY <2>2, StepByStep
  <2>4. QED
    BY <2>1, <2>3 DEF IsSteps
<1>6. \A i \in 1..n : f[i] = f[i - 1] \o acts(i)
  <2> HIDE DEF acts
  <2>1. TAKE i \in 1..n
  <2>2. f[i - 1] \in Betted
    BY <1>5
  <2>3. QED
    BY <1>5, <2>2
<1>7. Body(f)
  <2>1. f = [i \in 0..n |-> f[i]]
    OBVIOUS
  <2>2. \A i \in 0..n : i = 0 \/ i \in 1..n
    OBVIOUS
  <2>3. QED
    BY <1>5, <1>6, <2>1, <2>2 DEF Shown
<1>8. PICK h : Body(h) /\ printBetting(s) = h[n]
  <2>1. printBetting(s) = (CHOOSE h : Body(h))[n]
    BY <1>1 DEF printBetting
  <2>2. Body(CHOOSE h : Body(h))
    BY <1>7, Zenon
  <2>3. QED
    BY <2>1, <2>2
<1>9. h[0] = << >> /\ \A i \in 1..n : h[i] = h[i - 1] \o acts(i)
  <2>1. h[0] = << >>
    <3>1. 0 \in 0..n
      BY <1>1
    <3>2. QED
      BY <1>8, <3>1, Zenon
  <2>2. ASSUME NEW i \in 1..n
        PROVE  h[i] = h[i - 1] \o acts(i)
    <3>1. i \in 0..n /\ i # 0
      OBVIOUS
    <3>2. QED
      BY <1>8, <3>1 DEF Shown
  <2>3. QED
    BY <2>1, <2>2
<1>10. GoOnAlike(n, f, h)
  <2>1. f[0] = h[0]
    BY <1>5, <1>9, Zenon
  <2>2. ASSUME NEW i \in 1..n, f[i - 1] = h[i - 1]
        PROVE  f[i] = h[i]
    <3> HIDE DEF acts
    <3>1. f[i] = f[i - 1] \o acts(i) /\ h[i] = h[i - 1] \o acts(i)
      BY <1>6, <1>9, Zenon
    <3>2. QED
      BY <2>2, <3>1, Zenon
  <2>3. QED
    BY <2>1, <2>2, Zenon DEF GoOnAlike
<1>11. \A i \in 0..n : f[i] = h[i]
  BY <1>10, SameSteps
<1>12. printBetting(s) = f[n]
  BY <1>8, <1>11
<1>13. IsPrinting(s, f)
  BY <1>1, <1>5, <1>6 DEF IsPrinting
<1>14. QED
  BY <1>1, <1>12, <1>13

(* The betting that printBetting() writes is a sequence of actions.        *)
LEMMA BettingIsASequence ==
  ASSUME NEW g, IsGame(g), NEW s \in StateType(g)
  PROVE  printBetting(s) \in Betted
<1>1. PICK n \in Nat : n = s.round + 1
  BY DEF StateType, Rounds
<1>2. PICK f \in [0..n -> Betted] : printBetting(s) = f[n]
  BY <1>1, BettingIsPrinted
<1>3. QED
  BY <1>1, <1>2

(* Of a new hand there is nothing to write.                                *)
LEMMA NewBettingIsEmpty ==
  ASSUME NEW g, IsGame(g), Sound(g, initState(g))
  PROVE  printBetting(initState(g)) = << >>
<1>1. PICK s \in StateType(g) : s = initState(g)
  BY DEF Sound, WellFormed
<1>2. s.round = 0 /\ s.action[0] = << >>
  <2>1. 0 \in Rounds(g)
    BY DEF IsGame, Rounds
  <2>2. QED
    BY <1>1, <2>1 DEF initState
<1>7. PICK n \in Nat : n = s.round + 1 /\ n = 1
  BY <1>2
<1>3. PICK f \in [0..n -> Betted] : IsPrinting(s, f) /\ printBetting(s) = f[n]
  BY <1>7, BettingIsPrinted
<1>4. f[1] = << >> \o Shown(<< >>)
  <2>1. 1 \in 1..s.round + 1 /\ 1 - 1 = 0
    BY <1>7
  <2>2. f[1] = f[0] \o Shown(s.action[0]) /\ f[0] = << >>
    BY <1>3, <2>1 DEF IsPrinting
  <2>3. QED
    BY <1>2, <2>2
<1>5. Shown(<< >>) = << >>
  BY DEF Shown
<1>6. QED
  BY <1>1, <1>3, <1>4, <1>5, <1>7

(* What is appended to the second part is appended to the whole.           *)
LEMMA AppendToTheEnd ==
  ASSUME NEW S, NEW a \in Seq(S), NEW b \in Seq(S), NEW e \in S
  PROVE  a \o Append(b, e) = Append(a \o b, e)
<1>1. /\ a \o Append(b, e) \in Seq(S) /\ Append(a \o b, e) \in Seq(S)
      /\ Len(a \o Append(b, e)) = Len(a) + Len(b) + 1
      /\ Len(Append(a \o b, e)) = Len(a) + Len(b) + 1
  OBVIOUS
<1>2. \A i \in 1..Len(a) + Len(b) + 1 : (a \o Append(b, e))[i] = Append(a \o b, e)[i]
  OBVIOUS
<1>3. QED
  BY <1>1, <1>2, SeqEqual

(* One action more is printed as one action more.                          *)
LEMMA LongerIsShown ==
  ASSUME NEW g, NEW acts \in Seq(ActionType(g)), NEW entry \in ActionType(g),
         NEW action \in AskedActions,
         entry.type = action.type, entry.size = action.size
  PROVE  Shown(Append(acts, entry)) = Append(Shown(acts), action)
<1>1. PICK n \in Nat : n = Len(acts) /\ DOMAIN acts = 1..n
  OBVIOUS
<1>10. PICK longer : longer = Append(acts, entry)
  OBVIOUS
<1>2. /\ DOMAIN longer = 1..n + 1 /\ longer[n + 1] = entry
      /\ \A i \in 1..n : longer[i] = acts[i]
  BY <1>1, <1>10
<1>3. PICK a \in Betted : a = Shown(acts) /\ Len(a) = n
  BY <1>1, ShownIsBetted
<1>4. action = [type |-> action.type, size |-> action.size]
  BY DEF AskedActions
<1>11. PICK b : b = Append(a, action)
  OBVIOUS
<1>5. /\ b \in [1..n + 1 -> AskedActions] /\ b[n + 1] = action
      /\ \A i \in 1..n : b[i] = a[i]
  <2>1. b \in Seq(AskedActions) /\ Len(b) = n + 1
    BY <1>3, <1>11 DEF Betted
  <2>2. DOMAIN b = 1..n + 1 /\ b \in [1..Len(b) -> AskedActions]
    BY <2>1
  <2>3. b[n + 1] = action /\ \A i \in 1..n : b[i] = a[i]
    BY <1>3, <1>11 DEF Betted
  <2>4. QED
    BY <2>1, <2>2, <2>3
<1>6. ASSUME NEW i \in 1..n + 1
      PROVE  [type |-> longer[i].type, size |-> longer[i].size] = b[i]
  <2>1. CASE i = n + 1
    BY <1>2, <1>4, <1>5, <2>1
  <2>2. CASE i \in 1..n
    <3>1. a[i] = [type |-> acts[i].type, size |-> acts[i].size]
      BY <1>1, <1>3, <2>2 DEF Shown
    <3>2. QED
      BY <1>2, <1>5, <2>2, <3>1
  <2>3. QED
    BY <1>1, <2>1, <2>2
<1>7. Shown(longer) = [i \in 1..n + 1 |-> b[i]]
  BY <1>2, <1>6 DEF Shown
<1>8. b = [i \in 1..n + 1 |-> b[i]]
  BY <1>5
<1>9. QED
  BY <1>3, <1>7, <1>8, <1>10, <1>11

(* Whatever round doAction() goes on to, the betting is longer by the      *)
(* action: rounds that nobody bets in add nothing.                         *)
LEMMA ActionIsPrinted ==
  ASSUME NEW g, IsGame(g), NEW s, Sound(g, s), g.numPlayers <= MAX_NUM_ACTIONS,
         NEW action \in AskedActions, isValidAction(g, s, FALSE, action)
  PROVE  printBetting(doAction(g, s, action)) = Append(printBetting(s), action)
<1>1. PICK after, next : after = Played(g, s, action) /\ next = doAction(g, s, action)
  OBVIOUS
<1>2. /\ s \in StateType(g) /\ next \in StateType(g)
      /\ \A r \in Rounds(g) : r > s.round => s.action[r] = << >>
  BY <1>1, ValidActionKeepsSound DEF Sound, WellFormed
<1>3. PICK entry \in ActionType(g) :
        /\ after.action = [s.action EXCEPT ![s.round] = Append(@, entry)]
        /\ entry.type = action.type /\ entry.size = action.size
  <2>1. MovesChips(g, s, action, after) /\ ~s.finished
    BY <1>1, ValidActionPlays DEF isValidAction
  <2>2. PICK p \in Players(g) : p = currentPlayer(g, s)
    BY <2>1, OpenHandHasActor
  <2>3. [type |-> action.type, size |-> action.size, player |-> p] \in ActionType(g)
    BY DEF ActionType, AskedActions
  <2>4. QED
    BY <2>1, <2>2, <2>3 DEF MovesChips
<1>4. next.action = after.action /\ next.round >= s.round
  <2>1. /\ MovesChips(g, s, action, after) /\ WellFormed(g, after) /\ ~after.finished
    BY <1>1, ValidActionPlays
  <2>2. after.round = s.round /\ next = Closed(g, after)
    BY <1>1, <2>1 DEF MovesChips, doAction
  <2>3. ClosesTo(g, after, next)
    BY <2>1, <2>2, ClosedEffect
  <2>4. QED
    BY <2>2, <2>3, Zenon DEF ClosesTo
<1>5. PICK r \in Nat : r = s.round /\ r \in Rounds(g)
  BY <1>2 DEF StateType, Rounds
<1>6. PICK f \in [0..r + 1 -> Betted] :
        IsPrinting(s, f) /\ printBetting(s) = f[r + 1]
  BY <1>2, <1>5, BettingIsPrinted
<1>7. PICK q \in Nat : q = next.round /\ q \in Rounds(g)
  BY <1>2 DEF StateType, Rounds
<1>8. PICK h \in [0..q + 1 -> Betted] :
        IsPrinting(next, h) /\ printBetting(next) = h[q + 1]
  BY <1>2, <1>7, BettingIsPrinted
<1>9. \A i \in Rounds(g) : i # r => next.action[i] = s.action[i]
  BY <1>2, <1>3, <1>4, <1>5 DEF StateType
<1>17. g.numRounds \in Int /\ r < g.numRounds /\ q < g.numRounds /\ r <= q
  <2>1. g.numRounds \in Int
    BY DEF IsGame
  <2>2. QED
    BY <1>4, <1>5, <1>7, <2>1 DEF Rounds
<1>10. GoOnAlike(r, f, h)
  <2>1. \A i \in 1..r : i - 1 \in Rounds(g) /\ i - 1 # r
    BY <1>5, <1>17 DEF Rounds
  <2>2. \A i \in 1..r : i \in 1..s.round + 1 /\ i \in 1..next.round + 1
    BY <1>5, <1>7, <1>17
  <2>3. QED
    BY <1>6, <1>8, <1>9, <2>1, <2>2 DEF GoOnAlike, IsPrinting
<1>11. f[r] = h[r]
  BY <1>10, SameSteps
<1>12. PICK acts \in Seq(ActionType(g)) :
         acts = s.action[r] /\ next.action[r] = Append(acts, entry)
  <2>1. s.action \in [Rounds(g) -> Seq(ActionType(g))]
    BY <1>2 DEF StateType
  <2>2. next.action = [s.action EXCEPT ![r] = Append(s.action[r], entry)]
    BY <1>3, <1>4, <1>5
  <2>3. next.action[r] = Append(s.action[r], entry)
    BY <1>5, <2>1, <2>2
  <2>4. QED
    BY <1>5, <2>1, <2>3
<1>13. /\ f[r + 1] = f[r] \o Shown(acts)
       /\ h[r + 1] = h[r] \o Shown(Append(acts, entry))
  <2>1. r + 1 \in 1..s.round + 1 /\ r + 1 \in 1..next.round + 1 /\ r + 1 - 1 = r
    BY <1>5, <1>7, <1>17
  <2>2. /\ f[r + 1] = f[r] \o Shown(s.action[r])
        /\ h[r + 1] = h[r] \o Shown(next.action[r])
    <3>4. PICK k : k = r + 1
      OBVIOUS
    <3>5. k - 1 = r
      BY <3>4
    <3>1. k = r + 1 /\ k - 1 = r /\ k \in 1..s.round + 1 /\ k \in 1..next.round + 1
      BY <2>1, <3>4, <3>5, Zenon
    <3>2. /\ f[k] = f[k - 1] \o Shown(s.action[k - 1])
          /\ h[k] = h[k - 1] \o Shown(next.action[k - 1])
      <4>1. \A i \in 1..s.round + 1 : f[i] = f[i - 1] \o Shown(s.action[i - 1])
        BY <1>6, Zenon DEF IsPrinting
      <4>2. \A i \in 1..next.round + 1 : h[i] = h[i - 1] \o Shown(next.action[i - 1])
        BY <1>8, Zenon DEF IsPrinting
      <4>3. k \in 1..s.round + 1 /\ k \in 1..next.round + 1
        BY <3>1, Zenon
      <4>4. QED
        BY <4>1, <4>2, <4>3, Zenon
    <3>3. QED
      BY <3>1, <3>2, Zenon
  <2>3. QED
    BY <1>12, <2>2
<1>14. Shown(acts) \in Betted /\ Shown(Append(acts, entry)) = Append(Shown(acts), action)
  BY <1>3, ShownIsBetted, LongerIsShown
<1>15. h[r + 1] = Append(f[r + 1], action)
  <2>1. PICK a \in Betted, b \in Betted : a = f[r] /\ b = Shown(acts)
    BY <1>6, <1>14
  <2>2. a \o Append(b, action) = Append(a \o b, action)
    <3>1. a \in Seq(AskedActions) /\ b \in Seq(AskedActions)
      BY DEF Betted
    <3>2. QED
      BY <3>1, AppendToTheEnd
  <2>3. QED
    BY <1>11, <1>13, <1>14, <2>1, <2>2
<1>16. h[q + 1] = h[r + 1]
  <2>1. PICK e, tail : e = h[r + 1] /\ tail = [i \in 0..q - r |-> h[r + 1 + i]]
    OBVIOUS
  <2>2. PICK level : level = [i \in 0..q - r |-> e]
    OBVIOUS
  <2>3. PICK d \in Nat : d = q - r
    BY <1>17
  <2>4. ASSUME NEW i \in 1..d
        PROVE  h[r + 1 + i] = h[r + 1 + (i - 1)]
    <3>1. PICK k \in Nat : k = r + i
      OBVIOUS
    <3>9. k > r /\ k # r /\ k <= q
      BY <1>17, <2>3, <3>1
    <3>2. k \in Rounds(g) /\ k + 1 \in 1..next.round + 1 /\ k + 1 - 1 = k
      <4>1. k \in Rounds(g)
        BY <1>17, <3>9 DEF Rounds
      <4>2. k + 1 \in 1..next.round + 1 /\ k + 1 - 1 = k
        BY <1>7, <3>9
      <4>3. QED
        BY <4>1, <4>2
    <3>3. next.action[k] = << >>
      BY <1>2, <1>5, <1>9, <3>2, <3>9
    <3>4. h[k + 1] = h[k] \o Shown(<< >>)
      <4>1. PICK j : j = k + 1
        OBVIOUS
      <4>2. j \in 1..next.round + 1 /\ j - 1 = k
        BY <3>2, <4>1
      <4>3. h[j] = h[j - 1] \o Shown(next.action[j - 1])
        BY <1>8, <4>2 DEF IsPrinting
      <4>4. QED
        BY <3>3, <4>1, <4>2, <4>3
    <3>5. Shown(<< >>) = << >>
      BY DEF Shown
    <3>8. h[k] \in Betted
      <4>1. k \in 0..q + 1
        BY <1>7, <3>9
      <4>2. QED
        BY <1>8, <4>1
    <3>6. h[k + 1] = h[k]
      BY <3>4, <3>5, <3>8, ConcatEmptySeq DEF Betted
    <3>7. r + 1 + i = k + 1 /\ r + 1 + (i - 1) = k
      BY <3>1
    <3>10. QED
      BY <3>6, <3>7
  <2>5. GoOnAlike(d, level, tail)
    <3>1. level[0] = tail[0]
      BY <2>1, <2>2, <2>3
    <3>2. \A i \in 1..d : level[i] = level[i - 1] /\ tail[i] = tail[i - 1]
      <4>1. TAKE i \in 1..d
      <4>2. i \in 0..q - r /\ i - 1 \in 0..q - r
        BY <2>3
      <4>3. QED
        BY <2>1, <2>2, <2>4, <4>2
    <3>3. QED
      BY <3>1, <3>2 DEF GoOnAlike
  <2>6. level[d] = tail[d]
    BY <2>5, SameSteps
  <2>7. level[d] = e /\ tail[d] = h[r + 1 + d] /\ r + 1 + d = q + 1
    BY <2>1, <2>2, <2>3
  <2>8. QED
    BY <2>1, <2>6, <2>7
<1>18. QED
  BY <1>1, <1>6, <1>8, <1>15, <1>16

-----------------------------------------------------------------------------
(* readBetting() plays what printBetting() wrote, action by action.        *)

(* What readBetting() may return.                                          *)
Readings(g) == {<< >>} \union {<<s>> : s \in {t \in StateType(g) : Sound(g, t)}}

ReadNext(g, before, action) ==
  IF before # << >> /\ isValidAction(g, before[1], FALSE, action)
    THEN <<doAction(g, before[1], fixAction(g, before[1], action))>>
    ELSE << >>

IsReading(g, betting, f) ==
  /\ f[0] = <<initState(g)>>
  /\ \A i \in 1..Len(betting) : f[i] = ReadNext(g, f[i - 1], betting[i])

(* A valid action is corrected into a valid one, so that what is read is   *)
(* a sound state or nothing.                                               *)
LEMMA ReadStaysRead ==
  ASSUME NEW g, IsGame(g), g.numPlayers <= MAX_NUM_ACTIONS,
         NEW before \in Readings(g), NEW action \in AskedActions
  PROVE  ReadNext(g, before, action) \in Readings(g)
<1>1. CASE before = << >> \/ ~isValidAction(g, before[1], FALSE, action)
  BY <1>1 DEF ReadNext, Readings
<1>2. CASE before # << >> /\ isValidAction(g, before[1], FALSE, action)
  <2>1. PICK s \in StateType(g) : before = <<s>> /\ Sound(g, s)
    BY <1>2 DEF Readings
  <2>2. isValidAction(g, s, FALSE, action) /\ before[1] = s
    BY <1>2, <2>1
  <2>3. isValidAction(g, s, TRUE, action)
    BY <2>2 DEF isValidAction
  <2>4. PICK done \in AskedActions :
          done = fixAction(g, s, action) /\ isValidAction(g, s, FALSE, done)
    BY <2>1, <2>3, FixedActionIsValid
  <2>5. PICK next : next = doAction(g, s, done) /\ Sound(g, next)
    BY <2>1, <2>4, ValidActionKeepsSound
  <2>6. next \in StateType(g)
    BY <2>5 DEF Sound, WellFormed
  <2>7. ReadNext(g, before, action) = <<next>>
    BY <1>2, <2>2, <2>4, <2>5 DEF ReadNext
  <2>8. QED
    BY <2>5, <2>6, <2>7 DEF Readings
<1>3. QED
  BY <1>1, <1>2

(* readBetting() goes through the betting one action after the other.      *)
LEMMA BettingIsRead ==
  ASSUME NEW g, IsGame(g), g.numPlayers <= MAX_NUM_ACTIONS, Sound(g, initState(g)),
         NEW betting \in Betted
  PROVE  \E f \in [0..Len(betting) -> Readings(g)] :
           IsReading(g, betting, f) /\ readBetting(g, betting) = f[Len(betting)]
<1>0. PICK n \in Nat : n = Len(betting)
  BY DEF Betted
<1>12. PICK start : start = <<initState(g)>>
  OBVIOUS
<1> DEFINE step == [x \in Readings(g) \X (1..n) |-> ReadNext(g, x[1], betting[x[2]])]
           Body(h) == h = [i \in 0..n |->
                             IF i = 0 THEN start
                             ELSE LET before == h[i - 1]
                                  IN  IF before # << >> /\ isValidAction(g, before[1], FALSE, betting[i])
                                        THEN <<doAction(g, before[1],
                                                 fixAction(g, before[1], betting[i]))>>
                                        ELSE << >>]
<1>1. \A i \in 1..n : betting[i] \in AskedActions
  BY <1>0 DEF Betted
<1>2. start \in Readings(g)
  <2>1. initState(g) \in StateType(g)
    BY DEF Sound, WellFormed
  <2>2. QED
    BY <1>12, <2>1 DEF Readings
<1>3. step \in [Readings(g) \X (1..n) -> Readings(g)]
  BY <1>1, ReadStaysRead
<1>4. PICK f \in [0..n -> Readings(g)] :
        f[0] = start /\ \A i \in 1..n : f[i] = step[<<f[i - 1], i>>]
  <2> HIDE DEF step
  <2>1. StepsIn(Readings(g), start, n, step)
    BY <1>2, <1>3 DEF StepsIn
  <2>2. PICK f : IsSteps(Readings(g), start, n, step, f)
    BY <2>1, StepByStep
  <2>3. QED
    BY <2>2 DEF IsSteps
<1>5. \A i \in 1..n : f[i] = ReadNext(g, f[i - 1], betting[i])
  <2>1. TAKE i \in 1..n
  <2>2. f[i - 1] \in Readings(g)
    BY <1>1, <1>4
  <2>3. QED
    BY <1>4, <2>2
<1>6. Body(f)
  <2>1. f = [i \in 0..n |-> f[i]]
    OBVIOUS
  <2>2. \A i \in 0..n : i = 0 \/ i \in 1..n
    BY <1>1
  <2>3. QED
    BY <1>4, <1>5, <2>1, <2>2 DEF ReadNext
<1>7. PICK h : Body(h) /\ readBetting(g, betting) = h[n]
  <2>1. readBetting(g, betting) = (CHOOSE h : Body(h))[n]
    BY <1>0, <1>12 DEF readBetting
  <2>2. Body(CHOOSE h : Body(h))
    BY <1>6, Zenon
  <2>3. QED
    BY <2>1, <2>2
<1>8. h[0] = start /\ \A i \in 1..n : h[i] = ReadNext(g, h[i - 1], betting[i])
  BY <1>7 DEF ReadNext
<1>9. \A i \in 0..n : f[i] = h[i]
  <2>1. f[0] = h[0]
    BY <1>4, <1>8
  <2>2. \A i \in 1..n : f[i - 1] = h[i - 1] => f[i] = h[i]
    BY <1>5, <1>8
  <2>3. GoOnAlike(n, f, h)
    BY <2>1, <2>2 DEF GoOnAlike
  <2>4. QED
    BY <2>3, SameSteps
<1>10. readBetting(g, betting) = f[n]
  BY <1>7, <1>9
<1>11. QED
  BY <1>0, <1>4, <1>5, <1>10, <1>12 DEF IsReading

(* No betting is that of a new hand.                                       *)
LEMMA NothingRead ==
  ASSUME NEW g, IsGame(g), g.numPlayers <= MAX_NUM_ACTIONS, Sound(g, initState(g))
  PROVE  readBetting(g, << >>) = <<initState(g)>>
<1>0. PICK none : none = << >>
  OBVIOUS
<1>1. Len(none) = 0 /\ none \in Betted
  BY <1>0 DEF Betted
<1>2. PICK f : IsReading(g, none, f) /\ readBetting(g, none) = f[Len(none)]
  BY <1>1, BettingIsRead
<1>3. readBetting(g, none) = <<initState(g)>>
  BY <1>1, <1>2 DEF IsReading
<1>4. QED
  BY <1>0, <1>3

(* An action more is one step of readBetting() more.                       *)
LEMMA OneMoreRead ==
  ASSUME NEW g, IsGame(g), g.numPlayers <= MAX_NUM_ACTIONS, Sound(g, initState(g)),
         NEW betting \in Betted, NEW action \in AskedActions
  PROVE  readBetting(g, Append(betting, action))
           = ReadNext(g, readBetting(g, betting), action)
<1>0. PICK n \in Nat : n = Len(betting)
  BY DEF Betted
<1>8. PICK longer : longer = Append(betting, action)
  OBVIOUS
<1>1. /\ longer \in Betted /\ Len(longer) = n + 1
      /\ longer[n + 1] = action /\ \A i \in 1..n : longer[i] = betting[i]
  BY <1>0, <1>8 DEF Betted
<1>2. PICK f \in [0..n -> Readings(g)] :
        IsReading(g, betting, f) /\ readBetting(g, betting) = f[n]
  BY <1>0, BettingIsRead
<1>3. PICK h \in [0..n + 1 -> Readings(g)] :
        IsReading(g, longer, h) /\ readBetting(g, longer) = h[n + 1]
  BY <1>1, BettingIsRead
<1>4. \A i \in 1..n : f[i - 1] = h[i - 1] => f[i] = h[i]
  BY <1>0, <1>1, <1>2, <1>3 DEF IsReading
<1>9. GoOnAlike(n, f, h)
  BY <1>2, <1>3, <1>4 DEF IsReading, GoOnAlike
<1>5. \A i \in 0..n : f[i] = h[i]
  BY <1>9, SameSteps
<1>6. h[n + 1] = ReadNext(g, h[n], action)
  <2>1. n + 1 \in 1..Len(longer) /\ n + 1 - 1 = n
    BY <1>1
  <2>2. QED
    BY <1>1, <1>3, <2>1 DEF IsReading
<1>7. QED
  BY <1>0, <1>2, <1>3, <1>5, <1>6, <1>8

(* A corrected action needs no more correction.                            *)
LEMMA FixedActionStays ==
  ASSUME NEW game, IsGame(game), NEW state, Sound(game, state),
         NEW asked \in AskedActions, isValidAction(game, state, TRUE, asked)
  PROVE  LET done == fixAction(game, state, asked)
         IN  fixAction(game, state, done) = done
<1>1. PICK done \in AskedActions :
        /\ done = fixAction(game, state, asked) /\ done.type = asked.type
        /\ isValidAction(game, state, FALSE, done)
        /\ asked.type # "raise" => done.size = 0
  BY FixedActionIsValid
<1>2. done = [done EXCEPT !.size = done.size]
  BY DEF AskedActions
<1>3. CASE done.type # "raise"
  BY <1>1, <1>2, <1>3 DEF fixAction
<1>4. CASE done.type = "raise" /\ game.bettingType # "nolimit"
  BY <1>4 DEF fixAction
<1>5. CASE done.type = "raise" /\ game.bettingType = "nolimit"
  <2>1. done.size \in MinRaise(game, state)..MaxRaise(game, state)
    BY <1>1, <1>5 DEF isValidAction
  <2>2. raiseIsValid(game, state) /\ ~state.finished
    BY <1>1, <1>5 DEF isValidAction
  <2>3. MinRaise(game, state) \in Int /\ MaxRaise(game, state) \in Int
    BY <2>2, RaiseRange, LimitsAssumption DEF Chips
  <2>4. ~(done.size < MinRaise(game, state)) /\ ~(done.size > MaxRaise(game, state))
    BY <2>1, <2>3
  <2>5. fixAction(game, state, done) = [done EXCEPT !.size = done.size]
    BY <1>5, <2>4 DEF fixAction
  <2>6. QED
    BY <1>1, <1>2, <2>5
<1>6. QED
  BY <1>1, <1>3, <1>4, <1>5

(* Reading what was printed gives the state back, before an action and     *)
(* after it.                                                               *)
LEMMA ReadBackGoesOn ==
  ASSUME NEW g, IsGame(g), g.numPlayers <= MAX_NUM_ACTIONS, Sound(g, initState(g)),
         NEW s, Sound(g, s), readBetting(g, printBetting(s)) = <<s>>,
         NEW asked \in AskedActions, isValidAction(g, s, TRUE, asked),
         NEW next, next = doAction(g, s, fixAction(g, s, asked))
  PROVE  readBetting(g, printBetting(next)) = <<next>>
<1>1. PICK done \in AskedActions :
        /\ done = fixAction(g, s, asked) /\ isValidAction(g, s, FALSE, done)
        /\ fixAction(g, s, done) = done
  BY FixedActionIsValid, FixedActionStays
<1>2. PICK b \in Betted : b = printBetting(s)
  BY BettingIsASequence DEF Sound, WellFormed
<1>3. printBetting(next) = Append(b, done)
  BY <1>1, <1>2, ActionIsPrinted
<1>4. readBetting(g, Append(b, done)) = ReadNext(g, <<s>>, done)
  BY <1>2, OneMoreRead
<1>5. ReadNext(g, <<s>>, done) = <<doAction(g, s, done)>>
  <2>1. <<s>> # << >> /\ <<s>>[1] = s
    OBVIOUS
  <2>2. QED
    BY <1>1, <2>1 DEF ReadNext
<1>6. QED
  BY <1>1, <1>3, <1>4, <1>5

-----------------------------------------------------------------------------
(* Settlement.                                                             *)

(* The number every value is multiplied by divides by every table size.    *)
LEMMA SharesAreMultiples ==
  ASSUME NEW game, IsGame(game)
  PROVE  /\ Shares(game) \in Nat
         /\ \A k \in 1..game.numPlayers : \E m \in Nat : Shares(game) = k * m
<1> DEFINE S == 1..game.numPlayers
           f == [x \in S |-> x]
           Body(g) == g = [s \in SUBSET S |->
                             IF s = {} THEN 1
                             ELSE LET x == CHOOSE x \in s : TRUE
                                  IN  x * g[s \ {x}]]
<1>1. IsFiniteSet(S) /\ \A x \in S : f[x] \in Nat /\ f[x] \in Int /\ f[x] = x
  <2>1. game.numPlayers \in Int
    BY DEF IsGame
  <2>2. IsFiniteSet(S)
    BY <2>1, FS_Interval
  <2>3. S \subseteq Nat
    BY <2>1
  <2> HIDE DEF S
  <2>4. QED
    BY <2>2, <2>3
<1>2. ASSUME NEW g
      PROVE  Body(g) <=> IsProduct(f, S, g)
  <2>1. ASSUME NEW s \in SUBSET S, s # {}
        PROVE  LET x == CHOOSE x \in s : TRUE
               IN  x * g[s \ {x}] = f[x] * g[s \ {x}]
    <3>1. (CHOOSE x \in s : TRUE) \in s
      BY <2>1
    <3>2. QED
      BY <1>1, <3>1
  <2>2. QED
    BY <2>1 DEF IsProduct
<1>3. PICK g : IsProduct(f, S, g)
  <2> HIDE DEF f, S
  <2>1. QED
    BY <1>1, ProductExists
<1>4. PICK iter : Body(iter) /\ Shares(game) = iter[S]
  <2>1. Shares(game) = (CHOOSE iter : Body(iter))[S]
    BY DEF Shares, ProductSet, FoldSet, MapThenFoldSet
  <2>2. Body(g)
    BY <1>2, <1>3
  <2>3. Body(CHOOSE iter : Body(iter))
    <3> HIDE DEF Body
    <3>1. QED
      BY <2>2, Zenon
  <2>4. QED
    BY <2>1, <2>3
<1>5. IsProduct(f, S, iter)
  BY <1>2, <1>4
<1>6. iter[S] \in Nat /\ \A k \in S : iter[S] = f[k] * iter[S \ {k}] /\ iter[S \ {k}] \in Nat
  <2> HIDE DEF f, S, Body
  <2>1. \A s \in SUBSET S : iter[s] \in Nat /\ \A k \in s : iter[s] = f[k] * iter[s \ {k}]
    <3>1. IsFiniteSet(S) /\ \A x \in S : f[x] \in Nat
      BY <1>1
    <3>2. QED
      BY <1>5, <3>1, ProductMultipliesUp
  <2>2. S \in SUBSET S
    OBVIOUS
  <2>3. ASSUME NEW k \in S
        PROVE  iter[S \ {k}] \in Nat
    <3>1. S \ {k} \in SUBSET S
      OBVIOUS
    <3>2. QED
      BY <2>1, <3>1
  <2>4. QED
    BY <2>1, <2>2, <2>3
<1>7. ASSUME NEW k \in 1..game.numPlayers
      PROVE  \E m \in Nat : Shares(game) = k * m
  <2> HIDE DEF f, Body
  <2>1. k \in S /\ f[k] = k /\ iter[S \ {k}] \in Nat /\ iter[S] = f[k] * iter[S \ {k}]
    BY <1>1, <1>6
  <2>2. QED
    BY <1>4, <2>1
<1> HIDE DEF f, Body
<1>8. QED
  BY <1>4, <1>6, <1>7

(* The levels at which the pot is cut.                                     *)
LEMMA LevelsAreFinite ==
  ASSUME NEW game, IsGame(game), NEW state \in StateType(game)
  PROVE  /\ IsFiniteSet(PotLevels(game, state))
         /\ PotLevels(game, state) \subseteq Nat \ {0}
         /\ \A l \in PotLevels(game, state) : l <= INT32_MAX
         /\ \A p \in Players(game) :
              state.spent[p] \in Nat /\ state.spent[p] \in PotLevels(game, state) \union {0}
<1> DEFINE T == {state.spent[q] : q \in Players(game)}
<1>1. state.spent \in Surjection(Players(game), T)
  BY DEF StateType, Surjection
<1>2. IsFiniteSet(T)
  <2> HIDE DEF T
  <2>1. QED
    BY <1>1, ActingPlayersCount, FS_Surjection
<1>3. \A q \in Players(game) : state.spent[q] \in Nat /\ state.spent[q] <= INT32_MAX
  BY LimitsAssumption DEF StateType, Chips
<1>4. QED
  BY <1>2, <1>3, FS_Subset DEF PotLevels

(* The levels that end at or below a bet.                                  *)
LevelsTo(game, state, x) == {l \in PotLevels(game, state) : l <= x}

(* They are finitely many.                                                 *)
LEMMA LevelsToAreLevels ==
  ASSUME NEW game, IsGame(game), NEW state \in StateType(game), NEW x
  PROVE  IsFiniteSet(LevelsTo(game, state, x))
         /\ LevelsTo(game, state, x) \subseteq PotLevels(game, state)
BY LevelsAreFinite, FS_Subset DEF LevelsTo

(* Where the pot below a level ends.                                       *)
LEMMA PotSizeEffect ==
  ASSUME NEW game, IsGame(game), NEW state \in StateType(game),
         NEW level \in PotLevels(game, state)
  PROVE  \E k \in PotLevels(game, state) \union {0} :
           /\ k < level /\ PotSize(game, state, level) = level - k
           /\ LevelsTo(game, state, level) \ {level} = LevelsTo(game, state, k)
           /\ level \in LevelsTo(game, state, level)
<1> DEFINE below == {0} \union {l \in PotLevels(game, state) : l < level}
<1>1. /\ below \subseteq Nat /\ below # {} /\ \A l \in below : l < level /\ l <= level
      /\ level \in Nat /\ \A l \in PotLevels(game, state) : l \in Nat
  BY LevelsAreFinite
<1>2. PICK k : k = Max(below)
  OBVIOUS
<1>3. k \in below /\ \A l \in below : l <= k
  <2> HIDE DEF below
  <2>1. QED
    BY <1>1, <1>2, MaxOfNats
<1>4. PotSize(game, state, level) = level - k
  BY <1>2 DEF PotSize
<1>5. \A l \in PotLevels(game, state) : (l <= level /\ l # level) <=> l <= k
  BY <1>1, <1>3
<1>6. LevelsTo(game, state, level) \ {level} = LevelsTo(game, state, k)
  BY <1>5 DEF LevelsTo
<1>7. level \in LevelsTo(game, state, level)
  BY <1>1 DEF LevelsTo
<1>8. QED
  BY <1>1, <1>3, <1>4, <1>6, <1>7

(* The side pots below a level together are as high as the level.          *)
LEMMA PotsReachTheLevel ==
  ASSUME NEW game, IsGame(game), NEW state \in StateType(game),
         NEW size, \A l \in PotLevels(game, state) : size[l] = PotSize(game, state, l)
  PROVE  \A x \in PotLevels(game, state) \union {0} :
           Total(size, LevelsTo(game, state, x)) = x
<1> DEFINE L == PotLevels(game, state)
           Bad == {x \in L \union {0} : Total(size, LevelsTo(game, state, x)) # x}
<1>1. SUFFICES ASSUME Bad # {}
               PROVE  FALSE
  OBVIOUS
<1>2. L \subseteq Nat \ {0} /\ IsFiniteSet(L)
  BY LevelsAreFinite
<1>3. PICK x \in Bad : \A y \in Bad : x <= y
  <2>1. Bad \subseteq Nat
    BY <1>2
  <2> HIDE DEF Bad
  <2>2. QED
    BY <1>1, <2>1, MinOfNats
<1>4. \A l \in L : size[l] \in Int
  <2>1. SUFFICES ASSUME NEW l \in L
                 PROVE  size[l] \in Int
    OBVIOUS
  <2>2. PICK k \in L \union {0} : PotSize(game, state, l) = l - k
    BY PotSizeEffect
  <2>3. QED
    BY <1>2, <2>2
<1>5. CASE x = 0
  <2>1. LevelsTo(game, state, 0) = {}
    BY <1>2 DEF LevelsTo
  <2>2. Total(size, {}) = 0
    <3> HIDE DEF L
    <3>1. QED
      BY <1>2, <1>4, TotalStep
  <2>3. QED
    BY <1>3, <1>5, <2>1, <2>2
<1>6. CASE x # 0
  <2>1. PICK k \in L \union {0} :
           /\ k < x /\ PotSize(game, state, x) = x - k
           /\ LevelsTo(game, state, x) \ {x} = LevelsTo(game, state, k)
           /\ x \in LevelsTo(game, state, x)
    BY <1>3, <1>6, PotSizeEffect
  <2>2. k \in Nat /\ x \in Nat /\ x \in L /\ size[x] = x - k
    BY <1>2, <1>3, <1>6, <2>1
  <2>3. Total(size, LevelsTo(game, state, k)) = k
    BY <1>3, <2>1, <2>2
  <2>4. Total(size, LevelsTo(game, state, x)) = size[x] + k
    <3>1. PICK T \in SUBSET L : T = LevelsTo(game, state, x)
      BY LevelsToAreLevels
    <3>2. x \in T /\ T \ {x} = LevelsTo(game, state, k)
      BY <2>1, <3>1
    <3>3. Total(size, T) = size[x] + Total(size, T \ {x})
      <4> HIDE DEF L, Bad
      <4>1. IsFiniteSet(L)
        BY <1>2
      <4>2. QED
        BY <1>4, <3>2, <4>1, TotalStep
    <3>4. QED
      BY <2>3, <3>1, <3>2, <3>3
  <2>5. QED
    BY <1>3, <2>2, <2>4
<1>7. QED
  BY <1>5, <1>6

(* What a player who reaches a level gets out of its pot is an integer.    *)
LEMMA PotShareIsANumber ==
  ASSUME NEW game, IsGame(game), NEW state \in StateType(game), NEW rank,
         NEW level \in PotLevels(game, state), NEW p \in Players(game)
  PROVE  PotShare(game, state, rank, level, p) \in Int
<1> DEFINE below   == {0} \union {l \in PotLevels(game, state) : l < level}
           size    == PotSize(game, state, level) * Shares(game)
           winners == Winners(game, state, rank, level)
           losers  == Contributors(game, state, level) \ winners
<1>1. level \in Nat /\ below \subseteq Nat /\ below # {} /\ \A l \in below : l <= level
  BY LimitsAssumption DEF PotLevels, StateType, Chips
<1>2. Max(below) \in Nat
  <2> HIDE DEF below
  <2>1. QED
    BY <1>1, MaxOfNats
<1>3. size \in Int
  <2>1. PotSize(game, state, level) \in Int
    BY <1>1, <1>2 DEF PotSize
  <2>2. QED
    BY <2>1, SharesAreMultiples
<1>4. Contributors(game, state, level) \subseteq Players(game) /\ IsFiniteSet(Players(game))
  BY ActingPlayersCount DEF Contributors
<1>5. winners \subseteq Players(game) /\ losers \subseteq Players(game)
  BY <1>4 DEF Winners
<1> HIDE DEF size, winners, losers
<1>6. /\ IsFiniteSet(winners) /\ Cardinality(winners) \in Nat /\ Cardinality(losers) \in Nat
      /\ p \in winners => Cardinality(winners) # 0
  BY <1>4, <1>5, FS_Subset, FS_CardinalityType, FS_EmptySet
<1>7. p \in winners =>
        (size \div Cardinality(winners)) * Cardinality(losers) \in Int
  <2>1. SUFFICES ASSUME p \in winners
                 PROVE  (size \div Cardinality(winners)) * Cardinality(losers) \in Int
    OBVIOUS
  <2>2. size \div Cardinality(winners) \in Int
    BY <1>3, <1>6, <2>1
  <2>3. QED
    BY <1>6, <2>2
<1>8. QED
  BY <1>3, <1>7 DEF PotShare, size, winners, losers

(* What the players other than p have spent.                               *)
OthersSpent(game, state, p) == Total(state.spent, Players(game) \ {p})

(* The code sums it up player by player.                                   *)
LEMMA SpentByOthers ==
  ASSUME NEW game, IsGame(game), NEW state \in StateType(game), NEW p \in Players(game)
  PROVE  /\ MapThenSumSet(LAMBDA q : state.spent[q], Players(game) \ {p})
              = OthersSpent(game, state, p)
         /\ OthersSpent(game, state, p) \in Nat
<1> DEFINE S == Players(game) \ {p}
           h == state.spent
           Body(g) == g = [s \in SUBSET S |->
                             IF s = {} THEN 0
                             ELSE LET x == CHOOSE x \in s : TRUE
                                  IN  state.spent[x] + g[s \ {x}]]
<1>1. IsFiniteSet(S) /\ \A q \in S : h[q] \in Nat
  BY ActingPlayersCount, LevelsAreFinite, FS_Subset
<1>2. ASSUME NEW g
      PROVE  Body(g) <=> IsSum(h, S, g)
  BY DEF IsSum
<1>3. PICK g : IsSum(h, S, g)
  <2> HIDE DEF h, S
  <2>1. QED
    BY <1>1, SumExists
<1>4. PICK iter : /\ Body(iter)
                  /\ MapThenSumSet(LAMBDA q : state.spent[q], Players(game) \ {p}) = iter[S]
  <2>1. MapThenSumSet(LAMBDA q : state.spent[q], Players(game) \ {p})
          = (CHOOSE iter : Body(iter))[S]
    BY DEF MapThenSumSet, MapThenFoldSet
  <2>2. Body(g)
    BY <1>2, <1>3
  <2>3. Body(CHOOSE iter : Body(iter))
    <3> HIDE DEF Body
    <3>1. QED
      BY <2>2, Zenon
  <2>4. QED
    BY <2>1, <2>3
<1>5. IsSum(h, S, iter)
  BY <1>2, <1>4
<1>6. iter[S] = Total(h, S)
  <2> HIDE DEF h, S, Body
  <2>1. S \in SUBSET S /\ \A q \in S : h[q] \in Int
    BY <1>1
  <2>2. QED
    BY <1>1, <1>5, <2>1, SumsAgree
<1>7. Total(h, S) \in Nat
  <2> HIDE DEF h, S, Body
  <2>1. QED
    BY <1>1, TotalIsNatural
<1>8. QED
  BY <1>4, <1>6, <1>7 DEF OthersSpent

(* A player's part of the pots comes from the levels the player reaches.   *)
LEMMA SharesOfPots ==
  ASSUME NEW game, IsGame(game), NEW state \in StateType(game), NEW rank,
         NEW p \in Players(game), NEW f,
         \A l \in PotLevels(game, state) : f[l] = PotShare(game, state, rank, l, p)
  PROVE  MapThenSumSet(LAMBDA l : PotShare(game, state, rank, l, p),
                       {l \in PotLevels(game, state) : l <= state.spent[p]})
           = Total(f, LevelsTo(game, state, state.spent[p]))
<1> DEFINE L == {l \in PotLevels(game, state) : l <= state.spent[p]}
           Body(g) == g = [s \in SUBSET L |->
                             IF s = {} THEN 0
                             ELSE LET x == CHOOSE x \in s : TRUE
                                  IN  PotShare(game, state, rank, x, p) + g[s \ {x}]]
<1>1. IsFiniteSet(L) /\ L = LevelsTo(game, state, state.spent[p])
  BY LevelsToAreLevels DEF LevelsTo
<1>2. \A l \in L : f[l] \in Int /\ f[l] = PotShare(game, state, rank, l, p)
  BY PotShareIsANumber
<1>3. ASSUME NEW g
      PROVE  Body(g) <=> IsSum(f, L, g)
  <2>1. ASSUME NEW s \in SUBSET L, s # {}
        PROVE  LET x == CHOOSE x \in s : TRUE
               IN  PotShare(game, state, rank, x, p) + g[s \ {x}] = f[x] + g[s \ {x}]
    <3>1. (CHOOSE x \in s : TRUE) \in s
      BY <2>1
    <3>2. QED
      BY <1>2, <3>1
  <2> HIDE DEF L
  <2> DEFINE R == [s \in SUBSET L |->
                     IF s = {} THEN 0
                     ELSE LET x == CHOOSE x \in s : TRUE
                          IN  PotShare(game, state, rank, x, p) + g[s \ {x}]]
             Q == [s \in SUBSET L |->
                     IF s = {} THEN 0
                     ELSE LET x == CHOOSE x \in s : TRUE
                          IN  f[x] + g[s \ {x}]]
  <2>2. R = Q
    BY <2>1
  <2>3. (Body(g) <=> g = R) /\ (IsSum(f, L, g) <=> g = Q)
    BY DEF IsSum
  <2> HIDE DEF R, Q, Body
  <2>4. QED
    BY <2>2, <2>3
<1>4. PICK g : IsSum(f, L, g)
  <2> HIDE DEF L
  <2>1. QED
    BY <1>1, <1>2, SumExists
<1>5. PICK iter : /\ Body(iter)
                  /\ MapThenSumSet(LAMBDA l : PotShare(game, state, rank, l, p), L) = iter[L]
  <2>1. MapThenSumSet(LAMBDA l : PotShare(game, state, rank, l, p), L)
          = (CHOOSE iter : Body(iter))[L]
    BY DEF MapThenSumSet, MapThenFoldSet
  <2>2. Body(g)
    BY <1>3, <1>4
  <2>3. Body(CHOOSE iter : Body(iter))
    <3> HIDE DEF Body
    <3>1. QED
      BY <2>2, Zenon
  <2>4. QED
    BY <2>1, <2>3
<1>6. IsSum(f, L, iter)
  BY <1>3, <1>5
<1>7. iter[L] = Total(f, L)
  <2> HIDE DEF L, Body
  <2>1. L \in SUBSET L /\ \A l \in L : f[l] \in Int
    BY <1>2
  <2>2. QED
    BY <1>1, <1>6, <2>1, SumsAgree
<1>8. QED
  BY <1>1, <1>5, <1>7

(* So every value is an integer.                                           *)
LEMMA ValueIsANumber ==
  ASSUME NEW game, IsGame(game), NEW state \in StateType(game), NEW rank,
         NEW p \in Players(game)
  PROVE  valueOfState(game, state, rank, p) \in Int
<1> DEFINE L == PotLevels(game, state)
           f == [l \in L |-> PotShare(game, state, rank, l, p)]
           reached == LevelsTo(game, state, state.spent[p])
<1>1. /\ Shares(game) \in Int /\ OthersSpent(game, state, p) \in Int
      /\ state.spent[p] \in Int
  <2>1. Shares(game) \in Nat
    BY SharesAreMultiples
  <2>2. OthersSpent(game, state, p) \in Nat
    BY SpentByOthers
  <2>3. state.spent[p] \in Nat
    BY LevelsAreFinite
  <2>4. QED
    BY <2>1, <2>2, <2>3
<1>2. /\ IsFiniteSet(L) /\ reached \in SUBSET L
      /\ \A l \in L : f[l] = PotShare(game, state, rank, l, p) /\ f[l] \in Int
  BY LevelsAreFinite, LevelsToAreLevels, PotShareIsANumber
<1>3. MapThenSumSet(LAMBDA l : PotShare(game, state, rank, l, p),
                    {l \in PotLevels(game, state) : l <= state.spent[p]})
        = Total(f, reached)
  <2> HIDE DEF f
  <2>1. QED
    BY <1>2, SharesOfPots
<1>4. Total(f, reached) \in Int
  <2> HIDE DEF f, L, reached
  <2>1. QED
    BY <1>2, TotalStep
<1>5. MapThenSumSet(LAMBDA q : state.spent[q], Players(game) \ {p})
        = OthersSpent(game, state, p)
  BY SpentByOthers
<1>6. - state.spent[p] * Shares(game) \in Int
  BY <1>1
<1>7. MapThenSumSet(LAMBDA l : PotShare(game, state, rank, l, p),
                    {l \in PotLevels(game, state) : l <= state.spent[p]}) \in Int
  BY <1>3, <1>4
<1>8. Shares(game) * MapThenSumSet(LAMBDA q : state.spent[q], Players(game) \ {p})
        \in Int
  BY <1>1, <1>5
<1>9. QED
  BY <1>6, <1>7, <1>8 DEF valueOfState

(* Dividing a multiple loses nothing.                                      *)
LEMMA ExactDivision ==
  ASSUME NEW w \in Nat \ {0}, NEW m \in Nat
  PROVE  (w * m) \div w = m
OBVIOUS

(* What the pot up to a level costs whoever does not win it.               *)
Cost(game, state, level) == PotSize(game, state, level) * Shares(game)

(* What a player gets out of, or has lost in, the pot up to a level.       *)
Gain(game, state, rank, level, p) ==
  IF state.spent[p] < level THEN 0
  ELSE IF state.playerFolded[p] THEN -Cost(game, state, level)
  ELSE PotShare(game, state, rank, level, p)

(* Both are counts of chips.                                               *)
LEMMA CostIsANumber ==
  ASSUME NEW game, IsGame(game), NEW state \in StateType(game),
         NEW level \in PotLevels(game, state)
  PROVE  PotSize(game, state, level) \in Nat /\ Cost(game, state, level) \in Nat
<1>1. PICK k \in PotLevels(game, state) \union {0} :
        k < level /\ PotSize(game, state, level) = level - k
  BY PotSizeEffect
<1>2. k \in Nat /\ level \in Nat /\ Shares(game) \in Nat
  BY LevelsAreFinite, SharesAreMultiples
<1>3. PotSize(game, state, level) \in Nat
  BY <1>1, <1>2
<1>4. \A a, b \in Nat : a * b \in Nat
  OBVIOUS
<1>5. QED
  BY <1>2, <1>3, <1>4 DEF Cost

(* Who takes part in the pot up to a level, and who wins it.               *)
LEMMA WinnersContribute ==
  ASSUME NEW game, IsGame(game), NEW state, NEW rank, NEW level
  PROVE  LET W == Winners(game, state, rank, level)
             C == Contributors(game, state, level)
         IN  /\ W \subseteq C /\ C \subseteq Players(game)
             /\ IsFiniteSet(W) /\ IsFiniteSet(C \ W)
             /\ Cardinality(W) \in Nat /\ Cardinality(C \ W) \in Nat
             /\ Cardinality(W) <= game.numPlayers
             /\ W # {} <=> Cardinality(W) # 0
             /\ \A p \in W : ~state.playerFolded[p]
<1> DEFINE W == Winners(game, state, rank, level)
           C == Contributors(game, state, level)
<1>1. W \subseteq C /\ C \subseteq Players(game) /\ \A p \in W : ~state.playerFolded[p]
  BY DEF Winners, Contributors
<1> HIDE DEF W, C
<1>2. IsFiniteSet(Players(game)) /\ Cardinality(Players(game)) = game.numPlayers
  BY ActingPlayersCount
<1>3. W \subseteq Players(game) /\ C \ W \subseteq Players(game)
  BY <1>1
<1>4. IsFiniteSet(W) /\ IsFiniteSet(C \ W) /\ Cardinality(W) <= game.numPlayers
  BY <1>2, <1>3, FS_Subset
<1>5. Cardinality(W) \in Nat /\ Cardinality(C \ W) \in Nat /\ (W # {} <=> Cardinality(W) # 0)
  BY <1>4, FS_CardinalityType, FS_EmptySet
<1>6. QED
  BY <1>1, <1>4, <1>5 DEF W, C

(* The winners of a pot divide what the others have put into it.           *)
LEMMA GainEffect ==
  ASSUME NEW game, IsGame(game), NEW state \in StateType(game), NEW rank,
         NEW level \in PotLevels(game, state)
  PROVE  LET W == Winners(game, state, rank, level)
             C == Contributors(game, state, level)
         IN  \E m \in Nat :
               /\ W # {} => Cost(game, state, level) = Cardinality(W) * m
               /\ \A p \in Players(game) :
                    Gain(game, state, rank, level, p) =
                      IF p \in W THEN m * Cardinality(C \ W)
                      ELSE IF p \in C THEN -Cost(game, state, level) ELSE 0
<1> DEFINE W == Winners(game, state, rank, level)
           C == Contributors(game, state, level)
           cost == Cost(game, state, level)
<1>1. cost \in Nat /\ Shares(game) \in Nat /\ PotSize(game, state, level) \in Nat
  BY CostIsANumber, SharesAreMultiples
<1>2. W # {} => \E m \in Nat : cost = Cardinality(W) * m
  <2>1. SUFFICES ASSUME W # {}
                 PROVE  \E m \in Nat : cost = Cardinality(W) * m
    OBVIOUS
  <2>2. PICK w : w = Cardinality(W)
    OBVIOUS
  <2>3. w \in 1..game.numPlayers
    <3>1. game.numPlayers \in Nat
      BY DEF IsGame
    <3>2. w \in Nat /\ w # 0 /\ w <= game.numPlayers
      BY <2>1, <2>2, WinnersContribute
    <3>3. QED
      BY <3>1, <3>2
  <2>4. PICK k \in Nat : Shares(game) = w * k
    BY <2>3, SharesAreMultiples
  <2>5. PICK s \in Nat : s = PotSize(game, state, level)
    BY <1>1
  <2>6. cost = s * (w * k)
    BY <2>4, <2>5 DEF Cost
  <2>7. s * (w * k) = w * (s * k) /\ s * k \in Nat
    BY <2>3
  <2>8. QED
    BY <2>2, <2>6, <2>7
<1>3. PICK m \in Nat : W # {} => cost = Cardinality(W) * m
  BY <1>2
<1>4. ASSUME NEW p \in Players(game)
      PROVE  Gain(game, state, rank, level, p) =
               IF p \in W THEN m * Cardinality(C \ W)
               ELSE IF p \in C THEN -cost ELSE 0
  <2>1. state.spent[p] \in Nat /\ level \in Nat /\ state.playerFolded[p] \in BOOLEAN
    BY LevelsAreFinite DEF StateType
  <2>2. p \in C <=> ~(state.spent[p] < level)
    BY <2>1 DEF Contributors
  <2>3. p \in W => p \in C /\ ~state.playerFolded[p]
    BY WinnersContribute
  <2>4. CASE p \notin C
    BY <2>2, <2>3, <2>4 DEF Gain
  <2>5. CASE p \in C /\ p \notin W
    BY <2>2, <2>3, <2>5 DEF Gain, PotShare, Cost
  <2>6. CASE p \in W
    <3>1. PICK w \in Nat \ {0} : w = Cardinality(W)
      BY <2>6, WinnersContribute
    <3>2. cost \div w = m
      BY <1>3, <2>6, <3>1, ExactDivision
    <3>3. Gain(game, state, rank, level, p) = (cost \div w) * Cardinality(C \ W)
      BY <2>2, <2>3, <2>6, <3>1 DEF Gain, PotShare, Cost
    <3>4. QED
      BY <2>6, <3>2, <3>3
  <2>7. QED
    BY <2>3, <2>4, <2>5, <2>6
<1>5. QED
  BY <1>3, <1>4

(* A pot that somebody wins is divided without a rest.                     *)
LEMMA PotIsDivided ==
  ASSUME NEW game, IsGame(game), NEW state \in StateType(game), NEW rank,
         NEW level \in PotLevels(game, state), Winners(game, state, rank, level) # {},
         NEW gain, \A p \in Players(game) : gain[p] = Gain(game, state, rank, level, p)
  PROVE  Total(gain, Players(game)) = 0
<1> DEFINE W == Winners(game, state, rank, level)
           C == Contributors(game, state, level)
           R == C \ W
           cost == Cost(game, state, level)
<1>1. PICK m \in Nat :
        /\ cost = Cardinality(W) * m
        /\ \A p \in Players(game) :
             gain[p] = IF p \in W THEN m * Cardinality(R)
                       ELSE IF p \in C THEN -cost ELSE 0
  BY GainEffect
<1>2. /\ W \subseteq Players(game) /\ R \subseteq Players(game)
      /\ \A p \in Players(game) : ~(p \in W /\ p \in R) /\ (p \in C /\ p \notin W => p \in R)
      /\ \A p \in R : p \in C
      /\ IsFiniteSet(W) /\ IsFiniteSet(R) /\ IsFiniteSet(Players(game))
  BY WinnersContribute, ActingPlayersCount
<1>3. PICK w, n, c : w = Cardinality(W) /\ n = Cardinality(R) /\ c = cost
  OBVIOUS
<1>4. w \in Nat /\ n \in Nat /\ c \in Nat /\ c = w * m
  BY <1>1, <1>3, WinnersContribute, CostIsANumber
<1> DEFINE won  == [p \in Players(game) |-> IF p \in W THEN m * n ELSE 0]
           lost == [p \in Players(game) |-> IF p \in R THEN -c ELSE 0]
<1>5. m * n \in Int /\ -c \in Int
  BY <1>4
<1>6. ASSUME NEW p \in Players(game)
      PROVE  won[p] \in Int /\ lost[p] \in Int /\ gain[p] = won[p] + lost[p]
  <2> HIDE DEF W, C, R, cost
  <2>1. gain[p] = IF p \in W THEN m * n ELSE IF p \in R THEN -c ELSE 0
    BY <1>1, <1>2, <1>3
  <2>2. QED
    BY <1>2, <1>5, <2>1
<1>7. /\ \A p \in W : won[p] = m * n
      /\ \A p \in R : lost[p] = -c
      /\ \A p \in Players(game) : (p \notin W => won[p] = 0) /\ (p \notin R => lost[p] = 0)
  BY <1>2
<1> HIDE DEF W, C, R, cost, won, lost
<1>8. Total(gain, Players(game)) = Total(won, Players(game)) + Total(lost, Players(game))
  BY <1>2, <1>6, TotalOfSum
<1>9. Total(won, Players(game)) = (m * n) * w
  <2>1. Total(won, Players(game)) = Total(won, W)
    BY <1>2, <1>6, <1>7, TotalOfPart
  <2>2. Total(won, W) = (m * n) * Cardinality(W)
    BY <1>2, <1>5, <1>7, TotalOfConstant
  <2>3. QED
    BY <1>3, <2>1, <2>2
<1>10. Total(lost, Players(game)) = (-c) * n
  <2>1. Total(lost, Players(game)) = Total(lost, R)
    BY <1>2, <1>6, <1>7, TotalOfPart
  <2>2. Total(lost, R) = (-c) * Cardinality(R)
    BY <1>2, <1>5, <1>7, TotalOfConstant
  <2>3. QED
    BY <1>3, <2>1, <2>2
<1>11. (m * n) * w + (-c) * n = 0
  <2>1. (m * n) * w = (w * m) * n /\ (-c) * n = -(c * n) /\ c * n \in Int
    BY <1>4
  <2>2. QED
    BY <1>4, <2>1
<1>12. QED
  BY <1>8, <1>9, <1>10, <1>11

(* maxSpent is the largest bet and somebody still in has made it.          *)
LargestBet(g, s) ==
  /\ \A p \in Players(g) : s.spent[p] <= s.maxSpent
  /\ \E p \in Players(g) : ~s.playerFolded[p] /\ s.spent[p] = s.maxSpent

(* Whoever has made the largest bet reaches every level of the pot.        *)
LEMMA WinnersExist ==
  ASSUME NEW game, IsGame(game), NEW state \in StateType(game), LargestBet(game, state),
         NEW rank \in [Players(game) -> Int], NEW level \in PotLevels(game, state)
  PROVE  Winners(game, state, rank, level) # {}
<1> DEFINE live == {p \in Contributors(game, state, level) : ~state.playerFolded[p]}
<1>1. live \subseteq Players(game) /\ IsFiniteSet(live)
  BY ActingPlayersCount, FS_Subset DEF Contributors
<1>2. live # {}
  <2>1. PICK p \in Players(game) : ~state.playerFolded[p] /\ state.spent[p] = state.maxSpent
    BY DEF LargestBet
  <2>2. PICK q \in Players(game) : state.spent[q] = level
    BY DEF PotLevels
  <2>3. state.spent[q] <= state.maxSpent
    BY DEF LargestBet
  <2>4. state.spent[p] >= level
    BY <2>1, <2>2, <2>3, LevelsAreFinite
  <2>5. QED
    BY <2>1, <2>4 DEF Contributors
<1>3. \A p \in live : rank[p] \in Int
  BY <1>1
<1>4. PICK p \in live : \A q \in live : rank[q] <= rank[p]
  <2> HIDE DEF live
  <2>1. QED
    BY <1>1, <1>2, <1>3, LargestSomewhere
<1>5. QED
  BY <1>4 DEF Winners

(* The value of a hand that comes to a showdown, pot by pot.               *)
LEMMA ValueAtShowdown ==
  ASSUME NEW game, IsGame(game), NEW state \in StateType(game), NEW rank,
         ~OnlyOneLeft(game, state), NEW p \in Players(game), NEW gain,
         \A l \in PotLevels(game, state) : gain[l] = Gain(game, state, rank, l, p)
  PROVE  /\ \A l \in PotLevels(game, state) : gain[l] \in Int
         /\ valueOfState(game, state, rank, p) = Total(gain, PotLevels(game, state))
<1> DEFINE L == PotLevels(game, state)
           x == state.spent[p]
           P == LevelsTo(game, state, x)
           size == [l \in L |-> PotSize(game, state, l)]
           share == [l \in L |-> PotShare(game, state, rank, l, p)]
<1>1. /\ IsFiniteSet(L) /\ IsFiniteSet(P) /\ P \in SUBSET L /\ x \in Nat /\ x \in L \union {0}
      /\ L \subseteq Nat /\ Shares(game) \in Nat
  BY LevelsAreFinite, LevelsToAreLevels, SharesAreMultiples
<1>2. \A l \in L : (l \in P <=> ~(x < l)) /\ (l \notin P => gain[l] = 0)
  BY <1>1 DEF LevelsTo, Gain
<1>3. \A l \in L : Cost(game, state, l) \in Nat /\ size[l] = PotSize(game, state, l)
                   /\ size[l] \in Nat /\ Cost(game, state, l) = size[l] * Shares(game)
  BY CostIsANumber DEF Cost
<1>4. \A l \in L : share[l] = PotShare(game, state, rank, l, p) /\ share[l] \in Int
  BY PotShareIsANumber
<1> HIDE DEF L, x, P, size, share
<1>5. \A l \in L : gain[l] \in Int
  <2>1. SUFFICES ASSUME NEW l \in L
                 PROVE  gain[l] \in Int
    OBVIOUS
  <2>2. gain[l] \in {0, -Cost(game, state, l), PotShare(game, state, rank, l, p)}
    BY <2>1 DEF Gain, L
  <2>3. QED
    BY <1>3, <1>4, <2>2
<1>6. Total(gain, L) = Total(gain, P)
  BY <1>1, <1>2, <1>5, TotalOfPart
<1>7. CASE state.playerFolded[p]
  <2>1. PICK k \in Int : k = -Shares(game)
    BY <1>1
  <2>2. \A l \in P : size[l] \in Int /\ gain[l] = k * size[l]
    <3>1. SUFFICES ASSUME NEW l \in P
                   PROVE  size[l] \in Int /\ gain[l] = k * size[l]
      OBVIOUS
    <3>2. l \in L /\ ~(x < l)
      BY <1>1, <1>2
    <3>3. gain[l] = -Cost(game, state, l)
      BY <1>7, <3>2 DEF Gain, L, x
    <3>4. PICK a \in Nat, b \in Nat : a = size[l] /\ b = Shares(game)
      BY <1>1, <1>3, <3>2
    <3>5. -(a * b) = (-b) * a
      OBVIOUS
    <3>6. QED
      BY <1>3, <2>1, <3>2, <3>3, <3>4, <3>5
  <2>3. Total(gain, P) = k * Total(size, P)
    BY <1>1, <2>2, TotalOfProduct
  <2>4. Total(size, P) = x
    BY <1>1, <1>3, PotsReachTheLevel DEF L, P
  <2>5. valueOfState(game, state, rank, p) = -(x * Shares(game))
    BY <1>7 DEF valueOfState, x
  <2>6. -(x * Shares(game)) = k * x
    <3>1. PICK b \in Nat : b = Shares(game)
      BY <1>1
    <3>2. -(x * b) = (-b) * x
      BY <1>1
    <3>3. QED
      BY <2>1, <3>1, <3>2
  <2>7. QED
    BY <1>5, <1>6, <2>3, <2>4, <2>5, <2>6 DEF L
<1>8. CASE ~state.playerFolded[p]
  <2>1. \A l \in P : gain[l] \in Int /\ gain[l] = share[l]
    BY <1>1, <1>2, <1>4, <1>5, <1>8 DEF Gain, L, x
  <2>2. Total(gain, P) = Total(share, P)
    BY <1>1, <2>1, SameTotal
  <2>3. valueOfState(game, state, rank, p) =
          MapThenSumSet(LAMBDA l : PotShare(game, state, rank, l, p),
                        {l \in PotLevels(game, state) : l <= state.spent[p]})
    BY <1>8 DEF valueOfState
  <2>4. valueOfState(game, state, rank, p) = Total(share, P)
    BY <1>4, <2>3, SharesOfPots DEF L, P, x
  <2>5. QED
    BY <1>5, <1>6, <2>2, <2>4 DEF L
<1>9. QED
  BY <1>7, <1>8

(* When all but one have folded, the last one takes what they have paid.   *)
LEMMA OnlyOneIsLeft ==
  ASSUME NEW game, IsGame(game), NEW state \in StateType(game),
         OnlyOneLeft(game, state), NEW p \in Players(game), ~state.playerFolded[p]
  PROVE  \A q \in Players(game) \ {p} : state.playerFolded[q]
<1> DEFINE folded == {q \in Players(game) : state.playerFolded[q]}
<1>1. IsFiniteSet(Players(game)) /\ Cardinality(Players(game)) = game.numPlayers
      /\ game.numPlayers \in Nat
  BY ActingPlayersCount DEF IsGame
<1>2. SUFFICES ASSUME NEW q \in Players(game) \ {p}, ~state.playerFolded[q]
               PROVE  FALSE
  OBVIOUS
<1> DEFINE rest == Players(game) \ {p}
           less == rest \ {q}
<1>3. IsFiniteSet(rest) /\ Cardinality(rest) = game.numPlayers - 1
  BY <1>1, FS_RemoveElement
<1>4. IsFiniteSet(less) /\ Cardinality(less) = game.numPlayers - 1 - 1
  <2> HIDE DEF rest
  <2>1. q \in rest
    BY <1>2 DEF rest
  <2>2. QED
    BY <1>3, <2>1, FS_RemoveElement
<1>5. folded \subseteq less
  BY <1>2
<1>6. Cardinality(folded) <= Cardinality(less) /\ Cardinality(folded) \in Nat
  <2> HIDE DEF folded, less
  <2>1. QED
    BY <1>4, <1>5, FS_Subset, FS_CardinalityType
<1>7. Cardinality(folded) + 1 >= game.numPlayers
  BY DEF OnlyOneLeft, numFolded
<1>8. QED
  BY <1>1, <1>4, <1>6, <1>7

(* What a player who has folded, and the last one in, are worth.           *)
LEMMA ValuesOfTheRest ==
  ASSUME NEW game, NEW state, NEW rank, NEW p \in Players(game)
  PROVE  state.playerFolded[p] =>
           valueOfState(game, state, rank, p) = -(state.spent[p] * Shares(game))
BY DEF valueOfState

(* The last one takes what the others have put in.                         *)
LEMMA ValueOfTheLast ==
  ASSUME NEW game, IsGame(game), NEW state \in StateType(game), NEW rank,
         OnlyOneLeft(game, state), NEW p \in Players(game), ~state.playerFolded[p]
  PROVE  valueOfState(game, state, rank, p) = Shares(game) * OthersSpent(game, state, p)
<1>1. valueOfState(game, state, rank, p) =
        Shares(game) * MapThenSumSet(LAMBDA q : state.spent[q], Players(game) \ {p})
  BY DEF valueOfState
<1>2. QED
  BY <1>1, SpentByOthers

(* Pots that are worth nothing in all are worth nothing together.          *)
LEMMA TotalOfZeros ==
  ASSUME NEW S, IsFiniteSet(S), NEW f, \A x \in S : f[x] = 0
  PROVE  Total(f, S) = 0
<1>1. Total(f, S) = 0 * Cardinality(S) /\ Cardinality(S) \in Int
  BY TotalOfConstant, FS_CardinalityType
<1>2. QED
  BY <1>1

(* What the players gain and lose adds up to nothing.                      *)
LEMMA ValuesCancel ==
  ASSUME NEW game, IsGame(game), NEW state \in StateType(game), LargestBet(game, state),
         NEW rank \in [Players(game) -> Int], NEW v,
         \A p \in Players(game) : v[p] = valueOfState(game, state, rank, p)
  PROVE  Total(v, Players(game)) = 0
<1> DEFINE S == Players(game)
           L == PotLevels(game, state)
<1>1. IsFiniteSet(S) /\ IsFiniteSet(L) /\ Shares(game) \in Nat
      /\ \A p \in S : state.spent[p] \in Nat
  BY ActingPlayersCount, LevelsAreFinite, SharesAreMultiples
<1>2. CASE OnlyOneLeft(game, state)
  <2>1. PICK w \in S : ~state.playerFolded[w]
    BY DEF LargestBet
  <2> DEFINE rest == S \ {w}
  <2>2. PICK k \in Int : k = -Shares(game)
    BY <1>1
  <2>3. ASSUME NEW q \in rest
        PROVE  state.spent[q] \in Int /\ v[q] = k * state.spent[q]
    <3>1. v[q] = -(state.spent[q] * Shares(game))
      BY <1>2, <2>1, OnlyOneIsLeft, ValuesOfTheRest
    <3>2. PICK a \in Nat, b \in Nat : a = state.spent[q] /\ b = Shares(game)
      BY <1>1
    <3>3. -(a * b) = (-b) * a
      OBVIOUS
    <3>4. QED
      BY <2>2, <3>1, <3>2, <3>3
  <2>4. IsFiniteSet(rest)
    BY <1>1, FS_Subset
  <2>5. Total(v, rest) = k * Total(state.spent, rest)
    <3> HIDE DEF rest
    <3>1. QED
      BY <2>3, <2>4, TotalOfProduct
  <2>6. v[w] = Shares(game) * OthersSpent(game, state, w) /\ OthersSpent(game, state, w) \in Nat
    BY <1>2, <2>1, ValueOfTheLast, SpentByOthers
  <2>7. Total(state.spent, rest) = OthersSpent(game, state, w)
    BY DEF OthersSpent
  <2>8. PICK a \in Nat, b \in Nat : a = OthersSpent(game, state, w) /\ b = Shares(game)
    BY <1>1, <2>6
  <2>9. b * a + (-b) * a = 0 /\ b * a \in Int /\ (-b) * a \in Int
    OBVIOUS
  <2>10. v[w] \in Int /\ \A q \in S : v[q] \in Int
    <3>1. v[w] \in Int
      BY <2>6, <2>8, <2>9
    <3>2. \A q \in rest : v[q] \in Int
      BY <2>2, <2>3
    <3>3. QED
      BY <3>1, <3>2
  <2>11. Total(v, S) = v[w] + Total(v, rest)
    <3>1. S \in SUBSET S
      OBVIOUS
    <3>2. IsFiniteSet(S) /\ w \in S /\ rest = S \ {w} /\ \A q \in S : v[q] \in Int
      BY <1>1, <2>10
    <3> HIDE DEF S, rest
    <3>3. QED
      BY <3>1, <3>2, TotalStep
  <2>12. QED
    BY <2>2, <2>5, <2>6, <2>7, <2>8, <2>9, <2>11
<1>3. CASE ~OnlyOneLeft(game, state)
  <2> DEFINE a == [p \in S |-> [l \in L |-> Gain(game, state, rank, l, p)]]
             b == [l \in L |-> [p \in S |-> Gain(game, state, rank, l, p)]]
             rows == [p \in S |-> Total(a[p], L)]
             cols == [l \in L |-> Total(b[l], S)]
  <2>1. ASSUME NEW p \in S
        PROVE  /\ \A l \in L : a[p][l] \in Int
               /\ v[p] = Total(a[p], L)
    <3>1. PICK g : g = a[p]
      OBVIOUS
    <3>2. \A l \in L : g[l] = Gain(game, state, rank, l, p)
      BY <3>1
    <3> HIDE DEF a
    <3>3. (\A l \in L : g[l] \in Int) /\ v[p] = Total(g, L)
      BY <1>3, <3>2, ValueAtShowdown
    <3>4. QED
      BY <3>1, <3>3
  <2>2. \A p \in S : v[p] \in Int /\ v[p] = rows[p]
    <3>1. \A p \in S : rows[p] = Total(a[p], L)
      OBVIOUS
    <3> HIDE DEF a, rows
    <3>2. \A p \in S : Total(a[p], L) \in Int
      BY <1>1, <2>1, TotalStep
    <3>3. QED
      BY <2>1, <3>1, <3>2
  <2>3. Total(v, S) = Total(rows, S)
    <3> HIDE DEF rows, S
    <3>1. QED
      BY <1>1, <2>2, SameTotal
  <2>4. \A p \in S, l \in L : a[p][l] \in Int /\ b[l][p] = a[p][l]
    BY <2>1
  <2>5. Total(rows, S) = Total(cols, L)
    <3>1. Transposed(a, b, S, L) /\ Totals(rows, a, S, L) /\ Totals(cols, b, L, S)
      BY <2>4 DEF Transposed, Totals
    <3> HIDE DEF a, b, rows, cols, S, L
    <3>2. QED
      BY <1>1, <3>1, TotalsSwap
  <2>6. ASSUME NEW l \in L
        PROVE  cols[l] = 0
    <3>1. PICK g : g = b[l]
      OBVIOUS
    <3>2. \A p \in S : g[p] = Gain(game, state, rank, l, p)
      BY <3>1
    <3>3. cols[l] = Total(g, S)
      BY <3>1
    <3> HIDE DEF b, cols
    <3>4. Winners(game, state, rank, l) # {}
      BY WinnersExist
    <3>5. Total(g, S) = 0
      BY <3>2, <3>4, PotIsDivided
    <3>6. QED
      BY <3>3, <3>5
  <2>7. Total(cols, L) = 0
    <3> HIDE DEF cols, L
    <3>1. QED
      BY <1>1, <2>6, TotalOfZeros
  <2>8. QED
    BY <2>3, <2>5, <2>7
<1>4. QED
  BY <1>2, <1>3

(* Whoever has the best hand of those still in does not lose.              *)
LEMMA BestHandWins ==
  ASSUME NEW game, IsGame(game), NEW state \in StateType(game),
         NEW rank \in [Players(game) -> Int],
         NEW p \in Players(game), ~state.playerFolded[p],
         \A q \in Players(game) : ~state.playerFolded[q] => rank[q] <= rank[p]
  PROVE  valueOfState(game, state, rank, p) >= 0
<1>1. CASE OnlyOneLeft(game, state)
  <2>1. PICK a \in Nat, b \in Nat : a = Shares(game) /\ b = OthersSpent(game, state, p)
    BY SharesAreMultiples, SpentByOthers
  <2>2. a * b >= 0
    OBVIOUS
  <2>3. QED
    BY <1>1, <2>1, <2>2, ValueOfTheLast
<1>2. CASE ~OnlyOneLeft(game, state)
  <2> DEFINE L == PotLevels(game, state)
             gain == [l \in L |-> Gain(game, state, rank, l, p)]
  <2>1. ASSUME NEW l \in L
        PROVE  gain[l] \in Nat
    <3> DEFINE W == Winners(game, state, rank, l)
               C == Contributors(game, state, l)
    <3>1. PICK m \in Nat :
            \A q \in Players(game) :
              Gain(game, state, rank, l, q) =
                IF q \in W THEN m * Cardinality(C \ W)
                ELSE IF q \in C THEN -Cost(game, state, l) ELSE 0
      BY GainEffect
    <3>2. p \in C => p \in W
      BY DEF Winners, Contributors
    <3>3. PICK n \in Nat : n = Cardinality(C \ W)
      BY WinnersContribute
    <3>4. m * n \in Nat
      OBVIOUS
    <3>5. gain[l] = IF p \in W THEN m * n ELSE 0
      BY <3>1, <3>2, <3>3
    <3>6. QED
      BY <3>4, <3>5
  <2>2. \A l \in L : gain[l] = Gain(game, state, rank, l, p)
    OBVIOUS
  <2>3. IsFiniteSet(L)
    BY LevelsAreFinite
  <2> HIDE DEF gain
  <2>4. Total(gain, L) \in Nat
    <3> HIDE DEF L
    <3>1. QED
      BY <2>1, <2>3, TotalIsNatural
  <2>5. valueOfState(game, state, rank, p) = Total(gain, L)
    BY <1>2, <2>2, ValueAtShowdown
  <2>6. QED
    BY <2>4, <2>5
<1>3. QED
  BY <1>1, <1>2

(* What the pots up to a level cost whoever pays for all of them.          *)
LEMMA CostsUpToALevel ==
  ASSUME NEW game, IsGame(game), NEW state \in StateType(game),
         NEW x \in PotLevels(game, state) \union {0}, NEW cost,
         \A l \in PotLevels(game, state) :
           cost[l] = IF l <= x THEN Cost(game, state, l) ELSE 0
  PROVE  Total(cost, PotLevels(game, state)) = Shares(game) * x
<1> DEFINE L == PotLevels(game, state)
           P == LevelsTo(game, state, x)
           size == [l \in L |-> PotSize(game, state, l)]
<1>1. IsFiniteSet(L) /\ IsFiniteSet(P) /\ P \in SUBSET L /\ Shares(game) \in Int
  BY LevelsAreFinite, LevelsToAreLevels, SharesAreMultiples
<1>2. \A l \in L : l \in P <=> l <= x
  BY DEF LevelsTo
<1>3. \A l \in L : /\ Cost(game, state, l) \in Int /\ size[l] \in Int
                   /\ Cost(game, state, l) = size[l] * Shares(game)
  BY CostIsANumber DEF Cost
<1>4. \A l \in L : cost[l] \in Int /\ (l \notin P => cost[l] = 0)
  BY <1>2, <1>3
<1>5. \A l \in P : size[l] \in Int /\ cost[l] = Shares(game) * size[l]
  <2>1. SUFFICES ASSUME NEW l \in P
                 PROVE  size[l] \in Int /\ cost[l] = Shares(game) * size[l]
    OBVIOUS
  <2>2. cost[l] = size[l] * Shares(game) /\ size[l] \in Int
    BY <1>1, <1>2, <1>3
  <2>3. \A a, b \in Int : a * b = b * a
    OBVIOUS
  <2>4. QED
    BY <1>1, <2>2, <2>3
<1>6. Total(size, P) = x
  BY PotsReachTheLevel
<1> HIDE DEF L, P, size
<1>7. Total(cost, L) = Total(cost, P)
  BY <1>1, <1>4, TotalOfPart
<1>8. Total(cost, P) = Shares(game) * Total(size, P)
  BY <1>1, <1>5, TotalOfProduct
<1>9. QED
  BY <1>6, <1>7, <1>8 DEF L

(* x is the smaller one of a and b.                                        *)
Least(x, a, b) == x \in {a, b} /\ x <= a /\ x <= b

(* Nobody loses more than the own bet, or than the largest other one.      *)
LEMMA LossIsCovered ==
  ASSUME NEW game, IsGame(game), NEW state \in StateType(game), LargestBet(game, state),
         NEW rank \in [Players(game) -> Int], NEW p \in Players(game),
         NEW others, \A q \in Players(game) \ {p} : state.spent[q] <= others,
         NEW r \in Players(game) \ {p}, others = state.spent[r],
         NEW x, Least(x, state.spent[p], others)
  PROVE  valueOfState(game, state, rank, p) >= -(x * Shares(game))
<1> DEFINE L == PotLevels(game, state)
<1>1. /\ IsFiniteSet(L) /\ L \subseteq Nat /\ Shares(game) \in Nat
      /\ state.spent[p] \in Nat /\ others \in Nat /\ x \in L \union {0} /\ x \in Nat
      /\ x <= state.spent[p] /\ x <= others
  BY LevelsAreFinite, SharesAreMultiples DEF Least
<1>2. PICK b \in Nat : b = Shares(game)
  BY <1>1
<1>3. x * b \in Nat
  BY <1>1
<1>4. CASE state.playerFolded[p]
  <2>1. PICK w \in Players(game) : ~state.playerFolded[w] /\ state.spent[w] = state.maxSpent
    BY DEF LargestBet
  <2>2. w # p /\ state.spent[p] <= state.spent[w]
    BY <1>4, <2>1 DEF LargestBet
  <2>3. state.spent[w] <= others /\ state.spent[w] \in Nat
    BY <2>2, LevelsAreFinite
  <2>4. x = state.spent[p]
    BY <1>1, <2>2, <2>3 DEF Least
  <2>5. valueOfState(game, state, rank, p) = -(x * b)
    BY <1>2, <1>4, <2>4, ValuesOfTheRest
  <2>6. QED
    BY <1>2, <1>3, <2>5
<1>5. CASE ~state.playerFolded[p] /\ OnlyOneLeft(game, state)
  <2>1. PICK a \in Nat : a = OthersSpent(game, state, p)
    BY SpentByOthers
  <2>2. valueOfState(game, state, rank, p) = b * a
    BY <1>2, <1>5, <2>1, ValueOfTheLast
  <2>3. b * a \in Nat
    OBVIOUS
  <2>4. QED
    BY <1>2, <1>3, <2>2, <2>3
<1>6. CASE ~state.playerFolded[p] /\ ~OnlyOneLeft(game, state)
  <2> DEFINE gain == [l \in L |-> Gain(game, state, rank, l, p)]
             cost == [l \in L |-> IF l <= x THEN Cost(game, state, l) ELSE 0]
             loss == [l \in L |-> (-1) * cost[l]]
  <2>1. ASSUME NEW l \in L
        PROVE  gain[l] \in Int /\ cost[l] \in Int /\ loss[l] \in Int /\ loss[l] <= gain[l]
    <3> DEFINE W == Winners(game, state, rank, l)
               C == Contributors(game, state, l)
    <3>1. PICK m \in Nat :
            \A q \in Players(game) :
              Gain(game, state, rank, l, q) =
                IF q \in W THEN m * Cardinality(C \ W)
                ELSE IF q \in C THEN -Cost(game, state, l) ELSE 0
      BY GainEffect
    <3>2. PICK n \in Nat, c \in Nat : n = Cardinality(C \ W) /\ c = Cost(game, state, l)
      BY WinnersContribute, CostIsANumber
    <3>3. gain[l] = IF p \in W THEN m * n ELSE IF p \in C THEN -c ELSE 0
      BY <3>1, <3>2
    <3>4. cost[l] = (IF l <= x THEN c ELSE 0) /\ loss[l] = (-1) * cost[l]
      BY <3>2
    <3>5. m * n \in Nat
      OBVIOUS
    <3>6. CASE l <= x
      <4>1. cost[l] = c /\ loss[l] = -c
        BY <3>4, <3>6
      <4>2. QED
        BY <3>3, <3>5, <4>1
    <3>7. CASE ~(l <= x)
      <4>1. cost[l] = 0 /\ loss[l] = 0
        BY <3>4, <3>7
      <4>2. p \in C => \A q \in Players(game) : q \in C => q = p
        <5>1. SUFFICES ASSUME p \in C, NEW q \in Players(game), q \in C, q # p
                       PROVE  FALSE
          OBVIOUS
        <5>2. state.spent[p] >= l /\ state.spent[q] >= l /\ state.spent[q] \in Nat /\ l \in Nat
          BY <1>1, <5>1, LevelsAreFinite DEF Contributors
        <5>3. state.spent[q] <= others
          BY <5>1
        <5>4. QED
          BY <1>1, <3>7, <5>2, <5>3 DEF Least
      <4>3. p \in C => p \in W /\ C \ W = {}
        <5>1. W # {} /\ W \subseteq C /\ C \subseteq Players(game)
          BY WinnersExist, WinnersContribute
        <5>2. QED
          BY <4>2, <5>1
      <4>4. p \in W => p \in C
        BY WinnersContribute
      <4>5. p \in C => n = 0
        BY <3>2, <4>3, FS_EmptySet
      <4>6. gain[l] = 0
        <5>1. CASE p \in C
          <6>1. m * 0 = 0
            OBVIOUS
          <6>2. QED
            BY <3>3, <4>3, <4>5, <5>1, <6>1
        <5>2. CASE p \notin C
          BY <3>3, <4>4, <5>2
        <5>3. QED
          BY <5>1, <5>2
      <4>7. QED
        BY <4>1, <4>6
    <3>8. QED
      BY <3>6, <3>7
  <2>2. /\ \A l \in L : gain[l] = Gain(game, state, rank, l, p)
        /\ \A l \in L : cost[l] = IF l <= x THEN Cost(game, state, l) ELSE 0
        /\ \A l \in L : loss[l] = (-1) * cost[l]
    OBVIOUS
  <2> HIDE DEF gain, cost, loss
  <2>3. valueOfState(game, state, rank, p) = Total(gain, L)
    BY <1>6, <2>2, ValueAtShowdown
  <2>4. Total(cost, L) = b * x
    BY <1>1, <1>2, <2>2, CostsUpToALevel
  <2> HIDE DEF L
  <2>5. Total(loss, L) <= Total(gain, L)
    BY <1>1, <2>1, TotalIsMonotone
  <2>6. Total(loss, L) = (-1) * Total(cost, L)
    <3>1. PICK k \in Int : k = -1
      OBVIOUS
    <3>2. \A l \in L : cost[l] \in Int /\ loss[l] = k * cost[l]
      BY <2>1, <2>2, <3>1
    <3>3. Total(loss, L) = k * Total(cost, L)
      BY <1>1, <3>2, TotalOfProduct
    <3>4. QED
      BY <3>1, <3>3
  <2>7. (-1) * (b * x) = -(x * b)
    BY <1>1
  <2>8. QED
    BY <1>2, <2>3, <2>4, <2>5, <2>6, <2>7
<1>7. QED
  BY <1>4, <1>5, <1>6

(* What each of the others has put in up to the bet of p.                  *)
Covers(cover, game, state, p) ==
  \A q \in Players(game) \ {p} : Least(cover[q], state.spent[p], state.spent[q])

(* The pot up to a level pays a player at most what each of the others has *)
(* put into it.                                                            *)
LEMMA GainIsCovered ==
  ASSUME NEW game, IsGame(game), NEW state \in StateType(game), NEW rank,
         NEW p \in Players(game), NEW cover, Covers(cover, game, state, p),
         NEW level \in PotLevels(game, state),
         NEW paid, \A q \in Players(game) \ {p} :
                     paid[q] = IF level <= cover[q] THEN Cost(game, state, level) ELSE 0
  PROVE  Gain(game, state, rank, level, p) <= Total(paid, Players(game) \ {p})
         /\ Gain(game, state, rank, level, p) \in Int
<1> DEFINE W == Winners(game, state, rank, level)
           C == Contributors(game, state, level)
           R == Players(game) \ {p}
           In == {q \in R : level <= cover[q]}
<1>1. PICK m \in Nat :
        /\ W # {} => Cost(game, state, level) = Cardinality(W) * m
        /\ \A q \in Players(game) :
             Gain(game, state, rank, level, q) =
               IF q \in W THEN m * Cardinality(C \ W)
               ELSE IF q \in C THEN -Cost(game, state, level) ELSE 0
  BY GainEffect
<1>2. PICK n \in Nat, c \in Nat, w \in Nat :
        n = Cardinality(C \ W) /\ c = Cost(game, state, level) /\ w = Cardinality(W)
  BY WinnersContribute, CostIsANumber
<1>3. Gain(game, state, rank, level, p) = IF p \in W THEN m * n ELSE IF p \in C THEN -c ELSE 0
  BY <1>1, <1>2
<1>4. /\ IsFiniteSet(R) /\ IsFiniteSet(In) /\ In \in SUBSET R
      /\ Cardinality(In) \in Nat
  <2>1. IsFiniteSet(R) /\ In \subseteq R
    BY ActingPlayersCount, FS_Subset
  <2>2. IsFiniteSet(In)
    BY <2>1, FS_Subset
  <2>3. QED
    BY <2>1, <2>2, FS_CardinalityType
<1>5. /\ \A q \in R : paid[q] \in Int /\ (q \notin In => paid[q] = 0)
      /\ \A q \in In : paid[q] = c
  BY <1>2
<1>6. PICK k \in Nat : k = Cardinality(In)
  BY <1>4
<1>7. Total(paid, R) = c * k
  <2> HIDE DEF R, In, W, C
  <2>1. Total(paid, R) = Total(paid, In)
    BY <1>4, <1>5, TotalOfPart
  <2>2. Total(paid, In) = c * Cardinality(In)
    <3>1. IsFiniteSet(In) /\ \A q \in In : paid[q] = c
      BY <1>4, <1>5
    <3>2. c \in Int
      BY <1>2
    <3>3. QED
      BY <3>1, <3>2, TotalOfConstant
  <2>3. QED
    BY <1>6, <2>1, <2>2
<1>8. c * k \in Nat /\ m * n \in Nat
  OBVIOUS
<1>9. CASE p \notin W
  BY <1>3, <1>7, <1>8, <1>9
<1>10. CASE p \in W
  <2>1. C \ W \subseteq In
    <3>1. SUFFICES ASSUME NEW q \in C \ W
                   PROVE  q \in In
      OBVIOUS
    <3>2. q \in Players(game) /\ q # p /\ p \in C
      BY <1>10, WinnersContribute
    <3>3. Least(cover[q], state.spent[p], state.spent[q])
      BY <3>2 DEF Covers
    <3>4. state.spent[p] >= level /\ state.spent[q] >= level
      BY <3>1, <3>2 DEF Contributors
    <3>5. level <= cover[q]
      BY <3>3, <3>4 DEF Least
    <3>6. QED
      BY <3>2, <3>5
  <2>2. n <= k
    <3> HIDE DEF C, W, In
    <3>1. QED
      BY <1>2, <1>4, <1>6, <2>1, FS_Subset
  <2>3. w # 0 /\ c = w * m
    BY <1>1, <1>2, <1>10, WinnersContribute
  <2>4. m * n <= (w * m) * k
    <3>1. m * n <= m * k
      <4>1. PICK d \in Nat : k = n + d
        BY <2>2
      <4>2. m * (n + d) = m * n + m * d /\ m * d \in Nat
        OBVIOUS
      <4>3. QED
        BY <1>8, <4>1, <4>2
    <3>2. (w * m) * k = (m * k) + (w - 1) * (m * k)
      OBVIOUS
    <3>3. (w - 1) * (m * k) \in Nat /\ m * k \in Nat
      <4>1. w - 1 \in Nat /\ m * k \in Nat
        BY <2>3
      <4>2. \A a, b \in Nat : a * b \in Nat
        OBVIOUS
      <4>3. QED
        BY <4>1, <4>2
    <3>4. QED
      BY <1>8, <3>1, <3>2, <3>3
  <2>5. QED
    BY <1>3, <1>7, <1>8, <1>10, <2>3, <2>4
<1>11. QED
  BY <1>9, <1>10

(* Nobody wins from anyone more than the own bet.                          *)
LEMMA WinIsCovered ==
  ASSUME NEW game, IsGame(game), NEW state \in StateType(game), LargestBet(game, state),
         NEW rank, NEW p \in Players(game), NEW cover, Covers(cover, game, state, p)
  PROVE  valueOfState(game, state, rank, p)
           <= Total(cover, Players(game) \ {p}) * Shares(game)
<1> DEFINE R == Players(game) \ {p}
           L == PotLevels(game, state)
<1>1. /\ IsFiniteSet(R) /\ IsFiniteSet(L)
      /\ \A q \in Players(game) : state.spent[q] \in Nat /\ state.spent[q] \in L \union {0}
  BY ActingPlayersCount, LevelsAreFinite, FS_Subset
<1>2. PICK b \in Nat : b = Shares(game)
  BY SharesAreMultiples
<1>3. \A q \in R : cover[q] \in Nat /\ cover[q] \in L \union {0}
  BY <1>1 DEF Covers, Least
<1>4. PICK t \in Nat : t = Total(cover, R)
  <2> HIDE DEF R
  <2>1. QED
    BY <1>1, <1>3, TotalIsNatural
<1>5. t * b \in Nat
  OBVIOUS
<1>6. CASE state.playerFolded[p]
  <2>1. PICK a \in Nat : a = state.spent[p]
    BY <1>1
  <2>2. valueOfState(game, state, rank, p) = -(a * b) /\ a * b \in Nat
    BY <1>2, <1>6, <2>1, ValuesOfTheRest
  <2>3. QED
    BY <1>2, <1>4, <1>5, <2>2
<1>7. CASE ~state.playerFolded[p] /\ OnlyOneLeft(game, state)
  <2>1. \A q \in R : state.playerFolded[q]
    BY <1>7, OnlyOneIsLeft
  <2>2. state.spent[p] = state.maxSpent
    BY <2>1 DEF LargestBet
  <2>3. \A q \in R : state.spent[q] \in Int /\ state.spent[q] = cover[q]
    <3>1. SUFFICES ASSUME NEW q \in R
                   PROVE  state.spent[q] \in Int /\ state.spent[q] = cover[q]
      OBVIOUS
    <3>2. state.spent[q] <= state.spent[p]
      BY <2>2 DEF LargestBet
    <3>3. Least(cover[q], state.spent[p], state.spent[q])
      BY DEF Covers
    <3>4. QED
      BY <1>1, <3>2, <3>3 DEF Least
  <2>4. Total(state.spent, R) = Total(cover, R)
    <3> HIDE DEF R
    <3>1. QED
      BY <1>1, <2>3, SameTotal
  <2>5. valueOfState(game, state, rank, p) = b * t
    <3>1. valueOfState(game, state, rank, p) = Shares(game) * OthersSpent(game, state, p)
      BY <1>7, ValueOfTheLast
    <3>2. OthersSpent(game, state, p) = Total(cover, R)
      BY <2>4 DEF OthersSpent
    <3>3. QED
      BY <1>2, <1>4, <3>1, <3>2
  <2>6. b * t = t * b
    OBVIOUS
  <2>7. QED
    BY <1>2, <1>4, <1>5, <2>5, <2>6
<1>8. CASE ~state.playerFolded[p] /\ ~OnlyOneLeft(game, state)
  <2> DEFINE pays(l, q) == IF l <= cover[q] THEN Cost(game, state, l) ELSE 0
             byPlayer == [q \in R |-> [l \in L |-> pays(l, q)]]
             byLevel  == [l \in L |-> [q \in R |-> pays(l, q)]]
             ofPlayer == [q \in R |-> Total(byPlayer[q], L)]
             ofLevel  == [l \in L |-> Total(byLevel[l], R)]
             gain     == [l \in L |-> Gain(game, state, rank, l, p)]
  <2>1. Transposed(byPlayer, byLevel, R, L)
    <3>1. ASSUME NEW l \in L, NEW q \in R
          PROVE  pays(l, q) \in Int
      BY CostIsANumber
    <3>2. QED
      BY <3>1 DEF Transposed
  <2>2. Totals(ofPlayer, byPlayer, R, L) /\ Totals(ofLevel, byLevel, L, R)
    BY DEF Totals
  <2>3. Total(ofPlayer, R) = Total(ofLevel, L)
    <3> HIDE DEF byPlayer, byLevel, ofPlayer, ofLevel, R, L
    <3>1. QED
      BY <1>1, <2>1, <2>2, TotalsSwap
  <2>4. ASSUME NEW q \in R
        PROVE  cover[q] \in Int /\ ofPlayer[q] = b * cover[q]
    <3>1. PICK g : g = byPlayer[q]
      OBVIOUS
    <3>2. \A l \in L : g[l] = IF l <= cover[q] THEN Cost(game, state, l) ELSE 0
      BY <3>1
    <3>3. ofPlayer[q] = Total(g, L)
      BY <3>1
    <3> HIDE DEF ofPlayer, byPlayer
    <3>4. Total(g, L) = Shares(game) * cover[q]
      BY <1>3, <3>2, CostsUpToALevel
    <3>5. QED
      BY <1>2, <1>3, <3>3, <3>4
  <2>5. Total(ofPlayer, R) = b * t
    <3> HIDE DEF ofPlayer, R
    <3>1. QED
      BY <1>1, <1>4, <2>4, TotalOfProduct
  <2>6. ASSUME NEW l \in L
        PROVE  gain[l] \in Int /\ ofLevel[l] \in Int /\ gain[l] <= ofLevel[l]
    <3>1. PICK g : g = byLevel[l]
      OBVIOUS
    <3>2. \A q \in R : g[q] = IF l <= cover[q] THEN Cost(game, state, l) ELSE 0
      BY <3>1
    <3>3. ofLevel[l] = Total(g, R) /\ gain[l] = Gain(game, state, rank, l, p)
      BY <3>1
    <3> HIDE DEF ofLevel, byLevel, gain
    <3>4. gain[l] <= Total(g, R) /\ gain[l] \in Int
      BY <3>2, <3>3, GainIsCovered
    <3>5. \A q \in R : g[q] \in Int
      BY <3>2, CostIsANumber
    <3> HIDE DEF R
    <3>6. Total(g, R) \in Int
      BY <1>1, <3>5, TotalStep
    <3>7. QED
      BY <3>3, <3>4, <3>6
  <2>7. \A l \in L : gain[l] = Gain(game, state, rank, l, p)
    OBVIOUS
  <2> HIDE DEF gain, ofLevel
  <2>8. valueOfState(game, state, rank, p) = Total(gain, L)
    BY <1>8, <2>7, ValueAtShowdown
  <2>9. Total(gain, L) <= Total(ofLevel, L)
    <3> HIDE DEF L
    <3>1. QED
      BY <1>1, <2>6, TotalIsMonotone
  <2>10. b * t = t * b
    OBVIOUS
  <2>11. QED
    BY <1>2, <1>4, <2>3, <2>5, <2>8, <2>9, <2>10
<1>9. QED
  BY <1>6, <1>7, <1>8
=============================================================================
