----------------------------- MODULE HandProofs -----------------------------
(***************************************************************************)
(* Theorems about every hand of every game: the properties of              *)
(* HandProperties.tla and Showdown.tla follow from inductive invariants,   *)
(* HandInv and, where turns are concerned, TurnInv.                        *)
(***************************************************************************)
EXTENDS Showdown, AcpcGameProofs

HandInv == game \in Games /\ Sound(game, state)

-----------------------------------------------------------------------------
(* What HandInv says of the state a step starts from.                      *)

LEMMA GamesAreGames ==
  ASSUME NEW g \in Games
  PROVE  IsGame(g) /\ g.numPlayers <= MAX_NUM_ACTIONS
BY GamesAssumption

(* An action that isValidAction() accepts is corrected into one of the     *)
(* size doAction() asserts, and there is room to record it.                *)
LEMMA AcceptedActionIsSafe ==
  ASSUME HandInv,
         NEW type \in ActionTypes, NEW size \in Int,
         isValidAction(game, state, TRUE, [type |-> type, size |-> size])
  PROVE  LET done == fixAction(game, state, [type |-> type, size |-> size])
         IN  /\ done \in AskedActions /\ done.type = type
             /\ isValidAction(game, state, FALSE, done)
             /\ ActionAsserts(game, state, done)
<1> DEFINE asked == [type |-> type, size |-> size]
           done  == fixAction(game, state, asked)
<1>1. asked \in AskedActions /\ asked.type = type
  BY DEF AskedActions
<1>2. IsGame(game) /\ Sound(game, state)
  BY GamesAreGames DEF HandInv
<1> HIDE DEF asked
<1>3. /\ done \in AskedActions /\ done.type = type
      /\ isValidAction(game, state, FALSE, done)
  BY <1>1, <1>2, FixedActionIsValid DEF asked
<1> HIDE DEF done
<1>4. ActionAsserts(game, state, done)
  BY <1>2, <1>3, ValidActionIsSafe
<1>5. QED
  BY <1>3, <1>4 DEF done, asked

-----------------------------------------------------------------------------
(* HandInv holds at the start of every hand and every action keeps it.     *)

LEMMA NewHandHasInv ==
  ASSUME NEW g \in Games
  PROVE  Sound(g, initState(g))
BY GamesAssumption, NewHandIsSound

(* What an action leaves before doAction() looks whether betting closed.   *)
LEMMA ActPlays ==
  ASSUME HandInv, NEW type \in ActionTypes, NEW size \in Int, Act(type, size)
  PROVE  \E action \in AskedActions :
           LET after == Played(game, state, action)
           IN  /\ action = fixAction(game, state, [type |-> type, size |-> size])
               /\ action.type = type
               /\ isValidAction(game, state, TRUE, [type |-> type, size |-> size])
               /\ ActionAsserts(game, state, action)
               /\ WellFormed(game, after)
               /\ MovesChips(game, state, action, after)
               /\ CallersMatchBet(game, after) /\ Room(game, after)
               /\ ~after.finished
               /\ state' = Closed(game, after) /\ game' = game
<1> DEFINE asked  == [type |-> type, size |-> size]
           action == fixAction(game, state, asked)
           after  == Played(game, state, action)
<1>1. /\ isValidAction(game, state, TRUE, asked)
      /\ state' = Closed(game, after) /\ game' = game
  BY DEF Act, doAction
<1>2. /\ action \in AskedActions /\ action.type = type
      /\ isValidAction(game, state, FALSE, action)
      /\ ActionAsserts(game, state, action)
  BY <1>1, AcceptedActionIsSafe
<1>3. IsGame(game) /\ Sound(game, state)
  BY GamesAreGames DEF HandInv
<1> HIDE DEF action
<1>4. /\ WellFormed(game, after) /\ MovesChips(game, state, action, after)
      /\ CallersMatchBet(game, after) /\ Room(game, after)
      /\ ~after.finished
  BY <1>2, <1>3, ValidActionPlays
<1>5. QED
  BY <1>1, <1>2, <1>4 DEF action

LEMMA ActKeepsInv ==
  ASSUME HandInv, NEW type \in ActionTypes, NEW size \in Int, Act(type, size)
  PROVE  HandInv'
<1> DEFINE action == fixAction(game, state, [type |-> type, size |-> size])
<1>1. /\ isValidAction(game, state, TRUE, [type |-> type, size |-> size])
      /\ state' = doAction(game, state, action) /\ game' = game
  BY DEF Act
<1>2. action \in AskedActions /\ isValidAction(game, state, FALSE, action)
  BY <1>1, AcceptedActionIsSafe
<1>3. /\ IsGame(game) /\ game.numPlayers <= MAX_NUM_ACTIONS
      /\ game \in Games /\ Sound(game, state)
  BY GamesAreGames DEF HandInv
<1> HIDE DEF action
<1>4. Sound(game, state')
  BY <1>1, <1>2, <1>3, ValidActionKeepsSound
<1>5. QED
  BY <1>1, <1>3, <1>4 DEF HandInv

LEMMA NextKeepsInv ==
  ASSUME HandInv, [Next]_vars
  PROVE  HandInv'
<1>1. ASSUME NEW type \in ActionTypes, NEW size \in Int, Act(type, size)
      PROVE  HandInv'
  BY <1>1, ActKeepsInv
<1>2. CASE Fold
  BY <1>1, <1>2 DEF Fold, ActionTypes
<1>3. CASE Call
  BY <1>1, <1>3 DEF Call, ActionTypes
<1>4. CASE Raise
  <2>1. PICK size \in Int : Act("raise", size)
    BY <1>4, SizesAssumption DEF Raise
  <2>2. QED
    BY <1>1, <2>1 DEF ActionTypes
<1>5. CASE NewHand
  <2>1. game' = game /\ state' = initState(game) /\ game \in Games
    BY <1>5 DEF NewHand, HandInv
  <2>2. QED
    BY <2>1, NewHandHasInv DEF HandInv
<1>6. CASE UNCHANGED vars
  BY <1>6 DEF vars, HandInv
<1>7. QED
  BY <1>2, <1>3, <1>4, <1>5, <1>6 DEF Next

THEOREM HandInvHolds == Spec => []HandInv
<1>1. Init => HandInv
  BY NewHandHasInv DEF Init, HandInv
<1>2. HandInv /\ [Next]_vars => HandInv'
  BY NextKeepsInv
<1>3. QED
  BY <1>1, <1>2, PTL DEF Spec

-----------------------------------------------------------------------------
(* The fields of the state stay of their C types and no player is ever     *)
(* charged more than the stack (the caps of doAction(), game.c:940, 969).  *)
THEOREM TypeCorrectness == Spec => []TypeOK
<1>1. HandInv => TypeOK
  BY DEF HandInv, Sound, WellFormed, TypeOK
<1>2. QED
  BY <1>1, HandInvHolds, PTL

(* The loop of nextPlayer() (game.c:471) always ends while a hand is open, *)
(* and no open hand is stuck behind a round that is over.                  *)
THEOREM SearchEnds == Spec => []SomebodyCanAct
<1>1. HandInv => SomebodyCanAct
  BY GamesAreGames, OpenHandHasActor DEF HandInv, Sound, Open, SomebodyCanAct
<1>2. QED
  BY <1>1, HandInvHolds, PTL

(* isValidAction() is strong enough for the assertions of doAction()       *)
(* (game.c:923, 953, 954): no accepted action aborts the program.          *)
THEOREM AssertionsHold == Spec => []AcceptedActionsAreSafe
<1>1. HandInv => AcceptedActionsAreSafe
  BY AcceptedActionIsSafe, SizesAssumption DEF AcceptedActionsAreSafe
<1>2. QED
  BY <1>1, HandInvHolds, PTL

-----------------------------------------------------------------------------
(* The largest bet.  In a limit game a short stack that cannot pay a whole *)
(* raise sets maxSpent to all it has, which may be less than somebody else *)
(* has paid; with equal stacks that cannot happen.                         *)
RaisesAreCovered ==
  \A g \in Games :
    g.bettingType = "nolimit" \/ \A p, q \in Players(g) : g.stack[p] = g.stack[q]

LEMMA NewHandHasLargestBet ==
  ASSUME NEW g \in Games
  PROVE  LargestBet(g, initState(g))
<1>1. IsGame(g)
  BY GamesAreGames
<1>2. QED
  BY <1>1, LargestBlindIsABlind DEF LargestBet, initState

(* A raise goes beyond what everybody has paid.                            *)
LEMMA RaiseGoesBeyond ==
  ASSUME NEW g \in Games, RaisesAreCovered,
         NEW s, WellFormed(g, s), LargestBet(g, s),
         NEW action, action \in AskedActions, action.type = "raise",
         ActionAsserts(g, s, action),
         currentPlayer(g, s) \in Players(g)
  PROVE  RaisedTo(g, s, currentPlayer(g, s), action) >= s.maxSpent
<1> DEFINE p == currentPlayer(g, s)
<1>1. /\ IsGame(g) /\ s \in StateType(g) /\ s.round \in Rounds(g)
      /\ \A q \in Players(g) : s.spent[q] <= g.stack[q]
  BY GamesAreGames DEF WellFormed, StateType
<1>2. s.maxSpent \in Nat /\ g.stack[p] \in Nat /\ g.raiseSize[s.round] \in Nat
  BY <1>1, LimitsAssumption DEF IsGame, StateType, Chips
<1>3. CASE g.bettingType = "nolimit"
  BY <1>2, <1>3 DEF RaisedTo, ActionAsserts, AskedActions
<1>4. CASE g.bettingType # "nolimit"
  <2>1. PICK q \in Players(g) : s.spent[q] = s.maxSpent
    BY DEF LargestBet
  <2>2. g.stack[q] = g.stack[p]
    BY <1>4 DEF RaisesAreCovered
  <2>3. s.maxSpent <= g.stack[p]
    BY <1>1, <2>1, <2>2
  <2>4. QED
    BY <1>2, <1>4, <2>3 DEF RaisedTo
<1>5. QED
  BY <1>3, <1>4

(* An action of a sound hand keeps the largest bet, and neither it nor     *)
(* anybody's chips shrink.                                                 *)
LEMMA ActKeepsLargestBet ==
  ASSUME RaisesAreCovered, HandInv, LargestBet(game, state),
         NEW type \in ActionTypes, NEW size \in Int, Act(type, size)
  PROVE  /\ game' = game
         /\ LargestBet(game, state')
         /\ \A p \in Players(game) : state'.spent[p] >= state.spent[p]
         /\ state'.maxSpent >= state.maxSpent
         /\ state'.round = state.round =>
              state'.minNoLimitRaiseTo >= state.minNoLimitRaiseTo
<1>1. PICK action \in AskedActions :
        LET after == Played(game, state, action)
        IN  /\ action = fixAction(game, state, [type |-> type, size |-> size])
            /\ action.type = type
            /\ isValidAction(game, state, TRUE, [type |-> type, size |-> size])
            /\ ActionAsserts(game, state, action)
            /\ WellFormed(game, after)
            /\ MovesChips(game, state, action, after)
            /\ CallersMatchBet(game, after) /\ Room(game, after)
            /\ ~after.finished
            /\ state' = Closed(game, after) /\ game' = game
  BY ActPlays
<1> DEFINE p     == currentPlayer(game, state)
           after == Played(game, state, action)
<1>2. ~state.finished
  BY <1>1 DEF isValidAction
<1>3. /\ IsGame(game) /\ game \in Games /\ WellFormed(game, state)
      /\ p \in Players(game)
  BY <1>2, GamesAreGames, OpenHandHasActor DEF HandInv, Sound
<1>4. /\ \A q \in Players(game) : state.spent[q] \in Nat
      /\ state.spent \in [Players(game) -> Chips]
      /\ \A q \in Players(game) : state.spent[q] <= game.stack[q]
      /\ state.maxSpent \in Nat /\ state.minNoLimitRaiseTo \in Nat
      /\ game.stack[p] \in Nat
      /\ state.playerFolded \in [Players(game) -> BOOLEAN]
      /\ state.round \in Int
  <2>1. /\ state \in StateType(game)
        /\ \A q \in Players(game) : state.spent[q] <= game.stack[q]
    BY <1>3 DEF WellFormed
  <2>2. /\ state.spent \in [Players(game) -> Chips] /\ state.maxSpent \in Chips
        /\ state.minNoLimitRaiseTo \in Nat /\ state.round \in Rounds(game)
        /\ state.playerFolded \in [Players(game) -> BOOLEAN]
        /\ game.stack[p] \in Chips
    BY <1>3, <2>1 DEF StateType, IsGame
  <2>3. QED
    BY <2>1, <2>2, LimitsAssumption DEF Chips, Rounds
<1>5. /\ \A q \in Players(game) : state.spent[q] <= state.maxSpent
      /\ \E q \in Players(game) :
           ~state.playerFolded[q] /\ state.spent[q] = state.maxSpent
  BY DEF LargestBet
<1> HIDE DEF p, after
<1>6. /\ LargestBet(game, after)
      /\ \A q \in Players(game) : after.spent[q] >= state.spent[q]
      /\ after.maxSpent >= state.maxSpent
      /\ after.minNoLimitRaiseTo >= state.minNoLimitRaiseTo
  <2>1. CASE type = "fold"
    <3>1. /\ after.spent = state.spent /\ after.maxSpent = state.maxSpent
          /\ after.minNoLimitRaiseTo = state.minNoLimitRaiseTo
          /\ after.playerFolded = [state.playerFolded EXCEPT ![p] = TRUE]
      BY <1>1, <2>1 DEF MovesChips, p, after
    <3>2. state.spent[p] # state.maxSpent
      BY <1>1, <2>1 DEF isValidAction, foldIsValid, p
    <3>3. QED
      BY <1>3, <1>4, <1>5, <3>1, <3>2 DEF LargestBet
  <2>2. CASE type = "call"
    <3> DEFINE paid == CallTo(game, state, p)
    <3>1. /\ after.spent = [state.spent EXCEPT ![p] = paid]
          /\ after.maxSpent = state.maxSpent
          /\ after.minNoLimitRaiseTo = state.minNoLimitRaiseTo
          /\ after.playerFolded = state.playerFolded
      BY <1>1, <2>2 DEF MovesChips, p, after
    <3>2. paid \in Nat /\ paid <= state.maxSpent /\ paid >= state.spent[p]
      BY <1>3, <1>4, <1>5 DEF CallTo
    <3> HIDE DEF paid
    <3>3. /\ \A q \in Players(game) :
               after.spent[q] = IF q = p THEN paid ELSE state.spent[q]
      BY <1>4, <3>1
    <3>4. PICK q \in Players(game) :
            ~state.playerFolded[q] /\ state.spent[q] = state.maxSpent
      BY <1>5
    <3>5. after.spent[q] = after.maxSpent /\ ~after.playerFolded[q]
      BY <1>4, <3>1, <3>2, <3>3, <3>4
    <3>6. \A r \in Players(game) :
            after.spent[r] <= after.maxSpent /\ after.spent[r] >= state.spent[r]
      BY <1>4, <1>5, <3>1, <3>2, <3>3
    <3>7. QED
      BY <1>4, <3>1, <3>5, <3>6 DEF LargestBet
  <2>3. CASE type = "raise"
    <3> DEFINE paid == RaisedTo(game, state, p, action)
    <3>1. /\ after.spent = [state.spent EXCEPT ![p] = paid]
          /\ after.maxSpent = paid
          /\ after.minNoLimitRaiseTo = NextMinRaiseTo(game, state, action)
          /\ after.playerFolded = state.playerFolded
      BY <1>1, <2>3 DEF MovesChips, p, after
    <3>2. paid >= state.maxSpent
      BY <1>1, <1>3, <2>3, RaiseGoesBeyond DEF p
    <3>3. after.maxSpent \in Nat /\ after.minNoLimitRaiseTo \in Nat
      BY <1>1, LimitsAssumption DEF WellFormed, StateType, Chips, after
    <3> HIDE DEF paid
    <3>4. /\ \A q \in Players(game) :
               after.spent[q] = IF q = p THEN paid ELSE state.spent[q]
      BY <1>4, <3>1
    <3>5. \A r \in Players(game) :
            after.spent[r] <= after.maxSpent /\ after.spent[r] >= state.spent[r]
      BY <1>4, <1>5, <3>1, <3>2, <3>3, <3>4
    <3>6. ~state.playerFolded[p]
      BY <1>2, <1>3, OpenHandHasActor DEF HandInv, ActingPlayers, p
    <3>7. LargestBet(game, after)
      BY <1>3, <3>1, <3>4, <3>5, <3>6 DEF LargestBet
    <3>8. after.minNoLimitRaiseTo >= state.minNoLimitRaiseTo
      <4>1. action.size \in Int
        BY DEF AskedActions
      <4>2. QED
        BY <1>4, <3>1, <4>1 DEF NextMinRaiseTo
    <3>9. QED
      BY <1>4, <3>1, <3>2, <3>3, <3>5, <3>7, <3>8
  <2>4. QED
    BY <2>1, <2>2, <2>3 DEF ActionTypes
<1>7. /\ state'.spent = after.spent
      /\ state'.maxSpent = after.maxSpent
      /\ state'.playerFolded = after.playerFolded
      /\ state'.round = after.round =>
           state'.minNoLimitRaiseTo = after.minNoLimitRaiseTo
      /\ after.round = state.round
  <2>1. /\ WellFormed(game, after) /\ ~after.finished
        /\ MovesChips(game, state, action, after) /\ state' = Closed(game, after)
    BY <1>1 DEF after
  <2>2. after.round = state.round
    BY <2>1 DEF MovesChips
  <2>3. /\ state'.spent = after.spent
        /\ state'.maxSpent = after.maxSpent
        /\ state'.playerFolded = after.playerFolded
        /\ state'.round = after.round =>
             state'.minNoLimitRaiseTo = after.minNoLimitRaiseTo
    <3>1. ClosesTo(game, after, Closed(game, after))
      BY <1>3, <2>1, ClosedEffect
    <3>2. ClosesTo(game, after, state')
      BY <2>1, <3>1, Zenon
    <3>3. QED
      BY <3>2, Zenon DEF ClosesTo
  <2>4. QED
    BY <2>2, <2>3
<1>8. QED
  BY <1>1, <1>6, <1>7 DEF LargestBet

LEMMA NextKeepsLargestBet ==
  ASSUME RaisesAreCovered, HandInv, LargestBet(game, state), [Next]_vars
  PROVE  /\ LargestBet(game, state)'
         /\ state.finished \/
              /\ \A p \in Players(game) : state'.spent[p] >= state.spent[p]
              /\ state'.maxSpent >= state.maxSpent
              /\ state'.round = state.round =>
                   state'.minNoLimitRaiseTo >= state.minNoLimitRaiseTo
<1>1. CASE \E type \in ActionTypes, size \in Int : Act(type, size)
  BY <1>1, ActKeepsLargestBet
<1>2. Fold \/ Call \/ Raise => \E type \in ActionTypes, size \in Int : Act(type, size)
  BY SizesAssumption DEF Fold, Call, Raise, ActionTypes
<1>3. CASE NewHand
  <2>1. game' = game /\ state' = initState(game) /\ game \in Games /\ state.finished
    BY <1>3 DEF NewHand, HandInv
  <2>2. QED
    BY <2>1, NewHandHasLargestBet
<1>4. CASE UNCHANGED vars
  <2>1. game' = game /\ state' = state
    BY <1>4 DEF vars
  <2>2. /\ \A p \in Players(game) : state.spent[p] \in Int
        /\ state.maxSpent \in Int /\ state.minNoLimitRaiseTo \in Int
    BY LimitsAssumption DEF HandInv, Sound, WellFormed, StateType, Chips
  <2>3. QED
    BY <2>1, <2>2
<1>5. QED
  BY <1>1, <1>2, <1>3, <1>4 DEF Next

(* maxSpent is the largest bet "including all previous rounds" (game.h:80) *)
(* of every no-limit game and of every limit game with equal stacks.       *)
THEOREM LargestBetIsMaxSpent ==
  ASSUME RaisesAreCovered
  PROVE  Spec => []MaxSpentIsLargestBet
<1>1. Init => LargestBet(game, state)
  BY NewHandHasLargestBet DEF Init
<1>2. LargestBet(game, state) /\ HandInv /\ [Next]_vars => LargestBet(game, state)'
  BY NextKeepsLargestBet
<1>3. LargestBet(game, state) => MaxSpentIsLargestBet
  BY DEF LargestBet, MaxSpentIsLargestBet
<1>4. QED
  BY <1>1, <1>2, <1>3, HandInvHolds, PTL DEF Spec

(* In those games no step of a hand returns chips to a player, lowers the  *)
(* price of staying in or, within a round, the smallest raise.             *)
THEOREM ChipsNeverReturn ==
  ASSUME RaisesAreCovered
  PROVE  Spec => ChipsStayIn
<1>1. Init => LargestBet(game, state)
  BY NewHandHasLargestBet DEF Init
<1>2. LargestBet(game, state) /\ HandInv /\ [Next]_vars =>
        /\ LargestBet(game, state)'
        /\ [state.finished \/
              /\ \A p \in Players(game) : state'.spent[p] >= state.spent[p]
              /\ state'.maxSpent >= state.maxSpent
              /\ state'.round = state.round =>
                   state'.minNoLimitRaiseTo >= state.minNoLimitRaiseTo]_vars
  BY NextKeepsLargestBet
<1>3. QED
  BY <1>1, <1>2, HandInvHolds, PTL DEF Spec, ChipsStayIn

-----------------------------------------------------------------------------
(* Messages.                                                               *)

(* A new hand is read back from no betting, and whoever could read the     *)
(* state before a step can read the one after it.                          *)
LEMMA NewHandIsReadBack ==
  ASSUME NEW g \in Games
  PROVE  readBetting(g, printBetting(initState(g))) = <<initState(g)>>
<1>1. IsGame(g) /\ g.numPlayers <= MAX_NUM_ACTIONS /\ Sound(g, initState(g))
  BY GamesAreGames, NewHandHasInv
<1>2. QED
  BY <1>1, NewBettingIsEmpty, NothingRead

LEMMA ActIsReadBack ==
  ASSUME HandInv, BettingDeterminesState,
         NEW type \in ActionTypes, NEW size \in Int, Act(type, size)
  PROVE  BettingDeterminesState'
<1>1. PICK asked \in AskedActions : asked = [type |-> type, size |-> size]
  BY DEF AskedActions
<1>2. PICK next : next = doAction(game, state, fixAction(game, state, asked))
  OBVIOUS
<1>3. isValidAction(game, state, TRUE, asked) /\ state' = next /\ game' = game
  BY <1>1, <1>2 DEF Act
<1>4. /\ IsGame(game) /\ game.numPlayers <= MAX_NUM_ACTIONS
      /\ Sound(game, initState(game)) /\ Sound(game, state)
  BY GamesAreGames, NewHandHasInv DEF HandInv
<1>5. readBetting(game, printBetting(next)) = <<next>>
  BY <1>1, <1>2, <1>3, <1>4, ReadBackGoesOn DEF BettingDeterminesState
<1>6. QED
  BY <1>3, <1>5 DEF BettingDeterminesState

LEMMA NextIsReadBack ==
  ASSUME HandInv, BettingDeterminesState, [Next]_vars
  PROVE  BettingDeterminesState'
<1>1. ASSUME NEW type \in ActionTypes, NEW size \in Int, Act(type, size)
      PROVE  BettingDeterminesState'
  BY <1>1, ActIsReadBack
<1>2. CASE Fold
  BY <1>1, <1>2 DEF Fold, ActionTypes
<1>3. CASE Call
  BY <1>1, <1>3 DEF Call, ActionTypes
<1>4. CASE Raise
  <2>1. PICK size \in Int : Act("raise", size)
    BY <1>4, SizesAssumption DEF Raise
  <2>2. QED
    BY <1>1, <2>1 DEF ActionTypes
<1>5. CASE NewHand
  <2>1. game' = game /\ state' = initState(game) /\ game \in Games
    BY <1>5 DEF NewHand, HandInv
  <2>2. QED
    BY <2>1, NewHandIsReadBack DEF BettingDeterminesState
<1>6. CASE UNCHANGED vars
  BY <1>6 DEF vars, BettingDeterminesState
<1>7. QED
  BY <1>2, <1>3, <1>4, <1>5, <1>6 DEF Next

(* "spent, maxSpent, actingPlayer, finished, and playerFolded are all      *)
(* determined by the betting taken": in every game, readBetting() turns    *)
(* what printBetting() writes of a state back into that state.             *)
THEOREM BettingIsReadBack == Spec => []BettingDeterminesState
<1>1. Init => BettingDeterminesState
  BY NewHandIsReadBack DEF Init, BettingDeterminesState
<1>2. HandInv /\ BettingDeterminesState /\ [Next]_vars => BettingDeterminesState'
  BY NextIsReadBack
<1>3. QED
  BY <1>1, <1>2, HandInvHolds, PTL DEF Spec

-----------------------------------------------------------------------------
(* Settlement: what HandInv and LargestBet say of the values of a hand.    *)

(* What the lemmas on settlement ask for.                                  *)
LEMMA HandIsTyped ==
  ASSUME HandInv
  PROVE  /\ IsGame(game) /\ state \in StateType(game)
         /\ IsFiniteSet(Players(game))
         /\ \A p \in Players(game) : state.spent[p] \in Nat
         /\ Shares(game) \in Nat
         /\ RankFunctions \subseteq [Players(game) -> Int]
<1>1. IsGame(game) /\ state \in StateType(game)
  BY GamesAreGames DEF HandInv, Sound, WellFormed
<1>2. game.numPlayers \in Int
  BY <1>1 DEF IsGame
<1>3. RankFunctions \subseteq [Players(game) -> Int]
  BY <1>2 DEF RankFunctions
<1>4. QED
  BY <1>1, <1>3, ActingPlayersCount, LevelsAreFinite, SharesAreMultiples

(* The sums the properties take are totals.                                *)
LEMMA ValuesAddUp ==
  ASSUME HandInv, NEW rank, NEW v,
         \A p \in Players(game) : v[p] = Value(rank, p)
  PROVE  MapThenSumSet(LAMBDA p : Value(rank, p), Players(game))
           = Total(v, Players(game))
<1> DEFINE S == Players(game)
           Body(g) == g = [s \in SUBSET S |->
                             IF s = {} THEN 0
                             ELSE LET x == CHOOSE x \in s : TRUE
                                  IN  Value(rank, x) + g[s \ {x}]]
<1>1. IsFiniteSet(S) /\ \A p \in S : v[p] \in Int /\ v[p] = Value(rank, p)
  BY HandIsTyped, ValueIsANumber DEF Value
<1>2. ASSUME NEW g
      PROVE  Body(g) <=> IsSum(v, S, g)
  <2>1. ASSUME NEW s \in SUBSET S, s # {}
        PROVE  LET x == CHOOSE x \in s : TRUE
               IN  Value(rank, x) + g[s \ {x}] = v[x] + g[s \ {x}]
    <3>1. (CHOOSE x \in s : TRUE) \in s
      BY <2>1
    <3>2. QED
      BY <1>1, <3>1
  <2> HIDE DEF S
  <2>2. QED
    BY <2>1 DEF IsSum
<1>3. PICK g : IsSum(v, S, g)
  <2> HIDE DEF S
  <2>1. QED
    BY <1>1, SumExists
<1>4. PICK iter : /\ Body(iter)
                  /\ MapThenSumSet(LAMBDA p : Value(rank, p), S) = iter[S]
  <2>1. MapThenSumSet(LAMBDA p : Value(rank, p), S) = (CHOOSE iter : Body(iter))[S]
    BY DEF MapThenSumSet, MapThenFoldSet
  <2>2. Body(g)
    BY <1>2, <1>3
  <2>3. Body(CHOOSE iter : Body(iter))
    <3> HIDE DEF Body
    <3>1. QED
      BY <2>2, Zenon
  <2>4. QED
    BY <2>1, <2>3
<1>5. IsSum(v, S, iter)
  BY <1>2, <1>4
<1>6. iter[S] = Total(v, S)
  <2> HIDE DEF S, Body
  <2>1. S \in SUBSET S /\ \A p \in S : v[p] \in Int
    BY <1>1
  <2>2. QED
    BY <1>1, <1>5, <2>1, SumsAgree
<1>7. QED
  BY <1>4, <1>6

(* So is the sum of what each of the others can lose to p.                 *)
LEMMA StakesAddUp ==
  ASSUME HandInv, NEW p \in Players(game), NEW cover,
         \A q \in Players(game) \ {p} :
           cover[q] = Min({state.spent[p], state.spent[q]})
  PROVE  /\ Covers(cover, game, state, p)
         /\ MapThenSumSet(LAMBDA q : Min({state.spent[p], state.spent[q]}),
                          Players(game) \ {p})
              = Total(cover, Players(game) \ {p})
<1> DEFINE S == Players(game) \ {p}
           Body(g) == g = [s \in SUBSET S |->
                             IF s = {} THEN 0
                             ELSE LET x == CHOOSE x \in s : TRUE
                                  IN  Min({state.spent[p], state.spent[x]}) + g[s \ {x}]]
<1>1. ASSUME NEW q \in S
      PROVE  Least(cover[q], state.spent[p], state.spent[q]) /\ cover[q] \in Nat
  <2>1. PICK pair : pair = {state.spent[p], state.spent[q]}
    OBVIOUS
  <2>2. pair \subseteq Nat /\ pair # {}
    BY <2>1, HandIsTyped
  <2>3. Min(pair) \in pair /\ \A x \in pair : Min(pair) <= x
    BY <2>2, MinOfNats
  <2>4. cover[q] = Min(pair)
    BY <2>1
  <2>5. QED
    BY <2>1, <2>2, <2>3, <2>4 DEF Least
<1>2. Covers(cover, game, state, p)
  BY <1>1 DEF Covers
<1>3. IsFiniteSet(S) /\ \A q \in S : cover[q] \in Int
  BY <1>1, HandIsTyped, FS_Subset
<1>4. ASSUME NEW g
      PROVE  Body(g) <=> IsSum(cover, S, g)
  <2>1. ASSUME NEW s \in SUBSET S, s # {}
        PROVE  LET x == CHOOSE x \in s : TRUE
               IN  Min({state.spent[p], state.spent[x]}) + g[s \ {x}]
                     = cover[x] + g[s \ {x}]
    <3>1. (CHOOSE x \in s : TRUE) \in s
      BY <2>1
    <3>2. QED
      BY <3>1
  <2> HIDE DEF S
  <2>2. QED
    BY <2>1 DEF IsSum
<1>5. PICK g : IsSum(cover, S, g)
  <2> HIDE DEF S
  <2>1. QED
    BY <1>3, SumExists
<1>6. PICK iter :
        /\ Body(iter)
        /\ MapThenSumSet(LAMBDA q : Min({state.spent[p], state.spent[q]}), S) = iter[S]
  <2>1. MapThenSumSet(LAMBDA q : Min({state.spent[p], state.spent[q]}), S)
          = (CHOOSE iter : Body(iter))[S]
    BY DEF MapThenSumSet, MapThenFoldSet
  <2>2. Body(g)
    BY <1>4, <1>5
  <2>3. Body(CHOOSE iter : Body(iter))
    <3> HIDE DEF Body
    <3>1. QED
      BY <2>2, Zenon
  <2>4. QED
    BY <2>1, <2>3
<1>7. IsSum(cover, S, iter)
  BY <1>4, <1>6
<1>8. iter[S] = Total(cover, S)
  <2> HIDE DEF S, Body
  <2>1. S \in SUBSET S
    OBVIOUS
  <2>2. QED
    BY <1>3, <1>7, <2>1, SumsAgree
<1>9. QED
  BY <1>2, <1>6, <1>8

(* The largest bet of the others, and the smaller one of it and p's own.   *)
LEMMA LargestOther ==
  ASSUME HandInv, NEW p \in Players(game)
  PROVE  LET others == Max({state.spent[q] : q \in Players(game) \ {p}})
             x      == Min({state.spent[p], others})
         IN  /\ \A q \in Players(game) \ {p} : state.spent[q] <= others
             /\ \E q \in Players(game) \ {p} : state.spent[q] = others
             /\ others \in Nat /\ x \in Nat
             /\ Least(x, state.spent[p], others)
<1> DEFINE bets == {state.spent[q] : q \in Players(game) \ {p}}
<1>1. PICK others : others = Max(bets)
  OBVIOUS
<1>2. INT32_MAX \in Nat /\ bets \subseteq Nat /\ \A b \in bets : b <= INT32_MAX
  BY HandIsTyped, LimitsAssumption DEF StateType, Chips
<1>3. bets # {}
  <2>1. 0 \in Players(game) /\ 1 \in Players(game)
    BY HandIsTyped DEF IsGame, Players
  <2>2. PICK q \in Players(game) : q # p
    BY <2>1
  <2>3. QED
    BY <2>2
<1>4. others \in bets /\ \A b \in bets : b <= others
  <2> HIDE DEF bets
  <2>1. QED
    BY <1>1, <1>2, <1>3, MaxOfNats
<1>5. PICK pair : pair = {state.spent[p], others}
  OBVIOUS
<1>6. pair \subseteq Nat /\ pair # {}
  BY <1>2, <1>4, <1>5, HandIsTyped
<1>7. Min(pair) \in pair /\ \A y \in pair : Min(pair) <= y
  BY <1>6, MinOfNats
<1>8. Least(Min(pair), state.spent[p], others) /\ Min(pair) \in Nat /\ others \in Nat
  BY <1>2, <1>4, <1>5, <1>6, <1>7 DEF Least
<1>9. \A q \in Players(game) \ {p} : state.spent[q] <= others
  BY <1>4
<1>10. \E q \in Players(game) \ {p} : state.spent[q] = others
  BY <1>4
<1> HIDE DEF bets
<1>11. others = Max({state.spent[q] : q \in Players(game) \ {p}})
  BY <1>1 DEF bets
<1>12. QED
  BY <1>5, <1>8, <1>9, <1>10, <1>11

(* The two properties that need the largest bet.                           *)
LEMMA HandCancels ==
  ASSUME HandInv, LargestBet(game, state)
  PROVE  SettlementIsZeroSum
<1>1. SUFFICES ASSUME NEW rank \in RankFunctions
               PROVE  MapThenSumSet(LAMBDA p : Value(rank, p), Players(game)) = 0
  BY DEF SettlementIsZeroSum
<1>2. PICK v : v = [p \in Players(game) |-> Value(rank, p)]
  OBVIOUS
<1>3. \A p \in Players(game) : v[p] = Value(rank, p)
  BY <1>2
<1>4. \A p \in Players(game) : v[p] = valueOfState(game, state, rank, p)
  BY <1>3 DEF Value
<1>5. rank \in [Players(game) -> Int] /\ IsGame(game) /\ state \in StateType(game)
  BY HandIsTyped
<1>6. Total(v, Players(game)) = 0
  BY <1>4, <1>5, ValuesCancel
<1>7. MapThenSumSet(LAMBDA p : Value(rank, p), Players(game)) = Total(v, Players(game))
  BY <1>3, ValuesAddUp
<1>8. QED
  BY <1>6, <1>7

LEMMA HandIsCovered ==
  ASSUME HandInv, LargestBet(game, state)
  PROVE  TableStakes
<1>1. SUFFICES
        ASSUME NEW rank \in RankFunctions, NEW p \in Players(game)
        PROVE  LET covered == MapThenSumSet(
                                LAMBDA q : Min({state.spent[p], state.spent[q]}),
                                Players(game) \ {p})
                   others  == Max({state.spent[q] : q \in Players(game) \ {p}})
               IN  /\ Value(rank, p) <= covered * Shares(game)
                   /\ Value(rank, p) >= -Min({state.spent[p], others}) * Shares(game)
  BY DEF TableStakes
<1>2. rank \in [Players(game) -> Int] /\ IsGame(game) /\ state \in StateType(game)
  BY HandIsTyped
<1>3. PICK cover :
        cover = [q \in Players(game) \ {p} |-> Min({state.spent[p], state.spent[q]})]
  OBVIOUS
<1>4. \A q \in Players(game) \ {p} : cover[q] = Min({state.spent[p], state.spent[q]})
  BY <1>3
<1>5. PICK covered :
        covered = MapThenSumSet(LAMBDA q : Min({state.spent[p], state.spent[q]}),
                                Players(game) \ {p})
  OBVIOUS
<1>6. Covers(cover, game, state, p) /\ covered = Total(cover, Players(game) \ {p})
  BY <1>4, <1>5, StakesAddUp
<1>7. Value(rank, p) <= covered * Shares(game)
  BY <1>2, <1>6, WinIsCovered DEF Value
<1>8. PICK others : others = Max({state.spent[q] : q \in Players(game) \ {p}})
  OBVIOUS
<1>9. PICK x : x = Min({state.spent[p], others})
  OBVIOUS
<1>10. /\ \A q \in Players(game) \ {p} : state.spent[q] <= others
       /\ \E q \in Players(game) \ {p} : state.spent[q] = others
       /\ others \in Nat /\ x \in Nat
       /\ Least(x, state.spent[p], others)
  BY <1>8, <1>9, LargestOther
<1>11. Value(rank, p) >= -(x * Shares(game))
  BY <1>2, <1>10, LossIsCovered DEF Value
<1>12. QED
  BY <1>5, <1>7, <1>8, <1>9, <1>11

(* The dealer neither creates nor loses chips: at every showdown the       *)
(* values of valueOfState() (game.c:1051) add up to zero.                  *)
THEOREM ZeroSum ==
  ASSUME RaisesAreCovered
  PROVE  Spec => []SettlementIsZeroSum
<1>1. Init => LargestBet(game, state)
  BY NewHandHasLargestBet DEF Init
<1>2. LargestBet(game, state) /\ HandInv /\ [Next]_vars => LargestBet(game, state)'
  BY NextKeepsLargestBet
<1>3. HandInv /\ LargestBet(game, state) => SettlementIsZeroSum
  BY HandCancels
<1>4. QED
  BY <1>1, <1>2, <1>3, HandInvHolds, PTL DEF Spec

(* The side pots of valueOfState() keep the table stakes rule: nobody wins *)
(* or loses more against anyone than both have put in.                     *)
THEOREM StakesAreTheTable ==
  ASSUME RaisesAreCovered
  PROVE  Spec => []TableStakes
<1>1. Init => LargestBet(game, state)
  BY NewHandHasLargestBet DEF Init
<1>2. LargestBet(game, state) /\ HandInv /\ [Next]_vars => LargestBet(game, state)'
  BY NextKeepsLargestBet
<1>3. HandInv /\ LargestBet(game, state) => TableStakes
  BY HandIsCovered
<1>4. QED
  BY <1>1, <1>2, <1>3, HandInvHolds, PTL DEF Spec

(* Whoever nobody at the showdown beats does not lose, in any game.        *)
THEOREM BestHandIsSafe == Spec => []BestHandDoesNotLose
<1>1. HandInv => BestHandDoesNotLose
  <2>1. SUFFICES ASSUME HandInv, NEW rank \in RankFunctions,
                        NEW p \in Players(game), ~state.playerFolded[p],
                        \A q \in Players(game) :
                          ~state.playerFolded[q] => rank[q] <= rank[p]
                 PROVE  Value(rank, p) >= 0
    BY DEF BestHandDoesNotLose
  <2>2. rank \in [Players(game) -> Int] /\ IsGame(game) /\ state \in StateType(game)
    BY <2>1, HandIsTyped
  <2>3. QED
    BY <2>1, <2>2, BestHandWins DEF Value
<1>2. QED
  BY <1>1, HandInvHolds, PTL
-----------------------------------------------------------------------------
(* The loop over side pots.                                                *)

(* The list once everybody on it has paid all the pots up to a level.      *)
ListAt(g, s, rank, base) ==
  [q \in {r \in Players(g) : s.spent[r] > base} |->
     [spent |-> s.spent[q] - base,
      rank  |-> IF s.playerFolded[q] THEN -1 ELSE rank[q]]]

(* What the code finds smallest on the list ends at the next level, and    *)
(* those on the list are the ones who reach it.                            *)
NextLevel(g, s, rank, base, level) ==
  /\ base < level
  /\ PotOf(ListAt(g, s, rank, base)) = level - base
  /\ PotSize(g, s, level) = level - base
  /\ Contributors(g, s, level) = DOMAIN ListAt(g, s, rank, base)
  /\ LevelsTo(g, s, level) \ {level} = LevelsTo(g, s, base)
  /\ level \in LevelsTo(g, s, level)

LEMMA PotsAreLevels ==
  ASSUME NEW g, IsGame(g), NEW s \in StateType(g), NEW rank, NEW p \in Players(g),
         NEW base \in PotLevels(g, s) \union {0}, base < s.spent[p]
  PROVE  \E level \in PotLevels(g, s) :
           level <= s.spent[p] /\ NextLevel(g, s, rank, base, level)
<1> DEFINE D == {r \in Players(g) : s.spent[r] > base}
           list == ListAt(g, s, rank, base)
           T == {list[q].spent : q \in DOMAIN list}
<1>1. /\ base \in Nat /\ \A q \in Players(g) : s.spent[q] \in Nat
      /\ PotLevels(g, s) \subseteq Nat \ {0}
  BY LevelsAreFinite
<1>2. DOMAIN list = D /\ \A q \in D : list[q].spent = s.spent[q] - base
  BY DEF ListAt
<1>3. p \in D /\ T \subseteq Nat /\ T # {}
  <2>1. p \in D
    OBVIOUS
  <2> HIDE DEF list
  <2>2. QED
    BY <1>1, <1>2, <2>1
<1>4. PICK m : m = Min(T)
  OBVIOUS
<1>5. m \in T /\ \A x \in T : m <= x
  <2> HIDE DEF T
  <2>1. QED
    BY <1>3, <1>4, MinOfNats
<1>6. PICK q \in D : m = s.spent[q] - base
  <2> HIDE DEF D, list
  <2>1. QED
    BY <1>2, <1>5
<1>7. \A r \in D : m <= s.spent[r] - base
  <2> HIDE DEF D, list
  <2>1. QED
    BY <1>2, <1>5
<1>8. PICK level : level = s.spent[q]
  OBVIOUS
<1>9. /\ level \in PotLevels(g, s) /\ base < level
      /\ level <= s.spent[p]
      /\ \A r \in D : level <= s.spent[r]
  <2>1. base < s.spent[q] /\ s.spent[q] \in Nat
    BY <1>1, <1>6
  <2>2. level \in PotLevels(g, s)
    BY <1>1, <1>6, <1>8, <2>1 DEF PotLevels
  <2>3. \A r \in D : level <= s.spent[r]
    BY <1>1, <1>6, <1>7, <1>8
  <2>4. QED
    BY <1>3, <1>8, <2>1, <2>2, <2>3
<1>10. PICK k \in PotLevels(g, s) \union {0} :
         /\ k < level /\ PotSize(g, s, level) = level - k
         /\ LevelsTo(g, s, level) \ {level} = LevelsTo(g, s, k)
         /\ level \in LevelsTo(g, s, level)
  BY <1>9, PotSizeEffect
<1>11. k = base
  <2>1. k <= base
    <3>1. SUFFICES ASSUME k > base
                   PROVE  FALSE
      BY <1>1
    <3>2. k \in PotLevels(g, s)
      BY <1>1, <3>1
    <3>3. PICK r \in Players(g) : s.spent[r] = k
      BY <3>2 DEF PotLevels
    <3>4. r \in D
      BY <3>1, <3>3
    <3>5. QED
      BY <1>1, <1>9, <1>10, <3>2, <3>3, <3>4
  <2>2. base <= k
    <3>1. CASE base = 0
      BY <1>1, <3>1
    <3>2. CASE base # 0
      <4>1. base \in LevelsTo(g, s, level) /\ base # level
        BY <1>1, <1>9, <3>2 DEF LevelsTo
      <4>2. base \in LevelsTo(g, s, k)
        BY <1>10, <4>1
      <4>3. QED
        BY <4>2 DEF LevelsTo
    <3>3. QED
      BY <3>1, <3>2
  <2>3. k \in Nat
    BY <1>1
  <2>4. QED
    BY <1>1, <2>1, <2>2, <2>3
<1>12. Contributors(g, s, level) = D
  <2>1. \A r \in Players(g) : s.spent[r] >= level <=> s.spent[r] > base
    BY <1>1, <1>9
  <2>2. QED
    BY <2>1 DEF Contributors
<1>13. PotOf(list) = level - base
  BY <1>4, <1>6, <1>8 DEF PotOf
<1>14. NextLevel(g, s, rank, base, level)
  <2> HIDE DEF D, list
  <2>1. list = ListAt(g, s, rank, base)
    BY DEF list
  <2>2. QED
    BY <1>2, <1>9, <1>10, <1>11, <1>12, <1>13, <2>1 DEF NextLevel
<1>15. QED
  BY <1>9, <1>14

(* The code's winners, those of the highest rank on the list, are the best *)
(* of the hands at the showdown, so it settles the pot as PotShare() says. *)
LEMMA PotIsSettled ==
  ASSUME NEW g, IsGame(g), NEW s \in StateType(g), NEW rank \in [Players(g) -> Nat],
         NEW p \in Players(g), ~s.playerFolded[p],
         NEW base \in PotLevels(g, s) \union {0}, base < s.spent[p],
         NEW level \in PotLevels(g, s), NextLevel(g, s, rank, base, level)
  PROVE  SidePot(ListAt(g, s, rank, base), p, Shares(g)) = PotShare(g, s, rank, level, p)
<1> DEFINE D == {r \in Players(g) : s.spent[r] > base}
           list == ListAt(g, s, rank, base)
           R == {0} \union {list[q].rank : q \in D}
<1>1. PICK none \in Int : none = -1
  OBVIOUS
<1>2. /\ DOMAIN list = D /\ p \in D
      /\ \A q \in D : list[q].rank = IF s.playerFolded[q] THEN none ELSE rank[q]
  BY <1>1 DEF ListAt
<1>3. PICK f : f = [q \in D |-> IF s.playerFolded[q] THEN none ELSE rank[q]]
  OBVIOUS
<1>4. /\ \A q \in D : list[q].rank = f[q] /\ f[q] \in Int
      /\ \A q \in D : s.playerFolded[q] => f[q] = none
      /\ \A q \in D : ~s.playerFolded[q] => f[q] = rank[q] /\ f[q] \in Nat
  BY <1>2, <1>3
<1>5. IsFiniteSet(D) /\ D # {}
  BY <1>2, ActingPlayersCount, FS_Subset
<1>6. PICK best \in D : \A q \in D : f[q] <= f[best]
  <2> HIDE DEF D
  <2>1. QED
    BY <1>4, <1>5, LargestSomewhere
<1>7. ~s.playerFolded[best] /\ f[best] \in Nat
  <2>1. f[p] \in Nat /\ f[p] <= f[best]
    BY <1>2, <1>4, <1>6
  <2>2. s.playerFolded[best] => f[best] = none
    BY <1>4, <1>6
  <2>3. ~s.playerFolded[best]
    BY <1>1, <2>1, <2>2
  <2>4. QED
    BY <1>4, <1>6, <2>3
<1>8. PICK top : top = Max(R)
  OBVIOUS
<1>9. top = f[best]
  <2>1. R = {0} \union {f[q] : q \in D}
    <3> HIDE DEF list, D
    <3>1. QED
      BY <1>4
  <2>2. f[best] \in R /\ \A y \in R : f[best] >= y
    <3> HIDE DEF D, R
    <3>1. QED
      BY <1>4, <1>6, <1>7, <2>1
  <2>3. \A x \in R : x \in Int
    <3> HIDE DEF D, R
    <3>1. QED
      BY <1>4, <2>1
  <2>4. top \in R /\ \A y \in R : top >= y
    <3> HIDE DEF R
    <3>1. QED
      BY <1>8, <2>2 DEF Max
  <2> HIDE DEF R
  <2>5. QED
    BY <2>2, <2>3, <2>4
<1>10. PICK winners : winners = {q \in D : list[q].rank = top}
  OBVIOUS
<1>11. winners = Winners(g, s, rank, level)
  <2>1. Contributors(g, s, level) = D
    BY <1>2 DEF NextLevel
  <2>2. PICK live : live = {q \in D : ~s.playerFolded[q]}
    OBVIOUS
  <2>3. Winners(g, s, rank, level) = {q \in live : \A r \in live : rank[r] <= rank[q]}
    BY <2>1, <2>2 DEF Winners
  <2> HIDE DEF D, list
  <2>4. ASSUME NEW q \in winners
        PROVE  q \in live /\ \A r \in live : rank[r] <= rank[q]
    <3>1. q \in D /\ f[q] = f[best]
      BY <1>4, <1>9, <1>10
    <3>2. ~s.playerFolded[q]
      BY <1>1, <1>4, <1>7, <3>1
    <3>3. \A r \in live : r \in D /\ rank[r] = f[r] /\ f[r] <= f[best]
      BY <1>4, <1>6, <2>2
    <3>4. rank[q] = f[best]
      BY <1>4, <3>1, <3>2
    <3>5. QED
      BY <2>2, <3>1, <3>2, <3>3, <3>4
  <2>5. ASSUME NEW q \in live, \A r \in live : rank[r] <= rank[q]
        PROVE  q \in winners
    <3>1. best \in live /\ q \in D /\ rank[q] = f[q] /\ rank[best] = f[best]
      BY <1>4, <1>7, <2>2
    <3>2. f[best] <= f[q] /\ f[q] <= f[best]
      BY <1>6, <2>5, <3>1
    <3>3. f[best] \in Int /\ f[q] \in Int
      BY <1>4, <3>1
    <3>4. f[best] = f[q]
      BY <3>2, <3>3
    <3>5. QED
      BY <1>4, <1>9, <1>10, <3>1, <3>4
  <2>6. winners = {q \in live : \A r \in live : rank[r] <= rank[q]}
    BY <2>4, <2>5
  <2>7. QED
    BY <2>3, <2>6
<1>12. PICK size : size = PotOf(list)
  OBVIOUS
<1>13. size = PotSize(g, s, level) /\ Contributors(g, s, level) = D
  BY <1>2, <1>12 DEF NextLevel
<1>14. SidePot(list, p, Shares(g)) =
         IF p \in winners
           THEN ((size * Shares(g)) \div Cardinality(winners)) * Cardinality(D \ winners)
           ELSE -(size * Shares(g))
  <2> HIDE DEF list, D
  <2>1. QED
    BY <1>2, <1>8, <1>10, <1>12 DEF SidePot
<1>15. PotShare(g, s, rank, level, p) =
         IF p \in winners
           THEN ((size * Shares(g)) \div Cardinality(winners)) * Cardinality(D \ winners)
           ELSE -(size * Shares(g))
  BY <1>11, <1>13, Zenon DEF PotShare
<1>16. QED
  BY <1>14, <1>15

(* What the code drops and takes from everybody leaves the list at the     *)
(* next level, and a shorter one.                                          *)
LEMMA ListGoesOn ==
  ASSUME NEW g, IsGame(g), NEW s \in StateType(g), NEW rank,
         NEW base \in PotLevels(g, s) \union {0},
         NEW level \in PotLevels(g, s), NextLevel(g, s, rank, base, level)
  PROVE  /\ NextPot(ListAt(g, s, rank, base)) = ListAt(g, s, rank, level)
         /\ IsFiniteSet(DOMAIN ListAt(g, s, rank, base))
         /\ Cardinality(DOMAIN ListAt(g, s, rank, level))
              < Cardinality(DOMAIN ListAt(g, s, rank, base))
<1> DEFINE D == {r \in Players(g) : s.spent[r] > base}
           E == {r \in Players(g) : s.spent[r] > level}
           list == ListAt(g, s, rank, base)
<1>1. /\ base \in Nat /\ level \in Nat /\ \A q \in Players(g) : s.spent[q] \in Nat
      /\ base < level
  BY LevelsAreFinite DEF NextLevel
<1>2. DOMAIN list = D /\ DOMAIN ListAt(g, s, rank, level) = E
  BY DEF ListAt
<1>3. \A q \in D : list[q] = [spent |-> s.spent[q] - base,
                              rank |-> IF s.playerFolded[q] THEN -1 ELSE rank[q]]
  BY DEF ListAt
<1>4. E = {r \in D : list[r].spent > level - base}
  <2>1. \A r \in Players(g) : s.spent[r] > level <=>
          s.spent[r] > base /\ s.spent[r] - base > level - base
    BY <1>1
  <2>2. \A r \in D : list[r].spent = s.spent[r] - base
    BY DEF ListAt
  <2> HIDE DEF list
  <2>3. QED
    BY <2>1, <2>2
<1>5. \A q \in E : [list[q] EXCEPT !.spent = @ - (level - base)]
                     = [spent |-> s.spent[q] - level,
                        rank |-> IF s.playerFolded[q] THEN -1 ELSE rank[q]]
  <2>1. SUFFICES ASSUME NEW q \in E
                 PROVE  [list[q] EXCEPT !.spent = @ - (level - base)]
                          = [spent |-> s.spent[q] - level,
                             rank |-> IF s.playerFolded[q] THEN -1 ELSE rank[q]]
    OBVIOUS
  <2>2. PICK x : x = IF s.playerFolded[q] THEN -1 ELSE rank[q]
    OBVIOUS
  <2>3. list[q] = [spent |-> s.spent[q] - base, rank |-> x]
    BY <1>3, <1>4, <2>2
  <2>4. (s.spent[q] - base) - (level - base) = s.spent[q] - level
    BY <1>1
  <2> HIDE DEF list, E
  <2>5. QED
    BY <2>2, <2>3, <2>4
<1>6. NextPot(list) = ListAt(g, s, rank, level)
  <2>1. PICK size : size = level - base
    OBVIOUS
  <2>2. PotOf(list) = size
    BY <2>1 DEF NextLevel
  <2>3. NextPot(list) = [q \in E |-> [list[q] EXCEPT !.spent = @ - size]]
    <3> HIDE DEF list, E, D
    <3>1. QED
      BY <1>2, <1>4, <2>1, <2>2 DEF NextPot
  <2>4. ListAt(g, s, rank, level) =
          [q \in E |-> [spent |-> s.spent[q] - level,
                        rank |-> IF s.playerFolded[q] THEN -1 ELSE rank[q]]]
    BY DEF ListAt
  <2> HIDE DEF list, E, D
  <2>5. QED
    BY <1>5, <2>1, <2>3, <2>4
<1>7. PICK q \in D : q \notin E
  <2>1. PICK q \in Players(g) : s.spent[q] = level
    BY DEF PotLevels
  <2>2. QED
    BY <1>1, <2>1
<1>8. IsFiniteSet(D) /\ E \subseteq D /\ E # D
  <2>1. IsFiniteSet(D)
    BY ActingPlayersCount, FS_Subset
  <2>2. E \subseteq D
    BY <1>1
  <2>3. QED
    BY <1>7, <2>1, <2>2
<1> HIDE DEF D, E
<1>9. Cardinality(E) <= Cardinality(D) /\ Cardinality(E) # Cardinality(D)
  BY <1>8, FS_Subset
<1>10. Cardinality(E) \in Nat /\ Cardinality(D) \in Nat
  BY <1>8, FS_Subset, FS_CardinalityType
<1>11. QED
  BY <1>2, <1>6, <1>8, <1>9, <1>10

(* Where the loop can be: at a level up to what the player has spent.      *)
LoopAt(g, s, rank, base, v) == [list |-> ListAt(g, s, rank, base), value |-> v]

LoopStates(g, s, rank, p) ==
  UNION {{LoopAt(g, s, rank, base, v) : v \in Int} :
           base \in {b \in PotLevels(g, s) \union {0} : b <= s.spent[p]}}

LEMMA LoopStatesAre ==
  ASSUME NEW g, NEW s, NEW rank, NEW p, NEW base \in PotLevels(g, s) \union {0},
         base <= s.spent[p], NEW v \in Int
  PROVE  LoopAt(g, s, rank, base, v) \in LoopStates(g, s, rank, p)
<1> DEFINE B == {b \in PotLevels(g, s) \union {0} : b <= s.spent[p]}
           At(b) == {LoopAt(g, s, rank, b, x) : x \in Int}
<1>1. base \in B /\ LoopAt(g, s, rank, base, v) \in At(base)
  OBVIOUS
<1>2. LoopStates(g, s, rank, p) = UNION {At(b) : b \in B}
  BY Zenon DEF LoopStates
<1> HIDE DEF B, At
<1>3. QED
  BY <1>1, <1>2

(* A turn settles the pot up to the next level, until the player's bet is  *)
(* used up.                                                                *)
LEMMA TurnEffect ==
  ASSUME NEW g, IsGame(g), NEW s \in StateType(g), NEW rank \in [Players(g) -> Nat],
         NEW p \in Players(g), ~s.playerFolded[p],
         NEW base \in PotLevels(g, s) \union {0}, base <= s.spent[p], NEW v \in Int
  PROVE  LET turn == Turn(LoopAt(g, s, rank, base, v), p, Shares(g))
         IN  \/ base = s.spent[p] /\ turn = LoopAt(g, s, rank, base, v)
             \/ /\ base < s.spent[p]
                /\ \E level \in PotLevels(g, s) :
                     /\ level <= s.spent[p] /\ NextLevel(g, s, rank, base, level)
                     /\ turn = LoopAt(g, s, rank, level,
                                      v + PotShare(g, s, rank, level, p))
<1>1. base \in Nat /\ s.spent[p] \in Nat
  BY LevelsAreFinite
<1>2. PICK list : list = ListAt(g, s, rank, base)
  OBVIOUS
<1>3. p \in DOMAIN list <=> s.spent[p] > base
  BY <1>2 DEF ListAt
<1>4. PICK now : now = LoopAt(g, s, rank, base, v)
  OBVIOUS
<1>5. now.list = list /\ now.value = v
  BY <1>2, <1>4 DEF LoopAt
<1>6. CASE base = s.spent[p]
  <2>1. p \notin DOMAIN now.list
    BY <1>1, <1>3, <1>5, <1>6
  <2>2. Turn(now, p, Shares(g)) = now
    BY <2>1 DEF Turn
  <2>3. QED
    BY <1>4, <1>6, <2>2
<1>7. CASE base < s.spent[p]
  <2>1. PICK level \in PotLevels(g, s) :
          level <= s.spent[p] /\ NextLevel(g, s, rank, base, level)
    BY <1>7, PotsAreLevels
  <2>2. SidePot(list, p, Shares(g)) = PotShare(g, s, rank, level, p)
    BY <1>2, <1>7, <2>1, PotIsSettled
  <2>3. NextPot(list) = ListAt(g, s, rank, level)
    BY <1>2, <2>1, ListGoesOn
  <2>4. Turn(now, p, Shares(g)) = [list  |-> NextPot(list),
                                   value |-> v + SidePot(list, p, Shares(g))]
    BY <1>1, <1>3, <1>5, <1>7 DEF Turn
  <2>5. Turn(now, p, Shares(g))
          = LoopAt(g, s, rank, level, v + PotShare(g, s, rank, level, p))
    BY <2>2, <2>3, <2>4 DEF LoopAt
  <2>6. QED
    BY <1>4, <1>7, <2>1, <2>5
<1>8. QED
  BY <1>1, <1>6, <1>7

(* The turns of the loop, one after the other.                             *)
IsLoop(g, s, rank, p, n, f) ==
  /\ f[0] = LoopAt(g, s, rank, 0, 0)
  /\ \A i \in 1..n : f[i] = Turn(f[i - 1], p, Shares(g))

LEMMA LoopRuns ==
  ASSUME NEW g, IsGame(g), NEW s \in StateType(g), NEW rank \in [Players(g) -> Nat],
         NEW p \in Players(g), ~s.playerFolded[p]
  PROVE  LET n == Cardinality(DOMAIN ListAt(g, s, rank, 0))
         IN  \E f : /\ IsLoop(g, s, rank, p, n, f)
                    /\ SidePots(PotList(g, s, rank), p, Shares(g)) = f[n].value
<1> DEFINE A == LoopStates(g, s, rank, p)
           start == LoopAt(g, s, rank, 0, 0)
<1>1. /\ \A q \in Players(g) : s.spent[q] \in Nat
      /\ \A q \in Players(g) : s.spent[q] # 0 <=> s.spent[q] > 0
  BY LevelsAreFinite
<1>2. PICK list : list = PotList(g, s, rank)
  OBVIOUS
<1>3. list = ListAt(g, s, rank, 0)
  <2>1. {q \in Players(g) : s.spent[q] # 0} = {q \in Players(g) : s.spent[q] > 0}
    BY <1>1
  <2>2. \A q \in Players(g) : s.spent[q] - 0 = s.spent[q]
    BY <1>1
  <2>3. QED
    BY <1>2, <2>1, <2>2 DEF PotList, ListAt
<1>4. PICK n : n = Cardinality(DOMAIN list)
  OBVIOUS
<1>5. n \in Nat
  <2>1. DOMAIN list \subseteq Players(g)
    BY <1>3 DEF ListAt
  <2>2. QED
    BY <1>4, <2>1, ActingPlayersCount, FS_Subset, FS_CardinalityType
<1>6. start \in A
  <2>1. PICK zero \in Int : zero = 0
    OBVIOUS
  <2>2. zero \in PotLevels(g, s) \union {0} /\ zero <= s.spent[p]
    BY <1>1, <2>1
  <2>3. LoopAt(g, s, rank, zero, zero) \in A
    BY <2>2, LoopStatesAre
  <2>4. QED
    BY <2>1, <2>3
<1>7. \A now \in A : Turn(now, p, Shares(g)) \in A
  <2>1. TAKE now \in A
  <2>2. PICK base \in {b \in PotLevels(g, s) \union {0} : b <= s.spent[p]}, v \in Int :
          now = LoopAt(g, s, rank, base, v)
    BY Zenon DEF LoopStates
  <2>3. CASE Turn(now, p, Shares(g)) = now
    BY <2>3
  <2>4. ASSUME NEW level \in PotLevels(g, s), level <= s.spent[p],
               Turn(now, p, Shares(g))
                 = LoopAt(g, s, rank, level, v + PotShare(g, s, rank, level, p))
        PROVE  Turn(now, p, Shares(g)) \in A
    <3>1. PICK w : w = v + PotShare(g, s, rank, level, p)
      OBVIOUS
    <3>2. w \in Int
      BY <3>1, PotShareIsANumber
    <3>3. Turn(now, p, Shares(g)) = LoopAt(g, s, rank, level, w)
      BY <2>4, <3>1
    <3>4. QED
      BY <2>4, <3>2, <3>3, LoopStatesAre
  <2>5. QED
    <3>1. base \in PotLevels(g, s) \union {0} /\ base <= s.spent[p]
      OBVIOUS
    <3> HIDE DEF A
    <3>2. QED
      BY <2>2, <2>3, <2>4, <3>1, TurnEffect
<1> DEFINE step == [x \in A \X (1..n) |-> Turn(x[1], p, Shares(g))]
           Body(h) == h = [i \in 0..n |-> IF i = 0 THEN [list |-> list, value |-> 0]
                                          ELSE Turn(h[i - 1], p, Shares(g))]
<1> HIDE DEF A
<1>8. step \in [A \X (1..n) -> A]
  BY <1>7
<1>9. PICK f \in [0..n -> A] :
        f[0] = start /\ \A i \in 1..n : f[i] = step[<<f[i - 1], i>>]
  <2> HIDE DEF step, start
  <2>1. StepsIn(A, start, n, step)
    BY <1>5, <1>6, <1>8 DEF StepsIn
  <2>2. PICK f : IsSteps(A, start, n, step, f)
    BY <2>1, StepByStep
  <2>3. QED
    BY <2>2 DEF IsSteps
<1>10. \A i \in 1..n : f[i] = Turn(f[i - 1], p, Shares(g))
  <2>1. TAKE i \in 1..n
  <2>2. f[i - 1] \in A
    BY <1>5, <1>9
  <2>3. QED
    BY <1>9, <2>2
<1>11. start = [list |-> list, value |-> 0]
  BY <1>3 DEF LoopAt
<1> HIDE DEF step, start
<1>12. Body(f)
  <2>1. f = [i \in 0..n |-> f[i]]
    BY <1>9
  <2>2. \A i \in 0..n : i = 0 \/ i \in 1..n
    BY <1>5
  <2>3. QED
    BY <1>9, <1>10, <1>11, <2>1, <2>2
<1>13. PICK h : Body(h) /\ SidePots(list, p, Shares(g)) = h[n].value
  <2>1. SidePots(list, p, Shares(g)) = (CHOOSE h : Body(h))[n].value
    BY <1>4 DEF SidePots
  <2>2. Body(CHOOSE h : Body(h))
    <3> HIDE DEF Body
    <3>1. QED
      BY <1>12, Zenon
  <2>3. QED
    BY <2>1, <2>2
<1>14. h[0] = start /\ \A i \in 1..n : h[i] = Turn(h[i - 1], p, Shares(g))
  <2>1. 0 \in 0..n /\ \A i \in 1..n : i \in 0..n /\ i # 0
    BY <1>5
  <2>2. QED
    BY <1>11, <1>13, <2>1
<1>15. IsLoop(g, s, rank, p, n, h)
  BY <1>14 DEF IsLoop, start
<1>16. QED
  BY <1>2, <1>3, <1>4, <1>13, <1>15

(* After i turns the loop has settled the levels up to some level, and is  *)
(* either done or has lost i players.                                      *)
LoopSettles(g, s, rank, p, share, n, now, i) ==
  \E base \in PotLevels(g, s) \union {0} :
    /\ base <= s.spent[p]
    /\ now = LoopAt(g, s, rank, base, Total(share, LevelsTo(g, s, base)))
    /\ \/ base = s.spent[p]
       \/ Cardinality(DOMAIN ListAt(g, s, rank, base)) <= n - i

LEMMA TurnSettles ==
  ASSUME NEW g, IsGame(g), NEW s \in StateType(g), NEW rank \in [Players(g) -> Nat],
         NEW p \in Players(g), ~s.playerFolded[p], NEW share,
         \A l \in PotLevels(g, s) : share[l] = PotShare(g, s, rank, l, p),
         NEW n \in Nat, NEW i \in 1..n, NEW now,
         LoopSettles(g, s, rank, p, share, n, now, i - 1)
  PROVE  LoopSettles(g, s, rank, p, share, n, Turn(now, p, Shares(g)), i)
<1>1. PICK base \in PotLevels(g, s) \union {0} :
        /\ base <= s.spent[p]
        /\ now = LoopAt(g, s, rank, base, Total(share, LevelsTo(g, s, base)))
        /\ \/ base = s.spent[p]
           \/ Cardinality(DOMAIN ListAt(g, s, rank, base)) <= n - (i - 1)
  BY DEF LoopSettles
<1>2. IsFiniteSet(PotLevels(g, s)) /\ \A l \in PotLevels(g, s) : share[l] \in Int
  BY LevelsAreFinite, PotShareIsANumber
<1>3. PICK v : v = Total(share, LevelsTo(g, s, base))
  OBVIOUS
<1>4. v \in Int
  <2>1. LevelsTo(g, s, base) \in SUBSET PotLevels(g, s)
    BY LevelsToAreLevels
  <2>2. QED
    BY <1>2, <1>3, <2>1, TotalStep
<1>5. CASE base = s.spent[p] /\ Turn(now, p, Shares(g)) = now
  BY <1>1, <1>5 DEF LoopSettles
<1>6. ASSUME base < s.spent[p],
             NEW level \in PotLevels(g, s), level <= s.spent[p],
             NextLevel(g, s, rank, base, level),
             Turn(now, p, Shares(g))
               = LoopAt(g, s, rank, level, v + PotShare(g, s, rank, level, p))
      PROVE  LoopSettles(g, s, rank, p, share, n, Turn(now, p, Shares(g)), i)
  <2>1. PICK T \in SUBSET PotLevels(g, s) : T = LevelsTo(g, s, level)
    BY LevelsToAreLevels
  <2>2. level \in T /\ T \ {level} = LevelsTo(g, s, base)
    BY <1>6, <2>1 DEF NextLevel
  <2>3. Total(share, T) = share[level] + Total(share, T \ {level})
    <3>1. PICK levels : levels = PotLevels(g, s)
      OBVIOUS
    <3>2. IsFiniteSet(levels) /\ \A l \in levels : share[l] \in Int
      BY <1>2, <3>1, Zenon
    <3>3. SumsUp(share, levels)
      BY <3>2, PartsSumUp
    <3>4. T \in SUBSET levels
      BY <3>1, Zenon
    <3>5. QED
      BY <2>2, <3>3, <3>4, Zenon DEF SumsUp
  <2>4. Total(share, T) = v + PotShare(g, s, rank, level, p)
    <3>4. Total(share, T \ {level}) = v
      BY <1>3, <2>2, Zenon
    <3>1. Total(share, T) = share[level] + v
      BY <2>3, <3>4, Zenon
    <3>2. share[level] \in Int /\ share[level] = PotShare(g, s, rank, level, p)
      BY <1>2
    <3>3. QED
      BY <1>4, <3>1, <3>2
  <2>5. PICK a, b : /\ a = Cardinality(DOMAIN ListAt(g, s, rank, level))
                    /\ b = Cardinality(DOMAIN ListAt(g, s, rank, base))
    OBVIOUS
  <2>6. a < b /\ a \in Nat /\ b \in Nat
    <3>1. a < b /\ IsFiniteSet(DOMAIN ListAt(g, s, rank, base))
      BY <1>6, <2>5, ListGoesOn
    <3>2. DOMAIN ListAt(g, s, rank, level) \subseteq Players(g)
      BY DEF ListAt
    <3>3. IsFiniteSet(DOMAIN ListAt(g, s, rank, level))
      BY <3>2, ActingPlayersCount, FS_Subset
    <3>4. QED
      BY <2>5, <3>1, <3>3, FS_CardinalityType
  <2>7. base \in Nat /\ s.spent[p] \in Nat
    BY LevelsAreFinite
  <2>8. b <= n - (i - 1)
    BY <1>1, <1>6, <2>5, <2>7
  <2>9. a <= n - i
    BY <2>6, <2>8
  <2>10. Turn(now, p, Shares(g)) = LoopAt(g, s, rank, level, Total(share, LevelsTo(g, s, level)))
    BY <1>6, <2>1, <2>4
  <2>11. QED
    BY <1>6, <2>5, <2>9, <2>10 DEF LoopSettles
<1>7. QED
  BY <1>1, <1>3, <1>4, <1>5, <1>6, TurnEffect

(* So the loop comes to the sum over the levels the player has reached.    *)
LEMMA LoopAddsUp ==
  ASSUME NEW g, IsGame(g), NEW s \in StateType(g), NEW rank \in [Players(g) -> Nat],
         NEW p \in Players(g), ~s.playerFolded[p], ~OnlyOneLeft(g, s)
  PROVE  SidePots(PotList(g, s, rank), p, Shares(g)) = valueOfState(g, s, rank, p)
<1>1. PICK n : n = Cardinality(DOMAIN ListAt(g, s, rank, 0))
  OBVIOUS
<1>2. PICK f : /\ IsLoop(g, s, rank, p, n, f)
               /\ SidePots(PotList(g, s, rank), p, Shares(g)) = f[n].value
  BY <1>1, LoopRuns
<1>3. PICK share : share = [l \in PotLevels(g, s) |-> PotShare(g, s, rank, l, p)]
  OBVIOUS
<1>4. \A l \in PotLevels(g, s) : share[l] = PotShare(g, s, rank, l, p)
  BY <1>3
<1>5. /\ IsFiniteSet(PotLevels(g, s)) /\ PotLevels(g, s) \subseteq Nat \ {0}
      /\ \A l \in PotLevels(g, s) : share[l] \in Int
      /\ s.spent[p] \in Nat
  BY <1>4, LevelsAreFinite, PotShareIsANumber
<1>6. n \in Nat
  <2>1. DOMAIN ListAt(g, s, rank, 0) \subseteq Players(g)
    BY DEF ListAt
  <2>2. QED
    BY <1>1, <2>1, ActingPlayersCount, FS_Subset, FS_CardinalityType
<1> DEFINE Good(i) == LoopSettles(g, s, rank, p, share, n, f[i], i)
           Bad == {i \in 0..n : ~Good(i)}
<1>7. Good(0)
  <2>1. LevelsTo(g, s, 0) = {}
    BY <1>5 DEF LevelsTo
  <2>2. Total(share, LevelsTo(g, s, 0)) = 0
    BY <1>5, <2>1, TotalStep
  <2>3. f[0] = LoopAt(g, s, rank, 0, Total(share, LevelsTo(g, s, 0)))
    BY <1>2, <2>2 DEF IsLoop
  <2>4. 0 <= s.spent[p] /\ n <= n - 0
    BY <1>5, <1>6
  <2>5. QED
    BY <1>1, <2>3, <2>4 DEF LoopSettles
<1>8. ASSUME NEW i \in 1..n, Good(i - 1)
      PROVE  Good(i)
  <2>1. f[i] = Turn(f[i - 1], p, Shares(g))
    BY <1>2 DEF IsLoop
  <2>2. QED
    BY <1>4, <1>6, <1>8, <2>1, TurnSettles
<1>9. Bad = {}
  <2>1. SUFFICES ASSUME Bad # {}
                 PROVE  FALSE
    OBVIOUS
  <2>2. PICK k \in Bad : \A j \in Bad : k <= j
    <3>1. Bad \subseteq Nat
      OBVIOUS
    <3> HIDE DEF Bad
    <3>2. QED
      BY <2>1, <3>1, MinOfNats
  <2> HIDE DEF Good
  <2>3. k \in 1..n
    BY <1>6, <1>7
  <2>4. k - 1 \in 0..n /\ ~(k <= k - 1)
    BY <1>6, <2>3
  <2>5. Good(k - 1)
    BY <2>2, <2>4
  <2>6. QED
    BY <1>8, <2>3, <2>5
<1>10. Good(n)
  <2> HIDE DEF Good
  <2>1. QED
    BY <1>6, <1>9
<1>11. PICK base \in PotLevels(g, s) \union {0} :
         /\ base <= s.spent[p]
         /\ f[n] = LoopAt(g, s, rank, base, Total(share, LevelsTo(g, s, base)))
         /\ \/ base = s.spent[p]
            \/ Cardinality(DOMAIN ListAt(g, s, rank, base)) <= n - n
  BY <1>10 DEF LoopSettles
<1>12. base = s.spent[p]
  <2>1. SUFFICES ASSUME base # s.spent[p]
                 PROVE  FALSE
    OBVIOUS
  <2>2. PICK D : D = DOMAIN ListAt(g, s, rank, base)
    OBVIOUS
  <2>3. p \in D /\ D \subseteq Players(g)
    <3>1. s.spent[p] > base
      BY <1>5, <1>11, <2>1
    <3>2. QED
      BY <2>2, <3>1 DEF ListAt
  <2>4. IsFiniteSet(D) /\ D # {}
    BY <2>3, ActingPlayersCount, FS_Subset
  <2>5. Cardinality(D) \in Nat /\ Cardinality(D) # 0
    BY <2>4, FS_CardinalityType, FS_EmptySet
  <2>6. Cardinality(D) <= 0
    BY <1>6, <1>11, <2>1, <2>2
  <2>7. QED
    BY <2>5, <2>6
<1>13. f[n].value = Total(share, LevelsTo(g, s, s.spent[p]))
  BY <1>11, <1>12 DEF LoopAt
<1>14. valueOfState(g, s, rank, p) = Total(share, LevelsTo(g, s, s.spent[p]))
  <2>1. valueOfState(g, s, rank, p)
          = MapThenSumSet(LAMBDA l : PotShare(g, s, rank, l, p),
                          {l \in PotLevels(g, s) : l <= s.spent[p]})
    BY DEF valueOfState
  <2>2. QED
    BY <1>4, <2>1, SharesOfPots
<1>15. QED
  BY <1>2, <1>13, <1>14

(* The loop of valueOfState() over side pots computes, in every hand of    *)
(* every game, the sum over the levels of the pot.                         *)
THEOREM SidePotsAddUp == Spec => []SidePotLoopAgrees
<1>1. HandInv => SidePotLoopAgrees
  <2>1. SUFFICES ASSUME HandInv, ~OnlyOneLeft(game, state),
                        NEW rank \in RankFunctions, NEW p \in Players(game),
                        ~state.playerFolded[p]
                 PROVE  SidePots(PotList(game, state, rank), p, Shares(game))
                          = Value(rank, p)
    BY DEF SidePotLoopAgrees
  <2>2. IsGame(game) /\ state \in StateType(game) /\ game.numPlayers \in Nat
    BY <2>1, HandIsTyped DEF IsGame
  <2>3. rank \in [Players(game) -> Nat]
    BY <2>2 DEF RankFunctions
  <2>4. QED
    BY <2>1, <2>2, <2>3, LoopAddsUp DEF Value
<1>2. QED
  BY <1>1, HandInvHolds, PTL

-----------------------------------------------------------------------------
(***************************************************************************)
(* Turns: in every game nextPlayer() and the count of callers, which look  *)
(* no further back than one action and one raise, ask everybody once about *)
(* every bet; so bets are matched when betting closes, and a hand is a     *)
(* hand of the abstract game of Betting.tla.                               *)
(***************************************************************************)
(* How far p sits from first, in the direction of play.                    *)
Seat(g, first, p) == IF p >= first THEN p - first ELSE p - first + g.numPlayers

(* The actions since the last raise of the round, that one included: those *)
(* numCalled() scans.                                                      *)
Latest(s) ==
  {i \in DOMAIN CurrentActions(s) : \A j \in RaisesIn(CurrentActions(s)) : j <= i}

-----------------------------------------------------------------------------
(* The inductive invariant.                                                *)

(* Since some seat - that of the last raise, or the first of the round -   *)
(* play has gone round the table at most once: everybody up to the seat of *)
(* the last action who can still act has acted, and nobody beyond it.      *)
OnceRound(g, s) ==
  CurrentActions(s) # << >> =>
    \E first \in Players(g) :
      LET acts == CurrentActions(s)
          last == Seat(g, first, acts[Len(acts)].player)
      IN  /\ \A i \in Latest(s) : Seat(g, first, acts[i].player) <= last
          /\ \A p \in ActingPlayers(g, s) :
               Seat(g, first, p) <= last => \E i \in Latest(s) : acts[i].player = p

FoldsAreMarked(g, s) ==
  \A i \in DOMAIN CurrentActions(s) :
    CurrentActions(s)[i].type = "fold" => s.playerFolded[CurrentActions(s)[i].player]

CallersCanAct(g, s) ==
  \A i \in Callers(g, s) : CurrentActions(s)[i].player \in ActingPlayers(g, s)

AnsweredOnce(g, s) ==
  \A r \in Rounds(g) :
    \A i, j \in DOMAIN s.action[r] :
      i < j /\ s.action[r][i].player = s.action[r][j].player =>
        \E k \in i + 1..j - 1 : s.action[r][k].type = "raise"

Acted(s, r, p) == \E i \in DOMAIN s.action[r] : s.action[r][i].player = p

NotPassedOver(g, s) ==
  ~s.finished \/ numActingPlayers(g, s) > 1 =>
    \A r \in 0..s.round, p \in ActingPlayers(g, s) :
      r < s.round \/ s.finished => Acted(s, r, p)

Matched(g, s) ==
  /\ s.finished \/ (s.round > 0 /\ CurrentActions(s) = << >>)
  /\ ~OnlyOneLeft(g, s)
  => \A p \in Players(g) :
        s.playerFolded[p] \/ s.spent[p] = s.maxSpent \/ AllIn(g, s, p)

(* What holds in the middle of doAction() too.                             *)
Turns(g, s) ==
  /\ FoldsAreMarked(g, s)
  /\ CallersCanAct(g, s)
  /\ AnsweredOnce(g, s)
  /\ ~s.finished => OnceRound(g, s)

TurnInv(g, s) == Turns(g, s) /\ NotPassedOver(g, s) /\ Matched(g, s)
-----------------------------------------------------------------------------
(* Round the table.                                                        *)

LEMMA Wrap ==
  ASSUME NEW n \in Nat \ {0}, NEW x \in 0..n - 1,
         NEW y, y = x \/ y = x + n \/ y = x + 2 * n
  PROVE  y % n = x
<1>1. x % n = x /\ (x + n) % n = x
  OBVIOUS
<1>2. (x + 2 * n) % n = x
  BY TwiceAround
<1>3. QED
  BY <1>1, <1>2

(* j seats on from one in seat d is seat d + j, short of a full turn.      *)
LEMMA SeatsOn ==
  ASSUME NEW g, IsGame(g), NEW first \in Players(g), NEW last \in Players(g),
         NEW j \in Nat, Seat(g, first, last) + j < g.numPlayers
  PROVE  /\ (last + j) % g.numPlayers \in Players(g)
         /\ Seat(g, first, (last + j) % g.numPlayers) = Seat(g, first, last) + j
<1> DEFINE n == g.numPlayers
           x == IF last + j < n THEN last + j ELSE last + j - n
<1>1. n \in Nat \ {0} /\ first \in 0..n - 1 /\ last \in 0..n - 1
  BY DEF IsGame, Players
<1>2. /\ x \in 0..n - 1 /\ (last + j = x \/ last + j = x + n)
      /\ Seat(g, first, x) = Seat(g, first, last) + j
  BY <1>1 DEF Seat
<1> HIDE DEF x, n
<1>3. (last + j) % n = x
  BY <1>1, <1>2, Wrap
<1>4. QED
  BY <1>2, <1>3 DEF n, Players

(* Everybody in a later seat is that many seats on.                        *)
LEMMA SeatReached ==
  ASSUME NEW g, IsGame(g), NEW first \in Players(g), NEW last \in Players(g),
         NEW p \in Players(g), Seat(g, first, p) > Seat(g, first, last)
  PROVE  \E j \in 1..g.numPlayers - 1 :
           /\ Seat(g, first, p) = Seat(g, first, last) + j
           /\ (last + j) % g.numPlayers = p
<1> DEFINE n == g.numPlayers
           j == Seat(g, first, p) - Seat(g, first, last)
<1>1. n \in Nat \ {0} /\ first \in 0..n - 1 /\ last \in 0..n - 1 /\ p \in 0..n - 1
  BY DEF IsGame, Players
<1>2. /\ j \in 1..n - 1 /\ (last + j = p \/ last + j = p + n)
      /\ Seat(g, first, p) = Seat(g, first, last) + j
  BY <1>1 DEF Seat
<1> HIDE DEF n, j
<1>3. (last + j) % n = p
  BY <1>1, <1>2, Wrap
<1>4. QED
  BY <1>2, <1>3 DEF n

(* The seats on from the one before the first.                             *)
LEMMA BeforeFirst ==
  ASSUME NEW g, IsGame(g), NEW first \in Players(g), NEW j \in 1..g.numPlayers
  PROVE  LET x == (first + g.numPlayers - 1 + j) % g.numPlayers
         IN  x \in Players(g) /\ Seat(g, first, x) = j - 1
<1> DEFINE n == g.numPlayers
           y == first + n - 1 + j
           x == IF first + j - 1 < n THEN first + j - 1 ELSE first + j - 1 - n
<1>1. n \in Nat \ {0} /\ first \in 0..n - 1 /\ j \in 1..n
  BY DEF IsGame, Players
<1>2. /\ x \in 0..n - 1 /\ (y = x + n \/ y = x + 2 * n)
      /\ Seat(g, first, x) = j - 1
  BY <1>1 DEF Seat
<1> HIDE DEF x, y, n
<1>3. y % n = x
  BY <1>1, <1>2, Wrap
<1>4. QED
  BY <1>2, <1>3 DEF y, n, Players

LEMMA SeatsDiffer ==
  ASSUME NEW g, IsGame(g), NEW first \in Players(g),
         NEW p \in Players(g), NEW q \in Players(g),
         Seat(g, first, p) = Seat(g, first, q)
  PROVE  p = q
BY DEF Seat, IsGame, Players

LEMMA SeatRange ==
  ASSUME NEW g, IsGame(g), NEW first \in Players(g), NEW p \in Players(g)
  PROVE  /\ Seat(g, first, p) \in 0..g.numPlayers - 1
         /\ Seat(g, first, first) = 0
         /\ Seat(g, first, p) = 0 => p = first
BY DEF Seat, IsGame, Players

-----------------------------------------------------------------------------
(* The counts.                                                             *)

(* An injective map between finite sets: the smaller one is covered only   *)
(* if it is no smaller.                                                    *)
LEMMA CountsDecide ==
  ASSUME NEW S, NEW T, IsFiniteSet(S), IsFiniteSet(T), NEW f \in [S -> T],
         \A a, b \in S : f[a] = f[b] => a = b,
         Cardinality(S) >= Cardinality(T)
  PROVE  \A t \in T : \E a \in S : f[a] = t
<1>1. f \in Injection(S, T)
  BY Zenon DEF Injection, IsInjective
<1>2. Cardinality(S) <= Cardinality(T)
      /\ (Cardinality(S) = Cardinality(T) <=> f \in Surjection(S, T))
  BY <1>1, FS_Injection
<1>3. Cardinality(S) \in Nat /\ Cardinality(T) \in Nat
  BY FS_CardinalityType
<1>4. f \in Surjection(S, T)
  BY <1>2, <1>3
<1>5. QED
  BY <1>4 DEF Surjection

LEMMA CoveredIsNoLarger ==
  ASSUME NEW S, NEW T, IsFiniteSet(S), NEW f, DOMAIN f = S, f = [a \in S |-> f[a]],
         \A t \in T : \E a \in S : f[a] = t
  PROVE  Cardinality(T) <= Cardinality(S)
<1> DEFINE R == {f[a] : a \in S}
<1>1. f \in Surjection(S, R)
  BY DEF Surjection
<1>2. IsFiniteSet(R) /\ Cardinality(R) <= Cardinality(S)
  BY <1>1, FS_Surjection
<1>3. T \in SUBSET R
  OBVIOUS
<1>4. IsFiniteSet(T) /\ Cardinality(T) <= Cardinality(R)
  BY <1>2, <1>3, FS_Subset
<1>5. Cardinality(T) \in Nat /\ Cardinality(R) \in Nat /\ Cardinality(S) \in Nat
  BY <1>2, <1>4, FS_CardinalityType
<1>6. QED
  BY <1>2, <1>4, <1>5

(* The actions of a round, and who took them.                              *)
LEMMA RoundActions ==
  ASSUME NEW g, NEW s, s \in StateType(g)
  PROVE  /\ CurrentActions(s) \in Seq(ActionType(g))
         /\ Len(CurrentActions(s)) \in Nat
         /\ DOMAIN CurrentActions(s) = 1..Len(CurrentActions(s))
         /\ \A i \in DOMAIN CurrentActions(s) :
              /\ CurrentActions(s)[i].type \in ActionTypes
              /\ CurrentActions(s)[i].player \in Players(g)
         /\ CurrentActions(s) # << >> <=> Len(CurrentActions(s)) # 0
         /\ Callers(g, s) \subseteq Latest(s)
         /\ Latest(s) \subseteq DOMAIN CurrentActions(s)
<1>1. CurrentActions(s) \in Seq(ActionType(g))
  BY DEF StateType, CurrentActions
<1>2. \A i \in DOMAIN CurrentActions(s) : CurrentActions(s)[i] \in ActionType(g)
  BY <1>1
<1>3. \A i \in DOMAIN CurrentActions(s) :
        /\ CurrentActions(s)[i].type \in ActionTypes
        /\ CurrentActions(s)[i].player \in Players(g)
  BY <1>2 DEF ActionType
<1>4. QED
  BY <1>1, <1>3 DEF Callers, Latest

(* While the hand is open somebody who can act has not answered the last   *)
(* raise: otherwise they would all be counted as callers.                  *)
LEMMA SomebodyHasToAnswer ==
  ASSUME NEW g, IsGame(g), NEW s, s \in StateType(g), FoldsAreMarked(g, s), Open(g, s)
  PROVE  \E p \in ActingPlayers(g, s) :
           \A i \in Latest(s) : CurrentActions(s)[i].player # p
<1> SUFFICES ASSUME \A p \in ActingPlayers(g, s) :
                      \E i \in Latest(s) : CurrentActions(s)[i].player = p
             PROVE  FALSE
  OBVIOUS
<1> DEFINE acts == CurrentActions(s)
           f == [i \in Callers(g, s) |-> acts[i].player]
<1>1. ASSUME NEW p \in ActingPlayers(g, s)
      PROVE  \E i \in Callers(g, s) : f[i] = p
  <2>1. PICK i \in Latest(s) : acts[i].player = p
    OBVIOUS
  <2>2. ~s.playerFolded[p] /\ ~AllIn(g, s, p)
    BY DEF ActingPlayers
  <2>3. i \in DOMAIN acts /\ acts[i].type \in ActionTypes
    BY RoundActions
  <2>4. acts[i].type # "fold"
    BY <2>1, <2>2, <2>3 DEF FoldsAreMarked
  <2>5. i \in Callers(g, s)
    BY <2>1, <2>2, <2>3, <2>4 DEF Callers, Latest, ActionTypes
  <2>6. QED
    BY <2>1, <2>5
<1>2. IsFiniteSet(Callers(g, s)) /\ numCalled(g, s) \in Nat /\ numActingPlayers(g, s) \in Nat
  BY CallersCount, ActingPlayersCount
<1>3. Cardinality(ActingPlayers(g, s)) <= Cardinality(Callers(g, s))
  <2>1. DOMAIN f = Callers(g, s) /\ f = [i \in Callers(g, s) |-> f[i]]
    OBVIOUS
  <2> HIDE DEF f
  <2>2. QED
    BY <1>1, <1>2, <2>1, CoveredIsNoLarger
<1>4. QED
  BY <1>2, <1>3 DEF Open, numCalled, numActingPlayers

(* When betting closes everybody who can act has called or raised since    *)
(* the last raise.                                                         *)
LEMMA EverybodyHasAnswered ==
  ASSUME NEW g, IsGame(g), NEW s, s \in StateType(g),
         AnsweredOnce(g, s), CallersCanAct(g, s), BettingClosed(g, s)
  PROVE  \A p \in ActingPlayers(g, s) :
           \E i \in Callers(g, s) : CurrentActions(s)[i].player = p
<1> DEFINE acts == CurrentActions(s)
           f == [i \in Callers(g, s) |-> acts[i].player]
<1>1. f \in [Callers(g, s) -> ActingPlayers(g, s)]
  BY DEF CallersCanAct
<1>2. ASSUME NEW i \in Callers(g, s), NEW j \in Callers(g, s),
             acts[i].player = acts[j].player, i < j
      PROVE  FALSE
  <2>1. i \in DOMAIN acts /\ j \in DOMAIN acts /\ s.round \in Rounds(g)
        /\ DOMAIN acts = 1..Len(acts) /\ Len(acts) \in Nat
    BY RoundActions DEF Callers, StateType
  <2>2. PICK k \in i + 1..j - 1 : acts[k].type = "raise"
    BY <1>2, <2>1 DEF AnsweredOnce, CurrentActions
  <2>3. k \in DOMAIN acts /\ k > i
    BY <2>1
  <2>4. k \in RaisesIn(acts) /\ ~(k <= i)
    BY <2>1, <2>2, <2>3 DEF RaisesIn
  <2>5. QED
    BY <2>4 DEF Callers
<1>3. ASSUME NEW i \in Callers(g, s), NEW j \in Callers(g, s), f[i] = f[j]
      PROVE  i = j
  <2>1. i \in Int /\ j \in Int
    BY RoundActions
  <2>2. acts[i].player = acts[j].player
    BY <1>3
  <2>3. ~(i < j) /\ ~(j < i)
    BY <1>2, <2>2
  <2>4. QED
    BY <2>1, <2>3
<1>4. /\ IsFiniteSet(Callers(g, s)) /\ IsFiniteSet(ActingPlayers(g, s))
      /\ Cardinality(Callers(g, s)) >= Cardinality(ActingPlayers(g, s))
  BY CallersCount, ActingPlayersCount DEF BettingClosed, numCalled, numActingPlayers
<1>5. \A p \in ActingPlayers(g, s) : \E i \in Callers(g, s) : f[i] = p
  <2> HIDE DEF f
  <2>1. QED
    BY <1>1, <1>3, <1>4, CountsDecide
<1>6. QED
  BY <1>5

-----------------------------------------------------------------------------
(* The player whose turn it is has not acted since the last raise, and     *)
(* everybody who can act and sits before has.                              *)
TurnsFrom(g, s, first) ==
  LET acts == CurrentActions(s)
      p    == Seat(g, first, currentPlayer(g, s))
  IN  /\ \A i \in Latest(s) : Seat(g, first, acts[i].player) < p
      /\ \A q \in ActingPlayers(g, s) :
           Seat(g, first, q) < p => \E i \in Latest(s) : acts[i].player = q

LEMMA NextTurn ==
  ASSUME NEW g, IsGame(g), NEW s, s \in StateType(g), OnceRound(g, s),
         NEW late \in ActingPlayers(g, s),
         \A i \in Latest(s) : CurrentActions(s)[i].player # late
  PROVE  \E first \in Players(g) : TurnsFrom(g, s, first)
<1> SUFFICES \E first \in Players(g) :
                LET acts == CurrentActions(s)
                    p    == Seat(g, first, currentPlayer(g, s))
                IN  /\ \A i \in Latest(s) : Seat(g, first, acts[i].player) < p
                    /\ \A q \in ActingPlayers(g, s) :
                         Seat(g, first, q) < p => \E i \in Latest(s) : acts[i].player = q
  BY Zenon DEF TurnsFrom
<1> DEFINE acts == CurrentActions(s)
           n == g.numPlayers
           able == ActingPlayers(g, s)
<1>1. /\ n \in Nat \ {0} /\ Players(g) = 0..n - 1 /\ able \subseteq Players(g)
      /\ able # {} /\ Len(acts) \in Nat
  <2>1. able # {} /\ able \subseteq Players(g)
    BY DEF ActingPlayers
  <2>2. Len(acts) \in Nat
    BY RoundActions
  <2>3. QED
    BY <2>1, <2>2 DEF IsGame, Players
<1>2. CASE acts = << >>
  <2> DEFINE first == g.firstPlayer[s.round]
             cur   == first + n - 1
  <2>1. first \in Players(g) /\ cur \in 0..2 * n - 1
    <3>1. s.round \in Rounds(g)
      BY DEF StateType
    <3>2. first \in Players(g)
      BY <3>1 DEF IsGame
    <3>3. QED
      BY <1>1, <3>2
  <2>2. PICK k \in 1..n :
          /\ nextPlayer(g, s, cur) = (cur + k) % n
          /\ \A j \in 1..k - 1 : (cur + j) % n \notin able
    BY <1>1, <2>1, NextPlayerIsNearest
  <2>3. currentPlayer(g, s) = nextPlayer(g, s, cur)
    BY <1>2 DEF currentPlayer
  <2>4. Latest(s) = {}
    BY <1>1, <1>2, RoundActions
  <2>5. ASSUME NEW j \in 1..n
        PROVE  (cur + j) % n \in Players(g) /\ Seat(g, first, (cur + j) % n) = j - 1
    BY <2>1, BeforeFirst
  <2>6. Seat(g, first, currentPlayer(g, s)) = k - 1
    BY <2>2, <2>3, <2>5
  <2>7. ASSUME NEW q \in able, Seat(g, first, q) < k - 1
        PROVE  FALSE
    <3>1. q \in Players(g) /\ Seat(g, first, q) \in 0..n - 1
      BY <1>1, <2>1, SeatRange
    <3>2. PICK j \in 1..k - 1 : j = Seat(g, first, q) + 1
      BY <1>1, <2>7, <3>1
    <3>3. Seat(g, first, (cur + j) % n) = Seat(g, first, q) /\ (cur + j) % n \in Players(g)
      BY <1>1, <2>5, <3>1, <3>2
    <3>4. (cur + j) % n = q
      BY <2>1, <3>1, <3>3, SeatsDiffer
    <3>5. QED
      BY <2>2, <3>2, <3>4
  <2> HIDE DEF first
  <2>8. QED
    BY <2>1, <2>4, <2>6, <2>7
<1>3. CASE acts # << >>
  <2> DEFINE last == acts[Len(acts)].player
  <2>1. PICK first \in Players(g) :
          /\ \A i \in Latest(s) : Seat(g, first, acts[i].player) <= Seat(g, first, last)
          /\ \A p \in able :
               Seat(g, first, p) <= Seat(g, first, last) =>
                 \E i \in Latest(s) : acts[i].player = p
    BY <1>3 DEF OnceRound
  <2>2. last \in Players(g) /\ last \in 0..2 * n - 1
    <3>1. Len(acts) \in DOMAIN acts
      BY <1>1, <1>3, RoundActions
    <3>2. last \in Players(g)
      BY <3>1, RoundActions
    <3>3. QED
      BY <1>1, <3>2
  <2>3. currentPlayer(g, s) = nextPlayer(g, s, last)
    BY <1>3 DEF currentPlayer
  <2> HIDE DEF last
  <2>4. PICK k \in 1..n :
          /\ nextPlayer(g, s, last) = (last + k) % n
          /\ \A j \in 1..k - 1 : (last + j) % n \notin able
    BY <1>1, <2>2, NextPlayerIsNearest
  <2> DEFINE d == Seat(g, first, last)
  <2>5. d \in 0..n - 1 /\ \A p \in Players(g) : Seat(g, first, p) \in 0..n - 1
    <3>1. last \in Players(g)
      BY <2>2
    <3>2. \A p \in Players(g) : Seat(g, first, p) \in 0..g.numPlayers - 1
      BY <1>1, <2>1, SeatRange
    <3>3. QED
      BY <3>1, <3>2
  <2>6. ASSUME NEW q \in able, Seat(g, first, q) > d
        PROVE  Seat(g, first, q) >= d + k
    <3>1. q \in Players(g)
      BY <1>1
    <3>2. PICK j \in 1..n - 1 : Seat(g, first, q) = d + j /\ (last + j) % n = q
      <4>1. last \in Players(g) /\ Seat(g, first, q) > Seat(g, first, last)
        BY <2>2, <2>6
      <4>2. \E j \in 1..g.numPlayers - 1 :
               /\ Seat(g, first, q) = Seat(g, first, last) + j
               /\ (last + j) % g.numPlayers = q
        BY <3>1, <4>1, SeatReached
      <4> HIDE DEF d
      <4>3. QED
        BY <4>2 DEF d
    <3>3. ~(j \in 1..k - 1)
      BY <2>4, <3>2
    <3>4. QED
      BY <1>1, <2>5, <3>1, <3>2, <3>3
  <2>7. late \in Players(g) /\ Seat(g, first, late) > d
    <3>1. ~(Seat(g, first, late) <= d)
      BY <2>1
    <3>2. QED
      BY <1>1, <2>5, <3>1
  <2>8. d + k < n
    BY <1>1, <2>5, <2>6, <2>7
  <2>9. Seat(g, first, currentPlayer(g, s)) = d + k
    <3>1. k \in Nat /\ Seat(g, first, last) + k < g.numPlayers
      BY <1>1, <2>8
    <3>2. Seat(g, first, (last + k) % g.numPlayers) = Seat(g, first, last) + k
      BY <2>2, <3>1, SeatsOn, Zenon
    <3>3. QED
      BY <2>3, <2>4, <3>2
  <2>10. \A i \in Latest(s) : Seat(g, first, acts[i].player) < d + k
    <3>1. \A i \in Latest(s) : acts[i].player \in Players(g)
      BY RoundActions
    <3>2. QED
      BY <2>1, <2>5, <3>1
  <2>11. \A q \in able : Seat(g, first, q) < d + k =>
           \E i \in Latest(s) : acts[i].player = q
    <3>1. ASSUME NEW q \in able, Seat(g, first, q) < d + k
          PROVE  Seat(g, first, q) <= d
      BY <1>1, <2>5, <2>6, <3>1
    <3>2. QED
      BY <2>1, <3>1
  <2>12. QED
    BY <2>9, <2>10, <2>11
<1>4. QED
  BY <1>2, <1>3

-----------------------------------------------------------------------------
(* What an action does to turns.                                           *)

LEMMA PlayedTurns ==
  ASSUME NEW g, IsGame(g), NEW s, WellFormed(g, s), ~s.finished, Open(g, s),
         Turns(g, s), CallersMatchBet(g, s), ActingPlayers(g, s) # {},
         NEW action, action \in AskedActions, ActionAsserts(g, s, action)
  PROVE  LET after == Played(g, s, action)
         IN  /\ Turns(g, after)
             /\ CurrentActions(after) # << >>
             /\ ActingPlayers(g, after) \subseteq ActingPlayers(g, s)
             /\ \A r \in Rounds(g) : r < s.round => after.action[r] = s.action[r]
<1> DEFINE p     == currentPlayer(g, s)
           entry == [type |-> action.type, size |-> action.size, player |-> p]
           after == Played(g, s, action)
           acts  == CurrentActions(s)
           new   == CurrentActions(after)
           n     == Len(acts)
<1>1. /\ s \in StateType(g) /\ s.round \in Rounds(g) /\ s.round \in Int
      /\ acts \in Seq(ActionType(g))
      /\ s.action \in [Rounds(g) -> Seq(ActionType(g))]
      /\ s.playerFolded \in [Players(g) -> BOOLEAN]
  <2>1. s \in StateType(g)
    BY DEF WellFormed
  <2>2. s.round \in Int
    BY <2>1 DEF StateType, Rounds
  <2>3. acts \in Seq(ActionType(g))
    BY <2>1, RoundActions
  <2>4. QED
    BY <2>1, <2>2, <2>3 DEF StateType
<1>2. /\ WellFormed(g, after) /\ MovesChips(g, s, action, after)
      /\ MovesCallers(g, s, action, after)
  BY PlayedEffect, PlayedCallers
<1>3. p \in ActingPlayers(g, s) /\ p \in Players(g)
  BY <1>1, CurrentPlayerCanAct
<1>4. entry \in ActionType(g)
  BY <1>3 DEF ActionType, AskedActions
<1>5. PICK first \in Players(g) :
        /\ \A i \in Latest(s) : Seat(g, first, acts[i].player) < Seat(g, first, p)
        /\ \A q \in ActingPlayers(g, s) :
             Seat(g, first, q) < Seat(g, first, p) =>
               \E i \in Latest(s) : acts[i].player = q
  <2>1. PICK late \in ActingPlayers(g, s) : \A i \in Latest(s) : acts[i].player # late
    BY <1>1, SomebodyHasToAnswer DEF Turns
  <2>2. OnceRound(g, s)
    BY <1>1 DEF Turns
  <2>3. \E first \in Players(g) : TurnsFrom(g, s, first)
    BY <1>1, <2>1, <2>2, NextTurn
  <2>4. QED
    BY <2>3, Zenon DEF TurnsFrom
<1> HIDE DEF after, p
<1>6. /\ after.round = s.round /\ after.finished = s.finished
      /\ after.action = [s.action EXCEPT ![s.round] = new]
      /\ new = Append(acts, entry)
      /\ after.playerFolded = IF action.type = "fold"
                                THEN [s.playerFolded EXCEPT ![p] = TRUE]
                                ELSE s.playerFolded
  <2>1. after.action = [s.action EXCEPT ![s.round] = Append(acts, entry)]
    BY <1>2 DEF MovesChips, CurrentActions, p
  <2>2. new = Append(acts, entry)
    BY <1>1, <1>2, <2>1 DEF MovesChips, CurrentActions
  <2>3. QED
    BY <1>2, <2>1, <2>2 DEF MovesChips, p
<1>7. /\ DOMAIN new = DOMAIN acts \cup {n + 1} /\ Len(new) = n + 1
      /\ \A i \in DOMAIN acts : new[i] = acts[i]
      /\ new[n + 1] = entry
      /\ n \in Nat /\ DOMAIN acts = 1..n
  BY <1>1, <1>4, <1>6, AppendedElements
<1>8. /\ entry.type = action.type /\ entry.player = p /\ action.type \in ActionTypes
      /\ \A i \in DOMAIN acts : acts[i].player \in Players(g)
  BY <1>1, RoundActions DEF AskedActions
<1> HIDE DEF entry, new
<1>9. \A i \in Latest(s) : i \in DOMAIN acts /\ acts[i].player # p
  <2>1. \A i \in Latest(s) : i \in DOMAIN acts /\ acts[i].player \in Players(g)
    BY <1>8 DEF Latest
  <2>2. \A q \in Players(g) : Seat(g, first, q) \in Int
    BY SeatRange
  <2>3. QED
    BY <1>3, <1>5, <2>1, <2>2
<1>10. \A i \in Callers(g, s) : i \in Latest(s)
  BY DEF Callers, Latest
<1>11. RaisesIn(acts) \subseteq 1..n
       /\ RaisesIn(new) = IF action.type = "raise" THEN RaisesIn(acts) \cup {n + 1}
                                                   ELSE RaisesIn(acts)
  BY <1>7, <1>8 DEF RaisesIn
<1>12. Latest(after) = IF action.type = "raise" THEN {n + 1} ELSE Latest(s) \cup {n + 1}
  <2>1. Latest(after) = {i \in DOMAIN new : \A j \in RaisesIn(new) : j <= i}
    BY DEF Latest, new
  <2>2. Latest(s) = {i \in DOMAIN acts : \A j \in RaisesIn(acts) : j <= i}
    BY DEF Latest
  <2>3. CASE action.type = "raise"
    <3>1. \A i \in DOMAIN acts : ~(n + 1 <= i)
      BY <1>7
    <3>2. n + 1 \in RaisesIn(new) /\ \A j \in RaisesIn(new) : j <= n + 1
      BY <1>7, <1>11, <2>3
    <3>3. QED
      BY <1>7, <2>1, <2>3, <3>1, <3>2
  <2>4. CASE action.type # "raise"
    <3>1. \A j \in RaisesIn(acts) : j <= n + 1
      BY <1>7, <1>11
    <3>2. QED
      BY <1>7, <1>11, <2>1, <2>2, <2>4, <3>1
  <2>5. QED
    BY <2>3, <2>4
<1>13. ActingPlayers(g, after) =
         IF action.type = "fold" \/ AllIn(g, after, p)
           THEN ActingPlayers(g, s) \ {p} ELSE ActingPlayers(g, s)
  BY <1>2 DEF MovesCallers, p
<1>14. FoldsAreMarked(g, after)
  <2>1. ASSUME NEW i \in DOMAIN acts, acts[i].type = "fold"
        PROVE  after.playerFolded[acts[i].player]
    <3>1. s.playerFolded[acts[i].player]
      BY <2>1 DEF Turns, FoldsAreMarked
    <3>2. QED
      BY <1>1, <1>3, <1>6, <1>8, <3>1
  <2>2. action.type = "fold" => after.playerFolded[p]
    BY <1>1, <1>3, <1>6
  <2>3. QED
    BY <1>7, <1>8, <2>1, <2>2 DEF FoldsAreMarked, new
<1>15. CallersCanAct(g, after)
  <2>1. \A i \in Callers(g, s) : acts[i].player \in ActingPlayers(g, s) \ {p}
    BY <1>9, <1>10 DEF Turns, CallersCanAct
  <2>2. \A i \in Callers(g, s) : new[i].player \in ActingPlayers(g, after)
    BY <1>7, <1>9, <1>10, <1>13, <2>1
  <2>3. action.type # "fold" /\ ~AllIn(g, after, p) =>
          new[n + 1].player \in ActingPlayers(g, after)
    BY <1>3, <1>7, <1>8, <1>13
  <2>4. \A i \in Callers(g, after) :
          i \in Callers(g, s)
          \/ (i = n + 1 /\ action.type # "fold" /\ ~AllIn(g, after, p))
    BY <1>2, <1>8 DEF MovesCallers, p, ActionTypes
  <2>5. QED
    BY <2>2, <2>3, <2>4 DEF CallersCanAct, new
<1>16. AnsweredOnce(g, after)
  <2> SUFFICES ASSUME NEW r \in Rounds(g),
                      NEW i \in DOMAIN after.action[r], NEW j \in DOMAIN after.action[r],
                      i < j, after.action[r][i].player = after.action[r][j].player
               PROVE  \E k \in i + 1..j - 1 : after.action[r][k].type = "raise"
    BY DEF AnsweredOnce
  <2>1. CASE r # s.round
    <3>1. after.action[r] = s.action[r]
      BY <1>1, <1>6, <2>1
    <3>2. QED
      BY <3>1 DEF Turns, AnsweredOnce
  <2>2. CASE r = s.round
    <3>1. after.action[r] = new
      BY <1>1, <1>6, <2>2
    <3>2. i \in 1..n + 1 /\ j \in 1..n + 1 /\ i \in 1..n
      BY <1>7, <3>1
    <3>3. CASE j \in 1..n
      <4>1. acts[i].player = acts[j].player
        BY <1>7, <3>1, <3>2, <3>3
      <4>2. PICK k \in i + 1..j - 1 : acts[k].type = "raise"
        BY <1>1, <1>7, <2>2, <3>2, <3>3, <4>1 DEF Turns, AnsweredOnce, CurrentActions
      <4>3. k \in 1..n
        BY <3>2, <3>3
      <4>4. QED
        BY <1>7, <3>1, <4>2, <4>3
    <3>4. CASE j = n + 1
      <4>1. acts[i].player = p
        BY <1>7, <1>8, <3>1, <3>2, <3>4
      <4>2. i \notin Latest(s)
        BY <1>9, <4>1
      <4>3. PICK k \in RaisesIn(acts) : ~(k <= i)
        BY <1>7, <3>2, <4>2 DEF Latest
      <4>4. k \in i + 1..j - 1 /\ k \in 1..n
        BY <1>7, <1>11, <3>2, <3>4, <4>3
      <4>5. acts[k].type = "raise"
        BY DEF RaisesIn
      <4>6. QED
        BY <1>7, <3>1, <4>4, <4>5
    <3>5. QED
      BY <1>7, <3>2, <3>3, <3>4
  <2>3. QED
    BY <2>1, <2>2
<1>17. OnceRound(g, after)
  <2> DEFINE last(f) == Seat(g, f, new[Len(new)].player)
  <2>1. new[Len(new)].player = p
    BY <1>7, <1>8
  <2>2. \A q \in ActingPlayers(g, after) :
          q \in ActingPlayers(g, s) /\ q \in Players(g)
    BY <1>13 DEF ActingPlayers
  <2>3. CASE action.type = "raise"
    <3>1. \A i \in Latest(after) : new[i].player = p /\ i = n + 1
      BY <1>7, <1>8, <1>12, <2>3
    <3>2. Seat(g, p, p) = 0 /\ \A q \in Players(g) : Seat(g, p, q) <= 0 => q = p
      BY <1>3, SeatRange
    <3>3. n + 1 \in Latest(after) /\ new[n + 1].player = p
      BY <1>7, <1>8, <1>12, <2>3
    <3>4. /\ \A i \in Latest(after) : Seat(g, p, new[i].player) <= Seat(g, p, p)
          /\ \A q \in ActingPlayers(g, after) :
               Seat(g, p, q) <= Seat(g, p, p) =>
                 \E i \in Latest(after) : new[i].player = q
      BY <2>2, <3>1, <3>2, <3>3
    <3>5. QED
      BY <1>3, <2>1, <3>4 DEF OnceRound, new
  <2>4. CASE action.type # "raise"
    <3>1. \A q \in Players(g) : Seat(g, first, q) \in Int
      BY SeatRange
    <3>2. ASSUME NEW i \in Latest(after)
          PROVE  Seat(g, first, new[i].player) <= Seat(g, first, p)
      <4>1. CASE i = n + 1
        BY <1>3, <1>7, <1>8, <3>1, <4>1
      <4>2. CASE i \in Latest(s)
        <5>1. new[i].player = acts[i].player /\ acts[i].player \in Players(g)
          BY <1>7, <1>8, <1>9, <4>2
        <5>2. Seat(g, first, acts[i].player) < Seat(g, first, p)
          BY <1>5, <4>2
        <5>3. QED
          BY <1>3, <3>1, <5>1, <5>2
      <4>3. QED
        BY <1>12, <2>4, <4>1, <4>2
    <3>3. ASSUME NEW q \in ActingPlayers(g, after),
                 Seat(g, first, q) <= Seat(g, first, p)
          PROVE  \E i \in Latest(after) : new[i].player = q
      <4>1. CASE q = p
        BY <1>7, <1>8, <1>12, <2>4, <4>1
      <4>2. CASE q # p
        <5>1. Seat(g, first, q) # Seat(g, first, p)
          BY <1>3, <2>2, <4>2, SeatsDiffer
        <5>2. Seat(g, first, q) < Seat(g, first, p)
          BY <1>3, <2>2, <3>1, <3>3, <5>1
        <5>3. PICK i \in Latest(s) : acts[i].player = q
          BY <1>5, <2>2, <5>2
        <5>4. QED
          BY <1>7, <1>9, <1>12, <2>4, <5>3
      <4>3. QED
        BY <4>1, <4>2
    <3>4. QED
      BY <2>1, <3>2, <3>3 DEF OnceRound, new
  <2>5. QED
    BY <2>3, <2>4
<1>18. new # << >>
  <2>1. Len(new) # 0
    BY <1>7
  <2>2. QED
    BY <2>1
<1>19. \A r \in Rounds(g) : r < s.round => after.action[r] = s.action[r]
  BY <1>1, <1>6 DEF Rounds
<1>20. ActingPlayers(g, after) \subseteq ActingPlayers(g, s)
  BY <1>13
<1>21. QED
  BY <1>14, <1>15, <1>16, <1>17, <1>18, <1>19, <1>20 DEF Turns, after, new

(* With at most one player left at most one can act.                       *)
LEMMA FewLeftFewAct ==
  ASSUME NEW g, IsGame(g), NEW s, OnlyOneLeft(g, s)
  PROVE  numActingPlayers(g, s) <= 1
<1> DEFINE folded == {p \in Players(g) : s.playerFolded[p]}
           able   == ActingPlayers(g, s)
<1>1. /\ IsFiniteSet(Players(g)) /\ Cardinality(Players(g)) = g.numPlayers
      /\ g.numPlayers \in Nat
  BY ActingPlayersCount DEF IsGame
<1>2. folded \in SUBSET Players(g) /\ able \in SUBSET (Players(g) \ folded)
  BY DEF ActingPlayers
<1>3. /\ IsFiniteSet(folded) /\ Cardinality(folded) \in Nat
      /\ IsFiniteSet(Players(g) \ folded)
      /\ Cardinality(Players(g) \ folded) = g.numPlayers - Cardinality(folded)
  <2>1. Players(g) \cap folded = folded
    BY <1>2
  <2>2. IsFiniteSet(folded) /\ Cardinality(folded) \in Nat
    BY <1>1, <1>2, FS_Subset, FS_CardinalityType
  <2>3. /\ IsFiniteSet(Players(g) \ folded)
        /\ Cardinality(Players(g) \ folded)
             = Cardinality(Players(g)) - Cardinality(Players(g) \cap folded)
    BY <1>1, FS_Difference
  <2>4. QED
    BY <1>1, <2>1, <2>2, <2>3
<1>4. Cardinality(able) \in Nat /\ Cardinality(able) <= Cardinality(Players(g) \ folded)
  BY <1>2, <1>3, FS_Subset, FS_CardinalityType
<1>5. Cardinality(folded) + 1 >= g.numPlayers
  BY DEF OnlyOneLeft, numFolded
<1>6. QED
  BY <1>1, <1>3, <1>4, <1>5 DEF numActingPlayers

(* The four ways doAction() can end.                                       *)
LEMMA ClosedCases ==
  ASSUME NEW g, IsGame(g), NEW s, WellFormed(g, s), ~s.finished
  PROVE  LET c == Closed(g, s)
         IN  \/ OnlyOneLeft(g, s) /\ c.finished
             \/ ~OnlyOneLeft(g, s) /\ ~BettingClosed(g, s) /\ c = s
             \/ /\ ~OnlyOneLeft(g, s) /\ BettingClosed(g, s)
                /\ numActingPlayers(g, s) <= 1 /\ c.finished
             \/ /\ ~OnlyOneLeft(g, s) /\ BettingClosed(g, s)
                /\ \/ c.round = s.round /\ c.finished
                   \/ c.round = s.round + 1 /\ ~c.finished
<1>1. s \in StateType(g)
  BY DEF WellFormed
<1>2. /\ [s EXCEPT !.finished = TRUE].finished
      /\ [s EXCEPT !.finished = TRUE].round = s.round
      /\ [s EXCEPT !.finished = TRUE, !.round = g.numRounds - 1].finished
  BY <1>1 DEF StateType
<1>3. /\ [s EXCEPT !.round = @ + 1,
                   !.minNoLimitRaiseTo = Max({1, LargestBlind(g)}) + s.maxSpent].round
           = s.round + 1
      /\ ~[s EXCEPT !.round = @ + 1,
                    !.minNoLimitRaiseTo = Max({1, LargestBlind(g)}) + s.maxSpent].finished
  BY <1>1 DEF StateType
<1>4. QED
  BY <1>2, <1>3 DEF Closed

LEMMA ClosedTurns ==
  ASSUME NEW g, IsGame(g), NEW s, WellFormed(g, s), ~s.finished,
         Turns(g, s), CallersMatchBet(g, s), CurrentActions(s) # << >>,
         \A r \in Rounds(g), q \in ActingPlayers(g, s) : r < s.round => Acted(s, r, q)
  PROVE  TurnInv(g, Closed(g, s))
<1> DEFINE c == Closed(g, s)
<1>1. /\ WellFormed(g, c) /\ c.round >= s.round
      /\ c.spent = s.spent /\ c.maxSpent = s.maxSpent
      /\ c.playerFolded = s.playerFolded /\ c.action = s.action
  <2>1. ClosesTo(g, s, c)
    BY ClosedEffect
  <2>2. QED
    BY <2>1, Zenon DEF ClosesTo
<1>2. /\ s \in StateType(g) /\ c \in StateType(g)
      /\ s.round \in Rounds(g) /\ c.round \in Rounds(g)
      /\ s.round \in Int /\ c.round \in Int
  BY <1>1 DEF WellFormed, StateType, Rounds
<1>3. \/ OnlyOneLeft(g, s) /\ c.finished
      \/ ~OnlyOneLeft(g, s) /\ ~BettingClosed(g, s) /\ c = s
      \/ /\ ~OnlyOneLeft(g, s) /\ BettingClosed(g, s)
         /\ numActingPlayers(g, s) <= 1 /\ c.finished
      \/ /\ ~OnlyOneLeft(g, s) /\ BettingClosed(g, s)
         /\ \/ c.round = s.round /\ c.finished
            \/ c.round = s.round + 1 /\ ~c.finished
  BY ClosedCases
<1> HIDE DEF c
<1>4. /\ ActingPlayers(g, c) = ActingPlayers(g, s)
      /\ numActingPlayers(g, c) = numActingPlayers(g, s)
      /\ OnlyOneLeft(g, c) <=> OnlyOneLeft(g, s)
      /\ \A q : AllIn(g, c, q) <=> AllIn(g, s, q)
      /\ \A r, q : Acted(c, r, q) <=> Acted(s, r, q)
  BY <1>1 DEF ActingPlayers, numActingPlayers, OnlyOneLeft, numFolded, AllIn, Acted
<1>5. Turns(g, c)
  <2>1. AnsweredOnce(g, c)
    BY <1>1 DEF Turns, AnsweredOnce
  <2>2. CASE c.round = s.round
    <3>1. /\ CurrentActions(c) = CurrentActions(s) /\ Latest(c) = Latest(s)
          /\ Callers(g, c) = Callers(g, s)
      BY <1>1, <1>4, <2>2 DEF CurrentActions, Latest, Callers
    <3>2. FoldsAreMarked(g, c) /\ CallersCanAct(g, c) /\ OnceRound(g, c)
      BY <1>1, <1>4, <3>1 DEF Turns, FoldsAreMarked, CallersCanAct, OnceRound
    <3>3. QED
      BY <2>1, <3>2 DEF Turns
  <2>3. CASE c.round # s.round
    <3>1. CurrentActions(c) = << >>
      BY <1>1, <1>2, <2>3 DEF WellFormed, CurrentActions
    <3>2. Callers(g, c) = {}
      BY <3>1 DEF Callers
    <3>3. QED
      BY <2>1, <3>1, <3>2 DEF Turns, FoldsAreMarked, CallersCanAct, OnceRound
  <2>4. QED
    BY <2>2, <2>3
<1>6. ASSUME BettingClosed(g, s)
      PROVE  /\ \A q \in ActingPlayers(g, s) : Acted(s, s.round, q)
             /\ \A q \in ActingPlayers(g, s) : s.spent[q] = s.maxSpent
  <2>1. \A q \in ActingPlayers(g, s) :
          \E i \in Callers(g, s) : CurrentActions(s)[i].player = q
    BY <1>2, <1>6, EverybodyHasAnswered DEF Turns
  <2>2. \A q \in ActingPlayers(g, s) : s.spent[q] = s.maxSpent
    BY <2>1 DEF CallersMatchBet
  <2>3. \A q \in ActingPlayers(g, s) : Acted(s, s.round, q)
    BY <2>1 DEF Callers, Acted, CurrentActions
  <2>4. QED
    BY <2>2, <2>3
<1>7. NotPassedOver(g, c)
  <2> SUFFICES ASSUME ~c.finished \/ numActingPlayers(g, s) > 1,
                      NEW r \in 0..c.round, NEW q \in ActingPlayers(g, s),
                      r < c.round \/ c.finished
               PROVE  Acted(s, r, q)
    BY <1>4 DEF NotPassedOver
  <2>1. r \in Rounds(g) /\ r \in Int
    BY <1>2 DEF Rounds, IsGame
  <2>2. r < s.round \/ (BettingClosed(g, s) /\ r = s.round)
    <3>1. c.finished => ~(numActingPlayers(g, s) <= 1)
      BY ActingPlayersCount
    <3>2. c.finished => ~OnlyOneLeft(g, s)
      BY <3>1, FewLeftFewAct
    <3>3. CASE ~BettingClosed(g, s)
      <4>1. c = s
        BY <1>3, <3>2, <3>3
      <4>2. QED
        BY <4>1
    <3>4. CASE BettingClosed(g, s)
      <4>1. c.round = s.round \/ (c.round = s.round + 1 /\ ~c.finished)
        BY <1>3, <3>1, <3>2, <3>4
      <4>2. r <= s.round
        BY <1>2, <2>1, <4>1
      <4>3. QED
        BY <1>2, <2>1, <3>4, <4>2
    <3>5. QED
      BY <3>3, <3>4
  <2>3. QED
    BY <1>6, <2>1, <2>2
<1>8. Matched(g, c)
  <2> SUFFICES ASSUME c.finished \/ (c.round > 0 /\ CurrentActions(c) = << >>),
                      ~OnlyOneLeft(g, s), NEW q \in Players(g), ~s.playerFolded[q]
               PROVE  s.spent[q] = s.maxSpent \/ AllIn(g, s, q)
    BY <1>1, <1>4 DEF Matched
  <2>1. BettingClosed(g, s)
    BY <1>3
  <2>2. QED
    BY <1>6, <2>1 DEF ActingPlayers
<1>9. QED
  BY <1>5, <1>7, <1>8 DEF TurnInv, c

-----------------------------------------------------------------------------
(* The theorems about turns.                                               *)

LEMMA NewHandTurns ==
  ASSUME NEW g, IsGame(g)
  PROVE  TurnInv(g, initState(g))
<1> DEFINE s == initState(g)
<1>1. /\ s.round = 0 /\ s.finished = FALSE /\ 0 \in Rounds(g)
      /\ \A r \in Rounds(g) : s.action[r] = << >>
  BY DEF initState, IsGame, Rounds
<1> HIDE DEF s
<1>2. CurrentActions(s) = << >>
  BY <1>1 DEF CurrentActions
<1>3. Callers(g, s) = {}
  BY <1>2 DEF Callers
<1>4. Turns(g, s)
  BY <1>1, <1>2, <1>3 DEF Turns, FoldsAreMarked, CallersCanAct, AnsweredOnce, OnceRound
<1>5. NotPassedOver(g, s) /\ Matched(g, s)
  BY <1>1 DEF NotPassedOver, Matched
<1>6. QED
  BY <1>4, <1>5 DEF TurnInv, s

LEMMA ActKeepsTurns ==
  ASSUME HandInv, TurnInv(game, state),
         NEW type \in ActionTypes, NEW size \in Int, Act(type, size)
  PROVE  TurnInv(game, state)'
<1>1. PICK action \in AskedActions :
        LET after == Played(game, state, action)
        IN  /\ action = fixAction(game, state, [type |-> type, size |-> size])
            /\ action.type = type
            /\ isValidAction(game, state, TRUE, [type |-> type, size |-> size])
            /\ ActionAsserts(game, state, action)
            /\ WellFormed(game, after)
            /\ MovesChips(game, state, action, after)
            /\ CallersMatchBet(game, after) /\ Room(game, after)
            /\ ~after.finished
            /\ state' = Closed(game, after) /\ game' = game
  BY ActPlays
<1> DEFINE after == Played(game, state, action)
<1>2. ~state.finished
  BY <1>1 DEF isValidAction
<1>3. /\ IsGame(game) /\ WellFormed(game, state) /\ Open(game, state)
      /\ CallersMatchBet(game, state) /\ ActingPlayers(game, state) # {}
  BY <1>2, GamesAreGames, OpenHandHasActor DEF HandInv, Sound
<1>4. /\ Turns(game, after) /\ CurrentActions(after) # << >>
      /\ ActingPlayers(game, after) \subseteq ActingPlayers(game, state)
      /\ \A r \in Rounds(game) : r < state.round => after.action[r] = state.action[r]
  BY <1>1, <1>2, <1>3, PlayedTurns DEF TurnInv
<1>5. after.round = state.round
  BY <1>1 DEF MovesChips
<1>6. \A r \in Rounds(game), q \in ActingPlayers(game, after) :
        r < after.round => Acted(after, r, q)
  <2> HIDE DEF after
  <2> SUFFICES ASSUME NEW r \in Rounds(game), NEW q \in ActingPlayers(game, after),
                      r < state.round
               PROVE  Acted(after, r, q)
    BY <1>5
  <2>1. r \in 0..state.round
    BY <1>3 DEF WellFormed, StateType, Rounds
  <2>2. Acted(state, r, q)
    BY <1>2, <1>4, <2>1 DEF TurnInv, NotPassedOver
  <2>3. QED
    BY <1>4, <2>2 DEF Acted
<1> HIDE DEF after
<1>7. TurnInv(game, Closed(game, after))
  BY <1>1, <1>3, <1>4, <1>6, ClosedTurns DEF after
<1>8. QED
  BY <1>1, <1>7 DEF after

(* Turns go round once per bet in every hand of every game.                *)
THEOREM TurnsHold == Spec => []TurnInv(game, state)
<1>1. Init => TurnInv(game, state)
  BY NewHandTurns, GamesAreGames DEF Init
<1>2. TurnInv(game, state) /\ HandInv /\ [Next]_vars => TurnInv(game, state)'
  <2> SUFFICES ASSUME TurnInv(game, state), HandInv, [Next]_vars
               PROVE  TurnInv(game, state)'
    OBVIOUS
  <2>1. CASE \E type \in ActionTypes, size \in Int : Act(type, size)
    BY <2>1, ActKeepsTurns
  <2>2. Fold \/ Call \/ Raise => \E type \in ActionTypes, size \in Int : Act(type, size)
    BY SizesAssumption DEF Fold, Call, Raise, ActionTypes
  <2>3. CASE NewHand
    <3>1. game' = game /\ state' = initState(game) /\ IsGame(game)
      BY <2>3, GamesAreGames DEF NewHand, HandInv
    <3>2. QED
      BY <3>1, NewHandTurns
  <2>4. CASE UNCHANGED vars
    BY <2>4 DEF vars
  <2>5. QED
    BY <2>1, <2>2, <2>3, <2>4 DEF Next
<1>3. QED
  BY <1>1, <1>2, HandInvHolds, PTL DEF Spec

(* Between two actions of a player in a round somebody raised: the scan of *)
(* numCalled() closes the round before anybody is asked twice.             *)
THEOREM AskedOnce == Spec => []NobodyAnswersTwice
<1>1. TurnInv(game, state) => NobodyAnswersTwice
  BY DEF TurnInv, Turns, AnsweredOnce, NobodyAnswersTwice
<1>2. QED
  BY <1>1, TurnsHold, PTL

(* No round ends before everybody who can still act has acted in it.       *)
THEOREM EverybodyActs == Spec => []NobodyIsPassedOver
<1>1. TurnInv(game, state) => NobodyIsPassedOver
  BY DEF TurnInv, NotPassedOver, Acted, NobodyIsPassedOver
<1>2. QED
  BY <1>1, TurnsHold, PTL

(* When a round or a hand ends by calls, whoever is still in has matched   *)
(* the largest bet or is all-in: for limit games with short stacks too.    *)
THEOREM BetsMatch == Spec => []BetsAreMatched
<1>1. TurnInv(game, state) => BetsAreMatched
  BY DEF TurnInv, Matched, BetsAreMatched
<1>2. QED
  BY <1>1, TurnsHold, PTL

-----------------------------------------------------------------------------
(* A hand of Hand.tla is a hand of Betting.tla.                            *)

Live(g, s) == {q \in Players(g) : ~s.playerFolded[q]}

(* Those who have not folded are one exactly when doAction() finds that    *)
(* only one is left.                                                       *)
LEMMA OneLeftIsOne ==
  ASSUME NEW g, IsGame(g), NEW s, Live(g, s) # {}
  PROVE  Cardinality(Live(g, s)) = 1 <=> OnlyOneLeft(g, s)
<1> DEFINE folded == {p \in Players(g) : s.playerFolded[p]}
<1>1. /\ IsFiniteSet(Players(g)) /\ Cardinality(Players(g)) = g.numPlayers
      /\ g.numPlayers \in Nat
  BY ActingPlayersCount DEF IsGame
<1>2. folded \in SUBSET Players(g) /\ Live(g, s) = Players(g) \ folded
      /\ Players(g) \cap folded = folded
  BY DEF Live
<1>3. IsFiniteSet(folded) /\ Cardinality(folded) \in Nat
  BY <1>1, <1>2, FS_Subset, FS_CardinalityType
<1>4. IsFiniteSet(Live(g, s)) /\ Cardinality(Live(g, s)) = g.numPlayers - Cardinality(folded)
  <2>1. PICK all : all = Players(g)
    OBVIOUS
  <2>2. /\ IsFiniteSet(all \ folded)
        /\ Cardinality(all \ folded) = Cardinality(all) - Cardinality(all \cap folded)
    <3>1. IsFiniteSet(all)
      BY <1>1, <2>1, Zenon
    <3> HIDE DEF folded
    <3>2. QED
      BY <3>1, FS_Difference
  <2>3. all \ folded = Live(g, s) /\ all \cap folded = folded
    BY <1>2, <2>1, Zenon
  <2>4. Cardinality(all) = g.numPlayers
    BY <1>1, <2>1, Zenon
  <2> HIDE DEF folded
  <2>5. QED
    BY <2>2, <2>3, <2>4, Zenon
<1>5. Cardinality(Live(g, s)) \in Nat /\ Cardinality(Live(g, s)) # 0
  BY <1>4, FS_CardinalityType, FS_EmptySet
<1>6. OnlyOneLeft(g, s) <=> Cardinality(folded) + 1 >= g.numPlayers
  BY DEF OnlyOneLeft, numFolded
<1>7. QED
  BY <1>1, <1>3, <1>4, <1>5, <1>6

(* A hand that is over has one player left or owes nobody anything.        *)
LEMMA OverIsSettled ==
  ASSUME HandInv, TurnInv(game, state), LargestBet(game, state)
  PROVE  /\ state.finished => Table!Settled \/ Cardinality(Live(game, state)) = 1
         /\ Live(game, state) # {}
         /\ \A q \in Players(game) : state.spent[q] = state.maxSpent => ~Table!Owes(q)
         /\ \A q \in Players(game) : state.spent[q] >= game.stack[q] => ~Table!Owes(q)
<1>1. IsGame(game) /\ state \in StateType(game) /\ Table!Seats = Players(game)
  BY GamesAreGames DEF HandInv, Sound, WellFormed, Table!Seats, Players
<1>2. /\ \A q \in Players(game) : state.spent[q] \in Int /\ game.stack[q] \in Int
      /\ state.maxSpent \in Int
  BY <1>1, LimitsAssumption DEF StateType, IsGame, Chips
<1>3. \A q \in Players(game) : state.spent[q] = state.maxSpent => ~Table!Owes(q)
  BY <1>1, <1>2 DEF LargestBet, Table!Owes
<1>4. \A q \in Players(game) : state.spent[q] >= game.stack[q] => ~Table!Owes(q)
  BY <1>1, <1>2 DEF Table!Owes
<1>5. Live(game, state) # {}
  BY DEF LargestBet, Live
<1>6. state.finished => Table!Settled \/ Cardinality(Live(game, state)) = 1
  <2>1. CASE OnlyOneLeft(game, state)
    BY <1>1, <1>5, <2>1, OneLeftIsOne
  <2>2. CASE state.finished /\ ~OnlyOneLeft(game, state)
    <3>1. \A q \in Live(game, state) :
            /\ q \in Players(game)
            /\ state.spent[q] = state.maxSpent \/ state.spent[q] >= game.stack[q]
      BY <2>2 DEF TurnInv, Matched, Live, AllIn
    <3>2. QED
      BY <1>3, <1>4, <3>1 DEF Table!Settled, Live
  <2>3. QED
    BY <2>1, <2>2
<1>7. QED
  BY <1>3, <1>4, <1>5, <1>6

LEMMA TableCounts ==
  ASSUME NEW S PROVE Table!Cardinality(S) = Cardinality(S)
BY DEF Table!Cardinality, Cardinality

LEMMA ActIsATableStep ==
  ASSUME RaisesAreCovered, HandInv, TurnInv(game, state), LargestBet(game, state),
         HandInv', TurnInv(game, state)', LargestBet(game, state)',
         NEW type \in ActionTypes, NEW size \in Int, Act(type, size)
  PROVE  Table!Next
<1>1. PICK action \in AskedActions :
        LET after == Played(game, state, action)
        IN  /\ action = fixAction(game, state, [type |-> type, size |-> size])
            /\ action.type = type
            /\ isValidAction(game, state, TRUE, [type |-> type, size |-> size])
            /\ ActionAsserts(game, state, action)
            /\ WellFormed(game, after)
            /\ MovesChips(game, state, action, after)
            /\ CallersMatchBet(game, after) /\ Room(game, after)
            /\ ~after.finished
            /\ state' = Closed(game, after) /\ game' = game
  BY ActPlays
<1> DEFINE after == Played(game, state, action)
<1>0. PICK p : p = currentPlayer(game, state)
  OBVIOUS
<1>2. ~state.finished
  BY <1>1 DEF isValidAction
<1>3. /\ IsGame(game) /\ state \in StateType(game) /\ WellFormed(game, state)
      /\ state' \in StateType(game) /\ WellFormed(game, after)
      /\ p \in Players(game) /\ p \in ActingPlayers(game, state)
      /\ \A q \in Players(game) : state.spent[q] <= game.stack[q]
  BY <1>0, <1>1, <1>2, GamesAreGames, OpenHandHasActor DEF HandInv, Sound, WellFormed
<1> HIDE DEF after
<1>4. /\ state'.spent = after.spent /\ state'.maxSpent = after.maxSpent
      /\ state'.playerFolded = after.playerFolded
  <2>1. ~after.finished /\ state' = Closed(game, after)
    BY <1>1, Zenon DEF after
  <2>2. ClosesTo(game, after, Closed(game, after))
    BY <1>3, <2>1, ClosedEffect
  <2>3. ClosesTo(game, after, state')
    BY <2>1, <2>2, Zenon
  <2>4. QED
    BY <2>3, Zenon DEF ClosesTo
<1>5. MovesChips(game, state, action, after)
  BY <1>1 DEF after
<1>6. /\ \A q \in Players(game) : state.spent[q] \in Int /\ state'.spent[q] \in Int
                                   /\ game.stack[q] \in Int
      /\ state.maxSpent \in Int /\ state'.maxSpent \in Int
      /\ state.spent \in [Players(game) -> Chips]
      /\ state.playerFolded \in [Players(game) -> BOOLEAN]
      /\ state'.finished \in BOOLEAN
  <2>1. /\ \A q \in Players(game) : state.spent[q] \in Int /\ game.stack[q] \in Int
        /\ state.maxSpent \in Int
        /\ state.spent \in [Players(game) -> Chips]
        /\ state.playerFolded \in [Players(game) -> BOOLEAN]
    <3>1. /\ state.spent \in [Players(game) -> Chips] /\ state.maxSpent \in Chips
          /\ state.playerFolded \in [Players(game) -> BOOLEAN]
      BY <1>3 DEF StateType
    <3>2. game.stack \in [Players(game) -> Chips]
      BY <1>3 DEF IsGame
    <3>3. QED
      BY <3>1, <3>2, LimitsAssumption DEF Chips
  <2>2. /\ \A q \in Players(game) : state'.spent[q] \in Int
        /\ state'.maxSpent \in Int
        /\ state'.finished \in BOOLEAN
    BY <1>3, LimitsAssumption DEF StateType, Chips
  <2>3. QED
    BY <2>1, <2>2
<1>7. Table!Seats = Players(game) /\ p \in Live(game, state) /\ state.spent[p] < game.stack[p]
  BY <1>3, <1>6 DEF Table!Seats, Players, ActingPlayers, AllIn, Live
<1>8. /\ state'.finished => Table!Settled' \/ Cardinality(Live(game, state)') = 1
      /\ Live(game, state)' # {}
      /\ \A q \in Players(game) : state'.spent[q] = state'.maxSpent => ~Table!Owes(q)'
      /\ \A q \in Players(game) : state'.spent[q] >= game.stack[q] => ~Table!Owes(q)'
  <2>1. (/\ state.finished => Table!Settled \/ Cardinality(Live(game, state)) = 1
         /\ Live(game, state) # {}
         /\ \A q \in Players(game) : state.spent[q] = state.maxSpent => ~Table!Owes(q)
         /\ \A q \in Players(game) : state.spent[q] >= game.stack[q] => ~Table!Owes(q))'
    BY OverIsSettled, PTL
  <2>2. QED
    BY <1>1, <2>1
<1>9. CASE type = "fold"
  <2>1. /\ state'.spent = state.spent
        /\ state'.playerFolded = [state.playerFolded EXCEPT ![p] = TRUE]
    BY <1>0, <1>1, <1>4, <1>5, <1>9 DEF MovesChips
  <2>2. Live(game, state)' = Live(game, state) \ {p}
    BY <1>1, <1>3, <1>6, <2>1 DEF Live
  <2>3. Table!Owes(p)
    <3>1. state.spent[p] # state.maxSpent
      BY <1>0, <1>1, <1>9 DEF isValidAction, foldIsValid
    <3>2. PICK q \in Players(game) : state.spent[q] = state.maxSpent
      BY DEF LargestBet
    <3>3. state.spent[p] <= state.maxSpent
      BY <1>3 DEF LargestBet
    <3>4. state.spent[q] > state.spent[p]
      BY <1>3, <1>6, <3>1, <3>2, <3>3
    <3>5. QED
      BY <1>7, <3>4 DEF Table!Owes
  <2>4. Cardinality(Live(game, state)') = 1 => state'.finished
    <3>1. ASSUME Cardinality(Live(game, state)') = 1
          PROVE  state'.finished
      <4>1. Live(game, state)' = Live(game, after)
        BY <1>1, <1>4 DEF Live
      <4>2. OnlyOneLeft(game, after)
        BY <1>3, <1>8, <3>1, <4>1, OneLeftIsOne
      <4>3. state' = [after EXCEPT !.finished = TRUE]
        BY <1>1, <4>2 DEF Closed, after
      <4>4. QED
        BY <1>3, <4>3 DEF WellFormed, StateType
    <3>2. QED
      BY <3>1
  <2>5. Table!Fold(p)
    BY <1>2, <1>6, <1>7, <1>8, <2>1, <2>2, <2>3, <2>4, TableCounts, SMT
    DEF Table!Fold, Table!MayEnd, Table!MustEnd, Live
  <2>6. QED
    BY <1>1, <1>7, <2>5, <1>3 DEF Table!Next
<1>10. CASE type \in {"call", "raise"}
  <2>0. PICK chips : chips = IF type = "call" THEN CallTo(game, state, p)
                                             ELSE RaisedTo(game, state, p, action)
    OBVIOUS
  <2>1. /\ chips = IF type = "call" THEN CallTo(game, state, p)
                                    ELSE RaisedTo(game, state, p, action)
        /\ state'.spent = [state.spent EXCEPT ![p] = chips]
        /\ state'.playerFolded = state.playerFolded
        /\ state'.maxSpent = IF type = "call" THEN state.maxSpent ELSE chips
    BY <1>0, <1>1, <1>4, <1>5, <1>10, <2>0 DEF MovesChips
  <2>2. state'.spent[p] = chips /\ chips \in Int
    BY <1>3, <1>6, <2>1
  <2>3. state.spent[p] <= state.maxSpent
    BY <1>3 DEF LargestBet
  <2>4. /\ chips >= state.spent[p] /\ chips <= game.stack[p]
        /\ chips = state'.maxSpent \/ chips = game.stack[p]
    <3>1. CASE type = "call"
      BY <1>3, <1>6, <2>1, <2>2, <2>3, <3>1 DEF CallTo
    <3>2. CASE type = "raise"
      <4>1. chips >= state.maxSpent
        BY <1>0, <1>1, <1>3, <2>1, <3>2, RaiseGoesBeyond DEF HandInv
      <4>2. chips <= game.stack[p]
        <5>1. after.spent[p] <= game.stack[p]
          BY <1>3 DEF WellFormed
        <5>2. QED
          BY <1>4, <2>2, <5>1
      <4>3. QED
        BY <1>3, <1>6, <2>1, <2>2, <2>3, <3>2, <4>1, <4>2
    <3>3. QED
      BY <1>10, <3>1, <3>2
  <2>5. ~Table!Owes(p)'
    <3>1. CASE chips = state'.maxSpent
      BY <1>3, <1>8, <2>2, <3>1
    <3>2. CASE chips = game.stack[p]
      BY <1>3, <1>6, <1>8, <2>2, <3>2
    <3>3. QED
      BY <2>4, <3>1, <3>2
  <2>6. chips \in state.spent[p]..game.stack[p]
    BY <1>3, <1>6, <2>2, <2>4
  <2>7. Live(game, state)' = Live(game, state)
    BY <1>1, <2>1 DEF Live
  <2>8. Table!Pay(p)
    BY <1>2, <1>6, <1>7, <1>8, <2>1, <2>5, <2>6, <2>7, TableCounts, SMT
    DEF Table!Pay, Table!MayEnd, Live
  <2>9. QED
    BY <1>1, <1>3, <1>7, <2>8 DEF Table!Next
<1>11. QED
  BY <1>9, <1>10 DEF ActionTypes

(* In every no-limit game and every limit game with equal stacks the       *)
(* dealer's hands are hands of the abstract game: chips only move into the *)
(* pot, only a player who owes may leave, and a hand is over only when one *)
(* player is left or nobody owes anything.                                 *)
THEOREM HandImplementsBetting ==
  ASSUME RaisesAreCovered
  PROVE  Spec => ImplementsBetting
<1>1. Init => Table!Fresh
  BY DEF Init, Table!Fresh, initState, Table!Seats, Players
<1>2. Init => LargestBet(game, state)
  BY NewHandHasLargestBet DEF Init
<1>3. LargestBet(game, state) /\ HandInv /\ [Next]_vars => LargestBet(game, state)'
  BY NextKeepsLargestBet
<1>4. ASSUME HandInv, TurnInv(game, state), LargestBet(game, state),
             HandInv', TurnInv(game, state)', LargestBet(game, state)', Next
      PROVE  Table!Next
  <2>1. CASE \E type \in ActionTypes, size \in Int : Act(type, size)
    BY <1>4, <2>1, ActIsATableStep
  <2>2. Fold \/ Call \/ Raise => \E type \in ActionTypes, size \in Int : Act(type, size)
    BY SizesAssumption DEF Fold, Call, Raise, ActionTypes
  <2>3. CASE NewHand
    <3>1. game' = game /\ state' = initState(game) /\ state.finished
      BY <2>3 DEF NewHand
    <3>2. Table!NextHand
      BY <3>1 DEF Table!NextHand, initState, Table!Seats, Players
    <3>3. QED
      BY <3>1, <3>2, SMT DEF Table!Next
  <2>4. QED
    BY <1>4, <2>1, <2>2, <2>3 DEF Next
<1>5. UNCHANGED vars => UNCHANGED Table!vars
  BY DEF vars, Table!vars
<1>6. QED
  BY <1>1, <1>2, <1>3, <1>4, <1>5, HandInvHolds, TurnsHold, PTL
  DEF Spec, ImplementsBetting, Table!Spec
=============================================================================
