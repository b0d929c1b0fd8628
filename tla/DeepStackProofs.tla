-------------------------- MODULE DeepStackProofs --------------------------
(***************************************************************************)
(* Theorems about every match DeepStack plays, for every ante, stack and   *)
(* choice of bets: its parser finds in the last actions alone what the     *)
(* dealer's rules have in the state, its tree is a part of the game, and   *)
(* what it carries from decision to decision belongs to the hand.          *)
(***************************************************************************)
EXTENDS DeepStackProperties, AcpcGameProofs

-----------------------------------------------------------------------------
(* What the settings say of the game: two players, two rounds, equal       *)
(* stacks and antes, room for every raise.                                 *)
LEMMA TheGame ==
  /\ IsGame(game) /\ game.numPlayers = 2 /\ game.numRounds = 2
  /\ game.bettingType = "nolimit"
  /\ Players(game) = {0, 1} /\ Rounds(game) = {0, 1}
  /\ game.stack[0] = stack /\ game.stack[1] = stack
  /\ game.blind[0] = ante /\ game.blind[1] = ante
  /\ game.firstPlayer[0] = 0 /\ game.firstPlayer[1] = 0
  /\ LargestBlind(game) = ante
  /\ ante \in Nat \ {0} /\ stack \in Chips /\ stack \in Nat /\ ante < stack
  /\ game.numPlayers <= MAX_NUM_ACTIONS
<1>1. /\ IsGame(game) /\ game.numPlayers = 2 /\ game.numRounds = 2
      /\ game.bettingType = "nolimit"
  BY DeepStackAssumption
<1>2. Players(game) = {0, 1} /\ Rounds(game) = {0, 1}
  BY <1>1 DEF Players, Rounds
<1>3. /\ game.stack[0] = stack /\ game.stack[1] = stack
      /\ game.blind[0] = ante /\ game.blind[1] = ante
      /\ game.firstPlayer[0] = 0 /\ game.firstPlayer[1] = 0
  BY DeepStackAssumption
<1>4. LargestBlind(game) = ante
  BY <1>1, <1>2, <1>3, LargestBlindIsABlind
<1>5. ante \in Nat \ {0} /\ stack \in Nat /\ ante < stack
  BY TreeAssumption
<1>6. stack \in Chips
  <2>1. game.stack[0] \in Chips
    BY <1>1, <1>2 DEF IsGame
  <2>2. QED
    BY <2>1, <1>3
<1>7. game.numPlayers <= MAX_NUM_ACTIONS
  <2>1. PICK room \in Int : room = MAX_NUM_ACTIONS - 2
    BY LimitsAssumption
  <2>2. stack <= ante * room
    BY <2>1, DeepStackAssumption
  <2>3. room > 0
    <3>1. SUFFICES ASSUME room <= 0 PROVE FALSE
      BY <2>1
    <3>2. ante * room <= 0
      BY <1>5, <2>1, <3>1, Z3
    <3>3. QED
      BY <3>2, <2>2, <1>5
  <2>4. QED
    BY <2>1, <2>3, <1>1, LimitsAssumption
<1>8. QED
  BY <1>1, <1>2, <1>3, <1>4, <1>5, <1>6, <1>7

(* No street has room for more actions than fit in the arrays, nor for     *)
(* more raises than allowed.                                               *)
LEMMA ActionsFit ==
  ASSUME NEW n \in Nat, NEW bets \in Nat, n * ante <= bets, bets < stack,
         NEW r \in {0, 1}
  PROVE  n < game.maxRaises[r] /\ n + 2 <= MAX_NUM_ACTIONS
<1>1. ante \in Nat \ {0} /\ stack \in Nat
  BY TreeAssumption
<1>2. PICK most : most = game.maxRaises[r]
  OBVIOUS
<1>3. most \in Nat /\ stack <= ante * most
  BY <1>2, TheGame, DeepStackAssumption DEF IsGame
<1>4. PICK room \in Int : room = MAX_NUM_ACTIONS - 2
  BY LimitsAssumption
<1>5. stack <= ante * room
  BY <1>4, DeepStackAssumption
<1>6. ASSUME NEW k \in Int, stack <= ante * k PROVE n < k
  <2>1. SUFFICES ASSUME k <= n PROVE FALSE
    OBVIOUS
  <2>2. ante * k <= n * ante
    BY <1>1, <2>1, Z3
  <2>3. ante * k \in Int /\ n * ante \in Int
    BY <1>1
  <2>4. QED
    BY <2>2, <2>3, <1>6, <1>1
<1>7. n < most
  BY <1>3, <1>6
<1>8. n < room
  BY <1>5, <1>6
<1>9. QED
  BY <1>2, <1>4, <1>7, <1>8, LimitsAssumption

-----------------------------------------------------------------------------
(* The dealer's state, when q is to act: either nobody has raised on this  *)
(* street, and P1 has checked or not acted yet, or the last action was a   *)
(* raise of the other player.                                              *)

Matched(s) == s.spent[0] = s.maxSpent /\ s.spent[1] = s.maxSpent

Unraised(s) ==
  /\ Matched(s)
  /\ \/ CurrentActions(s) = << >>
     \/ Len(CurrentActions(s)) = 1 /\ CurrentActions(s)[1].type = "call"

Raised(s, q) ==
  LET acts == CurrentActions(s)
  IN  /\ acts # << >> /\ acts[Len(acts)].type = "raise"
      /\ acts[Len(acts)].size = s.maxSpent
      /\ s.spent[1 - q] = s.maxSpent /\ s.spent[q] < s.maxSpent

(* A raise raises by an ante, or by as much as the last one.               *)
RaiseBy(s, q) ==
  IF s.maxSpent - s.spent[q] > ante THEN s.maxSpent - s.spent[q] ELSE ante

InHand(s, q) ==
  LET acts == CurrentActions(s)
  IN  /\ Sound(game, s) /\ ~s.finished
      /\ q \in {0, 1} /\ Len(acts) % 2 = q
      /\ acts # << >> => acts[Len(acts)].player = 1 - q
      /\ ~s.playerFolded[0] /\ ~s.playerFolded[1]
      /\ ante <= s.spent[q] /\ s.spent[q] < stack
      /\ Unraised(s) \/ Raised(s, q)
      /\ s.maxSpent < stack =>
           /\ Len(acts) * ante <= s.maxSpent
           /\ s.minNoLimitRaiseTo = s.maxSpent + RaiseBy(s, q)

(* The fields of a state and their types, for a game of two.               *)
LEMMA StateFields ==
  ASSUME NEW s, WellFormed(game, s)
  PROVE  /\ s.round \in {0, 1} /\ s.finished \in BOOLEAN
         /\ s.spent \in [{0, 1} -> Nat] /\ s.maxSpent \in Nat /\ s.minNoLimitRaiseTo \in Nat
         /\ s.spent[0] \in Nat /\ s.spent[0] <= stack
         /\ s.spent[1] \in Nat /\ s.spent[1] <= stack
         /\ s.playerFolded \in [{0, 1} -> BOOLEAN]
         /\ s.action \in [{0, 1} -> Seq(ActionType(game))]
         /\ s.action[0] \in Seq(ActionType(game))
         /\ s.action[1] \in Seq(ActionType(game))
         /\ CurrentActions(s) \in Seq(ActionType(game))
         /\ Len(CurrentActions(s)) \in Nat
         /\ s.round = 0 => s.action[1] = << >>
<1>1. Chips \subseteq Nat
  BY DEF Chips
<1>2. /\ s.round \in {0, 1} /\ s.finished \in BOOLEAN
      /\ s.spent \in [{0, 1} -> Chips] /\ s.maxSpent \in Chips /\ s.minNoLimitRaiseTo \in Nat
      /\ s.playerFolded \in [{0, 1} -> BOOLEAN]
      /\ s.action \in [{0, 1} -> Seq(ActionType(game))]
  BY TheGame DEF WellFormed, StateType
<1>3. /\ s.spent[0] <= stack /\ s.spent[1] <= stack
      /\ s.round = 0 => s.action[1] = << >>
  BY <1>2, TheGame DEF WellFormed
<1>4. s.spent[0] \in Nat /\ s.spent[1] \in Nat /\ s.spent \in [{0, 1} -> Nat]
  BY <1>1, <1>2
<1>5. /\ s.action[0] \in Seq(ActionType(game))
      /\ s.action[1] \in Seq(ActionType(game))
      /\ CurrentActions(s) \in Seq(ActionType(game))
  BY <1>2 DEF CurrentActions
<1>6. Len(CurrentActions(s)) \in Nat
  BY <1>5, LenProperties
<1>7. QED
  BY <1>1, <1>2, <1>3, <1>4, <1>5, <1>6

(* Nobody, one player or both.                                             *)
LEMMA PairCounts ==
  /\ Cardinality({}) = 0
  /\ \A a : Cardinality({a}) = 1
  /\ Cardinality({0, 1}) = 2
  /\ \A n \in Nat : Cardinality({n, n + 1}) = 2
<1>1. Cardinality({}) = 0
  BY FS_EmptySet
<1>2. \A a : IsFiniteSet({a}) /\ Cardinality({a}) = 1
  BY FS_Singleton
<1>3. ASSUME NEW a, NEW b, a # b PROVE Cardinality({a, b}) = 2
  <2>1. IsFiniteSet({a} \cup {b}) /\ Cardinality({a} \cup {b}) = Cardinality({a}) + 1
    BY <1>2, <1>3, FS_AddElement
  <2>2. {a, b} = {a} \cup {b}
    OBVIOUS
  <2>3. QED
    BY <1>2, <2>1, <2>2
<1>4. Cardinality({0, 1}) = 2
  BY <1>3, 0 # 1
<1>5. ASSUME NEW n \in Nat PROVE Cardinality({n, n + 1}) = 2
  <2>1. n # n + 1
    OBVIOUS
  <2>2. QED
    BY <1>3, <2>1
<1>6. QED
  BY <1>1, <1>2, <1>4, <1>5

(* Whoever has chips left and has not folded can act.                      *)
LEMMA WhoCanAct ==
  ASSUME NEW s, ~s.playerFolded[0], ~s.playerFolded[1],
         NEW q \in {0, 1}, s.spent[0] \in Nat, s.spent[1] \in Nat, s.spent[q] < stack
  PROVE  /\ AllIn(game, s, 1 - q) <=> s.spent[1 - q] >= stack
         /\ ~AllIn(game, s, q)
         /\ s.spent[1 - q] < stack => ActingPlayers(game, s) = {q, 1 - q}
         /\ s.spent[1 - q] >= stack => ActingPlayers(game, s) = {q}
         /\ q \in ActingPlayers(game, s)
<1>1. stack \in Nat /\ Players(game) = {0, 1} /\ 1 - q \in {0, 1} /\ {0, 1} = {q, 1 - q}
  BY TheGame
<1>2. game.stack[q] = stack /\ game.stack[1 - q] = stack
  BY TheGame
<1>3. ~s.playerFolded[q] /\ ~s.playerFolded[1 - q]
  OBVIOUS
<1>4. s.spent[q] \in Nat /\ s.spent[1 - q] \in Nat
  OBVIOUS
<1>5. (AllIn(game, s, 1 - q) <=> s.spent[1 - q] >= stack) /\ ~AllIn(game, s, q)
  BY <1>1, <1>2, <1>4 DEF AllIn
<1>6. ActingPlayers(game, s) = {p \in {q, 1 - q} : ~AllIn(game, s, p)}
  BY <1>1, <1>3 DEF ActingPlayers
<1>7. s.spent[1 - q] < stack <=> ~(s.spent[1 - q] >= stack)
  BY <1>1, <1>4
<1>8. ~AllIn(game, s, 1 - q) => ActingPlayers(game, s) = {q, 1 - q}
  BY <1>5, <1>6
<1>9. AllIn(game, s, 1 - q) => ActingPlayers(game, s) = {q}
  BY <1>5, <1>6
<1>10. QED
  BY <1>5, <1>7, <1>8, <1>9

(* The turn passes to the player who did not act last.                     *)
LEMMA NextIsTheOther ==
  ASSUME NEW s, NEW cur \in {0, 1, 2}, NEW q \in {0, 1}, (cur + 1) % 2 = q,
         q \in ActingPlayers(game, s)
  PROVE  nextPlayer(game, s, cur) = q
<1>1. IsGame(game) /\ game.numPlayers = 2
  BY TheGame
<1>2. ActingPlayers(game, s) # {} /\ cur \in 0..(2 * game.numPlayers - 1)
  BY <1>1
<1>3. PICK k \in 1..game.numPlayers :
        /\ nextPlayer(game, s, cur) = (cur + k) % game.numPlayers
        /\ \A j \in 1..k - 1 : (cur + j) % game.numPlayers \notin ActingPlayers(game, s)
  BY <1>1, <1>2, NextPlayerIsNearest
<1>4. k = 1
  <2>1. SUFFICES ASSUME k # 1 PROVE FALSE
    OBVIOUS
  <2>2. 1 \in 1..k - 1
    BY <2>1, <1>1
  <2>3. (cur + 1) % game.numPlayers \notin ActingPlayers(game, s)
    BY <1>3, <2>2
  <2>4. QED
    BY <2>3, <1>1
<1>5. QED
  BY <1>1, <1>3, <1>4

LEMMA Turn ==
  ASSUME NEW s, NEW q, InHand(s, q)
  PROVE  /\ currentPlayer(game, s) = q
         /\ q \in ActingPlayers(game, s) /\ ActingPlayers(game, s) # {}
<1>1. WellFormed(game, s) /\ q \in {0, 1}
  BY DEF InHand, Sound
<1>2. s.spent[0] \in Nat /\ s.spent[1] \in Nat
  BY <1>1, StateFields
<1>3. ~s.playerFolded[0] /\ ~s.playerFolded[1] /\ s.spent[q] < stack
  BY DEF InHand
<1>4. q \in ActingPlayers(game, s)
  BY <1>1, <1>2, <1>3, WhoCanAct
<1>5. currentPlayer(game, s) = q
  <2>1. CASE CurrentActions(s) = << >>
    <3>1. q = 0
      BY <2>1 DEF InHand
    <3>2. s.round \in {0, 1}
      BY <1>1, StateFields
    <3>3. game.firstPlayer[s.round] + game.numPlayers - 1 = 1
      BY <3>2, TheGame
    <3>4. nextPlayer(game, s, 1) = q
      BY <3>1, <1>4, NextIsTheOther
    <3>5. QED
      BY <2>1, <3>3, <3>4 DEF currentPlayer
  <2>2. CASE CurrentActions(s) # << >>
    <3>1. PICK cur : cur = CurrentActions(s)[Len(CurrentActions(s))].player
      OBVIOUS
    <3>2. cur = 1 - q
      BY <3>1, <2>2 DEF InHand
    <3>3. nextPlayer(game, s, cur) = q
      BY <3>2, <1>1, <1>4, NextIsTheOther
    <3>4. QED
      BY <3>1, <3>3, <2>2 DEF currentPlayer
  <2>3. QED
    BY <2>1, <2>2
<1>6. QED
  BY <1>4, <1>5

(* Who has called the bet, or made it, and can still act.                  *)
LEMMA CallersInHand ==
  ASSUME NEW s, NEW q, InHand(s, q)
  PROVE  LET n == Len(CurrentActions(s))
         IN  /\ CurrentActions(s) = << >> => Callers(game, s) = {}
             /\ Unraised(s) /\ CurrentActions(s) # << >> => Callers(game, s) = {1} /\ n = 1
             /\ Raised(s, q) => Callers(game, s) = IF s.maxSpent < stack THEN {n} ELSE {}
<1> DEFINE acts == CurrentActions(s)
           n == Len(acts)
<1>1. WellFormed(game, s) /\ q \in {0, 1}
  BY DEF InHand, Sound
<1>2. /\ acts \in Seq(ActionType(game)) /\ n \in Nat /\ DOMAIN acts = 1..n
      /\ s.spent[0] \in Nat /\ s.spent[1] \in Nat /\ s.maxSpent \in Nat
  BY <1>1, StateFields, LenProperties
<1>3. /\ AllIn(game, s, 1 - q) <=> s.spent[1 - q] >= stack
      /\ stack \in Nat
  BY <1>1, <1>2, WhoCanAct, TheGame DEF InHand
<1>4. acts = << >> => Callers(game, s) = {}
  BY <1>2 DEF Callers
<1>5. ASSUME Unraised(s), acts # << >>
      PROVE  Callers(game, s) = {1} /\ n = 1
  <2>1. n = 1 /\ acts[1].type = "call"
    BY <1>5 DEF Unraised
  <2>2. acts[1].player = 1 - q
    BY <2>1, <1>5 DEF InHand
  <2>3. s.spent[1 - q] < stack
    BY <1>1, <1>5, TheGame DEF InHand, Unraised, Matched
  <2>4. ~AllIn(game, s, acts[1].player)
    BY <2>2, <2>3, <1>1, <1>2, <1>3
  <2>5. DOMAIN acts = {1}
    BY <2>1, <1>2
  <2>6. RaisesIn(acts) = {}
    BY <2>1, <2>5 DEF RaisesIn
  <2>7. Callers(game, s) = {1}
    BY <2>1, <2>4, <2>5, <2>6 DEF Callers
  <2>8. QED
    BY <2>7, <2>1
<1>6. ASSUME Raised(s, q)
      PROVE  Callers(game, s) = IF s.maxSpent < stack THEN {n} ELSE {}
  <2>1. acts # << >> /\ acts[n].type = "raise" /\ s.spent[1 - q] = s.maxSpent
    BY <1>6 DEF Raised
  <2>2. n \in DOMAIN acts /\ acts[n].player = 1 - q
    BY <1>2, <2>1, LastElement DEF InHand
  <2>3. n \in RaisesIn(acts)
    BY <2>1, <2>2 DEF RaisesIn
  <2>4. RaisesIn(acts) \subseteq 1..n
    BY <1>2 DEF RaisesIn
  <2>5. \A i \in DOMAIN acts : (\A j \in RaisesIn(acts) : j <= i) <=> i = n
    BY <1>2, <2>3, <2>4
  <2>6. Callers(game, s) = {i \in {n} : ~AllIn(game, s, acts[i].player)}
    BY <2>1, <2>2, <2>5 DEF Callers
  <2>7. AllIn(game, s, acts[n].player) <=> ~(s.maxSpent < stack)
    BY <1>1, <1>2, <1>3, <2>1, <2>2
  <2>8. QED
    BY <2>6, <2>7
<1>7. QED
  BY <1>4, <1>5, <1>6

(* What an action leaves behind, whatever it is.                           *)
Entry(action, q) == [type |-> action.type, size |-> action.size, player |-> q]

Extended(s, action, q) ==
  [s.action EXCEPT ![s.round] = Append(@, Entry(action, q))]

Moved(s, q, action, t) ==
  /\ WellFormed(game, t) /\ ~t.finished /\ t.round = s.round
  /\ t.action = Extended(s, action, q)
  /\ CurrentActions(t) = Append(CurrentActions(s), Entry(action, q))
  /\ MovesChips(game, s, action, t)
  /\ MovesCallers(game, s, action, t)

LEMMA Moves ==
  ASSUME NEW s, NEW q, InHand(s, q),
         NEW action \in AskedActions, isValidAction(game, s, FALSE, action)
  PROVE  /\ Moved(s, q, action, Played(game, s, action))
         /\ Sound(game, doAction(game, s, action))
<1> DEFINE t == Played(game, s, action)
<1>1. /\ IsGame(game) /\ Sound(game, s) /\ WellFormed(game, s) /\ CallersMatchBet(game, s)
      /\ game.numPlayers <= MAX_NUM_ACTIONS
  BY TheGame DEF InHand, Sound
<1>2. currentPlayer(game, s) = q /\ ActingPlayers(game, s) # {}
  BY Turn
<1>3. WellFormed(game, t) /\ MovesChips(game, s, action, t) /\ ~t.finished
  BY <1>1, ValidActionPlays
<1>4. ActionAsserts(game, s, action)
  BY <1>1, ValidActionIsSafe
<1>5. MovesCallers(game, s, action, t)
  BY <1>1, <1>2, <1>4, PlayedCallers
<1>6. t.round = s.round /\ t.action = Extended(s, action, q)
  BY <1>2, <1>3 DEF MovesChips, Extended, Entry
<1>7. CurrentActions(t) = Append(CurrentActions(s), Entry(action, q))
  <2>1. s.round \in {0, 1} /\ s.action \in [{0, 1} -> Seq(ActionType(game))]
    BY <1>1, StateFields
  <2>2. QED
    BY <2>1, <1>6 DEF CurrentActions, Extended
<1>8. Sound(game, doAction(game, s, action))
  BY <1>1, ValidActionKeepsSound
<1>9. QED
  BY <1>3, <1>5, <1>6, <1>7, <1>8 DEF Moved

(* A fold ends the hand.                                                   *)
LEMMA FoldEffect ==
  ASSUME NEW s, NEW q, InHand(s, q),
         NEW action \in AskedActions, isValidAction(game, s, FALSE, action),
         action.type = "fold"
  PROVE  LET after == doAction(game, s, action)
         IN  /\ Raised(s, q)
             /\ after.finished /\ after.round = s.round
             /\ after.action = Extended(s, action, q)
             /\ after.spent = s.spent
<1> DEFINE t == Played(game, s, action)
<1>1. Moved(s, q, action, t)
  BY Moves
<1>2. currentPlayer(game, s) = q /\ q \in {0, 1}
  BY Turn DEF InHand
<1>3. s.playerFolded \in [{0, 1} -> BOOLEAN] /\ ~s.playerFolded[0] /\ ~s.playerFolded[1]
  BY StateFields DEF InHand, Sound
<1>4. t.playerFolded = [s.playerFolded EXCEPT ![q] = TRUE]
  BY <1>1, <1>2 DEF Moved, MovesChips
<1>5. {p \in Players(game) : t.playerFolded[p]} = {q}
  BY <1>2, <1>3, <1>4, TheGame
<1>6. OnlyOneLeft(game, t)
  <2>1. numFolded(game, t) = 1
    BY <1>5, PairCounts DEF numFolded
  <2>2. game.numPlayers = 2
    BY TheGame
  <2>3. QED
    BY <2>1, <2>2 DEF OnlyOneLeft
<1>7. doAction(game, s, action) = [t EXCEPT !.finished = TRUE]
  BY <1>6 DEF doAction, Closed
<1>8. t.spent = s.spent /\ t.round = s.round /\ t.action = Extended(s, action, q)
  BY <1>1 DEF Moved, MovesChips
<1>9. WellFormed(game, t)
  BY <1>1 DEF Moved
<1>10. Raised(s, q)
  <2>1. s.spent[q] # s.maxSpent
    BY <1>2 DEF isValidAction, foldIsValid
  <2>2. ~Unraised(s)
    BY <2>1, <1>2 DEF Unraised, Matched
  <2>3. QED
    BY <2>2 DEF InHand
<1>11. /\ doAction(game, s, action).finished
       /\ doAction(game, s, action).round = t.round
       /\ doAction(game, s, action).action = t.action
       /\ doAction(game, s, action).spent = t.spent
  <2>1. t \in StateType(game)
    BY <1>9 DEF WellFormed
  <2> HIDE DEF t
  <2>2. QED
    BY <2>1, <1>7 DEF StateType
<1>12. QED
  BY <1>8, <1>10, <1>11

(* Without a fold, nobody has folded yet.                                  *)
LEMMA NobodyFolds ==
  ASSUME NEW s, NEW q, InHand(s, q),
         NEW action, action.type \in {"call", "raise"}, NEW t, Moved(s, q, action, t)
  PROVE  /\ ~t.playerFolded[0] /\ ~t.playerFolded[1]
         /\ ~OnlyOneLeft(game, t)
<1>1. t.playerFolded = s.playerFolded
  BY DEF Moved, MovesChips
<1>2. ~t.playerFolded[0] /\ ~t.playerFolded[1]
  BY <1>1 DEF InHand
<1>3. {p \in Players(game) : t.playerFolded[p]} = {}
  BY <1>2, TheGame
<1>4. numFolded(game, t) = 0
  <2>1. Cardinality({}) = 0
    BY PairCounts
  <2>2. QED
    BY <1>3, <2>1, Zenon DEF numFolded
<1>5. game.numPlayers = 2
  BY TheGame
<1>6. ~OnlyOneLeft(game, t)
  BY <1>4, <1>5 DEF OnlyOneLeft
<1>7. QED
  BY <1>2, <1>6

(* The played action and whether it closes the street.                     *)
LEMMA StaysOpen ==
  ASSUME NEW t, ~OnlyOneLeft(game, t), ~BettingClosed(game, t)
  PROVE  Closed(game, t) = t
BY DEF Closed

LEMMA ClosesStreet ==
  ASSUME NEW t, WellFormed(game, t), ~OnlyOneLeft(game, t), BettingClosed(game, t)
  PROVE  LET after == Closed(game, t)
         IN  /\ numActingPlayers(game, t) <= 1 => after.finished /\ after.round = 1
             /\ ~(numActingPlayers(game, t) <= 1) /\ t.round = 1 =>
                  after.finished /\ after.round = 1
             /\ ~(numActingPlayers(game, t) <= 1) /\ t.round = 0 =>
                  /\ after.finished = t.finished /\ after.round = 1
                  /\ after.minNoLimitRaiseTo = ante + t.maxSpent
             /\ after.action = t.action /\ after.spent = t.spent
             /\ after.maxSpent = t.maxSpent
             /\ after.playerFolded = t.playerFolded
<1>1. t.round \in {0, 1} /\ t \in StateType(game)
  BY StateFields DEF WellFormed
<1>2. game.numRounds = 2 /\ Max({1, LargestBlind(game)}) = ante
  <2>1. \A x \in {1, ante} : x <= ante
    BY TheGame
  <2>2. {1, ante} \subseteq Nat /\ {1, ante} # {} /\ ante \in Nat
    BY TheGame
  <2>3. Max({1, ante}) \in {1, ante} /\ ante <= Max({1, ante})
    BY <2>1, <2>2, MaxOfNats
  <2>4. Max({1, ante}) = ante
    BY <2>1, <2>3, TheGame
  <2>5. QED
    BY <2>4, TheGame
<1>3. CASE numActingPlayers(game, t) <= 1
  <2>1. Closed(game, t) = [t EXCEPT !.finished = TRUE, !.round = 1]
    <3>1. Closed(game, t) = [t EXCEPT !.finished = TRUE, !.round = game.numRounds - 1]
      BY <1>3 DEF Closed
    <3>2. game.numRounds - 1 = 1
      BY <1>2
    <3>3. QED
      BY <3>1, <3>2
  <2>2. QED
    BY <1>1, <1>2, <1>3, <2>1 DEF StateType
<1>4. CASE ~(numActingPlayers(game, t) <= 1) /\ t.round = 0
  <2>1. Closed(game, t) = [t EXCEPT !.round = @ + 1,
                              !.minNoLimitRaiseTo =
                                 Max({1, LargestBlind(game)}) + t.maxSpent]
    BY <1>2, <1>4 DEF Closed
  <2>2. QED
    BY <1>1, <1>2, <1>4, <2>1 DEF StateType
<1>5. CASE ~(numActingPlayers(game, t) <= 1) /\ t.round = 1
  <2>1. Closed(game, t) = [t EXCEPT !.finished = TRUE]
    BY <1>2, <1>5 DEF Closed
  <2>2. QED
    BY <1>1, <1>2, <1>5, <2>1 DEF StateType
<1>6. QED
  BY <1>1, <1>3, <1>4, <1>5

(* The first call on a street, when the bets are level, passes the turn.   *)
CheckPasses(s, q, action, after) ==
  /\ q = 0 /\ Matched(s)
  /\ InHand(after, 1) /\ after.round = s.round
  /\ after.action = Extended(s, action, q)
  /\ after.spent = s.spent /\ after.maxSpent = s.maxSpent
  /\ CurrentActions(after) = <<Entry(action, q)>>

LEMMA CheckEffect ==
  ASSUME NEW s, NEW q, InHand(s, q),
         NEW action \in AskedActions, isValidAction(game, s, FALSE, action),
         action.type = "call", CurrentActions(s) = << >>
  PROVE  CheckPasses(s, q, action, doAction(game, s, action))
<1> DEFINE t == Played(game, s, action)
<1>1. Moved(s, q, action, t) /\ Sound(game, doAction(game, s, action))
  BY Moves
<1>2. currentPlayer(game, s) = q /\ q \in {0, 1}
  BY Turn DEF InHand
<1>3. q = 0
  BY DEF InHand
<1>4. Matched(s) /\ s.spent[0] < stack
  BY <1>3 DEF InHand, Raised, Unraised
<1>5. WellFormed(game, s) /\ s.maxSpent \in Nat /\ s.spent \in [{0, 1} -> Nat]
      /\ Len(CurrentActions(s)) = 0 /\ stack \in Nat
  BY StateFields, TheGame DEF InHand, Sound
<1>6. t.spent = s.spent /\ t.maxSpent = s.maxSpent
      /\ t.minNoLimitRaiseTo = s.minNoLimitRaiseTo
  <2>1. CallTo(game, s, 0) = s.maxSpent
    BY <1>4, <1>5, TheGame DEF CallTo, Matched
  <2>2. t.spent = [s.spent EXCEPT ![0] = s.maxSpent]
    BY <1>1, <1>2, <1>3, <2>1 DEF Moved, MovesChips
  <2>3. [s.spent EXCEPT ![0] = s.maxSpent] = s.spent
    BY <1>4, <1>5 DEF Matched
  <2>4. QED
    BY <1>1, <2>2, <2>3 DEF Moved, MovesChips
<1>7. ~t.playerFolded[0] /\ ~t.playerFolded[1] /\ ~OnlyOneLeft(game, t)
  BY <1>1, NobodyFolds
<1>8. ActingPlayers(game, t) = {0, 1} /\ ~AllIn(game, t, 0)
  BY <1>4, <1>5, <1>6, <1>7, WhoCanAct, TheGame DEF Matched
<1>9. Callers(game, t) = {1}
  <2>1. Callers(game, s) = {}
    BY CallersInHand
  <2>2. Callers(game, t) = Callers(game, s) \cup {Len(CurrentActions(s)) + 1}
    BY <1>1, <1>2, <1>3, <1>8 DEF Moved, MovesCallers
  <2>3. QED
    BY <1>5, <2>1, <2>2
<1>10. ~BettingClosed(game, t)
  <2>1. numCalled(game, t) = 1
    BY <1>9, PairCounts DEF numCalled
  <2>2. numActingPlayers(game, t) = 2
    BY <1>8, PairCounts DEF numActingPlayers
  <2>3. QED
    BY <2>1, <2>2 DEF BettingClosed
<1>11. doAction(game, s, action) = t
  BY <1>7, <1>10, StaysOpen DEF doAction
<1>12. CurrentActions(t) = <<Entry(action, q)>>
  BY <1>1 DEF Moved
<1>13. InHand(t, 1)
  <2>1. Sound(game, t) /\ ~t.finished
    BY <1>1, <1>11 DEF Moved
  <2>2. Len(CurrentActions(t)) = 1 /\ CurrentActions(t)[1] = Entry(action, q)
    BY <1>12
  <2>3. CurrentActions(t)[1].type = "call" /\ CurrentActions(t)[1].player = 0
    BY <2>2, <1>3 DEF Entry
  <2>4. Unraised(t)
    BY <2>2, <2>3, <1>4, <1>6 DEF Unraised, Matched
  <2>5. ante <= t.spent[1] /\ t.spent[1] < stack
    BY <1>3, <1>4, <1>6 DEF InHand, Matched
  <2>6. t.maxSpent < stack =>
           /\ 1 * ante <= t.maxSpent
           /\ t.minNoLimitRaiseTo = t.maxSpent + RaiseBy(t, 1)
    <3>1. s.maxSpent - s.spent[0] = s.maxSpent - s.spent[1]
      BY <1>4 DEF Matched
    <3>2. RaiseBy(t, 1) = RaiseBy(s, 0)
      BY <1>6, <3>1 DEF RaiseBy
    <3>3. s.maxSpent < stack => s.minNoLimitRaiseTo = s.maxSpent + RaiseBy(s, 0)
      BY <1>3 DEF InHand
    <3>4. ante <= s.maxSpent
      BY <2>5, <1>4, <1>6 DEF Matched
    <3>5. QED
      BY <3>2, <3>3, <3>4, <1>6, TheGame
  <2>7. QED
    BY <2>1, <2>2, <2>3, <2>4, <2>5, <2>6, <1>7 DEF InHand
<1>14. QED
  BY <1>1, <1>3, <1>4, <1>6, <1>11, <1>12, <1>13 DEF Moved, CheckPasses

(* A call of a raise, or after a check, closes the street, and the hand on *)
(* the last street or when both are all-in.                                *)
CallEnds(s, q, action, after) ==
  /\ after.action = Extended(s, action, q)
  /\ after.spent[0] = s.maxSpent /\ after.spent[1] = s.maxSpent
  /\ after.maxSpent = s.maxSpent
  /\ after.round = 1
  /\ s.maxSpent < stack /\ s.round = 0 => InHand(after, 0)
  /\ ~(s.maxSpent < stack) \/ s.round = 1 => after.finished

(* The chips and the callers after such a call.                            *)
LEMMA ClosingCall ==
  ASSUME NEW s, NEW q, InHand(s, q),
         NEW action, action.type = "call", CurrentActions(s) # << >>,
         NEW t, Moved(s, q, action, t)
  PROVE  /\ t.spent[0] = s.maxSpent /\ t.spent[1] = s.maxSpent /\ t.maxSpent = s.maxSpent
         /\ ~OnlyOneLeft(game, t) /\ BettingClosed(game, t)
         /\ s.maxSpent < stack <=> ~(numActingPlayers(game, t) <= 1)
<1> DEFINE n == Len(CurrentActions(s))
<1>1. currentPlayer(game, s) = q /\ q \in {0, 1} /\ 1 - q \in {0, 1} /\ {q, 1 - q} = {0, 1}
  BY Turn DEF InHand
<1>2. /\ s.maxSpent \in Nat /\ s.spent \in [{0, 1} -> Nat] /\ n \in Nat /\ stack \in Nat
      /\ s.spent[0] \in Nat /\ s.spent[1] \in Nat
      /\ s.spent[0] <= stack /\ s.spent[1] <= stack
  BY StateFields, TheGame DEF InHand, Sound
<1>3. s.spent[1 - q] = s.maxSpent
  BY <1>1 DEF InHand, Raised, Unraised, Matched
<1>4. s.maxSpent <= stack
  BY <1>1, <1>2, <1>3
<1>5. CallTo(game, s, q) = s.maxSpent
  BY <1>1, <1>2, <1>4, TheGame DEF CallTo
<1>6. t.spent = [s.spent EXCEPT ![q] = s.maxSpent] /\ t.maxSpent = s.maxSpent
  BY <1>1, <1>5 DEF Moved, MovesChips
<1>7. t.spent[0] = s.maxSpent /\ t.spent[1] = s.maxSpent
  BY <1>1, <1>2, <1>3, <1>6
<1>8. ~t.playerFolded[0] /\ ~t.playerFolded[1] /\ ~OnlyOneLeft(game, t)
  BY NobodyFolds
<1>9. CASE s.maxSpent < stack
  <2>1. ~AllIn(game, t, q) /\ ActingPlayers(game, t) = {0, 1}
    BY <1>1, <1>2, <1>7, <1>8, <1>9, WhoCanAct
  <2>2. Callers(game, s) = {n}
    BY <1>9, CallersInHand DEF InHand
  <2>3. Callers(game, t) = Callers(game, s) \cup {n + 1}
    BY <1>1, <2>1 DEF Moved, MovesCallers
  <2>4. Callers(game, t) = {n, n + 1}
    BY <2>2, <2>3
  <2>5. numCalled(game, t) = 2
    BY <1>2, <2>4, PairCounts DEF numCalled
  <2>6. numActingPlayers(game, t) = 2
    BY <2>1, PairCounts DEF numActingPlayers
  <2>7. QED
    BY <1>6, <1>7, <1>8, <1>9, <2>5, <2>6 DEF BettingClosed
<1>10. CASE ~(s.maxSpent < stack)
  <2>1. ~Unraised(s)
    BY <1>1, <1>10 DEF InHand, Unraised, Matched
  <2>2. Raised(s, q)
    BY <2>1 DEF InHand
  <2>3. Callers(game, s) = {}
    BY <1>10, <2>2, CallersInHand
  <2>4. AllIn(game, t, q)
    BY <1>1, <1>2, <1>7, <1>10, TheGame DEF AllIn
  <2>5. Callers(game, t) = Callers(game, s) \cup {}
    BY <1>1, <2>4 DEF Moved, MovesCallers
  <2>6. ActingPlayers(game, s) = {q}
    BY <1>1, <1>2, <1>3, <1>10, WhoCanAct DEF InHand
  <2>7. ActingPlayers(game, t) = ActingPlayers(game, s) \ {q}
    BY <1>1, <2>4 DEF Moved, MovesCallers
  <2>8. Callers(game, t) = {} /\ ActingPlayers(game, t) = {}
    BY <2>3, <2>5, <2>6, <2>7
  <2>9. numCalled(game, t) = 0 /\ numActingPlayers(game, t) = 0
    BY <2>8, PairCounts DEF numCalled, numActingPlayers
  <2>10. QED
    BY <1>6, <1>7, <1>8, <1>10, <2>9 DEF BettingClosed
<1>11. QED
  BY <1>9, <1>10

LEMMA CallEffect ==
  ASSUME NEW s, NEW q, InHand(s, q),
         NEW action \in AskedActions, isValidAction(game, s, FALSE, action),
         action.type = "call", CurrentActions(s) # << >>
  PROVE  CallEnds(s, q, action, doAction(game, s, action))
<1> DEFINE t == Played(game, s, action)
           after == doAction(game, s, action)
<1>1. Moved(s, q, action, t) /\ Sound(game, after)
  BY Moves
<1>2. /\ t.spent[0] = s.maxSpent /\ t.spent[1] = s.maxSpent /\ t.maxSpent = s.maxSpent
      /\ ~OnlyOneLeft(game, t) /\ BettingClosed(game, t)
      /\ s.maxSpent < stack <=> ~(numActingPlayers(game, t) <= 1)
  BY <1>1, ClosingCall
<1>3. WellFormed(game, t) /\ after = Closed(game, t) /\ t.round = s.round
      /\ ~t.finished /\ t.action = Extended(s, action, q)
  BY <1>1 DEF Moved, doAction
<1>4. s.round \in {0, 1} /\ s.maxSpent \in Nat /\ q \in {0, 1} /\ ante \in Nat
  BY StateFields, TheGame DEF InHand, Sound
<1>4a. s.action \in [{0, 1} -> Seq(ActionType(game))]
  BY StateFields DEF InHand, Sound
<1>4b. s.round = 0 => s.action[1] = << >>
  BY StateFields DEF InHand, Sound
<1> HIDE DEF t, after
<1>5. /\ after.action = t.action /\ after.spent = t.spent
      /\ after.maxSpent = t.maxSpent /\ after.playerFolded = t.playerFolded
  BY <1>2, <1>3, ClosesStreet
<1>6. after.round = 1 /\ (~(s.maxSpent < stack) \/ s.round = 1 => after.finished)
  BY <1>2, <1>3, <1>4, ClosesStreet
<1>7. ASSUME s.maxSpent < stack, s.round = 0
      PROVE  InHand(after, 0)
  <2>1. ~after.finished /\ after.minNoLimitRaiseTo = ante + s.maxSpent
    BY <1>2, <1>3, <1>7, ClosesStreet
  <2>2. CurrentActions(after) = << >>
    <3>1. after.action[1] = Extended(s, action, q)[1]
      BY <1>3, <1>5
    <3>2. Extended(s, action, q)[1] = s.action[1]
      BY <1>4a, <1>7 DEF Extended
    <3>3. s.action[1] = << >>
      BY <1>4b, <1>7
    <3>4. after.action[1] = << >>
      BY <3>1, <3>2, <3>3
    <3>5. QED
      BY <3>4, <1>6 DEF CurrentActions
  <2>3. after.spent[0] = s.maxSpent /\ after.spent[1] = s.maxSpent /\ after.maxSpent = s.maxSpent
    BY <1>2, <1>5
  <2>4. Unraised(after)
    BY <2>2, <2>3 DEF Unraised, Matched
  <2>5. RaiseBy(after, 0) = ante
    BY <2>3, <1>4 DEF RaiseBy
  <2>6. ~after.playerFolded[0] /\ ~after.playerFolded[1]
    BY <1>1, <1>5, NobodyFolds
  <2>7. Len(CurrentActions(after)) = 0
    BY <2>2
  <2>8. ante <= s.maxSpent
    <3>1. s.spent[q] <= s.maxSpent /\ s.spent[q] \in Nat /\ ante <= s.spent[q]
      <4>1. s.spent[q] \in Nat
        BY <1>4, StateFields DEF InHand, Sound
      <4>2. CASE Unraised(s)
        BY <1>4, <4>1, <4>2 DEF InHand, Unraised, Matched
      <4>3. CASE Raised(s, q)
        BY <1>4, <4>1, <4>3 DEF InHand, Raised
      <4>4. QED
        BY <4>2, <4>3 DEF InHand
    <3>2. QED
      BY <3>1, <1>4
  <2>9. 0 * ante <= s.maxSpent /\ 0 % 2 = 0
    BY <1>4
  <2>10. after.minNoLimitRaiseTo = after.maxSpent + RaiseBy(after, 0)
    BY <2>1, <2>3, <2>5, <1>4
  <2>11. QED
    BY <1>1, <1>7, <2>1, <2>2, <2>3, <2>4, <2>6, <2>7, <2>8, <2>9, <2>10 DEF InHand
<1>8. QED
  BY <1>2, <1>3, <1>5, <1>6, <1>7 DEF CallEnds, after

(* The next smallest raise, after one to size that left chips behind.      *)
LEMMA NextMinimum ==
  ASSUME NEW size \in Nat, NEW m \in Nat, NEW low \in Nat, NEW n \in Nat, NEW least \in Nat,
         low <= m, m < size, n * ante <= m,
         NEW by, by = (IF m - low > ante THEN m - low ELSE ante),
         least = m + by, size >= least
  PROVE  /\ (n + 1) * ante <= size
         /\ (IF 2 * size - m > least THEN 2 * size - m ELSE least)
              = size + (IF size - m > ante THEN size - m ELSE ante)
<1>1. ante \in Nat \ {0}
  BY TheGame
<1>2. by \in Nat /\ ante <= by
  BY <1>1
<1>3. (n + 1) * ante = n * ante + ante /\ n * ante \in Nat
  BY <1>1
<1>4. 2 * size - m = size + (size - m) /\ size - m \in Nat
  OBVIOUS
<1>5. QED
  BY <1>1, <1>2, <1>3, <1>4

(* The other player answers a raise.                                       *)
RaisePasses(s, q, action, after) ==
  /\ InHand(after, 1 - q) /\ Raised(after, 1 - q)
  /\ after.round = s.round
  /\ after.action = Extended(s, action, q)
  /\ after.spent = [s.spent EXCEPT ![q] = action.size]
  /\ after.maxSpent = action.size
  /\ s.maxSpent < action.size /\ action.size <= stack
  /\ CurrentActions(after) = Append(CurrentActions(s), Entry(action, q))

LEMMA RaiseEffect ==
  ASSUME NEW s, NEW q, InHand(s, q),
         NEW action \in AskedActions, isValidAction(game, s, FALSE, action),
         action.type = "raise"
  PROVE  RaisePasses(s, q, action, doAction(game, s, action))
<1> DEFINE t == Played(game, s, action)
           acts == CurrentActions(s)
           n == Len(acts)
           m == s.maxSpent
           size == action.size
<1>1. Moved(s, q, action, t) /\ Sound(game, doAction(game, s, action))
  BY Moves
<1>2. currentPlayer(game, s) = q /\ q \in {0, 1} /\ 1 - q \in {0, 1} /\ {q, 1 - q} = {0, 1}
  BY Turn DEF InHand
<1>3. /\ m \in Nat /\ s.spent \in [{0, 1} -> Nat] /\ n \in Nat /\ stack \in Nat
      /\ s.spent[0] \in Nat /\ s.spent[1] \in Nat
      /\ s.spent[q] \in Nat /\ s.spent[1 - q] \in Nat
      /\ s.minNoLimitRaiseTo \in Nat /\ ante \in Nat \ {0}
  BY <1>2, StateFields, TheGame DEF InHand, Sound
<1>4. s.spent[1 - q] = m
  BY <1>2 DEF InHand, Raised, Unraised, Matched
<1>5. raiseIsValid(game, s) /\ size \in MinRaise(game, s)..MaxRaise(game, s)
  BY TheGame DEF isValidAction
<1>6. m < stack
  <2>1. SUFFICES ASSUME ~(m < stack) PROVE FALSE
    OBVIOUS
  <2>2. ActingPlayers(game, s) = {q}
    <3>1. s.spent[1 - q] >= stack
      BY <1>3, <1>4, <2>1
    <3>2. ~s.playerFolded[0] /\ ~s.playerFolded[1] /\ s.spent[q] < stack
      BY DEF InHand
    <3>3. QED
      BY <1>2, <1>3, <3>1, <3>2, WhoCanAct
  <2>3. numActingPlayers(game, s) = 1
    BY <2>2, PairCounts DEF numActingPlayers
  <2>4. QED
    BY <2>3, <1>5 DEF raiseIsValid
<1>7. /\ MinRaise(game, s) = IF s.minNoLimitRaiseTo > stack THEN stack ELSE s.minNoLimitRaiseTo
      /\ MaxRaise(game, s) = stack
  BY <1>2, TheGame DEF MinRaise, MaxRaise
<1>8. size \in Nat /\ m < size /\ size <= stack
  <2>1. m < MinRaise(game, s) /\ MinRaise(game, s) \in Nat
    BY <1>5, RaiseRange, TheGame DEF InHand
  <2>2. QED
    BY <1>3, <1>5, <1>7, <2>1
<1>9. /\ t.spent = [s.spent EXCEPT ![q] = size] /\ t.maxSpent = size
      /\ t.minNoLimitRaiseTo = NextMinRaiseTo(game, s, action)
      /\ t.round = s.round /\ ~t.finished
  BY <1>1, <1>2, TheGame DEF Moved, MovesChips, RaisedTo
<1>10. t.spent[q] = size /\ t.spent[1 - q] = m
  BY <1>2, <1>3, <1>4, <1>9
<1>11. ~t.playerFolded[0] /\ ~t.playerFolded[1] /\ ~OnlyOneLeft(game, t)
  BY <1>1, NobodyFolds
<1>12. ActingPlayers(game, s) = {0, 1}
  BY <1>2, <1>3, <1>4, <1>6, WhoCanAct DEF InHand
<1>13. ~BettingClosed(game, t)
  <2>1. AllIn(game, t, q) <=> ~(size < stack)
    <3>1. game.stack[q] = stack
      BY <1>2, TheGame
    <3>2. size >= stack <=> ~(size < stack)
      BY <1>3, <1>8
    <3>3. AllIn(game, t, q) <=> size >= stack
      BY <1>10, <3>1, Zenon DEF AllIn
    <3>4. QED
      BY <3>2, <3>3, Zenon
  <2>2. CASE size < stack
    <3>1. ActingPlayers(game, t) = {0, 1} /\ Callers(game, t) = {n + 1}
      BY <1>1, <1>2, <1>12, <2>1, <2>2 DEF Moved, MovesCallers
    <3>2. numCalled(game, t) = 1
      BY <3>1, PairCounts DEF numCalled
    <3>3. numActingPlayers(game, t) = 2
      BY <3>1, PairCounts DEF numActingPlayers
    <3>4. QED
      BY <3>2, <3>3 DEF BettingClosed
  <2>3. CASE ~(size < stack)
    <3>1. ActingPlayers(game, t) = {0, 1} \ {q} /\ Callers(game, t) = {}
      BY <1>1, <1>2, <1>12, <2>1, <2>3 DEF Moved, MovesCallers
    <3>2. ActingPlayers(game, t) = {1 - q}
      BY <1>2, <3>1
    <3>3. numCalled(game, t) = 0
      BY <3>1, PairCounts DEF numCalled
    <3>4. numActingPlayers(game, t) = 1
      BY <3>2, PairCounts DEF numActingPlayers
    <3>5. QED
      BY <3>3, <3>4 DEF BettingClosed
  <2>4. QED
    BY <2>2, <2>3
<1>14. doAction(game, s, action) = t
  BY <1>11, <1>13, StaysOpen DEF doAction
<1>15. CurrentActions(t) = Append(acts, Entry(action, q))
  BY <1>1 DEF Moved
<1>16. /\ Len(CurrentActions(t)) = n + 1 /\ CurrentActions(t) # << >>
       /\ CurrentActions(t)[n + 1] = Entry(action, q)
  <2>1. acts \in Seq(ActionType(game))
    BY StateFields DEF InHand, Sound
  <2>2. QED
    BY <2>1, <1>15, <1>3
<1>17. Entry(action, q).type = "raise" /\ Entry(action, q).size = size
       /\ Entry(action, q).player = q
  BY DEF Entry
<1>18. 1 - (1 - q) = q
  BY <1>2
<1>19. Raised(t, 1 - q)
  <2>1. /\ CurrentActions(t)[Len(CurrentActions(t))].type = "raise"
        /\ CurrentActions(t)[Len(CurrentActions(t))].size = t.maxSpent
    BY <1>9, <1>16, <1>17, Zenon
  <2>2. t.spent[1 - (1 - q)] = t.maxSpent
    BY <1>9, <1>10, <1>18, Zenon
  <2>3. t.spent[1 - q] < t.maxSpent
    BY <1>8, <1>9, <1>10, Zenon
  <2>4. QED
    BY <1>16, <2>1, <2>2, <2>3, Zenon DEF Raised
<1>19a. s.spent[q] <= m
  <2>1. CASE Unraised(s)
    <3>1. s.spent[0] = m /\ s.spent[1] = m
      BY <2>1, Zenon DEF Unraised, Matched
    <3>2. QED
      BY <1>2, <1>3, <3>1
  <2>2. CASE Raised(s, q)
    <3>1. s.spent[q] < m
      BY <2>2 DEF Raised
    <3>2. QED
      BY <1>3, <3>1
  <2>3. QED
    BY <2>1, <2>2, Zenon DEF InHand
<1>20. ante <= m
  <2>1. ante <= s.spent[q]
    BY Zenon DEF InHand
  <2>2. QED
    BY <1>3, <1>19a, <2>1
<1>21. ASSUME size < stack
       PROVE  /\ (n + 1) * ante <= size
              /\ t.minNoLimitRaiseTo = size + RaiseBy(t, 1 - q)
  <2>1. size >= s.minNoLimitRaiseTo
    BY <1>3, <1>5, <1>7, <1>8, <1>21
  <2>2. n * ante <= m /\ s.minNoLimitRaiseTo = m + RaiseBy(s, q)
    BY <1>6 DEF InHand
  <2>3. s.spent[q] <= m
    BY <1>19a
  <2>4. RaiseBy(s, q) = IF m - s.spent[q] > ante THEN m - s.spent[q] ELSE ante
    BY DEF RaiseBy
  <2>5. RaiseBy(t, 1 - q) = IF size - m > ante THEN size - m ELSE ante
    BY <1>9, <1>10 DEF RaiseBy
  <2>6. t.minNoLimitRaiseTo =
          IF 2 * size - m > s.minNoLimitRaiseTo THEN 2 * size - m ELSE s.minNoLimitRaiseTo
    BY <1>9, TheGame DEF NextMinRaiseTo
  <2> HIDE DEF n, m, size, t
  <2>7. PICK low \in Nat : low = s.spent[q]
    BY <1>3
  <2>8. PICK least \in Nat : least = s.minNoLimitRaiseTo
    BY <1>3
  <2>9. PICK by : by = RaiseBy(s, q)
    OBVIOUS
  <2>10. /\ low <= m /\ m < size /\ n * ante <= m
         /\ by = (IF m - low > ante THEN m - low ELSE ante)
         /\ least = m + by /\ size >= least
    BY <1>8, <2>1, <2>2, <2>3, <2>4, <2>7, <2>8, <2>9
  <2>11. /\ (n + 1) * ante <= size
         /\ (IF 2 * size - m > least THEN 2 * size - m ELSE least)
              = size + (IF size - m > ante THEN size - m ELSE ante)
    BY <1>3, <1>8, <2>10, NextMinimum
  <2>12. QED
    BY <2>5, <2>6, <2>8, <2>11
<1>22. (n + 1) % 2 = 1 - q
  <2>1. n % 2 = q
    BY DEF InHand
  <2>2. QED
    BY <2>1, <1>2, <1>3
<1>23. InHand(t, 1 - q)
  BY <1>1, <1>2, <1>3, <1>6, <1>9, <1>10, <1>11, <1>14, <1>16, <1>17, <1>18, <1>19,
     <1>20, <1>21, <1>22 DEF InHand
<1>24. t.action = Extended(s, action, q)
  BY <1>1 DEF Moved
<1>25. QED
  BY <1>8, <1>9, <1>14, <1>15, <1>19, <1>23, <1>24 DEF RaisePasses

(* A hand begins with the small blind to act, on level bets.               *)
LEMMA NewHandBegins ==
  /\ InHand(initState(game), 0) /\ Matched(initState(game))
  /\ initState(game).round = 0 /\ CurrentActions(initState(game)) = << >>
  /\ initState(game).action[0] = << >> /\ initState(game).action[1] = << >>
  /\ initState(game).spent[0] = ante /\ initState(game).spent[1] = ante
  /\ initState(game).maxSpent = ante
<1> DEFINE s == initState(game)
<1>1. Sound(game, s)
  <2>1. 0 \in Players(game) /\ game.blind[0] < game.stack[0]
    BY TheGame
  <2>2. QED
    BY <2>1, TheGame, NewHandIsSound
<1>2. /\ s.round = 0 /\ ~s.finished /\ s.spent = game.blind /\ s.maxSpent = ante
      /\ s.playerFolded = [p \in {0, 1} |-> FALSE]
      /\ s.action = [r \in {0, 1} |-> << >>]
  BY TheGame DEF initState
<1>3. s.minNoLimitRaiseTo = 2 * ante
  <2>1. s.minNoLimitRaiseTo = IF game.bettingType # "nolimit" THEN 0
                             ELSE IF ante > 0 THEN 2 * ante ELSE 1
    BY TheGame DEF initState
  <2>2. QED
    BY <2>1, TheGame
<1> HIDE DEF s
<1>4. /\ CurrentActions(s) = << >> /\ s.action[0] = << >> /\ s.action[1] = << >>
      /\ s.spent[0] = ante /\ s.spent[1] = ante
      /\ ~s.playerFolded[0] /\ ~s.playerFolded[1]
  BY <1>2, TheGame DEF CurrentActions
<1>5. Matched(s) /\ Unraised(s)
  BY <1>2, <1>4 DEF Matched, Unraised
<1>6. RaiseBy(s, 0) = ante /\ ante + ante = 2 * ante
  BY <1>2, <1>4, TheGame DEF RaiseBy
<1>7. Len(CurrentActions(s)) = 0 /\ 0 % 2 = 0 /\ 0 * ante <= ante
  BY <1>4, TheGame
<1>8. InHand(s, 0)
  BY <1>1, <1>2, <1>3, <1>4, <1>5, <1>6, <1>7, TheGame DEF InHand
<1>9. QED
  BY <1>2, <1>4, <1>5, <1>8 DEF s

-----------------------------------------------------------------------------
(* What the parser makes of the actions of a hand.                         *)

Heard == [type : ActionTypes, size : Int, player : {1, 2}, street : {1, 2}]

AllOf(s) ==
  ActionsOn(1, ActionsOf(s.action[0])) \o ActionsOn(2, ActionsOf(s.action[1]))

HeardOn(street, i, action) ==
  [type |-> action.type, size |-> action.size,
   player |-> IF i % 2 = 1 THEN P1 ELSE P2, street |-> street]

IsHeard(street, acts, heard) ==
  /\ heard \in Seq(Heard) /\ Len(heard) = Len(acts)
  /\ DOMAIN heard = 1..Len(acts)
  /\ \A i \in 1..Len(acts) : heard[i] = HeardOn(street, i, acts[i])

LEMMA HeardInTurn ==
  ASSUME NEW street \in {1, 2}, NEW acts \in Seq(ActionType(game))
  PROVE  IsHeard(street, acts, ActionsOn(street, ActionsOf(acts)))
<1> DEFINE heard == ActionsOn(street, ActionsOf(acts))
<1>1. PICK n \in Nat : n = Len(acts)
  BY LenProperties
<1>2. DOMAIN acts = 1..n /\ \A i \in 1..n : acts[i] \in ActionType(game)
  BY <1>1
<1>3. heard = [i \in 1..n |-> HeardOn(street, i, acts[i])]
  BY <1>2 DEF ActionsOn, ActionsOf, HeardOn
<1>4. ASSUME NEW i \in 1..n PROVE HeardOn(street, i, acts[i]) \in Heard
  <2>1. acts[i].type \in ActionTypes /\ acts[i].size \in Int
    BY <1>2 DEF ActionType
  <2>2. QED
    BY <2>1 DEF HeardOn, Heard, P1, P2
<1>5. heard \in [1..n -> Heard]
  BY <1>3, <1>4
<1>6. heard \in Seq(Heard) /\ Len(heard) = n /\ DOMAIN heard = 1..n
  BY <1>5, SeqDef, LenProperties
<1>7. QED
  BY <1>1, <1>3, <1>6 DEF IsHeard

LEMMA HeardLonger ==
  ASSUME NEW street \in {1, 2}, NEW acts \in Seq(ActionType(game)),
         NEW action \in AskedActions, NEW q \in {0, 1}
  PROVE  ActionsOn(street, ActionsOf(Append(acts, Entry(action, q))))
           = Append(ActionsOn(street, ActionsOf(acts)),
                    HeardOn(street, Len(acts) + 1, action))
<1> DEFINE e == Entry(action, q)
           old == ActionsOn(street, ActionsOf(acts))
           new == ActionsOn(street, ActionsOf(Append(acts, e)))
           h == HeardOn(street, Len(acts) + 1, action)
<1>1. e \in ActionType(game)
  BY TheGame DEF Entry, ActionType, AskedActions
<1>2. PICK n \in Nat : n = Len(acts)
  BY LenProperties
<1>3. PICK more : more = Append(acts, e)
  OBVIOUS
<1>4. /\ more \in Seq(ActionType(game)) /\ Len(more) = n + 1
      /\ \A i \in 1..n : more[i] = acts[i]
      /\ more[n + 1] = e
  BY <1>1, <1>2, <1>3, AppendProperties
<1>5. /\ new \in Seq(Heard) /\ Len(new) = n + 1
      /\ \A i \in 1..n + 1 : new[i] = HeardOn(street, i, more[i])
  <2>1. IsHeard(street, more, new)
    BY <1>3, <1>4, HeardInTurn
  <2>2. QED
    BY <1>4, <2>1 DEF IsHeard
<1>6. /\ old \in Seq(Heard) /\ Len(old) = n
      /\ \A i \in 1..n : old[i] = HeardOn(street, i, acts[i])
  <2>1. IsHeard(street, acts, old)
    BY HeardInTurn
  <2>2. QED
    BY <1>2, <2>1 DEF IsHeard
<1>7. HeardOn(street, n + 1, e) = h
  BY <1>2 DEF HeardOn, Entry
<1>8. new[n + 1] = h
  BY <1>4, <1>5, <1>7
<1>9. h \in Heard
  <2>1. new[n + 1] \in Heard
    BY <1>5
  <2>2. QED
    BY <2>1, <1>8
<1> HIDE DEF e, old, new, h
<1>10. \A i \in 1..n : new[i] = old[i]
  BY <1>4, <1>5, <1>6
<1>11. PICK long : long = Append(old, h)
  OBVIOUS
<1>12. /\ long \in Seq(Heard) /\ Len(long) = n + 1
       /\ \A i \in 1..n : long[i] = old[i]
       /\ long[n + 1] = h
  BY <1>6, <1>9, <1>11, AppendProperties
<1>13. \A i \in 1..n + 1 : new[i] = long[i]
  BY <1>8, <1>10, <1>12
<1>14. new = long
  BY <1>5, <1>12, <1>13, SeqEqual
<1>15. QED
  BY <1>11, <1>14 DEF new, old, h, e

LEMMA NothingHeard ==
  ASSUME NEW street
  PROVE  ActionsOn(street, ActionsOf(<< >>)) = << >>
<1>1. ActionsOf(<< >>) = << >>
  BY DEF ActionsOf
<1>2. QED
  BY <1>1 DEF ActionsOn

(* Both streets, in the order they were played.                            *)
LEMMA AllIsHeard ==
  ASSUME NEW s, WellFormed(game, s)
  PROVE  /\ AllOf(s) \in Seq(Heard)
         /\ Len(AllOf(s)) = Len(s.action[0]) + Len(s.action[1])
         /\ Len(AllOf(s)) \in Nat /\ Len(s.action[0]) \in Nat /\ Len(s.action[1]) \in Nat
         /\ AllOf(s) = << >> <=> s.action[0] = << >> /\ s.action[1] = << >>
         /\ CurrentActions(s) # << >> =>
              AllOf(s)[Len(AllOf(s))] =
                HeardOn(s.round + 1, Len(CurrentActions(s)),
                        CurrentActions(s)[Len(CurrentActions(s))])
         /\ s.round = 1 /\ s.action[1] = << >> /\ s.action[0] # << >> =>
              AllOf(s)[Len(AllOf(s))] =
                HeardOn(1, Len(s.action[0]), s.action[0][Len(s.action[0])])
<1>1. PICK a, b : a = s.action[0] /\ b = s.action[1]
  OBVIOUS
<1>2. a \in Seq(ActionType(game)) /\ b \in Seq(ActionType(game))
  BY <1>1, StateFields
<1>3. PICK x, y : /\ x = ActionsOn(1, ActionsOf(a))
                  /\ y = ActionsOn(2, ActionsOf(b))
  OBVIOUS
<1>4. /\ x \in Seq(Heard) /\ Len(x) = Len(a)
      /\ \A i \in 1..Len(a) : x[i] = HeardOn(1, i, a[i])
  <2>1. IsHeard(1, a, x)
    BY <1>2, <1>3, HeardInTurn
  <2>2. QED
    BY <2>1, Zenon DEF IsHeard
<1>5. /\ y \in Seq(Heard) /\ Len(y) = Len(b)
      /\ \A i \in 1..Len(b) : y[i] = HeardOn(2, i, b[i])
  <2>1. IsHeard(2, b, y)
    BY <1>2, <1>3, HeardInTurn
  <2>2. QED
    BY <2>1, Zenon DEF IsHeard
<1>6. PICK n \in Nat, k \in Nat : n = Len(a) /\ k = Len(b)
  BY <1>2, LenProperties
<1>7. PICK all : all = AllOf(s)
  OBVIOUS
<1>8. all = x \o y
  BY <1>1, <1>3, <1>7 DEF AllOf
<1>9. /\ all \in Seq(Heard) /\ Len(all) = n + k
      /\ \A i \in 1..n + k : all[i] = IF i <= n THEN x[i] ELSE y[i - n]
  <2>1. Len(x) = n /\ Len(y) = k
    BY <1>4, <1>5, <1>6
  <2>2. /\ x \o y \in Seq(Heard)
        /\ Len(x \o y) = Len(x) + Len(y)
        /\ \A i \in 1 .. Len(x) + Len(y) :
             (x \o y)[i] = IF i <= Len(x) THEN x[i] ELSE y[i - Len(x)]
    <3>1. x \in Seq(Heard) /\ y \in Seq(Heard)
      BY <1>4, <1>5
    <3>2. QED
      BY <3>1, ConcatProperties
  <2>3. QED
    BY <2>1, <2>2, <1>8
<1>10. all = << >> <=> a = << >> /\ b = << >>
  <2>1. all = << >> <=> n + k = 0
    BY <1>9, EmptySeq
  <2>2. (a = << >> <=> n = 0) /\ (b = << >> <=> k = 0)
    BY <1>2, <1>6, EmptySeq
  <2>3. QED
    BY <2>1, <2>2, <1>6
<1>11. ASSUME b # << >>
       PROVE  all[n + k] = HeardOn(2, k, b[k])
  <2>1. k > 0
    BY <1>2, <1>6, <1>11, EmptySeq
  <2>2. all[n + k] = y[n + k - n]
    <3>1. n + k \in 1..n + k /\ ~(n + k <= n)
      BY <2>1
    <3>2. QED
      BY <3>1, <1>9
  <2>3. n + k - n = k
    BY <1>6
  <2>4. QED
    BY <2>1, <2>2, <2>3, <1>5, <1>6
<1>12. ASSUME a # << >>, b = << >>
       PROVE  all[n + k] = HeardOn(1, n, a[n])
  <2>1. n > 0 /\ k = 0
    BY <1>2, <1>6, <1>12, EmptySeq
  <2>2. all[n] = x[n] /\ n + k = n
    BY <2>1, <1>6, <1>9
  <2>3. QED
    BY <2>1, <2>2, <1>4, <1>6
<1>13. s.round \in {0, 1} /\ (s.round = 0 => b = << >>)
  BY <1>1, StateFields
<1>14. ASSUME CurrentActions(s) # << >>
       PROVE  all[n + k] = HeardOn(s.round + 1, Len(CurrentActions(s)),
                                   CurrentActions(s)[Len(CurrentActions(s))])
  <2>1. CASE s.round = 0
    <3>1. CurrentActions(s) = a /\ s.round + 1 = 1
      BY <2>1, <1>1 DEF CurrentActions
    <3>2. b = << >>
      BY <2>1, <1>13
    <3>3. QED
      BY <3>1, <3>2, <1>6, <1>12, <1>14
  <2>2. CASE s.round = 1
    <3>1. CurrentActions(s) = b /\ s.round + 1 = 2
      BY <2>2, <1>1 DEF CurrentActions
    <3>2. QED
      BY <3>1, <1>6, <1>11, <1>14
  <2>3. QED
    BY <2>1, <2>2, <1>13
<1>15. AllOf(s) \in Seq(Heard) /\ Len(AllOf(s)) = n + k
  BY <1>7, <1>9
<1>16. AllOf(s) = << >> <=> s.action[0] = << >> /\ s.action[1] = << >>
  BY <1>1, <1>7, <1>10
<1>17. CurrentActions(s) # << >> =>
         AllOf(s)[Len(AllOf(s))] =
           HeardOn(s.round + 1, Len(CurrentActions(s)),
                   CurrentActions(s)[Len(CurrentActions(s))])
  BY <1>7, <1>14, <1>15
<1>18. s.round = 1 /\ s.action[1] = << >> /\ s.action[0] # << >> =>
         AllOf(s)[Len(AllOf(s))] =
           HeardOn(1, Len(s.action[0]), s.action[0][Len(s.action[0])])
  BY <1>1, <1>6, <1>7, <1>12, <1>15
<1>19. Len(s.action[0]) = n /\ Len(s.action[1]) = k
  BY <1>1, <1>6
<1>20. QED
  BY <1>6, <1>15, <1>16, <1>17, <1>18, <1>19

(* A new action is heard after all others.                                 *)
LEMMA NextIsHeard ==
  ASSUME NEW s, WellFormed(game, s), NEW action \in AskedActions, NEW q \in {0, 1},
         NEW after, after.action = Extended(s, action, q)
  PROVE  AllOf(after) =
           Append(AllOf(s), HeardOn(s.round + 1, Len(CurrentActions(s)) + 1, action))
<1>1. PICK a, b : a = s.action[0] /\ b = s.action[1]
  OBVIOUS
<1>2. a \in Seq(ActionType(game)) /\ b \in Seq(ActionType(game))
  BY <1>1, StateFields
<1>3. s.action \in [{0, 1} -> Seq(ActionType(game))] /\ s.round \in {0, 1}
  BY StateFields
<1>4. PICK x, y : /\ x = ActionsOn(1, ActionsOf(a))
                  /\ y = ActionsOn(2, ActionsOf(b))
  OBVIOUS
<1>5. x \in Seq(Heard) /\ y \in Seq(Heard) /\ AllOf(s) = x \o y
  <2>1. IsHeard(1, a, x) /\ IsHeard(2, b, y)
    BY <1>2, <1>4, HeardInTurn
  <2>2. QED
    BY <1>1, <1>4, <2>1 DEF AllOf, IsHeard
<1>6. CASE s.round = 0
  <2>1. after.action[0] = Append(a, Entry(action, q)) /\ after.action[1] = b
    BY <1>1, <1>3, <1>6 DEF Extended
  <2>2. CurrentActions(s) = a /\ s.round + 1 = 1
    BY <1>1, <1>6 DEF CurrentActions
  <2>3. b = << >>
    BY <1>1, <1>6, StateFields
  <2>4. y = << >>
    BY <1>4, <2>3, NothingHeard
  <2>5. ActionsOn(1, ActionsOf(Append(a, Entry(action, q))))
          = Append(x, HeardOn(1, Len(a) + 1, action))
    BY <1>2, <1>4, HeardLonger
  <2>6. AllOf(after) = Append(x, HeardOn(1, Len(a) + 1, action)) \o << >>
    BY <2>1, <2>4, <2>5, <1>4 DEF AllOf
  <2>7. x \o << >> = x
    BY <1>5, ConcatEmptySeq
  <2>8. HeardOn(1, Len(a) + 1, action) \in Heard
    BY DEF HeardOn, Heard, AskedActions, P1, P2
  <2>9. Append(x, HeardOn(1, Len(a) + 1, action)) \in Seq(Heard)
    BY <1>5, <2>8, AppendProperties
  <2>10. Append(x, HeardOn(1, Len(a) + 1, action)) \o << >>
           = Append(x, HeardOn(1, Len(a) + 1, action))
    BY <2>9, ConcatEmptySeq
  <2>11. QED
    BY <1>5, <2>2, <2>4, <2>6, <2>7, <2>10
<1>7. CASE s.round = 1
  <2>1. after.action[0] = a /\ after.action[1] = Append(b, Entry(action, q))
    BY <1>1, <1>3, <1>7 DEF Extended
  <2>2. CurrentActions(s) = b /\ s.round + 1 = 2
    BY <1>1, <1>7 DEF CurrentActions
  <2>3. ActionsOn(2, ActionsOf(Append(b, Entry(action, q))))
          = Append(y, HeardOn(2, Len(b) + 1, action))
    BY <1>2, <1>4, HeardLonger
  <2>4. AllOf(after) = x \o Append(y, HeardOn(2, Len(b) + 1, action))
    BY <2>1, <2>3, <1>4 DEF AllOf
  <2>5. HeardOn(2, Len(b) + 1, action) \in Heard
    BY DEF HeardOn, Heard, AskedActions, P1, P2
  <2>6. AllOf(after) = Append(x \o y, HeardOn(2, Len(b) + 1, action))
    BY <2>4, <2>5, <1>5, AppendToTheEnd
  <2>7. QED
    BY <1>5, <2>2, <2>6
<1>8. QED
  BY <1>3, <1>6, <1>7

(* The last raise before an action, and with it.                           *)
LEMMA LastRaiseSteps ==
  ASSUME NEW all \in Seq(Heard), NEW n \in 1..Len(all)
  PROVE  LastRaise(all, n) = IF all[n].type = "raise" THEN all[n]
                             ELSE LastRaise(all, n - 1)
<1> DEFINE Raises(k) == {i \in 1..k : all[i].type = "raise"}
<1>1. n \in Nat \ {0} /\ 1..n = 1..n - 1 \cup {n}
  BY LenProperties
<1>2. CASE all[n].type = "raise"
  <2>1. n \in Raises(n) /\ Raises(n) # {} /\ Raises(n) \subseteq 1..n
    BY <1>1, <1>2
  <2>2. Raises(n) \subseteq Nat /\ \A x \in Raises(n) : x <= n
    BY <1>1, <2>1
  <2> HIDE DEF Raises
  <2>3. Max(Raises(n)) \in Raises(n) /\ \A x \in Raises(n) : x <= Max(Raises(n))
    BY <1>1, <2>1, <2>2, MaxOfNats
  <2>4. Max(Raises(n)) = n
    BY <2>1, <2>2, <2>3, <1>1
  <2>5. LastRaise(all, n) = IF Raises(n) = {} THEN Ante(P2, 2) ELSE all[Max(Raises(n))]
    BY DEF LastRaise, Raises
  <2>6. QED
    BY <2>1, <2>4, <2>5, <1>2
<1>3. CASE all[n].type # "raise"
  <2>1. Raises(n) = Raises(n - 1)
    BY <1>1, <1>3
  <2>2. QED
    BY <2>1, <1>3 DEF LastRaise
<1>4. QED
  BY <1>2, <1>3

LEMMA NoRaiseYet ==
  ASSUME NEW all, NEW n \in Int, n <= 0
  PROVE  LastRaise(all, n) = Ante(P2, 2) /\ LastRaise(all, n).size = ante
<1>1. {i \in 1..n : all[i].type = "raise"} = {}
  OBVIOUS
<1>2. LastRaise(all, n) = Ante(P2, 2)
  BY <1>1 DEF LastRaise
<1>3. QED
  BY <1>2 DEF Ante

LEMMA LastRaiseStays ==
  ASSUME NEW all \in Seq(Heard), NEW e \in Heard, NEW n \in 0..Len(all)
  PROVE  LastRaise(Append(all, e), n) = LastRaise(all, n)
<1>1. \A i \in 1..n : Append(all, e)[i] = all[i]
  BY AppendProperties, LenProperties
<1>2. {i \in 1..n : Append(all, e)[i].type = "raise"} = {i \in 1..n : all[i].type = "raise"}
  BY <1>1
<1>3. PICK raises : raises = {i \in 1..n : all[i].type = "raise"}
  OBVIOUS
<1>4. CASE raises = {}
  BY <1>2, <1>3, <1>4 DEF LastRaise
<1>5. CASE raises # {}
  <2>1. raises \subseteq Nat /\ \A x \in raises : x <= n
    BY <1>3
  <2>2. n \in Nat
    BY LenProperties
  <2>3. Max(raises) \in raises
    BY <2>1, <2>2, <1>5, MaxOfNats
  <2>4. Append(all, e)[Max(raises)] = all[Max(raises)]
    BY <1>1, <1>3, <2>3
  <2>5. LastRaise(all, n) = all[Max(raises)]
    BY <1>3, <1>5 DEF LastRaise
  <2>6. LastRaise(Append(all, e), n) = Append(all, e)[Max(raises)]
    BY <1>2, <1>3, <1>5 DEF LastRaise
  <2>7. QED
    BY <2>4, <2>5, <2>6
<1>6. QED
  BY <1>4, <1>5

(* What is known of the actions heard while the hand goes on: nobody       *)
(* folded, the first street ended with a call, and the last raises, or the *)
(* antes, are what the players have put in.                                *)
Told(s, q) ==
  LET all == AllOf(s)
  IN  /\ \A i \in 1..Len(all) : all[i].type # "fold"
      /\ s.round = 1 =>
           s.action[0] # << >> /\ s.action[0][Len(s.action[0])].type = "call"
      /\ LastRaise(all, Len(all)).size = s.maxSpent
      /\ Raised(s, q) => LastRaise(all, Len(all) - 1).size = s.spent[q]

(* The bet of the player to act is the last raise before the last action.  *)
LEMMA FirstBet ==
  ASSUME NEW all \in Seq(Heard), all # << >>
  PROVE  LET n == Len(all)
             before == IF n >= 2 THEN all[n - 1]
                       ELSE IF n = 1 THEN Ante(P1, 1) ELSE Ante(P2, 2)
         IN  /\ n \in Nat /\ n >= 1
             /\ LastRaise(all, n - 1).size =
                  IF before.type = "raise" THEN before.size ELSE LastRaise(all, n - 2).size
             /\ (\A i \in 1..n : all[i].type # "fold") => before.type \in {"raise", "call"}
<1>1. PICK n \in Nat : n = Len(all)
  BY LenProperties
<1>2. n >= 1
  BY <1>1, EmptySeq
<1>3. CASE n = 1
  <2>1. LastRaise(all, n - 1).size = ante
    BY <1>3, NoRaiseYet
  <2>2. Ante(P1, 1).type = "raise" /\ Ante(P1, 1).size = ante
    BY DEF Ante
  <2>3. QED
    BY <1>1, <1>2, <1>3, <2>1, <2>2
<1>4. CASE n >= 2
  <2>1. n - 1 \in 1..Len(all) /\ (n - 1) - 1 = n - 2
    BY <1>1, <1>4
  <2>2. LastRaise(all, n - 1) = IF all[n - 1].type = "raise" THEN all[n - 1]
                                ELSE LastRaise(all, n - 2)
    BY <2>1, LastRaiseSteps
  <2>3. all[n - 1] \in Heard
    BY <2>1, ElementOfSeq
  <2>4. all[n - 1].type \in {"fold", "call", "raise"}
    BY <2>3 DEF Heard, ActionTypes
  <2>5. QED
    BY <1>1, <1>2, <1>4, <2>1, <2>2, <2>4
<1>5. QED
  BY <1>2, <1>3, <1>4

LEMMA MessageIsHeard ==
  ASSUME NEW s, WellFormed(game, s), NEW seat, NEW number, NEW msg,
         msg = Message(s, seat, number)
  PROVE  /\ all_actions(msg) = AllOf(s)
         /\ Len(msg.actions[2]) = Len(s.action[1])
         /\ current_street(msg) = s.round + 1
         /\ msg.position = seat /\ msg.hand_id = number
<1>1. msg.actions[1] = ActionsOf(s.action[0]) /\ msg.actions[2] = ActionsOf(s.action[1])
      /\ msg.board = (s.round = 1) /\ msg.position = seat /\ msg.hand_id = number
  BY DEF Message
<1>2. all_actions(msg) = AllOf(s)
  BY <1>1 DEF all_actions, AllOf
<1>3. Len(msg.actions[2]) = Len(s.action[1])
  <2>1. PICK n \in Nat : n = Len(s.action[1]) /\ DOMAIN s.action[1] = 1..n
    BY StateFields, LenProperties
  <2>2. ActionsOf(s.action[1]) = [i \in 1..n |-> [type |-> s.action[1][i].type,
                                                  size |-> s.action[1][i].size]]
    BY <2>1 DEF ActionsOf
  <2>3. QED
    BY <1>1, <2>1, <2>2
<1>4. current_street(msg) = s.round + 1
  <2>1. s.round \in {0, 1}
    BY StateFields
  <2>2. msg.board <=> s.round = 1
    BY <1>1
  <2>3. current_street(msg) = IF s.round = 1 THEN 2 ELSE 1
    BY <2>2 DEF current_street
  <2>4. QED
    BY <2>1, <2>3
<1>5. QED
  BY <1>1, <1>2, <1>3, <1>4

(* Whose turn it is, as the parser finds it.                               *)
LEMMA ActorIsFound ==
  ASSUME NEW s, NEW q, InHand(s, q), Told(s, q), NEW seat, NEW number, NEW msg,
         msg = Message(s, seat, number)
  PROVE  get_acting_player(msg) = q + 1
<1>1. WellFormed(game, s) /\ q \in {0, 1}
  BY DEF InHand, Sound
<1>2. PICK all : all = AllOf(s)
  OBVIOUS
<1>3. /\ all_actions(msg) = all /\ current_street(msg) = s.round + 1
      /\ Len(msg.actions[2]) = Len(s.action[1])
  BY <1>1, <1>2, MessageIsHeard
<1>4. all \in Seq(Heard) /\ s.round \in {0, 1}
  BY <1>1, <1>2, AllIsHeard, StateFields
<1>5. PICK acts : acts = CurrentActions(s)
  OBVIOUS
<1>6. acts \in Seq(ActionType(game))
  BY <1>1, <1>5, StateFields
<1>7. PICK n \in Nat : n = Len(acts)
  BY <1>6, LenProperties
<1>8. CASE acts = << >>
  <2>1. q = 0
    BY <1>5, <1>8 DEF InHand
  <2>2. CASE s.round = 0
    <3>1. s.action[0] = << >> /\ s.action[1] = << >>
      BY <1>1, <1>5, <1>8, <2>2, StateFields DEF CurrentActions
    <3>2. all = << >>
      BY <1>1, <1>2, <3>1, AllIsHeard
    <3>3. get_acting_player(msg) = P1
      BY <1>3, <3>2 DEF get_acting_player
    <3>4. QED
      BY <2>1, <3>3 DEF P1
  <2>3. CASE s.round = 1
    <3>1. s.action[1] = << >> /\ s.action[0] # << >>
      BY <1>5, <1>8, <2>3 DEF CurrentActions, Told
    <3>2. all[Len(all)] = HeardOn(1, Len(s.action[0]), s.action[0][Len(s.action[0])])
      BY <1>1, <1>2, <2>3, <3>1, AllIsHeard
    <3>3. Last(all).street = 1
      BY <3>2 DEF HeardOn, Last
    <3>4. current_street(msg) = 2
      BY <1>3, <2>3
    <3>5. get_acting_player(msg) = P1
      BY <1>3, <3>3, <3>4 DEF get_acting_player
    <3>6. QED
      BY <2>1, <3>5 DEF P1
  <2>4. QED
    BY <1>4, <2>2, <2>3
<1>9. CASE acts # << >>
  <2>1. all[Len(all)] = HeardOn(s.round + 1, n, acts[n])
    BY <1>1, <1>2, <1>5, <1>7, <1>9, AllIsHeard
  <2>2. all # << >>
    <3>1. s.action[0] # << >> \/ s.action[1] # << >>
      BY <1>4, <1>5, <1>9 DEF CurrentActions
    <3>2. QED
      BY <1>1, <1>2, <3>1, AllIsHeard
  <2>3. /\ Last(all).street = s.round + 1
        /\ Last(all).type = acts[n].type
        /\ Last(all).player = IF n % 2 = 1 THEN P1 ELSE P2
    BY <2>1 DEF HeardOn, Last
  <2>4. n % 2 = q
    BY <1>5, <1>7 DEF InHand
  <2>5. n = 1 \/ acts[n].type = "raise"
    BY <1>5, <1>7, <1>9 DEF InHand, Unraised, Raised
  <2>6. acts[n].type # "fold"
    <3>1. CASE Unraised(s)
      BY <1>5, <1>7, <1>9, <3>1 DEF Unraised
    <3>2. CASE Raised(s, q)
      BY <1>5, <1>7, <3>2 DEF Raised
    <3>3. QED
      BY <3>1, <3>2 DEF InHand
  <2>7. ~(/\ current_street(msg) = 2 /\ Len(msg.actions[2]) >= 2
          /\ Last(all).type = "call")
    <3>1. SUFFICES ASSUME current_street(msg) = 2, Len(msg.actions[2]) >= 2,
                          acts[n].type = "call"
                   PROVE  FALSE
      BY <2>3
    <3>2. s.round = 1
      BY <3>1, <1>3, <1>4
    <3>3. acts = s.action[1]
      BY <3>2, <1>5 DEF CurrentActions
    <3>4. n >= 2
      BY <3>1, <3>3, <1>3, <1>7
    <3>5. QED
      BY <3>1, <3>4, <2>5
  <2>8. get_acting_player(msg) = Opponent(Last(all).player)
    BY <1>3, <2>2, <2>3, <2>6, <2>7 DEF get_acting_player
  <2>9. QED
    BY <2>3, <2>4, <2>8, <1>1, <1>7 DEF Opponent, P1, P2
<1>10. QED
  BY <1>8, <1>9

(* What the players have put in, as the parser finds it.                   *)
LEMMA BetsAreFound ==
  ASSUME NEW s, NEW q, InHand(s, q), Told(s, q), NEW seat, NEW number, NEW msg,
         msg = Message(s, seat, number)
  PROVE  /\ compute_bets(msg) = <<s.spent[q], s.spent[1 - q]>>
         /\ s.spent[q] <= s.spent[1 - q]
         /\ ParserAsserts(msg)
<1>1. WellFormed(game, s) /\ q \in {0, 1} /\ 1 - q \in {0, 1}
  BY DEF InHand, Sound
<1>2. PICK all : all = AllOf(s)
  OBVIOUS
<1>3. all_actions(msg) = all /\ current_street(msg) = s.round + 1
  BY <1>1, <1>2, MessageIsHeard
<1>4. all \in Seq(Heard)
  BY <1>1, <1>2, AllIsHeard
<1>5. s.round \in {0, 1} /\ s.maxSpent \in Nat /\ s.spent[q] \in Nat /\ s.spent[1 - q] \in Nat
  BY <1>1, StateFields
<1>6. PICK n \in Nat : n = Len(all)
  BY <1>4, LenProperties
<1>7. get_acting_player(msg) = q + 1
  BY ActorIsFound
<1>8. ~(get_acting_player(msg) = -1)
  BY <1>1, <1>7
<1>9. PICK t : t = LastTwo(msg)
  OBVIOUS
<1>10. /\ t.last = IF n >= 1 THEN all[n] ELSE Ante(P1, 1)
       /\ t.before = IF n >= 2 THEN all[n - 1]
                     ELSE IF n = 1 THEN Ante(P1, 1) ELSE Ante(P2, 2)
       /\ t.raise = LastRaise(all, n - 2)
  BY <1>3, <1>6, <1>9 DEF LastTwo
<1>11. s.spent[1 - q] = s.maxSpent /\ s.spent[q] <= s.maxSpent
  BY <1>1, <1>5 DEF InHand, Unraised, Raised, Matched
<1>12. PICK first : first = IF t.before.type = "raise" THEN t.before.size ELSE t.raise.size
  OBVIOUS
<1>13. compute_bets(msg) = IF t.last.type = "raise" THEN <<first, t.last.size>>
                           ELSE <<first, first>>
  BY <1>8, <1>9, <1>12 DEF compute_bets
<1>14. \A i \in 1..n : all[i].type # "fold"
  BY <1>2, <1>6 DEF Told
<1>15. LastRaise(all, n).size = s.maxSpent
  BY <1>2, <1>6 DEF Told
<1>16. Raised(s, q) => LastRaise(all, n - 1).size = s.spent[q]
  BY <1>2, <1>6 DEF Told
<1>17. Unraised(s) => s.spent[q] = s.maxSpent
  BY <1>1 DEF Unraised, Matched
<1>18. ASSUME n = 0
       PROVE  /\ compute_bets(msg) = <<s.spent[q], s.spent[1 - q]>>
              /\ t.last.type = "raise" /\ t.before.type = "raise"
              /\ s.round = 0
  <2>1. all = << >>
    BY <1>4, <1>6, <1>18, EmptySeq
  <2>2. s.action[0] = << >> /\ s.action[1] = << >>
    BY <1>1, <1>2, <2>1, AllIsHeard
  <2>3. CurrentActions(s) = << >>
    BY <1>5, <2>2 DEF CurrentActions
  <2>4. ~Raised(s, q)
    BY <2>3 DEF Raised
  <2>5. s.spent[q] = s.maxSpent
    BY <2>4, <1>17 DEF InHand
  <2>6. s.maxSpent = ante
    BY <1>15, <1>18, NoRaiseYet
  <2>7. t.last = Ante(P1, 1) /\ t.before = Ante(P2, 2)
    BY <1>10, <1>18
  <2>8. t.last.type = "raise" /\ t.last.size = ante
        /\ t.before.type = "raise" /\ t.before.size = ante
    BY <2>7 DEF Ante
  <2>9. compute_bets(msg) = <<ante, ante>>
    BY <1>12, <1>13, <2>8
  <2>10. s.round = 0
    BY <1>5, <2>2 DEF Told
  <2>11. QED
    BY <2>5, <2>6, <2>8, <2>9, <2>10, <1>11
<1>19. ASSUME n # 0
       PROVE  /\ compute_bets(msg) = <<s.spent[q], s.spent[1 - q]>>
              /\ t.last.type \in {"raise", "call"} /\ t.before.type \in {"raise", "call"}
  <2>1. all # << >> /\ n \in 1..Len(all)
    BY <1>6, <1>19, EmptySeq
  <2>2. first = LastRaise(all, n - 1).size /\ t.before.type \in {"raise", "call"}
    BY <2>1, <1>4, <1>6, <1>10, <1>12, <1>14, FirstBet
  <2>3. t.last = all[n]
    BY <2>1, <1>6, <1>10
  <2>4. all[n] \in Heard
    BY <2>1, <1>4, ElementOfSeq
  <2>5. t.last.type \in {"raise", "call"}
    <3>1. all[n].type \in {"fold", "call", "raise"}
      BY <2>4 DEF Heard, ActionTypes
    <3>2. all[n].type # "fold"
      BY <2>1, <1>6, <1>14
    <3>3. QED
      BY <3>1, <3>2, <2>3
  <2>6. LastRaise(all, n) = IF all[n].type = "raise" THEN all[n] ELSE LastRaise(all, n - 1)
    BY <2>1, <1>4, LastRaiseSteps
  <2>7. all[n].type = "raise" <=> Raised(s, q)
    <3>1. CASE CurrentActions(s) = << >>
      <4>1. ~Raised(s, q)
        BY <3>1 DEF Raised
      <4>2. s.action[0] # << >> \/ s.action[1] # << >>
        BY <2>1, <1>1, <1>2, AllIsHeard
      <4>3. s.round = 1 /\ s.action[1] = << >> /\ s.action[0] # << >>
        BY <3>1, <4>2, <1>1, <1>5, StateFields DEF CurrentActions
      <4>4. all[n] = HeardOn(1, Len(s.action[0]), s.action[0][Len(s.action[0])])
        BY <4>3, <1>1, <1>2, <1>6, AllIsHeard
      <4>5. all[n].type = "call"
        BY <4>3, <4>4 DEF HeardOn, Told
      <4>6. QED
        BY <4>1, <4>5
    <3>2. CASE CurrentActions(s) # << >>
      <4>1. PICK acts : acts = CurrentActions(s)
        OBVIOUS
      <4>2. all[n] = HeardOn(s.round + 1, Len(acts), acts[Len(acts)])
        BY <3>2, <4>1, <1>1, <1>2, <1>6, AllIsHeard
      <4>3. all[n].type = acts[Len(acts)].type
        BY <4>2 DEF HeardOn
      <4>4. CASE Unraised(s)
        <5>1. all[n].type = "call"
          BY <3>2, <4>1, <4>3, <4>4 DEF Unraised
        <5>2. ~Raised(s, q)
          BY <1>5, <1>17, <4>4 DEF Raised
        <5>3. QED
          BY <5>1, <5>2
      <4>5. CASE Raised(s, q)
        BY <4>1, <4>3, <4>5 DEF Raised
      <4>6. QED
        BY <4>4, <4>5 DEF InHand
    <3>3. QED
      BY <3>1, <3>2
  <2>8. CASE Raised(s, q)
    <3>1. first = s.spent[q] /\ t.last.type = "raise" /\ t.last.size = s.maxSpent
      BY <2>2, <2>3, <2>6, <2>7, <2>8, <1>15, <1>16
    <3>2. QED
      BY <3>1, <2>2, <2>5, <1>11, <1>13
  <2>9. CASE ~Raised(s, q)
    <3>1. first = s.maxSpent /\ t.last.type # "raise"
      BY <2>2, <2>3, <2>6, <2>7, <2>9, <1>15
    <3>2. s.spent[q] = s.maxSpent
      BY <2>9, <1>17 DEF InHand
    <3>3. QED
      BY <3>1, <3>2, <2>2, <2>5, <1>11, <1>13
  <2>10. QED
    BY <2>8, <2>9
<1>20. compute_bets(msg) = <<s.spent[q], s.spent[1 - q]>>
  BY <1>18, <1>19
<1>21. t.last.type \in {"raise", "call"} /\ t.before.type \in {"raise", "call"}
  BY <1>18, <1>19
<1>22. compute_bets(msg)[1] <= compute_bets(msg)[2]
  BY <1>11, <1>20
<1>23. all_actions(msg) = << >> => current_street(msg) = 1
  <2>1. SUFFICES ASSUME all = << >> PROVE s.round = 0
    BY <1>3, <1>5
  <2>2. n = 0
    BY <2>1, <1>6
  <2>3. QED
    BY <2>2, <1>18
<1>24. ParserAsserts(msg)
  BY <1>9, <1>21, <1>22, <1>23 DEF ParserAsserts
<1>25. QED
  BY <1>11, <1>20, <1>24

(* A state in which somebody acts is read right.                           *)
LEMMA OpenHandIsRead ==
  ASSUME NEW s, NEW q, InHand(s, q), Told(s, q), NEW seat \in {0, 1}, NEW number, NEW msg,
         msg = Message(s, seat, number), NEW parsed, parsed = parse_state(msg)
  PROVE  /\ ParserAsserts(msg)
         /\ OurTurn(parsed) <=> q = seat
         /\ parsed.position = seat + 1 /\ parsed.hand_number = number
         /\ parsed.current_street = s.round + 1
         /\ q = seat => parsed_state_to_node(parsed) = NodeOf(s)
<1>1. WellFormed(game, s) /\ q \in {0, 1} /\ s.spent[q] < stack
  BY DEF InHand, Sound
<1>2. ParserAsserts(msg) /\ compute_bets(msg) = <<s.spent[q], s.spent[1 - q]>>
  BY BetsAreFound
<1>3. get_acting_player(msg) = q + 1
  BY ActorIsFound
<1>4. msg.position = seat /\ msg.hand_id = number /\ current_street(msg) = s.round + 1
  BY <1>1, MessageIsHeard
<1>5. PICK bets : bets = IF seat + 1 = P1 THEN <<s.spent[q], s.spent[1 - q]>>
                         ELSE <<s.spent[1 - q], s.spent[q]>>
  OBVIOUS
<1>6. /\ parsed.position = seat + 1 /\ parsed.hand_number = number
      /\ parsed.acting_player = q + 1 /\ parsed.current_street = s.round + 1
      /\ parsed.bets = bets
  BY <1>2, <1>3, <1>4, <1>5 DEF parse_state
<1>7. bets # <<stack, stack>>
  <2>1. s.spent[q] # stack
    BY <1>1, StateFields, TheGame
  <2>2. QED
    BY <2>1, <1>5
<1>8. OurTurn(parsed) <=> q = seat
  BY <1>1, <1>6, <1>7 DEF OurTurn
<1>9. ASSUME q = seat
      PROVE  parsed_state_to_node(parsed) = NodeOf(s)
  <2>1. bets = <<s.spent[0], s.spent[1]>>
    BY <1>1, <1>5, <1>9 DEF P1
  <2>2. currentPlayer(game, s) = q
    BY Turn
  <2>3. NodeOf(s) = Node(s.round + 1, q + 1, bets, "inner")
    BY <2>1, <2>2 DEF NodeOf
  <2>4. QED
    BY <2>3, <1>6 DEF parsed_state_to_node
<1>10. QED
  BY <1>2, <1>6, <1>8, <1>9

(* How a hand ends: with a fold, with a call on the last street, or with a *)
(* call of the whole stack on the first.                                   *)
Over(s) ==
  LET acts == CurrentActions(s)
      all  == AllOf(s)
  IN  /\ Sound(game, s) /\ s.finished
      /\ \/ acts # << >> /\ acts[Len(acts)].type = "fold"
         \/ /\ s.round = 1 /\ Len(acts) >= 2 /\ acts[Len(acts)].type = "call"
         \/ /\ s.round = 1 /\ acts = << >>
            /\ s.action[0] # << >> /\ s.action[0][Len(s.action[0])].type = "call"
            /\ \A i \in 1..Len(all) : all[i].type # "fold"
            /\ LastRaise(all, Len(all) - 1).size = stack

(* At the end of a hand nobody is asked to act.                            *)
LEMMA FinishedHandIsRead ==
  ASSUME NEW s, Over(s), NEW seat \in {0, 1}, NEW number, NEW msg,
         msg = Message(s, seat, number), NEW parsed, parsed = parse_state(msg)
  PROVE  ParserAsserts(msg) /\ ~OurTurn(parsed)
<1>1. WellFormed(game, s)
  BY DEF Over, Sound
<1>2. PICK all, acts : all = AllOf(s) /\ acts = CurrentActions(s)
  OBVIOUS
<1>3. /\ all_actions(msg) = all /\ current_street(msg) = s.round + 1
      /\ Len(msg.actions[2]) = Len(s.action[1]) /\ msg.position = seat
  BY <1>1, <1>2, MessageIsHeard
<1>4. all \in Seq(Heard) /\ s.round \in {0, 1}
  BY <1>1, <1>2, AllIsHeard, StateFields
<1>5. all # << >>
  <2>1. s.action[0] # << >> \/ s.action[1] # << >>
    <3>1. Len(<< >>) = 0
      BY EmptySeq
    <3>2. acts # << >> \/ s.action[0] # << >>
      BY <1>2, <3>1 DEF Over
    <3>3. QED
      BY <3>2, <1>2, <1>4 DEF CurrentActions
  <2>2. QED
    BY <2>1, <1>1, <1>2, AllIsHeard
<1>6. acts # << >> => /\ Last(all).street = s.round + 1
                      /\ Last(all).type = acts[Len(acts)].type
  <2>1. SUFFICES ASSUME acts # << >>
                 PROVE  Last(all).street = s.round + 1 /\ Last(all).type = acts[Len(acts)].type
    OBVIOUS
  <2>2. all[Len(all)] = HeardOn(s.round + 1, Len(acts), acts[Len(acts)])
    BY <2>1, <1>1, <1>2, AllIsHeard
  <2>3. QED
    BY <2>2 DEF HeardOn, Last
<1>7. parsed.position = seat + 1 /\ parsed.acting_player = get_acting_player(msg)
  BY <1>3 DEF parse_state
<1>8. PICK nobody \in Int : nobody = -1
  OBVIOUS
<1>9. ASSUME get_acting_player(msg) = nobody
      PROVE  ParserAsserts(msg) /\ ~OurTurn(parsed)
  <2>1. compute_bets(msg) = <<nobody, nobody>>
    BY <1>8, <1>9 DEF compute_bets
  <2>2. ParserAsserts(msg)
    BY <1>3, <1>5, <1>8, <1>9, <2>1 DEF ParserAsserts
  <2>3. ~OurTurn(parsed)
    BY <1>7, <1>8, <1>9 DEF OurTurn
  <2>4. QED
    BY <2>2, <2>3
<1>10. ASSUME acts # << >>, acts[Len(acts)].type = "fold"
       PROVE  get_acting_player(msg) = nobody
  BY <1>3, <1>5, <1>6, <1>8, <1>10 DEF get_acting_player
<1>11. ASSUME s.round = 1, Len(acts) >= 2, acts[Len(acts)].type = "call"
       PROVE  get_acting_player(msg) = nobody
  <2>1. acts = s.action[1]
    BY <1>2, <1>11 DEF CurrentActions
  <2>2. acts # << >>
    BY <1>11, EmptySeq
  <2>3. /\ current_street(msg) = 2 /\ Len(msg.actions[2]) >= 2
        /\ Last(all).type = "call" /\ Last(all).street = 2
    BY <2>1, <2>2, <1>3, <1>6, <1>11
  <2>4. QED
    BY <2>3, <1>3, <1>5, <1>8 DEF get_acting_player
<1>12. ASSUME s.round = 1, acts = << >>,
              s.action[0] # << >>, s.action[0][Len(s.action[0])].type = "call",
              \A i \in 1..Len(all) : all[i].type # "fold",
              LastRaise(all, Len(all) - 1).size = stack
       PROVE  ParserAsserts(msg) /\ ~OurTurn(parsed)
  <2>1. s.action[1] = << >>
    BY <1>2, <1>12 DEF CurrentActions
  <2>2. PICK n \in Nat : n = Len(all)
    BY <1>4, LenProperties
  <2>3. n \in 1..Len(all)
    BY <2>2, <1>4, <1>5, EmptySeq
  <2>4. all[n] = HeardOn(1, Len(s.action[0]), s.action[0][Len(s.action[0])])
    BY <2>1, <2>2, <1>1, <1>2, <1>12, AllIsHeard
  <2>5. all[n].type = "call" /\ all[n].street = 1
    BY <2>4, <1>12 DEF HeardOn
  <2>6. get_acting_player(msg) = 1
    BY <2>2, <2>5, <1>3, <1>12 DEF get_acting_player, Last, P1
  <2>7. PICK t : t = LastTwo(msg)
    OBVIOUS
  <2>8. /\ t.last = all[n]
        /\ t.before = IF n >= 2 THEN all[n - 1]
                      ELSE IF n = 1 THEN Ante(P1, 1) ELSE Ante(P2, 2)
        /\ t.raise = LastRaise(all, n - 2)
    BY <2>2, <2>3, <2>7, <1>3 DEF LastTwo
  <2>9. /\ (IF t.before.type = "raise" THEN t.before.size ELSE t.raise.size) = stack
        /\ t.before.type \in {"raise", "call"}
    BY <2>2, <2>8, <1>4, <1>5, <1>12, FirstBet
  <2>10. compute_bets(msg) = <<stack, stack>>
    BY <2>5, <2>6, <2>7, <2>8, <2>9, <1>8 DEF compute_bets
  <2>11. compute_bets(msg)[1] <= compute_bets(msg)[2]
    BY <2>10, TheGame
  <2>12. ParserAsserts(msg)
    BY <2>5, <2>7, <2>8, <2>9, <2>11, <1>3, <1>5 DEF ParserAsserts
  <2>13. parsed.bets = <<stack, stack>>
    BY <2>10 DEF parse_state
  <2>14. QED
    BY <2>12, <2>13 DEF OurTurn
<1>13. QED
  BY <1>2, <1>9, <1>10, <1>11, <1>12 DEF Over

(* Every state of a hand is one of the two.                                *)
OnTurn(s, q) == InHand(s, q) /\ Told(s, q)

Proper(s) == Over(s) \/ \E q \in {0, 1} : OnTurn(s, q)

LEMMA NewHandIsProper ==
  OnTurn(initState(game), 0)
<1> DEFINE s == initState(game)
<1>1. InHand(s, 0) /\ Matched(s) /\ s.round = 0 /\ CurrentActions(s) = << >>
      /\ s.action[0] = << >> /\ s.action[1] = << >> /\ s.maxSpent = ante
  BY NewHandBegins
<1> HIDE DEF s
<1>2. AllOf(s) = << >>
  BY <1>1, AllIsHeard DEF InHand, Sound
<1>3. Len(AllOf(s)) = 0 /\ LastRaise(AllOf(s), 0).size = ante
  BY <1>2, NoRaiseYet
<1>4. ~Raised(s, 0)
  BY <1>1 DEF Raised
<1>5. Told(s, 0)
  BY <1>1, <1>3, <1>4 DEF Told
<1>6. QED
  BY <1>1, <1>5 DEF OnTurn, s

LEMMA ActionsAfter ==
  ASSUME NEW s, WellFormed(game, s), NEW action \in AskedActions, NEW q \in {0, 1},
         NEW after, after.action = Extended(s, action, q)
  PROVE  LET acts == CurrentActions(s)
             more == after.action[s.round]
         IN  /\ more = Append(acts, Entry(action, q))
             /\ Len(more) = Len(acts) + 1 /\ more # << >>
             /\ more[Len(more)].type = action.type
             /\ s.round = 0 => after.action[1] = << >>
             /\ s.round = 1 => after.action[0] = s.action[0]
<1>1. s.round \in {0, 1} /\ s.action \in [{0, 1} -> Seq(ActionType(game))]
  BY StateFields
<1>2. CurrentActions(s) \in Seq(ActionType(game)) /\ CurrentActions(s) = s.action[s.round]
  BY StateFields DEF CurrentActions
<1>3. PICK more : more = after.action[s.round]
  OBVIOUS
<1>4. more = Append(CurrentActions(s), Entry(action, q))
  BY <1>1, <1>2, <1>3 DEF Extended
<1>5. PICK acts, e : acts = CurrentActions(s) /\ e = Entry(action, q)
  OBVIOUS
<1>6. e \in ActionType(game) /\ e.type = action.type
  BY <1>5, TheGame DEF Entry, ActionType, AskedActions
<1>7. Len(more) = Len(acts) + 1 /\ more[Len(acts) + 1] = e /\ Len(acts) \in Nat
  BY <1>2, <1>4, <1>5, <1>6, AppendProperties, LenProperties
<1>8. more # << >>
  BY <1>7, EmptySeq
<1>9. s.round = 0 => after.action[1] = << >>
  <2>1. SUFFICES ASSUME s.round = 0 PROVE after.action[1] = << >>
    OBVIOUS
  <2>2. s.action[1] = << >>
    BY <2>1, StateFields
  <2>3. after.action[1] = s.action[1]
    BY <2>1, <1>1 DEF Extended
  <2>4. QED
    BY <2>2, <2>3
<1>10. s.round = 1 => after.action[0] = s.action[0]
  BY <1>1 DEF Extended
<1>11. QED
  BY <1>3, <1>4, <1>5, <1>6, <1>7, <1>8, <1>9, <1>10

(* What one more action changes in what is heard.                          *)
HeardMore(s, action, after) ==
  LET all == AllOf(after)
      n == Len(all)
  IN  /\ action.type # "fold" => \A i \in 1..n : all[i].type # "fold"
      /\ LastRaise(all, n).size =
           IF action.type = "raise" THEN action.size ELSE s.maxSpent
      /\ LastRaise(all, n - 1).size = s.maxSpent

LEMMA OneMoreIsHeard ==
  ASSUME NEW s, NEW q, OnTurn(s, q), NEW action \in AskedActions,
         NEW after, after.action = Extended(s, action, q)
  PROVE  HeardMore(s, action, after)
<1>1. WellFormed(game, s) /\ q \in {0, 1}
  BY DEF OnTurn, InHand, Sound
<1>2. PICK h : h = HeardOn(s.round + 1, Len(CurrentActions(s)) + 1, action)
  OBVIOUS
<1>3. PICK old, all : old = AllOf(s) /\ all = AllOf(after)
  OBVIOUS
<1>4. h \in Heard /\ h.type = action.type /\ h.size = action.size
  <2>1. s.round + 1 \in {1, 2}
    BY <1>1, StateFields
  <2>2. action.type \in ActionTypes /\ action.size \in Int
    BY DEF AskedActions
  <2>3. QED
    BY <1>2, <2>1, <2>2 DEF HeardOn, Heard, P1, P2
<1>5. all = Append(old, h)
  BY <1>1, <1>2, <1>3, NextIsHeard
<1>6. old \in Seq(Heard)
  BY <1>1, <1>3, AllIsHeard
<1>7. PICK k \in Nat : k = Len(old)
  BY <1>6, LenProperties
<1>8. /\ all \in Seq(Heard) /\ Len(all) = k + 1 /\ all[k + 1] = h
      /\ \A i \in 1..k : all[i] = old[i]
  BY <1>4, <1>5, <1>6, <1>7, AppendProperties
<1>9. LastRaise(old, k).size = s.maxSpent /\ \A i \in 1..k : old[i].type # "fold"
  BY <1>3, <1>7 DEF OnTurn, Told
<1>10. LastRaise(all, k) = LastRaise(old, k)
  BY <1>4, <1>5, <1>6, <1>7, LastRaiseStays
<1>11. LastRaise(all, k + 1) = IF h.type = "raise" THEN h ELSE LastRaise(all, k)
  <2>1. k + 1 \in 1..Len(all) /\ k + 1 - 1 = k
    BY <1>7, <1>8
  <2>2. LastRaise(all, k + 1) = IF all[k + 1].type = "raise" THEN all[k + 1]
                                ELSE LastRaise(all, k + 1 - 1)
    BY <2>1, <1>8, LastRaiseSteps
  <2>3. QED
    BY <2>1, <2>2, <1>8
<1>12. LastRaise(all, k + 1).size = IF action.type = "raise" THEN action.size ELSE s.maxSpent
  BY <1>4, <1>9, <1>10, <1>11
<1>13. ASSUME action.type # "fold", NEW i \in 1..k + 1
       PROVE  all[i].type # "fold"
  <2>1. CASE i = k + 1
    BY <2>1, <1>4, <1>8, <1>13
  <2>2. CASE i \in 1..k
    BY <2>2, <1>8, <1>9
  <2>3. QED
    BY <2>1, <2>2, <1>7
<1>14. k + 1 \in Nat /\ k + 1 - 1 = k
  BY <1>7
<1>15. QED
  BY <1>3, <1>8, <1>9, <1>10, <1>12, <1>13, <1>14 DEF HeardMore

(* Every valid action leads to a state that is read right again.           *)
LEMMA ProperAfter ==
  ASSUME NEW s, NEW q, OnTurn(s, q),
         NEW action \in AskedActions, isValidAction(game, s, FALSE, action)
  PROVE  LET after == doAction(game, s, action)
         IN  /\ after.action = Extended(s, action, q)
             /\ \/ Over(after)
                \/ /\ action.type = "call" /\ CurrentActions(s) # << >>
                   /\ CallEnds(s, q, action, after)
                   /\ s.maxSpent < stack /\ s.round = 0
                   /\ OnTurn(after, 0) /\ CurrentActions(after) = << >>
                \/ /\ action.type # "fold" /\ after.round = s.round
                   /\ OnTurn(after, 1 - q) /\ CurrentActions(after) # << >>
<1> DEFINE after == doAction(game, s, action)
           all == AllOf(after)
           n == Len(all)
<1>1. InHand(s, q) /\ Told(s, q) /\ WellFormed(game, s) /\ q \in {0, 1} /\ 1 - q \in {0, 1}
  BY DEF OnTurn, InHand, Sound
<1>2. Sound(game, after)
  BY <1>1, Moves
<1>3. CASE action.type = "fold"
  <2>1. after.finished /\ after.round = s.round /\ after.action = Extended(s, action, q)
    BY <1>1, <1>3, FoldEffect
  <2> HIDE DEF after
  <2>2. after.action[s.round] # << >>
        /\ after.action[s.round][Len(after.action[s.round])].type = "fold"
    BY <2>1, <1>1, <1>3, ActionsAfter
  <2>3. CurrentActions(after) = after.action[s.round]
    BY <2>1 DEF CurrentActions
  <2>4. Over(after)
    BY <2>1, <2>2, <2>3, <1>2 DEF Over
  <2>5. QED
    BY <2>1, <2>4 DEF after
<1>4. CASE action.type = "call" /\ CurrentActions(s) = << >>
  <2>0. CheckPasses(s, q, action, after)
    BY <1>1, <1>4, CheckEffect
  <2> HIDE DEF after
  <2>1. /\ q = 0 /\ InHand(after, 1) /\ after.round = s.round
        /\ after.action = Extended(s, action, q) /\ after.maxSpent = s.maxSpent
        /\ CurrentActions(after) = <<Entry(action, q)>>
    BY <2>0 DEF CheckPasses
  <2>2. ~Raised(after, 1) /\ CurrentActions(after) # << >>
    BY <2>1, <1>4 DEF Raised, Entry
  <2>3. /\ LastRaise(all, n).size = s.maxSpent
        /\ \A i \in 1..n : all[i].type # "fold"
    BY <2>1, <1>4, OneMoreIsHeard DEF HeardMore
  <2>4. after.round = 1 => after.action[0] = s.action[0]
    <3>1. after.action = Extended(s, action, q) /\ after.round = s.round
      BY <2>1
    <3>2. s.round = 1 => after.action[0] = s.action[0]
      BY <3>1, <1>1, ActionsAfter
    <3>3. QED
      BY <3>1, <3>2
  <2>5. Told(after, 1)
    BY <2>1, <2>2, <2>3, <2>4, <1>1 DEF Told
  <2>6. 1 - q = 1
    BY <2>1
  <2>7. QED
    BY <2>1, <2>2, <2>5, <2>6, <1>4 DEF OnTurn, after
<1>5. CASE action.type = "call" /\ CurrentActions(s) # << >>
  <2>1. CallEnds(s, q, action, after)
    BY <1>1, <1>5, CallEffect
  <2> HIDE DEF after
  <2>2. after.action = Extended(s, action, q) /\ after.round = 1
    BY <2>1 DEF CallEnds
  <2>3. /\ \A i \in 1..n : all[i].type # "fold"
        /\ LastRaise(all, n).size = s.maxSpent
        /\ LastRaise(all, n - 1).size = s.maxSpent
    BY <2>2, <1>5, OneMoreIsHeard DEF HeardMore
  <2>4. CurrentActions(after) = after.action[1]
    BY <2>2 DEF CurrentActions
  <2>5. CASE s.round = 1
    <3>1. after.finished
      BY <2>1, <2>5 DEF CallEnds
    <3>2. PICK more : more = after.action[1]
      OBVIOUS
    <3>3. /\ Len(more) = Len(CurrentActions(s)) + 1
          /\ more[Len(more)].type = "call"
      BY <2>2, <2>5, <3>2, <1>1, <1>5, ActionsAfter
    <3>4. Len(CurrentActions(s)) \in Nat /\ Len(CurrentActions(s)) # 0
      BY <1>1, <1>5, StateFields, EmptySeq
    <3>5. Len(more) >= 2
      BY <3>3, <3>4
    <3>6. Over(after)
      BY <3>1, <3>2, <3>3, <3>5, <2>2, <2>4, <1>2 DEF Over
    <3>7. QED
      BY <3>6, <2>2 DEF after
  <2>6. CASE s.round = 0
    <3>1. after.action[1] = << >> /\ CurrentActions(after) = << >>
      BY <2>2, <2>4, <2>6, <1>1, ActionsAfter
    <3>2. /\ after.action[0] # << >>
          /\ after.action[0][Len(after.action[0])].type = "call"
      BY <2>2, <2>6, <1>1, <1>5, ActionsAfter
    <3>3. CASE s.maxSpent < stack
      <4>1. InHand(after, 0) /\ after.maxSpent = s.maxSpent
        BY <2>1, <2>6, <3>3 DEF CallEnds
      <4>2. ~Raised(after, 0)
        BY <3>1 DEF Raised
      <4>3. Told(after, 0)
        BY <4>1, <4>2, <3>2, <2>3 DEF Told
      <4>4. QED
        BY <4>1, <4>3, <3>1, <3>3, <2>1, <2>2, <2>6, <1>5 DEF OnTurn, after
    <3>4. CASE ~(s.maxSpent < stack)
      <4>1. after.finished
        BY <2>1, <3>4 DEF CallEnds
      <4>2. s.maxSpent = stack
        <5>1. s.spent[1 - q] = s.maxSpent
          BY <1>1 DEF InHand, Raised, Unraised, Matched
        <5>2. s.spent[1 - q] \in Nat /\ s.spent[1 - q] <= stack
          BY <1>1, StateFields
        <5>3. QED
          BY <5>1, <5>2, <3>4, TheGame
      <4>3. Over(after)
        BY <4>1, <4>2, <3>1, <3>2, <2>2, <2>3, <1>2 DEF Over
      <4>4. QED
        BY <4>3, <2>2 DEF after
    <3>5. QED
      BY <3>3, <3>4
  <2>7. QED
    BY <2>5, <2>6, <1>1, StateFields
<1>6. CASE action.type = "raise"
  <2>0. RaisePasses(s, q, action, after)
    BY <1>1, <1>6, RaiseEffect
  <2> HIDE DEF after
  <2>1. /\ InHand(after, 1 - q) /\ Raised(after, 1 - q) /\ after.round = s.round
        /\ after.action = Extended(s, action, q)
        /\ after.spent = [s.spent EXCEPT ![q] = action.size]
        /\ after.maxSpent = action.size
    BY <2>0 DEF RaisePasses
  <2>2. after.spent[1 - q] = s.maxSpent
    <3>1. s.spent \in [{0, 1} -> Nat]
      BY <1>1, StateFields
    <3>2. after.spent[1 - q] = s.spent[1 - q]
      BY <3>1, <2>1, <1>1
    <3>3. QED
      BY <3>2, <1>1 DEF InHand, Raised, Unraised, Matched
  <2>3. /\ LastRaise(all, n).size = action.size
        /\ LastRaise(all, n - 1).size = s.maxSpent
        /\ \A i \in 1..n : all[i].type # "fold"
    BY <2>1, <1>6, OneMoreIsHeard DEF HeardMore
  <2>4. after.round = 1 => after.action[0] = s.action[0]
    <3>1. after.action = Extended(s, action, q) /\ after.round = s.round
      BY <2>1
    <3>2. s.round = 1 => after.action[0] = s.action[0]
      BY <3>1, <1>1, ActionsAfter
    <3>3. QED
      BY <3>1, <3>2
  <2>5. Told(after, 1 - q)
    BY <2>1, <2>2, <2>3, <2>4, <1>1 DEF Told
  <2>6. CurrentActions(after) # << >>
    BY <2>1 DEF Raised
  <2>7. QED
    BY <2>1, <2>5, <2>6, <1>6 DEF OnTurn, after
<1>7. QED
  BY <1>3, <1>4, <1>5, <1>6 DEF AskedActions, ActionTypes

-----------------------------------------------------------------------------
(* The tree of a street.                                                   *)

LEMMA LargerOfTwo ==
  ASSUME NEW a \in Nat, NEW b \in Nat
  PROVE  /\ Max({a, b}) = IF a > b THEN a ELSE b
         /\ Min({a, b}) = IF a < b THEN a ELSE b
<1>1. {a, b} \subseteq Nat /\ {a, b} # {} /\ a + b \in Nat /\ \A x \in {a, b} : x <= a + b
  OBVIOUS
<1>2. Max({a, b}) \in {a, b} /\ a <= Max({a, b}) /\ b <= Max({a, b})
  BY <1>1, MaxOfNats
<1>3. Min({a, b}) \in {a, b} /\ Min({a, b}) <= a /\ Min({a, b}) <= b
  BY <1>1, MinOfNats
<1>4. Max({a, b}) = IF a > b THEN a ELSE b
  BY <1>2
<1>5. Min({a, b}) = IF a < b THEN a ELSE b
  BY <1>3
<1>6. QED
  BY <1>4, <1>5

(* The sizes that fit lie within the bounds.                               *)
LEMMA FittingFits ==
  ASSUME NEW sizes \in Seq(Nat), NEW least \in Nat, NEW most \in Nat
  PROVE  Fitting(sizes, least, most) \in Seq({x \in Nat : least <= x /\ x < most})
<1> DEFINE Fit == {x \in Nat : least <= x /\ x < most}
           step == [z \in Seq(Fit) \X (1..Len(sizes)) |->
                      IF sizes[z[2]] \in Fit THEN Append(z[1], sizes[z[2]]) ELSE z[1]]
           Body(h) == h = [i \in 0..Len(sizes) |->
                             IF i = 0 THEN << >>
                             ELSE IF least <= sizes[i] /\ sizes[i] < most
                               THEN Append(h[i - 1], sizes[i])
                               ELSE h[i - 1]]
<1>1. PICK n \in Nat : n = Len(sizes)
  BY LenProperties
<1>2. \A i \in 1..n : sizes[i] \in Nat
  BY <1>1, ElementOfSeq
<1>3. step \in [Seq(Fit) \X (1..n) -> Seq(Fit)]
  <2> DEFINE A == Seq(Fit)
  <2>1. \A a \in A, x \in Fit : Append(a, x) \in A
    BY AppendProperties
  <2> HIDE DEF A, Fit
  <2>2. QED
    BY <2>1, <1>1 DEF A
<1>4. PICK e : e = << >>
  OBVIOUS
<1>5. e \in Seq(Fit)
  BY <1>4, EmptySeq
<1>6. StepsIn(Seq(Fit), e, n, step)
  BY <1>3, <1>5 DEF StepsIn
<1> HIDE DEF step
<1>7. PICK f : IsSteps(Seq(Fit), e, n, step, f)
  BY <1>6, StepByStep
<1>8. /\ f \in [0..n -> Seq(Fit)] /\ f[0] = << >>
      /\ \A i \in 1..n : f[i] = step[<<f[i - 1], i>>]
  BY <1>4, <1>7 DEF IsSteps
<1>9. ASSUME NEW i \in 1..n
      PROVE  f[i] = IF least <= sizes[i] /\ sizes[i] < most
                      THEN Append(f[i - 1], sizes[i]) ELSE f[i - 1]
  <2>0. f[i - 1] \in Seq(Fit)
    <3>1. i - 1 \in 0..n
      BY <1>1
    <3> HIDE DEF Fit
    <3>2. QED
      BY <3>1, <1>8
  <2>1. f[i - 1] \in Seq(Fit) /\ i \in 1..Len(sizes) /\ sizes[i] \in Nat
    BY <2>0, <1>1, <1>2
  <2>2. PICK z : z = <<f[i - 1], i>>
    OBVIOUS
  <2>3. z \in Seq(Fit) \X (1..Len(sizes)) /\ z[1] = f[i - 1] /\ z[2] = i
    BY <2>1, <2>2
  <2>4. step[z] = IF sizes[z[2]] \in Fit THEN Append(z[1], sizes[z[2]]) ELSE z[1]
    BY <2>3 DEF step
  <2>5. sizes[i] \in Fit <=> least <= sizes[i] /\ sizes[i] < most
    BY <2>1
  <2> HIDE DEF Fit
  <2>6. QED
    BY <1>8, <2>2, <2>3, <2>4, <2>5
<1>10. Body(f)
  <2>1. f = [i \in 0..n |-> f[i]]
    BY <1>8
  <2>2. \A i \in 0..n : i = 0 \/ i \in 1..n
    OBVIOUS
  <2>3. QED
    BY <1>1, <1>8, <1>9, <2>1, <2>2
<1>11. PICK h : Body(h) /\ Fitting(sizes, least, most) = h[n]
  <2>1. Fitting(sizes, least, most) = (CHOOSE h : Body(h))[n]
    BY <1>1 DEF Fitting
  <2>2. Body(CHOOSE h : Body(h))
    BY <1>10, Zenon
  <2>3. QED
    BY <2>1, <2>2
<1>12. GoOnAlike(n, f, h)
  <2>1. h[0] = << >>
    BY <1>1, <1>11
  <2>2. ASSUME NEW i \in 1..n
        PROVE  h[i] = IF least <= sizes[i] /\ sizes[i] < most
                        THEN Append(h[i - 1], sizes[i]) ELSE h[i - 1]
    <3>1. i \in 0..n /\ i # 0
      OBVIOUS
    <3>2. QED
      BY <1>1, <1>11, <3>1
  <2>3. QED
    BY <1>8, <1>9, <2>1, <2>2 DEF GoOnAlike
<1>13. h[n] = f[n]
  BY <1>12, SameSteps
<1>14. f[n] \in Seq(Fit)
  <2> HIDE DEF Fit
  <2>1. QED
    BY <1>1, <1>8
<1>15. QED
  BY <1>11, <1>13, <1>14

(* A node at which somebody acts.                                          *)
Own(node) == node.bets[node.current_player]
Opp(node) == node.bets[Opponent(node.current_player)]

IsDecision(node) ==
  \E street \in {1, 2}, player \in {1, 2}, b1 \in Nat, b2 \in Nat :
    /\ node = Node(street, player, <<b1, b2>>, "inner")
    /\ Own(node) <= Opp(node) /\ Opp(node) <= stack /\ Own(node) < stack
    /\ ante <= Own(node)

LEMMA DecisionFields ==
  ASSUME NEW node, IsDecision(node)
  PROVE  /\ node.kind = "inner" /\ node.street \in {1, 2} /\ node.current_player \in {1, 2}
         /\ Opponent(node.current_player) \in {1, 2}
         /\ Opponent(node.current_player) # node.current_player
         /\ node.bets = <<node.bets[1], node.bets[2]>>
         /\ node.bets[1] \in Nat /\ node.bets[2] \in Nat
         /\ Own(node) \in Nat /\ Opp(node) \in Nat
         /\ Own(node) <= Opp(node) /\ Opp(node) <= stack /\ Own(node) < stack
         /\ ante <= Own(node)
         /\ node = Node(node.street, node.current_player, node.bets, "inner")
         /\ Level(node.bets) <=> Own(node) = Opp(node)
         /\ Filled(node.bets) = <<Opp(node), Opp(node)>>
<1>1. PICK street \in {1, 2}, player \in {1, 2}, b1 \in Nat, b2 \in Nat :
        /\ node = Node(street, player, <<b1, b2>>, "inner")
        /\ Own(node) <= Opp(node) /\ Opp(node) <= stack /\ Own(node) < stack
        /\ ante <= Own(node)
  BY DEF IsDecision
<1>2. /\ node.kind = "inner" /\ node.street = street /\ node.current_player = player
      /\ node.bets = <<b1, b2>> /\ node.bets[1] = b1 /\ node.bets[2] = b2
  BY <1>1 DEF Node
<1>3. Opponent(player) \in {1, 2} /\ Opponent(player) # player
  BY DEF Opponent
<1>4. /\ player = 1 => Own(node) = b1 /\ Opp(node) = b2
      /\ player = 2 => Own(node) = b2 /\ Opp(node) = b1
  BY <1>2 DEF Own, Opp, Opponent
<1>5. Own(node) \in Nat /\ Opp(node) \in Nat
  BY <1>4
<1>6. Level(node.bets) <=> Own(node) = Opp(node)
  BY <1>2, <1>4 DEF Level
<1>7. Max({b1, b2}) = Opp(node)
  <2>1. Max({b1, b2}) = IF b1 > b2 THEN b1 ELSE b2
    BY LargerOfTwo
  <2>2. QED
    BY <2>1, <1>1, <1>4
<1>8. Filled(node.bets) = <<Opp(node), Opp(node)>>
  BY <1>2, <1>7 DEF Filled
<1>9. QED
  BY <1>1, <1>2, <1>3, <1>5, <1>6, <1>8

(* By how much the player at a node may raise: by as much as the last      *)
(* raise and by an ante at least, or by all that is left.                  *)
LEMMA RaisesOfTheTree ==
  ASSUME NEW node, IsDecision(node)
  PROVE  LET raises == RaiseSizes(node)
         IN  /\ raises \in Seq(Nat)
             /\ Opp(node) = stack => raises = << >>
             /\ \A i \in 1..Len(raises) :
                  /\ raises[i] >= 1 /\ Opp(node) + raises[i] <= stack
                  /\ \/ Opp(node) + raises[i] = stack
                     \/ raises[i] >= ante /\ raises[i] >= Opp(node) - Own(node)
             /\ Opp(node) # stack =>
                  /\ Len(raises) >= 1
                  /\ \A i \in 1..Len(raises) :
                       Opp(node) + raises[i] = stack <=> i = Len(raises)
<1>1. PICK own \in Nat, opp \in Nat : own = Own(node) /\ opp = Opp(node)
  BY DecisionFields
<1>2. /\ own <= opp /\ opp <= stack /\ ante <= own
      /\ ante \in Nat \ {0} /\ stack \in Nat
  BY <1>1, DecisionFields, TheGame
<1>3. PICK most \in Nat : most = stack - opp
  BY <1>2
<1>4. opp - own \in Nat
  BY <1>2
<1>5. PICK wish \in Nat : wish = Max({opp - own, ante}) /\ wish >= ante /\ wish >= opp - own
  BY <1>2, <1>4, LargerOfTwo
<1>6. PICK least \in Nat : least = Min({most, wish}) /\ (least = wish \/ least = most)
                           /\ least <= most
  BY LargerOfTwo
<1>7. PICK raises : raises = RaiseSizes(node)
  OBVIOUS
<1>8. PICK sizes : sizes = [i \in DOMAIN bet_sizing |-> 2 * opp * bet_sizing[i]]
  OBVIOUS
<1>9. raises = IF least = 0 THEN << >>
               ELSE Append(Fitting(sizes, least, most), most)
  BY <1>1, <1>3, <1>5, <1>6, <1>7, <1>8 DEF RaiseSizes, Own, Opp
<1>10. least = 0 <=> opp = stack
  BY <1>2, <1>3, <1>5, <1>6
<1>11. ASSUME least # 0
       PROVE  /\ raises \in Seq(Nat)
              /\ \A i \in 1..Len(raises) :
                   /\ raises[i] >= 1 /\ opp + raises[i] <= stack
                   /\ \/ opp + raises[i] = stack
                      \/ raises[i] >= ante /\ raises[i] >= opp - own
              /\ Len(raises) >= 1
              /\ \A i \in 1..Len(raises) : opp + raises[i] = stack <=> i = Len(raises)
  <2>1. sizes \in Seq(Nat)
    <3>1. bet_sizing \in Seq(Nat \ {0})
      BY TreeAssumption
    <3>2. PICK n \in Nat : n = Len(bet_sizing)
      BY <3>1, LenProperties
    <3>3. DOMAIN bet_sizing = 1..n /\ \A i \in 1..n : bet_sizing[i] \in Nat
      BY <3>1, <3>2, LenProperties, ElementOfSeq
    <3>4. sizes = [i \in 1..n |-> 2 * opp * bet_sizing[i]]
      BY <1>8, <3>3
    <3>5. \A i \in 1..n : 2 * opp * bet_sizing[i] \in Nat
      BY <3>3
    <3>6. sizes \in [1..n -> Nat]
      BY <3>4, <3>5
    <3>7. QED
      BY <3>6, SeqDef
  <2>2. PICK S : S = {x \in Nat : least <= x /\ x < most}
    OBVIOUS
  <2>3. PICK fitting : fitting = Fitting(sizes, least, most)
    OBVIOUS
  <2>4. fitting \in Seq(S)
    BY <2>1, <2>2, <2>3, FittingFits
  <2>5. PICK T : T = {x \in Nat : x = most \/ (least <= x /\ x < most)}
    OBVIOUS
  <2>6. S \subseteq T /\ most \in T
    BY <2>2, <2>5
  <2>7. fitting \in Seq(T)
    BY <2>4, <2>6, SeqMonotonic
  <2>8. raises \in Seq(T)
    BY <2>3, <2>6, <2>7, <1>9, <1>11, AppendProperties
  <2>9. T \subseteq Nat
    BY <2>5
  <2>10. raises \in Seq(Nat)
    BY <2>8, <2>9, SeqMonotonic
  <2>11. ASSUME NEW i \in 1..Len(raises)
         PROVE  /\ raises[i] >= 1 /\ opp + raises[i] <= stack
                /\ \/ opp + raises[i] = stack
                   \/ raises[i] >= ante /\ raises[i] >= opp - own
    <3>1. raises[i] \in T
      BY <2>8, ElementOfSeq
    <3>2. PICK r \in Nat : r = raises[i] /\ (r = most \/ (least <= r /\ r < most))
      BY <3>1, <2>5
    <3>3. r >= 1 /\ opp + r <= stack
      BY <3>2, <1>2, <1>3, <1>6, <1>11
    <3>4. opp + r = stack \/ (r >= ante /\ r >= opp - own)
      BY <3>2, <1>2, <1>3, <1>4, <1>5, <1>6
    <3>5. QED
      BY <3>2, <3>3, <3>4
  <2>12. PICK k \in Nat : k = Len(fitting)
    BY <2>4, LenProperties
  <2>13. Len(raises) = k + 1 /\ raises[k + 1] = most /\ \A i \in 1..k : raises[i] = fitting[i]
    <3>1. raises = Append(fitting, most)
      BY <2>3, <1>9, <1>11
    <3>2. QED
      BY <3>1, <2>6, <2>7, <2>12, AppendProperties
  <2>14. ASSUME NEW i \in 1..k + 1 PROVE opp + raises[i] = stack <=> i = k + 1
    <3>1. CASE i = k + 1
      <4>1. opp + most = stack
        BY <1>2, <1>3
      <4>2. QED
        BY <4>1, <3>1, <2>13
    <3>2. CASE i # k + 1
      <4>1. i \in 1..k
        BY <3>2
      <4>2. fitting[i] \in S
        BY <4>1, <2>4, <2>12, ElementOfSeq
      <4>3. PICK r \in Nat : r = raises[i] /\ r < most
        BY <4>1, <4>2, <2>2, <2>13
      <4>4. opp + r # stack
        BY <4>3, <1>2, <1>3
      <4>5. QED
        BY <4>3, <4>4, <3>2
    <3>3. QED
      BY <3>1, <3>2
  <2>15. k + 1 >= 1
    OBVIOUS
  <2>16. QED
    BY <2>10, <2>11, <2>13, <2>14, <2>15
<1>12. CASE least = 0
  <2>1. raises = << >>
    BY <1>9, <1>12
  <2>2. raises \in Seq(Nat) /\ 1..Len(raises) = {}
    BY <2>1, EmptySeq
  <2>3. QED
    BY <2>1, <2>2, <1>1, <1>7, <1>10, <1>12
<1>13. CASE least # 0
  BY <1>1, <1>7, <1>10, <1>11, <1>13
<1>14. QED
  BY <1>12, <1>13

(* The node after the i-th action at a node, the fold and the call being   *)
(* the first two.                                                          *)
BetNode(node, r) ==
  Node(node.street, Opponent(node.current_player),
       [<<Opp(node), Opp(node)>> EXCEPT ![node.current_player] = Opp(node) + r], "inner")

LEMMA ChildrenOfANode ==
  ASSUME NEW node, IsDecision(node)
  PROVE  LET kids == children(node)
             raises == RaiseSizes(node)
         IN  /\ Len(raises) \in Nat
             /\ kids = [i \in 1..Len(raises) + 2 |->
                          IF i = 1 THEN FoldNode(node)
                          ELSE IF i = 2 THEN CallNode(node)
                          ELSE BetNode(node, raises[i - 2])]
<1>0. PICK raises : raises = RaiseSizes(node)
  OBVIOUS
<1>1. PICK k \in Nat : raises = RaiseSizes(node) /\ k = Len(raises) /\ DOMAIN raises = 1..k
  <2>1. raises \in Seq(Nat)
    BY <1>0, RaisesOfTheTree
  <2>2. QED
    BY <2>1, <1>0, LenProperties
<1>2. PICK opp : opp = Opp(node)
  OBVIOUS
<1>3. PICK tail : tail = [i \in 1..k |-> BetNode(node, raises[i])]
  OBVIOUS
<1>4. node.kind = "inner"
  BY DecisionFields
<1>5. PICK bets : bets = get_possible_bets(node)
  OBVIOUS
<1>6. bets = [i \in 1..k |-> [<<opp, opp>> EXCEPT ![node.current_player] = opp + raises[i]]]
  BY <1>1, <1>2, <1>5 DEF get_possible_bets, Opp
<1>7. PICK rest : rest = [i \in DOMAIN bets |->
                            Node(node.street, Opponent(node.current_player), bets[i], "inner")]
  OBVIOUS
<1>8. rest = tail
  BY <1>2, <1>3, <1>6, <1>7 DEF BetNode
<1>9. PICK head : head = <<FoldNode(node), CallNode(node)>>
  OBVIOUS
<1>10. children(node) = head \o tail
  BY <1>4, <1>5, <1>7, <1>8, <1>9 DEF children
<1>11. PICK S : S = {FoldNode(node), CallNode(node)} \cup {tail[i] : i \in 1..k}
  OBVIOUS
<1>12. head \in Seq(S) /\ Len(head) = 2 /\ head[1] = FoldNode(node) /\ head[2] = CallNode(node)
  BY <1>9, <1>11
<1>13. tail \in Seq(S) /\ Len(tail) = k /\ \A i \in 1..k : tail[i] = BetNode(node, raises[i])
  <2>1. tail \in [1..k -> S]
    BY <1>3, <1>11
  <2>2. tail \in Seq(S) /\ Len(tail) = k
    BY <2>1, SeqDef
  <2>3. QED
    BY <2>2, <1>3
<1>14. PICK all : all = head \o tail
  OBVIOUS
<1>15. /\ all \in Seq(S) /\ Len(all) = 2 + k
       /\ \A i \in 1..2 + k : all[i] = IF i <= 2 THEN head[i] ELSE tail[i - 2]
  <2>1. head \in Seq(S) /\ tail \in Seq(S)
    BY <1>12, <1>13
  <2>2. /\ head \o tail \in Seq(S)
        /\ Len(head \o tail) = Len(head) + Len(tail)
        /\ \A i \in 1 .. Len(head) + Len(tail) :
             (head \o tail)[i] = IF i <= Len(head) THEN head[i] ELSE tail[i - Len(head)]
    BY <2>1, ConcatProperties
  <2>3. Len(head) = 2 /\ Len(tail) = k
    BY <1>12, <1>13
  <2>4. QED
    BY <2>2, <2>3, <1>14
<1>16. DOMAIN all = 1..k + 2 /\ all = [i \in 1..k + 2 |-> all[i]]
  <2>1. 2 + k = k + 2
    OBVIOUS
  <2>2. DOMAIN all = 1..k + 2 /\ all \in [1..k + 2 -> S]
    BY <2>1, <1>15, LenProperties
  <2>3. QED
    BY <2>2
<1>17. ASSUME NEW i \in 1..k + 2
       PROVE  all[i] = IF i = 1 THEN FoldNode(node)
                       ELSE IF i = 2 THEN CallNode(node)
                       ELSE BetNode(node, raises[i - 2])
  <2>1. all[i] = IF i <= 2 THEN head[i] ELSE tail[i - 2]
    BY <1>15
  <2>2. CASE i \in {1, 2}
    BY <2>1, <2>2, <1>12
  <2>3. CASE i \notin {1, 2}
    <3>1. i - 2 \in 1..k /\ ~(i <= 2) /\ i # 1 /\ i # 2
      BY <2>3
    <3>2. QED
      BY <3>1, <2>1, <1>13
  <2>4. QED
    BY <2>2, <2>3
<1>18. all = [i \in 1..k + 2 |-> IF i = 1 THEN FoldNode(node)
                                 ELSE IF i = 2 THEN CallNode(node)
                                 ELSE BetNode(node, raises[i - 2])]
  BY <1>16, <1>17
<1>19. QED
  BY <1>1, <1>10, <1>14, <1>18

(* The bets after a raise, and what it is called.                          *)
LEMMA BetNodeFields ==
  ASSUME NEW node, IsDecision(node), NEW r \in Nat
  PROVE  LET bet == BetNode(node, r)
         IN  /\ bet.kind = "inner" /\ bet.street = node.street
             /\ bet.current_player = Opponent(node.current_player)
             /\ node.current_player = 1 => bet.bets = <<Opp(node) + r, Opp(node)>>
             /\ node.current_player = 2 => bet.bets = <<Opp(node), Opp(node) + r>>
             /\ bet = Node(node.street, Opponent(node.current_player), bet.bets, "inner")
             /\ Own(bet) = Opp(node) /\ Opp(bet) = Opp(node) + r
             /\ Filled(bet.bets)[1] = Opp(node) + r
<1>1. PICK opp \in Nat : opp = Opp(node)
  BY DecisionFields
<1>2. PICK bet : bet = BetNode(node, r)
  OBVIOUS
<1>3. node.current_player \in {1, 2}
  BY DecisionFields
<1>4. PICK bets : bets = [<<opp, opp>> EXCEPT ![node.current_player] = opp + r]
  OBVIOUS
<1>5. /\ bet.kind = "inner" /\ bet.street = node.street
      /\ bet.current_player = Opponent(node.current_player)
      /\ bet.bets = bets
      /\ bet = Node(node.street, Opponent(node.current_player), bets, "inner")
  BY <1>1, <1>2, <1>4 DEF BetNode, Node
<1>6. /\ node.current_player = 1 => bets = <<opp + r, opp>>
      /\ node.current_player = 2 => bets = <<opp, opp + r>>
  BY <1>4
<1>7. bets[1] \in {opp, opp + r} /\ bets[2] \in {opp, opp + r} /\ {bets[1], bets[2]} = {opp, opp + r}
  BY <1>3, <1>6
<1>8. Max({opp, opp + r}) = opp + r
  <2>1. opp + r \in Nat
    OBVIOUS
  <2>2. Max({opp, opp + r}) = IF opp > opp + r THEN opp ELSE opp + r
    BY <2>1, LargerOfTwo
  <2>3. QED
    BY <2>2
<1>9. Filled(bets)[1] = opp + r
  BY <1>7, <1>8 DEF Filled
<1>10. Own(bet) = opp /\ Opp(bet) = opp + r
  BY <1>3, <1>5, <1>6 DEF Own, Opp, Opponent
<1>11. QED
  BY <1>1, <1>2, <1>5, <1>6, <1>9, <1>10

LEMMA ActionsOfANode ==
  ASSUME NEW node, IsDecision(node)
  PROVE  LET k == Len(RaiseSizes(node)) + 2
         IN  /\ ActionIds(node) = 1..k /\ k \in Nat /\ k >= 2
             /\ DOMAIN actions(node) = 1..k /\ Len(children(node)) = k
             /\ actions(node)[1] = Fold /\ actions(node)[2] = CCall
             /\ children(node)[1] = FoldNode(node) /\ children(node)[2] = CallNode(node)
             /\ \A i \in 3..k :
                  /\ i - 2 \in 1..Len(RaiseSizes(node))
                  /\ children(node)[i] = BetNode(node, RaiseSizes(node)[i - 2])
                  /\ actions(node)[i] = Opp(node) + RaiseSizes(node)[i - 2]
                  /\ actions(node)[i] \in Nat
<1>1. PICK raises, kids : raises = RaiseSizes(node) /\ kids = children(node)
  OBVIOUS
<1>2. PICK n \in Nat : n = Len(raises)
  BY <1>1, ChildrenOfANode
<1>3. kids = [i \in 1..n + 2 |-> IF i = 1 THEN FoldNode(node)
                                 ELSE IF i = 2 THEN CallNode(node)
                                 ELSE BetNode(node, raises[i - 2])]
  BY <1>1, <1>2, ChildrenOfANode
<1>4. DOMAIN kids = 1..n + 2 /\ 1 \in 1..n + 2 /\ 2 \in 1..n + 2
  BY <1>3
<1>5. kids[1] = FoldNode(node) /\ kids[2] = CallNode(node)
  BY <1>3, <1>4
<1>6. Len(kids) = n + 2
  BY <1>3
<1>7. actions(node) = [i \in 1..n + 2 |->
                         CASE i = 1 -> Fold [] i = 2 -> CCall
                           [] OTHER -> Filled(kids[i].bets)[1]]
  BY <1>1, <1>4 DEF actions
<1>8. actions(node)[1] = Fold /\ actions(node)[2] = CCall /\ DOMAIN actions(node) = 1..n + 2
  BY <1>4, <1>7
<1>9. ASSUME NEW i \in 3..n + 2
      PROVE  /\ i - 2 \in 1..n
             /\ kids[i] = BetNode(node, raises[i - 2])
             /\ actions(node)[i] = Opp(node) + raises[i - 2]
             /\ actions(node)[i] \in Nat
  <2>1. i \in 1..n + 2 /\ i # 1 /\ i # 2 /\ i - 2 \in 1..n
    OBVIOUS
  <2>2. kids[i] = BetNode(node, raises[i - 2])
    BY <2>1, <1>3
  <2>3. actions(node)[i] = Filled(kids[i].bets)[1]
    BY <2>1, <1>7
  <2>4. raises \in Seq(Nat)
    BY <1>1, RaisesOfTheTree
  <2>5. PICK r \in Nat : r = raises[i - 2]
    BY <2>1, <2>4, <1>2, ElementOfSeq
  <2>6. Filled(BetNode(node, r).bets)[1] = Opp(node) + r
    BY BetNodeFields
  <2>7. Opp(node) + r \in Nat
    BY DecisionFields
  <2>8. QED
    BY <2>1, <2>2, <2>3, <2>5, <2>6, <2>7
<1>10. ActionIds(node) = 1..n + 2
  BY <1>1, <1>4 DEF ActionIds
<1>11. n + 2 \in Nat /\ n + 2 >= 2
  OBVIOUS
<1>12. QED
  BY <1>1, <1>2, <1>5, <1>6, <1>8, <1>9, <1>10, <1>11

(* What the dealer is sent for an action of the tree.                      *)
LEMMA AnswerOfATree ==
  ASSUME NEW msg, NEW bet
  PROVE  /\ Answer(msg, bet).to = msg
         /\ bet = Fold => Answer(msg, bet).action = [type |-> "fold", size |-> 0]
         /\ bet = CCall => Answer(msg, bet).action = [type |-> "call", size |-> 0]
         /\ bet \in Nat => Answer(msg, bet).action = [type |-> "raise", size |-> bet]
<1>1. PICK f \in Int, c \in Int : f = -2 /\ c = -1
  OBVIOUS
<1>2. Fold = f /\ CCall = c
  BY <1>1 DEF Fold, CCall
<1>3. bet \in Nat => bet # f /\ bet # c /\ ~(bet < 0)
  BY <1>1
<1>4. f < 0 /\ c < 0 /\ f # c
  BY <1>1
<1>5. PICK type : type = CASE bet = Fold -> "fold" [] bet = CCall -> "call"
                           [] OTHER -> "raise"
  OBVIOUS
<1>6. PICK size : size = IF bet < 0 THEN 0 ELSE bet
  OBVIOUS
<1>7. Answer(msg, bet) = [to |-> msg, action |-> [type |-> type, size |-> size]]
  BY <1>5, <1>6 DEF Answer
<1>8. /\ bet = Fold => type = "fold" /\ size = 0
      /\ bet = CCall => type = "call" /\ size = 0
      /\ bet \in Nat => type = "raise" /\ size = bet
  BY <1>2, <1>3, <1>4, <1>5, <1>6
<1>9. QED
  BY <1>7, <1>8

LEMMA AnswersAreAsked ==
  ASSUME NEW node, IsDecision(node), NEW i \in ActionIds(node), NEW msg
  PROVE  Answer(msg, actions(node)[i]).action \in AskedActions
<1>1. PICK k \in Nat : k = Len(RaiseSizes(node)) + 2 /\ ActionIds(node) = 1..k
  BY ActionsOfANode
<1>2. PICK bet : bet = actions(node)[i]
  OBVIOUS
<1>3. i = 1 \/ i = 2 \/ i \in 3..k
  BY <1>1
<1>4. bet = Fold \/ bet = CCall \/ bet \in Nat
  BY <1>1, <1>2, <1>3, ActionsOfANode
<1>5. PICK action : action = Answer(msg, bet).action
  OBVIOUS
<1>6. action = [type |-> "fold", size |-> 0] \/ action = [type |-> "call", size |-> 0]
      \/ (bet \in Nat /\ action = [type |-> "raise", size |-> bet])
  BY <1>4, <1>5, AnswerOfATree
<1>7. action \in AskedActions
  BY <1>6 DEF AskedActions, ActionTypes
<1>8. QED
  BY <1>2, <1>5, <1>7

(* The node of a state: the player to act has put in at most as much as    *)
(* the other, who made or matched the bet.                                 *)
LEMMA NodeOfState ==
  ASSUME NEW s, NEW q, InHand(s, q)
  PROVE  LET node == NodeOf(s)
         IN  /\ node = Node(s.round + 1, q + 1, <<s.spent[0], s.spent[1]>>, "inner")
             /\ IsDecision(node)
             /\ Own(node) = s.spent[q] /\ Opp(node) = s.spent[1 - q]
             /\ Opp(node) = s.maxSpent
             /\ Raised(s, q) <=> ~Level(node.bets)
             /\ CallIsCheck(node) <=> CurrentActions(s) = << >>
PROOF
<1> DEFINE node == NodeOf(s)
           acts == CurrentActions(s)
<1>0. WellFormed(game, s) /\ q \in {0, 1}
  BY DEF InHand, Sound
<1>1. node = Node(s.round + 1, q + 1, <<s.spent[0], s.spent[1]>>, "inner")
  BY Turn DEF NodeOf
<1>2. /\ s.round \in {0, 1} /\ s.spent[0] \in Nat /\ s.spent[1] \in Nat
      /\ s.spent[0] <= stack /\ s.spent[1] <= stack /\ s.maxSpent \in Nat
  BY <1>0, StateFields
<1>3. Own(node) = s.spent[q] /\ Opp(node) = s.spent[1 - q]
  BY <1>0, <1>1, <1>2 DEF Own, Opp, Node, Opponent
<1>4. s.spent[1 - q] = s.maxSpent /\ s.spent[q] <= s.maxSpent
  <2>1. Unraised(s) \/ Raised(s, q)
    BY DEF InHand
  <2>2. CASE Unraised(s)
    BY <2>2, <1>0, <1>2 DEF Unraised, Matched
  <2>3. CASE Raised(s, q)
    BY <2>3, <1>0, <1>2 DEF Raised
  <2> QED
    BY <2>1, <2>2, <2>3
<1>5. IsDecision(node)
  <2>1. s.round + 1 \in {1, 2} /\ q + 1 \in {1, 2}
    BY <1>0, <1>2
  <2>2. ante <= s.spent[q] /\ s.spent[q] < stack
    BY DEF InHand
  <2>3. s.spent[1 - q] <= stack
    BY <1>0, <1>2
  <2> QED
    BY <1>1, <1>2, <1>3, <1>4, <2>1, <2>2, <2>3 DEF IsDecision
<1>6. Level(node.bets) <=> s.spent[q] = s.maxSpent
  BY <1>3, <1>4, <1>5, DecisionFields
<1>7. Raised(s, q) => s.spent[q] < s.maxSpent
  BY DEF Raised
<1>8. Unraised(s) => s.spent[q] = s.maxSpent
  BY <1>0 DEF Unraised, Matched
<1>9. Unraised(s) \/ Raised(s, q)
  BY DEF InHand
<1>10. Raised(s, q) <=> ~Level(node.bets)
  BY <1>6, <1>7, <1>8, <1>9, <1>2, <1>0
<1>11. CallIsCheck(node) <=> q = 0 /\ Level(node.bets)
  BY <1>1, <1>0 DEF CallIsCheck, Node, P1
<1>12. ASSUME acts = << >> PROVE CallIsCheck(node)
  <2>1. Len(acts) = 0
    BY <1>12
  <2>2. q = 0
    BY <2>1, <1>0 DEF InHand
  <2>3. ~Raised(s, q)
    BY <1>12 DEF Raised
  <2> QED
    BY <2>2, <2>3, <1>10, <1>11
<1>13. ASSUME CallIsCheck(node), acts # << >> PROVE FALSE
  <2>1. ~Raised(s, q) /\ q = 0
    BY <1>13, <1>10, <1>11
  <2>2. Len(acts) = 1
    BY <2>1, <1>9, <1>13 DEF Unraised
  <2>3. Len(acts) % 2 = q
    BY DEF InHand
  <2> QED
    BY <2>1, <2>2, <2>3
<1> QED
  BY <1>1, <1>3, <1>4, <1>5, <1>10, <1>12, <1>13

(* A fold that costs something is accepted, and ends the hand.             *)
LEMMA FoldOfTheTree ==
  ASSUME NEW q, OnTurn(state, q), ~Level(NodeOf(state).bets)
  PROVE  IsAfter(FoldNode(NodeOf(state)), [type |-> "fold", size |-> 0])
PROOF
<1> DEFINE node == NodeOf(state)
           action == [type |-> "fold", size |-> 0]
           next == doAction(game, state, action)
           child == FoldNode(node)
<1>0. InHand(state, q)
  BY DEF OnTurn
<1>1. /\ WellFormed(game, state) /\ ~state.finished /\ q \in {0, 1}
  BY <1>0 DEF InHand, Sound
<1>2. /\ state.spent[0] \in Nat /\ state.spent[1] \in Nat /\ state.maxSpent \in Nat
      /\ state.round \in {0, 1} /\ state.spent \in [{0, 1} -> Nat]
  BY <1>1, StateFields
<1>3. Raised(state, q)
  BY <1>0, NodeOfState
<1>4. isValidAction(game, state, FALSE, action)
  <2>1. currentPlayer(game, state) = q
    BY <1>0, Turn
  <2>2. state.spent[q] < stack /\ state.spent[q] < state.maxSpent
    BY <1>0, <1>3 DEF InHand, Raised
  <2>3. game.stack[q] = stack /\ stack \in Nat
    BY <1>1, TheGame
  <2>4. state.spent[q] \in Nat
    BY <1>1, <1>2
  <2>5. foldIsValid(game, state)
    BY <2>1, <2>2, <2>3, <2>4, <1>2 DEF foldIsValid
  <2> QED
    BY <2>5, <1>1 DEF isValidAction, ActionTypes
<1>5. action \in AskedActions
  BY DEF AskedActions, ActionTypes
<1>6. next.finished /\ next.round = state.round /\ next.spent = state.spent
  <2> HIDE DEF action
  <2>1. action.type = "fold"
    BY DEF action
  <2> QED
    BY <1>0, <1>4, <1>5, <2>1, FoldEffect
<1>7. fixAction(game, state, action) = action
  BY DEF fixAction
<1>8. /\ child.kind = "terminal" /\ child.bets = <<state.spent[0], state.spent[1]>>
  <2>1. node = Node(state.round + 1, q + 1, <<state.spent[0], state.spent[1]>>, "inner")
    BY <1>0, NodeOfState
  <2>2. node.bets = <<state.spent[0], state.spent[1]>>
    BY <2>1 DEF Node
  <2> QED
    BY <2>2 DEF FoldNode, Node
<1> HIDE DEF child, action, next
<1>9. ~(next.round > state.round)
  BY <1>6, <1>2
<1>10. IsAfter(child, action)
  BY <1>4, <1>6, <1>7, <1>8, <1>9 DEF IsAfter, next
<1> QED
  BY <1>10 DEF child, action, node

(* A call is always accepted, and ends the street or the hand where the    *)
(* tree has it.                                                            *)
LEMMA CallOfTheTree ==
  ASSUME NEW q, OnTurn(state, q)
  PROVE  IsAfter(CallNode(NodeOf(state)), [type |-> "call", size |-> 0])
PROOF
<1> DEFINE node == NodeOf(state)
           action == [type |-> "call", size |-> 0]
           next == doAction(game, state, action)
           child == CallNode(node)
<1>0. InHand(state, q)
  BY DEF OnTurn
<1>1. /\ WellFormed(game, state) /\ ~state.finished /\ q \in {0, 1}
  BY <1>0 DEF InHand, Sound
<1>2. /\ state.spent[0] \in Nat /\ state.spent[1] \in Nat /\ state.maxSpent \in Nat
      /\ state.round \in {0, 1}
  BY <1>1, StateFields
<1>3. isValidAction(game, state, FALSE, action) /\ fixAction(game, state, action) = action
  BY <1>1 DEF isValidAction, fixAction, ActionTypes
<1>4. action \in AskedActions /\ action.type = "call"
  BY DEF AskedActions, ActionTypes
<1>5. /\ node = Node(state.round + 1, q + 1, <<state.spent[0], state.spent[1]>>, "inner")
      /\ IsDecision(node) /\ Opp(node) = state.maxSpent
      /\ CallIsCheck(node) <=> CurrentActions(state) = << >>
  BY <1>0, NodeOfState
<1>6. /\ node.street = state.round + 1 /\ node.current_player = q + 1
      /\ node.bets = <<state.spent[0], state.spent[1]>>
  BY <1>5 DEF Node
<1>7. Filled(node.bets) = <<state.maxSpent, state.maxSpent>>
  BY <1>5, DecisionFields
<1>8. Opponent(node.current_player) = 2 - q
  BY <1>6, <1>1 DEF Opponent
<1> HIDE DEF action
<1>9. CASE CurrentActions(state) = << >>
  <2>1. CheckPasses(state, q, action, next)
    BY <1>0, <1>3, <1>4, <1>9, CheckEffect
  <2>2. /\ InHand(next, 1) /\ next.round = state.round /\ next.spent = state.spent /\ q = 0
    BY <2>1 DEF CheckPasses
  <2>3. NodeOf(next) = Node(next.round + 1, 2, <<next.spent[0], next.spent[1]>>, "inner")
    BY <2>2, Turn DEF NodeOf
  <2>4. child = Node(node.street, Opponent(node.current_player), node.bets, "inner")
    BY <1>5, <1>9 DEF CallNode
  <2>5. child = NodeOf(next) /\ child.kind = "inner" /\ child.bets = <<next.spent[0], next.spent[1]>>
    BY <2>2, <2>3, <2>4, <1>6, <1>8 DEF Node
  <2>6. ~next.finished
    BY <2>2 DEF InHand
  <2>7. ~(next.round > state.round)
    BY <2>2, <1>2
  <2> HIDE DEF child, next
  <2>8. IsAfter(child, action)
    BY <2>5, <2>6, <2>7, <1>3 DEF IsAfter, next
  <2> QED
    BY <2>8 DEF action, child, node
<1>10. CASE CurrentActions(state) # << >>
  <2>1. CallEnds(state, q, action, next)
    BY <1>0, <1>3, <1>4, <1>10, CallEffect
  <2>2. /\ next.spent[0] = state.maxSpent /\ next.spent[1] = state.maxSpent
        /\ next.round = 1
    BY <2>1 DEF CallEnds
  <2>3. CallEndsStreet(node) <=> state.round = 0 /\ state.maxSpent < stack
    <3>1. Level(node.bets) <=> state.spent[q] = state.maxSpent
      <4>1. Own(node) = state.spent[q]
        BY <1>0, NodeOfState
      <4> QED
        BY <4>1, <1>5, DecisionFields
    <3>2. Level(node.bets) => q = 1
      BY <1>5, <1>10, <1>6, <1>1 DEF CallIsCheck, P1
    <3>3. Level(node.bets) => state.maxSpent < stack
      <4>1. state.spent[q] < stack
        BY <1>0 DEF InHand
      <4> QED
        BY <4>1, <3>1
    <3>4. Filled(node.bets)[1] = state.maxSpent
      BY <1>7
    <3> QED
      BY <3>2, <3>3, <3>4, <1>6, <1>2 DEF CallEndsStreet, P2
  <2>4. child = IF CallEndsStreet(node)
                  THEN Node(node.street, Chance, <<state.maxSpent, state.maxSpent>>, "chance")
                  ELSE Node(node.street, Opponent(node.current_player),
                            <<state.maxSpent, state.maxSpent>>, "terminal")
    BY <1>5, <1>10, <1>7 DEF CallNode
  <2>5. child.bets = <<next.spent[0], next.spent[1]>>
    BY <2>4, <2>2 DEF Node
  <2>6. CASE CallEndsStreet(node)
    <3>1. state.round = 0 /\ state.maxSpent < stack
      BY <2>3, <2>6
    <3>2. InHand(next, 0)
      BY <3>1, <2>1 DEF CallEnds
    <3>3. NodeOf(next) = Node(next.round + 1, 1, <<next.spent[0], next.spent[1]>>, "inner")
      BY <3>2, Turn DEF NodeOf
    <3>4. child.kind = "chance" /\ child.street = 1
      BY <2>4, <2>6, <1>6, <3>1 DEF Node
    <3>5. AfterChance(child) = NodeOf(next)
      BY <3>3, <3>4, <2>2, <2>5 DEF AfterChance, P1
    <3>6. ~next.finished
      BY <3>2 DEF InHand
    <3>7. next.round > state.round
      BY <2>2, <3>1
    <3> HIDE DEF child, next
    <3>8. IsAfter(child, action)
      BY <3>4, <3>5, <3>6, <3>7, <2>5, <1>3 DEF IsAfter, next
    <3> QED
      BY <3>8 DEF action, child, node
  <2>7. CASE ~CallEndsStreet(node)
    <3>1. ~(state.maxSpent < stack) \/ state.round = 1
      BY <2>3, <2>7, <1>2
    <3>2. next.finished
      BY <3>1, <2>1 DEF CallEnds
    <3>3. child.kind = "terminal"
      BY <2>4, <2>7 DEF Node
    <3> HIDE DEF child, next
    <3>4. IsAfter(child, action)
      BY <3>2, <3>3, <2>5, <1>3 DEF IsAfter, next
    <3> QED
      BY <3>4 DEF action, child, node
  <2> QED
    BY <2>6, <2>7
<1> QED
  BY <1>9, <1>10

(* There are at most as many raises as actions.                            *)
LEMMA FewRaises ==
  ASSUME NEW s, WellFormed(game, s)
  PROVE  numRaises(s) \in Nat /\ numRaises(s) <= Len(CurrentActions(s))
PROOF
<1> DEFINE acts == CurrentActions(s)
<1>1. acts \in Seq(ActionType(game)) /\ Len(acts) \in Nat
  BY StateFields
<1>2. DOMAIN acts = 1..Len(acts)
  BY <1>1
<1>3. RaisesIn(acts) \subseteq 1..Len(acts)
  BY <1>2 DEF RaisesIn
<1> HIDE DEF acts
<1>4. IsFiniteSet(1..Len(acts)) /\ Cardinality(1..Len(acts)) = Len(acts)
  <2>1. PICK k \in Nat : k = Len(acts)
    BY <1>1
  <2>2. IsFiniteSet(1..k) /\ Cardinality(1..k) = k
    BY FS_Interval
  <2> QED
    BY <2>1, <2>2
<1>5. /\ IsFiniteSet(RaisesIn(acts))
      /\ Cardinality(RaisesIn(acts)) <= Cardinality(1..Len(acts))
  BY <1>3, <1>4, FS_Subset
<1>6. Cardinality(RaisesIn(acts)) \in Nat
  BY <1>5, FS_CardinalityType
<1> QED
  BY <1>4, <1>5, <1>6 DEF numRaises, acts

(* A raise of the tree is one the dealer accepts, of the size it has in    *)
(* the tree.                                                               *)
LEMMA RaiseOfTheTree ==
  ASSUME NEW q, OnTurn(state, q), NEW node, node = NodeOf(state),
         NEW i \in 1..Len(RaiseSizes(node)), NEW r, r = RaiseSizes(node)[i],
         NEW action, action = [type |-> "raise", size |-> Opp(node) + r]
  PROVE  IsAfter(BetNode(node, r), action)
PROOF
<1> DEFINE next == doAction(game, state, action)
           child == BetNode(node, r)
<1>0. InHand(state, q)
  BY DEF OnTurn
<1>1. /\ WellFormed(game, state) /\ ~state.finished /\ q \in {0, 1}
  BY <1>0 DEF InHand, Sound
<1>2. /\ state.spent[0] \in Nat /\ state.spent[1] \in Nat /\ state.maxSpent \in Nat
      /\ state.spent \in [{0, 1} -> Nat]
      /\ state.round \in {0, 1} /\ Len(CurrentActions(state)) \in Nat
      /\ state.minNoLimitRaiseTo \in Nat
  BY <1>1, StateFields
<1>3. /\ node = Node(state.round + 1, q + 1, <<state.spent[0], state.spent[1]>>, "inner")
      /\ IsDecision(node)
      /\ Own(node) = state.spent[q] /\ Opp(node) = state.spent[1 - q]
      /\ Opp(node) = state.maxSpent
  BY <1>0, NodeOfState
<1>4. /\ r \in Nat /\ r >= 1 /\ state.maxSpent + r <= stack
      /\ \/ state.maxSpent + r = stack
         \/ r >= ante /\ r >= state.maxSpent - state.spent[q]
  <2>1. RaiseSizes(node) \in Seq(Nat)
    BY <1>3, RaisesOfTheTree
  <2>2. r \in Nat
    BY <2>1
  <2> QED
    BY <2>2, <1>3, RaisesOfTheTree
<1>5. ante \in Nat \ {0} /\ stack \in Nat /\ game.stack[q] = stack
  BY <1>1, TheGame
<1>6. state.maxSpent < stack
  BY <1>2, <1>4, <1>5
<1>7. /\ Len(CurrentActions(state)) * ante <= state.maxSpent
      /\ state.minNoLimitRaiseTo = state.maxSpent + RaiseBy(state, q)
  BY <1>0, <1>6 DEF InHand
<1>8. currentPlayer(game, state) = q
  BY <1>0, Turn
<1>9. raiseIsValid(game, state)
  <2>1. PICK n \in Nat : n = Len(CurrentActions(state))
    BY <1>2
  <2>2. n < game.maxRaises[state.round] /\ n + 2 <= MAX_NUM_ACTIONS
    BY <2>1, <1>2, <1>6, <1>7, ActionsFit
  <2>3. numRaises(state) \in Nat /\ numRaises(state) <= n
    BY <1>1, <2>1, FewRaises
  <2>4. game.maxRaises[state.round] \in Nat
    <3>1. game.maxRaises \in [Rounds(game) -> Nat]
      BY TheGame DEF IsGame
    <3>2. Rounds(game) = {0, 1}
      BY TheGame
    <3> QED
      BY <3>1, <3>2, <1>2
  <2>5. numRaises(state) < game.maxRaises[state.round]
    BY <2>2, <2>3, <2>4
  <2>6. Len(CurrentActions(state)) + game.numPlayers <= MAX_NUM_ACTIONS
    BY <2>1, <2>2, TheGame
  <2>7. numActingPlayers(game, state) > 1
    <3>1. state.spent[q] < stack /\ state.spent[1 - q] < stack
      BY <1>0, <1>3, <1>6 DEF InHand
    <3>2. ActingPlayers(game, state) = {q, 1 - q}
      BY <3>1, <1>0, <1>1, <1>2, WhoCanAct DEF InHand
    <3>3. {q, 1 - q} = {0, 1}
      BY <1>1
    <3>4. Cardinality(ActingPlayers(game, state)) = 2
      BY <3>2, <3>3, PairCounts
    <3> QED
      BY <3>4 DEF numActingPlayers
  <2>8. state.maxSpent < game.stack[currentPlayer(game, state)]
    BY <1>5, <1>6, <1>8
  <2> QED
    BY <2>5, <2>6, <2>7, <2>8 DEF raiseIsValid
<1>10. action.size \in MinRaise(game, state)..MaxRaise(game, state)
  <2>1. MaxRaise(game, state) = stack
    BY <1>5, <1>8 DEF MaxRaise
  <2>2. MinRaise(game, state) = IF state.minNoLimitRaiseTo > stack THEN stack
                                ELSE state.minNoLimitRaiseTo
    BY <1>5, <1>8 DEF MinRaise
  <2>3. action.size = state.maxSpent + r
    BY <1>3
  <2>4. PICK low \in Nat : low = state.spent[q]
    BY <1>1, <1>2
  <2>5. PICK m \in Nat : m = state.maxSpent
    BY <1>2
  <2>6. state.minNoLimitRaiseTo = m + (IF m - low > ante THEN m - low ELSE ante)
    BY <2>4, <2>5, <1>7 DEF RaiseBy
  <2>7. m + r = stack \/ (r >= ante /\ r >= m - low)
    BY <2>4, <2>5, <1>4
  <2>8. m + r <= stack /\ m + r \in Int
    BY <2>5, <1>4
  <2>9. m + r \in MinRaise(game, state)..MaxRaise(game, state)
    BY <2>1, <2>2, <2>6, <2>7, <2>8, <1>4, <1>5
  <2> QED
    BY <2>3, <2>5, <2>9
<1>11. isValidAction(game, state, FALSE, action)
  BY <1>1, <1>9, <1>10 DEF isValidAction, ActionTypes
<1>12. action \in AskedActions /\ action.type = "raise"
  <2>1. Opp(node) + r \in Int
    BY <1>2, <1>3, <1>4
  <2> QED
    BY <2>1 DEF AskedActions, ActionTypes
<1>13. fixAction(game, state, action) = action
  <2>1. /\ MinRaise(game, state) \in Int /\ MaxRaise(game, state) \in Int
        /\ action.size \in Int
    <3>1. MaxRaise(game, state) = stack
      BY <1>5, <1>8 DEF MaxRaise
    <3>2. MinRaise(game, state) = IF state.minNoLimitRaiseTo > stack THEN stack
                                  ELSE state.minNoLimitRaiseTo
      BY <1>5, <1>8 DEF MinRaise
    <3>3. action.size = state.maxSpent + r
      BY <1>3
    <3>4. state.maxSpent + r \in Int
      BY <1>2, <1>4
    <3> QED
      BY <1>2, <1>5, <3>1, <3>2, <3>3, <3>4
  <2>2. ~(action.size < MinRaise(game, state)) /\ ~(action.size > MaxRaise(game, state))
    BY <2>1, <1>10
  <2>3. fixAction(game, state, action) = [action EXCEPT !.size = @]
    BY <2>2, <1>12, TheGame DEF fixAction
  <2> QED
    BY <2>3
<1>14. RaisePasses(state, q, action, next)
  BY <1>0, <1>11, <1>12, RaiseEffect
<1>15. /\ InHand(next, 1 - q) /\ next.round = state.round
       /\ next.spent = [state.spent EXCEPT ![q] = action.size]
  BY <1>14 DEF RaisePasses
<1>16. ~next.finished /\ ~(next.round > state.round)
  <2>1. ~next.finished
    BY <1>15 DEF InHand
  <2> QED
    BY <2>1, <1>15, <1>2
<1>17. NodeOf(next) = Node(state.round + 1, 2 - q, <<next.spent[0], next.spent[1]>>, "inner")
  <2>1. currentPlayer(game, next) = 1 - q
    BY <1>15, Turn
  <2>2. (1 - q) + 1 = 2 - q
    BY <1>1
  <2> QED
    BY <2>1, <2>2, <1>15 DEF NodeOf
<1>18. child.bets = <<next.spent[0], next.spent[1]>>
  <2>1. node.current_player = q + 1
    BY <1>3 DEF Node
  <2>2. next.spent[q] = Opp(node) + r /\ next.spent[1 - q] = Opp(node)
    <3>1. q \in {0, 1} /\ 1 - q \in {0, 1} /\ q # 1 - q
      BY <1>1
    <3>2. next.spent[q] = action.size /\ next.spent[1 - q] = state.spent[1 - q]
      BY <3>1, <1>2, <1>15
    <3> QED
      BY <3>2, <1>3
  <2> PICK bets : bets = child.bets
    OBVIOUS
  <2>5. /\ q + 1 = 1 => bets = <<Opp(node) + r, Opp(node)>>
        /\ q + 1 = 2 => bets = <<Opp(node), Opp(node) + r>>
    <3>1. IsDecision(node) /\ r \in Nat
      BY <1>3, <1>4
    <3> QED
      BY <2>1, <3>1, BetNodeFields
  <2>3. CASE q = 0
    <3>1. bets = <<Opp(node) + r, Opp(node)>>
      BY <2>3, <2>5
    <3>2. next.spent[0] = Opp(node) + r /\ next.spent[1] = Opp(node)
      BY <2>2, <2>3
    <3> QED
      BY <3>1, <3>2
  <2>4. CASE q = 1
    <3>1. bets = <<Opp(node), Opp(node) + r>>
      BY <2>4, <2>5
    <3>2. next.spent[1] = Opp(node) + r /\ next.spent[0] = Opp(node)
      BY <2>2, <2>4
    <3> QED
      BY <3>1, <3>2
  <2> QED
    BY <2>3, <2>4, <1>1
<1>19. child = NodeOf(next) /\ child.kind = "inner"
  <2>1. node.street = state.round + 1 /\ node.current_player = q + 1
    BY <1>3 DEF Node
  <2>2. Opponent(node.current_player) = 2 - q
    BY <2>1, <1>1 DEF Opponent
  <2>3. /\ child = Node(node.street, Opponent(node.current_player), child.bets, "inner")
        /\ child.kind = "inner"
    BY <1>3, <1>4, BetNodeFields
  <2> QED
    BY <2>1, <2>2, <2>3, <1>17, <1>18
<1> HIDE DEF child, next
<1>20. IsAfter(child, action)
  BY <1>11, <1>13, <1>16, <1>18, <1>19 DEF IsAfter, next
<1> QED
  BY <1>20 DEF child

(* The tree agrees with the rules in every state of a hand.                *)
LEMMA TreeFits ==
  ASSUME NEW q, OnTurn(state, q), NEW root, root = NodeOf(state), NEW i \in Playable(root)
  PROVE  IsAfter(children(root)[i], Answer(<< >>, actions(root)[i]).action)
PROOF
<1>1. InHand(state, q) /\ IsDecision(root)
  BY NodeOfState DEF OnTurn
<1>2. PICK k \in Nat : k = Len(RaiseSizes(root))
  BY <1>1, ChildrenOfANode
<1>3. i \in 1..k + 2
  BY <1>1, <1>2, ActionsOfANode DEF Playable
<1> PICK bet : bet = actions(root)[i]
  OBVIOUS
<1> PICK msg : msg = << >>
  OBVIOUS
<1>0. /\ (bet = Fold => Answer(msg, bet).action = [type |-> "fold", size |-> 0])
      /\ (bet = CCall => Answer(msg, bet).action = [type |-> "call", size |-> 0])
      /\ (bet \in Nat => Answer(msg, bet).action = [type |-> "raise", size |-> bet])
  <2>1. bet = Fold => Answer(msg, bet).action = [type |-> "fold", size |-> 0]
    BY DEF Answer, Fold, CCall
  <2>2. bet = CCall => Answer(msg, bet).action = [type |-> "call", size |-> 0]
    BY DEF Answer, Fold, CCall
  <2>3. bet \in Nat => Answer(msg, bet).action = [type |-> "raise", size |-> bet]
    BY AnswerOfATree
  <2> QED
    BY <2>1, <2>2, <2>3
<1>4. CASE i = 1
  <2>1. ~Level(root.bets)
    BY <1>4 DEF Playable, FreeFold
  <2>2. children(root)[i] = FoldNode(root) /\ bet = Fold
    BY <1>1, <1>4, ActionsOfANode
  <2>3. Answer(msg, bet).action = [type |-> "fold", size |-> 0]
    BY <2>2, <1>0
  <2> QED
    BY <2>1, <2>2, <2>3, FoldOfTheTree
<1>5. CASE i = 2
  <2>1. children(root)[i] = CallNode(root) /\ bet = CCall
    BY <1>1, <1>5, ActionsOfANode
  <2>2. Answer(msg, bet).action = [type |-> "call", size |-> 0]
    BY <2>1, <1>0
  <2> QED
    BY <2>1, <2>2, CallOfTheTree
<1>6. CASE i >= 3
  <2>1. i \in 3..Len(RaiseSizes(root)) + 2
    BY <1>2, <1>3, <1>6
  <2>2. PICK r : r = RaiseSizes(root)[i - 2]
    OBVIOUS
  <2>3. /\ i - 2 \in 1..Len(RaiseSizes(root))
        /\ children(root)[i] = BetNode(root, r)
        /\ bet = Opp(root) + r
        /\ bet \in Nat
    BY <1>1, <2>1, <2>2, ActionsOfANode
  <2>4. Answer(msg, bet).action = [type |-> "raise", size |-> Opp(root) + r]
    BY <2>3, <1>0
  <2>5. IsAfter(BetNode(root, r), Answer(<< >>, bet).action)
    BY <2>2, <2>3, <2>4, RaiseOfTheTree
  <2> QED
    BY <2>3, <2>5
<1> QED
  BY <1>3, <1>4, <1>5, <1>6

-----------------------------------------------------------------------------
(* The dealer and DeepStack.  DeepStack acts on the last state it was      *)
(* sent, and on no other.                                                  *)

Messages ==
  {Message(s, seat, number) : s \in StateType(game), seat \in {0, 1}, number \in Nat}

HandGoesOn ==
  hand \in Nat \ {0} /\ me \in {0, 1} /\ Proper(state)

(* The states before the last are not DeepStack's to act on.               *)
InboxIsOrdered ==
  /\ inbox \in Seq(Messages)
  /\ \A i \in 1..Len(inbox) - 1 : ~OurTurn(parse_state(inbox[i]))
  /\ inbox # << >> => inbox[Len(inbox)] = Message(state, me, hand)

AnswerIsAwaited ==
  answer # << >> =>
    /\ inbox = << >> /\ DeepStacksTurn
    /\ \E action \in AskedActions :
         answer = <<[to |-> Message(state, me, hand), action |-> action]>>

(* The fields of ds.                                                       *)
IsResolver(d) ==
  DOMAIN d = {"last_hand", "last_street", "last_node", "last_bet", "decision_id", "position",
              "range", "bound", "root", "given", "alive"}

Talk == HandGoesOn /\ InboxIsOrdered /\ AnswerIsAwaited /\ IsResolver(ds)

LEMMA StateIsTyped ==
  ASSUME NEW s, Proper(s)
  PROVE  /\ s \in StateType(game) /\ Sound(game, s) /\ WellFormed(game, s)
         /\ \A q : OnTurn(s, q) =>
              ~s.finished /\ currentPlayer(game, s) = q /\ q \in {0, 1}
         /\ s.finished <=> Over(s)
         /\ ~s.finished => OnTurn(s, currentPlayer(game, s))
PROOF
<1>1. \A q : OnTurn(s, q) => /\ ~s.finished /\ currentPlayer(game, s) = q
                             /\ q \in {0, 1} /\ Sound(game, s)
  BY Turn DEF OnTurn, InHand
<1>2. Over(s) => Sound(game, s) /\ s.finished
  BY DEF Over
<1>3. Sound(game, s) => WellFormed(game, s) /\ s \in StateType(game)
  BY DEF Sound, WellFormed
<1>4. Over(s) \/ \E q \in {0, 1} : OnTurn(s, q)
  BY DEF Proper
<1> QED
  BY <1>1, <1>2, <1>3, <1>4

(* DeepStack finds that it is to act in the dealer's state exactly when    *)
(* it is, and reads every state.                                           *)
LEMMA StateIsRead ==
  ASSUME NEW s, Proper(s), NEW seat \in {0, 1}, NEW number, NEW msg,
         msg = Message(s, seat, number), NEW parsed, parsed = parse_state(msg)
  PROVE  /\ ParserAsserts(msg)
         /\ OurTurn(parsed) <=> ~s.finished /\ currentPlayer(game, s) = seat
         /\ OurTurn(parsed) =>
              /\ OnTurn(s, seat)
              /\ parsed_state_to_node(parsed) = NodeOf(s)
              /\ parsed.position = seat + 1 /\ parsed.hand_number = number
              /\ parsed.current_street = s.round + 1
PROOF
<1>1. CASE s.finished
  <2>1. Over(s)
    BY <1>1, StateIsTyped
  <2>2. ParserAsserts(msg) /\ ~OurTurn(parsed)
    BY <2>1, FinishedHandIsRead
  <2> QED
    BY <2>2, <1>1
<1>2. CASE ~s.finished
  <2>1. PICK q \in {0, 1} : OnTurn(s, q) /\ currentPlayer(game, s) = q
    BY <1>2, StateIsTyped
  <2>2. InHand(s, q) /\ Told(s, q)
    BY <2>1 DEF OnTurn
  <2>3. /\ ParserAsserts(msg)
        /\ OurTurn(parsed) <=> q = seat
        /\ parsed.position = seat + 1 /\ parsed.hand_number = number
        /\ parsed.current_street = s.round + 1
        /\ q = seat => parsed_state_to_node(parsed) = NodeOf(s)
    BY <2>2, OpenHandIsRead
  <2> QED
    BY <2>1, <2>3, <1>2
<1> QED
  BY <1>1, <1>2

LEMMA InboxGrows ==
  ASSUME NEW old \in Seq(Messages), NEW m \in Messages,
         \A i \in 1..Len(old) - 1 : ~OurTurn(parse_state(old[i])),
         old # << >> => ~OurTurn(parse_state(old[Len(old)]))
  PROVE  LET new == Append(old, m)
         IN  /\ new \in Seq(Messages) /\ new[Len(new)] = m
             /\ \A i \in 1..Len(new) - 1 : ~OurTurn(parse_state(new[i]))
PROOF
<1> DEFINE new == Append(old, m)
<1>1. new \in Seq(Messages) /\ Len(new) = Len(old) + 1 /\ Len(old) \in Nat
  OBVIOUS
<1>2. new[Len(new)] = m /\ \A i \in 1..Len(old) : new[i] = old[i]
  OBVIOUS
<1> HIDE DEF new
<1>3. ASSUME NEW i \in 1..Len(new) - 1 PROVE ~OurTurn(parse_state(new[i]))
  <2>1. i \in 1..Len(old)
    BY <1>1
  <2>2. new[i] = old[i]
    BY <2>1, <1>2
  <2>3. CASE i = Len(old)
    <3>1. old # << >>
      BY <2>1
    <3> QED
      BY <3>1, <2>2, <2>3
  <2>4. CASE i # Len(old)
    <3>1. i \in 1..Len(old) - 1
      BY <2>1, <2>4, <1>1
    <3> QED
      BY <3>1, <2>2
  <2> QED
    BY <2>3, <2>4
<1> QED
  BY <1>1, <1>2, <1>3 DEF new

LEMMA MessagesAreSent ==
  ASSUME NEW s, Proper(s), NEW seat \in {0, 1}, NEW number \in Nat
  PROVE  Message(s, seat, number) \in Messages
PROOF
<1>1. s \in StateType(game)
  BY StateIsTyped
<1> QED
  BY <1>1 DEF Messages

(* An action leads from one state of a hand to another.                    *)
LEMMA HandStaysProper ==
  ASSUME NEW s, Proper(s), NEW action \in AskedActions,
         isValidAction(game, s, FALSE, action)
  PROVE  Proper(doAction(game, s, action))
PROOF
<1>1. ~s.finished
  BY DEF isValidAction
<1>2. PICK q \in {0, 1} : OnTurn(s, q)
  BY <1>1, StateIsTyped
<1>3. 1 - q \in {0, 1}
  OBVIOUS
<1> QED
  BY <1>2, <1>3, ProperAfter DEF Proper

(* Whatever the dealer makes of an answer is a valid action.               *)
LEMMA AcceptedIsValid ==
  ASSUME Proper(state), ~state.finished, NEW asked \in AskedActions
  PROVE  Accepted(asked) \in AskedActions /\ isValidAction(game, state, FALSE, Accepted(asked))
PROOF
<1>1. Sound(game, state) /\ IsGame(game)
  BY StateIsTyped, TheGame
<1>2. CASE isValidAction(game, state, TRUE, asked)
  BY <1>1, <1>2, FixedActionIsValid DEF Accepted
<1>3. CASE ~isValidAction(game, state, TRUE, asked)
  <2>1. Accepted(asked) = Calls
    BY <1>3 DEF Accepted
  <2>2. Calls \in AskedActions /\ isValidAction(game, state, FALSE, Calls)
    BY DEF Calls, AskedActions, ActionTypes, isValidAction
  <2> QED
    BY <2>1, <2>2
<1> QED
  BY <1>2, <1>3

LEMMA FirstNodeIsADecision ==
  IsDecision(FirstNode) /\ Own(FirstNode) = ante /\ Opp(FirstNode) = ante
PROOF
<1>1. ante \in Nat /\ stack \in Nat /\ ante < stack
  BY TheGame
<1>2. Own(FirstNode) = ante /\ Opp(FirstNode) = ante
  BY DEF Own, Opp, FirstNode, Node, P1, Opponent
<1>3. FirstNode = Node(1, 1, <<ante, ante>>, "inner")
  BY DEF FirstNode, P1
<1>4. /\ Own(FirstNode) <= Opp(FirstNode) /\ Opp(FirstNode) <= stack
      /\ Own(FirstNode) < stack /\ ante <= Own(FirstNode)
  BY <1>1, <1>2
<1>5. 1 \in {1, 2} /\ ante \in Nat
  BY <1>1
<1>6. IsDecision(FirstNode)
  BY <1>3, <1>4, <1>5, Zenon DEF IsDecision
<1> QED
  BY <1>2, <1>6

LEMMA ResolverStays ==
  ASSUME NEW d, IsResolver(d), NEW parsed, NEW node, NEW i
  PROVE  /\ IsResolver(start_new_hand(d, parsed)) /\ IsResolver(resolve_node(d, node))
         /\ IsResolver(Decided(d, parsed, node, i))
         /\ IsResolver([d EXCEPT !.alive = FALSE])
         /\ resolve_node(d, node).root \in {FirstNode, node}
PROOF
<1>1. IsResolver(start_new_hand(d, parsed)) /\ IsResolver([d EXCEPT !.alive = FALSE])
  BY DEF IsResolver, start_new_hand
<1>2. \A e : IsResolver(e) => IsResolver(Resolve(e, node)) /\ Resolve(e, node).root = node
  BY DEF IsResolver, Resolve
<1>3. IsResolver(update_invariant(d, node))
  <2>1. \A v : IsResolver([d EXCEPT !.bound = v])
    BY DEF IsResolver
  <2>2. \A r, v : IsResolver([d EXCEPT !.range = r, !.bound = v])
    BY DEF IsResolver
  <2> QED
    BY <2>1, <2>2 DEF update_invariant
<1>4. \A r, n, v :
         LET e == [d EXCEPT !.range = r, !.root = n, !.given = v]
         IN  IsResolver(e) /\ e.root = n
  BY DEF IsResolver
<1>5. IsResolver(resolve_node(d, node)) /\ resolve_node(d, node).root \in {FirstNode, node}
  BY <1>2, <1>3, <1>4 DEF resolve_node
<1>6. IsResolver(Decided(d, parsed, node, i))
  <2>1. \A b, r, n, bet, h, st :
          IsResolver([d EXCEPT !.bound = b, !.range = r, !.decision_id = n, !.last_bet = bet,
                               !.last_node = node, !.last_hand = h, !.last_street = st])
    BY DEF IsResolver
  <2> QED
    BY <2>1 DEF Decided
<1> QED
  BY <1>1, <1>5, <1>6

(* DeepStack acts when it is its turn, on the only state it has not read.  *)
Deciding(solved, i, parsed, d) ==
  /\ solved = resolve_node(d, NodeOf(state)) /\ i \in Playable(solved.root)
  /\ ds' = Decided(solved, parsed, NodeOf(state), i)
  /\ answer' = <<Answer(Message(state, me, hand), actions(solved.root)[i])>>
  /\ answer' = <<[to |-> Message(state, me, hand),
                  action |-> Answer(<< >>, actions(solved.root)[i]).action]>>

LEMMA DeepStackDecides ==
  ASSUME Talk, DeepStackPlays
  PROVE  /\ answer = << >> /\ inbox # << >> /\ inbox' = << >> /\ OnTurn(state, me)
         /\ UNCHANGED <<hand, me, state, played, since>>
         /\ \E parsed, d :
              /\ parsed = parse_state(Message(state, me, hand)) /\ ds.alive
              /\ d = IF IsNewHand(ds, parsed) THEN start_new_hand(ds, parsed) ELSE ds
              /\ IsResolver(d)
              /\ \/ /\ ResolveAsserts(d, NodeOf(state))
                    /\ \E solved, i : Deciding(solved, i, parsed, d)
                 \/ /\ ~ResolveAsserts(d, NodeOf(state))
                    /\ ds' = [ds EXCEPT !.alive = FALSE] /\ answer' = << >>
PROOF
<1>1. inbox # << >> /\ inbox \in Seq(Messages) /\ ds.alive /\ inbox' = Tail(inbox)
  BY DEF DeepStackPlays, CanRead, Talk, InboxIsOrdered
<1>2. answer = << >>
  BY <1>1 DEF Talk, AnswerIsAwaited
<1>3. Head(inbox) = inbox[1] /\ Len(inbox) \in Nat /\ Len(inbox) >= 1
  BY <1>1
<1>4. OurTurn(parse_state(inbox[1]))
  BY <1>3 DEF DeepStackPlays
<1>5. Len(inbox) = 1
  <2>1. \A i \in 1..Len(inbox) - 1 : ~OurTurn(parse_state(inbox[i]))
    BY DEF Talk, InboxIsOrdered
  <2>2. ~(1 \in 1..Len(inbox) - 1)
    BY <2>1, <1>4
  <2>3. PICK n \in Nat : n = Len(inbox)
    BY <1>3
  <2>4. n >= 1
    BY <1>3, <2>3
  <2>5. ~(1 \in 1..n - 1)
    BY <2>2, <2>3
  <2>6. n = 1
    BY <2>4, <2>5
  <2> QED
    BY <2>3, <2>6
<1>6. inbox' = << >>
  <2>1. Tail(inbox) \in Seq(Messages) /\ Len(Tail(inbox)) = 0
    BY <1>1, <1>5
  <2> QED
    BY <1>1, <2>1
<1> PICK msg : msg = Message(state, me, hand)
  OBVIOUS
<1> PICK parsed : parsed = parse_state(msg)
  OBVIOUS
<1> PICK d : d = IF IsNewHand(ds, parsed) THEN start_new_hand(ds, parsed) ELSE ds
  OBVIOUS
<1> PICK node : node = NodeOf(state)
  OBVIOUS
<1>12. IsResolver(d)
  BY ResolverStays DEF Talk
<1>7. Head(inbox) = msg
  BY <1>1, <1>3, <1>5 DEF Talk, InboxIsOrdered
<1>8. /\ ParserAsserts(msg) /\ OnTurn(state, me) /\ parsed_state_to_node(parsed) = node
  <2>1. OurTurn(parsed)
    BY <1>3, <1>4, <1>7
  <2>2. Proper(state) /\ me \in {0, 1}
    BY DEF Talk, HandGoesOn
  <2> QED
    BY <2>1, <2>2, StateIsRead
<1>9. Plays(msg, parsed, node, d)
  BY <1>7, <1>8, Zenon DEF DeepStackPlays
<1>10. CASE ResolveAsserts(d, node)
  <2>1. PICK solved, i :
          /\ solved = resolve_node(d, node) /\ i \in Playable(solved.root)
          /\ ds' = Decided(solved, parsed, node, i)
          /\ answer' = Append(answer, Answer(msg, actions(solved.root)[i]))
    BY <1>8, <1>9, <1>10, Zenon DEF Plays
  <2>2. answer' = <<Answer(msg, actions(solved.root)[i])>>
    BY <2>1, <1>2
  <2>3. Answer(msg, actions(solved.root)[i]) =
          [to |-> msg, action |-> Answer(<< >>, actions(solved.root)[i]).action]
    BY DEF Answer
  <2>4. Deciding(solved, i, parsed, d)
    BY <2>1, <2>2, <2>3 DEF Deciding
  <2> QED
    BY <1>10, <1>12, <2>4, <1>1, <1>2, <1>6, <1>8 DEF DeepStackPlays
<1>11. CASE ~ResolveAsserts(d, node)
  <2>1. ds' = [ds EXCEPT !.alive = FALSE] /\ answer' = answer
    BY <1>9, <1>11, Zenon DEF Plays
  <2> QED
    BY <1>11, <1>12, <2>1, <1>1, <1>2, <1>6, <1>8 DEF DeepStackPlays
<1> QED
  BY <1>10, <1>11

LEMMA TalkBegins ==
  Init => Talk
PROOF
<1> SUFFICES ASSUME Init PROVE Talk
  OBVIOUS
<1>1. Proper(state)
  BY NewHandIsProper DEF Init, Proper
<1>2. hand = 1 /\ me \in {0, 1} /\ answer = << >> /\ inbox = <<Message(state, me, hand)>>
  BY DEF Init
<1>3. Message(state, me, hand) \in Messages
  BY <1>1, <1>2, MessagesAreSent
<1>4. HandGoesOn
  BY <1>1, <1>2 DEF HandGoesOn
<1>5. InboxIsOrdered
  <2>1. PICK m \in Messages : m = Message(state, me, hand) /\ inbox = <<m>>
    BY <1>2, <1>3
  <2>2. inbox \in Seq(Messages) /\ Len(inbox) = 1 /\ inbox[1] = m
    BY <2>1
  <2> QED
    BY <2>1, <2>2 DEF InboxIsOrdered
<1>6. IsResolver(ds)
  BY DEF Init, JustStarted, IsResolver
<1> QED
  BY <1>2, <1>4, <1>5, <1>6 DEF Talk, AnswerIsAwaited

(* A state that is not DeepStack's to act on is followed by another.       *)
LEMMA TalkGoesOn ==
  ASSUME Talk, ~DeepStacksTurn \/ inbox = << >>,
         HandGoesOn', inbox' = Append(inbox, Message(state', me', hand')),
         answer' = << >>, ds' = ds
  PROVE  Talk'
PROOF
<1>1. Proper(state) /\ me \in {0, 1} /\ hand \in Nat
  BY DEF Talk, HandGoesOn
<1>2. Proper(state') /\ me' \in {0, 1} /\ hand' \in Nat
  BY DEF HandGoesOn
<1>3. Message(state', me', hand') \in Messages
  BY <1>2, MessagesAreSent
<1>4. /\ inbox \in Seq(Messages)
      /\ \A i \in 1..Len(inbox) - 1 : ~OurTurn(parse_state(inbox[i]))
      /\ inbox # << >> => inbox[Len(inbox)] = Message(state, me, hand)
  BY DEF Talk, InboxIsOrdered
<1>5. inbox # << >> => ~OurTurn(parse_state(inbox[Len(inbox)]))
  <2>1. ~DeepStacksTurn => ~OurTurn(parse_state(Message(state, me, hand)))
    BY <1>1, StateIsRead DEF DeepStacksTurn
  <2> QED
    BY <2>1, <1>4
<1>6. /\ inbox' \in Seq(Messages) /\ inbox'[Len(inbox')] = Message(state', me', hand')
      /\ \A i \in 1..Len(inbox') - 1 : ~OurTurn(parse_state(inbox'[i]))
  BY <1>3, <1>4, <1>5, InboxGrows
<1> QED
  BY <1>6 DEF Talk, InboxIsOrdered, AnswerIsAwaited

LEMMA TalkDoes ==
  ASSUME Talk, ~state.finished, ~DeepStacksTurn \/ inbox = << >>, UNCHANGED <<hand, me, ds>>,
         NEW action \in AskedActions, isValidAction(game, state, FALSE, action),
         Does(action), answer' = << >>
  PROVE  Talk'
PROOF
<1>1. Proper(state) /\ me \in {0, 1} /\ hand \in Nat \ {0}
  BY DEF Talk, HandGoesOn
<1>2. state' = doAction(game, state, action) /\ inbox' = Append(inbox, Message(state', me', hand'))
  BY DEF Does
<1>3. Proper(state')
  BY <1>1, <1>2, HandStaysProper
<1>4. HandGoesOn'
  BY <1>1, <1>3 DEF HandGoesOn
<1> QED
  BY <1>2, <1>4, TalkGoesOn

LEMMA TheOpponentActs ==
  ASSUME Talk, OpponentActs
  PROVE  /\ ~state.finished /\ ~DeepStacksTurn /\ currentPlayer(game, state) # me
         /\ OnTurn(state, 1 - me) /\ answer = << >>
         /\ \E action \in AskedActions :
              /\ action.type # "raise" => action.size = 0
              /\ isValidAction(game, state, FALSE, action) /\ Does(action)
         /\ since' = IF state'.round # state.round THEN AfterStreet ELSE since
         /\ UNCHANGED <<hand, me, answer, ds, played>>
PROOF
<1>1. ~state.finished /\ ~DeepStacksTurn /\ currentPlayer(game, state) # me
  BY DEF OpponentActs, OpponentsTurn, DeepStacksTurn
<1>2. answer = << >>
  BY <1>1 DEF Talk, AnswerIsAwaited
<1>3. OnTurn(state, 1 - me)
  <2>1. Proper(state) /\ me \in {0, 1}
    BY DEF Talk, HandGoesOn
  <2>2. PICK q \in {0, 1} : OnTurn(state, q) /\ currentPlayer(game, state) = q
    BY <2>1, <1>1, StateIsTyped
  <2>3. q = 1 - me
    BY <2>1, <2>2, <1>1
  <2> QED
    BY <2>2, <2>3
<1>4. PICK type \in ActionTypes, size \in 0..stack :
         /\ type # "raise" => size = 0
         /\ isValidAction(game, state, FALSE, [type |-> type, size |-> size])
         /\ Does([type |-> type, size |-> size])
  BY DEF OpponentActs
<1>5. [type |-> type, size |-> size] \in AskedActions
  BY <1>4, TheGame DEF AskedActions
<1>6. PICK action \in AskedActions : action = [type |-> type, size |-> size]
  BY <1>5
<1>7. action.type # "raise" => action.size = 0
  BY <1>4, <1>6
<1> QED
  BY <1>1, <1>2, <1>3, <1>4, <1>6, <1>7 DEF OpponentActs

LEMMA TheAnswerIsTaken ==
  ASSUME Talk, DealerTakesAnswer
  PROVE  /\ DeepStacksTurn /\ inbox = << >> /\ answer' = << >> /\ OnTurn(state, me)
         /\ \E asked \in AskedActions :
              /\ answer = <<[to |-> Message(state, me, hand), action |-> asked]>>
              /\ Accepted(asked) \in AskedActions
              /\ isValidAction(game, state, FALSE, Accepted(asked)) /\ Does(Accepted(asked))
              /\ played' = Append(played, [root |-> NodeOf(state), bet |-> BetName(Accepted(asked))])
         /\ since' = AfterStreet /\ UNCHANGED <<hand, me, ds>>
PROOF
<1>1. answer # << >> /\ DeepStacksTurn /\ inbox = << >>
  BY DEF DealerTakesAnswer, AnswerIsThere, Talk, AnswerIsAwaited
<1>2. PICK asked \in AskedActions :
         answer = <<[to |-> Message(state, me, hand), action |-> asked]>>
  BY <1>1 DEF Talk, AnswerIsAwaited
<1>3. answer[1].action = asked /\ Tail(answer) = << >>
  BY <1>2
<1>4. Proper(state) /\ ~state.finished /\ currentPlayer(game, state) = me
  BY <1>1 DEF Talk, HandGoesOn, DeepStacksTurn
<1>5. Accepted(asked) \in AskedActions /\ isValidAction(game, state, FALSE, Accepted(asked))
  BY <1>4, AcceptedIsValid
<1>6. OnTurn(state, me)
  BY <1>4, StateIsTyped
<1> QED
  BY <1>1, <1>2, <1>3, <1>5, <1>6 DEF DealerTakesAnswer

LEMMA TalkStep ==
  Talk /\ [Next]_vars => Talk'
PROOF
<1> SUFFICES ASSUME Talk, [Next]_vars PROVE Talk'
  OBVIOUS
<1>0. Proper(state) /\ me \in {0, 1} /\ hand \in Nat \ {0}
  BY DEF Talk, HandGoesOn
<1>1. CASE DeepStackSkips
  <2>1. /\ inbox # << >> /\ inbox' = Tail(inbox) /\ inbox \in Seq(Messages)
        /\ UNCHANGED <<hand, me, state, answer, ds>>
    BY <1>1 DEF DeepStackSkips, CanRead, Talk, InboxIsOrdered
  <2>2. answer = << >>
    BY <2>1 DEF Talk, AnswerIsAwaited
  <2>3. /\ inbox' \in Seq(Messages) /\ Len(inbox') = Len(inbox) - 1 /\ Len(inbox) \in Nat
        /\ \A i \in 1..Len(inbox') : inbox'[i] = inbox[i + 1]
    BY <2>1, HeadTailProperties
  <2>4. ASSUME NEW i \in 1..Len(inbox') - 1 PROVE ~OurTurn(parse_state(inbox'[i]))
    <3>1. i \in 1..Len(inbox') /\ i + 1 \in 1..Len(inbox) - 1
      BY <2>3
    <3> QED
      BY <3>1, <2>3 DEF Talk, InboxIsOrdered
  <2>5. ASSUME inbox' # << >> PROVE inbox'[Len(inbox')] = Message(state, me, hand)
    <3>1. Len(inbox') # 0 /\ Len(inbox') \in Nat
      BY <2>3, <2>5
    <3>2. Len(inbox') \in 1..Len(inbox') /\ Len(inbox') + 1 = Len(inbox)
      BY <3>1, <2>3
    <3>3. inbox'[Len(inbox')] = inbox[Len(inbox)]
      BY <3>2, <2>3
    <3> QED
      BY <3>3, <2>1 DEF Talk, InboxIsOrdered
  <2> QED
    BY <2>1, <2>2, <2>3, <2>4, <2>5
       DEF Talk, HandGoesOn, InboxIsOrdered, AnswerIsAwaited
<1>2. CASE DeepStackPlays
  <2>1. /\ inbox' = << >> /\ OnTurn(state, me) /\ UNCHANGED <<hand, me, state>>
    BY <1>2, DeepStackDecides
  <2>2. \/ answer' = << >>
        \/ \E solved, i, parsed, d : IsResolver(d) /\ Deciding(solved, i, parsed, d)
    BY <1>2, DeepStackDecides, Zenon
  <2>6. IsResolver(ds')
    <3>1. IsResolver(ds)
      BY DEF Talk
    <3>2. \/ ds' = [ds EXCEPT !.alive = FALSE]
          \/ \E solved, i, parsed, d :
               /\ IsResolver(d) /\ solved = resolve_node(d, NodeOf(state))
               /\ ds' = Decided(solved, parsed, NodeOf(state), i)
      BY <1>2, DeepStackDecides, Zenon DEF Deciding
    <3>3. ASSUME NEW solved, NEW i, NEW parsed, NEW d,
                 IsResolver(d) /\ solved = resolve_node(d, NodeOf(state)),
                 ds' = Decided(solved, parsed, NodeOf(state), i)
          PROVE  IsResolver(ds')
      BY <3>3, ResolverStays
    <3> QED
      BY <3>1, <3>2, <3>3, ResolverStays
  <2>3. DeepStacksTurn
    BY <2>1, <1>0, StateIsTyped DEF DeepStacksTurn
  <2>4. InboxIsOrdered' /\ HandGoesOn'
    BY <2>1 DEF InboxIsOrdered, HandGoesOn, Talk
  <2>5. AnswerIsAwaited'
    <3>1. CASE answer' = << >>
      BY <3>1 DEF AnswerIsAwaited
    <3>2. ASSUME NEW solved, NEW i, NEW parsed, NEW d, IsResolver(d),
                 Deciding(solved, i, parsed, d)
          PROVE  AnswerIsAwaited'
      <4>1. solved.root = FirstNode \/ solved.root = NodeOf(state)
        <5>1. solved = resolve_node(d, NodeOf(state))
          BY <3>2 DEF Deciding
        <5> QED
          BY <5>1, <3>2, ResolverStays
      <4>2. IsDecision(solved.root)
        BY <4>1, <2>1, FirstNodeIsADecision, NodeOfState DEF OnTurn
      <4>3. i \in ActionIds(solved.root)
        BY <3>2 DEF Deciding, Playable
      <4>4. Answer(<< >>, actions(solved.root)[i]).action \in AskedActions
        BY <4>2, <4>3, AnswersAreAsked
      <4>5. answer' = <<[to |-> Message(state, me, hand),
                         action |-> Answer(<< >>, actions(solved.root)[i]).action]>>
        BY <3>2 DEF Deciding
      <4>6. \E action \in AskedActions :
              answer' = <<[to |-> Message(state, me, hand), action |-> action]>>
        BY <4>4, <4>5, Zenon
      <4>7. DeepStacksTurn' /\ Message(state, me, hand)' = Message(state, me, hand)
        BY <2>1, <2>3 DEF DeepStacksTurn
      <4> QED
        BY <4>6, <4>7, <2>1 DEF AnswerIsAwaited
    <3> QED
      BY <2>2, <3>1, <3>2
  <2>7. IsResolver(ds)'
    BY <2>6
  <2> QED
    BY <2>4, <2>5, <2>7 DEF Talk
<1>3. CASE DealerTakesAnswer
  <2>1. /\ ~state.finished /\ inbox = << >> /\ answer' = << >> /\ UNCHANGED <<hand, me, ds>>
    BY <1>3, TheAnswerIsTaken DEF DeepStacksTurn
  <2>2. PICK action \in AskedActions :
          isValidAction(game, state, FALSE, action) /\ Does(action)
    BY <1>3, TheAnswerIsTaken, Zenon
  <2> QED
    BY <2>1, <2>2, TalkDoes
<1>4. CASE OpponentActs
  <2>1. /\ ~state.finished /\ ~DeepStacksTurn /\ answer' = << >> /\ UNCHANGED <<hand, me, ds>>
    BY <1>4, TheOpponentActs
  <2>2. PICK action \in AskedActions :
          isValidAction(game, state, FALSE, action) /\ Does(action)
    BY <1>4, TheOpponentActs
  <2> QED
    BY <2>1, <2>2, TalkDoes
<1>5. CASE NextHand
  <2>1. /\ state.finished /\ hand' = hand + 1 /\ me' = 1 - me /\ state' = initState(game)
        /\ inbox' = Append(inbox, Message(state', me', hand')) /\ answer' = answer /\ ds' = ds
    BY <1>5 DEF NextHand, AnotherHand
  <2>2. Proper(state')
    BY <2>1, NewHandIsProper DEF Proper
  <2>3. HandGoesOn'
    BY <2>1, <2>2, <1>0 DEF HandGoesOn
  <2>4. ~DeepStacksTurn /\ answer = << >>
    BY <2>1 DEF DeepStacksTurn, Talk, AnswerIsAwaited
  <2> QED
    BY <2>1, <2>3, <2>4, TalkGoesOn
<1>6. CASE UNCHANGED vars
  BY <1>6 DEF vars, Talk, HandGoesOn, InboxIsOrdered, AnswerIsAwaited, DeepStacksTurn
<1> QED
  BY <1>1, <1>2, <1>3, <1>4, <1>5, <1>6 DEF Next

LEMMA TalkIsInvariant ==
  Spec => []Talk
PROOF
<1> QED
  BY TalkBegins, TalkStep, PTL DEF Spec

(* For every ante, stack, bet sizing and length of the match: DeepStack    *)
(* reads in every state of every hand whose turn it is and what the bets   *)
(* are, none of its parser's assertions fails, and it has an answer on its *)
(* way only to the state the dealer waits for it in.                       *)
THEOREM DeepStackReadsTheState ==
  Spec => []ReadsTheState
PROOF
<1>1. Talk => ReadsTheState
  <2> SUFFICES ASSUME Talk PROVE ReadsTheState
    OBVIOUS
  <2>1. Proper(state)
    BY DEF Talk, HandGoesOn
  <2>2. ASSUME NEW seat \in 0..1
        PROVE  LET msg == Message(state, seat, hand)
                   parsed == parse_state(msg)
               IN  /\ ParserAsserts(msg)
                   /\ OurTurn(parsed) <=>
                        ~state.finished /\ currentPlayer(game, state) = seat
                   /\ OurTurn(parsed) => parsed_state_to_node(parsed) = NodeOf(state)
    <3>1. seat \in {0, 1}
      OBVIOUS
    <3> QED
      BY <2>1, <3>1, StateIsRead
  <2>3. ASSUME NEW i \in DOMAIN answer
        PROVE  DeepStacksTurn /\ answer[i].to = Message(state, me, hand)
    <3>1. answer # << >>
      BY <2>3
    <3>2. PICK action \in AskedActions :
            answer = <<[to |-> Message(state, me, hand), action |-> action]>>
      BY <3>1 DEF Talk, AnswerIsAwaited
    <3>3. i = 1
      BY <3>2
    <3>4. answer[i].to = Message(state, me, hand)
      BY <3>2, <3>3
    <3> QED
      BY <3>1, <3>4 DEF Talk, AnswerIsAwaited
  <2> QED
    BY <2>2, <2>3 DEF ReadsTheState
<1> QED
  BY <1>1, TalkIsInvariant, PTL

(* And its tree is a part of the game: every action but the fold that      *)
(* costs nothing is one the dealer accepts as it is, and leads to the node *)
(* the tree has for it.                                                    *)
THEOREM DeepStacksTreeIsTheGame ==
  Spec => []TreeIsTheGame
PROOF
<1>1. Talk => TreeIsTheGame
  <2> SUFFICES ASSUME Talk, ~state.finished,
                      NEW root, root = NodeOf(state), NEW i \in Playable(root)
               PROVE  IsAfter(children(root)[i], Answer(<< >>, actions(root)[i]).action)
    BY Zenon DEF TreeIsTheGame
  <2>1. PICK q : OnTurn(state, q)
    BY StateIsTyped DEF Talk, HandGoesOn
  <2> QED
    BY <2>1, TreeFits
<1> QED
  BY <1>1, TalkIsInvariant, PTL

-----------------------------------------------------------------------------
(* The layers of a tree and the cells of a lookahead.                      *)

Entries(s) == {s[m] : m \in 1..Len(s)}

LEMMA ConcatEntries ==
  ASSUME NEW S, NEW a \in Seq(S), NEW b \in Seq(S)
  PROVE  a \o b \in Seq(S) /\ Entries(a \o b) = Entries(a) \cup Entries(b)
PROOF
<1>1. /\ a \o b \in Seq(S) /\ Len(a \o b) = Len(a) + Len(b)
      /\ \A i \in 1..Len(a) + Len(b) :
           (a \o b)[i] = IF i <= Len(a) THEN a[i] ELSE b[i - Len(a)]
  BY ConcatProperties
<1> PICK c : c = a \o b
  OBVIOUS
<1> PICK m \in Nat, n \in Nat : m = Len(a) /\ n = Len(b)
  BY LenProperties
<1>2. c \in Seq(S) /\ Len(c) = m + n
  BY <1>1
<1>3. \A i \in 1..m + n : c[i] = IF i <= m THEN a[i] ELSE b[i - m]
  BY <1>1
<1>4. ASSUME NEW x \in Entries(c) PROVE x \in Entries(a) \cup Entries(b)
  <2>1. PICK i \in 1..m + n : x = c[i]
    BY <1>2 DEF Entries
  <2>2. CASE i <= m
    <3>1. i \in 1..m /\ x = a[i]
      BY <2>1, <2>2, <1>3
    <3> QED
      BY <3>1 DEF Entries
  <2>3. CASE ~(i <= m)
    <3>1. i - m \in 1..n /\ x = b[i - m]
      BY <2>1, <2>3, <1>3
    <3> QED
      BY <3>1 DEF Entries
  <2> QED
    BY <2>2, <2>3
<1>5. ASSUME NEW x \in Entries(a) PROVE x \in Entries(c)
  <2>1. PICK i \in 1..m : x = a[i]
    BY DEF Entries
  <2>2. i \in 1..m + n /\ x = c[i]
    BY <2>1, <1>3
  <2> QED
    BY <2>2, <1>2 DEF Entries
<1>6. ASSUME NEW x \in Entries(b) PROVE x \in Entries(c)
  <2>1. PICK i \in 1..n : x = b[i]
    BY DEF Entries
  <2>2. m + i \in 1..m + n /\ ~(m + i <= m) /\ (m + i) - m = i
    OBVIOUS
  <2>3. x = c[m + i]
    BY <2>1, <2>2, <1>3
  <2> QED
    BY <2>2, <2>3, <1>2 DEF Entries
<1> QED
  BY <1>2, <1>4, <1>5, <1>6

(* What FlattenSeq() puts together.                                        *)
IsFlattened(seqs, f) ==
  f = [i \in 1..Len(seqs) |-> IF i = 1 THEN seqs[i] ELSE f[i - 1] \o seqs[i]]

LEMMA FlattenedExists ==
  ASSUME NEW S, NEW seqs \in Seq(Seq(S)), seqs # << >>
  PROVE  \E f : IsFlattened(seqs, f)
PROOF
<1> PICK n \in Nat : n = Len(seqs)
  BY LenProperties
<1>1. \A i \in 1..n : seqs[i] \in Seq(S)
  BY ElementOfSeq
<1> DEFINE step == [p \in Seq(S) \X (1..n) |-> p[1] \o seqs[p[2]]]
<1>2. step \in [Seq(S) \X (1..n) -> Seq(S)]
  <2>1. ASSUME NEW p \in Seq(S) \X (1..n) PROVE p[1] \o seqs[p[2]] \in Seq(S)
    <3>1. p[1] \in Seq(S) /\ seqs[p[2]] \in Seq(S)
      BY <1>1
    <3> QED
      BY <3>1, ConcatProperties
  <2> QED
    BY <2>1
<1>3. << >> \in Seq(S)
  BY EmptySeq
<1>4. \A x \in Seq(S), i \in 1..n : step[<<x, i>>] = x \o seqs[i]
  OBVIOUS
<1> HIDE DEF step
<1>5. StepsIn(Seq(S), << >>, n, step)
  BY <1>2, <1>3 DEF StepsIn
<1>6. PICK g : IsSteps(Seq(S), << >>, n, step, g)
  BY <1>5, StepByStep
<1>7. /\ \A i \in 0..n : g[i] \in Seq(S)
      /\ g[0] = << >>
      /\ \A i \in 1..n : g[i] = step[<<g[i - 1], i>>]
  BY <1>6 DEF IsSteps
<1>8. ASSUME NEW i \in 1..n
      PROVE  g[i] = IF i = 1 THEN seqs[i] ELSE g[i - 1] \o seqs[i]
  <2>1. i - 1 \in 0..n
    OBVIOUS
  <2>2. g[i] = g[i - 1] \o seqs[i]
    BY <1>4, <1>7, <2>1
  <2>3. CASE i = 1
    <3>1. g[i - 1] = << >>
      BY <2>3, <1>7
    <3>2. seqs[i] \in Seq(S)
      BY <1>1
    <3>3. << >> \o seqs[i] = seqs[i]
      BY <3>2, ConcatEmptySeq
    <3> QED
      BY <2>2, <2>3, <3>1, <3>3
  <2> QED
    BY <2>2, <2>3
<1> DEFINE f == [i \in 1..n |-> g[i]]
<1>9. ASSUME NEW i \in 1..n
      PROVE  f[i] = IF i = 1 THEN seqs[i] ELSE f[i - 1] \o seqs[i]
  <2>1. CASE i = 1
    BY <2>1, <1>8
  <2>2. CASE i # 1
    <3>1. i - 1 \in 1..n
      BY <2>2
    <3>2. f[i] = g[i] /\ f[i - 1] = g[i - 1]
      BY <3>1
    <3> QED
      BY <3>2, <2>2, <1>8
  <2> QED
    BY <2>1, <2>2
<1>10. f = [i \in 1..n |-> f[i]]
  OBVIOUS
<1> HIDE DEF f
<1>11. f = [i \in 1..n |-> IF i = 1 THEN seqs[i] ELSE f[i - 1] \o seqs[i]]
  BY <1>9, <1>10
<1> QED
  BY <1>11 DEF IsFlattened

LEMMA Flattened ==
  ASSUME NEW S, NEW seqs \in Seq(Seq(S)), seqs # << >>,
         NEW flat, flat = FlattenSeq(seqs)
  PROVE  /\ flat \in Seq(S)
         /\ Entries(flat) = UNION {Entries(seqs[k]) : k \in 1..Len(seqs)}
         /\ Len(seqs) = 1 => flat = seqs[1]
PROOF
<1> PICK n \in Nat : n = Len(seqs)
  BY LenProperties
<1>0. n >= 1
  BY EmptySeq
<1>1. PICK f : IsFlattened(seqs, f) /\ flat = f[n]
  <2>1. \E f : IsFlattened(seqs, f)
    BY FlattenedExists
  <2>2. flat = (CHOOSE f : IsFlattened(seqs, f))[Len(seqs)]
    <3>1. Len(seqs) # 0
      BY <1>0
    <3> QED
      BY <3>1, Zenon DEF FlattenSeq, IsFlattened
  <2> QED
    BY <2>1, <2>2
<1>2. \A i \in 1..n : f[i] = IF i = 1 THEN seqs[i] ELSE f[i - 1] \o seqs[i]
  BY <1>1 DEF IsFlattened
<1>3. \A i \in 1..n : seqs[i] \in Seq(S)
  BY ElementOfSeq
<1> DEFINE First(i) == UNION {Entries(seqs[k]) : k \in 1..i}
           Good(i) == f[i] \in Seq(S) /\ Entries(f[i]) = First(i)
           Bad == {i \in 1..n : ~Good(i)}
<1>4. Bad = {}
  <2> SUFFICES ASSUME Bad # {} PROVE FALSE
    OBVIOUS
  <2>1. PICK i \in Bad : \A j \in Bad : i <= j
    <3>1. Bad \subseteq Nat
      OBVIOUS
    <3> HIDE DEF Bad
    <3> QED
      BY <3>1, MinOfNats
  <2>2. i \in 1..n /\ ~Good(i)
    BY <2>1
  <2>3. CASE i = 1
    <3>1. f[i] = seqs[1] /\ seqs[1] \in Seq(S)
      BY <1>2, <1>3, <2>2, <2>3
    <3>2. First(i) = Entries(seqs[1])
      <4>1. \A k \in 1..i : k = 1
        BY <2>3
      <4>2. 1 \in 1..i
        BY <2>3
      <4> QED
        BY <4>1, <4>2
    <3> QED
      BY <2>2, <3>1, <3>2
  <2>4. CASE i # 1
    <3>1. i - 1 \in 1..n /\ i - 1 < i
      BY <2>2, <2>4
    <3>2. Good(i - 1)
      <4>1. PICK j \in 1..n : j = i - 1 /\ j < i
        BY <3>1
      <4>2. ~(i <= j)
        BY <4>1, <2>2
      <4> HIDE DEF Good
      <4>3. j \notin Bad => Good(j)
        OBVIOUS
      <4> HIDE DEF Bad
      <4>4. Good(j)
        BY <4>2, <4>3, <2>1
      <4> QED
        BY <4>1, <4>4
    <3>3. f[i] = f[i - 1] \o seqs[i] /\ seqs[i] \in Seq(S)
      BY <1>2, <1>3, <2>2, <2>4
    <3>4. f[i] \in Seq(S) /\ Entries(f[i]) = First(i - 1) \cup Entries(seqs[i])
      <4>1. f[i - 1] \in Seq(S) /\ Entries(f[i - 1]) = First(i - 1)
        BY <3>2
      <4> HIDE DEF First
      <4> QED
        BY <4>1, <3>3, ConcatEntries
    <3>5. First(i) = First(i - 1) \cup Entries(seqs[i])
      <4>1. 1..i = (1..i - 1) \cup {i}
        BY <2>2
      <4>2. PICK j : j = i - 1
        OBVIOUS
      <4>3. 1..i = (1..j) \cup {i}
        BY <4>1, <4>2
      <4>4. \A x : x \in UNION {Entries(seqs[k]) : k \in 1..i} <=>
                     x \in (UNION {Entries(seqs[k]) : k \in 1..j}) \cup Entries(seqs[i])
        BY <4>3, Zenon
      <4> QED
        BY <4>2, <4>4
    <3> QED
      BY <2>2, <3>4, <3>5
  <2> QED
    BY <2>3, <2>4
<1>5. Good(n)
  <2>1. n \in 1..n
    BY <1>0
  <2> HIDE DEF Good
  <2> QED
    BY <2>1, <1>4
<1>6. n = 1 => flat = seqs[1]
  BY <1>0, <1>1, <1>2
<1> QED
  BY <1>1, <1>5, <1>6

(* Layer after layer.                                                      *)
Deeper(above) ==
  LET below == Under(above[Len(above)])
  IN  IF below = << >> THEN above ELSE Append(above, below)

LayersUpTo(k, root, f) ==
  f = [d \in 0..k |-> IF d = 0 THEN << <<root>> >> ELSE Deeper(f[d - 1])]

LEMMA LayersExist ==
  ASSUME NEW root, NEW n \in Nat
  PROVE  \E f : LayersUpTo(n, root, f)
PROOF
<1> DEFINE Bad == {k \in 0..n : ~\E f : LayersUpTo(k, root, f)}
<1>1. SUFFICES ASSUME Bad # {} PROVE FALSE
  OBVIOUS
<1>2. PICK k \in Bad : \A j \in Bad : k <= j
  <2>1. Bad \subseteq Nat
    OBVIOUS
  <2> HIDE DEF Bad
  <2> QED
    BY <1>1, <2>1, MinOfNats
<1>3. CASE k = 0
  <2> DEFINE f == [d \in 0..0 |-> << <<root>> >>]
  <2>1. \A d \in 0..0 : f[d] = IF d = 0 THEN << <<root>> >> ELSE Deeper(f[d - 1])
    OBVIOUS
  <2>2. f = [d \in 0..0 |-> f[d]]
    OBVIOUS
  <2> HIDE DEF f
  <2>3. LayersUpTo(0, root, f)
    BY <2>1, <2>2 DEF LayersUpTo
  <2> QED
    BY <1>2, <1>3, <2>3
<1>4. CASE k # 0
  <2>1. PICK j \in 0..n : j = k - 1 /\ ~(k <= j)
    BY <1>2, <1>4
  <2>2. PICK g : LayersUpTo(j, root, g)
    BY <1>2, <2>1
  <2>3. \A d \in 0..j : g[d] = IF d = 0 THEN << <<root>> >> ELSE Deeper(g[d - 1])
    BY <2>2 DEF LayersUpTo
  <2> DEFINE last == Deeper(g[j])
             f == [d \in 0..k |-> IF d = k THEN last ELSE g[d]]
  <2>4. k \in Nat /\ k >= 1 /\ j = k - 1
    BY <1>2, <1>4, <2>1
  <2> HIDE DEF last
  <2>5. ASSUME NEW d \in 0..k
        PROVE  f[d] = IF d = 0 THEN << <<root>> >> ELSE Deeper(f[d - 1])
    <3>1. CASE d = k
      <4>1. f[d] = last /\ d # 0
        BY <2>4, <3>1
      <4>2. d - 1 \in 0..k /\ d - 1 # k /\ d - 1 = j
        BY <2>4, <3>1
      <4>3. f[d - 1] = g[j]
        BY <4>2
      <4> QED
        BY <4>1, <4>3 DEF last
    <3>2. CASE d # k
      <4>1. d \in 0..j /\ f[d] = g[d]
        BY <2>4, <3>2
      <4>2. CASE d = 0
        BY <4>1, <4>2, <2>3
      <4>3. CASE d # 0
        <5>1. d - 1 \in 0..k /\ d - 1 # k
          BY <2>4, <4>1, <4>3
        <5>2. f[d - 1] = g[d - 1]
          BY <5>1
        <5> HIDE DEF f
        <5> QED
          BY <4>1, <4>3, <5>2, <2>3
      <4> QED
        BY <4>2, <4>3
    <3> QED
      BY <3>1, <3>2
  <2>6. f = [d \in 0..k |-> f[d]]
    OBVIOUS
  <2> HIDE DEF f
  <2>7. LayersUpTo(k, root, f)
    BY <2>5, <2>6 DEF LayersUpTo
  <2> QED
    BY <1>2, <2>7
<1> QED
  BY <1>3, <1>4

(* Every layer is what is under the one above, and none is left out.       *)
Grown(S, root, g, d) ==
  /\ g \in Seq(S) /\ Len(g) >= 1 /\ Len(g) <= d + 1
  /\ g[1] = <<root>>
  /\ \A c \in 2..Len(g) : g[c] = Under(g[c - 1])
  /\ \A c \in 1..Len(g) : g[c] # << >>
  /\ Len(g) <= d => Under(g[Len(g)]) = << >>

LEMMA GrowsDeeper ==
  ASSUME NEW S, NEW root, NEW g, NEW d \in Nat, d >= 1, Grown(S, root, g, d - 1),
         NEW below, below = Under(g[Len(g)]), below \in S,
         NEW h, h = IF below = << >> THEN g ELSE Append(g, below)
  PROVE  Grown(S, root, h, d)
PROOF
<1>0. g \in Seq(S)
  BY DEF Grown
<1> PICK n \in Nat : n = Len(g)
  BY <1>0, LenProperties
<1>1. /\ n >= 1 /\ n <= (d - 1) + 1 /\ g[1] = <<root>>
      /\ \A c \in 2..n : g[c] = Under(g[c - 1])
      /\ \A c \in 1..n : g[c] # << >>
      /\ n <= d - 1 => below = << >>
  BY DEF Grown
<1>2. CASE below = << >>
  <2>1. h = g /\ Len(h) = n
    BY <1>2
  <2>2. n <= d + 1
    BY <1>1
  <2>3. Len(h) <= d => Under(h[Len(h)]) = << >>
    BY <1>2, <2>1
  <2> QED
    BY <2>1, <2>2, <2>3, <1>0, <1>1 DEF Grown
<1>3. CASE below # << >>
  <2>1. h = Append(g, below)
    BY <1>3
  <2>2. /\ h \in Seq(S) /\ Len(h) = n + 1
        /\ \A i \in 1..n : h[i] = g[i]
        /\ h[n + 1] = below
    BY <2>1, <1>0, AppendProperties
  <2>3. ~(n <= d - 1)
    BY <1>1, <1>3
  <2>4. n + 1 = d + 1 /\ 1 \in 1..n
    BY <1>1, <2>3
  <2>5. ASSUME NEW c \in 2..n + 1 PROVE h[c] = Under(h[c - 1])
    <3>1. c - 1 \in 1..n /\ h[c - 1] = g[c - 1]
      BY <2>2
    <3>2. CASE c = n + 1
      <4>1. h[c] = below /\ c - 1 = n
        BY <3>2, <2>2
      <4>2. below = Under(g[n])
        OBVIOUS
      <4> QED
        BY <3>1, <4>1, <4>2
    <3>3. CASE c # n + 1
      <4>1. c \in 1..n /\ c \in 2..n
        BY <3>3
      <4>2. h[c] = g[c] /\ g[c] = Under(g[c - 1])
        BY <4>1, <2>2, <1>1
      <4> QED
        BY <3>1, <4>2
    <3> QED
      BY <3>2, <3>3
  <2>6. h[1] = <<root>>
    BY <2>2, <2>4, <1>1
  <2>7. Len(h) >= 1 /\ Len(h) <= d + 1 /\ ~(Len(h) <= d)
    BY <2>2, <2>4
  <2>8. \A c \in 2..Len(h) : h[c] = Under(h[c - 1])
    BY <2>2, <2>5
  <2>9. ASSUME NEW c \in 1..Len(h) PROVE h[c] # << >>
    <3>1. c \in 1..n \/ c = n + 1
      BY <2>2
    <3> QED
      BY <3>1, <2>2, <1>1, <1>3
  <2> QED
    BY <2>2, <2>6, <2>7, <2>8, <2>9 DEF Grown
<1> QED
  BY <1>2, <1>3

LEMMA LayerByLayer ==
  ASSUME NEW root, NEW layers, layers = Layers(root)
  PROVE  \E S : Grown(S, root, layers, MaxDepth)
PROOF
<1> PICK n \in Nat : n = MaxDepth
  BY TheGame DEF MaxDepth
<1>1. PICK f : LayersUpTo(n, root, f) /\ layers = f[n]
  <2>1. \E f : LayersUpTo(n, root, f)
    BY LayersExist
  <2>2. layers = (CHOOSE f : LayersUpTo(MaxDepth, root, f))[MaxDepth]
    BY Zenon DEF Layers, LayersUpTo, Deeper
  <2> QED
    BY <2>1, <2>2
<1>2. \A d \in 0..n : f[d] = IF d = 0 THEN << <<root>> >> ELSE Deeper(f[d - 1])
  BY <1>1 DEF LayersUpTo
<1> DEFINE below(d) == Under(f[d][Len(f[d])])
           S == {<<root>>} \cup {below(d) : d \in 0..n}
<1>3. \A d \in 1..n : f[d] = IF below(d - 1) = << >> THEN f[d - 1]
                             ELSE Append(f[d - 1], below(d - 1))
  BY <1>2 DEF Deeper
<1>4. f[0] = << <<root>> >>
  BY <1>2
<1>5. \A d \in 0..n : below(d) \in S
  OBVIOUS
<1>6. <<root>> \in S
  OBVIOUS
<1> HIDE DEF S
<1>7. Grown(S, root, f[0], 0)
  <2>1. PICK a : a = <<root>> /\ a \in S
    BY <1>6
  <2>2. PICK g : g = f[0] /\ g = <<a>>
    BY <1>4, <2>1
  <2>3. Len(g) = 1 /\ g[1] = a /\ g \in Seq(S)
    BY <2>1, <2>2
  <2>4. 2..1 = {} /\ ~(1 <= 0) /\ 1 >= 1 /\ 1 <= 0 + 1
    OBVIOUS
  <2>5. \A c \in 2..Len(g) : g[c] = Under(g[c - 1])
    BY <2>3, <2>4
  <2>7. a # << >>
    <3>1. Len(a) = 1 /\ Len(<< >>) = 0
      BY <2>1, EmptySeq
    <3> QED
      BY <3>1
  <2>8. \A c \in 1..Len(g) : g[c] # << >>
    <3>1. \A c \in 1..1 : c = 1
      OBVIOUS
    <3> QED
      BY <3>1, <2>3, <2>7
  <2>9. Grown(S, root, g, 0)
    BY <2>1, <2>3, <2>4, <2>5, <2>8 DEF Grown
  <2> QED
    BY <2>2, <2>9
<1>8. ASSUME NEW d \in 1..n, Grown(S, root, f[d - 1], d - 1)
      PROVE  Grown(S, root, f[d], d)
  <2>1. d - 1 \in 0..n /\ d \in Nat /\ d >= 1
    OBVIOUS
  <2> PICK x : x = below(d - 1)
    OBVIOUS
  <2>2. x \in S
    <3> HIDE DEF below
    <3> QED
      BY <2>1, <1>5
  <2>3. f[d] = IF x = << >> THEN f[d - 1] ELSE Append(f[d - 1], x)
    <3> HIDE DEF below
    <3> QED
      BY <1>3
  <2>4. x = Under(f[d - 1][Len(f[d - 1])])
    OBVIOUS
  <2> HIDE DEF below
  <2> QED
    BY <2>1, <2>2, <2>3, <2>4, <1>8, GrowsDeeper
<1> DEFINE Bad == {d \in 0..n : ~Grown(S, root, f[d], d)}
<1>9. Bad = {}
  <2> SUFFICES ASSUME Bad # {} PROVE FALSE
    OBVIOUS
  <2>1. PICK k \in Bad : \A j \in Bad : k <= j
    <3>1. Bad \subseteq Nat
      OBVIOUS
    <3> HIDE DEF Bad
    <3> QED
      BY <3>1, MinOfNats
  <2>2. k \in 0..n /\ ~Grown(S, root, f[k], k)
    BY <2>1
  <2>3. \A j \in 0..n : ~(k <= j) => Grown(S, root, f[j], j)
    <3>1. \A j \in 0..n : j \notin Bad => Grown(S, root, f[j], j)
      OBVIOUS
    <3> HIDE DEF Bad
    <3> QED
      BY <3>1, <2>1
  <2> HIDE DEF Bad
  <2>4. k # 0
    BY <2>2, <1>7
  <2>5. k \in 1..n /\ k - 1 \in 0..n /\ ~(k <= k - 1)
    BY <2>2, <2>4
  <2>6. Grown(S, root, f[k - 1], k - 1)
    BY <2>3, <2>5
  <2> QED
    BY <2>2, <2>5, <2>6, <1>8
<1>10. Grown(S, root, f[n], n)
  <2>1. n \in 0..n
    OBVIOUS
  <2>2. n \notin Bad => Grown(S, root, f[n], n)
    BY <2>1
  <2> HIDE DEF Bad
  <2> QED
    BY <2>2, <1>9
<1> QED
  BY <1>1, <1>10

(* The first two layers, and that there is a third if the second has       *)
(* children.                                                               *)
LEMMA FirstLayers ==
  ASSUME NEW root, NEW layers, layers = Layers(root),
         NEW second, second = Under(<<root>>), second # << >>
  PROVE  /\ \E S : layers \in Seq(S)
         /\ Len(layers) >= 2 /\ layers[1] = <<root>> /\ layers[2] = second
         /\ Under(second) # << >> => Len(layers) >= 3
PROOF
<1> PICK depth \in Nat : depth = MaxDepth /\ depth >= 2
  BY TheGame DEF MaxDepth
<1>1. PICK S : Grown(S, root, layers, depth)
  BY LayerByLayer
<1>2. layers \in Seq(S)
  BY <1>1 DEF Grown
<1> PICK n \in Nat : n = Len(layers)
  BY <1>2, LenProperties
<1>3. /\ n >= 1 /\ layers[1] = <<root>>
      /\ \A c \in 2..n : layers[c] = Under(layers[c - 1])
      /\ n <= depth => Under(layers[n]) = << >>
  BY <1>1 DEF Grown
<1>4. n # 1
  <2>1. Under(layers[1]) # << >>
    BY <1>3
  <2> QED
    BY <2>1, <1>3
<1>5. n >= 2 /\ 2 \in 2..n /\ 2 - 1 = 1
  BY <1>3, <1>4
<1>6. layers[2] = second
  BY <1>3, <1>5
<1>7. Under(second) # << >> => n # 2
  BY <1>3, <1>6
<1>8. Under(second) # << >> => n >= 3
  BY <1>5, <1>7
<1> QED
  BY <1>2, <1>3, <1>5, <1>6, <1>8

(* Every node after an action is one at which somebody acts, or ends the   *)
(* street.                                                                 *)
LEMMA KidsAreNodes ==
  ASSUME NEW node, IsDecision(node), NEW i \in 1..Len(children(node)),
         NEW kid, kid = children(node)[i], kid.kind = "inner"
  PROVE  IsDecision(kid) /\ kid.street = node.street /\ i # 1
PROOF
<1> PICK own \in Nat, opp \in Nat : own = Own(node) /\ opp = Opp(node)
  BY DecisionFields
<1>1. /\ node.street \in {1, 2} /\ node.current_player \in {1, 2}
      /\ own <= opp /\ opp <= stack /\ own < stack /\ ante <= own
      /\ Level(node.bets) <=> own = opp
      /\ node.bets[1] \in Nat /\ node.bets[2] \in Nat
      /\ node.bets = <<node.bets[1], node.bets[2]>>
  BY DecisionFields
<1>2. ante \in Nat /\ stack \in Nat
  BY TheGame
<1>3. i # 1
  <2>1. FoldNode(node).kind = "terminal"
    BY DEF FoldNode, Node
  <2>2. children(node)[1] = FoldNode(node)
    BY ActionsOfANode
  <2>3. "terminal" # "inner"
    OBVIOUS
  <2> QED
    BY <2>1, <2>2, <2>3, Zenon
<1>4. CASE i = 2
  <2>1. kid = CallNode(node)
    BY <1>4, ActionsOfANode
  <2>2. CallIsCheck(node)
    BY <2>1 DEF CallNode, Node
  <2>3. kid = Node(node.street, 2, <<node.bets[1], node.bets[2]>>, "inner")
    BY <2>1, <2>2, <1>1 DEF CallNode, CallIsCheck, Opponent, P1
  <2>4. node.current_player = 1 /\ own = opp
    BY <1>1, <2>2 DEF CallIsCheck, P1
  <2>5. Opponent(1) = 2 /\ Opponent(2) = 1
    BY DEF Opponent
  <2>6. own = node.bets[1] /\ opp = node.bets[2]
    BY <2>4, <2>5 DEF Own, Opp
  <2>7. Own(kid) = opp /\ Opp(kid) = own /\ kid.street = node.street
    BY <2>3, <2>5, <2>6 DEF Own, Opp, Node
  <2>8. /\ Own(kid) <= Opp(kid) /\ Opp(kid) <= stack /\ Own(kid) < stack
        /\ ante <= Own(kid)
    BY <2>7, <2>4, <1>1
  <2> PICK street \in {1, 2}, b1 \in Nat, b2 \in Nat :
         kid = Node(street, 2, <<b1, b2>>, "inner")
    BY <2>3, <1>1
  <2>9. IsDecision(kid)
    BY <2>8 DEF IsDecision
  <2> QED
    BY <2>9, <2>7, <1>3
<1>5. CASE i # 2
  <2>1. i \in 3..Len(RaiseSizes(node)) + 2
    <3>1. PICK k \in Nat : k = Len(RaiseSizes(node))
      BY ChildrenOfANode
    <3>2. i \in 1..k + 2
      BY <3>1, ActionsOfANode
    <3>3. i \in 3..k + 2
      BY <3>2, <1>3, <1>5
    <3> QED
      BY <3>1, <3>3
  <2>2. PICK r : r = RaiseSizes(node)[i - 2]
    OBVIOUS
  <2>3. i - 2 \in 1..Len(RaiseSizes(node)) /\ kid = BetNode(node, r)
    BY <2>1, <2>2, ActionsOfANode
  <2>4. r \in Nat /\ r >= 1 /\ opp + r <= stack
    BY <2>2, <2>3, RaisesOfTheTree, ElementOfSeq
  <2>5. /\ kid.kind = "inner" /\ kid.street = node.street
        /\ kid.current_player = Opponent(node.current_player)
        /\ node.current_player = 1 => kid.bets = <<opp + r, opp>>
        /\ node.current_player = 2 => kid.bets = <<opp, opp + r>>
        /\ kid = Node(node.street, Opponent(node.current_player), kid.bets, "inner")
        /\ Own(kid) = opp /\ Opp(kid) = opp + r
    <3>1. BetNode(node, r).kind = "inner" /\ BetNode(node, r).street = node.street
      BY <2>4, BetNodeFields
    <3>2. /\ BetNode(node, r).current_player = Opponent(node.current_player)
          /\ node.current_player = 1 => BetNode(node, r).bets = <<Opp(node) + r, Opp(node)>>
          /\ node.current_player = 2 => BetNode(node, r).bets = <<Opp(node), Opp(node) + r>>
      BY <2>4, BetNodeFields
    <3>3. /\ BetNode(node, r) = Node(node.street, Opponent(node.current_player),
                                    BetNode(node, r).bets, "inner")
          /\ Own(BetNode(node, r)) = Opp(node) /\ Opp(BetNode(node, r)) = Opp(node) + r
      BY <2>4, BetNodeFields
    <3>4. kid = BetNode(node, r) /\ opp = Opp(node)
      BY <2>3
    <3> QED
      BY <3>1, <3>2, <3>3, <3>4, Zenon
  <2>6. /\ Own(kid) <= Opp(kid) /\ Opp(kid) <= stack /\ Own(kid) < stack
        /\ ante <= Own(kid)
    BY <2>4, <2>5, <1>1, <1>2
  <2>7. PICK b1 \in Nat, b2 \in Nat : kid.bets = <<b1, b2>>
    <3>1. opp + r \in Nat
      BY <2>4
    <3> QED
      BY <3>1, <2>5, <1>1
  <2>8. Opponent(node.current_player) \in {1, 2}
    BY <1>1 DEF Opponent
  <2> PICK street \in {1, 2}, player \in {1, 2} :
         kid = Node(street, player, <<b1, b2>>, "inner")
    BY <2>5, <2>7, <2>8, <1>1
  <2>9. IsDecision(kid)
    BY <2>6 DEF IsDecision
  <2> QED
    BY <2>9, <2>5, <1>3
<1> QED
  BY <1>4, <1>5

(* How many actions at a node end the betting.                             *)
Ends(node) == IF FirstCall(node) = "inner" THEN 1 ELSE 2

LEMMA EndsOfANode ==
  ASSUME NEW node, IsDecision(node)
  PROVE  EndCount(children(node)) = Ends(node) /\ Ends(node) \in {1, 2}
PROOF
<1> PICK kids : kids = children(node)
  OBVIOUS
<1> PICK k \in Nat : k = Len(RaiseSizes(node)) + 2 /\ k >= 2
  BY ActionsOfANode
<1>1. /\ DOMAIN kids = 1..k /\ kids[1] = FoldNode(node)
      /\ \A i \in 3..k : kids[i] = BetNode(node, RaiseSizes(node)[i - 2])
                         /\ i - 2 \in 1..Len(RaiseSizes(node))
  BY ActionsOfANode DEF ActionIds
<1>2. kids[1].kind = "terminal"
  <2>1. FoldNode(node).kind = "terminal"
    BY DEF FoldNode, Node
  <2> QED
    BY <1>1, <2>1
<1>3. \A i \in 3..k : kids[i].kind = "inner"
  <2>1. \A x : BetNode(node, x).kind = "inner"
    BY DEF BetNode, Node
  <2> QED
    BY <1>1, <2>1
<1>4. FirstCall(node) = kids[2].kind
  BY DEF FirstCall
<1> PICK S : S = {i \in DOMAIN kids : EndsHere(kids[i])}
  OBVIOUS
<1>5. CASE kids[2].kind = "inner"
  <2>1. \A i \in 1..k : kids[i].kind # "inner" <=> i = 1
    <3> TAKE i \in 1..k
    <3>1. i = 1 \/ i = 2 \/ i \in 3..k
      OBVIOUS
    <3>2. 1 # 2 /\ 1 \notin 3..k
      OBVIOUS
    <3> QED
      BY <3>1, <3>2, <1>2, <1>3, <1>5
  <2>2. 1 \in 1..k
    OBVIOUS
  <2>3. S = {1}
    BY <2>1, <2>2, <1>1 DEF EndsHere
  <2> QED
    BY <2>3, <1>4, <1>5, PairCounts DEF EndCount, Ends
<1>6. CASE kids[2].kind # "inner"
  <2>1. \A i \in 1..k : kids[i].kind # "inner" <=> i = 1 \/ i = 2
    <3> TAKE i \in 1..k
    <3>1. i = 1 \/ i = 2 \/ i \in 3..k
      OBVIOUS
    <3>2. 1 \notin 3..k /\ 2 \notin 3..k
      OBVIOUS
    <3> QED
      BY <3>1, <3>2, <1>2, <1>3, <1>6
  <2>2. 1 \in 1..k /\ 2 \in 1..k
    OBVIOUS
  <2>3. S = {1, 1 + 1}
    BY <2>1, <2>2, <1>1 DEF EndsHere
  <2>4. Cardinality({1, 1 + 1}) = 2
    BY PairCounts
  <2> QED
    BY <2>3, <2>4, <1>4, <1>6 DEF EndCount, Ends
<1> QED
  BY <1>5, <1>6

(* The most of some counts is the largest of them.                         *)
LEMMA MostOfNats ==
  ASSUME NEW counts \in Seq(Nat)
  PROVE  /\ MostOf(counts) \in Nat
         /\ MostOf(counts) = 0 \/ \E i \in 1..Len(counts) : MostOf(counts) = counts[i]
         /\ \A i \in 1..Len(counts) : counts[i] <= MostOf(counts)
PROOF
<1> PICK n \in Nat : n = Len(counts)
  BY LenProperties
<1>0. /\ \A i \in 1..n : counts[i] \in Nat
      /\ DOMAIN counts = 1..n
  BY ElementOfSeq, LenProperties
<1> DEFINE f == [i \in 0..n |-> IF i = 0 THEN 0 ELSE counts[i]]
<1>1. f[0] = 0 /\ \A i \in 1..n : f[i] = counts[i]
  OBVIOUS
<1>2. \A i \in 0..n : f[i] \in Int
  BY <1>0
<1> HIDE DEF f
<1>3. IsFiniteSet(0..n) /\ 0..n # {}
  <2>1. IsFiniteSet(0..n)
    BY FS_Interval
  <2>2. 0 \in 0..n
    OBVIOUS
  <2> QED
    BY <2>1, <2>2
<1>4. PICK m \in 0..n : \A i \in 0..n : f[i] <= f[m]
  BY <1>2, <1>3, LargestSomewhere
<1> PICK T : T = {0} \cup ToSet(counts)
  OBVIOUS
<1>5. T = {0} \cup {counts[i] : i \in 1..n}
  BY <1>0 DEF ToSet
<1>6. f[m] \in T
  BY <1>1, <1>5
<1>7. \A y \in T : f[m] >= y
  <2> TAKE y \in T
  <2>1. PICK i \in 0..n : y = f[i]
    BY <1>1, <1>5
  <2> QED
    BY <2>1, <1>2, <1>4
<1>8. MostOf(counts) \in T /\ \A y \in T : MostOf(counts) >= y
  BY <1>6, <1>7 DEF MostOf, Max
<1>9. T \subseteq Nat
  BY <1>0, <1>5
<1> HIDE DEF MostOf
<1> PICK most \in Nat : most = MostOf(counts)
  BY <1>8, <1>9
<1>10. \A i \in 1..n : counts[i] <= most
  <2> TAKE i \in 1..n
  <2>1. counts[i] \in T /\ counts[i] \in Nat
    BY <1>0, <1>5
  <2> QED
    BY <2>1, <1>8
<1>11. most = 0 \/ \E i \in 1..n : most = counts[i]
  BY <1>5, <1>8
<1> QED
  BY <1>10, <1>11

LEMMA MostOfOne ==
  ASSUME NEW counts \in Seq(Nat), Len(counts) = 1
  PROVE  MostOf(counts) = counts[1]
PROOF
<1>1. \A i : i \in 1..1 <=> i = 1
  OBVIOUS
<1>2. /\ MostOf(counts) \in Nat /\ counts[1] <= MostOf(counts)
      /\ MostOf(counts) = 0 \/ MostOf(counts) = counts[1]
  BY <1>1, MostOfNats
<1>3. counts[1] \in Nat
  BY <1>1, ElementOfSeq
<1> QED
  BY <1>2, <1>3

(* The widths of the root, and of any layer.                               *)
LEMMA WidthOfRoot ==
  ASSUME NEW root, IsDecision(root)
  PROVE  /\ Width(<<root>>).actions = Len(children(root))
         /\ Width(<<root>>).ends = Ends(root)
PROOF
<1> PICK layer : layer = <<root>>
  OBVIOUS
<1>1. DOMAIN layer = 1..1 /\ layer[1] = root
  OBVIOUS
<1>2. Len(children(root)) \in Nat /\ EndCount(children(root)) \in Nat
  BY ActionsOfANode, EndsOfANode
<1> PICK lens : lens = [i \in DOMAIN layer |-> Len(children(layer[i]))]
  OBVIOUS
<1> PICK ends : ends = [i \in DOMAIN layer |-> EndCount(children(layer[i]))]
  OBVIOUS
<1>3. lens \in Seq(Nat) /\ Len(lens) = 1 /\ lens[1] = Len(children(root))
  <2>1. lens = [i \in 1..1 |-> Len(children(layer[i]))]
    BY <1>1
  <2>2. \A i \in 1..1 : lens[i] \in Nat
    BY <2>1, <1>1, <1>2
  <2>3. lens = [i \in 1..1 |-> lens[i]]
    BY <2>1
  <2> QED
    BY <2>1, <2>2, <2>3, <1>1
<1>4. ends \in Seq(Nat) /\ Len(ends) = 1 /\ ends[1] = EndCount(children(root))
  <2>1. ends = [i \in 1..1 |-> EndCount(children(layer[i]))]
    BY <1>1
  <2>2. \A i \in 1..1 : ends[i] \in Nat
    BY <2>1, <1>1, <1>2
  <2>3. ends = [i \in 1..1 |-> ends[i]]
    BY <2>1
  <2> QED
    BY <2>1, <2>2, <2>3, <1>1
<1>5. Width(layer).actions = MostOf(lens) /\ Width(layer).ends = MostOf(ends)
  BY DEF Width
<1>6. MostOf(lens) = Len(children(root)) /\ MostOf(ends) = EndCount(children(root))
  BY <1>3, <1>4, MostOfOne
<1> QED
  BY <1>5, <1>6, EndsOfANode

LEMMA WidthOfLayer ==
  ASSUME NEW S, NEW layer \in Seq(S), \A i \in 1..Len(layer) : Len(children(layer[i])) \in Nat
  PROVE  Width(layer).actions \in Nat
PROOF
<1> PICK n \in Nat : n = Len(layer) /\ DOMAIN layer = 1..n
  BY LenProperties
<1> PICK lens : lens = [i \in 1..n |-> Len(children(layer[i]))]
  OBVIOUS
<1>1. lens \in Seq(Nat)
  <2>1. \A i \in 1..n : lens[i] \in Nat
    OBVIOUS
  <2>2. lens = [i \in 1..n |-> lens[i]]
    OBVIOUS
  <2> QED
    BY <2>1, <2>2
<1>2. Width(layer).actions = MostOf(lens)
  BY DEF Width
<1> QED
  BY <1>1, <1>2, MostOfNats

(* What is used of the structure of a lookahead.                           *)
Shape(root, s) ==
  /\ s.depth \in Nat /\ s.depth >= 2
  /\ (\E i \in ActionIds(root) : children(root)[i].kind = "inner") => s.depth >= 3
  /\ actions_count(s, 1) = Len(children(root))
  /\ terminal_actions_count(s, 1) = Ends(root)
  /\ actions_count(s, 2) \in Nat

LEMMA KidsAreASequence ==
  ASSUME NEW node, IsDecision(node)
  PROVE  \E S : children(node) \in Seq(S)
PROOF
<1> PICK k \in Nat : k = Len(RaiseSizes(node))
  BY ChildrenOfANode
<1> PICK kids : kids = children(node)
  OBVIOUS
<1>1. \E F : kids = [i \in 1..k + 2 |-> F[i]]
  <2> DEFINE F == [i \in 1..k + 2 |-> IF i = 1 THEN FoldNode(node)
                                      ELSE IF i = 2 THEN CallNode(node)
                                      ELSE BetNode(node, RaiseSizes(node)[i - 2])]
  <2>1. kids = F
    BY ChildrenOfANode
  <2>2. F = [i \in 1..k + 2 |-> F[i]]
    OBVIOUS
  <2> HIDE DEF F
  <2> QED
    BY <2>1, <2>2
<1>2. kids = [i \in 1..k + 2 |-> kids[i]] /\ k + 2 \in Nat
  BY <1>1
<1> DEFINE S == {kids[i] : i \in 1..k + 2}
<1>3. \A i \in 1..k + 2 : kids[i] \in S
  OBVIOUS
<1> HIDE DEF S
<1>4. kids \in Seq(S)
  BY <1>2, <1>3
<1> QED
  BY <1>4

(* The children of all the nodes after the root: those of each of them.    *)
KidsOfKids(root) == [i \in DOMAIN children(root) |-> children(children(root)[i])]

LEMMA NoKids ==
  ASSUME NEW node, node.kind # "inner"
  PROVE  children(node) = << >>
PROOF
<1> QED
  BY DEF children

LEMMA KidsAreSequences ==
  ASSUME NEW root, IsDecision(root)
  PROVE  /\ \E S : KidsOfKids(root) \in Seq(Seq(S))
         /\ \A i \in ActionIds(root) : Len(children(children(root)[i])) \in Nat
         /\ Len(KidsOfKids(root)) = Len(children(root))
PROOF
<1> PICK kids : kids = children(root)
  OBVIOUS
<1> PICK k \in Nat : k = Len(kids) /\ DOMAIN kids = 1..k
  BY ActionsOfANode DEF ActionIds
<1> PICK seqs : seqs = [i \in 1..k |-> children(kids[i])]
  OBVIOUS
<1>1. seqs = KidsOfKids(root)
  BY DEF KidsOfKids
<1> DEFINE S == UNION {{seqs[i][m] : m \in 1..Len(seqs[i])} : i \in 1..k}
<1>2. ASSUME NEW i \in 1..k PROVE seqs[i] \in Seq(S) /\ Len(seqs[i]) \in Nat
  <2> PICK one : one = seqs[i]
    OBVIOUS
  <2>1. \A m \in 1..Len(one) : one[m] \in S
    OBVIOUS
  <2> HIDE DEF S
  <2>2. CASE kids[i].kind = "inner"
    <3>1. IsDecision(kids[i])
      BY <2>2, KidsAreNodes
    <3>2. PICK A : one \in Seq(A)
      BY <3>1, KidsAreASequence
    <3>3. PICK n \in Nat : n = Len(one) /\ one = [m \in 1..n |-> one[m]]
      <4>1. Len(one) \in Nat /\ one \in [1..Len(one) -> A]
        BY <3>2, LenProperties
      <4> QED
        BY <4>1, Zenon
    <3>4. one \in Seq(S)
      BY <2>1, <3>3
    <3> QED
      BY <3>3, <3>4
  <2>3. CASE kids[i].kind # "inner"
    <3>1. one = << >>
      BY <2>3, NoKids
    <3>2. one \in Seq(S)
      BY <3>1, EmptySeq
    <3> QED
      BY <3>2, LenProperties
  <2> QED
    BY <2>2, <2>3
<1> HIDE DEF S
<1>3. seqs \in Seq(Seq(S)) /\ Len(seqs) = k
  <2>1. \A i \in 1..k : seqs[i] \in Seq(S)
    BY <1>2
  <2>2. seqs = [i \in 1..k |-> seqs[i]]
    OBVIOUS
  <2> QED
    BY <2>1, <2>2
<1>4. \A i \in 1..k : Len(children(kids[i])) \in Nat
  BY <1>2
<1> QED
  BY <1>1, <1>3, <1>4 DEF ActionIds

(* The second layer, and the third.                                        *)
LEMMA UnderTheRoot ==
  ASSUME NEW root, IsDecision(root)
  PROVE  /\ Under(<<root>>) = children(root) /\ children(root) # << >>
         /\ Under(children(root)) = FlattenSeq(KidsOfKids(root))
         /\ (\E i \in ActionIds(root) : children(root)[i].kind = "inner") =>
              Under(children(root)) # << >>
PROOF
<1> PICK kids : kids = children(root)
  OBVIOUS
<1> PICK k \in Nat : k = Len(kids) /\ DOMAIN kids = 1..k /\ k >= 2
  BY ActionsOfANode DEF ActionIds
<1>1. PICK S : kids \in Seq(S)
  BY KidsAreASequence
<1>2. Under(<<root>>) = kids
  <2> PICK layer : layer = <<root>>
    OBVIOUS
  <2>1. DOMAIN layer = 1..1 /\ layer[1] = root
    OBVIOUS
  <2> PICK seqs : seqs = [i \in 1..1 |-> children(layer[i])]
    OBVIOUS
  <2>2. seqs[1] = kids /\ seqs = [i \in 1..1 |-> seqs[i]]
    BY <2>1
  <2>3. \A i \in 1..1 : seqs[i] \in Seq(S)
    BY <2>2, <1>1
  <2>4. seqs \in Seq(Seq(S)) /\ Len(seqs) = 1 /\ seqs # << >>
    BY <2>2, <2>3
  <2>5. FlattenSeq(seqs) = seqs[1]
    BY <2>4, Flattened
  <2>6. Under(layer) = FlattenSeq(seqs)
    BY <2>1 DEF Under
  <2> QED
    BY <2>2, <2>5, <2>6
<1>3. kids # << >>
  BY <1>1, EmptySeq
<1>4. Under(kids) = FlattenSeq(KidsOfKids(root))
  BY DEF Under, KidsOfKids
<1>5. ASSUME NEW i \in 1..k, kids[i].kind = "inner" PROVE Under(kids) # << >>
  <2>1. PICK A : KidsOfKids(root) \in Seq(Seq(A))
    BY KidsAreSequences
  <2>2. Len(KidsOfKids(root)) = k
    BY KidsAreSequences
  <2> PICK seqs \in Seq(Seq(A)) : seqs = KidsOfKids(root)
    BY <2>1
  <2>3. seqs # << >>
    BY <2>2, EmptySeq
  <2>4. PICK flat \in Seq(A) : flat = Under(kids)
                 /\ Entries(flat) = UNION {Entries(seqs[j]) : j \in 1..Len(seqs)}
    BY <2>3, <1>4, Flattened
  <2>5. seqs[i] = children(kids[i])
    BY DEF KidsOfKids
  <2>6. IsDecision(kids[i])
    BY <1>5, KidsAreNodes
  <2>7. PICK n \in Nat : n = Len(seqs[i]) /\ n >= 2
    BY <2>5, <2>6, ActionsOfANode
  <2>8. 1 \in 1..n
    BY <2>7
  <2>9. seqs[i][1] \in Entries(seqs[i])
    BY <2>7, <2>8 DEF Entries
  <2>10. Entries(flat) # {}
    <3>1. i \in 1..Len(seqs)
      BY <2>2
    <3>2. seqs[i][1] \in Entries(flat)
      BY <2>4, <2>9, <3>1
    <3> QED
      BY <3>2
  <2>11. Entries(<< >>) = {}
    BY EmptySeq DEF Entries
  <2> QED
    BY <2>4, <2>10, <2>11
<1> QED
  BY <1>2, <1>3, <1>4, <1>5 DEF ActionIds

LEMMA ShapeOfATree ==
  ASSUME NEW root, IsDecision(root)
  PROVE  Shape(root, Structure(root))
PROOF
<1> PICK layers : layers = Layers(root)
  OBVIOUS
<1> PICK second : second = Under(<<root>>)
  OBVIOUS
<1>1. second = children(root) /\ second # << >>
  BY UnderTheRoot
<1>2. /\ \E S : layers \in Seq(S)
      /\ Len(layers) >= 2 /\ layers[1] = <<root>> /\ layers[2] = second
      /\ Under(second) # << >> => Len(layers) >= 3
  BY <1>1, FirstLayers
<1>3. PICK n \in Nat : n = Len(layers) /\ DOMAIN layers = 1..n
  BY <1>2, LenProperties
<1>4. n >= 2 /\ (Under(second) # << >> => n >= 3)
  BY <1>2, <1>3
<1> PICK widths : widths = Widths(layers)
  OBVIOUS
<1> PICK s : s = Structure(root)
  OBVIOUS
<1>5. s.depth = Len(widths) /\ s.widths = widths
  BY DEF Structure, StructureOf
<1>6. widths = [d \in 1..n |-> Width(layers[d])]
  BY <1>3 DEF Widths
<1>7. Len(widths) = n
  <2> DEFINE T == {widths[d] : d \in 1..n}
  <2>1. \A d \in 1..n : widths[d] \in T
    OBVIOUS
  <2>2. widths = [d \in 1..n |-> widths[d]]
    BY <1>6
  <2> HIDE DEF T
  <2>3. widths \in Seq(T)
    BY <2>1, <2>2
  <2> QED
    BY <2>3, <1>6, LenProperties
<1>8. s.widths[1] = Width(<<root>>) /\ s.widths[2] = Width(second)
  <2>1. 1 \in 1..n /\ 2 \in 1..n
    BY <1>4
  <2> QED
    BY <2>1, <1>2, <1>5, <1>6
<1>9. Width(second).actions \in Nat
  <2>1. PICK S : second \in Seq(S)
    BY <1>1, KidsAreASequence
  <2>2. \A i \in 1..Len(second) : Len(children(second[i])) \in Nat
    BY <1>1, <2>1, KidsAreSequences, LenProperties DEF ActionIds
  <2> QED
    BY <2>1, <2>2, WidthOfLayer
<1>10. ~(1 < 1) /\ ~(2 < 1)
  OBVIOUS
<1>11. actions_count(s, 1) = Len(children(root)) /\ actions_count(s, 2) \in Nat
  BY <1>8, <1>9, <1>10, WidthOfRoot DEF actions_count
<1>12. terminal_actions_count(s, 1) = Ends(root)
  BY <1>8, <1>10, WidthOfRoot DEF terminal_actions_count
<1>13. (\E i \in ActionIds(root) : children(root)[i].kind = "inner") => n >= 3
  BY <1>1, <1>4, UnderTheRoot
<1> QED
  BY <1>4, <1>5, <1>7, <1>11, <1>12, <1>13 DEF Shape

(* The cells, layer after layer.                                           *)
RowBelow(s, d, row) == FlattenSeq([i \in DOMAIN row |-> PlaceChildren(s, d, row[i])])

Further(s, above) == Append(above, RowBelow(s, Len(above), above[Len(above)]))

TopRow(root) == <<[node |-> root, of |-> <<1, 1, 1>>, at |-> <<1, 1, 1>>]>>

PlacedUpTo(k, s, root, f) ==
  f = [d \in 1..k |-> IF d = 1 THEN <<TopRow(root)>> ELSE Further(s, f[d - 1])]

LEMMA PlacedExist ==
  ASSUME NEW s, NEW root, NEW n \in Nat
  PROVE  \E f : PlacedUpTo(n, s, root, f)
PROOF
<1> DEFINE Bad == {k \in 0..n : ~\E f : PlacedUpTo(k, s, root, f)}
<1>1. SUFFICES ASSUME Bad # {} PROVE FALSE
  OBVIOUS
<1>2. PICK k \in Bad : \A j \in Bad : k <= j
  <2>1. Bad \subseteq Nat
    OBVIOUS
  <2> HIDE DEF Bad
  <2> QED
    BY <1>1, <2>1, MinOfNats
<1>3. CASE k = 0
  <2> DEFINE f == [d \in 1..0 |-> << >>]
  <2>1. \A d \in 1..0 : f[d] = IF d = 1 THEN <<TopRow(root)>> ELSE Further(s, f[d - 1])
    OBVIOUS
  <2>2. f = [d \in 1..0 |-> f[d]]
    OBVIOUS
  <2> HIDE DEF f
  <2>3. PlacedUpTo(0, s, root, f)
    BY <2>1, <2>2 DEF PlacedUpTo
  <2> QED
    BY <1>2, <1>3, <2>3
<1>4. CASE k # 0
  <2>1. PICK j \in 0..n : j = k - 1 /\ ~(k <= j)
    BY <1>2, <1>4
  <2>2. PICK g : PlacedUpTo(j, s, root, g)
    BY <1>2, <2>1
  <2>3. \A d \in 1..j : g[d] = IF d = 1 THEN <<TopRow(root)>> ELSE Further(s, g[d - 1])
    BY <2>2 DEF PlacedUpTo
  <2> DEFINE last == IF k = 1 THEN <<TopRow(root)>> ELSE Further(s, g[j])
             f == [d \in 1..k |-> IF d = k THEN last ELSE g[d]]
  <2>4. k \in Nat /\ k >= 1 /\ j = k - 1
    BY <1>2, <1>4, <2>1
  <2> HIDE DEF last
  <2>5. ASSUME NEW d \in 1..k
        PROVE  f[d] = IF d = 1 THEN <<TopRow(root)>> ELSE Further(s, f[d - 1])
    <3>1. CASE d = k
      <4>1. f[d] = last
        BY <2>4, <3>1
      <4>2. CASE d = 1
        <5>1. last = <<TopRow(root)>>
          BY <3>1, <4>2 DEF last
        <5> QED
          BY <4>1, <4>2, <5>1
      <4>3. CASE d # 1
        <5>1. d - 1 \in 1..k /\ d - 1 # k /\ d - 1 = j
          BY <2>4, <3>1, <4>3
        <5>2. f[d - 1] = g[j]
          BY <5>1
        <5>3. last = Further(s, g[j])
          BY <3>1, <4>3 DEF last
        <5> QED
          BY <4>1, <4>3, <5>2, <5>3
      <4> QED
        BY <4>2, <4>3
    <3>2. CASE d # k
      <4>1. d \in 1..j /\ f[d] = g[d]
        BY <2>4, <3>2
      <4>2. CASE d = 1
        BY <4>1, <4>2, <2>3
      <4>3. CASE d # 1
        <5>1. d - 1 \in 1..k /\ d - 1 # k
          BY <2>4, <4>1, <4>3
        <5>2. f[d - 1] = g[d - 1]
          BY <5>1
        <5> HIDE DEF f
        <5> QED
          BY <4>1, <4>3, <5>2, <2>3
      <4> QED
        BY <4>2, <4>3
    <3> QED
      BY <3>1, <3>2
  <2>6. f = [d \in 1..k |-> f[d]]
    OBVIOUS
  <2> HIDE DEF f
  <2>7. PlacedUpTo(k, s, root, f)
    BY <2>5, <2>6 DEF PlacedUpTo
  <2> QED
    BY <1>2, <2>7
<1> QED
  BY <1>3, <1>4

(* Every row is put below the one above it.                                *)
RowsUpTo(S, s, root, g, d) ==
  /\ g \in Seq(S) /\ Len(g) = d
  /\ g[1] = TopRow(root)
  /\ \A c \in 2..d : g[c] = RowBelow(s, c - 1, g[c - 1])

LEMMA RowByRow ==
  ASSUME NEW s, NEW root, s.depth \in Nat, s.depth >= 1,
         NEW placed, placed = Placed(s, root)
  PROVE  \E S : RowsUpTo(S, s, root, placed, s.depth)
PROOF
<1> PICK n \in Nat : n = s.depth /\ n >= 1
  OBVIOUS
<1>1. PICK f : PlacedUpTo(n, s, root, f) /\ placed = f[n]
  <2>1. \E f : PlacedUpTo(n, s, root, f)
    BY PlacedExist
  <2>2. placed = (CHOOSE f : PlacedUpTo(s.depth, s, root, f))[s.depth]
    BY Zenon DEF Placed, PlacedUpTo, Further, RowBelow, TopRow
  <2> QED
    BY <2>1, <2>2
<1>2. \A d \in 1..n : f[d] = IF d = 1 THEN <<TopRow(root)>> ELSE Further(s, f[d - 1])
  BY <1>1 DEF PlacedUpTo
<1> DEFINE below(d) == RowBelow(s, Len(f[d]), f[d][Len(f[d])])
           S == {TopRow(root)} \cup {below(d) : d \in 1..n}
           Good(d) == RowsUpTo(S, s, root, f[d], d)
<1>3. \A d \in 2..n : f[d] = Append(f[d - 1], below(d - 1))
  <2> TAKE d \in 2..n
  <2>1. d \in 1..n /\ d # 1
    OBVIOUS
  <2>2. f[d] = Further(s, f[d - 1])
    BY <2>1, <1>2
  <2> QED
    BY <2>2 DEF Further
<1>4. f[1] = <<TopRow(root)>>
  BY <1>2
<1>5. \A d \in 1..n : below(d) \in S
  OBVIOUS
<1>6. TopRow(root) \in S
  OBVIOUS
<1> HIDE DEF S
<1>7. Good(1)
  <2>1. PICK a : a = TopRow(root) /\ a \in S
    BY <1>6
  <2>2. PICK g : g = f[1] /\ g = <<a>>
    BY <1>4, <2>1
  <2>3. Len(g) = 1 /\ g[1] = a /\ g \in Seq(S)
    BY <2>1, <2>2
  <2>4. 2..1 = {}
    OBVIOUS
  <2>5. RowsUpTo(S, s, root, g, 1)
    BY <2>1, <2>3, <2>4 DEF RowsUpTo
  <2> QED
    BY <2>2, <2>5
<1>8. ASSUME NEW d \in 2..n, Good(d - 1) PROVE Good(d)
  <2> PICK c \in 1..n : c = d - 1
    OBVIOUS
  <2>0. d = c + 1
    OBVIOUS
  <2> PICK g : g = f[c]
    OBVIOUS
  <2> PICK x : x = below(c)
    OBVIOUS
  <2>1. /\ g \in Seq(S) /\ Len(g) = c /\ g[1] = TopRow(root)
        /\ \A i \in 2..c : g[i] = RowBelow(s, i - 1, g[i - 1])
    BY <1>8 DEF RowsUpTo
  <2>2. x \in S
    <3> HIDE DEF below
    <3> QED
      BY <1>5
  <2>3. f[d] = Append(g, x)
    <3> HIDE DEF below
    <3> QED
      BY <1>3
  <2>4. x = RowBelow(s, c, g[c])
    BY <2>1
  <2> PICK h : h = f[d]
    OBVIOUS
  <2>5. /\ h \in Seq(S) /\ Len(h) = c + 1
        /\ \A i \in 1..c : h[i] = g[i]
        /\ h[c + 1] = x
    BY <2>3, <2>1, <2>2, AppendProperties
  <2> HIDE DEF below
  <2>6. ASSUME NEW i \in 2..d PROVE h[i] = RowBelow(s, i - 1, h[i - 1])
    <3>1. i - 1 \in 1..c
      BY <2>0
    <3>2. h[i - 1] = g[i - 1]
      BY <3>1, <2>5
    <3>3. CASE i = d
      <4>1. h[i] = x /\ i - 1 = c
        BY <3>3, <2>0, <2>5
      <4> QED
        BY <4>1, <3>2, <2>4
    <3>4. CASE i # d
      <4>1. i \in 1..c /\ i \in 2..c
        BY <3>4, <2>0
      <4>2. h[i] = g[i] /\ g[i] = RowBelow(s, i - 1, g[i - 1])
        BY <4>1, <2>1, <2>5
      <4> QED
        BY <4>2, <3>2
    <3> QED
      BY <3>3, <3>4
  <2>7. h[1] = TopRow(root)
    <3>1. 1 \in 1..c
      OBVIOUS
    <3> QED
      BY <3>1, <2>1, <2>5
  <2>8. RowsUpTo(S, s, root, h, d)
    BY <2>0, <2>5, <2>6, <2>7 DEF RowsUpTo
  <2> QED
    BY <2>8
<1> DEFINE Bad == {d \in 1..n : ~Good(d)}
<1>9. Bad = {}
  <2> SUFFICES ASSUME Bad # {} PROVE FALSE
    OBVIOUS
  <2>1. PICK k \in Bad : \A j \in Bad : k <= j
    <3>1. Bad \subseteq Nat
      OBVIOUS
    <3> HIDE DEF Bad
    <3> QED
      BY <3>1, MinOfNats
  <2>2. k \in 1..n /\ ~Good(k)
    BY <2>1
  <2>3. \A j \in 1..n : ~(k <= j) => Good(j)
    <3>1. \A j \in 1..n : j \notin Bad => Good(j)
      OBVIOUS
    <3> HIDE DEF Bad, Good
    <3> QED
      BY <3>1, <2>1
  <2> HIDE DEF Good, Bad
  <2>4. k # 1
    BY <2>2, <1>7
  <2>5. k \in 2..n /\ k - 1 \in 1..n /\ ~(k <= k - 1)
    BY <2>2, <2>4
  <2>6. Good(k - 1)
    BY <2>3, <2>5
  <2> QED
    BY <2>2, <2>5, <2>6, <1>8
<1>10. Good(n)
  <2>1. n \in 1..n
    OBVIOUS
  <2>2. n \notin Bad => Good(n)
    BY <2>1
  <2> HIDE DEF Good, Bad
  <2> QED
    BY <2>2, <1>9
<1> QED
  BY <1>1, <1>10

(* The first three rows.                                                   *)
LEMMA FirstRows ==
  ASSUME NEW s, NEW root, s.depth \in Nat, s.depth >= 2,
         NEW placed, placed = Placed(s, root)
  PROVE  /\ placed[2] = RowBelow(s, 1, TopRow(root))
         /\ s.depth >= 3 => placed[3] = RowBelow(s, 2, placed[2])
PROOF
<1> PICK n \in Nat : n = s.depth /\ n >= 2
  OBVIOUS
<1>1. \E S : RowsUpTo(S, s, root, placed, n)
  BY RowByRow
<1>2. placed[1] = TopRow(root) /\ \A c \in 2..n : placed[c] = RowBelow(s, c - 1, placed[c - 1])
  BY <1>1 DEF RowsUpTo
<1>3. 2 \in 2..n /\ 2 - 1 = 1 /\ 3 - 1 = 2 /\ (n >= 3 => 3 \in 2..n)
  OBVIOUS
<1> QED
  BY <1>2, <1>3

(* What is written for the children of an entry.                           *)
Written(s, d, kids, at, below) ==
  [i \in DOMAIN kids |->
     [node |-> kids[i], of |-> at,
      at |-> <<Slot(s, d, Len(kids), i), below.parent, below.gp>>]]

LEMMA WhatIsWritten ==
  ASSUME NEW s, NEW d, NEW entry, NEW kids, kids = children(entry.node),
         NEW at, at = entry.at, NEW below, below = Below(s, d, at)
  PROVE  PlaceChildren(s, d, entry) = Written(s, d, kids, at, below)
PROOF
  BY DEF PlaceChildren, Written

(* The cells of the second layer: one for each action at the root.         *)
LEMMA SecondRow ==
  ASSUME NEW root, IsDecision(root), NEW s, Shape(root, s),
         NEW row, row = RowBelow(s, 1, TopRow(root))
  PROVE  /\ \E S : row \in Seq(S)
         /\ Len(row) = Len(children(root))
         /\ \A i \in 1..Len(row) : row[i].node = children(root)[i] /\ row[i].at = <<i, 1, 1>>
PROOF
<1> PICK kids : kids = children(root)
  OBVIOUS
<1> PICK k \in Nat : k = Len(kids) /\ DOMAIN kids = 1..k
  BY ActionsOfANode DEF ActionIds
<1> PICK top : top = TopRow(root)
  OBVIOUS
<1>1. DOMAIN top = 1..1 /\ top[1].node = root /\ top[1].at = <<1, 1, 1>>
  BY DEF TopRow
<1> PICK seqs : seqs = [i \in 1..1 |-> PlaceChildren(s, 1, top[i])]
  OBVIOUS
<1>2. row = FlattenSeq(seqs)
  BY <1>1 DEF RowBelow
<1> PICK one : one = PlaceChildren(s, 1, top[1])
  OBVIOUS
<1>3. Below(s, 1, <<1, 1, 1>>) = [parent |-> 1, gp |-> 1]
  <2>1. 1 - 1 < 1 /\ 1 - 2 < 1
    OBVIOUS
  <2>2. terminal_actions_count(s, 1 - 1) = 0 /\ nonallinbets_count(s, 1 - 2) = 1
    BY <2>1 DEF terminal_actions_count, nonallinbets_count
  <2> PICK at : at = <<1, 1, 1>>
    OBVIOUS
  <2>5. at[1] = 1 /\ at[2] = 1 /\ at[3] = 1
    OBVIOUS
  <2>3. Below(s, 1, at) = [parent |-> 1 - 0, gp |-> (1 - 1) * 1 + 1]
    BY <2>2, <2>5 DEF Below
  <2>4. 1 - 0 = 1 /\ (1 - 1) * 1 + 1 = 1
    OBVIOUS
  <2> QED
    BY <2>3, <2>4
<1>4. actions_count(s, 1) = k
  BY DEF Shape
<1>5. \A i \in 1..k : Slot(s, 1, k, i) = i
  BY <1>4 DEF Slot
<1>6. PICK below : below.parent = 1 /\ below.gp = 1 /\ one = Written(s, 1, kids, <<1, 1, 1>>, below)
  <2> PICK entry : entry = top[1]
    OBVIOUS
  <2>1. entry.node = root /\ entry.at = <<1, 1, 1>>
    BY <1>1
  <2> PICK at : at = entry.at
    OBVIOUS
  <2> PICK below : below = Below(s, 1, at)
    OBVIOUS
  <2>2. kids = children(entry.node)
    BY <2>1
  <2>3. one = Written(s, 1, kids, at, below)
    BY <2>2, WhatIsWritten
  <2>4. below.parent = 1 /\ below.gp = 1
    BY <2>1, <1>3
  <2> QED
    BY <2>1, <2>3, <2>4, Zenon
<1>7. DOMAIN one = 1..k /\ \A i \in 1..k : one[i].node = kids[i] /\ one[i].at = <<i, 1, 1>>
  <2> PICK at : at = <<1, 1, 1>>
    OBVIOUS
  <2>1. one = Written(s, 1, kids, at, below)
    BY <1>6, Zenon
  <2>2. /\ DOMAIN one = 1..k
        /\ \A i \in 1..k : /\ one[i].node = kids[i]
                           /\ one[i].at = <<Slot(s, 1, k, i), below.parent, below.gp>>
    BY <2>1 DEF Written
  <2>3. below.parent = 1 /\ below.gp = 1
    BY <1>6
  <2>4. ASSUME NEW i \in 1..k
        PROVE  one[i].node = kids[i] /\ one[i].at = <<i, 1, 1>>
    <3>1. one[i].node = kids[i] /\ one[i].at = <<Slot(s, 1, k, i), below.parent, below.gp>>
      BY <2>2
    <3>2. Slot(s, 1, k, i) = i
      BY <1>5
    <3> QED
      BY <2>3, <3>1, <3>2, Zenon
  <2> QED
    BY <2>2, <2>4
<1> DEFINE S == {one[i] : i \in 1..k}
<1>8. \A i \in 1..k : one[i] \in S
  OBVIOUS
<1>9. one = [i \in 1..k |-> one[i]]
  <2>1. one = Written(s, 1, kids, <<1, 1, 1>>, below)
    BY <1>6, Zenon
  <2>2. one = [i \in DOMAIN one |-> one[i]]
    BY <2>1, Zenon DEF Written
  <2> QED
    BY <2>2, <1>7
<1> HIDE DEF S
<1>10. one \in Seq(S) /\ Len(one) = k
  BY <1>8, <1>9
<1>11. seqs \in Seq(Seq(S)) /\ Len(seqs) = 1 /\ seqs # << >> /\ seqs[1] = one
  <2>1. seqs[1] = one /\ seqs = [i \in 1..1 |-> seqs[i]]
    OBVIOUS
  <2>2. \A i \in 1..1 : seqs[i] \in Seq(S)
    BY <2>1, <1>10
  <2> QED
    BY <2>1, <2>2
<1>12. row = one
  BY <1>2, <1>11, Flattened
<1> QED
  BY <1>7, <1>10, <1>12

(* In the second layer and below a call comes second, and nothing else.    *)
LEMMA SecondIsTheCall ==
  ASSUME NEW s, actions_count(s, 2) \in Nat, NEW width \in Nat, NEW m \in 1..width
  PROVE  Slot(s, 2, width, m) = 2 <=> m = 2
PROOF
<1> PICK most \in Nat : most = actions_count(s, 2)
  OBVIOUS
<1>1. Slot(s, 2, width, m) = IF width < most /\ m > 2 THEN most - (width - m) ELSE m
  BY DEF Slot
<1> QED
  BY <1>1

(* The cells of the third layer, under a node at which somebody acts.      *)
UnderTheRow(root, s, above, entries) ==
  \A e : e \in entries <=>
    \E i \in ActionIds(root) : \E m \in 1..Len(children(children(root)[i])) :
      e = PlaceChildren(s, 2, above[i])[m]

LEMMA ThirdRow ==
  ASSUME NEW root, IsDecision(root), NEW s, Shape(root, s),
         NEW above, above = RowBelow(s, 1, TopRow(root)),
         NEW row, row = RowBelow(s, 2, above)
  PROVE  (\E S : row \in Seq(S)) /\ UnderTheRow(root, s, above, Entries(row))
PROOF
<1> PICK kids : kids = children(root)
  OBVIOUS
<1> PICK k \in Nat : k = Len(kids) /\ DOMAIN kids = 1..k /\ k >= 2
  BY ActionsOfANode DEF ActionIds
<1>1. /\ DOMAIN above = 1..k
      /\ \A i \in 1..k : above[i].node = kids[i] /\ above[i].at = <<i, 1, 1>>
  BY SecondRow, LenProperties
<1>0. PICK seqs : seqs = [i \in 1..k |-> PlaceChildren(s, 2, above[i])]
  OBVIOUS
<1>2. row = FlattenSeq(seqs)
  BY <1>0, <1>1 DEF RowBelow
<1>3. \E A : KidsOfKids(root) \in Seq(Seq(A))
  BY KidsAreSequences
<1>4. ASSUME NEW i \in 1..k
      PROVE  \E n \in Nat : /\ n = Len(children(kids[i])) /\ DOMAIN children(kids[i]) = 1..n
                            /\ seqs[i] = [m \in 1..n |-> seqs[i][m]]
  <2>1. KidsOfKids(root) = [j \in 1..k |-> children(kids[j])]
    BY DEF KidsOfKids
  <2>2. PICK A : KidsOfKids(root) \in Seq(Seq(A))
    BY <1>3
  <2>3. Len(KidsOfKids(root)) = k
    BY KidsAreSequences
  <2>4. children(kids[i]) \in Seq(A)
    BY <2>1, <2>2, <2>3, ElementOfSeq
  <2>5. PICK n \in Nat : n = Len(children(kids[i])) /\ DOMAIN children(kids[i]) = 1..n
    BY <2>4, LenProperties
  <2>6. seqs[i] = PlaceChildren(s, 2, above[i])
    BY <1>0
  <2>7. seqs[i] = [m \in 1..n |-> seqs[i][m]]
    BY <2>5, <2>6, <1>1 DEF PlaceChildren
  <2> QED
    BY <2>5, <2>7
<1>5. PICK S : \A i \in 1..k : seqs[i] \in Seq(S) /\ Len(seqs[i]) = Len(children(kids[i]))
  <2> DEFINE T == UNION {{seqs[i][m] : m \in 1..Len(children(kids[i]))} : i \in 1..k}
  <2>1. ASSUME NEW i \in 1..k
        PROVE  seqs[i] \in Seq(T) /\ Len(seqs[i]) = Len(children(kids[i]))
    <3>1. \A m \in 1..Len(children(kids[i])) : seqs[i][m] \in T
      OBVIOUS
    <3> PICK one : one = seqs[i]
      OBVIOUS
    <3> HIDE DEF T
    <3>2. PICK n \in Nat : n = Len(children(kids[i])) /\ one = [m \in 1..n |-> one[m]]
      BY <1>4
    <3>3. \A m \in 1..n : one[m] \in T
      BY <3>1, <3>2
    <3>4. one \in Seq(T) /\ Len(one) = n
      BY <3>2, <3>3
    <3> QED
      BY <3>2, <3>4
  <2> HIDE DEF T
  <2> QED
    BY <2>1
<1>6. seqs \in Seq(Seq(S)) /\ Len(seqs) = k /\ seqs # << >>
  <2>1. \A i \in 1..k : seqs[i] \in Seq(S)
    BY <1>5
  <2>2. seqs = [i \in 1..k |-> seqs[i]]
    BY <1>0
  <2>3. seqs \in Seq(Seq(S)) /\ Len(seqs) = k
    BY <2>1, <2>2
  <2> QED
    BY <2>3, EmptySeq
<1>7. row \in Seq(S) /\ Entries(row) = UNION {Entries(seqs[i]) : i \in 1..k}
  <2>1. row \in Seq(S) /\ Entries(row) = UNION {Entries(seqs[i]) : i \in 1..Len(seqs)}
    BY <1>2, <1>6, Flattened
  <2> QED
    BY <2>1, <1>6
<1>8. ASSUME NEW e
      PROVE  e \in Entries(row) <=>
               \E i \in 1..k : \E m \in 1..Len(children(kids[i])) :
                 e = PlaceChildren(s, 2, above[i])[m]
  <2>1. \A i \in 1..k : seqs[i] = PlaceChildren(s, 2, above[i])
    BY <1>0
  <2>2. e \in Entries(row) <=> \E i \in 1..k : e \in Entries(seqs[i])
    BY <1>7
  <2>3. \A i \in 1..k : e \in Entries(seqs[i]) <=>
                          \E m \in 1..Len(children(kids[i])) : e = seqs[i][m]
    BY <1>5 DEF Entries
  <2> QED
    BY <2>1, <2>2, <2>3
<1>9. UnderTheRow(root, s, above, Entries(row))
  BY <1>8 DEF ActionIds, UnderTheRow
<1> QED
  BY <1>7, <1>9

InTheThirdRow(root, s, entry, i, width, m) ==
  /\ PlaceChildren(s, 2, entry)[m].node = children(entry.node)[m]
  /\ PlaceChildren(s, 2, entry)[m].at = <<Slot(s, 2, width, m), i - Ends(root), 1>>

LEMMA CellOfTheThirdRow ==
  ASSUME NEW root, IsDecision(root), NEW s, Shape(root, s),
         NEW i \in ActionIds(root), NEW entry,
         entry.node = children(root)[i], entry.at = <<i, 1, 1>>,
         NEW width \in Nat, width = Len(children(entry.node)),
         DOMAIN children(entry.node) = 1..width, NEW m \in 1..width
  PROVE  InTheThirdRow(root, s, entry, i, width, m)
PROOF
<1> SUFFICES /\ PlaceChildren(s, 2, entry)[m].node = children(entry.node)[m]
             /\ PlaceChildren(s, 2, entry)[m].at
                  = <<Slot(s, 2, width, m), i - Ends(root), 1>>
  BY Zenon DEF InTheThirdRow
<1>1. 2 - 2 < 1 /\ 2 - 1 = 1
  OBVIOUS
<1>2. terminal_actions_count(s, 2 - 1) = Ends(root) /\ nonallinbets_count(s, 2 - 2) = 1
  BY <1>1 DEF Shape, nonallinbets_count
<1> PICK at : at = entry.at
  OBVIOUS
<1>0. at[1] = i /\ at[2] = 1 /\ at[3] = 1
  OBVIOUS
<1>3. Below(s, 2, at) = [parent |-> i - Ends(root), gp |-> (1 - 1) * 1 + 1]
  BY <1>0, <1>2 DEF Below
<1>4. (1 - 1) * 1 + 1 = 1
  OBVIOUS
<1>5. Below(s, 2, at).parent = i - Ends(root) /\ Below(s, 2, at).gp = 1
  BY <1>3, <1>4
<1>6. PlaceChildren(s, 2, entry)[m] =
        [node |-> children(entry.node)[m], of |-> entry.at,
         at |-> <<Slot(s, 2, width, m), Below(s, 2, at).parent, Below(s, 2, at).gp>>]
  BY DEF PlaceChildren
<1> QED
  BY <1>5, <1>6

(* The name of an action leads back to it, or to one like it.              *)
LEMMA ActionIsFound ==
  ASSUME NEW root, IsDecision(root), NEW i \in ActionIds(root),
         NEW bet, bet = actions(root)[i], NEW j, j = ActionId(root, bet)
  PROVE  /\ j \in ActionIds(root) /\ children(root)[j] = children(root)[i]
         /\ j = 2 <=> i = 2
PROOF
<1>1. j \in ActionIds(root) /\ actions(root)[j] = actions(root)[i]
  <2>1. \E x \in ActionIds(root) : actions(root)[x] = bet
    OBVIOUS
  <2> QED
    BY <2>1 DEF ActionId
<1> PICK k \in Nat : k = Len(RaiseSizes(root)) + 2 /\ ActionIds(root) = 1..k
  BY ActionsOfANode
<1> PICK opp \in Nat : opp = Opp(root)
  BY DecisionFields
<1> PICK acts : acts = actions(root)
  OBVIOUS
<1> PICK kids : kids = children(root)
  OBVIOUS
<1> PICK raises : raises = RaiseSizes(root)
  OBVIOUS
<1>2. /\ acts[1] = Fold /\ acts[2] = CCall
      /\ \A x \in 3..k : /\ x - 2 \in 1..Len(raises) /\ kids[x] = BetNode(root, raises[x - 2])
                         /\ acts[x] = opp + raises[x - 2] /\ acts[x] \in Nat
  BY ActionsOfANode
<1>3. \A x \in 3..k : raises[x - 2] \in Nat
  <2>1. raises \in Seq(Nat)
    BY RaisesOfTheTree
  <2> QED
    BY <2>1, <1>2, ElementOfSeq
<1>4. Fold \notin Nat /\ CCall \notin Nat /\ Fold # CCall
  BY DEF Fold, CCall
<1>5. (i = 1 \/ i = 2 \/ i \in 3..k) /\ (j = 1 \/ j = 2 \/ j \in 3..k)
  BY <1>1
<1>6. i \in 3..k => i # 1 /\ i # 2
  OBVIOUS
<1>7. j \in 3..k => j # 1 /\ j # 2
  OBVIOUS
<1>8. CASE i \in 3..k
  <2>1. acts[i] \in Nat /\ acts[j] = acts[i]
    BY <1>1, <1>2, <1>8
  <2>2. j \in 3..k
    BY <2>1, <1>2, <1>4, <1>5
  <2> PICK a \in Nat, b \in Nat : a = raises[i - 2] /\ b = raises[j - 2]
    BY <1>3, <1>8, <2>2
  <2>3. opp + a = opp + b
    BY <2>1, <2>2, <1>2, <1>8
  <2>4. a = b
    BY <2>3
  <2>5. kids[i] = kids[j]
    <3>1. /\ kids[i] = BetNode(root, raises[i - 2])
          /\ kids[j] = BetNode(root, raises[j - 2])
      BY <2>2, <1>2, <1>8
    <3>2. raises[i - 2] = raises[j - 2]
      BY <2>4
    <3> QED
      BY <3>1, <3>2, Zenon
  <2> QED
    BY <2>2, <2>5, <1>1, <1>6, <1>7, <1>8
<1>9. CASE i \notin 3..k
  <2>1. i = 1 \/ i = 2
    BY <1>5, <1>9
  <2>2. acts[j] = acts[i] /\ acts[i] \notin Nat
    BY <2>1, <1>1, <1>2, <1>4
  <2>3. j \notin 3..k
    BY <2>2, <1>2
  <2>4. j = i
    BY <2>1, <2>2, <2>3, <1>2, <1>4, <1>5
  <2> QED
    BY <2>4, <1>1
<1> QED
  BY <1>8, <1>9

(* The nodes at a cell, as entries of the row.                             *)
LEMMA NodesOfARow ==
  ASSUME NEW root, NEW layer, NEW at, NEW S, NEW row \in Seq(S),
         row = Placed(Structure(root), root)[layer]
  PROVE  \A x : x \in NodesAt(root, layer, at) <=>
                  \E e \in Entries(row) : e.at = at /\ x = e.node
PROOF
<1>1. DOMAIN row = 1..Len(row)
  BY LenProperties
<1>2. NodesAt(root, layer, at) = {row[i].node : i \in {j \in DOMAIN row : row[j].at = at}}
  BY DEF NodesAt
<1> QED
  BY <1>1, <1>2 DEF Entries

(* A call at the root that ends the street is found in the second layer.   *)
LEMMA CellOfTheFirstCall ==
  ASSUME NEW root, IsDecision(root), FirstCall(root) = "chance"
  PROVE  NodesIn(root, ChanceCell(root, 2)) = {CallNode(root)}
PROOF
<1> PICK s : s = Structure(root)
  OBVIOUS
<1>1. Shape(root, s)
  BY ShapeOfATree
<1> PICK row : row = RowBelow(s, 1, TopRow(root))
  OBVIOUS
<1>2. row = Placed(s, root)[2]
  BY <1>1, FirstRows DEF Shape
<1> PICK k \in Nat : k = Len(children(root)) /\ k >= 2
  BY ActionsOfANode
<1>3. PICK S : row \in Seq(S)
  BY <1>1, SecondRow
<1>4. Len(row) = k /\ \A i \in 1..k : row[i].node = children(root)[i] /\ row[i].at = <<i, 1, 1>>
  BY <1>1, SecondRow
<1> PICK at : at = <<2, 1, 1>>
  OBVIOUS
<1>5. \A x : x \in NodesAt(root, 2, at) <=> \E e \in Entries(row) : e.at = at /\ x = e.node
  BY <1>2, <1>3, NodesOfARow
<1>6. ChanceCell(root, 2).layer = 2 /\ ChanceCell(root, 2).at = at
  BY DEF ChanceCell
<1>7. children(root)[2] = CallNode(root)
  BY ActionsOfANode
<1>8. \A i \in 1..k : <<i, 1, 1>> = at <=> i = 2
  OBVIOUS
<1>9. 2 \in 1..k
  OBVIOUS
<1>10. \A x : (\E e \in Entries(row) : e.at = at /\ x = e.node) <=> x = CallNode(root)
  BY <1>4, <1>7, <1>8, <1>9 DEF Entries
<1> QED
  BY <1>5, <1>6, <1>10 DEF NodesIn

(* One that answers the last action at the root, in the third.             *)
LEMMA CellOfAnAnswer ==
  ASSUME NEW root, IsDecision(root), NEW i \in ActionIds(root),
         NEW kid, kid = children(root)[i], kid.kind = "inner", FirstCall(root) # "terminal"
  PROVE  NodesIn(root, ChanceCell(root, i)) = {CallNode(kid)}
PROOF
<1> PICK s : s = Structure(root)
  OBVIOUS
<1>1. Shape(root, s) /\ s.depth \in Nat /\ s.depth >= 3 /\ s.depth >= 2
  BY ShapeOfATree DEF Shape
<1> PICK above : above = RowBelow(s, 1, TopRow(root))
  OBVIOUS
<1>0. PICK row : row = RowBelow(s, 2, above)
  OBVIOUS
<1>2. row = Placed(s, root)[3]
  BY <1>0, <1>1, FirstRows
<1> PICK k \in Nat : k = Len(children(root)) /\ ActionIds(root) = 1..k /\ k >= 2
  BY ActionsOfANode
<1>3. PICK S : row \in Seq(S)
  BY <1>0, <1>1, ThirdRow
<1>4. \A e : e \in Entries(row) <=>
         \E j \in ActionIds(root) : \E m \in 1..Len(children(children(root)[j])) :
           e = PlaceChildren(s, 2, above[j])[m]
  <2>1. UnderTheRow(root, s, above, Entries(row))
    BY <1>0, <1>1, ThirdRow
  <2> QED
    BY <2>1 DEF UnderTheRow
<1> PICK ends \in {1, 2} : ends = Ends(root)
  BY EndsOfANode
<1> PICK at : at = <<2, i - ends, 1>>
  OBVIOUS
<1>5. ChanceCell(root, i).layer = 3 /\ ChanceCell(root, i).at = at
  <2>1. FirstCall(root) = "chance" => i # 2
    <3>1. ASSUME i = 2 PROVE FirstCall(root) = "inner"
      BY <3>1 DEF FirstCall
    <3>2. "inner" # "chance"
      OBVIOUS
    <3> QED
      BY <3>1, <3>2
  <2>2. FirstCall(root) \in {"chance", "inner"}
    <3>1. FirstCall(root) = CallNode(root).kind
      BY ActionsOfANode DEF FirstCall
    <3>2. CallNode(root).kind \in {"chance", "inner", "terminal"}
      BY DEF CallNode, Node
    <3> QED
      BY <3>1, <3>2
  <2>3. ends = IF FirstCall(root) = "chance" THEN 2 ELSE 1
    BY <2>2 DEF Ends
  <2>4. ChanceCell(root, i) = [layer |-> 3,
          at |-> <<2, IF FirstCall(root) = "chance" THEN i - 2 ELSE i - 1, 1>>]
    BY <2>1 DEF ChanceCell
  <2> QED
    BY <2>3, <2>4
<1>6. \A x : x \in NodesAt(root, 3, at) <=> \E e \in Entries(row) : e.at = at /\ x = e.node
  <2>1. row = Placed(Structure(root), root)[3]
    BY <1>2
  <2> QED
    BY <2>1, <1>3, NodesOfARow
<1>7. \A j \in 1..k : above[j].node = children(root)[j] /\ above[j].at = <<j, 1, 1>>
  <2>1. Shape(root, s)
    BY <1>1
  <2>2. Len(above) = k
    BY <2>1, SecondRow
  <2>3. \A j \in 1..Len(above) :
          above[j].node = children(root)[j] /\ above[j].at = <<j, 1, 1>>
    BY <2>1, SecondRow
  <2> QED
    BY <2>2, <2>3, Zenon
<1>8. ASSUME NEW j \in 1..k, NEW m \in 1..Len(children(children(root)[j]))
      PROVE  LET e == PlaceChildren(s, 2, above[j])[m]
             IN  /\ e.node = children(children(root)[j])[m]
                 /\ e.at = at <=> j = i /\ m = 2
  <2>0. PICK entry : entry = above[j]
    OBVIOUS
  <2>1. entry.node = children(root)[j] /\ entry.at = <<j, 1, 1>>
    BY <2>0, <1>7
  <2>2. PICK w \in Nat : w = Len(children(entry.node)) /\ DOMAIN children(entry.node) = 1..w
    <3>1. CASE entry.node.kind = "inner"
      <4>1. IsDecision(entry.node)
        BY <2>1, <3>1, KidsAreNodes
      <4> QED
        BY <4>1, ActionsOfANode DEF ActionIds
    <3>2. CASE entry.node.kind # "inner"
      <4>1. children(entry.node) = << >>
        BY <3>2, NoKids
      <4>2. children(entry.node) \in Seq({})
        BY <4>1, EmptySeq
      <4> QED
        BY <4>2, LenProperties
    <3> QED
      BY <3>1, <3>2
  <2>3. m \in 1..w
    BY <2>1, <2>2
  <2>8. /\ PlaceChildren(s, 2, entry)[m].node = children(entry.node)[m]
        /\ PlaceChildren(s, 2, entry)[m].at = <<Slot(s, 2, w, m), j - Ends(root), 1>>
    <3>1. Shape(root, s) /\ j \in ActionIds(root)
      BY <1>1
    <3>2. /\ entry.node = children(root)[j] /\ entry.at = <<j, 1, 1>>
          /\ w = Len(children(entry.node)) /\ DOMAIN children(entry.node) = 1..w
      BY <2>1, <2>2
    <3>3. InTheThirdRow(root, s, entry, j, w, m)
      BY <2>3, <3>1, <3>2, CellOfTheThirdRow
    <3> QED
      BY <3>3, Zenon DEF InTheThirdRow
  <2>9. PICK e : e = PlaceChildren(s, 2, above[j])[m]
    OBVIOUS
  <2>4. /\ e.node = children(entry.node)[m]
        /\ e.at = <<Slot(s, 2, w, m), j - ends, 1>>
    BY <2>0, <2>8, <2>9
  <2>5. Slot(s, 2, w, m) = 2 <=> m = 2
    BY <1>1, <2>2, <2>3, SecondIsTheCall DEF Shape
  <2>6. e.at = at <=> Slot(s, 2, w, m) = 2 /\ j - ends = i - ends
    BY <2>4
  <2>7. j - ends = i - ends <=> j = i
    OBVIOUS
  <2> QED
    BY <2>1, <2>4, <2>5, <2>6, <2>7, <2>9
<1>9. IsDecision(kid)
  BY KidsAreNodes
<1>10. 2 \in 1..Len(children(kid)) /\ children(kid)[2] = CallNode(kid)
  <2>1. PICK w \in Nat : w = Len(children(kid)) /\ w >= 2
    BY <1>9, ActionsOfANode
  <2>2. children(kid)[2] = CallNode(kid)
    BY <1>9, ActionsOfANode
  <2>3. 2 \in 1..w
    BY <2>1
  <2> QED
    BY <2>1, <2>2, <2>3
<1>11. ASSUME NEW x PROVE x \in NodesAt(root, 3, at) <=> x = CallNode(kid)
  <2>1. ASSUME NEW e \in Entries(row), e.at = at, x = e.node PROVE x = CallNode(kid)
    <3>1. PICK j \in 1..k : \E m \in 1..Len(children(children(root)[j])) :
                              e = PlaceChildren(s, 2, above[j])[m]
      BY <2>1, <1>4
    <3>2. PICK m \in 1..Len(children(children(root)[j])) : e = PlaceChildren(s, 2, above[j])[m]
      BY <3>1
    <3>3. e.node = children(children(root)[j])[m] /\ j = i /\ m = 2
      BY <3>2, <2>1, <1>8
    <3> QED
      BY <3>3, <2>1, <1>10
  <2>2. ASSUME x = CallNode(kid) PROVE \E e \in Entries(row) : e.at = at /\ x = e.node
    <3> PICK e : e = PlaceChildren(s, 2, above[i])[2]
      OBVIOUS
    <3>1. 2 \in 1..Len(children(children(root)[i]))
      BY <1>10
    <3>2. e \in Entries(row)
      BY <3>1, <1>4
    <3>3. e.node = children(children(root)[i])[2] /\ e.at = at
      BY <3>1, <1>8
    <3> QED
      BY <3>2, <3>3, <2>2, <1>10
  <2> QED
    BY <2>1, <2>2, <1>6
<1> QED
  BY <1>5, <1>11 DEF NodesIn

(* So the values at the start of the next street are those of the node in  *)
(* which it starts.                                                        *)
LEMMA ChanceValues ==
  ASSUME NEW d, NEW root, root = d.root, IsDecision(root), NEW i \in ActionIds(root),
         d.last_bet = actions(root)[i], NEW node,
         \/ i = 2 /\ FirstCall(root) = "chance" /\ node = CallNode(root)
         \/ /\ children(root)[i].kind = "inner" /\ FirstCall(root) # "terminal"
            /\ node = CallNode(children(root)[i]),
         node.kind = "chance"
  PROVE  get_chance_action_cfv(d) = Values(AfterChance(node))
PROOF
<1> PICK j : j = ActionId(root, d.last_bet)
  OBVIOUS
<1>1. j \in ActionIds(root) /\ children(root)[j] = children(root)[i] /\ (j = 2 <=> i = 2)
  BY ActionIsFound
<1> PICK nodes : nodes = NodesIn(root, ChanceCell(root, j))
  OBVIOUS
<1>2. nodes = {node}
  <2>1. CASE i = 2 /\ FirstCall(root) = "chance" /\ node = CallNode(root)
    BY <2>1, <1>1, CellOfTheFirstCall
  <2>2. CASE /\ children(root)[i].kind = "inner" /\ FirstCall(root) # "terminal"
             /\ node = CallNode(children(root)[i])
    BY <2>2, <1>1, CellOfAnAnswer
  <2> QED
    BY <2>1, <2>2
<1>3. Cardinality(nodes) = 1 /\ \A n \in nodes : n.kind = "chance"
  BY <1>2, PairCounts
<1>4. (CHOOSE n \in nodes : TRUE) = node
  BY <1>2
<1>5. get_chance_action_cfv(d) = ValuesAfter(nodes)
  BY DEF get_chance_action_cfv
<1> QED
  BY <1>3, <1>4, <1>5 DEF ValuesAfter

-----------------------------------------------------------------------------
(* What DeepStack carries over.  d decided at its root for the i-th        *)
(* action, in this hand.                                                   *)
Chose(d, i) ==
  /\ IsDecision(d.root) /\ i \in Playable(d.root)
  /\ d.last_node = d.root /\ d.last_street = d.root.street
  /\ d.last_bet = actions(d.root)[i] /\ d.bound = Values(children(d.root)[i])
  /\ d.last_hand = hand /\ d.position = me + 1
  /\ d.decision_id \in Nat \ {0}

(* DeepStack has not acted in this hand.                                   *)
NotYet ==
  /\ played = << >> /\ since = Values(FirstNode) /\ ds.last_hand # hand
  /\ \/ state = initState(game)
     \/ me = 1 /\ DeepStacksTurn /\ state.round = 0

(* Its answer is on the way.                                               *)
Answered ==
  /\ answer # << >> /\ ds.root = NodeOf(state)
  /\ answer[1].action = Answer(<< >>, ds.last_bet).action
  /\ ds.range = Append(played, [root |-> NodeOf(state), bet |-> ds.last_bet])
  /\ ds.given = IF NodeOf(state) = FirstNode THEN NoValues ELSE since

(* The opponent answers its last action.                                   *)
Waits(i) ==
  OpponentsTurn /\ NodeOf(state) = children(ds.root)[i] /\ since = ds.bound

(* The opponent has answered, and the street goes on.                      *)
SameStreet ==
  /\ DeepStacksTurn /\ state.round + 1 = ds.root.street
  /\ CurrentActions(state) # << >> /\ since = ds.bound

(* The street of its last action has ended with it, or with the            *)
(* opponent's answer.                                                      *)
NextStreet ==
  /\ ~state.finished /\ state.round = 1 /\ ds.root.street = 1
  /\ get_chance_action_cfv(ds) = since
  /\ ~(ds.last_bet = CCall /\ FirstCall(ds.root) = "terminal")

Follows ==
  /\ ds.alive /\ ds.last_hand \in Nat /\ ds.last_hand <= hand
  /\ \/ answer = << >> /\ NotYet
     \/ answer = << >> /\ state.finished
     \/ \E i \in Playable(ds.root) :
          /\ Chose(ds, i)
          /\ \/ Answered
             \/ /\ answer = << >> /\ ds.range = played
                /\ Waits(i) \/ SameStreet \/ NextStreet

-----------------------------------------------------------------------------
(* One decision of DeepStack.                                              *)
LEMMA DecidedFields ==
  ASSUME NEW d, IsResolver(d), NEW parsed, NEW node, NEW i,
         NEW e, e = Decided(d, parsed, node, i)
  PROVE  /\ e.root = d.root /\ e.given = d.given
         /\ e.position = d.position /\ e.alive = d.alive
         /\ e.last_bet = actions(d.root)[i] /\ e.bound = Values(children(d.root)[i])
         /\ e.range = Append(d.range, [root |-> d.root, bet |-> actions(d.root)[i]])
         /\ e.decision_id = d.decision_id + 1
         /\ e.last_node = node /\ e.last_street = node.street
         /\ e.last_hand = parsed.hand_number
PROOF
<1> PICK bet : bet = actions(d.root)[i]
  OBVIOUS
<1>1. e = [d EXCEPT !.bound = Values(children(d.root)[i]),
                    !.range = Append(d.range, [root |-> d.root, bet |-> bet]),
                    !.decision_id = d.decision_id + 1, !.last_bet = bet, !.last_node = node,
                    !.last_hand = parsed.hand_number, !.last_street = node.street]
  BY DEF Decided
<1>2. /\ e.root = d.root /\ e.given = d.given
      /\ e.position = d.position /\ e.alive = d.alive
  BY <1>1 DEF IsResolver
<1>3. e.last_bet = bet /\ e.bound = Values(children(d.root)[i])
  BY <1>1 DEF IsResolver
<1>4. e.range = Append(d.range, [root |-> d.root, bet |-> bet])
  BY <1>1 DEF IsResolver
<1>5. /\ e.decision_id = d.decision_id + 1
      /\ e.last_node = node /\ e.last_street = node.street
      /\ e.last_hand = parsed.hand_number
  BY <1>1 DEF IsResolver
<1> QED
  BY <1>2, <1>3, <1>4, <1>5

LEMMA NewHandFields ==
  ASSUME NEW d, IsResolver(d), NEW parsed, NEW e, e = start_new_hand(d, parsed)
  PROVE  /\ e.last_node = NoNode /\ e.decision_id = 0 /\ e.position = parsed.position
         /\ e.alive = d.alive
PROOF
<1>1. e = [d EXCEPT !.last_node = NoNode, !.decision_id = 0, !.position = parsed.position]
  BY DEF start_new_hand
<1> QED
  BY <1>1 DEF IsResolver

(* What is the same however the node was solved.                           *)
SolvedFrom(d, e, node, range, given) ==
  /\ IsResolver(e) /\ e.root = node /\ e.range = range /\ e.given = given
  /\ e.position = d.position /\ e.alive = d.alive /\ e.decision_id = d.decision_id

LEMMA SolvedAtFirst ==
  ASSUME NEW d, IsResolver(d), AtFirstNode(d), NEW node
  PROVE  SolvedFrom(d, resolve_node(d, node), FirstNode, << >>, NoValues)
PROOF
<1> PICK e : e = resolve_node(d, node)
  OBVIOUS
<1>1. e = [d EXCEPT !.range = << >>, !.root = FirstNode, !.given = NoValues]
  BY DEF resolve_node
<1>2. IsResolver(e) /\ e.root = FirstNode /\ e.range = << >> /\ e.given = NoValues
  BY <1>1 DEF IsResolver
<1>3. e.position = d.position /\ e.alive = d.alive /\ e.decision_id = d.decision_id
  BY <1>1 DEF IsResolver
<1> QED
  BY <1>2, <1>3 DEF SolvedFrom

LEMMA SolvedLater ==
  ASSUME NEW d, IsResolver(d), ~AtFirstNode(d), NEW node
  PROVE  LET e == resolve_node(d, node)
         IN  /\ StreetChanged(d, node) =>
                  SolvedFrom(d, e, node, d.range, get_chance_action_cfv(d))
             /\ ~StreetChanged(d, node) /\ d.decision_id = 0 =>
                  SolvedFrom(d, e, node, << >>, Values(FirstNode))
             /\ ~StreetChanged(d, node) /\ d.decision_id # 0 =>
                  SolvedFrom(d, e, node, d.range, d.bound)
PROOF
<1> PICK c : c = update_invariant(d, node)
  OBVIOUS
<1> PICK e : e = resolve_node(d, node)
  OBVIOUS
<1>1. e = [c EXCEPT !.root = node, !.given = c.bound]
  BY DEF resolve_node, Resolve
<1>2. ASSUME IsResolver(c), c.position = d.position, c.alive = d.alive,
             c.decision_id = d.decision_id
      PROVE  SolvedFrom(d, e, node, c.range, c.bound)
  <2>1. IsResolver(e) /\ e.root = node /\ e.range = c.range /\ e.given = c.bound
    BY <1>1, <1>2 DEF IsResolver
  <2>2. e.position = d.position /\ e.alive = d.alive /\ e.decision_id = d.decision_id
    BY <1>1, <1>2 DEF IsResolver
  <2> QED
    BY <2>1, <2>2 DEF SolvedFrom
<1>3. CASE StreetChanged(d, node)
  <2> PICK bound : bound = get_chance_action_cfv(d)
    OBVIOUS
  <2>1. c = [d EXCEPT !.bound = bound]
    BY <1>3 DEF update_invariant
  <2>2. IsResolver(c) /\ c.range = d.range /\ c.bound = bound
    BY <2>1 DEF IsResolver
  <2>3. c.position = d.position /\ c.alive = d.alive /\ c.decision_id = d.decision_id
    BY <2>1 DEF IsResolver
  <2>4. SolvedFrom(d, e, node, d.range, bound)
    BY <2>2, <2>3, <1>2
  <2> QED
    BY <2>4, <1>3
<1>4. CASE ~StreetChanged(d, node) /\ d.decision_id = 0
  <2>1. c = [d EXCEPT !.range = << >>, !.bound = Values(FirstNode)]
    BY <1>4 DEF update_invariant
  <2>2. IsResolver(c) /\ c.range = << >> /\ c.bound = Values(FirstNode)
    BY <2>1 DEF IsResolver
  <2>3. c.position = d.position /\ c.alive = d.alive /\ c.decision_id = d.decision_id
    BY <2>1 DEF IsResolver
  <2>4. SolvedFrom(d, e, node, << >>, Values(FirstNode))
    BY <2>2, <2>3, <1>2
  <2> QED
    BY <2>4, <1>4
<1>5. CASE ~StreetChanged(d, node) /\ d.decision_id # 0
  <2>1. c = d
    BY <1>5 DEF update_invariant
  <2>2. SolvedFrom(d, e, node, d.range, d.bound)
    BY <2>1, <1>2
  <2> QED
    BY <2>2, <1>5
<1> QED
  BY <1>3, <1>4, <1>5

(* DeepStack's answer follows from what it was solved from.                *)
RightInputs(d, solved) ==
  LET node == NodeOf(state)
  IN  /\ SolvedFrom(d, solved, node, played, IF node = FirstNode THEN NoValues ELSE since)
      /\ d.position = me + 1 /\ d.decision_id \in Nat /\ d.alive

LEMMA AnswerFollows ==
  ASSUME Talk, OnTurn(state, me), NEW d, NEW solved, NEW parsed, NEW i,
         RightInputs(d, solved), parsed.hand_number = hand, Deciding(solved, i, parsed, d),
         UNCHANGED <<hand, me, state, played, since>>
  PROVE  Follows'
PROOF
<1> PICK node : node = NodeOf(state)
  OBVIOUS
<1> PICK bet : bet = actions(node)[i]
  OBVIOUS
<1>1. IsDecision(node)
  BY NodeOfState DEF OnTurn
<1>2. /\ IsResolver(solved) /\ solved.root = node /\ solved.range = played
      /\ solved.given = IF node = FirstNode THEN NoValues ELSE since
      /\ solved.position = me + 1 /\ solved.alive /\ solved.decision_id \in Nat
  BY DEF RightInputs, SolvedFrom
<1>3. ds' = Decided(solved, parsed, node, i) /\ i \in Playable(node)
  BY <1>2 DEF Deciding
<1>4. /\ ds'.root = node /\ ds'.given = solved.given
      /\ ds'.position = me + 1 /\ ds'.alive
      /\ ds'.last_bet = bet /\ ds'.bound = Values(children(node)[i])
      /\ ds'.range = Append(played, [root |-> node, bet |-> bet])
      /\ ds'.decision_id = solved.decision_id + 1
      /\ ds'.last_node = node /\ ds'.last_street = node.street
      /\ ds'.last_hand = hand
  BY <1>2, <1>3, DecidedFields
<1>5. answer' = <<[to |-> Message(state, me, hand), action |-> Answer(<< >>, bet).action]>>
  BY <1>2 DEF Deciding
<1>6. answer' # << >> /\ answer'[1].action = Answer(<< >>, bet).action
  <2> PICK a : a = [to |-> Message(state, me, hand), action |-> Answer(<< >>, bet).action]
    OBVIOUS
  <2>1. answer' = <<a>>
    BY <1>5
  <2>2. answer' # << >> /\ answer'[1] = a
    BY <2>1
  <2> QED
    BY <2>2
<1>7. NodeOf(state)' = node
  BY DEF NodeOf
<1>8. Answered'
  BY <1>2, <1>4, <1>6, <1>7 DEF Answered
<1>9. Chose(ds, i)'
  <2>1. ds'.decision_id \in Nat \ {0}
    BY <1>2, <1>4
  <2> QED
    BY <1>1, <1>3, <1>4, <2>1 DEF Chose
<1>10. hand \in Nat
  BY DEF Talk, HandGoesOn
<1>11. ds'.alive /\ ds'.last_hand \in Nat /\ ds'.last_hand <= hand'
  BY <1>4, <1>10
<1>12. i \in Playable(ds'.root)
  BY <1>3, <1>4
<1> QED
  BY <1>8, <1>9, <1>11, <1>12 DEF Follows

(* Where it was solved from is right.                                      *)
LEMMA FirstNodeOfAHand ==
  NodeOf(initState(game)) = FirstNode
PROOF
<1> PICK s : s = initState(game)
  OBVIOUS
<1>1. /\ InHand(s, 0) /\ s.round = 0 /\ s.spent[0] = ante /\ s.spent[1] = ante
  BY NewHandBegins
<1>2. NodeOf(s) = Node(s.round + 1, 0 + 1, <<s.spent[0], s.spent[1]>>, "inner")
  BY <1>1, NodeOfState
<1> QED
  BY <1>1, <1>2 DEF FirstNode, P1

LEMMA FirstDecision ==
  ASSUME Talk, OnTurn(state, me), Follows, NotYet,
         NEW parsed, parsed.position = me + 1, parsed.hand_number = hand,
         NEW d, d = IF IsNewHand(ds, parsed) THEN start_new_hand(ds, parsed) ELSE ds
  PROVE  ResolveAsserts(d, NodeOf(state)) /\ RightInputs(d, resolve_node(d, NodeOf(state)))
PROOF
<1> PICK node : node = NodeOf(state)
  OBVIOUS
<1>0. IsResolver(ds) /\ me \in {0, 1}
  BY DEF Talk, HandGoesOn
<1>1. /\ node = Node(state.round + 1, me + 1, <<state.spent[0], state.spent[1]>>, "inner")
      /\ currentPlayer(game, state) = me
  BY NodeOfState, StateIsTyped DEF OnTurn, Talk, HandGoesOn
<1>2. node.street = state.round + 1 /\ node.current_player = me + 1
  BY <1>1 DEF Node
<1>3. d = start_new_hand(ds, parsed)
  BY DEF NotYet, IsNewHand
<1>4. d.last_node = NoNode /\ d.decision_id = 0 /\ d.position = me + 1 /\ d.alive
  BY <1>0, <1>3, NewHandFields DEF Follows
<1>5. ~StreetChanged(d, node)
  BY <1>4 DEF StreetChanged
<1>6. IsResolver(d)
  BY <1>0, <1>3 DEF start_new_hand, IsResolver
<1>7. played = << >> /\ since = Values(FirstNode)
  BY DEF NotYet
<1>8. CASE me = 0
  <2>1. state = initState(game)
    BY <1>8 DEF NotYet
  <2>2. node = FirstNode
    BY <2>1, FirstNodeOfAHand
  <2>3. AtFirstNode(d)
    BY <1>4, <1>8 DEF AtFirstNode, P1
  <2>4. SolvedFrom(d, resolve_node(d, node), FirstNode, << >>, NoValues)
    BY <2>3, <1>6, SolvedAtFirst
  <2>5. SolvedFrom(d, resolve_node(d, node), node, played,
                   IF node = FirstNode THEN NoValues ELSE since)
    BY <2>2, <2>4, <1>7
  <2> QED
    BY <2>3, <2>5, <1>4, <1>0 DEF ResolveAsserts, RightInputs
<1>9. CASE me = 1
  <2>1. state.round = 0
    <3>1. currentPlayer(game, initState(game)) = 0
      BY NewHandBegins, Turn
    <3>2. 0 # 1
      OBVIOUS
    <3> QED
      BY <3>1, <3>2, <1>1, <1>9 DEF NotYet
  <2>2. node.street = 1 /\ node.current_player = 2 /\ d.position = 2
    BY <2>1, <1>2, <1>4, <1>9
  <2>3. ~AtFirstNode(d)
    BY <2>2 DEF AtFirstNode, P1
  <2>4. ResolveAsserts(d, node)
    BY <2>2, <1>4, <1>5 DEF ResolveAsserts, UpdateAsserts, P2
  <2>5. FirstNode.current_player = 1
    BY DEF FirstNode, Node, P1
  <2>6. node # FirstNode
    <3>1. 2 # 1
      OBVIOUS
    <3> QED
      BY <3>1, <2>2, <2>5
  <2>7. SolvedFrom(d, resolve_node(d, node), node, << >>, Values(FirstNode))
    BY <2>3, <1>4, <1>5, <1>6, SolvedLater
  <2>8. SolvedFrom(d, resolve_node(d, node), node, played,
                   IF node = FirstNode THEN NoValues ELSE since)
    BY <2>6, <2>7, <1>7
  <2> QED
    BY <2>4, <2>8, <1>4, <1>0 DEF RightInputs
<1> QED
  BY <1>0, <1>8, <1>9

LEMMA LaterDecision ==
  ASSUME Talk, OnTurn(state, me), Follows, NEW i, Chose(ds, i), ds.range = played,
         SameStreet \/ NextStreet,
         NEW parsed, parsed.hand_number = hand, parsed.current_street = state.round + 1,
         NEW d, d = IF IsNewHand(ds, parsed) THEN start_new_hand(ds, parsed) ELSE ds
  PROVE  ResolveAsserts(d, NodeOf(state)) /\ RightInputs(d, resolve_node(d, NodeOf(state)))
PROOF
<1> PICK node : node = NodeOf(state)
  OBVIOUS
<1>0. IsResolver(ds) /\ me \in {0, 1} /\ state.round \in {0, 1}
  BY StateFields DEF Talk, HandGoesOn, OnTurn, InHand, Sound
<1>1. /\ node = Node(state.round + 1, me + 1, <<state.spent[0], state.spent[1]>>, "inner")
      /\ CallIsCheck(node) <=> CurrentActions(state) = << >>
  BY NodeOfState DEF OnTurn
<1>2. node.street = state.round + 1 /\ node.current_player = me + 1
  BY <1>1 DEF Node
<1> PICK root : root = ds.root
  OBVIOUS
<1>3. /\ IsDecision(root) /\ ds.last_node = root /\ ds.last_street = root.street
      /\ ds.last_hand = hand /\ ds.position = me + 1 /\ ds.decision_id \in Nat \ {0}
      /\ ds.alive
  BY DEF Chose, Follows
<1>4. root # NoNode
  <2>1. root.kind = "inner" /\ NoNode.kind = "terminal"
    BY <1>3, DecisionFields DEF NoNode, Node
  <2>2. "inner" # "terminal"
    OBVIOUS
  <2> QED
    BY <2>1, <2>2, Zenon
<1>5. root.street <= state.round + 1
  <2>1. CASE SameStreet
    BY <2>1, <1>0 DEF SameStreet
  <2>2. CASE NextStreet
    BY <2>2 DEF NextStreet
  <2> QED
    BY <2>1, <2>2
<1>6. d = ds
  <2>1. ~(state.round + 1 < root.street)
    <3>1. root.street \in {1, 2}
      BY <1>3, DecisionFields
    <3> QED
      BY <3>1, <1>0, <1>5
  <2>2. ~IsNewHand(ds, parsed)
    BY <2>1, <1>3 DEF IsNewHand
  <2> QED
    BY <2>2
<1>7. ~AtFirstNode(d)
  BY <1>3, <1>6 DEF AtFirstNode
<1>8. CASE SameStreet
  <2>1. root.street = node.street /\ since = ds.bound /\ CurrentActions(state) # << >>
    BY <1>2, <1>8 DEF SameStreet
  <2>2. ~StreetChanged(d, node) /\ d.decision_id # 0
    BY <2>1, <1>3, <1>6 DEF StreetChanged
  <2>3. ResolveAsserts(d, node)
    BY <2>1, <2>2, <1>2, <1>3, <1>6 DEF ResolveAsserts, UpdateAsserts
  <2>4. SolvedFrom(d, resolve_node(d, node), node, d.range, d.bound)
    BY <2>2, <1>0, <1>6, <1>7, SolvedLater
  <2>5. CallIsCheck(FirstNode)
    <3>1. FirstNode.current_player = P1 /\ FirstNode.bets = <<ante, ante>>
      BY DEF FirstNode, Node
    <3> QED
      BY <3>1 DEF CallIsCheck, Level
  <2>6. node # FirstNode
    BY <2>1, <2>5, <1>1
  <2>7. SolvedFrom(d, resolve_node(d, node), node, played,
                   IF node = FirstNode THEN NoValues ELSE since)
    BY <2>1, <2>4, <2>6, <1>6
  <2> QED
    BY <2>3, <2>7, <1>3, <1>6 DEF RightInputs
<1>9. CASE NextStreet
  <2>1. /\ state.round = 1 /\ root.street = 1 /\ get_chance_action_cfv(ds) = since
        /\ ~(ds.last_bet = CCall /\ FirstCall(root) = "terminal")
    BY <1>9 DEF NextStreet
  <2>2. node.street = 2 /\ 1 + 1 = 2 /\ 1 # 2
    BY <2>1, <1>2
  <2>3. StreetChanged(d, node)
    BY <2>1, <2>2, <1>3, <1>4, <1>6 DEF StreetChanged
  <2>4. ResolveAsserts(d, node)
    BY <2>1, <2>2, <2>3, <1>2, <1>3, <1>6 DEF ResolveAsserts, UpdateAsserts
  <2>5. SolvedFrom(d, resolve_node(d, node), node, d.range, get_chance_action_cfv(d))
    BY <2>3, <1>0, <1>6, <1>7, SolvedLater
  <2>6. FirstNode.street = 1
    BY DEF FirstNode, Node
  <2>7. node # FirstNode
    BY <2>2, <2>6
  <2>8. SolvedFrom(d, resolve_node(d, node), node, played,
                   IF node = FirstNode THEN NoValues ELSE since)
    BY <2>1, <2>5, <2>7, <1>6
  <2> QED
    BY <2>4, <2>8, <1>3, <1>6 DEF RightInputs
<1> QED
  BY <1>8, <1>9

LEMMA DeepStackFollows ==
  ASSUME Talk, Follows, DeepStackPlays
  PROVE  Follows'
PROOF
<1>1. /\ answer = << >> /\ OnTurn(state, me)
      /\ UNCHANGED <<hand, me, state, played, since>>
  BY DeepStackDecides
<1>2. PICK parsed, d :
        /\ parsed = parse_state(Message(state, me, hand)) /\ ds.alive
        /\ d = IF IsNewHand(ds, parsed) THEN start_new_hand(ds, parsed) ELSE ds
        /\ IsResolver(d)
        /\ \/ /\ ResolveAsserts(d, NodeOf(state))
              /\ \E solved, i : Deciding(solved, i, parsed, d)
           \/ /\ ~ResolveAsserts(d, NodeOf(state))
              /\ ds' = [ds EXCEPT !.alive = FALSE] /\ answer' = << >>
  BY DeepStackDecides
<1>3. Proper(state) /\ me \in {0, 1}
  BY DEF Talk, HandGoesOn
<1>4. ~state.finished /\ currentPlayer(game, state) = me
  BY <1>1, <1>3, StateIsTyped
<1>5. parsed.position = me + 1 /\ parsed.hand_number = hand
      /\ parsed.current_street = state.round + 1
  BY <1>2, <1>3, <1>4, StateIsRead
<1>6. ResolveAsserts(d, NodeOf(state)) /\ RightInputs(d, resolve_node(d, NodeOf(state)))
  <2>1. CASE NotYet
    BY <2>1, <1>1, <1>2, <1>5, FirstDecision
  <2>2. ASSUME NEW i, Chose(ds, i), ds.range = played, SameStreet \/ NextStreet
        PROVE  ResolveAsserts(d, NodeOf(state)) /\ RightInputs(d, resolve_node(d, NodeOf(state)))
    BY <2>2, <1>1, <1>2, <1>5, LaterDecision
  <2>3. ~OpponentsTurn
    BY <1>4 DEF OpponentsTurn
  <2>4. NotYet \/ \E i \in Playable(ds.root) :
                    /\ Chose(ds, i) /\ ds.range = played /\ (SameStreet \/ NextStreet)
    BY <2>3, <1>1, <1>4 DEF Follows, Answered, Waits
  <2> QED
    BY <2>1, <2>2, <2>4
<1>7. PICK solved, i : Deciding(solved, i, parsed, d)
  BY <1>2, <1>6
<1>8. RightInputs(d, solved)
  BY <1>6, <1>7 DEF Deciding
<1> QED
  BY <1>1, <1>5, <1>7, <1>8, AnswerFollows

-----------------------------------------------------------------------------
(* What the other steps make of a decision.                                *)
LEMMA KidKinds ==
  ASSUME NEW node, IsDecision(node), NEW i \in ActionIds(node),
         NEW kid, kid = children(node)[i]
  PROVE  /\ kid.kind \in {"terminal", "chance", "inner"}
         /\ kid.kind = "chance" => i = 2 /\ kid = CallNode(node) /\ FirstCall(node) = "chance"
PROOF
<1> PICK k \in Nat : k = Len(RaiseSizes(node)) + 2 /\ ActionIds(node) = 1..k
  BY ActionsOfANode
<1>1. i = 1 \/ i = 2 \/ i \in 3..k
  OBVIOUS
<1>2. CASE i = 1
  <2>1. kid = FoldNode(node)
    BY <1>2, ActionsOfANode
  <2>2. FoldNode(node).kind = "terminal"
    BY DEF FoldNode, Node
  <2>3. kid.kind = "terminal"
    BY <2>1, <2>2
  <2> QED
    BY <2>3
<1>3. CASE i = 2
  <2>1. kid = CallNode(node) /\ FirstCall(node) = kid.kind
    BY <1>3, ActionsOfANode DEF FirstCall
  <2>2. CallNode(node).kind \in {"terminal", "chance", "inner"}
    BY DEF CallNode, Node
  <2>3. kid.kind \in {"terminal", "chance", "inner"}
    BY <2>1, <2>2
  <2> QED
    BY <2>1, <2>3, <1>3
<1>4. CASE i \in 3..k
  <2>1. kid = BetNode(node, RaiseSizes(node)[i - 2])
    BY <1>4, ActionsOfANode
  <2>2. \A r : BetNode(node, r).kind = "inner"
    BY DEF BetNode, Node
  <2>3. kid.kind = "inner"
    BY <2>1, <2>2
  <2> QED
    BY <2>3
<1> QED
  BY <1>1, <1>2, <1>3, <1>4

(* If there is anything to answer on the first street, a call at the root  *)
(* does not end the hand.                                                  *)
LEMMA FirstCallGoesOn ==
  ASSUME NEW node, IsDecision(node), node.street = 1, NEW i \in ActionIds(node),
         children(node)[i].kind = "inner"
  PROVE  FirstCall(node) # "terminal"
PROOF
<1>1. SUFFICES ASSUME FirstCall(node) = "terminal" PROVE FALSE
  OBVIOUS
<1>2. FirstCall(node) = CallNode(node).kind
  BY ActionsOfANode DEF FirstCall
<1>3. ~CallIsCheck(node) /\ ~CallEndsStreet(node)
  BY <1>1, <1>2 DEF CallNode, Node
<1>4. node.current_player \in {1, 2} /\ Filled(node.bets) = <<Opp(node), Opp(node)>>
  BY DecisionFields
<1>5. ~(Filled(node.bets)[1] < stack)
  BY <1>3, <1>4 DEF CallIsCheck, CallEndsStreet, P1, P2
<1> PICK opp \in Nat : opp = Opp(node) /\ opp <= stack
  BY DecisionFields
<1>6. opp = stack
  <2>1. Filled(node.bets)[1] = opp
    BY <1>4
  <2>2. stack \in Nat
    BY TheGame
  <2> QED
    BY <2>1, <2>2, <1>5
<1>7. RaiseSizes(node) = << >>
  BY <1>6, RaisesOfTheTree
<1>8. Len(RaiseSizes(node)) = 0
  BY <1>7
<1>9. i \in 1..Len(children(node)) /\ Len(children(node)) = 2
  <2> PICK k : k = Len(RaiseSizes(node)) + 2
    OBVIOUS
  <2>1. ActionIds(node) = 1..k /\ Len(children(node)) = k
    BY ActionsOfANode
  <2>2. k = 2
    BY <1>8
  <2> QED
    BY <2>1, <2>2
<1>10. i # 1
  BY <1>9, KidsAreNodes
<1>11. i = 2
  BY <1>9, <1>10
<1> QED
  BY <1>1, <1>11 DEF FirstCall

(* The dealer takes an answer as it is meant.                              *)
LEMMA AnswerIsAccepted ==
  ASSUME NEW q, OnTurn(state, q), NEW root, root = NodeOf(state), NEW i \in Playable(root),
         NEW bet, bet = actions(root)[i], NEW asked, asked = Answer(<< >>, bet).action
  PROVE  Accepted(asked) = asked /\ BetName(asked) = bet /\ IsAfter(children(root)[i], asked)
PROOF
<1>1. IsAfter(children(root)[i], asked)
  BY TreeFits
<1>2. isValidAction(game, state, FALSE, asked) /\ fixAction(game, state, asked) = asked
  BY <1>1 DEF IsAfter
<1>3. isValidAction(game, state, TRUE, asked)
  BY <1>2 DEF isValidAction
<1>4. Accepted(asked) = asked
  BY <1>2, <1>3 DEF Accepted
<1>5. IsDecision(root)
  BY NodeOfState DEF OnTurn
<1>6. bet = Fold \/ bet = CCall \/ bet \in Nat
  <2> PICK k \in Nat : k = Len(RaiseSizes(root)) + 2 /\ ActionIds(root) = 1..k
    BY <1>5, ActionsOfANode
  <2>1. i = 1 \/ i = 2 \/ i \in 3..k
    BY DEF Playable
  <2> QED
    BY <2>1, <1>5, ActionsOfANode
<1>7. Fold # CCall /\ Fold \notin Nat /\ CCall \notin Nat
  BY DEF Fold, CCall
<1> PICK msg : msg = << >>
  OBVIOUS
<1>8. BetName(asked) = bet
  <2>1. CASE bet = Fold
    <3>1. asked = [type |-> "fold", size |-> 0]
      BY <2>1 DEF Answer, Fold, CCall
    <3> QED
      BY <3>1, <2>1 DEF BetName
  <2>2. CASE bet = CCall
    <3>1. asked = [type |-> "call", size |-> 0]
      BY <2>2 DEF Answer, Fold, CCall
    <3> QED
      BY <3>1, <2>2 DEF BetName
  <2>3. CASE bet \in Nat
    <3>1. asked = [type |-> "raise", size |-> bet]
      BY <2>3, AnswerOfATree
    <3> QED
      BY <3>1, <2>3 DEF BetName
  <2> QED
    BY <2>1, <2>2, <2>3, <1>6
<1> QED
  BY <1>1, <1>4, <1>8

LEMMA ValuesAfterStreet ==
  AfterStreet = Values(NodeOf(state'))
PROOF
<1> PICK node : node = NodeOf(state')
  OBVIOUS
<1>1. /\ node.street = state'.round + 1
      /\ node.bets = <<state'.spent[0], state'.spent[1]>>
  BY DEF NodeOf, Node
<1>2. Values(node) = [street |-> node.street, bets |-> node.bets]
  BY DEF Values
<1> QED
  BY <1>1, <1>2 DEF AfterStreet

(* Each step keeps DeepStack's data true to the hand.                      *)
LEMMA FollowsBegins ==
  Init => Follows
PROOF
<1> SUFFICES ASSUME Init PROVE Follows
  OBVIOUS
<1>1. ds = JustStarted /\ hand = 1 /\ answer = << >> /\ played = << >>
      /\ since = Values(FirstNode) /\ state = initState(game)
  BY DEF Init
<1>2. ds.alive /\ ds.last_hand = 0
  BY <1>1 DEF JustStarted
<1>3. 0 \in Nat /\ 0 <= 1 /\ 0 # 1
  OBVIOUS
<1>4. NotYet
  BY <1>1, <1>2, <1>3 DEF NotYet
<1> QED
  BY <1>1, <1>2, <1>3, <1>4 DEF Follows

LEMMA ChoseStays ==
  ASSUME NEW i, Chose(ds, i), UNCHANGED <<hand, me, ds>>
  PROVE  Chose(ds, i)'
PROOF
<1> QED
  BY DEF Chose

LEMMA HandIsOver ==
  ASSUME Follows, UNCHANGED <<hand, ds>>, answer' = << >>, Over(state')
  PROVE  Follows'
PROOF
<1>1. state'.finished
  BY DEF Over
<1>2. ds'.alive /\ ds'.last_hand \in Nat /\ ds'.last_hand <= hand'
  BY DEF Follows
<1> QED
  BY <1>1, <1>2 DEF Follows

(* A street that begins with values for its first node.                    *)
LEMMA StreetIsNext ==
  ASSUME NEW i \in ActionIds(ds.root), Chose(ds, i), UNCHANGED <<hand, me, ds>>,
         NEW node, node.kind = "chance", AfterChance(node) = NodeOf(state'),
         NEW root, root = ds.root, root.street = 1,
         \/ i = 2 /\ FirstCall(root) = "chance" /\ node = CallNode(root)
         \/ children(root)[i].kind = "inner" /\ node = CallNode(children(root)[i]),
         ~state'.finished, state'.round = 1, since' = AfterStreet
  PROVE  NextStreet'
PROOF
<1>1. IsDecision(root) /\ ds.last_bet = actions(root)[i]
  BY DEF Chose
<1>2. FirstCall(root) # "terminal"
  <2>1. CASE FirstCall(root) = "chance"
    <3>1. "chance" # "terminal"
      OBVIOUS
    <3> QED
      BY <2>1, <3>1
  <2>2. CASE children(root)[i].kind = "inner"
    BY <2>2, <1>1, FirstCallGoesOn
  <2> QED
    BY <2>1, <2>2
<1>3. get_chance_action_cfv(ds) = Values(AfterChance(node))
  BY <1>1, <1>2, ChanceValues
<1>4. since' = get_chance_action_cfv(ds)
  BY <1>3, ValuesAfterStreet
<1>5. ds' = ds
  OBVIOUS
<1>6. get_chance_action_cfv(ds') = since'
  BY <1>4, <1>5
<1>7. ~(ds'.last_bet = CCall /\ FirstCall(ds'.root) = "terminal")
  BY <1>2, <1>5
<1>8. ds'.root.street = 1
  BY <1>5
<1> QED
  BY <1>6, <1>7, <1>8 DEF NextStreet

LEMMA DealerFollows ==
  ASSUME Talk, Follows, DealerTakesAnswer
  PROVE  Follows'
PROOF
<1>1. /\ DeepStacksTurn /\ inbox = << >> /\ answer' = << >> /\ OnTurn(state, me)
      /\ since' = AfterStreet /\ UNCHANGED <<hand, me, ds>>
  BY TheAnswerIsTaken
<1>2. PICK asked \in AskedActions :
        /\ answer = <<[to |-> Message(state, me, hand), action |-> asked]>>
        /\ Accepted(asked) \in AskedActions
        /\ isValidAction(game, state, FALSE, Accepted(asked)) /\ Does(Accepted(asked))
        /\ played' = Append(played, [root |-> NodeOf(state), bet |-> BetName(Accepted(asked))])
  BY TheAnswerIsTaken
<1>3. answer # << >> /\ answer[1].action = asked
  <2> PICK a : a = [to |-> Message(state, me, hand), action |-> asked]
    OBVIOUS
  <2>1. answer = <<a>>
    BY <1>2
  <2>2. answer # << >> /\ answer[1] = a
    BY <2>1
  <2> QED
    BY <2>2
<1>4. PICK i \in Playable(ds.root) : Chose(ds, i) /\ Answered
  BY <1>3 DEF Follows
<1> PICK root : root = ds.root
  OBVIOUS
<1>5. /\ IsDecision(root) /\ root = NodeOf(state) /\ i \in ActionIds(root)
      /\ ds.last_bet = actions(root)[i] /\ ds.bound = Values(children(root)[i])
      /\ ds.range = Append(played, [root |-> NodeOf(state), bet |-> ds.last_bet])
      /\ asked = Answer(<< >>, ds.last_bet).action
  BY <1>3, <1>4 DEF Chose, Answered, Playable
<1> PICK kid : kid = children(root)[i]
  OBVIOUS
<1>6. Accepted(asked) = asked /\ BetName(asked) = ds.last_bet /\ IsAfter(kid, asked)
  BY <1>1, <1>4, <1>5, AnswerIsAccepted
<1>7. ds'.range = played'
  BY <1>1, <1>2, <1>5, <1>6
<1>8. Chose(ds, i)'
  BY <1>1, <1>4, ChoseStays
<1>9. ds'.alive /\ ds'.last_hand \in Nat /\ ds'.last_hand <= hand'
  BY <1>1 DEF Follows
<1>10. i \in Playable(ds'.root)
  BY <1>1, <1>4
<1>11. SUFFICES Over(state') \/ Waits(i)' \/ NextStreet'
  BY <1>1, <1>7, <1>8, <1>9, <1>10, HandIsOver DEF Follows
<1> PICK next : next = state'
  OBVIOUS
<1>12. next = doAction(game, state, asked) /\ isValidAction(game, state, FALSE, asked)
  BY <1>2, <1>6 DEF Does
<1>13. /\ kid.kind = "terminal" <=> next.finished
       /\ kid.kind = "chance" <=> ~next.finished /\ next.round > state.round
       /\ kid.kind = "inner" => kid = NodeOf(next)
       /\ kid.kind = "chance" => AfterChance(kid) = NodeOf(next)
  BY <1>6, <1>12 DEF IsAfter
<1>14. me \in {0, 1} /\ state.round \in {0, 1} /\ root.street = state.round + 1
  <2>1. me \in {0, 1} /\ state.round \in {0, 1}
    BY <1>1, StateFields DEF Talk, HandGoesOn, OnTurn, InHand, Sound
  <2>2. root.street = state.round + 1
    BY <1>5 DEF NodeOf, Node
  <2> QED
    BY <2>1, <2>2
<1>15. Proper(next)
  BY <1>1, <1>12, <1>14, HandStaysProper DEF Proper
<1>16. CASE Over(next)
  BY <1>16
<1>17. CASE next.round = 1 /\ state.round = 0 /\ OnTurn(next, 0)
  <2>1. ~next.finished
    BY <1>15, <1>17, StateIsTyped
  <2>2. kid.kind = "chance" /\ AfterChance(kid) = NodeOf(next)
    BY <2>1, <1>13, <1>17
  <2>3. i = 2 /\ kid = CallNode(root) /\ FirstCall(root) = "chance"
    BY <2>2, <1>5, KidKinds
  <2>4. root.street = 1
    BY <1>14, <1>17
  <2>5. NextStreet'
    BY <2>1, <2>2, <2>3, <2>4, <1>1, <1>4, <1>5, <1>17, StreetIsNext
  <2> QED
    BY <2>5
<1>18. CASE next.round = state.round /\ OnTurn(next, 1 - me)
  <2>1. ~next.finished /\ currentPlayer(game, next) = 1 - me
    BY <1>15, <1>18, StateIsTyped
  <2>2. kid.kind = "inner"
    <3>1. kid.kind # "terminal"
      BY <2>1, <1>13
    <3>2. kid.kind # "chance"
      BY <1>13, <1>14, <1>18
    <3> QED
      BY <3>1, <3>2, <1>5, KidKinds
  <2>3. kid = NodeOf(next)
    BY <2>2, <1>13
  <2>4. 1 - me # me
    BY <1>14
  <2>5. OpponentsTurn'
    BY <2>1, <2>4, <1>1 DEF OpponentsTurn
  <2>6. since' = ds'.bound
    BY <2>3, <1>1, <1>5, ValuesAfterStreet
  <2>7. NodeOf(state') = children(ds'.root)[i]
    BY <2>3, <1>1
  <2>8. Waits(i)'
    BY <2>5, <2>6, <2>7 DEF Waits
  <2> QED
    BY <2>8
<1>19. \/ Over(next)
       \/ next.round = 1 /\ state.round = 0 /\ OnTurn(next, 0)
       \/ next.round = state.round /\ OnTurn(next, 1 - me)
  <2>1. \/ Over(next)
        \/ CallEnds(state, me, asked, next) /\ state.round = 0 /\ OnTurn(next, 0)
        \/ next.round = state.round /\ OnTurn(next, 1 - me)
    BY <1>1, <1>12, ProperAfter
  <2> QED
    BY <2>1 DEF CallEnds
<1> QED
  BY <1>16, <1>17, <1>18, <1>19

LEMMA OpponentFollows ==
  ASSUME Talk, Follows, OpponentActs
  PROVE  Follows'
PROOF
<1> PICK q : q = 1 - me
  OBVIOUS
<1> PICK next : next = state'
  OBVIOUS
<1>1. /\ ~state.finished /\ ~DeepStacksTurn /\ currentPlayer(game, state) # me
      /\ OnTurn(state, q) /\ answer = << >>
      /\ since' = IF next.round # state.round THEN AfterStreet ELSE since
      /\ UNCHANGED <<hand, me, answer, ds, played>>
  BY TheOpponentActs
<1>2. PICK action \in AskedActions :
        /\ action.type # "raise" => action.size = 0
        /\ isValidAction(game, state, FALSE, action) /\ Does(action)
  BY TheOpponentActs
<1>3. next = doAction(game, state, action)
  BY <1>2 DEF Does
<1>4. /\ me \in {0, 1} /\ q \in {0, 1} /\ q # me /\ 1 - q = me /\ state.round \in {0, 1}
      /\ currentPlayer(game, state) = q
  <2>1. me \in {0, 1} /\ Proper(state)
    BY DEF Talk, HandGoesOn
  <2>2. state.round \in {0, 1}
    BY <1>1, StateFields DEF OnTurn, InHand, Sound
  <2>3. currentPlayer(game, state) = q
    BY <2>1, <1>1, StateIsTyped
  <2>4. q \in {0, 1} /\ q # me /\ 1 - q = me
    BY <2>1
  <2> QED
    BY <2>1, <2>2, <2>3, <2>4
<1>5. Proper(next)
  BY <1>1, <1>2, <1>3, <1>4, HandStaysProper DEF Proper
<1>6. \/ Over(next)
      \/ /\ action.type = "call" /\ CurrentActions(state) # << >>
         /\ next.round = 1 /\ state.round = 0 /\ OnTurn(next, 0)
      \/ /\ next.round = state.round /\ OnTurn(next, me) /\ CurrentActions(next) # << >>
  <2>1. \/ Over(next)
        \/ /\ action.type = "call" /\ CurrentActions(state) # << >>
           /\ CallEnds(state, q, action, next)
           /\ state.round = 0 /\ OnTurn(next, 0)
        \/ /\ next.round = state.round /\ OnTurn(next, 1 - q) /\ CurrentActions(next) # << >>
    BY <1>1, <1>2, <1>3, ProperAfter
  <2> QED
    BY <2>1, <1>4 DEF CallEnds
<1>7. ds'.alive /\ ds'.last_hand \in Nat /\ ds'.last_hand <= hand' /\ answer' = << >>
  BY <1>1 DEF Follows
<1>8. CASE Over(next)
  BY <1>1, <1>7, <1>8, HandIsOver
<1>9. CASE NotYet /\ ~Over(next)
  <2>1. state = initState(game)
    BY <1>1, <1>9 DEF NotYet
  <2>2. CurrentActions(state) = << >> /\ state.round = 0 /\ currentPlayer(game, state) = 0
    BY <2>1, NewHandBegins, Turn
  <2>3. me = 1
    BY <2>2, <1>4
  <2>4. next.round = state.round /\ OnTurn(next, me)
    BY <2>2, <1>6, <1>9
  <2>5. ~next.finished /\ currentPlayer(game, next) = me
    BY <2>4, <1>5, StateIsTyped
  <2>6. DeepStacksTurn'
    BY <2>5, <1>1 DEF DeepStacksTurn
  <2>7. since' = since
    BY <2>4, <1>1
  <2>8. NotYet'
    BY <2>2, <2>3, <2>4, <2>6, <2>7, <1>1, <1>9 DEF NotYet
  <2> QED
    BY <2>8, <1>7 DEF Follows
<1>10. ASSUME NEW i \in Playable(ds.root), Chose(ds, i), ds.range = played,
              Waits(i) \/ NextStreet, ~Over(next)
       PROVE  Follows'
  <2>1. Chose(ds, i)' /\ i \in Playable(ds'.root) /\ ds'.range = played'
    BY <1>1, <1>10, ChoseStays
  <2>2. SUFFICES SameStreet' \/ NextStreet'
    BY <2>1, <1>7 DEF Follows
  <2> PICK root : root = ds.root
    OBVIOUS
  <2>3. IsDecision(root) /\ i \in ActionIds(root)
    BY <1>10 DEF Chose, Playable
  <2>4. CASE Waits(i)
    <3> PICK kid : kid = children(root)[i]
      OBVIOUS
    <3>1. kid = NodeOf(state) /\ since = ds.bound
      BY <2>4 DEF Waits
    <3>2. kid.kind = "inner" /\ kid.street = state.round + 1
      BY <3>1 DEF NodeOf, Node
    <3>3. kid.street = root.street
      <4>1. i \in 1..Len(children(root))
        <5> PICK k : k = Len(RaiseSizes(root)) + 2
          OBVIOUS
        <5>1. ActionIds(root) = 1..k /\ Len(children(root)) = k
          BY <2>3, ActionsOfANode
        <5> QED
          BY <5>1, <2>3
      <4> QED
        BY <4>1, <3>2, <2>3, KidsAreNodes
    <3>4. CASE /\ next.round = state.round /\ OnTurn(next, me)
               /\ CurrentActions(next) # << >>
      <4>1. ~next.finished /\ currentPlayer(game, next) = me
        BY <3>4, <1>5, StateIsTyped
      <4>2. DeepStacksTurn'
        BY <4>1, <1>1 DEF DeepStacksTurn
      <4>3. since' = ds'.bound
        BY <3>1, <3>4, <1>1
      <4>4. state'.round + 1 = ds'.root.street
        BY <3>2, <3>3, <3>4, <1>1
      <4>5. SameStreet'
        BY <4>2, <4>3, <4>4, <3>4 DEF SameStreet
      <4> QED
        BY <4>5
    <3>5. CASE /\ action.type = "call" /\ CurrentActions(state) # << >>
               /\ next.round = 1 /\ state.round = 0 /\ OnTurn(next, 0)
      <4>1. ~next.finished
        BY <3>5, <1>5, StateIsTyped
      <4>2. action = [type |-> "call", size |-> 0]
        <5>1. "call" # "raise"
          OBVIOUS
        <5>2. action.type = "call" /\ action.size = 0
          BY <5>1, <3>5, <1>2
        <5> QED
          BY <5>2 DEF AskedActions
      <4>3. IsAfter(CallNode(kid), action)
        BY <4>2, <3>1, <1>1, CallOfTheTree
      <4>4. next.round > state.round
        BY <3>5
      <4>5. CallNode(kid).kind = "chance" /\ AfterChance(CallNode(kid)) = NodeOf(next)
        BY <4>1, <4>3, <4>4, <1>3 DEF IsAfter
      <4>6. root.street = 1
        BY <3>2, <3>3, <3>5
      <4>7. next.round # state.round
        BY <3>5
      <4>8. since' = AfterStreet
        BY <4>7, <1>1
      <4>9. NextStreet'
        BY <4>1, <4>5, <4>6, <4>8, <3>2, <3>5, <2>3, <1>1, <1>10, StreetIsNext
      <4> QED
        BY <4>9
    <3> QED
      BY <3>4, <3>5, <1>6, <1>10
  <2>5. CASE NextStreet
    <3>1. state.round = 1
      BY <2>5 DEF NextStreet
    <3>2. next.round = state.round /\ OnTurn(next, me)
      <4>1. 0 # 1
        OBVIOUS
      <4> QED
        BY <4>1, <3>1, <1>6, <1>10
    <3>3. ~next.finished
      BY <3>2, <1>5, StateIsTyped
    <3>4. since' = since /\ ds' = ds
      BY <3>2, <1>1
    <3>5. NextStreet'
      BY <3>1, <3>2, <3>3, <3>4, <2>5 DEF NextStreet
    <3> QED
      BY <3>5
  <2> QED
    BY <2>4, <2>5, <1>10
<1>11. \/ NotYet
       \/ \E i \in Playable(ds.root) :
            Chose(ds, i) /\ ds.range = played /\ (Waits(i) \/ NextStreet)
  BY <1>1 DEF Follows, Answered, SameStreet
<1> QED
  BY <1>8, <1>9, <1>10, <1>11

LEMMA NextHandFollows ==
  ASSUME Talk, Follows, NextHand
  PROVE  Follows'
PROOF
<1>1. /\ state.finished /\ hand' = hand + 1 /\ state' = initState(game)
      /\ played' = << >> /\ since' = Values(FirstNode) /\ UNCHANGED <<answer, ds>>
  BY DEF NextHand, AnotherHand
<1>2. answer = << >>
  BY <1>1 DEF Talk, AnswerIsAwaited, DeepStacksTurn
<1>3. hand \in Nat /\ ds.alive /\ ds.last_hand \in Nat /\ ds.last_hand <= hand
  BY DEF Talk, HandGoesOn, Follows
<1>4. ds.last_hand <= hand + 1 /\ ds.last_hand # hand + 1
  BY <1>3
<1>5. NotYet'
  BY <1>1, <1>4 DEF NotYet
<1> QED
  BY <1>1, <1>2, <1>3, <1>4, <1>5 DEF Follows

LEMMA NothingHappens ==
  ASSUME Follows, UNCHANGED <<hand, me, state, answer, ds, played, since>>
  PROVE  Follows'
PROOF
<1>1. NotYet => NotYet'
  BY DEF NotYet, DeepStacksTurn
<1>2. \A i : Chose(ds, i) => Chose(ds, i)'
  BY DEF Chose
<1>3. Answered => Answered'
  <2>1. NodeOf(state)' = NodeOf(state)
    BY DEF NodeOf
  <2> QED
    BY <2>1 DEF Answered
<1>4. \A i : Waits(i) => Waits(i)'
  <2>1. NodeOf(state)' = NodeOf(state)
    BY DEF NodeOf
  <2> QED
    BY <2>1 DEF Waits, OpponentsTurn
<1>5. SameStreet => SameStreet'
  BY DEF SameStreet, DeepStacksTurn
<1>6. NextStreet => NextStreet'
  BY DEF NextStreet
<1> QED
  BY <1>1, <1>2, <1>3, <1>4, <1>5, <1>6 DEF Follows

LEMMA FollowsStep ==
  Talk /\ Follows /\ [Next]_vars => Follows'
PROOF
<1> SUFFICES ASSUME Talk, Follows, [Next]_vars PROVE Follows'
  OBVIOUS
<1>1. CASE DeepStackSkips
  BY <1>1, NothingHappens DEF DeepStackSkips
<1>2. CASE DeepStackPlays
  BY <1>2, DeepStackFollows
<1>3. CASE DealerTakesAnswer
  BY <1>3, DealerFollows
<1>4. CASE OpponentActs
  BY <1>4, OpponentFollows
<1>5. CASE NextHand
  BY <1>5, NextHandFollows
<1>6. CASE UNCHANGED vars
  BY <1>6, NothingHappens DEF vars
<1> QED
  BY <1>1, <1>2, <1>3, <1>4, <1>5, <1>6 DEF Next

(* For every ante, stack, bet sizing and length of the match: whatever the *)
(* two players do, none of DeepStack's assertions fails; and when it       *)
(* decides, its range is what it played in this hand, at the nodes where   *)
(* the dealer had it play, and it has re-solved from values computed for   *)
(* the street and the bets after its last decision, or for the start of    *)
(* the street.                                                             *)
THEOREM DeepStackContinuesTheHand ==
  Spec => []ContinuesTheHand
PROOF
<1>1. Follows => ContinuesTheHand
  <2> SUFFICES ASSUME Follows PROVE ContinuesTheHand
    OBVIOUS
  <2>1. ds.alive
    BY DEF Follows
  <2>2. answer # << >> => Answered
    BY DEF Follows
  <2> QED
    BY <2>1, <2>2 DEF ContinuesTheHand, Answered
<1> QED
  BY <1>1, FollowsBegins, FollowsStep, TalkIsInvariant, PTL DEF Spec

-----------------------------------------------------------------------------
(* The tensors of a lookahead, as deep as the tree.                        *)

(* Sequences without a double, put together.                               *)
NoDouble(s) == \A p, q \in 1..Len(s) : s[p] = s[q] => p = q

Apart(seqs) ==
  /\ \A i \in 1..Len(seqs) : NoDouble(seqs[i])
  /\ \A i, j \in 1..Len(seqs) : i # j => Entries(seqs[i]) \cap Entries(seqs[j]) = {}

LEMMA ConcatNoDouble ==
  ASSUME NEW S, NEW a \in Seq(S), NEW b \in Seq(S), NoDouble(a), NoDouble(b),
         Entries(a) \cap Entries(b) = {}
  PROVE  NoDouble(a \o b)
PROOF
<1>1. /\ a \o b \in Seq(S) /\ Len(a \o b) = Len(a) + Len(b)
      /\ \A i \in 1..Len(a) + Len(b) :
           (a \o b)[i] = IF i <= Len(a) THEN a[i] ELSE b[i - Len(a)]
  BY ConcatProperties
<1> PICK c : c = a \o b
  OBVIOUS
<1> PICK m \in Nat, n \in Nat : m = Len(a) /\ n = Len(b)
  BY LenProperties
<1>2. c \in Seq(S) /\ Len(c) = m + n
  BY <1>1
<1>3. \A i \in 1..m + n : c[i] = IF i <= m THEN a[i] ELSE b[i - m]
  BY <1>1
<1>4. ASSUME NEW p \in 1..m + n, NEW q \in 1..m + n, c[p] = c[q], p <= m, ~(q <= m)
      PROVE  FALSE
  <2>1. p \in 1..m /\ q - m \in 1..n
    BY <1>4
  <2>2. a[p] = b[q - m]
    BY <1>3, <1>4
  <2>3. a[p] \in Entries(a) /\ b[q - m] \in Entries(b)
    BY <2>1 DEF Entries
  <2> QED
    BY <2>2, <2>3
<1>5. ASSUME NEW p \in 1..m + n, NEW q \in 1..m + n, c[p] = c[q] PROVE p = q
  <2>1. CASE p <= m /\ q <= m
    <3>1. p \in 1..m /\ q \in 1..m /\ a[p] = a[q]
      BY <2>1, <1>3, <1>5
    <3> QED
      BY <3>1 DEF NoDouble
  <2>2. CASE ~(p <= m) /\ ~(q <= m)
    <3>1. p - m \in 1..n /\ q - m \in 1..n /\ b[p - m] = b[q - m]
      BY <2>2, <1>3, <1>5
    <3>2. p - m = q - m
      BY <3>1 DEF NoDouble
    <3> QED
      BY <3>2
  <2>3. CASE p <= m /\ ~(q <= m)
    BY <2>3, <1>4, <1>5
  <2>4. CASE ~(p <= m) /\ q <= m
    BY <2>4, <1>4, <1>5
  <2> QED
    BY <2>1, <2>2, <2>3, <2>4
<1> QED
  BY <1>2, <1>5 DEF NoDouble

LEMMA FlattenedNoDouble ==
  ASSUME NEW S, NEW seqs \in Seq(Seq(S)), seqs # << >>, Apart(seqs),
         NEW flat, flat = FlattenSeq(seqs)
  PROVE  NoDouble(flat)
PROOF
<1> PICK n \in Nat : n = Len(seqs)
  BY LenProperties
<1>0. n >= 1
  BY EmptySeq
<1>1. PICK f : IsFlattened(seqs, f) /\ flat = f[n]
  <2>1. \E f : IsFlattened(seqs, f)
    BY FlattenedExists
  <2>2. flat = (CHOOSE f : IsFlattened(seqs, f))[Len(seqs)]
    <3>1. Len(seqs) # 0
      BY <1>0
    <3> QED
      BY <3>1, Zenon DEF FlattenSeq, IsFlattened
  <2> QED
    BY <2>1, <2>2
<1>2. \A i \in 1..n : f[i] = IF i = 1 THEN seqs[i] ELSE f[i - 1] \o seqs[i]
  BY <1>1 DEF IsFlattened
<1>3. \A i \in 1..n : seqs[i] \in Seq(S) /\ NoDouble(seqs[i])
  BY ElementOfSeq DEF Apart
<1>4. \A i, j \in 1..n : i # j => Entries(seqs[i]) \cap Entries(seqs[j]) = {}
  BY DEF Apart
<1> DEFINE Good(i) ==
      /\ f[i] \in Seq(S) /\ NoDouble(f[i])
      /\ \A x \in Entries(f[i]) : \E j \in 1..i : x \in Entries(seqs[j])
<1>5. Good(1)
  <2>1. 1 \in 1..n /\ 1 \in 1..1
    BY <1>0
  <2>2. f[1] = seqs[1]
    BY <2>1, <1>2
  <2> QED
    BY <2>1, <2>2, <1>3
<1>6. ASSUME NEW i \in 2..n, Good(i - 1) PROVE Good(i)
  <2> PICK h \in 1..n : h = i - 1
    OBVIOUS
  <2>1. /\ i \in 1..n /\ i # 1 /\ i - 1 = h /\ h <= i /\ i \notin 1..h /\ i \in 1..i
        /\ \A j \in 1..h : j \in 1..i /\ j \in 1..n
    OBVIOUS
  <2>2. f[i] = f[h] \o seqs[i]
    <3>1. f[i] = f[i - 1] \o seqs[i]
      BY <2>1, <1>2
    <3> QED
      BY <3>1, <2>1
  <2>3. /\ f[h] \in Seq(S) /\ NoDouble(f[h])
        /\ \A x \in Entries(f[h]) : \E j \in 1..h : x \in Entries(seqs[j])
    BY <1>6
  <2>4. seqs[i] \in Seq(S) /\ NoDouble(seqs[i])
    BY <2>1, <1>3
  <2>5. Entries(f[h]) \cap Entries(seqs[i]) = {}
    <3> SUFFICES ASSUME NEW x, x \in Entries(f[h]), x \in Entries(seqs[i]) PROVE FALSE
      OBVIOUS
    <3>1. PICK j \in 1..h : x \in Entries(seqs[j])
      BY <2>3
    <3>2. j # i /\ j \in 1..n
      BY <2>1
    <3> QED
      BY <3>1, <3>2, <2>1, <1>4
  <2>6. f[i] \in Seq(S) /\ Entries(f[i]) = Entries(f[h]) \cup Entries(seqs[i])
    BY <2>2, <2>3, <2>4, ConcatEntries
  <2>7. NoDouble(f[i])
    BY <2>2, <2>3, <2>4, <2>5, ConcatNoDouble
  <2>8. ASSUME NEW x \in Entries(f[i]) PROVE \E j \in 1..i : x \in Entries(seqs[j])
    <3>1. CASE x \in Entries(f[h])
      <4>1. PICK j \in 1..h : x \in Entries(seqs[j])
        BY <3>1, <2>3
      <4> QED
        BY <4>1, <2>1
    <3>2. CASE x \in Entries(seqs[i])
      BY <3>2, <2>1
    <3> QED
      BY <3>1, <3>2, <2>6
  <2> QED
    BY <2>6, <2>7, <2>8
<1> DEFINE Bad == {i \in 1..n : ~Good(i)}
<1>7. Bad = {}
  <2> SUFFICES ASSUME Bad # {} PROVE FALSE
    OBVIOUS
  <2>1. PICK k \in Bad : \A j \in Bad : k <= j
    <3>1. Bad \subseteq Nat
      OBVIOUS
    <3> HIDE DEF Bad
    <3> QED
      BY <3>1, MinOfNats
  <2>2. k \in 1..n /\ ~Good(k)
    BY <2>1
  <2>3. \A j \in 1..n : ~(k <= j) => Good(j)
    <3>1. \A j \in 1..n : j \notin Bad => Good(j)
      OBVIOUS
    <3> HIDE DEF Bad, Good
    <3> QED
      BY <3>1, <2>1
  <2> HIDE DEF Good, Bad
  <2>4. k # 1
    BY <2>2, <1>5
  <2>5. k \in 2..n /\ k - 1 \in 1..n /\ ~(k <= k - 1)
    BY <2>2, <2>4
  <2>6. Good(k - 1)
    BY <2>3, <2>5
  <2> QED
    BY <2>2, <2>5, <2>6, <1>6
<1>8. NoDouble(f[n])
  <2>1. n \in 1..n
    BY <1>0
  <2>2. n \notin Bad => Good(n)
    BY <2>1
  <2>3. Good(n) => NoDouble(f[n])
    OBVIOUS
  <2> HIDE DEF Good, Bad
  <2> QED
    BY <2>2, <2>3, <1>7
<1> QED
  BY <1>1, <1>8

(* A sequence of sequences, from its parts.                                *)
LEMMA PartsMakeASeq ==
  ASSUME NEW n \in Nat, NEW seqs, seqs = [i \in 1..n |-> seqs[i]],
         \A i \in 1..n : \E w \in Nat : seqs[i] = [m \in 1..w |-> seqs[i][m]]
  PROVE  \E S : seqs \in Seq(Seq(S)) /\ Len(seqs) = n
PROOF
<1> DEFINE S == UNION {{seqs[i][m] : m \in DOMAIN seqs[i]} : i \in 1..n}
<1>1. ASSUME NEW i \in 1..n PROVE seqs[i] \in Seq(S)
  <2>1. PICK w \in Nat : seqs[i] = [m \in 1..w |-> seqs[i][m]]
    OBVIOUS
  <2> PICK one : one = seqs[i]
    OBVIOUS
  <2>2. DOMAIN one = 1..w /\ one = [m \in 1..w |-> one[m]]
    BY <2>1
  <2>3. \A m \in 1..w : one[m] \in S
    BY <2>2
  <2> HIDE DEF S
  <2>4. one \in Seq(S)
    BY <2>2, <2>3
  <2> QED
    BY <2>4
<1> HIDE DEF S
<1>2. seqs \in Seq(Seq(S)) /\ Len(seqs) = n
  BY <1>1
<1> QED
  BY <1>2

(* What the layers hold: after the root nobody checks behind a check.      *)
InLayer(root, d, node) ==
  node.kind = "inner" =>
    IsDecision(node) /\ node.street = root.street /\ (d > 1 => ~CallIsCheck(node))

IsLayer(root, d, layer) ==
  /\ layer # << >> /\ \E S : layer \in Seq(S)
  /\ \A node \in Entries(layer) : InLayer(root, d, node)

LEMMA OnlyTheFirstChecks ==
  ASSUME NEW node, IsDecision(node), NEW i \in 1..Len(children(node)),
         NEW kid, kid = children(node)[i], kid.kind = "inner"
  PROVE  ~CallIsCheck(kid)
PROOF
<1>1. IsDecision(kid) /\ i # 1
  BY KidsAreNodes
<1> PICK k \in Nat : k = Len(RaiseSizes(node))
  BY ChildrenOfANode
<1>2. i \in 1..k + 2
  BY ActionsOfANode
<1>3. CASE i = 2
  <2>1. kid = CallNode(node)
    BY <1>3, ActionsOfANode
  <2>2. CallIsCheck(node)
    BY <2>1 DEF CallNode, Node
  <2>3. kid.current_player = Opponent(node.current_player)
    BY <2>1, <2>2 DEF CallNode, Node
  <2>4. kid.current_player # P1
    BY <2>2, <2>3 DEF CallIsCheck, Opponent, P1
  <2> QED
    BY <2>4 DEF CallIsCheck
<1>4. CASE i # 2
  <2>1. i \in 3..k + 2
    BY <1>1, <1>2, <1>4
  <2> PICK r : r = RaiseSizes(node)[i - 2]
    OBVIOUS
  <2>2. i - 2 \in 1..Len(RaiseSizes(node)) /\ kid = BetNode(node, r)
    BY <2>1, ActionsOfANode
  <2>3. r \in Nat /\ r >= 1
    BY <2>2, RaisesOfTheTree, ElementOfSeq
  <2>4. Own(kid) = Opp(node) /\ Opp(kid) = Opp(node) + r
    BY <2>2, <2>3, BetNodeFields
  <2>5. Opp(node) \in Nat
    BY DecisionFields
  <2>6. Own(kid) # Opp(kid)
    BY <2>3, <2>4, <2>5
  <2>7. ~Level(kid.bets)
    BY <2>6, <1>1, DecisionFields
  <2> QED
    BY <2>7 DEF CallIsCheck
<1> QED
  BY <1>3, <1>4

LEMMA KidsOfAnyNode ==
  ASSUME NEW node, node.kind = "inner" => IsDecision(node)
  PROVE  \E w \in Nat : /\ w = Len(children(node))
                        /\ children(node) = [m \in 1..w |-> children(node)[m]]
PROOF
<1> PICK kids : kids = children(node)
  OBVIOUS
<1>1. \E S : kids \in Seq(S)
  <2>1. CASE node.kind = "inner"
    BY <2>1, KidsAreASequence
  <2>2. CASE node.kind # "inner"
    <3>1. kids = << >>
      BY <2>2, NoKids
    <3> QED
      BY <3>1, EmptySeq
  <2> QED
    BY <2>1, <2>2
<1>2. PICK w \in Nat : w = Len(kids) /\ kids = [m \in 1..w |-> kids[m]]
  BY <1>1, LenProperties
<1> QED
  BY <1>2

(* The layer below: the children of all nodes.                             *)
LEMMA UnderALayer ==
  ASSUME NEW root, NEW d, NEW layer, IsLayer(root, d, layer),
         NEW below, below = Under(layer)
  PROVE  /\ \E S : below \in Seq(S)
         /\ \A kid : kid \in Entries(below) <=>
              \E node \in Entries(layer) :
                \E m \in 1..Len(children(node)) : kid = children(node)[m]
PROOF
<1>1. layer # << >> /\ \E S : layer \in Seq(S)
  BY DEF IsLayer
<1>2. PICK n \in Nat : n = Len(layer) /\ DOMAIN layer = 1..n
  BY <1>1, LenProperties
<1>3. n # 0
  BY <1>1, <1>2, EmptySeq
<1>0. PICK seqs : seqs = [i \in 1..n |-> children(layer[i])]
  OBVIOUS
<1>4. below = FlattenSeq(seqs)
  BY <1>0, <1>2 DEF Under
<1>5. \A i \in 1..n : layer[i] \in Entries(layer) /\ (layer[i].kind = "inner" => IsDecision(layer[i]))
  BY <1>2 DEF IsLayer, InLayer, Entries
<1>6. seqs = [i \in 1..n |-> seqs[i]] /\ \A i \in 1..n : seqs[i] = children(layer[i])
  BY <1>0
<1>7. \A i \in 1..n : \E w \in Nat : seqs[i] = [m \in 1..w |-> seqs[i][m]]
  <2> TAKE i \in 1..n
  <2>1. seqs[i] = children(layer[i])
    BY <1>6
  <2>2. \E w \in Nat : children(layer[i]) = [m \in 1..w |-> children(layer[i])[m]]
    BY <1>5, KidsOfAnyNode
  <2> QED
    BY <2>1, <2>2
<1>8. PICK S : seqs \in Seq(Seq(S)) /\ Len(seqs) = n
  BY <1>6, <1>7, PartsMakeASeq
<1>9. seqs # << >>
  BY <1>3, <1>8, EmptySeq
<1>10. below \in Seq(S) /\ Entries(below) = UNION {Entries(seqs[i]) : i \in 1..n}
  BY <1>4, <1>8, <1>9, Flattened
<1>11. ASSUME NEW kid
       PROVE  kid \in Entries(below) <=>
                \E node \in Entries(layer) :
                  \E m \in 1..Len(children(node)) : kid = children(node)[m]
  <2>1. kid \in Entries(below) <=>
          \E i \in 1..n : \E m \in 1..Len(children(layer[i])) : kid = children(layer[i])[m]
    <3>1. kid \in Entries(below) <=> \E i \in 1..n : kid \in Entries(seqs[i])
      BY <1>10
    <3>2. \A i \in 1..n : kid \in Entries(seqs[i]) <=>
                             \E m \in 1..Len(seqs[i]) : kid = seqs[i][m]
      BY DEF Entries
    <3> QED
      BY <3>1, <3>2, <1>6
  <2>2. \A node : node \in Entries(layer) <=> \E i \in 1..n : node = layer[i]
    BY <1>2 DEF Entries
  <2> QED
    BY <2>1, <2>2
<1> QED
  BY <1>10, <1>11

LEMMA LayersAreLayers ==
  ASSUME NEW root, IsDecision(root), NEW layers, layers = Layers(root),
         NEW d \in 1..Len(layers)
  PROVE  IsLayer(root, d, layers[d])
PROOF
<1>1. PICK S : Grown(S, root, layers, MaxDepth)
  BY LayerByLayer
<1>2. layers \in Seq(S)
  BY <1>1 DEF Grown
<1> PICK n \in Nat : n = Len(layers)
  BY <1>2, LenProperties
<1>3. /\ n >= 1 /\ layers[1] = <<root>>
      /\ \A c \in 2..n : layers[c] = Under(layers[c - 1])
      /\ \A c \in 1..n : layers[c] # << >>
  BY <1>1 DEF Grown
<1> DEFINE Good(c) == IsLayer(root, c, layers[c])
           Bad == {c \in 1..n : ~Good(c)}
<1>4. Good(1)
  <2> PICK layer : layer = <<root>>
    OBVIOUS
  <2>1. Len(layer) = 1 /\ layer[1] = root /\ layer \in Seq({root})
    OBVIOUS
  <2>2. \A i \in 1..1 : i = 1
    OBVIOUS
  <2>3. \A node \in Entries(layer) : node = root
    BY <2>1, <2>2 DEF Entries
  <2>4. layer # << >>
    BY <2>1, EmptySeq
  <2>5. ~(1 > 1)
    OBVIOUS
  <2>6. IsLayer(root, 1, layer)
    BY <2>1, <2>3, <2>4, <2>5 DEF IsLayer, InLayer
  <2> QED
    BY <2>6, <1>3
<1>5. ASSUME NEW c \in 2..n, Good(c - 1) PROVE Good(c)
  <2> PICK above : above = layers[c - 1]
    OBVIOUS
  <2> PICK below : below = layers[c]
    OBVIOUS
  <2>1. below = Under(above) /\ below # << >>
    <3>1. c \in 1..n
      OBVIOUS
    <3> QED
      BY <3>1, <1>3
  <2>2. IsLayer(root, c - 1, above)
    BY <1>5
  <2>3. /\ \E T : below \in Seq(T)
        /\ \A kid : kid \in Entries(below) <=>
             \E node \in Entries(above) :
               \E m \in 1..Len(children(node)) : kid = children(node)[m]
    BY <2>1, <2>2, UnderALayer
  <2>4. ASSUME NEW kid \in Entries(below) PROVE InLayer(root, c, kid)
    <3>0. PICK node \in Entries(above) :
            \E m \in 1..Len(children(node)) : kid = children(node)[m]
      BY <2>3
    <3>1. PICK m \in 1..Len(children(node)) : kid = children(node)[m]
      BY <3>0
    <3>2. node.kind = "inner"
      <4>1. ASSUME node.kind # "inner" PROVE FALSE
        <5>1. children(node) = << >>
          BY <4>1, NoKids
        <5>2. Len(children(node)) = 0
          BY <5>1, EmptySeq
        <5>3. 1..0 = {}
          OBVIOUS
        <5> QED
          BY <5>2, <5>3
      <4> QED
        BY <4>1
    <3>3. IsDecision(node) /\ node.street = root.street
      BY <2>2, <3>2 DEF IsLayer, InLayer
    <3>4. kid.kind = "inner" => IsDecision(kid) /\ kid.street = node.street /\ ~CallIsCheck(kid)
      BY <3>1, <3>3, KidsAreNodes, OnlyTheFirstChecks
    <3> QED
      BY <3>3, <3>4 DEF InLayer
  <2>5. IsLayer(root, c, below)
    BY <2>1, <2>3, <2>4 DEF IsLayer
  <2> QED
    BY <2>5
<1>6. Bad = {}
  <2> SUFFICES ASSUME Bad # {} PROVE FALSE
    OBVIOUS
  <2>1. PICK k \in Bad : \A j \in Bad : k <= j
    <3>1. Bad \subseteq Nat
      OBVIOUS
    <3> HIDE DEF Bad
    <3> QED
      BY <3>1, MinOfNats
  <2>2. k \in 1..n /\ ~Good(k)
    BY <2>1
  <2>3. \A j \in 1..n : ~(k <= j) => Good(j)
    <3>1. \A j \in 1..n : j \notin Bad => Good(j)
      OBVIOUS
    <3> HIDE DEF Bad, Good
    <3> QED
      BY <3>1, <2>1
  <2> HIDE DEF Good, Bad
  <2>4. k # 1
    BY <2>2, <1>4
  <2>5. k \in 2..n /\ k - 1 \in 1..n /\ ~(k <= k - 1)
    BY <2>2, <2>4
  <2>6. Good(k - 1)
    BY <2>3, <2>5
  <2> QED
    BY <2>2, <2>5, <2>6, <1>5
<1>7. d \in 1..n
  OBVIOUS
<1>8. d \notin Bad => Good(d)
  BY <1>7
<1>9. Good(d) => IsLayer(root, d, layers[d])
  OBVIOUS
<1> HIDE DEF Good, Bad
<1> QED
  BY <1>6, <1>8, <1>9

LEMMA KindOfABet ==
  ASSUME NEW node, IsDecision(node), NEW r \in Nat, NEW bet, bet = BetNode(node, r)
  PROVE  bet.kind = "inner" /\ Opp(bet) = Opp(node) + r
PROOF
  BY BetNodeFields

(* The kinds of the children of a node, and which of them is all-in.       *)
Kinds(node, k, kids) ==
  /\ kids[1].kind = "terminal"
  /\ kids[2].kind = IF CallIsCheck(node) THEN "inner"
                    ELSE IF node.street = 1 /\ Opp(node) # stack THEN "chance" ELSE "terminal"
  /\ \A i \in 3..k : kids[i].kind = "inner" /\ (Opp(kids[i]) = stack <=> i = k)

LEMMA KindsOfTheKids ==
  ASSUME NEW node, IsDecision(node), NEW k, k = Len(children(node))
  PROVE  /\ k \in Nat /\ k >= 2 /\ (k = 2 <=> Opp(node) = stack)
         /\ CallIsCheck(node) => Opp(node) # stack /\ Opp(children(node)[2]) # stack
         /\ Kinds(node, k, children(node))
PROOF
<1> PICK kids : kids = children(node)
  OBVIOUS
<1> PICK raises : raises = RaiseSizes(node)
  OBVIOUS
<1> PICK own \in Nat, opp \in Nat : own = Own(node) /\ opp = Opp(node)
  BY DecisionFields
<1>1. raises \in Seq(Nat)
  BY RaisesOfTheTree
<1> PICK n \in Nat : n = Len(raises)
  BY <1>1, LenProperties
<1>2. /\ k = n + 2 /\ kids[1] = FoldNode(node) /\ kids[2] = CallNode(node)
      /\ \A i \in 3..k : i - 2 \in 1..n /\ kids[i] = BetNode(node, raises[i - 2])
  BY ActionsOfANode
<1>3. n = 0 <=> opp = stack
  <2>1. opp = stack => raises = << >>
    BY RaisesOfTheTree
  <2>2. opp # stack => n >= 1
    BY RaisesOfTheTree
  <2>3. Len(<< >>) = 0
    BY EmptySeq
  <2>4. opp = stack => n = 0
    BY <2>1, <2>3
  <2> QED
    BY <2>2, <2>4
<1>4. /\ node.bets = <<node.bets[1], node.bets[2]>> /\ node.current_player \in {1, 2}
      /\ own < stack /\ opp <= stack /\ own <= opp
      /\ Level(node.bets) <=> own = opp
      /\ Filled(node.bets) = <<opp, opp>>
  BY DecisionFields
<1>5. stack \in Nat
  BY TheGame
<1>6. CallIsCheck(node) => opp # stack
  <2>1. CallIsCheck(node) => own = opp
    BY <1>4 DEF CallIsCheck
  <2> QED
    BY <2>1, <1>4, <1>5
<1>7. CallIsCheck(node) => Opp(kids[2]) # stack
  <2> SUFFICES ASSUME CallIsCheck(node) PROVE Opp(kids[2]) # stack
    OBVIOUS
  <2>1. node.current_player = 1 /\ own = opp
    BY <1>4 DEF CallIsCheck, P1
  <2>2. kids[2].bets = node.bets /\ kids[2].current_player = Opponent(node.current_player)
    BY <1>2 DEF CallNode, Node
  <2>3. Opponent(1) = 2 /\ Opponent(2) = 1
    BY DEF Opponent
  <2>4. Opp(kids[2]) = own
    BY <2>1, <2>2, <2>3 DEF Opp, Own
  <2> QED
    BY <2>4, <1>4, <1>5
<1>8. kids[1].kind = "terminal"
  BY <1>2 DEF FoldNode, Node
<1>9. CallIsCheck(node) => kids[2].kind = "inner"
  BY <1>2 DEF CallNode, Node
<1>10. ~CallIsCheck(node) =>
         kids[2].kind = IF node.street = 1 /\ opp # stack THEN "chance" ELSE "terminal"
  <2> SUFFICES ASSUME ~CallIsCheck(node)
               PROVE  kids[2].kind = IF node.street = 1 /\ opp # stack
                                       THEN "chance" ELSE "terminal"
    OBVIOUS
  <2>1. kids[2].kind = IF CallEndsStreet(node) THEN "chance" ELSE "terminal"
    BY <1>2 DEF CallNode, Node
  <2>2. Filled(node.bets)[1] = opp
    BY <1>4
  <2>3. Level(node.bets) => node.current_player = P2
    BY <1>4 DEF CallIsCheck, P1, P2
  <2>4. Level(node.bets) => opp # stack
    BY <1>4, <1>5
  <2>5. opp < stack <=> opp # stack
    BY <1>4, <1>5
  <2>6. CallEndsStreet(node) <=> node.street = 1 /\ opp # stack
    BY <2>2, <2>3, <2>4, <2>5 DEF CallEndsStreet
  <2> QED
    BY <2>1, <2>6
<1>11. ASSUME NEW i \in 3..k
       PROVE  kids[i].kind = "inner" /\ (Opp(kids[i]) = stack <=> i = k)
  <2> PICK j \in 1..n : j = i - 2
    BY <1>2
  <2> PICK r : r = raises[j]
    OBVIOUS
  <2>1. r \in Nat
    BY <1>1, ElementOfSeq
  <2>2. kids[i] = BetNode(node, r)
    BY <1>2
  <2>3. kids[i].kind = "inner" /\ Opp(kids[i]) = opp + r
    <3> PICK bet : bet = BetNode(node, r)
      OBVIOUS
    <3>1. bet.kind = "inner" /\ Opp(bet) = Opp(node) + r
      BY <2>1, KindOfABet
    <3>2. kids[i] = bet
      BY <2>2
    <3> QED
      BY <3>1, <3>2
  <2>4. opp # stack
    BY <1>3
  <2>5. opp + r = stack <=> j = n
    BY <2>4, RaisesOfTheTree
  <2>6. j = n <=> i = k
    BY <1>2
  <2> QED
    BY <2>3, <2>5, <2>6
<1>12. k \in Nat /\ k >= 2 /\ (k = 2 <=> n = 0)
  BY <1>2
<1>13. Kinds(node, k, kids)
  BY <1>8, <1>9, <1>10, <1>11 DEF Kinds
<1> QED
  BY <1>3, <1>6, <1>7, <1>12, <1>13

(* Behind the root two actions of every node end the betting.              *)
LEMMA BothEnd ==
  ASSUME NEW node, IsDecision(node), ~CallIsCheck(node)
  PROVE  Ends(node) = 2
PROOF
<1>1. Kinds(node, Len(children(node)), children(node))
  BY KindsOfTheKids
<1>2. children(node)[2].kind # "inner"
  BY <1>1 DEF Kinds
<1> QED
  BY <1>2 DEF Ends, FirstCall

(* The widths of a layer bound those of its nodes.                         *)
Bounds(layer, d, most, ends) ==
  /\ most \in Nat /\ ends \in 0..2
  /\ \A node \in Entries(layer) : Len(children(node)) <= most
  /\ d > 1 /\ (\E node \in Entries(layer) : node.kind = "inner") => ends = 2

LEMMA WidthBounds ==
  ASSUME NEW root, NEW d \in Nat, NEW layer, IsLayer(root, d, layer)
  PROVE  Bounds(layer, d, Width(layer).actions, Width(layer).ends)
PROOF
<1>1. PICK S : layer \in Seq(S)
  BY DEF IsLayer
<1> PICK n \in Nat : n = Len(layer) /\ DOMAIN layer = 1..n
  BY <1>1, LenProperties
<1>2. \A node : node \in Entries(layer) <=> \E i \in 1..n : node = layer[i]
  BY DEF Entries
<1>3. PICK lens : lens = [i \in 1..n |-> Len(children(layer[i]))]
  OBVIOUS
<1>4. PICK counts : counts = [i \in 1..n |-> EndCount(children(layer[i]))]
  OBVIOUS
<1>5. ASSUME NEW i \in 1..n
      PROVE  /\ Len(children(layer[i])) \in Nat
             /\ EndCount(children(layer[i])) \in 0..2
             /\ layer[i].kind = "inner" /\ d > 1 => EndCount(children(layer[i])) = 2
  <2> PICK node : node = layer[i]
    OBVIOUS
  <2>1. node \in Entries(layer)
    BY <1>2
  <2>2. InLayer(root, d, node)
    BY <2>1 DEF IsLayer
  <2>3. CASE node.kind = "inner"
    <3>1. IsDecision(node) /\ (d > 1 => ~CallIsCheck(node))
      BY <2>2, <2>3 DEF InLayer
    <3>2. Len(children(node)) \in Nat
      BY <3>1, KindsOfTheKids
    <3>3. EndCount(children(node)) = Ends(node) /\ Ends(node) \in {1, 2}
      BY <3>1, EndsOfANode
    <3>4. d > 1 => Ends(node) = 2
      BY <3>1, BothEnd
    <3> QED
      BY <3>2, <3>3, <3>4
  <2>4. CASE node.kind # "inner"
    <3>1. children(node) = << >>
      BY <2>4, NoKids
    <3> PICK none : none = << >>
      OBVIOUS
    <3>2. Len(none) = 0 /\ DOMAIN none = {}
      BY EmptySeq
    <3>3. {j \in DOMAIN none : EndsHere(none[j])} = {}
      BY <3>2
    <3>4. EndCount(none) = 0
      BY <3>3, PairCounts DEF EndCount
    <3> QED
      BY <3>1, <3>2, <3>4, <2>4
  <2> QED
    BY <2>3, <2>4
<1>6. lens \in Seq(Nat) /\ Len(lens) = n
  <2>1. \A i \in 1..n : lens[i] \in Nat
    BY <1>3, <1>5
  <2>2. lens = [i \in 1..n |-> lens[i]]
    BY <1>3
  <2> QED
    BY <2>1, <2>2
<1>7. counts \in Seq(Nat) /\ Len(counts) = n
  <2>1. \A i \in 1..n : counts[i] \in Nat
    BY <1>4, <1>5
  <2>2. counts = [i \in 1..n |-> counts[i]]
    BY <1>4
  <2> QED
    BY <2>1, <2>2
<1>8. Width(layer).actions = MostOf(lens) /\ Width(layer).ends = MostOf(counts)
  BY <1>3, <1>4 DEF Width
<1>9. PICK most \in Nat : most = MostOf(lens) /\ \A i \in 1..n : lens[i] <= most
  BY <1>6, MostOfNats
<1>10. PICK ends \in Nat :
         /\ ends = MostOf(counts) /\ (ends = 0 \/ \E i \in 1..n : ends = counts[i])
         /\ \A i \in 1..n : counts[i] <= ends
  BY <1>7, MostOfNats
<1>11. \A i \in 1..n : counts[i] \in 0..2 /\ (layer[i].kind = "inner" /\ d > 1 => counts[i] = 2)
  BY <1>4, <1>5
<1>12. ends \in 0..2
  BY <1>10, <1>11
<1>13. d > 1 /\ (\E node \in Entries(layer) : node.kind = "inner") => ends = 2
  <2> SUFFICES ASSUME d > 1, NEW i \in 1..n, layer[i].kind = "inner" PROVE ends = 2
    BY <1>2
  <2>1. counts[i] = 2 /\ counts[i] <= ends
    BY <1>10, <1>11
  <2> QED
    BY <2>1, <1>12
<1>14. \A node \in Entries(layer) : Len(children(node)) <= most
  <2> TAKE node \in Entries(layer)
  <2>1. PICK i \in 1..n : node = layer[i]
    BY <1>2
  <2>2. lens[i] = Len(children(node)) /\ lens[i] <= most
    BY <2>1, <1>3, <1>9
  <2> QED
    BY <2>2
<1> QED
  BY <1>8, <1>9, <1>10, <1>12, <1>13, <1>14 DEF Bounds

(* The room in the tensors, layer after layer.                             *)
CountsUpTo(k, widths, f) ==
  f = [d \in 1..k |-> IF d = 1 THEN 1
                      ELSE IF d = 2 THEN widths[1].actions - widths[1].ends - 1
                      ELSE f[d - 2] * widths[d - 2].nonallin * widths[d - 1].nonallin]

LEMMA CountsExist ==
  ASSUME NEW widths, NEW n \in Nat
  PROVE  \E f : CountsUpTo(n, widths, f)
PROOF
<1> DEFINE Bad == {k \in 0..n : ~\E f : CountsUpTo(k, widths, f)}
<1>1. SUFFICES ASSUME Bad # {} PROVE FALSE
  OBVIOUS
<1>2. PICK k \in Bad : \A j \in Bad : k <= j
  <2>1. Bad \subseteq Nat
    OBVIOUS
  <2> HIDE DEF Bad
  <2> QED
    BY <1>1, <2>1, MinOfNats
<1>3. k # 0
  <2> SUFFICES ASSUME k = 0 PROVE FALSE
    OBVIOUS
  <2> DEFINE f == [d \in 1..0 |-> 1]
  <2>1. \A d \in 1..0 : FALSE
    OBVIOUS
  <2>2. f = [d \in 1..0 |-> f[d]]
    OBVIOUS
  <2> HIDE DEF f
  <2>3. CountsUpTo(0, widths, f)
    BY <2>1, <2>2 DEF CountsUpTo
  <2> QED
    BY <1>2, <2>3
<1>4. PICK j \in 0..n : j = k - 1 /\ ~(k <= j)
  BY <1>2, <1>3
<1>5. PICK g : CountsUpTo(j, widths, g)
  BY <1>2, <1>4
<1> DEFINE Step(h, d) == IF d = 1 THEN 1
                         ELSE IF d = 2 THEN widths[1].actions - widths[1].ends - 1
                         ELSE h[d - 2] * widths[d - 2].nonallin * widths[d - 1].nonallin
           f == [d \in 1..k |-> IF d = k THEN Step(g, k) ELSE g[d]]
<1>6. \A d \in 1..j : g[d] = Step(g, d)
  BY <1>5 DEF CountsUpTo
<1>7. k \in Nat /\ k >= 1 /\ j = k - 1
  BY <1>2, <1>3, <1>4
<1>8. \A d \in 1..k : d # k => d \in 1..j /\ f[d] = g[d]
  BY <1>7
<1>9. f[k] = Step(g, k)
  BY <1>7
<1>10. f = [d \in 1..k |-> f[d]]
  OBVIOUS
<1> HIDE DEF f
<1>11. ASSUME NEW d \in 1..k PROVE f[d] = Step(f, d)
  <2>1. f[d] = Step(g, d)
    <3> HIDE DEF Step
    <3> QED
      BY <1>6, <1>8, <1>9
  <2>2. CASE d = 1 \/ d = 2
    BY <2>1, <2>2
  <2>3. CASE ~(d = 1 \/ d = 2)
    <3>1. d - 2 \in 1..k /\ d - 2 # k
      BY <1>7, <2>3
    <3>2. f[d - 2] = g[d - 2]
      BY <3>1, <1>8
    <3> QED
      BY <3>2, <2>1
  <2> QED
    BY <2>2, <2>3
<1>12. CountsUpTo(k, widths, f)
  BY <1>10, <1>11 DEF CountsUpTo
<1> QED
  BY <1>2, <1>12

(* The numbers of a structure, as lookahead_builder.lua reads them.        *)
RoomAt(s, d) ==
  /\ nodes_count(s, d) \in Int /\ nodes_count(s, d - 1) \in Int
  /\ nodes_count(s, d) = nodes_count(s, d - 1) * nonallinbets_count(s, d - 1)

LEMMA RoomGrows ==
  ASSUME NEW s, NEW n \in Nat, NEW widths, s.depth = n, s.widths = widths,
         CountsUpTo(n, widths, s.nodes),
         \A d \in 1..n : widths[d].nonallin \in Int,
         widths[1].actions \in Int, widths[1].ends \in Int,
         n >= 3 => widths[1].nonallin = widths[1].actions - widths[1].ends - 1
  PROVE  \A d \in 0..n - 1 : RoomAt(s, d)
PROOF
<1> PICK f : f = s.nodes
  OBVIOUS
<1> DEFINE na(d) == nonallinbets_count(s, d)
           nc(d) == nodes_count(s, d)
<1>1. \A d \in Int : d < 1 => na(d) = 1 /\ nc(d) = 1
  BY DEF nonallinbets_count, nodes_count
<1>2. \A d \in 1..n : na(d) = widths[d].nonallin /\ nc(d) = f[d] /\ na(d) \in Int
  BY DEF nonallinbets_count, nodes_count
<1>3. \A d \in 1..n : f[d] = IF d = 1 THEN 1
                      ELSE IF d = 2 THEN widths[1].actions - widths[1].ends - 1
                      ELSE f[d - 2] * widths[d - 2].nonallin * widths[d - 1].nonallin
  BY DEF CountsUpTo
<1> HIDE DEF na, nc
<1> DEFINE Good(d) == nc(d) \in Int /\ nc(d - 1) \in Int /\ nc(d) = nc(d - 1) * na(d - 1)
           Bad == {d \in 0..n - 1 : ~Good(d)}
<1>4. Good(0)
  <2>1. 0 < 1 /\ 0 - 1 < 1 /\ 0 - 1 \in Int
    OBVIOUS
  <2> QED
    BY <2>1, <1>1
<1>5. ASSUME 1 \in 0..n - 1 PROVE Good(1)
  <2>1. 1 - 1 < 1 /\ 1 - 1 \in Int /\ 1 \in 1..n
    BY <1>5
  <2>2. nc(1) = 1
    BY <2>1, <1>2, <1>3
  <2> QED
    BY <2>1, <2>2, <1>1
<1>6. ASSUME 2 \in 0..n - 1 PROVE Good(2)
  <2>1. 2 - 1 = 1 /\ 1 \in 1..n /\ 2 \in 1..n /\ 2 # 1 /\ n >= 3
    BY <1>6
  <2>2. nc(1) = 1
    BY <2>1, <1>2, <1>3
  <2>3. nc(2) = widths[1].actions - widths[1].ends - 1
    BY <2>1, <1>2, <1>3
  <2>4. na(1) = nc(2)
    BY <2>1, <2>3, <1>2
  <2>5. nc(2) \in Int
    BY <2>1, <2>4, <1>2
  <2>6. nc(2) = nc(1) * na(1)
    BY <2>2, <2>4, <2>5
  <2> QED
    BY <2>1, <2>2, <2>5, <2>6
<1>7. ASSUME NEW d \in 3..n - 1, Good(d - 1) PROVE Good(d)
  <2>1. d \in 1..n /\ d - 1 \in 1..n /\ d - 2 \in 1..n /\ d # 1 /\ d # 2 /\ (d - 1) - 1 = d - 2
    OBVIOUS
  <2>2. nc(d) = f[d - 2] * widths[d - 2].nonallin * widths[d - 1].nonallin
    BY <2>1, <1>2, <1>3
  <2> PICK a \in Int, b \in Int, c \in Int :
         a = nc(d - 2) /\ b = na(d - 2) /\ c = na(d - 1)
    BY <2>1, <1>2, <1>7
  <2>3. nc(d) = a * b * c
    BY <2>1, <2>2, <1>2
  <2>4. nc(d - 1) = a * b
    BY <2>1, <1>7
  <2>5. a * b \in Int
    OBVIOUS
  <2> QED
    BY <2>3, <2>4, <2>5
<1>8. Bad = {}
  <2> SUFFICES ASSUME Bad # {} PROVE FALSE
    OBVIOUS
  <2>1. PICK k \in Bad : \A j \in Bad : k <= j
    <3>1. Bad \subseteq Nat
      OBVIOUS
    <3> HIDE DEF Bad
    <3> QED
      BY <3>1, MinOfNats
  <2>2. k \in 0..n - 1 /\ ~Good(k)
    BY <2>1
  <2>3. \A j \in 0..n - 1 : ~(k <= j) => Good(j)
    <3>1. \A j \in 0..n - 1 : j \notin Bad => Good(j)
      OBVIOUS
    <3> HIDE DEF Bad, Good
    <3> QED
      BY <3>1, <2>1
  <2> HIDE DEF Good, Bad
  <2>4. k # 0 /\ k # 1 /\ k # 2
    BY <2>2, <1>4, <1>5, <1>6
  <2>5. k \in 3..n - 1 /\ k - 1 \in 0..n - 1 /\ ~(k <= k - 1)
    BY <2>2, <2>4
  <2>6. Good(k - 1)
    BY <2>3, <2>5
  <2> QED
    BY <2>2, <2>5, <2>6, <1>7
<1>9. \A d \in 0..n - 1 : Good(d)
  <2>1. \A d \in 0..n - 1 : d \notin Bad => Good(d)
    OBVIOUS
  <2> HIDE DEF Good, Bad
  <2> QED
    BY <2>1, <1>8
<1> QED
  BY <1>9 DEF na, nc, RoomAt

(* What the structure of a lookahead says of the layers of its tree.       *)
LayerFits(root, s, d, layer) ==
  /\ IsLayer(root, d, layer)
  /\ Bounds(layer, d, actions_count(s, d), terminal_actions_count(s, d))
  /\ nonallinbets_count(s, d) =
       IF actions_count(s, d) = 2 THEN 0
       ELSE actions_count(s, d) - terminal_actions_count(s, d) - 1

Fits(root, s, layers) ==
  /\ Shape(root, s) /\ Len(layers) = s.depth /\ layers[1] = <<root>>
  /\ \A d \in 1..s.depth : LayerFits(root, s, d, layers[d])
  /\ \A d \in 2..s.depth : layers[d] = Under(layers[d - 1])
  /\ s.depth >= 3 => actions_count(s, 1) >= 3
  /\ \A d \in 0..s.depth - 1 : RoomAt(s, d)

(* There is a third layer only if somebody can bet.                        *)
LEMMA ThirdLayerNeedsABet ==
  ASSUME NEW root, IsDecision(root), Under(children(root)) # << >>
  PROVE  Len(children(root)) >= 3
PROOF
<1> PICK kids : kids = children(root)
  OBVIOUS
<1>1. PICK k \in Nat : k = Len(kids) /\ k >= 2 /\ (k = 2 <=> Opp(root) = stack)
  BY KindsOfTheKids
<1>2. SUFFICES ASSUME k = 2 PROVE FALSE
  BY <1>1
<1>3. Kinds(root, k, kids) /\ ~CallIsCheck(root)
  BY <1>1, <1>2, KindsOfTheKids
<1>4. kids[1].kind # "inner" /\ kids[2].kind # "inner"
  BY <1>3 DEF Kinds
<1>5. \A i \in 1..k : kids[i].kind # "inner"
  <2>1. \A i \in 1..k : i = 1 \/ i = 2
    BY <1>2
  <2> QED
    BY <2>1, <1>4
<1>6. \E S : kids \in Seq(S)
  BY KidsAreASequence
<1>7. DOMAIN kids = 1..k
  BY <1>1, <1>6, LenProperties
<1> PICK below : below = Under(kids)
  OBVIOUS
<1>8. IsLayer(root, 2, kids)
  <2>1. kids # << >>
    BY <1>1, EmptySeq
  <2>2. \A node \in Entries(kids) : node.kind # "inner"
    BY <1>1, <1>5 DEF Entries
  <2>3. \A node \in Entries(kids) : InLayer(root, 2, node)
    BY <2>2 DEF InLayer
  <2> QED
    BY <2>1, <2>3, <1>6 DEF IsLayer
<1>9. /\ \E S : below \in Seq(S)
      /\ \A kid : kid \in Entries(below) <=>
           \E node \in Entries(kids) :
             \E m \in 1..Len(children(node)) : kid = children(node)[m]
  BY <1>8, UnderALayer
<1>10. ASSUME NEW kid \in Entries(below) PROVE FALSE
  <2>1. PICK node \in Entries(kids) :
          \E m \in 1..Len(children(node)) : kid = children(node)[m]
    BY <1>9
  <2>2. node.kind # "inner"
    BY <1>1, <1>5 DEF Entries
  <2>3. children(node) = << >>
    BY <2>2, NoKids
  <2>4. Len(children(node)) = 0 /\ 1..0 = {}
    BY <2>3, EmptySeq
  <2> QED
    BY <2>1, <2>4
<1>11. below = << >>
  <2>1. PICK n \in Nat : n = Len(below)
    BY <1>9, LenProperties
  <2>2. n = 0
    <3> SUFFICES ASSUME n # 0 PROVE FALSE
      OBVIOUS
    <3>1. 1 \in 1..n
      OBVIOUS
    <3>2. below[1] \in Entries(below)
      BY <2>1, <3>1 DEF Entries
    <3> QED
      BY <3>2, <1>10
  <2> QED
    BY <2>1, <2>2, <1>9, EmptySeq
<1> QED
  BY <1>11

LEMMA StructureFits ==
  ASSUME NEW root, IsDecision(root), NEW s, s = Structure(root),
         NEW layers, layers = Layers(root)
  PROVE  Fits(root, s, layers)
PROOF
<1>1. Shape(root, s)
  BY ShapeOfATree
<1>2. PICK S : Grown(S, root, layers, MaxDepth)
  BY LayerByLayer
<1>3. layers \in Seq(S)
  BY <1>2 DEF Grown
<1> PICK n \in Nat : n = Len(layers) /\ DOMAIN layers = 1..n
  BY <1>3, LenProperties
<1>4. /\ layers[1] = <<root>>
      /\ \A c \in 2..n : layers[c] = Under(layers[c - 1])
      /\ \A c \in 1..n : layers[c] # << >>
  BY <1>2 DEF Grown
<1> PICK widths : widths = Widths(layers)
  OBVIOUS
<1>5. s.depth = Len(widths) /\ s.widths = widths /\ s.nodes = NodeCounts(widths)
  BY DEF Structure, StructureOf
<1>6. widths = [d \in 1..n |-> Width(layers[d])]
  BY DEF Widths
<1>7. Len(widths) = n
  <2> DEFINE T == {widths[d] : d \in 1..n}
  <2>1. \A d \in 1..n : widths[d] \in T
    OBVIOUS
  <2>2. widths = [d \in 1..n |-> widths[d]]
    BY <1>6
  <2> HIDE DEF T
  <2>3. widths \in Seq(T)
    BY <2>1, <2>2
  <2> QED
    BY <2>3, <1>6, LenProperties
<1>8. s.depth = n /\ n >= 2
  BY <1>1, <1>5, <1>7 DEF Shape
<1>9. ASSUME NEW d \in 1..n PROVE LayerFits(root, s, d, layers[d])
  <2>1. IsLayer(root, d, layers[d])
    BY LayersAreLayers
  <2>2. Bounds(layers[d], d, Width(layers[d]).actions, Width(layers[d]).ends)
    <3>1. d \in Nat
      OBVIOUS
    <3> QED
      BY <2>1, <3>1, WidthBounds
  <2>3. s.widths[d] = Width(layers[d]) /\ ~(d < 1)
    BY <1>5, <1>6
  <2>4. /\ actions_count(s, d) = Width(layers[d]).actions
        /\ terminal_actions_count(s, d) = Width(layers[d]).ends
        /\ nonallinbets_count(s, d) = Width(layers[d]).nonallin
    BY <2>3 DEF actions_count, terminal_actions_count, nonallinbets_count
  <2>5. Width(layers[d]).nonallin =
          IF Width(layers[d]).actions = 2 THEN 0
          ELSE Width(layers[d]).actions - Width(layers[d]).ends - 1
    BY DEF Width
  <2> QED
    BY <2>1, <2>2, <2>4, <2>5 DEF LayerFits
<1>10. n >= 3 => actions_count(s, 1) >= 3
  <2> SUFFICES ASSUME n >= 3 PROVE actions_count(s, 1) >= 3
    OBVIOUS
  <2>1. 2 \in 2..n /\ 3 \in 2..n /\ 3 \in 1..n /\ 2 - 1 = 1 /\ 3 - 1 = 2
    OBVIOUS
  <2>2. layers[2] = Under(<<root>>) /\ layers[3] = Under(layers[2]) /\ layers[3] # << >>
    BY <2>1, <1>4
  <2>3. layers[2] = children(root)
    BY <2>2, UnderTheRoot
  <2>4. Len(children(root)) >= 3
    BY <2>2, <2>3, ThirdLayerNeedsABet
  <2> QED
    BY <2>4, <1>1 DEF Shape
<1>11. \A d \in 0..n - 1 : RoomAt(s, d)
  <2>1. PICK g : CountsUpTo(n, widths, g)
    BY CountsExist
  <2>2. NodeCounts(widths) = CHOOSE f : CountsUpTo(n, widths, f)
    <3>1. DOMAIN widths = 1..n
      BY <1>6
    <3> QED
      BY <3>1, Zenon DEF NodeCounts, CountsUpTo
  <2>3. CountsUpTo(n, widths, s.nodes)
    BY <2>1, <2>2, <1>5
  <2>4. ASSUME NEW d \in 1..n
        PROVE  /\ widths[d].actions \in Int /\ widths[d].ends \in Int
               /\ widths[d].nonallin =
                    IF widths[d].actions = 2 THEN 0 ELSE widths[d].actions - widths[d].ends - 1
               /\ widths[d].actions = actions_count(s, d)
    <3>1. ~(d < 1)
      OBVIOUS
    <3>2. /\ actions_count(s, d) = widths[d].actions
          /\ terminal_actions_count(s, d) = widths[d].ends
          /\ nonallinbets_count(s, d) = widths[d].nonallin
      BY <3>1, <1>5 DEF actions_count, terminal_actions_count, nonallinbets_count
    <3>3. actions_count(s, d) \in Nat /\ terminal_actions_count(s, d) \in 0..2
      BY <1>9 DEF LayerFits, Bounds
    <3>4. nonallinbets_count(s, d) =
            IF actions_count(s, d) = 2 THEN 0
            ELSE actions_count(s, d) - terminal_actions_count(s, d) - 1
      BY <1>9 DEF LayerFits
    <3> QED
      BY <3>2, <3>3, <3>4
  <2>5. \A d \in 1..n : widths[d].nonallin \in Int
    <3> TAKE d \in 1..n
    <3>1. PICK a \in Int, b \in Int : a = widths[d].actions /\ b = widths[d].ends
      BY <2>4
    <3>2. widths[d].nonallin = IF a = 2 THEN 0 ELSE a - b - 1
      BY <3>1, <2>4
    <3> QED
      BY <3>2
  <2>6. 1 \in 1..n
    BY <1>8
  <2>7. n >= 3 => widths[1].nonallin = widths[1].actions - widths[1].ends - 1
    <3>1. n >= 3 => widths[1].actions >= 3
      <4>1. widths[1].actions = actions_count(s, 1)
        BY <2>4, <2>6
      <4> QED
        BY <4>1, <1>10, Zenon
    <3> QED
      BY <3>1, <2>4, <2>6
  <2>8. widths[1].actions \in Int /\ widths[1].ends \in Int
    BY <2>4, <2>6
  <2> QED
    BY <2>3, <2>5, <2>7, <2>8, <1>5, <1>8, RoomGrows
<1> QED
  BY <1>1, <1>4, <1>8, <1>9, <1>10, <1>11 DEF Fits

(* The arithmetic of the cells.                                            *)
LEMMA DimsOfALayer ==
  ASSUME NEW s, NEW d \in Nat, d >= 1
  PROVE  Dims(s, d) = <<actions_count(s, d - 1), bets_count(s, d - 2), nodes_count(s, d - 2)>>
PROOF
<1>1. CASE d = 1
  <2>1. d - 1 < 1 /\ d - 2 < 1
    BY <1>1
  <2>2. actions_count(s, d - 1) = 1 /\ bets_count(s, d - 2) = 1 - 0 /\ nodes_count(s, d - 2) = 1
    BY <2>1 DEF actions_count, bets_count, terminal_actions_count, nodes_count
  <2>3. Dims(s, d) = <<1, 1, 1>> /\ 1 - 0 = 1
    BY <1>1 DEF Dims
  <2> QED
    BY <2>2, <2>3
<1>2. CASE d = 2
  <2>1. d - 1 = 1 /\ d - 2 < 1 /\ d # 1
    BY <1>2
  <2>2. bets_count(s, d - 2) = 1 - 0 /\ nodes_count(s, d - 2) = 1
    BY <2>1 DEF actions_count, bets_count, terminal_actions_count, nodes_count
  <2>3. Dims(s, d) = <<actions_count(s, 1), 1, 1>> /\ 1 - 0 = 1
    BY <1>2, <2>1 DEF Dims
  <2> QED
    BY <2>1, <2>2, <2>3
<1>3. CASE d # 1 /\ d # 2
  BY <1>3 DEF Dims
<1> QED
  BY <1>1, <1>2, <1>3

(* A slot is one of the layer, and tells which action it is for.           *)
IsSlot(slot, most, width, i) ==
  slot \in 1..most /\ slot = IF i > 2 THEN i + (most - width) ELSE i

LEMMA SlotOfAnAction ==
  ASSUME NEW s, NEW d, NEW most \in Nat, most = actions_count(s, d),
         NEW width \in Nat, width <= most, NEW i \in 1..width
  PROVE  /\ Slot(s, d, width, i) = IF i > 2 THEN i + (most - width) ELSE i
         /\ Slot(s, d, width, i) \in 1..most
         /\ Slot(s, d, width, i) = 1 <=> i = 1
         /\ Slot(s, d, width, i) = 2 <=> i = 2
PROOF
<1>1. Slot(s, d, width, i) = IF width < most /\ i > 2 THEN most - (width - i) ELSE i
  BY DEF Slot
<1> QED
  BY <1>1

LEMMA SlotIsASlot ==
  ASSUME NEW s, NEW d, NEW most \in Nat, most = actions_count(s, d),
         NEW width \in Nat, width <= most, NEW i \in 1..width,
         NEW slot, slot = Slot(s, d, width, i)
  PROVE  IsSlot(slot, most, width, i)
PROOF
  BY SlotOfAnAction DEF IsSlot

LEMMA QuotientAndRest ==
  ASSUME NEW n \in Nat, n >= 1, NEW g \in Nat, NEW b \in 0..n - 1
  PROVE  (g * n + b) % n = b /\ (g * n + b) \div n = g
PROOF
<1> PICK x \in Nat : x = g * n + b
  OBVIOUS
<1>1. x \div n \in Nat /\ x % n \in 0..n - 1 /\ x = n * (x \div n) + (x % n)
  <2>1. n \in Nat \ {0}
    OBVIOUS
  <2> QED
    BY <2>1, DivMod
<1> PICK q \in Nat, r \in 0..n - 1 : q = x \div n /\ r = x % n
  BY <1>1
<1>2. g * n + b = q * n + r
  BY <1>1
<1>3. ~(g < q)
  <2> SUFFICES ASSUME g < q PROVE FALSE
    OBVIOUS
  <2> PICK k \in Nat : q = g + 1 + k
    <3>1. q - (g + 1) \in Nat /\ q = g + 1 + (q - (g + 1))
      OBVIOUS
    <3> QED
      BY <3>1
  <2>1. q * n = g * n + n + k * n /\ k * n >= 0
    OBVIOUS
  <2> QED
    BY <2>1, <1>2
<1>4. ~(q < g)
  <2> SUFFICES ASSUME q < g PROVE FALSE
    OBVIOUS
  <2> PICK k \in Nat : g = q + 1 + k
    <3>1. g - (q + 1) \in Nat /\ g = q + 1 + (g - (q + 1))
      OBVIOUS
    <3> QED
      BY <3>1
  <2>1. g * n = q * n + n + k * n /\ k * n >= 0
    OBVIOUS
  <2> QED
    BY <2>1, <1>2
<1>5. q = g
  BY <1>3, <1>4
<1>6. r = b
  BY <1>2, <1>5
<1> QED
  BY <1>5, <1>6

(* Where the children of a node are put, its cell is found again.          *)
IsFound(s, d, at) ==
  \A i : ParentCell(s, d, <<i, Below(s, d, at).parent, Below(s, d, at).gp>>) = at

LEMMA ParentIsFound ==
  ASSUME NEW s, NEW d, NEW a \in Int, NEW b \in Nat, NEW g \in Nat, b >= 1, g >= 1,
         NEW at, at = <<a, b, g>>, nonallinbets_count(s, d - 2) \in Int,
         b <= nonallinbets_count(s, d - 2), terminal_actions_count(s, d - 1) \in Int
  PROVE  IsFound(s, d, at)
PROOF
<1> PICK n \in Int, e \in Int : /\ n = nonallinbets_count(s, d - 2) /\ b <= n
                             /\ e = terminal_actions_count(s, d - 1)
  OBVIOUS
<1>1. at[1] = a /\ at[2] = b /\ at[3] = g
  OBVIOUS
<1>2. Below(s, d, at) = [parent |-> a - e, gp |-> (g - 1) * n + b]
  BY <1>1 DEF Below
<1>3. n \in Nat /\ n >= 1 /\ g - 1 \in Nat /\ b - 1 \in 0..n - 1
  OBVIOUS
<1>4. ((g - 1) * n + (b - 1)) % n = b - 1 /\ ((g - 1) * n + (b - 1)) \div n = g - 1
  BY <1>3, QuotientAndRest
<1> PICK gp \in Int : gp = (g - 1) * n + b
  OBVIOUS
<1>5. gp - 1 = (g - 1) * n + (b - 1)
  OBVIOUS
<1>6. ((gp - 1) % n) + 1 = b /\ ((gp - 1) \div n) + 1 = g
  <2> PICK y \in Int : y = gp - 1
    OBVIOUS
  <2>1. y % n = b - 1 /\ y \div n = g - 1
    BY <1>4, <1>5
  <2>2. (b - 1) + 1 = b /\ (g - 1) + 1 = g
    OBVIOUS
  <2>3. (y % n) + 1 = b /\ (y \div n) + 1 = g
    BY <2>1, <2>2
  <2> QED
    BY <2>3
<1>7. (a - e) + e = a
  OBVIOUS
<1>8. ASSUME NEW i PROVE ParentCell(s, d, <<i, a - e, gp>>) = at
  <2> PICK cell : cell = <<i, a - e, gp>>
    OBVIOUS
  <2>1. cell[2] = a - e /\ cell[3] = gp
    OBVIOUS
  <2>2. ParentCell(s, d, cell) = <<(a - e) + e, ((gp - 1) % n) + 1, ((gp - 1) \div n) + 1>>
    BY <2>1 DEF ParentCell
  <2> QED
    BY <2>2, <1>6, <1>7
<1> QED
  BY <1>2, <1>8 DEF IsFound

(* And a cell whose parent's cell is that of a node is below that node.    *)
IsUnder(s, d, cell) ==
  LET below == Below(s, d, ParentCell(s, d, cell))
  IN  below.parent = cell[2] /\ below.gp = cell[3]

LEMMA CellIsBelow ==
  ASSUME NEW s, NEW d, NEW cell, cell[2] \in Int, cell[3] \in Nat, cell[3] >= 1,
         nonallinbets_count(s, d - 2) \in Int, nonallinbets_count(s, d - 2) >= 1,
         terminal_actions_count(s, d - 1) \in Int
  PROVE  IsUnder(s, d, cell)
PROOF
<1> PICK at : at = ParentCell(s, d, cell)
  OBVIOUS
<1> PICK b \in Int, g \in Nat, n \in Int, e \in Int :
      /\ b = cell[2] /\ g = cell[3] /\ g >= 1 /\ n = nonallinbets_count(s, d - 2) /\ n >= 1
      /\ e = terminal_actions_count(s, d - 1)
  OBVIOUS
<1>1. cell[2] = b /\ cell[3] = g
  OBVIOUS
<1>2. n \in Nat /\ n # 0 /\ g - 1 \in Nat
  OBVIOUS
<1>3. /\ (g - 1) \div n \in Nat /\ (g - 1) % n \in 0..n - 1
      /\ g - 1 = n * ((g - 1) \div n) + ((g - 1) % n)
  BY <1>2, DivMod
<1>9. PICK q \in Nat, r \in Nat : q = (g - 1) \div n /\ r = (g - 1) % n
  BY <1>3
<1>4. at = <<b + e, r + 1, q + 1>>
  BY <1>1, <1>9 DEF ParentCell
<1>5. at[1] = b + e /\ at[2] = r + 1 /\ at[3] = q + 1
  BY <1>4
<1>6. Below(s, d, at) = [parent |-> (b + e) - e, gp |-> ((q + 1) - 1) * n + (r + 1)]
  BY <1>5 DEF Below
<1>7. (b + e) - e = b /\ (q + 1) - 1 = q
  OBVIOUS
<1>8. q * n + (r + 1) = g
  <2>1. \A x, y, z \in Int : x - 1 = y + z => y + (z + 1) = x
    OBVIOUS
  <2>2. PICK m \in Int : m = q * n
    OBVIOUS
  <2>3. n * q = q * n
    OBVIOUS
  <2>4. g - 1 = m + r
    BY <1>3, <1>9, <2>2, <2>3
  <2>5. m + (r + 1) = g
    BY <2>1, <2>4
  <2> QED
    BY <2>2, <2>5, Zenon
<1> QED
  BY <1>6, <1>7, <1>8 DEF IsUnder

(* An entry of a row: a node of the layer, in a cell of the tensor; what   *)
(* is not all-in before it, and what it is itself, shows in the cell.      *)
InRow(root, s, d, layer, entry) ==
  /\ entry.node \in Entries(layer)
  /\ entry.node.kind \in {"inner", "chance", "terminal"}
  /\ entry.at \in Cells(s, d)
  /\ entry.node.kind # "terminal" => entry.at[2] <= nonallinbets_count(s, d - 2)
  /\ entry.node.kind = "inner" =>
       /\ entry.at[1] > terminal_actions_count(s, d - 1)
       /\ d > 1 => /\ actions_count(s, d - 1) >= 3
                   /\ Opp(entry.node) = stack <=> entry.at[1] = actions_count(s, d - 1)
  /\ d > 1 => RightValue(s, root, d, entry)

LEMMA NumbersOfALayer ==
  ASSUME NEW root, NEW s, NEW layers, Fits(root, s, layers), NEW d \in Int, d <= s.depth
  PROVE  /\ actions_count(s, d) \in Nat /\ terminal_actions_count(s, d) \in 0..2
         /\ bets_count(s, d) = actions_count(s, d) - terminal_actions_count(s, d)
         /\ nonallinbets_count(s, d) \in Int
         /\ d < 1 => /\ actions_count(s, d) = 1 /\ terminal_actions_count(s, d) = 0
                     /\ nonallinbets_count(s, d) = 1
         /\ d >= 1 /\ actions_count(s, d) # 2 =>
              nonallinbets_count(s, d) = actions_count(s, d) - terminal_actions_count(s, d) - 1
PROOF
<1>1. bets_count(s, d) = actions_count(s, d) - terminal_actions_count(s, d)
  BY DEF bets_count
<1>2. CASE d < 1
  <2>1. /\ actions_count(s, d) = 1 /\ terminal_actions_count(s, d) = 0
        /\ nonallinbets_count(s, d) = 1
    BY <1>2 DEF actions_count, terminal_actions_count, nonallinbets_count
  <2> QED
    BY <2>1, <1>1, <1>2
<1>3. CASE ~(d < 1)
  <2>1. s.depth \in Nat /\ \A c \in 1..s.depth : LayerFits(root, s, c, layers[c])
    BY DEF Fits, Shape
  <2>2. LayerFits(root, s, d, layers[d])
    BY <2>1, <1>3
  <2>3. actions_count(s, d) \in Nat /\ terminal_actions_count(s, d) \in 0..2
    BY <2>2 DEF LayerFits, Bounds
  <2>4. nonallinbets_count(s, d) =
          IF actions_count(s, d) = 2 THEN 0
          ELSE actions_count(s, d) - terminal_actions_count(s, d) - 1
    BY <2>2 DEF LayerFits
  <2> QED
    BY <2>3, <2>4, <1>1, <1>3
<1> QED
  BY <1>2, <1>3

LEMMA MultiplesFit ==
  ASSUME NEW n \in Nat, NEW most \in Int, NEW g \in Nat, g >= 1, g <= most, NEW b \in 1..n
  PROVE  (g - 1) * n + b \in 1..most * n
PROOF
<1> PICK k \in Nat : most = g + k
  <2>1. most - g \in Nat /\ most = g + (most - g)
    OBVIOUS
  <2> QED
    BY <2>1
<1> PICK x \in Nat : x = (g - 1) * n
  <2>1. g - 1 \in Nat
    OBVIOUS
  <2> QED
    BY <2>1
<1>1. most * n = x + n + k * n /\ k * n \in Nat
  OBVIOUS
<1> PICK y \in Nat : y = k * n
  BY <1>1
<1>2. most * n = x + n + y
  BY <1>1
<1>3. x + b >= 1 /\ x + b <= x + n + y
  OBVIOUS
<1> QED
  BY <1>2, <1>3

(* Where the children of an entry are put.                                 *)
KidPlaced(s, d, entry, i, kid) ==
  LET width == Len(children(entry.node))
  IN  /\ kid.node = children(entry.node)[i] /\ kid.of = entry.at
      /\ kid.at = <<Slot(s, d, width, i), Below(s, d, entry.at).parent, Below(s, d, entry.at).gp>>
      /\ Slot(s, d, width, i) = IF i > 2 THEN i + (actions_count(s, d) - width) ELSE i
      /\ Below(s, d, entry.at).parent = entry.at[1] - terminal_actions_count(s, d - 1)
      /\ ParentCell(s, d, kid.at) = entry.at
      /\ kid.at \in Cells(s, d + 1)

LEMMA KidIsPlaced ==
  ASSUME NEW root, NEW s, NEW layers, Fits(root, s, layers),
         NEW d \in 1..s.depth - 1, NEW entry, InRow(root, s, d, layers[d], entry),
         entry.node.kind = "inner", NEW i \in 1..Len(children(entry.node)),
         NEW kid, kid = PlaceChildren(s, d, entry)[i]
  PROVE  KidPlaced(s, d, entry, i, kid)
PROOF
<1>0. s.depth \in Nat
  BY DEF Fits, Shape
<1>1. /\ entry.node \in Entries(layers[d]) /\ entry.at \in Cells(s, d)
      /\ entry.at[2] <= nonallinbets_count(s, d - 2)
      /\ entry.at[1] > terminal_actions_count(s, d - 1)
  BY DEF InRow
<1>2. LayerFits(root, s, d, layers[d])
  BY <1>0 DEF Fits
<1>3. IsDecision(entry.node)
  BY <1>1, <1>2 DEF LayerFits, IsLayer, InLayer
<1>4. PICK width \in Nat : /\ width = Len(children(entry.node))
                           /\ DOMAIN children(entry.node) = 1..width
  BY <1>3, KindsOfTheKids, ActionsOfANode DEF ActionIds
<1>5. PICK most \in Nat : most = actions_count(s, d) /\ width <= most
  <2>1. d \in Int /\ d <= s.depth
    BY <1>0
  <2>2. actions_count(s, d) \in Nat
    BY <2>1, NumbersOfALayer
  <2>3. width <= actions_count(s, d)
    BY <1>1, <1>2, <1>4 DEF LayerFits, Bounds
  <2> QED
    BY <2>2, <2>3
<1>6. PICK slot \in 1..most : /\ slot = Slot(s, d, width, i)
                            /\ slot = IF i > 2 THEN i + (most - width) ELSE i
  <2>1. i \in 1..width
    BY <1>4
  <2>2. most = actions_count(s, d) /\ width <= most
    BY <1>5
  <2> PICK at : at = Slot(s, d, width, i)
    OBVIOUS
  <2>3. IsSlot(at, most, width, i)
    BY <2>1, <2>2, SlotIsASlot, Zenon
  <2> QED
    BY <2>3, Zenon DEF IsSlot
<1>7. /\ Dims(s, d) = <<actions_count(s, d - 1), bets_count(s, d - 2), nodes_count(s, d - 2)>>
      /\ Dims(s, d + 1) = <<actions_count(s, d), bets_count(s, d - 1), nodes_count(s, d - 1)>>
  <2>1. d \in Nat /\ d + 1 \in Nat /\ d >= 1 /\ d + 1 >= 1
        /\ (d + 1) - 1 = d /\ (d + 1) - 2 = d - 1
    BY <1>0
  <2> QED
    BY <2>1, DimsOfALayer
<1>8. PICK above \in Nat, ends \in 0..2 :
       /\ above = actions_count(s, d - 1) /\ ends = terminal_actions_count(s, d - 1)
       /\ bets_count(s, d - 1) = above - ends
  <2>1. d - 1 \in Int /\ d - 1 <= s.depth
    BY <1>0
  <2> QED
    BY <2>1, NumbersOfALayer
<1>9. PICK n \in Int, bets \in Int : n = nonallinbets_count(s, d - 2) /\ bets = bets_count(s, d - 2)
  <2>1. d - 2 \in Int /\ d - 2 <= s.depth
    BY <1>0
  <2>2. /\ actions_count(s, d - 2) \in Nat /\ terminal_actions_count(s, d - 2) \in 0..2
        /\ bets_count(s, d - 2) = actions_count(s, d - 2) - terminal_actions_count(s, d - 2)
        /\ nonallinbets_count(s, d - 2) \in Int
    BY <2>1, NumbersOfALayer
  <2> QED
    BY <2>2
<1>10. PICK nodes \in Int : nodes = nodes_count(s, d - 2) /\ nodes_count(s, d - 1) = nodes * n
  <2>1. d - 1 \in 0..s.depth - 1 /\ (d - 1) - 1 = d - 2
    BY <1>0
  <2>2. RoomAt(s, d - 1)
    BY <2>1 DEF Fits
  <2> QED
    BY <2>1, <2>2, <1>9 DEF RoomAt
<1>11. PICK a \in 1..above, b \in 1..bets, g \in 1..nodes : entry.at = <<a, b, g>>
  <2> PICK dims : dims = Dims(s, d)
    OBVIOUS
  <2>1. dims[1] = above /\ dims[2] = bets /\ dims[3] = nodes
    BY <1>7, <1>8, <1>9, <1>10
  <2>2. entry.at \in (1..above) \X (1..bets) \X (1..nodes)
    BY <2>1, <1>1 DEF Cells
  <2> QED
    BY <2>2
<1>12. /\ entry.at[1] = a /\ entry.at[2] = b /\ a > ends /\ b <= n
       /\ a \in Int /\ b \in Nat /\ g \in Nat /\ b >= 1 /\ g >= 1 /\ g <= nodes
       /\ ends \in Int /\ n \in Nat /\ b \in 1..n
  <2>1. entry.at[1] = a /\ entry.at[2] = b
    BY <1>11
  <2>2. a > ends /\ b <= n
    BY <2>1, <1>1, <1>8, <1>9
  <2>3. /\ a \in Int /\ b \in Nat /\ g \in Nat /\ b >= 1 /\ g >= 1 /\ g <= nodes
        /\ ends \in Int
    OBVIOUS
  <2>4. n \in Nat /\ b \in 1..n
    BY <2>2, <2>3
  <2> QED
    BY <2>1, <2>2, <2>3, <2>4
<1>13. PICK parent, gp :
         /\ parent = Below(s, d, entry.at).parent /\ gp = Below(s, d, entry.at).gp
         /\ parent = a - ends /\ gp = (g - 1) * n + b
         /\ \A x : ParentCell(s, d, <<x, parent, gp>>) = entry.at
  <2>1. PICK at : at = entry.at /\ at = <<a, b, g>>
    BY <1>11
  <2>2. /\ a \in Int /\ b \in Nat /\ g \in Nat /\ b >= 1 /\ g >= 1 /\ n \in Int /\ b <= n
        /\ n = nonallinbets_count(s, d - 2)
        /\ ends \in Int /\ ends = terminal_actions_count(s, d - 1)
    BY <1>8, <1>9, <1>12
  <2>3. IsFound(s, d, at)
    BY <2>1, <2>2, ParentIsFound
  <2>4. /\ Below(s, d, at).parent = a - ends
        /\ Below(s, d, at).gp = (g - 1) * n + b
    BY <2>1, <2>2 DEF Below
  <2> QED
    BY <2>1, <2>3, <2>4, Zenon DEF IsFound
<1>14. /\ kid.node = children(entry.node)[i] /\ kid.of = entry.at
       /\ kid.at = <<slot, parent, gp>>
  BY <1>4, <1>6, <1>13 DEF PlaceChildren
<1>15. parent \in 1..above - ends
  <2>1. above \in Nat /\ a \in 1..above /\ ends \in 0..2
    BY <1>8, <1>11
  <2>2. a > ends
    BY <1>12
  <2>3. a - ends \in 1..above - ends
    BY <2>1, <2>2
  <2>4. parent = a - ends
    BY <1>13, Zenon
  <2> QED
    BY <2>3, <2>4, Zenon
<1>16. gp \in 1..nodes * n
  <2>1. /\ nodes \in Int /\ n \in Nat /\ g \in Nat /\ b \in Nat
        /\ g >= 1 /\ g <= nodes /\ b >= 1 /\ b <= n
    BY <1>10, <1>12
  <2>2. gp = (g - 1) * n + b
    BY <1>13, Zenon
  <2>3. (g - 1) * n + b \in 1..nodes * n
    BY <2>1, MultiplesFit
  <2> QED
    BY <2>2, <2>3, Zenon
<1>17. kid.at \in Cells(s, d + 1)
  <2>1. PICK x, y, z : x = most /\ y = above - ends /\ z = nodes * n
    OBVIOUS
  <2>2. Dims(s, d + 1) = <<x, y, z>>
    BY <2>1, <1>5, <1>7, <1>8, <1>10
  <2>3. slot \in 1..x /\ parent \in 1..y /\ gp \in 1..z
    BY <2>1, <1>15, <1>16
  <2>4. Cells(s, d + 1) = (1..x) \X (1..y) \X (1..z)
    BY <2>2 DEF Cells
  <2> QED
    BY <2>3, <2>4, <1>14
<1>18. ParentCell(s, d, kid.at) = entry.at
  BY <1>13, <1>14
<1> QED
  BY <1>4, <1>5, <1>6, <1>8, <1>12, <1>13, <1>14, <1>17, <1>18 DEF KidPlaced

(* The children of an entry belong into the row below.                     *)
LEMMA KidIsInRow ==
  ASSUME NEW root, NEW s, NEW layers, Fits(root, s, layers),
         NEW d \in 1..s.depth - 1, NEW entry, InRow(root, s, d, layers[d], entry),
         entry.node.kind = "inner", NEW i \in 1..Len(children(entry.node)),
         NEW kid, kid = PlaceChildren(s, d, entry)[i]
  PROVE  InRow(root, s, d + 1, layers[d + 1], kid)
PROOF
<1>0. s.depth \in Nat /\ d \in 1..s.depth /\ d \in Int /\ d <= s.depth
      /\ d - 1 \in Int /\ d - 1 <= s.depth /\ (d + 1) - 1 = d /\ (d + 1) - 2 = d - 1
      /\ d + 1 > 1 /\ (d + 1 > 2 <=> d > 1) /\ d + 1 \in 2..s.depth /\ d + 1 \in Nat /\ d + 1 >= 1
  BY DEF Fits, Shape
<1>1. /\ entry.node \in Entries(layers[d]) /\ entry.at \in Cells(s, d)
      /\ entry.at[1] > terminal_actions_count(s, d - 1)
      /\ d > 1 => /\ actions_count(s, d - 1) >= 3
                  /\ Opp(entry.node) = stack <=> entry.at[1] = actions_count(s, d - 1)
  BY DEF InRow
<1>2. LayerFits(root, s, d, layers[d])
  BY <1>0 DEF Fits
<1>3. /\ IsDecision(entry.node) /\ entry.node.street = root.street
      /\ d > 1 => ~CallIsCheck(entry.node)
  BY <1>1, <1>2 DEF LayerFits, IsLayer, InLayer
<1> PICK node : node = entry.node
  OBVIOUS
<1> PICK kids : kids = children(node)
  OBVIOUS
<1>4. PICK width \in Nat : width = Len(kids)
  BY <1>3, KindsOfTheKids
<1>5. /\ width >= 2 /\ (width = 2 <=> Opp(node) = stack)
      /\ CallIsCheck(node) => Opp(node) # stack /\ Opp(kids[2]) # stack
      /\ Kinds(node, width, kids)
  BY <1>3, <1>4, KindsOfTheKids
<1>6. i \in 1..width /\ (i = 1 \/ i = 2 \/ i \in 3..width)
  BY <1>4
<1>7. KidPlaced(s, d, entry, i, kid)
  BY KidIsPlaced
<1>8. PICK most \in Nat, ends \in 0..2 :
        most = actions_count(s, d) /\ ends = terminal_actions_count(s, d) /\ width <= most
  <2>1. actions_count(s, d) \in Nat /\ terminal_actions_count(s, d) \in 0..2
    BY <1>0, NumbersOfALayer
  <2>2. width <= actions_count(s, d)
    BY <1>1, <1>2, <1>4 DEF LayerFits, Bounds
  <2> QED
    BY <2>1, <2>2
<1>9. PICK above \in Nat, over \in 0..2 :
        /\ above = actions_count(s, d - 1) /\ over = terminal_actions_count(s, d - 1)
        /\ bets_count(s, d - 1) = above - over
        /\ d = 1 => above = 1 /\ over = 0 /\ nonallinbets_count(s, d - 1) = 1
        /\ d > 1 /\ above # 2 => nonallinbets_count(s, d - 1) = above - over - 1
  <2>1. d - 1 < 1 <=> d = 1
    OBVIOUS
  <2>2. d - 1 >= 1 <=> d > 1
    OBVIOUS
  <2> PICK e \in Int : e = d - 1 /\ e <= s.depth
    BY <1>0
  <2>3. /\ actions_count(s, e) \in Nat /\ terminal_actions_count(s, e) \in 0..2
        /\ bets_count(s, e) = actions_count(s, e) - terminal_actions_count(s, e)
        /\ e < 1 => /\ actions_count(s, e) = 1 /\ terminal_actions_count(s, e) = 0
                    /\ nonallinbets_count(s, e) = 1
        /\ e >= 1 /\ actions_count(s, e) # 2 =>
             nonallinbets_count(s, e) = actions_count(s, e) - terminal_actions_count(s, e) - 1
    BY NumbersOfALayer
  <2> QED
    BY <2>1, <2>2, <2>3
<1>10. PICK a \in 1..above : a = entry.at[1]
  <2> PICK dims : dims = Dims(s, d)
    OBVIOUS
  <2>1. dims[1] = above
    <3>1. Dims(s, d) = <<actions_count(s, d - 1), bets_count(s, d - 2), nodes_count(s, d - 2)>>
      BY <1>0, DimsOfALayer
    <3> QED
      BY <3>1, <1>9
  <2>2. entry.at \in (1..above) \X (1..dims[2]) \X (1..dims[3])
    BY <2>1, <1>1 DEF Cells
  <2> QED
    BY <2>2
<1>11. PICK slot \in Int, parent \in Int : 
         /\ kid.at[1] = slot /\ kid.at[2] = parent
         /\ slot = IF i > 2 THEN i + (most - width) ELSE i
         /\ parent = a - over
  <2>1. PICK at : at = kid.at /\ at = <<Slot(s, d, width, i), Below(s, d, entry.at).parent,
                                        Below(s, d, entry.at).gp>>
    BY <1>4, <1>7 DEF KidPlaced
  <2>2. at[1] = Slot(s, d, width, i) /\ at[2] = Below(s, d, entry.at).parent
    BY <2>1
  <2>3. /\ Slot(s, d, width, i) = IF i > 2 THEN i + (most - width) ELSE i
        /\ Below(s, d, entry.at).parent = a - over
    BY <1>4, <1>7, <1>8, <1>9, <1>10 DEF KidPlaced
  <2>4. (IF i > 2 THEN i + (most - width) ELSE i) \in Int /\ a - over \in Int
    OBVIOUS
  <2> QED
    BY <2>1, <2>2, <2>3, <2>4
<1>12. kid.node = kids[i] /\ kid.at \in Cells(s, d + 1)
  BY <1>7 DEF KidPlaced
<1>13. kids[i] \in Entries(layers[d + 1])
  <2> PICK below : below = Under(layers[d])
    OBVIOUS
  <2>1. layers[d + 1] = below
    <3>1. layers[d + 1] = Under(layers[(d + 1) - 1])
      BY <1>0 DEF Fits
    <3> QED
      BY <3>1, <1>0
  <2>2. IsLayer(root, d, layers[d])
    BY <1>2 DEF LayerFits
  <2>3. \A x : x \in Entries(below) <=>
          \E y \in Entries(layers[d]) : \E m \in 1..Len(children(y)) : x = children(y)[m]
    BY <2>2, UnderALayer
  <2> QED
    BY <2>1, <2>3, <1>1
<1>14. /\ kids[1].kind = "terminal"
       /\ kids[2].kind = IF CallIsCheck(node) THEN "inner"
                         ELSE IF node.street = 1 /\ Opp(node) # stack THEN "chance"
                         ELSE "terminal"
       /\ \A m \in 3..width : kids[m].kind = "inner" /\ (Opp(kids[m]) = stack <=> m = width)
  BY <1>5 DEF Kinds
<1>15. kids[i].kind \in {"inner", "chance", "terminal"}
  BY <1>6, <1>14
<1>16. kids[i].kind = "inner" => /\ i \in 3..width \/ (i = 2 /\ d = 1 /\ CallIsCheck(node))
  BY <1>0, <1>3, <1>6, <1>14
<1>17. kids[i].kind # "terminal" => Opp(node) # stack
  BY <1>5, <1>6, <1>14
<1>18. kids[i].kind # "terminal" => parent <= nonallinbets_count(s, d - 1)
  <2> SUFFICES ASSUME kids[i].kind # "terminal" PROVE parent <= nonallinbets_count(s, d - 1)
    OBVIOUS
  <2>1. CASE d = 1
    BY <2>1, <1>9, <1>10, <1>11
  <2>2. CASE d > 1
    <3>1. a # above /\ above >= 3
      BY <2>2, <1>1, <1>9, <1>10, <1>17
    <3>2. nonallinbets_count(s, d - 1) = above - over - 1
      BY <2>2, <3>1, <1>9
    <3>3. parent = a - over
      BY <1>11
    <3>4. a - over <= above - over - 1
      <4>1. a \in Int /\ above \in Int /\ over \in Int /\ a <= above
        OBVIOUS
      <4> QED
        BY <4>1, <3>1
    <3> QED
      BY <3>2, <3>3, <3>4
  <2> QED
    BY <2>1, <2>2, <1>0
<1>19. d = 1 => /\ node = root /\ kids[2].kind = FirstCall(root)
                /\ most = width /\ ends = Ends(root)
  <2> SUFFICES ASSUME d = 1
               PROVE  node = root /\ most = width /\ ends = Ends(root)
    BY DEF FirstCall
  <2>1. layers[1] = <<root>> /\ Shape(root, s)
    BY DEF Fits
  <2>2. node = root
    <3> PICK one : one = <<root>>
      OBVIOUS
    <3>1. Len(one) = 1 /\ one[1] = root /\ \A m \in 1..1 : m = 1
      OBVIOUS
    <3>2. \A x \in Entries(one) : x = root
      BY <3>1 DEF Entries
    <3> QED
      BY <2>1, <3>2, <1>1
  <2>3. actions_count(s, 1) = Len(children(root)) /\ terminal_actions_count(s, 1) = Ends(root)
    BY <2>1 DEF Shape
  <2> QED
    BY <2>2, <2>3, <1>4, <1>8
<1>20. kids[i].kind = "inner" =>
         slot > ends /\ most >= 3 /\ (Opp(kids[i]) = stack <=> slot = most)
  <2> SUFFICES ASSUME kids[i].kind = "inner"
               PROVE  slot > ends /\ most >= 3 /\ (Opp(kids[i]) = stack <=> slot = most)
    OBVIOUS
  <2>1. CASE i \in 3..width
    <3>1. slot = i + (most - width)
      BY <2>1, <1>11
    <3>2. Opp(kids[i]) = stack <=> i = width
      BY <2>1, <1>14
    <3>3. slot > ends /\ most >= 3 /\ (slot = most <=> i = width)
      <4>1. width <= most /\ i >= 3 /\ i <= width
        BY <2>1, <1>8
      <4> QED
        BY <3>1, <4>1
    <3> QED
      BY <3>2, <3>3
  <2>2. CASE i = 2 /\ d = 1 /\ CallIsCheck(node)
    <3>1. slot = 2
      BY <2>2, <1>11
    <3>2. Opp(node) # stack /\ Opp(kids[2]) # stack
      BY <2>2, <1>5
    <3>3. width >= 3
      BY <3>2, <1>5
    <3>4. ends = 1 /\ most >= 3
      BY <2>2, <3>3, <1>14, <1>19 DEF Ends
    <3> QED
      BY <2>2, <3>1, <3>2, <3>4
  <2> QED
    BY <2>1, <2>2, <1>16
<1>21. RightValue(s, root, d + 1, kid)
  <2> PICK at : at = kid.at
    OBVIOUS
  <2>1. at[1] = slot /\ at[2] = parent
    BY <1>11
  <2>2. Dims(s, d + 1)[2] = above - over
    <3>1. Dims(s, d + 1) = <<actions_count(s, (d + 1) - 1), bets_count(s, (d + 1) - 2),
                             nodes_count(s, (d + 1) - 2)>>
      BY <1>0, DimsOfALayer
    <3>2. Dims(s, d + 1)[2] = bets_count(s, d - 1)
      BY <3>1, <1>0
    <3> QED
      BY <3>2, <1>9
  <2>3. /\ slot = 1 <=> i = 1
        /\ slot = 2 <=> i = 2
    BY <1>6, <1>8, <1>11
  <2>4. parent = above - over <=> a = above
    <3>1. parent = a - over
      BY <1>11
    <3> QED
      BY <3>1
  <2> PICK kind : kind = kids[i].kind
    OBVIOUS
  <2>5. SUFFICES ValueOf(s, root, d + 1, at) =
                   CASE kind = "inner" -> "below"
                     [] kind = "chance" -> "next street"
                     [] OTHER -> IF i = 1 THEN "fold" ELSE "showdown"
    BY <2>1, <2>3, <1>12 DEF RightValue
  <2>6. CASE i = 1
    <3>1. ValueOf(s, root, d + 1, at) = "fold"
      BY <2>1, <2>3, <2>6 DEF ValueOf
    <3> QED
      BY <2>6, <3>1, <1>14
  <2>7. CASE i \in 3..width
    <3>1. i # 1 /\ i # 2
      BY <2>7
    <3>2. ValueOf(s, root, d + 1, at) = "below"
      BY <2>1, <2>3, <3>1 DEF ValueOf
    <3> QED
      BY <2>7, <3>1, <3>2, <1>14
  <2>8. CASE i = 2
    <3>1. ValueOf(s, root, d + 1, at) =
            IF (d > 1 \/ FirstCall(root) = "terminal") /\ (root.street = 2 \/ a = above)
              THEN "showdown"
            ELSE IF (d > 1 \/ FirstCall(root) = "chance") /\ root.street = 1 THEN "next street"
            ELSE "below"
      <4>1. at[1] = 2 /\ at[1] # 1
        BY <2>1, <2>3, <2>8
      <4>2. at[2] = Dims(s, d + 1)[2] <=> a = above
        BY <2>1, <2>2, <2>4
      <4> QED
        BY <4>1, <4>2, <1>0 DEF ValueOf
    <3>2. root.street \in {1, 2} /\ node.street = root.street
      BY <1>3, DecisionFields
    <3> PICK value : value = ValueOf(s, root, d + 1, at)
      OBVIOUS
    <3>5. kind = kids[2].kind /\ kind \in {"inner", "chance", "terminal"} /\ i # 1
      BY <2>8, <1>15
    <3>6. SUFFICES value = IF kind = "inner" THEN "below"
                           ELSE IF kind = "chance" THEN "next street" ELSE "showdown"
      BY <3>5
    <3>3. CASE d = 1
      <4>1. a = above /\ ~(d > 1) /\ FirstCall(root) = kids[2].kind
        BY <3>3, <1>9, <1>10, <1>19
      <4>2. kids[2].kind = "chance" => root.street = 1
        BY <3>2, <1>14
      <4>3. ValueOf(s, root, d + 1, at) =
              IF kids[2].kind = "terminal" THEN "showdown"
              ELSE IF kids[2].kind = "chance" THEN "next street" ELSE "below"
        BY <3>1, <4>1, <4>2
      <4> QED
        BY <3>5, <4>3
    <3>4. CASE d > 1
      <4>1. a = above <=> Opp(node) = stack
        BY <3>4, <1>1, <1>9, <1>10
      <4>2. kids[2].kind = IF node.street = 1 /\ Opp(node) # stack THEN "chance" ELSE "terminal"
        BY <3>4, <1>3, <1>14
      <4>3. ValueOf(s, root, d + 1, at) =
              IF root.street = 2 \/ a = above THEN "showdown"
              ELSE IF root.street = 1 THEN "next street" ELSE "below"
        BY <3>1, <3>4
      <4>4. root.street = 1 \/ root.street = 2
        BY <3>2
      <4>5. CASE root.street = 2
        <5>1. kind = "terminal" /\ value = "showdown"
          BY <4>2, <4>3, <4>5, <3>2, <3>5
        <5> QED
          BY <5>1
      <4>6. CASE root.street = 1 /\ Opp(node) = stack
        <5>1. kind = "terminal" /\ value = "showdown"
          BY <4>1, <4>2, <4>3, <4>6, <3>2, <3>5
        <5> QED
          BY <5>1
      <4>7. CASE root.street = 1 /\ Opp(node) # stack
        <5>1. kind = "chance"
          BY <4>2, <4>7, <3>2, <3>5
        <5>2. root.street # 2 /\ a # above
          BY <4>1, <4>7
        <5>3. value = "next street"
          BY <4>3, <4>7, <5>2
        <5>4. kind # "inner"
          BY <5>1
        <5> QED
          BY <5>1, <5>3, <5>4
      <4> QED
        BY <4>4, <4>5, <4>6, <4>7
    <3>7. d = 1 \/ d > 1
      BY <1>0
    <3> QED
      BY <3>3, <3>4, <3>7
  <2> QED
    BY <2>6, <2>7, <2>8, <1>6
<1> QED
  <2>1. kid.node \in Entries(layers[d + 1]) /\ kid.at \in Cells(s, d + 1)
        /\ kid.node.kind \in {"inner", "chance", "terminal"}
    BY <1>12, <1>13, <1>15
  <2>2. kid.node.kind # "terminal" => kid.at[2] <= nonallinbets_count(s, (d + 1) - 2)
    BY <1>0, <1>11, <1>12, <1>18
  <2>3. kid.node.kind = "inner" =>
          /\ kid.at[1] > terminal_actions_count(s, (d + 1) - 1)
          /\ actions_count(s, (d + 1) - 1) >= 3
          /\ Opp(kid.node) = stack <=> kid.at[1] = actions_count(s, (d + 1) - 1)
    BY <1>0, <1>8, <1>11, <1>12, <1>20
  <2> QED
    BY <2>1, <2>2, <2>3, <1>21 DEF InRow

(* A row of the tensors: every node of the layer, each in its own cell.    *)
IsRow(root, s, d, layer, row) ==
  /\ row # << >> /\ \E S : row \in Seq(S)
  /\ \A entry \in Entries(row) : InRow(root, s, d, layer, entry)
  /\ \A node \in Entries(layer) : \E entry \in Entries(row) : entry.node = node
  /\ \A p, q \in 1..Len(row) : row[p].at = row[q].at => p = q

FromRow(s, d, above, row) ==
  \A kid : kid \in Entries(row) <=>
    \E entry \in Entries(above) :
      /\ entry.node.kind = "inner"
      /\ \E i \in 1..Len(children(entry.node)) : kid = PlaceChildren(s, d, entry)[i]

(* The cells of two children differ if the children do.                    *)
LEMMA SlotsDiffer ==
  ASSUME NEW root, NEW s, NEW layers, Fits(root, s, layers),
         NEW d \in 1..s.depth - 1, NEW entry, InRow(root, s, d, layers[d], entry),
         entry.node.kind = "inner",
         NEW i \in 1..Len(children(entry.node)), NEW j \in 1..Len(children(entry.node)),
         PlaceChildren(s, d, entry)[i].at = PlaceChildren(s, d, entry)[j].at
  PROVE  i = j
PROOF
<1>0. s.depth \in Nat /\ d \in Int /\ d <= s.depth /\ d \in 1..s.depth
  BY DEF Fits, Shape
<1>1. /\ KidPlaced(s, d, entry, i, PlaceChildren(s, d, entry)[i])
      /\ KidPlaced(s, d, entry, j, PlaceChildren(s, d, entry)[j])
  BY KidIsPlaced
<1> PICK width : width = Len(children(entry.node))
  OBVIOUS
<1>2. Slot(s, d, width, i) = Slot(s, d, width, j)
  <2> PICK x, y, z : <<x, y, z>> = PlaceChildren(s, d, entry)[i].at /\ x = Slot(s, d, width, i)
    BY <1>1 DEF KidPlaced
  <2> PICK u, v, w : <<u, v, w>> = PlaceChildren(s, d, entry)[j].at /\ u = Slot(s, d, width, j)
    BY <1>1 DEF KidPlaced
  <2>1. <<x, y, z>> = <<u, v, w>>
    OBVIOUS
  <2> QED
    BY <2>1
<1>3. PICK most \in Nat :
        /\ Slot(s, d, width, i) = IF i > 2 THEN i + (most - width) ELSE i
        /\ Slot(s, d, width, j) = IF j > 2 THEN j + (most - width) ELSE j
        /\ width <= most
  <2>1. actions_count(s, d) \in Nat
    BY <1>0, NumbersOfALayer
  <2>2. Bounds(layers[d], d, actions_count(s, d), terminal_actions_count(s, d))
    BY <1>0 DEF Fits, LayerFits
  <2>3. width <= actions_count(s, d)
    BY <2>2 DEF Bounds, InRow
  <2> QED
    BY <2>1, <2>3, <1>1 DEF KidPlaced
<1>4. width \in Nat
  <2>1. entry.node \in Entries(layers[d])
    BY DEF InRow
  <2>2. IsLayer(root, d, layers[d])
    BY <1>0 DEF Fits, LayerFits
  <2>3. IsDecision(entry.node)
    BY <2>1, <2>2 DEF IsLayer, InLayer
  <2> QED
    BY <2>3, KindsOfTheKids
<1>5. i \in 1..width /\ j \in 1..width
  OBVIOUS
<1>6. (IF i > 2 THEN i + (most - width) ELSE i) = (IF j > 2 THEN j + (most - width) ELSE j)
  BY <1>2, <1>3, Zenon
<1>7. width <= most
  BY <1>3
<1>8. PICK w \in Nat : w = width
  BY <1>4
<1>9. \A x, y \in 1..w : w <= most
        /\ (IF x > 2 THEN x + (most - w) ELSE x) = (IF y > 2 THEN y + (most - w) ELSE y) => x = y
  OBVIOUS
<1> QED
  BY <1>5, <1>6, <1>7, <1>8, <1>9, Zenon

LEMMA RowGoesOn ==
  ASSUME NEW root, NEW s, NEW layers, Fits(root, s, layers), NEW d \in 1..s.depth - 1,
         NEW above, IsRow(root, s, d, layers[d], above),
         NEW below, below = RowBelow(s, d, above)
  PROVE  IsRow(root, s, d + 1, layers[d + 1], below) /\ FromRow(s, d, above, below)
PROOF
<1>0. s.depth \in Nat /\ d \in 1..s.depth /\ d + 1 \in 2..s.depth /\ d + 1 \in 1..s.depth
      /\ (d + 1) - 1 = d
  BY DEF Fits, Shape
<1>1. /\ above # << >> /\ \E S : above \in Seq(S)
      /\ \A entry \in Entries(above) : InRow(root, s, d, layers[d], entry)
      /\ \A node \in Entries(layers[d]) : \E entry \in Entries(above) : entry.node = node
      /\ \A p, q \in 1..Len(above) : above[p].at = above[q].at => p = q
  BY DEF IsRow
<1>2. PICK n \in Nat : n = Len(above) /\ DOMAIN above = 1..n
  BY <1>1, LenProperties
<1>3. n # 0
  BY <1>1, <1>2, EmptySeq
<1>4. PICK seqs : seqs = [p \in 1..n |-> PlaceChildren(s, d, above[p])]
  OBVIOUS
<1>5. below = FlattenSeq(seqs)
  BY <1>2, <1>4 DEF RowBelow
<1>6. \A p \in 1..n : above[p] \in Entries(above)
  BY <1>2 DEF Entries
<1>7. IsLayer(root, d, layers[d])
  BY <1>0 DEF Fits, LayerFits
<1>8. ASSUME NEW p \in 1..n
      PROVE  /\ InRow(root, s, d, layers[d], above[p])
             /\ \E w \in Nat :
                  /\ w = Len(children(above[p].node))
                  /\ seqs[p] = [m \in 1..w |-> seqs[p][m]]
                  /\ above[p].node.kind # "inner" => w = 0
  <2>1. InRow(root, s, d, layers[d], above[p])
    BY <1>1, <1>6
  <2> PICK node : node = above[p].node
    OBVIOUS
  <2>2. node \in Entries(layers[d])
    BY <2>1 DEF InRow
  <2>3. node.kind = "inner" => IsDecision(node)
    BY <2>2, <1>7 DEF IsLayer, InLayer
  <2>4. PICK w \in Nat : w = Len(children(node)) /\ children(node) = [m \in 1..w |-> children(node)[m]]
    BY <2>3, KidsOfAnyNode
  <2>5. DOMAIN children(node) = 1..w
    BY <2>4
  <2>6. seqs[p] = PlaceChildren(s, d, above[p])
    BY <1>4
  <2>7. seqs[p] = [m \in 1..w |-> seqs[p][m]]
    BY <2>5, <2>6 DEF PlaceChildren
  <2>8. node.kind # "inner" => w = 0
    <3>1. node.kind # "inner" => children(node) = << >>
      BY NoKids
    <3>2. Len(<< >>) = 0
      BY EmptySeq
    <3> QED
      BY <3>1, <3>2, <2>4
  <2> QED
    BY <2>1, <2>4, <2>7, <2>8
<1>9. /\ seqs = [p \in 1..n |-> seqs[p]]
      /\ \A p \in 1..n : seqs[p] = PlaceChildren(s, d, above[p])
  BY <1>4
<1>10. PICK S : seqs \in Seq(Seq(S)) /\ Len(seqs) = n
  <2>1. \A p \in 1..n : \E w \in Nat : seqs[p] = [m \in 1..w |-> seqs[p][m]]
    BY <1>8
  <2> QED
    BY <2>1, <1>9, PartsMakeASeq
<1>11. seqs # << >>
  BY <1>3, <1>10, EmptySeq
<1>12. below \in Seq(S) /\ Entries(below) = UNION {Entries(seqs[p]) : p \in 1..n}
  BY <1>5, <1>10, <1>11, Flattened
<1>13. \A p \in 1..n : Len(seqs[p]) = Len(children(above[p].node))
  <2> TAKE p \in 1..n
  <2>1. PICK w \in Nat : /\ w = Len(children(above[p].node))
                         /\ seqs[p] = [m \in 1..w |-> seqs[p][m]]
    BY <1>8
  <2>2. seqs[p] \in Seq(S)
    BY <1>10, ElementOfSeq
  <2>3. DOMAIN seqs[p] = 1..w
    BY <2>1
  <2>4. DOMAIN seqs[p] = 1..Len(seqs[p]) /\ Len(seqs[p]) \in Nat
    BY <2>2, LenProperties
  <2> QED
    BY <2>1, <2>3, <2>4
<1>14. \A p \in 1..n : \A m \in 1..Len(seqs[p]) : above[p].node.kind = "inner"
  <2> TAKE p \in 1..n
  <2>1. PICK w \in Nat : /\ w = Len(children(above[p].node))
                         /\ above[p].node.kind # "inner" => w = 0
    BY <1>8
  <2>2. Len(seqs[p]) = w
    BY <2>1, <1>13
  <2> QED
    BY <2>1, <2>2
<1>15. FromRow(s, d, above, below)
  <2> SUFFICES ASSUME NEW kid
               PROVE  kid \in Entries(below) <=>
                        \E entry \in Entries(above) :
                          /\ entry.node.kind = "inner"
                          /\ \E i \in 1..Len(children(entry.node)) :
                               kid = PlaceChildren(s, d, entry)[i]
    BY DEF FromRow
  <2>1. kid \in Entries(below) <=> \E p \in 1..n : kid \in Entries(seqs[p])
    BY <1>12
  <2>2. \A p \in 1..n : kid \in Entries(seqs[p]) <=>
                           /\ above[p].node.kind = "inner"
                           /\ \E i \in 1..Len(children(above[p].node)) :
                                kid = PlaceChildren(s, d, above[p])[i]
    <3> TAKE p \in 1..n
    <3>1. kid \in Entries(seqs[p]) <=> \E i \in 1..Len(seqs[p]) : kid = seqs[p][i]
      BY DEF Entries
    <3> QED
      BY <3>1, <1>9, <1>13, <1>14
  <2>3. \A entry : entry \in Entries(above) <=> \E p \in 1..n : entry = above[p]
    BY <1>2 DEF Entries
  <2> QED
    BY <2>1, <2>2, <2>3
<1>16. ASSUME NEW kid \in Entries(below)
       PROVE  InRow(root, s, d + 1, layers[d + 1], kid)
  <2>1. PICK entry \in Entries(above) :
          /\ entry.node.kind = "inner"
          /\ \E i \in 1..Len(children(entry.node)) : kid = PlaceChildren(s, d, entry)[i]
    BY <1>15 DEF FromRow
  <2>2. InRow(root, s, d, layers[d], entry)
    BY <1>1
  <2> QED
    BY <2>1, <2>2, KidIsInRow
<1>17. ASSUME NEW node \in Entries(layers[d + 1])
       PROVE  \E kid \in Entries(below) : kid.node = node
  <2> PICK under : under = Under(layers[d])
    OBVIOUS
  <2>1. layers[d + 1] = under
    <3>1. layers[d + 1] = Under(layers[(d + 1) - 1])
      BY <1>0 DEF Fits
    <3> QED
      BY <3>1, <1>0
  <2>2. PICK x \in Entries(layers[d]) : \E m \in 1..Len(children(x)) : node = children(x)[m]
    BY <2>1, <1>7, UnderALayer
  <2>3. PICK m \in 1..Len(children(x)) : node = children(x)[m]
    BY <2>2
  <2>4. PICK p \in 1..n : above[p].node = x
    <3>1. \E entry \in Entries(above) : entry.node = x
      BY <1>1
    <3> QED
      BY <3>1, <1>2 DEF Entries
  <2>5. above[p].node.kind = "inner"
    BY <2>3, <2>4, <1>13, <1>14
  <2> PICK kid : kid = PlaceChildren(s, d, above[p])[m]
    OBVIOUS
  <2>6. kid \in Entries(below)
    BY <2>4, <2>5, <1>6, <1>15 DEF FromRow
  <2>7. KidPlaced(s, d, above[p], m, kid)
    <3>1. InRow(root, s, d, layers[d], above[p]) /\ m \in 1..Len(children(above[p].node))
      BY <2>4, <1>8
    <3> QED
      BY <3>1, <2>5, KidIsPlaced
  <2>8. kid.node = node
    BY <2>3, <2>4, <2>7 DEF KidPlaced
  <2> QED
    BY <2>6, <2>8
<1>18. ASSUME NEW p \in 1..n, NEW q \in 1..n,
              NEW i \in 1..Len(seqs[p]), NEW j \in 1..Len(seqs[q]),
              seqs[p][i].at = seqs[q][j].at
       PROVE  p = q /\ i = j
  <2>1. /\ above[p].node.kind = "inner" /\ above[q].node.kind = "inner"
        /\ i \in 1..Len(children(above[p].node)) /\ j \in 1..Len(children(above[q].node))
        /\ InRow(root, s, d, layers[d], above[p]) /\ InRow(root, s, d, layers[d], above[q])
        /\ seqs[p] = PlaceChildren(s, d, above[p]) /\ seqs[q] = PlaceChildren(s, d, above[q])
    BY <1>8, <1>9, <1>13, <1>14
  <2>2. ParentCell(s, d, seqs[p][i].at) = above[p].at
    <3>1. KidPlaced(s, d, above[p], i, seqs[p][i])
      BY <2>1, KidIsPlaced
    <3> QED
      BY <3>1 DEF KidPlaced
  <2>3. ParentCell(s, d, seqs[q][j].at) = above[q].at
    <3>1. KidPlaced(s, d, above[q], j, seqs[q][j])
      BY <2>1, KidIsPlaced
    <3> QED
      BY <3>1 DEF KidPlaced
  <2>4. p = q
    <3>1. above[p].at = above[q].at
      BY <2>2, <2>3, <1>18
    <3> QED
      BY <3>1, <1>1, <1>2
  <2>5. i = j
    BY <2>1, <2>4, <1>18, SlotsDiffer
  <2> QED
    BY <2>4, <2>5
<1>19. Apart(seqs)
  <2>1. ASSUME NEW p \in 1..n PROVE NoDouble(seqs[p])
    <3> SUFFICES ASSUME NEW i \in 1..Len(seqs[p]), NEW j \in 1..Len(seqs[p]),
                        seqs[p][i] = seqs[p][j]
                 PROVE  i = j
      BY DEF NoDouble
    <3>1. seqs[p][i].at = seqs[p][j].at
      OBVIOUS
    <3> QED
      BY <3>1, <1>18
  <2>2. ASSUME NEW p \in 1..n, NEW q \in 1..n, p # q
        PROVE  Entries(seqs[p]) \cap Entries(seqs[q]) = {}
    <3> SUFFICES ASSUME NEW x, x \in Entries(seqs[p]), x \in Entries(seqs[q]) PROVE FALSE
      OBVIOUS
    <3>1. PICK i \in 1..Len(seqs[p]) : x = seqs[p][i]
      BY DEF Entries
    <3>2. PICK j \in 1..Len(seqs[q]) : x = seqs[q][j]
      BY DEF Entries
    <3>3. seqs[p][i].at = seqs[q][j].at
      BY <3>1, <3>2
    <3> QED
      BY <3>3, <2>2, <1>18
  <2> QED
    BY <2>1, <2>2, <1>10 DEF Apart
<1>20. NoDouble(below)
  BY <1>5, <1>10, <1>11, <1>19, FlattenedNoDouble
<1>21. ASSUME NEW x \in 1..Len(below), NEW y \in 1..Len(below), below[x].at = below[y].at
       PROVE  x = y
  <2>1. below[x] \in Entries(below) /\ below[y] \in Entries(below)
    BY DEF Entries
  <2>2. PICK p \in 1..n : below[x] \in Entries(seqs[p])
    BY <2>1, <1>12
  <2>3. PICK q \in 1..n : below[y] \in Entries(seqs[q])
    BY <2>1, <1>12
  <2>4. PICK i \in 1..Len(seqs[p]) : below[x] = seqs[p][i]
    BY <2>2 DEF Entries
  <2>5. PICK j \in 1..Len(seqs[q]) : below[y] = seqs[q][j]
    BY <2>3 DEF Entries
  <2>6. seqs[p][i].at = seqs[q][j].at
    BY <2>4, <2>5, <1>21
  <2>7. p = q /\ i = j
    BY <2>6, <1>18
  <2>8. below[x] = below[y]
    BY <2>4, <2>5, <2>7
  <2> QED
    BY <2>8, <1>20 DEF NoDouble
<1>22. below # << >>
  <2>1. layers[d + 1] # << >> /\ \E T : layers[d + 1] \in Seq(T)
    BY <1>0 DEF Fits, LayerFits, IsLayer
  <2>2. PICK k \in Nat : k = Len(layers[d + 1])
    BY <2>1, LenProperties
  <2>3. k # 0
    BY <2>1, <2>2, EmptySeq
  <2>4. 1 \in 1..k
    BY <2>3
  <2>5. layers[d + 1][1] \in Entries(layers[d + 1])
    BY <2>2, <2>4 DEF Entries
  <2>6. \E kid : kid \in Entries(below)
    BY <2>5, <1>17
  <2>7. ASSUME below = << >> PROVE FALSE
    <3>1. Len(below) = 0 /\ 1..0 = {}
      BY <2>7, EmptySeq
    <3> QED
      BY <3>1, <2>6 DEF Entries
  <2> QED
    BY <2>7
<1> QED
  BY <1>12, <1>15, <1>16, <1>17, <1>21, <1>22 DEF IsRow

LEMMA TheTopRow ==
  ASSUME NEW root, IsDecision(root), NEW s, NEW layer, layer = <<root>>,
         NEW row, row = TopRow(root)
  PROVE  IsRow(root, s, 1, layer, row)
PROOF
<1> PICK at : at = <<1, 1, 1>>
  OBVIOUS
<1> PICK top : top = [node |-> root, of |-> at, at |-> at]
  OBVIOUS
<1>1. /\ row = <<top>> /\ Len(row) = 1 /\ row[1] = top /\ row \in Seq({top})
      /\ Len(layer) = 1 /\ layer[1] = root /\ \A m \in 1..1 : m = 1
  BY DEF TopRow
<1>2. row # << >>
  BY <1>1, EmptySeq
<1>3. /\ \A x \in Entries(row) : x = top
      /\ \A x \in Entries(layer) : x = root
      /\ top \in Entries(row) /\ root \in Entries(layer)
  <2>1. 1 \in 1..1
    OBVIOUS
  <2> QED
    BY <1>1, <2>1 DEF Entries
<1>4. at \in Cells(s, 1)
  <2> PICK dims : dims = Dims(s, 1)
    OBVIOUS
  <2>1. dims = <<1, 1, 1>>
    BY DEF Dims
  <2>2. dims[1] = 1 /\ dims[2] = 1 /\ dims[3] = 1
    BY <2>1
  <2>3. Cells(s, 1) = (1..1) \X (1..1) \X (1..1)
    BY <2>2 DEF Cells
  <2>4. 1 \in 1..1
    OBVIOUS
  <2> QED
    BY <2>3, <2>4
<1>5. nonallinbets_count(s, 1 - 2) = 1 /\ terminal_actions_count(s, 1 - 1) = 0
  <2>1. 1 - 2 < 1 /\ 1 - 1 < 1
    OBVIOUS
  <2> QED
    BY <2>1 DEF nonallinbets_count, terminal_actions_count
<1>6. top.node = root /\ top.at = at /\ at[1] = 1 /\ at[2] = 1 /\ root.kind = "inner"
  BY DecisionFields
<1>7. InRow(root, s, 1, layer, top)
  <2>1. ~(1 > 1) /\ 1 <= 1 /\ 1 > 0
    OBVIOUS
  <2> QED
    BY <1>3, <1>4, <1>5, <1>6, <2>1 DEF InRow
<1>8. \A p, q \in 1..Len(row) : p = q
  BY <1>1
<1> QED
  BY <1>1, <1>2, <1>3, <1>6, <1>7, <1>8 DEF IsRow

(* All rows of the tensors.                                                *)
AllFilled(root, s, layers, placed) ==
  /\ \A d \in 1..s.depth : IsRow(root, s, d, layers[d], placed[d])
  /\ \A d \in 1..s.depth - 1 : FromRow(s, d, placed[d], placed[d + 1])

LEMMA RowsAreFilled ==
  ASSUME NEW root, IsDecision(root), NEW s, NEW layers, Fits(root, s, layers),
         NEW placed, placed = Placed(s, root)
  PROVE  AllFilled(root, s, layers, placed)
PROOF
<1> PICK n \in Nat : n = s.depth /\ n >= 2
  BY DEF Fits, Shape
<1>1. \E S : RowsUpTo(S, s, root, placed, n)
  BY RowByRow
<1>2. placed[1] = TopRow(root) /\ \A c \in 2..n : placed[c] = RowBelow(s, c - 1, placed[c - 1])
  BY <1>1 DEF RowsUpTo
<1> DEFINE Good(d) == IsRow(root, s, d, layers[d], placed[d])
           Bad == {d \in 1..n : ~Good(d)}
<1>3. Good(1)
  <2>1. layers[1] = <<root>>
    BY DEF Fits
  <2>2. IsRow(root, s, 1, layers[1], placed[1])
    BY <2>1, <1>2, TheTopRow
  <2> QED
    BY <2>2
<1>4. ASSUME NEW d \in 1..n - 1, Good(d)
      PROVE  Good(d + 1) /\ FromRow(s, d, placed[d], placed[d + 1])
  <2>1. d + 1 \in 2..n /\ (d + 1) - 1 = d /\ d \in 1..s.depth - 1
    OBVIOUS
  <2>2. placed[d + 1] = RowBelow(s, d, placed[d])
    <3>1. placed[d + 1] = RowBelow(s, (d + 1) - 1, placed[(d + 1) - 1])
      BY <2>1, <1>2
    <3> QED
      BY <2>1, <3>1
  <2>3. IsRow(root, s, d, layers[d], placed[d])
    BY <1>4
  <2> QED
    BY <2>1, <2>2, <2>3, RowGoesOn
<1>5. Bad = {}
  <2> SUFFICES ASSUME Bad # {} PROVE FALSE
    OBVIOUS
  <2>1. PICK k \in Bad : \A j \in Bad : k <= j
    <3>1. Bad \subseteq Nat
      OBVIOUS
    <3> HIDE DEF Bad
    <3> QED
      BY <3>1, MinOfNats
  <2>2. k \in 1..n /\ ~Good(k)
    BY <2>1
  <2>3. \A j \in 1..n : ~(k <= j) => Good(j)
    <3>1. \A j \in 1..n : j \notin Bad => Good(j)
      OBVIOUS
    <3> HIDE DEF Bad, Good
    <3> QED
      BY <3>1, <2>1
  <2> HIDE DEF Good, Bad
  <2>4. k # 1
    BY <2>2, <1>3
  <2>5. PICK j \in 1..n - 1 : j = k - 1 /\ j \in 1..n /\ k = j + 1 /\ ~(k <= j)
    BY <2>2, <2>4
  <2>6. Good(j)
    BY <2>3, <2>5
  <2>7. Good(j + 1)
    BY <2>6, <1>4
  <2> QED
    BY <2>2, <2>5, <2>7
<1>6. \A d \in 1..n : Good(d)
  <2>1. \A d \in 1..n : d \notin Bad => Good(d)
    OBVIOUS
  <2> HIDE DEF Good, Bad
  <2> QED
    BY <2>1, <1>5
<1>7. \A d \in 1..n - 1 : FromRow(s, d, placed[d], placed[d + 1])
  <2> TAKE d \in 1..n - 1
  <2>1. d \in 1..n
    OBVIOUS
  <2> HIDE DEF Good, Bad
  <2> QED
    BY <2>1, <1>4, <1>6
<1> QED
  BY <1>6, <1>7 DEF AllFilled

(* What the builder asserts of a node.                                     *)
LEMMA BuilderIsRight ==
  ASSUME NEW root, NEW s, NEW layers, Fits(root, s, layers), NEW d \in 1..s.depth,
         NEW entry, InRow(root, s, d, layers[d], entry)
  PROVE  BuilderAsserts(s, d, entry)
PROOF
<1>0. s.depth \in Nat /\ d \in Int /\ d >= 1
  BY DEF Fits, Shape
<1>1. LayerFits(root, s, d, layers[d])
  BY DEF Fits
<1> PICK width : width = Len(children(entry.node))
  OBVIOUS
<1>2. /\ entry.node \in Entries(layers[d])
      /\ entry.node.kind # "terminal" => entry.at[2] <= nonallinbets_count(s, d - 2)
      /\ entry.node.kind = "inner" /\ d > 1 =>
           (Opp(entry.node) = stack <=> entry.at[1] = actions_count(s, d - 1))
  BY DEF InRow
<1>3. ASSUME entry.node.kind = "inner", width < actions_count(s, d)
      PROVE  /\ d > 1 /\ terminal_actions_count(s, d) = 2
             /\ width = 2 => entry.at[1] = actions_count(s, d - 1)
  <2>1. IsDecision(entry.node)
    BY <1>1, <1>2, <1>3 DEF LayerFits, IsLayer, InLayer
  <2>2. d # 1
    <3> SUFFICES ASSUME d = 1 PROVE FALSE
      OBVIOUS
    <3>1. entry.node = root
      <4> PICK one : one = <<root>>
        OBVIOUS
      <4>1. Len(one) = 1 /\ one[1] = root /\ \A m \in 1..1 : m = 1
        OBVIOUS
      <4>2. \A x \in Entries(one) : x = root
        BY <4>1 DEF Entries
      <4>3. layers[1] = one
        BY DEF Fits
      <4> QED
        BY <4>2, <4>3, <1>2
    <3>2. actions_count(s, 1) = width
      BY <3>1 DEF Fits, Shape
    <3>3. width \in Nat
      BY <2>1, KindsOfTheKids
    <3> QED
      BY <3>2, <3>3, <1>3
  <2>3. d > 1
    BY <2>2, <1>0
  <2>4. terminal_actions_count(s, d) = 2
    BY <2>3, <1>1, <1>2, <1>3 DEF LayerFits, Bounds
  <2>5. width = 2 => Opp(entry.node) = stack
    BY <2>1, KindsOfTheKids
  <2> QED
    BY <2>3, <2>4, <2>5, <1>2, <1>3
<1> QED
  BY <1>2, <1>3 DEF BuilderAsserts

(* The layers are read as they are stored.                                 *)
LEMMA TheViewFits ==
  ASSUME NEW root, NEW s, NEW layers, Fits(root, s, layers), NEW d \in 1..s.depth - 1
  PROVE  ViewFits(s, d)
PROOF
<1> PICK n \in Nat : n = s.depth
  BY DEF Fits, Shape
<1>5. d \in 1..n - 1
  OBVIOUS
<1>0. /\ d \in Nat /\ d >= 1 /\ d + 1 \in Nat /\ d + 1 >= 1
      /\ (d + 1) - 1 = d /\ (d + 1) - 2 = d - 1 /\ (d - 1) - 1 = d - 2
      /\ d - 1 \in 0..n - 1
  BY <1>5
<1>1. Dims(s, d) = <<actions_count(s, d - 1), bets_count(s, d - 2), nodes_count(s, d - 2)>>
  BY <1>0, DimsOfALayer
<1>2. Dims(s, d + 1) = <<actions_count(s, d), bets_count(s, d - 1), nodes_count(s, d - 1)>>
  <2>1. Dims(s, d + 1) = <<actions_count(s, (d + 1) - 1), bets_count(s, (d + 1) - 2),
                           nodes_count(s, (d + 1) - 2)>>
    BY <1>0, DimsOfALayer
  <2> QED
    BY <2>1, <1>0
<1>3. /\ Dims(s, d)[1] = actions_count(s, d - 1) /\ Dims(s, d)[3] = nodes_count(s, d - 2)
      /\ Dims(s, d + 1)[2] = bets_count(s, d - 1) /\ Dims(s, d + 1)[3] = nodes_count(s, d - 1)
  BY <1>1, <1>2
<1>4. nodes_count(s, d - 1) = nodes_count(s, d - 2) * nonallinbets_count(s, d - 2)
  <2>1. RoomAt(s, d - 1)
    BY <1>0 DEF Fits
  <2> QED
    BY <2>1, <1>0 DEF RoomAt
<1> QED
  BY <1>3, <1>4 DEF ViewFits, bets_count

(* What is masked lies before the third action of a node.                  *)
LEMMA PaddingIsBelow ==
  ASSUME NEW root, NEW s, NEW layers, Fits(root, s, layers),
         NEW d \in 1..s.depth - 1, NEW entry, InRow(root, s, d, layers[d], entry),
         NEW cell \in Padding(s, d, entry)
  PROVE  /\ entry.node.kind = "inner" /\ ParentCell(s, d, cell) = entry.at
         /\ cell[1] \in 3..(actions_count(s, d) - (Len(children(entry.node)) - 2))
PROOF
<1> PICK width : width = Len(children(entry.node))
  OBVIOUS
<1> PICK y, z : y = Below(s, d, entry.at).parent /\ z = Below(s, d, entry.at).gp
  OBVIOUS
<1>0. s.depth \in Nat /\ d \in 1..s.depth
  BY DEF Fits, Shape
<1>1. entry.node.kind = "inner"
  BY DEF Padding, EndsHere
<1>2. PICK x \in 3..(actions_count(s, d) - (width - 2)) : cell = <<x, y, z>>
  BY <1>1 DEF Padding, EndsHere
<1>3. cell[1] = x /\ cell[2] = y /\ cell[3] = z
  BY <1>2
<1>4. width \in Nat /\ width >= 2
  <2>1. entry.node \in Entries(layers[d])
    BY DEF InRow
  <2>2. IsLayer(root, d, layers[d])
    BY <1>0 DEF Fits, LayerFits
  <2>3. IsDecision(entry.node)
    BY <1>1, <2>1, <2>2 DEF IsLayer, InLayer
  <2> QED
    BY <2>3, KindsOfTheKids
<1> PICK kid : kid = PlaceChildren(s, d, entry)[1]
  OBVIOUS
<1>5. KidPlaced(s, d, entry, 1, kid)
  <2>1. 1 \in 1..Len(children(entry.node))
    BY <1>4
  <2> QED
    BY <1>1, <2>1, KidIsPlaced
<1>6. PICK at, slot : at = kid.at /\ at = <<slot, y, z>> /\ ParentCell(s, d, at) = entry.at
  BY <1>5 DEF KidPlaced
<1>7. at[2] = y /\ at[3] = z
  BY <1>6
<1>8. ParentCell(s, d, cell) = ParentCell(s, d, at)
  BY <1>3, <1>7 DEF ParentCell
<1> QED
  BY <1>1, <1>2, <1>3, <1>6, <1>8

(* A cell that holds a child is not masked.                                *)
LEMMA KidIsSeen ==
  ASSUME NEW root, NEW s, NEW layers, Fits(root, s, layers),
         NEW d \in 1..s.depth - 1, NEW row, IsRow(root, s, d, layers[d], row),
         NEW entry \in Entries(row), entry.node.kind = "inner",
         NEW i \in 1..Len(children(entry.node)),
         NEW kid, kid = PlaceChildren(s, d, entry)[i],
         NEW other \in Entries(row)
  PROVE  kid.at \notin Padding(s, d, other)
PROOF
<1> SUFFICES ASSUME kid.at \in Padding(s, d, other) PROVE FALSE
  OBVIOUS
<1>0. s.depth \in Nat /\ d \in 1..s.depth /\ d \in Int /\ d <= s.depth
  BY DEF Fits, Shape
<1>1. InRow(root, s, d, layers[d], entry) /\ InRow(root, s, d, layers[d], other)
  BY DEF IsRow
<1>2. KidPlaced(s, d, entry, i, kid)
  BY <1>1, KidIsPlaced
<1>3. /\ ParentCell(s, d, kid.at) = other.at
      /\ kid.at[1] \in 3..(actions_count(s, d) - (Len(children(other.node)) - 2))
  BY <1>1, PaddingIsBelow
<1>4. other = entry
  <2>1. PICK p \in 1..Len(row) : entry = row[p]
    BY DEF Entries
  <2>2. PICK q \in 1..Len(row) : other = row[q]
    BY DEF Entries
  <2>3. row[p].at = row[q].at
    BY <2>1, <2>2, <1>2, <1>3 DEF KidPlaced
  <2>4. p = q
    BY <2>3 DEF IsRow
  <2> QED
    BY <2>1, <2>2, <2>4
<1>5. PICK width \in Nat : width = Len(children(entry.node))
  <2>1. entry.node \in Entries(layers[d])
    BY <1>1 DEF InRow
  <2>2. IsLayer(root, d, layers[d])
    BY <1>0 DEF Fits, LayerFits
  <2>3. IsDecision(entry.node)
    BY <2>1, <2>2 DEF IsLayer, InLayer
  <2> QED
    BY <2>3, KindsOfTheKids
<1>6. PICK most \in Nat : most = actions_count(s, d)
  BY <1>0, NumbersOfALayer
<1>7. PICK slot : slot = kid.at[1] /\ slot = IF i > 2 THEN i + (most - width) ELSE i
  <2>1. PICK at, y, z : at = kid.at /\ at = <<Slot(s, d, width, i), y, z>>
    BY <1>2, <1>5 DEF KidPlaced
  <2>2. at[1] = Slot(s, d, width, i)
    BY <2>1
  <2>3. Slot(s, d, width, i) = IF i > 2 THEN i + (most - width) ELSE i
    BY <1>2, <1>5, <1>6 DEF KidPlaced
  <2> QED
    BY <2>1, <2>2, <2>3
<1>8. slot \in 3..(most - (width - 2))
  BY <1>3, <1>4, <1>5, <1>6, <1>7
<1>9. i \in 1..width
  BY <1>5
<1> QED
  BY <1>7, <1>8, <1>9

(* A cell that is below a node and not masked holds a child of it.         *)
LEMMA CellIsUsed ==
  ASSUME NEW root, NEW s, NEW layers, Fits(root, s, layers),
         NEW d \in 1..s.depth - 1, NEW entry, InRow(root, s, d, layers[d], entry),
         entry.node.kind = "inner", NEW cell \in Cells(s, d + 1),
         ParentCell(s, d, cell) = entry.at, cell \notin Padding(s, d, entry)
  PROVE  \E i \in 1..Len(children(entry.node)) : PlaceChildren(s, d, entry)[i].at = cell
PROOF
<1>0. /\ s.depth \in Nat /\ d \in 1..s.depth /\ d \in Int /\ d <= s.depth
      /\ d - 1 \in Int /\ d - 2 \in Int /\ d - 1 <= s.depth /\ d - 2 <= s.depth
      /\ d + 1 \in Nat /\ d + 1 >= 1 /\ d \in Nat /\ d >= 1
      /\ (d + 1) - 1 = d /\ (d + 1) - 2 = d - 1
  BY DEF Fits, Shape
<1>1. PICK width \in Nat : width = Len(children(entry.node)) /\ width >= 2
  <2>1. entry.node \in Entries(layers[d])
    BY DEF InRow
  <2>2. IsLayer(root, d, layers[d])
    BY <1>0 DEF Fits, LayerFits
  <2>3. IsDecision(entry.node)
    BY <2>1, <2>2 DEF IsLayer, InLayer
  <2> QED
    BY <2>3, KindsOfTheKids
<1>2. PICK most \in Nat : most = actions_count(s, d) /\ width <= most
  <2>1. actions_count(s, d) \in Nat
    BY <1>0, NumbersOfALayer
  <2>2. Bounds(layers[d], d, actions_count(s, d), terminal_actions_count(s, d))
    BY <1>0 DEF Fits, LayerFits
  <2>3. width <= actions_count(s, d)
    BY <2>2, <1>1 DEF Bounds, InRow
  <2> QED
    BY <2>1, <2>3
<1>3. PICK dims : dims = Dims(s, d + 1) /\ dims[1] = most
  <2>1. Dims(s, d + 1) = <<actions_count(s, (d + 1) - 1), bets_count(s, (d + 1) - 2),
                           nodes_count(s, (d + 1) - 2)>>
    BY <1>0, DimsOfALayer
  <2>2. Dims(s, d + 1)[1] = actions_count(s, d)
    BY <2>1, <1>0
  <2> QED
    BY <2>2, <1>2
<1>4. PICK x \in 1..most, y \in Int, z \in Int : cell = <<x, y, z>> /\ z >= 1
  <2>1. cell \in (1..most) \X (1..dims[2]) \X (1..dims[3])
    BY <1>3 DEF Cells
  <2>2. PICK x \in 1..most, y \in 1..dims[2], z \in 1..dims[3] : cell = <<x, y, z>>
    BY <2>1
  <2> QED
    BY <2>2
<1>5. PICK n \in Int : n = nonallinbets_count(s, d - 2) /\ n >= 1
  <2>1. PICK n \in Int : n = nonallinbets_count(s, d - 2)
    BY <1>0, NumbersOfALayer
  <2>2. entry.at[2] <= n /\ entry.at \in Cells(s, d)
    BY <2>1 DEF InRow
  <2>3. entry.at[2] \in 1..Dims(s, d)[2]
    <3>1. entry.at \in (1..Dims(s, d)[1]) \X (1..Dims(s, d)[2]) \X (1..Dims(s, d)[3])
      BY <2>2 DEF Cells
    <3> QED
      BY <3>1
  <2>4. entry.at[2] \in Int /\ entry.at[2] >= 1
    BY <2>3
  <2> QED
    BY <2>1, <2>2, <2>4
<1>6. PICK e \in Int : e = terminal_actions_count(s, d - 1)
  <2>1. terminal_actions_count(s, d - 1) \in 0..2
    BY <1>0, NumbersOfALayer
  <2> QED
    BY <2>1
<1>7. Below(s, d, entry.at).parent = y /\ Below(s, d, entry.at).gp = z
  <2>1. z \in Nat /\ z >= 1
    BY <1>4
  <2>2. cell[2] = y /\ cell[3] = z
    BY <1>4
  <2>3. IsUnder(s, d, cell)
    BY <2>1, <2>2, <1>4, <1>5, <1>6, CellIsBelow
  <2> QED
    BY <2>2, <2>3 DEF IsUnder
<1>8. x \notin 3..(most - (width - 2))
  <2> SUFFICES ASSUME x \in 3..(most - (width - 2)) PROVE FALSE
    OBVIOUS
  <2>1. cell \in Padding(s, d, entry)
    BY <1>1, <1>2, <1>4, <1>7 DEF Padding, EndsHere
  <2> QED
    BY <2>1
<1>9. PICK i \in 1..width : x = IF i > 2 THEN i + (most - width) ELSE i
  <2>1. CASE x <= 2
    <3>1. x \in 1..width /\ ~(x > 2)
      BY <2>1, <1>1
    <3> QED
      BY <3>1
  <2>2. CASE x > 2
    <3>1. x - (most - width) \in 1..width /\ x - (most - width) > 2
      BY <2>2, <1>1, <1>2, <1>8
    <3> PICK i \in 1..width : i = x - (most - width) /\ i > 2
      BY <3>1
    <3>2. x = i + (most - width)
      OBVIOUS
    <3> QED
      BY <3>2
  <2> QED
    BY <2>1, <2>2
<1> PICK kid : kid = PlaceChildren(s, d, entry)[i]
  OBVIOUS
<1>10. KidPlaced(s, d, entry, i, kid)
  <2>1. i \in 1..Len(children(entry.node))
    BY <1>1
  <2> QED
    BY <2>1, KidIsPlaced
<1>11. kid.at = <<x, y, z>>
  <2>1. kid.at = <<Slot(s, d, width, i), y, z>>
    BY <1>1, <1>7, <1>10 DEF KidPlaced
  <2>2. Slot(s, d, width, i) = x
    BY <1>1, <1>2, <1>9, <1>10 DEF KidPlaced
  <2> QED
    BY <2>1, <2>2
<1> QED
  BY <1>1, <1>4, <1>11

(* The padding of a layer is what its nodes leave unused.                  *)
PaddedBy(s, d, row, padding) ==
  padding = UNION {Padding(s, d, row[i]) : i \in DOMAIN row}

(* A cell of the layer below is used as the lookahead expects.             *)
LEMMA CellsAreRight ==
  ASSUME NEW root, NEW s, NEW layers, Fits(root, s, layers),
         NEW placed, AllFilled(root, s, layers, placed), NEW d \in 1..s.depth - 1,
         NEW padding, PaddedBy(s, d, placed[d], padding),
         NEW cell \in Cells(s, d + 1)
  PROVE  CellIsRight(s, d, placed, padding, cell)
PROOF
<1> padding = UNION {Padding(s, d, placed[d][i]) : i \in DOMAIN placed[d]}
  BY Zenon DEF PaddedBy
<1>0. s.depth \in Nat /\ d \in 1..s.depth /\ d + 1 \in 1..s.depth
  BY DEF Fits, Shape
<1> PICK row : row = placed[d]
  OBVIOUS
<1> PICK below : below = placed[d + 1]
  OBVIOUS
<1> PICK up : up = ParentCell(s, d, cell)
  OBVIOUS
<1>1. /\ IsRow(root, s, d, layers[d], row) /\ FromRow(s, d, row, below)
      /\ IsRow(root, s, d + 1, layers[d + 1], below)
  BY <1>0 DEF AllFilled
<1>2. PICK n \in Nat : n = Len(row) /\ DOMAIN row = 1..n
  <2>1. \E S : row \in Seq(S)
    BY <1>1 DEF IsRow
  <2> QED
    BY <2>1, LenProperties
<1>3. PICK m \in Nat : m = Len(below) /\ DOMAIN below = 1..m
  <2>1. \E S : below \in Seq(S)
    BY <1>1 DEF IsRow
  <2> QED
    BY <2>1, LenProperties
<1> PICK parent : parent = {i \in 1..n : row[i].at = up /\ row[i].node.kind = "inner"}
  OBVIOUS
<1> PICK here : here = {i \in 1..m : below[i].at = cell}
  OBVIOUS
<1>4. /\ \A x : x \in Entries(row) <=> \E i \in 1..n : x = row[i]
      /\ \A x : x \in Entries(below) <=> \E i \in 1..m : x = below[i]
  BY <1>2, <1>3 DEF Entries
<1>5. \A x \in Entries(row) : InRow(root, s, d, layers[d], x)
  BY <1>1 DEF IsRow
<1>6. ASSUME NEW i \in here
      PROVE  below[i].of = up /\ parent # {} /\ cell \notin padding
  <2> PICK kid : kid = below[i]
    OBVIOUS
  <2>1. kid \in Entries(below) /\ kid.at = cell
    BY <1>4
  <2>2. PICK entry \in Entries(row) :
          /\ entry.node.kind = "inner"
          /\ \E j \in 1..Len(children(entry.node)) : kid = PlaceChildren(s, d, entry)[j]
    BY <2>1, <1>1 DEF FromRow
  <2>3. PICK j \in 1..Len(children(entry.node)) : kid = PlaceChildren(s, d, entry)[j]
    BY <2>2
  <2>4. KidPlaced(s, d, entry, j, kid)
    BY <2>2, <2>3, <1>5, KidIsPlaced
  <2>5. kid.of = entry.at /\ up = entry.at
    BY <2>1, <2>4 DEF KidPlaced
  <2>6. PICK p \in 1..n : entry = row[p]
    BY <1>4
  <2>7. p \in parent
    BY <2>2, <2>5, <2>6
  <2>8. \A q \in 1..n : cell \notin Padding(s, d, row[q])
    <3> TAKE q \in 1..n
    <3>1. row[q] \in Entries(row)
      BY <1>4
    <3>2. kid.at \notin Padding(s, d, row[q])
      BY <2>2, <2>3, <3>1, <1>1, KidIsSeen
    <3> QED
      BY <3>2, <2>1
  <2>9. cell \notin padding
    BY <2>8, <1>2
  <2> QED
    BY <2>5, <2>7, <2>9
<1>7. ASSUME parent # {}, cell \notin padding PROVE here # {}
  <2>1. PICK p \in 1..n : row[p].at = up /\ row[p].node.kind = "inner"
    BY <1>7
  <2> PICK entry : entry = row[p]
    OBVIOUS
  <2>2. entry \in Entries(row)
    BY <1>4
  <2>3. cell \notin Padding(s, d, entry)
    BY <1>2, <1>7
  <2>4. PICK j \in 1..Len(children(entry.node)) : PlaceChildren(s, d, entry)[j].at = cell
    BY <2>1, <2>2, <2>3, <1>5, CellIsUsed
  <2>5. PlaceChildren(s, d, entry)[j] \in Entries(below)
    BY <2>1, <2>2, <1>1 DEF FromRow
  <2>6. PICK i \in 1..m : PlaceChildren(s, d, entry)[j] = below[i]
    BY <2>5, <1>4
  <2> QED
    BY <2>4, <2>6
<1>8. Cardinality(here) = IF parent = {} \/ cell \in padding THEN 0 ELSE 1
  <2>1. CASE here = {}
    <3>1. parent = {} \/ cell \in padding
      BY <2>1, <1>7
    <3> QED
      BY <2>1, <3>1, PairCounts
  <2>2. CASE here # {}
    <3>1. PICK i : i \in here
      BY <2>2
    <3>2. \A p, q \in 1..m : below[p].at = below[q].at => p = q
      BY <1>1, <1>3 DEF IsRow
    <3>3. here = {i}
      BY <3>1, <3>2
    <3>4. ~(parent = {} \/ cell \in padding)
      BY <3>1, <1>6
    <3> QED
      BY <3>3, <3>4, PairCounts
  <2> QED
    BY <2>1, <2>2
<1>9. \A i \in here : below[i].of = up
  BY <1>6
<1> QED
  BY <1>2, <1>3, <1>8, <1>9 DEF CellIsRight

LEMMA TreeIsDense ==
  ASSUME NEW root, IsDecision(root)
  PROVE  IsDense(root)
PROOF
<1> PICK s : s = Structure(root)
  OBVIOUS
<1> PICK layers : layers = Layers(root)
  OBVIOUS
<1> PICK placed : placed = Placed(s, root)
  OBVIOUS
<1> DEFINE padding(d) == UNION {Padding(s, d, placed[d][i]) : i \in DOMAIN placed[d]}
<1>1. Fits(root, s, layers)
  BY StructureFits
<1>2. AllFilled(root, s, layers, placed)
  BY <1>1, RowsAreFilled
<1>3. s.depth \in Nat
  BY <1>1 DEF Fits, Shape
<1>4. ASSUME NEW d \in 1..s.depth, NEW i \in DOMAIN placed[d]
      PROVE  /\ placed[d][i].at \in Cells(s, d)
             /\ BuilderAsserts(s, d, placed[d][i])
             /\ d > 1 => RightValue(s, root, d, placed[d][i])
  <2>1. IsRow(root, s, d, layers[d], placed[d])
    BY <1>2 DEF AllFilled
  <2>2. PICK S : placed[d] \in Seq(S)
    BY <2>1 DEF IsRow
  <2>3. placed[d][i] \in Entries(placed[d])
    BY <2>2, LenProperties DEF Entries
  <2>4. InRow(root, s, d, layers[d], placed[d][i])
    BY <2>1, <2>3 DEF IsRow
  <2>5. BuilderAsserts(s, d, placed[d][i])
    BY <2>4, <1>1, BuilderIsRight
  <2> QED
    BY <2>4, <2>5 DEF InRow
<1>5. terminal_actions_count(s, 1) \in {1, 2}
  BY <1>1 DEF Fits, Shape, Ends
<1>6. ASSUME NEW d \in 1..s.depth - 1, NEW cell \in Cells(s, d + 1)
      PROVE  CellIsRight(s, d, placed, padding(d), cell)
  <2> PICK masked : masked = padding(d)
    OBVIOUS
  <2>1. PaddedBy(s, d, placed[d], masked)
    BY Zenon DEF PaddedBy
  <2> HIDE DEF padding
  <2>2. CellIsRight(s, d, placed, masked, cell)
    <3>1. Fits(root, s, layers) /\ AllFilled(root, s, layers, placed)
      BY <1>1, <1>2
    <3> QED
      BY <2>1, <3>1, CellsAreRight
  <2> QED
    BY <2>2
<1>7. \A d \in 1..s.depth - 1 : ViewFits(s, d)
  BY <1>1, TheViewFits
<1> QED
  BY <1>4, <1>5, <1>6, <1>7 DEF IsDense

(* Behind the second layer every layer has higher bets than the one above. *)
BetsGrow(d, layer) ==
  \A node \in Entries(layer) : node.kind = "inner" => Opp(node) >= d - 2

LEMMA BetsGrowFurther ==
  ASSUME NEW root, NEW d \in Nat, d >= 1, NEW layer, IsLayer(root, d, layer), BetsGrow(d, layer),
         NEW below, below = Under(layer)
  PROVE  BetsGrow(d + 1, below)
PROOF
<1> SUFFICES ASSUME NEW kid \in Entries(below), kid.kind = "inner"
             PROVE  Opp(kid) >= (d + 1) - 2
  BY DEF BetsGrow
<1>0. PICK node \in Entries(layer) : \E m \in 1..Len(children(node)) : kid = children(node)[m]
  BY UnderALayer
<1>1. PICK m \in 1..Len(children(node)) : kid = children(node)[m]
  BY <1>0
<1>2. node.kind = "inner"
  <2>1. ASSUME node.kind # "inner" PROVE FALSE
    <3>1. children(node) = << >>
      BY <2>1, NoKids
    <3>2. Len(children(node)) = 0 /\ 1..0 = {}
      BY <3>1, EmptySeq
    <3> QED
      BY <3>2
  <2> QED
    BY <2>1
<1>3. IsDecision(node) /\ (d > 1 => ~CallIsCheck(node))
  BY <1>2 DEF IsLayer, InLayer
<1>4. IsDecision(kid)
  BY <1>1, <1>3, KidsAreNodes
<1>5. Opp(kid) \in Nat
  BY <1>4, DecisionFields
<1>6. CASE d = 1
  BY <1>5, <1>6
<1>7. CASE d > 1
  <2> PICK k \in Nat : k = Len(children(node)) /\ Kinds(node, k, children(node))
    BY <1>3, KindsOfTheKids
  <2>1. m # 1 /\ m # 2
    BY <1>1, <1>3, <1>7 DEF Kinds
  <2>2. m \in 3..Len(RaiseSizes(node)) + 2
    <3>1. PICK n \in Nat : n = Len(RaiseSizes(node))
      BY <1>3, ChildrenOfANode
    <3>2. m \in 1..n + 2
      BY <1>3, <3>1, ActionsOfANode
    <3> QED
      BY <2>1, <3>1, <3>2
  <2> PICK r : r = RaiseSizes(node)[m - 2]
    OBVIOUS
  <2>3. m - 2 \in 1..Len(RaiseSizes(node)) /\ kid = BetNode(node, r)
    BY <2>2, <1>1, <1>3, ActionsOfANode
  <2>4. r \in Nat /\ r >= 1
    BY <2>3, <1>3, RaisesOfTheTree, ElementOfSeq
  <2>5. Opp(kid) = Opp(node) + r
    BY <2>3, <2>4, <1>3, BetNodeFields
  <2>6. Opp(node) \in Nat /\ Opp(node) >= d - 2
    BY <1>2, <1>3, DecisionFields DEF BetsGrow
  <2> QED
    BY <2>4, <2>5, <2>6
<1> QED
  BY <1>3, <1>6, <1>7

LEMMA NothingUnderTheLast ==
  ASSUME NEW root, IsDecision(root), NEW layers, layers = Layers(root)
  PROVE  Under(layers[Len(layers)]) = << >>
PROOF
<1> PICK depth \in Nat : depth = MaxDepth /\ depth = stack + 3 /\ stack \in Nat
  BY TheGame DEF MaxDepth
<1>1. PICK S : Grown(S, root, layers, depth)
  BY LayerByLayer
<1>2. layers \in Seq(S)
  BY <1>1 DEF Grown
<1> PICK n \in Nat : n = Len(layers)
  BY <1>2, LenProperties
<1>3. /\ n >= 1 /\ n <= depth + 1
      /\ \A c \in 2..n : layers[c] = Under(layers[c - 1])
      /\ \A c \in 1..n : layers[c] # << >>
      /\ n <= depth => Under(layers[n]) = << >>
  BY <1>1 DEF Grown
<1>4. \A c \in 1..n : IsLayer(root, c, layers[c])
  BY LayersAreLayers
<1> DEFINE Good(c) == BetsGrow(c, layers[c])
           Bad == {c \in 1..n : ~Good(c)}
<1>5. Good(1)
  <2> SUFFICES ASSUME NEW node \in Entries(layers[1]), node.kind = "inner"
               PROVE  Opp(node) >= 1 - 2
    BY DEF BetsGrow
  <2>1. 1 \in 1..n
    BY <1>3
  <2>2. IsDecision(node)
    BY <2>1, <1>4 DEF IsLayer, InLayer
  <2>3. Opp(node) \in Nat
    BY <2>2, DecisionFields
  <2> QED
    BY <2>3
<1>6. ASSUME NEW c \in 1..n, c + 1 \in 1..n, Good(c) PROVE Good(c + 1)
  <2>1. c + 1 \in 2..n /\ (c + 1) - 1 = c /\ c \in Nat /\ c >= 1
    BY <1>6
  <2>2. layers[c + 1] = Under(layers[c])
    <3>1. layers[c + 1] = Under(layers[(c + 1) - 1])
      BY <2>1, <1>3
    <3> QED
      BY <2>1, <3>1
  <2>3. IsLayer(root, c, layers[c]) /\ BetsGrow(c, layers[c])
    BY <1>4, <1>6
  <2>4. BetsGrow(c + 1, layers[c + 1])
    BY <2>1, <2>2, <2>3, BetsGrowFurther
  <2> QED
    BY <2>4
<1>7. Bad = {}
  <2> SUFFICES ASSUME Bad # {} PROVE FALSE
    OBVIOUS
  <2>1. PICK k \in Bad : \A j \in Bad : k <= j
    <3>1. Bad \subseteq Nat
      OBVIOUS
    <3> HIDE DEF Bad
    <3> QED
      BY <3>1, MinOfNats
  <2>2. k \in 1..n /\ ~Good(k)
    BY <2>1
  <2>3. \A j \in 1..n : ~(k <= j) => Good(j)
    <3>1. \A j \in 1..n : j \notin Bad => Good(j)
      OBVIOUS
    <3> HIDE DEF Bad, Good
    <3> QED
      BY <3>1, <2>1
  <2> HIDE DEF Good, Bad
  <2>4. k # 1
    BY <2>2, <1>5
  <2>5. PICK j \in 1..n : k = j + 1 /\ ~(k <= j)
    <3>1. k - 1 \in 1..n /\ k = (k - 1) + 1 /\ ~(k <= k - 1)
      BY <2>2, <2>4
    <3> QED
      BY <3>1
  <2>6. Good(j + 1)
    BY <2>2, <2>3, <2>5, <1>6
  <2> QED
    BY <2>2, <2>5, <2>6
<1>8. \A c \in 1..n : Good(c)
  <2>1. \A c \in 1..n : c \notin Bad => Good(c)
    OBVIOUS
  <2> HIDE DEF Good, Bad
  <2> QED
    BY <2>1, <1>7
<1>9. n <= depth
  <2> SUFFICES ASSUME ~(n <= depth) PROVE FALSE
    OBVIOUS
  <2>1. n = stack + 4
    BY <1>3
  <2> PICK c \in Nat : c = stack + 3 /\ c + 1 = n
    BY <2>1
  <2>2. c \in 1..n /\ c + 1 \in 2..n /\ c + 1 \in 1..n /\ (c + 1) - 1 = c
    OBVIOUS
  <2>3. layers[c + 1] = Under(layers[c]) /\ layers[c + 1] # << >>
    <3>1. layers[c + 1] = Under(layers[(c + 1) - 1])
      BY <2>2, <1>3
    <3> QED
      BY <2>2, <3>1, <1>3
  <2> PICK below : below = layers[c + 1]
    OBVIOUS
  <2>4. IsLayer(root, c, layers[c]) /\ IsLayer(root, c + 1, below)
    BY <2>2, <1>4
  <2>5. PICK kid : kid \in Entries(below)
    <3>1. PICK k \in Nat : k = Len(below)
      BY <2>4, LenProperties DEF IsLayer
    <3>2. k # 0
      BY <3>1, <2>3, <2>4, EmptySeq DEF IsLayer
    <3>3. 1 \in 1..k
      BY <3>2
    <3> QED
      BY <3>1, <3>3 DEF Entries
  <2>6. PICK node \in Entries(layers[c]) :
          \E m \in 1..Len(children(node)) : kid = children(node)[m]
    BY <2>3, <2>4, <2>5, UnderALayer
  <2>7. node.kind = "inner"
    <3>1. ASSUME node.kind # "inner" PROVE FALSE
      <4>1. children(node) = << >>
        BY <3>1, NoKids
      <4>2. Len(children(node)) = 0 /\ 1..0 = {}
        BY <4>1, EmptySeq
      <4> QED
        BY <4>2, <2>6
    <3> QED
      BY <3>1
  <2>8. IsDecision(node)
    BY <2>4, <2>7 DEF IsLayer, InLayer
  <2>9. Opp(node) >= c - 2
    BY <2>2, <2>7, <1>8 DEF BetsGrow
  <2>10. Opp(node) \in Nat /\ Opp(node) <= stack
    BY <2>8, DecisionFields
  <2> QED
    BY <2>9, <2>10
<1> QED
  BY <1>3, <1>9

(* The roots DeepStack builds a lookahead for.                             *)
LEMMA DecisionsAreRoots ==
  ASSUME NEW node, IsDecision(node)
  PROVE  node \in Roots
PROOF
<1>1. PICK street \in {1, 2}, player \in {1, 2}, b1 \in Nat, b2 \in Nat :
        /\ node = Node(street, player, <<b1, b2>>, "inner")
        /\ Own(node) <= Opp(node) /\ Opp(node) <= stack /\ Own(node) < stack
        /\ ante <= Own(node)
  BY DEF IsDecision
<1>2. ante \in Nat /\ stack \in Nat
  BY TheGame
<1>3. /\ node.current_player = player /\ node.bets = <<b1, b2>>
      /\ node.bets[1] = b1 /\ node.bets[2] = b2
  BY <1>1 DEF Node
<1>4. b1 \in ante..stack /\ b2 \in ante..stack
  <2>1. player = 1 => Own(node) = b1 /\ Opp(node) = b2
    BY <1>3 DEF Own, Opp, Opponent
  <2>2. player = 2 => Own(node) = b2 /\ Opp(node) = b1
    BY <1>3 DEF Own, Opp, Opponent
  <2>3. player = 1 \/ player = 2
    OBVIOUS
  <2>4. \A x, y \in Nat : ante <= x /\ x <= y /\ y <= stack => x \in ante..stack /\ y \in ante..stack
    BY <1>2
  <2> QED
    BY <2>1, <2>2, <2>3, <2>4, <1>1
<1>5. street \in 1..2 /\ player \in {P1, P2}
  BY DEF P1, P2
<1>6. node \in [street : 1..2, current_player : {P1, P2},
                bets : (ante..stack) \X (ante..stack), kind : {"inner"}]
  BY <1>1, <1>4, <1>5 DEF Node
<1> QED
  BY <1>1, <1>6 DEF Roots, Own, Opp

LEMMA RootsAreDecisions ==
  ASSUME NEW node \in Roots
  PROVE  IsDecision(node)
PROOF
<1>1. ante \in Nat /\ stack \in Nat
  BY TheGame
<1>2. /\ node \in [street : 1..2, current_player : {P1, P2},
                  bets : (ante..stack) \X (ante..stack), kind : {"inner"}]
      /\ Own(node) <= Opp(node) /\ Own(node) < stack
  BY DEF Roots, Own, Opp
<1>3. PICK street \in 1..2, player \in {P1, P2}, b1 \in ante..stack, b2 \in ante..stack :
        node = [street |-> street, current_player |-> player, bets |-> <<b1, b2>>,
                kind |-> "inner"]
  BY <1>2
<1>4. street \in {1, 2} /\ player \in {1, 2} /\ b1 \in Nat /\ b2 \in Nat
  BY <1>1 DEF P1, P2
<1>5. node = Node(street, player, <<b1, b2>>, "inner")
  BY <1>3 DEF Node
<1>6. node.current_player = player /\ node.bets[1] = b1 /\ node.bets[2] = b2
  BY <1>3
<1>7. ante <= Own(node) /\ Opp(node) <= stack
  <2>1. player = 1 => Own(node) = b1 /\ Opp(node) = b2
    BY <1>6 DEF Own, Opp, Opponent
  <2>2. player = 2 => Own(node) = b2 /\ Opp(node) = b1
    BY <1>6 DEF Own, Opp, Opponent
  <2> QED
    BY <2>1, <2>2, <1>1, <1>4
<1> QED
  BY <1>2, <1>4, <1>5, <1>7 DEF IsDecision

(* For every ante, stack and bet sizing: the bound on the layers of a      *)
(* tree, MaxDepth, cuts off nothing; no root there may be has a node under *)
(* its last layer.                                                         *)
THEOREM LayersHoldTheTree ==
  \A root \in Roots : Under(Layers(root)[Len(Layers(root))]) = << >>
PROOF
<1> SUFFICES ASSUME NEW root \in Roots, NEW layers, layers = Layers(root)
             PROVE  Under(layers[Len(layers)]) = << >>
  OBVIOUS
<1> QED
  BY RootsAreDecisions, NothingUnderTheLast

RootIsDecided == IsDecision(ds.root)

LEMMA RootStays ==
  Talk /\ RootIsDecided /\ [Next]_vars => RootIsDecided'
PROOF
<1> SUFFICES ASSUME Talk, RootIsDecided, [Next]_vars PROVE IsDecision(ds'.root)
  BY DEF RootIsDecided
<1>1. CASE DeepStackPlays
  <2>1. OnTurn(state, me)
    BY <1>1, DeepStackDecides
  <2>2. \/ ds' = [ds EXCEPT !.alive = FALSE]
        \/ \E solved, i, parsed, d :
             /\ IsResolver(d) /\ solved = resolve_node(d, NodeOf(state))
             /\ ds' = Decided(solved, parsed, NodeOf(state), i)
    BY <1>1, DeepStackDecides, Zenon DEF Deciding
  <2>3. CASE ds' = [ds EXCEPT !.alive = FALSE]
    <3>1. ds'.root = ds.root
      BY <2>3 DEF Talk, IsResolver
    <3> QED
      BY <3>1 DEF RootIsDecided
  <2>4. ASSUME NEW solved, NEW i, NEW parsed, NEW d, IsResolver(d),
               solved = resolve_node(d, NodeOf(state)),
               ds' = Decided(solved, parsed, NodeOf(state), i)
        PROVE  IsDecision(ds'.root)
    <3>1. IsResolver(solved) /\ solved.root \in {FirstNode, NodeOf(state)}
      BY <2>4, ResolverStays
    <3>2. ds'.root = solved.root
      BY <2>4, <3>1 DEF Decided, IsResolver
    <3>3. IsDecision(NodeOf(state))
      BY <2>1, NodeOfState DEF OnTurn
    <3> QED
      BY <3>1, <3>2, <3>3, FirstNodeIsADecision
  <2> QED
    BY <2>2, <2>3, <2>4
<1>2. CASE DeepStackSkips \/ DealerTakesAnswer \/ OpponentActs \/ NextHand \/ UNCHANGED vars
  <2>1. ds' = ds
    BY <1>2 DEF DeepStackSkips, DealerTakesAnswer, OpponentActs, NextHand, vars
  <2> QED
    BY <2>1 DEF RootIsDecided
<1> QED
  BY <1>1, <1>2 DEF Next

(* For every ante, stack, bet sizing and length of the match: every        *)
(* lookahead DeepStack builds holds each node of its tree in a cell of its *)
(* own, masks exactly the cells without one, is read with the arithmetic   *)
(* it was filled with, takes every value from where it is right, and       *)
(* passes every assertion of its builder.                                  *)
THEOREM DeepStacksTensorsAreDense ==
  Spec => []LookaheadIsDense
PROOF
<1>1. Init => RootIsDecided
  BY FirstNodeIsADecision DEF Init, JustStarted, RootIsDecided
<1>2. RootIsDecided => LookaheadIsDense
  BY DecisionsAreRoots, TreeIsDense DEF RootIsDecided, LookaheadIsDense, DenseRoots
<1> QED
  BY <1>1, <1>2, RootStays, TalkIsInvariant, PTL DEF Spec
=============================================================================
