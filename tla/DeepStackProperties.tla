------------------------ MODULE DeepStackProperties ------------------------
(***************************************************************************)
(* What DeepStack relies on without ever checking it: that its parser, its *)
(* tree of the game and its tensors agree with the dealer's rules, whose   *)
(* code it does not share.                                                 *)
(***************************************************************************)
EXTENDS DeepStackPlayer

(* From the last actions alone, protocol_to_node.lua finds in every state  *)
(* whose turn it is, on which street and with which bets, just as game.c   *)
(* has it; none of its assertions fails; and acpc_game.lua has DeepStack   *)
(* answer exactly when the dealer waits for it, the state the dealer is    *)
(* in.                                                                     *)
ReadsTheState ==
  /\ \A seat \in 0..1 :
       LET msg == Message(state, seat, hand)
           parsed == parse_state(msg)
       IN  /\ ParserAsserts(msg)
           /\ OurTurn(parsed) <=>
                ~state.finished /\ currentPlayer(game, state) = seat
           /\ OurTurn(parsed) => parsed_state_to_node(parsed) = NodeOf(state)
  /\ \A i \in DOMAIN answer :
       DeepStacksTurn /\ answer[i].to = Message(state, me, hand)

(* The state the dealer is in after an action of the tree, as the tree     *)
(* shows it.                                                               *)
IsAfter(child, action) ==
  LET next == doAction(game, state, action)
  IN  /\ isValidAction(game, state, FALSE, action)
      /\ fixAction(game, state, action) = action
      /\ child.kind = "terminal" <=> next.finished
      /\ child.kind = "chance" <=> ~next.finished /\ next.round > state.round
      /\ child.kind = "inner" =>
           child = NodeOf(next)
      /\ child.kind = "chance" => AfterChance(child) = NodeOf(next)
      /\ child.bets = <<next.spent[0], next.spent[1]>>

(* The tree of tree_builder.lua and bet_sizing.lua is a part of the game   *)
(* of game.c: every action at a node but the fold that costs nothing is    *)
(* accepted by the dealer as it is, and leads where the tree says, an      *)
(* all-in call on the first street included.                               *)
TreeIsTheGame ==
  ~state.finished =>
    LET root == NodeOf(state)
    IN  \A i \in Playable(root) :
          IsAfter(children(root)[i], Answer(<<>>, actions(root)[i]).action)

(* Every root there may be.                                                *)
Roots ==
  {root \in [street : 1..2, current_player : {P1, P2},
             bets : (ante..stack) \X (ante..stack), kind : {"inner"}] :
     /\ root.bets[root.current_player] <= root.bets[Opponent(root.current_player)]
     /\ root.bets[root.current_player] < stack}

DenseRoots == {root \in Roots : IsDense(root)}

(* The tensors of every lookahead that is built hold each node of its tree *)
(* in a cell of its own, mask exactly the cells without one, are read with *)
(* the arithmetic they were filled with, and take every value from where   *)
(* it is right: a fold, a showdown, the next street or the layer below.    *)
LookaheadIsDense == ds.root \in DenseRoots

(* Through skipped states, changes of street and of hand, DeepStack's      *)
(* range is what it played in this hand, at the nodes where the dealer had *)
(* it play, and it re-solves from values computed for the street and the   *)
(* bets after its last decision, or for the start of the street; and none  *)
(* of its assertions fails.                                                *)
ContinuesTheHand ==
  /\ ds.alive
  /\ answer # <<>> =>
       /\ ds.range = Append(played, [root |-> NodeOf(state), bet |-> ds.last_bet])
       /\ ds.given = IF NodeOf(state) = FirstNode THEN NoValues ELSE since

(* Neither the dealer nor DeepStack is left waiting for the other: every   *)
(* hand that begins ends, and the match with it.                           *)
MatchGoesOn ==
  \A h \in 1..MaxHands : (hand = h) ~> (state.finished /\ hand = MaxHands)
=============================================================================
