-------------------------- MODULE DeepStackPlayer --------------------------
(***************************************************************************)
(* DeepStack (deepstack.lua, Player/continual_resolving.lua) plays a match *)
(* of two against the bundled example player, with a dealer that follows   *)
(* game.c.  The dealer sends every state to DeepStack and waits for the    *)
(* player to act; DeepStack reads the states one by one, some of them      *)
(* late, and re-solves the game where it has to act, from its own range    *)
(* and from what the opponent can achieve, both carried over from its last *)
(* decision.                                                               *)
(*                                                                         *)
(* Strategies, ranges and values are numbers the model leaves out.  It     *)
(* keeps what they are about: a range is the decisions whose strategies    *)
(* went into it, a vector of values is the street and the bets it was      *)
(* computed for.                                                           *)
(***************************************************************************)
EXTENDS AcpcGame, LookaheadIndex, ProtocolToNode

CONSTANTS
  game,      (* the game definition the dealer was started with            *)
  MaxHands   (* the hands of the match                                     *)

(* Settings/arguments.lua describes the game of the dealer, in which a     *)
(* round has room for as many raises of an ante as the stacks allow.       *)
ASSUME DeepStackAssumption ==
  /\ IsGame(game)
  /\ game.numPlayers = 2 /\ game.numRounds = 2 /\ game.bettingType = "nolimit"
  /\ \A p \in 0..1 : game.stack[p] = stack /\ game.blind[p] = ante
  /\ \A r \in 0..1 : game.firstPlayer[r] = 0 /\ stack <= ante * game.maxRaises[r]
  /\ stack <= ante * (MAX_NUM_ACTIONS - 2)
  /\ MaxHands \in Nat \ {0}

VARIABLES
  hand,    (* how many hands the dealer has begun                          *)
  me,      (* DeepStack's seat in this hand                                *)
  state,   (* the dealer's state                                           *)
  inbox,   (* the states sent to DeepStack that it has not read            *)
  answer,  (* what DeepStack sent and the dealer has not read              *)
  ds,      (* the variables of deepstack.lua and of ContinualResolving     *)
  played,  (* history: DeepStack's decisions in this hand, as dealt with   *)
  since    (* history: the street and the bets after the last of them, or  *)
           (* at the start of the street if that was later                 *)

vars == <<hand, me, state, inbox, answer, ds, played, since>>

NoNode   == Node(0, Chance, <<0, 0>>, "terminal")
NoValues == [street |-> 0, bets |-> <<0, 0>>]

Values(node) == [street |-> node.street, bets |-> node.bets]

(* The table of a node in a state at which somebody acts.                  *)
NodeOf(s) ==
  Node(s.round + 1, currentPlayer(game, s) + 1, <<s.spent[0], s.spent[1]>>, "inner")

ActionsOf(acts) ==
  [i \in DOMAIN acts |-> [type |-> acts[i].type, size |-> acts[i].size]]

(* What the dealer sends to a seat.                                        *)
Message(s, seat, number) ==
  [position |-> seat, hand_id |-> number,
   actions |-> <<ActionsOf(s.action[0]), ActionsOf(s.action[1])>>,
   board |-> s.round = 1]

(* DeepStack before its first decision.                                    *)
JustStarted ==
  [last_hand |-> 0, last_street |-> 0, last_node |-> NoNode,
   last_bet |-> 0, decision_id |-> 0, position |-> 0,
   range |-> <<>>, bound |-> NoValues,
   root |-> FirstNode, given |-> NoValues, alive |-> TRUE]

Init ==
  /\ hand = 1 /\ me \in 0..1
  /\ state = initState(game)
  /\ inbox = <<Message(state, me, hand)>> /\ answer = <<>>
  /\ ds = JustStarted
  /\ played = <<>> /\ since = Values(FirstNode)

-----------------------------------------------------------------------------
(* ContinualResolving.                                                     *)

start_new_hand(d, parsed) ==
  [d EXCEPT !.last_node = NoNode, !.decision_id = 0,
            !.position = parsed.position]

(* deepstack.lua: did a new hand start?                                    *)
IsNewHand(d, parsed) ==
  \/ d.last_hand # parsed.hand_number
  \/ parsed.current_street < d.last_street

(* _action_to_action_id()                                                  *)
ActionId(root, bet) == CHOOSE i \in ActionIds(root) : actions(root)[i] = bet

NodesIn(root, cell) == NodesAt(root, cell.layer, cell.at)

ValuesAfter(nodes) ==
  IF Cardinality(nodes) = 1 /\ \A n \in nodes : n.kind = "chance"
    THEN Values(AfterChance(CHOOSE n \in nodes : TRUE)) ELSE NoValues

(* The values at the start of the street, read from the lookahead of the   *)
(* decision before; none if the cell is not that of one chance node.       *)
get_chance_action_cfv(d) ==
  ValuesAfter(NodesIn(d.root, ChanceCell(d.root, ActionId(d.root, d.last_bet))))

StreetChanged(d, node) == d.last_node # NoNode /\ d.last_node.street # node.street

(* _update_invariant(): catch up with what happened since the last         *)
(* decision.  An opponent's action within the street changes nothing.      *)
update_invariant(d, node) ==
  IF StreetChanged(d, node) THEN [d EXCEPT !.bound = get_chance_action_cfv(d)]
  ELSE IF d.decision_id = 0
    THEN [d EXCEPT !.range = <<>>, !.bound = Values(FirstNode)]
    ELSE d

UpdateAsserts(d, node) ==
  IF StreetChanged(d, node)
    THEN /\ d.last_node.street + 1 = node.street
         /\ ~(d.last_bet = CCall /\ FirstCall(d.root) = "terminal")
  ELSE IF d.decision_id = 0
    THEN d.position = P2 /\ node.street = 1
    ELSE d.last_node.street = node.street

AtFirstNode(d) == d.decision_id = 0 /\ d.position = P1

Resolve(d, node) == [d EXCEPT !.root = node, !.given = d.bound]

(* _resolve_node(): the first node was solved when the program started.    *)
resolve_node(d, node) ==
  IF AtFirstNode(d)
    THEN [d EXCEPT !.range = <<>>, !.root = FirstNode, !.given = NoValues]
    ELSE Resolve(update_invariant(d, node), node)

ResolveAsserts(d, node) ==
  ~AtFirstNode(d) => node.current_player = d.position /\ UpdateAsserts(d, node)

(* The actions whose probability may be positive.                          *)
Playable(root) == ActionIds(root) \ FreeFold(root)

(* compute_action(), after it sampled the i-th action, and the end of the  *)
(* main loop of deepstack.lua.                                             *)
Decided(d, parsed, node, i) ==
  LET bet == actions(d.root)[i]
  IN  [d EXCEPT !.bound = Values(children(d.root)[i]),
                !.range = Append(@, [root |-> d.root, bet |-> bet]),
                !.decision_id = @ + 1, !.last_bet = bet, !.last_node = node,
                !.last_hand = parsed.hand_number, !.last_street = node.street]

(* _bet_to_action() and action_to_message()                                *)
Answer(msg, bet) ==
  [to |-> msg,
   action |-> [type |-> CASE bet = Fold -> "fold" [] bet = CCall -> "call"
                          [] OTHER -> "raise",
               size |-> IF bet < 0 THEN 0 ELSE bet]]

CanRead == ds.alive /\ inbox # <<>>

(* get_next_situation() goes on to the next line.                          *)
DeepStackSkips ==
  /\ CanRead
  /\ ~OurTurn(parse_state(Head(inbox)))
  /\ inbox' = Tail(inbox)
  /\ UNCHANGED <<hand, me, state, answer, ds, played, since>>

(* One turn of the main loop of deepstack.lua; a failed assertion ends the *)
(* program.                                                                *)
Plays(msg, parsed, node, d) ==
  IF ParserAsserts(msg) /\ ResolveAsserts(d, node)
    THEN \E solved \in {resolve_node(d, node)} : \E i \in Playable(solved.root) :
           /\ ds' = Decided(solved, parsed, node, i)
           /\ answer' = Append(answer, Answer(msg, actions(solved.root)[i]))
    ELSE ds' = [ds EXCEPT !.alive = FALSE] /\ UNCHANGED answer

DeepStackPlays ==
  /\ CanRead
  /\ inbox' = Tail(inbox)
  /\ \E parsed \in {parse_state(Head(inbox))} :
       /\ OurTurn(parsed)
       /\ Plays(Head(inbox), parsed, parsed_state_to_node(parsed),
                IF IsNewHand(ds, parsed) THEN start_new_hand(ds, parsed) ELSE ds)
  /\ UNCHANGED <<hand, me, state, played, since>>

-----------------------------------------------------------------------------
(* The dealer and the opponent.                                            *)

Calls == [type |-> "call", size |-> 0]

(* The dealer plays a call for an action it cannot use.                    *)
Accepted(asked) ==
  IF isValidAction(game, state, TRUE, asked)
    THEN fixAction(game, state, asked) ELSE Calls

(* The state after an action goes to DeepStack.                            *)
Does(action) ==
  /\ state' = doAction(game, state, action)
  /\ inbox' = Append(inbox, Message(state', me, hand))

AfterStreet == [street |-> state'.round + 1, bets |-> <<state'.spent[0], state'.spent[1]>>]

BetName(action) ==
  CASE action.type = "fold" -> Fold [] action.type = "call" -> CCall
    [] OTHER -> action.size

DeepStacksTurn == ~state.finished /\ currentPlayer(game, state) = me
OpponentsTurn  == ~state.finished /\ currentPlayer(game, state) # me

AnswerIsThere ==
  DeepStacksTurn /\ answer # <<>> /\ answer[1].to = Message(state, me, hand)

(* The dealer reads the answer to its state; it would wait on if another   *)
(* state were echoed.                                                      *)
DealerTakesAnswer ==
  LET action == Accepted(answer[1].action)
  IN  /\ AnswerIsThere
      /\ answer' = Tail(answer)
      /\ Does(action)
      /\ played' = Append(played, [root |-> NodeOf(state), bet |-> BetName(action)])
      /\ since' = AfterStreet
      /\ UNCHANGED <<hand, me, ds>>

(* The example player folds if that is valid uncorrected, calls, or raises *)
(* by any amount in the range.                                             *)
OpponentActs ==
  /\ OpponentsTurn
  /\ \E type \in ActionTypes, size \in 0..stack :
       /\ type = "raise" => size \in MinRaise(game, state)..MaxRaise(game, state)
       /\ type # "raise" => size = 0
       /\ isValidAction(game, state, FALSE, [type |-> type, size |-> size])
       /\ Does([type |-> type, size |-> size])
  /\ since' = IF state'.round # state.round THEN AfterStreet ELSE since
  /\ UNCHANGED <<hand, me, answer, ds, played>>

AnotherHand == state.finished /\ hand < MaxHands

(* The next hand; the players change seats.                                *)
NextHand ==
  /\ AnotherHand
  /\ hand' = hand + 1 /\ me' = 1 - me
  /\ state' = initState(game)
  /\ inbox' = Append(inbox, Message(state', me', hand'))
  /\ played' = <<>> /\ since' = Values(FirstNode)
  /\ UNCHANGED <<answer, ds>>

Next ==
  \/ DeepStackSkips \/ DeepStackPlays
  \/ DealerTakesAnswer \/ OpponentActs \/ NextHand

(* Each program goes on as long as it has something to do.  The conjuncts  *)
(* are the weak fairness of the actions, with the conditions under which   *)
(* they are enabled written out: calling is always valid.                  *)
Fairness ==
  /\ []<>~CanRead \/ []<><<DeepStackSkips \/ DeepStackPlays>>_vars
  /\ []<>~AnswerIsThere \/ []<><<DealerTakesAnswer>>_vars
  /\ []<>~OpponentsTurn \/ []<><<OpponentActs>>_vars
  /\ []<>~AnotherHand \/ []<><<NextHand>>_vars

Spec == Init /\ [][Next]_vars /\ Fairness
=============================================================================
