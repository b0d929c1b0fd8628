--------------------------- MODULE ProtocolToNode ---------------------------
(***************************************************************************)
(* How DeepStack reads a line of the dealer (ACPC/protocol_to_node.lua):   *)
(* from the actions of the two rounds, in the order they were taken, and   *)
(* whether there is a board card, it works out who acts next and what      *)
(* everybody has put in.  It does not know the rules of betting: it looks  *)
(* at the last two actions and at the last raise before them.              *)
(*                                                                         *)
(* A message is a record of the seat of its reader, the number of the      *)
(* hand, the actions of each round and whether a board card was dealt.     *)
(***************************************************************************)
EXTENDS PublicTree

(* _convert_actions(): on each street the players take turns, P1 first.    *)
ActionsOn(street, acts) ==
  [i \in DOMAIN acts |->
     [type |-> acts[i].type, size |-> acts[i].size,
      player |-> IF i % 2 = 1 THEN P1 ELSE P2, street |-> street]]

all_actions(msg) ==
  ActionsOn(1, msg.actions[1]) \o ActionsOn(2, msg.actions[2])

current_street(msg) == IF msg.board THEN 2 ELSE 1

(* Who acts next, -1 if the hand is over.                                  *)
get_acting_player(msg) ==
  LET all == all_actions(msg)
      last == Last(all)
  IN  IF all = <<>> \/ last.street # current_street(msg) THEN P1
      ELSE IF last.type = "fold" THEN -1
      ELSE IF /\ current_street(msg) = 2 /\ Len(msg.actions[2]) >= 2
              /\ last.type = "call"
        THEN -1
      ELSE Opponent(last.player)

Ante(player, street) ==
  [type |-> "raise", size |-> ante, player |-> player, street |-> street]

(* The last raise among the first n actions, or an ante.                   *)
LastRaise(all, n) ==
  LET raises == {i \in 1..n : all[i].type = "raise"}
  IN  IF raises = {} THEN Ante(P2, 2) ELSE all[Max(raises)]

LastTwo_mutantAnyRaise(msg) ==
  LET all == all_actions(msg)
      n == Len(all)
  IN  [last   |-> IF n >= 1 THEN all[n] ELSE Ante(P1, 1),
       before |-> IF n >= 2 THEN all[n - 1] ELSE Ante(P1, 1),
       raise  |-> LastRaise(all, n)]

(* The last action, the one before it, and the last raise before both;     *)
(* the antes stand in for what is missing.                                 *)
LastTwo(msg) ==
  LET all == all_actions(msg)
      n == Len(all)
  IN  [last   |-> IF n >= 1 THEN all[n] ELSE Ante(P1, 1),
       before |-> IF n >= 2 THEN all[n - 1]
                  ELSE IF n = 1 THEN Ante(P1, 1) ELSE Ante(P2, 2),
       raise  |-> LastRaise(all, n - 2)]

(* The chips of the player to act and of the other one.                    *)
compute_bets(msg) ==
  LET t == LastTwo(msg)
      first == IF t.before.type = "raise" THEN t.before.size ELSE t.raise.size
  IN  IF get_acting_player(msg) = -1 THEN <<-1, -1>>
      ELSE IF t.last.type = "raise" THEN <<first, t.last.size>>
      ELSE <<first, first>>

(* The assertions of _get_acting_player(), _compute_bets() and           *)
(* _process_parsed_state().                                               *)
ParserAsserts(msg) ==
  LET t == LastTwo(msg)
      bets == compute_bets(msg)
  IN  /\ all_actions(msg) = <<>> => current_street(msg) = 1
      /\ get_acting_player(msg) # -1 =>
           /\ t.last.type \in {"raise", "call"}
           /\ t.before.type \in {"raise", "call"}
      /\ bets[1] <= bets[2]

(* parse_state(): where the reader sits, who acts, and the chips, those of *)
(* the reader first if it is P1.                                           *)
parse_state(msg) ==
  LET position == msg.position + 1
      bets == compute_bets(msg)
  IN  [position |-> position, hand_number |-> msg.hand_id,
       acting_player |-> get_acting_player(msg),
       current_street |-> current_street(msg),
       bets |-> IF position = P1 THEN bets ELSE <<bets[2], bets[1]>>]

OurTurn_mutantOneAllIn(parsed) ==
  /\ parsed.acting_player = parsed.position
  /\ stack \notin {parsed.bets[1], parsed.bets[2]}

(* get_next_situation(): the reader acts when it is its turn, unless both  *)
(* are all-in.                                                             *)
OurTurn(parsed) ==
  /\ parsed.acting_player = parsed.position
  /\ parsed.bets # <<stack, stack>>

parsed_state_to_node(parsed) ==
  Node(parsed.current_street, parsed.acting_player, parsed.bets, "inner")
=============================================================================
