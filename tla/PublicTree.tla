----------------------------- MODULE PublicTree -----------------------------
(***************************************************************************)
(* The public tree of one betting round as DeepStack builds it              *)
(* (Tree/tree_builder.lua, Game/bet_sizing.lua).  A node is a record of the *)
(* street, the player to act, the chips each player has put in, and what   *)
(* kind of node it is; the players are 1 and 2.  Boards do not influence   *)
(* the shape of the tree and are left out.                                 *)
(***************************************************************************)
EXTENDS Integers, SequencesExt

CONSTANTS
  ante,       (* what each player has put in before the first action        *)
  stack,      (* the chips of each player                                   *)
  bet_sizing  (* the bets tried, as multiples of the pot, smallest first    *)

ASSUME TreeAssumption ==
  /\ ante \in Nat \ {0}
  /\ stack \in Nat /\ stack > ante
  /\ bet_sizing \in Seq(Nat \ {0})

P1 == 1
P2 == 2
Chance == 0

Fold  == -2
CCall == -1

Node(street, player, bets, kind) ==
  [street |-> street, current_player |-> player, bets |-> bets, kind |-> kind]

FirstNode == Node(1, P1, <<ante, ante>>, "inner")

Opponent(player) == 3 - player

Level(bets) == bets[1] = bets[2]

(* A node after the players have put in the same.                          *)
Filled(bets) == <<Max({bets[1], bets[2]}), Max({bets[1], bets[2]})>>

(* The sizes that are not too small and leave chips behind.                *)
Fitting(sizes, least, most) ==
  LET fitting[i \in 0..Len(sizes)] ==          \* of the first i
        IF i = 0 THEN <<>>
        ELSE IF least <= sizes[i] /\ sizes[i] < most
          THEN Append(fitting[i - 1], sizes[i])
          ELSE fitting[i - 1]
  IN  fitting[Len(sizes)]

(* By how much the player may raise the opponent's bet: the multiples of   *)
(* the pot that fit, and all the chips.                                    *)
(* When the opponent is all-in, nothing.                                   *)
RaiseSizes(node) ==
  LET own == node.bets[node.current_player]
      opp == node.bets[Opponent(node.current_player)]
      max_raise == stack - opp
      min_raise == Min({max_raise, Max({opp - own, ante})})
  IN  IF min_raise = 0 THEN <<>>
      ELSE Append(Fitting([i \in DOMAIN bet_sizing |-> 2 * opp * bet_sizing[i]],
                          min_raise, max_raise),
                  max_raise)

get_possible_bets(node) ==
  LET player == node.current_player
      opp == node.bets[Opponent(player)]
      raises == RaiseSizes(node)
  IN  [i \in DOMAIN raises |-> [<<opp, opp>> EXCEPT ![player] = opp + raises[i]]]

FoldNode(node) ==
  Node(node.street, Opponent(node.current_player), node.bets, "terminal")

CallIsCheck(node) == node.current_player = P1 /\ Level(node.bets)

CallEndsStreet_mutantAllInToo(node) ==
  /\ node.street = 1
  /\ ~CallIsCheck(node)

(* A call on the first street, unless it is for the whole stack.           *)
CallEndsStreet(node) ==
  /\ node.street = 1
  /\ \/ node.current_player = P2 /\ Level(node.bets)
     \/ ~Level(node.bets) /\ Filled(node.bets)[1] < stack

CallNode(node) ==
  IF CallIsCheck(node)
    THEN Node(node.street, Opponent(node.current_player), node.bets, "inner")
  ELSE IF CallEndsStreet(node)
    THEN Node(node.street, Chance, Filled(node.bets), "chance")
    ELSE Node(node.street, Opponent(node.current_player), Filled(node.bets), "terminal")

(* The lookahead stops at the end of the street.                           *)
children(node) ==
  IF node.kind # "inner" THEN <<>>
  ELSE LET bets == get_possible_bets(node)
       IN  <<FoldNode(node), CallNode(node)>>
             \o [i \in DOMAIN bets |->
                   Node(node.street, Opponent(node.current_player), bets[i], "inner")]

(* The node in which the next street starts.                               *)
AfterChance(node) == Node(node.street + 1, P1, node.bets, "inner")

(* What the actions at a node are called.                                  *)
actions(node) ==
  LET kids == children(node)
  IN  [i \in DOMAIN kids |->
         CASE i = 1 -> Fold [] i = 2 -> CCall [] OTHER -> Filled(kids[i].bets)[1]]

ActionIds(node) == DOMAIN children(node)

(* Every bet raises by an ante or more, or takes the whole stack.          *)
MaxDepth == stack + 3

Under(layer) == FlattenSeq([i \in DOMAIN layer |-> children(layer[i])])

(* The nodes of the tree, layer by layer.                                  *)
Layers(root) ==
  LET layers[d \in 0..MaxDepth] ==
        IF d = 0 THEN <<<<root>>>>
        ELSE LET above == layers[d - 1]
                 below == Under(above[Len(above)])
             IN  IF below = <<>> THEN above ELSE Append(above, below)
  IN  layers[MaxDepth]
=============================================================================
