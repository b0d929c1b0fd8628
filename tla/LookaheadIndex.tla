--------------------------- MODULE LookaheadIndex ---------------------------
(***************************************************************************)
(* How a lookahead stores the public tree in dense tensors                 *)
(* (Lookahead/lookahead_builder.lua), and how it reads them                *)
(* (Lookahead/lookahead.lua).  Layer d of the tree is one tensor; a cell   *)
(* of it is a triple of the action that leads to the node, the parent      *)
(* among the bets of the layer above, and the grandparent.  A node with    *)
(* fewer bets than the widest of its layer leaves cells unused, and those  *)
(* are masked.  The numbers in the tensors are left out.                   *)
(***************************************************************************)
EXTENDS PublicTree

EndsHere(node) == node.kind # "inner"

MostOf(counts) == Max({0} \cup ToSet(counts))

EndCount(nodes) == Cardinality({i \in DOMAIN nodes : EndsHere(nodes[i])})

(* _compute_tree_structures(): for a layer, the most actions of any node,  *)
(* the most that end the betting, and the bets that are not all-in.        *)
Width(layer) ==
  LET most == MostOf([i \in DOMAIN layer |-> Len(children(layer[i]))])
      ends == MostOf([i \in DOMAIN layer |-> EndCount(children(layer[i]))])
  IN  [actions |-> most, ends |-> ends,
       nonallin |-> IF most = 2 THEN 0 ELSE most - ends - 1]

Widths(layers) == [d \in DOMAIN layers |-> Width(layers[d])]

(* _compute_structure(): for each layer the room for nodes that are        *)
(* neither terminal nor all-in.                                            *)
NodeCounts(widths) ==
  LET nodes[d \in DOMAIN widths] ==
        IF d = 1 THEN 1
        ELSE IF d = 2 THEN widths[1].actions - widths[1].ends - 1
        ELSE nodes[d - 2] * widths[d - 2].nonallin * widths[d - 1].nonallin
  IN  nodes

StructureOf(widths) ==
  [depth |-> Len(widths), widths |-> widths, nodes |-> NodeCounts(widths)]

Structure(root) == StructureOf(Widths(Layers(root)))

(* The two layers above the root count as one action each.                 *)
actions_count(s, d) == IF d < 1 THEN 1 ELSE s.widths[d].actions
terminal_actions_count(s, d) == IF d < 1 THEN 0 ELSE s.widths[d].ends
bets_count(s, d) == actions_count(s, d) - terminal_actions_count(s, d)
nonallinbets_count(s, d) == IF d < 1 THEN 1 ELSE s.widths[d].nonallin
nodes_count(s, d) == IF d < 1 THEN 1 ELSE s.nodes[d]

(* The sizes of the tensor of layer d.                                     *)
Dims(s, d) ==
  CASE d = 1 -> <<1, 1, 1>>
    [] d = 2 -> <<actions_count(s, 1), 1, 1>>
    [] OTHER -> <<actions_count(s, d - 1), bets_count(s, d - 2), nodes_count(s, d - 2)>>

Cells(s, d) ==
  (1..Dims(s, d)[1]) \X (1..Dims(s, d)[2]) \X (1..Dims(s, d)[3])

Slot_mutantFromTheLeft(s, d, width, i) == i

(* The bets of a node are counted from the last, so that going all-in has  *)
(* the same index for every node of the layer.                             *)
Slot(s, d, width, i) ==
  IF width < actions_count(s, d) /\ i > 2
    THEN actions_count(s, d) - (width - i) ELSE i

(* Where the children of the node at a cell of layer d are put.            *)
Below(s, d, at) ==
  [parent |-> at[1] - terminal_actions_count(s, d - 1),
   gp     |-> (at[3] - 1) * nonallinbets_count(s, d - 2) + at[2]]

PlaceChildren(s, d, entry) ==
  LET kids == children(entry.node)
      below == Below(s, d, entry.at)
  IN  [i \in DOMAIN kids |->
         [node |-> kids[i], of |-> entry.at,
          at |-> <<Slot(s, d, Len(kids), i), below.parent, below.gp>>]]

(* set_datastructures_from_tree_dfs(): the nodes of each layer, each with  *)
(* its cell and that of its parent.                                        *)
Placed(s, root) ==
  LET placed[d \in 1..s.depth] ==
        IF d = 1 THEN <<<<[node |-> root, of |-> <<1, 1, 1>>, at |-> <<1, 1, 1>>]>>>>
        ELSE LET above == placed[d - 1]
                 last  == above[Len(above)]
             IN  Append(above, FlattenSeq([i \in DOMAIN last |->
                                             PlaceChildren(s, Len(above), last[i])]))
  IN  placed[s.depth]

(* The cells of layer d + 1 that are masked because the node at a cell of  *)
(* layer d has too few bets.                                               *)
Padding(s, d, entry) ==
  LET width == Len(children(entry.node))
      below == Below(s, d, entry.at)
  IN  IF EndsHere(entry.node) THEN {}
      ELSE {<<i, below.parent, below.gp>> :
              i \in 3..(actions_count(s, d) - (width - 2))}

(* The fold that costs nothing is masked at the root.                      *)
FreeFold(root) == IF Level(root.bets) THEN {1} ELSE {}

(* The assertions of the builder about a node and its layer.               *)
BuilderAsserts(s, d, entry) ==
  LET width == Len(children(entry.node))
      nonallin == nonallinbets_count(s, d - 2)
  IN  /\ entry.node.kind = "chance" => entry.at[2] <= nonallin
      /\ entry.node.kind = "inner" =>
           /\ entry.at[2] <= nonallin
           /\ width < actions_count(s, d) =>
                /\ d > 1 /\ terminal_actions_count(s, d) = 2
                /\ width = 2 => entry.at[1] = actions_count(s, d - 1)

-----------------------------------------------------------------------------
(* Reading the tensors.                                                    *)

(* _compute_ranges() and _compute_cfvs() find the parent of a cell of      *)
(* layer d + 1 by taking the bets of layer d and viewing them as a matrix  *)
(* of the parents and the grandparents below.                              *)
ParentCell(s, d, cell) ==
  LET nonallin == nonallinbets_count(s, d - 2)
  IN  <<cell[2] + terminal_actions_count(s, d - 1),
        ((cell[3] - 1) % nonallin) + 1, ((cell[3] - 1) \div nonallin) + 1>>

(* The view needs as many cells as there are.                              *)
ViewFits(s, d) ==
  /\ Dims(s, d + 1)[2] = Dims(s, d)[1] - terminal_actions_count(s, d - 1)
  /\ Dims(s, d + 1)[3] = Dims(s, d)[3] * nonallinbets_count(s, d - 2)

FirstCall(root) == children(root)[2].kind

(* Where the value of a cell comes from: _compute_terminal_equities()      *)
(* takes every first action for a fold, the second for a call that ends    *)
(* the street and goes to the value network, and then, on the first        *)
(* street, the call of the last parent for a showdown; on the second       *)
(* street every call is one.  The first layer is an exception unless the   *)
(* call really ends the betting.  The rest is computed from below.         *)
ValueOf(s, root, d, cell) ==
  LET isCall(kind) == cell[1] = 2 /\ (d > 2 \/ FirstCall(root) = kind)
  IN  IF cell[1] = 1 THEN "fold"
      ELSE IF isCall("terminal") /\ (root.street = 2 \/ cell[2] = Dims(s, d)[2])
        THEN "showdown"
      ELSE IF isCall("chance") /\ root.street = 1 THEN "next street"
      ELSE "below"

ChanceCell_mutantNoTransition(root, i) ==
  IF i = 2 /\ FirstCall(root) = "chance"
    THEN [layer |-> 2, at |-> <<2, 1, 1>>]
    ELSE [layer |-> 3, at |-> <<2, i - 1, 1>>]

(* get_chance_action_cfv(): the cell of the call that ended the street,    *)
(* after the i-th action at the root.                                      *)
ChanceCell(root, i) ==
  IF i = 2 /\ FirstCall(root) = "chance"
    THEN [layer |-> 2, at |-> <<2, 1, 1>>]
    ELSE [layer |-> 3,
          at |-> <<2, IF FirstCall(root) = "chance" THEN i - 2 ELSE i - 1, 1>>]

(* The nodes stored at a cell: none, one, or several if the tensors clash. *)
NodesAt(root, layer, at) ==
  LET placed == Placed(Structure(root), root)[layer]
  IN  {placed[i].node : i \in {j \in DOMAIN placed : placed[j].at = at}}

-----------------------------------------------------------------------------
RightValue(s, root, d, entry) ==
  ValueOf(s, root, d, entry.at) =
    CASE entry.node.kind = "inner" -> "below"
      [] entry.node.kind = "chance" -> "next street"
      [] OTHER -> IF entry.at[1] = 1 THEN "fold" ELSE "showdown"

(* A cell of layer d + 1 is used exactly when its parent's cell, as the    *)
(* lookahead finds it, holds a node at which somebody acts and the cell is *)
(* not padding; and then by one child of that node.                        *)
CellIsRight(s, d, placed, padding, cell) ==
  LET parent == {i \in DOMAIN placed[d] : /\ placed[d][i].at = ParentCell(s, d, cell)
                                          /\ placed[d][i].node.kind = "inner"}
      here == {i \in DOMAIN placed[d + 1] : placed[d + 1][i].at = cell}
  IN  /\ Cardinality(here) = IF parent = {} \/ cell \in padding THEN 0 ELSE 1
      /\ \A i \in here : placed[d + 1][i].of = ParentCell(s, d, cell)

(* The tree of a root is stored and read without a clash or a gap.         *)
IsDense(root) ==
  LET s == Structure(root)
      placed == Placed(s, root)
      padding(d) == UNION {Padding(s, d, placed[d][i]) : i \in DOMAIN placed[d]}
  IN  /\ \A d \in 1..s.depth : \A i \in DOMAIN placed[d] :
           /\ placed[d][i].at \in Cells(s, d)
           /\ BuilderAsserts(s, d, placed[d][i])
           /\ d > 1 => RightValue(s, root, d, placed[d][i])
      /\ terminal_actions_count(s, 1) \in {1, 2}
      /\ \A d \in 1..s.depth - 1 :
           /\ ViewFits(s, d)
           /\ \A cell \in Cells(s, d + 1) :
                CellIsRight(s, d, placed, padding(d), cell)
=============================================================================
