------------------------------ MODULE Showdown ------------------------------
(***************************************************************************)
(* The loop of valueOfState() (src/ACPCServer/game.c) over the side pots a *)
(* player takes part in, as the code runs it: find the smallest amount any *)
(* participant still has in, settle a pot of that size, take it from       *)
(* everybody, drop those who have nothing left, and go on until the player *)
(* of interest is dropped.  Settlement.tla has the sum it computes.        *)
(***************************************************************************)
EXTENDS HandProperties

(* The lists spent[] and rank[] the code builds: who has paid, how much,   *)
(* and a negative rank for those who folded.                               *)
PotList_mutantFoldedDropped(g, st, rank) ==
  [p \in {q \in Players(g) : st.spent[q] # 0 /\ ~st.playerFolded[q]} |->
     [spent |-> st.spent[p], rank |-> rank[p]]]

PotList(g, st, rank) ==
  [p \in {q \in Players(g) : st.spent[q] # 0} |->
     [spent |-> st.spent[p],
      rank  |-> IF st.playerFolded[p] THEN -1 ELSE rank[p]]]

(* What the smallest pot is worth to a player on the list.                 *)
PotOf(list) == Min({list[q].spent : q \in DOMAIN list})

SidePot(list, p, shares) ==
  LET size    == PotOf(list)
      winRank == Max({0} \union {list[q].rank : q \in DOMAIN list})
      winners == {q \in DOMAIN list : list[q].rank = winRank}
  IN  IF p \in winners
        THEN ((size * shares) \div Cardinality(winners))
               * Cardinality(DOMAIN list \ winners)
        ELSE -(size * shares)

(* The list for the next pot.                                              *)
NextPot(list) ==
  LET size == PotOf(list)
  IN  [q \in {r \in DOMAIN list : list[r].spent > size} |->
         [list[q] EXCEPT !.spent = @ - size]]

(* The loop adds up pots until the player is dropped.  Every turn drops    *)
(* somebody, so there are no more turns than players on the list.          *)
Turn(now, p, shares) ==
  IF p \notin DOMAIN now.list THEN now
  ELSE [list  |-> NextPot(now.list),
        value |-> now.value + SidePot(now.list, p, shares)]

SidePots(list, p, shares) ==
  LET turns[i \in 0..Cardinality(DOMAIN list)] ==
        IF i = 0 THEN [list |-> list, value |-> 0]
        ELSE Turn(turns[i - 1], p, shares)
  IN  turns[Cardinality(DOMAIN list)].value

(* At every showdown of a finished hand, whatever the ranks of the hands,  *)
(* the loop over side pots (game.c:1109) comes, for whoever is on its list *)
(* and has not folded, to the value that the sum over the levels of the    *)
(* pot defines.                                                            *)
SidePotLoopAgrees ==
  state.finished /\ ~OnlyOneLeft(game, state) =>
    \A rank \in RankFunctions, p \in Players(game) :
      ~state.playerFolded[p] /\ state.spent[p] # 0 =>
        SidePots(PotList(game, state, rank), p, Shares(game)) = Value(rank, p)
=============================================================================
