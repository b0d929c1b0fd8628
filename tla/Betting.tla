------------------------------ MODULE Betting ------------------------------
(***************************************************************************)
(* What a poker hand promises the people at the table, whatever the        *)
(* betting structure: chips only move from a stack into the pot, a player  *)
(* may leave only while owing chips, and the hand is over only when one    *)
(* player is left or everybody left has put in as much as everybody else   *)
(* or all they have.  No turns, rounds, raise sizes or limits: Hand.tla    *)
(* implements this module.                                                 *)
(***************************************************************************)
EXTENDS Integers, FiniteSets

VARIABLES
  game,       (* the definition being played: numPlayers, stack and blind  *)
  committed,  (* chips each player has in the pot                          *)
  live,       (* players who have not folded                               *)
  over        (* the hand is finished                                      *)

vars == <<game, committed, live, over>>

Seats == 0..(game.numPlayers - 1)

Owes(p) == /\ committed[p] < game.stack[p]
           /\ \E q \in Seats : committed[q] > committed[p]

(* No live player owes chips to the pot.                                   *)
Settled == \A p \in live : ~Owes(p)

Fresh ==
  /\ committed = game.blind
  /\ live = Seats
  /\ over = FALSE

MayEnd == over' => Settled' \/ Cardinality(live') = 1
MustEnd == Cardinality(live') = 1 => over'

(* A player in debt leaves the pot to the others.                          *)
Fold(p) ==
  /\ ~over /\ p \in live /\ Owes(p)
  /\ live' = live \ {p}
  /\ UNCHANGED committed
  /\ over' \in BOOLEAN /\ MayEnd /\ MustEnd

(* A player puts chips in: enough to owe nothing any more.                 *)
Pay(p) ==
  /\ ~over /\ p \in live
  /\ \E chips \in committed[p]..game.stack[p] :
       committed' = [committed EXCEPT ![p] = chips]
  /\ UNCHANGED live
  /\ ~Owes(p)'
  /\ over' \in BOOLEAN /\ MayEnd

NextHand ==
  /\ over
  /\ committed' = game.blind
  /\ live' = Seats
  /\ over' = FALSE

Next ==
  /\ UNCHANGED game
  /\ (\E p \in Seats : Fold(p) \/ Pay(p)) \/ NextHand

Spec == Fresh /\ [][Next]_vars
=============================================================================
