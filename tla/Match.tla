------------------------------- MODULE Match -------------------------------
(***************************************************************************)
(* What the dealer promises the players: one match, whose hands are played *)
(* one valid action after the other and settled when they finish.  An      *)
(* action, once played, is never taken back or played again.  There are no *)
(* messages, files or failures here, and who sits where and which cards    *)
(* are dealt depend on the number of the hand alone.  Dealer.tla           *)
(* implements this module: the state of the match is what the transaction  *)
(* file describes.                                                         *)
(***************************************************************************)
EXTENDS Integers

(* The rules are parameters, those of game.c in the end.                   *)
CONSTANTS
  Chips, Players(_),
  initState(_),             (* a new hand of a game                        *)
  isValidAction(_, _, _, _),
  doAction(_, _, _),
  valueOfState(_, _, _, _)  (* what a finished hand is worth to a player   *)

VARIABLES
  setup,   (* the game, the decks, and whether the seats are fixed         *)
  hand,    (* the number of the hand being played                          *)
  state,   (* its betting                                                  *)
  score    (* what every seat has won so far                               *)

vars == <<setup, hand, state, score>>

Player(seat) ==
  IF setup.fixedSeats THEN seat
  ELSE CHOOSE p \in Players(setup.game) : (p + hand) % setup.game.numPlayers = seat

Worth(finished, seat) ==
  valueOfState(setup.game, finished, setup.deck[hand + 1], Player(seat))

Init ==
  /\ hand = 0
  /\ state = initState(setup.game)
  /\ score = [s \in Players(setup.game) |-> 0]

Play(action) ==
  LET next == doAction(setup.game, state, action)
  IN  /\ isValidAction(setup.game, state, FALSE, action)
      /\ UNCHANGED setup
      /\ IF next.finished
           THEN /\ hand' = hand + 1
                /\ state' = initState(setup.game)
                /\ score' = [s \in Players(setup.game) |->
                               score[s] + Worth(next, s)]
           ELSE state' = next /\ UNCHANGED <<hand, score>>

(* Only a no-limit raise has a size.                                       *)
Actions ==
  [type : {"fold", "call"}, size : {0}] \union
  [type : {"raise"},
   size : IF setup.game.bettingType = "nolimit" THEN Chips ELSE {0}]

Next == \E action \in Actions : Play(action)

Spec == Init /\ [][Next]_vars
=============================================================================
