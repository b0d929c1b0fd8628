---------------------------- MODULE DealerMatch ----------------------------
(***************************************************************************)
(* The sequential part of src/ACPCServer/dealer.c: operators over the      *)
(* local state of gameLoop() and over the transaction file.                *)
(*                                                                         *)
(* A setup is what a match is started with and does not change: the game,  *)
(* whether the seats are fixed, and the deck.  The deck stands for the     *)
(* random number generator, which is seeded once and then used for dealing *)
(* only: deck[i] is the strength of every player's cards in the i-th hand  *)
(* dealt since the program started.                                        *)
(*                                                                         *)
(* The local state is a record of handId, player0Seat, the number of hands *)
(* dealt, the betting state, totalValue and the counters of ErrorInfo.     *)
(* Values are in units of 1/Shares(game) of a chip, see Settlement.tla.    *)
(***************************************************************************)
EXTENDS Settlement

CONSTANTS
  MaxInvalidActions,   (* ErrorInfo.maxInvalidActions                      *)
  MaxResponseMicros,   (* ErrorInfo.maxResponseMicros                      *)
  MaxUsedHandMicros,   (* ErrorInfo.maxUsedHandMicros                      *)
  MaxUsedMatchMicros   (* ErrorInfo.maxUsedMatchMicros                     *)

ASSUME DealerLimitsAssumption ==
  /\ MaxInvalidActions \in Nat
  /\ MaxResponseMicros \in Nat
  /\ MaxUsedHandMicros \in Nat
  /\ MaxUsedMatchMicros \in Nat

Seats(setup) == Players(setup.game)

seatToPlayer(setup, player0Seat, seat) ==
  (seat + setup.game.numPlayers - player0Seat) % setup.game.numPlayers

playerToSeat(setup, player0Seat, player) ==
  (player + player0Seat) % setup.game.numPlayers

-----------------------------------------------------------------------------
(* Invalid actions and time used, by seat.                                 *)

initErrorInfo(setup) ==
  [numInvalidActions |-> [s \in Seats(setup) |-> 0],
   usedHandMicros    |-> [s \in Seats(setup) |-> 0],
   usedMatchMicros   |-> [s \in Seats(setup) |-> 0]]

CountInvalidAction(info, seat) ==
  [info EXCEPT !.numInvalidActions[seat] = @ + 1]

TooManyInvalidActions(info, seat) ==
  info.numInvalidActions[seat] > MaxInvalidActions

(* checkErrorTimes() charges the seat and then checks all three limits.    *)
Charge(info, seat, micros) ==
  [info EXCEPT !.usedHandMicros[seat]  = @ + micros,
               !.usedMatchMicros[seat] = @ + micros]

OutOfTime(info, seat, micros) ==
  \/ micros > MaxResponseMicros
  \/ info.usedHandMicros[seat] > MaxUsedHandMicros
  \/ info.usedMatchMicros[seat] > MaxUsedMatchMicros

checkErrorNewHand(setup, info) ==
  [info EXCEPT !.usedHandMicros = [s \in Seats(setup) |-> 0]]

-----------------------------------------------------------------------------
(* Hands.                                                                  *)

StartOfMatch(setup) ==
  [handId      |-> 0,
   player0Seat |-> 0,
   dealt       |-> 1,
   state       |-> initState(setup.game),
   totalValue  |-> [s \in Seats(setup) |-> 0],
   errorInfo   |-> initErrorInfo(setup)]

setUpNewHand_mutantNoWrap(setup, m) ==
  [m EXCEPT !.handId = @ + 1,
            !.player0Seat = IF setup.fixedSeats THEN @ ELSE @ + 1,
            !.dealt = @ + 1,
            !.state = initState(setup.game),
            !.errorInfo = checkErrorNewHand(setup, @)]

setUpNewHand(setup, m) ==
  [m EXCEPT !.handId = @ + 1,
            !.player0Seat = IF setup.fixedSeats THEN @
                            ELSE (@ + 1) % setup.game.numPlayers,
            !.dealt = @ + 1,
            !.state = initState(setup.game),
            !.errorInfo = checkErrorNewHand(setup, @)]

HandValue(setup, m) ==
  [p \in Seats(setup) |->
     valueOfState(setup.game, m.state, setup.deck[m.dealt], p)]

AddValues_mutantByPlayer(setup, m) ==
  [m EXCEPT !.totalValue =
     [s \in Seats(setup) |-> @[s] + HandValue(setup, m)[s]]]

AddValues(setup, m) ==
  [m EXCEPT !.totalValue =
     [s \in Seats(setup) |->
        @[s] + HandValue(setup, m)[seatToPlayer(setup, m.player0Seat, s)]]]

ActingSeat(setup, m) ==
  playerToSeat(setup, m.player0Seat, currentPlayer(setup.game, m.state))

-----------------------------------------------------------------------------
(* The transaction file: a sequence of actions, each with the hand it      *)
(* belongs to and the time the player took.                                *)

(* The local state when the entry is charged to the player it is the turn  *)
(* of and its action is played.                                            *)
Replayed_mutantUncharged(setup, m, entry) ==
  [m EXCEPT !.state = doAction(setup.game, @, entry.action)]

Replayed(setup, m, entry) ==
  [m EXCEPT !.errorInfo = Charge(@, ActingSeat(setup, m), entry.micros),
            !.state = doAction(setup.game, @, entry.action)]

NextHand_mutantNoTotals(setup, m) == setUpNewHand(setup, m)

NextHand(setup, m) == setUpNewHand(setup, AddValues(setup, m))

(* One turn of the loop of processTransactionFile().  The result is << >>  *)
(* when it gives up and <<m>> otherwise.                                   *)
ReplayEntry(setup, m, entry) ==
  LET after == Replayed(setup, m, entry)
  IN  IF \/ entry.handId # m.handId
         \/ ~isValidAction(setup.game, m.state, FALSE, entry.action)
         \/ OutOfTime(after.errorInfo, ActingSeat(setup, m), entry.micros)
        THEN << >>
      ELSE IF after.state.finished THEN <<NextHand(setup, after)>>
      ELSE <<after>>

processTransactionFile(setup, tlog) ==
  LET after[i \in 0..Len(tlog)] ==
        IF i = 0 THEN <<StartOfMatch(setup)>>
        ELSE LET before == after[i - 1]
             IN  IF before = << >> THEN << >>
                 ELSE ReplayEntry(setup, before[1], tlog[i])
  IN  after[Len(tlog)]

-----------------------------------------------------------------------------
(* The state of the match as a message shows it to a player.  Cards are    *)
(* left out: they are the same whenever the hand is.                       *)
MatchState(setup, m, seat) ==
  [viewingPlayer |-> seatToPlayer(setup, m.player0Seat, seat),
   handId        |-> m.handId,
   round         |-> m.state.round,
   betting       |-> printBetting(m.state)]

matchStatesEqual_mutantAnyHand(a, b) ==
  a.viewingPlayer = b.viewingPlayer /\ a.round = b.round /\ a.betting = b.betting

(* Once the rounds are the same, comparing the actions round by round is   *)
(* comparing their sequence: equal actions close rounds at equal places.   *)
matchStatesEqual(a, b) == a = b
=============================================================================
