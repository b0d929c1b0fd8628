-------------------------- MODULE DealerProperties --------------------------
(***************************************************************************)
(* What should be true of a match, whatever the players send and whenever  *)
(* the dealer is interrupted.                                              *)
(***************************************************************************)
EXTENDS Dealer

(* A history variable: what processTransactionFile() would make of the     *)
(* transaction file as it is.  It adds nothing to the behaviours of Spec.  *)
VARIABLE recorded

InitWithRecord ==
  Init /\ recorded = processTransactionFile(setup, tlog)

NextWithRecord ==
  Next /\ recorded' = processTransactionFile(setup, tlog')

SpecWithRecord ==
  /\ InitWithRecord
  /\ [][NextWithRecord]_<<vars, recorded>>
  /\ WF_vars(DealerStep)

-----------------------------------------------------------------------------
(* Types                                                                   *)

Counters == [Seats(setup) -> Nat]

LocalState ==
  [handId : Nat, player0Seat : Seats(setup), dealt : Nat,
   state : StateType(Game), totalValue : [Seats(setup) -> Int],
   errorInfo : [numInvalidActions : Counters, usedHandMicros : Counters,
                usedMatchMicros : Counters]]

(* The dealer's variables have the types of gameLoop(); in particular      *)
(* player0Seat stays a seat however often the players rotate.              *)
TypeOK ==
  /\ setup \in Setups
  /\ pc \in {"replay", "send", "read", "log", "act", "logHand", "sendFinal",
             "score", "over", "failed", "down"}
  /\ m \in LocalState
  /\ clock \in Nat
  /\ restarts \in 0..MaxRestarts
  /\ \A i \in DOMAIN tlog :
       tlog[i].action.type \in ActionTypes /\ tlog[i].handId <= m.handId + NumHands

-----------------------------------------------------------------------------
(* The transaction file                                                    *)

(* Everything of the local state that the match depends on.                *)
Essence(local) ==
  [handId |-> local.handId, player0Seat |-> local.player0Seat,
   dealt |-> local.dealt, state |-> local.state, totalValue |-> local.totalValue]

(* The local state at the top of the loop, where only what is already in   *)
(* the transaction file has been played.                                   *)
Caught ==
  CASE pc = "act" ->
         LET next == [m EXCEPT !.state = doAction(Game, @, response.action)]
         IN  IF next.state.finished
               THEN NextHand(setup, next) ELSE next
    [] pc \in {"logHand", "sendFinal"} -> setUpNewHand(setup, m)
    [] OTHER -> m

(* The transaction file "is sufficient to recreate an interrupted match"   *)
(* (dealer.c:26): at whatever point the dealer is stopped, the next one    *)
(* gets through the file and finds the very hand, cards, seats, betting    *)
(* and totals with which the stopped one would have gone on.               *)
RestartResumes ==
  /\ recorded # << >>
  /\ pc \notin {"replay", "failed", "down"} =>
       Essence(recorded[1]) = Essence(Caught)

(* The limit on the time a player uses in the match binds across restarts: *)
(* the time of all the actions a seat has recorded stays within it.        *)
RecordedTime(seat) ==
  LET before(i) == processTransactionFile(setup, SubSeq(tlog, 1, i - 1))
      used[i \in 0..Len(tlog)] ==
        IF i = 0 THEN 0
        ELSE used[i - 1] + (IF ActingSeat(setup, before(i)[1]) = seat
                              THEN tlog[i].micros ELSE 0)
  IN  used[Len(tlog)]

TimeLimitSurvivesRestarts ==
  \A s \in Seats(setup) : RecordedTime(s) <= MaxUsedMatchMicros

(* Seen through the transaction file the match is a match of Match.tla:    *)
(* no failure takes back or repeats an action, and after a restart the     *)
(* same players hold the same cards.                                       *)
Promise == INSTANCE Match WITH
  hand  <- recorded[1].handId,
  state <- recorded[1].state,
  score <- recorded[1].totalValue

ImplementsMatch == Promise!Spec

-----------------------------------------------------------------------------
(* The log                                                                 *)

HandLines(file) == {i \in DOMAIN file : "handId" \in DOMAIN file[i]}
LoggedHands(file) == {file[i].handId : i \in HandLines(file)}
SeatValue(e, s) == e.value[CHOOSE p \in Seats(setup) : e.seat[p] = s]

LogHasEveryHand == 0..NumHands - 1 \subseteq LoggedHands(log)

(* No hand is logged twice, and hands are logged in order.  A match played *)
(* without interruption leaves none out, and where none is left out the    *)
(* values of the hands add up, seat by seat, to the SCORE line.            *)
LogAddsUp ==
  /\ \A i, j \in HandLines(log) : i < j => log[i].handId < log[j].handId
  /\ pc = "over" /\ restarts = 0 => LogHasEveryHand
  /\ pc = "over" /\ LogHasEveryHand =>
       \A s \in Seats(setup) :
         log[Len(log)].score[s] =
           MapThenSumSet(LAMBDA i : SeatValue(log[i], s), HandLines(log))

(* The log "will contain finished states and values, followed by the final *)
(* total values" (dealer.c:23), with -a also of a match that was           *)
(* interrupted.                                                            *)
LogIsComplete == pc = "over" => LogHasEveryHand

-----------------------------------------------------------------------------
(* Answers and limits                                                      *)

(* An action is only ever played in the state it answers: messages carry   *)
(* no sequence number, so an answer that comes twice or late must differ   *)
(* from the current state in the hand, the betting or the view.            *)
NoStaleAnswer == pc = "log" => response.about.at = Len(tlog)

(* readPlayerResponse() "returns -1 for failure (disconnect, timeout, too  *)
(* many bad actions, etc)" (dealer.c:256): while the match goes on no      *)
(* player has sent more bad actions than maxInvalidActions.                *)
BadActionsFailTheMatch ==
  pc # "failed" =>
    \A s \in Seats(setup) : ~TooManyInvalidActions(m.errorInfo, s)

(* --t_hand is the "maximum player time per hand" (dealer.c:68): a player  *)
(* is charged for no more time than passed while the dealer waited for the *)
(* player.  Until the first answer of a hand that is what the clock shows. *)
NobodyIsChargedTwice ==
  pc = "read" =>
    LET seat == ActingSeat(setup, m)
    IN  m.state.action = initState(Game).action =>
          m.errorInfo.usedHandMicros[seat] <= clock

(* The match ends, or fails, unless a player keeps the dealer waiting with *)
(* lines that it skips.                                                    *)
SkipsLine ==
  pc = "read" /\ pc' = "read" /\ \E s \in Seats(setup) : Len(inbox'[s]) < Len(inbox[s])

MatchEnds == <>[][~SkipsLine]_vars => <>Stopped
=============================================================================
