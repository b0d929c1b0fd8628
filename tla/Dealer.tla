------------------------------- MODULE Dealer -------------------------------
(***************************************************************************)
(* The dealer program of src/ACPCServer/dealer.c while it plays a match    *)
(* with -T -a: gameLoop(), the players' connections, the log and the       *)
(* transaction file.  The program may fail or be killed at any point and   *)
(* be started again; the files are all that is left of it then.            *)
(*                                                                         *)
(* The dealer is one thread.  An action of this module is the code between *)
(* two points at which the world outside can tell the difference: it reads *)
(* a line, sends messages, or writes to a file.                            *)
(***************************************************************************)
EXTENDS DealerMatch

CONSTANTS
  Setups,       (* what the match may be started with                      *)
  NumHands,     (* numHands                                                *)
  Asks,         (* the actions players ask for                             *)
  ArrivalTimes, (* when a line may arrive, in ticks after the state's send *)
  MaxUnread,    (* bound on the lines waiting in the read buffers          *)
  MaxRestarts   (* bound on how often the dealer is started again          *)

(* A game that leaves somebody chips beyond the blind, as in Hand.tla, and *)
(* cards for every hand of the match.                                      *)
ASSUME SetupsAssumption ==
  \A setup \in Setups :
    /\ IsGame(setup.game) /\ setup.game.numPlayers <= MAX_NUM_ACTIONS
    /\ \E p \in Players(setup.game) : setup.game.blind[p] < setup.game.stack[p]
    /\ setup.fixedSeats \in BOOLEAN
    /\ \A h \in 1..NumHands : setup.deck[h] \in [Players(setup.game) -> Nat]

(* What readAction() makes of the text of an action: only the raise of a   *)
(* no-limit game has a size.                                               *)
ASSUME AsksAssumption ==
  /\ Asks \subseteq [type : ActionTypes \cup {"garbled"}, size : Int]
  /\ \A ask \in Asks : \A setup \in Setups :
       ask.type # "raise" \/ setup.game.bettingType # "nolimit" => ask.size = 0

ASSUME DealerAssumption ==
  /\ NumHands \in Nat \ {0}
  /\ ArrivalTimes \subseteq Nat
  /\ MaxUnread \in Nat /\ MaxRestarts \in Nat

VARIABLES
  setup,     (* fixed for the match                                        *)
  pc,        (* where gameLoop() is                                        *)
  m,         (* its local state                                            *)
  response,  (* the action read from the current player, or NoResponse     *)
  clock,     (* when the last line was read, in ticks after sendTime       *)
  tlog,      (* the transaction file                                       *)
  pos,       (* how many of its lines were read since the program started  *)
  log,       (* the log file                                               *)
  heard,     (* the states sent on each seat's connection                  *)
  inbox,     (* lines waiting in each seat's read buffer                   *)
  restarts   (* how often the dealer was started again                     *)

vars ==
  <<setup, pc, m, response, clock, tlog, pos, log, heard, inbox, restarts>>

files   == <<tlog, pos, log>>
network == <<heard, inbox>>

NoResponse == [micros |-> -1]

Game == setup.game

Init ==
  /\ setup \in Setups
  /\ pc = "replay"
  /\ m = StartOfMatch(setup)
  /\ response = NoResponse /\ clock = 0
  /\ tlog = << >> /\ pos = 0 /\ log = << >>
  /\ heard = [s \in Seats(setup) |-> {}]
  /\ inbox = [s \in Seats(setup) |-> << >>]
  /\ restarts = 0

-----------------------------------------------------------------------------
(* Starting up.                                                            *)

(* processTransactionFile() reads the file line by line.                   *)
ReplayLine ==
  LET result == ReplayEntry(setup, m, tlog[pos + 1])
  IN  /\ pc = "replay"
      /\ pos < Len(tlog)
      /\ pos' = pos + 1
      /\ IF result = << >>
           THEN pc' = "failed" /\ UNCHANGED m
           ELSE m' = result[1] /\ UNCHANGED pc
      /\ UNCHANGED <<setup, response, clock, tlog, log, network, restarts>>

(* The match goes on where the file ends.                                  *)
ReplayDone ==
  /\ pc = "replay"
  /\ pos = Len(tlog)
  /\ pc' = IF m.handId >= NumHands THEN "score" ELSE "send"
  /\ UNCHANGED <<setup, m, response, clock, files, network, restarts>>

-----------------------------------------------------------------------------
(* Asking the current player.                                              *)

(* A state as a player has it; "at" is not in the message, it marks the    *)
(* point of the match at which it was sent.                                *)
Message(seat) == [at |-> Len(tlog), says |-> MatchState(setup, m, seat)]

(* The state goes to every seat.                                           *)
SendState ==
  /\ pc = "send"
  /\ heard' = [s \in Seats(setup) |-> heard[s] \union {Message(s)}]
  /\ clock' = 0
  /\ pc' = "read"
  /\ UNCHANGED <<setup, m, response, files, inbox, restarts>>

Calls == [type |-> "call", size |-> 0]

(* What readPlayerResponse() does with the action of a line that echoes    *)
(* the current state.  An action that is none of its formats counts as     *)
(* invalid and becomes a call, whatever the count; an invalid one fails    *)
(* the match when there are too many.                                      *)
TakeAction(seat, info, asked, micros, about) ==
  LET counted == CountInvalidAction(info, seat)
      Take(newInfo, action) ==
        /\ m' = [m EXCEPT !.errorInfo = newInfo]
        /\ response' = [action |-> action, micros |-> micros, about |-> about]
        /\ pc' = "log"
  IN  \/ /\ asked.type = "garbled"
         /\ Take(counted, Calls)
      \/ /\ asked.type # "garbled"
         /\ isValidAction(Game, m.state, TRUE, asked)
         /\ Take(info, fixAction(Game, m.state, asked))
      \/ /\ asked.type # "garbled"
         /\ ~isValidAction(Game, m.state, TRUE, asked)
         /\ IF TooManyInvalidActions(counted, seat)
              THEN /\ m' = [m EXCEPT !.errorInfo = counted]
                   /\ pc' = "failed"
                   /\ UNCHANGED response
              ELSE Take(counted, Calls)

(* One turn of the loop of readPlayerResponse(): a comment is skipped      *)
(* before the time is looked at, a line that is no state or another state  *)
(* is skipped after the seat was charged for it.                           *)
ReadLine(micros) ==
  LET seat == ActingSeat(setup, m)
      line == Head(inbox[seat])
      info == Charge(m.errorInfo, seat, micros)
  IN  /\ pc = "read"
      /\ inbox[seat] # << >>
      /\ micros >= clock
      /\ clock' = micros
      /\ inbox' = [inbox EXCEPT ![seat] = Tail(@)]
      /\ UNCHANGED <<setup, files, heard, restarts>>
      /\ \/ /\ line.kind = "comment"
            /\ UNCHANGED <<pc, m, response>>
         \/ /\ line.kind # "comment"
            /\ OutOfTime(info, seat, micros)
            /\ m' = [m EXCEPT !.errorInfo = info]
            /\ pc' = "failed"
            /\ UNCHANGED response
         \/ /\ line.kind # "comment"
            /\ ~OutOfTime(info, seat, micros)
            /\ \/ line.kind = "noise"
               \/ /\ line.kind = "response"
                  /\ ~matchStatesEqual(MatchState(setup, m, seat), line.about.says)
            /\ m' = [m EXCEPT !.errorInfo = info]
            /\ UNCHANGED <<pc, response>>
         \/ /\ line.kind = "response"
            /\ ~OutOfTime(info, seat, micros)
            /\ matchStatesEqual(MatchState(setup, m, seat), line.about.says)
            /\ TakeAction(seat, info, line.asked, micros, line.about)

ReadFails_mutantNoTimeout == FALSE

(* getLine() gives up: the player is gone or has been silent for           *)
(* maxResponseMicros.                                                      *)
ReadFails ==
  /\ pc = "read"
  /\ pc' = "failed"
  /\ UNCHANGED <<setup, m, response, clock, files, network, restarts>>

-----------------------------------------------------------------------------
(* Playing the action.                                                     *)

logTransaction ==
  /\ pc = "log"
  /\ tlog' = Append(tlog, [action |-> response.action,
                           handId |-> m.handId, micros |-> response.micros])
  /\ pc' = "act"
  /\ UNCHANGED <<setup, m, response, clock, pos, log, network, restarts>>

DoAction ==
  LET next == doAction(Game, m.state, response.action)
  IN  /\ pc = "act"
      /\ m' = IF next.finished THEN AddValues(setup, [m EXCEPT !.state = next])
                               ELSE [m EXCEPT !.state = next]
      /\ pc' = IF next.finished THEN "logHand" ELSE "send"
      /\ response' = NoResponse
      /\ UNCHANGED <<setup, clock, files, network, restarts>>

(* The values of the hand go to the log by player, with the seats they sit *)
(* in.                                                                     *)
addToLogFile ==
  /\ pc = "logHand"
  /\ log' = Append(log,
       [handId |-> m.handId,
        value  |-> HandValue(setup, m),
        seat   |-> [p \in Seats(setup) |-> playerToSeat(setup, m.player0Seat, p)]])
  /\ pc' = "sendFinal"
  /\ UNCHANGED <<setup, m, response, clock, tlog, pos, network, restarts>>

(* The finished state goes to every seat and the next hand is set up.      *)
SendFinal ==
  /\ pc = "sendFinal"
  /\ heard' = [s \in Seats(setup) |-> heard[s] \union {Message(s)}]
  /\ m' = setUpNewHand(setup, m)
  /\ pc' = IF m'.handId >= NumHands THEN "score" ELSE "send"
  /\ UNCHANGED <<setup, response, clock, files, inbox, restarts>>

(* The SCORE line, by seat.                                                *)
printFinalMessage ==
  /\ pc = "score"
  /\ log' = Append(log, [score |-> m.totalValue])
  /\ pc' = "over"
  /\ UNCHANGED <<setup, m, response, clock, tlog, pos, network, restarts>>

-----------------------------------------------------------------------------
(* The world outside.                                                      *)

(* A player sends a line: a comment, something that is no state, or a state*)
(* it was sent on this connection with an action.  Lines wait until the    *)
(* dealer reads, so it does not matter how long before that they came.     *)
SendLine(seat, line) ==
  /\ pc = "read"
  /\ SumFunction([s \in Seats(setup) |-> Len(inbox[s])]) < MaxUnread
  /\ inbox' = [inbox EXCEPT ![seat] = Append(@, line)]
  /\ UNCHANGED <<setup, pc, m, response, clock, files, heard, restarts>>

LinesOf(seat) ==
  {[kind |-> "comment"], [kind |-> "noise"]} \union
  [kind : {"response"}, about : heard[seat], asked : Asks]

Stopped == pc \in {"over", "failed", "down"}

(* checkVersion() fails, a message cannot be sent or a line written, or    *)
(* the program is killed.                                                  *)
Crash ==
  /\ ~Stopped
  /\ restarts < MaxRestarts
  /\ pc' = "down"
  /\ UNCHANGED <<setup, m, response, clock, files, network, restarts>>

Restart_mutantTruncates ==
  /\ pc \in {"failed", "down"}
  /\ restarts < MaxRestarts
  /\ restarts' = restarts + 1
  /\ pc' = "replay" /\ pos' = 0
  /\ m' = StartOfMatch(setup)
  /\ response' = NoResponse /\ clock' = 0
  /\ heard' = [s \in Seats(setup) |-> {}]
  /\ inbox' = [s \in Seats(setup) |-> << >>]
  /\ tlog' = << >>
  /\ UNCHANGED <<setup, log>>

(* main() runs again with the same arguments: files are appended to, the   *)
(* generator is seeded with the same seed, players connect again.          *)
Restart ==
  /\ pc \in {"failed", "down"}
  /\ restarts < MaxRestarts
  /\ restarts' = restarts + 1
  /\ pc' = "replay" /\ pos' = 0
  /\ m' = StartOfMatch(setup)
  /\ response' = NoResponse /\ clock' = 0
  /\ heard' = [s \in Seats(setup) |-> {}]
  /\ inbox' = [s \in Seats(setup) |-> << >>]
  /\ UNCHANGED <<setup, tlog, log>>

DealerStep ==
  \/ ReplayLine \/ ReplayDone
  \/ SendState \/ ReadFails \/ \E micros \in ArrivalTimes : ReadLine(micros)
  \/ logTransaction \/ DoAction \/ addToLogFile \/ SendFinal \/ printFinalMessage

Next ==
  \/ DealerStep
  \/ \E seat \in Seats(setup) : \E line \in LinesOf(seat) : SendLine(seat, line)
  \/ Crash
  \/ Restart

(* The dealer runs on while it can, and select() in getLine() returns in   *)
(* the end.  Nothing is assumed of the players, nor that a dealer that was *)
(* stopped is started again.                                               *)
Spec == Init /\ [][Next]_vars /\ WF_vars(DealerStep)
=============================================================================
