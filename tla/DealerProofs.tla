---------------------------- MODULE DealerProofs ----------------------------
(***************************************************************************)
(* Theorems about every match the dealer plays: whatever players send and  *)
(* whenever it fails, the transaction file describes one match of          *)
(* Match.tla, an action is played only in the state it answers, and the    *)
(* log adds up.                                                            *)
(***************************************************************************)
EXTENDS DealerProperties, AcpcGameProofs, SequenceTheorems

-----------------------------------------------------------------------------
(* The local state of gameLoop() at the top of its loop.                   *)

CountersOf(st) == [Seats(st) -> Nat]

ErrorInfoOf(st) ==
  [numInvalidActions : CountersOf(st), usedHandMicros : CountersOf(st),
   usedMatchMicros : CountersOf(st)]

LocalOf(st) ==
  [handId : Nat, player0Seat : Seats(st), dealt : Nat,
   state : StateType(st.game), totalValue : [Seats(st) -> Int],
   errorInfo : ErrorInfoOf(st)]

(* Seats and cards depend on the number of the hand alone.                 *)
Dealt(st, L) ==
  /\ L.player0Seat = IF st.fixedSeats THEN 0 ELSE L.handId % st.game.numPlayers
  /\ L.dealt = L.handId + 1

(* A hand is open, and nobody has used more time than the match allows.    *)
AtTop(st) ==
  {L \in LocalOf(st) :
     /\ Sound(st.game, L.state) /\ ~L.state.finished
     /\ Dealt(st, L)
     /\ \A s \in Seats(st) : L.errorInfo.usedMatchMicros[s] <= MaxUsedMatchMicros}

(* Only the raise of a no-limit game has a size.                           *)
Playable(st) ==
  [type : {"fold", "call"}, size : {0}] \union
  [type : {"raise"}, size : IF st.game.bettingType = "nolimit" THEN Chips ELSE {0}]

(* A line of the transaction file.                                         *)
Transaction(st) == [action : Playable(st), handId : 0..NumHands - 1, micros : Nat]

LEMMA SetupFacts ==
  ASSUME NEW st \in Setups
  PROVE  /\ IsGame(st.game) /\ st.game.numPlayers <= MAX_NUM_ACTIONS
         /\ Sound(st.game, initState(st.game)) /\ ~initState(st.game).finished
         /\ st.fixedSeats \in BOOLEAN
         /\ \A h \in 1..NumHands : st.deck[h] \in [Seats(st) -> Nat]
         /\ Seats(st) = 0..st.game.numPlayers - 1 /\ st.game.numPlayers \in Nat
         /\ st.game.numPlayers >= 2 /\ 0 \in Seats(st)
<1>1. /\ IsGame(st.game) /\ st.game.numPlayers <= MAX_NUM_ACTIONS
      /\ Sound(st.game, initState(st.game))
  BY SetupsAssumption, NewHandIsSound
<1>2. ~initState(st.game).finished
  BY DEF initState
<1>3. st.game.numPlayers \in Nat /\ st.game.numPlayers >= 2
  BY <1>1 DEF IsGame
<1>4. Seats(st) = 0..st.game.numPlayers - 1
  BY DEF Seats, Players
<1>5. 0 \in Seats(st)
  BY <1>3, <1>4
<1>6. QED
  BY <1>1, <1>2, <1>3, <1>4, <1>5, SetupsAssumption DEF Seats

LEMMA StartIsAtTop ==
  ASSUME NEW st \in Setups
  PROVE  StartOfMatch(st) \in AtTop(st)
<1> DEFINE L == StartOfMatch(st)
<1>1. [s \in Seats(st) |-> 0] \in CountersOf(st) /\ [s \in Seats(st) |-> 0] \in [Seats(st) -> Int]
  BY DEF CountersOf
<1>2. L.errorInfo \in ErrorInfoOf(st)
  BY <1>1 DEF ErrorInfoOf, StartOfMatch, initErrorInfo
<1>3. L.state \in StateType(st.game) /\ L.state = initState(st.game)
  BY SetupFacts DEF StartOfMatch, Sound, WellFormed
<1>4. L \in LocalOf(st)
  BY <1>1, <1>2, <1>3, SetupFacts DEF StartOfMatch, LocalOf
<1>5. Dealt(st, L)
  <2>1. 0 % st.game.numPlayers = 0
    BY SetupFacts
  <2>2. QED
    BY <2>1 DEF Dealt, StartOfMatch
<1>6. \A s \in Seats(st) : L.errorInfo.usedMatchMicros[s] = 0
  BY DEF StartOfMatch, initErrorInfo
<1>7. QED
  BY <1>3, <1>4, <1>5, <1>6, SetupFacts, DealerLimitsAssumption DEF AtTop

-----------------------------------------------------------------------------
(* What the operators of DealerMatch.tla do to the local state.            *)

LEMMA PlayableIsAsked ==
  ASSUME NEW st, NEW action \in Playable(st)
  PROVE  action \in AskedActions
BY LimitsAssumption DEF Playable, AskedActions, ActionTypes, Chips

LEMMA ActingSeatIsSeat ==
  ASSUME NEW st \in Setups, NEW L \in LocalOf(st),
         Sound(st.game, L.state), ~L.state.finished
  PROVE  ActingSeat(st, L) \in Seats(st)
<1>0. Seats(st) = 0..st.game.numPlayers - 1 /\ st.game.numPlayers \in Nat \ {0}
  BY SetupFacts
<1>1. PICK p \in Seats(st) : p = currentPlayer(st.game, L.state)
  BY SetupFacts, OpenHandHasActor DEF Seats
<1>5. L.player0Seat \in Seats(st)
  BY DEF LocalOf
<1>2. p \in Nat /\ L.player0Seat \in Nat
  BY <1>0, <1>1, <1>5
<1>3. (p + L.player0Seat) % st.game.numPlayers \in 0..st.game.numPlayers - 1
  BY <1>0, <1>2
<1>4. QED
  BY <1>0, <1>1, <1>3 DEF ActingSeat, playerToSeat

LEMMA ChargeEffect ==
  ASSUME NEW st, NEW info \in ErrorInfoOf(st), NEW seat \in Seats(st), NEW micros \in Nat
  PROVE  LET charged == Charge(info, seat, micros)
         IN  /\ charged \in ErrorInfoOf(st)
             /\ charged.numInvalidActions = info.numInvalidActions
             /\ \A s \in Seats(st) :
                  /\ charged.usedHandMicros[s]
                       = info.usedHandMicros[s] + (IF s = seat THEN micros ELSE 0)
                  /\ charged.usedMatchMicros[s]
                       = info.usedMatchMicros[s] + (IF s = seat THEN micros ELSE 0)
<1> DEFINE hand  == [info.usedHandMicros EXCEPT ![seat] = info.usedHandMicros[seat] + micros]
           match == [info.usedMatchMicros EXCEPT ![seat] = info.usedMatchMicros[seat] + micros]
<1>1. /\ info.usedHandMicros \in CountersOf(st) /\ info.usedMatchMicros \in CountersOf(st)
      /\ info.numInvalidActions \in CountersOf(st)
  BY DEF ErrorInfoOf
<1>2. /\ hand \in CountersOf(st) /\ match \in CountersOf(st)
      /\ \A s \in Seats(st) :
           /\ hand[s] = info.usedHandMicros[s] + (IF s = seat THEN micros ELSE 0)
           /\ match[s] = info.usedMatchMicros[s] + (IF s = seat THEN micros ELSE 0)
  BY <1>1 DEF CountersOf
<1>3. Charge(info, seat, micros)
        = [info EXCEPT !.usedHandMicros = hand, !.usedMatchMicros = match]
  BY DEF Charge, ErrorInfoOf
<1> HIDE DEF hand, match
<1>4. QED
  BY <1>1, <1>2, <1>3 DEF ErrorInfoOf

LEMMA AddValuesEffect ==
  ASSUME NEW st \in Setups, NEW L \in LocalOf(st)
  PROVE  LET added == AddValues(st, L)
         IN  /\ added \in LocalOf(st)
             /\ added.handId = L.handId /\ added.player0Seat = L.player0Seat
             /\ added.dealt = L.dealt /\ added.state = L.state
             /\ added.errorInfo = L.errorInfo
             /\ added.totalValue =
                  [s \in Seats(st) |->
                     L.totalValue[s] + HandValue(st, L)[seatToPlayer(st, L.player0Seat, s)]]
<1> DEFINE total == [s \in Seats(st) |->
                       L.totalValue[s]
                         + HandValue(st, L)[seatToPlayer(st, L.player0Seat, s)]]
<1>1. ASSUME NEW s \in Seats(st)
      PROVE  seatToPlayer(st, L.player0Seat, s) \in Seats(st)
  <2>1. Seats(st) = 0..st.game.numPlayers - 1 /\ st.game.numPlayers \in Nat \ {0}
    BY SetupFacts
  <2>2. L.player0Seat \in Seats(st)
    BY DEF LocalOf
  <2>3. s + st.game.numPlayers - L.player0Seat \in Nat
    BY <2>1, <2>2
  <2>4. QED
    BY <2>1, <2>3 DEF seatToPlayer
<1>2. HandValue(st, L) \in [Seats(st) -> Int]
  BY ValueIsANumber, SetupFacts DEF HandValue, Seats, LocalOf
<1>3. total \in [Seats(st) -> Int]
  BY <1>1, <1>2 DEF LocalOf
<1>4. AddValues(st, L) = [L EXCEPT !.totalValue = total]
  BY DEF AddValues
<1> HIDE DEF total
<1>5. QED
  BY <1>3, <1>4 DEF LocalOf, total

LEMMA NewHandEffect ==
  ASSUME NEW st \in Setups, NEW L \in LocalOf(st), Dealt(st, L)
  PROVE  LET next == setUpNewHand(st, L)
         IN  /\ next \in LocalOf(st) /\ Dealt(st, next)
             /\ next.handId = L.handId + 1
             /\ next.state = initState(st.game)
             /\ next.totalValue = L.totalValue
             /\ \A s \in Seats(st) : next.errorInfo.usedHandMicros[s] = 0
             /\ next.errorInfo.usedMatchMicros = L.errorInfo.usedMatchMicros
<1> DEFINE seat == IF st.fixedSeats THEN L.player0Seat
                   ELSE (L.player0Seat + 1) % st.game.numPlayers
           info == checkErrorNewHand(st, L.errorInfo)
           next == setUpNewHand(st, L)
<1>1. Seats(st) = 0..st.game.numPlayers - 1 /\ st.game.numPlayers \in Nat \ {0}
      /\ st.fixedSeats \in BOOLEAN /\ 0 \in Seats(st)
  BY SetupFacts
<1>2. L.player0Seat \in Seats(st) /\ L.handId \in Nat /\ L.dealt \in Nat
      /\ L.dealt = L.handId + 1
      /\ L.player0Seat = IF st.fixedSeats THEN 0 ELSE L.handId % st.game.numPlayers
  BY DEF LocalOf, Dealt
<1>3. /\ seat \in Seats(st)
      /\ seat = IF st.fixedSeats THEN 0 ELSE (L.handId + 1) % st.game.numPlayers
  <2>1. CASE st.fixedSeats
    BY <1>1, <1>2, <2>1
  <2>2. CASE ~st.fixedSeats
    <3>1. (L.handId + 1) % st.game.numPlayers
            = ((L.handId % st.game.numPlayers) + 1) % st.game.numPlayers
      BY <1>1, <1>2, NextRemainder
    <3>2. (L.player0Seat + 1) % st.game.numPlayers \in 0..st.game.numPlayers - 1
      <4>1. L.player0Seat + 1 \in Nat
        BY <1>1, <1>2
      <4>2. QED
        BY <1>1, <4>1
    <3>3. QED
      BY <1>1, <1>2, <2>2, <3>1, <3>2
  <2>3. QED
    BY <2>1, <2>2
<1>4. /\ info \in ErrorInfoOf(st)
      /\ \A s \in Seats(st) : info.usedHandMicros[s] = 0
      /\ info.usedMatchMicros = L.errorInfo.usedMatchMicros
  <2>1. [s \in Seats(st) |-> 0] \in CountersOf(st)
    BY DEF CountersOf
  <2>2. L.errorInfo \in ErrorInfoOf(st)
    BY DEF LocalOf
  <2>3. QED
    BY <2>1, <2>2 DEF checkErrorNewHand, ErrorInfoOf
<1>5. initState(st.game) \in StateType(st.game)
  BY SetupFacts DEF Sound, WellFormed
<1>6. PICK h \in Nat, d \in Nat, new \in StateType(st.game) :
        h = L.handId + 1 /\ d = L.dealt + 1 /\ new = initState(st.game)
  BY <1>2, <1>5
<1>7. /\ next.handId = L.handId + 1 /\ next.player0Seat = seat
      /\ next.dealt = L.dealt + 1 /\ next.state = initState(st.game)
      /\ next.totalValue = L.totalValue /\ next.errorInfo = info
      /\ next \in LocalOf(st)
  <2>1. next = [L EXCEPT !.handId = h, !.player0Seat = seat, !.dealt = d,
                         !.state = new, !.errorInfo = info]
    BY <1>6 DEF setUpNewHand
  <2> HIDE DEF seat, info, next
  <2>2. /\ next.handId = h /\ next.player0Seat = seat /\ next.dealt = d
        /\ next.state = new /\ next.totalValue = L.totalValue /\ next.errorInfo = info
        /\ next \in LocalOf(st)
    BY <1>3, <1>4, <2>1 DEF LocalOf
  <2>3. QED
    BY <1>6, <2>2
<1> HIDE DEF seat, info, next
<1>8. Dealt(st, next)
  BY <1>2, <1>3, <1>7 DEF Dealt
<1>9. QED
  BY <1>4, <1>7, <1>8 DEF next

(* The state after an action is sound, and the hand is open or over.       *)
LEMMA ActionEffect ==
  ASSUME NEW st \in Setups, NEW L \in LocalOf(st), Sound(st.game, L.state),
         NEW action \in Playable(st), isValidAction(st.game, L.state, FALSE, action)
  PROVE  LET next == doAction(st.game, L.state, action)
         IN  /\ Sound(st.game, next) /\ next \in StateType(st.game)
             /\ next.finished \in BOOLEAN
<1>1. action \in AskedActions
  BY PlayableIsAsked
<1>2. Sound(st.game, doAction(st.game, L.state, action))
  BY <1>1, SetupFacts, ValidActionKeepsSound
<1>3. QED
  BY <1>2 DEF Sound, WellFormed, StateType

(* A line of the file that is read, played and charged.                    *)
LEMMA ReplayedEffect ==
  ASSUME NEW st \in Setups, NEW L \in AtTop(st), NEW entry \in Transaction(st),
         isValidAction(st.game, L.state, FALSE, entry.action)
  PROVE  LET after == Replayed(st, L, entry)
         IN  /\ after \in LocalOf(st) /\ Dealt(st, after)
             /\ Sound(st.game, after.state)
             /\ after.handId = L.handId /\ after.player0Seat = L.player0Seat
             /\ after.dealt = L.dealt /\ after.totalValue = L.totalValue
             /\ after.state = doAction(st.game, L.state, entry.action)
             /\ after.errorInfo = Charge(L.errorInfo, ActingSeat(st, L), entry.micros)
<1> DEFINE info  == Charge(L.errorInfo, ActingSeat(st, L), entry.micros)
           next  == doAction(st.game, L.state, entry.action)
           after == Replayed(st, L, entry)
<1>1. /\ L \in LocalOf(st) /\ Sound(st.game, L.state) /\ ~L.state.finished
      /\ Dealt(st, L) /\ L.errorInfo \in ErrorInfoOf(st)
  BY DEF AtTop, LocalOf
<1>2. entry.action \in Playable(st) /\ entry.micros \in Nat
  BY DEF Transaction
<1>3. info \in ErrorInfoOf(st)
  BY <1>1, <1>2, ActingSeatIsSeat, ChargeEffect
<1>4. Sound(st.game, next) /\ next \in StateType(st.game)
  BY <1>1, <1>2, ActionEffect
<1>5. after = [L EXCEPT !.errorInfo = info, !.state = next]
  BY DEF Replayed
<1> HIDE DEF info, next, after
<1>6. /\ after.handId = L.handId /\ after.player0Seat = L.player0Seat
      /\ after.dealt = L.dealt /\ after.totalValue = L.totalValue
      /\ after.state = next /\ after.errorInfo = info
      /\ after \in LocalOf(st)
  BY <1>1, <1>3, <1>4, <1>5 DEF LocalOf
<1>7. Dealt(st, after)
  BY <1>1, <1>6 DEF Dealt
<1>8. QED
  BY <1>4, <1>6, <1>7 DEF info, next, after

(* A finished hand is settled and the next one set up.                     *)
Advance(st, L) == IF L.state.finished THEN NextHand(st, L) ELSE L

Settled(st, L) ==
  [s \in Seats(st) |->
     L.totalValue[s] + HandValue(st, L)[seatToPlayer(st, L.player0Seat, s)]]

LEMMA AdvanceEffect ==
  ASSUME NEW st \in Setups, NEW L \in LocalOf(st), Dealt(st, L), Sound(st.game, L.state)
  PROVE  LET next == Advance(st, L)
             over == L.state.finished
         IN  /\ next \in LocalOf(st) /\ Dealt(st, next)
             /\ Sound(st.game, next.state) /\ ~next.state.finished
             /\ next.handId = L.handId + (IF over THEN 1 ELSE 0)
             /\ next.state = IF over THEN initState(st.game) ELSE L.state
             /\ next.totalValue = IF over THEN Settled(st, L) ELSE L.totalValue
             /\ next.errorInfo.usedMatchMicros = L.errorInfo.usedMatchMicros
             /\ \A s \in Seats(st) :
                  next.errorInfo.usedHandMicros[s]
                    = IF over THEN 0 ELSE L.errorInfo.usedHandMicros[s]
<1> DEFINE next == Advance(st, L)
<1>1. L.handId \in Nat
  BY DEF LocalOf
<1>2. CASE ~L.state.finished
  BY <1>1, <1>2 DEF Advance
<1>3. CASE L.state.finished
  <2> DEFINE added == AddValues(st, L)
  <2>1. /\ added \in LocalOf(st)
        /\ added.handId = L.handId /\ added.player0Seat = L.player0Seat
        /\ added.dealt = L.dealt /\ added.errorInfo = L.errorInfo
        /\ added.totalValue = Settled(st, L)
    BY AddValuesEffect DEF Settled
  <2>2. Dealt(st, added)
    BY <2>1 DEF Dealt
  <2>3. next = setUpNewHand(st, added)
    BY <1>3 DEF Advance, NextHand
  <2> HIDE DEF added, next
  <2>4. /\ next \in LocalOf(st) /\ Dealt(st, next)
        /\ next.handId = added.handId + 1
        /\ next.state = initState(st.game)
        /\ next.totalValue = added.totalValue
        /\ \A s \in Seats(st) : next.errorInfo.usedHandMicros[s] = 0
        /\ next.errorInfo.usedMatchMicros = added.errorInfo.usedMatchMicros
    BY <2>1, <2>2, <2>3, NewHandEffect
  <2>5. Sound(st.game, next.state) /\ ~next.state.finished
    BY <2>4, SetupFacts
  <2>6. QED
    BY <1>3, <2>1, <2>4, <2>5 DEF next
<1>4. QED
  BY <1>2, <1>3

(* One line of the file takes the match from the top of the loop to the    *)
(* top of the loop, or fails.                                              *)
Accepts(st, L, entry) ==
  /\ entry.handId = L.handId
  /\ isValidAction(st.game, L.state, FALSE, entry.action)
  /\ ~OutOfTime(Replayed(st, L, entry).errorInfo, ActingSeat(st, L), entry.micros)

LEMMA ReplayIsAdvance ==
  ASSUME NEW st, NEW L, NEW entry
  PROVE  ReplayEntry(st, L, entry) =
           IF Accepts(st, L, entry) THEN <<Advance(st, Replayed(st, L, entry))>>
           ELSE << >>
BY DEF ReplayEntry, Accepts, Advance

LEMMA AcceptedIsAtTop ==
  ASSUME NEW st \in Setups, NEW L \in AtTop(st), NEW entry \in Transaction(st),
         Accepts(st, L, entry)
  PROVE  Advance(st, Replayed(st, L, entry)) \in AtTop(st)
<1> DEFINE after == Replayed(st, L, entry)
           next  == Advance(st, after)
           seat  == ActingSeat(st, L)
<1>1. /\ after \in LocalOf(st) /\ Dealt(st, after) /\ Sound(st.game, after.state)
      /\ after.errorInfo = Charge(L.errorInfo, seat, entry.micros)
  BY ReplayedEffect DEF Accepts
<1>2. /\ next \in LocalOf(st) /\ Dealt(st, next)
      /\ Sound(st.game, next.state) /\ ~next.state.finished
      /\ next.errorInfo.usedMatchMicros = after.errorInfo.usedMatchMicros
  <2> HIDE DEF after
  <2>1. QED
    BY <1>1, AdvanceEffect
<1>3. seat \in Seats(st) /\ entry.micros \in Nat /\ L.errorInfo \in ErrorInfoOf(st)
  BY ActingSeatIsSeat DEF AtTop, LocalOf, Transaction
<1>4. after.errorInfo.usedMatchMicros[seat] \in Nat
  <2>1. PICK info : info = after.errorInfo /\ info \in ErrorInfoOf(st)
    BY <1>1, <1>3, ChargeEffect
  <2>2. info.usedMatchMicros[seat] \in Nat
    BY <2>1, <1>3 DEF ErrorInfoOf, CountersOf
  <2>3. QED
    BY <2>1, <2>2, Zenon
<1>5. after.errorInfo.usedMatchMicros[seat] <= MaxUsedMatchMicros
  <2>1. ~(after.errorInfo.usedMatchMicros[seat] > MaxUsedMatchMicros)
    BY DEF Accepts, OutOfTime
  <2> HIDE DEF after, seat
  <2>2. QED
    BY <1>4, <2>1, DealerLimitsAssumption
<1>6. \A s \in Seats(st) : after.errorInfo.usedMatchMicros[s] <= MaxUsedMatchMicros
  <2>1. TAKE s \in Seats(st)
  <2>2. CASE s = seat
    BY <1>5, <2>2
  <2>3. CASE s # seat
    <3>1. after.errorInfo.usedMatchMicros[s] = L.errorInfo.usedMatchMicros[s] + 0
      BY <1>1, <1>3, <2>3, ChargeEffect
    <3>2. /\ L.errorInfo.usedMatchMicros[s] \in Nat
          /\ L.errorInfo.usedMatchMicros[s] <= MaxUsedMatchMicros
      BY <1>3 DEF AtTop, ErrorInfoOf, CountersOf
    <3>3. QED
      BY <3>1, <3>2
  <2>4. QED
    BY <2>2, <2>3
<1>7. QED
  BY <1>2, <1>6 DEF AtTop

-----------------------------------------------------------------------------
(* The transaction file, line by line.                                     *)

(* What processTransactionFile() can return.                               *)
Found(st) == {<< >>} \union {<<L>> : L \in AtTop(st)}

ReplayNext(st, before, entry) ==
  IF before = << >> THEN << >> ELSE ReplayEntry(st, before[1], entry)

IsReplay(st, file, f) ==
  /\ f[0] = <<StartOfMatch(st)>>
  /\ \A i \in 1..Len(file) : f[i] = ReplayNext(st, f[i - 1], file[i])

LEMMA ReplayStaysFound ==
  ASSUME NEW st \in Setups, NEW before \in Found(st), NEW entry \in Transaction(st)
  PROVE  ReplayNext(st, before, entry) \in Found(st)
<1>1. CASE before = << >>
  BY <1>1 DEF ReplayNext, Found
<1>2. CASE before # << >>
  <2>1. PICK L \in AtTop(st) : before = <<L>>
    BY <1>2 DEF Found
  <2>2. ReplayNext(st, before, entry) = ReplayEntry(st, L, entry)
    BY <2>1 DEF ReplayNext
  <2>3. QED
    BY <2>2, ReplayIsAdvance, AcceptedIsAtTop DEF Found
<1>3. QED
  BY <1>1, <1>2

LEMMA FileIsReplayed ==
  ASSUME NEW st \in Setups, NEW file \in Seq(Transaction(st))
  PROVE  \E f \in [0..Len(file) -> Found(st)] :
           /\ IsReplay(st, file, f)
           /\ processTransactionFile(st, file) = f[Len(file)]
<1>0. PICK n \in Nat : n = Len(file)
  OBVIOUS
<1>12. PICK start : start = <<StartOfMatch(st)>>
  OBVIOUS
<1> DEFINE step == [x \in Found(st) \X (1..n) |-> ReplayNext(st, x[1], file[x[2]])]
           Body(g) == g = [i \in 0..n |->
                             IF i = 0 THEN start
                             ELSE LET before == g[i - 1]
                                  IN  IF before = << >> THEN << >>
                                      ELSE ReplayEntry(st, before[1], file[i])]
<1>1. \A i \in 1..n : file[i] \in Transaction(st)
  BY <1>0
<1>2. start \in Found(st)
  BY <1>12, StartIsAtTop DEF Found
<1>3. step \in [Found(st) \X (1..n) -> Found(st)]
  BY <1>1, ReplayStaysFound
<1>4. PICK f \in [0..n -> Found(st)] :
        f[0] = start /\ \A i \in 1..n : f[i] = step[<<f[i - 1], i>>]
  <2> HIDE DEF step
  <2>1. StepsIn(Found(st), start, n, step)
    BY <1>2, <1>3 DEF StepsIn
  <2>2. PICK f : IsSteps(Found(st), start, n, step, f)
    BY <2>1, StepByStep
  <2>3. QED
    BY <2>2 DEF IsSteps
<1>5. \A i \in 1..n : f[i] = ReplayNext(st, f[i - 1], file[i])
  <2>1. TAKE i \in 1..n
  <2>2. f[i - 1] \in Found(st)
    BY <1>1, <1>4
  <2>3. QED
    BY <1>4, <2>2
<1>6. Body(f)
  <2>1. f = [i \in 0..n |-> f[i]]
    OBVIOUS
  <2>2. \A i \in 0..n : i = 0 \/ i \in 1..n
    BY <1>1
  <2>3. QED
    BY <1>4, <1>5, <2>1, <2>2 DEF ReplayNext
<1>7. PICK g : Body(g) /\ processTransactionFile(st, file) = g[n]
  <2>1. processTransactionFile(st, file) = (CHOOSE g : Body(g))[n]
    BY <1>0, <1>12 DEF processTransactionFile
  <2>2. Body(CHOOSE g : Body(g))
    BY <1>6, Zenon
  <2>3. QED
    BY <2>1, <2>2
<1>8. g[0] = start /\ \A i \in 1..n : g[i] = ReplayNext(st, g[i - 1], file[i])
  BY <1>7 DEF ReplayNext
<1>9. \A i \in 0..n : f[i] = g[i]
  <2>1. f[0] = g[0]
    BY <1>4, <1>8
  <2>2. \A i \in 1..n : f[i - 1] = g[i - 1] => f[i] = g[i]
    BY <1>5, <1>8
  <2>3. GoOnAlike(n, f, g)
    BY <2>1, <2>2 DEF GoOnAlike
  <2>4. QED
    BY <2>3, SameSteps
<1>10. processTransactionFile(st, file) = f[n]
  BY <1>7, <1>9
<1>11. QED
  BY <1>0, <1>4, <1>5, <1>10, <1>12 DEF IsReplay

LEMMA EmptyFile ==
  ASSUME NEW st \in Setups
  PROVE  processTransactionFile(st, << >>) = <<StartOfMatch(st)>>
<1>1. PICK none : none = << >>
  OBVIOUS
<1>2. none \in Seq(Transaction(st)) /\ Len(none) = 0
  BY <1>1
<1>3. PICK f : IsReplay(st, none, f) /\ processTransactionFile(st, none) = f[Len(none)]
  BY <1>2, FileIsReplayed
<1>4. processTransactionFile(st, none) = <<StartOfMatch(st)>>
  BY <1>2, <1>3 DEF IsReplay
<1>5. QED
  BY <1>1, <1>4

LEMMA LongerFile ==
  ASSUME NEW st \in Setups, NEW file \in Seq(Transaction(st)), NEW entry \in Transaction(st)
  PROVE  /\ processTransactionFile(st, file) \in Found(st)
         /\ processTransactionFile(st, Append(file, entry))
              = ReplayNext(st, processTransactionFile(st, file), entry)
<1>0. PICK n \in Nat : n = Len(file)
  OBVIOUS
<1>8. PICK longer : longer = Append(file, entry)
  OBVIOUS
<1>1. /\ longer \in Seq(Transaction(st)) /\ Len(longer) = n + 1
      /\ longer[n + 1] = entry /\ \A i \in 1..n : longer[i] = file[i]
  BY <1>0, <1>8
<1>2. PICK f \in [0..n -> Found(st)] :
        IsReplay(st, file, f) /\ processTransactionFile(st, file) = f[n]
  BY <1>0, FileIsReplayed
<1>3. PICK g \in [0..n + 1 -> Found(st)] :
        IsReplay(st, longer, g) /\ processTransactionFile(st, longer) = g[n + 1]
  BY <1>1, FileIsReplayed
<1>4. \A i \in 1..n : f[i - 1] = g[i - 1] => f[i] = g[i]
  BY <1>0, <1>1, <1>2, <1>3 DEF IsReplay
<1>9. GoOnAlike(n, f, g)
  BY <1>2, <1>3, <1>4 DEF IsReplay, GoOnAlike
<1>5. \A i \in 0..n : f[i] = g[i]
  BY <1>9, SameSteps
<1>6. g[n + 1] = ReplayNext(st, g[n], entry)
  <2>1. n + 1 \in 1..Len(longer) /\ n + 1 - 1 = n
    BY <1>1
  <2>2. QED
    BY <1>1, <1>3, <2>1 DEF IsReplay
<1>7. QED
  BY <1>0, <1>2, <1>3, <1>5, <1>6, <1>8

(* The file without its last lines.                                        *)
FirstLines(file, i) == SubSeq(file, 1, i)

LEMMA FirstLinesEffect ==
  ASSUME NEW S, NEW file \in Seq(S)
  PROVE  /\ FirstLines(file, 0) = << >>
         /\ FirstLines(file, Len(file)) = file
         /\ \A i \in 0..Len(file) : FirstLines(file, i) \in Seq(S)
         /\ \A i \in 1..Len(file) :
              FirstLines(file, i) = Append(FirstLines(file, i - 1), file[i])
BY DEF FirstLines

LEMMA LineAfterLine ==
  ASSUME NEW st \in Setups, NEW file \in Seq(Transaction(st))
  PROVE  /\ processTransactionFile(st, FirstLines(file, 0)) = <<StartOfMatch(st)>>
         /\ processTransactionFile(st, FirstLines(file, Len(file)))
              = processTransactionFile(st, file)
         /\ \A i \in 0..Len(file) :
              processTransactionFile(st, FirstLines(file, i)) \in Found(st)
         /\ \A i \in 1..Len(file) :
              processTransactionFile(st, FirstLines(file, i))
                = ReplayNext(st, processTransactionFile(st, FirstLines(file, i - 1)), file[i])
<1>1. processTransactionFile(st, FirstLines(file, 0)) = <<StartOfMatch(st)>>
  BY EmptyFile, FirstLinesEffect
<1>2. \A i \in 0..Len(file) : FirstLines(file, i) \in Seq(Transaction(st))
  BY FirstLinesEffect
<1>3. ASSUME NEW i \in 0..Len(file)
      PROVE  processTransactionFile(st, FirstLines(file, i)) \in Found(st)
  <2>1. PICK before \in Seq(Transaction(st)) : before = FirstLines(file, i)
    BY <1>2
  <2>2. PICK f \in [0..Len(before) -> Found(st)] :
          processTransactionFile(st, before) = f[Len(before)]
    BY FileIsReplayed
  <2>3. QED
    BY <2>1, <2>2
<1>4. ASSUME NEW i \in 1..Len(file)
      PROVE  processTransactionFile(st, FirstLines(file, i))
               = ReplayNext(st, processTransactionFile(st, FirstLines(file, i - 1)), file[i])
  <2>1. i - 1 \in 0..Len(file) /\ file[i] \in Transaction(st)
    OBVIOUS
  <2>2. PICK before \in Seq(Transaction(st)) : before = FirstLines(file, i - 1)
    BY <1>2, <2>1
  <2>3. FirstLines(file, i) = Append(before, file[i])
    BY <2>2, FirstLinesEffect
  <2>4. QED
    BY <2>1, <2>2, <2>3, LongerFile
<1>5. QED
  BY <1>1, <1>3, <1>4, FirstLinesEffect

(* If the end of the file can be reached, so can every line of it.         *)
LEMMA NoLineFails ==
  ASSUME NEW st \in Setups, NEW file \in Seq(Transaction(st)),
         processTransactionFile(st, file) # << >>
  PROVE  \A i \in 0..Len(file) :
           processTransactionFile(st, FirstLines(file, i)) # << >>
<1>1. PICK at : at = [i \in 0..Len(file) |-> processTransactionFile(st, FirstLines(file, i))]
  OBVIOUS
<1>2. PICK n \in Nat : n = Len(file)
  OBVIOUS
<1>3. at[n] # << >> /\ \A i \in 1..n : at[i - 1] = << >> => at[i] = << >>
  <2>1. at[n] # << >>
    BY <1>1, <1>2, LineAfterLine
  <2>2. ASSUME NEW i \in 1..n, at[i - 1] = << >>
        PROVE  at[i] = << >>
    <3>1. i - 1 \in 0..Len(file) /\ i \in 0..Len(file) /\ i \in 1..Len(file)
      BY <1>2
    <3>2. at[i] = ReplayNext(st, at[i - 1], file[i])
      BY <1>1, <3>1, LineAfterLine
    <3>3. QED
      BY <2>2, <3>2 DEF ReplayNext
  <2>3. QED
    BY <2>1, <2>2
<1> DEFINE Fine == {k \in 0..n : at[n - k] # << >>}
           Bad == (0..n) \ Fine
<1>4. Bad = {}
  <2>1. SUFFICES ASSUME Bad # {}
                 PROVE  FALSE
    OBVIOUS
  <2>2. PICK k \in Bad : \A j \in Bad : k <= j
    <3>1. Bad \subseteq Nat
      OBVIOUS
    <3> HIDE DEF Bad
    <3>2. QED
      BY <2>1, <3>1, MinOfNats
  <2>3. k # 0 /\ k \in 1..n
    BY <1>3
  <2>4. k - 1 \in 0..n /\ k - 1 < k
    BY <2>3
  <2>5. at[n - (k - 1)] # << >>
    BY <2>2, <2>4
  <2>6. n - k + 1 = n - (k - 1) /\ n - k + 1 \in 1..n /\ (n - k + 1) - 1 = n - k
    BY <2>3
  <2>7. at[n - k] # << >>
    BY <1>3, <2>5, <2>6
  <2>8. QED
    BY <2>3, <2>7
<1>5. ASSUME NEW i \in 0..n
      PROVE  at[i] # << >>
  <2>1. n - i \in 0..n /\ n - (n - i) = i
    BY <1>2
  <2>2. n - i \in Fine
    BY <1>4, <2>1
  <2>3. QED
    BY <2>1, <2>2
<1>6. QED
  BY <1>1, <1>2, <1>5

-----------------------------------------------------------------------------
(* A message shows one more action after every action of a hand.           *)
LEMMA BettingGrows ==
  ASSUME NEW g, IsGame(g), NEW s, Sound(g, s), g.numPlayers <= MAX_NUM_ACTIONS,
         NEW action \in AskedActions, isValidAction(g, s, FALSE, action)
  PROVE  /\ Len(printBetting(s)) \in Nat
         /\ Len(printBetting(doAction(g, s, action))) = Len(printBetting(s)) + 1
<1>1. PICK b \in Betted : b = printBetting(s)
  BY BettingIsASequence DEF Sound, WellFormed
<1>2. printBetting(doAction(g, s, action)) = Append(b, action)
  BY <1>1, ActionIsPrinted
<1>3. QED
  BY <1>1, <1>2 DEF Betted

-----------------------------------------------------------------------------
(* The inductive invariant.                                                *)

(* The local state anywhere in the loop: the hand may be over.             *)
InMatch(st) ==
  {L \in LocalOf(st) : Dealt(st, L) /\ Sound(st.game, L.state)}

Phases ==
  {"replay", "send", "read", "log", "act", "logHand", "sendFinal",
   "score", "over", "failed", "down"}

TypesInv ==
  /\ setup \in Setups /\ pc \in Phases
  /\ clock \in Nat /\ restarts \in 0..MaxRestarts
  /\ m \in InMatch(setup)
  /\ tlog \in Seq(Transaction(setup)) /\ pos \in 0..Len(tlog)

(* Every line of the transaction file can be replayed, and so far that is  *)
(* what a program that is starting up has done.                            *)
FileInv ==
  /\ recorded = processTransactionFile(setup, tlog)
  /\ recorded # << >>
  /\ pc = "replay" => processTransactionFile(setup, FirstLines(tlog, pos)) = <<m>>

(* The action about to be recorded and played is a valid one, taken in the *)
(* time the player has, and answers what was sent last.                    *)
AnswerInv ==
  /\ pc \in {"send", "read", "log", "act"} => m.handId < NumHands
  /\ pc \in {"log", "act"} =>
       /\ response.action \in Playable(setup) /\ response.micros \in Nat
       /\ isValidAction(Game, m.state, FALSE, response.action)
  /\ pc = "log" =>
       /\ ~OutOfTime(m.errorInfo, ActingSeat(setup, m), response.micros)
       /\ response.about.at = Len(tlog)

(* Nobody has used less time than the file accounts for: lines that were   *)
(* skipped are charged but not recorded.                                   *)
NoLess(st, info, used) ==
  \A s \in Seats(st) :
    /\ info.usedHandMicros[s] <= used.usedHandMicros[s]
    /\ info.usedMatchMicros[s] <= used.usedMatchMicros[s]

Follows(st, r, info, L) == Essence(r) = Essence(L) /\ NoLess(st, info, L.errorInfo)

(* What the file accounts for, with the action about to be recorded.       *)
TimeAccounted ==
  IF pc = "log" THEN Charge(recorded[1].errorInfo, ActingSeat(setup, m), response.micros)
  ELSE recorded[1].errorInfo

MatchInv ==
  pc \notin {"replay", "failed", "down"} =>
    Follows(setup, recorded[1], TimeAccounted, Caught)

(* A message about the hand being played shows less of its betting than    *)
(* has been recorded, or it was sent since the last line was written.      *)
Older(msg, file, r) ==
  LET shown == Len(msg.says.betting)
      known == Len(printBetting(r.state))
  IN  \/ msg.says.handId < r.handId
      \/ /\ msg.says.handId = r.handId /\ shown \in Nat
         /\ shown < known \/ (shown = known /\ msg.at = Len(file))

HeardInv ==
  \A s \in Seats(setup) :
    /\ \A msg \in heard[s] : msg.says.handId \in Nat /\ Older(msg, tlog, recorded[1])
    /\ inbox[s] \in Seq(LinesOf(s))

DealerInv == TypesInv /\ FileInv /\ AnswerInv /\ MatchInv /\ HeardInv

-----------------------------------------------------------------------------
(* The local state after what gameLoop() does to it.                       *)

LEMMA EssenceIsEqual ==
  ASSUME NEW L, NEW K
  PROVE  Essence(L) = Essence(K) <=>
           /\ L.handId = K.handId /\ L.player0Seat = K.player0Seat
           /\ L.dealt = K.dealt /\ L.state = K.state /\ L.totalValue = K.totalValue
BY DEF Essence

LEMMA AtTopIsInMatch ==
  ASSUME NEW st, NEW L \in AtTop(st)
  PROVE  L \in InMatch(st)
BY DEF AtTop, InMatch

Timed(L, info) == [L EXCEPT !.errorInfo = info]

LEMMA TimedEffect ==
  ASSUME NEW st, NEW L \in InMatch(st), NEW info \in ErrorInfoOf(st)
  PROVE  LET timed == Timed(L, info)
         IN  /\ timed \in InMatch(st) /\ timed.errorInfo = info
             /\ timed.handId = L.handId /\ timed.player0Seat = L.player0Seat
             /\ timed.dealt = L.dealt /\ timed.state = L.state
             /\ timed.totalValue = L.totalValue
BY DEF Timed, InMatch, LocalOf, Dealt

LEMMA CountInvalidEffect ==
  ASSUME NEW st, NEW info \in ErrorInfoOf(st), NEW seat \in Seats(st)
  PROVE  LET counted == CountInvalidAction(info, seat)
         IN  /\ counted \in ErrorInfoOf(st)
             /\ counted.usedHandMicros = info.usedHandMicros
             /\ counted.usedMatchMicros = info.usedMatchMicros
<1>1. /\ info.numInvalidActions \in CountersOf(st)
      /\ info.numInvalidActions[seat] + 1 \in Nat
  BY DEF ErrorInfoOf, CountersOf
<1>2. PICK count \in CountersOf(st) :
        count = [info.numInvalidActions EXCEPT ![seat] = info.numInvalidActions[seat] + 1]
  BY <1>1 DEF CountersOf
<1>3. CountInvalidAction(info, seat) = [info EXCEPT !.numInvalidActions = count]
  BY <1>2 DEF CountInvalidAction
<1>4. QED
  BY <1>2, <1>3 DEF ErrorInfoOf

LEMMA NextHandIsInMatch ==
  ASSUME NEW st \in Setups, NEW L \in InMatch(st)
  PROVE  setUpNewHand(st, L) \in InMatch(st)
BY SetupFacts, NewHandEffect DEF InMatch

(* The action is played, the counters stay.                                *)
Moved(st, L, action) == [L EXCEPT !.state = doAction(st.game, L.state, action)]

LEMMA MovedEffect ==
  ASSUME NEW st \in Setups, NEW L \in InMatch(st), NEW action \in Playable(st),
         isValidAction(st.game, L.state, FALSE, action)
  PROVE  LET next == Moved(st, L, action)
         IN  /\ next \in InMatch(st)
             /\ next.handId = L.handId /\ next.player0Seat = L.player0Seat
             /\ next.dealt = L.dealt /\ next.totalValue = L.totalValue
             /\ next.errorInfo = L.errorInfo
             /\ next.state = doAction(st.game, L.state, action)
<1>1. PICK new : new = doAction(st.game, L.state, action)
  OBVIOUS
<1>2. Sound(st.game, new) /\ new \in StateType(st.game)
  BY <1>1, ActionEffect DEF InMatch
<1>3. QED
  BY <1>1, <1>2 DEF Moved, InMatch, LocalOf, Dealt

(* What goes on alike is settled alike.                                    *)
LEMMA AdvanceAlike ==
  ASSUME NEW st \in Setups, NEW r \in InMatch(st), NEW L \in InMatch(st),
         Follows(st, r, r.errorInfo, L)
  PROVE  Follows(st, Advance(st, r), Advance(st, r).errorInfo, Advance(st, L))
<1>1. /\ r.handId = L.handId /\ r.player0Seat = L.player0Seat
      /\ r.dealt = L.dealt /\ r.state = L.state /\ r.totalValue = L.totalValue
  BY EssenceIsEqual DEF Follows
<1>2. Settled(st, r) = Settled(st, L)
  BY <1>1 DEF Settled, HandValue
<1>3. PICK a, b : a = Advance(st, r) /\ b = Advance(st, L)
  OBVIOUS
<1>4. PICK over \in BOOLEAN : over = L.state.finished
  BY DEF InMatch, LocalOf, StateType
<1>5. /\ a \in LocalOf(st) /\ Dealt(st, a) /\ b \in LocalOf(st) /\ Dealt(st, b)
      /\ a.handId = b.handId /\ a.state = b.state /\ a.totalValue = b.totalValue
      /\ a.errorInfo.usedMatchMicros = r.errorInfo.usedMatchMicros
      /\ b.errorInfo.usedMatchMicros = L.errorInfo.usedMatchMicros
      /\ \A s \in Seats(st) :
           /\ a.errorInfo.usedHandMicros[s] = IF over THEN 0 ELSE r.errorInfo.usedHandMicros[s]
           /\ b.errorInfo.usedHandMicros[s] = IF over THEN 0 ELSE L.errorInfo.usedHandMicros[s]
  BY <1>1, <1>2, <1>3, <1>4, AdvanceEffect DEF InMatch
<1>6. a.player0Seat = b.player0Seat /\ a.dealt = b.dealt
  BY <1>5 DEF Dealt
<1>7. Essence(a) = Essence(b)
  BY <1>5, <1>6, EssenceIsEqual
<1>8. NoLess(st, r.errorInfo, L.errorInfo)
  BY DEF Follows
<1>9. NoLess(st, a.errorInfo, b.errorInfo)
  BY <1>5, <1>8 DEF NoLess
<1>10. QED
  BY <1>3, <1>7, <1>9 DEF Follows

(* The line that is written takes the file to where gameLoop() goes on.    *)
LEMMA RecordedAlike ==
  ASSUME NEW st \in Setups, NEW r \in AtTop(st), NEW L \in InMatch(st),
         NEW entry \in Transaction(st), entry.handId = L.handId,
         isValidAction(st.game, L.state, FALSE, entry.action),
         ~OutOfTime(L.errorInfo, ActingSeat(st, L), entry.micros),
         Follows(st, r, Charge(r.errorInfo, ActingSeat(st, L), entry.micros), L)
  PROVE  LET after == Replayed(st, r, entry)
             next  == Moved(st, L, entry.action)
         IN  /\ Accepts(st, r, entry)
             /\ after \in InMatch(st) /\ next \in InMatch(st)
             /\ Follows(st, after, after.errorInfo, next)
<1> DEFINE seat == ActingSeat(st, L)
<1>1. /\ r.handId = L.handId /\ r.player0Seat = L.player0Seat
      /\ r.dealt = L.dealt /\ r.state = L.state /\ r.totalValue = L.totalValue
  BY EssenceIsEqual DEF Follows
<1>2. ActingSeat(st, r) = seat
  BY <1>1 DEF ActingSeat
<1>3. PICK after, next, info :
        /\ after = Replayed(st, r, entry)
        /\ next = Moved(st, L, entry.action)
        /\ info = Charge(r.errorInfo, seat, entry.micros)
  OBVIOUS
<1>4. /\ after \in InMatch(st)
      /\ after.handId = r.handId /\ after.player0Seat = r.player0Seat
      /\ after.dealt = r.dealt /\ after.totalValue = r.totalValue
      /\ after.state = doAction(st.game, r.state, entry.action)
      /\ after.errorInfo = info
  BY <1>1, <1>2, <1>3, ReplayedEffect DEF InMatch
<1>5. /\ next \in InMatch(st)
      /\ next.handId = L.handId /\ next.player0Seat = L.player0Seat
      /\ next.dealt = L.dealt /\ next.totalValue = L.totalValue
      /\ next.errorInfo = L.errorInfo
      /\ next.state = doAction(st.game, L.state, entry.action)
  <2>1. PICK action \in Playable(st) : action = entry.action
    BY DEF Transaction
  <2>2. isValidAction(st.game, L.state, FALSE, action)
        /\ next = Moved(st, L, action)
    BY <1>3, <2>1
  <2>3. QED
    BY <2>1, <2>2, MovedEffect
<1>6. NoLess(st, info, L.errorInfo)
  BY <1>3 DEF Follows
<1>7. Follows(st, after, after.errorInfo, next)
  BY <1>1, <1>4, <1>5, <1>6, EssenceIsEqual DEF Follows
<1>8. ~OutOfTime(info, seat, entry.micros)
  <2>1. seat \in Seats(st)
    BY <1>1, <1>2, ActingSeatIsSeat DEF AtTop
  <2>2. info \in ErrorInfoOf(st) /\ L.errorInfo \in ErrorInfoOf(st)
    BY <1>4, <1>5 DEF InMatch, LocalOf
  <2>3. /\ info.usedHandMicros[seat] \in Nat /\ info.usedMatchMicros[seat] \in Nat
        /\ L.errorInfo.usedHandMicros[seat] \in Nat /\ L.errorInfo.usedMatchMicros[seat] \in Nat
    BY <2>1, <2>2 DEF ErrorInfoOf, CountersOf
  <2>4. /\ info.usedHandMicros[seat] <= L.errorInfo.usedHandMicros[seat]
        /\ info.usedMatchMicros[seat] <= L.errorInfo.usedMatchMicros[seat]
    BY <1>6, <2>1 DEF NoLess
  <2> HIDE DEF seat
  <2>5. /\ ~(entry.micros > MaxResponseMicros)
        /\ ~(L.errorInfo.usedHandMicros[seat] > MaxUsedHandMicros)
        /\ ~(L.errorInfo.usedMatchMicros[seat] > MaxUsedMatchMicros)
    BY DEF OutOfTime, seat
  <2>6. QED
    BY <2>3, <2>4, <2>5, DealerLimitsAssumption DEF OutOfTime
<1>9. Accepts(st, r, entry)
  BY <1>1, <1>2, <1>3, <1>4, <1>8 DEF Accepts
<1>10. QED
  BY <1>3, <1>4, <1>5, <1>7, <1>9

(* What readPlayerResponse() returns is valid, whatever was asked for.     *)
LEMMA CallsAreValid ==
  ASSUME NEW st, NEW s, ~s.finished
  PROVE  Calls \in Playable(st) /\ isValidAction(st.game, s, FALSE, Calls)
BY DEF Calls, Playable, isValidAction, ActionTypes

LEMMA FixedIsPlayable ==
  ASSUME NEW st \in Setups, NEW s, Sound(st.game, s), NEW asked \in Asks,
         asked.type # "garbled", isValidAction(st.game, s, TRUE, asked)
  PROVE  /\ fixAction(st.game, s, asked) \in Playable(st)
         /\ isValidAction(st.game, s, FALSE, fixAction(st.game, s, asked))
<1>1. asked \in AskedActions
  BY AsksAssumption DEF AskedActions
<1>2. PICK done : done = fixAction(st.game, s, asked)
  OBVIOUS
<1>3. /\ done \in AskedActions /\ done.type = asked.type
      /\ isValidAction(st.game, s, FALSE, done)
      /\ asked.type # "raise" => done.size = 0
      /\ asked.type = "raise" /\ st.game.bettingType = "nolimit" => done.size \in Chips
      /\ asked.type = "raise" /\ st.game.bettingType # "nolimit" => done = asked
  BY <1>1, <1>2, SetupFacts, FixedActionIsValid
<1>4. asked.type # "raise" \/ st.game.bettingType # "nolimit" => asked.size = 0
  BY AsksAssumption
<1>5. done.type \in {"fold", "call", "raise"}
  BY <1>3 DEF AskedActions, ActionTypes
<1>6. done = [type |-> done.type, size |-> done.size]
  BY <1>3 DEF AskedActions
<1>7. CASE done.type = "raise"
  <2>1. done.size \in IF st.game.bettingType = "nolimit" THEN Chips ELSE {0}
    BY <1>3, <1>4, <1>7
  <2>2. done \in [type : {"raise"},
                   size : IF st.game.bettingType = "nolimit" THEN Chips ELSE {0}]
    BY <1>6, <1>7, <2>1
  <2>3. QED
    BY <1>2, <1>3, <2>2 DEF Playable
<1>8. CASE done.type # "raise"
  <2>1. done.type \in {"fold", "call"} /\ done.size \in {0}
    BY <1>3, <1>5, <1>8
  <2>2. done \in [type : {"fold", "call"}, size : {0}]
    BY <1>6, <2>1
  <2>3. QED
    BY <1>2, <1>3, <2>2 DEF Playable
<1>9. QED
  BY <1>2, <1>3, <1>7, <1>8

-----------------------------------------------------------------------------
(* The time a seat's recorded actions took is what a program that reads    *)
(* the file charges it for.                                                *)

TimeIn(st, file, seat) ==
  LET before(i) == processTransactionFile(st, SubSeq(file, 1, i - 1))
      used[i \in 0..Len(file)] ==
        IF i = 0 THEN 0
        ELSE used[i - 1] + (IF ActingSeat(st, before(i)[1]) = seat
                              THEN file[i].micros ELSE 0)
  IN  used[Len(file)]

LEMMA TimeIsCharged ==
  ASSUME NEW st \in Setups, NEW file \in Seq(Transaction(st)), NEW seat \in Seats(st),
         processTransactionFile(st, file) # << >>
  PROVE  TimeIn(st, file, seat)
           = processTransactionFile(st, file)[1].errorInfo.usedMatchMicros[seat]
<1>1. PICK n \in Nat : n = Len(file)
  OBVIOUS
<1>2. PICK at : at = [i \in 0..n |-> processTransactionFile(st, FirstLines(file, i))]
  OBVIOUS
<1>3. /\ at[0] = <<StartOfMatch(st)>> /\ at[n] = processTransactionFile(st, file)
      /\ \A i \in 0..n : at[i] \in Found(st) /\ at[i] # << >>
      /\ \A i \in 1..n : at[i] = ReplayNext(st, at[i - 1], file[i])
  <2>1. /\ 0 \in 0..n /\ n \in 0..n /\ \A i \in 1..n : i \in 0..n /\ i - 1 \in 0..n
    OBVIOUS
  <2>2. \A i \in 0..n : at[i] \in Found(st) /\ at[i] # << >>
    BY <1>1, <1>2, LineAfterLine, NoLineFails
  <2>3. QED
    BY <1>1, <1>2, <2>1, <2>2, LineAfterLine
<1>4. ASSUME NEW i \in 1..n
      PROVE  LET charged(k) == at[k][1].errorInfo.usedMatchMicros[seat]
             IN  charged(i) = charged(i - 1) +
                   (IF ActingSeat(st, at[i - 1][1]) = seat THEN file[i].micros ELSE 0)
  <2>1. i \in 0..n /\ i - 1 \in 0..n /\ file[i] \in Transaction(st)
    BY <1>1
  <2>2. PICK L \in AtTop(st) : at[i - 1] = <<L>>
    BY <1>3, <2>1 DEF Found
  <2>3. PICK entry \in Transaction(st) : entry = file[i]
    BY <2>1
  <2>4. at[i] = ReplayEntry(st, L, entry) /\ at[i] # << >>
    BY <1>3, <2>1, <2>2, <2>3 DEF ReplayNext
  <2>5. PICK after : after = Replayed(st, L, entry)
    OBVIOUS
  <2>6. Accepts(st, L, entry) /\ at[i] = <<Advance(st, after)>>
    BY <2>4, <2>5, ReplayIsAdvance
  <2>7. /\ after \in LocalOf(st) /\ Dealt(st, after) /\ Sound(st.game, after.state)
        /\ after.errorInfo = Charge(L.errorInfo, ActingSeat(st, L), entry.micros)
    BY <2>5, <2>6, ReplayedEffect DEF Accepts
  <2>8. at[i][1].errorInfo.usedMatchMicros = after.errorInfo.usedMatchMicros
    BY <2>6, <2>7, AdvanceEffect
  <2>9. PICK acting \in Seats(st) : acting = ActingSeat(st, L)
    BY ActingSeatIsSeat DEF AtTop
  <2>10. after.errorInfo.usedMatchMicros[seat]
           = L.errorInfo.usedMatchMicros[seat] + (IF seat = acting THEN entry.micros ELSE 0)
    <3>1. PICK info \in ErrorInfoOf(st), micros \in Nat :
            info = L.errorInfo /\ micros = entry.micros
      BY DEF AtTop, LocalOf, Transaction
    <3>2. after.errorInfo = Charge(info, acting, micros)
      BY <2>7, <2>9, <3>1
    <3>3. Charge(info, acting, micros).usedMatchMicros[seat]
            = info.usedMatchMicros[seat] + (IF seat = acting THEN micros ELSE 0)
      BY ChargeEffect
    <3>4. QED
      BY <3>1, <3>2, <3>3
  <2>11. QED
    BY <2>2, <2>3, <2>8, <2>9, <2>10
<1> DEFINE charged == [i \in 0..n |-> at[i][1].errorInfo.usedMatchMicros[seat]]
           micros(i) == IF ActingSeat(st, processTransactionFile(st, SubSeq(file, 1, i - 1))[1])
                             = seat THEN file[i].micros ELSE 0
           Body(g) == g = [i \in 0..n |-> IF i = 0 THEN 0 ELSE g[i - 1] + micros(i)]
<1>5. \A i \in 1..n : charged[i] = charged[i - 1] + micros(i)
  <2>1. TAKE i \in 1..n
  <2>2. i \in 0..n /\ i - 1 \in 0..n
    OBVIOUS
  <2>3. at[i - 1] = processTransactionFile(st, SubSeq(file, 1, i - 1))
    BY <1>2, <2>2 DEF FirstLines
  <2>4. QED
    BY <1>4, <2>2, <2>3
<1>6. charged[0] = 0
  <2>1. charged[0] = StartOfMatch(st).errorInfo.usedMatchMicros[seat]
    BY <1>3
  <2>2. QED
    BY <2>1 DEF StartOfMatch, initErrorInfo
<1>7. PICK f : f = charged
  OBVIOUS
<1>8. f = [i \in 0..n |-> f[i]] /\ f[0] = 0
      /\ \A i \in 1..n : f[i] = f[i - 1] + micros(i)
  BY <1>5, <1>6, <1>7
<1> HIDE DEF charged, micros
<1>9. Body(f)
  <2>1. \A i \in 0..n : i = 0 \/ i \in 1..n
    OBVIOUS
  <2>2. QED
    BY <1>8, <2>1
<1>10. PICK g : Body(g) /\ TimeIn(st, file, seat) = g[n]
  <2>1. TimeIn(st, file, seat) = (CHOOSE g : Body(g))[n]
    BY <1>1 DEF TimeIn, micros
  <2>2. Body(CHOOSE g : Body(g))
    BY <1>9, Zenon
  <2>3. QED
    BY <2>1, <2>2
<1>11. g[0] = 0 /\ \A i \in 1..n : g[i] = g[i - 1] + micros(i)
  BY <1>10
<1>12. GoOnAlike(n, f, g)
  BY <1>8, <1>11 DEF GoOnAlike
<1>13. f[n] = g[n]
  BY <1>12, SameSteps
<1>14. QED
  BY <1>3, <1>7, <1>10, <1>13 DEF charged

-----------------------------------------------------------------------------
(* The steps that write nothing to the transaction file.                   *)

LEMMA NothingWritten ==
  ASSUME FileInv, UNCHANGED <<setup, tlog>>,
         recorded' = processTransactionFile(setup, tlog')
  PROVE  recorded' = recorded
BY DEF FileInv

LEMMA NothingSaid ==
  ASSUME HeardInv, UNCHANGED <<setup, tlog, heard, inbox, recorded>>
  PROVE  HeardInv'
BY DEF HeardInv, LinesOf

(* What the file describes is the top of the loop.                         *)
LEMMA RecordIsAtTop ==
  ASSUME TypesInv, FileInv
  PROVE  \E st \in Setups : \E r \in AtTop(st) : st = setup /\ recorded = <<r>>
<1>1. PICK st \in Setups, file \in Seq(Transaction(setup)) : st = setup /\ file = tlog
  BY DEF TypesInv
<1>2. processTransactionFile(st, FirstLines(file, Len(file))) \in Found(st)
  <2>1. Len(file) \in 0..Len(file)
    BY <1>1
  <2>2. QED
    BY <1>1, <2>1, LineAfterLine
<1>3. recorded \in Found(st)
  BY <1>1, <1>2, LineAfterLine DEF FileInv
<1>4. QED
  BY <1>1, <1>3 DEF FileInv, Found

LEMMA ReplayLineStep ==
  ASSUME DealerInv, ReplayLine, recorded' = processTransactionFile(setup, tlog')
  PROVE  DealerInv'
<1>1. /\ pc = "replay" /\ pos < Len(tlog) /\ pos' = pos + 1
      /\ UNCHANGED <<setup, tlog, heard, inbox, clock, restarts>>
  BY DEF ReplayLine, network
<1>2. recorded' = recorded
  BY <1>1, NothingWritten DEF DealerInv
<1>3. PICK st \in Setups, L \in InMatch(setup), file \in Seq(Transaction(setup)), k \in Nat :
        st = setup /\ L = m /\ file = tlog /\ k = pos
  BY DEF DealerInv, TypesInv
<1>4. k \in 0..Len(file) /\ k + 1 \in 1..Len(file) /\ k + 1 \in 0..Len(file)
  BY <1>1, <1>3
<1>5. PICK result : result = ReplayEntry(st, L, file[k + 1])
  OBVIOUS
<1>6. /\ processTransactionFile(st, FirstLines(file, k + 1)) = result
      /\ result \in Found(st) /\ result # << >>
  <2>1. processTransactionFile(st, FirstLines(file, k)) = <<L>>
    BY <1>1, <1>3 DEF DealerInv, FileInv
  <2>2. processTransactionFile(st, FirstLines(file, k + 1)) = ReplayNext(st, <<L>>, file[k + 1])
    <3>1. k + 1 - 1 = k
      BY <1>3
    <3>2. QED
      BY <1>3, <1>4, <2>1, <3>1, LineAfterLine
  <2>3. ReplayNext(st, <<L>>, file[k + 1]) = result
    BY <1>5 DEF ReplayNext
  <2>4. processTransactionFile(st, file) # << >>
    BY <1>3 DEF DealerInv, FileInv
  <2>5. QED
    BY <1>3, <1>4, <2>2, <2>3, <2>4, LineAfterLine, NoLineFails
<1>7. PICK K \in AtTop(st) : result = <<K>>
  BY <1>6 DEF Found
<1>8. m' = K /\ pc' = "replay"
  BY <1>1, <1>3, <1>5, <1>6, <1>7 DEF ReplayLine
<1>9. TypesInv'
  <2>1. m' \in InMatch(setup)
    BY <1>3, <1>7, <1>8, AtTopIsInMatch
  <2>2. pos' \in 0..Len(tlog)
    BY <1>1, <1>3, <1>4
  <2>3. QED
    BY <1>1, <1>8, <2>1, <2>2 DEF DealerInv, TypesInv, Phases
<1>10. FileInv'
  BY <1>1, <1>2, <1>3, <1>6, <1>7, <1>8 DEF DealerInv, FileInv
<1>11. AnswerInv' /\ MatchInv'
  BY <1>8 DEF AnswerInv, MatchInv
<1>12. HeardInv'
  BY <1>1, <1>2, NothingSaid DEF DealerInv
<1>13. QED
  BY <1>9, <1>10, <1>11, <1>12 DEF DealerInv

LEMMA NoLessThanItself ==
  ASSUME NEW st, NEW info \in ErrorInfoOf(st)
  PROVE  NoLess(st, info, info)
BY DEF NoLess, ErrorInfoOf, CountersOf

LEMMA ReplayDoneStep ==
  ASSUME DealerInv, ReplayDone, recorded' = processTransactionFile(setup, tlog')
  PROVE  DealerInv'
<1>1. /\ pc = "replay" /\ pos = Len(tlog)
      /\ pc' = IF m.handId >= NumHands THEN "score" ELSE "send"
      /\ UNCHANGED <<setup, m, tlog, pos, heard, inbox, clock, restarts>>
  BY DEF ReplayDone, network, files
<1>2. recorded' = recorded
  BY <1>1, NothingWritten DEF DealerInv
<1>3. PICK st \in Setups, L \in InMatch(setup), file \in Seq(Transaction(setup)) :
        st = setup /\ L = m /\ file = tlog
  BY DEF DealerInv, TypesInv
<1>4. recorded = <<m>>
  BY <1>1, <1>3, LineAfterLine DEF DealerInv, FileInv
<1>5. TypesInv'
  BY <1>1 DEF DealerInv, TypesInv, Phases
<1>6. FileInv'
  BY <1>1, <1>2 DEF DealerInv, FileInv
<1>7. AnswerInv'
  <2>1. L.handId \in Nat
    BY DEF InMatch, LocalOf
  <2>2. QED
    BY <1>1, <1>3, <2>1, DealerAssumption DEF AnswerInv
<1>8. MatchInv'
  <2>1. Caught' = L /\ TimeAccounted' = L.errorInfo /\ recorded'[1] = L
    BY <1>1, <1>2, <1>3, <1>4 DEF Caught, TimeAccounted
  <2>2. Follows(st, L, L.errorInfo, L)
    BY <1>3, NoLessThanItself DEF Follows, InMatch, LocalOf
  <2>3. QED
    BY <1>1, <1>3, <2>1, <2>2 DEF MatchInv
<1>9. HeardInv'
  BY <1>1, <1>2, NothingSaid DEF DealerInv
<1>10. QED
  BY <1>5, <1>6, <1>7, <1>8, <1>9 DEF DealerInv

(* The states sent now are as old as the file.                             *)
LEMMA PrintingHasLength ==
  ASSUME NEW g, IsGame(g), NEW s \in StateType(g)
  PROVE  Len(printBetting(s)) \in Nat
<1>1. PICK n \in Nat : n = s.round + 1
  BY DEF StateType, Rounds
<1>2. PICK f \in [0..n -> Betted] : printBetting(s) = f[n]
  BY <1>1, BettingIsPrinted
<1>3. QED
  BY <1>1, <1>2 DEF Betted

LEMMA LongerInbox ==
  ASSUME NEW S, NEW T, S \subseteq T, NEW seq \in Seq(S)
  PROVE  seq \in Seq(T)
OBVIOUS

LEMMA StatesAreSent ==
  ASSUME DealerInv, UNCHANGED <<setup, tlog, inbox, recorded>>,
         heard' = [s \in Seats(setup) |-> heard[s] \union {Message(s)}],
         \/ m.handId < recorded[1].handId
         \/ m.handId = recorded[1].handId /\ m.state = recorded[1].state
  PROVE  HeardInv'
<1>1. PICK st \in Setups, L \in InMatch(setup) : st = setup /\ L = m
  BY DEF DealerInv, TypesInv
<1>2. /\ L.handId \in Nat /\ Len(printBetting(L.state)) \in Nat
  BY <1>1, SetupFacts, PrintingHasLength DEF InMatch, LocalOf
<1>3. ASSUME NEW s \in Seats(setup)
      PROVE  /\ Message(s).says.handId \in Nat
             /\ Older(Message(s), tlog, recorded[1])
  BY <1>1, <1>2 DEF Message, MatchState, Older
<1>4. ASSUME NEW s \in Seats(setup)
      PROVE  inbox'[s] \in Seq(LinesOf(s)')
  <2>1. LinesOf(s) \subseteq LinesOf(s)'
    BY DEF LinesOf
  <2>2. inbox[s] \in Seq(LinesOf(s))
    BY DEF DealerInv, HeardInv
  <2>3. QED
    BY <2>1, <2>2, LongerInbox
<1>5. ASSUME NEW s \in Seats(setup), NEW msg \in heard'[s]
      PROVE  msg.says.handId \in Nat /\ Older(msg, tlog, recorded[1])
  BY <1>3 DEF DealerInv, HeardInv
<1>6. QED
  BY <1>4, <1>5 DEF HeardInv

LEMMA SendStateStep ==
  ASSUME DealerInv, SendState, recorded' = processTransactionFile(setup, tlog')
  PROVE  DealerInv'
<1>1. /\ pc = "send" /\ pc' = "read" /\ clock' = 0
      /\ heard' = [s \in Seats(setup) |-> heard[s] \union {Message(s)}]
      /\ UNCHANGED <<setup, m, tlog, pos, inbox, restarts>>
  BY DEF SendState, files
<1>2. recorded' = recorded
  BY <1>1, NothingWritten DEF DealerInv
<1>3. Follows(setup, recorded[1], recorded[1].errorInfo, m)
  BY <1>1 DEF DealerInv, MatchInv, TimeAccounted, Caught
<1>4. TypesInv'
  BY <1>1 DEF DealerInv, TypesInv, Phases
<1>5. FileInv'
  BY <1>1, <1>2 DEF DealerInv, FileInv
<1>6. AnswerInv'
  BY <1>1 DEF DealerInv, AnswerInv
<1>7. MatchInv'
  BY <1>1, <1>2, <1>3 DEF MatchInv, TimeAccounted, Caught
<1>8. m.handId = recorded[1].handId /\ m.state = recorded[1].state
  BY <1>3, EssenceIsEqual DEF Follows
<1>9. HeardInv'
  BY <1>1, <1>2, <1>8, StatesAreSent
<1>10. QED
  BY <1>4, <1>5, <1>6, <1>7, <1>9 DEF DealerInv

LEMMA SendFinalStep ==
  ASSUME DealerInv, SendFinal, recorded' = processTransactionFile(setup, tlog')
  PROVE  DealerInv'
<1>1. /\ pc = "sendFinal" /\ m' = setUpNewHand(setup, m)
      /\ pc' = IF m'.handId >= NumHands THEN "score" ELSE "send"
      /\ heard' = [s \in Seats(setup) |-> heard[s] \union {Message(s)}]
      /\ UNCHANGED <<setup, tlog, pos, inbox, clock, restarts>>
  BY DEF SendFinal, files
<1>2. recorded' = recorded
  BY <1>1, NothingWritten DEF DealerInv
<1>3. PICK st \in Setups, L \in InMatch(setup), K \in InMatch(setup) :
        st = setup /\ L = m /\ K = setUpNewHand(st, L)
  BY NextHandIsInMatch DEF DealerInv, TypesInv
<1>4. K \in InMatch(st) /\ K.handId = L.handId + 1 /\ L.handId \in Nat /\ K.handId \in Nat
  BY <1>3, NewHandEffect DEF InMatch, LocalOf
<1>5. Follows(setup, recorded[1], recorded[1].errorInfo, m')
  BY <1>1 DEF DealerInv, MatchInv, TimeAccounted, Caught
<1>6. TypesInv'
  BY <1>1, <1>3, <1>4 DEF DealerInv, TypesInv, Phases
<1>7. FileInv'
  BY <1>1, <1>2 DEF DealerInv, FileInv
<1>8. AnswerInv'
  BY <1>1, <1>3, <1>4, DealerAssumption DEF AnswerInv
<1>9. MatchInv'
  BY <1>1, <1>2, <1>5 DEF MatchInv, TimeAccounted, Caught
<1>10. m.handId < recorded[1].handId
  <2>1. recorded[1].handId = K.handId
    BY <1>1, <1>3, <1>5, EssenceIsEqual DEF Follows
  <2>2. QED
    BY <1>3, <1>4, <2>1
<1>11. HeardInv'
  BY <1>1, <1>2, <1>10, StatesAreSent
<1>12. QED
  BY <1>6, <1>7, <1>8, <1>9, <1>11 DEF DealerInv

(* Steps after which gameLoop() is elsewhere and nothing it holds is       *)
(* different.                                                              *)
LEMMA PlaceStep ==
  ASSUME DealerInv, UNCHANGED <<setup, m, clock, tlog, pos, heard, inbox, restarts>>,
         recorded' = processTransactionFile(setup, tlog'),
         \/ pc' \in {"failed", "down"}
         \/ pc = "logHand" /\ pc' = "sendFinal"
         \/ pc = "score" /\ pc' = "over"
  PROVE  DealerInv'
<1>1. recorded' = recorded
  BY NothingWritten DEF DealerInv
<1>2. TypesInv' /\ FileInv' /\ AnswerInv'
  BY <1>1 DEF DealerInv, TypesInv, Phases, FileInv, AnswerInv
<1>3. MatchInv'
  BY <1>1 DEF DealerInv, MatchInv, TimeAccounted, Caught
<1>4. HeardInv'
  BY <1>1, NothingSaid DEF DealerInv
<1>5. QED
  BY <1>2, <1>3, <1>4 DEF DealerInv

LEMMA SendLineStep ==
  ASSUME DealerInv, NEW seat \in Seats(setup), NEW line \in LinesOf(seat),
         SendLine(seat, line), recorded' = processTransactionFile(setup, tlog')
  PROVE  DealerInv'
<1>1. /\ UNCHANGED <<setup, pc, m, response, clock, tlog, pos, heard, restarts>>
      /\ inbox' = [inbox EXCEPT ![seat] = Append(inbox[seat], line)]
  BY DEF SendLine, files
<1>2. recorded' = recorded
  BY <1>1, NothingWritten DEF DealerInv
<1>3. TypesInv' /\ FileInv' /\ AnswerInv'
  BY <1>1, <1>2 DEF DealerInv, TypesInv, FileInv, AnswerInv, Game
<1>4. MatchInv'
  BY <1>1, <1>2 DEF DealerInv, MatchInv, TimeAccounted, Caught, Game
<1>5. \A s \in Seats(setup) : LinesOf(s)' = LinesOf(s)
  BY <1>1 DEF LinesOf
<1>6. \A s \in Seats(setup) : inbox'[s] \in Seq(LinesOf(s))
  <2>1. TAKE s \in Seats(setup)
  <2>2. inbox[s] \in Seq(LinesOf(s))
    BY DEF DealerInv, HeardInv
  <2>3. CASE s = seat
    <3>1. Append(inbox[seat], line) \in Seq(LinesOf(seat))
      BY <2>2, <2>3
    <3>2. QED
      BY <1>1, <2>2, <2>3, <3>1
  <2>4. CASE s # seat
    BY <1>1, <2>2, <2>4
  <2>5. QED
    BY <2>3, <2>4
<1>7. HeardInv'
  BY <1>1, <1>2, <1>5, <1>6 DEF DealerInv, HeardInv
<1>8. QED
  BY <1>3, <1>4, <1>7 DEF DealerInv

-----------------------------------------------------------------------------
(* Reading a line.                                                         *)

LEMMA ChargedIsMore ==
  ASSUME NEW st, NEW used \in ErrorInfoOf(st), NEW info \in ErrorInfoOf(st),
         NoLess(st, used, info), NEW seat \in Seats(st), NEW micros \in Nat
  PROVE  /\ NoLess(st, used, Charge(info, seat, micros))
         /\ NoLess(st, Charge(used, seat, micros), Charge(info, seat, micros))
<1>1. PICK a, b : a = Charge(used, seat, micros) /\ b = Charge(info, seat, micros)
  OBVIOUS
<1>2. ASSUME NEW s \in Seats(st)
      PROVE  /\ a.usedHandMicros[s]
                  = used.usedHandMicros[s] + (IF s = seat THEN micros ELSE 0)
             /\ a.usedMatchMicros[s]
                  = used.usedMatchMicros[s] + (IF s = seat THEN micros ELSE 0)
             /\ b.usedHandMicros[s]
                  = info.usedHandMicros[s] + (IF s = seat THEN micros ELSE 0)
             /\ b.usedMatchMicros[s]
                  = info.usedMatchMicros[s] + (IF s = seat THEN micros ELSE 0)
             /\ used.usedHandMicros[s] \in Nat /\ used.usedMatchMicros[s] \in Nat
             /\ info.usedHandMicros[s] \in Nat /\ info.usedMatchMicros[s] \in Nat
             /\ used.usedHandMicros[s] <= info.usedHandMicros[s]
             /\ used.usedMatchMicros[s] <= info.usedMatchMicros[s]
  <2>1. /\ used.usedHandMicros[s] \in Nat /\ used.usedMatchMicros[s] \in Nat
        /\ info.usedHandMicros[s] \in Nat /\ info.usedMatchMicros[s] \in Nat
    BY DEF ErrorInfoOf, CountersOf
  <2>2. /\ used.usedHandMicros[s] <= info.usedHandMicros[s]
        /\ used.usedMatchMicros[s] <= info.usedMatchMicros[s]
    BY DEF NoLess
  <2>3. /\ a.usedHandMicros[s]
             = used.usedHandMicros[s] + (IF s = seat THEN micros ELSE 0)
        /\ a.usedMatchMicros[s]
             = used.usedMatchMicros[s] + (IF s = seat THEN micros ELSE 0)
    BY <1>1, ChargeEffect
  <2>4. /\ b.usedHandMicros[s]
             = info.usedHandMicros[s] + (IF s = seat THEN micros ELSE 0)
        /\ b.usedMatchMicros[s]
             = info.usedMatchMicros[s] + (IF s = seat THEN micros ELSE 0)
    BY <1>1, ChargeEffect
  <2>5. QED
    BY <2>1, <2>2, <2>3, <2>4
<1>3. NoLess(st, used, b) /\ NoLess(st, a, b)
  BY <1>2 DEF NoLess
<1>4. QED
  BY <1>1, <1>3

(* What readPlayerResponse() leaves when it takes an action.               *)
Answered(st, L, info, K) ==
  /\ K = Timed(L, K.errorInfo) /\ K.errorInfo \in ErrorInfoOf(st)
  /\ K.errorInfo.usedHandMicros = info.usedHandMicros
  /\ K.errorInfo.usedMatchMicros = info.usedMatchMicros

LEMMA AnsweredEffect ==
  ASSUME NEW st, NEW L \in InMatch(st), NEW info, NEW K, Answered(st, L, info, K)
  PROVE  /\ K \in InMatch(st)
         /\ K.handId = L.handId /\ K.player0Seat = L.player0Seat
         /\ K.dealt = L.dealt /\ K.state = L.state /\ K.totalValue = L.totalValue
         /\ ActingSeat(st, K) = ActingSeat(st, L)
         /\ \A seat, micros : OutOfTime(K.errorInfo, seat, micros) = OutOfTime(info, seat, micros)
         /\ \A used : NoLess(st, used, info) => NoLess(st, used, K.errorInfo)
<1>1. PICK new \in ErrorInfoOf(st) :
        /\ new = K.errorInfo /\ K = Timed(L, new)
        /\ new.usedHandMicros = info.usedHandMicros
        /\ new.usedMatchMicros = info.usedMatchMicros
  BY DEF Answered
<1>2. /\ K \in InMatch(st)
      /\ K.handId = L.handId /\ K.player0Seat = L.player0Seat
      /\ K.dealt = L.dealt /\ K.state = L.state /\ K.totalValue = L.totalValue
  BY <1>1, TimedEffect
<1>3. ActingSeat(st, K) = ActingSeat(st, L)
  BY <1>2 DEF ActingSeat
<1>4. \A seat, micros : OutOfTime(new, seat, micros) = OutOfTime(info, seat, micros)
  BY <1>1 DEF OutOfTime
<1>5. \A used : NoLess(st, used, info) => NoLess(st, used, new)
  BY <1>1 DEF NoLess
<1>6. QED
  BY <1>1, <1>2, <1>3, <1>4, <1>5

LEMMA TimedIsAnswered ==
  ASSUME NEW st, NEW L \in InMatch(st), NEW info \in ErrorInfoOf(st), NEW new \in ErrorInfoOf(st),
         new.usedHandMicros = info.usedHandMicros, new.usedMatchMicros = info.usedMatchMicros
  PROVE  Answered(st, L, info, [L EXCEPT !.errorInfo = new])
<1>1. PICK K : K = Timed(L, new)
  OBVIOUS
<1>2. K.errorInfo = new
  BY <1>1, TimedEffect
<1>3. Answered(st, L, info, K)
  BY <1>1, <1>2 DEF Answered
<1>4. QED
  BY <1>1, <1>3 DEF Timed

MayPlay(st, L, action) ==
  action \in Playable(st) /\ isValidAction(st.game, L.state, FALSE, action)

LEMMA ActionTaken ==
  ASSUME TypesInv, ~m.state.finished, NEW seat \in Seats(setup),
         NEW info \in ErrorInfoOf(setup), NEW asked \in Asks, NEW micros \in Nat, NEW about,
         TakeAction(seat, info, asked, micros, about)
  PROVE  /\ Answered(setup, m, info, m')
         /\ \/ pc' = "failed"
            \/ /\ pc' = "log"
               /\ MayPlay(setup, m, response'.action)
               /\ response'.micros = micros /\ response'.about = about
<1>1. PICK st \in Setups, L \in InMatch(setup) : st = setup /\ L = m
  BY DEF TypesInv
<1>2. PICK counted \in ErrorInfoOf(st) :
        /\ counted = CountInvalidAction(info, seat)
        /\ counted.usedHandMicros = info.usedHandMicros
        /\ counted.usedMatchMicros = info.usedMatchMicros
  BY <1>1, CountInvalidEffect
<1>3. /\ Answered(setup, m, info, [m EXCEPT !.errorInfo = counted])
      /\ Answered(setup, m, info, [m EXCEPT !.errorInfo = info])
  BY <1>1, <1>2, TimedIsAnswered
<1>4. ~L.state.finished /\ Sound(st.game, L.state)
  BY <1>1 DEF InMatch
<1>5. Calls \in Playable(st) /\ isValidAction(st.game, L.state, FALSE, Calls)
  BY <1>4, CallsAreValid
<1>6. CASE /\ asked.type # "garbled"
           /\ isValidAction(Game, m.state, TRUE, asked)
  <2>1. /\ m' = [m EXCEPT !.errorInfo = info] /\ pc' = "log"
        /\ response' = [action |-> fixAction(Game, m.state, asked),
                        micros |-> micros, about |-> about]
    BY <1>6 DEF TakeAction
  <2>2. PICK fixed : fixed = fixAction(st.game, L.state, asked)
    OBVIOUS
  <2>3. fixed \in Playable(st) /\ isValidAction(st.game, L.state, FALSE, fixed)
    BY <1>1, <1>4, <1>6, <2>2, FixedIsPlayable DEF Game
  <2>4. QED
    BY <1>1, <1>3, <2>1, <2>2, <2>3 DEF Game, MayPlay
<1>7. CASE ~(/\ asked.type # "garbled"
             /\ isValidAction(Game, m.state, TRUE, asked))
  <2>1. /\ m' = [m EXCEPT !.errorInfo = counted]
        /\ \/ pc' = "failed"
           \/ pc' = "log" /\ response' = [action |-> Calls, micros |-> micros, about |-> about]
    BY <1>2, <1>7 DEF TakeAction
  <2>2. Answered(setup, m, info, m')
    BY <1>3, <2>1
  <2>3. CASE pc' = "failed"
    BY <2>2, <2>3
  <2>4. CASE pc' = "log" /\ response' = [action |-> Calls, micros |-> micros, about |-> about]
    <3>1. response'.action = Calls /\ response'.micros = micros /\ response'.about = about
      BY <2>4
    <3>2. QED
      BY <1>1, <1>5, <2>2, <2>4, <3>1 DEF Game, MayPlay
  <2>5. QED
    BY <2>1, <2>3, <2>4
<1>8. QED
  BY <1>6, <1>7

(* A line echoes the current state only if it answers what was sent last.  *)
LEMMA EchoIsFresh ==
  ASSUME DealerInv, NEW seat \in Seats(setup), NEW line \in LinesOf(seat),
         line.kind = "response",
         m.handId = recorded[1].handId, m.state = recorded[1].state,
         matchStatesEqual(MatchState(setup, m, seat), line.about.says)
  PROVE  line.about.at = Len(tlog) /\ line.asked \in Asks
<1>1. line \in [kind : {"response"}, about : heard[seat], asked : Asks]
  BY DEF LinesOf
<1>2. PICK msg \in heard[seat] : msg = line.about
  BY <1>1
<1>3. msg.says.handId \in Nat /\ Older(msg, tlog, recorded[1])
  BY DEF DealerInv, HeardInv
<1>4. msg.says = MatchState(setup, m, seat)
  BY <1>2 DEF matchStatesEqual
<1>5. msg.says.handId = m.handId /\ msg.says.betting = printBetting(m.state)
  BY <1>4 DEF MatchState
<1>6. PICK hand, shown :
        hand \in Nat /\ hand = m.handId /\ shown = Len(printBetting(m.state))
  BY DEF DealerInv, TypesInv, InMatch, LocalOf
<1>7. shown \in Nat /\ (shown < shown \/ msg.at = Len(tlog))
  BY <1>3, <1>5, <1>6 DEF Older
<1>8. msg.at = Len(tlog)
  BY <1>7
<1>9. QED
  BY <1>1, <1>2, <1>8

LEMMA ReadLineStep ==
  ASSUME DealerInv, NEW micros \in ArrivalTimes, ReadLine(micros),
         recorded' = processTransactionFile(setup, tlog')
  PROVE  DealerInv'
<1>1. PICK st, r, L :
        /\ st \in Setups /\ r \in AtTop(st) /\ L \in InMatch(st)
        /\ st = setup /\ recorded = <<r>> /\ L = m
  BY RecordIsAtTop DEF DealerInv, TypesInv
<1>2. /\ pc = "read" /\ UNCHANGED <<setup, tlog, pos, heard, restarts>>
      /\ clock' = micros /\ micros \in Nat
  BY DealerAssumption DEF ReadLine, files
<1>3. recorded' = recorded
  BY <1>2, NothingWritten DEF DealerInv
<1>4. Follows(st, r, r.errorInfo, L)
  BY <1>1, <1>2 DEF DealerInv, MatchInv, TimeAccounted, Caught
<1>5. /\ r.handId = L.handId /\ r.player0Seat = L.player0Seat
      /\ r.dealt = L.dealt /\ r.state = L.state /\ r.totalValue = L.totalValue
  BY <1>4, EssenceIsEqual DEF Follows
<1>6. ~L.state.finished /\ L.handId < NumHands
  BY <1>1, <1>2, <1>5 DEF AtTop, DealerInv, AnswerInv
<1>7. PICK seat \in Seats(st) : seat = ActingSeat(st, L)
  BY <1>1, <1>6, ActingSeatIsSeat DEF InMatch
<1>8. r.errorInfo \in ErrorInfoOf(st) /\ L.errorInfo \in ErrorInfoOf(st)
  BY <1>1 DEF AtTop, InMatch, LocalOf
<1>9. PICK info \in ErrorInfoOf(st), used \in ErrorInfoOf(st) :
        /\ info = Charge(L.errorInfo, seat, micros)
        /\ used = Charge(r.errorInfo, seat, micros)
  BY <1>2, <1>8, ChargeEffect
<1>10. NoLess(st, r.errorInfo, info) /\ NoLess(st, used, info)
  BY <1>2, <1>4, <1>8, <1>9, ChargedIsMore DEF Follows
<1>11. PICK line \in LinesOf(seat) :
         /\ line = Head(inbox[seat])
         /\ inbox' = [inbox EXCEPT ![seat] = Tail(inbox[seat])]
  <2>1. inbox[seat] \in Seq(LinesOf(seat))
    BY <1>1 DEF DealerInv, HeardInv
  <2>2. inbox[seat] # << >>
    BY <1>1, <1>7 DEF ReadLine
  <2>3. Head(inbox[seat]) \in LinesOf(seat)
    BY <2>1, <2>2
  <2>4. inbox' = [inbox EXCEPT ![seat] = Tail(inbox[seat])]
    BY <1>1, <1>7 DEF ReadLine
  <2>5. QED
    BY <2>3, <2>4
<1>12. HeardInv'
  <2>1. \A s \in Seats(setup) : LinesOf(s)' = LinesOf(s)
    BY <1>2 DEF LinesOf
  <2>2. \A s \in Seats(setup) : inbox'[s] \in Seq(LinesOf(s))
    <3>1. TAKE s \in Seats(setup)
    <3>2. inbox[s] \in Seq(LinesOf(s)) /\ (s = seat => inbox[s] # << >>)
      BY <1>1, <1>7 DEF DealerInv, HeardInv, ReadLine
    <3>3. Tail(inbox[s]) \in Seq(LinesOf(s)) \/ s # seat
      BY <3>2
    <3>4. CASE s = seat
      BY <1>11, <3>2, <3>3, <3>4
    <3>5. CASE s # seat
      BY <1>11, <3>2, <3>5
    <3>6. QED
      BY <3>4, <3>5
  <2>3. QED
    BY <1>2, <1>3, <2>1, <2>2 DEF DealerInv, HeardInv
(* A line is skipped, fails the match, or is an answer.                    *)
<1>13. \/ pc' \in {"read", "failed"} /\ m' = L
       \/ /\ Answered(st, L, info, m')
          /\ \/ pc' \in {"read", "failed"}
             \/ /\ pc' = "log" /\ ~OutOfTime(info, seat, micros)
                /\ response'.action \in Playable(st) /\ response'.micros = micros
                /\ response'.about.at = Len(tlog)
                /\ isValidAction(st.game, L.state, FALSE, response'.action)
  <2>1. CASE pc' = pc /\ m' = m
    BY <1>1, <1>2, <2>1
  <2>2. CASE pc' \in {pc, "failed"} /\ m' = [m EXCEPT !.errorInfo = info]
    <3>1. Answered(st, L, info, m')
      BY <1>1, <2>2, TimedIsAnswered
    <3>2. QED
      BY <1>2, <2>2, <3>1
  <2>3. CASE /\ line.kind = "response" /\ ~OutOfTime(info, seat, micros)
             /\ matchStatesEqual(MatchState(setup, m, seat), line.about.says)
             /\ TakeAction(seat, info, line.asked, micros, line.about)
    <3>1. line.about.at = Len(tlog) /\ line.asked \in Asks
      BY <1>1, <1>5, <2>3, EchoIsFresh
    <3>2. TypesInv /\ ~m.state.finished
      BY <1>1, <1>6 DEF DealerInv
    <3>3. PICK asked, about : asked = line.asked /\ about = line.about
      OBVIOUS
    <3>4. /\ seat \in Seats(setup) /\ info \in ErrorInfoOf(setup)
          /\ TakeAction(seat, info, asked, micros, about)
      BY <1>1, <2>3, <3>3
    <3>5. /\ Answered(setup, m, info, m')
          /\ \/ pc' = "failed"
             \/ /\ pc' = "log"
                /\ MayPlay(setup, m, response'.action)
                /\ response'.micros = micros /\ response'.about = about
      BY <1>2, <3>1, <3>2, <3>3, <3>4, ActionTaken
    <3>6. QED
      BY <1>1, <2>3, <3>1, <3>3, <3>5 DEF MayPlay
  <2>4. /\ seat = ActingSeat(setup, m) /\ line = Head(inbox[seat])
        /\ info = Charge(m.errorInfo, seat, micros)
    BY <1>1, <1>7, <1>9, <1>11
  <2>5. QED
    BY <2>1, <2>2, <2>3, <2>4 DEF ReadLine
<1>14. /\ m' \in InMatch(st) /\ m'.handId = L.handId /\ m'.state = L.state
       /\ Essence(m') = Essence(L) /\ ActingSeat(st, m') = seat
       /\ m'.errorInfo \in ErrorInfoOf(st) /\ NoLess(st, r.errorInfo, m'.errorInfo)
  <2>1. CASE m' = L
    BY <1>1, <1>4, <1>7, <1>8, <1>10, <2>1 DEF Follows
  <2>2. CASE Answered(st, L, info, m')
    <3>1. PICK K : K = m'
      OBVIOUS
    <3>2. QED
      BY <1>1, <1>7, <1>10, <2>2, <3>1, AnsweredEffect, EssenceIsEqual DEF InMatch, LocalOf
  <2>3. QED
    BY <1>13, <2>1, <2>2
<1>15. pc' \in {"read", "failed", "log"}
  BY <1>13
<1>16. TypesInv'
  BY <1>1, <1>2, <1>14, <1>15 DEF DealerInv, TypesInv, Phases
<1>17. FileInv'
  BY <1>2, <1>3, <1>15 DEF DealerInv, FileInv
<1>18. pc' = "log" =>
         /\ response'.action \in Playable(st) /\ response'.micros = micros
         /\ isValidAction(st.game, L.state, FALSE, response'.action)
         /\ ~OutOfTime(m'.errorInfo, seat, micros) /\ response'.about.at = Len(tlog)
         /\ NoLess(st, used, m'.errorInfo)
  <2>1. SUFFICES ASSUME pc' = "log"
                 PROVE  Answered(st, L, info, m') /\ ~OutOfTime(info, seat, micros)
                        => /\ ~OutOfTime(m'.errorInfo, seat, micros)
                           /\ NoLess(st, used, m'.errorInfo)
    BY <1>13
  <2>2. PICK K : K = m'
    OBVIOUS
  <2>3. QED
    BY <1>1, <1>10, <2>2, AnsweredEffect
<1>19. AnswerInv'
  BY <1>1, <1>2, <1>6, <1>14, <1>15, <1>18 DEF AnswerInv, Game
<1>20. MatchInv'
  <2>1. Caught' = m'
    BY <1>15 DEF Caught
  <2>2. Essence(r) = Essence(m') /\ recorded'[1] = r
    BY <1>1, <1>3, <1>4, <1>14 DEF Follows
  <2>3. NoLess(st, TimeAccounted', m'.errorInfo)
    <3>1. CASE pc' = "log"
      <4>1. TimeAccounted' = used
        BY <1>1, <1>2, <1>9, <1>14, <1>18, <2>2, <3>1 DEF TimeAccounted
      <4>2. QED
        BY <1>18, <3>1, <4>1
    <3>2. CASE pc' # "log"
      <4>1. TimeAccounted' = r.errorInfo
        BY <2>2, <3>2 DEF TimeAccounted
      <4>2. QED
        BY <1>14, <4>1
    <3>3. QED
      BY <3>1, <3>2
  <2>4. Follows(st, recorded'[1], TimeAccounted', Caught')
    BY <2>1, <2>2, <2>3 DEF Follows
  <2>5. QED
    BY <1>1, <1>2, <2>4 DEF MatchInv
<1>21. QED
  BY <1>12, <1>16, <1>17, <1>19, <1>20 DEF DealerInv

-----------------------------------------------------------------------------
(* Writing the action down and playing it.                                 *)

(* A line more in the file is a step of the match: what it was shown to be *)
(* at the top of the loop, it is again.                                    *)
Writing(st, r, L, entry) ==
  /\ st \in Setups /\ r \in AtTop(st) /\ L \in InMatch(st)
  /\ st = setup /\ recorded = <<r>> /\ L = m
  /\ entry = [action |-> response.action, handId |-> m.handId,
              micros |-> response.micros]

LEMMA LineWritten ==
  ASSUME DealerInv, logTransaction, recorded' = processTransactionFile(setup, tlog'),
         NEW st, NEW r, NEW L, NEW entry, Writing(st, r, L, entry)
  PROVE  /\ entry \in Transaction(st) /\ tlog' = Append(tlog, entry)
         /\ entry.handId = L.handId /\ entry.action = response.action
         /\ r.handId = L.handId /\ r.state = L.state
         /\ r.dealt = L.dealt /\ r.player0Seat = L.player0Seat
         /\ Accepts(st, r, entry)
         /\ Replayed(st, r, entry) \in InMatch(st) /\ Moved(st, L, entry.action) \in InMatch(st)
         /\ recorded' = <<Advance(st, Replayed(st, r, entry))>>
         /\ Follows(st, Replayed(st, r, entry), Replayed(st, r, entry).errorInfo,
                    Moved(st, L, entry.action))
<1>0. /\ st \in Setups /\ r \in AtTop(st) /\ L \in InMatch(st)
      /\ st = setup /\ recorded = <<r>> /\ L = m
  BY DEF Writing
<1>1. /\ pc = "log" /\ tlog' = Append(tlog, entry)
      /\ entry.action = response.action /\ entry.handId = L.handId
      /\ entry.micros = response.micros
  BY <1>0 DEF logTransaction, Writing
<1>2. /\ response.action \in Playable(st) /\ response.micros \in Nat
      /\ isValidAction(st.game, L.state, FALSE, entry.action)
      /\ ~OutOfTime(L.errorInfo, ActingSeat(st, L), entry.micros)
      /\ L.handId < NumHands
  BY <1>0, <1>1 DEF DealerInv, AnswerInv, Game
<1>3. entry \in Transaction(st)
  <2>1. L.handId \in 0..NumHands - 1
    BY <1>0, <1>2, DealerAssumption DEF InMatch, LocalOf
  <2>2. QED
    BY <1>0, <1>1, <1>2, <2>1 DEF Transaction, Writing
<1>4. Follows(st, r, Charge(r.errorInfo, ActingSeat(st, L), entry.micros), L)
  BY <1>0, <1>1 DEF DealerInv, MatchInv, TimeAccounted, Caught
<1>5. /\ Accepts(st, r, entry)
      /\ Replayed(st, r, entry) \in InMatch(st) /\ Moved(st, L, entry.action) \in InMatch(st)
      /\ Follows(st, Replayed(st, r, entry), Replayed(st, r, entry).errorInfo,
                 Moved(st, L, entry.action))
  BY <1>1, <1>2, <1>3, <1>4, <1>0, RecordedAlike
<1>6. recorded' = <<Advance(st, Replayed(st, r, entry))>>
  <2>1. PICK file \in Seq(Transaction(st)) : file = tlog
    BY <1>0 DEF DealerInv, TypesInv
  <2>2. processTransactionFile(st, Append(file, entry)) = ReplayNext(st, <<r>>, entry)
    <3>1. processTransactionFile(st, file) = <<r>>
      BY <1>0, <2>1 DEF DealerInv, FileInv
    <3>2. QED
      BY <1>0, <1>3, <2>1, <3>1, LongerFile
  <2>3. ReplayNext(st, <<r>>, entry) = ReplayEntry(st, r, entry)
    BY DEF ReplayNext
  <2>4. recorded' = processTransactionFile(st, Append(file, entry))
    BY <1>0, <1>1, <2>1
  <2>5. QED
    BY <1>5, <2>2, <2>3, <2>4, ReplayIsAdvance
<1>7. /\ r.handId = L.handId /\ r.state = L.state
      /\ r.dealt = L.dealt /\ r.player0Seat = L.player0Seat
  BY <1>4, EssenceIsEqual DEF Follows
<1>8. QED
  BY <1>1, <1>2, <1>3, <1>5, <1>6, <1>7

(* After the line is written every message is older than the file.         *)
LEMMA NewLineIsNewer ==
  ASSUME NEW st \in Setups, NEW r \in AtTop(st), NEW entry \in Transaction(st),
         Accepts(st, r, entry), NEW msg, msg.says.handId \in Nat,
         NEW file, NEW longer, Older(msg, file, r)
  PROVE  Older(msg, longer, Advance(st, Replayed(st, r, entry)))
<1>1. PICK after : after = Replayed(st, r, entry)
  OBVIOUS
<1>2. PICK next : next = Advance(st, after)
  OBVIOUS
<1>3. /\ after \in LocalOf(st) /\ Dealt(st, after) /\ Sound(st.game, after.state)
      /\ after.handId = r.handId /\ after.state = doAction(st.game, r.state, entry.action)
  BY <1>1, ReplayedEffect DEF Accepts
<1>4. /\ next.handId = r.handId + (IF after.state.finished THEN 1 ELSE 0)
      /\ next.state = IF after.state.finished THEN initState(st.game) ELSE after.state
  BY <1>2, <1>3, AdvanceEffect
<1>5. r.handId \in Nat
  BY DEF AtTop, LocalOf
<1>6. CASE msg.says.handId < r.handId
  <2>1. msg.says.handId < next.handId
    BY <1>4, <1>5, <1>6
  <2>2. QED
    BY <1>1, <1>2, <2>1 DEF Older
<1>7. CASE msg.says.handId = r.handId /\ after.state.finished
  <2>1. msg.says.handId < next.handId
    BY <1>4, <1>5, <1>7
  <2>2. QED
    BY <1>1, <1>2, <2>1 DEF Older
<1>8. CASE msg.says.handId = r.handId /\ ~after.state.finished
  <2>1. /\ Len(printBetting(r.state)) \in Nat
        /\ Len(printBetting(next.state)) = Len(printBetting(r.state)) + 1
    <3>1. PICK s, action :
            s = r.state /\ action \in AskedActions /\ action = entry.action
      <4>1. entry.action \in Playable(st)
        BY DEF Transaction
      <4>2. QED
        BY <4>1, PlayableIsAsked
    <3>2. /\ IsGame(st.game) /\ Sound(st.game, s) /\ st.game.numPlayers <= MAX_NUM_ACTIONS
          /\ isValidAction(st.game, s, FALSE, action)
          /\ ~doAction(st.game, s, action).finished
      BY <1>3, <1>8, <3>1, SetupFacts DEF AtTop, Accepts
    <3>3. PICK g, moved :
            g = st.game /\ moved = doAction(g, s, action)
      OBVIOUS
    <3>4. /\ Len(printBetting(s)) \in Nat
          /\ Len(printBetting(moved)) = Len(printBetting(s)) + 1
      BY <3>1, <3>2, <3>3, BettingGrows
    <3>5. moved = next.state
      BY <1>3, <1>4, <1>8, <3>1, <3>3
    <3>6. QED
      BY <3>1, <3>4, <3>5
  <2>2. PICK shown, known, grown :
          /\ shown = Len(msg.says.betting) /\ known = Len(printBetting(r.state))
          /\ grown = Len(printBetting(next.state))
    OBVIOUS
  <2>3. shown \in Nat /\ (shown < known \/ shown = known)
    BY <1>5, <1>8, <2>2 DEF Older
  <2>4. shown < grown
    BY <2>1, <2>2, <2>3
  <2>5. msg.says.handId = next.handId
    BY <1>4, <1>5, <1>8
  <2>6. QED
    BY <1>1, <1>2, <2>2, <2>3, <2>4, <2>5 DEF Older
<1>9. msg.says.handId < r.handId \/ msg.says.handId = r.handId
  BY DEF Older
<1>10. QED
  BY <1>6, <1>7, <1>8, <1>9

LEMMA logTransactionStep ==
  ASSUME DealerInv, logTransaction, recorded' = processTransactionFile(setup, tlog')
  PROVE  DealerInv'
<1>0. PICK st, r, L, entry : Writing(st, r, L, entry)
  BY RecordIsAtTop DEF DealerInv, TypesInv, Writing
<1>1. /\ st \in Setups /\ r \in AtTop(st) /\ L \in InMatch(st)
      /\ st = setup /\ recorded = <<r>> /\ L = m
  BY <1>0 DEF Writing
<1>2. /\ entry \in Transaction(st) /\ tlog' = Append(tlog, entry)
      /\ entry.action = response.action
      /\ Accepts(st, r, entry)
      /\ Replayed(st, r, entry) \in InMatch(st) /\ Moved(st, L, entry.action) \in InMatch(st)
      /\ recorded' = <<Advance(st, Replayed(st, r, entry))>>
      /\ Follows(st, Replayed(st, r, entry), Replayed(st, r, entry).errorInfo,
                 Moved(st, L, entry.action))
  BY <1>0, LineWritten
<1>3. /\ pc = "log" /\ pc' = "act"
      /\ UNCHANGED <<setup, m, response, clock, pos, heard, inbox, restarts>>
  BY DEF logTransaction, network
<1>4. TypesInv'
  <2>1. tlog \in Seq(Transaction(st)) /\ pos \in 0..Len(tlog)
    BY <1>1 DEF DealerInv, TypesInv
  <2>2. tlog' \in Seq(Transaction(st)) /\ pos' \in 0..Len(tlog')
    BY <1>2, <1>3, <2>1
  <2>3. QED
    BY <1>1, <1>3, <2>2 DEF DealerInv, TypesInv, Phases
<1>5. FileInv'
  <2>1. recorded' = processTransactionFile(setup', tlog')
    BY <1>3, Zenon
  <2>2. recorded' # << >>
    <3>1. PICK a : a = Advance(st, Replayed(st, r, entry))
      OBVIOUS
    <3>2. recorded' = <<a>>
      BY <1>2, <3>1, Zenon
    <3>3. <<a>> # << >>
      OBVIOUS
    <3>4. QED
      BY <3>2, <3>3, Zenon
  <2>3. pc' # "replay"
    BY <1>3
  <2>4. QED
    BY <2>1, <2>2, <2>3, Zenon DEF FileInv
<1>6. AnswerInv'
  BY <1>3 DEF DealerInv, AnswerInv, Game
<1>7. MatchInv'
  <2>1. Caught' = Advance(st, Moved(st, L, entry.action))
    BY <1>1, <1>2, <1>3 DEF Caught, Advance, Moved, Game
  <2>2. PICK after, next : after = Replayed(st, r, entry) /\ next = Moved(st, L, entry.action)
    OBVIOUS
  <2>3. Follows(st, Advance(st, after), Advance(st, after).errorInfo, Advance(st, next))
    BY <1>1, <1>2, <2>2, AdvanceAlike
  <2>4. recorded'[1] = Advance(st, after) /\ TimeAccounted' = Advance(st, after).errorInfo
    BY <1>2, <1>3, <2>2 DEF TimeAccounted
  <2>5. QED
    BY <1>1, <1>3, <2>1, <2>2, <2>3, <2>4 DEF MatchInv
<1>8. HeardInv'
  <2>1. \A s \in Seats(setup) : inbox'[s] \in Seq(LinesOf(s)')
    BY <1>3 DEF DealerInv, HeardInv, LinesOf
  <2>2. ASSUME NEW s \in Seats(setup), NEW msg \in heard[s]
        PROVE  msg.says.handId \in Nat /\ Older(msg, tlog', recorded'[1])
    <3>1. msg.says.handId \in Nat /\ Older(msg, tlog, r)
      BY <1>1 DEF DealerInv, HeardInv
    <3>2. PICK file, longer : file = tlog /\ longer = tlog'
      OBVIOUS
    <3>3. Older(msg, longer, Advance(st, Replayed(st, r, entry)))
      BY <1>1, <1>2, <3>1, <3>2, NewLineIsNewer
    <3>4. QED
      BY <1>2, <3>1, <3>2, <3>3
  <2>3. QED
    BY <1>3, <2>1, <2>2 DEF HeardInv
<1>9. QED
  BY <1>4, <1>5, <1>6, <1>7, <1>8 DEF DealerInv

(* Playing what was written down brings gameLoop() nearer to the top of    *)
(* its loop, and that is where the file is already.                        *)
LEMMA DoActionStep ==
  ASSUME DealerInv, DoAction, recorded' = processTransactionFile(setup, tlog')
  PROVE  DealerInv'
<1>1. PICK st \in Setups, L \in InMatch(setup) : st = setup /\ L = m
  BY DEF DealerInv, TypesInv
<1>2. PICK action : action = response.action
  OBVIOUS
<1>3. PICK next : next = Moved(st, L, action)
  OBVIOUS
<1>4. /\ pc = "act"
      /\ m' = IF next.state.finished THEN AddValues(st, next) ELSE next
      /\ pc' = IF next.state.finished THEN "logHand" ELSE "send"
      /\ UNCHANGED <<setup, clock, tlog, pos, heard, inbox, restarts>>
  <2>1. next.state = doAction(Game, m.state, response.action)
        /\ next = [m EXCEPT !.state = doAction(Game, m.state, response.action)]
    BY <1>1, <1>2, <1>3 DEF Moved, Game, InMatch, LocalOf
  <2>2. QED
    BY <1>1, <2>1 DEF DoAction, files, network
<1>5. recorded' = recorded
  BY <1>4, NothingWritten DEF DealerInv
<1>6. /\ action \in Playable(st) /\ isValidAction(st.game, L.state, FALSE, action)
      /\ L.handId < NumHands
  BY <1>1, <1>2, <1>4 DEF DealerInv, AnswerInv, Game
<1>7. next \in InMatch(st) /\ next.handId = L.handId
  BY <1>1, <1>3, <1>6, MovedEffect
<1>8. m' \in InMatch(st) /\ (~next.state.finished => m'.handId = L.handId)
  <2>1. PICK added : added = AddValues(st, next)
    OBVIOUS
  <2>2. added \in InMatch(st)
    BY <1>1, <1>7, <2>1, AddValuesEffect DEF InMatch, Dealt
  <2>3. QED
    BY <1>4, <1>7, <2>1, <2>2
<1>9. Caught' = Caught
  <2>1. Caught = Advance(st, next)
    BY <1>1, <1>2, <1>3, <1>4 DEF Caught, Advance, Moved, Game
  <2>2. CASE next.state.finished
    BY <1>1, <1>4, <2>1, <2>2 DEF Caught, Advance, NextHand
  <2>3. CASE ~next.state.finished
    BY <1>1, <1>4, <2>1, <2>3 DEF Caught, Advance
  <2>4. QED
    BY <2>2, <2>3
<1>10. pc' \in {"logHand", "send"}
  BY <1>4
<1>11. TypesInv'
  BY <1>1, <1>4, <1>8, <1>10 DEF DealerInv, TypesInv, Phases
<1>12. FileInv'
  BY <1>4, <1>5, <1>10 DEF DealerInv, FileInv
<1>13. AnswerInv'
  BY <1>4, <1>6, <1>8, <1>10 DEF AnswerInv
<1>14. MatchInv'
  <2>1. Follows(setup, recorded[1], recorded[1].errorInfo, Caught)
    BY <1>4 DEF DealerInv, MatchInv, TimeAccounted
  <2>2. TimeAccounted' = recorded[1].errorInfo
    BY <1>5, <1>10 DEF TimeAccounted
  <2>3. QED
    BY <1>4, <1>5, <1>9, <2>1, <2>2 DEF MatchInv
<1>15. HeardInv'
  BY <1>4, <1>5, NothingSaid DEF DealerInv
<1>16. QED
  BY <1>11, <1>12, <1>13, <1>14, <1>15 DEF DealerInv

(* A program that starts has heard nothing and read nothing.               *)
LEMMA RestartStep ==
  ASSUME DealerInv, Restart, recorded' = processTransactionFile(setup, tlog')
  PROVE  DealerInv'
<1>1. /\ restarts < MaxRestarts /\ restarts' = restarts + 1
      /\ pc' = "replay" /\ pos' = 0 /\ m' = StartOfMatch(setup) /\ clock' = 0
      /\ heard' = [s \in Seats(setup) |-> {}] /\ inbox' = [s \in Seats(setup) |-> << >>]
      /\ UNCHANGED <<setup, tlog>>
  BY DEF Restart
<1>2. PICK st \in Setups, file \in Seq(Transaction(setup)), n \in Nat :
        st = setup /\ file = tlog /\ n = restarts
  BY DealerAssumption DEF DealerInv, TypesInv
<1>3. recorded' = recorded
  BY <1>1, NothingWritten DEF DealerInv
<1>4. m' \in InMatch(st)
  BY <1>1, <1>2, StartIsAtTop, AtTopIsInMatch
<1>5. TypesInv'
  <2>1. restarts' \in 0..MaxRestarts
    BY <1>1, <1>2, DealerAssumption
  <2>2. pos' \in 0..Len(tlog')
    BY <1>1, <1>2
  <2>3. QED
    BY <1>1, <1>2, <1>4, <2>1, <2>2 DEF DealerInv, TypesInv, Phases
<1>6. FileInv'
  BY <1>1, <1>2, <1>3, LineAfterLine DEF DealerInv, FileInv
<1>7. AnswerInv' /\ MatchInv'
  BY <1>1 DEF AnswerInv, MatchInv
<1>8. HeardInv'
  BY <1>1 DEF HeardInv
<1>9. QED
  BY <1>5, <1>6, <1>7, <1>8 DEF DealerInv

LEMMA DealerStarts ==
  InitWithRecord => DealerInv
<1> SUFFICES ASSUME InitWithRecord
             PROVE  DealerInv
  OBVIOUS
<1>1. /\ setup \in Setups /\ pc = "replay" /\ m = StartOfMatch(setup) /\ clock = 0
      /\ tlog = << >> /\ pos = 0 /\ restarts = 0
      /\ heard = [s \in Seats(setup) |-> {}] /\ inbox = [s \in Seats(setup) |-> << >>]
      /\ recorded = processTransactionFile(setup, tlog)
  BY DEF InitWithRecord, Init
<1>2. PICK st \in Setups : st = setup
  BY <1>1
<1>3. << >> \in Seq(Transaction(st)) /\ Len(<< >>) = 0
  OBVIOUS
<1>4. /\ processTransactionFile(st, << >>) = <<StartOfMatch(st)>>
      /\ processTransactionFile(st, FirstLines(<< >>, 0)) = <<StartOfMatch(st)>>
  BY <1>3, EmptyFile, LineAfterLine
<1>5. StartOfMatch(st) \in InMatch(st)
  BY StartIsAtTop, AtTopIsInMatch
<1>6. TypesInv
  <2>1. m \in InMatch(setup) /\ tlog \in Seq(Transaction(setup)) /\ pos \in 0..Len(tlog)
    BY <1>1, <1>2, <1>3, <1>5
  <2>2. restarts \in 0..MaxRestarts
    BY <1>1, DealerAssumption
  <2>3. QED
    BY <1>1, <2>1, <2>2 DEF TypesInv, Phases
<1>7. FileInv
  <2>1. recorded = <<m>> /\ processTransactionFile(setup, FirstLines(tlog, pos)) = <<m>>
    BY <1>1, <1>2, <1>4
  <2>2. <<m>> # << >>
    OBVIOUS
  <2>3. recorded = processTransactionFile(setup, tlog)
    BY <1>1
  <2>4. recorded # << >>
    BY <2>1, <2>2
  <2>5. QED
    BY <2>1, <2>3, <2>4 DEF FileInv
<1>8. AnswerInv /\ MatchInv /\ HeardInv
  BY <1>1 DEF AnswerInv, MatchInv, HeardInv
<1>9. QED
  BY <1>6, <1>7, <1>8 DEF DealerInv

LEMMA DealerStepKeepsInv ==
  DealerInv /\ [NextWithRecord]_<<vars, recorded>> => DealerInv'
<1> SUFFICES ASSUME DealerInv, [NextWithRecord]_<<vars, recorded>>
             PROVE  DealerInv'
  OBVIOUS
<1>1. CASE UNCHANGED <<vars, recorded>>
  BY <1>1 DEF vars, DealerInv, TypesInv, FileInv, AnswerInv, MatchInv, HeardInv,
              TimeAccounted, Caught, LinesOf, Game
<1>2. CASE NextWithRecord
  <2>0. recorded' = processTransactionFile(setup, tlog')
    BY <1>2 DEF NextWithRecord
  <2>1. CASE ReplayLine
    BY <2>0, <2>1, ReplayLineStep
  <2>2. CASE ReplayDone
    BY <2>0, <2>2, ReplayDoneStep
  <2>3. CASE SendState
    BY <2>0, <2>3, SendStateStep
  <2>4. CASE ReadFails
    BY <2>0, <2>4, PlaceStep DEF ReadFails, files, network
  <2>5. ASSUME NEW micros \in ArrivalTimes, ReadLine(micros)
        PROVE  DealerInv'
    BY <2>0, <2>5, ReadLineStep
  <2>6. CASE logTransaction
    BY <2>0, <2>6, logTransactionStep
  <2>7. CASE DoAction
    BY <2>0, <2>7, DoActionStep
  <2>8. CASE addToLogFile
    BY <2>0, <2>8, PlaceStep DEF addToLogFile, network
  <2>9. CASE SendFinal
    BY <2>0, <2>9, SendFinalStep
  <2>10. CASE printFinalMessage
    BY <2>0, <2>10, PlaceStep DEF printFinalMessage, network
  <2>11. ASSUME NEW seat \in Seats(setup), NEW line \in LinesOf(seat), SendLine(seat, line)
         PROVE  DealerInv'
    BY <2>0, <2>11, SendLineStep
  <2>12. CASE Crash
    BY <2>0, <2>12, PlaceStep DEF Crash, files, network
  <2>13. CASE Restart
    BY <2>0, <2>13, RestartStep
  <2>14. QED
    BY <1>2, <2>1, <2>2, <2>3, <2>4, <2>5, <2>6, <2>7, <2>8, <2>9, <2>10, <2>11,
       <2>12, <2>13 DEF NextWithRecord, Next, DealerStep
<1>3. QED
  BY <1>1, <1>2

-----------------------------------------------------------------------------
(* Theorems                                                                *)

(* At every point of every match DealerInv holds.                          *)
THEOREM DealerInvHolds == SpecWithRecord => []DealerInv
<1>1. InitWithRecord => DealerInv
  BY DealerStarts
<1>2. DealerInv /\ [NextWithRecord]_<<vars, recorded>> => DealerInv'
  BY DealerStepKeepsInv
<1>3. QED
  BY <1>1, <1>2, PTL DEF SpecWithRecord

(* The types of gameLoop()'s variables; in particular player0Seat stays a  *)
(* seat however often the players rotate.                                  *)
THEOREM DealerTypes == SpecWithRecord => []TypeOK
<1>1. ASSUME DealerInv
      PROVE  TypeOK
  <2>1. PICK st \in Setups, L \in InMatch(setup), file \in Seq(Transaction(setup)) :
          st = setup /\ L = m /\ file = tlog
    BY <1>1 DEF DealerInv, TypesInv
  <2>2. m \in LocalState
    BY <2>1 DEF InMatch, LocalOf, ErrorInfoOf, CountersOf, LocalState, Counters, Game
  <2>3. ASSUME NEW i \in DOMAIN tlog
        PROVE  tlog[i].action.type \in ActionTypes /\ tlog[i].handId <= m.handId + NumHands
    <3>1. PICK entry \in Transaction(st) : entry = tlog[i]
      BY <2>1, <2>3
    <3>2. entry.action.type \in ActionTypes
      BY DEF Transaction, Playable, ActionTypes
    <3>3. entry.handId \in 0..NumHands - 1 /\ L.handId \in Nat
      BY DEF Transaction, InMatch, LocalOf
    <3>4. QED
      BY <2>1, <3>1, <3>2, <3>3, DealerAssumption
  <2>4. QED
    BY <1>1, <2>2, <2>3 DEF DealerInv, TypesInv, Phases, TypeOK
<1>2. QED
  BY <1>1, DealerInvHolds, PTL

(* Whatever the point at which the dealer is stopped, the next one gets    *)
(* through the transaction file and finds the hand, the cards, the seats,  *)
(* the betting and the totals with which the stopped one would have gone   *)
(* on.                                                                     *)
THEOREM RestartFindsTheMatch == SpecWithRecord => []RestartResumes
<1>1. DealerInv => RestartResumes
  BY DEF DealerInv, FileInv, MatchInv, Follows, RestartResumes
<1>2. QED
  BY <1>1, DealerInvHolds, PTL

(* An action is written down and played only in the state that its player  *)
(* was shown last, although messages carry no sequence number.             *)
THEOREM AnswersAreFresh == SpecWithRecord => []NoStaleAnswer
<1>1. DealerInv => NoStaleAnswer
  BY DEF DealerInv, AnswerInv, NoStaleAnswer
<1>2. QED
  BY <1>1, DealerInvHolds, PTL

(* The time of all the actions a seat has recorded, by however many runs   *)
(* of the program, stays within the limit for the match.                   *)
THEOREM TimeLimitHolds == SpecWithRecord => []TimeLimitSurvivesRestarts
<1>1. ASSUME DealerInv
      PROVE  TimeLimitSurvivesRestarts
  <2>1. PICK st, r, file :
          /\ st \in Setups /\ r \in AtTop(st) /\ file \in Seq(Transaction(st))
          /\ st = setup /\ recorded = <<r>> /\ file = tlog
    BY <1>1, RecordIsAtTop DEF DealerInv, TypesInv
  <2>2. processTransactionFile(st, file) = <<r>>
    BY <1>1, <2>1 DEF DealerInv, FileInv
  <2>3. ASSUME NEW s \in Seats(setup)
        PROVE  RecordedTime(s) <= MaxUsedMatchMicros
    <3>1. RecordedTime(s) = TimeIn(st, file, s)
      BY <2>1 DEF RecordedTime, TimeIn
    <3>2. TimeIn(st, file, s) = r.errorInfo.usedMatchMicros[s]
      BY <2>1, <2>2, TimeIsCharged
    <3>3. r.errorInfo.usedMatchMicros[s] <= MaxUsedMatchMicros
      BY <2>1 DEF AtTop
    <3>4. QED
      BY <3>1, <3>2, <3>3
  <2>4. QED
    BY <2>3 DEF TimeLimitSurvivesRestarts
<1>2. QED
  BY <1>1, DealerInvHolds, PTL

-----------------------------------------------------------------------------
(* The transaction file describes a match of Match.tla.                    *)

(* Who sits in a seat follows from the number of the hand.                 *)
PlayerIn(st, hand, seat) ==
  IF st.fixedSeats THEN seat
  ELSE CHOOSE p \in Players(st.game) : (p + hand) % st.game.numPlayers = seat

LEMMA PlayerOfSeat ==
  ASSUME NEW st \in Setups, NEW L \in LocalOf(st), Dealt(st, L), NEW seat \in Seats(st)
  PROVE  /\ PlayerIn(st, L.handId, seat) = seatToPlayer(st, L.player0Seat, seat)
         /\ PlayerIn(st, L.handId, seat) \in Seats(st)
<1>1. PICK n \in Nat, hand \in Nat : n = st.game.numPlayers /\ hand = L.handId
  BY SetupFacts DEF LocalOf
<1>2. /\ n \in Nat \ {0} /\ Seats(st) = 0..n - 1 /\ Players(st.game) = 0..n - 1
      /\ st.fixedSeats \in BOOLEAN
  BY <1>1, SetupFacts DEF Players
<1>3. PICK player : player = seatToPlayer(st, L.player0Seat, seat)
  OBVIOUS
<1>4. CASE st.fixedSeats
  <2>1. player = (seat + n - 0) % n
    BY <1>1, <1>3, <1>4 DEF Dealt, seatToPlayer
  <2>2. (seat + n) % n = seat
    BY <1>2, Remainder
  <2>3. player = seat
    BY <1>2, <2>1, <2>2
  <2>4. QED
    BY <1>3, <1>4, <2>3 DEF PlayerIn
<1>5. CASE ~st.fixedSeats
  <2>1. player = (seat + n - (hand % n)) % n
    BY <1>1, <1>3, <1>5 DEF Dealt, seatToPlayer
  <2>2. ASSUME NEW p \in 0..n - 1
        PROVE  (p + hand) % n = seat <=> p = player
    <3>1. n \in Nat \ {0} /\ seat \in 0..n - 1
      BY <1>2
    <3>2. (p + hand) % n = seat <=> p = (seat + n - (hand % n)) % n
      <4>1. Rotates(n, hand, seat, p)
        BY <3>1, Rotations
      <4>2. QED
        BY <4>1, Zenon DEF Rotates
    <3>3. QED
      BY <2>1, <3>2
  <2>3. player \in 0..n - 1
    <3>1. hand % n \in 0..n - 1
      BY <1>2
    <3>2. seat + n - (hand % n) \in Nat
      BY <1>2, <3>1
    <3>3. QED
      BY <1>2, <2>1, <3>2
  <2>4. (CHOOSE p \in 0..n - 1 : (p + hand) % n = seat) = player
    BY <2>2, <2>3
  <2>5. QED
    BY <1>1, <1>2, <1>3, <1>5, <2>3, <2>4 DEF PlayerIn
<1>6. QED
  BY <1>2, <1>4, <1>5

LEMMA WorthIsSettled ==
  ASSUME NEW st \in Setups, NEW L \in InMatch(st), NEW s \in Seats(st)
  PROVE  Settled(st, L)[s]
           = L.totalValue[s] + valueOfState(st.game, L.state, st.deck[L.handId + 1],
                                            PlayerIn(st, L.handId, s))
<1>1. /\ PlayerIn(st, L.handId, s) = seatToPlayer(st, L.player0Seat, s)
      /\ PlayerIn(st, L.handId, s) \in Seats(st)
  BY PlayerOfSeat DEF InMatch
<1>2. L.dealt = L.handId + 1
  BY DEF InMatch, Dealt
<1>3. QED
  BY <1>1, <1>2 DEF Settled, HandValue

LEMMA MatchStarts ==
  InitWithRecord => Promise!Init
<1> SUFFICES ASSUME InitWithRecord
             PROVE  Promise!Init
  OBVIOUS
<1>1. recorded = <<StartOfMatch(setup)>>
  BY EmptyFile DEF InitWithRecord, Init
<1>2. QED
  BY <1>1 DEF Promise!Init, StartOfMatch, Seats

(* Writing a line is a step of the match, and nothing else is.             *)
LEMMA LineIsPlay ==
  ASSUME DealerInv, logTransaction, recorded' = processTransactionFile(setup, tlog')
  PROVE  Promise!Next
<1>0. PICK st, r, L, entry : Writing(st, r, L, entry)
  BY RecordIsAtTop DEF DealerInv, TypesInv, Writing
<1>1. /\ st \in Setups /\ r \in AtTop(st) /\ L \in InMatch(st)
      /\ st = setup /\ recorded = <<r>> /\ L = m
  BY <1>0 DEF Writing
<1>2. /\ entry \in Transaction(st) /\ Accepts(st, r, entry)
      /\ recorded' = <<Advance(st, Replayed(st, r, entry))>>
  BY <1>0, LineWritten
<1>3. PICK action : action = entry.action /\ action \in Playable(st)
  BY <1>2 DEF Transaction
<1>4. PICK after, next, moved :
        /\ after = Replayed(st, r, entry) /\ next = Advance(st, after)
        /\ moved = doAction(st.game, r.state, action)
  OBVIOUS
<1>5. /\ after \in InMatch(st) /\ after.handId = r.handId
      /\ after.totalValue = r.totalValue /\ after.state = moved
  BY <1>1, <1>2, <1>3, <1>4, ReplayedEffect DEF Accepts, InMatch
<1>6. /\ next.handId = r.handId + (IF moved.finished THEN 1 ELSE 0)
      /\ next.state = IF moved.finished THEN initState(st.game) ELSE moved
      /\ next.totalValue = IF moved.finished THEN Settled(st, after) ELSE r.totalValue
  BY <1>1, <1>4, <1>5, AdvanceEffect DEF InMatch
<1>7. r.handId \in Nat /\ isValidAction(st.game, r.state, FALSE, action)
  BY <1>1, <1>2, <1>3 DEF AtTop, LocalOf, Accepts
<1>8. /\ setup' = setup /\ recorded[1] = r /\ recorded'[1] = next
  BY <1>1, <1>2, <1>4 DEF logTransaction
<1>9. Settled(st, after)
        = [s \in Players(st.game) |-> r.totalValue[s] + Promise!Worth(moved, s)]
  <2>1. ASSUME NEW s \in Seats(st)
        PROVE  Settled(st, after)[s] = r.totalValue[s] + Promise!Worth(moved, s)
    <3>1. Promise!Player(s) = PlayerIn(st, r.handId, s)
      BY <1>1, <1>8 DEF Promise!Player, PlayerIn
    <3>2. Promise!Worth(moved, s)
            = valueOfState(st.game, moved, st.deck[r.handId + 1], PlayerIn(st, r.handId, s))
      BY <1>1, <1>8, <3>1 DEF Promise!Worth
    <3>3. QED
      BY <1>1, <1>5, <3>2, WorthIsSettled
  <2>2. Settled(st, after) = [s \in Seats(st) |-> Settled(st, after)[s]]
    BY DEF Settled
  <2>3. QED
    BY <2>1, <2>2 DEF Seats
<1>10. Promise!Play(action)
  <2>1. CASE moved.finished
    BY <1>1, <1>4, <1>6, <1>7, <1>8, <1>9, <2>1 DEF Promise!Play
  <2>2. CASE ~moved.finished
    <3>1. next.handId = r.handId /\ next.state = moved /\ next.totalValue = r.totalValue
      BY <1>6, <1>7, <2>2
    <3>2. QED
      BY <1>1, <1>4, <1>7, <1>8, <2>2, <3>1 DEF Promise!Play
  <2>3. QED
    BY <2>1, <2>2
<1>11. action \in Promise!Actions
  BY <1>1, <1>3 DEF Promise!Actions, Playable
<1>12. QED
  BY <1>10, <1>11 DEF Promise!Next

(* The dealer implements Match.tla: no failure takes back or repeats an    *)
(* action, a finished hand is settled once, seat by seat, and after a      *)
(* restart the same players hold the same cards.                           *)
THEOREM DealerImplementsMatch == SpecWithRecord => ImplementsMatch
<1>1. InitWithRecord => Promise!Init
  BY MatchStarts
<1>2. DealerInv /\ [NextWithRecord]_<<vars, recorded>> => [Promise!Next]_Promise!vars
  <2> SUFFICES ASSUME DealerInv, [NextWithRecord]_<<vars, recorded>>
               PROVE  [Promise!Next]_Promise!vars
    OBVIOUS
  <2>1. CASE UNCHANGED <<vars, recorded>>
    BY <2>1 DEF vars, Promise!vars
  <2>2. CASE NextWithRecord /\ logTransaction
    BY <2>2, LineIsPlay DEF NextWithRecord
  <2>3. CASE NextWithRecord /\ ~logTransaction
    <3>1. UNCHANGED <<setup, tlog>>
      BY <2>3 DEF NextWithRecord, Next, DealerStep, ReplayLine, ReplayDone, SendState,
                  ReadFails, ReadLine, DoAction, addToLogFile, SendFinal,
                  printFinalMessage, SendLine, Crash, Restart, files
    <3>2. recorded' = recorded
      BY <2>3, <3>1, NothingWritten DEF NextWithRecord, DealerInv
    <3>3. QED
      BY <3>1, <3>2 DEF Promise!vars
  <2>4. QED
    BY <2>1, <2>2, <2>3
<1>3. QED
  BY <1>1, <1>2, DealerInvHolds, PTL DEF SpecWithRecord, ImplementsMatch, Promise!Spec

-----------------------------------------------------------------------------
(* What the log says.                                                      *)

SeatValueIn(st, e, s) == e.value[CHOOSE p \in Seats(st) : e.seat[p] = s]

HandLineOf(st) ==
  {e \in [handId : Nat, value : [Seats(st) -> Int], seat : [Seats(st) -> Seats(st)]] :
     \A s \in Seats(st) : SeatValueIn(st, e, s) \in Int}

ScoreLineOf(st) == [score : [Seats(st) -> Int]]

LogOf(st) == Seq(HandLineOf(st) \union ScoreLineOf(st))

ValuesOf(st, file, s) == [i \in HandLines(file) |-> SeatValueIn(st, file[i], s)]

InOrder(file) ==
  \A i, j \in HandLines(file) : i < j => file[i].handId < file[j].handId

Missing(file, n) == (0..n - 1) \ LoggedHands(file)

(* The log has the first n hands but for at most k of them, and if it has  *)
(* them all they add up to the totals.                                     *)
Accounts(st, file, n, k, totals) ==
  /\ file \in LogOf(st) /\ n \in Nat /\ k \in Nat
  /\ InOrder(file) /\ LoggedHands(file) \subseteq 0..n - 1
  /\ Cardinality(Missing(file, n)) <= k
  /\ Missing(file, n) = {} =>
       \A s \in Seats(st) : Total(ValuesOf(st, file, s), HandLines(file)) = totals[s]

(* The lines of the log and the sums over them are finite.                 *)
LEMMA LogIsFinite ==
  ASSUME NEW st, NEW file \in LogOf(st)
  PROVE  /\ IsFiniteSet(HandLines(file)) /\ HandLines(file) \subseteq 1..Len(file)
         /\ Len(file) \in Nat
         /\ \A i \in HandLines(file) :
              file[i].handId \in Nat /\ \A s \in Seats(st) : SeatValueIn(st, file[i], s) \in Int
         /\ \A n \in Nat : IsFiniteSet(Missing(file, n))
                           /\ Cardinality(Missing(file, n)) \in Nat
<1>1. PICK n \in Nat : n = Len(file) /\ DOMAIN file = 1..n
  BY DEF LogOf
<1>2. HandLines(file) \subseteq 1..n
  BY <1>1 DEF HandLines
<1>3. IsFiniteSet(HandLines(file))
  <2>1. IsFiniteSet(1..n)
    BY <1>1, FS_Interval
  <2>2. QED
    BY <1>2, <2>1, FS_Subset
<1>4. ASSUME NEW i \in HandLines(file)
      PROVE  file[i] \in HandLineOf(st)
  <2>1. "handId" \in DOMAIN file[i] /\ file[i] \in HandLineOf(st) \union ScoreLineOf(st)
    BY <1>1, <1>4 DEF HandLines, LogOf
  <2>2. file[i] \notin ScoreLineOf(st)
    BY <2>1 DEF ScoreLineOf
  <2>3. QED
    BY <2>1, <2>2
<1>5. ASSUME NEW k \in Nat
      PROVE  IsFiniteSet(Missing(file, k)) /\ Cardinality(Missing(file, k)) \in Nat
  <2>1. IsFiniteSet(0..k - 1) /\ Missing(file, k) \subseteq 0..k - 1
    BY FS_Interval DEF Missing
  <2>2. IsFiniteSet(Missing(file, k))
    BY <2>1, FS_Subset
  <2>3. QED
    BY <2>2, FS_CardinalityType
<1>6. QED
  BY <1>1, <1>2, <1>3, <1>4, <1>5 DEF HandLineOf

LEMMA LogStarts ==
  ASSUME NEW st, NEW totals, \A s \in Seats(st) : totals[s] = 0
  PROVE  Accounts(st, << >>, 0, 0, totals)
<1>1. PICK none : none = << >>
  OBVIOUS
<1>2. none \in LogOf(st) /\ DOMAIN none = {}
  BY <1>1 DEF LogOf
<1>3. HandLines(none) = {}
  BY <1>2 DEF HandLines
<1>4. LoggedHands(none) = {} /\ InOrder(none)
  BY <1>3 DEF LoggedHands, InOrder
<1>5. Missing(none, 0) = {} /\ Cardinality({}) = 0
  BY FS_EmptySet DEF Missing
<1>6. ASSUME NEW s
      PROVE  Total(ValuesOf(st, none, s), HandLines(none)) = 0
  <2>1. PICK f : f = ValuesOf(st, none, s)
    OBVIOUS
  <2>2. IsFiniteSet({}) /\ \A x \in {} : f[x] \in Int
    BY FS_EmptySet
  <2>3. Total(f, {}) = 0
    BY <2>2, TotalStep
  <2>4. QED
    BY <1>3, <2>1, <2>3
<1>7. LoggedHands(none) \subseteq 0..0 - 1 /\ Cardinality(Missing(none, 0)) <= 0
  BY <1>4, <1>5
<1>8. \A s \in Seats(st) : Total(ValuesOf(st, none, s), HandLines(none)) = totals[s]
  BY <1>6
<1>9. 0 \in Nat
  OBVIOUS
<1>10. QED
  BY <1>1, <1>2, <1>4, <1>7, <1>8, <1>9, Zenon DEF Accounts

(* What a line more does to the lines there are.                           *)
IsLonger(st, file, e, longer, last) ==
  /\ file \in LogOf(st) /\ e \in HandLineOf(st) \union ScoreLineOf(st)
  /\ longer = Append(file, e) /\ last = Len(file) + 1

LEMMA LineIsAdded ==
  ASSUME NEW st, NEW file, NEW e, NEW longer, NEW last, IsLonger(st, file, e, longer, last)
  PROVE  /\ longer \in LogOf(st) /\ longer[last] = e /\ last \in Nat
         /\ last \notin HandLines(file) /\ \A i \in HandLines(file) : i < last
         /\ \A i \in HandLines(file) : longer[i] = file[i]
         /\ e \in HandLineOf(st) => HandLines(longer) = HandLines(file) \union {last}
         /\ e \in ScoreLineOf(st) => HandLines(longer) = HandLines(file)
<1>1. PICK n \in Nat : n = Len(file) /\ DOMAIN file = 1..n /\ last = n + 1
  BY DEF IsLonger, LogOf
<1>2. /\ longer \in LogOf(st) /\ longer[last] = e /\ DOMAIN longer = 1..n + 1
      /\ \A i \in 1..n : longer[i] = file[i]
  BY <1>1 DEF IsLonger, LogOf
<1>3. HandLines(file) \subseteq 1..n
  BY <1>1 DEF HandLines
<1>4. /\ e \in HandLineOf(st) => "handId" \in DOMAIN e
      /\ e \in ScoreLineOf(st) => "handId" \notin DOMAIN e
  BY DEF HandLineOf, ScoreLineOf
<1>5. ASSUME NEW i
      PROVE  i \in HandLines(longer) <=>
               i \in HandLines(file) \/ (i = last /\ "handId" \in DOMAIN e)
  <2>1. CASE i \in 1..n
    BY <1>1, <1>2, <2>1 DEF HandLines
  <2>2. CASE i = last
    BY <1>1, <1>2, <1>3, <2>2 DEF HandLines
  <2>3. CASE i \notin 1..n /\ i # last
    BY <1>1, <1>2, <1>3, <2>3 DEF HandLines
  <2>4. QED
    BY <2>1, <2>2, <2>3
<1>6. /\ last \notin HandLines(file) /\ \A i \in HandLines(file) : i < last
      /\ last \in Nat
  BY <1>1, <1>3
<1>7. /\ e \in HandLineOf(st) => HandLines(longer) = HandLines(file) \union {last}
      /\ e \in ScoreLineOf(st) => HandLines(longer) = HandLines(file)
  BY <1>4, <1>5
<1>8. QED
  BY <1>2, <1>3, <1>6, <1>7

LEMMA TotalWithOneMore ==
  ASSUME NEW S, IsFiniteSet(S), NEW y, y \notin S,
         NEW T, T = S \union {y}, NEW f, \A x \in T : f[x] \in Int
  PROVE  Total(f, T) = f[y] + Total(f, S) /\ Total(f, S) \in Int
<1>1. IsFiniteSet(T)
  BY FS_AddElement
<1>2. y \in T /\ T \in SUBSET T /\ S \in SUBSET T /\ T \ {y} = S
  OBVIOUS
<1>3. \A U \in SUBSET T : /\ Total(f, U) \in Int
                          /\ \A x \in U : Total(f, U) = f[x] + Total(f, U \ {x})
  BY <1>1, TotalStep
<1>4. Total(f, T) = f[y] + Total(f, T \ {y})
  BY <1>2, <1>3, Zenon
<1>5. Total(f, S) \in Int
  BY <1>2, <1>3, Zenon
<1>6. QED
  BY <1>2, <1>4, <1>5

(* A hand more is reported, and what it changed is in its line.            *)
LEMMA HandIsLogged ==
  ASSUME NEW st, NEW file, NEW n, NEW k, NEW old, Accounts(st, file, n, k, old),
         NEW e \in HandLineOf(st), e.handId = n,
         NEW new, \A s \in Seats(st) : new[s] = old[s] + SeatValueIn(st, e, s)
  PROVE  Accounts(st, Append(file, e), n + 1, k, new)
<1>1. PICK longer : longer = Append(file, e)
  OBVIOUS
<1>0. PICK last : last = Len(file) + 1
  OBVIOUS
<1>2. /\ file \in LogOf(st) /\ n \in Nat /\ k \in Nat
      /\ InOrder(file) /\ LoggedHands(file) \subseteq 0..n - 1
      /\ Cardinality(Missing(file, n)) <= k
  BY DEF Accounts
<1>3. /\ longer \in LogOf(st) /\ longer[last] = e
      /\ last \notin HandLines(file) /\ \A i \in HandLines(file) : i < last
      /\ \A i \in HandLines(file) : longer[i] = file[i]
      /\ HandLines(longer) = HandLines(file) \union {last} /\ last \in Nat
  <2>1. IsLonger(st, file, e, longer, last)
    BY <1>0, <1>1, <1>2 DEF IsLonger
  <2>2. QED
    BY <2>1, LineIsAdded
<1>4. /\ IsFiniteSet(HandLines(file)) /\ IsFiniteSet(HandLines(longer))
      /\ HandLines(file) \subseteq Nat /\ last \in Nat
      /\ \A i \in HandLines(file) :
           file[i].handId \in Nat /\ \A s \in Seats(st) : SeatValueIn(st, file[i], s) \in Int
  <2>1. HandLines(file) \subseteq 1..Len(file) /\ Len(file) \in Nat
    BY <1>2, LogIsFinite
  <2>2. HandLines(file) \subseteq Nat
    BY <2>1
  <2>3. QED
    BY <1>2, <1>3, <2>2, LogIsFinite
<1>5. \A i \in HandLines(file) : file[i].handId < n
  <2>1. TAKE i \in HandLines(file)
  <2>2. file[i].handId \in 0..n - 1
    BY <1>2 DEF LoggedHands
  <2>3. QED
    BY <1>2, <2>2
<1>6. LoggedHands(longer) = LoggedHands(file) \union {n}
  BY <1>3 DEF LoggedHands
<1>7. InOrder(longer)
  <2>1. SUFFICES ASSUME NEW i \in HandLines(longer), NEW j \in HandLines(longer), i < j
                 PROVE  longer[i].handId < longer[j].handId
    BY DEF InOrder
  <2>2. i \in HandLines(file)
    BY <1>3, <1>4, <2>1
  <2>3. CASE j \in HandLines(file)
    BY <1>2, <1>3, <2>1, <2>2, <2>3 DEF InOrder
  <2>4. CASE j = last
    BY <1>3, <1>5, <2>2, <2>4
  <2>5. QED
    BY <1>3, <2>3, <2>4
<1>8. LoggedHands(longer) \subseteq 0..(n + 1) - 1 /\ Missing(longer, n + 1) = Missing(file, n)
  <2>1. 0..(n + 1) - 1 = (0..n - 1) \union {n} /\ n \notin 0..n - 1
    BY <1>2
  <2>2. QED
    BY <1>2, <1>6, <2>1 DEF Missing
<1>9. ASSUME Missing(file, n) = {}, NEW s \in Seats(st)
      PROVE  Total(ValuesOf(st, longer, s), HandLines(longer)) = new[s]
  <2>1. PICK v, w, S, T : /\ v = ValuesOf(st, file, s) /\ S = HandLines(file)
                          /\ w = ValuesOf(st, longer, s) /\ T = HandLines(longer)
    OBVIOUS
  <2>2. IsFiniteSet(S) /\ IsFiniteSet(T) /\ T = S \union {last} /\ last \notin S
    BY <1>3, <1>4, <2>1
  <2>3. /\ \A i \in S : v[i] \in Int /\ v[i] = w[i]
        /\ w[last] = SeatValueIn(st, e, s) /\ w[last] \in Int
    <3>1. \A i \in S : v[i] = SeatValueIn(st, file[i], s) /\ v[i] \in Int
      BY <1>4, <2>1 DEF ValuesOf
    <3>2. \A i \in S : w[i] = SeatValueIn(st, file[i], s)
      BY <1>3, <2>1 DEF ValuesOf
    <3>3. w[last] = SeatValueIn(st, e, s)
      BY <1>3, <2>1 DEF ValuesOf
    <3>4. SeatValueIn(st, e, s) \in Int
      BY DEF HandLineOf
    <3>5. QED
      BY <3>1, <3>2, <3>3, <3>4
  <2>5. Total(w, T) = w[last] + Total(w, S)
    BY <2>2, <2>3, TotalWithOneMore
  <2>7. Total(v, S) = Total(w, S)
    BY <2>2, <2>3, SameTotal
  <2>8. Total(v, S) = old[s] /\ Total(v, S) \in Int
    <3>1. Total(v, S) = old[s]
      BY <1>9, <2>1 DEF Accounts
    <3>2. Total(v, S) \in Int
      BY <2>2, <2>3, TotalStep
    <3>3. QED
      BY <3>1, <3>2
  <2>9. new[s] = old[s] + w[last]
    BY <2>3
  <2>10. QED
    <3>1. PICK a \in Int, b \in Int : a = w[last] /\ b = old[s]
      BY <2>3, <2>8
    <3>2. Total(w, T) = a + b /\ new[s] = b + a
      BY <2>5, <2>7, <2>8, <2>9, <3>1
    <3>3. QED
      BY <2>1, <3>2
<1>10. n + 1 \in Nat
  BY <1>2
<1>11. QED
  BY <1>1, <1>2, <1>3, <1>7, <1>8, <1>9, <1>10 DEF Accounts

(* The SCORE line reports no hand.                                         *)
LEMMA ScoreIsLogged ==
  ASSUME NEW st, NEW file, NEW n, NEW k, NEW totals, Accounts(st, file, n, k, totals),
         NEW e \in ScoreLineOf(st)
  PROVE  Accounts(st, Append(file, e), n, k, totals)
<1>1. PICK longer : longer = Append(file, e)
  OBVIOUS
<1>0. PICK last : last = Len(file) + 1
  OBVIOUS
<1>2. file \in LogOf(st)
  BY DEF Accounts
<1>4. /\ longer \in LogOf(st) /\ HandLines(longer) = HandLines(file)
      /\ \A i \in HandLines(file) : longer[i] = file[i]
  <2>1. IsLonger(st, file, e, longer, last)
    BY <1>0, <1>1, <1>2 DEF IsLonger
  <2>2. QED
    BY <2>1, LineIsAdded
<1>5. LoggedHands(longer) = LoggedHands(file) /\ (InOrder(file) => InOrder(longer))
  BY <1>4 DEF LoggedHands, InOrder
<1>6. Missing(longer, n) = Missing(file, n)
  BY <1>5 DEF Missing
<1>7. \A s : ValuesOf(st, longer, s) = ValuesOf(st, file, s)
  BY <1>4 DEF ValuesOf
<1>8. QED
  BY <1>1, <1>4, <1>5, <1>6, <1>7 DEF Accounts

(* A hand that was played but never reported is missing from then on.      *)
LEMMA HandIsLost ==
  ASSUME NEW st, NEW file, NEW n, NEW k, NEW old, Accounts(st, file, n, k, old), NEW new
  PROVE  Accounts(st, file, n + 1, k + 1, new)
<1>1. /\ file \in LogOf(st) /\ n \in Nat /\ k \in Nat
      /\ InOrder(file) /\ LoggedHands(file) \subseteq 0..n - 1
      /\ Cardinality(Missing(file, n)) <= k
  BY DEF Accounts
<1>2. 0..(n + 1) - 1 = (0..n - 1) \union {n} /\ n \notin 0..n - 1
  BY <1>1
<1>3. /\ Missing(file, n + 1) = Missing(file, n) \union {n} /\ n \notin Missing(file, n)
      /\ LoggedHands(file) \subseteq 0..(n + 1) - 1
  BY <1>1, <1>2 DEF Missing
<1>4. PICK few : few = Missing(file, n)
  OBVIOUS
<1>5. IsFiniteSet(few) /\ Cardinality(few) \in Nat
  BY <1>1, <1>4, LogIsFinite
<1>6. Cardinality(few \union {n}) = Cardinality(few) + 1
  BY <1>3, <1>4, <1>5, FS_AddElement
<1>7. Cardinality(Missing(file, n + 1)) <= k + 1
  <2>1. PICK c \in Nat : c = Cardinality(few) /\ c <= k
    BY <1>1, <1>4, <1>5
  <2>2. Missing(file, n + 1) = few \union {n}
    BY <1>3, <1>4
  <2>3. Cardinality(Missing(file, n + 1)) = c + 1
    BY <1>6, <2>1, <2>2
  <2>4. QED
    BY <1>1, <2>1, <2>3
<1>8. n + 1 \in Nat /\ k + 1 \in Nat /\ Missing(file, n + 1) # {}
  BY <1>1, <1>3
<1>9. QED
  BY <1>1, <1>3, <1>7, <1>8 DEF Accounts

LEMMA MoreMayBeLost ==
  ASSUME NEW st, NEW file, NEW n, NEW k, NEW old, Accounts(st, file, n, k, old),
         NEW more \in Nat, k <= more, NEW new, \A s \in Seats(st) : new[s] = old[s]
  PROVE  Accounts(st, file, n, more, new)
<1>1. /\ file \in LogOf(st) /\ n \in Nat /\ k \in Nat
      /\ Cardinality(Missing(file, n)) <= k
  BY DEF Accounts
<1>2. PICK c \in Nat : c = Cardinality(Missing(file, n))
  BY <1>1, LogIsFinite
<1>3. c <= more
  BY <1>1, <1>2
<1>4. QED
  BY <1>2, <1>3 DEF Accounts

-----------------------------------------------------------------------------
(* The log, the totals and the hands reported so far.                      *)

(* The local state when the action being played has been played.           *)
Final == IF pc = "act" THEN Moved(setup, m, response.action) ELSE m

(* A hand is over in the file and not yet in the log.                      *)
Settling == pc = "logHand" \/ (pc = "act" /\ Final.state.finished)

Due(s) == HandValue(setup, Final)[seatToPlayer(setup, m.player0Seat, s)]

(* How many hands are in the log, or will never be; their totals; and how  *)
(* many may be missing.                                                    *)
Reported == recorded[1].handId - (IF Settling THEN 1 ELSE 0)

ReportedTotals ==
  [s \in Seats(setup) |-> recorded[1].totalValue[s] - (IF Settling THEN Due(s) ELSE 0)]

Lost == restarts + (IF pc \in {"failed", "down"} THEN 1 ELSE 0)

LogAccounts == Accounts(setup, log, Reported, Lost, ReportedTotals)

(* The SCORE line is written last, and after the last hand.                *)
ScoreInv ==
  /\ recorded[1].handId <= NumHands
  /\ pc \in {"score", "over"} => m.handId >= NumHands
  /\ pc = "over" => log # << >> /\ log[Len(log)].score = m.totalValue

LogInv == LogAccounts /\ ScoreInv

(* What the file describes has the types it should have.                   *)
LEMMA RecordIsTyped ==
  ASSUME DealerInv
  PROVE  /\ setup \in Setups /\ m \in InMatch(setup) /\ recorded[1] \in AtTop(setup)
         /\ recorded[1].handId \in Nat /\ m.handId \in Nat
         /\ recorded[1].totalValue \in [Seats(setup) -> Int]
         /\ m.totalValue \in [Seats(setup) -> Int]
         /\ restarts \in Nat /\ Lost \in Nat
<1>1. PICK st \in Setups, L \in InMatch(setup), k \in Nat :
        st = setup /\ L = m /\ k = restarts
  BY DealerAssumption DEF DealerInv, TypesInv
<1>2. PICK r \in AtTop(setup) : recorded = <<r>>
  BY RecordIsAtTop DEF DealerInv
<1>3. recorded[1] \in AtTop(setup)
  BY <1>2
<1>4. Lost \in Nat
  BY <1>1 DEF Lost
<1>5. QED
  BY <1>1, <1>3, <1>4 DEF InMatch, AtTop, LocalOf

(* Steps that leave the log, what is reported, and the totals as they are. *)
LEMMA LogStays ==
  ASSUME LogAccounts, UNCHANGED <<setup, log>>, Reported' = Reported,
         ReportedTotals' = ReportedTotals, Lost' \in Nat, Lost <= Lost'
  PROVE  LogAccounts'
<1>1. PICK st, file, n, k, more, totals :
        /\ st = setup /\ file = log /\ n = Reported /\ k = Lost
        /\ more = Lost' /\ totals = ReportedTotals
  OBVIOUS
<1>2. Accounts(st, file, n, k, totals) /\ more \in Nat /\ k <= more
  BY <1>1 DEF LogAccounts
<1>3. Accounts(st, file, n, more, totals)
  BY <1>2, MoreMayBeLost
<1>4. QED
  BY <1>1, <1>3 DEF LogAccounts

LEMMA LostIsANumber ==
  ASSUME DealerInv'
  PROVE  Lost' \in Nat
<1>1. PICK k \in Nat : k = restarts'
  BY DealerAssumption DEF DealerInv, TypesInv
<1>2. Lost' = k + (IF pc' \in {"failed", "down"} THEN 1 ELSE 0)
  BY <1>1 DEF Lost
<1>3. QED
  BY <1>2

(* Most of them are far from the end of a hand.                            *)
LEMMA NothingIsDue ==
  ASSUME DealerInv, DealerInv', LogInv, UNCHANGED <<setup, log, recorded>>,
         pc \notin {"act", "logHand"}, pc' \notin {"act", "logHand"}, Lost <= Lost',
         pc' \in {"score", "over"} => m'.handId >= NumHands,
         pc' # "over"
  PROVE  LogInv'
<1>1. ~Settling /\ ~Settling'
  BY DEF Settling
<1>2. Reported' = Reported /\ ReportedTotals' = ReportedTotals
  BY <1>1 DEF Reported, ReportedTotals
<1>3. Lost' \in Nat
  BY LostIsANumber
<1>4. LogAccounts'
  BY <1>2, <1>3, LogStays DEF LogInv
<1>5. ScoreInv'
  BY DEF LogInv, ScoreInv
<1>6. QED
  BY <1>4, <1>5 DEF LogInv

LEMMA LogStartsWell ==
  InitWithRecord => LogInv
<1> SUFFICES ASSUME InitWithRecord
             PROVE  LogInv
  OBVIOUS
<1>1. /\ setup \in Setups /\ pc = "replay" /\ log = << >> /\ restarts = 0
      /\ recorded = <<StartOfMatch(setup)>>
  BY EmptyFile DEF InitWithRecord, Init
<1>2. ~Settling
  BY <1>1 DEF Settling
<1>3. /\ recorded[1].handId = 0
      /\ recorded[1].totalValue = [s \in Seats(setup) |-> 0]
  BY <1>1 DEF StartOfMatch
<1>4. Reported = 0 /\ Lost = 0 /\ \A s \in Seats(setup) : ReportedTotals[s] = 0
  BY <1>1, <1>2, <1>3 DEF Reported, Lost, ReportedTotals
<1>5. LogAccounts
  BY <1>1, <1>4, LogStarts DEF LogAccounts
<1>6. ScoreInv
  BY <1>1, <1>3, DealerAssumption DEF ScoreInv
<1>7. QED
  BY <1>5, <1>6 DEF LogInv

-----------------------------------------------------------------------------
(* The steps that settle, report or lose a hand.                           *)

(* What the action is worth is in the totals of the file and is due.       *)
LEMMA HandIsDue ==
  ASSUME NEW st \in Setups, NEW r \in AtTop(st), NEW after \in InMatch(st),
         NEW next \in InMatch(st), after.totalValue = r.totalValue,
         Follows(st, after, after.errorInfo, next), next.state.finished,
         NEW s \in Seats(st)
  PROVE  Settled(st, after)[s]
           - HandValue(st, next)[seatToPlayer(st, next.player0Seat, s)]
             = r.totalValue[s]
<1>1. after.player0Seat = next.player0Seat /\ after.dealt = next.dealt
      /\ after.state = next.state
  BY EssenceIsEqual DEF Follows
<1>2. HandValue(st, after) = HandValue(st, next)
  BY <1>1 DEF HandValue
<1>3. PICK p \in Seats(st) : p = seatToPlayer(st, next.player0Seat, s)
  BY PlayerOfSeat DEF InMatch
<1>4. PICK v \in Int : v = HandValue(st, next)[p]
  <2>1. HandValue(st, next) \in [Seats(st) -> Int]
    BY ValueIsANumber, SetupFacts DEF HandValue, Seats, InMatch, LocalOf
  <2>2. QED
    BY <2>1
<1>5. Settled(st, after)[s] = r.totalValue[s] + v
  BY <1>1, <1>2, <1>3, <1>4 DEF Settled
<1>6. r.totalValue[s] \in Int
  BY DEF AtTop, LocalOf
<1>7. QED
  BY <1>3, <1>4, <1>5, <1>6

LEMMA LineKeepsLog ==
  ASSUME DealerInv, DealerInv', LogInv, logTransaction,
         recorded' = processTransactionFile(setup, tlog')
  PROVE  LogInv'
<1>0. PICK st, r, L, entry : Writing(st, r, L, entry)
  BY RecordIsAtTop DEF DealerInv, TypesInv, Writing
<1>1. /\ st \in Setups /\ r \in AtTop(st) /\ L \in InMatch(st)
      /\ st = setup /\ recorded = <<r>> /\ L = m
  BY <1>0 DEF Writing
<1>2. PICK after, next :
        after = Replayed(st, r, entry) /\ next = Moved(st, L, entry.action)
  OBVIOUS
<1>3. /\ entry \in Transaction(st) /\ entry.action = response.action
      /\ r.handId = L.handId /\ r.player0Seat = L.player0Seat
      /\ Accepts(st, r, entry)
      /\ after \in InMatch(st) /\ next \in InMatch(st)
      /\ recorded' = <<Advance(st, after)>>
      /\ Follows(st, after, after.errorInfo, next)
  BY <1>0, <1>2, LineWritten
<1>4. /\ pc = "log" /\ pc' = "act"
      /\ UNCHANGED <<setup, m, response, log, restarts>>
  BY DEF logTransaction
<1>5. after.handId = r.handId /\ after.totalValue = r.totalValue
      /\ after.state = next.state /\ next.player0Seat = L.player0Seat
  <2>1. after.handId = r.handId /\ after.totalValue = r.totalValue
        /\ after.player0Seat = r.player0Seat
    BY <1>1, <1>2, <1>3, ReplayedEffect DEF Accepts
  <2>2. after.state = next.state /\ after.player0Seat = next.player0Seat
    BY <1>3, EssenceIsEqual DEF Follows
  <2>3. QED
    BY <1>3, <2>1, <2>2
<1>6. PICK R : R = Advance(st, after)
  OBVIOUS
<1>7. /\ R.handId = r.handId + (IF next.state.finished THEN 1 ELSE 0)
      /\ R.totalValue = IF next.state.finished THEN Settled(st, after) ELSE r.totalValue
  BY <1>1, <1>3, <1>5, <1>6, AdvanceEffect DEF InMatch
<1>8. Final' = next /\ recorded'[1] = R /\ recorded[1] = r
  BY <1>1, <1>2, <1>3, <1>4, <1>6 DEF Final
<1>9. ~Settling /\ (Settling' <=> next.state.finished)
  BY <1>4, <1>8 DEF Settling
<1>10. r.handId \in Nat /\ L.handId < NumHands /\ r.totalValue \in [Seats(st) -> Int]
  BY <1>1, <1>4 DEF AtTop, LocalOf, DealerInv, AnswerInv
<1>11. Reported' = Reported
  BY <1>7, <1>8, <1>9, <1>10 DEF Reported
<1>12. ReportedTotals' = ReportedTotals
  <2>1. ASSUME NEW s \in Seats(st)
        PROVE  R.totalValue[s] - (IF next.state.finished THEN Due(s)' ELSE 0)
                 = r.totalValue[s]
    <3>1. Due(s)' = HandValue(st, next)[seatToPlayer(st, next.player0Seat, s)]
      BY <1>1, <1>4, <1>5, <1>8 DEF Due
    <3>2. CASE next.state.finished
      BY <1>1, <1>3, <1>5, <1>7, <3>1, <3>2, HandIsDue
    <3>3. CASE ~next.state.finished
      BY <1>7, <1>10, <3>3
    <3>4. QED
      BY <3>2, <3>3
  <2>2. ASSUME NEW s \in Seats(st)
        PROVE  r.totalValue[s] - 0 = r.totalValue[s]
    BY <1>10
  <2>3. ReportedTotals = [s \in Seats(st) |-> r.totalValue[s] - 0]
    BY <1>1, <1>8, <1>9 DEF ReportedTotals
  <2>4. ReportedTotals' =
          [s \in Seats(st) |->
             R.totalValue[s] - (IF next.state.finished THEN Due(s)' ELSE 0)]
    BY <1>1, <1>4, <1>8, <1>9 DEF ReportedTotals
  <2>5. QED
    BY <2>1, <2>2, <2>3, <2>4
<1>13. Lost' = Lost /\ Lost \in Nat
  BY <1>4, RecordIsTyped DEF Lost
<1>14. LogAccounts'
  BY <1>4, <1>11, <1>12, <1>13, LogStays DEF LogInv
<1>15. ScoreInv'
  <2>1. R.handId <= NumHands
    BY <1>1, <1>3, <1>7, <1>10, DealerAssumption
  <2>2. QED
    BY <1>4, <1>8, <2>1 DEF ScoreInv
<1>16. QED
  BY <1>14, <1>15 DEF LogInv

LEMMA ActionKeepsLog ==
  ASSUME DealerInv, DealerInv', LogInv, DoAction, recorded' = recorded
  PROVE  LogInv'
<1>1. PICK st \in Setups, L \in InMatch(setup) : st = setup /\ L = m
  BY DEF DealerInv, TypesInv
<1>2. PICK next : next = Moved(st, L, response.action)
  OBVIOUS
<1>3. /\ pc = "act"
      /\ m' = IF next.state.finished THEN AddValues(st, next) ELSE next
      /\ pc' = IF next.state.finished THEN "logHand" ELSE "send"
      /\ UNCHANGED <<setup, log, restarts>>
  <2>1. next.state = doAction(Game, m.state, response.action)
        /\ next = [m EXCEPT !.state = doAction(Game, m.state, response.action)]
    BY <1>1, <1>2 DEF Moved, Game, InMatch, LocalOf
  <2>2. QED
    BY <1>1, <2>1 DEF DoAction, files, network
<1>4. next \in InMatch(st) /\ next.player0Seat = L.player0Seat
  <2>1. response.action \in Playable(st)
        /\ isValidAction(st.game, L.state, FALSE, response.action)
    BY <1>1, <1>3 DEF DealerInv, AnswerInv, Game
  <2>2. QED
    BY <1>1, <1>2, <2>1, MovedEffect
<1>5. Final = next /\ Final' = m'
  BY <1>1, <1>2, <1>3 DEF Final
<1>6. (Settling <=> next.state.finished) /\ (Settling' <=> next.state.finished)
  BY <1>3, <1>5 DEF Settling
<1>7. ASSUME next.state.finished, NEW s \in Seats(st)
      PROVE  Due(s)' = Due(s)
  <2>1. /\ m'.player0Seat = next.player0Seat /\ m'.dealt = next.dealt
        /\ m'.state = next.state
    BY <1>1, <1>3, <1>4, <1>7, AddValuesEffect DEF InMatch
  <2>2. HandValue(st, m') = HandValue(st, next)
    BY <2>1 DEF HandValue
  <2>3. QED
    BY <1>1, <1>3, <1>4, <1>5, <2>1, <2>2 DEF Due
<1>8. Reported' = Reported
  BY <1>6 DEF Reported
<1>9. ReportedTotals' = ReportedTotals
  <2>1. CASE next.state.finished
    BY <1>1, <1>3, <1>6, <1>7, <2>1 DEF ReportedTotals
  <2>2. CASE ~next.state.finished
    BY <1>1, <1>3, <1>6, <2>2 DEF ReportedTotals
  <2>3. QED
    BY <2>1, <2>2
<1>10. Lost' = Lost /\ Lost \in Nat
  BY <1>3, RecordIsTyped DEF Lost
<1>11. LogAccounts'
  BY <1>3, <1>8, <1>9, <1>10, LogStays DEF LogInv
<1>12. ScoreInv'
  BY <1>3 DEF LogInv, ScoreInv
<1>13. QED
  BY <1>11, <1>12 DEF LogInv

(* The value at the seat of a hand's line is that of the player in it.     *)
LEMMA LineShowsTheSeats ==
  ASSUME NEW st \in Setups, NEW L \in InMatch(st), NEW e,
         e = [handId |-> L.handId, value |-> HandValue(st, L),
              seat |-> [p \in Seats(st) |-> playerToSeat(st, L.player0Seat, p)]]
  PROVE  /\ e \in HandLineOf(st)
         /\ \A s \in Seats(st) :
              SeatValueIn(st, e, s) = HandValue(st, L)[seatToPlayer(st, L.player0Seat, s)]
<1>1. PICK n \in Nat, first \in 0..st.game.numPlayers - 1 :
        n = st.game.numPlayers /\ first = L.player0Seat
  BY SetupFacts DEF InMatch, LocalOf
<1>2. /\ n \in Nat \ {0} /\ Seats(st) = 0..n - 1 /\ first \in 0..n - 1
      /\ first \in Nat /\ first % n = first
  <2>1. n \in Nat \ {0} /\ Seats(st) = 0..n - 1 /\ first \in 0..n - 1
    BY <1>1, SetupFacts
  <2>2. n * 0 + first = first /\ first \in Nat
    BY <2>1
  <2>3. (n * 0 + first) % n = first
    BY <2>1, Remainder
  <2>4. QED
    BY <2>1, <2>2, <2>3
<1>3. PICK value \in [Seats(st) -> Int] : value = HandValue(st, L)
  <2>1. HandValue(st, L) \in [Seats(st) -> Int]
    BY ValueIsANumber, SetupFacts DEF HandValue, Seats, InMatch, LocalOf
  <2>2. QED
    BY <2>1
<1>4. PICK seat : seat = [p \in Seats(st) |-> (p + first) % n]
  OBVIOUS
<1>5. seat \in [Seats(st) -> Seats(st)]
  <2>1. ASSUME NEW p \in Seats(st) PROVE (p + first) % n \in 0..n - 1
    <3>1. PICK k \in Nat : k = p + first
      <4>1. p \in 0..n - 1 /\ n \in Nat \ {0} /\ first \in Nat
        BY <1>2, Zenon
      <4>2. QED
        BY <4>1
    <3>2. n \in Nat \ {0}
      BY <1>2, Zenon
    <3>3. k % n \in 0..n - 1
      BY <3>2
    <3>4. QED
      BY <3>1, <3>3
  <2>2. QED
    BY <1>2, <1>4, <2>1
<1>6. PICK hand \in Nat : e = [handId |-> hand, value |-> value, seat |-> seat]
  BY <1>1, <1>3, <1>4 DEF playerToSeat, InMatch, LocalOf
<1>11. e.value = value /\ e.seat = seat
  BY <1>6
<1>7. ASSUME NEW s \in Seats(st)
      PROVE  /\ SeatValueIn(st, e, s) = value[seatToPlayer(st, first, s)]
             /\ SeatValueIn(st, e, s) \in Int
  <2>1. PICK q \in 0..n - 1 : q = (s + n - first) % n
    <3>1. PICK k \in Nat : k = s + n - first
      BY <1>2
    <3>2. n \in Nat \ {0}
      BY <1>2
    <3>3. k % n \in 0..n - 1
      BY <3>2
    <3>4. QED
      BY <3>1, <3>3
  <2>2. \A p \in 0..n - 1 : (p + first) % n = s <=> p = q
    <3>1. TAKE p \in 0..n - 1
    <3>2. (p + first) % n = s <=> p = (s + n - (first % n)) % n
      <4>1. n \in Nat \ {0} /\ first \in Nat /\ s \in 0..n - 1 /\ p \in 0..n - 1
        BY <1>2
      <4>2. Rotates(n, first, s, p)
        BY <4>1, Rotations
      <4>3. QED
        BY <4>2, Zenon DEF Rotates
    <3>3. QED
      BY <1>2, <2>1, <3>2
  <2>3. \A p \in Seats(st) : e.seat[p] = s <=> p = q
    BY <1>2, <1>4, <1>11, <2>2
  <2>4. (CHOOSE p \in Seats(st) : e.seat[p] = s) = q
    BY <1>2, <2>3
  <2>5. SeatValueIn(st, e, s) = value[q]
    BY <1>11, <2>4 DEF SeatValueIn
  <2>6. seatToPlayer(st, first, s) = q
    BY <1>1, <2>1 DEF seatToPlayer
  <2>7. QED
    BY <1>2, <1>3, <2>5, <2>6
<1>8. e \in [handId : Nat, value : [Seats(st) -> Int], seat : [Seats(st) -> Seats(st)]]
  BY <1>3, <1>5, <1>6
<1>9. e \in HandLineOf(st)
  BY <1>7, <1>8 DEF HandLineOf
<1>10. QED
  BY <1>1, <1>3, <1>7, <1>9

LEMMA HandLineKeepsLog ==
  ASSUME DealerInv, DealerInv', LogInv, addToLogFile, recorded' = recorded
  PROVE  LogInv'
<1>1. PICK st \in Setups, L \in InMatch(setup) : st = setup /\ L = m
  BY DEF DealerInv, TypesInv
<1>2. PICK e : e = [handId |-> L.handId, value |-> HandValue(st, L),
                    seat |-> [p \in Seats(st) |-> playerToSeat(st, L.player0Seat, p)]]
  OBVIOUS
<1>3. /\ pc = "logHand" /\ pc' = "sendFinal" /\ log' = Append(log, e)
      /\ UNCHANGED <<setup, m, restarts>>
  BY <1>1, <1>2 DEF addToLogFile
<1>4. /\ e \in HandLineOf(st) /\ e.handId = L.handId
      /\ \A s \in Seats(st) :
           SeatValueIn(st, e, s) = HandValue(st, L)[seatToPlayer(st, L.player0Seat, s)]
  <2>1. e.handId = L.handId
    BY <1>2
  <2>2. QED
    BY <1>1, <1>2, <2>1, LineShowsTheSeats
<1>5. Settling /\ ~Settling' /\ Final = m
  BY <1>3 DEF Settling, Final
<1>6. recorded[1].handId = L.handId + 1 /\ L.handId \in Nat
  <2>1. Follows(setup, recorded[1], TimeAccounted, setUpNewHand(st, L))
    BY <1>1, <1>3 DEF DealerInv, MatchInv, Caught
  <2>2. recorded[1].handId = setUpNewHand(st, L).handId
    BY <2>1, EssenceIsEqual DEF Follows
  <2>3. QED
    BY <1>1, <2>2, NewHandEffect DEF InMatch, LocalOf
<1>7. PICK file, k, old, new :
        file = log /\ k = Lost /\ old = ReportedTotals /\ new = ReportedTotals'
  OBVIOUS
<1>8. Reported = L.handId /\ Reported' = L.handId + 1
  BY <1>5, <1>6 DEF Reported
<1>9. Accounts(st, file, L.handId, k, old)
  BY <1>1, <1>7, <1>8 DEF LogInv, LogAccounts
<1>10. ASSUME NEW s \in Seats(st)
       PROVE  new[s] = old[s] + SeatValueIn(st, e, s)
  <2>1. PICK total \in Int, due \in Int :
          total = recorded[1].totalValue[s] /\ due = SeatValueIn(st, e, s)
    <3>1. recorded[1].totalValue \in [Seats(st) -> Int]
      BY <1>1, RecordIsTyped
    <3>2. SeatValueIn(st, e, s) \in Int
      BY <1>4 DEF HandLineOf
    <3>3. QED
      BY <3>1, <3>2
  <2>2. Due(s) = due
    BY <1>1, <1>4, <1>5, <2>1 DEF Due
  <2>3. old[s] = total - due
    BY <1>1, <1>5, <1>7, <2>1, <2>2 DEF ReportedTotals
  <2>4. new[s] = total - 0
    BY <1>1, <1>3, <1>5, <1>7, <2>1 DEF ReportedTotals
  <2>5. QED
    BY <2>1, <2>3, <2>4
<1>11. Accounts(st, Append(file, e), L.handId + 1, k, new)
  BY <1>4, <1>9, <1>10, HandIsLogged
<1>12. Lost' = Lost
  BY <1>3 DEF Lost
<1>13. LogAccounts'
  BY <1>1, <1>3, <1>7, <1>8, <1>11, <1>12 DEF LogAccounts
<1>14. ScoreInv'
  BY <1>3 DEF LogInv, ScoreInv
<1>15. QED
  BY <1>13, <1>14 DEF LogInv

LEMMA ScoreLineKeepsLog ==
  ASSUME DealerInv, DealerInv', LogInv, printFinalMessage, recorded' = recorded
  PROVE  LogInv'
<1>1. PICK st, e : st = setup /\ e = [score |-> m.totalValue]
  OBVIOUS
<1>2. /\ pc = "score" /\ pc' = "over" /\ log' = Append(log, e)
      /\ UNCHANGED <<setup, m, restarts>>
  BY <1>1 DEF printFinalMessage
<1>3. e \in ScoreLineOf(st)
  BY <1>1, RecordIsTyped DEF ScoreLineOf
<1>4. ~Settling /\ ~Settling'
  BY <1>2 DEF Settling
<1>5. Reported' = Reported /\ ReportedTotals' = ReportedTotals /\ Lost' = Lost
  BY <1>2, <1>4 DEF Reported, ReportedTotals, Lost
<1>6. PICK file, n, k, totals :
        file = log /\ n = Reported /\ k = Lost /\ totals = ReportedTotals
  OBVIOUS
<1>7. Accounts(st, file, n, k, totals)
  BY <1>1, <1>6 DEF LogInv, LogAccounts
<1>8. Accounts(st, Append(file, e), n, k, totals)
  BY <1>3, <1>7, ScoreIsLogged
<1>9. LogAccounts'
  BY <1>1, <1>2, <1>5, <1>6, <1>8 DEF LogAccounts
<1>10. ScoreInv'
  <2>1. IsLonger(st, file, e, Append(file, e), Len(file) + 1)
    BY <1>3, <1>7 DEF IsLonger, Accounts
  <2>2. PICK longer, last : longer = Append(file, e) /\ last = Len(file) + 1
    OBVIOUS
  <2>3. Len(longer) = last /\ longer[last] = e /\ longer # << >>
    BY <1>7, <2>2 DEF Accounts, LogOf
  <2>4. log' = longer
    BY <1>2, <1>6, <2>2
  <2>5. log' # << >> /\ log'[Len(log')].score = m'.totalValue
    BY <1>1, <1>2, <2>3, <2>4
  <2>6. QED
    BY <1>2, <2>5 DEF LogInv, ScoreInv
<1>11. QED
  BY <1>9, <1>10 DEF LogInv

LEMMA CrashKeepsLog ==
  ASSUME DealerInv, DealerInv', LogInv, Crash, recorded' = recorded
  PROVE  LogInv'
<1>1. /\ pc \notin {"over", "failed", "down"} /\ pc' = "down"
      /\ UNCHANGED <<setup, m, log, restarts>>
  BY DEF Crash, Stopped, files
<1>2. restarts \in Nat /\ Lost = restarts /\ Lost' = Lost + 1
  BY <1>1, RecordIsTyped DEF Lost
<1>3. ~Settling'
  BY <1>1 DEF Settling
<1>4. CASE Settling
  <2>1. PICK st, file, n, k, old, new :
          /\ st = setup /\ file = log /\ n = Reported /\ k = Lost
          /\ old = ReportedTotals /\ new = ReportedTotals'
    OBVIOUS
  <2>2. Accounts(st, file, n, k, old)
    BY <2>1 DEF LogInv, LogAccounts
  <2>3. Reported' = n + 1
    BY <1>3, <1>4, <2>1, RecordIsTyped DEF Reported
  <2>4. Accounts(st, file, n + 1, k + 1, new)
    BY <2>2, HandIsLost
  <2>5. LogAccounts'
    BY <1>1, <1>2, <2>1, <2>3, <2>4 DEF LogAccounts
  <2>6. QED
    BY <1>1, <2>5 DEF LogInv, ScoreInv
<1>5. CASE ~Settling
  <2>1. Reported' = Reported /\ ReportedTotals' = ReportedTotals
    BY <1>1, <1>3, <1>5 DEF Reported, ReportedTotals
  <2>2. Lost' \in Nat /\ Lost <= Lost'
    BY <1>2
  <2>3. LogAccounts'
    BY <1>1, <2>1, <2>2, LogStays DEF LogInv
  <2>4. QED
    BY <1>1, <2>3 DEF LogInv, ScoreInv
<1>6. QED
  BY <1>4, <1>5

LEMMA LogKept ==
  ASSUME DealerInv, DealerInv', LogInv, NextWithRecord
  PROVE  LogInv'
<1>0. recorded' = processTransactionFile(setup, tlog')
  BY DEF NextWithRecord
<1>1. restarts \in Nat
  BY RecordIsTyped
<1>2. CASE logTransaction
  BY <1>0, <1>2, LineKeepsLog
<1>3. ASSUME ~logTransaction
      PROVE  recorded' = recorded
  <2>1. UNCHANGED <<setup, tlog>>
    BY <1>3 DEF NextWithRecord, Next, DealerStep, ReplayLine, ReplayDone, SendState,
                ReadFails, ReadLine, DoAction, addToLogFile, SendFinal,
                printFinalMessage, SendLine, Crash, Restart, files
  <2>2. QED
    BY <1>0, <2>1, NothingWritten DEF DealerInv
<1>4. CASE DoAction
  <2>1. ~logTransaction
    BY <1>4 DEF DoAction, logTransaction
  <2>2. QED
    BY <1>3, <1>4, <2>1, ActionKeepsLog
<1>5. CASE addToLogFile
  <2>1. ~logTransaction
    BY <1>5 DEF addToLogFile, logTransaction
  <2>2. QED
    BY <1>3, <1>5, <2>1, HandLineKeepsLog
<1>6. CASE printFinalMessage
  <2>1. ~logTransaction
    BY <1>6 DEF printFinalMessage, logTransaction
  <2>2. QED
    BY <1>3, <1>6, <2>1, ScoreLineKeepsLog
<1>7. CASE Crash
  <2>1. CASE logTransaction
    BY <1>2, <2>1
  <2>2. CASE ~logTransaction
    BY <1>3, <1>7, <2>2, CrashKeepsLog
  <2>3. QED
    BY <2>1, <2>2
<1>8. CASE ReplayLine \/ ReplayDone
  <2>1. /\ pc = "replay" /\ pc' \in {"replay", "failed", "score", "send"}
        /\ UNCHANGED <<setup, log, restarts>>
        /\ ~logTransaction /\ (pc' = "score" => m'.handId >= NumHands)
    BY <1>8 DEF ReplayLine, ReplayDone, files, logTransaction
  <2>2. Lost <= Lost'
    BY <1>1, <2>1 DEF Lost
  <2>3. QED
    BY <1>3, <2>1, <2>2, NothingIsDue
<1>9. CASE SendState \/ ReadFails
           \/ (\E seat \in Seats(setup) : \E line \in LinesOf(seat) : SendLine(seat, line))
           \/ (\E micros \in ArrivalTimes : ReadLine(micros))
  <2>1. /\ pc \in {"send", "read"} /\ pc' \in {"read", "failed", "log"}
        /\ UNCHANGED <<setup, log, restarts>>
        /\ ~logTransaction
    BY <1>9 DEF SendState, ReadFails, SendLine, ReadLine, TakeAction, files, logTransaction
  <2>2. Lost <= Lost'
    BY <1>1, <2>1 DEF Lost
  <2>3. QED
    BY <1>3, <2>1, <2>2, NothingIsDue
<1>10. CASE SendFinal
  <2>1. /\ pc = "sendFinal" /\ pc' \in {"score", "send"}
        /\ UNCHANGED <<setup, log, restarts>>
        /\ ~logTransaction /\ (pc' = "score" => m'.handId >= NumHands)
    BY <1>10 DEF SendFinal, files, logTransaction
  <2>2. Lost <= Lost'
    BY <1>1, <2>1 DEF Lost
  <2>3. QED
    BY <1>3, <2>1, <2>2, NothingIsDue
<1>11. CASE Restart
  <2>1. /\ pc \in {"failed", "down"} /\ pc' = "replay"
        /\ UNCHANGED <<setup, log>> /\ restarts' = restarts + 1
        /\ ~logTransaction
    BY <1>11 DEF Restart, logTransaction
  <2>2. Lost <= Lost'
    BY <1>1, <2>1 DEF Lost
  <2>3. QED
    BY <1>3, <2>1, <2>2, NothingIsDue
<1>12. QED
  BY <1>2, <1>4, <1>5, <1>6, <1>7, <1>8, <1>9, <1>10, <1>11
     DEF NextWithRecord, Next, DealerStep

(* The sum LogAddsUp takes is a total.                                     *)
LEMMA LogIsSummed ==
  ASSUME log \in LogOf(setup), NEW s \in Seats(setup)
  PROVE  MapThenSumSet(LAMBDA i : SeatValue(log[i], s), HandLines(log))
           = Total(ValuesOf(setup, log, s), HandLines(log))
<1> DEFINE S == HandLines(log)
           Body(g) == g = [T \in SUBSET S |->
                             IF T = {} THEN 0
                             ELSE LET x == CHOOSE x \in T : TRUE
                                  IN  SeatValue(log[x], s) + g[T \ {x}]]
<1>1. PICK v : v = ValuesOf(setup, log, s)
  OBVIOUS
<1>2. /\ IsFiniteSet(S)
      /\ \A i \in S : v[i] \in Int /\ v[i] = SeatValue(log[i], s)
  <2>1. /\ IsFiniteSet(HandLines(log))
        /\ \A i \in HandLines(log) : SeatValueIn(setup, log[i], s) \in Int
    BY LogIsFinite
  <2>2. \A i \in S : SeatValueIn(setup, log[i], s) = SeatValue(log[i], s)
    BY Zenon DEF SeatValue, SeatValueIn
  <2>3. v = [i \in HandLines(log) |-> SeatValueIn(setup, log[i], s)]
    BY <1>1, Zenon DEF ValuesOf
  <2>4. QED
    BY <2>1, <2>2, <2>3
<1>3. ASSUME NEW g
      PROVE  Body(g) <=> IsSum(v, S, g)
  <2>1. ASSUME NEW T \in SUBSET S, T # {}
        PROVE  LET x == CHOOSE x \in T : TRUE
               IN  SeatValue(log[x], s) + g[T \ {x}] = v[x] + g[T \ {x}]
    <3>1. (CHOOSE x \in T : TRUE) \in T
      BY <2>1
    <3>2. QED
      BY <1>2, <3>1
  <2> HIDE DEF S
  <2>2. QED
    BY <2>1 DEF IsSum
<1>4. PICK g : IsSum(v, S, g)
  <2> HIDE DEF S
  <2>1. QED
    BY <1>2, SumExists
<1>5. PICK iter : /\ Body(iter)
                  /\ MapThenSumSet(LAMBDA i : SeatValue(log[i], s), S) = iter[S]
  <2>1. MapThenSumSet(LAMBDA i : SeatValue(log[i], s), S) = (CHOOSE iter : Body(iter))[S]
    BY DEF MapThenSumSet, MapThenFoldSet
  <2>2. Body(g)
    BY <1>3, <1>4
  <2>3. Body(CHOOSE iter : Body(iter))
    <3> HIDE DEF Body
    <3>1. QED
      BY <2>2, Zenon
  <2>4. QED
    BY <2>1, <2>3
<1>6. IsSum(v, S, iter)
  BY <1>3, <1>5
<1>7. iter[S] = Total(v, S)
  <2> HIDE DEF S, Body
  <2>1. S \in SUBSET S /\ \A i \in S : v[i] \in Int
    BY <1>2
  <2>2. QED
    BY <1>2, <1>6, <2>1, SumsAgree
<1>8. QED
  BY <1>1, <1>5, <1>7

(* No hand is logged twice, and hands are logged in order; a match that    *)
(* was not interrupted has logged every hand, and where every hand is      *)
(* logged their values add up, seat by seat, to the SCORE line.            *)
THEOREM LogIsOrderly == SpecWithRecord => []LogAddsUp
<1>1. ASSUME DealerInv, LogInv
      PROVE  LogAddsUp
  <2>1. PICK st, n, k, totals :
          st = setup /\ n = Reported /\ k = Lost /\ totals = ReportedTotals
    OBVIOUS
  <2>2. Accounts(st, log, n, k, totals)
    BY <1>1, <2>1 DEF LogInv, LogAccounts
  <2>3. \A i, j \in HandLines(log) : i < j => log[i].handId < log[j].handId
    BY <2>2 DEF Accounts, InOrder
  <2>4. ASSUME pc = "over"
        PROVE  /\ n = NumHands /\ k = restarts
               /\ \A s \in Seats(setup) : totals[s] = log[Len(log)].score[s]
    <3>1. ~Settling /\ recorded[1].totalValue \in [Seats(setup) -> Int]
      BY <1>1, <2>4, RecordIsTyped DEF Settling
    <3>2. Essence(recorded[1]) = Essence(m)
      BY <1>1, <2>4 DEF DealerInv, MatchInv, Follows, Caught
    <3>3. recorded[1].handId = m.handId /\ recorded[1].totalValue = m.totalValue
      BY <3>2, EssenceIsEqual
    <3>4. recorded[1].handId = NumHands /\ log[Len(log)].score = m.totalValue
      BY <1>1, <2>4, <3>3, RecordIsTyped, DealerAssumption DEF LogInv, ScoreInv
    <3>5. n = NumHands
      BY <2>1, <3>1, <3>4, DealerAssumption DEF Reported
    <3>6. k = restarts
      BY <1>1, <2>1, <2>4, RecordIsTyped DEF Lost
    <3>7. ASSUME NEW s \in Seats(setup)
          PROVE  totals[s] = log[Len(log)].score[s]
      <4>1. PICK t \in Int : t = recorded[1].totalValue[s]
        BY <3>1
      <4>2. totals[s] = t - 0
        BY <2>1, <3>1, <4>1 DEF ReportedTotals
      <4>3. QED
        BY <3>3, <3>4, <4>1, <4>2
    <3>8. QED
      BY <3>5, <3>6, <3>7
  <2>5. ASSUME pc = "over"
        PROVE  /\ restarts = 0 => LogHasEveryHand
               /\ LogHasEveryHand =>
                    \A s \in Seats(setup) :
                      log[Len(log)].score[s] =
                        MapThenSumSet(LAMBDA i : SeatValue(log[i], s), HandLines(log))
    <3>1. Missing(log, n) = {} <=> LogHasEveryHand
      <4>1. Missing(log, n) = (0..NumHands - 1) \ LoggedHands(log)
        BY <2>4, <2>5 DEF Missing
      <4>2. QED
        BY <4>1, Zenon DEF LogHasEveryHand
    <3>2. ASSUME restarts = 0
          PROVE  Missing(log, n) = {}
      <4>1. Cardinality(Missing(log, n)) <= 0 /\ n \in Nat
        BY <2>2, <2>4, <2>5, <3>2 DEF Accounts
      <4>2. IsFiniteSet(0..n - 1)
        BY <4>1, FS_Interval
      <4>3. IsFiniteSet(Missing(log, n))
        BY <4>2, FS_Subset DEF Missing
      <4>4. Cardinality(Missing(log, n)) \in Nat
        BY <4>3, FS_CardinalityType
      <4>5. Cardinality(Missing(log, n)) = 0
        BY <4>1, <4>4
      <4>6. QED
        BY <4>3, <4>5, FS_EmptySet
    <3>3. ASSUME Missing(log, n) = {}, NEW s \in Seats(setup)
          PROVE  log[Len(log)].score[s] =
                   MapThenSumSet(LAMBDA i : SeatValue(log[i], s), HandLines(log))
      <4>1. Total(ValuesOf(st, log, s), HandLines(log)) = totals[s] /\ log \in LogOf(setup)
        BY <2>1, <2>2, <3>3 DEF Accounts
      <4>2. MapThenSumSet(LAMBDA i : SeatValue(log[i], s), HandLines(log))
              = Total(ValuesOf(setup, log, s), HandLines(log))
        BY <4>1, LogIsSummed
      <4>3. QED
        BY <2>1, <2>4, <2>5, <4>1, <4>2
    <3>4. QED
      BY <3>1, <3>2, <3>3
  <2>6. QED
    BY <2>3, <2>5 DEF LogAddsUp
<1>2. InitWithRecord => LogInv
  BY LogStartsWell
<1>3. DealerInv /\ DealerInv' /\ LogInv /\ [NextWithRecord]_<<vars, recorded>> => LogInv'
  <2> SUFFICES ASSUME DealerInv, DealerInv', LogInv, [NextWithRecord]_<<vars, recorded>>
               PROVE  LogInv'
    OBVIOUS
  <2>1. CASE UNCHANGED <<vars, recorded>>
    BY <2>1 DEF vars, LogInv, LogAccounts, ScoreInv, Reported, ReportedTotals, Lost,
                Settling, Final, Due
  <2>2. CASE NextWithRecord
    BY <2>2, LogKept
  <2>3. QED
    BY <2>1, <2>2
<1>4. QED
  BY <1>1, <1>2, <1>3, DealerInvHolds, PTL DEF SpecWithRecord
=============================================================================
