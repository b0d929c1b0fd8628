# A TLA+ verification of DeepStack-Leduc and its dealer

This directory holds TLA+ models of the programs in the repository, the TLC
configurations that check them on small instances, and proofs that TLAPS checks
for every instance. `PROJECT.json` is the index: components, runs, mutants, the
lines of source every definition models, findings, hazards and theorems.

    tlc  -workers 2 -config Hand.cfg   MCHand       # model-check a configuration
    tlc  -workers 2 -config Dealer.cfg MCDealer
    tlc  -workers 2 -config BmServer.cfg MCBmServer
    tlc  -workers 2 -config LineReader.cfg MCLineReader
    tlc  -workers 2 -config DeepStack.cfg MCDeepStack
    tlapm HandProofs.tla                            # check the proofs of a module

## 1. The system

The repository has two halves that talk over a socket.

**The dealer's half** (`src/ACPCServer`, C) is the server of the Annual Computer
Poker Competition.

| Part | State | Operations | Interacts with |
|---|---|---|---|
| `game.c` rules | `State`: round, finished, spent, maxSpent, minNoLimitRaiseTo, playerFolded, the actions of each round | `initState`, `currentPlayer`, `isValidAction`, `doAction`, `valueOfState`, `readBetting`/`printBetting`, `matchStatesEqual` | linked into the dealer and every C client; each keeps its own copy and trusts that messages determine it |
| `dealer.c` | one match: hand number, button, totals, time and error counters; the log and the transaction file survive it | `gameLoop`, `readPlayerResponse`, `processTransactionFile`, `logTransaction`, `addToLogFile` | players over sockets, its own files after a restart |
| `net.c` | a read buffer per connection | `getLine` with a timeout | dealer, benchmark server |
| `bm_server.c` | three linked-list pools: connections, matches, jobs; counters per game and user | log on, queue a match, start and reap jobs, close connections | forks dealers and bots, clients over sockets |
| `bm_widget.c`, `bm_run_matches.c`, `example_player.c`, perl tools | little | start and feed the others | |
| `rng.c`, `evalHandTables`, `all_in_expectation.c` | generator state; tables | shuffle, rank | `game.c` |

**DeepStack's half** (`src/Source`, Lua) is the player.

| Part | State | Operations |
|---|---|---|
| `ACPC/` | the last message | parse a message into bets, street and acting player; answer it |
| `Player/` | decision number, last node, last bet, range and counterfactual values | new hand, re-solve, sample an action |
| `Tree/`, `Game/bet_sizing` | the public tree | grow it, fill strategies, evaluate it |
| `Lookahead/` | dense tensors per depth | pack the tree, iterate CFR, look results up |
| `TerminalEquity/`, `Game/`, `Nn/` | matrices, bucket maps, the network | evaluate leaves |
| `DataGeneration/`, `Training/` | batches | generate and train |

What is hard here: players send lines whenever they like, late, twice, or with
nonsense; messages carry no sequence number; the dealer may stop at any point
and is started again on the files it left; two limits on time and one on bad
actions interact with lines that are skipped; betting rounds end when two counts
meet that folds and all-ins change at once; side pots; and every participant
reconstructs the state of a hand from its betting alone. The benchmark server
holds pointers from jobs to matches and from matches to connections in pools
whose entries are used again, and reads lines with a function whose limit may
wrap round. DeepStack reads states late, carries values from one decision to the
next, and trusts a parser, a tree and an index arithmetic that share no code with
the dealer. `PROJECT.json` lists 40 such hazards at their lines, with the property
that would catch each or the reason there is none.

What makes each part correct:

* rules: turns, chips and rounds stay in order, every hand ends, an accepted
  action never trips an assertion, and the betting string determines the state;
* settlement: zero sum, table stakes, the best hand does not lose;
* dealer: whatever the players send and whenever it fails, the transaction file
  describes one orderly match, a restart resumes it, limits bind across
  restarts, the log is in order and adds up, an action is played only in the state it answers;
* line reader: every byte goes through once and in order, no limit on waiting is cut short;
* benchmark server: pointers into the pools stay good, limits hold, users take
  turns, every match asked for is played as often as asked for or given up;
* DeepStack: its bets, street and turn equal the dealer's, its tree is a part of
  the game, its tensors hold the tree, and what it carries over belongs to the
  hand it is playing.

## 2. Plan

| # | Modules | Of | State |
|---|---|---|---|
| 1 | `AcpcGame`, `Hand`, `HandProperties`, `Betting`, `MCHand` | rules | done |
| 2 | `Settlement`, `Showdown` | settlement | done |
| 3 | `BasicLemmas`, `AcpcGameProofs`, `HandProofs` | proofs of 1 and 2 | types, assertions, chips, turns, settlement, refinement of `Betting` done |
| 4 | `DealerMatch`, `Dealer`, `DealerProperties`, `Match`, `MCDealer`, `DealerProofs` | dealer | done |
| 5 | `LineReader`, `MCLineReader`, `LineReaderProofs` | `net.c` with its clock and partial lines | done |
| 6 | `LLPool`, `BmServer`, `BmServerProperties`, `MatchQueue`, `MCBmServer`, `LLPoolProofs`, `BmServerProofs` | benchmark server and its clients | done |
| 7 | `PublicTree`, `ProtocolToNode` | `tree_builder`, `bet_sizing`, the Lua parser, both against `AcpcGame` | done |
| 8 | `LookaheadIndex` | index arithmetic of the tensors | done |
| 9 | `DeepStackPlayer`, `DeepStackProperties`, `DeepStackRestart`, `MCDeepStack` | the player across decisions, streets, hands and restarts, with the dealer's rules and the example player | done |
| 10 | `DeepStackProofs` | proofs of 7 and 9: the parser, the tree, the tensors, what is carried from decision to decision | done |
| 11 | `LeducCards` (order of hands in the evaluator), `NextRound` (iteration flags) | Lua side | open |

Modules are written to be proved about: constants with named assumptions, one
action per operation, recursion as recursive functions and folds.

## 3. The modules

### Rules of betting

`AcpcGame` has one operator per function of `game.c` with the function's name
where TLA+ allows it. A game is a record of the fields of `struct Game` that
betting reads; a state a record of those of `struct State` that betting writes.
`doAction` is a composition in the order of the code: `Recorded` appends to
`action[round]`, `Paid` is the switch over the type of action, `Closed` the end
of the function. `actingPlayer[r][i]` is a field of the action. `isValidAction`
in C both judges and corrects; here `isValidAction` is the verdict and
`fixAction` the correction. Assertions of `doAction` are the predicate
`ActionAsserts`: an action that would fail one is not taken, and
`AcceptedActionsAreSafe` says there is none. `IsGame` has the sanity checks of
`readGame()`, and that stacks, blinds and raises are not negative, which `readGame()`
leaves to whoever writes the game definition; `INT32_MAX` and `MAX_NUM_ACTIONS` are constants, so that small
values reach the limits.

`Hand` is the machine: `Fold`, `Call`, `Raise` with any size somebody asks for,
`NewHand`. `Betting` is the abstract specification: chips move only from stacks
into the pot, one leaves only while owing chips, the hand is over only when one
player is left or nobody owes. It knows no turns, rounds or raise sizes.
`HandProperties` states what should be true and the refinement.

### Settlement

`Settlement` defines `valueOfState()` as a sum over the levels of the pot;
`Showdown` runs the loop of the code over its shrinking lists (`Turn` is once through
its body, `SidePots` all of them) and compares, for whoever is on the list. The
strength of a hand is any function of the players; values are multiplied by
`Shares(game)` so that the division between winners is exact, where the code
divides doubles.

### Dealer

`DealerMatch` has the sequential part: seats, counters of `ErrorInfo`, setting up
a hand, adding values, one line of the transaction file. `Dealer` is the
program: `pc` says where `gameLoop()` is, `m` holds its local variables, `tlog`
and `log` are the files, `inbox` and `heard` the connections.

| Action | Code |
|---|---|
| `ReplayLine`, `ReplayDone` | `processTransactionFile()` |
| `SendState` | the loop that sends the state to every seat |
| `ReadLine`, `TakeAction`, `ReadFails` | one turn of `readPlayerResponse()` |
| `logTransaction`, `DoAction`, `addToLogFile`, `SendFinal`, `printFinalMessage` | the rest of `gameLoop()`, in its order |
| `SendLine` | a player sends a comment, noise, or any state it was sent with any action |
| `Crash`, `Restart` | failure anywhere; `main()` again with `-T -a` and the same arguments |

The dealer is one thread, so an action is the code between two points at which
the world outside can tell the difference. Abstractions: lines come whole; a
player answers with states it was really sent on this connection; the clock
never runs backwards (`checkErrorTimes()` would charge nothing); a state goes to
all seats in one step (a failure in between is a failure before it, as
connections do not survive it); a write to a file is all or nothing; comparing
the actions round by round is comparing their sequence; cards are a function of
the number of the hand, as the generator is seeded once and used for dealing
only.

`Match` is the abstract specification: hands played one valid action after the
other, settled when they finish, nothing taken back, seats and cards a closed
formula of the hand's number. The refinement mapping reads `Match`'s state off
the transaction file: `recorded`, a history variable of `DealerProperties`, is
what `processTransactionFile()` would make of the file as it stands.

### Line reader

`LineReader` is `getLine()` between one `select()` or `read()` and the next, called
again and again with any of the limits in use. A byte is named by its place in
what was sent and is a newline or not; the sender may write another, close, or
break off at any time. `elapsed` and `timeLeft` are unsigned and wrap at `WORD`, as
the code's are at 2^64. Time passes in `select()` (the history variable `waited`)
and outside of it (`delayed`); the limit is about the first. `WaitsLongEnough` says
that no call gives up early, `WaitsAtMostTimeout` that none waits beyond its limit,
which `line_reader_overwait` refutes. `NothingLost` counts the bytes a call dropped when it
gave up as gone through, and to `LinesAreLines` the rest of their line is a line; neither
says that they belong together. `select()` is taken not to fail: the connection is open and no program that
calls `getLine()` catches a signal.

### Benchmark server

`LLPool` is the linked list with its free list and stable entries. `BmServer` is
`main()`'s loop, one action per part between two points where the world outside
matters, and handlers per kind of line:

| Action | Code |
|---|---|
| `CleanUp` | top of the loop: `checkIfJobFinished()`, `finishedJob()`, closed connections removed |
| `StartMatchJob`, `NothingToStart`, `DealerDoesNotStart` | `startMatchJob()` until it returns 0, with `runMatchJob()` |
| `Select` | `select()`, `handleListenSocket()` |
| `TakeHalf`, `NoMoreInput`, `EndOfFile` | what `getLine()` returns to `handleConnection()` |
| `LogOn`, `BadLogOn`, `Info`, `RunMatches`, `Refuse` | `handleConnection()` by line |
| `Connect`, `SendLine`, `SendHalf`, `SendRest`, `Close` | a client; `bm_widget.c` copies a terminal's lines |
| `JobEnds` | the processes of a job end |

The two clocks, `waitStart` of users and `queueTime` of matches, are kept as
orders. A line's text is a record of what it asks for. A line may come in two
parts: then `getLine()`, called with a limit of 0, either holds the whole server
until the rest has come, or drops the first part. Entries of the pools are numbers
that are used again, as addresses are in the code. `MatchQueue` is the abstract
specification: a request is played at most as often as was asked for, one run at a
time, and no run starts once a client it needs has left. The history variables of
`BmServerProperties` remember over which session a match was asked for and who was
passed over by whom.

### DeepStack

`PublicTree` grows the tree of one street (`tree_builder.lua` with
`limit_to_street`, `bet_sizing.lua`); boards do not change its shape.
`LookaheadIndex` computes the widths of the layers, the cell of every node, the
mask, and the way back: which cell is whose parent, where the value of a cell is
taken from. `ProtocolToNode` is the parser. `DeepStackPlayer` runs them:

| Action | Code |
|---|---|
| `DeepStackSkips` | `get_next_situation()` goes on to the next line |
| `DeepStackPlays` | one turn of `deepstack.lua`: new hand or not, `compute_action()`, the answer |
| `DealerTakesAnswer`, `NextHand` | `gameLoop()` of `dealer.c`, whose rules are those of `AcpcGame` |
| `OpponentActs` | `example_player.c`: any valid action |

DeepStack may read a state long after the dealer sent it. A range is kept as the
sequence of decisions whose strategies were multiplied into it, a vector of
counterfactual values as the street and bets it was computed for: enough to tell
whether a decision was taken from what belongs to it, `ContinuesTheHand`. Any
action whose probability may be positive may be sampled. An assertion that fails
ends the program (`alive`). `ReadsTheState` compares parser and `game.c` state by
state, `TreeIsTheGame` every edge of the tree with `doAction`, `LookaheadIsDense`
every cell of every tensor with the tree. `DeepStackRestart` adds the one step in which
a failed match is taken up again in the middle of a hand.

## 4. What the runs check

| Run | Instance | Shows |
|---|---|---|
| `hand` | two-player no-limit games with all pairs of stacks up to 5 units of the blind, three-player no-limit games with stacks up to 4, limit games in which raises meet the end of the stacks; two rounds; arrays of 5 actions; every ranking of the hands | turns, chips, messages, termination; zero sum, table stakes, best hand, and that the side-pot loop computes the sum; refinement of `Betting` |
| `dealer` | two players, two hands of a one-round limit game, fixed and rotating seats, one line under way, one restart, one bad action allowed | replay finds the state the dealer would have gone on with, the log is in order and adds up where no hand is left out, no stale answer is played, refinement of `Match` |
| `dealer_clock` | the same match with calls only, answers 0, 1 or 3 ticks old, limits of 2 per answer, 2 per hand and 1 per match | the match limit holds across a restart; the match ends unless lines are skipped for ever |
| `line_reader` | a buffer of 2 bytes, lines of up to 2 bytes and the terminator, limits of none, 0 and more, 4 bytes sent, clock modulo 6 | bytes pass once and in order, lines are cut where they should be, 0 is returned only at the end, no limit is cut short, no line is kept back |
| `bm_server` | two users, one session each, two games, three kinds of requests, one line in two parts, two bots at a time | pools, limits, turns, refinement of `MatchQueue`, every match ends |
| `deepstack` | the shipped `leduc.game` (stacks of 12 antes), bets of one and two pots, two hands, from either seat | parser, tree and tensors agree with the rules; what is carried over belongs to the hand; the match goes on |

The bounds are chosen so that each case happens: with stacks of up to five
blinds there are all-in calls below the bet, all-in raises below the minimum,
two and three side pots; with an array of five actions the check for room bites;
with two hands seats rotate once and an answer to the first hand may reach the
second; with one restart every point of failure is followed by a replay, of a
partial hand, a finished hand or a finished match. Every property has a mutant
in `PROJECT.json`: a plausible mistake in a modelled function under which the
same run finds the property violated.

Six runs expect a violation, each a disagreement between the code and what it
says of itself:

* `hand_limit_short_stack`: a short stack's limit raise lowers `maxSpent`, which
  `game.h` calls the largest bet so far.
* `dealer_bad_format`: too many actions in an unknown format do not fail the
  match; the `return -1` is there only for invalid ones.
* `dealer_charges_twice`: a skipped line's time is charged again with the next.
* `dealer_log_gap`: a stop between the transaction file and the log leaves a hand out of
  the log for good, which is said to contain the finished hands and the totals. What is
  left of that promise (order, completeness without interruption, sums) is `LogAddsUp`.
* `line_reader_overwait`: once part of a line has come and the limit has passed, the
  time left wraps round and `getLine()` waits far beyond the limit `net.c` promises.
* `deepstack_restart`: taken up again in the middle of a hand, DeepStack as the first
  player uses the strategy of the first node of the game in another node.

Five more things the code does wrong, or does not do, are seen in the models or while
writing them and shown by no run. They are hazards in `PROJECT.json` without a
property, because what one would like to state is false or outside the instances:

* a comment starts `getLine()`'s limit anew and is not held against the time limits, so
  that a player who sends comments is waited for without end (`MatchEnds` excludes
  players whose lines are skipped for ever);
* a restart forgets bad actions and the time charged for skipped lines
  (`RestartResumes` leaves counters out, `TimeLimitSurvivesRestarts` is about recorded
  actions only);
* a call of `getLine()` that gives up in the middle of a line drops what it has read, and
  the next returns the rest as a line (to `NothingLost` those bytes have gone through);
* a match that needs more bots than `maxRunningBots` waits for ever, and with it all
  matches behind it (no request of the run does);
* without blinds, a hand that is checked down trips `assert( numPlayers > 1 )` in
  `valueOfState()` (all games of the runs have blinds).

In `line_reader` the buffer is refilled in the middle of a line, a line is cut at
`maxLen`, and the limit passes before, within and after a line. In `bm_server`
(`Says` gives each session's lines, `MaySplit` the sessions whose last line may
come in two parts, `MaxUnread` the lines on the way, `Slots` the entries properties
speak of) one client asks for two runs of a game that allows one match at a time,
the other for the same, for a match of bots only that needs the whole limit of
bots, or for too much; entries of closed connections and finished matches are
reused. In `deepstack` the game is the shipped one, counted in antes: the shipped
bet of one pot is a part of what is checked, and with two sizes layers have nodes
of different widths, so that padding and packing matter. The opponent raises by
every amount of antes the rules allow, and both seats are played in turn.

Fairness. `Hand` assumes weak fairness of its next-state relation: the dealer
substitutes a call for what it cannot use, so an action always comes. `Dealer`
assumes weak fairness of the dealer's own steps, nothing of players, of failures
or of restarts. For `ReadFails` that means `getLine()` gives up in the end, which
`select()` with its timeout does, except that `net.c` lets the time left wrap
round when the limit passes after part of a line (listed as a hazard; lines are
whole in this model). `MatchEnds` carries the condition that not every line is
skipped, because a skipped line starts the wait anew: that is how the code is.

`BmServer` assumes that the server keeps turning its loop, that jobs end, as the
dealer's own limits make them, and that a line begun is finished or its sender
leaves, as `bm_widget.c` writes whole lines; clients need not do anything else.
Without the last, half a line stops the whole server. `EveryMatchEnds` is checked
where every match fits on the machine; one that needs more than `maxRunningBots`
would keep all others waiting for ever, a hazard no property covers. `LineReader` assumes that the reader goes
on, nothing of the sender. `DeepStackPlayer` assumes that each program goes on
while it has something to do; the conditions are written out, and each is the one
under which its action is enabled.

`dealer`, `dealer_clock`, `bm_server` and `deepstack` switch deadlock checking off:
a match that is over or has failed stops, a server without a dealer exits, and two
clients with nothing more to say leave it waiting in `select()`.

## 5. What is proved

Eight modules hold theorems. Each component has one invariant that its steps
preserve; the properties TLC checks follow from it. TLC checked every one of these
invariants on the runs' instances before it was proved.

| Module | Proves | About |
|---|---|---|
| `BasicLemmas` | minimum and maximum of numbers, finite sums and their order, functions built step by step | what the others share |
| `AcpcGameProofs` | one lemma per operator of `AcpcGame`, `NextPlayerCanAct`; how the pots of `Settlement` are divided, `PotIsDivided`; `printBetting` and `readBetting` undo each other | any game, any state |
| `HandProofs` | `TypeOK`, `SomebodyCanAct`, `AcceptedActionsAreSafe`, `MaxSpentIsLargestBet`, `ChipsStayIn`, `SettlementIsZeroSum`, `TableStakes`, `BestHandDoesNotLose`, `SidePotLoopAgrees`, `BettingDeterminesState`, `NobodyAnswersTwice`, `NobodyIsPassedOver`, `BetsAreMatched`, `ImplementsBetting` | a hand, its settlement, its text, its turns |
| `DealerProofs` | `TypeOK`, `RestartResumes`, `NoStaleAnswer`, `TimeLimitSurvivesRestarts`, `LogAddsUp`, `ImplementsMatch` | the dealer |
| `LineReaderProofs` | `TypeOK`, `NothingLost`, `LinesAreLines`, `ZeroIsTheEnd`, `WaitsLongEnough` | `getLine()` |
| `LLPoolProofs` | what adding and removing entries and the loops over a pool keep | the pools |
| `BmServerProofs` | `TypeOK`, `LimitsHold`, `JobsMatchTheirMatches`, `NoStaleConnection`, `TakesTurns`, `ImplementsQueue` | the benchmark server |
| `DeepStackProofs` | `ReadsTheState`, `TreeIsTheGame`, `LookaheadIsDense`, `ContinuesTheHand`, `LayersHoldTheTree` | DeepStack's parser and its tree against the dealer's rules, the tensors it packs the tree into, and what it carries from decision to decision |

The assumptions are those the modules name: of a hand `LimitsAssumption`,
`GamesAssumption` and `SizesAssumption`; of the dealer `SetupsAssumption`,
`AsksAssumption`, `DealerAssumption` and `DealerLimitsAssumption`; of the line reader
`SizesAssumption`; of the server `RequestsAssumption`, `UsersAssumption`,
`LimitsAssumption` and `SaysAssumption`; of DeepStack `TreeAssumption` and
`DeepStackAssumption`. TLC evaluates them in every run of
the MC module concerned. They say that games pass the checks of `readGame()`, that
the arrays are large enough for one action of everybody, that numbers have the
types of the code, and one thing more: somebody has chips beyond the blind. Where
every blind is a whole stack `nextPlayer()` never returns. Of DeepStack's game they say what its settings and the
dealer's game definition must have in common (two players, two rounds, the same ante
and stack), that bets are multiples of the pot, and that a round has room for as many
raises of an ante as there are antes in a stack, in the rules and in the array of
actions; the shipped game, with 255 raises and 12 antes, is far from either limit.

### A hand: chips

None of the properties is inductive. `TypeOK` alone does not survive a raise:
that the amount is within the stack needs the validity of the action, and that a
call is needs the cap. `SomebodyCanAct` does not survive a call: it needs that
the round was open before and that whoever is counted as a caller can act. So
`HandInv` says that the game is one of the constant's and the state is `Sound`:
well formed (types, stacks, all rounds after the current one empty), an open hand
has fewer callers than players who can act, callers have matched the bet, in an
open round the array of actions keeps room for the calls that must still come, and
in a no-limit game the next raise exceeds the bet. `Sound` is about a game and a
state, not about the variables of `Hand`, and so are the lemmas that a new hand is
sound and a valid action keeps it so: the dealer's proofs use the same ones.
`AcpcGameProofs` has one lemma per operator (who `nextPlayer` finds, what `Paid`
changes, how one action changes the set of callers, what `Closed` leaves open); the
counting in them rests on the finite-set theorems of the library.

`RaisesAreCovered` says every game is no-limit or has equal stacks. It is a
hypothesis of `LargestBetIsMaxSpent`, `ChipsNeverReturn`, `ZeroSum`,
`StakesAreTheTable` and `HandImplementsBetting` and cannot be dropped:
`hand_limit_short_stack` is the counterexample without it. On that instance the
settlement is not zero-sum either (TLC finds the state at once): a short stack's raise
lowers `maxSpent`, a player above it may fold, and the chips beyond everybody else's
bet are paid to nobody.

### Settlement

The values of a state are a double sum: over the players, and for each over the
levels of the pot up to what he has spent (`Gain` is what a player gains or loses at a
level). Summed player by player it is the total of the values; summed level by level
(`TotalsSwap`) every level adds nothing, because what is paid in at a level is divided
among its winners: exactly, as `Shares` is a multiple of every number of winners there
can be (`SharesAreMultiples`, `PotIsDivided`), and among at least one, as somebody still in
the hand has spent the largest bet and so reaches every level (`WinnersExist`). This last
step is where the invariant of the hand is needed. `StakesAreTheTable` uses that the
levels of a player are together as high as what he spent (`PotsReachTheLevel`), and that
nobody can win at a level from another more than that other put into it.
`BestHandIsSafe` compares only what the best hand paid and got at each of its levels and
needs no hypothesis about stacks.

`SidePotsAddUp` joins those theorems to the code's loop: they are about the sum over
the levels, and the loop computes it, in every hand. Its invariant, `LoopSettles`:
after i turns the list is the one at some level (`ListAt`), the value is the sum over the
levels up to it, and either the level is what the player has spent or i players have
been dropped. One turn goes to the next level because the smallest amount left on the
list ends there (`PotsAreLevels`), the highest rank is one of a hand that has not
folded, so that the code's winners are the model's (`PotIsSettled`), and whoever stops at
that level is dropped (`ListGoesOn`).

### A hand: the text of its betting

`BettingIsReadBack` is about the text a message carries: the actions of all rounds in one
sequence, without the rounds, the players or the money. That reading it gives back
the state is inductive together with `HandInv`. An action that is played is appended to the text
whatever round comes next (`ActionIsPrinted`; a closed round prints nothing after it,
as the rounds after the current one are empty), and reading one action more is one
more step of `doAction` from what was read before (`OneMoreRead`). `readBetting`
corrects every action it reads, but one that was played is corrected to itself
(`FixedActionStays`), because it was corrected when it was asked for.

### A hand: turns

`numCalled()` looks back to the last raise and `nextPlayer()` at the last action
only, so that neither knows who has acted. `TurnInv` is what makes them agree
(`OnceRound`): counted from some seat, that of the last raise or the first to act,
play has gone round the table at most once; the actions since lie in the order of
the seats, everybody up to the seat of the last one who can still act has acted,
nobody beyond has. From it follows that the player asked next has not acted since
the last raise, and that a round closes only when everybody has. It needs that a
fold marks a folded player and that whoever is counted as a caller can act; it does
not need equal stacks, so that `BetsAreMatched` holds in the limit games with short
stacks as well. `HandImplementsBetting` maps the state to `Betting`'s variables and
every action to a step of it; a hand that ends by calls maps to "nobody owes"
because of `BetsAreMatched`.

### The dealer

`DealerInv` has five parts. `TypesInv` holds `m` in a set in which seats and cards
are functions of the hand's number and the hand is `Sound`. `FileInv` says that the
file replays, to `recorded`, and while the program is starting up that the lines
read so far replay to `m`. `AnswerInv` says that an action on its way into the file
is valid, within the player's time, and was answered to something sent after the
last line was written. `MatchInv` says that what the file describes is what the
program holds in memory (`Caught` is `m` with the action that has been written but
not yet played, and with a finished hand added up), and that nobody has been
charged less time than the file accounts for. It is "no less" and not "equal"
because skipped lines are charged and never recorded; that is why the limit
survives a restart although the counters do not. `HeardInv` is what makes messages
without numbers safe: every message of the current hand shows fewer actions than
the file, unless nothing has been written since. It rests on `BettingGrows`: an
action makes the betting of a message longer by exactly one, also when it ends a
round, so that an old message never matches.

What a replay computes is a recursive function over the lines, and the lemmas about
it (`FileIsReplayed`, `LongerFile`, `LineAfterLine`, `NoLineFails`) go by the least
line for which they fail. `DealerImplementsMatch` reads `Match`'s variables off
`recorded`; only `logTransaction` changes them, by one valid action or by the
settlement of the hand it ends, and every other step, failures and restarts
included, stutters.

The log is written after the transaction file, and never again: a hand that is over in the file when
the program stops is missing from the log for good. `LogInv` counts on that. `Reported` is how
many hands the file has finished, less one while one is on its way into the log
(`Settling`), and `ReportedTotals` the totals without what that hand is worth
(`Due`). `Accounts` says that the log has those hands in order but for `Lost`
of them, one for every stop of the program, and that a log which lacks none adds up
to those totals. A line written to the file changes neither, as what it adds to the totals
is due; `addToLogFile` pays it, for the value of a line at a seat is that of the player
who sits there (`LineShowsTheSeats`); a crash in between loses it (`HandIsLost`).
`LogIsOrderly` reads off the end of the match, where nothing is due: with no stop
nothing is lost.

### The line reader

`ReaderInv` names the place of every byte: `out`, `line` and the rest of `buf` are
consecutive pieces of what was sent (`BufferInv`, `OrderInv`); a line in the making is
not full and holds no newline (`LineInv`); and the clock is the time spent modulo
`WORD`, with what `select()` still waits bringing it to the limit modulo `WORD`
(`ClockInv`). Modulo is all that is true: the equation without it is what
`line_reader_overwait` refutes. `NoLimitIsCutShort` holds all the same, because giving
up needs a time left of zero, so that the time spent and the limit are equal modulo
`WORD`, and the limit is below `WORD` (`SizesAssumption`): at least the limit was spent.

### The benchmark server

`LLPoolProofs` shows that an operation on a pool leaves a pool: the list and the free
list are disjoint, without repetition, and name every entry. `ServerInv` adds
that entries in use belong to distinct sessions (`ConnsInv`), that queue times are
distinct and matches refer to users, games and connections that exist (`MatchesInv`),
and that jobs and running matches correspond one to one and are counted per game
(`JobsInv`); the limits follow from the count and are part of it. `TypeOK` alone is not
inductive, as the type of a match's entry in a job needs the pool of matches to be
one.

`NoStaleConnection` is inductive together with `ServerInv`: a match's
runs are set to none in the step that closes a connection it needs, and only
`CleanUp`, later, frees the entry to be used again. For `TakesTurns` the history variable `passedBy` is
bounded by the order of the users' waiting (`PassedInv`): who has been passed over by
v waits longer than v. `ServerImplementsQueue` maps every step to one of
`MatchQueue`'s: a session arrives, asks, a run starts, a run finishes, a session
leaves, or nothing happens. The history variables have a slot for each entry of
`Slots`; the two theorems about them assume that entries in use have one
(`EnoughSlots`, true in the run, where no more than three entries are ever in use), and
`SlotsForAll` shows that this is no restriction when `Slots` is all numbers.

### DeepStack

The parser knows no rules: it looks at the last two actions and the last raise
before them. What makes it right is a fact about the dealer's states, `InHand`: when
q is to act, either the bets are matched and at most one check was made on the
street, or the last action was the other player's raise, its size the largest bet.
`Told` says the same of what the parser is told: nobody has folded, the first street
ended with a call, and the last raise heard is the largest bet, the one before it what
q has put in. `Over` says how a hand ends: with a fold, with a call on the last street,
or with a call of a whole stack on the first, the case in which the parser still has
somebody acting and only the equal bets of a full stack keep DeepStack quiet. The
two are inductive together, as `Proper`: `CheckEffect`, `CallEffect`, `RaiseEffect`
and `FoldEffect` are what `doAction` makes of each action in such a state (they rest on the lemmas of
`AcpcGameProofs`), `OneMoreIsHeard` is what it changes in what is told. `BetsAreFound` and
`OpenHandIsRead` then read off the parser's result.

`TreeIsTheGame` needs the minimum raise: while chips are left it is the largest bet and
what the last raise raised it by, an ante at least (`RaiseBy`, part of `InHand`). That is what
`bet_sizing.lua` computes from the two bets of a node, although it keeps no history;
`RaisesOfTheTree` gives its bounds and `RaiseOfTheTree` joins them. The limits on the
number of raises and of actions never bind, as every raise puts in another ante
(`ActionsFit`).

`Talk` is the rest: every state in DeepStack's inbox but the last is not its to act on,
the last is the dealer's present state, and an answer on its way is to that state. A
state in which DeepStack is to act stays the last one until it has answered, because
the dealer waits.

`ContinuesTheHand` speaks of the moments of decision only and is not inductive. `Follows`
says of every moment where DeepStack and the hand are: it has not acted in this hand
(`NotYet`), its answer is on its way (`Answered`), the opponent is to answer it
(`Waits`), the opponent has and the street goes on (`SameStreet`), the street has ended
(`NextStreet`), or the hand has. `DeepStackFollows`, `DealerFollows`, `OpponentFollows` and
`NextHandFollows` take it through the actions; that an answer arrives as it was meant
(`AnswerIsAccepted`) is `TreeIsTheGame` for the action it was read off.

`NextStreet` says that the value `get_chance_action_cfv` hands over is that of the
chance node in which the street ended, although the code finds it by arithmetic. The
lemmas on the tensors show why. The first three layers of the tree, and of its nodes'
places, are what the first steps of building made of the root, however many follow
(`FirstLayers`, `FirstRows`, `SecondRow`, `ThirdRow`). A street can end in the first call
or in the call of a bet, and either is alone in the cell that is read
(`CellOfTheFirstCall`, `CellOfAnAnswer`), because `action_index` is shifted by the
number of the root's actions that end the betting (`Ends`, `ChanceValues`). The shift
would be wrong at a root whose call ends the hand; `FirstCallGoesOn` shows that no
street goes on from there. The code looks up an action by its name; `ActionIsFound`
shows that two of a node's actions with the same name lead to the same node.

`LookaheadIsDense` is about all layers of a tree, however deep. What holds of a layer is
an induction over the layers that are built; the library's induction theorems cannot be
used, so the steps are proved by the first layer that fails (`LayerByLayer`, `RowByRow`,
`RowGoesOn`). `IsLayer` says what a layer holds: decisions of the root's street, and
behind the root none at which a call is a check, so that every one of them has exactly
two actions that end the betting (`BothEnd`). `Fits` says that the counts
`_compute_structure` makes bound every node of their layer, and `RoomAt` that the room
for the grandparents grows by the nodes that are not all-in (`RoomGrows`).

`InRow` is the invariant of a single entry, and the reason the arithmetic works: a node
with children sits behind the actions that end the betting, in the row of a bet that is
not all-in, and it faces an all-in bet exactly if its index is the last. Only so is
`(gp - 1) * nonallin + bet` a number that division by `nonallin` takes apart again
(`ParentIsFound`, `CellIsBelow`), and only so does the last parent's call belong to a
showdown (`KidIsInRow`). `IsRow` adds that no two entries share a cell: from a child's
cell the parent's follows, and under one parent the slots differ although they are
counted from the last bet (`SlotsDiffer`). `KidIsSeen` and `CellIsUsed` compare the mask
with what is stored. `LayersHoldTheTree` shows that the bound on the number of layers in
`PublicTree` is one of the model's form only: behind the second layer every layer has
higher bets than the one above, and a stack is soon bet.

### Only model-checked

Every safety property and every refinement the passing runs check is proved. What
stays with TLC is liveness under fairness: `HandsEnd`, `MatchEnds`,
`EveryLineComesThrough`, `EveryMatchEnds`, `MatchGoesOn`.

## 6. What is not modelled

* Reading game definitions and command lines, formatting of numbers and cards,
  logging to standard error: no property is about them.
* The random generator, the shuffle, the evaluation tables: data; a deck is a
  constant and a ranking a parameter.
* `int32_t` overflow of `2 * size - maxSpent`: stacks above half of `INT32_MAX`
  only, listed as a hazard.
* CFR, the network, the values in the tensors: iteration on reals, out of the reach
  of TLC and of the prover. What is modelled of them is which node a number is for.
* The configuration file, the seeds and the process arguments of the benchmark
  server, its exits on errors of the system (`select()`, `waitpid()`, `pipe()`, `fork()`), and the listening sockets of the dealer.
* `bm_run_matches.c` waits for answers that `bm_server.c` never sends.
* Cards and hand strengths on the Lua side, the tree over all boards, strategy
  filling: data or offline.
* Perl tools, all-in expectation, data generation and training: wrappers or offline
  programs.
