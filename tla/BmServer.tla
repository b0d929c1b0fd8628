------------------------------ MODULE BmServer ------------------------------
(***************************************************************************)
(* The benchmark server, bm_server.c: clients log on over a connection and *)
(* ask for matches; the server starts a dealer and bots for one run of a   *)
(* match after the other, in an order meant to be fair, and within limits  *)
(* on the matches of a game and the bots on the machine.                   *)
(*                                                                         *)
(* The server is one thread.  Around it act the clients (bm_widget.c and   *)
(* anything else that speaks the protocol), the network, and the processes *)
(* of the matches it has started.  Times are kept as orders: waitStart     *)
(* lists the users, queueTime the queued matches, earliest first.          *)
(***************************************************************************)
EXTENDS LLPool, FiniteSets

CONSTANTS
  Users,             \* in the configuration file
  Games,             \* in the configuration file
  maxMatchRuns,      \* for each game, the most runs a request may ask for
  maxRunningJobs,    \* for each game, the most matches at a time; 0: no limit
  maxRunningBots,    \* the most bots at a time; 0: no limit
  Sessions,          \* TCP connections, each made once
  Requests,          \* match specifications clients ask for
  Says,              \* bound: for each session, what its n-th line may be
  MaySplit,          \* bound: sessions whose last line may come in two parts
  MaxUnread          \* bound: lines sent and not handled yet

(* A request names a game, a number of runs, and for each seat whether the *)
(* client's own agent plays (LOCAL) or a bot on the server's machine.      *)
ASSUME RequestsAssumption ==
  \A r \in Requests :
    /\ r.numRuns \in Int
    /\ IsFiniteSet(DOMAIN r.local) /\ \A p \in DOMAIN r.local : r.local[p] \in BOOLEAN

ASSUME UsersAssumption == IsFiniteSet(Users)

ASSUME LimitsAssumption ==
  /\ maxMatchRuns \in [Games -> Nat]
  /\ maxRunningJobs \in [Games -> Nat]
  /\ maxRunningBots \in Nat

VARIABLES
  net,             \* for each session, the client's end and what is on the way
  conns,           \* pool of Connection
  matches,         \* pool of Match
  jobs,            \* pool of MatchJob
  curRunningJobs,  \* for each game
  waitStart,       \* the users, the one that waits longest first
  queueTime,       \* the entries of matches, the one queued longest first
  pc,              \* the part of main()'s loop that comes next
  ready            \* connections select() found readable and not yet handled

server == <<conns, matches, jobs, curRunningJobs, waitStart, queueTime, pc, ready>>
vars == <<net, server>>

-----------------------------------------------------------------------------
(* Lines                                                                   *)

(* What a client may say.  "info" is HELP, GAMES or QSTAT; "unknown" is    *)
(* anything else.  A line may arrive in two parts: Half is the first part  *)
(* and the line itself stands for the second.                              *)
Lines ==
  [type : {"logon"}, user : Users] \cup [type : {"runMatches"}, request : Requests]
    \cup [type : {"info", "unknown"}]

Half == [type |-> "half"]

ASSUME SaysAssumption == Says \in [Sessions -> Seq(SUBSET Lines)]

(* validateLogon(): the users the line is a logon for, none or one.        *)
validateLogon(line) == IF line.type = "logon" THEN {line.user} ELSE {}

parseMatchSpec_mutantNoUpperBound(request) ==
  request.game \in Games /\ request.numRuns >= 0

(* parseMatchSpec() accepts the request.                                   *)
parseMatchSpec(request) ==
  /\ request.game \in Games
  /\ request.numRuns >= 0
  /\ request.numRuns <= maxMatchRuns[request.game]

-----------------------------------------------------------------------------
(* Matches and jobs                                                        *)

(* players: for each seat the entry of the client's connection, or Bot.    *)
Bot == 0

Match(user, request, connEntry) ==
  [gameConf |-> request.game, user |-> user, numRuns |-> request.numRuns,
   players |-> [p \in DOMAIN request.local |-> IF request.local[p] THEN connEntry ELSE Bot],
   isRunning |-> FALSE]

matchUsesConnection_mutantSkipsFirstSeat(match, connEntry) ==
  \E p \in DOMAIN match.players \ {0} : match.players[p] = connEntry

matchUsesConnection(match, connEntry) ==
  \E p \in DOMAIN match.players : match.players[p] = connEntry

BotSeats(match) == {p \in DOMAIN match.players : match.players[p] = Bot}

botsInMatch(match) == Cardinality(BotSeats(match))

(* All processes of the job have ended, as waitpid() will report.          *)
checkIfJobFinished(job) == job.ended

MatchOf(job) == matches.data[jobs.data[job].matchEntry]

BotsOf(job) == {job} \X BotSeats(MatchOf(job))

RunningBots == Cardinality(UNION {BotsOf(job) : job \in Entries(jobs)})

Finished_mutantWhileRunning(match) == match.numRuns <= 0

(* A match of which nothing runs and nothing is left to run.               *)
Finished(match) == ~match.isRunning /\ match.numRuns <= 0

GameIsBusy(game) ==
  maxRunningJobs[game] # 0 /\ curRunningJobs[game] >= maxRunningJobs[game]

(* Matches startMatchJob() chooses from.                                   *)
Runnable(match) ==
  ~match.isRunning /\ match.numRuns > 0 /\ ~GameIsBusy(match.gameConf)

RunnableMatches == {e \in Entries(matches) : Runnable(matches.data[e])}

Before(order, a, b) ==
  \E i, j \in DOMAIN order : i < j /\ order[i] = a /\ order[j] = b

(* a comes before b: its user has waited longer, or the users are the same *)
(* and it has been queued longer.                                          *)
Precedes(a, b) ==
  LET user(e) == matches.data[e].user
  IN  \/ Before(waitStart, user(a), user(b))
      \/ user(a) = user(b) /\ Before(queueTime, a, b)

Best(e) == e \in RunnableMatches /\ \A f \in RunnableMatches \ {e} : Precedes(e, f)

BotsFit_mutantOnlyRunning(match) ==
  maxRunningBots # 0 => RunningBots < maxRunningBots

BotsFit(match) ==
  maxRunningBots # 0 => botsInMatch(match) + RunningBots <= maxRunningBots

ToBack_mutantStays(order, a) == order

ToBack(order, a) == Append(Without(order, {a}), a)

-----------------------------------------------------------------------------
(* Init                                                                    *)

Init ==
  /\ net = [s \in Sessions |->
              [end |-> "none", wire |-> <<>>, sent |-> 0, inLine |-> FALSE]]
  /\ conns = newLLPool /\ matches = newLLPool /\ jobs = newLLPool
  /\ curRunningJobs = [g \in Games |-> 0]
  /\ waitStart \in SetToSeqs(Users)     \* the order of the configuration file
  /\ queueTime = <<>>
  /\ pc = "serve" /\ ready = {}

-----------------------------------------------------------------------------
(* main(): finished jobs, then closed connections, are cleaned up.         *)

JobsLeft_mutantNotCounted(g, finished) == curRunningJobs[g]

(* finishedJob() counts the jobs of the game down.                         *)
JobsLeft(g, finished) ==
  curRunningJobs[g] - Cardinality({job \in finished : MatchOf(job).gameConf = g})

(* The match no longer runs once its job is finished.                      *)
Freed(e, finished) ==
  [matches.data[e] EXCEPT !.isRunning =
     @ /\ \A job \in finished : jobs.data[job].matchEntry # e]

(* The top of main()'s loop, with checkIfJobFinished() and finishedJob().  *)
CleanUp ==
  LET finished == {job \in Entries(jobs) : checkIfJobFinished(jobs.data[job])}
      closed == {c \in Entries(conns) : conns.data[c].status = "closed"}
  IN  /\ pc = "serve" /\ ready = {}
      /\ jobs' = RemoveAll(jobs, finished)
      /\ curRunningJobs' = [g \in Games |-> JobsLeft(g, finished)]
      /\ matches' = [matches EXCEPT !.data = [e \in DOMAIN @ |-> Freed(e, finished)]]
      /\ conns' = RemoveAll(conns, closed)
      /\ pc' = "start"
      /\ UNCHANGED <<net, waitStart, queueTime, ready>>

-----------------------------------------------------------------------------
(* startMatchJob(), called until it returns 0                              *)

(* Every call first drops the matches that are finished.                   *)
FinishedMatches == {e \in Entries(matches) : Finished(matches.data[e])}

DropFinished == RemoveAll(matches, FinishedMatches)

(* sendStartMessage() to everybody who plays over the network.  Writing    *)
(* fails only if the client is gone, and may succeed even then.            *)
MayFailToReach(match) ==
  \E p \in DOMAIN match.players :
    /\ match.players[p] # Bot
    /\ net[conns.data[match.players[p]].connBuf].end \in {"closed", "reset"}

(* runMatchJob(): the dealer and the bots are started and the clients told *)
(* to start theirs.  If that fails what was started is killed, but the job *)
(* is returned all the same.                                               *)
runMatchJob(e) ==
  {[matchEntry |-> e, aborted |-> failed, ended |-> FALSE] :
     failed \in {FALSE} \cup {f \in {TRUE} : MayFailToReach(matches.data[e])}}

RunStarted_mutantNotCounted(match) == [match EXCEPT !.isRunning = TRUE]

(* The bookkeeping at the end of startMatchJob().                          *)
RunStarted(match) == [match EXCEPT !.isRunning = TRUE, !.numRuns = @ - 1]

StartMatchJob ==
  \E e \in RunnableMatches :
    LET match == matches.data[e]
    IN  /\ pc = "start"
        /\ Best(e) /\ BotsFit(match)
        /\ \E job \in runMatchJob(e) : jobs' = LLPoolAddItem(jobs, job)
        /\ matches' = [DropFinished EXCEPT !.data[e] = RunStarted(@)]
        /\ curRunningJobs' = [curRunningJobs EXCEPT ![match.gameConf] = @ + 1]
        /\ waitStart' = ToBack(waitStart, match.user)
        /\ queueTime' = ToBack(Without(queueTime, FinishedMatches), e)
        /\ UNCHANGED <<net, conns, pc, ready>>

(* Nothing can be started: no match is waiting, all games that have one    *)
(* are busy, or the bots of the match whose turn it is do not fit.         *)
NothingToStart ==
  /\ pc = "start"
  /\ \A e \in RunnableMatches : Best(e) => ~BotsFit(matches.data[e])
  /\ matches' = DropFinished
  /\ queueTime' = Without(queueTime, FinishedMatches)
  /\ pc' = "select"
  /\ UNCHANGED <<net, conns, jobs, curRunningJobs, waitStart, ready>>

(* startDealer() could not start a dealer, or read its ports in time, and  *)
(* the server exits.  It exits as well where select(), waitpid(), pipe()   *)
(* or fork() reports an error of the system; those are left out.           *)
DealerDoesNotStart ==
  /\ pc = "start"
  /\ \E e \in RunnableMatches : Best(e) /\ BotsFit(matches.data[e])
  /\ pc' = "exited"
  /\ UNCHANGED <<net, conns, matches, jobs, curRunningJobs, waitStart, queueTime, ready>>

-----------------------------------------------------------------------------
(* select() and what came in                                               *)

Readable(c) ==
  LET session == net[conns.data[c].connBuf]
  IN  session.wire # <<>> \/ session.end \in {"closed", "reset"}

Connection(s) ==
  [status |-> "unvalidated", user |-> {}, connBuf |-> s, buf |-> <<>>, partial |-> "no"]

(* Lines already in a connection's buffer do not make it readable.         *)
Select ==
  /\ pc = "select"
  /\ ready' = {c \in Entries(conns) : Readable(c)}
  /\ \/ \E s \in Sessions :       \* handleListenSocket()
          /\ net[s].end = "connecting"
          /\ net' = [net EXCEPT ![s].end = "open"]
          /\ conns' = LLPoolAddItem(conns, Connection(s))
     \/ UNCHANGED <<net, conns>>
  /\ pc' = "serve"
  /\ UNCHANGED <<matches, jobs, curRunningJobs, waitStart, queueTime>>

(* The loop over the connections: the one being handled, if any.           *)
Serving(c) ==
  LET turn == Within(conns.head, ready)
  IN  pc = "serve" /\ turn # <<>> /\ c = Head(turn)

(* What getLine() gets to see next: the buffer, or a buffer read anew.     *)
Input(conn) == IF conn.buf # <<>> THEN conn.buf ELSE net[conn.connBuf].wire

SocketAfter(conn) ==
  IF conn.buf # <<>> THEN net ELSE [net EXCEPT ![conn.connBuf].wire = <<>>]

(* The first item of the input is taken out of the buffer.                 *)
Kept(conn, partial) == [conn EXCEPT !.buf = Tail(Input(conn)), !.partial = partial]

(* getLine() has taken the first part of a line and waits for the rest,    *)
(* however long that takes, as the time left of its limit of 0 has wrapped *)
(* round.  Only if not a microsecond has passed it gives up and drops what *)
(* it has read.                                                            *)
TakeHalf(c) ==
  LET conn == conns.data[c]
  IN  /\ Serving(c)
      /\ Input(conn) # <<>> /\ Head(Input(conn)) = Half
      /\ net' = SocketAfter(conn)
      /\ \/ /\ conns' = [conns EXCEPT !.data[c] = Kept(conn, "held")]
            /\ ready' = ready
         \/ /\ Tail(Input(conn)) = <<>> /\ net[conn.connBuf].end = "open"
            /\ conns' = [conns EXCEPT !.data[c] = Kept(conn, "dropped")]
            /\ ready' = ready \ {c}
      /\ UNCHANGED <<matches, jobs, curRunningJobs, waitStart, queueTime, pc>>

(* Nothing is left to read for now, or reading fails.                      *)
NoMoreInput(c) ==
  LET conn == conns.data[c]
      s == conn.connBuf
  IN  /\ Serving(c)
      /\ Input(conn) = <<>>
      /\ net[s].end = "reset" \/ (net[s].end = "open" /\ conn.partial # "held")
      /\ net' = [net EXCEPT ![s].end = IF @ = "reset" THEN "closed" ELSE @]
      /\ ready' = ready \ {c}
      /\ UNCHANGED <<conns, matches, jobs, curRunningJobs, waitStart, queueTime, pc>>

(* closeConnection(): no further runs of the matches that rely on it.      *)
closeConnection(c) ==
  LET s == conns.data[c].connBuf
  IN  /\ net' = [net EXCEPT ![s].end = "closed", ![s].wire = <<>>]
      /\ conns' = [conns EXCEPT !.data[c].status = "closed"]
      /\ matches' = [matches EXCEPT !.data =
           [e \in DOMAIN @ |->
              IF e \in Entries(matches) /\ matchUsesConnection(@[e], c)
                THEN [@[e] EXCEPT !.numRuns = 0] ELSE @[e]]]
      /\ ready' = ready \ {c}
      /\ UNCHANGED <<jobs, curRunningJobs, waitStart, queueTime, pc>>

EndOfFile(c) ==
  /\ Serving(c)
  /\ Input(conns.data[c]) = <<>> /\ net[conns.data[c].connBuf].end = "closed"
  /\ closeConnection(c)

(* A whole line has been read.  What is left of a line whose first part    *)
(* was dropped reads as something else.                                    *)
LineRead(c, line) ==
  LET conn == conns.data[c]
  IN  /\ Serving(c)
      /\ Input(conn) # <<>> /\ Head(Input(conn)) # Half
      /\ line = IF conn.partial = "dropped" THEN [type |-> "unknown"] ELSE Head(Input(conn))

AfterLine(c) == Kept(conns.data[c], "no")

LogOn(c) ==
  \E line \in Lines : \E user \in validateLogon(line) :
    /\ LineRead(c, line)
    /\ conns.data[c].status = "unvalidated"
    /\ net' = SocketAfter(conns.data[c])
    /\ conns' = [conns EXCEPT !.data[c] =
                   [AfterLine(c) EXCEPT !.status = "okay", !.user = {user}]]
    /\ ready' = ready \ {c}
    /\ UNCHANGED <<matches, jobs, curRunningJobs, waitStart, queueTime, pc>>

BadLogOn(c) ==
  \E line \in Lines :
    /\ LineRead(c, line) /\ validateLogon(line) = {}
    /\ conns.data[c].status = "unvalidated"
    /\ closeConnection(c)

(* HELP, GAMES and QSTAT are answered and the next line is read.           *)
Info(c) ==
  /\ LineRead(c, [type |-> "info"])
  /\ conns.data[c].status = "okay"
  /\ net' = SocketAfter(conns.data[c])
  /\ conns' = [conns EXCEPT !.data[c] = AfterLine(c)]
  /\ UNCHANGED <<matches, jobs, curRunningJobs, waitStart, queueTime, pc, ready>>

RunMatches(c) ==
  \E r \in Requests : \E user \in conns.data[c].user :
    /\ LineRead(c, [type |-> "runMatches", request |-> r]) /\ parseMatchSpec(r)
    /\ conns.data[c].status = "okay"
    /\ net' = SocketAfter(conns.data[c])
    /\ conns' = [conns EXCEPT !.data[c] = AfterLine(c)]
    /\ matches' = LLPoolAddItem(matches, Match(user, r, c))
    /\ queueTime' = Append(queueTime, NextEntry(matches))
    /\ ready' = ready \ {c}
    /\ UNCHANGED <<jobs, curRunningJobs, waitStart, pc>>

(* Anything else, a request that does not parse included, is refused.      *)
Refuse(c) ==
  \E line \in Lines :
    /\ LineRead(c, line) /\ line.type # "info"
    /\ line.type = "runMatches" => ~parseMatchSpec(line.request)
    /\ conns.data[c].status = "okay"
    /\ net' = SocketAfter(conns.data[c])
    /\ conns' = [conns EXCEPT !.data[c] = AfterLine(c)]
    /\ ready' = ready \ {c}
    /\ UNCHANGED <<matches, jobs, curRunningJobs, waitStart, queueTime, pc>>

handleConnection(c) ==
  \/ TakeHalf(c) \/ NoMoreInput(c) \/ EndOfFile(c)
  \/ LogOn(c) \/ BadLogOn(c) \/ Info(c) \/ RunMatches(c) \/ Refuse(c)

-----------------------------------------------------------------------------
(* Clients and processes                                                   *)

Connect(s) ==
  /\ net[s].end = "none"
  /\ net' = [net EXCEPT ![s].end = "connecting"]
  /\ UNCHANGED server

MaySend(s) ==
  /\ net[s].end \in {"connecting", "open"} /\ ~net[s].inLine
  /\ net[s].sent < Len(Says[s]) /\ Len(net[s].wire) < MaxUnread

NextLine(s) == Says[s][net[s].sent + 1]

SendLine(s) ==
  /\ MaySend(s)
  /\ \E line \in NextLine(s) :
       net' = [net EXCEPT ![s].wire = Append(@, line), ![s].sent = @ + 1]
  /\ UNCHANGED server

SendHalf(s) ==
  /\ MaySend(s) /\ s \in MaySplit /\ net[s].sent + 1 = Len(Says[s])
  /\ net' = [net EXCEPT ![s].wire = Append(@, Half), ![s].inLine = TRUE]
  /\ UNCHANGED server

SendRest(s) ==
  /\ net[s].end \in {"connecting", "open"} /\ net[s].inLine
  /\ \E line \in NextLine(s) :
       net' = [net EXCEPT ![s].wire = Append(@, line), ![s].sent = @ + 1, ![s].inLine = FALSE]
  /\ UNCHANGED server

(* The client is gone.  What it sent arrives, a line begun ending there, or *)
(* is lost with the connection.                                            *)
Close(s) ==
  /\ net[s].end = "open"
  /\ \/ \E rest \in IF net[s].inLine THEN {<<line>> : line \in NextLine(s)} ELSE {<<>>} :
          net' = [net EXCEPT ![s].end = "closed", ![s].wire = @ \o rest, ![s].inLine = FALSE]
     \/ net' = [net EXCEPT ![s].end = "reset", ![s].wire = <<>>, ![s].inLine = FALSE]
  /\ UNCHANGED server

(* The processes of a job end: the dealer's own time limits see to that.   *)
JobEnds ==
  \E job \in Entries(jobs) :
    /\ ~jobs.data[job].ended
    /\ jobs' = [jobs EXCEPT !.data[job].ended = TRUE]
    /\ UNCHANGED <<net, conns, matches, curRunningJobs, waitStart, queueTime, pc, ready>>

-----------------------------------------------------------------------------
ServerStep ==
  \/ CleanUp
  \/ StartMatchJob \/ NothingToStart \/ DealerDoesNotStart
  \/ Select
  \/ \E c \in Entries(conns) : handleConnection(c)

Environment ==
  \/ JobEnds
  \/ \E s \in Sessions :
       Connect(s) \/ SendLine(s) \/ SendHalf(s) \/ SendRest(s) \/ Close(s)

Next == ServerStep \/ Environment

(* The server keeps turning its loop, jobs end, and a line that has been   *)
(* begun is finished.                                                      *)
Fairness ==
  /\ WF_vars(ServerStep)
  /\ WF_vars(JobEnds)
  /\ \A s \in Sessions : WF_vars(SendRest(s) \/ (net[s].inLine /\ Close(s)))

Spec == Init /\ [][Next]_vars /\ Fairness
=============================================================================
