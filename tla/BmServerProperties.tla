------------------------- MODULE BmServerProperties -------------------------
(***************************************************************************)
(* What should be true of the benchmark server, whatever its clients send, *)
(* whenever they leave, and in whatever order matches end.                 *)
(***************************************************************************)
EXTENDS BmServer

CONSTANT Slots     \* at least as many as matches are ever queued at a time

(* History variables: the session over which the match in each entry was   *)
(* asked for, and for each user the users whose runs were started while it *)
(* had a match that could have been, since its own last run.               *)
VARIABLES askedBy, passedBy

hvars == <<vars, askedBy, passedBy>>

ReadyUsers == {matches.data[e].user : e \in RunnableMatches}

(* The user whose run the step starts, if it starts one.                   *)
StartedUsers ==
  {matches.data[e].user : e \in {f \in Entries(matches) :
     ~matches.data[f].isRunning /\ matches'.data[f].isRunning}}

InitWithHistory ==
  /\ Init
  /\ askedBy = [e \in Slots |-> {}]
  /\ passedBy = [u \in Users |-> {}]

NextWithHistory ==
  /\ Next
  /\ askedBy' =
       [e \in Slots |->
          IF e \in Entries(matches)' \ Entries(matches)
            THEN {conns.data[c].connBuf : c \in {d \in Entries(conns) : Serving(d)}}
            ELSE askedBy[e]]
  /\ passedBy' =
       [u \in Users |->
          IF u \in StartedUsers THEN {}
          ELSE IF u \in ReadyUsers THEN passedBy[u] \cup StartedUsers
          ELSE passedBy[u]]

SpecWithHistory == InitWithHistory /\ [][NextWithHistory]_hvars /\ Fairness

-----------------------------------------------------------------------------
(* Types                                                                   *)

ConnectionType ==
  [status : {"closed", "unvalidated", "okay"},
   user : {{}} \cup {{u} : u \in Users}, connBuf : Sessions,
   buf : Seq(Lines \cup {Half}), partial : {"no", "held", "dropped"}]

(* A match keeps its number of runs between 0 and what its game allows.    *)
MatchType(m) ==
  /\ m.gameConf \in Games /\ m.user \in Users /\ m.isRunning \in BOOLEAN
  /\ m.numRuns \in 0..maxMatchRuns[m.gameConf]

(* The server's variables have the types of ServerState and Config; each   *)
(* pool's lists are disjoint and name every entry once.                    *)
TypeOK ==
  /\ IsLLPool(conns, ConnectionType)
  /\ IsLLPool(matches, {m \in Range(matches.data) : MatchType(m)})
  /\ IsLLPool(jobs, [matchEntry : DOMAIN matches.data, aborted : BOOLEAN, ended : BOOLEAN])
  /\ curRunningJobs \in [Games -> Nat]
  /\ IsInjective(waitStart) /\ ToSet(waitStart) = Users
  /\ IsInjective(queueTime) /\ ToSet(queueTime) = Entries(matches)
  /\ pc \in {"start", "select", "serve", "exited"}
  /\ ready \subseteq Entries(conns)

-----------------------------------------------------------------------------
(* Pointers into the pools                                                 *)

(* A match with runs left that needs a client to play holds the entry of   *)
(* the very connection it was asked for on, still logged on, although      *)
(* entries of closed connections are used again while their matches run.   *)
NoStaleConnection ==
  \A e \in Entries(matches) :
    LET m == matches.data[e]
    IN  m.numRuns > 0 =>
          \A p \in DOMAIN m.players : m.players[p] # Bot =>
            /\ m.players[p] \in Entries(conns)
            /\ conns.data[m.players[p]].status = "okay"
            /\ conns.data[m.players[p]].user = {m.user}
            /\ {conns.data[m.players[p]].connBuf} = askedBy[e]

(* Every job belongs to a match that is still in the pool and marked as    *)
(* running, every running match has exactly one job, and each game's count *)
(* is the number of its jobs.                                              *)
JobsMatchTheirMatches ==
  /\ \A e \in Entries(matches) :
       Cardinality({j \in Entries(jobs) : jobs.data[j].matchEntry = e})
         = IF matches.data[e].isRunning THEN 1 ELSE 0
  /\ \A j \in Entries(jobs) : jobs.data[j].matchEntry \in Entries(matches)
  /\ \A g \in Games :
       curRunningJobs[g] = Cardinality({j \in Entries(jobs) : MatchOf(j).gameConf = g})

-----------------------------------------------------------------------------
(* Limits and order                                                        *)

(* The limits of the configuration file hold whatever is queued: on the    *)
(* matches of a game at a time, and on the bots at a time.                 *)
LimitsHold ==
  /\ \A g \in Games : maxRunningJobs[g] # 0 =>
       Cardinality({j \in Entries(jobs) : MatchOf(j).gameConf = g}) <= maxRunningJobs[g]
  /\ maxRunningBots # 0 => RunningBots <= maxRunningBots

(* Nobody gets two runs while somebody else has a match that could run all *)
(* along: between two runs of its own, a user with such a match is passed  *)
(* over at most once by every other user.                                  *)
TakesTurns ==
  [][\A u \in ReadyUsers \ StartedUsers : StartedUsers \cap passedBy[u] = {}]_hvars

(* What was asked for is what is played: see MatchQueue.                   *)
Queue ==
  INSTANCE MatchQueue WITH
    Clients <- Sessions,
    Runs <- UNION {0..maxMatchRuns[g] : g \in Games},
    here <- {conns.data[c].connBuf : c \in {d \in Entries(conns) : conns.data[d].status = "okay"}},
    request <-
      [e \in Slots |->
         IF e \notin Entries(matches) THEN {}
         ELSE LET m == matches.data[e]
              IN  {[needs |-> IF \E p \in DOMAIN m.players : m.players[p] # Bot
                                THEN askedBy[e] ELSE {},
                    left |-> m.numRuns, running |-> m.isRunning]}]

ImplementsQueue == Queue!Spec

(* If every match fits on the machine, every match that is asked for is    *)
(* sooner or later played as often as asked for, or given up because its   *)
(* client left, unless the server exits because a dealer did not start.    *)
EveryMatchEnds ==
  \A e \in Slots : e \in Entries(matches) ~> (e \notin Entries(matches) \/ pc = "exited")
=============================================================================
