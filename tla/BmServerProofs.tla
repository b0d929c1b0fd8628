--------------------------- MODULE BmServerProofs ---------------------------
(***************************************************************************)
(* Theorems about the benchmark server, for any number of users, games,    *)
(* connections and requests, and any limits.                               *)
(***************************************************************************)
EXTENDS BmServerProperties, LLPoolProofs

-----------------------------------------------------------------------------
(* The inductive invariant.                                                *)

Wire == Seq(Lines \cup {Half})

Ends == {"none", "connecting", "open", "closed", "reset"}

(* A line begun is one the client has still to say.                        *)
NetInv ==
  /\ net \in [Sessions -> [end : Ends, wire : Wire, sent : Nat, inLine : BOOLEAN]]
  /\ \A s \in Sessions : net[s].inLine => net[s].sent < Len(Says[s])

Accepted == {"open", "closed", "reset"}

(* Every entry in use belongs to a session of its own, accepted before.    *)
ConnsInv ==
  /\ IsLLPool(conns, ConnectionType)
  /\ ready \subseteq Entries(conns)
  /\ \A c \in Entries(conns) : net[conns.data[c].connBuf].end \in Accepted
  /\ \A c, d \in Entries(conns) : conns.data[c].connBuf = conns.data[d].connBuf => c = d

Seats == UNION {[DOMAIN r.local -> Nat] : r \in Requests}

MatchRecord ==
  {m \in [gameConf : Games, user : Users, numRuns : Nat, players : Seats,
          isRunning : BOOLEAN] : m.numRuns <= maxMatchRuns[m.gameConf]}

MatchesInv ==
  /\ IsLLPool(matches, MatchRecord)
  /\ waitStart \in Seq(Users) /\ IsInjective(waitStart) /\ ToSet(waitStart) = Users
  /\ queueTime \in Seq(Nat) /\ IsInjective(queueTime)
  /\ ToSet(queueTime) = Entries(matches)

JobRecord == [matchEntry : Nat, aborted : BOOLEAN, ended : BOOLEAN]

JobsOf(g) == {j \in Entries(jobs) : MatchOf(j).gameConf = g}

(* Jobs and running matches belong together one by one, and are counted.   *)
JobsInv ==
  /\ IsLLPool(jobs, JobRecord)
  /\ \A j \in DOMAIN jobs.data : jobs.data[j].matchEntry \in DOMAIN matches.data
  /\ \A j \in Entries(jobs) :
       /\ jobs.data[j].matchEntry \in Entries(matches)
       /\ matches.data[jobs.data[j].matchEntry].isRunning
  /\ \A j, k \in Entries(jobs) : jobs.data[j].matchEntry = jobs.data[k].matchEntry => j = k
  /\ \A e \in Entries(matches) : matches.data[e].isRunning =>
       \E j \in Entries(jobs) : jobs.data[j].matchEntry = e
  /\ curRunningJobs \in [Games -> Nat]
  /\ \A g \in Games : curRunningJobs[g] = Cardinality(JobsOf(g))

ServerInv ==
  /\ NetInv /\ ConnsInv /\ MatchesInv /\ JobsInv
  /\ LimitsHold
  /\ pc \in {"start", "select", "serve", "exited"}

-----------------------------------------------------------------------------
(* The start                                                               *)

LEMMA UsersInLine ==
  ASSUME NEW s \in SetToSeqs(Users)
  PROVE  s \in Seq(Users) /\ IsInjective(s) /\ ToSet(s) = Users
<1> DEFINE n == Cardinality(Users)
<1>1. n \in Nat /\ IsFiniteSet(Users)
  BY UsersAssumption, FS_CardinalityType
<1>2. s \in [1..n -> Users] /\ \A i, j \in 1..n : i # j => s[i] # s[j]
  BY DEF SetToSeqs
<1> HIDE DEF n
<1>3. s \in Seq(Users)
  BY <1>1, <1>2, SeqDef
<1>4. IsInjective(s)
  BY <1>2 DEF IsInjective
<1>5. s \in Injection(1..n, Users)
  BY <1>2, <1>4 DEF Injection
<1>6. Cardinality(1..n) = n
  BY <1>1, FS_Interval
<1>7. s \in Surjection(1..n, Users)
  BY <1>1, <1>5, <1>6, FS_Injection DEF n
<1>8. ToSet(s) = Users
  BY <1>2, <1>7 DEF Surjection, ToSet
<1>9. QED
  BY <1>3, <1>4, <1>8

LEMMA ServerStarts ==
  ASSUME Init
  PROVE  ServerInv
<1>1. NetInv
  <2>1. <<>> \in Wire
    BY DEF Wire
  <2>2. net = [s \in Sessions |->
                 [end |-> "none", wire |-> <<>>, sent |-> 0, inLine |-> FALSE]]
    BY DEF Init
  <2>3. QED
    BY <2>1, <2>2 DEF NetInv, Ends
<1>2. ConnsInv
  BY NewPool DEF Init, ConnsInv
<1>3. MatchesInv
  <2>1. queueTime = <<>> /\ ToSet(<<>>) = {} /\ IsInjective(<<>>) /\ <<>> \in Seq(Nat)
    BY DEF Init, ToSet, IsInjective
  <2>2. waitStart \in SetToSeqs(Users) /\ matches = newLLPool
    BY DEF Init
  <2>3. QED
    BY <2>1, <2>2, NewPool, UsersInLine DEF MatchesInv
<1>4. /\ jobs = newLLPool /\ Entries(jobs) = {} /\ Entries(matches) = {}
      /\ IsLLPool(jobs, JobRecord) /\ DOMAIN jobs.data = {}
  BY NewPool DEF Init, newLLPool
<1>5. \A g \in Games : JobsOf(g) = {} /\ curRunningJobs[g] = 0
  BY <1>4 DEF Init, JobsOf
<1>6. curRunningJobs \in [Games -> Nat]
  BY DEF Init
<1>7. Cardinality({}) = 0
  BY FS_EmptySet
<1>8. JobsInv
  BY <1>4, <1>5, <1>6, <1>7 DEF JobsInv
<1>9. LimitsHold
  <2>1. UNION {BotsOf(job) : job \in Entries(jobs)} = {}
    BY <1>4
  <2>2. RunningBots = 0
    BY <1>7, <2>1 DEF RunningBots
  <2>3. \A g \in Games : {j \in Entries(jobs) : MatchOf(j).gameConf = g} = {}
    BY <1>4
  <2>4. ASSUME NEW g \in Games
        PROVE  Cardinality({j \in Entries(jobs) : MatchOf(j).gameConf = g})
                 <= maxRunningJobs[g]
    <3>1. {j \in Entries(jobs) : MatchOf(j).gameConf = g} = {}
      BY <2>3, <2>4
    <3>2. maxRunningJobs[g] \in Nat
      BY <2>4, LimitsAssumption
    <3>3. QED
      BY <1>7, <3>1, <3>2
  <2>5. RunningBots <= maxRunningBots
    BY <2>2, LimitsAssumption
  <2>6. QED
    BY <2>4, <2>5 DEF LimitsHold
<1>10. QED
  BY <1>1, <1>2, <1>3, <1>8, <1>9 DEF ServerInv, Init

-----------------------------------------------------------------------------
(* Connections                                                             *)

(* conn is what an entry may become while it is being served.              *)
Continues(conn, old) ==
  conn \in ConnectionType /\ conn.connBuf = old.connBuf

NetType == [end : Ends, wire : Wire, sent : Nat, inLine : BOOLEAN]

(* The network changes, but no session that was accepted is forgotten.     *)
NetGoesOn ==
  /\ NetInv'
  /\ \A s \in Sessions : net[s].end \in Accepted => net'[s].end \in Accepted

LEMMA ConnOf ==
  ASSUME NetInv, ConnsInv, NEW c \in Entries(conns)
  PROVE  /\ c \in DOMAIN conns.data /\ conns.data[c] \in ConnectionType
         /\ conns.data[c].connBuf \in Sessions /\ conns.data[c].buf \in Wire
         /\ net[conns.data[c].connBuf] \in NetType
<1>1. c \in DOMAIN conns.data /\ conns.data[c] \in ConnectionType
  BY PoolFacts DEF ConnsInv
<1>2. conns.data[c].connBuf \in Sessions /\ conns.data[c].buf \in Wire
  BY <1>1 DEF ConnectionType, Wire
<1>3. QED
  BY <1>1, <1>2 DEF NetInv, NetType

(* Only the connection whose turn it is is served.                         *)
LEMMA ServesOne ==
  ASSUME NetInv, ConnsInv, NEW c, Serving(c)
  PROVE  /\ c \in Entries(conns) /\ c \in ready
         /\ \A d : Serving(d) => d = c
<1> DEFINE turn == Within(conns.head, ready)
<1>1. conns.head \in Seq(DOMAIN conns.data)
  BY DEF ConnsInv, IsLLPool
<1>2. turn \in Seq(DOMAIN conns.data) /\ ToSet(turn) = Entries(conns) \cap ready
  BY <1>1, WithinSet DEF Entries
<1>3. turn # <<>> /\ c = Head(turn)
  BY DEF Serving
<1>4. c \in ToSet(turn)
  <2> HIDE DEF turn
  <2>1. Len(turn) \in Nat \ {0} /\ DOMAIN turn = 1..Len(turn) /\ c = turn[1]
    BY <1>2, <1>3, EmptySeq, LenProperties
  <2>2. 1 \in DOMAIN turn
    BY <2>1
  <2>3. QED
    BY <2>1, <2>2 DEF ToSet
<1>5. QED
  BY <1>2, <1>4 DEF Serving

LEMMA InputIsWire ==
  ASSUME NetInv, ConnsInv, NEW c \in Entries(conns)
  PROVE  /\ Input(conns.data[c]) \in Wire
         /\ Input(conns.data[c]) # <<>> => Tail(Input(conns.data[c])) \in Wire
<1>1. Input(conns.data[c]) \in Wire
  BY ConnOf DEF Input, NetType
<1>2. QED
  BY <1>1, HeadTailProperties DEF Wire

(* What a step does to the network when it only takes from a wire or ends  *)
(* a session that was accepted.                                            *)
LEMMA NetChanges ==
  ASSUME NetInv, NEW s \in Sessions, NEW n \in NetType,
         net' = [net EXCEPT ![s] = n],
         n.inLine => n.sent < Len(Says[s]),
         net[s].end \in Accepted => n.end \in Accepted
  PROVE  NetGoesOn
BY DEF NetInv, NetGoesOn, NetType

LEMMA TakesFromSocket ==
  ASSUME NetInv, ConnsInv, NEW c \in Entries(conns), net' = SocketAfter(conns.data[c])
  PROVE  NetGoesOn /\ \A s \in Sessions : net'[s].end = net[s].end
<1> DEFINE s == conns.data[c].connBuf
           n == [net[s] EXCEPT !.wire = <<>>]
<1>1. s \in Sessions /\ net[s] \in NetType
  BY ConnOf
<1>2. CASE net' = net
  BY <1>2 DEF NetGoesOn, NetInv
<1>3. CASE net' = [net EXCEPT ![s].wire = <<>>]
  <2>1. <<>> \in Wire
    BY DEF Wire
  <2>2. /\ n \in NetType /\ n.end = net[s].end /\ n.inLine = net[s].inLine
        /\ n.sent = net[s].sent
    BY <1>1, <2>1 DEF NetType
  <2>3. net' = [net EXCEPT ![s] = n]
    BY <1>3
  <2> HIDE DEF s, n
  <2>4. NetGoesOn
    BY <1>1, <2>2, <2>3, NetChanges DEF NetInv
  <2>5. \A t \in Sessions : net'[t].end = net[t].end
    BY <2>2, <2>3 DEF NetInv
  <2>6. QED
    BY <2>4, <2>5
<1>4. QED
  BY <1>2, <1>3 DEF SocketAfter

(* An entry is put in the place of the one that is served.                 *)
LEMMA ConnReplaced ==
  ASSUME NetInv, ConnsInv, NetGoesOn, NEW c \in Entries(conns),
         NEW conn, Continues(conn, conns.data[c]),
         conns' = [conns EXCEPT !.data[c] = conn], ready' \subseteq ready
  PROVE  /\ ConnsInv'
         /\ Entries(conns)' = Entries(conns) /\ conns'.data[c] = conn
         /\ \A d \in Entries(conns) : d # c => conns'.data[d] = conns.data[d]
<1>1. /\ c \in DOMAIN conns.data /\ conn \in ConnectionType
      /\ conn.connBuf = conns.data[c].connBuf
      /\ IsLLPool(conns, ConnectionType)
  BY ConnOf DEF Continues, ConnsInv
<1>2. /\ IsLLPool(conns', ConnectionType)
      /\ Entries(conns') = Entries(conns)
      /\ conns'.data[c] = conn
      /\ \A d \in DOMAIN conns.data : d # c => conns'.data[d] = conns.data[d]
  BY <1>1, PoolReplace
<1>3. \A d \in Entries(conns) : /\ conns'.data[d].connBuf = conns.data[d].connBuf
                                /\ conns.data[d].connBuf \in Sessions
  BY <1>1, <1>2, ConnOf
<1>4. ConnsInv'
  BY <1>2, <1>3 DEF ConnsInv, NetGoesOn
<1>5. QED
  BY <1>2, <1>4, ConnOf

LEMMA ConnsUnchanged ==
  ASSUME NetInv, ConnsInv, NetGoesOn, conns' = conns, ready' \subseteq ready
  PROVE  ConnsInv'
<1>1. \A c \in Entries(conns) : conns.data[c].connBuf \in Sessions
  BY ConnOf
<1>2. QED
  BY <1>1 DEF ConnsInv, NetGoesOn

LEMMA OneField ==
  ASSUME NetInv, ConnsInv, NEW c \in Entries(conns)
  PROVE  [conns EXCEPT !.data[c].status = "closed"]
           = [conns EXCEPT !.data[c] = [conns.data[c] EXCEPT !.status = "closed"]]
<1>1. conns = [x \in {"head", "free", "data"} |-> conns[x]] /\ c \in DOMAIN conns.data
  BY PoolShape, ConnOf DEF ConnsInv
<1>2. QED
  BY <1>1

(* A line read, or part of one.                                            *)
LEMMA KeepsWho ==
  ASSUME NEW old \in ConnectionType, NEW p \in {"no", "held", "dropped"},
         Tail(Input(old)) \in Wire
  PROVE  /\ Continues(Kept(old, p), old)
         /\ Kept(old, p).status = old.status /\ Kept(old, p).user = old.user
<1> DEFINE b == Tail(Input(old))
<1>1. Kept(old, p) = [old EXCEPT !.buf = b, !.partial = p]
  BY DEF Kept
<1>2. b \in Wire
  OBVIOUS
<1> HIDE DEF b
<1>3. QED
  BY <1>1, <1>2 DEF Continues, ConnectionType, Wire

LEMMA LineFacts ==
  ASSUME NetInv, ConnsInv, NEW c, NEW line, LineRead(c, line)
  PROVE  /\ c \in Entries(conns) /\ c \in ready
         /\ Continues(AfterLine(c), conns.data[c])
         /\ AfterLine(c).status = conns.data[c].status
         /\ AfterLine(c).user = conns.data[c].user
<1>1. c \in Entries(conns) /\ c \in ready /\ Input(conns.data[c]) # <<>>
  BY ServesOne DEF LineRead
<1>2. Tail(Input(conns.data[c])) \in Wire /\ conns.data[c] \in ConnectionType
  BY <1>1, InputIsWire, ConnOf
<1>3. "no" \in {"no", "held", "dropped"}
  OBVIOUS
<1>4. QED
  BY <1>1, <1>2, <1>3, KeepsWho DEF AfterLine

(* The connections in use, and who is logged on over them, stay as they    *)
(* are.                                                                    *)
SameClients ==
  /\ Entries(conns)' = Entries(conns)
  /\ \A d \in Entries(conns) :
       /\ conns'.data[d].status = conns.data[d].status
       /\ conns'.data[d].user = conns.data[d].user
       /\ conns'.data[d].connBuf = conns.data[d].connBuf

LEMMA HalfTaken ==
  ASSUME NetInv, ConnsInv, NEW c, TakeHalf(c)
  PROVE  NetInv' /\ ConnsInv' /\ SameClients
<1>1. c \in Entries(conns) /\ Input(conns.data[c]) # <<>>
  BY ServesOne DEF TakeHalf
<1>2. NetGoesOn
  BY <1>1, TakesFromSocket DEF TakeHalf
<1>3. Tail(Input(conns.data[c])) \in Wire /\ conns.data[c] \in ConnectionType
  BY <1>1, InputIsWire, ConnOf
<1>4. PICK p \in {"no", "held", "dropped"} :
        /\ conns' = [conns EXCEPT !.data[c] = Kept(conns.data[c], p)]
        /\ ready' \subseteq ready
  BY DEF TakeHalf
<1> DEFINE conn == Kept(conns.data[c], p)
<1>5. /\ Continues(conn, conns.data[c])
      /\ conn.status = conns.data[c].status /\ conn.user = conns.data[c].user
  BY <1>3, KeepsWho
<1> HIDE DEF conn
<1>6. /\ ConnsInv' /\ Entries(conns)' = Entries(conns) /\ conns'.data[c] = conn
      /\ \A d \in Entries(conns) : d # c => conns'.data[d] = conns.data[d]
  BY <1>1, <1>2, <1>4, <1>5, ConnReplaced DEF conn
<1>7. QED
  BY <1>1, <1>2, <1>5, <1>6 DEF NetGoesOn, Continues, SameClients

LEMMA NothingToRead ==
  ASSUME NetInv, ConnsInv, NEW c, NoMoreInput(c)
  PROVE  NetInv' /\ ConnsInv' /\ SameClients
<1> DEFINE s == conns.data[c].connBuf
           end == IF net[s].end = "reset" THEN "closed" ELSE net[s].end
           n == [net[s] EXCEPT !.end = end]
<1>1. c \in Entries(conns)
  BY ServesOne DEF NoMoreInput
<1>2. s \in Sessions /\ net[s] \in NetType
  BY <1>1, ConnOf
<1>3. net' = [net EXCEPT ![s].end = end] /\ conns' = conns /\ ready' \subseteq ready
  BY DEF NoMoreInput
<1>4. net' = [net EXCEPT ![s] = n]
  BY <1>2, <1>3 DEF NetInv
<1>5. /\ n \in NetType /\ n.inLine = net[s].inLine /\ n.sent = net[s].sent
      /\ net[s].end \in Accepted => n.end \in Accepted
  <2>1. end \in Ends /\ (net[s].end \in Accepted => end \in Accepted)
    BY <1>2 DEF NetType, Ends, Accepted
  <2> HIDE DEF end, s
  <2>2. QED
    BY <1>2, <2>1 DEF NetType
<1> HIDE DEF n, end, s
<1>6. NetGoesOn
  BY <1>2, <1>4, <1>5, NetChanges DEF NetInv
<1>7. ConnsInv'
  BY <1>3, <1>6, ConnsUnchanged
<1>8. QED
  BY <1>3, <1>6, <1>7 DEF NetGoesOn, SameClients

(* HELP and the like are answered, a request is queued or refused.         *)
LEMMA LineHandled ==
  ASSUME NetInv, ConnsInv, NEW c, NEW line, LineRead(c, line),
         net' = SocketAfter(conns.data[c]),
         conns' = [conns EXCEPT !.data[c] = AfterLine(c)], ready' \subseteq ready
  PROVE  NetInv' /\ ConnsInv' /\ SameClients
<1>1. /\ c \in Entries(conns)
      /\ Continues(AfterLine(c), conns.data[c])
      /\ AfterLine(c).status = conns.data[c].status
      /\ AfterLine(c).user = conns.data[c].user
  BY LineFacts
<1>2. NetGoesOn
  BY <1>1, TakesFromSocket
<1>3. PICK conn : conn = AfterLine(c)
  OBVIOUS
<1>4. /\ ConnsInv' /\ Entries(conns)' = Entries(conns) /\ conns'.data[c] = conn
      /\ \A d \in Entries(conns) : d # c => conns'.data[d] = conns.data[d]
  BY <1>1, <1>2, <1>3, ConnReplaced
<1>5. QED
  BY <1>1, <1>2, <1>3, <1>4 DEF NetGoesOn, SameClients, Continues

(* A client logs on.                                                       *)
LEMMA LoggedOn ==
  ASSUME NetInv, ConnsInv, NEW c, LogOn(c)
  PROVE  /\ NetInv' /\ ConnsInv'
         /\ c \in Entries(conns) /\ Entries(conns)' = Entries(conns)
         /\ conns.data[c].status = "unvalidated"
         /\ conns'.data[c].status = "okay"
         /\ conns'.data[c].connBuf = conns.data[c].connBuf
         /\ \A d \in Entries(conns) : d # c => conns'.data[d] = conns.data[d]
<1>1. PICK line \in Lines : \E user \in validateLogon(line) :
        /\ LineRead(c, line)
        /\ conns.data[c].status = "unvalidated"
        /\ net' = SocketAfter(conns.data[c])
        /\ conns' = [conns EXCEPT !.data[c] =
                       [AfterLine(c) EXCEPT !.status = "okay", !.user = {user}]]
        /\ ready' = ready \ {c}
  BY DEF LogOn
<1>2. PICK user \in Users :
        /\ LineRead(c, line)
        /\ conns.data[c].status = "unvalidated"
        /\ net' = SocketAfter(conns.data[c])
        /\ conns' = [conns EXCEPT !.data[c] =
                       [AfterLine(c) EXCEPT !.status = "okay", !.user = {user}]]
        /\ ready' \subseteq ready
  <2>1. validateLogon(line) \subseteq Users
    BY DEF validateLogon, Lines
  <2>2. QED
    BY <1>1, <2>1
<1>3. /\ c \in Entries(conns)
      /\ Continues(AfterLine(c), conns.data[c])
  BY <1>2, LineFacts
<1>4. NetGoesOn
  BY <1>2, <1>3, TakesFromSocket
<1>5. PICK old : old = AfterLine(c)
  OBVIOUS
<1>6. PICK conn : conn = [old EXCEPT !.status = "okay", !.user = {user}]
  OBVIOUS
<1>7. old \in ConnectionType /\ old.connBuf = conns.data[c].connBuf
  BY <1>3, <1>5 DEF Continues
<1>8. conn \in ConnectionType /\ conn.connBuf = old.connBuf /\ conn.status = "okay"
  BY <1>6, <1>7 DEF ConnectionType
<1>9. conns' = [conns EXCEPT !.data[c] = conn]
  BY <1>2, <1>5, <1>6
<1>10. /\ ConnsInv' /\ Entries(conns)' = Entries(conns) /\ conns'.data[c] = conn
       /\ \A d \in Entries(conns) : d # c => conns'.data[d] = conns.data[d]
  BY <1>2, <1>3, <1>4, <1>7, <1>8, <1>9, ConnReplaced DEF Continues
<1>11. QED
  BY <1>2, <1>3, <1>4, <1>7, <1>8, <1>10 DEF NetGoesOn

(* A connection is closed; the entry stays until the next clean-up.        *)
LEMMA ConnectionCloses ==
  ASSUME NetInv, ConnsInv, NEW c \in Entries(conns), closeConnection(c)
  PROVE  /\ NetInv' /\ ConnsInv'
         /\ Entries(conns)' = Entries(conns)
         /\ conns'.data[c].status = "closed"
         /\ conns'.data[c].connBuf = conns.data[c].connBuf
         /\ \A d \in Entries(conns) : d # c => conns'.data[d] = conns.data[d]
<1> DEFINE s == conns.data[c].connBuf
           n == [net[s] EXCEPT !.end = "closed", !.wire = <<>>]
<1>1. s \in Sessions /\ net[s] \in NetType /\ conns.data[c] \in ConnectionType
  BY ConnOf
<1>2. /\ net' = [net EXCEPT ![s].end = "closed", ![s].wire = <<>>]
      /\ conns' = [conns EXCEPT !.data[c].status = "closed"]
      /\ ready' \subseteq ready
  BY DEF closeConnection
<1>3. net' = [net EXCEPT ![s] = n]
  BY <1>1, <1>2 DEF NetInv
<1>4. /\ n \in NetType /\ n.inLine = net[s].inLine /\ n.sent = net[s].sent
      /\ n.end \in Accepted
  <2>1. <<>> \in Wire
    BY DEF Wire
  <2> HIDE DEF s
  <2>2. QED
    BY <1>1, <2>1 DEF NetType, Ends, Accepted
<1> HIDE DEF n, s
<1>5. NetGoesOn
  BY <1>1, <1>3, <1>4, NetChanges DEF NetInv
<1>6. PICK conn : conn = [conns.data[c] EXCEPT !.status = "closed"]
  OBVIOUS
<1>7. /\ Continues(conn, conns.data[c]) /\ conn.status = "closed"
      /\ conn.connBuf = conns.data[c].connBuf
  <2>1. PICK old : old = conns.data[c]
    OBVIOUS
  <2>2. old \in ConnectionType /\ conn = [old EXCEPT !.status = "closed"]
    BY <1>1, <1>6, <2>1
  <2>3. conn \in ConnectionType /\ conn.status = "closed" /\ conn.connBuf = old.connBuf
    BY <2>2 DEF ConnectionType
  <2>4. QED
    BY <2>1, <2>3 DEF Continues
<1>8. conns' = [conns EXCEPT !.data[c] = conn]
  BY <1>2, <1>6, OneField
<1>9. /\ ConnsInv' /\ Entries(conns)' = Entries(conns) /\ conns'.data[c] = conn
      /\ \A d \in Entries(conns) : d # c => conns'.data[d] = conns.data[d]
  BY <1>2, <1>5, <1>7, <1>8, ConnReplaced
<1>10. QED
  BY <1>5, <1>7, <1>9 DEF NetGoesOn

(* Closed connections are removed.                                         *)
LEMMA ConnectionsCleanedUp ==
  ASSUME NetInv, ConnsInv, CleanUp
  PROVE  /\ NetInv' /\ ConnsInv'
         /\ Entries(conns)' = {c \in Entries(conns) : conns.data[c].status # "closed"}
         /\ conns'.data = conns.data
<1> DEFINE closed == {c \in Entries(conns) : conns.data[c].status = "closed"}
<1>1. /\ conns' = RemoveAll(conns, closed) /\ net' = net /\ ready' = {}
  BY DEF CleanUp
<1>2. /\ IsLLPool(conns', ConnectionType) /\ Entries(conns') = Entries(conns) \ closed
      /\ conns'.data = conns.data
  <2>1. closed \subseteq Entries(conns) /\ IsLLPool(conns, ConnectionType)
    BY DEF ConnsInv
  <2> HIDE DEF closed
  <2>2. QED
    BY <1>1, <2>1, PoolRemove
<1>3. ConnsInv'
  <2>1. Entries(conns') \subseteq Entries(conns)
    BY <1>2
  <2>2. \A c \in Entries(conns') : net'[conns'.data[c].connBuf].end \in Accepted
    BY <1>1, <1>2, <2>1 DEF ConnsInv
  <2>3. \A c, d \in Entries(conns') : conns'.data[c].connBuf = conns'.data[d].connBuf => c = d
    BY <1>2, <2>1 DEF ConnsInv
  <2> HIDE DEF closed
  <2>4. QED
    BY <1>1, <1>2, <2>2, <2>3 DEF ConnsInv
<1>4. NetInv'
  BY <1>1 DEF NetInv
<1>5. QED
  BY <1>2, <1>3, <1>4

(* A session is accepted: it gets an entry that no session in use has.     *)
LEMMA SessionsSelected ==
  ASSUME NetInv, ConnsInv, Select
  PROVE  /\ NetInv' /\ ConnsInv'
         /\ \/ SameClients
            \/ \E c : /\ c \notin Entries(conns) /\ Entries(conns)' = Entries(conns) \cup {c}
                      /\ conns'.data[c].status = "unvalidated"
                      /\ \A d \in Entries(conns) : conns'.data[d] = conns.data[d]
<1>1. ready' \subseteq Entries(conns)
  BY DEF Select
<1>2. CASE UNCHANGED <<net, conns>>
  <2>1. NetInv' /\ ConnsInv'
    BY <1>1, <1>2 DEF NetInv, ConnsInv
  <2>2. SameClients
    BY <1>2 DEF SameClients
  <2>3. QED
    BY <2>1, <2>2
<1>3. CASE \E s \in Sessions :
             /\ net[s].end = "connecting"
             /\ net' = [net EXCEPT ![s].end = "open"]
             /\ conns' = LLPoolAddItem(conns, Connection(s))
  <2>1. PICK s \in Sessions :
             /\ net[s].end = "connecting"
             /\ net' = [net EXCEPT ![s].end = "open"]
             /\ conns' = LLPoolAddItem(conns, Connection(s))
    BY <1>3
  <2> DEFINE n == [net[s] EXCEPT !.end = "open"]
             c == NextEntry(conns)
  <2>2. net[s] \in NetType /\ net' = [net EXCEPT ![s] = n]
    BY <2>1 DEF NetInv, NetType
  <2>3. n \in NetType /\ n.inLine = net[s].inLine /\ n.sent = net[s].sent /\ n.end = "open"
    BY <2>2 DEF NetType, Ends
  <2> HIDE DEF n
  <2>4. NetGoesOn
    BY <2>1, <2>2, <2>3, NetChanges DEF NetInv, Accepted
  <2>5. Connection(s) \in ConnectionType /\ Connection(s).connBuf = s
        /\ Connection(s).status = "unvalidated"
    <3>1. <<>> \in Seq(Lines \cup {Half})
      OBVIOUS
    <3>2. QED
      BY <3>1 DEF Connection, ConnectionType
  <2>6. PICK conn \in ConnectionType : conn = Connection(s)
    BY <2>5
  <2>7. /\ IsLLPool(conns', ConnectionType)
        /\ c \notin Entries(conns)
        /\ Entries(conns') = Entries(conns) \cup {c}
        /\ conns'.data[c] = conn
        /\ \A d \in DOMAIN conns.data : d # c => conns'.data[d] = conns.data[d]
    <3>1. IsLLPool(conns, ConnectionType) /\ conns' = LLPoolAddItem(conns, conn)
      BY <2>1, <2>6 DEF ConnsInv
    <3>2. QED
      BY <3>1, PoolAdd
  <2> HIDE DEF c
  <2>8. \A d \in Entries(conns) : /\ conns'.data[d] = conns.data[d]
                                  /\ conns.data[d].connBuf \in Sessions
                                  /\ conns.data[d].connBuf # s
    <3>1. TAKE d \in Entries(conns)
    <3>2. d \in DOMAIN conns.data /\ conns.data[d].connBuf \in Sessions
      BY ConnOf
    <3>3. net[conns.data[d].connBuf].end \in Accepted
      BY DEF ConnsInv
    <3>4. QED
      BY <2>1, <2>7, <3>2, <3>3 DEF Accepted
  <2>9. net'[s].end \in Accepted
    BY <2>1, <2>2, <2>3 DEF NetInv, Accepted
  <2>10. conn.connBuf = s /\ conn.status = "unvalidated"
    BY <2>5, <2>6
  <2>11. ConnsInv'
    <3>1. \A d \in Entries(conns') : net'[conns'.data[d].connBuf].end \in Accepted
      BY <2>4, <2>7, <2>8, <2>9, <2>10 DEF NetGoesOn, ConnsInv
    <3>2. \A d, e \in Entries(conns') :
            conns'.data[d].connBuf = conns'.data[e].connBuf => d = e
      BY <2>7, <2>8, <2>10 DEF ConnsInv
    <3>3. QED
      BY <1>1, <2>7, <3>1, <3>2 DEF ConnsInv
  <2>12. QED
    BY <2>4, <2>7, <2>8, <2>10, <2>11 DEF NetGoesOn
<1>4. QED
  BY <1>2, <1>3 DEF Select

(* What a client makes of its end of the session.                          *)
ClientMakes(s, n) ==
  /\ net' = [net EXCEPT ![s] = n] /\ n \in NetType
  /\ n.inLine => n.sent < Len(Says[s])
  /\ net[s].end \in Accepted => n.end \in Accepted

LEMMA ClientSays ==
  ASSUME NetInv, NEW s \in Sessions
  PROVE  /\ net[s] \in NetType /\ net[s].wire \in Wire /\ net[s].sent \in Nat
         /\ net[s].inLine \in BOOLEAN /\ net[s].end \in Ends
         /\ net[s].inLine => net[s].sent < Len(Says[s])
         /\ net[s].sent < Len(Says[s]) => NextLine(s) \subseteq Lines
         /\ \A item \in Lines \cup {Half} : /\ Append(net[s].wire, item) \in Wire
                                            /\ net[s].wire \o <<item>> \in Wire
<1>1. /\ net[s] \in NetType /\ net[s].wire \in Wire /\ net[s].sent \in Nat
      /\ net[s].inLine \in BOOLEAN /\ net[s].end \in Ends
      /\ net[s].inLine => net[s].sent < Len(Says[s])
  BY DEF NetInv, NetType
<1>2. Len(Says[s]) \in Nat /\ Says[s] \in Seq(SUBSET Lines)
  BY SaysAssumption, LenProperties
<1>3. ASSUME net[s].sent < Len(Says[s]) PROVE NextLine(s) \subseteq Lines
  <2>1. PICK k \in Nat : k = net[s].sent
    BY <1>1
  <2>2. k + 1 \in 1..Len(Says[s])
    BY <1>2, <1>3, <2>1
  <2>3. Says[s][k + 1] \in SUBSET Lines
    BY <1>2, <2>2, ElementOfSeq
  <2>4. QED
    BY <2>1, <2>3 DEF NextLine
<1>4. ASSUME NEW item \in Lines \cup {Half}
      PROVE  Append(net[s].wire, item) \in Wire /\ net[s].wire \o <<item>> \in Wire
  <2>1. PICK w \in Wire : w = net[s].wire
    BY <1>1
  <2>2. Append(w, item) \in Wire /\ w \o <<item>> = Append(w, item)
    BY <2>1, AppendProperties, AppendIsConcat DEF Wire
  <2>3. QED
    BY <2>1, <2>2
<1>5. QED
  BY <1>1, <1>3, <1>4

LEMMA ClientConnects ==
  ASSUME NetInv, NEW s \in Sessions, Connect(s)
  PROVE  \E n : ClientMakes(s, n)
<1>1. PICK end : end = "connecting"
  OBVIOUS
<1>2. PICK n : n = [net[s] EXCEPT !.end = end]
  OBVIOUS
<1>3. net' = [net EXCEPT ![s] = n] /\ net[s].end = "none"
  BY <1>1, <1>2 DEF Connect, NetInv
<1>4. net[s] \in NetType /\ (net[s].inLine => net[s].sent < Len(Says[s]))
  BY ClientSays
<1>5. n \in NetType /\ n.inLine = net[s].inLine /\ n.sent = net[s].sent
  BY <1>1, <1>2, <1>4 DEF NetType, Ends
<1>6. QED
  BY <1>3, <1>4, <1>5 DEF ClientMakes, Accepted

LEMMA ClientSends ==
  ASSUME NetInv, NEW s \in Sessions, SendLine(s) \/ SendRest(s)
  PROVE  \E n : ClientMakes(s, n)
<1>1. net[s].sent < Len(Says[s])
  BY ClientSays DEF SendLine, SendRest, MaySend
<1>2. PICK line \in Lines :
        \/ /\ net' = [net EXCEPT ![s].wire = Append(@, line), ![s].sent = @ + 1]
           /\ ~net[s].inLine
        \/ net' = [net EXCEPT ![s].wire = Append(@, line), ![s].sent = @ + 1,
                              ![s].inLine = FALSE]
  BY <1>1, ClientSays DEF SendLine, SendRest, MaySend
<1>3. PICK v \in Wire : v = Append(net[s].wire, line)
  BY ClientSays
<1>4. PICK k \in Nat : k = net[s].sent + 1
  BY ClientSays
<1>5. net[s] \in NetType
  BY ClientSays
<1>6. PICK n : n = [net[s] EXCEPT !.wire = v, !.sent = k, !.inLine = FALSE]
  OBVIOUS
<1>7. n \in NetType /\ ~n.inLine /\ n.end = net[s].end
  BY <1>5, <1>6 DEF NetType
<1>8. net' = [net EXCEPT ![s] = n]
  <2>1. CASE net' = [net EXCEPT ![s].wire = Append(@, line), ![s].sent = @ + 1,
                                ![s].inLine = FALSE]
    <3>1. net' = [net EXCEPT ![s].wire = v, ![s].sent = k, ![s].inLine = FALSE]
      BY <1>3, <1>4, <2>1 DEF NetInv
    <3>2. QED
      BY <1>5, <1>6, <3>1 DEF NetInv, NetType
  <2>2. CASE /\ net' = [net EXCEPT ![s].wire = Append(@, line), ![s].sent = @ + 1]
             /\ ~net[s].inLine
    <3>1. net' = [net EXCEPT ![s].wire = v, ![s].sent = k]
      BY <1>3, <1>4, <2>2 DEF NetInv
    <3>2. net' = [net EXCEPT ![s] = [net[s] EXCEPT !.wire = v, !.sent = k]]
      BY <1>5, <3>1 DEF NetInv
    <3>3. [net[s] EXCEPT !.wire = v, !.sent = k] = n
      BY <1>5, <1>6, <2>2 DEF NetType
    <3>4. QED
      BY <3>2, <3>3
  <2>3. QED
    BY <1>2, <2>1, <2>2
<1>9. QED
  BY <1>7, <1>8 DEF ClientMakes

LEMMA ClientSendsHalf ==
  ASSUME NetInv, NEW s \in Sessions, SendHalf(s)
  PROVE  \E n : ClientMakes(s, n)
<1>1. /\ net' = [net EXCEPT ![s].wire = Append(@, Half), ![s].inLine = TRUE]
      /\ net[s].sent < Len(Says[s])
  BY DEF SendHalf, MaySend
<1>2. PICK v \in Wire : v = Append(net[s].wire, Half)
  BY ClientSays
<1>3. net[s] \in NetType
  BY ClientSays
<1>4. PICK n : n = [net[s] EXCEPT !.wire = v, !.inLine = TRUE]
  OBVIOUS
<1>5. n \in NetType /\ n.end = net[s].end /\ n.sent = net[s].sent
  BY <1>3, <1>4 DEF NetType
<1>6. net' = [net EXCEPT ![s].wire = v, ![s].inLine = TRUE]
  BY <1>1, <1>2 DEF NetInv
<1>7. net' = [net EXCEPT ![s] = n]
  BY <1>3, <1>4, <1>6 DEF NetInv
<1>8. QED
  BY <1>1, <1>5, <1>7 DEF ClientMakes

LEMMA ClientLeaves ==
  ASSUME NetInv, NEW s \in Sessions, Close(s)
  PROVE  \E n : ClientMakes(s, n)
<1>1. PICK end \in {"closed", "reset"}, v \in Wire :
        net' = [net EXCEPT ![s].end = end, ![s].wire = v, ![s].inLine = FALSE]
  <2>1. CASE net' = [net EXCEPT ![s].end = "reset", ![s].wire = <<>>, ![s].inLine = FALSE]
    <3>1. <<>> \in Wire
      BY DEF Wire
    <3>2. QED
      BY <2>1, <3>1
  <2>2. CASE \E rest \in IF net[s].inLine THEN {<<line>> : line \in NextLine(s)}
                                          ELSE {<<>>} :
               net' = [net EXCEPT ![s].end = "closed", ![s].wire = @ \o rest,
                                  ![s].inLine = FALSE]
    <3>1. PICK rest \in IF net[s].inLine THEN {<<line>> : line \in NextLine(s)}
                                          ELSE {<<>>} :
               net' = [net EXCEPT ![s].end = "closed", ![s].wire = @ \o rest,
                                  ![s].inLine = FALSE]
      BY <2>2
    <3>2. net[s].wire \o rest \in Wire
      <4>1. CASE net[s].inLine
        <5>1. PICK line \in NextLine(s) : rest = <<line>>
          BY <3>1, <4>1
        <5>2. line \in Lines
          BY <4>1, <5>1, ClientSays
        <5>3. QED
          BY <5>1, <5>2, ClientSays
      <4>2. CASE ~net[s].inLine
        <5>1. PICK w \in Wire : w = net[s].wire
          BY ClientSays
        <5>2. w \o <<>> = w
          BY ConcatEmptySeq DEF Wire
        <5>3. QED
          BY <3>1, <4>2, <5>1, <5>2
      <4>3. QED
        BY <4>1, <4>2
    <3>3. PICK v \in Wire : v = net[s].wire \o rest
      BY <3>2
    <3>4. net' = [net EXCEPT ![s].end = "closed", ![s].wire = v, ![s].inLine = FALSE]
      BY <3>1, <3>3 DEF NetInv
    <3>5. QED
      BY <3>4
  <2>3. QED
    BY <2>1, <2>2 DEF Close
<1>2. net[s] \in NetType
  BY ClientSays
<1>3. PICK n : n = [net[s] EXCEPT !.end = end, !.wire = v, !.inLine = FALSE]
  OBVIOUS
<1>4. n \in NetType /\ ~n.inLine /\ n.end = end
  BY <1>2, <1>3 DEF NetType, Ends
<1>5. net' = [net EXCEPT ![s] = n]
  BY <1>1, <1>2, <1>3 DEF NetInv
<1>6. QED
  BY <1>4, <1>5 DEF ClientMakes, Accepted

(* What clients do leaves the server alone.                                *)
LEMMA ClientActs ==
  ASSUME NetInv, ConnsInv, NEW s \in Sessions,
         Connect(s) \/ SendLine(s) \/ SendHalf(s) \/ SendRest(s) \/ Close(s)
  PROVE  NetInv' /\ ConnsInv' /\ SameClients
<1>1. \E n : ClientMakes(s, n)
  BY ClientConnects, ClientSends, ClientSendsHalf, ClientLeaves
<1>2. NetGoesOn
  BY <1>1, NetChanges DEF ClientMakes
<1>3. conns' = conns /\ ready' = ready
  BY DEF Connect, SendLine, SendHalf, SendRest, Close, server
<1>4. QED
  BY <1>2, <1>3, ConnsUnchanged DEF NetGoesOn, SameClients

-----------------------------------------------------------------------------
(* Matches                                                                 *)

LEMMA MatchFacts ==
  ASSUME MatchesInv, NEW e \in DOMAIN matches.data
  PROVE  /\ matches.data[e] \in MatchRecord
         /\ matches.data[e].gameConf \in Games /\ matches.data[e].user \in Users
         /\ matches.data[e].isRunning \in BOOLEAN
         /\ matches.data[e].numRuns \in Nat
         /\ matches.data[e].numRuns <= maxMatchRuns[matches.data[e].gameConf]
<1>1. matches.data[e] \in MatchRecord
  BY PoolFacts DEF MatchesInv
<1>2. QED
  BY <1>1 DEF MatchRecord

LEMMA MatchesInUse ==
  ASSUME MatchesInv
  PROVE  Entries(matches) \subseteq DOMAIN matches.data /\ IsFiniteSet(Entries(matches))
BY PoolFacts DEF MatchesInv

(* Every call of startMatchJob() drops what is finished.                   *)
LEMMA FinishedDropped ==
  ASSUME MatchesInv
  PROVE  /\ IsLLPool(DropFinished, MatchRecord)
         /\ Entries(DropFinished) = Entries(matches) \ FinishedMatches
         /\ DropFinished.data = matches.data
         /\ LET queued == Without(queueTime, FinishedMatches)
            IN  /\ queued \in Seq(Nat) /\ IsInjective(queued)
                /\ ToSet(queued) = Entries(matches) \ FinishedMatches
<1>1. FinishedMatches \subseteq Entries(matches)
  BY DEF FinishedMatches
<1>2. IsLLPool(matches, MatchRecord)
  BY DEF MatchesInv
<1>3. queueTime \in Seq(Nat) /\ IsInjective(queueTime) /\ ToSet(queueTime) = Entries(matches)
  BY DEF MatchesInv
<1>4. /\ IsLLPool(DropFinished, MatchRecord)
      /\ Entries(DropFinished) = Entries(matches) \ FinishedMatches
      /\ DropFinished.data = matches.data
  BY <1>1, <1>2, PoolRemove DEF DropFinished
<1>5. PICK queued : queued = Without(queueTime, FinishedMatches)
  OBVIOUS
<1>6. /\ queued \in Seq(Nat) /\ IsInjective(queued)
      /\ ToSet(queued) = Entries(matches) \ FinishedMatches
  BY <1>3, <1>5, WithoutSet
<1>7. QED
  BY <1>4, <1>5, <1>6

(* Going to the back of a queue changes its order, not who is in it.       *)
LEMMA GoesToTheBack ==
  ASSUME NEW X, NEW order \in Seq(X), IsInjective(order), NEW a \in X
  PROVE  /\ ToBack(order, a) \in Seq(X) /\ IsInjective(ToBack(order, a))
         /\ ToSet(ToBack(order, a)) = ToSet(order) \cup {a}
         /\ \A x \in ToSet(order) \ {a} : Before(ToBack(order, a), x, a)
         /\ \A x, y : x # a /\ y # a /\ Before(order, x, y) => Before(ToBack(order, a), x, y)
<1>1. PICK rest : rest = Without(order, {a})
  OBVIOUS
<1>2. /\ rest \in Seq(X) /\ ToSet(rest) = ToSet(order) \ {a} /\ IsInjective(rest)
      /\ \A x, y : x # a /\ y # a /\ InOrder(order, x, y) => InOrder(rest, x, y)
  BY <1>1, WithoutSet
<1>3. PICK back : back = Append(rest, a)
  OBVIOUS
<1>4. /\ back \in Seq(X) /\ ToSet(back) = ToSet(rest) \cup {a} /\ IsInjective(back)
      /\ \A x \in ToSet(rest) : InOrder(back, x, a)
      /\ \A x, y : InOrder(rest, x, y) => InOrder(back, x, y)
  BY <1>2, <1>3, AppendedLast
<1>5. ToBack(order, a) = back
  BY <1>1, <1>3 DEF ToBack
<1>6. \A s, x, y : Before(s, x, y) = InOrder(s, x, y)
  BY DEF Before, InOrder
<1>7. QED
  BY <1>2, <1>4, <1>5, <1>6

(* A request is queued in an entry of its own.                             *)
LEMMA MatchQueued ==
  ASSUME NetInv, ConnsInv, MatchesInv, NEW c, RunMatches(c)
  PROVE  /\ MatchesInv'
         /\ \E e \in Nat : \E u \in Users, r \in Requests :
              /\ e = NextEntry(matches)
              /\ e \notin Entries(matches) /\ Entries(matches)' = Entries(matches) \cup {e}
              /\ conns.data[c].user = {u} /\ conns.data[c].status = "okay"
              /\ matches'.data[e] = Match(u, r, c)
              /\ parseMatchSpec(r)
              /\ \A d \in DOMAIN matches.data :
                   /\ d \in DOMAIN matches'.data
                   /\ d # e => matches'.data[d] = matches.data[d]
<1>1. PICK r \in Requests, u \in conns.data[c].user :
        /\ LineRead(c, [type |-> "runMatches", request |-> r]) /\ parseMatchSpec(r)
        /\ conns.data[c].status = "okay"
        /\ matches' = LLPoolAddItem(matches, Match(u, r, c))
        /\ queueTime' = Append(queueTime, NextEntry(matches))
        /\ waitStart' = waitStart
  BY DEF RunMatches
<1>2. c \in Entries(conns) /\ c \in DOMAIN conns.data /\ conns.data[c] \in ConnectionType
  BY <1>1, LineFacts, ConnOf
<1>3. c \in Nat
  BY <1>2, PoolFacts DEF ConnsInv
<1>4. u \in Users /\ conns.data[c].user = {u}
  BY <1>1, <1>2 DEF ConnectionType
<1>5. PICK m : m = Match(u, r, c)
  OBVIOUS
<1>6. m \in MatchRecord
  <2>1. /\ r.game \in Games /\ r.numRuns \in Int /\ r.numRuns >= 0
        /\ r.numRuns <= maxMatchRuns[r.game]
    BY <1>1, RequestsAssumption DEF parseMatchSpec
  <2>2. PICK players : players = [p \in DOMAIN r.local |-> IF r.local[p] THEN c ELSE Bot]
    OBVIOUS
  <2>3. players \in Seats
    BY <1>3, <2>2 DEF Seats, Bot
  <2>4. m = [gameConf |-> r.game, user |-> u, numRuns |-> r.numRuns, players |-> players,
             isRunning |-> FALSE]
    BY <1>5, <2>2 DEF Match
  <2>5. r.numRuns \in Nat
    BY <2>1
  <2>6. QED
    BY <1>4, <2>1, <2>3, <2>4, <2>5 DEF MatchRecord
<1>7. PICK e : e = NextEntry(matches)
  OBVIOUS
<1>8. /\ IsLLPool(matches', MatchRecord)
      /\ e \notin Entries(matches) /\ e \in Nat
      /\ Entries(matches') = Entries(matches) \cup {e}
      /\ DOMAIN matches'.data = DOMAIN matches.data \cup {e}
      /\ matches'.data[e] = m
      /\ \A d \in DOMAIN matches.data : d # e => matches'.data[d] = matches.data[d]
  <2>1. IsLLPool(matches, MatchRecord) /\ matches' = LLPoolAddItem(matches, m)
    BY <1>1, <1>5 DEF MatchesInv
  <2>2. QED
    BY <1>6, <1>7, <2>1, PoolAdd
<1>9. /\ queueTime' \in Seq(Nat) /\ IsInjective(queueTime')
      /\ ToSet(queueTime') = Entries(matches')
  <2>1. queueTime \in Seq(Nat) /\ IsInjective(queueTime) /\ ToSet(queueTime) = Entries(matches)
    BY DEF MatchesInv
  <2>2. queueTime' = Append(queueTime, e)
    BY <1>1, <1>7
  <2>3. QED
    BY <1>8, <2>1, <2>2, AppendedLast
<1>10. MatchesInv'
  BY <1>1, <1>8, <1>9 DEF MatchesInv
<1>11. QED
  BY <1>1, <1>4, <1>5, <1>7, <1>8, <1>10

(* A closed connection ends the runs of the matches that rely on it.       *)
LEMMA MatchesGivenUp ==
  ASSUME MatchesInv, NEW c, closeConnection(c)
  PROVE  /\ MatchesInv'
         /\ Entries(matches)' = Entries(matches)
         /\ DOMAIN matches'.data = DOMAIN matches.data
         /\ \A e \in DOMAIN matches.data :
              matches'.data[e] =
                IF e \in Entries(matches) /\ matchUsesConnection(matches.data[e], c)
                  THEN [matches.data[e] EXCEPT !.numRuns = 0] ELSE matches.data[e]
<1> DEFINE D == DOMAIN matches.data
           New(e) == IF e \in Entries(matches) /\ matchUsesConnection(matches.data[e], c)
                       THEN [matches.data[e] EXCEPT !.numRuns = 0] ELSE matches.data[e]
<1>1. /\ matches' = [matches EXCEPT !.data = [e \in DOMAIN @ |-> New(e)]]
      /\ queueTime' = queueTime /\ waitStart' = waitStart
  BY DEF closeConnection
<1>2. IsLLPool(matches, MatchRecord)
  BY DEF MatchesInv
<1>3. PICK data : data = [e \in D |-> New(e)]
  OBVIOUS
<1>4. matches' = [matches EXCEPT !.data = data]
  <2>1. matches = [x \in {"head", "free", "data"} |-> matches[x]]
    BY <1>2, PoolShape
  <2>2. QED
    BY <1>1, <1>3, <2>1
<1>5. \A e \in D : New(e) \in MatchRecord
  <2>1. SUFFICES ASSUME NEW e \in D PROVE New(e) \in MatchRecord
    OBVIOUS
  <2>2. PICK m : m = matches.data[e]
    OBVIOUS
  <2>3. m \in MatchRecord
    BY <2>2, MatchFacts
  <2>4. maxMatchRuns[m.gameConf] \in Nat
    BY <2>3, LimitsAssumption DEF MatchRecord
  <2>5. [m EXCEPT !.numRuns = 0] \in MatchRecord
    BY <2>3, <2>4 DEF MatchRecord
  <2>6. QED
    BY <2>2, <2>3, <2>5
<1>6. /\ DOMAIN data = D /\ \A e \in D : data[e] = New(e) /\ data[e] \in MatchRecord
      /\ data = [e \in DOMAIN data |-> data[e]]
  BY <1>3, <1>5
<1> HIDE DEF New
<1>7. /\ IsLLPool(matches', MatchRecord) /\ matches'.data = data
      /\ Entries(matches') = Entries(matches)
  BY <1>2, <1>4, <1>6, PoolUpdate
<1>8. MatchesInv'
  BY <1>1, <1>7 DEF MatchesInv
<1>9. QED
  BY <1>6, <1>7, <1>8 DEF New

(* A finished job frees its match.                                         *)
LEMMA MatchesFreed ==
  ASSUME MatchesInv, CleanUp
  PROVE  /\ MatchesInv'
         /\ Entries(matches)' = Entries(matches)
         /\ DOMAIN matches'.data = DOMAIN matches.data
         /\ \A e \in DOMAIN matches.data :
              matches'.data[e] =
                [matches.data[e] EXCEPT !.isRunning =
                   /\ matches.data[e].isRunning
                   /\ \A job \in Entries(jobs) : jobs.data[job].ended =>
                        jobs.data[job].matchEntry # e]
<1> DEFINE D == DOMAIN matches.data
           finished == {job \in Entries(jobs) : checkIfJobFinished(jobs.data[job])}
           Still(e) == /\ matches.data[e].isRunning
                       /\ \A job \in finished : jobs.data[job].matchEntry # e
           New(e) == [matches.data[e] EXCEPT !.isRunning = Still(e)]
<1>1. /\ matches' = [matches EXCEPT !.data = [e \in DOMAIN @ |-> Freed(e, finished)]]
      /\ queueTime' = queueTime /\ waitStart' = waitStart
  BY DEF CleanUp
<1>2. IsLLPool(matches, MatchRecord)
  BY DEF MatchesInv
<1>3. PICK data : data = [e \in D |-> New(e)]
  OBVIOUS
<1>4. matches' = [matches EXCEPT !.data = data]
  <2>1. matches = [x \in {"head", "free", "data"} |-> matches[x]]
    BY <1>2, PoolShape
  <2>2. \A e \in D : New(e) = Freed(e, finished)
    BY DEF Freed
  <2> HIDE DEF New
  <2>3. QED
    BY <1>1, <1>3, <2>1, <2>2
<1>5. \A e \in D : New(e) \in MatchRecord
  <2>1. SUFFICES ASSUME NEW e \in D PROVE New(e) \in MatchRecord
    OBVIOUS
  <2>2. PICK m : m = matches.data[e]
    OBVIOUS
  <2>3. m \in MatchRecord
    BY <2>2, MatchFacts
  <2>4. PICK b \in BOOLEAN : b = Still(e)
    OBVIOUS
  <2>5. [m EXCEPT !.isRunning = b] \in MatchRecord
    BY <2>3 DEF MatchRecord
  <2>6. QED
    BY <2>2, <2>4, <2>5
<1>6. /\ DOMAIN data = D /\ \A e \in D : data[e] = New(e) /\ data[e] \in MatchRecord
      /\ data = [e \in DOMAIN data |-> data[e]]
  BY <1>3, <1>5
<1> HIDE DEF New
<1>7. /\ IsLLPool(matches', MatchRecord) /\ matches'.data = data
      /\ Entries(matches') = Entries(matches)
  BY <1>2, <1>4, <1>6, PoolUpdate
<1>8. MatchesInv'
  BY <1>1, <1>7 DEF MatchesInv
<1>9. \A e \in D : Still(e) = /\ matches.data[e].isRunning
                              /\ \A job \in Entries(jobs) : jobs.data[job].ended =>
                                   jobs.data[job].matchEntry # e
  BY DEF checkIfJobFinished
<1>10. QED
  BY <1>6, <1>7, <1>8, <1>9 DEF New

(* The run of e is started: what else that changes.                        *)
StartsRun(e) ==
  /\ e \in RunnableMatches /\ e \in Entries(matches) \ FinishedMatches
  /\ Best(e) /\ BotsFit(matches.data[e])
  /\ Entries(matches)' = Entries(matches) \ FinishedMatches
  /\ DOMAIN matches'.data = DOMAIN matches.data
  /\ matches'.data[e] = RunStarted(matches.data[e])
  /\ \A d \in DOMAIN matches.data : d # e => matches'.data[d] = matches.data[d]
  /\ \E job \in runMatchJob(e) : jobs' = LLPoolAddItem(jobs, job)
  /\ curRunningJobs' = [curRunningJobs EXCEPT ![matches.data[e].gameConf] = @ + 1]
  /\ waitStart' = ToBack(waitStart, matches.data[e].user)

LEMMA RunStarts ==
  ASSUME MatchesInv, StartMatchJob
  PROVE  MatchesInv' /\ \E e : StartsRun(e)
<1>1. PICK e \in RunnableMatches :
        /\ Best(e) /\ BotsFit(matches.data[e])
        /\ \E job \in runMatchJob(e) : jobs' = LLPoolAddItem(jobs, job)
        /\ matches' = [DropFinished EXCEPT !.data[e] = RunStarted(@)]
        /\ curRunningJobs' = [curRunningJobs EXCEPT ![matches.data[e].gameConf] = @ + 1]
        /\ waitStart' = ToBack(waitStart, matches.data[e].user)
        /\ queueTime' = ToBack(Without(queueTime, FinishedMatches), e)
  BY DEF StartMatchJob
<1>2. /\ e \in Entries(matches) /\ ~matches.data[e].isRunning
      /\ matches.data[e].numRuns > 0 /\ e \in DOMAIN matches.data
  BY MatchesInUse DEF RunnableMatches, Runnable
<1>3. e \notin FinishedMatches
  BY <1>2, MatchFacts DEF FinishedMatches, Finished
<1>4. PICK old : old = matches.data[e]
  OBVIOUS
<1>5. PICK m : m = RunStarted(matches.data[e])
  OBVIOUS
<1>6. old \in MatchRecord /\ m = [old EXCEPT !.isRunning = TRUE, !.numRuns = old.numRuns - 1]
  BY <1>2, <1>4, <1>5, MatchFacts DEF RunStarted
<1>7. m \in MatchRecord
  <2>1. PICK k \in Nat : k = old.numRuns - 1 /\ k <= maxMatchRuns[old.gameConf]
    <3>1. old.numRuns \in Nat /\ old.numRuns > 0 /\ old.numRuns <= maxMatchRuns[old.gameConf]
      BY <1>2, <1>4, MatchFacts
    <3>2. maxMatchRuns[old.gameConf] \in Nat
      BY <1>2, <1>4, MatchFacts, LimitsAssumption
    <3>3. QED
      BY <3>1, <3>2
  <2>2. m = [old EXCEPT !.isRunning = TRUE, !.numRuns = k]
    BY <1>6, <2>1
  <2>3. QED
    BY <1>6, <2>1, <2>2 DEF MatchRecord
<1>8. /\ IsLLPool(DropFinished, MatchRecord)
      /\ Entries(DropFinished) = Entries(matches) \ FinishedMatches
      /\ DropFinished.data = matches.data
  BY FinishedDropped
<1>9. PICK pool : pool = DropFinished
  OBVIOUS
<1>10. matches' = [pool EXCEPT !.data[e] = m]
  BY <1>1, <1>5, <1>8, <1>9
<1>11. /\ IsLLPool(matches', MatchRecord)
       /\ Entries(matches') = Entries(matches) \ FinishedMatches
       /\ DOMAIN matches'.data = DOMAIN matches.data
       /\ matches'.data[e] = m
       /\ \A d \in DOMAIN matches.data : d # e => matches'.data[d] = matches.data[d]
  BY <1>2, <1>7, <1>8, <1>9, <1>10, PoolReplace
<1>12. PICK queued : queued = Without(queueTime, FinishedMatches)
  OBVIOUS
<1>13. /\ queued \in Seq(Nat) /\ IsInjective(queued)
       /\ ToSet(queued) = Entries(matches) \ FinishedMatches
  BY <1>12, FinishedDropped
<1>14. /\ queueTime' \in Seq(Nat) /\ IsInjective(queueTime')
       /\ ToSet(queueTime') = Entries(matches')
  <2>1. e \in Nat
    BY <1>2, PoolFacts DEF MatchesInv
  <2>2. queueTime' = ToBack(queued, e)
    BY <1>1, <1>12
  <2>3. QED
    BY <1>2, <1>3, <1>11, <1>13, <2>1, <2>2, GoesToTheBack
<1>15. /\ waitStart' \in Seq(Users) /\ IsInjective(waitStart') /\ ToSet(waitStart') = Users
  <2>1. PICK u \in Users : u = matches.data[e].user
    BY <1>2, MatchFacts
  <2>2. waitStart \in Seq(Users) /\ IsInjective(waitStart) /\ ToSet(waitStart) = Users
    BY DEF MatchesInv
  <2>3. PICK back : back = ToBack(waitStart, u)
    OBVIOUS
  <2>4. waitStart' = back
    BY <1>1, <2>1, <2>3
  <2>5. back \in Seq(Users) /\ IsInjective(back) /\ ToSet(back) = Users \cup {u}
    BY <2>2, <2>3, GoesToTheBack
  <2>6. QED
    BY <2>4, <2>5
<1>16. MatchesInv'
  BY <1>11, <1>14, <1>15 DEF MatchesInv
<1>17. StartsRun(e)
  BY <1>1, <1>2, <1>3, <1>5, <1>11 DEF StartsRun
<1>18. QED
  BY <1>16, <1>17

LEMMA NothingStarts ==
  ASSUME MatchesInv, NothingToStart
  PROVE  /\ MatchesInv'
         /\ Entries(matches)' = Entries(matches) \ FinishedMatches
         /\ matches'.data = matches.data
<1>1. /\ matches' = DropFinished /\ waitStart' = waitStart
      /\ queueTime' = Without(queueTime, FinishedMatches)
  BY DEF NothingToStart
<1>2. PICK queued : queued = Without(queueTime, FinishedMatches)
  OBVIOUS
<1>3. /\ queued \in Seq(Nat) /\ IsInjective(queued)
      /\ ToSet(queued) = Entries(matches) \ FinishedMatches
  BY <1>2, FinishedDropped
<1>4. /\ IsLLPool(matches', MatchRecord)
      /\ Entries(matches') = Entries(matches) \ FinishedMatches
      /\ matches'.data = matches.data
  BY <1>1, FinishedDropped
<1>5. MatchesInv'
  BY <1>1, <1>2, <1>3, <1>4 DEF MatchesInv
<1>6. QED
  BY <1>4, <1>5

-----------------------------------------------------------------------------
(* Jobs and bots                                                           *)

LEMMA BotsFinite ==
  ASSUME MatchesInv, NEW e \in DOMAIN matches.data
  PROVE  IsFiniteSet(BotSeats(matches.data[e])) /\ botsInMatch(matches.data[e]) \in Nat
<1>1. matches.data[e] \in MatchRecord
  BY MatchFacts
<1>2. matches.data[e].players \in Seats
  BY <1>1 DEF MatchRecord
<1>3. PICK r \in Requests : matches.data[e].players \in [DOMAIN r.local -> Nat]
  BY <1>2 DEF Seats
<1>4. DOMAIN matches.data[e].players = DOMAIN r.local /\ IsFiniteSet(DOMAIN r.local)
  BY <1>3, RequestsAssumption
<1>5. BotSeats(matches.data[e]) \in SUBSET (DOMAIN r.local)
  BY <1>4 DEF BotSeats
<1>6. IsFiniteSet(BotSeats(matches.data[e]))
  BY <1>4, <1>5, FS_Subset
<1>7. QED
  BY <1>6, FS_CardinalityType DEF botsInMatch

Bots == UNION {BotsOf(job) : job \in Entries(jobs)}

LEMMA JobFacts ==
  ASSUME JobsInv, NEW j \in Entries(jobs)
  PROVE  /\ j \in DOMAIN jobs.data /\ jobs.data[j] \in JobRecord
         /\ jobs.data[j].matchEntry \in Entries(matches)
         /\ MatchOf(j).isRunning
         /\ \A k \in Entries(jobs) : jobs.data[j].matchEntry = jobs.data[k].matchEntry => j = k
BY PoolFacts DEF JobsInv, MatchOf

LEMMA JobsFinite ==
  ASSUME MatchesInv, JobsInv
  PROVE  /\ IsFiniteSet(Entries(jobs)) /\ IsFiniteSet(Bots) /\ RunningBots \in Nat
         /\ \A g : IsFiniteSet(JobsOf(g)) /\ Cardinality(JobsOf(g)) \in Nat
<1>1. IsFiniteSet(Entries(jobs))
  BY PoolFacts DEF JobsInv
<1>2. \A j \in Entries(jobs) : IsFiniteSet(BotsOf(j))
  <2>1. TAKE j \in Entries(jobs)
  <2>2. PICK e \in DOMAIN matches.data : e = jobs.data[j].matchEntry
    BY JobFacts, MatchesInUse
  <2>3. BotsOf(j) = {j} \X BotSeats(matches.data[e])
    BY <2>2 DEF BotsOf, MatchOf
  <2>4. IsFiniteSet({j}) /\ IsFiniteSet(BotSeats(matches.data[e]))
    BY BotsFinite, FS_Singleton
  <2>5. QED
    BY <2>3, <2>4, FS_Product
<1>3. IsFiniteSet({BotsOf(job) : job \in Entries(jobs)})
  <2> DEFINE f == [job \in Entries(jobs) |-> BotsOf(job)]
  <2>1. f \in Surjection(Entries(jobs), {BotsOf(job) : job \in Entries(jobs)})
    BY DEF Surjection
  <2>2. QED
    BY <1>1, <2>1, FS_Surjection
<1>4. IsFiniteSet(Bots)
  BY <1>2, <1>3, FS_UNION DEF Bots
<1>5. \A g : JobsOf(g) \in SUBSET Entries(jobs)
  BY DEF JobsOf
<1>6. \A g : IsFiniteSet(JobsOf(g)) /\ Cardinality(JobsOf(g)) \in Nat
  BY <1>1, <1>5, FS_Subset, FS_CardinalityType
<1>7. RunningBots \in Nat
  BY <1>4, FS_CardinalityType DEF RunningBots, Bots
<1>8. QED
  BY <1>1, <1>4, <1>6, <1>7

(* The limits, in the words of JobsInv.                                    *)
LEMMA Limits ==
  LimitsHold <=> /\ \A g \in Games : maxRunningJobs[g] # 0 =>
                      Cardinality(JobsOf(g)) <= maxRunningJobs[g]
                 /\ maxRunningBots # 0 => RunningBots <= maxRunningBots
BY DEF LimitsHold, JobsOf

(* What runs is left alone: the jobs, and the matches they belong to.      *)
JobsRunOn ==
  /\ jobs' = jobs /\ curRunningJobs' = curRunningJobs
  /\ DOMAIN matches.data \subseteq DOMAIN matches'.data
  /\ \A e \in Entries(matches) : matches.data[e].isRunning =>
       /\ e \in Entries(matches')
       /\ matches'.data[e].isRunning
       /\ matches'.data[e].gameConf = matches.data[e].gameConf
       /\ matches'.data[e].players = matches.data[e].players
  /\ \A e \in Entries(matches') : matches'.data[e].isRunning =>
       e \in Entries(matches) /\ matches.data[e].isRunning

LEMMA JobsKept ==
  ASSUME JobsInv, LimitsHold, JobsRunOn
  PROVE  JobsInv' /\ LimitsHold'
<1>1. jobs' = jobs /\ curRunningJobs' = curRunningJobs
  BY DEF JobsRunOn
<1>2. \A j \in Entries(jobs) : /\ MatchOf(j)'.gameConf = MatchOf(j).gameConf
                               /\ MatchOf(j)'.players = MatchOf(j).players
  BY <1>1, JobFacts DEF JobsRunOn, MatchOf
<1>3. \A g : JobsOf(g)' = JobsOf(g)
  BY <1>1, <1>2 DEF JobsOf
<1>4. RunningBots' = RunningBots
  <2>1. \A j \in Entries(jobs) : BotsOf(j)' = BotsOf(j)
    BY <1>2 DEF BotsOf, BotSeats
  <2>2. {BotsOf(j)' : j \in Entries(jobs)'} = {BotsOf(j) : j \in Entries(jobs)}
    BY <1>1, <2>1
  <2>3. QED
    BY <2>2 DEF RunningBots
<1>5. LimitsHold'
  BY <1>3, <1>4, Limits DEF LimitsHold, JobsOf
<1>6. JobsInv'
  BY <1>1, <1>3, JobFacts DEF JobsInv, JobsRunOn
<1>7. QED
  BY <1>5, <1>6

(* One more job, and the bots it brings with it.                           *)
LEMMA JobAdded ==
  ASSUME MatchesInv, JobsInv, LimitsHold, NEW e, StartsRun(e)
  PROVE  JobsInv' /\ LimitsHold'
<1> DEFINE old == matches.data[e]
           g0 == old.gameConf
<1>1. /\ e \in Entries(matches) /\ e \notin FinishedMatches /\ e \in DOMAIN matches.data
      /\ ~old.isRunning /\ ~GameIsBusy(g0) /\ BotsFit(old)
      /\ old \in MatchRecord
  BY MatchesInUse, MatchFacts DEF StartsRun, RunnableMatches, Runnable
<1>2. PICK job \in runMatchJob(e) : jobs' = LLPoolAddItem(jobs, job)
  BY DEF StartsRun
<1>3. job \in JobRecord /\ job.matchEntry = e
  <2>1. e \in Nat
    BY <1>1, PoolFacts DEF MatchesInv
  <2>2. PICK failed \in BOOLEAN : job = [matchEntry |-> e, aborted |-> failed, ended |-> FALSE]
    BY DEF runMatchJob
  <2>3. QED
    BY <2>1, <2>2 DEF JobRecord
<1>4. PICK n : n = NextEntry(jobs)
  OBVIOUS
<1>5. /\ IsLLPool(jobs', JobRecord)
      /\ n \notin Entries(jobs)
      /\ Entries(jobs') = Entries(jobs) \cup {n}
      /\ DOMAIN jobs'.data = DOMAIN jobs.data \cup {n}
      /\ jobs'.data[n] = job
      /\ \A j \in DOMAIN jobs.data : j # n => jobs'.data[j] = jobs.data[j]
  <2>1. IsLLPool(jobs, JobRecord)
    BY DEF JobsInv
  <2>2. QED
    BY <1>2, <1>3, <1>4, <2>1, PoolAdd
<1>6. /\ matches'.data[e].isRunning /\ matches'.data[e].gameConf = g0
      /\ matches'.data[e].players = old.players
      /\ e \in Entries(matches')
  <2>1. matches'.data[e] = RunStarted(old)
    BY DEF StartsRun
  <2>2. \A m \in MatchRecord : /\ RunStarted(m).isRunning
                               /\ RunStarted(m).gameConf = m.gameConf
                               /\ RunStarted(m).players = m.players
    BY DEF RunStarted, MatchRecord
  <2>3. QED
    BY <1>1, <2>1, <2>2 DEF StartsRun
<1>7. \A j \in Entries(jobs) :
        /\ j \in DOMAIN jobs.data /\ j # n /\ jobs'.data[j] = jobs.data[j]
        /\ jobs.data[j].matchEntry # e
        /\ jobs.data[j].matchEntry \in Entries(matches')
        /\ MatchOf(j)' = MatchOf(j)
  <2>1. TAKE j \in Entries(jobs)
  <2>2. /\ j \in DOMAIN jobs.data /\ jobs.data[j].matchEntry \in Entries(matches)
        /\ MatchOf(j).isRunning
    BY JobFacts
  <2>3. j # n /\ jobs'.data[j] = jobs.data[j]
    BY <1>5, <2>2
  <2>4. jobs.data[j].matchEntry # e
    BY <1>1, <2>2 DEF MatchOf
  <2>5. jobs.data[j].matchEntry \notin FinishedMatches
    BY <2>2 DEF FinishedMatches, Finished, MatchOf
  <2>6. jobs.data[j].matchEntry \in Entries(matches')
    BY <2>2, <2>5 DEF StartsRun
  <2>7. MatchOf(j)' = MatchOf(j)
    BY <2>2, <2>3, <2>4, MatchesInUse DEF MatchOf, StartsRun
  <2>8. QED
    BY <2>2, <2>3, <2>4, <2>6, <2>7
<1>8. MatchOf(n)'.gameConf = g0 /\ BotSeats(MatchOf(n)') = BotSeats(old)
  BY <1>3, <1>5, <1>6 DEF MatchOf, BotSeats
<1> HIDE DEF g0
<1>9. \A g : JobsOf(g)' = IF g = g0 THEN JobsOf(g) \cup {n} ELSE JobsOf(g)
  BY <1>5, <1>7, <1>8 DEF JobsOf
<1>10. \A g : /\ IsFiniteSet(JobsOf(g)) /\ Cardinality(JobsOf(g)) \in Nat /\ n \notin JobsOf(g)
              /\ Cardinality(JobsOf(g) \cup {n}) = Cardinality(JobsOf(g)) + 1
  <2>1. TAKE g
  <2>2. IsFiniteSet(JobsOf(g)) /\ Cardinality(JobsOf(g)) \in Nat
    BY JobsFinite
  <2>3. n \notin JobsOf(g)
    BY <1>5 DEF JobsOf
  <2>4. QED
    BY <2>2, <2>3, FS_AddElement
<1>11. g0 \in Games
  BY <1>1 DEF MatchRecord, g0
<1>12. \A g : Cardinality(JobsOf(g)') = IF g = g0 THEN Cardinality(JobsOf(g)) + 1
                                                 ELSE Cardinality(JobsOf(g))
  BY <1>9, <1>10
<1>13. curRunningJobs \in [Games -> Nat] /\ \A g \in Games : curRunningJobs[g] = Cardinality(JobsOf(g))
  BY DEF JobsInv
<1>14. curRunningJobs' = [curRunningJobs EXCEPT ![g0] = @ + 1]
  BY DEF StartsRun, g0
<1>15. JobsInv'
  <2>1. /\ curRunningJobs' \in [Games -> Nat]
        /\ \A g \in Games : curRunningJobs'[g] = Cardinality(JobsOf(g)')
    BY <1>11, <1>12, <1>13, <1>14
  <2>2. \A j \in DOMAIN jobs'.data : jobs'.data[j].matchEntry \in DOMAIN matches'.data
    <3>1. DOMAIN matches'.data = DOMAIN matches.data
      BY DEF StartsRun
    <3>2. QED
      BY <1>1, <1>3, <1>5, <3>1 DEF JobsInv
  <2>3. \A j \in Entries(jobs') : /\ jobs'.data[j].matchEntry \in Entries(matches')
                                  /\ matches'.data[jobs'.data[j].matchEntry].isRunning
    <3>1. \A j \in Entries(jobs) : matches'.data[jobs'.data[j].matchEntry].isRunning
      BY <1>7, JobFacts DEF MatchOf
    <3>2. QED
      BY <1>3, <1>5, <1>6, <1>7, <3>1
  <2>4. \A j, k \in Entries(jobs') :
          jobs'.data[j].matchEntry = jobs'.data[k].matchEntry => j = k
    BY <1>3, <1>5, <1>7, JobFacts
  <2>5. \A d \in Entries(matches') : matches'.data[d].isRunning =>
          \E j \in Entries(jobs') : jobs'.data[j].matchEntry = d
    <3>1. SUFFICES ASSUME NEW d \in Entries(matches'), matches'.data[d].isRunning, d # e
                   PROVE  \E j \in Entries(jobs') : jobs'.data[j].matchEntry = d
      BY <1>3, <1>5
    <3>2. d \in Entries(matches) /\ matches'.data[d] = matches.data[d]
      BY <3>1, MatchesInUse DEF StartsRun
    <3>3. PICK j \in Entries(jobs) : jobs.data[j].matchEntry = d
      BY <3>1, <3>2 DEF JobsInv
    <3>4. QED
      BY <1>5, <1>7, <3>3
  <2>6. QED
    BY <1>5, <2>1, <2>2, <2>3, <2>4, <2>5 DEF JobsInv
<1>16. \A g \in Games : maxRunningJobs[g] # 0 => Cardinality(JobsOf(g)') <= maxRunningJobs[g]
  <2>1. maxRunningJobs[g0] \in Nat
    BY <1>11, LimitsAssumption
  <2>2. maxRunningJobs[g0] # 0 => curRunningJobs[g0] < maxRunningJobs[g0]
    BY <1>1, <1>11, <1>13, <2>1 DEF GameIsBusy, g0
  <2>3. maxRunningJobs[g0] # 0 => Cardinality(JobsOf(g0)) + 1 <= maxRunningJobs[g0]
    BY <1>10, <1>11, <1>13, <2>1, <2>2
  <2>4. QED
    BY <1>12, <2>3, Limits
<1>17. RunningBots' = RunningBots + botsInMatch(old)
  <2> DEFINE more == BotsOf(n)'
  <2>1. more = {n} \X BotSeats(old)
    BY <1>8 DEF BotsOf
  <2>2. Bots' = Bots \cup more
    <3>1. \A j \in Entries(jobs) : BotsOf(j)' = BotsOf(j)
      BY <1>7 DEF BotsOf
    <3>2. Bots' = UNION {BotsOf(j)' : j \in Entries(jobs')}
      BY DEF Bots
    <3>3. QED
      BY <1>5, <3>1, <3>2 DEF Bots
  <2>3. Bots \cap more = {}
    <3>1. \A b \in Bots : b[1] \in Entries(jobs)
      BY DEF Bots, BotsOf
    <3>2. \A b \in more : b[1] = n
      BY <2>1
    <3>3. QED
      BY <1>5, <3>1, <3>2
  <2>4. IsFiniteSet(more) /\ Cardinality(more) = botsInMatch(old)
    <3>1. IsFiniteSet(BotSeats(old)) /\ botsInMatch(old) \in Nat
      BY <1>1, BotsFinite
    <3>2. IsFiniteSet({n}) /\ Cardinality({n}) = 1
      BY FS_Singleton
    <3>3. IsFiniteSet(more) /\ Cardinality(more) = 1 * botsInMatch(old)
      BY <2>1, <3>1, <3>2, FS_Product DEF botsInMatch
    <3>4. QED
      BY <3>1, <3>3
  <2> HIDE DEF more
  <2>5. Cardinality(Bots \cup more)
          = Cardinality(Bots) + Cardinality(more) - Cardinality(Bots \cap more)
    BY <2>4, JobsFinite, FS_Union
  <2>6. Cardinality(Bots) \in Nat /\ Cardinality(more) \in Nat /\ Cardinality({}) = 0
    BY <2>4, JobsFinite, FS_CardinalityType, FS_EmptySet
  <2>7. Cardinality(Bots') = Cardinality(Bots) + botsInMatch(old)
    <3>1. Cardinality(Bots') = Cardinality(Bots \cup more)
      BY <2>2
    <3>2. Cardinality(Bots \cap more) = 0
      BY <2>3, <2>6
    <3>3. PICK x \in Nat, y \in Nat : x = Cardinality(Bots) /\ y = Cardinality(more)
      BY <2>6
    <3>4. QED
      BY <3>1, <3>2, <3>3, <2>4, <2>5
  <2>8. RunningBots = Cardinality(Bots)
    BY DEF RunningBots, Bots
  <2>9. RunningBots' = Cardinality(Bots')
    BY DEF RunningBots, Bots
  <2>10. QED
    BY <2>7, <2>8, <2>9
<1>18. maxRunningBots # 0 => RunningBots' <= maxRunningBots
  <2>1. RunningBots \in Nat /\ botsInMatch(old) \in Nat
    BY <1>1, JobsFinite, BotsFinite
  <2>2. maxRunningBots # 0 => botsInMatch(old) + RunningBots <= maxRunningBots
    BY <1>1 DEF BotsFit
  <2>3. QED
    BY <1>17, <2>1, <2>2, LimitsAssumption
<1>19. LimitsHold'
  BY <1>16, <1>18 DEF LimitsHold, JobsOf
<1>20. QED
  BY <1>15, <1>19

(* Finished jobs are removed, and their matches counted down.              *)
LEMMA JobsRemoved ==
  ASSUME MatchesInv, JobsInv, LimitsHold, CleanUp
  PROVE  /\ JobsInv' /\ LimitsHold'
         /\ \A e \in Entries(matches) :
              matches'.data[e].isRunning => matches.data[e].isRunning
<1> DEFINE finished == {j \in Entries(jobs) : checkIfJobFinished(jobs.data[j])}
           over(g) == {j \in finished : MatchOf(j).gameConf = g}
<1>1. /\ jobs' = RemoveAll(jobs, finished)
      /\ curRunningJobs' = [g \in Games |-> JobsLeft(g, finished)]
  BY DEF CleanUp
<1>2. \A j \in Entries(jobs) : jobs.data[j].ended <=> j \in finished
  BY DEF checkIfJobFinished
<1>3. finished \subseteq Entries(jobs)
  OBVIOUS
<1>4. \A g : /\ over(g) = finished \cap JobsOf(g)
             /\ JobsLeft(g, finished) = curRunningJobs[g] - Cardinality(over(g))
  BY DEF JobsOf, JobsLeft
<1> HIDE DEF finished, over
<1>5. /\ IsLLPool(jobs', JobRecord) /\ Entries(jobs') = Entries(jobs) \ finished
      /\ jobs'.data = jobs.data
  <2>1. IsLLPool(jobs, JobRecord)
    BY DEF JobsInv
  <2>2. QED
    BY <1>1, <1>3, <2>1, PoolRemove
<1>6. /\ Entries(matches') = Entries(matches) /\ DOMAIN matches'.data = DOMAIN matches.data
      /\ \A e \in DOMAIN matches.data :
           /\ matches'.data[e].gameConf = matches.data[e].gameConf
           /\ matches'.data[e].players = matches.data[e].players
           /\ matches'.data[e].isRunning =
                (/\ matches.data[e].isRunning
                 /\ \A j \in finished : jobs.data[j].matchEntry # e)
  <2>1. \A m \in MatchRecord, b \in BOOLEAN :
          /\ [m EXCEPT !.isRunning = b].isRunning = b
          /\ [m EXCEPT !.isRunning = b].gameConf = m.gameConf
          /\ [m EXCEPT !.isRunning = b].players = m.players
    BY DEF MatchRecord
  <2>2. SUFFICES ASSUME NEW e \in DOMAIN matches.data
                 PROVE  /\ matches'.data[e].gameConf = matches.data[e].gameConf
                        /\ matches'.data[e].players = matches.data[e].players
                        /\ matches'.data[e].isRunning =
                             (/\ matches.data[e].isRunning
                              /\ \A j \in finished : jobs.data[j].matchEntry # e)
    BY MatchesFreed
  <2>3. PICK b \in BOOLEAN : b = (/\ matches.data[e].isRunning
                                  /\ \A j \in Entries(jobs) : jobs.data[j].ended =>
                                       jobs.data[j].matchEntry # e)
    OBVIOUS
  <2>4. matches'.data[e] = [matches.data[e] EXCEPT !.isRunning = b]
    BY <2>3, MatchesFreed
  <2>5. b = (/\ matches.data[e].isRunning
             /\ \A j \in finished : jobs.data[j].matchEntry # e)
    BY <1>2, <1>3, <2>3
  <2>6. QED
    BY <2>1, <2>4, <2>5, MatchFacts
<1>7. \A j \in Entries(jobs) : /\ jobs.data[j].matchEntry \in DOMAIN matches.data
                               /\ MatchOf(j)'.gameConf = MatchOf(j).gameConf
                               /\ MatchOf(j)'.players = MatchOf(j).players
  <2>1. TAKE j \in Entries(jobs)
  <2>2. PICK e \in DOMAIN matches.data : e = jobs.data[j].matchEntry
    BY JobFacts, MatchesInUse
  <2>3. MatchOf(j) = matches.data[e] /\ MatchOf(j)' = matches'.data[e]
    BY <1>5, <2>2 DEF MatchOf
  <2>4. QED
    BY <1>6, <2>2, <2>3
<1>8. \A g : JobsOf(g)' = JobsOf(g) \ finished
  BY <1>5, <1>7 DEF JobsOf
<1>9. \A g : /\ Cardinality(JobsOf(g) \ finished)
                  = Cardinality(JobsOf(g)) - Cardinality(over(g))
             /\ Cardinality(JobsOf(g) \ finished) \in Nat
             /\ Cardinality(JobsOf(g) \ finished) <= Cardinality(JobsOf(g))
             /\ Cardinality(JobsOf(g)) \in Nat
  <2>1. TAKE g
  <2>2. PICK of : of = JobsOf(g)
    OBVIOUS
  <2>3. IsFiniteSet(of) /\ Cardinality(of) \in Nat
    BY <2>2, JobsFinite
  <2>4. IsFiniteSet(of \ finished)
        /\ Cardinality(of \ finished) = Cardinality(of) - Cardinality(of \cap finished)
    BY <2>3, FS_Difference
  <2>5. Cardinality(of \ finished) \in Nat
    BY <2>4, FS_CardinalityType
  <2>6. of \ finished \in SUBSET of
    OBVIOUS
  <2>7. Cardinality(of \ finished) <= Cardinality(of)
    BY <2>3, <2>6, FS_Subset
  <2>8. of \cap finished = over(g)
    BY <1>4, <2>2
  <2>9. QED
    BY <2>2, <2>3, <2>4, <2>5, <2>7, <2>8
<1>10. curRunningJobs \in [Games -> Nat] /\ \A g \in Games : curRunningJobs[g] = Cardinality(JobsOf(g))
  BY DEF JobsInv
<1>11. \A g \in Games : curRunningJobs'[g] = Cardinality(JobsOf(g)')
  BY <1>1, <1>4, <1>8, <1>9, <1>10
<1>12. curRunningJobs' \in [Games -> Nat]
  <2>1. \A g \in Games : JobsLeft(g, finished) \in Nat
    BY <1>1, <1>8, <1>9, <1>11
  <2>2. QED
    BY <1>1, <2>1
<1>13. JobsInv'
  <2>1. \A j \in DOMAIN jobs'.data : jobs'.data[j].matchEntry \in DOMAIN matches'.data
    BY <1>5, <1>6 DEF JobsInv
  <2>2. \A j \in Entries(jobs') : /\ jobs'.data[j].matchEntry \in Entries(matches')
                                  /\ matches'.data[jobs'.data[j].matchEntry].isRunning
    <3>1. TAKE j \in Entries(jobs')
    <3>2. j \in Entries(jobs) /\ j \notin finished
      BY <1>5
    <3>3. PICK e : e = jobs.data[j].matchEntry
      OBVIOUS
    <3>4. e \in Entries(matches) /\ matches.data[e].isRunning
      BY <3>2, <3>3, JobFacts DEF MatchOf
    <3>5. \A k \in finished : jobs.data[k].matchEntry # e
      BY <1>3, <3>2, <3>3, JobFacts
    <3>6. QED
      BY <1>5, <1>6, <3>3, <3>4, <3>5, MatchesInUse
  <2>3. \A j, k \in Entries(jobs') :
          jobs'.data[j].matchEntry = jobs'.data[k].matchEntry => j = k
    BY <1>5, JobFacts
  <2>4. \A d \in Entries(matches') : matches'.data[d].isRunning =>
          \E j \in Entries(jobs') : jobs'.data[j].matchEntry = d
    <3>1. SUFFICES ASSUME NEW d \in Entries(matches), matches'.data[d].isRunning
                   PROVE  \E j \in Entries(jobs') : jobs'.data[j].matchEntry = d
      BY <1>6
    <3>2. matches.data[d].isRunning /\ \A j \in finished : jobs.data[j].matchEntry # d
      BY <1>6, <3>1, MatchesInUse
    <3>3. PICK j \in Entries(jobs) : jobs.data[j].matchEntry = d
      BY <3>2 DEF JobsInv
    <3>4. QED
      BY <1>5, <3>2, <3>3
  <2>5. QED
    BY <1>5, <1>11, <1>12, <2>1, <2>2, <2>3, <2>4 DEF JobsInv
<1>14. LimitsHold'
  <2>1. \A g \in Games : maxRunningJobs[g] # 0 => Cardinality(JobsOf(g)') <= maxRunningJobs[g]
    <3>1. TAKE g \in Games
    <3>2. maxRunningJobs[g] \in Nat
      BY LimitsAssumption
    <3>3. QED
      BY <1>8, <1>9, <3>2, Limits
  <2>2. RunningBots' \in Nat /\ RunningBots' <= RunningBots
    <3>1. \A j \in Entries(jobs') : BotsOf(j)' = BotsOf(j)
      BY <1>5, <1>7 DEF BotsOf, BotSeats
    <3>2. Bots' = UNION {BotsOf(j)' : j \in Entries(jobs')}
      BY DEF Bots
    <3>3. Bots' \in SUBSET Bots
      BY <1>5, <3>1, <3>2 DEF Bots
    <3>4. PICK after : after = Bots'
      OBVIOUS
    <3>5. IsFiniteSet(after) /\ Cardinality(after) <= Cardinality(Bots)
      BY <3>3, <3>4, JobsFinite, FS_Subset
    <3>6. RunningBots = Cardinality(Bots) /\ RunningBots' = Cardinality(after)
      BY <3>4 DEF RunningBots, Bots
    <3>7. QED
      BY <3>5, <3>6, FS_CardinalityType
  <2>3. maxRunningBots # 0 => RunningBots' <= maxRunningBots
    BY <2>2, Limits, JobsFinite, LimitsAssumption
  <2>4. QED
    BY <2>1, <2>3 DEF LimitsHold, JobsOf
<1>15. QED
  BY <1>6, <1>13, <1>14, MatchesInUse

(* The processes of a job end.                                             *)
LEMMA JobOver ==
  ASSUME JobsInv, LimitsHold, JobEnds
  PROVE  JobsInv' /\ LimitsHold'
<1>1. PICK n \in Entries(jobs) :
        /\ jobs' = [jobs EXCEPT !.data[n].ended = TRUE]
        /\ matches' = matches /\ curRunningJobs' = curRunningJobs
  BY DEF JobEnds
<1>2. n \in DOMAIN jobs.data /\ jobs.data[n] \in JobRecord
  BY JobFacts
<1>3. PICK item : item = [jobs.data[n] EXCEPT !.ended = TRUE]
  OBVIOUS
<1>4. item \in JobRecord /\ item.matchEntry = jobs.data[n].matchEntry
  <2>1. \A r \in JobRecord : /\ [r EXCEPT !.ended = TRUE] \in JobRecord
                             /\ [r EXCEPT !.ended = TRUE].matchEntry = r.matchEntry
    BY DEF JobRecord
  <2>2. QED
    BY <1>2, <1>3, <2>1
<1>5. IsLLPool(jobs, JobRecord)
  BY DEF JobsInv
<1>6. jobs' = [jobs EXCEPT !.data[n] = item]
  <2>1. jobs = [x \in {"head", "free", "data"} |-> jobs[x]]
    BY <1>5, PoolShape
  <2>2. QED
    BY <1>1, <1>2, <1>3, <2>1
<1>7. /\ IsLLPool(jobs', JobRecord) /\ Entries(jobs') = Entries(jobs)
      /\ DOMAIN jobs'.data = DOMAIN jobs.data
      /\ jobs'.data[n] = item
      /\ \A j \in DOMAIN jobs.data : j # n => jobs'.data[j] = jobs.data[j]
  BY <1>2, <1>4, <1>5, <1>6, PoolReplace
<1>8. \A j \in DOMAIN jobs.data : jobs'.data[j].matchEntry = jobs.data[j].matchEntry
  BY <1>4, <1>7
<1>9. \A j \in Entries(jobs) : MatchOf(j)' = MatchOf(j)
  BY <1>1, <1>8, JobFacts DEF MatchOf
<1>10. \A g : JobsOf(g)' = JobsOf(g)
  BY <1>7, <1>9 DEF JobsOf
<1>11. RunningBots' = RunningBots
  <2>1. \A j \in Entries(jobs) : BotsOf(j)' = BotsOf(j)
    BY <1>9 DEF BotsOf
  <2>2. {BotsOf(j)' : j \in Entries(jobs)'} = {BotsOf(j) : j \in Entries(jobs)}
    BY <1>7, <2>1
  <2>3. QED
    BY <2>2 DEF RunningBots
<1>12. LimitsHold'
  BY <1>10, <1>11, Limits DEF LimitsHold, JobsOf
<1>13. JobsInv'
  <2>1. \A j \in Entries(jobs) : jobs'.data[j].matchEntry = jobs.data[j].matchEntry
    BY <1>8, JobFacts
  <2>2. \A j, k \in Entries(jobs) :
          jobs'.data[j].matchEntry = jobs'.data[k].matchEntry => j = k
    BY <2>1, JobFacts
  <2>3. \A j \in DOMAIN jobs'.data : jobs'.data[j].matchEntry \in DOMAIN matches'.data
    BY <1>1, <1>7, <1>8 DEF JobsInv
  <2>4. \A j \in Entries(jobs) : /\ jobs'.data[j].matchEntry \in Entries(matches)
                                 /\ matches.data[jobs'.data[j].matchEntry].isRunning
    BY <2>1 DEF JobsInv
  <2>5. \A e \in Entries(matches) : matches.data[e].isRunning =>
          \E j \in Entries(jobs) : jobs'.data[j].matchEntry = e
    BY <2>1 DEF JobsInv
  <2>6. QED
    BY <1>1, <1>7, <1>10, <2>2, <2>3, <2>4, <2>5 DEF JobsInv
<1>14. QED
  BY <1>12, <1>13

-----------------------------------------------------------------------------
(* Every step keeps the invariant.                                         *)

(* Matches and jobs stay as they are.                                      *)
LEMMA NoMatchChanges ==
  ASSUME MatchesInv, JobsInv, LimitsHold,
         UNCHANGED <<matches, jobs, curRunningJobs, waitStart, queueTime>>
  PROVE  MatchesInv' /\ JobsInv' /\ LimitsHold'
<1>1. MatchesInv'
  BY DEF MatchesInv
<1>2. JobsRunOn
  BY DEF JobsRunOn
<1>3. QED
  BY <1>1, <1>2, JobsKept

LEMMA CloseKeepsInv ==
  ASSUME ServerInv, NEW c \in Entries(conns), closeConnection(c)
  PROVE  ServerInv'
<1>1. NetInv /\ ConnsInv /\ MatchesInv /\ JobsInv /\ LimitsHold
  BY DEF ServerInv
<1>2. NetInv' /\ ConnsInv'
  BY <1>1, ConnectionCloses
<1>3. /\ MatchesInv' /\ Entries(matches') = Entries(matches)
      /\ DOMAIN matches'.data = DOMAIN matches.data
      /\ \A e \in DOMAIN matches.data :
           /\ matches'.data[e].isRunning = matches.data[e].isRunning
           /\ matches'.data[e].gameConf = matches.data[e].gameConf
           /\ matches'.data[e].players = matches.data[e].players
  <2>1. \A m \in MatchRecord : LET n == [m EXCEPT !.numRuns = 0]
                               IN  /\ n.isRunning = m.isRunning /\ n.gameConf = m.gameConf
                                   /\ n.players = m.players
    BY DEF MatchRecord
  <2>2. QED
    BY <1>1, <2>1, MatchFacts, MatchesGivenUp
<1>4. JobsRunOn
  <2>1. jobs' = jobs /\ curRunningJobs' = curRunningJobs
    BY DEF closeConnection
  <2>2. QED
    BY <1>1, <1>3, <2>1, MatchesInUse DEF JobsRunOn
<1>5. JobsInv' /\ LimitsHold'
  BY <1>1, <1>4, JobsKept
<1>6. pc' = pc
  BY DEF closeConnection
<1>7. QED
  BY <1>2, <1>3, <1>5, <1>6 DEF ServerInv

LEMMA HandlingKeepsInv ==
  ASSUME ServerInv, NEW c \in Entries(conns), handleConnection(c)
  PROVE  ServerInv'
<1>1. NetInv /\ ConnsInv /\ MatchesInv /\ JobsInv /\ LimitsHold
  BY DEF ServerInv
<1>2. ASSUME NetInv', ConnsInv', pc' = pc,
             UNCHANGED <<matches, jobs, curRunningJobs, waitStart, queueTime>>
      PROVE  ServerInv'
  BY <1>1, <1>2, NoMatchChanges DEF ServerInv
<1>3. CASE TakeHalf(c)
  BY <1>1, <1>2, <1>3, HalfTaken DEF TakeHalf
<1>4. CASE NoMoreInput(c)
  BY <1>1, <1>2, <1>4, NothingToRead DEF NoMoreInput
<1>5. CASE EndOfFile(c)
  BY <1>5, CloseKeepsInv DEF EndOfFile
<1>6. CASE LogOn(c)
  <2>1. pc' = pc /\ UNCHANGED <<matches, jobs, curRunningJobs, waitStart, queueTime>>
    BY <1>6 DEF LogOn
  <2>2. QED
    BY <1>1, <1>2, <1>6, <2>1, LoggedOn
<1>7. CASE BadLogOn(c)
  BY <1>7, CloseKeepsInv DEF BadLogOn
<1>8. CASE Info(c)
  <2>1. /\ pc' = pc /\ UNCHANGED <<matches, jobs, curRunningJobs, waitStart, queueTime>>
        /\ LineRead(c, [type |-> "info"]) /\ net' = SocketAfter(conns.data[c])
        /\ conns' = [conns EXCEPT !.data[c] = AfterLine(c)] /\ ready' \subseteq ready
    BY <1>8 DEF Info
  <2>2. QED
    BY <1>1, <1>2, <2>1, LineHandled
<1>9. CASE RunMatches(c)
  <2>1. PICK line : /\ LineRead(c, line) /\ net' = SocketAfter(conns.data[c])
                    /\ conns' = [conns EXCEPT !.data[c] = AfterLine(c)]
                    /\ ready' \subseteq ready
                    /\ UNCHANGED <<jobs, curRunningJobs, pc>>
    BY <1>9 DEF RunMatches
  <2>2. NetInv' /\ ConnsInv'
    BY <1>1, <2>1, LineHandled
  <2>3. JobsRunOn
    <3>1. PICK e \in Nat, u \in Users, r \in Requests :
            /\ e \notin Entries(matches) /\ Entries(matches') = Entries(matches) \cup {e}
            /\ matches'.data[e] = Match(u, r, c)
            /\ \A d \in DOMAIN matches.data :
                 /\ d \in DOMAIN matches'.data
                 /\ d # e => matches'.data[d] = matches.data[d]
      BY <1>1, <1>9, MatchQueued
    <3>2. ~Match(u, r, c).isRunning
      BY DEF Match
    <3>3. \A d \in Entries(matches) : d \in DOMAIN matches.data /\ d # e
      BY <1>1, <3>1, MatchesInUse
    <3>4. \A d \in Entries(matches) : matches'.data[d] = matches.data[d]
      BY <3>1, <3>3
    <3>5. \A d \in Entries(matches') : matches'.data[d].isRunning => d \in Entries(matches)
      BY <3>1, <3>2
    <3>6. DOMAIN matches.data \subseteq DOMAIN matches'.data
      BY <3>1
    <3>7. QED
      BY <2>1, <3>1, <3>4, <3>5, <3>6 DEF JobsRunOn
  <2>4. MatchesInv' /\ JobsInv' /\ LimitsHold'
    BY <1>1, <1>9, <2>3, MatchQueued, JobsKept
  <2>5. QED
    BY <2>1, <2>2, <2>4 DEF ServerInv
<1>10. CASE Refuse(c)
  <2>1. PICK line : /\ LineRead(c, line) /\ net' = SocketAfter(conns.data[c])
                    /\ conns' = [conns EXCEPT !.data[c] = AfterLine(c)]
                    /\ ready' \subseteq ready
                    /\ UNCHANGED <<matches, jobs, curRunningJobs, waitStart, queueTime, pc>>
    BY <1>10 DEF Refuse
  <2>2. QED
    BY <1>1, <1>2, <2>1, LineHandled
<1>11. QED
  BY <1>3, <1>4, <1>5, <1>6, <1>7, <1>8, <1>9, <1>10 DEF handleConnection

LEMMA StartingKeepsInv ==
  ASSUME ServerInv, StartMatchJob \/ NothingToStart \/ DealerDoesNotStart
  PROVE  ServerInv'
<1>1. NetInv /\ ConnsInv /\ MatchesInv /\ JobsInv /\ LimitsHold /\ pc = "start"
  BY DEF ServerInv, StartMatchJob, NothingToStart, DealerDoesNotStart
<1>2. /\ net' = net /\ conns' = conns /\ ready' = ready
      /\ pc' \in {"start", "select", "exited"}
  BY <1>1 DEF StartMatchJob, NothingToStart, DealerDoesNotStart
<1>3. NetInv' /\ ConnsInv'
  BY <1>1, <1>2 DEF NetInv, ConnsInv
<1>4. CASE StartMatchJob
  BY <1>1, <1>2, <1>3, <1>4, RunStarts, JobAdded DEF ServerInv
<1>5. CASE NothingToStart
  <2>1. /\ MatchesInv' /\ matches'.data = matches.data
        /\ Entries(matches') = Entries(matches) \ FinishedMatches
    BY <1>1, <1>5, NothingStarts
  <2>2. \A e \in Entries(matches) : matches.data[e].isRunning => e \in Entries(matches')
    BY <2>1 DEF FinishedMatches, Finished
  <2>3. JobsRunOn
    BY <1>5, <2>1, <2>2 DEF JobsRunOn, NothingToStart
  <2>4. JobsInv' /\ LimitsHold'
    BY <1>1, <2>3, JobsKept
  <2>5. QED
    BY <1>2, <1>3, <2>1, <2>4 DEF ServerInv
<1>6. CASE DealerDoesNotStart
  BY <1>1, <1>2, <1>3, <1>6, NoMatchChanges DEF ServerInv, DealerDoesNotStart
<1>7. QED
  BY <1>4, <1>5, <1>6

LEMMA StepKeepsInv ==
  ASSUME ServerInv, [Next]_vars
  PROVE  ServerInv'
<1>1. NetInv /\ ConnsInv /\ MatchesInv /\ JobsInv /\ LimitsHold
  BY DEF ServerInv
<1>2. CASE CleanUp
  <2>1. NetInv' /\ ConnsInv'
    BY <1>1, <1>2, ConnectionsCleanedUp
  <2>2. MatchesInv' /\ JobsInv' /\ LimitsHold'
    BY <1>1, <1>2, MatchesFreed, JobsRemoved
  <2>3. pc' = "start"
    BY <1>2 DEF CleanUp
  <2>4. QED
    BY <2>1, <2>2, <2>3 DEF ServerInv
<1>3. CASE StartMatchJob \/ NothingToStart \/ DealerDoesNotStart
  BY <1>3, StartingKeepsInv
<1>4. CASE Select
  <2>1. pc' = "serve" /\ UNCHANGED <<matches, jobs, curRunningJobs, waitStart, queueTime>>
    BY <1>4 DEF Select
  <2>2. QED
    BY <1>1, <1>4, <2>1, SessionsSelected, NoMatchChanges DEF ServerInv
<1>5. CASE \E c \in Entries(conns) : handleConnection(c)
  BY <1>5, HandlingKeepsInv
<1>6. CASE JobEnds
  <2>1. UNCHANGED <<net, conns, matches, curRunningJobs, waitStart, queueTime, pc, ready>>
    BY <1>6 DEF JobEnds
  <2>2. NetInv' /\ ConnsInv' /\ MatchesInv'
    BY <1>1, <2>1 DEF NetInv, ConnsInv, MatchesInv
  <2>3. QED
    BY <1>1, <1>6, <2>1, <2>2, JobOver DEF ServerInv
<1>7. CASE \E s \in Sessions :
             Connect(s) \/ SendLine(s) \/ SendHalf(s) \/ SendRest(s) \/ Close(s)
  <2>1. UNCHANGED server
    BY <1>7 DEF Connect, SendLine, SendHalf, SendRest, Close
  <2>2. QED
    BY <1>1, <1>7, <2>1, ClientActs, NoMatchChanges DEF ServerInv, server
<1>8. CASE UNCHANGED vars
  <2>1. NetInv' /\ ConnsInv'
    BY <1>1, <1>8 DEF NetInv, ConnsInv, vars, server
  <2>2. QED
    BY <1>1, <1>8, <2>1, NoMatchChanges DEF ServerInv, vars, server
<1>9. QED
  BY <1>2, <1>3, <1>4, <1>5, <1>6, <1>7, <1>8 DEF Next, ServerStep, Environment

(* The invariant holds of the server, whatever its clients and the         *)
(* processes of its matches do.                                            *)
THEOREM ServerInvHolds == Spec => []ServerInv
<1>1. Init => ServerInv
  BY ServerStarts
<1>2. ServerInv /\ [Next]_vars => ServerInv'
  BY StepKeepsInv
<1>3. QED
  BY <1>1, <1>2, PTL DEF Spec

(* The history variables only watch.                                       *)
LEMMA HistoryWatches == SpecWithHistory => Spec
<1>1. InitWithHistory => Init
  BY DEF InitWithHistory
<1>2. [NextWithHistory]_hvars => [Next]_vars
  BY DEF NextWithHistory, hvars
<1>3. QED
  BY <1>1, <1>2, PTL DEF SpecWithHistory, Spec

LEMMA PoolHolds ==
  ASSUME NEW pool, NEW Items, NEW Others, IsLLPool(pool, Items),
         \A e \in DOMAIN pool.data : pool.data[e] \in Others
  PROVE  IsLLPool(pool, Others)
<1>1. pool.data \in Seq(Items)
  BY DEF IsLLPool
<1>2. Len(pool.data) \in Nat /\ pool.data \in [1..Len(pool.data) -> Others]
  BY <1>1
<1>3. pool.data \in Seq(Others)
  BY <1>2, SeqDef
<1>4. QED
  BY <1>3 DEF IsLLPool

LEMMA ServerTypes ==
  ASSUME ServerInv
  PROVE  TypeOK
<1>1. NetInv /\ ConnsInv /\ MatchesInv /\ JobsInv
  BY DEF ServerInv
<1>2. IsLLPool(matches, {m \in Range(matches.data) : MatchType(m)})
  <2>1. \A e \in DOMAIN matches.data :
          matches.data[e] \in {m \in Range(matches.data) : MatchType(m)}
    <3>1. TAKE e \in DOMAIN matches.data
    <3>2. matches.data[e].numRuns \in 0..maxMatchRuns[matches.data[e].gameConf]
      BY <1>1, MatchFacts, LimitsAssumption
    <3>3. MatchType(matches.data[e])
      BY <1>1, <3>2, MatchFacts DEF MatchType
    <3>4. QED
      BY <3>3 DEF Range
  <2>2. QED
    BY <1>1, <2>1, PoolHolds DEF MatchesInv
<1>3. IsLLPool(jobs, [matchEntry : DOMAIN matches.data, aborted : BOOLEAN, ended : BOOLEAN])
  <2>1. \A j \in DOMAIN jobs.data : jobs.data[j] \in
          [matchEntry : DOMAIN matches.data, aborted : BOOLEAN, ended : BOOLEAN]
    <3>1. TAKE j \in DOMAIN jobs.data
    <3>2. jobs.data[j] \in JobRecord /\ jobs.data[j].matchEntry \in DOMAIN matches.data
      BY <1>1, PoolFacts DEF JobsInv
    <3>3. QED
      BY <3>2 DEF JobRecord
  <2>2. QED
    BY <1>1, <2>1, PoolHolds DEF JobsInv
<1>4. QED
  BY <1>1, <1>2, <1>3 DEF TypeOK, ServerInv, ConnsInv, MatchesInv, JobsInv

(* The server's variables keep their types; each pool's lists stay         *)
(* disjoint and name every entry once.                                     *)
THEOREM ServerTypeCorrectness == SpecWithHistory => []TypeOK
BY ServerInvHolds, HistoryWatches, ServerTypes, PTL

(* The limits of the configuration file on matches and bots are kept.      *)
THEOREM LimitsAreKept == SpecWithHistory => []LimitsHold
<1>1. ServerInv => LimitsHold
  BY DEF ServerInv
<1>2. QED
  BY <1>1, ServerInvHolds, HistoryWatches, PTL

LEMMA OneJobEach ==
  ASSUME ServerInv
  PROVE  JobsMatchTheirMatches
<1>1. JobsInv
  BY DEF ServerInv
<1>2. ASSUME NEW e \in Entries(matches)
      PROVE  Cardinality({j \in Entries(jobs) : jobs.data[j].matchEntry = e})
               = IF matches.data[e].isRunning THEN 1 ELSE 0
  <2> DEFINE S == {j \in Entries(jobs) : jobs.data[j].matchEntry = e}
  <2>1. CASE matches.data[e].isRunning
    <3>1. PICK n \in Entries(jobs) : jobs.data[n].matchEntry = e
      BY <1>1, <2>1 DEF JobsInv
    <3>2. S = {n}
      BY <1>1, <3>1 DEF JobsInv
    <3>3. QED
      BY <2>1, <3>2, FS_Singleton
  <2>2. CASE ~matches.data[e].isRunning
    <3>1. S = {}
      BY <1>1, <2>2 DEF JobsInv
    <3>2. QED
      BY <2>2, <3>1, FS_EmptySet
  <2>3. QED
    BY <2>1, <2>2
<1>3. QED
  BY <1>1, <1>2 DEF JobsMatchTheirMatches, JobsInv, JobsOf

(* Every job belongs to a queued match that is marked as running, every    *)
(* match marked as running has one job, and each game's jobs are counted.  *)
THEOREM JobsAreAccountedFor == SpecWithHistory => []JobsMatchTheirMatches
BY ServerInvHolds, HistoryWatches, OneJobEach, PTL

-----------------------------------------------------------------------------
(* Whom a match waits for                                                  *)

(* The history variables have a slot for every entry in use.               *)
EnoughSlots == Entries(matches) \subseteq Slots

(* The client is still there, logged on over the same session.             *)
StaysOn(c) ==
  /\ c \in Entries(conns')
  /\ conns'.data[c].status = conns.data[c].status
  /\ conns'.data[c].user = conns.data[c].user
  /\ conns'.data[c].connBuf = conns.data[c].connBuf

Uses(match, c) == \E p \in DOMAIN match.players : match.players[p] # Bot /\ match.players[p] = c

(* No request comes in, and whom a match with runs left uses stays on.     *)
NoClientLost ==
  \A e \in Entries(matches') : matches'.data[e].numRuns > 0 =>
    /\ e \in Entries(matches) /\ matches.data[e].numRuns > 0
    /\ matches'.data[e].players = matches.data[e].players
    /\ matches'.data[e].user = matches.data[e].user
    /\ \A c \in Entries(conns) :
         Uses(matches.data[e], c) /\ conns.data[c].status = "okay" => StaysOn(c)

SlotsKept == \A e \in Entries(matches') : e \in Entries(matches) => askedBy'[e] = askedBy[e]

LEMMA HistoryOfSlots ==
  ASSUME EnoughSlots', NextWithHistory
  PROVE  /\ SlotsKept
         /\ \A e \in Entries(matches') \ Entries(matches) :
              askedBy'[e] = {conns.data[c].connBuf : c \in {d \in Entries(conns) : Serving(d)}}
BY DEF EnoughSlots, NextWithHistory, SlotsKept

(* What a match with runs left asks of the connection of a seat.           *)
IsServed(m, p, cs, asked) ==
  /\ m.players[p] \in Entries(cs)
  /\ cs.data[m.players[p]].status = "okay"
  /\ cs.data[m.players[p]].user = {m.user}
  /\ {cs.data[m.players[p]].connBuf} = asked

AllServed(ms, cs, asked) ==
  \A e \in Entries(ms) :
    ms.data[e].numRuns > 0 =>
      \A p \in DOMAIN ms.data[e].players : ms.data[e].players[p] # Bot =>
        IsServed(ms.data[e], p, cs, asked[e])

LEMMA NobodyStale ==
  /\ NoStaleConnection <=> AllServed(matches, conns, askedBy)
  /\ NoStaleConnection' <=> AllServed(matches', conns', askedBy')
BY DEF NoStaleConnection, AllServed, IsServed

LEMMA ClientsStay ==
  ASSUME NoStaleConnection, NoClientLost, SlotsKept
  PROVE  NoStaleConnection'
<1>0. AllServed(matches, conns, askedBy)
  BY NobodyStale
<1>1. SUFFICES ASSUME NEW e \in Entries(matches'), matches'.data[e].numRuns > 0,
                      NEW p \in DOMAIN matches'.data[e].players,
                      matches'.data[e].players[p] # Bot
               PROVE  IsServed(matches'.data[e], p, conns', askedBy'[e])
  BY NobodyStale DEF AllServed
<1>2. PICK c : c = matches'.data[e].players[p]
  OBVIOUS
<1>3. /\ e \in Entries(matches) /\ matches.data[e].numRuns > 0
      /\ matches'.data[e].players = matches.data[e].players
      /\ matches'.data[e].user = matches.data[e].user
      /\ Uses(matches.data[e], c)
  BY <1>1, <1>2 DEF NoClientLost, Uses
<1>4. /\ c \in Entries(conns) /\ conns.data[c].status = "okay"
      /\ conns.data[c].user = {matches.data[e].user}
      /\ {conns.data[c].connBuf} = askedBy[e]
  <2>1. IsServed(matches.data[e], p, conns, askedBy[e])
    BY <1>0, <1>1, <1>3 DEF AllServed
  <2>2. QED
    BY <1>2, <1>3, <2>1 DEF IsServed
<1>5. StaysOn(c)
  BY <1>1, <1>3, <1>4 DEF NoClientLost
<1>6. askedBy'[e] = askedBy[e]
  BY <1>1, <1>3 DEF SlotsKept
<1>7. QED
  BY <1>2, <1>3, <1>4, <1>5, <1>6 DEF StaysOn, IsServed

(* Requests and matches stay as they are.                                  *)
LEMMA EverybodyStays ==
  ASSUME NoStaleConnection, SlotsKept, matches' = matches,
         \A c \in Entries(conns) : conns.data[c].status = "okay" => StaysOn(c)
  PROVE  NoStaleConnection'
<1>1. NoClientLost
  BY DEF NoClientLost
<1>2. QED
  BY <1>1, ClientsStay

LEMMA AllStayOn ==
  ASSUME SameClients
  PROVE  \A c \in Entries(conns) : StaysOn(c)
BY DEF SameClients, StaysOn

LEMMA CloseLosesNoMatch ==
  ASSUME ServerInv, NoStaleConnection, SlotsKept, NEW c \in Entries(conns), closeConnection(c)
  PROVE  NoStaleConnection'
<1>1. NetInv /\ ConnsInv /\ MatchesInv
  BY DEF ServerInv
<1>2. \A d \in Entries(conns) : d # c => StaysOn(d)
  BY <1>1, ConnectionCloses DEF StaysOn
<1>3. NoClientLost
  <2>1. SUFFICES ASSUME NEW e \in Entries(matches'), matches'.data[e].numRuns > 0
                 PROVE  /\ e \in Entries(matches) /\ matches'.data[e] = matches.data[e]
                        /\ ~Uses(matches.data[e], c)
    BY <1>2 DEF NoClientLost
  <2>2. /\ e \in Entries(matches) /\ e \in DOMAIN matches.data
        /\ matches'.data[e] = IF matchUsesConnection(matches.data[e], c)
                                THEN [matches.data[e] EXCEPT !.numRuns = 0]
                                ELSE matches.data[e]
    BY <1>1, <2>1, MatchesGivenUp, MatchesInUse
  <2>3. \A m \in MatchRecord : [m EXCEPT !.numRuns = 0].numRuns = 0
    BY DEF MatchRecord
  <2>4. ~matchUsesConnection(matches.data[e], c)
    BY <1>1, <2>1, <2>2, <2>3, MatchFacts
  <2>5. QED
    BY <2>2, <2>4 DEF Uses, matchUsesConnection
<1>4. QED
  BY <1>3, ClientsStay

(* A new request names the connection it came over.                        *)
LEMMA RequestNamesItsClient ==
  ASSUME ServerInv, NoStaleConnection, NEW c, RunMatches(c), EnoughSlots', NextWithHistory
  PROVE  NoStaleConnection'
<1>1. NetInv /\ ConnsInv /\ MatchesInv
  BY DEF ServerInv
<1>2. PICK line : /\ LineRead(c, line) /\ net' = SocketAfter(conns.data[c])
                  /\ conns' = [conns EXCEPT !.data[c] = AfterLine(c)]
                  /\ ready' \subseteq ready
  BY DEF RunMatches
<1>3. SameClients /\ \A d \in Entries(conns) : StaysOn(d)
  BY <1>1, <1>2, LineHandled, AllStayOn
<1>4. c \in Entries(conns) /\ \A d : Serving(d) <=> d = c
  BY <1>1, <1>2, ServesOne DEF LineRead
<1>5. PICK e \in Nat, u \in Users, r \in Requests :
        /\ e \notin Entries(matches) /\ Entries(matches') = Entries(matches) \cup {e}
        /\ conns.data[c].user = {u} /\ conns.data[c].status = "okay"
        /\ matches'.data[e] = Match(u, r, c)
        /\ \A d \in DOMAIN matches.data : d # e => matches'.data[d] = matches.data[d]
  BY <1>1, MatchQueued
<1>6. /\ \A d \in Entries(matches) : askedBy'[d] = askedBy[d]
      /\ askedBy'[e] = {conns.data[d].connBuf : d \in {f \in Entries(conns) : Serving(f)}}
  BY <1>5, HistoryOfSlots DEF SlotsKept
<1>7. askedBy'[e] = {conns.data[c].connBuf}
  BY <1>4, <1>6
<1>8. \A d \in Entries(matches) : matches'.data[d] = matches.data[d]
  BY <1>1, <1>5, MatchesInUse
<1>9. \A p \in DOMAIN matches'.data[e].players :
        matches'.data[e].players[p] # Bot => matches'.data[e].players[p] = c
  BY <1>5 DEF Match
<1>10. matches'.data[e].user = u
  BY <1>5 DEF Match
<1>11. SUFFICES ASSUME NEW d \in Entries(matches'), matches'.data[d].numRuns > 0,
                       NEW p \in DOMAIN matches'.data[d].players,
                       matches'.data[d].players[p] # Bot
                PROVE  IsServed(matches'.data[d], p, conns', askedBy'[d])
  BY NobodyStale DEF AllServed
<1>12. CASE d = e
  <2>1. matches'.data[e].players[p] = c /\ matches'.data[e].user = u
    BY <1>9, <1>10, <1>11, <1>12
  <2>2. /\ c \in Entries(conns') /\ conns'.data[c].status = "okay"
        /\ conns'.data[c].user = {u} /\ {conns'.data[c].connBuf} = askedBy'[e]
    BY <1>3, <1>4, <1>5, <1>7 DEF StaysOn
  <2>3. QED
    BY <1>12, <2>1, <2>2 DEF IsServed
<1>13. CASE d # e
  <2>1. d \in Entries(matches) /\ matches'.data[d] = matches.data[d]
        /\ askedBy'[d] = askedBy[d]
    BY <1>5, <1>6, <1>8, <1>13
  <2>2. PICK f : f = matches.data[d].players[p]
    OBVIOUS
  <2>3. /\ f \in Entries(conns) /\ conns.data[f].status = "okay"
        /\ conns.data[f].user = {matches.data[d].user}
        /\ {conns.data[f].connBuf} = askedBy[d]
    <3>1. AllServed(matches, conns, askedBy)
      BY NobodyStale
    <3>2. IsServed(matches.data[d], p, conns, askedBy[d])
      BY <1>11, <2>1, <3>1 DEF AllServed
    <3>3. QED
      BY <2>2, <3>2 DEF IsServed
  <2>4. StaysOn(f)
    BY <1>3, <2>3
  <2>5. QED
    BY <2>1, <2>2, <2>3, <2>4 DEF StaysOn, IsServed
<1>14. QED
  BY <1>12, <1>13

LEMMA HandlingLosesNoMatch ==
  ASSUME ServerInv, NoStaleConnection, NEW c \in Entries(conns), handleConnection(c),
         EnoughSlots', NextWithHistory
  PROVE  NoStaleConnection'
<1>1. NetInv /\ ConnsInv /\ SlotsKept
  BY HistoryOfSlots DEF ServerInv
<1>2. ASSUME SameClients, matches' = matches PROVE NoStaleConnection'
  BY <1>1, <1>2, AllStayOn, EverybodyStays
<1>3. CASE TakeHalf(c)
  BY <1>1, <1>2, <1>3, HalfTaken DEF TakeHalf
<1>4. CASE NoMoreInput(c)
  BY <1>1, <1>2, <1>4, NothingToRead DEF NoMoreInput
<1>5. CASE EndOfFile(c)
  BY <1>1, <1>5, CloseLosesNoMatch DEF EndOfFile
<1>6. CASE LogOn(c)
  <2>1. \A d \in Entries(conns) : conns.data[d].status = "okay" => StaysOn(d)
    BY <1>1, <1>6, LoggedOn DEF StaysOn
  <2>2. matches' = matches
    BY <1>6 DEF LogOn
  <2>3. QED
    BY <1>1, <2>1, <2>2, EverybodyStays
<1>7. CASE BadLogOn(c)
  BY <1>1, <1>7, CloseLosesNoMatch DEF BadLogOn
<1>8. CASE Info(c) \/ Refuse(c)
  <2>1. PICK line : /\ LineRead(c, line) /\ net' = SocketAfter(conns.data[c])
                    /\ conns' = [conns EXCEPT !.data[c] = AfterLine(c)]
                    /\ ready' \subseteq ready /\ matches' = matches
    BY <1>8 DEF Info, Refuse
  <2>2. QED
    BY <1>1, <1>2, <2>1, LineHandled
<1>9. CASE RunMatches(c)
  BY <1>9, RequestNamesItsClient
<1>10. QED
  BY <1>3, <1>4, <1>5, <1>6, <1>7, <1>8, <1>9 DEF handleConnection

LEMMA StartingLosesNoMatch ==
  ASSUME ServerInv, NoStaleConnection, SlotsKept,
         StartMatchJob \/ NothingToStart \/ DealerDoesNotStart
  PROVE  NoStaleConnection'
<1>1. MatchesInv
  BY DEF ServerInv
<1>2. \A c \in Entries(conns) : StaysOn(c)
  BY DEF StaysOn, StartMatchJob, NothingToStart, DealerDoesNotStart
<1>3. CASE StartMatchJob
  <2>1. PICK e : StartsRun(e)
    BY <1>1, <1>3, RunStarts
  <2>2. /\ e \in Entries(matches) /\ e \in DOMAIN matches.data
        /\ matches.data[e].numRuns > 0
        /\ matches'.data[e] = RunStarted(matches.data[e])
        /\ Entries(matches') \subseteq Entries(matches)
        /\ \A d \in Entries(matches) : d # e => matches'.data[d] = matches.data[d]
    BY <1>1, <2>1, MatchesInUse DEF StartsRun, RunnableMatches, Runnable
  <2>3. \A m \in MatchRecord : /\ RunStarted(m).players = m.players
                               /\ RunStarted(m).user = m.user
    BY DEF MatchRecord, RunStarted
  <2>4. NoClientLost
    BY <1>1, <1>2, <2>2, <2>3, MatchFacts DEF NoClientLost
  <2>5. QED
    BY <2>4, ClientsStay
<1>4. CASE NothingToStart
  <2>1. matches'.data = matches.data /\ Entries(matches') \subseteq Entries(matches)
    BY <1>1, <1>4, NothingStarts
  <2>2. NoClientLost
    BY <1>2, <2>1 DEF NoClientLost
  <2>3. QED
    BY <2>2, ClientsStay
<1>5. CASE DealerDoesNotStart
  BY <1>2, <1>5, EverybodyStays DEF DealerDoesNotStart
<1>6. QED
  BY <1>3, <1>4, <1>5

LEMMA StepLosesNoMatch ==
  ASSUME ServerInv, NoStaleConnection, EnoughSlots', [NextWithHistory]_hvars
  PROVE  NoStaleConnection'
<1>1. NetInv /\ ConnsInv /\ MatchesInv
  BY DEF ServerInv
<1>2. CASE UNCHANGED hvars
  <2>1. matches' = matches /\ conns' = conns /\ askedBy' = askedBy
    BY <1>2 DEF hvars, vars, server
  <2>2. QED
    BY <2>1 DEF NoStaleConnection
<1>3. SUFFICES ASSUME NextWithHistory
               PROVE  NoStaleConnection'
  BY <1>2
<1>4. Next /\ SlotsKept
  BY <1>3, HistoryOfSlots DEF NextWithHistory
<1>5. CASE CleanUp
  <2>1. \A c \in Entries(conns) : conns.data[c].status = "okay" => StaysOn(c)
    BY <1>1, <1>5, ConnectionsCleanedUp DEF StaysOn
  <2>2. \A m \in MatchRecord : \A b : LET n == [m EXCEPT !.isRunning = b]
                                      IN  /\ n.numRuns = m.numRuns /\ n.user = m.user
                                          /\ n.players = m.players
    BY DEF MatchRecord
  <2>3. \A e \in Entries(matches) : /\ matches'.data[e].numRuns = matches.data[e].numRuns
                                    /\ matches'.data[e].user = matches.data[e].user
                                    /\ matches'.data[e].players = matches.data[e].players
    <3>1. TAKE e \in Entries(matches)
    <3>2. e \in DOMAIN matches.data /\ matches.data[e] \in MatchRecord
      BY <1>1, MatchesInUse, MatchFacts
    <3>3. \E b : matches'.data[e] = [matches.data[e] EXCEPT !.isRunning = b]
      BY <1>1, <1>5, <3>2, MatchesFreed
    <3>4. QED
      BY <2>2, <3>2, <3>3
  <2>4. Entries(matches') = Entries(matches)
    BY <1>1, <1>5, MatchesFreed
  <2>5. NoClientLost
    BY <2>1, <2>3, <2>4 DEF NoClientLost
  <2>6. QED
    BY <1>4, <2>5, ClientsStay
<1>6. CASE StartMatchJob \/ NothingToStart \/ DealerDoesNotStart
  BY <1>4, <1>6, StartingLosesNoMatch
<1>7. CASE Select
  <2>1. \A c \in Entries(conns) : StaysOn(c)
    BY <1>1, <1>7, SessionsSelected, AllStayOn DEF StaysOn
  <2>2. QED
    BY <1>4, <1>7, <2>1, EverybodyStays DEF Select
<1>8. CASE \E c \in Entries(conns) : handleConnection(c)
  BY <1>3, <1>8, HandlingLosesNoMatch
<1>9. CASE Environment
  <2>1. matches' = matches /\ conns' = conns
    BY <1>9 DEF Environment, JobEnds, Connect, SendLine, SendHalf, SendRest, Close, server
  <2>2. QED
    BY <1>4, <2>1, EverybodyStays DEF StaysOn
<1>10. QED
  BY <1>4, <1>5, <1>6, <1>7, <1>8, <1>9 DEF Next, ServerStep

(* An entry is a number: slots for all of them are always enough.          *)
THEOREM SlotsForAll ==
  ASSUME Nat \ {0} \subseteq Slots
  PROVE  SpecWithHistory => []EnoughSlots
<1>1. ServerInv => EnoughSlots
  BY PoolFacts DEF ServerInv, MatchesInv, EnoughSlots
<1>2. QED
  BY <1>1, ServerInvHolds, HistoryWatches, PTL

(* A match with runs left never waits for a connection that was taken      *)
(* over, or closed: the entry it holds is the one it was asked for on.     *)
THEOREM NoConnectionIsStale == SpecWithHistory /\ []EnoughSlots => []NoStaleConnection
<1>1. InitWithHistory => NoStaleConnection
  BY NewPool DEF InitWithHistory, Init, NoStaleConnection
<1>2. ServerInv /\ NoStaleConnection /\ EnoughSlots' /\ [NextWithHistory]_hvars
        => NoStaleConnection'
  BY StepLosesNoMatch
<1>3. QED
  BY <1>1, <1>2, ServerInvHolds, HistoryWatches, PTL DEF SpecWithHistory

-----------------------------------------------------------------------------
(* Whose turn it is                                                        *)

(* Whoever got a run while u could have had one waits behind u.            *)
PassedInv ==
  /\ DOMAIN passedBy = Users
  /\ \A u \in Users : \A v \in passedBy[u] : v \in Users /\ Before(waitStart, u, v)

LEMMA BeforeIsAnOrder ==
  ASSUME MatchesInv, NEW u, NEW v, Before(waitStart, u, v)
  PROVE  ~Before(waitStart, v, u) /\ u # v
BY DEF MatchesInv, Before, IsInjective

(* Only startMatchJob() starts a run.                                      *)
LEMMA WhoIsStarted ==
  ASSUME ServerInv, Next
  PROVE  \/ StartedUsers = {} /\ waitStart' = waitStart
         \/ \E e : /\ StartsRun(e) /\ e \in DOMAIN matches.data
                   /\ StartedUsers = {matches.data[e].user}
<1> USE DEF ServerInv
<1>1. ASSUME \A e \in Entries(matches) : matches'.data[e].isRunning => matches.data[e].isRunning
      PROVE  StartedUsers = {}
  BY <1>1 DEF StartedUsers
<1>2. CASE StartMatchJob
  <2>1. PICK e : StartsRun(e)
    BY <1>2, RunStarts
  <2>2. /\ e \in Entries(matches) /\ e \in DOMAIN matches.data
        /\ ~matches.data[e].isRunning
        /\ matches'.data[e] = RunStarted(matches.data[e])
        /\ \A d \in Entries(matches) : d # e => matches'.data[d] = matches.data[d]
    BY <2>1, MatchesInUse DEF StartsRun, RunnableMatches, Runnable
  <2>3. \A m \in MatchRecord : RunStarted(m).isRunning
    BY DEF MatchRecord, RunStarted
  <2>4. matches'.data[e].isRunning
    BY <2>2, <2>3, MatchFacts
  <2>5. {f \in Entries(matches) : ~matches.data[f].isRunning /\ matches'.data[f].isRunning} = {e}
    BY <2>2, <2>4
  <2>6. StartedUsers = {matches.data[e].user}
    BY <2>5 DEF StartedUsers
  <2>7. QED
    BY <2>1, <2>2, <2>6
<1>3. CASE matches' = matches /\ waitStart' = waitStart
  BY <1>1, <1>3
<1>4. CASE CleanUp
  <2>1. waitStart' = waitStart
    BY <1>4 DEF CleanUp
  <2>2. QED
    BY <1>1, <1>4, <2>1, JobsRemoved
<1>5. CASE NothingToStart
  BY <1>1, <1>5, NothingStarts DEF NothingToStart
<1>6. ASSUME NEW c, closeConnection(c)
      PROVE  StartedUsers = {} /\ waitStart' = waitStart
  <2>1. \A m \in MatchRecord : [m EXCEPT !.numRuns = 0].isRunning = m.isRunning
    BY DEF MatchRecord
  <2>2. \A e \in Entries(matches) : matches'.data[e].isRunning => matches.data[e].isRunning
    BY <1>6, <2>1, MatchesGivenUp, MatchFacts, MatchesInUse
  <2>3. QED
    BY <1>1, <1>6, <2>2 DEF closeConnection
<1>7. ASSUME NEW c, RunMatches(c)
      PROVE  StartedUsers = {} /\ waitStart' = waitStart
  <2>1. PICK e \in Nat : /\ e \notin Entries(matches)
                         /\ \A d \in DOMAIN matches.data :
                              d # e => matches'.data[d] = matches.data[d]
    BY <1>7, MatchQueued
  <2>2. \A d \in Entries(matches) : matches'.data[d] = matches.data[d]
    BY <2>1, MatchesInUse
  <2>3. QED
    BY <1>1, <1>7, <2>2 DEF RunMatches
<1>8. CASE \E c \in Entries(conns) : handleConnection(c)
  <2>1. PICK c \in Entries(conns) : handleConnection(c)
    BY <1>8
  <2>2. CASE TakeHalf(c) \/ NoMoreInput(c) \/ LogOn(c) \/ Info(c) \/ Refuse(c)
    BY <1>3, <2>2 DEF TakeHalf, NoMoreInput, LogOn, Info, Refuse
  <2>3. CASE EndOfFile(c) \/ BadLogOn(c)
    BY <1>6, <2>3 DEF EndOfFile, BadLogOn
  <2>4. CASE RunMatches(c)
    BY <1>7, <2>4
  <2>5. QED
    BY <2>1, <2>2, <2>3, <2>4 DEF handleConnection
<1>9. CASE DealerDoesNotStart \/ Select \/ Environment
  <2>1. matches' = matches /\ waitStart' = waitStart
    BY <1>9 DEF DealerDoesNotStart, Select, Environment, JobEnds, Connect, SendLine,
                SendHalf, SendRest, Close, server
  <2>2. QED
    BY <1>3, <2>1
<1>10. QED
  BY <1>2, <1>4, <1>5, <1>8, <1>9 DEF Next, ServerStep

LEMMA PassingGoesOn ==
  ASSUME ServerInv, PassedInv, NextWithHistory
  PROVE  PassedInv'
<1>1. MatchesInv /\ Next
  BY DEF ServerInv, NextWithHistory
<1>2. DOMAIN passedBy' = Users
  BY DEF NextWithHistory
<1>3. \A u \in Users :
        passedBy'[u] = IF u \in StartedUsers THEN {}
                       ELSE IF u \in ReadyUsers THEN passedBy[u] \cup StartedUsers
                       ELSE passedBy[u]
  BY DEF NextWithHistory
<1>4. CASE StartedUsers = {} /\ waitStart' = waitStart
  <2>1. \A u \in Users : passedBy'[u] = passedBy[u]
    BY <1>3, <1>4
  <2>2. QED
    BY <1>2, <1>4, <2>1 DEF PassedInv
<1>5. CASE \E e : /\ StartsRun(e) /\ e \in DOMAIN matches.data
                  /\ StartedUsers = {matches.data[e].user}
  <2>1. PICK w \in Users : StartedUsers = {w} /\ waitStart' = ToBack(waitStart, w)
    BY <1>1, <1>5, MatchFacts DEF StartsRun
  <2>2. PICK back : back = ToBack(waitStart, w)
    OBVIOUS
  <2>3. waitStart \in Seq(Users) /\ IsInjective(waitStart) /\ ToSet(waitStart) = Users
    BY <1>1 DEF MatchesInv
  <2>4. /\ \A x \in Users \ {w} : Before(back, x, w)
        /\ \A x, y : x # w /\ y # w /\ Before(waitStart, x, y) => Before(back, x, y)
    BY <2>2, <2>3, GoesToTheBack
  <2>5. ASSUME NEW u \in Users, NEW v \in passedBy'[u]
        PROVE  v \in Users /\ Before(back, u, v)
    <3>1. u # w
      BY <1>3, <2>1, <2>5
    <3>2. v = w \/ (v \in passedBy[u] /\ v # w)
      BY <1>3, <2>1, <2>5, <3>1
    <3>3. QED
      BY <2>4, <3>1, <3>2 DEF PassedInv
  <2>6. waitStart' = back
    BY <2>1, <2>2
  <2>7. QED
    BY <1>2, <2>5, <2>6 DEF PassedInv
<1>6. QED
  BY <1>1, <1>4, <1>5, WhoIsStarted

LEMMA NobodyIsPassedTwice ==
  ASSUME ServerInv, PassedInv, NextWithHistory
  PROVE  \A u \in ReadyUsers \ StartedUsers : StartedUsers \cap passedBy[u] = {}
<1>1. MatchesInv /\ Next
  BY DEF ServerInv, NextWithHistory
<1>2. SUFFICES ASSUME NEW u \in ReadyUsers, u \notin StartedUsers,
                      NEW v \in StartedUsers, v \in passedBy[u]
               PROVE  FALSE
  OBVIOUS
<1>3. PICK e : /\ StartsRun(e) /\ e \in DOMAIN matches.data
               /\ StartedUsers = {matches.data[e].user}
  BY <1>1, <1>2, WhoIsStarted
<1>4. PICK f \in RunnableMatches : u = matches.data[f].user
  BY <1>2 DEF ReadyUsers
<1>5. v = matches.data[e].user /\ u # v /\ f # e
  BY <1>2, <1>3, <1>4
<1>6. Before(waitStart, v, u)
  BY <1>3, <1>4, <1>5 DEF StartsRun, Best, Precedes
<1>7. u \in Users
  BY <1>1, <1>4, MatchFacts, MatchesInUse DEF RunnableMatches
<1>8. Before(waitStart, u, v)
  BY <1>2, <1>7 DEF PassedInv
<1>9. QED
  BY <1>1, <1>6, <1>8, BeforeIsAnOrder

(* startMatchJob() takes the user that has waited longest: nobody gets two *)
(* runs while somebody else could have had one all along.                  *)
THEOREM UsersTakeTurns == SpecWithHistory => TakesTurns
<1>1. InitWithHistory => PassedInv
  BY DEF InitWithHistory, PassedInv
<1>2. ServerInv /\ PassedInv /\ [NextWithHistory]_hvars => PassedInv'
  <2>1. ASSUME PassedInv, UNCHANGED hvars PROVE PassedInv'
    BY <2>1 DEF PassedInv, hvars, vars, server
  <2>2. QED
    BY <2>1, PassingGoesOn
<1>3. ServerInv /\ PassedInv /\ [NextWithHistory]_hvars
        => [\A u \in ReadyUsers \ StartedUsers : StartedUsers \cap passedBy[u] = {}]_hvars
  BY NobodyIsPassedTwice
<1>4. QED
  BY <1>1, <1>2, <1>3, ServerInvHolds, HistoryWatches, PTL DEF SpecWithHistory, TakesTurns

-----------------------------------------------------------------------------
(* The server implements the queue of MatchQueue.                          *)

Here == {conns.data[c].connBuf : c \in {d \in Entries(conns) : conns.data[d].status = "okay"}}

UsesAny(m) == \E p \in DOMAIN m.players : m.players[p] # Bot

RequestIn(e) ==
  IF e \notin Entries(matches) THEN {}
  ELSE {[needs |-> IF UsesAny(matches.data[e]) THEN askedBy[e] ELSE {},
         left |-> matches.data[e].numRuns, running |-> matches.data[e].isRunning]}

QueueNow == [e \in Slots |-> RequestIn(e)]

(* What each step of the queue means for the server's variables.           *)
LEMMA ArriveIs ==
  ASSUME NEW s, Here' = Here \cup {s}, \A e \in Slots : RequestIn(e)' = RequestIn(e)
  PROVE  Queue!Arrive(s)
BY DEF Queue!Arrive, Here, RequestIn, UsesAny

LEMMA LeaveIs ==
  ASSUME NEW s, Here' = Here \ {s},
         \A e \in Slots : RequestIn(e)' =
           {IF s \in r.needs THEN [r EXCEPT !.left = 0] ELSE r : r \in RequestIn(e)}
  PROVE  Queue!Leave(s)
BY DEF Queue!Leave, Here, RequestIn, UsesAny

LEMMA AskIs ==
  ASSUME NEW s \in Here, NEW e \in Slots, NEW n, NEW needs \in SUBSET {s},
         Here' = Here, RequestIn(e) = {},
         \A d \in Slots : RequestIn(d)' =
           IF d = e THEN {[needs |-> needs, left |-> n, running |-> FALSE]} ELSE RequestIn(d)
  PROVE  Queue!Ask(e, s, n)
<1>1. QueueNow[e] = Queue!Free /\ s \in Here /\ Here' = Here
  BY DEF QueueNow, Queue!Free
<1>2. QueueNow' = [QueueNow EXCEPT ![e] = {Queue!Queued(needs, n)}]
  BY DEF QueueNow, Queue!Queued
<1>3. QED
  BY <1>1, <1>2 DEF Queue!Ask, Here, QueueNow, RequestIn, UsesAny

LEMMA StartIs ==
  ASSUME NEW done \in SUBSET Slots, NEW started \in SUBSET Slots, Here' = Here,
         \A e \in done : \E r \in RequestIn(e) : ~r.running /\ r.left = 0,
         \A e \in started : \E r \in RequestIn(e) :
           ~r.running /\ r.left > 0 /\ r.needs \subseteq Here,
         \A e \in Slots : RequestIn(e)' =
           IF e \in done THEN {}
           ELSE IF e \in started
             THEN {[r EXCEPT !.running = TRUE, !.left = @ - 1] : r \in RequestIn(e)}
           ELSE RequestIn(e)
  PROVE  Queue!Start(done, started)
BY DEF Queue!Start, Queue!Free, Here, RequestIn, UsesAny

LEMMA FinishIs ==
  ASSUME NEW ended \in SUBSET Slots, Here' = Here,
         \A e \in ended : \E r \in RequestIn(e) : r.running,
         \A e \in Slots : RequestIn(e)' =
           IF e \in ended THEN {[r EXCEPT !.running = FALSE] : r \in RequestIn(e)}
           ELSE RequestIn(e)
  PROVE  Queue!Finish(ended)
BY DEF Queue!Finish, Here, RequestIn, UsesAny

LEMMA StutterIs ==
  ASSUME Here' = Here, \A e \in Slots : RequestIn(e)' = RequestIn(e)
  PROVE  UNCHANGED Queue!vars
BY DEF Queue!vars, Here, RequestIn, UsesAny

LEMMA QueueStarts ==
  ASSUME InitWithHistory
  PROVE  Queue!Init
<1>1. Entries(matches) = {} /\ Entries(conns) = {}
  BY NewPool DEF InitWithHistory, Init
<1>2. Here = {} /\ \A e \in Slots : RequestIn(e) = {}
  BY <1>1 DEF Here, RequestIn
<1>3. QED
  BY <1>2 DEF Queue!Init, Queue!Free, Here, RequestIn, UsesAny

LEMMA HereSame ==
  ASSUME SameClients
  PROVE  Here' = Here
BY DEF SameClients, Here

LEMMA RequestsSame ==
  ASSUME matches' = matches, SlotsKept
  PROVE  \A e \in Slots : RequestIn(e)' = RequestIn(e)
BY DEF SlotsKept, RequestIn

LEMMA LogOnArrives ==
  ASSUME ServerInv, SlotsKept, NEW c \in Entries(conns), LogOn(c)
  PROVE  \E s \in Sessions : Queue!Arrive(s)
<1>1. NetInv /\ ConnsInv
  BY DEF ServerInv
<1>2. PICK s \in Sessions : s = conns.data[c].connBuf
  BY <1>1, ConnOf
<1>3. Here' = Here \cup {s}
  BY <1>1, <1>2, LoggedOn DEF Here
<1>4. matches' = matches
  BY DEF LogOn
<1>5. \A e \in Slots : RequestIn(e)' = RequestIn(e)
  BY <1>4, RequestsSame
<1>6. QED
  BY <1>3, <1>5, ArriveIs

LEMMA CloseLeaves ==
  ASSUME ServerInv, NoStaleConnection, SlotsKept, NEW c \in Entries(conns), closeConnection(c)
  PROVE  \E s \in Sessions : Queue!Leave(s)
<1>1. NetInv /\ ConnsInv /\ MatchesInv
  BY DEF ServerInv
<1>2. PICK s \in Sessions : s = conns.data[c].connBuf
  BY <1>1, ConnOf
<1>3. \A d \in Entries(conns) : conns.data[d].connBuf = s => d = c
  BY <1>1, <1>2 DEF ConnsInv
<1>4. Here' = Here \ {s}
  <2>1. /\ Entries(conns') = Entries(conns) /\ conns'.data[c].status # "okay"
        /\ \A d \in Entries(conns) : d # c => conns'.data[d] = conns.data[d]
    BY <1>1, ConnectionCloses
  <2>2. Here' = {conns'.data[d].connBuf : d \in {f \in Entries(conns') :
                                                   conns'.data[f].status = "okay"}}
    BY DEF Here
  <2>3. QED
    BY <1>2, <1>3, <2>1, <2>2 DEF Here
<1>5. c # Bot
  BY <1>1, PoolFacts DEF ConnsInv, Bot
<1>6. ASSUME NEW e \in Slots
      PROVE  RequestIn(e)' =
               {IF s \in r.needs THEN [r EXCEPT !.left = 0] ELSE r : r \in RequestIn(e)}
  <2>1. Entries(matches') = Entries(matches)
    BY <1>1, MatchesGivenUp
  <2>2. CASE e \notin Entries(matches)
    BY <2>1, <2>2 DEF RequestIn
  <2>3. CASE e \in Entries(matches)
    <3>1. PICK m \in MatchRecord : m = matches.data[e]
      BY <1>1, <2>3, MatchFacts, MatchesInUse
    <3>2. matches'.data[e] = IF matchUsesConnection(m, c) THEN [m EXCEPT !.numRuns = 0] ELSE m
      BY <1>1, <2>3, <3>1, MatchesGivenUp, MatchesInUse
    <3>3. PICK needs : needs = IF UsesAny(m) THEN askedBy[e] ELSE {}
      OBVIOUS
    <3>4. RequestIn(e) = {[needs |-> needs, left |-> m.numRuns, running |-> m.isRunning]}
      BY <2>3, <3>1, <3>3 DEF RequestIn
    <3>5. PICK k : k = IF matchUsesConnection(m, c) THEN 0 ELSE m.numRuns
      OBVIOUS
    <3>6. RequestIn(e)' = {[needs |-> needs, left |-> k, running |-> m.isRunning]}
      <4>1. PICK n : n = matches'.data[e]
        OBVIOUS
      <4>2. n.players = m.players /\ n.numRuns = k /\ n.isRunning = m.isRunning
        BY <3>2, <3>5, <4>1 DEF MatchRecord
      <4>3. askedBy'[e] = askedBy[e]
        BY <2>1, <2>3 DEF SlotsKept
      <4>4. UsesAny(n) = UsesAny(m)
        BY <4>2 DEF UsesAny
      <4>5. RequestIn(e)' = {[needs |-> IF UsesAny(n) THEN askedBy'[e] ELSE {},
                              left |-> n.numRuns, running |-> n.isRunning]}
        BY <2>1, <2>3, <4>1 DEF RequestIn, UsesAny
      <4>6. QED
        BY <3>3, <4>2, <4>3, <4>4, <4>5
    <3>7. m.numRuns > 0 => (matchUsesConnection(m, c) <=> s \in needs)
      <4>1. SUFFICES ASSUME m.numRuns > 0
                     PROVE  matchUsesConnection(m, c) <=> s \in needs
        OBVIOUS
      <4>2. \A p \in DOMAIN m.players : m.players[p] # Bot =>
              /\ m.players[p] \in Entries(conns)
              /\ {conns.data[m.players[p]].connBuf} = askedBy[e]
        BY <2>3, <3>1, <4>1 DEF NoStaleConnection
      <4>3. QED
        BY <1>2, <1>3, <1>5, <3>3, <4>2 DEF UsesAny, matchUsesConnection
    <3>8. m.numRuns \in Nat
      BY <3>1 DEF MatchRecord
    <3>9. k = IF s \in needs THEN 0 ELSE m.numRuns
      BY <3>5, <3>7, <3>8
    <3>10. QED
      BY <3>4, <3>6, <3>9
  <2>4. QED
    BY <2>2, <2>3
<1>7. QED
  BY <1>4, <1>6, LeaveIs

Queued(needs, k, b) == [needs |-> needs, left |-> k, running |-> b]

LEMMA RunsChange ==
  ASSUME NEW needs, NEW k, NEW b
  PROVE  /\ [Queued(needs, k, b) EXCEPT !.running = FALSE] = Queued(needs, k, FALSE)
         /\ [Queued(needs, k, b) EXCEPT !.running = TRUE, !.left = k - 1]
              = Queued(needs, k - 1, TRUE)
<1> DEFINE fields == {"needs", "left", "running"}
           r == Queued(needs, k, b)
           f == [r EXCEPT !.running = FALSE]
           s == [r EXCEPT !.running = TRUE, !.left = k - 1]
<1>1. r = [x \in fields |-> r[x]] /\ r.needs = needs /\ r.left = k
  BY DEF Queued
<1> HIDE DEF r
<1>2. /\ f = [x \in fields |-> f[x]]
      /\ f.needs = needs /\ f.left = k /\ f.running = FALSE
  BY <1>1
<1>3. /\ s = [x \in fields |-> s[x]]
      /\ s.needs = needs /\ s.left = k - 1 /\ s.running = TRUE
  BY <1>1
<1> HIDE DEF f, s
<1>4. f = Queued(needs, k, FALSE)
  BY <1>2 DEF Queued
<1>5. s = Queued(needs, k - 1, TRUE)
  BY <1>3 DEF Queued
<1>6. QED
  BY <1>4, <1>5 DEF f, s, r

LEMMA StartedRun ==
  ASSUME NEW needs, NEW k
  PROVE  [Queued(needs, k, FALSE) EXCEPT !.running = TRUE, !.left = k - 1]
           = Queued(needs, k - 1, TRUE)
BY RunsChange, Zenon

LEMMA RequestAsks ==
  ASSUME ServerInv, NEW c, RunMatches(c), EnoughSlots', NextWithHistory
  PROVE  \E e \in Slots, s \in Sessions, n \in UNION {0..maxMatchRuns[g] : g \in Games} :
           Queue!Ask(e, s, n)
<1>1. NetInv /\ ConnsInv /\ MatchesInv
  BY DEF ServerInv
<1>2. PICK line : /\ LineRead(c, line) /\ net' = SocketAfter(conns.data[c])
                  /\ conns' = [conns EXCEPT !.data[c] = AfterLine(c)]
                  /\ ready' \subseteq ready
  BY DEF RunMatches
<1>3. Here' = Here
  BY <1>1, <1>2, LineHandled, HereSame
<1>4. c \in Entries(conns) /\ \A d : Serving(d) <=> d = c
  BY <1>1, <1>2, ServesOne DEF LineRead
<1>5. PICK e \in Nat, u \in Users, r \in Requests :
        /\ e \notin Entries(matches) /\ Entries(matches') = Entries(matches) \cup {e}
        /\ conns.data[c].status = "okay"
        /\ matches'.data[e] = Match(u, r, c)
        /\ parseMatchSpec(r)
        /\ \A d \in DOMAIN matches.data : d # e => matches'.data[d] = matches.data[d]
  BY <1>1, MatchQueued
<1>6. PICK s \in Sessions : s = conns.data[c].connBuf
  BY <1>1, <1>4, ConnOf
<1>7. s \in Here
  BY <1>4, <1>5, <1>6 DEF Here
<1>8. /\ \A d \in Entries(matches) : askedBy'[d] = askedBy[d]
      /\ askedBy'[e] = {s}
  BY <1>4, <1>5, <1>6, HistoryOfSlots DEF SlotsKept
<1>9. \A d \in Entries(matches) : matches'.data[d] = matches.data[d]
  BY <1>1, <1>5, MatchesInUse
<1>10. e \in Slots
  BY <1>5 DEF EnoughSlots
<1>11. PICK needs : needs = IF UsesAny(Match(u, r, c)) THEN {s} ELSE {}
  OBVIOUS
<1>12. RequestIn(e)' = {[needs |-> needs, left |-> r.numRuns, running |-> FALSE]}
  <2>1. PICK m : m = Match(u, r, c)
    OBVIOUS
  <2>2. m.numRuns = r.numRuns /\ m.isRunning = FALSE
    BY <2>1 DEF Match
  <2>3. RequestIn(e)' = {[needs |-> IF UsesAny(m) THEN askedBy'[e] ELSE {},
                          left |-> m.numRuns, running |-> m.isRunning]}
    BY <1>5, <2>1 DEF RequestIn, UsesAny
  <2>4. QED
    BY <1>8, <1>11, <2>1, <2>2, <2>3
<1>13. \A d \in Slots \ {e} : RequestIn(d)' = RequestIn(d)
  BY <1>5, <1>8, <1>9 DEF RequestIn, UsesAny
<1>14. RequestIn(e) = {}
  BY <1>5 DEF RequestIn
<1>15. r.numRuns \in UNION {0..maxMatchRuns[g] : g \in Games}
  BY <1>5, RequestsAssumption, LimitsAssumption DEF parseMatchSpec
<1>16. Queue!Ask(e, s, r.numRuns)
  BY <1>3, <1>7, <1>10, <1>11, <1>12, <1>13, <1>14, AskIs
<1>17. QED
  BY <1>10, <1>15, <1>16

(* The matches whose job is over.                                          *)
EndedMatches ==
  {e \in Entries(matches) : /\ matches.data[e].isRunning
                            /\ \E j \in Entries(jobs) : /\ jobs.data[j].ended
                                                        /\ jobs.data[j].matchEntry = e}

LEMMA CleanUpFinishes ==
  ASSUME ServerInv, EnoughSlots, SlotsKept, CleanUp
  PROVE  \E ended \in SUBSET Slots : Queue!Finish(ended)
<1>1. NetInv /\ ConnsInv /\ MatchesInv
  BY DEF ServerInv
<1>2. EndedMatches \in SUBSET Slots
  BY DEF EndedMatches, EnoughSlots
<1>3. Here' = Here
  BY <1>1, ConnectionsCleanedUp DEF Here
<1>4. \A e \in EndedMatches : \E r \in RequestIn(e) : r.running
  BY DEF EndedMatches, RequestIn
<1>5. ASSUME NEW e \in Slots
      PROVE  RequestIn(e)' =
               IF e \in EndedMatches THEN {[r EXCEPT !.running = FALSE] : r \in RequestIn(e)}
               ELSE RequestIn(e)
  <2>1. Entries(matches') = Entries(matches)
    BY <1>1, MatchesFreed
  <2>2. CASE e \notin Entries(matches)
    BY <2>1, <2>2 DEF RequestIn, EndedMatches
  <2>3. CASE e \in Entries(matches)
    <3>1. PICK m \in MatchRecord : m = matches.data[e]
      BY <1>1, <2>3, MatchFacts, MatchesInUse
    <3>2. PICK b \in BOOLEAN : b = (/\ m.isRunning
                                    /\ \A j \in Entries(jobs) : jobs.data[j].ended =>
                                         jobs.data[j].matchEntry # e)
      OBVIOUS
    <3>3. PICK n : n = [m EXCEPT !.isRunning = b]
      OBVIOUS
    <3>4. matches'.data[e] = n
      BY <1>1, <2>3, <3>1, <3>2, <3>3, MatchesFreed, MatchesInUse
    <3>5. n.players = m.players /\ n.numRuns = m.numRuns /\ n.isRunning = b
      BY <3>3 DEF MatchRecord
    <3>6. PICK needs : needs = IF UsesAny(m) THEN askedBy[e] ELSE {}
      OBVIOUS
    <3>7. RequestIn(e) = {[needs |-> needs, left |-> m.numRuns, running |-> m.isRunning]}
      BY <2>3, <3>1, <3>6 DEF RequestIn
    <3>8. RequestIn(e)' = {[needs |-> needs, left |-> m.numRuns, running |-> b]}
      <4>1. askedBy'[e] = askedBy[e] /\ UsesAny(n) = UsesAny(m)
        BY <2>1, <2>3, <3>5 DEF SlotsKept, UsesAny
      <4>2. RequestIn(e)' = {[needs |-> IF UsesAny(n) THEN askedBy'[e] ELSE {},
                              left |-> n.numRuns, running |-> n.isRunning]}
        BY <2>1, <2>3, <3>4 DEF RequestIn, UsesAny
      <4>3. QED
        BY <3>5, <3>6, <4>1, <4>2
    <3>9. b = IF e \in EndedMatches THEN FALSE ELSE m.isRunning
      BY <2>3, <3>1, <3>2 DEF EndedMatches, MatchRecord
    <3>10. PICK r : r = [needs |-> needs, left |-> m.numRuns, running |-> m.isRunning]
      OBVIOUS
    <3>11. RequestIn(e) = {r}
      BY <3>7, <3>10
    <3>12. RequestIn(e)' = IF e \in EndedMatches THEN {[r EXCEPT !.running = FALSE]} ELSE {r}
      <4>1. [r EXCEPT !.running = FALSE]
              = [needs |-> needs, left |-> m.numRuns, running |-> FALSE]
        <5>1. r = Queued(needs, m.numRuns, m.isRunning)
          BY <3>10 DEF Queued
        <5>2. [r EXCEPT !.running = FALSE] = Queued(needs, m.numRuns, FALSE)
          BY <5>1, RunsChange
        <5>3. QED
          BY <5>2 DEF Queued
      <4>2. CASE e \in EndedMatches
        BY <3>8, <3>9, <4>1, <4>2
      <4>3. CASE e \notin EndedMatches
        BY <3>8, <3>9, <3>10, <4>3
      <4>4. QED
        BY <4>2, <4>3
    <3>13. QED
      BY <3>11, <3>12
  <2>4. QED
    BY <2>2, <2>3
<1>6. PICK ended \in SUBSET Slots : ended = EndedMatches
  BY <1>2
<1>7. Queue!Finish(ended)
  BY <1>3, <1>4, <1>5, <1>6, FinishIs
<1>8. QED
  BY <1>7

LEMMA FinishedAreDone ==
  ASSUME ServerInv
  PROVE  \A e \in FinishedMatches : \E r \in RequestIn(e) : ~r.running /\ r.left = 0
<1>1. MatchesInv
  BY DEF ServerInv
<1>2. \A e \in FinishedMatches : /\ e \in Entries(matches) /\ ~matches.data[e].isRunning
                                 /\ matches.data[e].numRuns = 0
  BY <1>1, MatchFacts, MatchesInUse DEF FinishedMatches, Finished
<1>3. QED
  BY <1>2 DEF RequestIn

LEMMA NothingStartsNothing ==
  ASSUME ServerInv, EnoughSlots, SlotsKept, NothingToStart
  PROVE  \E done \in SUBSET Slots : Queue!Start(done, {})
<1>1. /\ matches'.data = matches.data
      /\ Entries(matches') = Entries(matches) \ FinishedMatches
  BY NothingStarts DEF ServerInv
<1>2. Here' = Here
  BY DEF NothingToStart, Here
<1>3. FinishedMatches \in SUBSET Slots
  BY DEF FinishedMatches, EnoughSlots
<1>4. PICK done \in SUBSET Slots : done = FinishedMatches
  BY <1>3
<1>5. \A e \in Slots : RequestIn(e)' = IF e \in done THEN {} ELSE RequestIn(e)
  <2>1. TAKE e \in Slots
  <2>2. CASE e \in Entries(matches')
    <3>1. e \in Entries(matches) /\ e \notin done /\ askedBy'[e] = askedBy[e]
      BY <1>1, <1>4, <2>2 DEF SlotsKept
    <3>2. QED
      BY <1>1, <2>2, <3>1 DEF RequestIn, UsesAny
  <2>3. CASE e \notin Entries(matches')
    BY <1>1, <1>4, <2>3 DEF RequestIn
  <2>4. QED
    BY <2>2, <2>3
<1>6. \A e \in done : \E r \in RequestIn(e) : ~r.running /\ r.left = 0
  BY <1>4, FinishedAreDone
<1>7. {} \in SUBSET Slots /\ \A e \in {} : \E r \in RequestIn(e) :
        ~r.running /\ r.left > 0 /\ r.needs \subseteq Here
  OBVIOUS
<1>8. Queue!Start(done, {})
  BY <1>2, <1>5, <1>6, <1>7, StartIs
<1>9. QED
  BY <1>8

LEMMA RunIsStarted ==
  ASSUME ServerInv, NoStaleConnection, EnoughSlots, SlotsKept, StartMatchJob
  PROVE  \E done \in SUBSET Slots, e \in Slots : Queue!Start(done, {e})
<1>1. MatchesInv
  BY DEF ServerInv
<1>2. PICK e : StartsRun(e)
  BY <1>1, RunStarts
<1>3. Here' = Here
  BY DEF StartMatchJob, Here
<1>4. FinishedMatches \in SUBSET Slots
  BY DEF FinishedMatches, EnoughSlots
<1>5. /\ e \in Entries(matches) /\ e \in Slots /\ e \notin FinishedMatches
      /\ e \in Entries(matches') /\ Entries(matches') = Entries(matches) \ FinishedMatches
      /\ matches.data[e].numRuns > 0 /\ ~matches.data[e].isRunning
      /\ matches'.data[e] = RunStarted(matches.data[e])
      /\ \A d \in Entries(matches) : d # e => matches'.data[d] = matches.data[d]
  BY <1>1, <1>2, MatchesInUse DEF StartsRun, RunnableMatches, Runnable, EnoughSlots
<1>6. PICK m \in MatchRecord : m = matches.data[e]
  BY <1>1, <1>5, MatchFacts, MatchesInUse
<1>7. PICK needs : needs = IF UsesAny(m) THEN askedBy[e] ELSE {}
  OBVIOUS
<1>8. RequestIn(e) = {[needs |-> needs, left |-> m.numRuns, running |-> FALSE]}
  BY <1>5, <1>6, <1>7 DEF RequestIn, MatchRecord
<1>9. needs \subseteq Here
  <2>1. CASE UsesAny(m)
    <3>1. PICK p \in DOMAIN m.players : m.players[p] # Bot
      BY <2>1 DEF UsesAny
    <3>2. PICK c : c = m.players[p]
      OBVIOUS
    <3>3. /\ c \in Entries(conns) /\ conns.data[c].status = "okay"
          /\ {conns.data[c].connBuf} = askedBy[e]
      BY <1>5, <1>6, <3>1, <3>2 DEF NoStaleConnection
    <3>4. conns.data[c].connBuf \in Here
      BY <3>3 DEF Here
    <3>5. QED
      BY <1>7, <3>3, <3>4
  <2>2. CASE ~UsesAny(m)
    BY <1>7, <2>2
  <2>3. QED
    BY <2>1, <2>2
<1>10. RequestIn(e)' = {[needs |-> needs, left |-> m.numRuns - 1, running |-> TRUE]}
  <2>1. PICK n : n = RunStarted(m)
    OBVIOUS
  <2>2. n.players = m.players /\ n.numRuns = m.numRuns - 1 /\ n.isRunning = TRUE
    BY <2>1 DEF RunStarted, MatchRecord
  <2>3. askedBy'[e] = askedBy[e] /\ UsesAny(n) = UsesAny(m)
    BY <1>5, <2>2 DEF SlotsKept, UsesAny
  <2>4. RequestIn(e)' = {[needs |-> IF UsesAny(n) THEN askedBy'[e] ELSE {},
                          left |-> n.numRuns, running |-> n.isRunning]}
    BY <1>5, <1>6, <2>1 DEF RequestIn, UsesAny
  <2>5. QED
    BY <1>7, <2>2, <2>3, <2>4
<1>11. PICK done \in SUBSET Slots : done = FinishedMatches
  BY <1>4
<1>12. \A d \in Slots \ {e} : RequestIn(d)' = IF d \in done THEN {} ELSE RequestIn(d)
  <2>1. TAKE d \in Slots \ {e}
  <2>2. CASE d \in Entries(matches')
    <3>1. /\ d \in Entries(matches) /\ d \notin done /\ askedBy'[d] = askedBy[d]
          /\ matches'.data[d] = matches.data[d]
      BY <1>5, <1>11, <2>2 DEF SlotsKept
    <3>2. QED
      BY <2>2, <3>1 DEF RequestIn, UsesAny
  <2>3. CASE d \notin Entries(matches')
    BY <1>5, <1>11, <2>3 DEF RequestIn
  <2>4. QED
    BY <2>2, <2>3
<1>13. PICK r : r = [needs |-> needs, left |-> m.numRuns, running |-> FALSE]
  OBVIOUS
<1>14. RequestIn(e) = {r} /\ RequestIn(e)' = {[r EXCEPT !.running = TRUE, !.left = @ - 1]}
  <2>1. [r EXCEPT !.running = TRUE, !.left = @ - 1]
          = [needs |-> needs, left |-> m.numRuns - 1, running |-> TRUE]
    <3>1. PICK k : k = m.numRuns
      OBVIOUS
    <3>2. r = Queued(needs, k, FALSE) /\ r.left = k
      BY <1>13, <3>1 DEF Queued
    <3>3. [r EXCEPT !.running = TRUE, !.left = k - 1] = Queued(needs, k - 1, TRUE)
      <4>1. [Queued(needs, k, FALSE) EXCEPT !.running = TRUE, !.left = k - 1]
              = Queued(needs, k - 1, TRUE)
        BY StartedRun
      <4>2. QED
        BY <3>2, <4>1
    <3>4. QED
      BY <3>1, <3>2, <3>3 DEF Queued
  <2>2. QED
    BY <1>8, <1>10, <1>13, <2>1
<1>15. ~r.running /\ r.left > 0 /\ r.needs \subseteq Here
  BY <1>5, <1>6, <1>9, <1>13
<1>16. PICK started \in SUBSET Slots : started = {e}
  BY <1>5
<1>17. \A d \in Slots : RequestIn(d)' =
         IF d \in done THEN {}
         ELSE IF d \in started
           THEN {[q EXCEPT !.running = TRUE, !.left = @ - 1] : q \in RequestIn(d)}
         ELSE RequestIn(d)
  BY <1>5, <1>11, <1>12, <1>14, <1>16
<1>18. \A d \in started : \E q \in RequestIn(d) : ~q.running /\ q.left > 0 /\ q.needs \subseteq Here
  BY <1>14, <1>15, <1>16
<1>19. \A d \in done : \E q \in RequestIn(d) : ~q.running /\ q.left = 0
  BY <1>11, FinishedAreDone
<1>20. Queue!Start(done, started)
  BY <1>3, <1>17, <1>18, <1>19, StartIs
<1>21. QED
  BY <1>5, <1>16, <1>20

LEMMA HandlingIsAQueueStep ==
  ASSUME ServerInv, NoStaleConnection, NEW c \in Entries(conns), handleConnection(c),
         EnoughSlots', NextWithHistory
  PROVE  Queue!Next \/ UNCHANGED Queue!vars
<1>1. NetInv /\ ConnsInv /\ SlotsKept
  BY HistoryOfSlots DEF ServerInv
<1>2. ASSUME SameClients, matches' = matches PROVE UNCHANGED Queue!vars
  BY <1>1, <1>2, HereSame, RequestsSame, StutterIs
<1>3. ASSUME closeConnection(c) PROVE Queue!Next
  <2>1. PICK s \in Sessions : Queue!Leave(s)
    BY <1>1, <1>3, CloseLeaves
  <2>2. QED
    BY <2>1, SMT DEF Queue!Next
<1>4. CASE TakeHalf(c)
  BY <1>1, <1>2, <1>4, HalfTaken DEF TakeHalf
<1>5. CASE NoMoreInput(c)
  BY <1>1, <1>2, <1>5, NothingToRead DEF NoMoreInput
<1>6. CASE EndOfFile(c) \/ BadLogOn(c)
  BY <1>3, <1>6 DEF EndOfFile, BadLogOn
<1>7. CASE LogOn(c)
  <2>1. PICK s \in Sessions : Queue!Arrive(s)
    BY <1>1, <1>7, LogOnArrives
  <2>2. QED
    BY <2>1, SMT DEF Queue!Next
<1>8. CASE Info(c) \/ Refuse(c)
  <2>1. PICK line : /\ LineRead(c, line) /\ net' = SocketAfter(conns.data[c])
                    /\ conns' = [conns EXCEPT !.data[c] = AfterLine(c)]
                    /\ ready' \subseteq ready /\ matches' = matches
    BY <1>8 DEF Info, Refuse
  <2>2. QED
    BY <1>1, <1>2, <2>1, LineHandled
<1>9. CASE RunMatches(c)
  <2>1. PICK e \in Slots, s \in Sessions, n \in UNION {0..maxMatchRuns[g] : g \in Games} :
          Queue!Ask(e, s, n)
    BY <1>9, RequestAsks
  <2>2. QED
    BY <2>1, SMT DEF Queue!Next
<1>10. QED
  BY <1>4, <1>5, <1>6, <1>7, <1>8, <1>9 DEF handleConnection

LEMMA StepIsAQueueStep ==
  ASSUME ServerInv, NoStaleConnection, EnoughSlots, EnoughSlots', NextWithHistory
  PROVE  Queue!Next \/ UNCHANGED Queue!vars
<1>1. NetInv /\ ConnsInv /\ MatchesInv /\ SlotsKept /\ Next
  BY HistoryOfSlots DEF ServerInv, NextWithHistory
<1>2. CASE CleanUp
  <2>1. PICK ended \in SUBSET Slots : Queue!Finish(ended)
    BY <1>1, <1>2, CleanUpFinishes
  <2>2. QED
    BY <2>1, SMT DEF Queue!Next
<1>3. CASE StartMatchJob
  <2>1. PICK done \in SUBSET Slots, e \in Slots : Queue!Start(done, {e})
    BY <1>1, <1>3, RunIsStarted
  <2>2. PICK started \in {{}} \cup {{d} : d \in Slots} : started = {e}
    BY <2>1
  <2>3. QED
    BY <2>1, <2>2, SMT DEF Queue!Next
<1>4. CASE NothingToStart
  <2>1. PICK done \in SUBSET Slots : Queue!Start(done, {})
    BY <1>1, <1>4, NothingStartsNothing
  <2>2. PICK started \in {{}} \cup {{d} : d \in Slots} : started = {}
    OBVIOUS
  <2>3. QED
    BY <2>1, <2>2, SMT DEF Queue!Next
<1>5. CASE Select
  <2>1. Here' = Here
    <3>1. CASE SameClients
      BY <3>1, HereSame
    <3>2. CASE \E c : /\ c \notin Entries(conns) /\ Entries(conns)' = Entries(conns) \cup {c}
                      /\ conns'.data[c].status = "unvalidated"
                      /\ \A d \in Entries(conns) : conns'.data[d] = conns.data[d]
      BY <3>2 DEF Here
    <3>3. QED
      BY <1>1, <1>5, <3>1, <3>2, SessionsSelected
  <2>2. matches' = matches
    BY <1>5 DEF Select
  <2>3. QED
    BY <1>1, <2>1, <2>2, RequestsSame, StutterIs
<1>6. CASE \E c \in Entries(conns) : handleConnection(c)
  BY <1>6, HandlingIsAQueueStep
<1>7. CASE DealerDoesNotStart \/ Environment
  <2>1. matches' = matches /\ conns' = conns
    BY <1>7 DEF DealerDoesNotStart, Environment, JobEnds, Connect, SendLine, SendHalf,
                SendRest, Close, server
  <2>2. Here' = Here
    BY <2>1 DEF Here
  <2>3. QED
    BY <1>1, <2>1, <2>2, RequestsSame, StutterIs
<1>8. QED
  BY <1>1, <1>2, <1>3, <1>4, <1>5, <1>6, <1>7 DEF Next, ServerStep

LEMMA NothingHappens ==
  ASSUME UNCHANGED hvars
  PROVE  UNCHANGED Queue!vars
<1>1. matches' = matches /\ conns' = conns /\ askedBy' = askedBy
  BY DEF hvars, vars, server
<1>2. Here' = Here /\ SlotsKept
  BY <1>1 DEF Here, SlotsKept
<1>3. QED
  BY <1>1, <1>2, RequestsSame, StutterIs

(* The server keeps what MatchQueue promises those that ask for matches:   *)
(* a request is played at most as often as it says, one run at a time, and *)
(* not once a client that it needs has left.                               *)
THEOREM ServerImplementsQueue == SpecWithHistory /\ []EnoughSlots => ImplementsQueue
<1>1. InitWithHistory => Queue!Init
  BY QueueStarts
<1>2. ServerInv /\ NoStaleConnection /\ EnoughSlots /\ EnoughSlots' /\ [NextWithHistory]_hvars
        => Queue!Next \/ UNCHANGED Queue!vars
  BY StepIsAQueueStep, NothingHappens
<1>3. QED
  BY <1>1, <1>2, ServerInvHolds, HistoryWatches, NoConnectionIsStale, PTL
  DEF SpecWithHistory, ImplementsQueue, Queue!Spec
=============================================================================
