----------------------------- MODULE MCBmServer -----------------------------
(***************************************************************************)
(* A small benchmark server for model checking.                            *)
(***************************************************************************)
EXTENDS BmServerProperties

CONSTANTS Ann, Bob, Limit, NoLimit, s1, s2

TwoRuns == [g \in Games |-> 2]

(* One match of the first game at a time; no limit on the other.           *)
OneOfLimit == [g \in Games |-> IF g = Limit THEN 1 ELSE 0]

Req(game, runs, local0, local1) ==
  [game |-> game, numRuns |-> runs,
   local |-> [p \in 0..1 |-> IF p = 0 THEN local0 ELSE local1]]

AgainstBot == Req(Limit, 2, TRUE, FALSE)
BotsOnly   == Req(NoLimit, 1, FALSE, FALSE)
TooMany    == Req(Limit, 3, FALSE, TRUE)

SomeRequests == {AgainstBot, BotsOnly, TooMany}

LogsOn(user) == [type |-> "logon", user |-> user]
Asks(request) == [type |-> "runMatches", request |-> request]

(* Two clients that log on, one of which may mistype, and ask for a match. *)
Dialogues ==
  [s \in {s1, s2} |->
     IF s = s1
       THEN <<{LogsOn(Ann), [type |-> "unknown"]}, {Asks(AgainstBot)}>>
       ELSE <<{LogsOn(Bob)},
              {[type |-> "info"], Asks(AgainstBot), Asks(BotsOnly), Asks(TooMany)}>>]
=============================================================================
