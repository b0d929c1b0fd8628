-------------------------- MODULE DeepStackRestart --------------------------
(***************************************************************************)
(* A match that is taken up again.  When the dealer or a player fails, the *)
(* others lose their connections and stop as well; the dealer, started     *)
(* again with its transaction file, is back in the state it was in (see    *)
(* Dealer), and sends it to players that have just been started.           *)
(***************************************************************************)
EXTENDS DeepStackProperties

Restart ==
  /\ ~state.finished
  /\ inbox' = <<Message(state, me, hand)>>
  /\ answer' = <<>>
  /\ ds' = JustStarted
  /\ UNCHANGED <<hand, me, state, played, since>>

NextWithRestarts == Next \/ Restart

SpecWithRestarts == Init /\ [][NextWithRestarts]_vars

(* continual_resolving.lua:63: where DeepStack uses the strategy that it   *)
(* computed for the first node of the game when it started, "no need to    *)
(* update an invariant since this is the very first situation".            *)
FirstStrategyAtFirstNode ==
  answer # <<>> /\ ds.position = P1 /\ ds.decision_id = 1 => ds.last_node = FirstNode
=============================================================================
