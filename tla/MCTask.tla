------------------------------- MODULE MCTask --------------------------------
(* Instances of Task for TLC.                                               *)
EXTENDS Task, TLC

CONSTANTS p1, p2

MCProcs    == {p1, p2}
MCCouncils == {1, 2}
MCPlans    == {1, 2}
MCVerified == {1}

Agent(calls) == p1 :> calls @@ p2 :> {}
Ask(c, r)    == [class |-> c, required |-> r]

(* The rounds of a plan council up to its end, with hard gates and crashes. *)
MCRounds ==
  [does |-> Agent({"council", "reconcile"}), stops |-> TRUE, begun |-> TRUE,
   asks |-> {Ask("technical", TRUE)}, phases |-> {"plan"}, councils |-> {1},
   plans |-> {1}, scopes |-> {TRUE}, faults |-> {"gate"}, posts |-> 0,
   numbers |-> 1 :> 3 @@ 2 :> 0, extra |-> 0]

(* The attempts of a round about two packets: failures, crashes, grants.    *)
MCAttempts ==
  [MCRounds EXCEPT !.does = Agent({"council"}), !.plans = {1, 2},
                   !.asks = {Ask("technical", TRUE), Ask("standard", TRUE)},
                   !.faults = {"call", "gate"}, !.posts = 1, !.extra = 1,
                   !.numbers = 1 :> 2 @@ 2 :> 0]

(* An item from its start, which may die half-way, to complete.             *)
MCVerify ==
  [MCRounds EXCEPT !.does = Agent({"start", "council", "reconcile", "complete"}),
                   !.asks = {Ask("technical", TRUE), Ask("technical", FALSE)},
                   !.begun = FALSE, !.phases = {"verify"}, !.scopes = BOOLEAN,
                   !.faults = {}, !.numbers = 1 :> 2 @@ 2 :> 0]

(* Every command about an item whose plan council escalates.                *)
MCGate ==
  [MCRounds EXCEPT !.does = Agent(Calls), !.begun = FALSE, !.scopes = BOOLEAN,
                   !.faults = {"call", "gate"}, !.posts = 2,
                   !.numbers = 1 :> 1 @@ 2 :> 0]

(* One process runs councils while another one completes or closes.         *)
MCBoth ==
  [MCRounds EXCEPT !.does = p1 :> {"council", "reconcile"} @@
                            p2 :> {"complete", "operator"},
                   !.stops = FALSE, !.phases = Phases, !.councils = {1, 2},
                   !.faults = {}, !.posts = 1, !.numbers = 1 :> 1 @@ 2 :> 1]

MCSetups == {MCRounds, MCAttempts, MCVerify, MCGate, MCBoth}
==============================================================================
