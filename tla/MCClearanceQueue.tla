-------------------------- MODULE MCClearanceQueue ---------------------------
(* Instances of ClearanceQueue for TLC.                                     *)
EXTENDS ClearanceQueue

CONSTANTS operator, arbiter, w1, w2

MCAgents == {operator, arbiter, w1, w2}

(* The commands of the four agents.                                         *)
Roles(o, a, x, y) ==
  [g \in MCAgents |-> CASE g = operator -> o [] g = arbiter -> a
                        [] g = w1 -> x [] g = w2 -> y]

MCWork   == {"claim", "complete", "fail"}
MCRule   == {"cta", "rfi", "dta"}
MCDecide == MCRule \cup {"request"}

(* One operator who requests and decides, two workers.                      *)
MCTeam  == Roles(MCDecide, {}, MCWork, MCWork)
(* Two deciders, one of whom also requests, and one worker.                 *)
MCPanel == Roles(MCDecide, MCRule, MCWork, {})
(* One requests, one decides, and two race to claim.                        *)
MCRace  == Roles(MCRule, {"request"}, {"claim"}, {"claim"})
(* Two who clear, and two workers.                                          *)
MCCrowd == Roles({"request", "cta"}, {"cta"}, {"claim", "complete"}, {"claim", "complete"})

Clean(roles)  == [does |-> roles, faults |-> {}]
Faulty(roles) == [does |-> roles, faults |-> FaultKinds]

MCSetups == {Faulty(MCTeam), Clean(MCTeam), Faulty(MCPanel), Clean(MCRace)}
MCClean  == {Clean(MCCrowd)}
==============================================================================
