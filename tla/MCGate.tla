------------------------------- MODULE MCGate --------------------------------
(* Instances of Gate for TLC.                                               *)
EXTENDS Gate, TLC

CONSTANTS p1, p2

MCProcs    == {p1, p2}
MCCouncils == {1, 2}

(* One process that does everything and may stop anywhere; an agent beside  *)
(* the operator; two agents and nobody who resolves.                        *)
MCSerial == [does |-> p1 :> Calls @@ p2 :> {}, stops |-> TRUE, posts |-> 2]
MCBeside == [does |-> p1 :> {"advance", "round"} @@ p2 :> {"grant"},
             stops |-> FALSE, posts |-> 2]
MCAgents == [does |-> p1 :> {"round"} @@ p2 :> {"advance"},
             stops |-> FALSE, posts |-> 0]
MCSetups == {MCSerial, MCBeside, MCAgents}

(* Two agents that both pass preflights.                                    *)
MCRacing == {[does |-> p1 :> {"advance", "round"} @@ p2 :> {"advance"},
              stops |-> FALSE, posts |-> 0]}
==============================================================================
