------------------------------ MODULE MCServer -------------------------------
(* Instances of Server for TLC.                                             *)
EXTENDS Server, TLC

CONSTANTS h1, h2, p1, p2, p3, k, none, a, b, i

MCHandlers == {h1, h2}
MCProcs    == {p1, p2, p3}
MCPid      == p1 :> 1 @@ p2 :> 1 @@ p3 :> 2

Post(key, text) == [key |-> key, text |-> text]

(* Two processes after one another, and the requests they serve.            *)
MCServe == [procs |-> {p1, p2}, together |-> FALSE, shares |-> FALSE, stops |-> 0,
            requests |-> {Post(k, a), Post(k, b), Post(none, a)}]

(* Starts and stops, where a port may be bound twice ...                    *)
MCStops == [procs |-> MCProcs, together |-> FALSE, shares |-> TRUE, stops |-> 3,
            requests |-> {}]

(* ... and where two start at the same time.                                *)
MCRace  == [MCStops EXCEPT !.together = TRUE, !.shares = FALSE]

MCSetups == {MCServe, MCStops, MCRace}
==============================================================================
