------------------------------- MODULE Egress --------------------------------
(****************************************************************************)
(* What the egress guard lets out: the sensitivity of a packet is the       *)
(* greatest among everything it is built from, and no declaration lowers    *)
(* it.  A lineage graph has one node per source and one per text generated  *)
(* from sources; the packet is a node over all of them.                     *)
(*                                                                          *)
(* Abstracted: what makes a file verified (tracked, committed, in an        *)
(* approved path, unchanged at the send) and a text clean (the scanners)    *)
(* is an attribute of the node.  Left out: the sanitizer and its            *)
(* derivatives, which no council uses.                                      *)
(****************************************************************************)
EXTENDS Integers, FiniteSets, FiniteSetsExt

(* The lattice of sensitivities.                                            *)
Standard  == 0
Technical == 1
Sensitive == 2

(* "verified" and "unverified" sources, the fixed "scaffold" of the         *)
(* technical lane, a text generated from other nodes that "passed" its scan *)
(* or did not, and an "assembly" that adds nothing of its own.              *)
Kinds == {"verified", "unverified", "scaffold", "passed", "unscanned", "assembly"}

(* A graph is a function from names to nodes.                               *)
Node(k, s) == [kind |-> k, from |-> s]

(* The least sensitivity that a node of kind k has.                         *)
Own(k) == CASE k \in {"verified", "assembly"} -> Standard
            [] k \in {"scaffold", "passed"} -> Technical
            [] k \in {"unverified", "unscanned"} -> Sensitive

(* resolve_sensitivity: the greatest of the node's own and of all its       *)
(* sources, for a graph without cycles.                                     *)
Level(g) == LET level[n \in DOMAIN g] ==
                  Max({Own(g[n].kind)} \cup {level[s] : s \in g[n].from})
            IN  level

(* A source that is not in the graph stops every send.                      *)
Whole(g) == \A n \in DOMAIN g : g[n].from \subseteq DOMAIN g

(* decide_outcome: what is sensitive stays, and what is technical leaves in *)
(* its own lane.                                                            *)
Decided(level, class) == /\ level # Sensitive
                         /\ level = Technical => class = "technical"

(* EgressContext.resolve, for a packet of a declared class.  Under          *)
(* "sensitive" only a canonical derivative leaves, and a review packet is   *)
(* none.                                                                    *)
Cleared(g, packet, class) == /\ Whole(g)
                             /\ class # "sensitive"
                             /\ Decided(Level(g)[packet], class)
==============================================================================
