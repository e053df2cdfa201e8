---------------------------- MODULE EgressProofs -----------------------------
(****************************************************************************)
(* What Level computes, and that no reviewer is shown what is sensitive.    *)
(* Level is a recursive function, defined whatever the graph; here it is    *)
(* shown to be what the recursion says for every graph whose nodes can be   *)
(* ranked by four levels above their sources, as those are that a council   *)
(* builds, and that no node is below what it comes from.                    *)
(****************************************************************************)
EXTENDS TaskProofs

Levels == {Standard, Technical, Sensitive}

(* One application of the recursion to a guess h.                           *)
Pass(g, h) == [n \in DOMAIN g |-> Max({Own(g[n].kind)} \cup {h[s] : s \in g[n].from})]

(* rank puts every node above its sources.                                  *)
Ranked(g, rank) ==
  /\ rank \in [DOMAIN g -> 0..3]
  /\ \A n \in DOMAIN g : /\ g[n].kind \in Kinds
                         /\ g[n].from \subseteq DOMAIN g
                         /\ \A s \in g[n].from : rank[s] < rank[n]

(* h is right about the nodes below rank k.                                 *)
Right(g, rank, h, k) == \A n \in DOMAIN g : rank[n] < k => Pass(g, h)[n] = h[n]

LEMMA RightPass ==
  ASSUME NEW g, NEW rank, Ranked(g, rank), NEW k \in 0..3, NEW h, Right(g, rank, h, k)
  PROVE  Right(g, rank, Pass(g, h), k + 1)
<1> DEFINE i == Pass(g, h)
<1> SUFFICES ASSUME NEW n \in DOMAIN g, rank[n] < k + 1 PROVE Pass(g, i)[n] = i[n]
  BY DEF Right
<1>1. \A s \in g[n].from : s \in DOMAIN g /\ rank[s] < k
  BY DEF Ranked
<1>2. \A s \in g[n].from : i[s] = h[s]
  BY <1>1 DEF Right
<1>3. {i[s] : s \in g[n].from} = {h[s] : s \in g[n].from}
  BY <1>2
<1> HIDE DEF i
<1>4. Pass(g, i)[n] = Max({Own(g[n].kind)} \cup {i[s] : s \in g[n].from})
  BY DEF Pass
<1>5. i[n] = Max({Own(g[n].kind)} \cup {h[s] : s \in g[n].from})
  BY DEF Pass, i
<1> QED BY <1>3, <1>4, <1>5

(* So four passes over any guess find a solution, and Level is one.         *)
LEMMA LevelUnfolds ==
  ASSUME NEW g, NEW rank, Ranked(g, rank)
  PROVE  Level(g) = Pass(g, Level(g))
<1> DEFINE h0 == [n \in DOMAIN g |-> Standard]
           h1 == Pass(g, h0)
           h2 == Pass(g, h1)
           h3 == Pass(g, h2)
           h4 == Pass(g, h3)
<1>0. Right(g, rank, h0, 0)
  BY DEF Right, Ranked
<1> HIDE DEF h0
<1>1. Right(g, rank, h1, 1)
  <2>1. Right(g, rank, Pass(g, h0), 0 + 1)
    BY <1>0, RightPass
  <2> QED BY <2>1
<1> HIDE DEF h1
<1>2. Right(g, rank, h2, 2)
  <2>1. Right(g, rank, Pass(g, h1), 1 + 1)
    BY <1>1, RightPass
  <2> QED BY <2>1
<1> HIDE DEF h2
<1>3. Right(g, rank, h3, 3)
  <2>1. Right(g, rank, Pass(g, h2), 2 + 1)
    BY <1>2, RightPass
  <2> QED BY <2>1
<1>4. DOMAIN h4 = DOMAIN g
  BY DEF Pass
<1> HIDE DEF h3
<1>5. Right(g, rank, h4, 4)
  <2>1. Right(g, rank, Pass(g, h3), 3 + 1)
    BY <1>3, RightPass
  <2> QED BY <2>1
<1>6. h4 = Pass(g, h4)
  <2>1. \A n \in DOMAIN g : Pass(g, h4)[n] = h4[n]
    BY <1>5 DEF Right, Ranked
  <2>2. h4 = [n \in DOMAIN g |-> h4[n]]
    BY DEF Pass
  <2>3. Pass(g, h4) = [n \in DOMAIN g |-> Pass(g, h4)[n]]
    BY DEF Pass
  <2> QED BY <2>1, <2>2, <2>3
<1> HIDE DEF h4
<1>7. PICK f : f = [n \in DOMAIN g |-> Max({Own(g[n].kind)} \cup {f[s] : s \in g[n].from})]
  BY <1>6 DEF Pass
<1>8. Level(g) = [n \in DOMAIN g |->
                    Max({Own(g[n].kind)} \cup {Level(g)[s] : s \in g[n].from})]
  BY <1>7 DEF Level
<1> QED BY <1>8 DEF Pass

LEMMA MaxOfLevels ==
  ASSUME NEW S, S \subseteq Levels, S # {}
  PROVE  Max(S) \in S /\ \A x \in S : x <= Max(S)
<1>1. \E x \in S : \A y \in S : x >= y
  <2>1. ASSUME 2 \in S PROVE \A y \in S : 2 >= y
    BY DEF Levels, Standard, Technical, Sensitive
  <2>2. ASSUME 2 \notin S, 1 \in S PROVE \A y \in S : 1 >= y
    BY <2>2 DEF Levels, Standard, Technical, Sensitive
  <2>3. ASSUME 2 \notin S, 1 \notin S PROVE 0 \in S /\ \A y \in S : 0 >= y
    <3>1. \A y \in S : y = 0
      BY <2>3 DEF Levels, Standard, Technical, Sensitive
    <3> QED BY <3>1
  <2> QED BY <2>1, <2>2, <2>3
<1>2. Max(S) \in S /\ \A y \in S : Max(S) >= y
  BY <1>1, Zenon DEF Max
<1>3. \A x \in S, y \in S : x >= y <=> y <= x
  BY DEF Levels, Standard, Technical, Sensitive
<1> QED BY <1>2, <1>3

LEMMA OwnType == \A k \in Kinds : Own(k) \in Levels
BY DEF Own, Kinds, Levels

(* The level of a node is a level, at least its own and each of its         *)
(* sources': nothing in the lineage is declared away (resolve_sensitivity). *)
THEOREM LevelIsAbove ==
  ASSUME NEW g, NEW rank, Ranked(g, rank), NEW n \in DOMAIN g
  PROVE  /\ Level(g)[n] \in Levels
         /\ Own(g[n].kind) <= Level(g)[n]
         /\ \A s \in g[n].from : Level(g)[s] <= Level(g)[n]
<1> DEFINE L == Level(g)
           From(x) == {Own(g[x].kind)} \cup {L[s] : s \in g[x].from}
           Typed(k) == \A x \in DOMAIN g : rank[x] < k => L[x] \in Levels
<1>1. \A x \in DOMAIN g : L[x] = Max(From(x))
  <2>1. L = Pass(g, L)
    BY LevelUnfolds
  <2> HIDE DEF L
  <2>2. \A x \in DOMAIN g : Pass(g, L)[x] = Max(From(x))
    BY DEF Pass
  <2> QED BY <2>1, <2>2
<1> HIDE DEF L
<1>2. ASSUME NEW k \in 0..3, Typed(k) PROVE Typed(k + 1)
  <2> SUFFICES ASSUME NEW x \in DOMAIN g, rank[x] < k + 1 PROVE L[x] \in Levels
    OBVIOUS
  <2>1. \A s \in g[x].from : s \in DOMAIN g /\ rank[s] < k
    BY DEF Ranked
  <2>2. From(x) \subseteq Levels /\ From(x) # {}
    BY <1>2, <2>1, OwnType DEF Ranked
  <2> HIDE DEF From
  <2> QED BY <1>1, <2>2, MaxOfLevels
<1>3. Typed(0)
  BY DEF Ranked
<1>4. Typed(4)
  <2> HIDE DEF Typed
  <2>1. Typed(0 + 1)
    BY <1>2, <1>3
  <2>2. Typed(1 + 1)
    <3>1. Typed(1)
      BY <2>1
    <3> QED BY <1>2, <3>1
  <2>3. Typed(2 + 1)
    <3>1. Typed(2)
      BY <2>2
    <3> QED BY <1>2, <3>1
  <2>4. Typed(3 + 1)
    <3>1. Typed(3)
      BY <2>3
    <3> QED BY <1>2, <3>1
  <2> QED BY <2>4
<1>5. \A x \in DOMAIN g : L[x] \in Levels
  BY <1>4 DEF Ranked
<1>6. From(n) \subseteq Levels /\ From(n) # {}
  BY <1>5, OwnType DEF Ranked
<1>7. \A x \in From(n) : x <= L[n]
  <2> HIDE DEF From
  <2> QED BY <1>1, <1>6, MaxOfLevels
<1>8. Own(g[n].kind) <= L[n] /\ \A s \in g[n].from : L[s] <= L[n]
  BY <1>7
<1> QED BY <1>5, <1>8 DEF L

------------------------------------------------------------------------------
(* The lineage of a packet is such a graph.                                 *)

(* The nodes that there is one of, and how far they are from the sources.   *)
Src == Called("source")
Pkt == Called("packet")
Old == Called("earlier")
Scf == Called("scaffold")
Ctx == Called("context")

Rank(g) == [n \in DOMAIN g |-> IF n[1] = "packet" THEN 3
                               ELSE IF n[1] = "summary" THEN 2
                               ELSE IF n[1] \in {"context", "finding"} THEN 1 ELSE 0]

LEMMA SourceNode ==
  ASSUME NEW pl
  PROVE  /\ Source(pl).kind \in {"verified", "unverified"} /\ Source(pl).from = {}
         /\ Source(pl).kind = "verified" => pl \in Verified
BY DEF Source, Node

(* Outside the technical lane: the file, the earlier rounds, the packet.    *)
LEMMA OrdinaryLineage ==
  ASSUME NEW m, NEW f, NEW pl, m.class # "technical",
         NEW g, g = Lineage(m, f, pl)
  PROVE  /\ DOMAIN g = {Src, Old, Pkt}
         /\ g[Src] = Source(pl) /\ g[Old] = Node("unverified", {})
         /\ g[Pkt] = Node("assembly", {Src} \cup IF Real(m, f) = {} THEN {} ELSE {Old})
<1> DEFINE from == {Src} \cup IF Real(m, f) = {} THEN {} ELSE {Old}
<1>1. g = [n \in {Src, Old, Pkt} |->
             CASE n[1] = "source"  -> Source(pl)
               [] n[1] = "earlier" -> Node("unverified", {})
               [] n[1] = "packet"  -> Node("assembly", from)]
  BY DEF Lineage, Src, Old, Pkt
<1>2. Src[1] = "source" /\ Old[1] = "earlier" /\ Pkt[1] = "packet"
  BY DEF Src, Old, Pkt, Called
<1> HIDE DEF from
<1>3. /\ DOMAIN g = {Src, Old, Pkt}
      /\ g[Src] = Source(pl) /\ g[Old] = Node("unverified", {})
      /\ g[Pkt] = Node("assembly", from)
  BY <1>1, <1>2
<1> QED BY <1>3 DEF from

(* In it: also the scaffold, and a finding and a summary of each round.     *)
Findings(m, f)  == {"finding"} \X Real(m, f)
Summaries(m, f) == {"summary"} \X Real(m, f)

Technically(m, f, pl, g) ==
  /\ DOMAIN g = {Src, Scf, Ctx, Pkt} \cup Findings(m, f) \cup Summaries(m, f)
  /\ g[Src] = Source(pl) /\ g[Scf] = Node("scaffold", {}) /\ g[Ctx] = Node("assembly", {Src})
  /\ \A n \in Findings(m, f) : g[n] = Node("passed", {Src, Scf})
  /\ \A n \in Summaries(m, f) : g[n] = Node("passed", {<<"finding", n[2]>>})
  /\ g[Pkt] = Node("assembly", {Src, Scf} \cup {Ctx} \cup Summaries(m, f))

LEMMA TechnicalLineage ==
  ASSUME NEW m, NEW f, NEW pl, m.class = "technical", NEW g, g = Lineage(m, f, pl)
  PROVE  Technically(m, f, pl, g)
<1> DEFINE F == Findings(m, f)
           S == Summaries(m, f)
           names == {Src, Scf} \cup {Ctx} \cup {Pkt} \cup {"finding", "summary"} \X Real(m, f)
           from == {Src, Scf} \cup {Ctx} \cup S
<1>1. g = [n \in names |->
             CASE n[1] = "source"   -> Source(pl)
               [] n[1] = "scaffold" -> Node("scaffold", {})
               [] n[1] = "context"  -> Node("assembly", {Src})
               [] n[1] = "finding"  -> Node("passed", {Src, Scf})
               [] n[1] = "summary"  -> Node("passed", {<<"finding", n[2]>>})
               [] n[1] = "packet"   -> Node("assembly", from)]
  BY DEF Lineage, Src, Scf, Ctx, Pkt, Summaries
<1>2. /\ Src[1] = "source" /\ Scf[1] = "scaffold" /\ Ctx[1] = "context" /\ Pkt[1] = "packet"
      /\ \A n \in F : n[1] = "finding"
      /\ \A n \in S : n[1] = "summary"
  BY DEF Src, Scf, Ctx, Pkt, Called, Findings, Summaries
<1>3. names = {Src, Scf, Ctx, Pkt} \cup F \cup S
  BY DEF Findings, Summaries
<1> HIDE DEF from, names
<1>4. /\ DOMAIN g = names
      /\ g[Src] = Source(pl) /\ g[Scf] = Node("scaffold", {})
      /\ g[Ctx] = Node("assembly", {Src})
  BY <1>1, <1>2, <1>3
<1>5. /\ \A n \in F : g[n] = Node("passed", {Src, Scf})
      /\ \A n \in S : g[n] = Node("passed", {<<"finding", n[2]>>})
      /\ g[Pkt] = Node("assembly", from)
  BY <1>1, <1>2, <1>3
<1> QED BY <1>3, <1>4, <1>5 DEF from, Technically

LEMMA NodeParts == \A k, s : Node(k, s).kind = k /\ Node(k, s).from = s
BY DEF Node

LEMMA LineageRanked ==
  ASSUME NEW m, NEW f, NEW pl, NEW g, g = Lineage(m, f, pl)
  PROVE  Ranked(g, Rank(g)) /\ Src \in DOMAIN g /\ Pkt \in DOMAIN g /\ Src \in g[Pkt].from
<1>0. Rank(g) \in [DOMAIN g -> 0..3]
  BY DEF Rank
<1>1. CASE m.class # "technical"
  <2>1. /\ DOMAIN g = {Src, Old, Pkt}
        /\ g[Src] = Source(pl) /\ g[Old] = Node("unverified", {})
        /\ g[Pkt] = Node("assembly", {Src} \cup IF Real(m, f) = {} THEN {} ELSE {Old})
    BY <1>1, OrdinaryLineage
  <2>2. /\ g[Src].from = {} /\ g[Old].from = {} /\ Src \in g[Pkt].from
        /\ g[Pkt].from \subseteq {Src, Old}
        /\ g[Src].kind \in Kinds /\ g[Old].kind \in Kinds /\ g[Pkt].kind \in Kinds
    BY <2>1, NodeParts, SourceNode DEF Kinds
  <2>3. Rank(g)[Src] = 0 /\ Rank(g)[Old] = 0 /\ Rank(g)[Pkt] = 3
    BY <2>1 DEF Rank, Src, Old, Pkt, Called
  <2>4. ASSUME NEW n \in DOMAIN g
        PROVE  /\ g[n].kind \in Kinds /\ g[n].from \subseteq DOMAIN g
               /\ \A s \in g[n].from : Rank(g)[s] < Rank(g)[n]
    <3>1. CASE n = Src
      BY <2>2, <3>1
    <3>2. CASE n = Old
      BY <2>2, <3>2
    <3>3. CASE n = Pkt
      BY <2>1, <2>2, <2>3, <3>3
    <3> QED BY <2>1, <3>1, <3>2, <3>3
  <2> QED BY <1>0, <2>1, <2>2, <2>4 DEF Ranked
<1>2. CASE m.class = "technical"
  <2> DEFINE F == Findings(m, f)
             S == Summaries(m, f)
  <2>1. /\ DOMAIN g = {Src, Scf, Ctx, Pkt} \cup F \cup S
        /\ g[Src] = Source(pl) /\ g[Scf] = Node("scaffold", {})
        /\ g[Ctx] = Node("assembly", {Src})
        /\ \A n \in F : g[n] = Node("passed", {Src, Scf})
        /\ \A n \in S : g[n] = Node("passed", {<<"finding", n[2]>>})
        /\ g[Pkt] = Node("assembly", {Src, Scf} \cup {Ctx} \cup S)
    <3>1. Technically(m, f, pl, g)
      BY <1>2, TechnicalLineage
    <3> QED BY <3>1 DEF Technically
  <2>2. /\ \A n \in F : n[1] = "finding"
        /\ \A n \in S : n[1] = "summary" /\ <<"finding", n[2]>> \in F
    BY DEF Findings, Summaries
  <2> HIDE DEF F, S
  <2>3. /\ Rank(g)[Src] = 0 /\ Rank(g)[Scf] = 0 /\ Rank(g)[Ctx] = 1 /\ Rank(g)[Pkt] = 3
    BY <2>1 DEF Rank, Src, Scf, Ctx, Pkt, Called
  <2>4. /\ \A n \in F : Rank(g)[n] = 1
        /\ \A n \in S : Rank(g)[n] = 2
    BY <2>1, <2>2 DEF Rank
  <2>5. /\ g[Src].kind \in Kinds /\ g[Scf].kind \in Kinds /\ g[Ctx].kind \in Kinds
        /\ g[Pkt].kind \in Kinds
        /\ g[Src].from = {} /\ g[Scf].from = {} /\ g[Ctx].from = {Src}
        /\ g[Pkt].from = {Src, Scf} \cup {Ctx} \cup S
    <3>1. g[Src].kind \in Kinds /\ g[Src].from = {}
      BY <2>1, SourceNode DEF Kinds
    <3>2. /\ g[Scf].kind = "scaffold" /\ g[Scf].from = {}
          /\ g[Ctx].kind = "assembly" /\ g[Ctx].from = {Src}
      BY <2>1, NodeParts
    <3>3. g[Pkt].kind = "assembly" /\ g[Pkt].from = {Src, Scf} \cup {Ctx} \cup S
      BY <2>1, NodeParts
    <3> QED BY <3>1, <3>2, <3>3 DEF Kinds
  <2>6. /\ \A n \in F : g[n].kind \in Kinds /\ g[n].from = {Src, Scf}
        /\ \A n \in S : g[n].kind \in Kinds /\ g[n].from = {<<"finding", n[2]>>}
    <3>1. \A n \in F : g[n].kind = "passed" /\ g[n].from = {Src, Scf}
      BY <2>1, NodeParts
    <3>2. ASSUME NEW n \in S PROVE g[n].kind = "passed" /\ g[n].from = {<<"finding", n[2]>>}
      <4> DEFINE d == {<<"finding", n[2]>>}
      <4>1. g[n] = Node("passed", d)
        BY <2>1
      <4> HIDE DEF d
      <4>2. g[n].kind = "passed" /\ g[n].from = d
        BY <4>1, NodeParts
      <4> QED BY <4>2 DEF d
    <3> QED BY <3>1, <3>2 DEF Kinds
  <2>7. ASSUME NEW n \in DOMAIN g
        PROVE  /\ g[n].kind \in Kinds /\ g[n].from \subseteq DOMAIN g
               /\ \A s \in g[n].from : Rank(g)[s] < Rank(g)[n]
    <3>1. CASE n \in {Src, Scf}
      BY <2>5, <3>1
    <3>2. CASE n = Ctx
      <4>1. {Src} \subseteq DOMAIN g /\ \A s \in {Src} : Rank(g)[s] < Rank(g)[Ctx]
        BY <2>1, <2>3
      <4> QED BY <2>5, <3>2, <4>1
    <3>3. CASE n = Pkt
      <4>1. g[Pkt].from \subseteq DOMAIN g
        BY <2>1, <2>5
      <4>2. \A s \in g[Pkt].from : Rank(g)[s] < Rank(g)[Pkt]
        BY <2>3, <2>4, <2>5
      <4> QED BY <2>5, <3>3, <4>1, <4>2
    <3>4. CASE n \in F
      BY <2>1, <2>3, <2>4, <2>6, <3>4
    <3>5. CASE n \in S
      <4>1. <<"finding", n[2]>> \in F /\ Rank(g)[<<"finding", n[2]>>] = 1 /\ Rank(g)[n] = 2
        BY <2>2, <2>4, <3>5
      <4> QED BY <2>1, <2>6, <3>5, <4>1
    <3> QED BY <2>1, <3>1, <3>2, <3>3, <3>4, <3>5
  <2> QED BY <1>0, <2>1, <2>5, <2>7 DEF Ranked
<1> QED BY <1>1, <1>2

(* So a packet that is let out is in a verified file, of a work item that   *)
(* is not sensitive, and carries nothing of an earlier round unless it goes *)
(* in the technical lane.                                                   *)
LEMMA Clearance ==
  ASSUME NEW m, NEW f, NEW pl, Sendable(m, f, pl)
  PROVE  /\ pl \in Verified
         /\ m.class # "sensitive"
         /\ Real(m, f) # {} => m.class = "technical"
<1> DEFINE g == Lineage(m, f, pl)
           L == Level(g)
<1>1. m.class # "sensitive" /\ L[Pkt] # Sensitive
  BY DEF Sendable, Cleared, Decided, Pkt
<1>2. Ranked(g, Rank(g)) /\ Src \in DOMAIN g /\ Pkt \in DOMAIN g /\ Src \in g[Pkt].from
  BY LineageRanked
<1>3. ASSUME NEW s \in g[Pkt].from PROVE s \in DOMAIN g /\ g[s].kind # "unverified"
  <2>1. s \in DOMAIN g /\ g[s].kind \in Kinds
    BY <1>2 DEF Ranked
  <2>2. /\ L[Pkt] \in Levels /\ L[s] \in Levels /\ L[s] <= L[Pkt] /\ Own(g[s].kind) <= L[s]
    BY <1>2, <2>1, LevelIsAbove
  <2>3. g[s].kind = "unverified" => Own(g[s].kind) = Sensitive
    BY DEF Own
  <2> HIDE DEF g, L
  <2> QED BY <1>1, <2>1, <2>2, <2>3 DEF Levels, Standard, Technical, Sensitive
<1> HIDE DEF L
<1>4. g[Src] = Source(pl)
  <2>1. CASE m.class # "technical"
    BY <2>1, OrdinaryLineage
  <2>2. CASE m.class = "technical"
    <3>1. Technically(m, f, pl, g)
      BY <2>2, TechnicalLineage
    <3> QED BY <3>1 DEF Technically
  <2> QED BY <2>1, <2>2
<1>5. pl \in Verified
  <2>1. Source(pl).kind # "unverified"
    BY <1>2, <1>3, <1>4
  <2> QED BY <2>1, SourceNode
<1>6. Real(m, f) # {} => m.class = "technical"
  <2> SUFFICES ASSUME Real(m, f) # {}, m.class # "technical" PROVE FALSE
    OBVIOUS
  <2>1. g[Old] = Node("unverified", {}) /\ g[Pkt] = Node("assembly", {Src} \cup {Old})
    BY OrdinaryLineage
  <2>2. Old \in g[Pkt].from /\ g[Old].kind = "unverified"
    BY <2>1, NodeParts
  <2> HIDE DEF g
  <2> QED BY <1>3, <2>2
<1> QED BY <1>1, <1>5, <1>6

------------------------------------------------------------------------------
(* What was reviewed was let out, and still would be.                       *)

Fit(c, n, pl) ==
  /\ council[c].phase # "none" /\ n <= council[c].listed + 1
  /\ pl \in Verified /\ council[c].class # "sensitive"
  /\ (\E k \in 1..(n - 1) : rounds[c][k].kind = "real") => council[c].class = "technical"

Shown(c) == \A n \in Numbers, r \in Reviewers : IsReview(said[c][n].by[r]) =>
              Fit(c, n, said[c][n].by[r].plan)

ShownInv == \A c \in Councils : Shown(c)

(* What a council.json may become while its reviews stay fit.               *)
LEMMA FitKept ==
  ASSUME Inv, NEW c \in Councils, NEW n \in Numbers, NEW pl, Fit(c, n, pl),
         council'[c].phase = council[c].phase, council'[c].class = council[c].class,
         council'[c].listed \in {council[c].listed, council[c].listed + 1},
         \A k \in Listed(council[c]) : rounds'[c][k].kind = rounds[c][k].kind
  PROVE  Fit(c, n, pl)'
<1>1. council[c].listed \in Nat /\ n \in Nat
  BY CouncilAssumption DEF Inv, Types, FileTypes, Records, Numbers
<1>2. n <= council'[c].listed + 1
  BY <1>1 DEF Fit
<1>3. \A k \in 1..(n - 1) : k \in Listed(council[c])
  BY <1>1 DEF Fit, Listed
<1> QED BY <1>2, <1>3 DEF Fit

LEMMA ShownKept ==
  ASSUME Inv, NEW c \in Councils, Shown(c),
         council'[c].phase = council[c].phase, council'[c].class = council[c].class,
         council'[c].listed \in {council[c].listed, council[c].listed + 1},
         \A n \in Numbers : said'[c][n].by = said[c][n].by,
         \A k \in Listed(council[c]) : rounds'[c][k].kind = rounds[c][k].kind
  PROVE  Shown(c)'
<1> SUFFICES ASSUME NEW n \in Numbers, NEW r \in Reviewers, IsReview(said'[c][n].by[r])
             PROVE  Fit(c, n, said[c][n].by[r].plan)'
  BY DEF Shown
<1> DEFINE pl == said[c][n].by[r].plan
<1>1. said'[c][n].by[r] = said[c][n].by[r]
  OBVIOUS
<1>2. Fit(c, n, pl)
  BY <1>1 DEF Shown
<1>3. ASSUME NEW x, x = pl PROVE Fit(c, n, x)'
  BY <1>2, <1>3, FitKept
<1> QED BY <1>1, <1>3 DEF Fit

LEMMA ShownStays ==
  ASSUME Inv, NEW c \in Councils, Shown(c), council'[c] = council[c], said'[c] = said[c],
         \A k \in Listed(council[c]) : rounds'[c][k].kind = rounds[c][k].kind
  PROVE  Shown(c)'
BY ShownKept

LEMMA ShownOthers ==
  ASSUME Inv, ShownInv, NEW p \in Procs, NEW c, Frame(p, c), NEW d \in Councils \ {c}
  PROVE  Shown(d)'
BY ShownStays DEF ShownInv, Frame

LEMMA ShownScoped ==
  ASSUME Inv, NEW c \in Councils, Shown(c), NEW s \in BOOLEAN,
         council' = [council EXCEPT ![c] = [council[c] EXCEPT !.scope = @ \/ s]],
         UNCHANGED <<rounds, outcome, history>>
  PROVE  Shown(c)'
<1> DEFINE m == [council[c] EXCEPT !.scope = @ \/ s]
<1>1. m.phase = council[c].phase /\ m.class = council[c].class /\ m.listed = council[c].listed
  BY ScopedType DEF Inv, Types, FileTypes
<1>2. council' = [council EXCEPT ![c] = m]
  OBVIOUS
<1> HIDE DEF m
<1>3. council'[c] = m
  BY <1>2 DEF Inv, Types, FileTypes
<1> QED BY <1>1, <1>3, ShownKept DEF history

LEMMA ShownBegins ==
  ASSUME Inv, ShownInv, NEW p \in Procs, Begins(p)
  PROVE  \E c \in Councils : Frame(p, c) /\ Shown(c)'
<1>1. ASSUME NEW c \in Councils, NEW scope \in BOOLEAN, NEW pl \in Plans, NEW ph \in Phases,
             NEW class \in Classes, Create(p, c, ph, class, scope, pl)
      PROVE  Frame(p, c) /\ Shown(c)'
  <2>1. council[c].phase = "none" /\ said' = said
    BY <1>1 DEF Create, Fresh, First, Exists, history
  <2>2. Shown(c)
    BY DEF ShownInv
  <2> QED BY <1>1, <2>1, <2>2, CreatedOwn DEF Shown, Fit
<1>2. ASSUME NEW c \in Councils, NEW scope \in BOOLEAN, NEW pl \in Plans,
             Continue(p, c, pl, scope)
      PROVE  Frame(p, c) /\ Shown(c)'
  BY <1>2, ScopedOwn, ShownScoped DEF Continue, ShownInv
<1>3. ASSUME NEW c \in Councils, NEW scope \in BOOLEAN, Reconcile(p, c, scope)
      PROVE  Frame(p, c) /\ Shown(c)'
  BY <1>3, ScopedOwn, ShownScoped DEF Reconcile, ShownInv
<1> QED BY <1>1, <1>2, <1>3 DEF Begins

(* What Persist makes of the council.json of p's council.                   *)
LEMMA Persisted ==
  ASSUME Inv, NEW p \in Procs, NEW c, c = about[p], pc[p] \in Serving, NEW m, Persist(p, m),
         m.class = mem[p].class, m.phase = mem[p].phase,
         m.listed \in {mem[p].listed, mem[p].listed + 1}
  PROVE  /\ c \in Councils /\ council'[c] = m
         /\ m.class = council[c].class /\ m.phase = council[c].phase
         /\ m.listed \in {council[c].listed, council[c].listed + 1}
BY InService DEF Persist, Inv, Types, FileTypes

(* A review is of a packet that the guard let out, as clearance has it now. *)
LEMMA ShownAnswer ==
  ASSUME Inv, NEW p \in Procs, NEW c, c = about[p], c \in Councils => Shown(c),
         NEW r \in Reviewers, NEW v \in Verdicts, Answer(p, r, v)
  PROVE  Shown(c)'
<1>0. /\ c \in Councils /\ mem[p] = council[c] /\ council[c].phase # "none"
      /\ pc[p] \in Serving /\ RoomInv /\ council[c].listed \in Nat
  BY InService, CouncilAssumption
     DEF Inv, Answer, Serving, HoldInv, RoomInv, ProcInv, Types, FileTypes, Records
<1>1. PICK m \in Records :
        /\ Persist(p, m) /\ m.phase = mem[p].phase /\ m.class = mem[p].class
        /\ m.listed = mem[p].listed
  BY <1>0, AnswerStep DEF Inv
<1>2. council'[c] = m /\ rounds' = rounds
  BY <1>0, <1>1, Persisted DEF Answer
<1> DEFINE k == Number(p)
<1>3. Fit(c, k, plan[p])
  <2>1. Sendable(council[c], rounds[c], plan[p])
    BY <1>0 DEF Answer
  <2>2. /\ plan[p] \in Verified /\ council[c].class # "sensitive"
        /\ Real(council[c], rounds[c]) # {} => council[c].class = "technical"
    BY <2>1, Clearance
  <2>3. k = council[c].listed + 1 /\ 1..(k - 1) = Listed(council[c])
    BY <1>0 DEF Number, Listed
  <2> QED BY <1>0, <2>2, <2>3 DEF Fit, Real
<1> HIDE DEF k
<1>4. /\ k \in Numbers /\ said'[c][k].by[r] = Review(p, v) /\ Review(p, v).plan = plan[p]
      /\ \A u \in Reviewers : u # r => said'[c][k].by[u] = said[c][k].by[u]
      /\ \A n \in Numbers : n # k => said'[c][n] = said[c][n]
  BY AnswerSaid DEF k, Review
<1>5. ASSUME NEW n \in Numbers, NEW u \in Reviewers, IsReview(said'[c][n].by[u]),
             NEW x, x = said'[c][n].by[u].plan
      PROVE  Fit(c, n, x)'
  <2>1. CASE n = k /\ u = r
    <3>1. Fit(c, n, x)
      BY <1>3, <1>4, <1>5, <2>1
    <3> QED BY <1>0, <1>1, <1>2, <3>1, FitKept
  <2>2. CASE ~(n = k /\ u = r)
    <3>1. said'[c][n].by[u] = said[c][n].by[u]
      BY <1>4, <2>2
    <3>2. Fit(c, n, x)
      BY <1>0, <1>5, <3>1 DEF Shown
    <3> QED BY <1>0, <1>1, <1>2, <3>2, FitKept
  <2> QED BY <2>1, <2>2
<1> QED BY <1>5 DEF Shown, Fit

LEMMA ShownDeals ==
  ASSUME Inv, ShownInv, NEW p \in Procs, NEW c, c = about[p], Deals(p)
  PROVE  c \in Councils => Shown(c)'
<1> SUFFICES ASSUME c \in Councils PROVE Shown(c)'
  OBVIOUS
<1>0. Shown(c)
  BY DEF ShownInv
<1>1. ASSUME NEW r \in Reviewers, Grant(p, r) PROVE Shown(c)'
  <2>1. PICK m : Persist(p, m) /\ m.class = mem[p].class /\ m.phase = mem[p].phase
                 /\ m.listed = mem[p].listed
    BY <1>1, GrantStep DEF Inv
  <2>2. pc[p] \in Serving /\ rounds' = rounds /\ said' = said
    BY <1>1 DEF Grant, Serving, history
  <2> QED BY <1>0, <2>1, <2>2, Persisted, ShownKept
<1>2. ASSUME NEW r \in Reviewers, Spend(p, r) PROVE Shown(c)'
  <2>1. PICK m : Persist(p, m) /\ m.class = mem[p].class /\ m.phase = mem[p].phase
                 /\ m.listed = mem[p].listed
    BY <1>2, SpendStep DEF Inv
  <2>2. pc[p] \in Serving /\ rounds' = rounds /\ said' = said
    BY <1>2 DEF Spend, Calling, Serving, history
  <2> QED BY <1>0, <2>1, <2>2, Persisted, ShownKept
<1>3. ASSUME NEW r \in Reviewers, NEW a \in {None, HardGate},
             Reuse(p, r) \/ GiveUp(p, r) \/ Ends(p, r, a)
      PROVE  Shown(c)'
  BY <1>0, <1>3, ShownStays DEF Reuse, GiveUp, Ends, files, history
<1>4. ASSUME NEW r \in Reviewers, NEW v \in Verdicts, Answer(p, r, v) PROVE Shown(c)'
  BY <1>0, <1>4, ShownAnswer
<1> QED BY <1>1, <1>2, <1>3, <1>4 DEF Deals

(* The round that is saved is not listed yet.                               *)
LEMMA SavedFiles ==
  ASSUME Inv, NEW p \in Procs, NEW c, c = about[p], pc[p] \in Serving, NEW r, Save(p, r)
  PROVE  \A k \in Listed(council[c]) : rounds'[c][k].kind = rounds[c][k].kind
<1>1. /\ c \in Councils /\ mem[p] = council[c] /\ council[c].listed \in Nat
  BY InService, CouncilAssumption DEF Inv, Types, FileTypes, Records
<1>2. Number(p) \notin Listed(council[c])
  BY <1>1 DEF Number, Listed
<1> DEFINE h == [rounds[c] EXCEPT ![Number(p)] = r]
<1>3. rounds' = [rounds EXCEPT ![c] = h]
  BY DEF Save
<1>4. \A k \in Listed(council[c]) : h[k] = rounds[c][k]
  <2>1. rounds[c] \in [Numbers -> Rounds]
    BY <1>1 DEF Inv, Types, FileTypes
  <2>2. Listed(council[c]) \subseteq Numbers
    BY <1>1, CouncilAssumption DEF Listed, Numbers, Inv, Types, FileTypes, Records
  <2> QED BY <1>2, <2>1, <2>2
<1> HIDE DEF h
<1>5. rounds'[c] = h
  BY <1>1, <1>3 DEF Inv, Types, FileTypes
<1> QED BY <1>4, <1>5

LEMMA AttachedFiles ==
  ASSUME Inv, NEW p \in Procs, NEW c, c = about[p], NEW rec \in Recons, Attach(p, rec)
  PROVE  /\ \A k \in Listed(council[c]) : rounds'[c][k].kind = rounds[c][k].kind
         /\ \A n \in Numbers : said'[c][n].by = said[c][n].by
<1>0. /\ c \in Councils /\ council[c] \in Records
      /\ rounds[c] \in [Numbers -> Rounds] /\ said[c] \in [Numbers -> Said]
  BY InService DEF Inv, Attach, Serving, Types, FileTypes, HistoryTypes
<1>1. PICK k : /\ rounds' = [rounds EXCEPT ![c][k].recon = rec]
               /\ said' = [said EXCEPT ![c][k].ready = @ \/ rec = "ready"]
  BY DEF Attach
<1>2. Listed(council[c]) \subseteq Numbers
  BY <1>0, CouncilAssumption DEF Listed, Numbers, Records
<1>3. ASSUME NEW n \in Numbers PROVE rounds'[c][n].kind = rounds[c][n].kind
  <2> DEFINE r == [rounds[c][k] EXCEPT !.recon = rec]
  <2>1. rounds' = [rounds EXCEPT ![c] = [rounds[c] EXCEPT ![k] = r]]
    BY <1>1
  <2>2. n = k => r.kind = rounds[c][n].kind
    BY <1>0 DEF Rounds
  <2> HIDE DEF r
  <2>3. rounds'[c] = [rounds[c] EXCEPT ![k] = r]
    BY <1>0, <2>1 DEF Inv, Types, FileTypes
  <2> QED BY <1>0, <2>2, <2>3
<1>4. ASSUME NEW n \in Numbers PROVE said'[c][n].by = said[c][n].by
  <2> DEFINE s == [said[c][k] EXCEPT !.ready = @ \/ rec = "ready"]
  <2>1. said' = [said EXCEPT ![c] = [said[c] EXCEPT ![k] = s]]
    BY <1>1
  <2>2. n = k => s.by = said[c][n].by
    BY <1>0 DEF Said
  <2> HIDE DEF s
  <2>3. said'[c] = [said[c] EXCEPT ![k] = s]
    BY <1>0, <2>1 DEF Inv, Types, HistoryTypes
  <2> QED BY <1>0, <2>2, <2>3
<1> QED BY <1>2, <1>3, <1>4

LEMMA ShownBooks ==
  ASSUME Inv, ShownInv, NEW p \in Procs, NEW c, c = about[p], Books(p)
  PROVE  c \in Councils => Shown(c)'
<1> SUFFICES ASSUME c \in Councils PROVE Shown(c)'
  OBVIOUS
<1>0. Shown(c)
  BY DEF ShownInv
<1>1. CASE Secret(p) \/ Commit(p)
  <2>1. PICK r : Save(p, r)
    BY <1>1 DEF Secret, Commit
  <2>2. pc[p] \in Serving /\ UNCHANGED <<council, history>>
    BY <1>1, <2>1 DEF Secret, Dispatching, Commit, Save, Serving
  <2> QED BY <1>0, <2>1, <2>2, SavedFiles, ShownStays DEF history
<1>2. CASE List(p)
  <2>1. PICK m : Persist(p, m) /\ m.class = mem[p].class /\ m.phase = mem[p].phase
                 /\ m.listed = mem[p].listed + 1
    <3>1. RoomInv
      BY DEF Inv, RoomInv, ProcInv
    <3> QED BY <1>2, <3>1, ListStep DEF Inv
  <2>2. pc[p] \in Serving /\ rounds' = rounds /\ said' = said
    BY <1>2 DEF List, Serving
  <2> QED BY <1>0, <2>1, <2>2, Persisted, ShownKept
<1>3. CASE Capped(p) \/ Conclude(p)
  BY <1>0, <1>3, ShownStays DEF Capped, Conclude, history
<1>4. ASSUME NEW rec \in Recons, Attach(p, rec) PROVE Shown(c)'
  <2>1. council' = council
    BY <1>4 DEF Attach
  <2> QED BY <1>0, <1>4, <2>1, AttachedFiles, ShownKept
<1> QED BY <1>1, <1>2, <1>3, <1>4 DEF Books

LEMMA ShownStep == Inv /\ ShownInv /\ [Next]_vars => ShownInv'
<1> SUFFICES ASSUME Inv, ShownInv, [Next]_vars PROVE ShownInv'
  OBVIOUS
<1>1. ASSUME NEW p \in Procs, NEW c, Frame(p, c), c \in Councils => Shown(c)'
      PROVE  ShownInv'
  BY <1>1, ShownOthers DEF ShownInv
<1>2. CASE UNCHANGED <<files, history>>
  BY <1>2, ShownStays DEF ShownInv, files, history
<1>3. ASSUME NEW p \in Procs, Ended(p) \/ Moved(p) PROVE ShownInv'
  BY <1>3, ShownStays DEF ShownInv, Ended, Moved, files, history
<1>4. ASSUME NEW p \in Procs, Begins(p) PROVE ShownInv'
  BY <1>1, <1>4, ShownBegins
<1>5. ASSUME NEW p \in Procs, Deals(p) \/ Books(p) PROVE ShownInv'
  <2>1. ASSUME NEW c, c = about[p] PROVE ShownInv'
    <3>1. Frame(p, c)
      BY <1>5, <2>1, FrameDeals, FrameBooks DEF Inv
    <3>2. c \in Councils => Shown(c)'
      BY <1>5, <2>1, ShownDeals, ShownBooks
    <3> QED BY <1>1, <3>1, <3>2
  <2> QED BY <2>1
<1> QED BY <1>2, <1>3, <1>4, <1>5, StepShape DEF Inv, Still

(* No reviewer is ever shown what is sensitive, whatever commands run,      *)
(* fail or die: every review is of a packet in a verified file, of a work   *)
(* item that is not sensitive, and after a first round only in the          *)
(* technical lane (ReviewedIsCleared).                                      *)
THEOREM SensitiveStays == Spec => []ReviewedIsCleared
<1>1. Init => ShownInv
  BY DEF Init, CouncilInit, ShownInv, Shown, IsReview, Verdicts, Unanswered, None
<1>2. ShownInv => ReviewedIsCleared
  BY DEF ShownInv, Shown, Fit, ReviewedIsCleared
<1>3. Spec => []ShownInv
  BY <1>1, ShownStep, Invariant, PTL DEF Spec
<1> QED BY <1>2, <1>3, PTL
==============================================================================
