----------------------------- MODULE TaskProofs ------------------------------
(* Proofs about one work item and its councils, for any processes,          *)
(* councils, packets and bounds.                                            *)
EXTENDS Task, FiniteSetTheorems, TLAPS

------------------------------------------------------------------------------
(* Types.                                                                   *)

(* Where a command about a council is, and where the others are.            *)
Serving == {"ready", "ask", "answer", "list", "attach", "conclude", "escalate"}
Others  == {"idle", "envelope", "claim", "respond", "settle"}
Labels  == Serving \cup Others

CommandTypes ==
  /\ pc \in [Procs -> Labels]
  /\ about \in [Procs -> Councils \cup {Nobody}]
  /\ plan \in [Procs -> Plans \cup {0}]
  /\ mem \in [Procs -> Records]
  /\ got \in [Procs -> [Reviewers -> Answers \cup {None, HardGate, Unasked}]]

FileTypes ==
  /\ council \in [Councils -> Records]
  /\ rounds \in [Councils -> [Numbers -> Rounds]]
  /\ outcome \in [Councils -> Outcomes]

HistoryTypes ==
  /\ made \in [Councils -> [Reviewers -> Nat]]
  /\ safe \in [Councils -> [Reviewers -> Plans \cup {0}]]
  /\ said \in [Councils -> [Numbers -> Said]]

ItemTypes ==
  /\ setup \in Setups /\ posts \in 0..setup.posts
  /\ gates \subseteq Gates
  /\ asked \in Asks /\ item \in Items

Types == CommandTypes /\ FileTypes /\ HistoryTypes /\ ItemTypes

(* A council that lists n rounds has n round files.                         *)
Filed == \A c \in Councils : \A n \in Listed(council[c]) : rounds[c][n].kind # "none"

LEMMA TwoTypes == TypeOK <=> Types /\ Filed
BY DEF TypeOK, Types, Filed, CommandTypes, FileTypes, HistoryTypes, ItemTypes, Labels,
       Serving, Others

LEMMA SetupType ==
  ASSUME setup \in Setups
  PROVE  /\ setup.posts \in Nat /\ setup.extra \in 0..MaxExtra
         /\ setup.plans \subseteq Plans /\ setup.councils \subseteq Councils
         /\ setup.phases \subseteq Phases /\ setup.scopes \subseteq BOOLEAN
         /\ setup.asks \subseteq Asks /\ setup.begun \in BOOLEAN
         /\ \A c \in Councils : setup.numbers[c] \in 0..MaxNumber
BY CouncilAssumption

LEMMA NoneTypes ==
  /\ NoMem \in Records /\ NoMem.calls \in [Reviewers -> Nat]
  /\ NoMem.calls \in [Reviewers -> Plans \cup {0}]
  /\ Unanswered \in [Reviewers -> Answers \cup {None}]
  /\ NoRound \in Rounds /\ Audit \in Rounds
<1>1. Unanswered \in [Reviewers -> Answers \cup {None}]
  BY DEF Unanswered
<1>2. NoRound \in Rounds /\ Audit \in Rounds
  BY <1>1 DEF NoRound, Audit, Rounds
<1>3. 0 \in 0..MaxNumber /\ 0 \in 0..MaxExtra
  BY CouncilAssumption
<1>4. NoMem \in Records
  BY <1>1, <1>3 DEF NoMem, Records, Classes, Phases
<1> QED BY <1>1, <1>2, <1>4 DEF NoMem

(* What a command makes of its copy of council.json.                        *)
LEMMA GrantedType ==
  ASSUME NEW m \in Records, NEW r \in Reviewers, m.extra[r] + 1 \in 0..MaxExtra
  PROVE  LET g == [m EXCEPT !.extra[r] = @ + 1]
         IN  /\ g \in Records
             /\ g.phase = m.phase /\ g.class = m.class /\ g.scope = m.scope
             /\ g.listed = m.listed /\ g.calls = m.calls /\ g.kept = m.kept
             /\ g.extra[r] = m.extra[r] + 1
             /\ \A v \in Reviewers : v # r => g.extra[v] = m.extra[v]
BY DEF Records

LEMMA CountedType ==
  ASSUME NEW m \in Records, NEW r \in Reviewers, posts \in Nat
  PROVE  /\ Counted(m, r) \in Records
         /\ Counted(m, r).phase = m.phase /\ Counted(m, r).class = m.class
         /\ Counted(m, r).scope = m.scope /\ Counted(m, r).extra = m.extra
         /\ Counted(m, r).listed = m.listed /\ Counted(m, r).kept = m.kept
         /\ Counted(m, r).calls[r] = m.calls[r] + 1
         /\ \A v \in Reviewers : v # r => Counted(m, r).calls[v] = m.calls[v]
<1>1. m.calls \in [Reviewers -> Nat] /\ m.last \in [Reviewers -> Nat]
  BY DEF Records
<1> DEFINE calls == [m.calls EXCEPT ![r] = @ + 1]
           last  == [m.last EXCEPT ![r] = posts]
<1>2. Counted(m, r) = [m EXCEPT !.calls = calls, !.last = last]
  BY <1>1 DEF Counted, Records
<1>3. calls \in [Reviewers -> Nat] /\ last \in [Reviewers -> Nat]
  BY <1>1
<1>4. calls[r] = m.calls[r] + 1 /\ \A v \in Reviewers : v # r => calls[v] = m.calls[v]
  BY <1>1
<1> HIDE DEF calls, last
<1> QED BY <1>2, <1>3, <1>4 DEF Records

LEMMA KeptType ==
  ASSUME NEW m \in Records, NEW r \in Reviewers, NEW a \in Answers
  PROVE  LET k == [m EXCEPT !.kept[r] = a]
         IN  /\ k \in Records
             /\ k.phase = m.phase /\ k.class = m.class /\ k.scope = m.scope
             /\ k.listed = m.listed /\ k.calls = m.calls /\ k.extra = m.extra
             /\ k.kept[r] = a
             /\ \A v \in Reviewers : v # r => k.kept[v] = m.kept[v]
BY DEF Records

LEMMA ListedType ==
  ASSUME NEW m \in Records, m.listed < MaxNumber
  PROVE  LET l == [m EXCEPT !.listed = @ + 1, !.calls = NoMem.calls,
                            !.extra = NoMem.extra, !.last = NoMem.last,
                            !.kept = Unanswered]
         IN  /\ l \in Records
             /\ l.phase = m.phase /\ l.class = m.class /\ l.scope = m.scope
             /\ l.listed = m.listed + 1 /\ l.calls = NoMem.calls
             /\ l.extra = NoMem.extra /\ l.kept = Unanswered
<1>1. m.listed + 1 \in 0..MaxNumber
  BY CouncilAssumption DEF Records
<1>2. /\ NoMem.extra \in [Reviewers -> 0..MaxExtra] /\ NoMem.last \in [Reviewers -> Nat]
      /\ NoMem.calls \in [Reviewers -> Nat]
  BY CouncilAssumption DEF NoMem
<1> QED BY <1>1, <1>2, NoneTypes DEF Records

LEMMA ScopedType ==
  ASSUME NEW m \in Records, NEW s \in BOOLEAN
  PROVE  LET t == [m EXCEPT !.scope = @ \/ s]
         IN  /\ t \in Records
             /\ t.phase = m.phase /\ t.class = m.class /\ t.listed = m.listed
             /\ t.calls = m.calls /\ t.extra = m.extra /\ t.kept = m.kept
             /\ m.scope => t.scope
BY Zenon, SMT DEF Records

LEMMA CompletedType ==
  ASSUME NEW m \in Records, NEW f \in [Numbers -> Rounds]
  PROVE  /\ IsFiniteSet(Real(m, f)) /\ Real(m, f) \subseteq Numbers
         /\ Completed(m, f) \in 0..m.listed
         /\ Completed(m, f) \in 0..MaxNumber
<1>1. m.listed \in Nat /\ m.listed <= MaxNumber /\ MaxNumber \in Nat
  BY CouncilAssumption DEF Records
<1>2. IsFiniteSet(Listed(m)) /\ Cardinality(Listed(m)) = m.listed
  <2>1. ASSUME NEW b \in Nat PROVE IsFiniteSet(1..b) /\ Cardinality(1..b) = b
    <3>1. IsFiniteSet(1..b) /\ Cardinality(1..b) = IF 1 > b THEN 0 ELSE b - 1 + 1
      BY FS_Interval
    <3> QED BY <3>1
  <2> QED BY <1>1, <2>1 DEF Listed
<1>3. Real(m, f) \subseteq Listed(m)
  BY DEF Real
<1>4. IsFiniteSet(Real(m, f)) /\ Cardinality(Real(m, f)) <= m.listed
  BY <1>2, <1>3, FS_Subset
<1>5. Cardinality(Real(m, f)) \in Nat
  BY <1>4, FS_CardinalityType
<1>6. Completed(m, f) \in 0..m.listed /\ Completed(m, f) \in 0..MaxNumber
  <2>1. ASSUME NEW n \in Nat, NEW k \in Nat, n <= k, k <= MaxNumber
        PROVE  n \in 0..k /\ n \in 0..MaxNumber
    BY <1>1, <2>1
  <2> QED BY <1>1, <1>4, <1>5, <2>1 DEF Completed
<1>7. Real(m, f) \subseteq Numbers
  BY <1>1, <1>3 DEF Listed, Numbers
<1> QED BY <1>4, <1>6, <1>7

LEMMA EvaluateType == \A m, f : Evaluate(m, f) \in Outcomes
BY DEF Evaluate, Outcomes

------------------------------------------------------------------------------
(* What the steps do to commands, councils and history.                     *)

(* A command returns; the council it was about may be left unavailable.     *)
Ended(p) ==
  /\ Return(p) /\ pc[p] # "idle"
  /\ UNCHANGED <<council, rounds, history>>
  /\ \/ UNCHANGED outcome
     \/ /\ about[p] \in Councils \/ pc[p] \in {"ready", "ask"}
        /\ outcome' = [outcome EXCEPT ![about[p]] = "reviewer_unavailable"]

(* A command goes on with nothing changed.                                  *)
Moved(p) ==
  /\ UNCHANGED <<files, history, about, plan, mem, got>>
  /\ \/ Goto(p, "ask") /\ (Dispatching(p) \/ pc[p] = "answer")
     \/ \E l \in Others : Goto(p, l) /\ pc[p] \in Others

Still == UNCHANGED <<files, local, history>>

(* The other steps, in three groups.                                        *)
Begins(p) ==
  \E c \in Councils, scope \in BOOLEAN :
    \/ \E pl \in Plans : \/ \E ph \in Phases, class \in Classes :
                              Create(p, c, ph, class, scope, pl)
                         \/ Continue(p, c, pl, scope)
    \/ Reconcile(p, c, scope)

Deals(p) ==
  \E r \in Reviewers :
    \/ Grant(p, r) \/ Reuse(p, r) \/ Spend(p, r) \/ GiveUp(p, r)
    \/ \E a \in {None, HardGate} : Ends(p, r, a)
    \/ \E v \in Verdicts : Answer(p, r, v)

Books(p) == \/ Secret(p) \/ Commit(p) \/ List(p)
            \/ Capped(p) \/ Conclude(p)
            \/ \E rec \in Recons : Attach(p, rec)

LEMMA RoundShape ==
  ASSUME Types, NEW p \in Procs, Round(p)
  PROVE  Ended(p) \/ Moved(p) \/ Deals(p) \/ Books(p)
<1>1. Undeliverable(p) \/ Blocked(p) => Ended(p)
  BY DEF Undeliverable, Blocked, Dispatching, Ended, files
<1>2. Uncommitted(p) \/ Escalate(p) \/ Unattached(p) => Ended(p)
  BY DEF Uncommitted, Escalate, Unattached, Ended, files
<1>3. Dispatch(p) => Moved(p)
  BY DEF Dispatch, Moved
<1>4. \A r \in Reviewers : Fails(p, r) => Moved(p)
  BY DEF Fails, Moved
<1> QED BY <1>1, <1>2, <1>3, <1>4 DEF Round, Deals, Books

LEMMA IssueShape ==
  ASSUME Types, NEW p \in Procs, Issue(p, Class)
  PROVE  Still \/ Begins(p)
<1>1. Class \in Classes
  BY DEF Class, Types, ItemTypes, Asks, Classes
<1>2. Refuse(p) => Still
  BY DEF Refuse, Still
<1>3. /\ setup.plans \subseteq Plans /\ setup.phases \subseteq Phases
      /\ setup.scopes \subseteq BOOLEAN
  BY SetupType DEF Types, ItemTypes
<1> QED BY <1>1, <1>2, <1>3 DEF Issue, Begins

LEMMA StepShape ==
  ASSUME Types, [Next]_vars
  PROVE  Still \/ \E p \in Procs : Ended(p) \/ Moved(p) \/ Begins(p) \/ Deals(p) \/ Books(p)
<1>1. CASE UNCHANGED vars
  BY <1>1 DEF vars, councilVars, Still
<1>2. CASE Post
  BY <1>2 DEF Post, Still
<1>3. ASSUME NEW p \in Procs, Step(p) PROVE Ended(p) \/ Moved(p) \/ Deals(p) \/ Books(p)
  <2>1. CASE Round(p)
    BY <2>1, RoundShape
  <2>2. CASE Envelope(p)
    BY <2>2 DEF Envelope, Moved, Others
  <2>3. CASE Halted(p) \/ SettleGate(p)
    BY <2>3 DEF Halted, SettleGate, Ended, files
  <2>4. CASE Claim(p) \/ Done(p)
    BY <2>4 DEF Claim, Done, Ended, files
  <2> QED BY <1>3, <2>1, <2>2, <2>3, <2>4 DEF Step
<1>4. ASSUME NEW p \in Procs, Issue(p, Class) PROVE Still \/ Begins(p)
  BY <1>4, IssueShape
<1>5. ASSUME NEW p \in Procs, Request(p) \/ Reclaim(p) \/ Complete(p) PROVE Moved(p)
  BY <1>5 DEF Request, Reclaim, Complete, Moved, Others
<1>6. ASSUME NEW p \in Procs, Respond(p) \/ Reply(p) \/ GrantProceed(p) PROVE Still
  BY <1>6 DEF Respond, Reply, GrantProceed, Still, councilVars
<1>7. ASSUME NEW p \in Procs, Close(p) PROVE Still \/ Moved(p)
  BY <1>7 DEF Close, Still, Moved, Others, local
<1>8. ASSUME NEW p \in Procs, Crash(p) PROVE Ended(p)
  BY <1>8 DEF Crash, Ended, files
<1> QED BY <1>1, <1>2, <1>3, <1>4, <1>5, <1>6, <1>7, <1>8 DEF Next

------------------------------------------------------------------------------
(* Types of gates and the item, by every step.                              *)

LEMMA PostsType == Types => posts \in Nat
BY SetupType DEF Types, ItemTypes

LEMMA KeysType == Types => \A c \in Escalated : KeyOf(c) \in Keys
<1> SUFFICES ASSUME Types, NEW c \in Escalated PROVE KeyOf(c) \in Keys
  OBVIOUS
<1>1. c \in Councils /\ outcome[c] \in Escalations
  BY DEF Escalated
<1>2. council[c] \in Records /\ rounds[c] \in [Numbers -> Rounds]
  BY <1>1 DEF Types, FileTypes
<1>3. Completed(council[c], rounds[c]) \in 0..MaxNumber
  BY <1>2, CompletedType
<1> QED BY <1>1, <1>3 DEF KeyOf, Keys

LEMMA MissingType == Types => Missing \subseteq Keys
BY KeysType DEF Missing

LEMMA RecordType ==
  ASSUME Types, NEW K, K \subseteq Keys, Record(K)
  PROVE  gates' \subseteq Gates
<1>1. \A k \in K : [key |-> k, at |-> posts, open |-> TRUE] \in Gates
  BY PostsType DEF Gates
<1> QED BY <1>1 DEF Types, ItemTypes, Record

LEMMA SettleType ==
  ASSUME Types, NEW g \in gates, Settle(g)
  PROVE  gates' \subseteq Gates
<1>1. g \in Gates
  BY DEF Types, ItemTypes
<1>2. [g EXCEPT !.open = FALSE] \in Gates
  BY <1>1 DEF Gates
<1> QED BY <1>2 DEF Types, ItemTypes, Settle

LEMMA OpenGates == Open \subseteq gates /\ Active \subseteq gates
BY DEF Open, Active

LEMMA GatesType ==
  ASSUME Types, [Next]_vars
  PROVE  gates' \subseteq Gates
<1>1. CASE UNCHANGED gates
  BY <1>1 DEF Types, ItemTypes
<1>2. ASSUME NEW p \in Procs, Escalate(p) PROVE gates' \subseteq Gates
  <2>1. {KeyOf(c) : c \in Escalated \cap {about[p]}} \cap Missing \subseteq Keys
    BY MissingType
  <2> QED BY <1>2, <2>1, RecordType DEF Escalate
<1>3. ASSUME NEW p \in Procs, Round(p) PROVE gates' \subseteq Gates
  <2>1. CASE Escalate(p)
    BY <2>1, <1>2
  <2>2. CASE Undeliverable(p) \/ Blocked(p) \/ Dispatch(p) \/ Uncommitted(p) \/ Unattached(p)
    BY <2>2, <1>1 DEF Undeliverable, Blocked, Dispatch, Uncommitted, Unattached
  <2>3. CASE Deals(p)
    BY <2>3, <1>1 DEF Deals, Grant, Reuse, Spend, GiveUp, Ends, Answer
  <2>4. CASE Books(p)
    BY <2>4, <1>1 DEF Books, Secret, Commit, Save, List, Capped, Conclude, Attach
  <2>5. ASSUME NEW r \in Reviewers, Fails(p, r) PROVE gates' \subseteq Gates
    BY <2>5, <1>1 DEF Fails
  <2> QED BY <1>3, <2>1, <2>2, <2>3, <2>4, <2>5 DEF Round, Deals, Books
<1>4. ASSUME NEW p \in Procs, Refuse(p) \/ Halted(p) \/ Reply(p) \/ Close(p)
      PROVE  gates' \subseteq Gates
  BY <1>4, MissingType, RecordType DEF Refuse, Halted, Reply, Close
<1>5. ASSUME NEW p \in Procs, GrantProceed(p) \/ SettleGate(p)
      PROVE  gates' \subseteq Gates
  BY <1>5, <1>1, SettleType, OpenGates DEF GrantProceed, SettleGate
<1>6. ASSUME NEW p \in Procs, Issue(p, Class) PROVE gates' \subseteq Gates
  BY <1>6, <1>1, <1>4 DEF Issue, Create, Continue, Reconcile
<1>7. ASSUME NEW p \in Procs, \/ Envelope(p) \/ Claim(p) \/ Done(p) \/ Request(p) \/ Reclaim(p)
                              \/ Respond(p) \/ Complete(p) \/ Crash(p)
      PROVE  gates' \subseteq Gates
  BY <1>7, <1>1 DEF Envelope, Claim, Done, Request, Reclaim, Respond, Complete, Crash,
                    councilVars
<1>8. CASE Post \/ UNCHANGED vars
  BY <1>8, <1>1 DEF Post, vars, councilVars
<1> QED BY <1>3, <1>4, <1>5, <1>6, <1>7, <1>8 DEF Next, Step

(* The setup and what start is given stay, and the item's records are set.  *)
Kept == UNCHANGED <<asked, setup>> /\ (UNCHANGED posts \/ Post)

LEMMA KeptSteps ==
  ASSUME [Next]_vars
  PROVE  Kept
<1>1. ASSUME NEW p \in Procs, Round(p) /\ UNCHANGED task PROVE Kept
  <2>1. CASE Undeliverable(p) \/ Blocked(p) \/ Dispatch(p) \/ Uncommitted(p) \/ Unattached(p)
    BY <1>1, <2>1 DEF Undeliverable, Blocked, Dispatch, Uncommitted, Unattached, Kept, task
  <2>2. CASE Deals(p)
    BY <1>1, <2>2 DEF Deals, Grant, Reuse, Spend, GiveUp, Ends, Answer, Kept, task
  <2>3. CASE Books(p)
    BY <1>1, <2>3 DEF Books, Secret, Commit, Save, List, Capped, Conclude, Attach, Kept, task
  <2>4. CASE Escalate(p) \/ \E r \in Reviewers : Fails(p, r)
    BY <1>1, <2>4 DEF Escalate, Fails, Kept, task
  <2> QED BY <1>1, <2>1, <2>2, <2>3, <2>4 DEF Round, Deals, Books
<1>2. ASSUME NEW p \in Procs, Issue(p, Class) /\ UNCHANGED task PROVE Kept
  BY <1>2 DEF Issue, Refuse, Create, Continue, Reconcile, Kept, task
<1>3. ASSUME NEW p \in Procs, Envelope(p) \/ Halted(p) \/ Claim(p) \/ Done(p) \/ SettleGate(p)
      PROVE  Kept
  BY <1>3 DEF Envelope, Halted, Claim, Done, SettleGate, Kept, task
<1>4. ASSUME NEW p \in Procs, Request(p) \/ Reclaim(p) \/ Respond(p) \/ Reply(p)
      PROVE  Kept
  BY <1>4 DEF Request, Reclaim, Respond, Reply, Kept, task, councilVars
<1>5. ASSUME NEW p \in Procs, Complete(p) \/ Close(p) \/ GrantProceed(p)
      PROVE  Kept
  BY <1>5 DEF Complete, Close, GrantProceed, Kept, task
<1>6. ASSUME NEW p \in Procs, Crash(p) /\ UNCHANGED task PROVE Kept
  BY <1>6 DEF Crash, Kept, task
<1>7. CASE (Post /\ UNCHANGED task) \/ UNCHANGED vars
  BY <1>7 DEF Post, Kept, task, vars, councilVars
<1> QED BY <1>1, <1>2, <1>3, <1>4, <1>5, <1>6, <1>7 DEF Next, Step

LEMMA ItemType ==
  ASSUME item \in Items, [Next]_vars
  PROVE  item' \in Items
<1>1. CASE UNCHANGED task \/ UNCHANGED vars
  BY <1>1 DEF task, vars
<1>2. ASSUME NEW p \in Procs, Envelope(p) \/ Claim(p) \/ Done(p) PROVE item' \in Items
  BY <1>2 DEF Envelope, Claim, Done, Items
<1>3. ASSUME NEW p \in Procs, Request(p) \/ Respond(p) \/ Reply(p) \/ Close(p)
      PROVE  item' \in Items
  BY <1>3 DEF Request, Respond, Reply, Close, Items
<1>4. ASSUME NEW p \in Procs, \/ Halted(p) \/ SettleGate(p) \/ Reclaim(p)
                              \/ Complete(p) \/ GrantProceed(p)
      PROVE  item' \in Items
  BY <1>4 DEF Halted, SettleGate, Reclaim, Complete, GrantProceed, task
<1> QED BY <1>1, <1>2, <1>3, <1>4 DEF Next, Step

LEMMA ItemTypesStep ==
  ASSUME Types, [Next]_vars
  PROVE  ItemTypes'
<1>1. Kept
  BY KeptSteps
<1>2. posts' \in 0..setup'.posts
  BY <1>1, SetupType DEF Kept, Post, Types, ItemTypes
<1> QED BY <1>1, <1>2, GatesType, ItemType DEF Kept, Types, ItemTypes

------------------------------------------------------------------------------
(* A command about a council has it for itself, and a faithful copy of its  *)
(* file; the round it dispatches has a number.                              *)

HoldInv ==
  /\ \A p \in Procs : about[p] \in Councils <=> pc[p] \in Serving
  /\ \A p, q \in Procs : about[p] = about[q] /\ about[p] # Nobody => p = q
  /\ \A p \in Procs : about[p] # Nobody => mem[p] = council[about[p]]
  /\ \A p \in Procs : about[p] # Nobody => council[about[p]].phase # "none"

Room(p) ==
  /\ pc[p] = "ready" => \/ mem[p].listed < MaxNumber
                        \/ Completed(mem[p], rounds[about[p]]) >= MaxRounds
  /\ pc[p] \in {"ask", "answer", "list"} => mem[p].listed < MaxNumber
  /\ pc[p] \in {"ready", "ask", "answer", "list"} => plan[p] \in Plans

RoomInv == \A p \in Procs : Room(p)

CouncilTypes == CommandTypes /\ FileTypes /\ HistoryTypes

LEMMA EndedTypes ==
  ASSUME Types, NEW p \in Procs, Ended(p)
  PROVE  CouncilTypes'
<1> USE DEF Types, CouncilTypes, CommandTypes, FileTypes, HistoryTypes
<1>1. pc' \in [Procs -> Labels] /\ about' \in [Procs -> Councils \cup {Nobody}]
      /\ plan' \in [Procs -> Plans \cup {0}]
  BY DEF Ended, Return, Goto, Labels, Others
<1>2. mem' \in [Procs -> Records]
  BY NoneTypes DEF Ended, Return
<1>3. got' \in [Procs -> [Reviewers -> Answers \cup {None, HardGate, Unasked}]]
  BY DEF Ended, Return
<1>4. FileTypes' /\ HistoryTypes'
  BY DEF Ended, history, Outcomes
<1> QED BY <1>1, <1>2, <1>3, <1>4

LEMMA MovedTypes ==
  ASSUME Types, NEW p \in Procs, Moved(p)
  PROVE  CouncilTypes'
BY DEF Types, CouncilTypes, CommandTypes, FileTypes, HistoryTypes, Moved, Goto, Labels,
       Serving, files, history

LEMMA StillTypes ==
  ASSUME Types, Still
  PROVE  CouncilTypes'
BY DEF Types, CouncilTypes, CommandTypes, FileTypes, HistoryTypes, Still, files, local,
       history

(* A council.json of a command that begins, or of one that goes on.         *)
LEMMA BeginTypes ==
  ASSUME Types, NEW p \in Procs, NEW c \in Councils, NEW pl \in Plans \cup {0},
         NEW m \in Records, NEW l \in Labels, Begin(p, c, pl, m, l),
         council' = [council EXCEPT ![c] = m],
         UNCHANGED <<rounds, outcome, history>>
  PROVE  CouncilTypes'
BY DEF Types, CouncilTypes, CommandTypes, FileTypes, HistoryTypes, Begin, Goto, history

LEMMA NewRecord ==
  ASSUME NEW ph \in Phases, NEW class \in Classes, NEW scope \in BOOLEAN, posts \in Nat,
         NEW m, m = [NoMem EXCEPT !.phase = ph, !.class = class, !.scope = scope, !.at = posts]
  PROVE  /\ m \in Records /\ m.phase = ph /\ m.listed = 0
         /\ m.calls = NoMem.calls /\ m.extra = NoMem.extra /\ m.kept = NoMem.kept
BY NoneTypes DEF Records, NoMem

LEMMA BeginsTypes ==
  ASSUME Types, NEW p \in Procs, Begins(p)
  PROVE  CouncilTypes'
<1>1. ASSUME NEW c \in Councils, NEW scope \in BOOLEAN, NEW pl \in Plans, NEW ph \in Phases,
             NEW class \in Classes, Create(p, c, ph, class, scope, pl)
      PROVE  CouncilTypes'
  <2> DEFINE m == [NoMem EXCEPT !.phase = ph, !.class = class, !.scope = scope, !.at = posts]
  <2>1. m \in Records
    BY NewRecord, PostsType
  <2>2. Begin(p, c, pl, m, "ready") /\ council' = [council EXCEPT ![c] = m]
        /\ UNCHANGED <<rounds, outcome, history>>
    BY <1>1 DEF Create
  <2>3. "ready" \in Labels
    BY DEF Labels, Serving
  <2> HIDE DEF m
  <2> QED BY <2>1, <2>2, <2>3, BeginTypes
<1>2. ASSUME NEW c \in Councils, NEW scope \in BOOLEAN, NEW pl \in Plans \cup {0},
             NEW l \in {"ready", "attach"},
             Begin(p, c, pl, [council[c] EXCEPT !.scope = @ \/ scope], l),
             council' = [council EXCEPT ![c] = [council[c] EXCEPT !.scope = @ \/ scope]],
             UNCHANGED <<rounds, outcome, history>>
      PROVE  CouncilTypes'
  <2> DEFINE m == [council[c] EXCEPT !.scope = @ \/ scope]
  <2>1. m \in Records
    BY ScopedType DEF Types, FileTypes
  <2>2. l \in Labels
    BY DEF Labels, Serving
  <2>3. Begin(p, c, pl, m, l) /\ council' = [council EXCEPT ![c] = m]
    BY <1>2
  <2> HIDE DEF m
  <2> QED BY <1>2, <2>1, <2>2, <2>3, BeginTypes
<1>3. ASSUME NEW c \in Councils, NEW scope \in BOOLEAN, NEW pl \in Plans,
             Continue(p, c, pl, scope)
      PROVE  CouncilTypes'
  BY <1>2, <1>3 DEF Continue
<1>4. ASSUME NEW c \in Councils, NEW scope \in BOOLEAN, Reconcile(p, c, scope)
      PROVE  CouncilTypes'
  BY <1>2, <1>4 DEF Reconcile
<1> QED BY <1>1, <1>3, <1>4 DEF Begins

(* Where a command about a council is.                                      *)
LEMMA InService ==
  ASSUME Types, HoldInv, NEW p \in Procs, pc[p] \in Serving
  PROVE  /\ about[p] \in Councils /\ about[p] # Nobody
         /\ mem[p] = council[about[p]] /\ mem[p] \in Records
         /\ rounds[about[p]] \in [Numbers -> Rounds]
BY CouncilAssumption DEF HoldInv, Types, CommandTypes, FileTypes, Nobody

LEMMA PersistTypes ==
  ASSUME Types, NEW p \in Procs, NEW m \in Records, Persist(p, m), UNCHANGED <<about, plan>>,
         UNCHANGED pc \/ \E l \in Serving : Goto(p, l), UNCHANGED <<rounds, outcome>>
  PROVE  /\ pc' \in [Procs -> Labels] /\ mem' \in [Procs -> Records] /\ FileTypes'
         /\ about' \in [Procs -> Councils \cup {Nobody}]
         /\ plan' \in [Procs -> Plans \cup {0}]
BY DEF Persist, Goto, Types, CommandTypes, FileTypes, Labels

LEMMA GetsType ==
  ASSUME Types, NEW p \in Procs, NEW r \in Reviewers, NEW a, Gets(p, r, a),
         a \in Answers \cup {None, HardGate, Unasked}
  PROVE  got' \in [Procs -> [Reviewers -> Answers \cup {None, HardGate, Unasked}]]
BY DEF Gets, Types, CommandTypes

LEMMA DealsTypes ==
  ASSUME Types, HoldInv, RoomInv, NEW p \in Procs, Deals(p)
  PROVE  CouncilTypes'
<1> USE DEF CouncilTypes
<1>1. ASSUME NEW r \in Reviewers, Grant(p, r) PROVE CouncilTypes'
  <2>1. mem[p] \in Records
    BY DEF Types, CommandTypes
  <2>2. mem[p].extra[r] + 1 \in 0..MaxExtra
    BY <1>1, <2>1, SetupType, CouncilAssumption DEF Grant, Records, Types, ItemTypes
  <2>3. [mem[p] EXCEPT !.extra[r] = @ + 1] \in Records
    BY <2>1, <2>2, GrantedType
  <2> QED BY <1>1, <2>3, PersistTypes DEF Grant, Types, CommandTypes, HistoryTypes, history
<1>2. ASSUME NEW r \in Reviewers, Spend(p, r) PROVE CouncilTypes'
  <2>1. mem[p] \in Records
    BY DEF Types, CommandTypes
  <2>2. Counted(mem[p], r) \in Records
    BY <2>1, CountedType, PostsType
  <2>3. made' \in [Councils -> [Reviewers -> Nat]]
    <3> DEFINE f == [made[about[p]] EXCEPT ![r] = @ + 1]
    <3>1. about[p] \in Councils
      BY <1>2, InService DEF Spend, Calling, Serving
    <3>2. f \in [Reviewers -> Nat]
      BY <3>1 DEF Types, HistoryTypes
    <3>3. made' = [made EXCEPT ![about[p]] = f]
      BY <1>2 DEF Spend, Calling
    <3> QED BY <3>2, <3>3 DEF Types, HistoryTypes
  <2>4. "answer" \in Serving
    BY DEF Serving
  <2> QED BY <1>2, <2>2, <2>3, <2>4, PersistTypes
          DEF Spend, Calling, Types, CommandTypes, HistoryTypes
<1>3. ASSUME NEW r \in Reviewers, Reuse(p, r) \/ GiveUp(p, r) PROVE CouncilTypes'
  <2>1. mem[p].kept[r] \in Answers \cup {None}
    BY DEF Types, CommandTypes, Records
  <2>2. got' \in [Procs -> [Reviewers -> Answers \cup {None, HardGate, Unasked}]]
    BY <1>3, <2>1, GetsType DEF Reuse, GiveUp
  <2> QED BY <1>3, <2>2 DEF Reuse, GiveUp, Types, CommandTypes, FileTypes, HistoryTypes,
                            files, history
<1>4. ASSUME NEW r \in Reviewers, NEW a \in {None, HardGate}, Ends(p, r, a)
      PROVE  CouncilTypes'
  <2>1. got' \in [Procs -> [Reviewers -> Answers \cup {None, HardGate, Unasked}]]
    BY <1>4, GetsType DEF Ends
  <2> QED BY <1>4, <2>1 DEF Ends, Goto, Types, CommandTypes, FileTypes, HistoryTypes,
                            files, history, Labels, Serving
<1>5. ASSUME NEW r \in Reviewers, NEW v \in Verdicts, Answer(p, r, v) PROVE CouncilTypes'
  <2> DEFINE a == [plan |-> plan[p], says |-> v]
  <2>1. mem[p] \in Records
    BY DEF Types, CommandTypes
  <2>2. plan[p] \in Plans /\ a \in Answers
    BY <1>5 DEF Answer, RoomInv, Room, Answers
  <2>3. [mem[p] EXCEPT !.kept[r] = a] \in Records
    BY <2>1, <2>2, KeptType
  <2>4. got' \in [Procs -> [Reviewers -> Answers \cup {None, HardGate, Unasked}]]
    BY <1>5, <2>2, GetsType DEF Answer
  <2>5. safe' \in [Councils -> [Reviewers -> Plans \cup {0}]]
    BY <1>5, <2>2 DEF Answer, Types, HistoryTypes
  <2>6. said' \in [Councils -> [Numbers -> Said]]
    <3> DEFINE c == about[p]
               n == Number(p)
    <3>1. said' = [said EXCEPT ![c][n].by[r] = a]
      BY <1>5 DEF Answer
    <3>2. ASSUME NEW s \in Said PROVE [s EXCEPT !.by[r] = a] \in Said
      BY <2>2 DEF Said
    <3> HIDE DEF a, c, n
    <3> QED BY <3>1, <3>2 DEF Types, HistoryTypes
  <2>7. "ask" \in Serving
    BY DEF Serving
  <2> HIDE DEF a
  <2>8. /\ Persist(p, [mem[p] EXCEPT !.kept[r] = a]) /\ Goto(p, "ask")
        /\ UNCHANGED <<rounds, outcome, about, plan, made>>
    BY <1>5 DEF Answer, a
  <2>9. /\ pc' \in [Procs -> Labels] /\ mem' \in [Procs -> Records] /\ FileTypes'
        /\ about' \in [Procs -> Councils \cup {Nobody}]
        /\ plan' \in [Procs -> Plans \cup {0}]
    BY <2>3, <2>7, <2>8, PersistTypes
  <2> QED BY <2>4, <2>5, <2>6, <2>8, <2>9 DEF Types, CommandTypes, HistoryTypes
<1> QED BY <1>1, <1>2, <1>3, <1>4, <1>5 DEF Deals

LEMMA SaveTypes ==
  ASSUME Types, NEW p \in Procs, NEW r \in Rounds, Save(p, r), UNCHANGED history
  PROVE  CouncilTypes'
<1>1. rounds' \in [Councils -> [Numbers -> Rounds]]
  <2> DEFINE c == about[p]
             n == Number(p)
  <2>1. rounds' = [rounds EXCEPT ![c][n] = r]
    BY DEF Save
  <2> HIDE DEF c, n
  <2> QED BY <2>1 DEF Types, FileTypes
<1> QED BY <1>1 DEF Save, Goto, CouncilTypes, Types, CommandTypes, FileTypes, HistoryTypes,
                    history, Labels, Serving

LEMMA JudgedTypes ==
  ASSUME Types, NEW p \in Procs, Capped(p) \/ Conclude(p)
  PROVE  CouncilTypes'
<1>1. outcome' \in [Councils -> Outcomes]
  BY EvaluateType DEF Capped, Conclude, Types, FileTypes, Outcomes
<1> QED BY <1>1 DEF Capped, Conclude, Goto, CouncilTypes, Types, CommandTypes, FileTypes,
                    HistoryTypes, history, Labels, Serving

LEMMA ListTypes ==
  ASSUME Types, RoomInv, NEW p \in Procs, List(p)
  PROVE  CouncilTypes'
<1> DEFINE m == [mem[p] EXCEPT !.listed = @ + 1, !.calls = NoMem.calls,
                               !.extra = NoMem.extra, !.last = NoMem.last,
                               !.kept = Unanswered]
<1>1. m \in Records
  BY ListedType DEF List, RoomInv, Room, Types, CommandTypes
<1>2. /\ Persist(p, m) /\ Goto(p, "conclude")
      /\ UNCHANGED <<rounds, outcome, about, plan, got, said>>
  BY DEF List
<1> HIDE DEF m
<1>3. made' \in [Councils -> [Reviewers -> Nat]]
      /\ safe' \in [Councils -> [Reviewers -> Plans \cup {0}]]
  BY NoneTypes DEF List, Types, HistoryTypes
<1>4. "conclude" \in Serving
  BY DEF Serving
<1> QED BY <1>1, <1>2, <1>3, <1>4, PersistTypes
        DEF CouncilTypes, Types, CommandTypes, HistoryTypes

LEMMA AttachTypes ==
  ASSUME Types, NEW p \in Procs, NEW rec \in Recons, Attach(p, rec)
  PROVE  CouncilTypes'
<1> DEFINE c == about[p]
<1>1. PICK n \in Latest(mem[p], rounds[about[p]]) :
        /\ rounds' = [rounds EXCEPT ![c][n].recon = rec]
        /\ said' = [said EXCEPT ![c][n].ready = @ \/ rec = "ready"]
  BY DEF Attach
<1>2. \A f \in Rounds : [f EXCEPT !.recon = rec] \in Rounds
  BY DEF Rounds
<1>3. \A s \in Said : [s EXCEPT !.ready = @ \/ rec = "ready"] \in Said
  BY DEF Said
<1> HIDE DEF c
<1>4. rounds' \in [Councils -> [Numbers -> Rounds]]
  BY <1>1, <1>2 DEF Types, FileTypes
<1>5. said' \in [Councils -> [Numbers -> Said]]
  BY <1>1, <1>3 DEF Types, HistoryTypes
<1> QED BY <1>4, <1>5 DEF Attach, Goto, CouncilTypes, Types, CommandTypes, FileTypes,
                          HistoryTypes, Labels, Serving

LEMMA BooksTypes ==
  ASSUME Types, HoldInv, RoomInv, NEW p \in Procs, Books(p)
  PROVE  CouncilTypes'
<1>1. CASE Secret(p)
  BY <1>1, NoneTypes, SaveTypes DEF Secret, Save
<1>2. CASE Commit(p)
  <2> DEFINE r == [NoRound EXCEPT !.kind = "real", !.by = got[p]]
  <2>1. CASE Save(p, Audit)
    BY <1>2, <2>1, NoneTypes, SaveTypes DEF Save
  <2>2. CASE (\A v \in Reviewers : IsReview(got[p][v])) /\ Save(p, r)
    <3>1. \A v \in Reviewers : got[p][v] \in Answers \cup {None}
      BY <2>2 DEF IsReview, Verdicts, HardGate, Unasked, Types, CommandTypes
    <3>2. got[p] \in [Reviewers -> Answers \cup {None}]
      BY <3>1 DEF Types, CommandTypes
    <3>3. r \in Rounds
      BY <3>2 DEF NoRound, Rounds
    <3> HIDE DEF r
    <3> QED BY <2>2, <3>3, SaveTypes DEF Save
  <2> QED BY <1>2, <2>1, <2>2 DEF Commit
<1>3. CASE List(p)
  BY <1>3, ListTypes
<1>4. CASE Capped(p) \/ Conclude(p)
  BY <1>4, JudgedTypes
<1>5. ASSUME NEW rec \in Recons, Attach(p, rec) PROVE CouncilTypes'
  BY <1>5, AttachTypes
<1> QED BY <1>1, <1>2, <1>3, <1>4, <1>5 DEF Books

LEMMA TypesStep ==
  ASSUME Types, HoldInv, RoomInv, [Next]_vars
  PROVE  Types'
<1>1. CouncilTypes'
  BY StepShape, StillTypes, EndedTypes, MovedTypes, BeginsTypes, DealsTypes, BooksTypes
<1> QED BY <1>1, ItemTypesStep DEF Types, CouncilTypes

------------------------------------------------------------------------------
(* HoldInv is inductive.                                                    *)

LEMMA FixedHolds ==
  ASSUME Types, HoldInv, NEW p \in Procs, UNCHANGED <<council, about, mem>>,
         UNCHANGED pc \/ \E l \in Labels : Goto(p, l) /\ (l \in Serving <=> pc[p] \in Serving)
  PROVE  HoldInv'
<1>1. \A q \in Procs : pc'[q] \in Serving <=> pc[q] \in Serving
  BY DEF Goto, Types, CommandTypes
<1> QED BY <1>1 DEF HoldInv, Types, CommandTypes

LEMMA PersistHolds ==
  ASSUME Types, HoldInv, NEW p \in Procs, pc[p] \in Serving,
         NEW m \in Records, m.phase = mem[p].phase, Persist(p, m), UNCHANGED about,
         UNCHANGED pc \/ \E l \in Serving : Goto(p, l)
  PROVE  HoldInv'
<1>1. \A q \in Procs : pc'[q] \in Serving <=> pc[q] \in Serving
  BY DEF Goto, Types, CommandTypes
<1>2. about[p] \in Councils /\ mem[p] = council[about[p]] /\ about[p] # Nobody
  BY InService
<1>3. mem'[p] = m /\ \A q \in Procs : q # p => mem'[q] = mem[q]
  BY DEF Persist, Types, CommandTypes
<1>4. council'[about[p]] = m /\ \A c \in Councils : c # about[p] => council'[c] = council[c]
  BY <1>2 DEF Persist, Types, FileTypes
<1>5. \A q \in Procs : about[q] # Nobody => about[q] \in Councils
  BY DEF Types, CommandTypes
<1> QED BY <1>1, <1>2, <1>3, <1>4, <1>5 DEF HoldInv

LEMMA EndedHolds ==
  ASSUME Types, HoldInv, NEW p \in Procs, Ended(p)
  PROVE  HoldInv'
<1>1. pc'[p] = "idle" /\ about'[p] = Nobody /\ council' = council
  BY DEF Ended, Return, Goto, Types, CommandTypes
<1>2. \A q \in Procs : q # p => pc'[q] = pc[q] /\ about'[q] = about[q] /\ mem'[q] = mem[q]
  BY DEF Ended, Return, Goto, Types, CommandTypes
<1>3. Nobody \notin Councils /\ "idle" \notin Serving
  BY CouncilAssumption DEF Nobody, Serving
<1> QED BY <1>1, <1>2, <1>3 DEF HoldInv

LEMMA BeginHolds ==
  ASSUME Types, HoldInv, NEW p \in Procs, pc[p] = "idle", NEW c \in Councils, NEW pl,
         NEW m \in Records, m.phase # "none", NEW l \in Serving, Begin(p, c, pl, m, l),
         council' = [council EXCEPT ![c] = m], ~Exists(c) \/ Free(c)
  PROVE  HoldInv'
<1>1. pc'[p] = l /\ about'[p] = c /\ mem'[p] = m
  BY DEF Begin, Goto, Types, CommandTypes
<1>2. \A q \in Procs : q # p => pc'[q] = pc[q] /\ about'[q] = about[q] /\ mem'[q] = mem[q]
  BY DEF Begin, Goto, Types, CommandTypes
<1>3. \A q \in Procs : about[q] # c
  BY CouncilAssumption DEF HoldInv, Exists, Free, Nobody
<1>4. council'[c] = m /\ \A d \in Councils : d # c => council'[d] = council[d]
  BY DEF Types, FileTypes
<1>5. \A q \in Procs : about[q] # Nobody => about[q] \in Councils
  BY DEF Types, CommandTypes
<1> QED BY <1>1, <1>2, <1>3, <1>4, <1>5 DEF HoldInv

LEMMA BeginsHolds ==
  ASSUME Types, HoldInv, NEW p \in Procs, Begins(p)
  PROVE  HoldInv'
<1>0. "ready" \in Serving /\ "attach" \in Serving
  BY DEF Serving
<1>1. ASSUME NEW c \in Councils, NEW scope \in BOOLEAN, NEW pl \in Plans, NEW ph \in Phases,
             NEW class \in Classes, Create(p, c, ph, class, scope, pl)
      PROVE  HoldInv'
  <2> DEFINE m == [NoMem EXCEPT !.phase = ph, !.class = class, !.scope = scope, !.at = posts]
  <2>1. m \in Records /\ m.phase # "none"
    BY NewRecord, PostsType DEF Phases
  <2>2. Begin(p, c, pl, m, "ready") /\ council' = [council EXCEPT ![c] = m]
        /\ pc[p] = "idle" /\ ~Exists(c)
    BY <1>1 DEF Create, Fresh, First
  <2> HIDE DEF m
  <2> QED BY <1>0, <2>1, <2>2, BeginHolds
<1>2. ASSUME NEW c \in Councils, NEW scope \in BOOLEAN, NEW pl, NEW l \in Serving,
             pc[p] = "idle", Exists(c), Free(c),
             Begin(p, c, pl, [council[c] EXCEPT !.scope = @ \/ scope], l),
             council' = [council EXCEPT ![c] = [council[c] EXCEPT !.scope = @ \/ scope]]
      PROVE  HoldInv'
  <2> DEFINE m == [council[c] EXCEPT !.scope = @ \/ scope]
  <2>1. m \in Records /\ m.phase # "none"
    BY <1>2, ScopedType DEF Types, FileTypes, Exists
  <2>2. Begin(p, c, pl, m, l) /\ council' = [council EXCEPT ![c] = m]
    BY <1>2
  <2> HIDE DEF m
  <2> QED BY <1>2, <2>1, <2>2, BeginHolds
<1>3. ASSUME NEW c \in Councils, NEW scope \in BOOLEAN, NEW pl \in Plans,
             Continue(p, c, pl, scope)
      PROVE  HoldInv'
  BY <1>0, <1>2, <1>3 DEF Continue
<1>4. ASSUME NEW c \in Councils, NEW scope \in BOOLEAN, Reconcile(p, c, scope)
      PROVE  HoldInv'
  BY <1>0, <1>2, <1>4 DEF Reconcile
<1> QED BY <1>1, <1>3, <1>4 DEF Begins

(* What the Persist steps make of a copy.                                   *)
LEMMA GrantStep ==
  ASSUME Types, NEW p \in Procs, NEW r \in Reviewers, Grant(p, r)
  PROVE  LET m == [mem[p] EXCEPT !.extra[r] = @ + 1]
         IN  /\ Persist(p, m) /\ m \in Records /\ m.phase = mem[p].phase
             /\ m.class = mem[p].class /\ m.scope = mem[p].scope
             /\ m.listed = mem[p].listed
             /\ m.calls = mem[p].calls /\ m.kept = mem[p].kept
             /\ m.extra[r] = mem[p].extra[r] + 1
             /\ \A v \in Reviewers : v # r => m.extra[v] = mem[p].extra[v]
<1>1. mem[p] \in Records
  BY DEF Types, CommandTypes
<1>2. mem[p].extra[r] + 1 \in 0..MaxExtra
  BY <1>1, SetupType, CouncilAssumption DEF Grant, Records, Types, ItemTypes
<1> QED BY <1>1, <1>2, GrantedType DEF Grant

LEMMA SpendStep ==
  ASSUME Types, NEW p \in Procs, NEW r \in Reviewers, Spend(p, r)
  PROVE  LET m == Counted(mem[p], r)
         IN  /\ Persist(p, m) /\ m \in Records /\ m.phase = mem[p].phase
             /\ m.class = mem[p].class /\ m.scope = mem[p].scope
             /\ m.listed = mem[p].listed
             /\ m.extra = mem[p].extra /\ m.kept = mem[p].kept
             /\ m.calls[r] = mem[p].calls[r] + 1
             /\ \A v \in Reviewers : v # r => m.calls[v] = mem[p].calls[v]
BY PostsType, CountedType DEF Spend, Types, CommandTypes

Review(p, v) == [plan |-> plan[p], says |-> v]

LEMMA AnswerStep ==
  ASSUME Types, RoomInv, NEW p \in Procs, NEW r \in Reviewers, NEW v \in Verdicts,
         Answer(p, r, v)
  PROVE  LET m == [mem[p] EXCEPT !.kept[r] = Review(p, v)]
         IN  /\ Persist(p, m) /\ m \in Records /\ m.phase = mem[p].phase
             /\ m.class = mem[p].class /\ m.scope = mem[p].scope
             /\ m.listed = mem[p].listed
             /\ m.calls = mem[p].calls /\ m.extra = mem[p].extra
             /\ m.kept[r] = Review(p, v)
             /\ \A u \in Reviewers : u # r => m.kept[u] = mem[p].kept[u]
<1>1. mem[p] \in Records
  BY DEF Types, CommandTypes
<1>2. Review(p, v) \in Answers
  BY DEF Answer, RoomInv, Room, Answers, Review
<1>3. Persist(p, [mem[p] EXCEPT !.kept[r] = Review(p, v)])
  BY DEF Answer, Review
<1> QED BY <1>1, <1>2, <1>3, KeptType

LEMMA ListStep ==
  ASSUME Types, RoomInv, NEW p \in Procs, List(p)
  PROVE  \E m \in Records :
             /\ Persist(p, m) /\ m.phase = mem[p].phase
             /\ m.class = mem[p].class /\ m.scope = mem[p].scope
             /\ m.listed = mem[p].listed + 1
             /\ m.calls = NoMem.calls /\ m.extra = NoMem.extra
             /\ m.kept = Unanswered
<1>1. mem[p] \in Records /\ mem[p].listed < MaxNumber
  BY DEF List, RoomInv, Room, Types, CommandTypes
<1> QED BY <1>1, ListedType DEF List

LEMMA DealsHolds ==
  ASSUME Types, HoldInv, RoomInv, NEW p \in Procs, Deals(p)
  PROVE  HoldInv'
<1>1. ASSUME NEW r \in Reviewers, Grant(p, r) PROVE HoldInv'
  BY <1>1, GrantStep, PersistHolds DEF Grant, Serving
<1>2. ASSUME NEW r \in Reviewers, Spend(p, r) PROVE HoldInv'
  BY <1>2, SpendStep, PersistHolds DEF Spend, Calling, Serving
<1>3. ASSUME NEW r \in Reviewers, Reuse(p, r) \/ GiveUp(p, r) PROVE HoldInv'
  BY <1>3, FixedHolds DEF Reuse, GiveUp, files
<1>4. ASSUME NEW r \in Reviewers, NEW a \in {None, HardGate}, Ends(p, r, a)
      PROVE  HoldInv'
  BY <1>4, FixedHolds DEF Ends, files, Labels, Serving
<1>5. ASSUME NEW r \in Reviewers, NEW v \in Verdicts, Answer(p, r, v) PROVE HoldInv'
  BY <1>5, AnswerStep, PersistHolds DEF Answer, Serving
<1> QED BY <1>1, <1>2, <1>3, <1>4, <1>5 DEF Deals

LEMMA BooksHolds ==
  ASSUME Types, HoldInv, RoomInv, NEW p \in Procs, Books(p)
  PROVE  HoldInv'
<1>1. CASE Secret(p)
  BY <1>1, FixedHolds DEF Secret, Dispatching, Save, Labels, Serving
<1>2. CASE Commit(p)
  BY <1>2, FixedHolds DEF Commit, Save, Labels, Serving
<1>3. CASE List(p)
  BY <1>3, ListStep, PersistHolds DEF List, Serving
<1>4. CASE Capped(p) \/ Conclude(p)
  BY <1>4, FixedHolds DEF Capped, Conclude, Labels, Serving
<1>5. ASSUME NEW rec \in Recons, Attach(p, rec) PROVE HoldInv'
  BY <1>5, FixedHolds DEF Attach, Labels, Serving
<1> QED BY <1>1, <1>2, <1>3, <1>4, <1>5 DEF Books

LEMMA HoldStep ==
  ASSUME Types, HoldInv, RoomInv, [Next]_vars
  PROVE  HoldInv'
<1>1. CASE Still
  BY <1>1 DEF Still, HoldInv, files, local
<1>2. ASSUME NEW p \in Procs, Moved(p) PROVE HoldInv'
  BY <1>2, FixedHolds DEF Moved, Dispatching, files, Labels, Serving, Others
<1> QED BY <1>1, <1>2, StepShape, EndedHolds, BeginsHolds, DealsHolds, BooksHolds

------------------------------------------------------------------------------
(* The other invariants speak of one council or of one process at a time.   *)

(* The attempts and answers on disk are those that were made and given.     *)
Book(c) ==
  /\ council[c].phase = "none" => council[c] = NoMem
  /\ made[c] = council[c].calls
  /\ \A r \in Reviewers : /\ made[c][r] <= 2 + council[c].extra[r]
                          /\ safe[c][r] = council[c].kept[r].plan

(* In round n both reviewers gave a review, about the same packet.          *)
Heard(c, n) == /\ \A r \in Reviewers : IsReview(said[c][n].by[r])
               /\ said[c][n].by["gpt"].plan = said[c][n].by["codex"].plan

(* Round file n of c says what was said.                                    *)
Truthful(c, n) == /\ rounds[c][n].kind # "none"
                  /\ rounds[c][n].kind = "real" => /\ rounds[c][n].by = said[c][n].by
                                                   /\ Heard(c, n)
                  /\ rounds[c][n].recon = "ready" => said[c][n].ready

(* So do all that are listed, and the answers that are kept for the next.   *)
Recorded(c) ==
  /\ \A n \in Listed(council[c]) : Truthful(c, n)
  /\ \A r \in Reviewers : council[c].kept[r] # None =>
       /\ council[c].listed < MaxNumber /\ IsReview(council[c].kept[r])
       /\ said[c][council[c].listed + 1].by[r] = council[c].kept[r]

(* The reviews that p has got are kept, and about its packet; the round it  *)
(* lists next is on disk.                                                   *)
Honest(p) ==
  /\ pc[p] \in Others \cup {"ready", "attach"} => \A r \in Reviewers : got[p][r] = Unasked
  /\ pc[p] \in {"ask", "answer"} => \A r \in Reviewers : IsReview(got[p][r]) =>
       got[p][r] = mem[p].kept[r] /\ got[p][r].plan = plan[p]
  /\ pc[p] = "list" => Truthful(about[p], Number(p))

(* What an agreement rests on, in the rounds that are listed.               *)
Gained(c) ==
  /\ Completed(council[c], rounds[c]) >= MinRounds
  /\ \E n \in Real(council[c], rounds[c]) :
       /\ said[c][n].ready /\ \A r \in Reviewers : said[c][n].by[r].says = "approve"
  /\ council[c].scope

Agree(c) == outcome[c] = "agreement" => Gained(c)

(* A step that takes nothing back: a council stays of its phase, and what   *)
(* was gained stays gained, whatever becomes of the outcome.                *)
Stays(c) == /\ council[c].phase # "none" => council'[c].phase = council[c].phase
            /\ Gained(c) => Gained(c)'

CouncilInv(c) == Book(c) /\ Recorded(c) /\ Agree(c)
ProcInv(p)    == Room(p) /\ Honest(p)

Inv == /\ Types /\ HoldInv
       /\ \A c \in Councils : CouncilInv(c)
       /\ \A p \in Procs : ProcInv(p)

(* A step of p about council c leaves every other process and council.      *)
Frame(p, c) ==
  /\ \A q \in Procs \ {p} : /\ pc'[q] = pc[q] /\ about'[q] = about[q]
                            /\ plan'[q] = plan[q] /\ mem'[q] = mem[q] /\ got'[q] = got[q]
                            /\ about[q] # Nobody => about[q] # c
  /\ \A d \in Councils \ {c} : /\ council'[d] = council[d] /\ rounds'[d] = rounds[d]
                               /\ outcome'[d] = outcome[d] /\ made'[d] = made[d]
                               /\ safe'[d] = safe[d] /\ said'[d] = said[d]

LEMMA AloneHere ==
  ASSUME HoldInv, NEW p \in Procs
  PROVE  \A q \in Procs \ {p} : about[q] # Nobody => about[q] # about[p]
BY DEF HoldInv

LEMMA FrameQuiet ==
  ASSUME Types, HoldInv, NEW p \in Procs, Ended(p) \/ Moved(p)
  PROVE  Frame(p, about[p])
<1>1. CASE Ended(p)
  BY <1>1, AloneHere DEF Ended, Return, Goto, Frame, history, Types, CommandTypes, FileTypes
<1>2. CASE Moved(p)
  BY <1>2, AloneHere DEF Moved, Goto, Frame, files, history, Types, CommandTypes
<1> QED BY <1>1, <1>2

LEMMA FrameDeals ==
  ASSUME Types, HoldInv, NEW p \in Procs, Deals(p)
  PROVE  Frame(p, about[p])
<1>1. ASSUME NEW r \in Reviewers, Grant(p, r) PROVE Frame(p, about[p])
  BY <1>1, AloneHere DEF Grant, Persist, Frame, history, Types, CommandTypes, FileTypes
<1>2. ASSUME NEW r \in Reviewers, Spend(p, r) PROVE Frame(p, about[p])
  BY <1>2, AloneHere DEF Spend, Calling, Goto, Persist, Frame, Types, CommandTypes, FileTypes,
                         HistoryTypes
<1>3. ASSUME NEW r \in Reviewers, Reuse(p, r) \/ GiveUp(p, r) PROVE Frame(p, about[p])
  BY <1>3, AloneHere DEF Reuse, GiveUp, Gets, Frame, files, history, Types, CommandTypes
<1>4. ASSUME NEW r \in Reviewers, NEW a \in {None, HardGate}, Ends(p, r, a)
      PROVE  Frame(p, about[p])
  BY <1>4, AloneHere DEF Ends, Gets, Goto, Frame, files, history, Types, CommandTypes
<1>5. ASSUME NEW r \in Reviewers, NEW v \in Verdicts, Answer(p, r, v)
      PROVE  Frame(p, about[p])
  BY <1>5, AloneHere DEF Answer, Gets, Goto, Persist, Frame, Types, CommandTypes, FileTypes,
                         HistoryTypes
<1> QED BY <1>1, <1>2, <1>3, <1>4, <1>5 DEF Deals

LEMMA FrameBooks ==
  ASSUME Types, HoldInv, NEW p \in Procs, Books(p)
  PROVE  Frame(p, about[p])
<1>1. CASE Secret(p) \/ Commit(p)
  BY <1>1, AloneHere DEF Secret, Commit, Save, Goto, Frame, history, Types, CommandTypes,
                         FileTypes
<1>2. CASE List(p)
  BY <1>2, AloneHere DEF List, Persist, Goto, Frame, Types, CommandTypes, FileTypes,
                         HistoryTypes
<1>3. CASE Capped(p) \/ Conclude(p)
  BY <1>3, AloneHere DEF Capped, Conclude, Goto, Frame, history, Types, CommandTypes,
                         FileTypes
<1>4. ASSUME NEW rec \in Recons, Attach(p, rec) PROVE Frame(p, about[p])
  BY <1>4, AloneHere DEF Attach, Goto, Frame, Types, CommandTypes, FileTypes, HistoryTypes
<1> QED BY <1>1, <1>2, <1>3, <1>4 DEF Books

LEMMA FrameBegin ==
  ASSUME Types, HoldInv, NEW p \in Procs, NEW c \in Councils, NEW pl, NEW m, NEW l,
         Begin(p, c, pl, m, l), council' = [council EXCEPT ![c] = m], ~Exists(c) \/ Free(c),
         UNCHANGED <<rounds, outcome, history>>
  PROVE  Frame(p, c)
<1>1. \A q \in Procs : about[q] # c
  BY CouncilAssumption DEF HoldInv, Exists, Free, Nobody
<1> QED BY <1>1 DEF Begin, Goto, Frame, history, Types, CommandTypes, FileTypes

(* So every invariant stays for those.                                      *)
LEMMA OthersStay ==
  ASSUME Inv, NEW p \in Procs, NEW c, Frame(p, c)
  PROVE  /\ \A d \in Councils \ {c} : CouncilInv(d)' /\ Stays(d)
         /\ \A q \in Procs \ {p} : ProcInv(q)'
<1>1. ASSUME NEW d \in Councils \ {c} PROVE CouncilInv(d)' /\ Stays(d)
  <2>1. CouncilInv(d)
    BY DEF Inv
  <2>2. /\ council'[d] = council[d] /\ rounds'[d] = rounds[d] /\ outcome'[d] = outcome[d]
        /\ made'[d] = made[d] /\ safe'[d] = safe[d] /\ said'[d] = said[d]
    BY DEF Frame
  <2>3. Book(d)'
    BY <2>1, <2>2 DEF CouncilInv, Book
  <2>4. \A n : Truthful(d, n)' <=> Truthful(d, n)
    BY <2>2 DEF Truthful, Heard
  <2>5. Recorded(d)'
    BY <2>1, <2>2, <2>4 DEF CouncilInv, Recorded, Listed
  <2>6. /\ Completed(council'[d], rounds'[d]) = Completed(council[d], rounds[d])
        /\ Real(council'[d], rounds'[d]) = Real(council[d], rounds[d])
    BY <2>2
  <2>7. Stays(d)
    BY <2>2, <2>6 DEF Stays, Gained
  <2>8. Agree(d)'
    BY <2>1, <2>2, <2>7 DEF CouncilInv, Agree, Stays
  <2> QED BY <2>3, <2>5, <2>7, <2>8 DEF CouncilInv
<1>2. ASSUME NEW q \in Procs \ {p} PROVE ProcInv(q)'
  <2>1. ProcInv(q)
    BY DEF Inv
  <2>2. pc'[q] = pc[q] /\ about'[q] = about[q] /\ plan'[q] = plan[q] /\ mem'[q] = mem[q]
        /\ got'[q] = got[q]
    BY DEF Frame
  <2>3. pc[q] \in Serving => /\ rounds'[about[q]] = rounds[about[q]]
                            /\ said'[about[q]] = said[about[q]]
    BY InService DEF Frame, Inv
  <2>4. pc[q] \in Serving =>
          Completed(mem'[q], rounds'[about'[q]]) = Completed(mem[q], rounds[about[q]])
    BY <2>2, <2>3
  <2>5. Room(q)'
    BY <2>1, <2>2, <2>4 DEF ProcInv, Room, Serving
  <2>6. pc[q] \in Serving => (Truthful(about[q], Number(q))' <=> Truthful(about[q], Number(q)))
    BY <2>2, <2>3 DEF Truthful, Heard, Number
  <2>7. Honest(q)'
    BY <2>1, <2>2, <2>6 DEF ProcInv, Honest, Serving
  <2> QED BY <2>5, <2>7 DEF ProcInv
<1> QED BY <1>1, <1>2

(* What a step of p owes to its own council and process.                    *)
OwnInv(p, c) == (c \in Councils => CouncilInv(c)' /\ Stays(c)) /\ ProcInv(p)'

LEMMA OwnAndOthers ==
  ASSUME Inv, NEW p \in Procs, NEW c, Frame(p, c), OwnInv(p, c)
  PROVE  (\A d \in Councils : CouncilInv(d)' /\ Stays(d)) /\ (\A q \in Procs : ProcInv(q)')
BY OthersStay DEF OwnInv

------------------------------------------------------------------------------
(* What each step does to its own council and process.                      *)

(* The rule over the rounds reads how many are listed, and nothing else of  *)
(* council.json.                                                            *)
LEMMA SameReal ==
  ASSUME NEW m, NEW k, NEW f, m.listed = k.listed
  PROVE  /\ Real(m, f) = Real(k, f) /\ Completed(m, f) = Completed(k, f)
         /\ Latest(m, f) = Latest(k, f)
<1>1. Real(m, f) = Real(k, f)
  BY DEF Real, Listed
<1> QED BY <1>1 DEF Completed, Latest

LEMMA FilesStay ==
  ASSUME Inv, UNCHANGED <<files, history>>, NEW c \in Councils
  PROVE  CouncilInv(c)' /\ Stays(c)
<1>1. CouncilInv(c)
  BY DEF Inv
<1>2. \A n : Truthful(c, n)' <=> Truthful(c, n)
  BY DEF files, history, Truthful, Heard
<1>3. /\ Completed(council'[c], rounds'[c]) = Completed(council[c], rounds[c])
      /\ Real(council'[c], rounds'[c]) = Real(council[c], rounds[c])
  BY DEF files
<1>4. Stays(c)
  BY <1>3 DEF files, history, Stays, Gained
<1> QED BY <1>1, <1>2, <1>4 DEF files, history, CouncilInv, Book, Recorded, Listed, Agree, Stays

LEMMA EndedOwn ==
  ASSUME Inv, NEW p \in Procs, NEW c, c = about[p], Ended(p)
  PROVE  OwnInv(p, c)
<1>1. ProcInv(p)'
  <2>1. pc'[p] = "idle" /\ \A r \in Reviewers : got'[p][r] = Unasked
    BY DEF Inv, Types, CommandTypes, Ended, Return, Goto
  <2> QED BY <2>1 DEF ProcInv, Room, Honest
<1>2. ASSUME c \in Councils PROVE CouncilInv(c)' /\ Stays(c)
  <2>1. CouncilInv(c)
    BY <1>2 DEF Inv
  <2>2. council' = council /\ rounds' = rounds /\ made' = made /\ safe' = safe /\ said' = said
    BY DEF Ended, history
  <2>3. outcome'[c] = "agreement" => outcome[c] = "agreement"
    BY <1>2 DEF Ended, Inv, Types, FileTypes
  <2>4. \A n : Truthful(c, n)' <=> Truthful(c, n)
    BY <2>2 DEF Truthful, Heard
  <2>5. /\ Completed(council'[c], rounds'[c]) = Completed(council[c], rounds[c])
        /\ Real(council'[c], rounds'[c]) = Real(council[c], rounds[c])
    BY <2>2
  <2>6. Stays(c)
    BY <2>2, <2>5 DEF Stays, Gained
  <2> QED BY <2>1, <2>2, <2>3, <2>4, <2>6
          DEF CouncilInv, Book, Recorded, Listed, Agree, Stays
<1> QED BY <1>1, <1>2 DEF OwnInv

LEMMA MovedOwn ==
  ASSUME Inv, NEW p \in Procs, NEW c, c = about[p], Moved(p)
  PROVE  OwnInv(p, c)
<1>1. c \in Councils => CouncilInv(c)' /\ Stays(c)
  BY FilesStay DEF Moved
<1>2. ProcInv(p)
  BY DEF Inv
<1>3. CASE Goto(p, "ask") /\ (Dispatching(p) \/ pc[p] = "answer")
  <2>1. pc'[p] = "ask"
    BY <1>3 DEF Goto, Inv, Types, CommandTypes
  <2>2. mem[p].listed < MaxNumber /\ plan[p] \in Plans
    <3>1. CASE Dispatching(p)
      <4>1. about[p] \in Councils /\ mem[p] \in Records /\ rounds[about[p]] \in [Numbers -> Rounds]
        BY <3>1, InService DEF Dispatching, Serving, Inv
      <4>2. Completed(mem[p], rounds[about[p]]) \in 0..mem[p].listed /\ mem[p].listed \in Nat
        BY <4>1, CompletedType, CouncilAssumption DEF Records
      <4> QED BY <1>2, <3>1, <4>2, CouncilAssumption DEF Dispatching, ProcInv, Room
    <3>2. CASE pc[p] = "answer"
      BY <1>2, <3>2 DEF ProcInv, Room
    <3> QED BY <1>3, <3>1, <3>2
  <2>3. \A r \in Reviewers : IsReview(got[p][r]) =>
          got[p][r] = mem[p].kept[r] /\ got[p][r].plan = plan[p]
    BY <1>2, <1>3 DEF Dispatching, ProcInv, Honest, IsReview, Verdicts, Unasked
  <2>4. ProcInv(p)'
    BY <2>1, <2>2, <2>3 DEF Moved, ProcInv, Room, Honest, Others
  <2> QED BY <1>1, <2>4 DEF OwnInv
<1>4. ASSUME NEW l \in Others, Goto(p, l), pc[p] \in Others PROVE OwnInv(p, c)
  <2>1. pc'[p] = l
    BY <1>4 DEF Goto, Inv, Types, CommandTypes
  <2>2. ProcInv(p)'
    BY <1>2, <1>4, <2>1 DEF Moved, ProcInv, Room, Honest, Others
  <2> QED BY <1>1, <2>2 DEF OwnInv
<1> QED BY <1>3, <1>4 DEF Moved

LEMMA CreatedOwn ==
  ASSUME Inv, NEW p \in Procs, NEW c \in Councils, NEW scope \in BOOLEAN, NEW pl \in Plans,
         NEW ph \in Phases, NEW class \in Classes, Create(p, c, ph, class, scope, pl)
  PROVE  Frame(p, c) /\ OwnInv(p, c)
<1> DEFINE m == [NoMem EXCEPT !.phase = ph, !.class = class, !.scope = scope, !.at = posts]
<1>1. /\ m \in Records /\ m.phase = ph /\ m.listed = 0
      /\ m.calls = NoMem.calls /\ m.extra = NoMem.extra /\ m.kept = NoMem.kept
  <2>1. posts \in Nat
    BY PostsType DEF Inv
  <2>2. m \in Records
    BY <2>1, NewRecord
  <2> QED BY <2>1, <2>2 DEF NoMem
<1>2. /\ Begin(p, c, pl, m, "ready") /\ council' = [council EXCEPT ![c] = m]
      /\ UNCHANGED <<rounds, outcome, history>>
      /\ pc[p] = "idle" /\ council[c].phase = "none"
  BY DEF Create, Fresh, First, Exists
<1> HIDE DEF m
<1>3. Frame(p, c)
  BY <1>2, FrameBegin DEF Inv, Exists
<1>4. CouncilInv(c) /\ ProcInv(p)
  BY DEF Inv
<1>5. council[c] = NoMem
  BY <1>2, <1>4 DEF CouncilInv, Book
<1>6. council'[c] = m /\ rounds' = rounds /\ outcome' = outcome
      /\ made' = made /\ safe' = safe /\ said' = said
  BY <1>2 DEF history, Inv, Types, FileTypes
<1>7. Book(c)'
  BY <1>1, <1>4, <1>5, <1>6 DEF CouncilInv, Book, Phases
<1>8. Recorded(c)'
  <2>1. Listed(m) = {} /\ \A r \in Reviewers : m.kept[r] = None
    BY <1>1 DEF Listed, NoMem, Unanswered
  <2> QED BY <1>6, <2>1 DEF Recorded
<1>9. Stays(c) /\ Agree(c)'
  BY <1>2, <1>4, <1>5, <1>6 DEF CouncilInv, Agree, Stays, Gained, NoMem
<1>10. ProcInv(p)'
  <2>1. pc'[p] = "ready" /\ plan'[p] = pl /\ mem'[p] = m /\ got' = got
    BY <1>2 DEF Begin, Goto, Inv, Types, CommandTypes
  <2> QED BY <1>1, <1>2, <1>4, <2>1, CouncilAssumption DEF ProcInv, Room, Honest, Others
<1> QED BY <1>3, <1>7, <1>8, <1>9, <1>10 DEF OwnInv, CouncilInv

LEMMA ScopedOwn ==
  ASSUME Inv, NEW p \in Procs, NEW c \in Councils, NEW scope \in BOOLEAN,
         NEW pl, NEW l \in {"ready", "attach"},
         l = "ready" => /\ pl \in Plans
                        /\ \/ council[c].listed < setup.numbers[c]
                           \/ Completed(council[c], rounds[c]) >= MaxRounds,
         pc[p] = "idle", Exists(c), Free(c),
         Begin(p, c, pl, [council[c] EXCEPT !.scope = @ \/ scope], l),
         council' = [council EXCEPT ![c] = [council[c] EXCEPT !.scope = @ \/ scope]],
         UNCHANGED <<rounds, outcome, history>>
  PROVE  Frame(p, c) /\ OwnInv(p, c)
<1> DEFINE m == [council[c] EXCEPT !.scope = @ \/ scope]
<1>1. /\ m \in Records /\ m.phase = council[c].phase /\ m.listed = council[c].listed
      /\ m.calls = council[c].calls /\ m.extra = council[c].extra
      /\ m.kept = council[c].kept /\ (council[c].scope => m.scope)
  BY ScopedType DEF Inv, Types, FileTypes
<1>2. Begin(p, c, pl, m, l) /\ council' = [council EXCEPT ![c] = m]
  OBVIOUS
<1> HIDE DEF m
<1>3. Frame(p, c)
  BY <1>2, FrameBegin DEF Inv
<1>4. CouncilInv(c) /\ ProcInv(p)
  BY DEF Inv
<1>5. council'[c] = m /\ rounds' = rounds /\ outcome' = outcome
      /\ made' = made /\ safe' = safe /\ said' = said
  BY <1>2 DEF history, Inv, Types, FileTypes
<1>6. Book(c)'
  BY <1>1, <1>4, <1>5 DEF CouncilInv, Book, Exists
<1>7. \A n : Truthful(c, n)' <=> Truthful(c, n)
  BY <1>5 DEF Truthful, Heard
<1>8. Recorded(c)'
  BY <1>1, <1>4, <1>5, <1>7 DEF CouncilInv, Recorded, Listed
<1>9. /\ Completed(council'[c], rounds'[c]) = Completed(council[c], rounds[c])
      /\ Real(council'[c], rounds'[c]) = Real(council[c], rounds[c])
  BY <1>1, <1>5, SameReal
<1>10. Stays(c) /\ Agree(c)'
  BY <1>1, <1>4, <1>5, <1>9 DEF CouncilInv, Agree, Stays, Gained
<1>11. ProcInv(p)'
  <2>1. pc'[p] = l /\ about'[p] = c /\ plan'[p] = pl /\ mem'[p] = m /\ got' = got
    BY <1>2 DEF Begin, Goto, Inv, Types, CommandTypes
  <2>2. l = "ready" => \/ m.listed < MaxNumber
                       \/ Completed(m, rounds[c]) >= MaxRounds
    <3>1. setup.numbers[c] \in 0..MaxNumber /\ council[c].listed \in Nat
      BY SetupType, CouncilAssumption DEF Inv, Types, ItemTypes, FileTypes, Records
    <3>2. council[c].listed < setup.numbers[c] => council[c].listed < MaxNumber
      BY <3>1, CouncilAssumption
    <3> QED BY <1>1, <3>2, SameReal
  <2>3. Completed(mem'[p], rounds'[about'[p]]) = Completed(m, rounds[c])
    BY <1>5, <2>1
  <2>4. Room(p)'
    BY <2>1, <2>2, <2>3 DEF Room
  <2>5. Honest(p)'
    BY <1>4, <2>1 DEF ProcInv, Honest, Others
  <2> QED BY <2>4, <2>5 DEF ProcInv
<1> QED BY <1>3, <1>6, <1>8, <1>10, <1>11 DEF OwnInv, CouncilInv

LEMMA BeginsOwn ==
  ASSUME Inv, NEW p \in Procs, Begins(p)
  PROVE  \E c \in Councils : Frame(p, c) /\ OwnInv(p, c)
<1>1. ASSUME NEW c \in Councils, NEW scope \in BOOLEAN, NEW pl \in Plans,
             Continue(p, c, pl, scope)
      PROVE  Frame(p, c) /\ OwnInv(p, c)
  BY <1>1, ScopedOwn DEF Continue
<1>2. ASSUME NEW c \in Councils, NEW scope \in BOOLEAN, Reconcile(p, c, scope)
      PROVE  Frame(p, c) /\ OwnInv(p, c)
  BY <1>2, ScopedOwn DEF Reconcile
<1> QED BY <1>1, <1>2, CreatedOwn DEF Begins

LEMMA GrantOwn ==
  ASSUME Inv, NEW p \in Procs, NEW c, c = about[p], NEW r \in Reviewers, Grant(p, r)
  PROVE  OwnInv(p, c)
<1>0. /\ c \in Councils /\ mem[p] = council[c] /\ mem[p] \in Records
      /\ CouncilInv(c) /\ ProcInv(p) /\ pc[p] = "ready"
  BY InService DEF Inv, Grant, Serving
<1>1. PICK m \in Records :
        /\ Persist(p, m) /\ m.phase = mem[p].phase
        /\ m.scope = mem[p].scope /\ m.listed = mem[p].listed
        /\ m.calls = mem[p].calls /\ m.kept = mem[p].kept
        /\ m.extra[r] = mem[p].extra[r] + 1
        /\ \A v \in Reviewers : v # r => m.extra[v] = mem[p].extra[v]
  BY GrantStep DEF Inv
<1>2. council'[c] = m /\ mem'[p] = m /\ UNCHANGED <<rounds, outcome, history, pc, about, plan, got>>
  BY <1>0, <1>1 DEF Grant, Persist, Inv, Types, FileTypes, CommandTypes
<1>3. Book(c)'
  <2>1. \A v \in Reviewers : made[c][v] \in Nat /\ council[c].extra[v] \in Nat
                             /\ m.extra[v] \in Nat
    BY <1>0, CouncilAssumption DEF Inv, Types, HistoryTypes, Records
  <2>2. council[c].phase # "none"
    BY <1>0, InService DEF Inv, HoldInv, Serving
  <2>3. \A v \in Reviewers : made[c][v] <= 2 + m.extra[v]
    BY <1>0, <1>1, <2>1 DEF CouncilInv, Book
  <2> QED BY <1>0, <1>1, <1>2, <2>2, <2>3 DEF CouncilInv, Book, history
<1>4. \A n : Truthful(c, n)' <=> Truthful(c, n)
  BY <1>2 DEF Truthful, Heard, history
<1>5. Recorded(c)'
  BY <1>0, <1>1, <1>2, <1>4 DEF CouncilInv, Recorded, Listed, history
<1>6. /\ Completed(council'[c], rounds'[c]) = Completed(council[c], rounds[c])
      /\ Real(council'[c], rounds'[c]) = Real(council[c], rounds[c])
  BY <1>0, <1>1, <1>2, SameReal
<1>7. Stays(c) /\ Agree(c)'
  BY <1>0, <1>1, <1>2, <1>6 DEF CouncilInv, Agree, Stays, Gained, history
<1>8. ProcInv(p)'
  <2>1. Completed(mem'[p], rounds'[about'[p]]) = Completed(mem[p], rounds[about[p]])
    BY <1>1, <1>2, SameReal
  <2> QED BY <1>0, <1>1, <1>2, <2>1 DEF ProcInv, Room, Honest, Others
<1> QED BY <1>3, <1>5, <1>7, <1>8 DEF OwnInv, CouncilInv

LEMMA SpendOwn ==
  ASSUME Inv, NEW p \in Procs, NEW c, c = about[p], NEW r \in Reviewers, Spend(p, r)
  PROVE  OwnInv(p, c)
<1>0. /\ c \in Councils /\ mem[p] = council[c] /\ mem[p] \in Records
      /\ CouncilInv(c) /\ ProcInv(p) /\ pc[p] = "ask" /\ council[c].phase # "none"
  BY InService DEF Inv, Spend, Calling, Serving, HoldInv
<1>1. PICK m \in Records :
        /\ Persist(p, m) /\ m.phase = mem[p].phase
        /\ m.scope = mem[p].scope /\ m.listed = mem[p].listed
        /\ m.extra = mem[p].extra /\ m.kept = mem[p].kept
        /\ m.calls[r] = mem[p].calls[r] + 1
        /\ \A v \in Reviewers : v # r => m.calls[v] = mem[p].calls[v]
  <2>1. Counted(mem[p], r) \in Records
    BY SpendStep DEF Inv
  <2> QED BY <2>1, SpendStep DEF Inv
<1>2. /\ council'[c] = m /\ mem'[p] = m /\ pc'[p] = "answer"
      /\ UNCHANGED <<rounds, outcome, about, plan, got, safe, said>>
  BY <1>0, <1>1 DEF Spend, Calling, Goto, Persist, Inv, Types, FileTypes, CommandTypes
<1>3. Book(c)'
  <2>1. made'[c] = [made[c] EXCEPT ![r] = @ + 1]
    BY <1>0 DEF Spend, Calling, Inv, Types, HistoryTypes
  <2>2. \A v \in Reviewers : made[c][v] \in Nat /\ council[c].extra[v] \in Nat
    BY <1>0, CouncilAssumption DEF Inv, Types, HistoryTypes, Records
  <2>3. made'[c] = m.calls
    <3>1. made[c] = mem[p].calls /\ made[c] \in [Reviewers -> Nat] /\ m.calls \in [Reviewers -> Nat]
      BY <1>0 DEF CouncilInv, Book, Records
    <3> QED BY <1>1, <2>1, <3>1
  <2>4. mem[p].calls[r] < 2 + mem[p].extra[r]
    BY DEF Spend, Calling, Affordable
  <2>5. \A v \in Reviewers : made'[c][v] <= 2 + m.extra[v]
    BY <1>0, <1>1, <2>1, <2>2, <2>4 DEF CouncilInv, Book, Inv, Types, HistoryTypes
  <2> QED BY <1>0, <1>1, <1>2, <2>3, <2>5 DEF CouncilInv, Book
<1>4. \A n : Truthful(c, n)' <=> Truthful(c, n)
  BY <1>2 DEF Truthful, Heard
<1>5. Recorded(c)'
  BY <1>0, <1>1, <1>2, <1>4 DEF CouncilInv, Recorded, Listed
<1>6. /\ Completed(council'[c], rounds'[c]) = Completed(council[c], rounds[c])
      /\ Real(council'[c], rounds'[c]) = Real(council[c], rounds[c])
  BY <1>0, <1>1, <1>2, SameReal
<1>7. Stays(c) /\ Agree(c)'
  BY <1>0, <1>1, <1>2, <1>6 DEF CouncilInv, Agree, Stays, Gained
<1>8. ProcInv(p)'
  BY <1>0, <1>1, <1>2 DEF ProcInv, Room, Honest, Others
<1> QED BY <1>3, <1>5, <1>7, <1>8 DEF OwnInv, CouncilInv

LEMMA GotOwn ==
  ASSUME Inv, NEW p \in Procs, NEW c, c = about[p], NEW r \in Reviewers, NEW a,
         \/ Reuse(p, r) /\ a = mem[p].kept[r]
         \/ GiveUp(p, r) /\ a = None
         \/ Ends(p, r, a) /\ a \in {None, HardGate}
  PROVE  OwnInv(p, c)
<1>0. c \in Councils /\ ProcInv(p) /\ pc[p] \in {"ask", "answer"}
  BY InService DEF Inv, Reuse, GiveUp, Ends, Serving
<1>1. CouncilInv(c)' /\ Stays(c)
  BY <1>0, FilesStay DEF Reuse, GiveUp, Ends
<1>2. /\ pc'[p] = "ask" /\ got'[p][r] = a
      /\ \A v \in Reviewers : v # r => got'[p][v] = got[p][v]
      /\ UNCHANGED <<rounds, about, plan, mem>>
  BY <1>0 DEF Reuse, GiveUp, Ends, Gets, Goto, files, Inv, Types, CommandTypes
<1>3. IsReview(a) => a = mem[p].kept[r] /\ a.plan = plan[p]
  BY DEF Reuse, Reusable, None, HardGate, IsReview, Verdicts
<1>4. ProcInv(p)'
  BY <1>0, <1>2, <1>3 DEF ProcInv, Room, Honest, Others
<1> QED BY <1>1, <1>4 DEF OwnInv

(* What a review adds to what was said.                                     *)
LEMMA AnswerSaid ==
  ASSUME Inv, NEW p \in Procs, NEW c, c = about[p], NEW r \in Reviewers, NEW v \in Verdicts,
         Answer(p, r, v)
  PROVE  /\ Number(p) \in Numbers
         /\ said'[c][Number(p)].by[r] = Review(p, v)
         /\ said'[c][Number(p)].ready = said[c][Number(p)].ready
         /\ \A u \in Reviewers : u # r =>
              said'[c][Number(p)].by[u] = said[c][Number(p)].by[u]
         /\ \A n \in Numbers : n # Number(p) => said'[c][n] = said[c][n]
<1> DEFINE a == Review(p, v)
           k == Number(p)
           s == [said[c][k] EXCEPT !.by[r] = a]
<1>0. c \in Councils /\ mem[p] \in Records /\ ProcInv(p) /\ pc[p] = "answer"
  BY InService DEF Inv, Answer, Serving
<1>1. k \in Numbers
  BY <1>0, CouncilAssumption DEF ProcInv, Room, Number, Numbers, Records
<1>2. said' = [said EXCEPT ![c] = [said[c] EXCEPT ![k] = s]]
  BY DEF Answer, Review
<1>3. said[c][k] \in Said
  BY <1>0, <1>1 DEF Inv, Types, HistoryTypes
<1>4. /\ s.by[r] = a /\ s.ready = said[c][k].ready
      /\ \A u \in Reviewers : u # r => s.by[u] = said[c][k].by[u]
  BY <1>3 DEF Said
<1> HIDE DEF s, k, a
<1>5. said'[c] = [said[c] EXCEPT ![k] = s] /\ said[c] \in [Numbers -> Said]
  BY <1>0, <1>2 DEF Inv, Types, HistoryTypes
<1>6. said'[c][k] = s /\ \A n \in Numbers : n # k => said'[c][n] = said[c][n]
  BY <1>1, <1>5
<1>7. /\ k \in Numbers
      /\ said'[c][k].by[r] = a
      /\ said'[c][k].ready = said[c][k].ready
      /\ \A u \in Reviewers : u # r => said'[c][k].by[u] = said[c][k].by[u]
      /\ \A n \in Numbers : n # k => said'[c][n] = said[c][n]
  BY <1>1, <1>4, <1>6
<1> QED BY <1>7 DEF k, a

LEMMA AnswerOwn ==
  ASSUME Inv, NEW p \in Procs, NEW c, c = about[p], NEW r \in Reviewers, NEW v \in Verdicts,
         Answer(p, r, v)
  PROVE  OwnInv(p, c)
<1>0. /\ c \in Councils /\ mem[p] = council[c] /\ mem[p] \in Records
      /\ CouncilInv(c) /\ ProcInv(p) /\ pc[p] = "answer" /\ council[c].phase # "none"
  BY InService DEF Inv, Answer, Serving, HoldInv
<1> DEFINE a == Review(p, v)
           k == Number(p)
<1>1. PICK m \in Records :
        /\ Persist(p, m) /\ m.phase = mem[p].phase
        /\ m.scope = mem[p].scope /\ m.listed = mem[p].listed
        /\ m.calls = mem[p].calls /\ m.extra = mem[p].extra
        /\ m.kept[r] = Review(p, v)
        /\ \A u \in Reviewers : u # r => m.kept[u] = mem[p].kept[u]
  <2>1. RoomInv
    BY DEF Inv, RoomInv, ProcInv
  <2> QED BY <2>1, AnswerStep DEF Inv
<1>2. /\ council'[c] = m /\ mem'[p] = m /\ pc'[p] = "ask" /\ got'[p][r] = a
      /\ \A u \in Reviewers : u # r => got'[p][u] = got[p][u]
      /\ UNCHANGED <<rounds, outcome, about, plan, made>>
  BY <1>0, <1>1 DEF Answer, Gets, Goto, Persist, Review, Inv, Types, FileTypes, CommandTypes
<1>3. safe'[c][r] = plan[p] /\ \A u \in Reviewers : u # r => safe'[c][u] = safe[c][u]
  BY <1>0 DEF Answer, Inv, Types, HistoryTypes
<1>4. IsReview(a) /\ a.plan = plan[p] /\ a # None
  BY CouncilAssumption DEF Review, IsReview, Verdicts, None
<1>5. k \in Numbers /\ k = council[c].listed + 1 /\ council[c].listed \in Nat
      /\ council[c].listed < MaxNumber
  BY <1>0, CouncilAssumption DEF ProcInv, Room, Number, Numbers, Records
<1>6. /\ said'[c][k].by[r] = a /\ said'[c][k].ready = said[c][k].ready
      /\ \A u \in Reviewers : u # r => said'[c][k].by[u] = said[c][k].by[u]
      /\ \A n \in Numbers : n # k => said'[c][n] = said[c][n]
  BY AnswerSaid
<1> HIDE DEF a, k
<1>7. Book(c)'
  <2>1. m.calls = council[c].calls /\ m.extra = council[c].extra
    BY <1>0, <1>1
  <2>2. \A u \in Reviewers : safe'[c][u] = m.kept[u].plan
    BY <1>0, <1>1, <1>3, <1>4 DEF CouncilInv, Book, a
  <2> QED BY <1>0, <1>1, <1>2, <2>1, <2>2 DEF CouncilInv, Book
<1>8. Recorded(c)'
  <2>1. Listed(m) = Listed(council[c])
    BY <1>0, <1>1 DEF Listed
  <2>2. ASSUME NEW n \in Listed(council[c]) PROVE Truthful(c, n)'
    <3>1. n \in Numbers /\ n # k
      BY <1>5, CouncilAssumption DEF Listed, Numbers
    <3>2. said'[c][n] = said[c][n]
      BY <1>6, <3>1
    <3>3. Truthful(c, n)
      BY <1>0 DEF CouncilInv, Recorded
    <3> QED BY <1>2, <3>2, <3>3 DEF Truthful, Heard
  <2>3. ASSUME NEW u \in Reviewers, m.kept[u] # None
        PROVE  IsReview(m.kept[u]) /\ said'[c][k].by[u] = m.kept[u]
    <3>1. CASE u = r
      BY <1>1, <1>4, <1>6, <3>1 DEF a
    <3>2. CASE u # r
      BY <1>0, <1>1, <1>5, <1>6, <2>3, <3>2 DEF CouncilInv, Recorded
    <3> QED BY <3>1, <3>2
  <2> QED BY <1>0, <1>1, <1>2, <1>5, <2>1, <2>2, <2>3 DEF Recorded
<1>9. /\ Completed(council'[c], rounds'[c]) = Completed(council[c], rounds[c])
      /\ Real(council'[c], rounds'[c]) = Real(council[c], rounds[c])
  BY <1>0, <1>1, <1>2, SameReal
<1>10. Stays(c) /\ Agree(c)'
  <2>1. \A n \in Real(council[c], rounds[c]) : said'[c][n] = said[c][n]
    BY <1>5, <1>6, CouncilAssumption DEF Real, Listed, Numbers
  <2> QED BY <1>0, <1>1, <1>2, <1>9, <2>1 DEF CouncilInv, Agree, Stays, Gained
<1>11. ProcInv(p)'
  <2>1. Room(p)'
    BY <1>0, <1>1, <1>2 DEF ProcInv, Room
  <2>2. \A u \in Reviewers : IsReview(got'[p][u]) =>
          got'[p][u] = mem'[p].kept[u] /\ got'[p][u].plan = plan'[p]
    BY <1>0, <1>1, <1>2, <1>4 DEF ProcInv, Honest, a
  <2> QED BY <1>2, <2>1, <2>2 DEF ProcInv, Honest, Others
<1> QED BY <1>7, <1>8, <1>10, <1>11 DEF OwnInv, CouncilInv

LEMMA DealsOwn ==
  ASSUME Inv, NEW p \in Procs, NEW c, c = about[p], Deals(p)
  PROVE  OwnInv(p, c)
<1>1. ASSUME NEW r \in Reviewers, Reuse(p, r) \/ GiveUp(p, r) PROVE OwnInv(p, c)
  BY <1>1, GotOwn
<1>2. ASSUME NEW r \in Reviewers, NEW a \in {None, HardGate}, Ends(p, r, a)
      PROVE  OwnInv(p, c)
  BY <1>2, GotOwn
<1> QED BY <1>1, <1>2, GrantOwn, SpendOwn, AnswerOwn DEF Deals

(* A new round file changes nothing that is listed.                         *)
LEMMA SaveOwn ==
  ASSUME Inv, NEW p \in Procs, NEW c, c = about[p], NEW r \in Rounds,
         pc[p] \in {"ready", "ask"}, mem[p].listed < MaxNumber, plan[p] \in Plans,
         Save(p, r), UNCHANGED history,
         r.kind # "none", r.recon = "none",
         r.kind = "real" => r.by = said[c][Number(p)].by /\ Heard(c, Number(p))
  PROVE  OwnInv(p, c)
<1>0. /\ c \in Councils /\ mem[p] = council[c] /\ mem[p] \in Records
      /\ CouncilInv(c) /\ ProcInv(p)
  BY InService DEF Inv, Serving
<1> DEFINE k == Number(p)
<1>1. /\ pc'[p] = "list"
      /\ UNCHANGED <<council, outcome, about, plan, mem, got, made, safe, said>>
  BY DEF Save, Goto, history, Inv, Types, CommandTypes
<1>2. k \in Numbers /\ k = council[c].listed + 1 /\ council[c].listed \in Nat
  BY <1>0, CouncilAssumption DEF Number, Numbers, Records
<1>3. rounds'[c][k] = r /\ \A n \in Numbers : n # k => rounds'[c][n] = rounds[c][n]
  <2>1. rounds' = [rounds EXCEPT ![c] = [rounds[c] EXCEPT ![k] = r]]
    BY DEF Save
  <2> HIDE DEF k
  <2>2. rounds'[c] = [rounds[c] EXCEPT ![k] = r] /\ rounds[c] \in [Numbers -> Rounds]
    BY <1>0, <2>1 DEF Inv, Types, FileTypes
  <2> QED BY <1>2, <2>2
<1>4. Truthful(c, k)'
  BY <1>1, <1>3 DEF Truthful, Heard, Number
<1> HIDE DEF k
<1>5. \A n \in Listed(council[c]) : n \in Numbers /\ n # k
  BY <1>0, <1>2, CouncilAssumption DEF Listed, Numbers
<1>6. \A n \in Listed(council[c]) : rounds'[c][n] = rounds[c][n]
  BY <1>3, <1>5
<1>7. Book(c)'
  BY <1>0, <1>1 DEF CouncilInv, Book
<1>8. Recorded(c)'
  <2>1. ASSUME NEW n \in Listed(council[c]) PROVE Truthful(c, n)'
    BY <1>0, <1>1, <1>6 DEF CouncilInv, Recorded, Truthful, Heard
  <2> QED BY <1>0, <1>1, <2>1 DEF CouncilInv, Recorded, Listed
<1>9. Real(council'[c], rounds'[c]) = Real(council[c], rounds[c])
  BY <1>1, <1>6 DEF Real, Listed
<1>10. Stays(c) /\ Agree(c)'
  BY <1>0, <1>1, <1>9 DEF CouncilInv, Agree, Stays, Gained, Completed
<1>11. ProcInv(p)'
  <2>2. Room(p)'
    BY <1>1 DEF Room
  <2>3. Honest(p)'
    <3>1. about'[p] = c
      BY <1>1
    <3>2. Truthful(about[p], Number(p))'
      BY <1>4, <3>1 DEF Truthful, Heard, k
    <3> QED BY <1>1, <3>2 DEF Honest, Others
  <2> QED BY <2>2, <2>3 DEF ProcInv
<1> QED BY <1>7, <1>8, <1>10, <1>11 DEF OwnInv, CouncilInv

(* That what was got makes a round, which is what was said.                 *)
LEMMA CommitOwn ==
  ASSUME Inv, NEW p \in Procs, NEW c, c = about[p], Commit(p)
  PROVE  OwnInv(p, c)
<1>0. /\ c \in Councils /\ mem[p] = council[c] /\ mem[p] \in Records
      /\ CouncilInv(c) /\ ProcInv(p) /\ pc[p] = "ask"
  BY InService DEF Inv, Commit, Serving
<1>1. mem[p].listed < MaxNumber /\ plan[p] \in Plans /\ UNCHANGED history
  BY <1>0 DEF ProcInv, Room, Commit, Save
<1>2. CASE Save(p, Audit)
  BY <1>0, <1>1, <1>2, NoneTypes, SaveOwn DEF Audit
<1>3. CASE (\A v \in Reviewers : IsReview(got[p][v]))
           /\ Save(p, [NoRound EXCEPT !.kind = "real", !.by = got[p]])
  <2> DEFINE r == [NoRound EXCEPT !.kind = "real", !.by = got[p]]
             k == Number(p)
  <2>1. k \in Numbers /\ k = council[c].listed + 1
    BY <1>0, <1>1, CouncilAssumption DEF Number, Numbers, Records
  <2>2. \A v \in Reviewers : got[p][v] = mem[p].kept[v] /\ got[p][v].plan = plan[p]
    BY <1>0, <1>3 DEF ProcInv, Honest
  <2>3. \A v \in Reviewers : said[c][k].by[v] = got[p][v]
    BY <1>0, <1>3, <2>1, <2>2 DEF CouncilInv, Recorded, IsReview, Verdicts, None
  <2>4. got[p] \in [Reviewers -> Answers \cup {None}]
    <3>1. \A v \in Reviewers : got[p][v] \in Answers \cup {None}
      BY <1>3 DEF IsReview, Verdicts, HardGate, Unasked, Inv, Types, CommandTypes
    <3> QED BY <3>1 DEF Inv, Types, CommandTypes
  <2>5. said[c][k].by \in [Reviewers -> Answers \cup {None}]
    BY <1>0, <2>1 DEF Inv, Types, HistoryTypes, Said
  <2>6. said[c][k].by = got[p]
    BY <2>3, <2>4, <2>5
  <2>7. r \in Rounds /\ r.kind = "real" /\ r.recon = "none" /\ r.by = got[p]
    BY <2>4 DEF NoRound, Rounds
  <2>8. Heard(c, k)
    BY <1>3, <2>2, <2>3 DEF Heard, Reviewers
  <2> HIDE DEF r
  <2>9. Save(p, r)
    BY <1>3 DEF r
  <2> QED BY <1>0, <1>1, <2>6, <2>7, <2>8, <2>9, SaveOwn
<1> QED BY <1>2, <1>3 DEF Commit

LEMMA SecretOwn ==
  ASSUME Inv, NEW p \in Procs, NEW c, c = about[p], Secret(p)
  PROVE  OwnInv(p, c)
<1>0. /\ mem[p] \in Records /\ rounds[about[p]] \in [Numbers -> Rounds]
      /\ ProcInv(p) /\ pc[p] = "ready"
  BY InService DEF Inv, Secret, Dispatching, Serving
<1>1. Completed(mem[p], rounds[about[p]]) \in 0..mem[p].listed /\ mem[p].listed \in Nat
  BY <1>0, CompletedType, CouncilAssumption DEF Records
<1>2. mem[p].listed < MaxNumber /\ plan[p] \in Plans
  BY <1>0, <1>1, CouncilAssumption DEF Secret, Dispatching, ProcInv, Room
<1>3. Save(p, Audit) /\ UNCHANGED history
  BY DEF Secret, Save
<1> QED BY <1>0, <1>2, <1>3, NoneTypes, SaveOwn DEF Audit

LEMMA ListOwn ==
  ASSUME Inv, NEW p \in Procs, NEW c, c = about[p], List(p)
  PROVE  OwnInv(p, c)
<1>0. /\ c \in Councils /\ mem[p] = council[c] /\ mem[p] \in Records
      /\ CouncilInv(c) /\ ProcInv(p) /\ pc[p] = "list" /\ council[c].phase # "none"
  BY InService DEF Inv, List, Serving, HoldInv
<1>1. PICK m \in Records :
             /\ Persist(p, m) /\ m.phase = mem[p].phase
             /\ m.scope = mem[p].scope /\ m.listed = mem[p].listed + 1
             /\ m.calls = NoMem.calls /\ m.extra = NoMem.extra
             /\ m.kept = Unanswered
  <2>1. RoomInv
    BY DEF Inv, RoomInv, ProcInv
  <2> QED BY <2>1, ListStep DEF Inv
<1>2. /\ council'[c] = m /\ mem'[p] = m /\ pc'[p] = "conclude"
      /\ made'[c] = NoMem.calls /\ safe'[c] = NoMem.calls
      /\ UNCHANGED <<rounds, outcome, about, plan, got, said>>
  BY <1>0, <1>1 DEF List, Goto, Persist, Inv, Types, FileTypes, CommandTypes, HistoryTypes
<1>3. council[c].listed \in Nat /\ Number(p) = council[c].listed + 1
      /\ Listed(m) = Listed(council[c]) \cup {Number(p)}
  BY <1>0, <1>1, CouncilAssumption DEF Records, Number, Listed
<1>4. Book(c)'
  BY <1>0, <1>1, <1>2 DEF Book, NoMem, Unanswered, None
<1>5. Recorded(c)'
  <2>1. ASSUME NEW n \in Listed(m) PROVE Truthful(c, n)
    BY <1>0, <1>3, <2>1 DEF CouncilInv, Recorded, ProcInv, Honest
  <2>2. \A n : Truthful(c, n)' <=> Truthful(c, n)
    BY <1>2 DEF Truthful, Heard
  <2>3. Listed(council'[c]) = Listed(m)
    BY <1>2
  <2> QED BY <1>1, <1>2, <2>1, <2>2, <2>3 DEF Recorded, Unanswered
<1>6. Real(council[c], rounds[c]) \subseteq Real(m, rounds[c])
  BY <1>3 DEF Real
<1>7. Stays(c) /\ Agree(c)'
  <2>1. council[c] \in Records /\ rounds[c] \in [Numbers -> Rounds]
    BY <1>0 DEF Inv, Types, FileTypes
  <2>2. Completed(council[c], rounds[c]) <= Completed(m, rounds[c])
    BY <1>6, <2>1, CompletedType, FS_Subset DEF Completed
  <2>3. Completed(council[c], rounds[c]) \in Nat /\ Completed(m, rounds[c]) \in Nat
    <3>1. /\ Completed(council[c], rounds[c]) \in 0..MaxNumber
          /\ Completed(m, rounds[c]) \in 0..MaxNumber
      BY <2>1, CompletedType
    <3> QED BY <3>1, CouncilAssumption
  <2>4. Completed(council[c], rounds[c]) >= MinRounds => Completed(m, rounds[c]) >= MinRounds
    BY <2>2, <2>3, CouncilAssumption
  <2>5. Completed(council'[c], rounds'[c]) = Completed(m, rounds[c])
        /\ Real(council'[c], rounds'[c]) = Real(m, rounds[c])
    BY <1>2
  <2> QED BY <1>0, <1>1, <1>2, <1>6, <2>4, <2>5 DEF CouncilInv, Agree, Stays, Gained
<1>8. ProcInv(p)'
  BY <1>2 DEF ProcInv, Room, Honest, Others
<1> QED BY <1>4, <1>5, <1>7, <1>8 DEF OwnInv, CouncilInv

(* What the rule asks for an agreement.                                     *)
LEMMA AgreementRule ==
  ASSUME NEW m \in Records, NEW f \in [Numbers -> Rounds], Evaluate(m, f) = "agreement"
  PROVE  /\ Completed(m, f) >= MinRounds
         /\ \E n \in Real(m, f) : Satisfied(m, f[n])
<1>1. Completed(m, f) >= MinRounds
  BY DEF Evaluate
<1>2. \E n \in Latest(m, f) : Satisfied(m, f[n])
  BY DEF Evaluate
<1> QED BY <1>1, <1>2 DEF Latest

LEMMA JudgedOwn ==
  ASSUME Inv, NEW p \in Procs, NEW c, c = about[p], Capped(p) \/ Conclude(p)
  PROVE  OwnInv(p, c)
<1>0. /\ c \in Councils /\ mem[p] = council[c] /\ mem[p] \in Records
      /\ rounds[c] \in [Numbers -> Rounds] /\ CouncilInv(c)
  BY InService DEF Inv, Capped, Conclude, Serving
<1>1. /\ pc'[p] = "escalate"
      /\ UNCHANGED <<council, rounds, about, plan, mem, got, made, safe, said>>
  BY DEF Capped, Conclude, Goto, history, Inv, Types, CommandTypes
<1>2. outcome'[c] = "agreement" => Evaluate(council[c], rounds[c]) = "agreement"
  BY <1>0 DEF Capped, Conclude, Inv, Types, FileTypes
<1>3. Book(c)'
  BY <1>0, <1>1 DEF CouncilInv, Book
<1>4. \A n : Truthful(c, n)' <=> Truthful(c, n)
  BY <1>1 DEF Truthful, Heard
<1>5. Recorded(c)'
  BY <1>0, <1>1, <1>4 DEF CouncilInv, Recorded, Listed
<1>6. Agree(c)'
  <2> SUFFICES ASSUME Evaluate(council[c], rounds[c]) = "agreement" PROVE Gained(c)'
    BY <1>2 DEF Agree
  <2>1. Completed(council[c], rounds[c]) >= MinRounds
    BY <1>0, AgreementRule
  <2>2. PICK n \in Real(council[c], rounds[c]) : Satisfied(council[c], rounds[c][n])
    BY <1>0, AgreementRule
  <2>3. Truthful(c, n) /\ rounds[c][n].kind = "real"
    BY <1>0 DEF CouncilInv, Recorded, Real
  <2>4. /\ said[c][n].ready /\ \A r \in Reviewers : said[c][n].by[r].says = "approve"
        /\ council[c].scope
    BY <2>2, <2>3 DEF Satisfied, Truthful
  <2>5. /\ Completed(council'[c], rounds'[c]) = Completed(council[c], rounds[c])
        /\ Real(council'[c], rounds'[c]) = Real(council[c], rounds[c])
    BY <1>1
  <2> QED BY <1>1, <2>1, <2>4, <2>5 DEF Gained
<1>7. Stays(c)
  BY <1>1 DEF Stays, Gained
<1>8. ProcInv(p)'
  BY <1>1 DEF ProcInv, Room, Honest, Others
<1> QED BY <1>3, <1>5, <1>6, <1>7, <1>8 DEF OwnInv, CouncilInv

LEMMA AttachOwn ==
  ASSUME Inv, NEW p \in Procs, NEW c, c = about[p], NEW rec \in Recons, Attach(p, rec)
  PROVE  OwnInv(p, c)
<1>0. /\ c \in Councils /\ mem[p] = council[c] /\ mem[p] \in Records
      /\ rounds[c] \in [Numbers -> Rounds] /\ said[c] \in [Numbers -> Said] /\ CouncilInv(c)
  BY InService DEF Inv, Attach, Serving, Types, HistoryTypes
<1>1. PICK k \in Latest(mem[p], rounds[about[p]]) :
        /\ rounds' = [rounds EXCEPT ![about[p]][k].recon = rec]
        /\ said' = [said EXCEPT ![about[p]][k].ready = @ \/ rec = "ready"]
  BY DEF Attach
<1>2. k \in Real(council[c], rounds[c]) /\ k \in Numbers
  BY <1>0, <1>1, CompletedType DEF Latest
<1>3. /\ pc'[p] = "conclude"
      /\ UNCHANGED <<council, outcome, about, plan, mem, got, made, safe>>
  BY DEF Attach, Goto, Inv, Types, CommandTypes
<1>4. /\ rounds'[c][k].kind = rounds[c][k].kind /\ rounds'[c][k].by = rounds[c][k].by
      /\ rounds'[c][k].recon = rec
      /\ \A n \in Numbers : n # k => rounds'[c][n] = rounds[c][n]
  <2> DEFINE r == [rounds[c][k] EXCEPT !.recon = rec]
  <2>1. rounds[c][k] \in Rounds
    BY <1>0, <1>2
  <2>2. r.kind = rounds[c][k].kind /\ r.by = rounds[c][k].by /\ r.recon = rec
    BY <2>1 DEF Rounds
  <2>3. rounds'[c] = [rounds[c] EXCEPT ![k] = r]
    <3>1. rounds' = [rounds EXCEPT ![c] = [rounds[c] EXCEPT ![k] = r]]
      BY <1>1
    <3> HIDE DEF r
    <3> QED BY <1>0, <3>1 DEF Inv, Types, FileTypes
  <2> HIDE DEF r
  <2> QED BY <1>0, <1>2, <2>2, <2>3
<1>5. /\ said'[c][k].by = said[c][k].by
      /\ rec = "ready" => said'[c][k].ready
      /\ said[c][k].ready => said'[c][k].ready
      /\ \A n \in Numbers : n # k => said'[c][n] = said[c][n]
  <2> DEFINE s == [said[c][k] EXCEPT !.ready = @ \/ rec = "ready"]
  <2>1. said[c][k] \in Said
    BY <1>0, <1>2
  <2>2. s.by = said[c][k].by
    BY <2>1 DEF Said
  <2>3. s.ready = (said[c][k].ready \/ rec = "ready")
    BY <2>1 DEF Said
  <2>4. said'[c] = [said[c] EXCEPT ![k] = s]
    <3>1. said' = [said EXCEPT ![c] = [said[c] EXCEPT ![k] = s]]
      BY <1>1
    <3> HIDE DEF s
    <3> QED BY <1>0, <3>1 DEF Inv, Types, HistoryTypes
  <2> HIDE DEF s
  <2>5. said'[c][k] = s /\ \A n \in Numbers : n # k => said'[c][n] = said[c][n]
    BY <1>0, <1>2, <2>4
  <2> QED BY <2>2, <2>3, <2>5
<1>6. Listed(council[c]) \subseteq Numbers
  BY <1>0, CouncilAssumption DEF Listed, Numbers, Records
<1>7. Book(c)'
  BY <1>0, <1>3 DEF CouncilInv, Book
<1>8. \A n \in Numbers : said'[c][n].by = said[c][n].by
  BY <1>5
<1>9. Recorded(c)'
  <2>1. ASSUME NEW n \in Listed(council[c]) PROVE Truthful(c, n)'
    <3>1. Truthful(c, n) /\ n \in Numbers
      BY <1>0, <1>6 DEF CouncilInv, Recorded
    <3>2. CASE n = k
      BY <1>4, <1>5, <3>1, <3>2 DEF Truthful, Heard
    <3>3. CASE n # k
      BY <1>4, <1>5, <3>1, <3>3 DEF Truthful, Heard
    <3> QED BY <3>2, <3>3
  <2>2. ASSUME NEW r \in Reviewers, council[c].kept[r] # None
        PROVE  /\ council[c].listed < MaxNumber /\ IsReview(council[c].kept[r])
               /\ said'[c][council[c].listed + 1].by[r] = council[c].kept[r]
    <3>1. /\ council[c].listed < MaxNumber /\ IsReview(council[c].kept[r])
          /\ said[c][council[c].listed + 1].by[r] = council[c].kept[r]
      BY <1>0, <2>2 DEF CouncilInv, Recorded
    <3>2. council[c].listed + 1 \in Numbers
      BY <1>0, <3>1, CouncilAssumption DEF Numbers, Records
    <3> QED BY <1>8, <3>1, <3>2
  <2> QED BY <1>3, <2>1, <2>2 DEF Recorded, Listed
<1>10. Real(council'[c], rounds'[c]) = Real(council[c], rounds[c])
  BY <1>3, <1>4, <1>6 DEF Real, Listed
<1>11. Stays(c) /\ Agree(c)'
  <2>1. ASSUME NEW n \in Real(council[c], rounds[c]), said[c][n].ready PROVE said'[c][n].ready
    BY <1>5, <1>6, <2>1 DEF Real
  <2>2. Real(council[c], rounds[c]) \subseteq Numbers
    BY <1>6 DEF Real
  <2> QED BY <1>0, <1>3, <1>8, <1>10, <2>1, <2>2 DEF CouncilInv, Agree, Stays, Gained, Completed
<1>12. ProcInv(p)'
  BY <1>3 DEF ProcInv, Room, Honest, Others
<1> QED BY <1>7, <1>9, <1>11, <1>12 DEF OwnInv, CouncilInv

LEMMA BooksOwn ==
  ASSUME Inv, NEW p \in Procs, NEW c, c = about[p], Books(p)
  PROVE  OwnInv(p, c)
BY SecretOwn, CommitOwn, ListOwn, JudgedOwn, AttachOwn DEF Books

------------------------------------------------------------------------------
(* The invariant, and the theorems.                                         *)

LEMMA InvInit == Init => Inv
<1> SUFFICES ASSUME Init PROVE Inv
  OBVIOUS
<1>1. Types
  <2>1. setup \in Setups /\ setup.begun \in BOOLEAN /\ asked \in Asks
    BY SetupType DEF Init, CouncilInit
  <2>2. posts \in 0..setup.posts
    BY <2>1, SetupType DEF Init, CouncilInit
  <2>3. gates \subseteq Gates /\ item \in Items
    BY <2>1 DEF Init, CouncilInit, Items
  <2>4. FileTypes /\ HistoryTypes
    BY NoneTypes DEF Init, CouncilInit, FileTypes, HistoryTypes, Outcomes, Said
  <2>5. CommandTypes
    BY NoneTypes DEF Init, CouncilInit, CommandTypes, Labels, Others
  <2> QED BY <2>1, <2>2, <2>3, <2>4, <2>5 DEF Types, ItemTypes
<1>2. HoldInv
  BY CouncilAssumption DEF Init, CouncilInit, HoldInv, Serving, Nobody
<1>3. ASSUME NEW c \in Councils PROVE CouncilInv(c)
  <2>1. Book(c)
    BY <1>3 DEF Init, CouncilInit, Book, NoMem, Unanswered, None
  <2>2. Recorded(c)
    <3>1. council[c] = NoMem /\ NoMem.listed = 0 /\ NoMem.kept = Unanswered
      BY <1>3 DEF Init, CouncilInit, NoMem
    <3>2. Listed(council[c]) = {}
      BY <3>1 DEF Listed
    <3> QED BY <3>1, <3>2 DEF Recorded, Unanswered
  <2>3. Agree(c)
    BY <1>3 DEF Init, CouncilInit, Agree
  <2> QED BY <2>1, <2>2, <2>3 DEF CouncilInv
<1>4. ASSUME NEW p \in Procs PROVE ProcInv(p)
  BY <1>4 DEF Init, CouncilInit, ProcInv, Room, Honest
<1> QED BY <1>1, <1>2, <1>3, <1>4 DEF Inv

LEMMA InvKept ==
  ASSUME Inv, [Next]_vars
  PROVE  Inv' /\ \A c \in Councils : Stays(c)
<1>1. Types' /\ HoldInv'
  BY TypesStep, HoldStep DEF Inv, RoomInv, ProcInv
<1> DEFINE All == (\A c \in Councils : CouncilInv(c)' /\ Stays(c)) /\ (\A p \in Procs : ProcInv(p)')
<1>2. CASE Still
  <2>1. UNCHANGED <<files, history>> /\ UNCHANGED <<pc, about, plan, mem, got>>
    BY <1>2 DEF Still, local
  <2>2. ASSUME NEW p \in Procs PROVE ProcInv(p)'
    <3>1. ProcInv(p)
      BY DEF Inv
    <3>2. Truthful(about[p], Number(p))' <=> Truthful(about[p], Number(p))
      BY <2>1 DEF files, history, Truthful, Heard, Number
    <3>3. Completed(mem'[p], rounds'[about'[p]]) = Completed(mem[p], rounds[about[p]])
      BY <2>1 DEF files
    <3> QED BY <2>1, <3>1, <3>2, <3>3 DEF ProcInv, Room, Honest
  <2> QED BY <1>1, <2>1, <2>2, FilesStay DEF Inv
<1>3. ASSUME NEW p \in Procs, Begins(p) PROVE All
  <2>1. PICK c \in Councils : Frame(p, c) /\ OwnInv(p, c)
    BY <1>3, BeginsOwn
  <2> QED BY <2>1, OwnAndOthers
<1>4. ASSUME NEW p \in Procs, Ended(p) \/ Moved(p) \/ Deals(p) \/ Books(p) PROVE All
  <2>1. ASSUME NEW c, c = about[p] PROVE All
    <3>1. Frame(p, c)
      BY <1>4, <2>1, FrameQuiet, FrameDeals, FrameBooks DEF Inv
    <3>2. OwnInv(p, c)
      BY <1>4, <2>1, EndedOwn, MovedOwn, DealsOwn, BooksOwn
    <3> QED BY <3>1, <3>2, OwnAndOthers
  <2> QED BY <2>1
<1>5. All
  BY <1>2, <1>3, <1>4, StepShape DEF Inv
<1> QED BY <1>1, <1>5 DEF Inv

LEMMA InvStep == Inv /\ [Next]_vars => Inv'
BY InvKept

THEOREM Invariant == Spec => []Inv
BY InvInit, InvStep, PTL DEF Spec

(* Every variable has its type, and a council that lists a round has its    *)
(* file: it is written first (TypeOK).                                      *)
THEOREM TypeCorrect == Spec => []TypeOK
<1>1. Inv => TypeOK
  BY TwoTypes DEF Inv, CouncilInv, Recorded, Truthful, Filed
<1> QED BY <1>1, Invariant, PTL

(* No reviewer is called for a round more often than its budget, whichever  *)
(* processes die: what is on disk is what was called (AttemptBudget).       *)
THEOREM BudgetHolds == Spec => []AttemptBudget
<1>1. Inv => AttemptBudget
  BY DEF Inv, CouncilInv, Book, AttemptBudget
<1> QED BY <1>1, Invariant, PTL

(* Only Spend makes a call, and only about another packet than that of the  *)
(* answer that is kept (KeptAnswerNotAskedAgain).                           *)
THEOREM KeptAnswersStand == Spec => KeptAnswerNotAskedAgain
<1> DEFINE Renewed == \A c \in Councils, r \in Reviewers : made'[c][r] > made[c][r] =>
                       \E p \in Procs : about[p] = c /\ plan[p] # safe[c][r]
<1>1. Inv /\ [Next]_vars => Renewed
  <2> SUFFICES ASSUME Inv, [Next]_vars, NEW c \in Councils, NEW r \in Reviewers,
                      made'[c][r] > made[c][r]
               PROVE  \E p \in Procs : about[p] = c /\ plan[p] # safe[c][r]
    OBVIOUS
  <2>1. made[c][r] \in Nat
    BY DEF Inv, Types, HistoryTypes
  <2>2. made' # made
    BY <2>1
  <2>3. ~Still /\ \A p \in Procs : ~Ended(p) /\ ~Moved(p) /\ ~Begins(p)
    <3>1. ~Still /\ \A p \in Procs : ~Ended(p) /\ ~Moved(p)
      BY <2>2 DEF Still, Ended, Moved, history
    <3>2. ASSUME NEW p \in Procs, Begins(p) PROVE FALSE
      <4>1. UNCHANGED history
        BY <3>2 DEF Begins, Create, Continue, Reconcile
      <4> QED BY <2>2, <4>1 DEF history
    <3> QED BY <3>1, <3>2
  <2>4. ASSUME NEW p \in Procs, Books(p) PROVE FALSE
    <3>1. List(p)
      BY <2>2, <2>4 DEF Books, Secret, Commit, Save, Capped, Conclude, Attach, history
    <3>2. made' = [made EXCEPT ![about[p]] = NoMem.calls]
      BY <3>1 DEF List
    <3>3. made'[c][r] = made[c][r] \/ made'[c][r] = 0
      BY <3>2 DEF NoMem, Inv, Types, HistoryTypes
    <3> QED BY <2>1, <3>3
  <2>5. ASSUME NEW p \in Procs, Deals(p)
        PROVE  about[p] = c /\ plan[p] # safe[c][r]
    <3>1. PICK v \in Reviewers : Spend(p, v)
      BY <2>2, <2>5 DEF Deals, Grant, Reuse, GiveUp, Ends, Answer, history
    <3>2. made' = [made EXCEPT ![about[p]] = [made[about[p]] EXCEPT ![v] = @ + 1]]
          /\ ~Reusable(p, v)
      BY <3>1 DEF Spend, Calling
    <3>3. about[p] = c /\ v = r
      BY <2>1, <3>2 DEF Inv, Types, HistoryTypes
    <3>4. mem[p] = council[c] /\ safe[c][r] = council[c].kept[r].plan
      BY <3>1, <3>3, InService DEF Spend, Calling, Serving, Inv, CouncilInv, Book
    <3> QED BY <3>2, <3>3, <3>4 DEF Reusable
  <2> QED BY <2>3, <2>4, <2>5, StepShape DEF Inv
<1> QED BY <1>1, Invariant, PTL DEF Spec, KeptAnswerNotAskedAgain

(* What was gained was earned: the rounds that are listed are real.         *)
LEMMA GainedIsEarned ==
  ASSUME Inv, NEW c \in Councils, Gained(c)
  PROVE  Earned(c)
<1> DEFINE real == Real(council[c], rounds[c])
           both == {n \in Numbers : \A r \in Reviewers : IsReview(said[c][n].by[r])}
<1>1. CouncilInv(c) /\ council[c] \in Records /\ rounds[c] \in [Numbers -> Rounds]
  BY DEF Inv, Types, FileTypes
<1>2. \A n \in real : n \in Numbers /\ Heard(c, n)
  BY <1>1, CompletedType DEF CouncilInv, Recorded, Truthful, Real
<1>3. real \subseteq both
  BY <1>2 DEF Heard
<1>4. IsFiniteSet(both) /\ Cardinality(real) <= Cardinality(both)
  <2>1. IsFiniteSet(Numbers)
    <3>1. 1 \in Int /\ MaxNumber \in Int
      BY CouncilAssumption
    <3> QED BY <3>1, FS_Interval DEF Numbers
  <2>2. IsFiniteSet(both)
    BY <2>1, FS_Subset
  <2> QED BY <1>3, <2>2, FS_Subset
<1>5. Cardinality(both) >= MinRounds
  <2>1. Cardinality(real) \in Nat /\ Cardinality(both) \in Nat
    BY <1>1, <1>4, CompletedType, FS_CardinalityType
  <2>2. Cardinality(real) >= MinRounds
    BY DEF Gained, Completed
  <2> HIDE DEF real, both
  <2> QED BY <1>4, <2>1, <2>2, CouncilAssumption
<1>6. \E n \in both : /\ said[c][n].ready
                      /\ \A r \in Reviewers : said[c][n].by[r].says = "approve"
                      /\ said[c][n].by["gpt"].plan = said[c][n].by["codex"].plan
  <2>1. PICK n \in real : /\ said[c][n].ready
                          /\ \A r \in Reviewers : said[c][n].by[r].says = "approve"
    BY DEF Gained
  <2> QED BY <1>2, <1>3, <2>1 DEF Heard
<1> QED BY <1>5, <1>6 DEF Earned, Gained

(* An agreement on record was earned by what was really answered and        *)
(* reconciled (AgreementEarned).                                            *)
THEOREM AgreementsAreEarned == Spec => []AgreementEarned
<1>1. Inv => AgreementEarned
  BY GainedIsEarned DEF Inv, CouncilInv, Agree, AgreementEarned
<1> QED BY <1>1, Invariant, PTL

------------------------------------------------------------------------------
(* What complete relies on.  Its verification is a fact about councils that *)
(* no step takes back (Stays); what could still change is whether any was   *)
(* required, which only start decides.                                      *)

Ending == item.answer = "complete" \/ \E p \in Procs : pc[p] = "respond"

(* Who starts and who completes, and when.                                  *)
Starts(p) ==
  /\ pc[p] = "respond" => Does(p, "complete") /\ item.request
  /\ pc[p] = "envelope" => Does(p, "start") /\ ~setup.begun /\ item.request
  /\ pc[p] = "envelope" /\ StartedFirst => item.answer # "complete"

StartInv == /\ setup.begun \/ item.answer # "none" => item.request
            /\ \A p \in Procs : Starts(p)

(* Some verification council is the newest, if there is one.                *)
HasNewest(S) == S # {} => Newest(S) # {}

Backed == StartedFirst /\ Required /\ Ending => \E c \in Verifies : Gained(c)

DoneInv == StartInv /\ HasNewest(Verifies) /\ Backed

(* The steps that neither start nor end the item.                           *)
Aside == /\ item'.answer = item.answer \/ item'.answer = "respond"
         /\ item'.envelope = item.envelope
         /\ item.request => item'.request
         /\ item'.answer # item.answer => item.request
         /\ \A p \in Procs : pc'[p] \in {"envelope", "respond"} => pc'[p] = pc[p]

LEMMA RoundAside ==
  ASSUME Types, NEW p \in Procs, Round(p)
  PROVE  \A q \in Procs : pc'[q] \in {"envelope", "respond"} => pc'[q] = pc[q]
<1>1. ASSUME NEW l \in {"idle", "ask", "answer", "list", "conclude", "escalate"}, Goto(p, l)
      PROVE  \A q \in Procs : pc'[q] \in {"envelope", "respond"} => pc'[q] = pc[q]
  BY <1>1 DEF Goto, Types, CommandTypes
<1>2. CASE Capped(p) \/ Undeliverable(p) \/ Secret(p) \/ Blocked(p) \/ Dispatch(p)
  BY <1>1, <1>2 DEF Capped, Undeliverable, Secret, Save, Blocked, Dispatch, Return
<1>3. ASSUME NEW r \in Reviewers, Grant(p, r) \/ Reuse(p, r) \/ GiveUp(p, r)
      PROVE  pc' = pc
  BY <1>3 DEF Grant, Reuse, GiveUp
<1>4. ASSUME NEW r \in Reviewers, Spend(p, r) \/ Fails(p, r)
      PROVE  Goto(p, "ask") \/ Goto(p, "answer")
  BY <1>4 DEF Spend, Calling, Fails
<1>5. ASSUME NEW r \in Reviewers, NEW a \in {None, HardGate}, Ends(p, r, a)
      PROVE  Goto(p, "ask")
  BY <1>5 DEF Ends
<1>6. ASSUME NEW r \in Reviewers, NEW v \in Verdicts, Answer(p, r, v) PROVE Goto(p, "ask")
  BY <1>6 DEF Answer
<1>7. CASE Commit(p) \/ Uncommitted(p) \/ List(p) \/ Conclude(p) \/ Escalate(p)
  BY <1>1, <1>7 DEF Commit, Save, Uncommitted, List, Conclude, Escalate, Return
<1>8. ASSUME NEW rec \in Recons, Attach(p, rec) PROVE Goto(p, "conclude")
  BY <1>8 DEF Attach
<1>9. CASE Unattached(p)
  BY <1>1, <1>9 DEF Unattached, Return
<1> QED BY <1>1, <1>2, <1>3, <1>4, <1>5, <1>6, <1>7, <1>8, <1>9 DEF Round

LEMMA IssueAside ==
  ASSUME Types, NEW p \in Procs, NEW class, Issue(p, class)
  PROVE  \A q \in Procs : pc'[q] \in {"envelope", "respond"} => pc'[q] = pc[q]
<1>1. ASSUME NEW l \in {"ready", "attach"}, Goto(p, l)
      PROVE  \A q \in Procs : pc'[q] \in {"envelope", "respond"} => pc'[q] = pc[q]
  BY <1>1 DEF Goto, Types, CommandTypes
<1>2. Refuse(p) => pc' = pc
  BY DEF Refuse, local
<1>3. \A c, ph, scope, pl : Create(p, c, ph, class, scope, pl) => Goto(p, "ready")
  BY DEF Create, Begin
<1>4. \A c, scope, pl : Continue(p, c, pl, scope) => Goto(p, "ready")
  BY DEF Continue, Begin
<1>5. \A c, scope : Reconcile(p, c, scope) => Goto(p, "attach")
  BY DEF Reconcile, Begin
<1> QED BY <1>1, <1>2, <1>3, <1>4, <1>5 DEF Issue

LEMMA ItemShape ==
  ASSUME Types, [Next]_vars
  PROVE  \/ Aside
         \/ \E p \in Procs : Request(p) \/ Envelope(p) \/ Complete(p) \/ Done(p)
<1>0. item \in Items
  BY DEF Types, ItemTypes
<1>1. CASE UNCHANGED vars
  BY <1>1 DEF vars, councilVars, task, local, Aside
<1>2. CASE Post /\ UNCHANGED task
  BY <1>2 DEF Post, task, local, Aside
<1>3. ASSUME NEW p \in Procs, Round(p) /\ UNCHANGED task PROVE Aside
  BY <1>3, RoundAside DEF task, Aside
<1>4. ASSUME NEW p \in Procs, Issue(p, Class) /\ UNCHANGED task PROVE Aside
  BY <1>4, IssueAside DEF task, Aside
<1>5. ASSUME NEW p \in Procs, NEW l \in {"idle", "claim", "settle"}, Goto(p, l)
      PROVE  \A q \in Procs : pc'[q] \in {"envelope", "respond"} => pc'[q] = pc[q]
  BY <1>5 DEF Goto, Types, CommandTypes
<1>6. ASSUME NEW p \in Procs, Halted(p) \/ SettleGate(p) \/ (Crash(p) /\ UNCHANGED task)
      PROVE  Aside
  BY <1>5, <1>6 DEF Halted, SettleGate, Crash, Return, task, Aside
<1>7. ASSUME NEW p \in Procs, Claim(p) PROVE Aside
  BY <1>0, <1>5, <1>7 DEF Claim, Return, Items, Aside
<1>8. ASSUME NEW p \in Procs, Reclaim(p) PROVE Aside
  BY <1>5, <1>8 DEF Reclaim, task, Aside
<1>9. ASSUME NEW p \in Procs, Respond(p) \/ Reply(p) PROVE Aside
  BY <1>0, <1>9 DEF Respond, Reply, councilVars, local, Items, Aside
<1>10. ASSUME NEW p \in Procs, Close(p) PROVE Aside
  BY <1>0, <1>5, <1>10 DEF Close, Items, Aside
<1>11. ASSUME NEW p \in Procs, GrantProceed(p) PROVE Aside
  BY <1>11 DEF GrantProceed, task, local, Aside
<1> QED BY <1>1, <1>2, <1>3, <1>4, <1>6, <1>7, <1>8, <1>9, <1>10, <1>11 DEF Next, Step

LEMMA StartStep ==
  ASSUME Types, StartInv, [Next]_vars
  PROVE  StartInv'
<1>0. /\ item \in Items /\ pc \in [Procs -> Labels] /\ setup' = setup
      /\ setup.begun \/ item.answer # "none" => item.request
      /\ \A p \in Procs : Starts(p)
  BY KeptSteps DEF Kept, Types, ItemTypes, CommandTypes, StartInv
<1>1. CASE Aside
  <2>1. setup'.begun \/ item'.answer # "none" => item'.request
    BY <1>0, <1>1 DEF Aside
  <2>2. ASSUME NEW p \in Procs PROVE Starts(p)'
    BY <1>0, <1>1 DEF Aside, Starts, StartedFirst, Does
  <2> QED BY <2>1, <2>2 DEF StartInv
<1>2. ASSUME NEW p \in Procs, Request(p) PROVE StartInv'
  <2>1. /\ item'.request /\ item'.answer = item.answer /\ item.answer = "none" /\ ~setup.begun
        /\ Does(p, "start")
        /\ \A q \in Procs : pc'[q] = IF q = p THEN "envelope" ELSE pc[q]
    BY <1>0, <1>2 DEF Request, Goto, Items
  <2>2. ASSUME NEW q \in Procs PROVE Starts(q)'
    BY <1>0, <2>1 DEF Starts, StartedFirst, Does
  <2> QED BY <1>0, <2>1, <2>2 DEF StartInv
<1>3. ASSUME NEW p \in Procs, Envelope(p) PROVE StartInv'
  <2>1. /\ item'.request = item.request /\ item'.answer = item.answer
        /\ \A q \in Procs : pc'[q] = IF q = p THEN "claim" ELSE pc[q]
    BY <1>0, <1>3 DEF Envelope, Goto, Items
  <2>2. ASSUME NEW q \in Procs PROVE Starts(q)'
    BY <1>0, <2>1 DEF Starts, StartedFirst, Does
  <2> QED BY <1>0, <2>1, <2>2 DEF StartInv
<1>4. ASSUME NEW p \in Procs, Complete(p) PROVE StartInv'
  <2>1. /\ item' = item /\ item.request /\ Does(p, "complete")
        /\ \A q \in Procs : pc'[q] = IF q = p THEN "respond" ELSE pc[q]
    BY <1>0, <1>4 DEF Complete, Goto, task
  <2>2. ASSUME NEW q \in Procs PROVE Starts(q)'
    BY <1>0, <2>1 DEF Starts, StartedFirst, Does
  <2> QED BY <1>0, <2>1, <2>2 DEF StartInv
<1>5. ASSUME NEW p \in Procs, Done(p) PROVE StartInv'
  <2>1. /\ item'.request = item.request /\ item'.answer = "complete"
        /\ Does(p, "complete") /\ item.request
        /\ \A q \in Procs : pc'[q] = IF q = p THEN "idle" ELSE pc[q]
    BY <1>0, <1>5 DEF Done, Return, Goto, Items, Starts
  <2>2. StartedFirst /\ ~setup.begun => \A q \in Procs : Does(q, "start") => q = p
    BY <2>1 DEF StartedFirst
  <2>3. ASSUME NEW q \in Procs PROVE Starts(q)'
    <3>1. Starts(q) /\ (StartedFirst' => StartedFirst)
      BY <1>0 DEF StartedFirst, Does
    <3> QED BY <1>0, <2>1, <2>2, <3>1 DEF Starts, Does
  <2> QED BY <1>0, <2>1, <2>3 DEF StartInv
<1> QED BY <1>1, <1>2, <1>3, <1>4, <1>5, ItemShape

(* A step changes the record of one council at most.                        *)
LEMMA OneCouncil ==
  ASSUME Inv, [Next]_vars
  PROVE  \E c : \A d \in Councils \ {c} : council'[d] = council[d]
<1>1. CASE Still
  BY <1>1 DEF Still, files
<1>2. ASSUME NEW p \in Procs, Begins(p) PROVE \E c : Frame(p, c)
  BY <1>2, BeginsOwn
<1>3. ASSUME NEW p \in Procs, Ended(p) \/ Moved(p) \/ Deals(p) \/ Books(p)
      PROVE  \E c : Frame(p, c)
  BY <1>3, FrameQuiet, FrameDeals, FrameBooks DEF Inv
<1>4. ASSUME NEW p \in Procs, NEW c, Frame(p, c)
      PROVE  \E e : \A d \in Councils \ {e} : council'[d] = council[d]
  BY <1>4 DEF Frame
<1> QED BY <1>1, <1>2, <1>3, <1>4, StepShape DEF Inv

LEMMA NewestStep ==
  ASSUME Inv, HasNewest(Verifies), [Next]_vars
  PROVE  Verifies \subseteq Verifies' /\ HasNewest(Verifies')
<1>1. PICK c : \A d \in Councils \ {c} : council'[d] = council[d]
  BY OneCouncil
<1>2. Verifies \subseteq Verifies'
  BY InvKept DEF Verifies, Stays
<1>3. Verifies' \subseteq Verifies \cup ({c} \cap Councils)
  BY <1>1 DEF Verifies
<1>4. Verifies' \subseteq Nat
  BY CouncilAssumption DEF Verifies
<1> HIDE DEF Verifies
<1>5. CASE Verifies' = Verifies
  BY <1>5 DEF HasNewest
<1>6. CASE Verifies' = Verifies \cup {c}
  <2>1. CASE Verifies = {}
    <3>1. c \in Newest(Verifies')
      BY <1>4, <1>6, <2>1 DEF Newest
    <3> QED BY <1>2, <3>1 DEF HasNewest
  <2>2. CASE Verifies # {}
    <3>1. PICK n \in Verifies : \A d \in Verifies : d <= n
      BY <2>2 DEF HasNewest, Newest
    <3>2. n \in Nat /\ c \in Nat
      BY <1>4, <1>6
    <3>3. CASE c <= n
      <4>1. n \in Newest(Verifies')
        BY <1>6, <3>1, <3>3 DEF Newest
      <4> QED BY <1>2, <4>1 DEF HasNewest
    <3>4. CASE ~(c <= n)
      <4>1. \A d \in Verifies' : d <= c
        BY <1>4, <1>6, <3>1, <3>2, <3>4
      <4>2. c \in Newest(Verifies')
        BY <1>6, <4>1 DEF Newest
      <4> QED BY <1>2, <4>2 DEF HasNewest
    <3> QED BY <3>3, <3>4
  <2> QED BY <2>1, <2>2
<1> QED BY <1>2, <1>3, <1>5, <1>6

(* The newest verification council of an item that may be completed agreed. *)
LEMMA MayFinishGained ==
  ASSUME Inv, HasNewest(Verifies), MayFinish, Required
  PROVE  \E c \in Verifies : Gained(c)
<1>1. PICK c \in Newest(Verifies) : TRUE
  BY DEF MayFinish, HasNewest
<1>2. c \in Verifies /\ c \in Councils /\ outcome[c] = "agreement"
  BY <1>1 DEF MayFinish, Agreed, Newest, Verifies
<1> QED BY <1>2 DEF Inv, CouncilInv, Agree

LEMMA BackedStep ==
  ASSUME Inv, DoneInv, [Next]_vars
  PROVE  Backed'
<1> SUFFICES ASSUME StartedFirst', Required', Ending'
             PROVE  (\E c \in Verifies : Gained(c))'
  BY DEF Backed
<1>0. /\ setup' = setup /\ asked' = asked /\ StartedFirst
      /\ item \in Items /\ pc \in [Procs -> Labels]
  <2>1. setup' = setup /\ asked' = asked
    BY KeptSteps DEF Inv, Kept
  <2> QED BY <2>1 DEF Inv, Types, ItemTypes, CommandTypes, StartedFirst, Does
<1>1. (\E c \in Verifies : Gained(c)) => (\E c \in Verifies : Gained(c))'
  <2> SUFFICES ASSUME NEW c \in Verifies, Gained(c) PROVE (\E d \in Verifies : Gained(d))'
    OBVIOUS
  <2>1. c \in Councils
    BY DEF Verifies
  <2>2. Gained(c)' /\ c \in Verifies'
    BY <2>1, InvKept, NewestStep DEF Stays, DoneInv
  <2> QED BY <2>2
<1>2. CASE Aside
  <2>1. Required /\ Ending
    BY <1>0, <1>2 DEF Aside, Required, Ending
  <2> QED BY <1>0, <1>1, <2>1 DEF DoneInv, Backed
<1>3. ASSUME NEW p \in Procs, Request(p) PROVE FALSE
  <2>1. /\ item'.answer = item.answer /\ item.answer = "none"
        /\ \A q \in Procs : pc'[q] = IF q = p THEN "envelope" ELSE pc[q]
    BY <1>0, <1>3 DEF Request, Goto, DoneInv, StartInv, Starts, Items
  <2>2. \A q \in Procs : pc[q] # "respond"
    BY <1>3 DEF Request, DoneInv, StartInv, Starts
  <2> QED BY <2>1, <2>2 DEF Ending
<1>4. ASSUME NEW p \in Procs, Envelope(p) PROVE FALSE
  <2>1. /\ item'.answer = item.answer /\ pc[p] = "envelope"
        /\ \A q \in Procs : pc'[q] = IF q = p THEN "claim" ELSE pc[q]
    BY <1>0, <1>4 DEF Envelope, Goto, Items
  <2>2. item.answer # "complete" /\ ~setup.begun /\ Does(p, "start")
    BY <1>0, <2>1 DEF DoneInv, StartInv, Starts
  <2>3. \A q \in Procs : pc[q] = "respond" => q = p
    BY <1>0, <2>2 DEF DoneInv, StartInv, Starts, StartedFirst
  <2> QED BY <2>1, <2>2, <2>3 DEF Ending
<1>5. ASSUME NEW p \in Procs, Complete(p) PROVE (\E c \in Verifies : Gained(c))'
  <2>1. MayFinish /\ Required
    BY <1>0, <1>5 DEF Complete, task, Required
  <2> QED BY <1>1, <2>1, MayFinishGained DEF DoneInv
<1>6. ASSUME NEW p \in Procs, Done(p) PROVE (\E c \in Verifies : Gained(c))'
  <2>1. Ending /\ Required
    BY <1>0, <1>6 DEF Done, Required, Ending, Items
  <2> QED BY <1>0, <1>1, <2>1 DEF DoneInv, Backed
<1> QED BY <1>2, <1>3, <1>4, <1>5, <1>6, ItemShape DEF Inv

(* An item that complete ended was verified, if its envelope requires it:   *)
(* nothing that complete saw can be taken back, whatever other commands     *)
(* that may die anywhere do meanwhile (DoneVerified).                       *)
THEOREM DoneIsVerified == Spec => []DoneVerified
<1>1. Init => DoneInv
  <2> SUFFICES ASSUME Init PROVE DoneInv
    OBVIOUS
  <2>1. StartInv /\ ~Ending
    BY DEF Init, CouncilInit, StartInv, Starts, Ending
  <2>2. Verifies = {}
    BY DEF Init, CouncilInit, Verifies, NoMem
  <2> QED BY <2>1, <2>2 DEF DoneInv, HasNewest, Backed
<1>2. Inv /\ DoneInv /\ [Next]_vars => DoneInv'
  BY StartStep, NewestStep, BackedStep DEF Inv, DoneInv
<1>3. Inv /\ DoneInv => DoneVerified
  BY GainedIsEarned DEF DoneInv, Backed, Ending, Verifies, DoneVerified
<1> QED BY <1>1, <1>2, <1>3, Invariant, PTL DEF Spec
==============================================================================
