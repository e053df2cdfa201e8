------------------------------ MODULE Council -------------------------------
(****************************************************************************)
(* The review councils of ONE work item.  In every round both reviewers are *)
(* asked about the same packet, at most twice unless the operator grants    *)
(* more; the round counts when both gave a validated review.  Claude        *)
(* reconciles the latest round, and a rule over the recorded rounds says    *)
(* whether the work may proceed.                                            *)
(*                                                                          *)
(* A council is a file council.json (the rounds listed, attempts, grants,   *)
(* kept answers), a file per round and outcome.json.  Each is replaced as a *)
(* whole; a process that dies between two of them leaves the older one.     *)
(* Commands of one council do not overlap: nothing in the code keeps them   *)
(* from it, and the agent runs one at a time.                               *)
(*                                                                          *)
(* Abstracted: prompts, artifacts, models, messages that only tell what     *)
(* happened.  Gates are here what they are after their record was written;  *)
(* Gate has the writing.                                                    *)
(****************************************************************************)
EXTENDS Egress

CONSTANTS Procs,      \* command-line processes
          Councils,   \* numbered in the order in which they are created
          Plans,      \* the packets that may be reviewed, ...
          Verified,   \* ... and those whose file is committed and approved
          MinRounds, MaxRounds,
          MaxNumber, MaxExtra, \* bounds: round files of a council, grants of a round
          Setups      \* who runs which commands about what, and what may fail

Reviewers == {"gpt", "codex"}
Calls     == {"start", "council", "reconcile", "work", "complete", "operator"}
Phases    == {"plan", "verify"}                      \* "incident" is as "plan"
Classes   == {"standard", "technical", "sensitive"}  \* of a work item's content
Asks      == [class : Classes, required : BOOLEAN]   \* what start is given
Numbers   == 1..MaxNumber
Nobody    == 0

ASSUME CouncilAssumption ==
  /\ Councils \subseteq Nat \ {0} /\ Plans \subseteq Nat \ {0}
  /\ Verified \subseteq Plans
  /\ MinRounds \in 2..MaxRounds /\ MaxRounds \in 2..5
  /\ MaxNumber \in Nat \ {0} /\ MaxExtra \in Nat
  /\ Setups \subseteq
       [does    : [Procs -> SUBSET Calls],     \* the commands of each process
        stops   : BOOLEAN,                     \* may they die anywhere?
        begun   : BOOLEAN,                     \* has start run?
        asks    : SUBSET Asks,                 \* what it was, or is, given
        phases  : SUBSET Phases, councils : SUBSET Councils,
        plans   : SUBSET Plans, scopes : SUBSET BOOLEAN,
        faults  : SUBSET {"call", "gate"},     \* failed calls, hard gates
        posts   : Nat,                         \* bounds: messages of the operator,
        numbers : [Councils -> 0..MaxNumber],  \* round files of each council,
        extra   : 0..MaxExtra]                 \* grants of a round

(* A validated review: no objection, or one (revise, block, or confidence   *)
(* below the floor).  A hard gate is what the GPT adapter returns without a *)
(* key or a model.                                                          *)
Verdicts == {"approve", "object"}
Answers  == [plan : Plans, says : Verdicts]
None     == [plan |-> 0, says |-> "none"]
HardGate == [plan |-> 0, says |-> "gate"]

(* Claude's reconciliation of a round: ready, with every item of the        *)
(* reviewers bound and no blocker; not so; or blocked by capability.        *)
Recons == {"ready", "waiting", "blocked"}

(* A round file.  An "audit" records a hard gate; nothing else of it is     *)
(* read.                                                                    *)
Rounds == [kind : {"none", "real", "audit"}, by : [Reviewers -> Answers \cup {None}],
           recon : Recons \cup {"none"}]
Unanswered == [r \in Reviewers |-> None]
Said       == [by : [Reviewers -> Answers \cup {None}], ready : BOOLEAN]
NoRound    == [kind |-> "none", by |-> Unanswered, recon |-> "none"]
Audit      == [kind |-> "audit", by |-> Unanswered, recon |-> "none"]

(* council.json.  Attempts, grants and kept answers are those of the next   *)
(* round; time is the number of messages the operator has posted.           *)
Records == [phase : Phases \cup {"none"}, class : Classes, scope : BOOLEAN, at : Nat,
            listed : 0..MaxNumber, calls : [Reviewers -> Nat],
            extra : [Reviewers -> 0..MaxExtra], last : [Reviewers -> Nat],
            kept : [Reviewers -> Answers \cup {None}]]

Outcomes    == {"none", "agreement", "needs_revision", "reviewer_unavailable",
                "operator_required", "hard_gate"}
Escalations == {"operator_required", "hard_gate"}
Keys  == [council : Councils, round : 0..MaxNumber, outcome : Escalations]
Gates == [key : Keys, at : Nat, open : BOOLEAN]

VARIABLES
  setup,   \* one of Setups, for the whole behaviour
  posts,   \* messages the operator has posted
  council, \* council[c]: its council.json
  rounds,  \* rounds[c][n]: its round file n
  outcome, \* outcome[c]: its outcome.json
  gates,   \* the gates on record
  pc,      \* where process p is
  about,   \* the council its command is about
  plan,    \* the packet it dispatches
  mem,     \* its copy of council.json
  got,     \* what the reviewers answered it
  made,    \* history: calls of a reviewer for the next round
  safe,    \* history: the packet of the last answer kept for the next round
  said     \* history: what was answered last, and whether Claude was ever ready

files       == <<council, rounds, outcome>>
local       == <<pc, about, plan, mem, got>>
history     == <<made, safe, said>>
councilVars == <<setup, posts, files, gates, local, history>>

Does(p, c) == c \in setup.does[p]
First(S)   == {i \in S : \A j \in S : i <= j}

------------------------------------------------------------------------------
(* The agreement rule.  m is a council.json and f its round files.          *)

Listed(m)  == 1..m.listed
Real(m, f) == {n \in Listed(m) : f[n].kind = "real"}

(* Mutant of Completed: every record counts.                                *)
CompletedAll(m, f) == m.listed

(* substantive_round_count.                                                 *)
Completed(m, f) == Cardinality(Real(m, f))

(* The round that is evaluated and reconciled.                              *)
Latest(m, f) == {n \in Real(m, f) : \A k \in Real(m, f) : k <= n}

(* Both agree, Claude is ready, and the scope is recorded.                  *)
Satisfied(m, r) == /\ \A v \in Reviewers : r.by[v].says = "approve"
                   /\ r.recon = "ready"
                   /\ m.scope

(* evaluate, in the order of its returns.                                   *)
Evaluate(m, f) ==
  LET capped    == Completed(m, f) >= MaxRounds
      latest    == {f[n] : n \in Latest(m, f)}
      satisfied == \E r \in latest : Satisfied(m, r)
  IN  IF m.listed > 0 /\ f[m.listed].kind = "audit" THEN "hard_gate"
      ELSE IF Real(m, f) = {} THEN "needs_revision"
      ELSE IF \E r \in latest, v \in Reviewers : r.by[v].says \notin Verdicts
      THEN "reviewer_unavailable"
      ELSE IF \E r \in latest : r.recon = "blocked" THEN "operator_required"
      ELSE IF Completed(m, f) >= MinRounds /\ satisfied THEN "agreement"
      ELSE IF capped THEN "operator_required" ELSE "needs_revision"

------------------------------------------------------------------------------
(* Gates.  Only plan councils are gated.                                    *)

Escalated == {c \in Councils : council[c].phase = "plan" /\ outcome[c] \in Escalations}
KeyOf(c)  == [council |-> c, round |-> Completed(council[c], rounds[c]),
              outcome |-> outcome[c]]
Missing   == {KeyOf(c) : c \in Escalated} \ {g.key : g \in gates}
Open      == {g \in gates : g.open}

(* active_gate: the oldest that is open.                                    *)
Active == {g \in Open : \A h \in Open : g.at <= h.at}

(* Every governed command first records the missing gates and is refused    *)
(* while one is open.                                                       *)
Clear     == Missing = {} /\ Open = {}
Record(K) == gates' = gates \cup {[key |-> k, at |-> posts, open |-> TRUE] : k \in K}

------------------------------------------------------------------------------
(* The lineage of the packet of the next round.                             *)

Called(s)  == <<s, 0>>
Source(pl) == Node(IF pl \in Verified THEN "verified" ELSE "unverified", {})

(* Mutant of Lineage: what earlier rounds added to the prompt is forgotten. *)
LineageFirst(m, f, pl) ==
  [n \in {Called("source"), Called("packet")} |->
     IF n = Called("source") THEN Source(pl) ELSE Node("assembly", {Called("source")})]

(* run_round: beside the packet's own file, an ordinary council adds the    *)
(* earlier rounds as unverified text; the technical lane adds a scaffold    *)
(* and a scanned summary of each.                                           *)
Lineage(m, f, pl) ==
  LET earlier == Real(m, f)
      common  == {Called("source"), Called("scaffold")}
      added   == common \cup {Called("context")}
  IN  IF m.class = "technical"
      THEN [n \in added \cup {Called("packet")} \cup {"finding", "summary"} \X earlier |->
              CASE n[1] = "source"   -> Source(pl)
                [] n[1] = "scaffold" -> Node("scaffold", {})
                [] n[1] = "context"  -> Node("assembly", {Called("source")})
                [] n[1] = "finding"  -> Node("passed", common)
                [] n[1] = "summary"  -> Node("passed", {<<"finding", n[2]>>})
                [] n[1] = "packet"   -> Node("assembly", added \cup {"summary"} \X earlier)]
      ELSE [n \in {Called("source"), Called("earlier"), Called("packet")} |->
              CASE n[1] = "source"  -> Source(pl)
                [] n[1] = "earlier" -> Node("unverified", {})
                [] n[1] = "packet"  -> Node("assembly", {Called("source")} \cup
                                         IF earlier = {} THEN {} ELSE {Called("earlier")})]

Sendable(m, f, pl) == Cleared(Lineage(m, f, pl), Called("packet"), m.class)

------------------------------------------------------------------------------
(* A command of process p.  About a council, one runs at a time.            *)

Unasked == [plan |-> 0, says |-> "unasked"]
NoMem   == [phase |-> "none", class |-> "sensitive", scope |-> FALSE, at |-> 0,
            listed |-> 0, calls |-> [r \in Reviewers |-> 0],
            extra |-> [r \in Reviewers |-> 0], last |-> [r \in Reviewers |-> 0],
            kept |-> Unanswered]
Exists(c) == council[c].phase # "none"
Free(c)   == \A p \in Procs : about[p] # c

Goto(p, label) == pc' = [pc EXCEPT ![p] = label]

(* The command is over, with whatever exit code.                            *)
Return(p) == /\ Goto(p, "idle")
             /\ about' = [about EXCEPT ![p] = Nobody]
             /\ plan' = [plan EXCEPT ![p] = 0]
             /\ mem' = [mem EXCEPT ![p] = NoMem]
             /\ got' = [got EXCEPT ![p] = [r \in Reviewers |-> Unasked]]

Begin(p, c, pl, m, label) == /\ Goto(p, label)
                             /\ about' = [about EXCEPT ![p] = c]
                             /\ plan' = [plan EXCEPT ![p] = pl]
                             /\ mem' = [mem EXCEPT ![p] = m]
                             /\ UNCHANGED got

(* council.json is replaced by m, which p goes on with.                     *)
Persist(p, m) == /\ mem' = [mem EXCEPT ![p] = m]
                 /\ council' = [council EXCEPT ![about[p]] = m]

(* The gate check of a command that is refused: missing gates are recorded. *)
Refuse(p) == /\ pc[p] = "idle"
             /\ \E c \in Calls \ {"operator", "start"} : Does(p, c)
             /\ Missing # {}
             /\ Record(Missing)
             /\ UNCHANGED <<setup, posts, files, local, history>>

(* The lowest council that is not made yet.                                 *)
Fresh == First({c \in setup.councils : ~Exists(c)})

(* The technical lane refuses an unverified packet before a council is made *)
(* for it, and again before it is dispatched.                               *)
Eligible(class, pl) == class = "technical" => pl \in Verified

(* A new council about packet pl.                                           *)
Create(p, c, phase, class, scope, pl) ==
  /\ pc[p] = "idle" /\ Does(p, "council")
  /\ c \in Fresh /\ Clear
  /\ Eligible(class, pl)
  /\ LET m == [NoMem EXCEPT !.phase = phase, !.class = class, !.scope = scope, !.at = posts]
     IN  Begin(p, c, pl, m, "ready") /\ council' = [council EXCEPT ![c] = m]
  /\ UNCHANGED <<setup, posts, rounds, outcome, gates, history>>

(* Another dispatch of an existing council, whose scope is recorded once.   *)
Continue(p, c, pl, scope) ==
  /\ pc[p] = "idle" /\ Does(p, "council")
  /\ Exists(c) /\ Free(c) /\ Clear
  /\ council[c].listed < setup.numbers[c] \/ Completed(council[c], rounds[c]) >= MaxRounds
  /\ LET m == [council[c] EXCEPT !.scope = @ \/ scope]
     IN  Begin(p, c, pl, m, "ready") /\ council' = [council EXCEPT ![c] = m]
  /\ UNCHANGED <<setup, posts, rounds, outcome, gates, history>>

(* grant_attempts refuses before exhaustion, and a message that is not      *)
(* younger than the last call.                                              *)
MayGrant(m, r) == m.calls[r] + m.extra[r] >= 2 /\ posts > m.last[r]

Grant(p, r) == /\ pc[p] = "ready"
               /\ MayGrant(mem[p], r) /\ mem[p].extra[r] < setup.extra
               /\ Persist(p, [mem[p] EXCEPT !.extra[r] = @ + 1])
               /\ UNCHANGED <<setup, posts, rounds, outcome, gates, pc, about, plan, got, history>>

(* "already at max rounds": no further round, and the operator decides.     *)
Capped(p) ==
  /\ pc[p] = "ready" /\ Completed(mem[p], rounds[about[p]]) >= MaxRounds
  /\ outcome' = [outcome EXCEPT ![about[p]] =
       LET o == Evaluate(mem[p], rounds[about[p]])
       IN  IF o = "agreement" THEN o ELSE "operator_required"]
  /\ Goto(p, "escalate")
  /\ UNCHANGED <<setup, posts, council, rounds, gates, about, plan, mem, got, history>>

------------------------------------------------------------------------------
(* run_round.                                                               *)

Dispatching(p) == /\ pc[p] = "ready"
                  /\ Completed(mem[p], rounds[about[p]]) < MaxRounds

Number(p) == mem[p].listed + 1

(* An artifact that fails its check, or a packet over the budget: nothing   *)
(* is spent or saved.                                                       *)
Undeliverable(p) == /\ Dispatching(p) /\ "call" \in setup.faults
                    /\ Return(p)
                    /\ UNCHANGED <<setup, posts, files, gates, history>>

(* save_round of a new round, first the file and then the list.             *)
Save(p, r) == /\ rounds' = [rounds EXCEPT ![about[p]][Number(p)] = r]
              /\ Goto(p, "list")
              /\ UNCHANGED <<setup, posts, council, outcome, gates, about, plan, mem, got, history>>

(* The secret scan of the assembled prompt found something.                 *)
Secret(p) == Dispatching(p) /\ "gate" \in setup.faults /\ Save(p, Audit)

Barred(p) == ~Eligible(mem[p].class, plan[p])

(* The artifacts of an earlier round no longer pass their scan.             *)
Lapsed(p) == /\ mem[p].class = "technical" /\ "call" \in setup.faults
             /\ Real(mem[p], rounds[about[p]]) # {}

(* Mutant of Blocked: what run_round reports is stored as it is.            *)
BlockedRaw(p) == /\ Dispatching(p) /\ (Barred(p) \/ Lapsed(p))
                 /\ outcome' = [outcome EXCEPT ![about[p]] = "its_blocked"]
                 /\ Return(p)
                 /\ UNCHANGED <<setup, posts, council, rounds, gates, history>>

(* The technical lane takes verified files, and what was scanned.           *)
Blocked(p) == /\ Dispatching(p) /\ (Barred(p) \/ Lapsed(p))
              /\ outcome' = [outcome EXCEPT ![about[p]] = "reviewer_unavailable"]
              /\ Return(p)
              /\ UNCHANGED <<setup, posts, council, rounds, gates, history>>

Dispatch(p) == /\ Dispatching(p) /\ ~Barred(p)
               /\ Goto(p, "ask")
               /\ UNCHANGED <<setup, posts, files, gates, about, plan, mem, got, history>>

(* The reviewer whose turn it is: GPT before Codex.                         *)
Turn(p, r) == /\ got[p][r] = Unasked
              /\ r = "codex" => got[p]["gpt"] # Unasked
Asked(p)   == \A r \in Reviewers : got[p][r] # Unasked
Gets(p, r, a) == got' = [got EXCEPT ![p][r] = a]

Reusable(p, r) == mem[p].kept[r].plan = plan[p]
Affordable(m, r) == m.calls[r] < 2 + m.extra[r]

(* A validated answer about this very packet is kept: no new call.          *)
Reuse(p, r) == /\ pc[p] = "ask" /\ Turn(p, r) /\ Reusable(p, r)
               /\ Gets(p, r, mem[p].kept[r])
               /\ UNCHANGED <<setup, posts, files, gates, pc, about, plan, mem, history>>

Counted(m, r) == [m EXCEPT !.calls[r] = @ + 1, !.last[r] = posts]

Calling(p, r) == /\ pc[p] = "ask" /\ Turn(p, r) /\ ~Reusable(p, r)
                 /\ Affordable(mem[p], r)
                 /\ made' = [made EXCEPT ![about[p]][r] = @ + 1]
                 /\ Goto(p, "answer")

(* Mutant of Spend: the attempt is counted in memory, to be saved with the  *)
(* answer.                                                                  *)
SpendLate(p, r) ==
  /\ Calling(p, r)
  /\ mem' = [mem EXCEPT ![p] = Counted(mem[p], r)]
  /\ UNCHANGED <<setup, posts, files, gates, about, plan, got, safe, said>>

(* The attempt is on disk before the reviewer is called.                    *)
Spend(p, r) ==
  /\ Calling(p, r)
  /\ Persist(p, Counted(mem[p], r))
  /\ UNCHANGED <<setup, posts, rounds, outcome, gates, about, plan, got, safe, said>>

(* No attempt is left.                                                      *)
GiveUp(p, r) == /\ pc[p] = "ask" /\ Turn(p, r) /\ ~Reusable(p, r)
                /\ ~Affordable(mem[p], r)
                /\ Gets(p, r, None)
                /\ UNCHANGED <<setup, posts, files, gates, pc, about, plan, mem, history>>

(* The call failed, or the guard let nothing out: try again.                *)
Fails(p, r) == /\ pc[p] = "answer" /\ Turn(p, r)
               /\ "call" \in setup.faults \/ ~Sendable(mem[p], rounds[about[p]], plan[p])
               /\ Goto(p, "ask")
               /\ UNCHANGED <<setup, posts, files, gates, about, plan, mem, got, history>>

(* A hard gate, or a review whose text may not be stored, ends the attempts.*)
Ends(p, r, a) == /\ pc[p] = "answer" /\ Turn(p, r)
                 /\ \/ a = HardGate /\ "gate" \in setup.faults /\ r = "gpt"
                    \/ /\ a = None /\ "call" \in setup.faults
                       /\ Sendable(mem[p], rounds[about[p]], plan[p])
                 /\ Gets(p, r, a)
                 /\ Goto(p, "ask")
                 /\ UNCHANGED <<setup, posts, files, gates, about, plan, mem, history>>

IsReview(a) == a.says \in Verdicts

(* A validated review, which takes a packet that was let out, is on disk    *)
(* before anything else is done.                                            *)
Answer(p, r, v) ==
  /\ pc[p] = "answer" /\ Turn(p, r)
  /\ Sendable(mem[p], rounds[about[p]], plan[p])
  /\ LET a == [plan |-> plan[p], says |-> v]
         c == about[p]
     IN  /\ Gets(p, r, a)
         /\ Persist(p, [mem[p] EXCEPT !.kept[r] = a])
         /\ safe' = [safe EXCEPT ![c][r] = plan[p]]
         /\ said' = [said EXCEPT ![c][Number(p)].by[r] = a]
  /\ Goto(p, "ask")
  /\ UNCHANGED <<setup, posts, rounds, outcome, gates, about, plan, made>>

Gated(p)   == \E r \in Reviewers : got[p][r] = HardGate

(* A hard gate is recorded, and two reviews make a round.                   *)
Commit(p) == /\ pc[p] = "ask" /\ Asked(p)
             /\ \/ Gated(p) /\ Save(p, Audit)
                \/ /\ \A r \in Reviewers : IsReview(got[p][r])
                   /\ Save(p, [NoRound EXCEPT !.kind = "real", !.by = got[p]])

(* Mutant of Uncommitted: what one reviewer answered is forgotten.          *)
UncommittedDrops(p) ==
  /\ pc[p] = "ask" /\ Asked(p) /\ ~Gated(p)
  /\ \E r \in Reviewers : ~IsReview(got[p][r])
  /\ council' = [council EXCEPT ![about[p]] = [mem[p] EXCEPT !.kept = Unanswered]]
  /\ outcome' = [outcome EXCEPT ![about[p]] = "reviewer_unavailable"]
  /\ Return(p)
  /\ UNCHANGED <<setup, posts, rounds, gates, history>>

(* Otherwise the round does not count.                                      *)
Uncommitted(p) ==
  /\ pc[p] = "ask" /\ Asked(p) /\ ~Gated(p)
  /\ \E r \in Reviewers : ~IsReview(got[p][r])
  /\ outcome' = [outcome EXCEPT ![about[p]] = "reviewer_unavailable"]
  /\ Return(p)
  /\ UNCHANGED <<setup, posts, council, rounds, gates, history>>

(* The round is listed; attempts, grants and kept answers were its own.     *)
List(p) ==
  /\ pc[p] = "list"
  /\ LET c == about[p]
     IN  /\ Persist(p, [mem[p] EXCEPT !.listed = @ + 1, !.calls = NoMem.calls,
                                      !.extra = NoMem.extra, !.last = NoMem.last,
                                      !.kept = Unanswered])
         /\ made' = [made EXCEPT ![c] = NoMem.calls]
         /\ safe' = [safe EXCEPT ![c] = NoMem.calls]
  /\ Goto(p, "conclude")
  /\ UNCHANGED <<setup, posts, rounds, outcome, gates, about, plan, got, said>>

------------------------------------------------------------------------------
(* The outcome, its gate and the reconciliation.                            *)

Conclude(p) == /\ pc[p] = "conclude"
               /\ LET c == about[p]
                  IN  outcome' = [outcome EXCEPT ![c] = Evaluate(council[c], rounds[c])]
               /\ Goto(p, "escalate")
               /\ UNCHANGED <<setup, posts, council, rounds, gates, about, plan, mem, got, history>>

(* record_escalation_gate: once per escalation, and only of plan councils.  *)
Escalate(p) == /\ pc[p] = "escalate"
               /\ Record({KeyOf(c) : c \in Escalated \cap {about[p]}} \cap Missing)
               /\ Return(p)
               /\ UNCHANGED <<setup, posts, files, history>>

(* The reconcile stage, up to the scope, which stays if the rest fails.     *)
Reconcile(p, c, scope) ==
  /\ pc[p] = "idle" /\ Does(p, "reconcile")
  /\ Exists(c) /\ Free(c) /\ Clear
  /\ LET m == [council[c] EXCEPT !.scope = @ \/ scope]
     IN  Begin(p, c, 0, m, "attach") /\ council' = [council EXCEPT ![c] = m]
  /\ UNCHANGED <<setup, posts, rounds, outcome, gates, history>>

(* attach_reconciliation rewrites the latest round's file.                  *)
Attach(p, rec) ==
  /\ pc[p] = "attach"
  /\ \E n \in Latest(mem[p], rounds[about[p]]) :
       /\ rounds' = [rounds EXCEPT ![about[p]][n].recon = rec]
       /\ said' = [said EXCEPT ![about[p]][n].ready = @ \/ rec = "ready"]
  /\ Goto(p, "conclude")
  /\ UNCHANGED <<setup, posts, council, outcome, gates, about, plan, mem, got, made, safe>>

(* It is invalid, may not be stored, or there is no round.                  *)
Unattached(p) == /\ pc[p] = "attach"
                 /\ Return(p)
                 /\ UNCHANGED <<setup, posts, files, gates, history>>

------------------------------------------------------------------------------
Post == /\ posts < setup.posts
        /\ posts' = posts + 1
        /\ UNCHANGED <<setup, files, gates, local, history>>

(* What is on disk stays.                                                   *)
Crash(p) == /\ setup.stops /\ pc[p] # "idle"
            /\ Return(p)
            /\ UNCHANGED <<setup, posts, files, gates, history>>

(* The commands of process p, but for its crash and the start of one.       *)
Round(p) ==
  \/ Capped(p) \/ Undeliverable(p) \/ Secret(p) \/ Blocked(p) \/ Dispatch(p)
  \/ \E r \in Reviewers :
       \/ Grant(p, r) \/ Reuse(p, r) \/ Spend(p, r) \/ GiveUp(p, r) \/ Fails(p, r)
       \/ \E a \in {None, HardGate} : Ends(p, r, a)
       \/ \E v \in Verdicts : Answer(p, r, v)
  \/ Commit(p) \/ Uncommitted(p) \/ List(p)
  \/ Conclude(p) \/ Escalate(p)
  \/ \E rec \in Recons : Attach(p, rec)
  \/ Unattached(p)

(* The class of a new council is that of the work item.                     *)
Issue(p, class) ==
  \/ Refuse(p)
  \/ \E c \in Councils, pl \in setup.plans, scope \in setup.scopes :
       \/ \E ph \in setup.phases : Create(p, c, ph, class, scope, pl)
       \/ Continue(p, c, pl, scope)
  \/ \E c \in Councils, scope \in setup.scopes : Reconcile(p, c, scope)

CouncilInit ==
  /\ setup \in Setups /\ posts = 0
  /\ council = [c \in Councils |-> NoMem]
  /\ rounds = [c \in Councils |-> [n \in Numbers |-> NoRound]]
  /\ outcome = [c \in Councils |-> "none"]
  /\ gates = {}
  /\ pc = [p \in Procs |-> "idle"]
  /\ about = [p \in Procs |-> Nobody]
  /\ plan = [p \in Procs |-> 0]
  /\ mem = [p \in Procs |-> NoMem]
  /\ got = [p \in Procs |-> [r \in Reviewers |-> Unasked]]
  /\ made = [c \in Councils |-> NoMem.calls]
  /\ safe = [c \in Councils |-> NoMem.calls]
  /\ said = [c \in Councils |-> [n \in Numbers |-> [by |-> Unanswered, ready |-> FALSE]]]
==============================================================================
