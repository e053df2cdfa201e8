------------------------------- MODULE Archive -------------------------------
(****************************************************************************)
(* The archive (clearwright_archive): an approved plan moves the files of   *)
(* old records out of the active store, one rename at a time, under a       *)
(* journal; whoever executes next first resumes the journals it finds.      *)
(*                                                                          *)
(* The exclusive flag is modelled by what WriterLock shows of it: one       *)
(* operation at a time, no writer beside it, kept while a dead owner's      *)
(* journal is pending.  Resuming needs neither the flag nor an approval.    *)
(* A process may die anywhere and starts again.                             *)
(*                                                                          *)
(* Abstracted: a file's bytes (a version stands for their hash), what makes *)
(* a record terminal and old (`eligible` follows the writes to it), one     *)
(* archive month, an inventory that passes its own hash check, and the      *)
(* rotation of the invocation log.                                          *)
(****************************************************************************)
EXTENDS Naturals, Sequences

CONSTANTS Procs,         \* processes
          Files,         \* the files of the queue, in the order of plans
          Records, Of,   \* Of[f]: the record (thread, council, packet) of f
          Inventory,     \* the records of the approved inventory
          MaxVersion,    \* bound: contents of one file
          MaxOps,        \* bound: operations that write a journal
          Setups         \* which processes execute the archive, and bounds: how
                         \* many operations and approvals there are, how often a
                         \* file is written, and what records age and are pinned

ASSUME ArchiveAssumption ==
  /\ Files \subseteq Nat
  /\ Of \in [Files -> Records]
  /\ Inventory \subseteq Records
  /\ MaxVersion \in Nat /\ MaxOps \in Nat
  /\ Setups \subseteq [archivers : SUBSET Procs, ops : 0..MaxOps, approvals : Nat,
                       versions : 0..MaxVersion, records : SUBSET Records]

Ops      == 1..MaxOps
Versions == 0..MaxVersion         \* 0: there is no such file
Plans    == [Files -> Versions]   \* the files that move, and their hashes
NoPlan   == [f \in Files |-> 0]

(* `at` is created_at; `valid`: its message is the operator's and names the *)
(* plan's hash.                                                             *)
Approvals == [plan : Plans, at : Nat, valid : BOOLEAN, revoked : BOOLEAN]

Journals == [state : {"none", "pending", "completed"}, plan : Plans]

VARIABLES
  setup,     \* one of Setups, for the whole behaviour
  active,    \* active[f]: the version in the active store
  archived,  \* archived[f]: the version in the archive
  written,   \* written[f]: how often f was written
  eligible,  \* records that are terminal and old (or smoke runs)
  pinned,    \* records the operator has pinned
  approvals, \* approval records, in the order written
  flag,      \* the operation whose exclusive flag is there, or 0
  holds,     \* the processes whose flag that is
  journals,  \* journals[o]: the journal of operation o
  log,       \* log[o]: files its completion log names
  manifest,  \* operations that have a manifest
  index,     \* files the index names
  pc,        \* where process p is
  op,        \* the operation it executes or resumes; 0 rebuilds the index
  todo,      \* pending journals it has listed and not tried yet
  plan,      \* the plan it works on
  left,      \* files execute_journal has not come to yet
  idx        \* the index as it is about to write it

rule  == <<eligible, pinned, approvals>>
books == <<journals, log, manifest, index>>
lock  == <<flag, holds>>
local == <<op, todo, plan, left, idx>>
vars  == <<setup, active, archived, written, rule, books, lock, pc, local>>

(* The first member of S, as a set of at most one.                          *)
First(S) == {x \in S : \A y \in S : x <= y}

Entries(pl) == {f \in DOMAIN pl : pl[f] # 0}
Pending     == {o \in Ops : journals[o].state = "pending"}

(* The files that the manifests name.                                       *)
Rebuilt == UNION {Entries(journals[o].plan) : o \in manifest}

(* A token or the flag can be had: there is no flag, or its owner is dead   *)
(* and has no pending journal.                                              *)
Free == flag = 0 \/ (holds = {} /\ flag \notin Pending)

------------------------------------------------------------------------------
(* The rule of retention, and the plan that follows from it.                *)
Candidates == eligible \ pinned

(* diff_against_approved: no candidate is missing from the inventory.       *)
InInventory == Candidates \subseteq Inventory

(* Mutant of PlanNow: pins are not looked up.                               *)
PlanPinned == [f \in Files |-> IF Of[f] \in eligible THEN active[f] ELSE 0]

(* generate_plan.                                                           *)
PlanNow == [f \in Files |-> IF Of[f] \in Candidates THEN active[f] ELSE 0]

(* find_eligible_approval and validate_approval_message: the newest of the  *)
(* plan's approvals that are not revoked, unless it has an equal, and only  *)
(* if its message says so.                                                  *)
Authorized(pl) ==
  LET S == {i \in DOMAIN approvals : approvals[i].plan = pl /\ ~approvals[i].revoked} IN
  \E i \in S : /\ \A j \in S \ {i} : approvals[j].at < approvals[i].at
               /\ approvals[i].valid

------------------------------------------------------------------------------
Init ==
  /\ setup \in Setups
  /\ active \in [Files -> Versions \cap {0, 1}]
  /\ written = active
  /\ archived = NoPlan
  /\ eligible = {} /\ pinned = {} /\ approvals = << >>
  /\ flag = 0 /\ holds = {}
  /\ journals = [o \in Ops |-> [state |-> "none", plan |-> NoPlan]]
  /\ log = [o \in Ops |-> {}]
  /\ manifest = {} /\ index = {}
  /\ pc = [p \in Procs |-> "idle"]
  /\ op = [p \in Procs |-> 0]
  /\ todo = [p \in Procs |-> {}]
  /\ plan = [p \in Procs |-> NoPlan]
  /\ left = [p \in Procs |-> {}]
  /\ idx = [p \in Procs |-> {}]

------------------------------------------------------------------------------
(* The store's other clients, each under a token or without a lock at all.  *)

(* A writer creates or replaces a file of a record, which is then no longer *)
(* old.  It may have moved: a council saves its outcome at its own path.    *)
Write(f) ==
  /\ Free
  /\ written[f] < setup.versions
  /\ written' = [written EXCEPT ![f] = @ + 1]
  /\ active' = [active EXCEPT ![f] = written[f] + 1]
  /\ eligible' = eligible \ {Of[f]}
  /\ UNCHANGED <<setup, archived, pinned, approvals, books, lock, pc, local>>

(* 72 hours pass over a terminal record.                                    *)
Age(r) ==
  /\ r \in setup.records \ eligible
  /\ eligible' = eligible \cup {r}
  /\ UNCHANGED <<setup, active, archived, written, pinned, approvals, books, lock, pc, local>>

Pin(r) ==
  /\ Free /\ r \in setup.records
  /\ pinned' = IF r \in pinned THEN pinned \ {r} ELSE pinned \cup {r}
  /\ UNCHANGED <<setup, active, archived, written, eligible, approvals, books, lock, pc, local>>

(* write_approval for the plan a dry run has shown, possibly in the same    *)
(* microsecond as the last, possibly with a message that does not say so.   *)
Approve ==
  /\ Len(approvals) < setup.approvals
  /\ InInventory /\ PlanNow # NoPlan
  /\ \E valid, tie \in BOOLEAN :
       LET n == Len(approvals) IN
       approvals' = Append(approvals,
         [plan |-> PlanNow, valid |-> valid, revoked |-> FALSE,
          at |-> IF n = 0 THEN 1 ELSE IF tie THEN approvals[n].at ELSE approvals[n].at + 1])
  /\ UNCHANGED <<setup, active, archived, written, eligible, pinned, books, lock, pc, local>>

Revoked(a) == [a EXCEPT !.revoked = TRUE]

Revoke(i) ==
  /\ approvals' = [approvals EXCEPT ![i] = Revoked(@)]
  /\ UNCHANGED <<setup, active, archived, written, eligible, pinned, books, lock, pc, local>>

------------------------------------------------------------------------------
(* execute.                                                                 *)
Goto(p, label) == pc' = [pc EXCEPT ![p] = label]

(* The call of p is over, by its end or by an exception that passes through *)
(* it; the flag is released if p holds it.                                  *)
Return(p) ==
  /\ Goto(p, "idle")
  /\ op' = [op EXCEPT ![p] = 0]
  /\ todo' = [todo EXCEPT ![p] = {}]
  /\ plan' = [plan EXCEPT ![p] = NoPlan]
  /\ left' = [left EXCEPT ![p] = {}]
  /\ idx' = [idx EXCEPT ![p] = {}]
  /\ IF p \in holds THEN flag' = 0 /\ holds' = holds \ {p} ELSE UNCHANGED lock

(* Mutant of Leave: the other journals are not tried any more.              *)
LeaveAll(p) == IF p \in holds THEN Return(p)
               ELSE Goto(p, "plan") /\ UNCHANGED <<local, lock>>

(* An operation is finished or has halted: a resumed one makes way for the  *)
(* next journal.                                                            *)
Leave(p) == IF p \in holds THEN Return(p)
            ELSE Goto(p, "recover") /\ UNCHANGED <<local, lock>>

(* execute begins, and recover_pending lists the journals.                  *)
Execute(p) ==
  /\ pc[p] = "idle" /\ p \in setup.archivers
  /\ Goto(p, "recover")
  /\ todo' = [todo EXCEPT ![p] = Pending]
  /\ UNCHANGED <<setup, active, archived, written, rule, books, lock, op, plan, left, idx>>

(* Mutant of Resume: an operation that has logged a move is taken for done. *)
ResumeUnlogged(p) ==
  /\ pc[p] = "recover"
  /\ \/ /\ todo[p] = {}
        /\ Goto(p, "plan")
        /\ UNCHANGED local
     \/ \E o \in First(todo[p]) :
          /\ todo' = [todo EXCEPT ![p] = @ \ {o}]
          /\ Goto(p, "look")
          /\ op' = [op EXCEPT ![p] = o]
          /\ plan' = [plan EXCEPT ![p] = journals[o].plan]
          /\ left' = [left EXCEPT ![p] = IF log[o] = {} THEN Entries(journals[o].plan) ELSE {}]
          /\ UNCHANGED idx
  /\ UNCHANGED <<setup, active, archived, written, rule, books, lock>>

(* The next listed journal is read, with its completion log; one that is no *)
(* longer pending is passed over.                                           *)
Resume(p) ==
  /\ pc[p] = "recover"
  /\ \/ /\ todo[p] = {}
        /\ Goto(p, "plan")
        /\ UNCHANGED local
     \/ \E o \in First(todo[p]) :
          /\ todo' = [todo EXCEPT ![p] = @ \ {o}]
          /\ IF o \in Pending
             THEN /\ Goto(p, "look")
                  /\ op' = [op EXCEPT ![p] = o]
                  /\ plan' = [plan EXCEPT ![p] = journals[o].plan]
                  /\ left' = [left EXCEPT ![p] = Entries(journals[o].plan) \ log[o]]
                  /\ UNCHANGED idx
             ELSE UNCHANGED <<pc, op, plan, left, idx>>
  /\ UNCHANGED <<setup, active, archived, written, rule, books, lock>>

(* The plan is computed, and its approval looked up.                        *)
Plan(p) ==
  /\ pc[p] = "plan"
  /\ IF InInventory /\ Authorized(PlanNow)
     THEN /\ Goto(p, "acquire")
          /\ plan' = [plan EXCEPT ![p] = PlanNow]
          /\ UNCHANGED <<op, todo, left, idx, lock>>
     ELSE Return(p)
  /\ UNCHANGED <<setup, active, archived, written, rule, books>>

(* acquire_exclusive, or its deadline passes.                               *)
Acquire(p) ==
  /\ pc[p] = "acquire"
  /\ \/ /\ Free
        /\ \E o \in First({o \in 1..setup.ops : journals[o].state = "none"}) :
             flag' = o /\ op' = [op EXCEPT ![p] = o]
        /\ holds' = {p}
        /\ Goto(p, "fresh")
        /\ UNCHANGED <<todo, plan, left, idx>>
     \/ Return(p)
  /\ UNCHANGED <<setup, active, archived, written, rule, books>>

Journal(p) ==
  /\ journals' = [journals EXCEPT ![op[p]] = [state |-> "pending", plan |-> PlanNow]]
  /\ left' = [left EXCEPT ![p] = Entries(PlanNow)]
  /\ plan' = [plan EXCEPT ![p] = PlanNow]
  /\ Goto(p, "look")
  /\ UNCHANGED <<op, todo, idx, lock, log, manifest, index>>

(* Mutant of Fresh: the journal is written from the plan as it is now.      *)
FreshUnchecked(p) ==
  /\ pc[p] = "fresh"
  /\ Journal(p)
  /\ UNCHANGED <<setup, active, archived, written, rule>>

(* The plan is computed again under the flag, and if it is still the same   *)
(* the journal is written.                                                  *)
Fresh(p) ==
  /\ pc[p] = "fresh"
  /\ IF InInventory /\ PlanNow = plan[p] THEN Journal(p)
     ELSE Return(p) /\ UNCHANGED books
  /\ UNCHANGED <<setup, active, archived, written, rule>>

------------------------------------------------------------------------------
(* execute_journal, file by file.  An ArchiveError leaves the operation; an *)
(* OSError, for a file that has gone, ends the call.                        *)
Logged(p, f) == /\ log' = [log EXCEPT ![op[p]] = @ \cup {f}]
                /\ left' = [left EXCEPT ![p] = @ \ {f}]
                /\ UNCHANGED <<journals, manifest, index, op, todo, plan, idx, lock>>

(* Mutant of Look: a file that is in both places is moved again.            *)
LookAtSource(p) ==
  /\ pc[p] = "look"
  /\ \/ /\ left[p] = {}
        /\ Goto(p, "manifest")
        /\ UNCHANGED <<books, local, lock>>
     \/ \E f \in First(left[p]) :
          \/ /\ active[f] # 0
             /\ Goto(p, "hash")
             /\ UNCHANGED <<books, local, lock>>
          \/ /\ active[f] = 0 /\ archived[f] = plan[p][f]
             /\ Logged(p, f)
             /\ UNCHANGED pc
          \/ /\ active[f] = 0 /\ archived[f] # plan[p][f]
             /\ Leave(p)
             /\ UNCHANGED books
  /\ UNCHANGED <<setup, active, archived, written, rule>>

(* Is the source there, is the destination: one move is to be done, was     *)
(* done, or is an anomaly.                                                  *)
Look(p) ==
  /\ pc[p] = "look"
  /\ \/ /\ left[p] = {}
        /\ Goto(p, "manifest")
        /\ UNCHANGED <<books, local, lock>>
     \/ \E f \in First(left[p]) :
          \/ /\ active[f] # 0 /\ archived[f] = 0
             /\ Goto(p, "hash")
             /\ UNCHANGED <<books, local, lock>>
          \/ /\ active[f] = 0 /\ archived[f] = plan[p][f]
             /\ Logged(p, f)
             /\ UNCHANGED pc
          \/ /\ active[f] # 0 <=> archived[f] # 0
             /\ Leave(p)
             /\ UNCHANGED books
          \/ /\ active[f] = 0 /\ archived[f] \notin {0, plan[p][f]}
             /\ Leave(p)
             /\ UNCHANGED books
  /\ UNCHANGED <<setup, active, archived, written, rule>>

Hash(p) ==
  /\ pc[p] = "hash"
  /\ \E f \in First(left[p]) :
       \/ active[f] = 0 /\ Return(p)
       \/ active[f] \notin {0, plan[p][f]} /\ Leave(p)
       \/ active[f] = plan[p][f] /\ Goto(p, "rename") /\ UNCHANGED <<local, lock>>
  /\ UNCHANGED <<setup, active, archived, written, rule, books>>

(* os.rename, which replaces a destination that has appeared.               *)
Rename(p) ==
  /\ pc[p] = "rename"
  /\ \E f \in First(left[p]) :
       \/ /\ active[f] = 0
          /\ Return(p)
          /\ UNCHANGED <<active, archived>>
       \/ /\ active[f] # 0
          /\ archived' = [archived EXCEPT ![f] = active[f]]
          /\ active' = [active EXCEPT ![f] = 0]
          /\ Goto(p, "verify")
          /\ UNCHANGED <<local, lock>>
  /\ UNCHANGED <<setup, written, rule, books>>

(* The destination is hashed, and the move logged.                          *)
Verify(p) ==
  /\ pc[p] = "verify"
  /\ \E f \in First(left[p]) :
       \/ archived[f] = plan[p][f] /\ Logged(p, f) /\ Goto(p, "look")
       \/ archived[f] # plan[p][f] /\ Leave(p) /\ UNCHANGED books
  /\ UNCHANGED <<setup, active, archived, written, rule>>

------------------------------------------------------------------------------
(* Mutant of Manifest: the journal is closed first.                         *)
ManifestLast(p) ==
  /\ pc[p] = "manifest"
  /\ manifest' = manifest \cup {op[p]}
  /\ journals' = [journals EXCEPT ![op[p]].state = "completed"]
  /\ idx' = [idx EXCEPT ![p] = index \cup Entries(plan[p])]
  /\ Goto(p, "merge")
  /\ UNCHANGED <<setup, active, archived, written, rule, lock, log, index,
                 op, todo, plan, left>>

(* finalize_journal: the manifest is written and the index read.            *)
Manifest(p) ==
  /\ pc[p] = "manifest"
  /\ manifest' = manifest \cup {op[p]}
  /\ idx' = [idx EXCEPT ![p] = index \cup Entries(plan[p])]
  /\ Goto(p, "merge")
  /\ UNCHANGED <<setup, active, archived, written, rule, lock, journals, log, index,
                 op, todo, plan, left>>

(* rebuild_index, by the operator: the index is made from the manifests.    *)
Rebuild(p) ==
  /\ pc[p] = "idle" /\ p \in setup.archivers
  /\ idx' = [idx EXCEPT ![p] = Rebuilt]
  /\ Goto(p, "merge")
  /\ UNCHANGED <<setup, active, archived, written, rule, lock, books, op, todo, plan, left>>

Merge(p) ==
  /\ pc[p] = "merge"
  /\ index' = idx[p]
  /\ IF op[p] = 0 THEN Return(p) ELSE Goto(p, "close") /\ UNCHANGED <<local, lock>>
  /\ UNCHANGED <<setup, active, archived, written, rule, journals, log, manifest>>

(* Mutant of Close: the journal is moved to a name that nobody looks for.   *)
CloseAside(p) ==
  /\ pc[p] = "close"
  /\ journals' = [journals EXCEPT ![op[p]].state = "done"]
  /\ Leave(p)
  /\ UNCHANGED <<setup, active, archived, written, rule, log, manifest, index>>

(* The pending journal becomes the completed one, if it is still there.     *)
Close(p) ==
  /\ pc[p] = "close"
  /\ \/ /\ op[p] \in Pending
        /\ journals' = [journals EXCEPT ![op[p]].state = "completed"]
        /\ Leave(p)
     \/ /\ op[p] \notin Pending
        /\ Return(p)
        /\ UNCHANGED journals
  /\ UNCHANGED <<setup, active, archived, written, rule, log, manifest, index>>

(* A process dies.  What it holds is a file, and stays.                     *)
Crash(p) ==
  /\ pc[p] # "idle"
  /\ Goto(p, "idle")
  /\ op' = [op EXCEPT ![p] = 0]
  /\ todo' = [todo EXCEPT ![p] = {}]
  /\ plan' = [plan EXCEPT ![p] = NoPlan]
  /\ left' = [left EXCEPT ![p] = {}]
  /\ idx' = [idx EXCEPT ![p] = {}]
  /\ holds' = holds \ {p}
  /\ UNCHANGED <<setup, active, archived, written, rule, books, flag>>

(* Mutant of Fail: the operation that failed takes its journal with it.     *)
FailDrops(p) ==
  /\ pc[p] # "idle"
  /\ Return(p)
  /\ journals' = [o \in Ops |-> IF o = op[p] THEN [journals[o] EXCEPT !.state = "none"]
                                ELSE journals[o]]
  /\ UNCHANGED <<setup, active, archived, written, rule, log, manifest, index>>

(* A system call fails (a reader has the file open, the disk is full): the  *)
(* exception ends the call and releases the flag, whatever is half-done.    *)
Fail(p) ==
  /\ pc[p] # "idle"
  /\ Return(p)
  /\ UNCHANGED <<setup, active, archived, written, rule, books>>

(* The archive-aware reads: the active store first, then what the index     *)
(* names.                                                                   *)
Found(f) == active[f] # 0 \/ (f \in index /\ archived[f] # 0)

Step(p) == \/ Execute(p) \/ Resume(p) \/ Plan(p) \/ Acquire(p) \/ Fresh(p)
           \/ Look(p) \/ Hash(p) \/ Rename(p) \/ Verify(p)
           \/ Manifest(p) \/ Rebuild(p) \/ Merge(p) \/ Close(p) \/ Crash(p) \/ Fail(p)

Next == \/ \E f \in Files : Write(f)
        \/ \E r \in Records : Age(r) \/ Pin(r)
        \/ \E i \in DOMAIN approvals : Revoke(i)
        \/ Approve
        \/ \E p \in Procs : Step(p)

Spec == Init /\ [][Next]_vars

------------------------------------------------------------------------------
(* Properties.                                                              *)

(* Every variable keeps the shape the actions rely on.                      *)
TypeOK ==
  /\ setup \in Setups
  /\ active \in Plans /\ archived \in Plans /\ written \in Plans
  /\ eligible \subseteq Records /\ pinned \subseteq Records
  /\ approvals \in Seq(Approvals)
  /\ flag \in Ops \cup {0} /\ holds \subseteq Procs
  /\ journals \in [Ops -> Journals]
  /\ log \in [Ops -> SUBSET Files]
  /\ manifest \subseteq Ops /\ index \subseteq Files
  /\ pc \in [Procs -> {"idle", "recover", "plan", "acquire", "fresh", "look", "hash",
                       "rename", "verify", "manifest", "merge", "close"}]
  /\ op \in [Procs -> Ops \cup {0}]
  /\ todo \in [Procs -> SUBSET Ops]
  /\ plan \in [Procs -> Plans]
  /\ left \in [Procs -> SUBSET Files] /\ idx \in [Procs -> SUBSET Files]

(* One process executes the archive (it may crash and start again).         *)
Alone == \A p, q \in setup.archivers : p = q

(* What moves is what the operator has approved: a journal's plan has an    *)
(* approval whose message names its hash, and only records of the inventory *)
(* are in it, however many processes execute and others write.              *)
OnlyApprovedMoves ==
  \A o \in Ops : journals[o].state # "none" =>
    /\ \E i \in DOMAIN approvals : approvals[i].plan = journals[o].plan /\ approvals[i].valid
    /\ \A f \in Entries(journals[o].plan) : Of[f] \in Inventory

(* A file leaves the active store only into the archive, and nothing in the *)
(* archive is replaced: "no path that overwrites or deletes a source file", *)
(* also when writers put a file back at a path that has been archived.      *)
ZeroLoss ==
  [][Alone => \A f \in Files :
       /\ archived[f] # 0 => archived'[f] = archived[f]
       /\ active[f] # 0 /\ active'[f] = 0 => archived'[f] = active[f]]_vars

(* Whatever crashes, "every id stays resolvable": what was written is found *)
(* by the reads, what was archived also when its path is in use again,      *)
(* unless a journal that names it is still to be resumed.                   *)
EveryIdResolves ==
  Alone => \A f \in Files :
    \/ /\ written[f] # 0 => Found(f)
       /\ archived[f] # 0 => f \in index
    \/ \E o \in Pending : f \in Entries(journals[o].plan)

(* Two processes that merge into the index they have both read lose a merge *)
(* (merge_index); rebuild_index then restores it, however many processes    *)
(* execute and die: the manifests name every file that is in the archive,   *)
(* but for those of journals that are still to be resumed, and every file   *)
(* that the index names.                                                    *)
RebuildRestores ==
  /\ index \subseteq Rebuilt
  /\ \A f \in Files : archived[f] # 0 =>
       f \in Rebuilt \/ \E o \in Pending : f \in Entries(journals[o].plan)

(* A completed journal has done all of its moves, as they were approved.    *)
CompletedIsMoved ==
  \A o \in Ops : Alone /\ journals[o].state = "completed" =>
    /\ o \in manifest
    /\ \A f \in Entries(journals[o].plan) : archived[f] = journals[o].plan[f]

(* Something about o's next moves is not as planned.                        *)
Anomalous(o) ==
  \E f \in Entries(journals[o].plan) \ log[o] :
    ~ \/ active[f] = journals[o].plan[f] /\ archived[f] = 0
      \/ active[f] = 0 /\ archived[f] = journals[o].plan[f]

(* When recover_pending returns, a journal is pending only because it has   *)
(* halted on an anomaly: what can be resumed has been.                      *)
ResumedOrHalted ==
  [][Alone => \A p \in Procs : pc[p] # "plan" /\ pc'[p] = "plan" =>
       \A o \in Pending : Anomalous(o)]_vars

(* An operation moves under its own flag only what is eligible and not      *)
(* pinned at that moment, although its approval is older.                   *)
MovesUnderFlagEligible ==
  [][\A p \in holds : pc[p] = "rename" /\ pc'[p] = "verify" =>
       \A f \in First(left[p]) : Of[f] \in Candidates]_vars

(* "A record moves only when it is BOTH in the approved inventory AND still *)
(* currently eligible", and a pinned one is kept active.                    *)
MovesOnlyEligible ==
  [][\A f \in Files : active[f] # 0 /\ active'[f] = 0 => Of[f] \in Candidates]_vars
==============================================================================
