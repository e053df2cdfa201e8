----------------------------- MODULE WriterLock ------------------------------
(****************************************************************************)
(* Writer/archive exclusion (clearwright_writer_lock) as its clients use    *)
(* it: durable writers take a token around a mutation, `archive execute`    *)
(* resumes pending journals, takes the exclusive flag, moves records under  *)
(* a journal and releases the flag, and an operator may override a flag.    *)
(*                                                                          *)
(* A process is one thread of one operating-system process.  It may die at  *)
(* any step and start again with the same pid and a new start time          *)
(* (`life`). What it holds dies with it only where the kernel or a file     *)
(* says so: registry.lock is a kernel lock, tokens, flag and journals are   *)
(* files.                                                                   *)
(*                                                                          *)
(* Abstracted: what is written and moved, hosts (an owner on another host   *)
(* is one whose liveness query fails), malformed flag files (every flag     *)
(* file is written by one atomic replace), and time: a deadline may pass    *)
(* whenever its loop goes round.  A move of records may always halt, which  *)
(* is what it does when it finds anything but what it planned.              *)
(*                                                                          *)
(* `faults` says which other failures may happen:                           *)
(*   query     a liveness query fails, so a dead owner is indeterminate     *)
(*   io        a recovery record cannot be written, a lock file not removed *)
(*   legacy    a flag that does not name its journal                        *)
(*   override  the operator's forced clearance of a flag                    *)
(*   start     a process cannot read its own start time                     *)
(*   token     a token file cannot be read while tokens are listed          *)
(****************************************************************************)
EXTENDS Naturals

CONSTANTS Procs,     \* processes, by pid
          MaxLife,   \* bound: how often each pid is started
          MaxOps,    \* bound: archive operations that acquire the flag
          FaultSets  \* the combinations of failures to consider

FaultKinds == {"query", "io", "legacy", "override", "start", "token"}

ASSUME LockAssumption == /\ MaxLife \in Nat /\ MaxOps \in Nat
                         /\ FaultSets \subseteq SUBSET FaultKinds

VARIABLES
  faults,   \* one of FaultSets, for the whole behaviour
  up,       \* up[p]: the process with pid p runs
  life,     \* life[p]: its start time
  pc, op,   \* where it is, and in which call
  job,      \* job[p]: the archive operation it executes or resumes
  todo,     \* todo[p]: journals recover_pending has listed and not tried yet
  rec,      \* rec[p]: the flag it has read and judges
  mutex,    \* holders of registry.lock
  tokens,   \* token files
  flag,     \* exclusive.flag
  journals, \* archive operations with a pending journal
  records,  \* recovery and override records: kind and operation
  ops       \* archive operations so far

procVars == <<up, life, pc, op, job, todo, rec>>
fileVars == <<tokens, flag, journals, records>>
vars     == <<faults, procVars, mutex, fileVars, ops>>

Starts == 0 .. MaxLife    \* 0: "None", the start time was not readable
Ops    == 0 .. MaxOps     \* 0: none

Tokens == [pid : Procs, life : Starts, start : Starts]
Flags  == [id : Ops \ {0}, pid : Procs, start : Starts, named : BOOLEAN]
NoFlag == [id |-> 0]

Calls == {"write", "archive", "clear", "release", "none"}

(* Inside the critical section; holding the exclusive flag.                 *)
Judging   == {"judge", "judge_held", "record", "remove"}
Critical  == Judging \cup {"inspect", "enter", "unflag"}
Exclusive == {"plan", "move"}

------------------------------------------------------------------------------
(* liveness: an owner is confirmed dead when its pid is gone, or belongs to *)
(* a process with another start time than the recorded one.                 *)
Dead(owner) == ~up[owner.pid] \/ owner.start # life[owner.pid]

(* Mutant of ConfirmedDead: an owner whose query failed counts as dead.     *)
NotConfirmedLive(owners) ==
  IF "query" \in faults THEN SUBSET owners ELSE {{o \in owners : Dead(o)}}

(* The owners among `owners` that one round of queries confirms dead.       *)
ConfirmedDead(owners) ==
  LET dead == {o \in owners : Dead(o)}
  IN  IF "query" \in faults THEN SUBSET dead ELSE {dead}

(* What is removed of the files that should be.                             *)
Removed(files) == IF "io" \in faults THEN SUBSET files ELSE {files}

(* _self_owner: the start time p records for itself.                        *)
OwnStart(p) == {life[p]} \cup IF "start" \in faults THEN {0} ELSE {}

(* Mutant of NamesJournal: the claim is believed without looking.           *)
ClaimsJournal(f) == f.named

(* The flag names a journal and that journal is there.                      *)
NamesJournal(f) == f.named /\ f.id \in journals

------------------------------------------------------------------------------
Init == /\ faults \in FaultSets
        /\ up = [p \in Procs |-> FALSE]
        /\ life = [p \in Procs |-> 0]
        /\ pc = [p \in Procs |-> "idle"]
        /\ op = [p \in Procs |-> "none"]
        /\ job = [p \in Procs |-> 0]
        /\ todo = [p \in Procs |-> {}]
        /\ rec = [p \in Procs |-> NoFlag]
        /\ mutex = {}
        /\ tokens = {}
        /\ flag = NoFlag
        /\ journals = {}
        /\ records = {}
        /\ ops = 0

Goto(p, label) == pc' = [pc EXCEPT ![p] = label]

(* The call of p is over (it returned or raised).                           *)
Return(p) == /\ Goto(p, "idle")
             /\ op' = [op EXCEPT ![p] = "none"]
             /\ job' = [job EXCEPT ![p] = 0]
             /\ todo' = [todo EXCEPT ![p] = {}]
             /\ UNCHANGED rec

(* p is done with the flag it judged.                                       *)
Forget(p, label) == Goto(p, label) /\ rec' = [rec EXCEPT ![p] = NoFlag]

(* p asks for registry.lock on behalf of a call.                            *)
Ask(p, call) == /\ Goto(p, "lock")
                /\ op' = [op EXCEPT ![p] = call]

------------------------------------------------------------------------------
(* Processes.                                                               *)

Start(p) ==
  /\ ~up[p] /\ life[p] < MaxLife
  /\ up' = [up EXCEPT ![p] = TRUE]
  /\ life' = [life EXCEPT ![p] = @ + 1]
  /\ UNCHANGED <<faults, pc, op, job, todo, rec, mutex, fileVars, ops>>

(* The process exits or is killed: the kernel releases its registry lock.   *)
Die(p) ==
  /\ up[p]
  /\ up' = [up EXCEPT ![p] = FALSE]
  /\ Forget(p, "idle")
  /\ op' = [op EXCEPT ![p] = "none"]
  /\ job' = [job EXCEPT ![p] = 0]
  /\ todo' = [todo EXCEPT ![p] = {}]
  /\ mutex' = mutex \ {p}
  /\ UNCHANGED <<faults, life, fileVars, ops>>

(* A durable writer, or clear_stale_exclusive, is called.                   *)
Call(p, call) ==
  /\ up[p] /\ pc[p] = "idle"
  /\ call \in {"write", "clear"}
  /\ Ask(p, call)
  /\ UNCHANGED <<faults, up, life, job, todo, rec, mutex, fileVars, ops>>

------------------------------------------------------------------------------
(* registry.lock.                                                           *)

(* Mutant of Lock: the lock of another process is taken for stale.          *)
LockStolen(p) ==
  /\ pc[p] = "lock"
  /\ mutex' = {p}
  /\ Goto(p, IF op[p] = "release" THEN "unflag" ELSE "inspect")
  /\ UNCHANGED <<faults, up, life, op, job, todo, rec, fileVars, ops>>

Lock(p) ==
  /\ pc[p] = "lock" /\ mutex = {}
  /\ mutex' = {p}
  /\ Goto(p, IF op[p] = "release" THEN "unflag" ELSE "inspect")
  /\ UNCHANGED <<faults, up, life, op, job, todo, rec, fileVars, ops>>

(* registry_lock_unavailable: the wait for a held lock ran out.             *)
LockTimeout(p) ==
  /\ pc[p] = "lock" /\ mutex # {}
  /\ Return(p)
  /\ UNCHANGED <<faults, up, life, mutex, fileVars, ops>>

(* Leave the critical section for `label`, or return from the call.         *)
Leave(p, label) == /\ mutex' = {}
                   /\ Goto(p, label)
                   /\ UNCHANGED <<op, job, todo, rec>>
LeaveCall(p)    == mutex' = {} /\ Return(p)

------------------------------------------------------------------------------
(* _recover_stale_exclusive_locked, on every acquisition.                   *)

(* Read the flag and, when it names a journal, look whether that is there.  *)
Inspect(p) ==
  /\ pc[p] = "inspect"
  /\ rec' = [rec EXCEPT ![p] = flag]
  /\ Goto(p, IF flag = NoFlag THEN "enter"
             ELSE IF NamesJournal(flag) THEN "judge_held" ELSE "judge")
  /\ UNCHANGED <<faults, up, life, op, job, todo, mutex, fileVars, ops>>

(* Then ask whether its owner lives, and, when it names no journal, look    *)
(* for any.  A dead owner's flag with a journal stays and the refusal is    *)
(* recorded; without one it is recovered.                                   *)
Judge(p) ==
  LET held == pc[p] = "judge_held" \/ (~rec[p].named /\ journals # {}) IN
  /\ pc[p] \in {"judge", "judge_held"}
  /\ \E dead \in ConfirmedDead({rec[p]}) :
       \/ dead # {} /\ ~held /\ Goto(p, "record") /\ UNCHANGED <<records, rec>>
       \/ /\ dead = {} \/ held
          /\ Forget(p, "enter")
          /\ \/ records' = records \cup {<<"refusal", f.id>> : f \in dead}
             \/ "io" \in faults /\ UNCHANGED records
  /\ UNCHANGED <<faults, up, life, op, job, todo, mutex, tokens, flag, journals, ops>>

(* Mutant of Record: kind and state are swapped in the record.              *)
RecordSwapped(p) ==
  /\ pc[p] = "record"
  /\ records' = records \cup {<<"dead", rec[p].id>>}
  /\ Goto(p, "remove")
  /\ UNCHANGED <<faults, up, life, op, job, todo, rec, mutex, tokens, flag, journals, ops>>

(* Mutant of Record: the recovery goes on when it could not be recorded.    *)
RecordIfPossible(p) ==
  /\ pc[p] = "record"
  /\ \/ records' = records \cup {<<"recovered", rec[p].id>>}
     \/ "io" \in faults /\ UNCHANGED records
  /\ Goto(p, "remove")
  /\ UNCHANGED <<faults, up, life, op, job, todo, rec, mutex, tokens, flag, journals, ops>>

(* Evidence first: a recovery that cannot be recorded is not carried out.   *)
Record(p) ==
  /\ pc[p] = "record"
  /\ \/ /\ records' = records \cup {<<"recovered", rec[p].id>>}
        /\ Goto(p, "remove") /\ UNCHANGED rec
     \/ /\ "io" \in faults
        /\ UNCHANGED records
        /\ Forget(p, "enter")
  /\ UNCHANGED <<faults, up, life, op, job, todo, mutex, tokens, flag, journals, ops>>

(* Remove the flag file, whatever it is by now.                             *)
Remove(p) ==
  /\ pc[p] = "remove"
  /\ \E gone \in Removed({flag}) : flag' = IF flag \in gone THEN NoFlag ELSE flag
  /\ Forget(p, "enter")
  /\ UNCHANGED <<faults, up, life, op, job, todo, mutex, tokens, journals, records, ops>>

------------------------------------------------------------------------------
(* The check-and-set that follows, under the same lock.                     *)

(* acquire_write_token.                                                     *)
TakeToken(p) ==
  /\ pc[p] = "enter" /\ op[p] = "write"
  /\ IF flag # NoFlag
     THEN LeaveCall(p) /\ UNCHANGED tokens  \* maintenance_in_progress
     ELSE /\ \E s \in OwnStart(p) :
               tokens' = tokens \cup {[pid |-> p, life |-> life[p], start |-> s]}
          /\ Leave(p, "write")
  /\ UNCHANGED <<faults, up, life, flag, journals, records, ops>>

(* acquire_exclusive: sweep the dead tokens; with none left, set the flag,  *)
(* else wait and try again until the drain deadline.                        *)
TakeFlag(p) ==
  /\ pc[p] = "enter" /\ op[p] = "archive"
  /\ IF flag # NoFlag
     THEN LeaveCall(p) /\ UNCHANGED <<tokens, flag, ops>>  \* exclusive_already_held
     ELSE \E unread \in IF "token" \in faults THEN SUBSET tokens ELSE {{}} :
          \E dead \in ConfirmedDead(tokens \ unread) :
            /\ \E gone \in Removed(dead) : tokens' = tokens \ gone
            /\ \/ /\ tokens \ (unread \cup dead) = {}
                  /\ ops < MaxOps
                  /\ ops' = ops + 1
                  /\ \E s \in OwnStart(p),
                        named \in {TRUE} \cup IF "legacy" \in faults THEN {FALSE} ELSE {} :
                       flag' = [id |-> ops + 1, pid |-> p, start |-> s, named |-> named]
                  /\ job' = [job EXCEPT ![p] = ops + 1]
                  /\ Goto(p, "plan")
                  /\ mutex' = {}
                  /\ UNCHANGED <<op, todo, rec>>
               \/ /\ tokens \ (unread \cup dead) # {}
                  /\ Leave(p, "lock") \/ LeaveCall(p)  \* archive_drain_timeout
                  /\ UNCHANGED <<flag, ops>>
  /\ UNCHANGED <<faults, up, life, journals, records>>

(* clear_stale_exclusive is the recovery alone.                             *)
ClearStale(p) ==
  /\ pc[p] = "enter" /\ op[p] = "clear"
  /\ LeaveCall(p)
  /\ UNCHANGED <<faults, up, life, fileVars, ops>>

(* release_exclusive: only the flag of this very acquisition.               *)
ReleaseFlag(p) ==
  /\ pc[p] = "unflag"
  /\ \E gone \in Removed({flag}) :
       flag' = IF flag.id = job[p] /\ flag \in gone THEN NoFlag ELSE flag
  /\ LeaveCall(p)
  /\ UNCHANGED <<faults, up, life, tokens, journals, records, ops>>

(* The mutation is done; release_write_token takes no lock.                 *)
FinishWrite(p) ==
  /\ pc[p] = "write"
  /\ \E gone \in Removed({t \in tokens : t.pid = p /\ t.life = life[p]}) :
       tokens' = tokens \ gone
  /\ Return(p)
  /\ UNCHANGED <<faults, up, life, mutex, flag, journals, records, ops>>

------------------------------------------------------------------------------
(* archive.execute around the flag.                                         *)

(* recover_pending, first: list the pending journals.  It holds no lock.    *)
Execute(p) ==
  /\ up[p] /\ pc[p] = "idle"
  /\ Goto(p, "recover")
  /\ todo' = [todo EXCEPT ![p] = journals]
  /\ UNCHANGED <<faults, up, life, op, job, rec, mutex, fileVars, ops>>

NextJournal(p) == /\ Goto(p, "recover")
                  /\ job' = [job EXCEPT ![p] = 0]
                  /\ UNCHANGED <<op, todo, rec>>

(* Resume the next listed journal, when it is still there.                  *)
Resume(p) ==
  /\ pc[p] = "recover"
  /\ \E id \in todo[p] :
       /\ todo' = [todo EXCEPT ![p] = @ \ {id}]
       /\ IF id \in journals
          THEN Goto(p, "resume") /\ job' = [job EXCEPT ![p] = id]
          ELSE UNCHANGED <<pc, job>>
  /\ UNCHANGED <<faults, up, life, op, rec, mutex, fileVars, ops>>

(* Its records are moved and it is marked completed, or it halts; an error  *)
(* of the file system (the journal or a record is gone because another      *)
(* process resumed it too) ends the whole call.                             *)
FinishResume(p) ==
  /\ pc[p] = "resume"
  /\ \/ job[p] \in journals /\ journals' = journals \ {job[p]} /\ NextJournal(p)
     \/ UNCHANGED journals /\ (NextJournal(p) \/ Return(p))
  /\ UNCHANGED <<faults, up, life, mutex, tokens, flag, records, ops>>

(* All listed journals were tried: plan, find the approval and go for the   *)
(* flag, or stop when one of these fails.                                   *)
Acquire(p) ==
  /\ pc[p] = "recover" /\ todo[p] = {}
  /\ (Ask(p, "archive") /\ UNCHANGED <<job, todo, rec>>) \/ Return(p)
  /\ UNCHANGED <<faults, up, life, mutex, fileVars, ops>>

(* Under the flag: plan again; journal the plan, or release on a drift.     *)
Journal(p) ==
  /\ pc[p] = "plan"
  /\ \/ journals' = journals \cup {job[p]} /\ Goto(p, "move") /\ UNCHANGED op
     \/ Ask(p, "release") /\ UNCHANGED journals
  /\ UNCHANGED <<faults, up, life, job, todo, rec, mutex, tokens, flag, records, ops>>

(* The records are moved and the journal is completed, or the move halts.   *)
(* Either way the flag is released.                                         *)
FinishMove(p) ==
  /\ pc[p] = "move"
  /\ journals' \in {journals, journals \ {job[p]}}
  /\ Ask(p, "release")
  /\ UNCHANGED <<faults, up, life, job, todo, rec, mutex, tokens, flag, records, ops>>

(* apply_override: refuse a live owner, record the override and then remove *)
(* the flag (force_clear_exclusive_for_override), all without the lock.     *)
Override(p) ==
  /\ up[p] /\ pc[p] = "idle"
  /\ "override" \in faults
  /\ flag # NoFlag
  /\ Dead(flag) \/ "query" \in faults
  /\ records' = records \cup {<<"override", flag.id>>}
  /\ Goto(p, "override")
  /\ UNCHANGED <<faults, up, life, op, job, todo, rec, mutex, tokens, flag, journals, ops>>

ForceClear(p) ==
  /\ pc[p] = "override"
  /\ flag' = NoFlag
  /\ Return(p)
  /\ UNCHANGED <<faults, up, life, mutex, tokens, journals, records, ops>>

------------------------------------------------------------------------------
(* What p does next on its own account, once called.                        *)
Work(p) == \/ Lock(p) \/ LockTimeout(p)
           \/ Inspect(p) \/ Judge(p) \/ Record(p) \/ Remove(p)
           \/ TakeToken(p) \/ TakeFlag(p) \/ ClearStale(p) \/ ReleaseFlag(p)
           \/ FinishWrite(p)
           \/ Resume(p) \/ FinishResume(p) \/ Acquire(p) \/ Journal(p) \/ FinishMove(p)
           \/ ForceClear(p)

Step(p) == \/ Start(p) \/ Die(p)
           \/ \E call \in {"write", "clear"} : Call(p, call)
           \/ Execute(p) \/ Override(p)
           \/ Work(p)

Next == \E p \in Procs : Step(p)

Spec == Init /\ [][Next]_vars

(* A process that runs goes on with its call.                               *)
FairSpec == Spec /\ \A p \in Procs : WF_vars(Work(p))

------------------------------------------------------------------------------
(* Properties.                                                              *)

(* Every variable keeps the shape the actions above rely on.                *)
TypeOK ==
  /\ faults \in FaultSets
  /\ up \in [Procs -> BOOLEAN] /\ life \in [Procs -> Starts]
  /\ pc \in [Procs -> Critical \cup Exclusive \cup
                      {"idle", "lock", "write", "recover", "resume", "override"}]
  /\ op \in [Procs -> Calls]
  /\ job \in [Procs -> Ops] /\ todo \in [Procs -> SUBSET Ops]
  /\ rec \in [Procs -> Flags \cup {NoFlag}]
  /\ mutex \subseteq Procs
  /\ tokens \subseteq Tokens /\ flag \in Flags \cup {NoFlag}
  /\ journals \subseteq Ops
  /\ records \subseteq {"recovered", "refusal", "override"} \X Ops
  /\ ops \in Ops

(* The failures the code sets out to survive; an operator's override is not *)
(* one of them.                                                             *)
Expected == faults \subseteq {"query", "io", "legacy"}

(* "a normal durable write and an active archive operation can never race", *)
(* for the archive operation that acquired the flag, nor can two of those.  *)
MutualExclusion ==
  Expected => \A p, q \in Procs :
    pc[p] \in Exclusive /\ pc[q] \in Exclusive \cup {"write"} => p = q

(* A writer that lives and has not released its token keeps it: no          *)
(* acquisition of the flag sweeps it ("never sweeps a live or indeterminate *)
(* token to force progress"), also when flags are cleared by force.         *)
NoLiveTokenSwept ==
  [][\A p \in Procs : pc[p] = "write" /\ pc'[p] = "write"
       => \A t \in tokens : t.pid = p /\ t.life = life[p] => t \in tokens']_vars

(* While a process archives under its flag, nobody takes the flag.          *)
Preempted == \E p \in Procs : pc[p] \in Exclusive /\ flag.id = job[p] /\ flag' # flag
NeverPreempted     == [][Expected => ~Preempted]_vars

(* The same for the operator's override: "this is never a way to preempt a  *)
(* running archive".                                                        *)
OverrideSparesLive == [][~Preempted]_vars

(* The audit trail of recoveries is complete: a flag goes away only by its  *)
(* owner's release, or after a durable record of its recovery.              *)
EvidenceFirst ==
  [][Expected /\ flag # NoFlag /\ flag' # flag
       => \/ <<"recovered", flag.id>> \in records
          \/ \E p \in Procs : pc[p] = "unflag" /\ job[p] = flag.id]_vars

(* Every record of a recovery tells the truth: the operation it names is    *)
(* over, its process dead or past its release.                              *)
RecoveredIsOver ==
  Expected =>
    \A p \in Procs : pc[p] \in Exclusive => <<"recovered", job[p]>> \notin records

(* A dead holder's flag is retained while the journal of its operation is   *)
(* unresolved ("flag retained while the dead holder's pending journal is    *)
(* unresolved").                                                            *)
RecoveryKeepsJournals ==
  [][flag # NoFlag /\ flag' # flag /\ flag.id \in journals
       => \E p \in Procs : pc[p] = "unflag" /\ job[p] = flag.id]_vars

(* The flag's owner is dead and nothing of its operation is left to do.     *)
StaleFlag == /\ flag # NoFlag /\ Dead(flag)
             /\ IF flag.named THEN flag.id \notin journals ELSE journals = {}

(* As long as acquisitions keep getting in, the flag of a dead archiver     *)
(* that left nothing to resume does not block the writers for ever.         *)
StaleFlagRecovered ==
  []<>(\E p \in Procs : pc[p] = "inspect") => (StaleFlag ~> ~StaleFlag)
==============================================================================
