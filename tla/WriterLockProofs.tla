-------------------------- MODULE WriterLockProofs ---------------------------
(****************************************************************************)
(* Proofs about WriterLock for any processes, any number of lives and of    *)
(* archive operations.                                                      *)
(*                                                                          *)
(* The argument for exclusion: the flag is taken only when every token is   *)
(* confirmed dead, a token only when there is no flag, both under the       *)
(* kernel lock; and the flag of an operation in progress outlasts every     *)
(* recovery, because what a recovery removes is the flag it judged, an      *)
(* owner once dead stays dead, and the owner of the operation in progress   *)
(* is alive.                                                                *)
(****************************************************************************)
EXTENDS WriterLock, TLAPS

(* p works under its flag, or is on its way to release it.                  *)
Holding(p) == pc[p] \in Exclusive \cup {"unflag"} \/ (pc[p] = "lock" /\ op[p] = "release")

(* Only a running process is in a call; the kernel lock has one holder.     *)
ProcInv == \A p \in Procs : /\ pc[p] # "idle" => up[p]
                            /\ pc[p] \in Critical <=> p \in mutex
                            /\ pc[p] = "override" => "override" \in faults
                            /\ pc[p] = "lock" => op[p] \in Calls \ {"none"}
MutexInv == \A p, q \in mutex : p = q

(* Owners in files are from the past or the present; operations are         *)
(* counted.                                                                 *)
PastInv == /\ \A t \in tokens : t.start \in {0, t.life} /\ t.life <= life[t.pid]
           /\ flag # NoFlag => flag.start <= life[flag.pid] /\ flag.id <= ops
           /\ \A r \in records : r[2] <= ops
           /\ \A p \in Procs : rec[p].id <= ops

(* With readable start times a token names its writer and its life, and a   *)
(* writer has its token.                                                    *)
TokenInv ==
  "start" \notin faults =>
    /\ \A t \in tokens : t.start = t.life
    /\ \A p \in Procs : pc[p] = "write" => [pid |-> p, life |-> life[p], start |-> life[p]] \in tokens

(* What a recovery judges is the flag, and the dead stay dead.              *)
JudgeInv ==
  \A p \in Procs : pc[p] \in Judging =>
    /\ flag # NoFlag /\ rec[p] = flag
    /\ pc[p] \in {"record", "remove"} => Dead(flag)
    /\ pc[p] = "remove" => <<"recovered", flag.id>> \in records

(* The flag stands while its owner works under it, and keeps writers out.   *)
FlagInv ==
  /\ \A p \in Procs : Holding(p) =>
       /\ flag # NoFlag /\ flag.id = job[p]
       /\ flag.pid = p /\ flag.start = life[p]
  /\ flag # NoFlag => \A p \in Procs : pc[p] # "write"

(* No recovery has been recorded for the operation of a flag whose owner is *)
(* alive.                                                                   *)
RecordInv == \A p \in Procs : pc[p] \in Exclusive => <<"recovered", job[p]>> \notin records

CoreInv == TypeOK /\ ProcInv /\ MutexInv /\ PastInv /\ TokenInv
LockInv == CoreInv /\ (Expected => JudgeInv /\ FlagInv /\ RecordInv)

------------------------------------------------------------------------------
LEMMA FlagShape ==
  /\ NoFlag \notin Flags
  /\ \A f \in Flags : /\ f.id \in Ops \ {0} /\ f.pid \in Procs /\ f.start \in Starts
  /\ NoFlag.id = 0
  /\ Ops \subseteq Nat /\ 0 \in Ops /\ Starts \subseteq Nat /\ 0 \in Starts
BY LockAssumption DEF Flags, NoFlag, Ops, Starts

LEMMA ConfirmedAreDead ==
  ASSUME NEW owners, NEW dead \in ConfirmedDead(owners)
  PROVE  dead \subseteq owners /\ \A o \in dead : Dead(o)
BY DEF ConfirmedDead

LEMMA RemovedAreThose ==
  ASSUME NEW files, NEW gone \in Removed(files)
  PROVE  gone \subseteq files
BY DEF Removed

LEMMA FaultsStay ==
  ASSUME NEW p \in Procs, Step(p)
  PROVE  UNCHANGED faults
BY DEF Step, Work, Start, Die, Call, Execute, Override, Lock, LockTimeout, Inspect, Judge,
       Record, Remove, TakeToken, TakeFlag, ClearStale, ReleaseFlag, FinishWrite, Resume,
       FinishResume, Acquire, Journal, FinishMove, ForceClear

(* An attempt at the flag removes only dead tokens, and takes the flag only *)
(* when no other is left.                                                   *)
LEMMA TakeFlagEffect ==
  ASSUME TypeOK, NEW p \in Procs, TakeFlag(p)
  PROVE  /\ pc[p] = "enter" /\ op[p] = "archive" /\ mutex' = {}
         /\ UNCHANGED <<faults, up, life, rec, journals, records>>
         /\ tokens' \subseteq tokens /\ \A t \in tokens \ tokens' : Dead(t)
         /\ \/ /\ pc'[p] = "plan" /\ op'[p] = "archive"
               /\ flag = NoFlag /\ flag' \in Flags
               /\ flag'.id = ops + 1 /\ flag'.pid = p /\ flag'.start \in OwnStart(p)
               /\ job'[p] = ops + 1 /\ ops < MaxOps /\ ops' = ops + 1
               /\ "token" \notin faults => \A t \in tokens : Dead(t)
            \/ /\ pc'[p] = "idle" \/ (pc'[p] = "lock" /\ op'[p] = "archive")
               /\ UNCHANGED <<flag, ops>>
<1>0. /\ pc[p] = "enter" /\ op[p] = "archive"
      /\ UNCHANGED <<faults, up, life, journals, records>>
  BY DEF TakeFlag
<1>1. CASE flag # NoFlag
  <2>1. LeaveCall(p) /\ UNCHANGED <<tokens, flag, ops>>
    BY <1>1 DEF TakeFlag
  <2>2. pc'[p] = "idle" /\ mutex' = {} /\ UNCHANGED rec
    BY <2>1 DEF LeaveCall, Return, Goto, TypeOK
  <2>. QED BY <1>0, <2>1, <2>2
<1>2. CASE flag = NoFlag
  <2>1. PICK unread, dead :
          /\ unread \in IF "token" \in faults THEN SUBSET tokens ELSE {{}}
          /\ dead \in ConfirmedDead(tokens \ unread)
          /\ \E gone \in Removed(dead) : tokens' = tokens \ gone
          /\ \/ /\ tokens \ (unread \cup dead) = {}
                /\ ops < MaxOps
                /\ ops' = ops + 1
                /\ \E s \in OwnStart(p), named \in BOOLEAN :
                     flag' = [id |-> ops + 1, pid |-> p, start |-> s, named |-> named]
                /\ job' = [job EXCEPT ![p] = ops + 1]
                /\ Goto(p, "plan")
                /\ UNCHANGED op
             \/ /\ Leave(p, "lock") \/ LeaveCall(p)
                /\ UNCHANGED <<flag, ops>>
    BY <1>2 DEF TakeFlag
  <2>2. dead \subseteq tokens \ unread /\ \A t \in dead : Dead(t)
    BY <2>1, ConfirmedAreDead
  <2>3. tokens' \subseteq tokens /\ \A t \in tokens \ tokens' : Dead(t)
    BY <2>1, <2>2, RemovedAreThose
  <2>4. mutex' = {} /\ rec' = rec
    BY <1>2 DEF TakeFlag, Leave, LeaveCall, Return
  <2>5. CASE (Leave(p, "lock") \/ LeaveCall(p)) /\ UNCHANGED <<flag, ops>>
    BY <1>0, <2>3, <2>4, <2>5 DEF Leave, LeaveCall, Return, Goto, TypeOK
  <2>6. CASE /\ tokens \ (unread \cup dead) = {} /\ ops < MaxOps /\ ops' = ops + 1
             /\ \E s \in OwnStart(p), named \in BOOLEAN :
                  flag' = [id |-> ops + 1, pid |-> p, start |-> s, named |-> named]
             /\ job' = [job EXCEPT ![p] = ops + 1]
             /\ Goto(p, "plan") /\ UNCHANGED op
    <3>1. "token" \notin faults => \A t \in tokens : Dead(t)
      BY <2>1, <2>2, <2>6
    <3>2. /\ pc'[p] = "plan" /\ op'[p] = "archive" /\ job'[p] = ops + 1
      BY <1>0, <2>6 DEF TypeOK, Goto
    <3>3. flag'.id = ops + 1 /\ flag'.pid = p /\ flag'.start \in OwnStart(p)
      BY <2>6
    <3>4. flag' \in Flags
      <4>1. ops + 1 \in Ops \ {0} /\ OwnStart(p) \subseteq Starts
        BY <2>6, LockAssumption, FlagShape DEF TypeOK, Ops, OwnStart
      <4>. QED BY <2>6, <4>1 DEF Flags
    <3>. QED BY <1>2, <1>0, <2>3, <2>4, <2>6, <3>1, <3>2, <3>3, <3>4
  <2>. QED BY <2>1, <2>5, <2>6
<1>. QED BY <1>1, <1>2

LEMMA TypeInit == Init => TypeOK
BY FlagShape DEF Init, TypeOK, Calls

LEMMA TypeNext == TypeOK /\ [Next]_vars => TypeOK'
<1> SUFFICES ASSUME TypeOK, [Next]_vars PROVE TypeOK'
  OBVIOUS
<1> USE FlagShape DEF procVars, fileVars
<1>1. CASE UNCHANGED vars
  BY <1>1 DEF TypeOK, vars
<1>2. ASSUME NEW p \in Procs, Start(p) PROVE TypeOK'
  BY <1>2, LockAssumption DEF TypeOK, Start, Starts
<1>3. ASSUME NEW p \in Procs, Die(p) PROVE TypeOK'
  BY <1>3 DEF TypeOK, Die, Forget, Goto, Calls
<1>4. ASSUME NEW p \in Procs, NEW call \in {"write", "clear"}, Call(p, call) PROVE TypeOK'
  BY <1>4 DEF TypeOK, Call, Ask, Goto, Calls
<1>5. ASSUME NEW p \in Procs, Execute(p) \/ Override(p) PROVE TypeOK'
  <2>1. CASE Execute(p)
    BY <2>1 DEF TypeOK, Execute, Goto
  <2>2. CASE Override(p)
    <3>1. <<"override", flag.id>> \in {"recovered", "refusal", "override"} \X Ops
      BY DEF TypeOK
    <3>. QED BY <2>2, <3>1 DEF TypeOK, Override, Goto
  <2>. QED BY <1>5, <2>1, <2>2
<1>6. ASSUME NEW p \in Procs, Lock(p) \/ LockTimeout(p) PROVE TypeOK'
  BY <1>6 DEF TypeOK, Lock, LockTimeout, Goto, Return, Calls, Critical
<1>7. ASSUME NEW p \in Procs, Inspect(p) PROVE TypeOK'
  BY <1>7 DEF TypeOK, Inspect, Goto, Critical, Judging
<1>8. ASSUME NEW p \in Procs, Judge(p) PROVE TypeOK'
  <2>1. rec[p].id \in Ops
    BY DEF TypeOK
  <2>2. PICK dead \in ConfirmedDead({rec[p]}) : 
          \/ Goto(p, "record") /\ UNCHANGED <<records, rec>>
          \/ /\ Forget(p, "enter")
             /\ records' \in {records, records \cup {<<"refusal", f.id>> : f \in dead}}
    BY <1>8 DEF Judge
  <2>3. {<<"refusal", f.id>> : f \in dead} \subseteq {"recovered", "refusal", "override"} \X Ops
    BY <2>1, ConfirmedAreDead
  <2>. QED BY <1>8, <2>2, <2>3 DEF TypeOK, Judge, Goto, Forget, Critical, Judging
<1>9. ASSUME NEW p \in Procs, Record(p) \/ Remove(p) PROVE TypeOK'
  <2>1. <<"recovered", rec[p].id>> \in {"recovered", "refusal", "override"} \X Ops
    BY DEF TypeOK
  <2>2. CASE Record(p)
    BY <2>1, <2>2 DEF TypeOK, Record, Goto, Forget, Critical, Judging
  <2>3. CASE Remove(p)
    BY <2>3 DEF TypeOK, Remove, Goto, Forget, Critical
  <2>. QED BY <1>9, <2>2, <2>3
<1>10. ASSUME NEW p \in Procs, TakeToken(p) PROVE TypeOK'
  BY <1>10 DEF TypeOK, TakeToken, Tokens, OwnStart, Leave, LeaveCall, Return, Goto, Calls
<1>11. ASSUME NEW p \in Procs, TakeFlag(p) PROVE TypeOK'
  <2>1. /\ faults' = faults /\ up' = up /\ life' = life /\ rec' = rec
        /\ journals' = journals /\ records' = records /\ mutex' = {}
        /\ tokens' \subseteq Tokens /\ flag' \in Flags \cup {NoFlag} /\ ops' \in Ops
    BY <1>11, TakeFlagEffect, LockAssumption DEF TypeOK, Ops
  <2>2. CASE LeaveCall(p) \/ Leave(p, "lock")
    BY <2>1, <2>2 DEF TypeOK, Leave, LeaveCall, Return, Goto, Calls
  <2>3. CASE /\ ops < MaxOps /\ job' = [job EXCEPT ![p] = ops + 1]
             /\ Goto(p, "plan") /\ UNCHANGED <<op, todo>>
    <3>1. ops + 1 \in Ops
      BY <2>3, LockAssumption DEF TypeOK, Ops
    <3>. QED BY <2>1, <2>3, <3>1 DEF TypeOK, Goto, Exclusive
  <2>. QED BY <1>11, <2>2, <2>3 DEF TakeFlag
<1>12. ASSUME NEW p \in Procs, ClearStale(p) \/ ReleaseFlag(p) PROVE TypeOK'
  BY <1>12 DEF TypeOK, ClearStale, ReleaseFlag, LeaveCall, Return, Goto, Calls
<1>13. ASSUME NEW p \in Procs, FinishWrite(p) PROVE TypeOK'
  BY <1>13 DEF TypeOK, FinishWrite, Return, Goto, Calls
<1>14. ASSUME NEW p \in Procs, Resume(p) PROVE TypeOK'
  BY <1>14 DEF TypeOK, Resume, Goto
<1>15. ASSUME NEW p \in Procs, FinishResume(p) \/ Acquire(p) PROVE TypeOK'
  BY <1>15 DEF TypeOK, FinishResume, Acquire, NextJournal, Return, Ask, Goto, Calls
<1>16. ASSUME NEW p \in Procs, Journal(p) \/ FinishMove(p) PROVE TypeOK'
  <2>0. job[p] \in Ops /\ journals \subseteq Ops
    BY DEF TypeOK
  <2>1. journals' \subseteq Ops
    BY <1>16, <2>0 DEF Journal, FinishMove
  <2>2. CASE Journal(p)
    BY <2>1, <2>2 DEF TypeOK, Journal, Ask, Goto, Calls, Exclusive
  <2>3. CASE FinishMove(p)
    BY <2>1, <2>3 DEF TypeOK, FinishMove, Ask, Goto, Calls
  <2>. QED BY <1>16, <2>2, <2>3
<1>17. ASSUME NEW p \in Procs, ForceClear(p) PROVE TypeOK'
  BY <1>17 DEF TypeOK, ForceClear, Return, Goto, Calls
<1>. QED
  BY <1>1, <1>2, <1>3, <1>4, <1>5, <1>6, <1>7, <1>8, <1>9, <1>10, <1>11, <1>12, <1>13,
     <1>14, <1>15, <1>16, <1>17 DEF Next, Step, Work

(* Every variable keeps its shape, for any processes, bounds and faults.    *)
THEOREM TypeCorrect == Spec => []TypeOK
BY TypeInit, TypeNext, PTL DEF Spec

(* A step of one process leaves the others where they are.                  *)
LEMMA Frame ==
  ASSUME TypeOK, NEW p \in Procs, Step(p), NEW x \in Procs, x # p
  PROVE  /\ up'[x] = up[x] /\ life'[x] = life[x]
         /\ pc'[x] = pc[x] /\ op'[x] = op[x] /\ job'[x] = job[x] /\ rec'[x] = rec[x]
<1> USE DEF TypeOK, Goto, Return, Forget, Ask, Leave, LeaveCall, NextJournal, procVars
<1>1. CASE Start(p) \/ Die(p) \/ Execute(p) \/ Override(p)
  BY <1>1 DEF Start, Die, Execute, Override
<1>2. CASE \E call \in {"write", "clear"} : Call(p, call)
  BY <1>2 DEF Call
<1>3. CASE Lock(p) \/ LockTimeout(p) \/ Inspect(p)
  BY <1>3 DEF Lock, LockTimeout, Inspect
<1>4. CASE Judge(p)
  BY <1>4 DEF Judge
<1>5. CASE Record(p) \/ Remove(p)
  BY <1>5 DEF Record, Remove
<1>6. CASE TakeToken(p)
  BY <1>6 DEF TakeToken
<1>7. CASE TakeFlag(p)
  BY <1>7 DEF TakeFlag
<1>8. CASE ClearStale(p) \/ ReleaseFlag(p) \/ FinishWrite(p)
  BY <1>8 DEF ClearStale, ReleaseFlag, FinishWrite
<1>9. CASE Resume(p) \/ FinishResume(p) \/ Acquire(p)
  BY <1>9 DEF Resume, FinishResume, Acquire
<1>10. CASE Journal(p) \/ FinishMove(p) \/ ForceClear(p)
  BY <1>10 DEF Journal, FinishMove, ForceClear
<1>. QED
  BY <1>1, <1>2, <1>3, <1>4, <1>5, <1>6, <1>7, <1>8, <1>9, <1>10 DEF Step, Work

(* The kernel lock: one holder, who is in the critical section, alive.      *)
LEMMA MutexNext ==
  ASSUME TypeOK, ProcInv, MutexInv, NEW p \in Procs, Step(p)
  PROVE  ProcInv' /\ MutexInv'
<1>1. MutexInv' /\ \A x \in Procs \ {p} : x \in mutex' <=> x \in mutex
  <2> USE DEF TypeOK, ProcInv, MutexInv, Critical, Judging, LeaveCall, Leave, procVars
  <2>1. CASE \/ Start(p) \/ Execute(p) \/ Override(p) \/ LockTimeout(p)
             \/ \E call \in {"write", "clear"} : Call(p, call)
    BY <2>1 DEF Start, Execute, Override, LockTimeout, Call
  <2>2. CASE Die(p) \/ Lock(p)
    BY <2>2 DEF Die, Lock
  <2>3. CASE Inspect(p) \/ Judge(p) \/ Record(p) \/ Remove(p)
    BY <2>3 DEF Inspect, Judge, Record, Remove
  <2>4. CASE TakeToken(p) \/ ClearStale(p) \/ ReleaseFlag(p)
    BY <2>4 DEF TakeToken, ClearStale, ReleaseFlag
  <2>5. CASE TakeFlag(p)
    BY <2>5, TakeFlagEffect
  <2>6. CASE FinishWrite(p) \/ Resume(p) \/ FinishResume(p) \/ Acquire(p)
             \/ Journal(p) \/ FinishMove(p) \/ ForceClear(p)
    BY <2>6 DEF FinishWrite, Resume, FinishResume, Acquire, Journal, FinishMove, ForceClear
  <2>. QED BY <2>1, <2>2, <2>3, <2>4, <2>5, <2>6 DEF Step, Work
<1>2. /\ pc'[p] # "idle" => up'[p]
      /\ pc'[p] \in Critical <=> p \in mutex'
      /\ pc'[p] = "override" => "override" \in faults
      /\ pc'[p] = "lock" => op'[p] \in Calls \ {"none"}
  <2> USE DEF TypeOK, ProcInv, MutexInv, Critical, Judging, Exclusive, Calls, LeaveCall,
              Leave, Goto, Return, Forget, Ask, NextJournal, procVars
  <2>1. CASE \/ Start(p) \/ Execute(p) \/ Override(p) \/ LockTimeout(p)
             \/ \E call \in {"write", "clear"} : Call(p, call)
    BY <2>1 DEF Start, Execute, Override, LockTimeout, Call
  <2>2. CASE Die(p) \/ Lock(p)
    BY <2>2 DEF Die, Lock
  <2>3. CASE Inspect(p) \/ Judge(p) \/ Record(p) \/ Remove(p)
    BY <2>3 DEF Inspect, Judge, Record, Remove
  <2>4. CASE TakeToken(p) \/ ClearStale(p) \/ ReleaseFlag(p)
    BY <2>4 DEF TakeToken, ClearStale, ReleaseFlag
  <2>5. CASE TakeFlag(p)
    BY <2>5, TakeFlagEffect
  <2>6. CASE FinishWrite(p) \/ Resume(p) \/ FinishResume(p) \/ Acquire(p)
             \/ Journal(p) \/ FinishMove(p) \/ ForceClear(p)
    BY <2>6 DEF FinishWrite, Resume, FinishResume, Acquire, Journal, FinishMove, ForceClear
  <2>. QED BY <2>1, <2>2, <2>3, <2>4, <2>5, <2>6 DEF Step, Work
<1>3. ASSUME NEW x \in Procs, x # p
      PROVE  /\ pc'[x] # "idle" => up'[x]
             /\ pc'[x] \in Critical <=> x \in mutex'
             /\ pc'[x] = "override" => "override" \in faults
             /\ pc'[x] = "lock" => op'[x] \in Calls \ {"none"}
  BY <1>1, <1>3, Frame DEF ProcInv
<1>. QED BY <1>1, <1>2, <1>3, FaultsStay DEF ProcInv

(* A judgement adds at most a refusal for the flag that was judged, and     *)
(* goes on only when that flag's owner is dead.                             *)
LEMMA JudgeEffect ==
  ASSUME TypeOK, NEW p \in Procs, Judge(p)
  PROVE  /\ records \subseteq records'
         /\ \A r \in records' \ records : r = <<"refusal", rec[p].id>>
         /\ \/ pc'[p] = "record" /\ Dead(rec[p]) /\ rec' = rec
            \/ pc'[p] = "enter" /\ rec' = [rec EXCEPT ![p] = NoFlag]
<1>1. PICK dead \in ConfirmedDead({rec[p]}) :
        \/ dead # {} /\ Goto(p, "record") /\ UNCHANGED <<records, rec>>
        \/ /\ Forget(p, "enter")
           /\ records' \in {records, records \cup {<<"refusal", f.id>> : f \in dead}}
  BY DEF Judge
<1>2. dead \subseteq {rec[p]} /\ (dead # {} => Dead(rec[p]))
  BY ConfirmedAreDead
<1>3. {<<"refusal", f.id>> : f \in dead} \subseteq {<<"refusal", rec[p].id>>}
  BY <1>2
<1>. QED BY <1>1, <1>2, <1>3 DEF TypeOK, Goto, Forget

(* Lives and operations only grow, so owners and numbers on file stay in    *)
(* the past.                                                                *)
LEMMA PastNext ==
  ASSUME TypeOK, PastInv, NEW p \in Procs, Step(p)
  PROVE  PastInv'
<1> USE FlagShape DEF PastInv
<1>0. ops \in Nat /\ (\A x \in Procs : life[x] \in Nat /\ rec[x].id \in Nat)
      /\ (flag # NoFlag => flag \in Flags)
      /\ (\A t \in tokens : t.pid \in Procs /\ t.life \in Nat /\ t.start \in Nat)
  BY DEF TypeOK, Tokens
<1>1. CASE Start(p)
  <2>1. \A x \in Procs : life'[x] \in Nat /\ life[x] <= life'[x]
    BY <1>0, <1>1 DEF Start, TypeOK
  <2>2. UNCHANGED <<rec, tokens, flag, records, ops>>
    BY <1>1 DEF Start, fileVars
  <2>3. ASSUME NEW t \in tokens PROVE t.life <= life'[t.pid]
    <3>1. t.pid \in Procs /\ t.life \in Nat /\ t.life <= life[t.pid]
      BY <1>0
    <3>. QED BY <1>0, <2>1, <3>1
  <2>4. ASSUME flag # NoFlag PROVE flag.start <= life'[flag.pid]
    <3>1. flag.pid \in Procs /\ flag.start \in Nat /\ flag.start <= life[flag.pid]
      BY <1>0, <2>4
    <3>. QED BY <1>0, <2>1, <3>1
  <2>. QED BY <2>2, <2>3, <2>4
<1>2. CASE \/ Execute(p) \/ Lock(p) \/ LockTimeout(p) \/ ClearStale(p) \/ Resume(p)
           \/ Acquire(p) \/ \E call \in {"write", "clear"} : Call(p, call)
  <2>1. UNCHANGED <<life, rec, fileVars, ops>>
    BY <1>2 DEF Execute, Lock, LockTimeout, ClearStale, Resume, Acquire, Call, Return, Ask,
                LeaveCall, procVars
  <2>. QED BY <2>1 DEF fileVars
<1>3. CASE FinishResume(p) \/ Journal(p) \/ FinishMove(p)
  <2>1. UNCHANGED <<life, rec, tokens, flag, records, ops>>
    BY <1>3 DEF FinishResume, Journal, FinishMove, NextJournal, Return
  <2>. QED BY <2>1
<1>4. CASE Die(p) \/ Inspect(p)
  <2>1. UNCHANGED <<life, fileVars, ops>> /\ \A x \in Procs : rec'[x] \in {rec[x], flag, NoFlag}
    BY <1>4 DEF Die, Inspect, Forget, TypeOK
  <2>. QED BY <1>0, <2>1 DEF fileVars
<1>5. CASE Judge(p)
  <2>1. UNCHANGED <<life, tokens, flag, ops>> /\ \A x \in Procs : rec'[x] \in {rec[x], NoFlag}
    BY <1>5, JudgeEffect DEF Judge, TypeOK
  <2>2. \A r \in records' \ records : r = <<"refusal", rec[p].id>>
    BY <1>5, JudgeEffect
  <2>. QED BY <1>0, <2>1, <2>2
<1>6. CASE Record(p) \/ Override(p)
  <2>1. UNCHANGED <<life, tokens, flag, ops>> /\ \A x \in Procs : rec'[x] \in {rec[x], NoFlag}
    BY <1>6 DEF Record, Override, Forget, TypeOK
  <2>2. \A r \in records' \ records :
          r \in {<<"recovered", rec[p].id>>} \/ (r = <<"override", flag.id>> /\ flag # NoFlag)
    BY <1>6 DEF Record, Override
  <2>. QED BY <1>0, <2>1, <2>2
<1>7. CASE Remove(p) \/ ReleaseFlag(p) \/ ForceClear(p)
  <2>1. /\ UNCHANGED <<life, tokens, records, ops>> /\ flag' \in {flag, NoFlag}
        /\ \A x \in Procs : rec'[x] \in {rec[x], NoFlag}
    BY <1>7 DEF Remove, ReleaseFlag, ForceClear, Forget, LeaveCall, Return, TypeOK
  <2>. QED BY <1>0, <2>1
<1>8. CASE FinishWrite(p)
  <2>1. UNCHANGED <<life, rec, flag, records, ops>> /\ tokens' \subseteq tokens
    BY <1>8 DEF FinishWrite, Return
  <2>. QED BY <2>1
<1>10. CASE TakeToken(p)
  <2>1. UNCHANGED <<life, rec, flag, records, ops>>
    BY <1>10 DEF TakeToken, Leave, LeaveCall, Return
  <2>2. ASSUME NEW t \in tokens'
        PROVE  t \in tokens \/ (t.pid = p /\ t.life = life[p] /\ t.start \in {0, life[p]})
    BY <1>10 DEF TakeToken, OwnStart
  <2>3. ASSUME NEW t \in tokens' PROVE t.start \in {0, t.life} /\ t.life <= life[t.pid]
    BY <1>0, <2>2
  <2>. QED BY <2>1, <2>3
<1>9. CASE TakeFlag(p)
  <2>1. OwnStart(p) \subseteq {0, life[p]}
    BY DEF OwnStart
  <2>2. /\ UNCHANGED <<life, rec, records>> /\ tokens' \subseteq tokens
        /\ ops' \in {ops, ops + 1}
    BY <1>9, TakeFlagEffect
  <2>3. flag' # NoFlag => flag'.start <= life'[flag'.pid] /\ flag'.id <= ops'
    BY <1>0, <1>9, <2>1, TakeFlagEffect
  <2>4. \A r \in records : r[2] \in Nat
    BY DEF TypeOK
  <2>. QED BY <1>0, <2>2, <2>3, <2>4
<1>. QED
  BY <1>1, <1>2, <1>3, <1>4, <1>5, <1>6, <1>7, <1>8, <1>9, <1>10 DEF Step, Work

(* Tokens tell the truth, and a writer keeps its own.                       *)
LEMMA TokenNext ==
  ASSUME TypeOK, ProcInv, PastInv, TokenInv, NEW p \in Procs, Step(p)
  PROVE  TokenInv'
<1> SUFFICES ASSUME "start" \notin faults, NEW x \in Procs
             PROVE  /\ \A t \in tokens' : t.start = t.life
                    /\ pc'[x] = "write" =>
                         [pid |-> x, life |-> life'[x], start |-> life'[x]] \in tokens'
  BY FaultsStay DEF TokenInv
<1> DEFINE Own(y) == [pid |-> y, life |-> life[y], start |-> life[y]]
<1>0. /\ \A t \in tokens : t.start = t.life
      /\ \A y \in Procs : pc[y] = "write" => up[y] /\ Own(y) \in tokens
  BY DEF TokenInv, ProcInv
<1>1. CASE TakeToken(p)
  <2>1. OwnStart(p) = {life[p]}
    BY DEF OwnStart
  <2>2. life' = life /\ (tokens' = tokens \/ tokens' = tokens \cup {Own(p)})
        /\ (pc'[p] = "write" => Own(p) \in tokens')
    BY <1>1, <2>1 DEF TakeToken, Leave, LeaveCall, Return, Goto, TypeOK
  <2>. QED BY <1>0, <1>1, <2>2, Frame DEF Step, Work
<1>2. CASE TakeFlag(p)
  <2>1. life' = life /\ up' = up /\ pc'[p] # "write" /\ tokens' \subseteq tokens
        /\ \A t \in tokens \ tokens' : Dead(t)
    BY <1>2, TakeFlagEffect
  <2>2. \A y \in Procs : up[y] => ~Dead(Own(y))
    BY DEF Dead
  <2>. QED BY <1>0, <1>2, <2>1, <2>2, Frame DEF Step, Work
<1>3. CASE FinishWrite(p)
  <2>1. /\ life' = life /\ tokens' \subseteq tokens /\ pc'[p] # "write"
        /\ \A t \in tokens \ tokens' : t.pid = p
    BY <1>3, RemovedAreThose DEF FinishWrite, Return, Goto, TypeOK
  <2>. QED BY <1>0, <1>3, <2>1, Frame DEF Step, Work
<1>4. CASE ~TakeToken(p) /\ ~TakeFlag(p) /\ ~FinishWrite(p)
  <2>1. tokens' = tokens
    BY <1>4 DEF Step, Work, Start, Die, Call, Execute, Override, Lock, LockTimeout, Inspect,
                Judge, Record, Remove, ClearStale, ReleaseFlag, Resume, FinishResume,
                Acquire, Journal, FinishMove, ForceClear, fileVars
  <2>2. pc'[p] = "write" => pc[p] = "write" /\ life'[p] = life[p]
    <3>1. CASE Judge(p)
      BY <3>1, JudgeEffect
    <3>2. CASE Start(p)
      BY <3>2 DEF Start, ProcInv
    <3>3. CASE ~Judge(p) /\ ~Start(p)
      BY <1>4, <3>3 DEF Step, Work, Die, Call, Execute, Override, Lock, LockTimeout, Inspect,
                  Record, Remove, ClearStale, ReleaseFlag, Resume, FinishResume, Acquire,
                  Journal, FinishMove, ForceClear, Goto, Return, Forget, Ask, LeaveCall,
                  NextJournal, TypeOK
    <3>. QED BY <3>1, <3>2, <3>3
  <2>. QED BY <1>0, <2>1, <2>2, Frame
<1>. QED BY <1>1, <1>2, <1>3, <1>4

(* Where a step takes the process that makes it: into the work under a      *)
(* flag, into a judgement, or to writing.                                   *)
LEMMA Entry ==
  ASSUME TypeOK, ProcInv, NEW p \in Procs, Step(p)
  PROVE  /\ Holding(p)' => \/ /\ Holding(p) /\ job'[p] = job[p] /\ life'[p] = life[p]
                              /\ pc'[p] \in Exclusive => pc[p] \in Exclusive
                           \/ TakeFlag(p) /\ pc'[p] = "plan"
         /\ pc'[p] \in Judging =>
              \/ /\ Inspect(p) /\ pc'[p] \in {"judge", "judge_held"}
                 /\ flag # NoFlag /\ rec'[p] = flag
              \/ Judge(p) /\ pc'[p] = "record" /\ rec'[p] = rec[p]
              \/ Record(p) /\ pc'[p] = "remove" /\ rec'[p] = rec[p]
         /\ pc'[p] = "write" => pc[p] = "write" \/ (TakeToken(p) /\ flag = NoFlag)
<1> USE DEF Holding, Judging, Exclusive
<1>1. CASE Start(p)
  BY <1>1 DEF Start, ProcInv
<1>2. CASE Judge(p)
  <2>1. \/ pc'[p] = "record" /\ rec'[p] = rec[p]
        \/ pc'[p] = "enter"
    BY <1>2, JudgeEffect
  <2>. QED BY <1>2, <2>1
<1>3. CASE TakeFlag(p)
  BY <1>3, TakeFlagEffect
<1>4. CASE Inspect(p)
  <2>1. /\ rec'[p] = flag
        /\ \/ flag # NoFlag /\ pc'[p] \in {"judge", "judge_held"}
           \/ pc'[p] = "enter"
    BY <1>4 DEF Inspect, Goto, TypeOK
  <2>. QED BY <1>4, <2>1
<1>11. CASE Record(p)
  BY <1>11 DEF Record, Goto, Forget, TypeOK
<1>12. CASE Remove(p)
  BY <1>12 DEF Remove, Forget, Goto, TypeOK
<1>5. CASE TakeToken(p)
  BY <1>5 DEF TakeToken, Goto, Return, Leave, LeaveCall, TypeOK
<1>6. CASE Execute(p) \/ Override(p)
  BY <1>6 DEF Execute, Override, Goto, TypeOK
<1>13. CASE Die(p)
  BY <1>13 DEF Die, Goto, Forget, TypeOK
<1>14. CASE \E call \in {"write", "clear"} : Call(p, call)
  BY <1>14 DEF Call, Goto, Ask, TypeOK
<1>7. CASE Lock(p) \/ LockTimeout(p)
  BY <1>7 DEF Lock, LockTimeout, Goto, Return, TypeOK
<1>8. CASE ClearStale(p) \/ ReleaseFlag(p) \/ FinishWrite(p) \/ ForceClear(p)
  BY <1>8 DEF ClearStale, ReleaseFlag, FinishWrite, ForceClear, Goto, Return, LeaveCall, TypeOK
<1>9. CASE Resume(p) \/ FinishResume(p) \/ Acquire(p)
  BY <1>9 DEF Resume, FinishResume, Acquire, NextJournal, Goto, Return, Ask, TypeOK
<1>10. CASE Journal(p) \/ FinishMove(p)
  BY <1>10 DEF Journal, FinishMove, Goto, Ask, TypeOK
<1>. QED
  BY <1>1, <1>2, <1>3, <1>4, <1>5, <1>6, <1>7, <1>8, <1>9, <1>10, <1>11, <1>12, <1>13,
     <1>14 DEF Step, Work

(* Without an override the flag changes in three ways only.                 *)
LEMMA FlagChange ==
  ASSUME TypeOK, ProcInv, Expected, NEW p \in Procs, Step(p), flag' # flag
  PROVE  \/ Remove(p) /\ flag' = NoFlag
         \/ ReleaseFlag(p) /\ flag.id = job[p] /\ flag' = NoFlag
         \/ TakeFlag(p) /\ flag = NoFlag /\ pc'[p] = "plan"
<1>1. ~ForceClear(p)
  BY DEF ForceClear, ProcInv, Expected
<1>2. CASE TakeFlag(p)
  BY <1>2, TakeFlagEffect
<1>3. CASE Remove(p) \/ ReleaseFlag(p)
  BY <1>3 DEF Remove, ReleaseFlag
<1>4. CASE ~TakeFlag(p) /\ ~Remove(p) /\ ~ReleaseFlag(p)
  BY <1>1, <1>4 DEF Step, Work, Start, Die, Call, Execute, Override, Lock, LockTimeout,
     Inspect, Judge, Record, TakeToken, ClearStale, FinishWrite, Resume, FinishResume,
     Acquire, Journal, FinishMove, fileVars
<1>. QED BY <1>2, <1>3, <1>4

(* The records only grow; a recovery is recorded by Record alone.           *)
LEMMA RecordChange ==
  ASSUME TypeOK, NEW p \in Procs, Step(p)
  PROVE  /\ records \subseteq records'
         /\ \A n : <<"recovered", n>> \in records' \ records => Record(p) /\ n = rec[p].id
<1>1. CASE Judge(p)
  BY <1>1, JudgeEffect
<1>2. CASE Record(p) \/ Override(p)
  BY <1>2 DEF Record, Override
<1>3. CASE TakeFlag(p)
  BY <1>3, TakeFlagEffect
<1>4. CASE ~Judge(p) /\ ~Record(p) /\ ~Override(p) /\ ~TakeFlag(p)
  BY <1>4 DEF Step, Work, Start, Die, Call, Execute, Lock, LockTimeout, Inspect, Remove,
     TakeToken, ClearStale, ReleaseFlag, FinishWrite, Resume, FinishResume, Acquire, Journal,
     FinishMove, ForceClear, fileVars
<1>. QED BY <1>1, <1>2, <1>3, <1>4

(* A dead owner stays dead: its pid comes back with another start time.     *)
LEMMA DeadStays ==
  ASSUME TypeOK, PastInv, NEW p \in Procs, Step(p), flag # NoFlag, Dead(flag), flag' = flag
  PROVE  Dead(flag)'
<1>1. flag.pid \in Procs /\ flag.start \in Nat /\ life[flag.pid] \in Nat
      /\ flag.start <= life[flag.pid]
  BY FlagShape DEF TypeOK, PastInv
<1>2. CASE Start(p)
  BY <1>1, <1>2 DEF Start, Dead, TypeOK
<1>3. CASE ~Start(p)
  <2>1. life' = life /\ (up'[flag.pid] => up[flag.pid])
    BY <1>1, <1>3, TakeFlagEffect DEF Step, Work, Die, Call, Execute, Override, Lock, LockTimeout,
       Inspect, Judge, Record, Remove, TakeToken, ClearStale, ReleaseFlag, FinishWrite,
       Resume, FinishResume, Acquire, Journal, FinishMove, ForceClear, TypeOK, procVars
  <2>. QED BY <2>1 DEF Dead
<1>. QED BY <1>2, <1>3

(* No flag whose owner works under it is removed or replaced by another.    *)
LEMMA OwnedFlagStays ==
  ASSUME TypeOK, ProcInv, JudgeInv, FlagInv, Expected, NEW p \in Procs, Step(p),
         NEW x \in Procs, Holding(x), flag' # flag
  PROVE  x = p /\ pc[p] = "unflag"
<1>1. /\ flag # NoFlag /\ flag.id = job[x] /\ flag.pid = x /\ flag.start = life[x]
      /\ up[x] /\ ~Dead(flag)
  BY DEF FlagInv, ProcInv, Holding, Exclusive, Dead
<1>2. ~Remove(p)
  BY <1>1 DEF Remove, JudgeInv, Judging
<1>3. ReleaseFlag(p)
  BY <1>1, <1>2, FlagChange
<1>4. Holding(p)
  BY <1>3 DEF ReleaseFlag, Holding
<1>. QED BY <1>1, <1>3, <1>4 DEF FlagInv, ReleaseFlag

LEMMA FlagNext ==
  ASSUME TypeOK, ProcInv, MutexInv, PastInv, TokenInv, JudgeInv, FlagInv, Expected,
         NEW p \in Procs, Step(p)
  PROVE  FlagInv'
<1>1. ASSUME NEW x \in Procs, Holding(x)'
      PROVE  /\ flag' # NoFlag /\ flag'.id = job'[x]
             /\ flag'.pid = x /\ flag'.start = life'[x]
  <2>1. CASE x = p /\ TakeFlag(p) /\ pc'[p] = "plan"
    <3>1. OwnStart(p) = {life[p]}
      BY DEF OwnStart, Expected
    <3>2. /\ flag' # flag \/ flag' = flag
          /\ pc'[p] = "plan" => flag' \in Flags /\ flag'.pid = p
               /\ flag'.start \in OwnStart(p) /\ flag'.id = job'[p] /\ life' = life
      BY <2>1, TakeFlagEffect
    <3>. QED BY <2>1, <3>1, <3>2, FlagShape
  <2>2. CASE ~(x = p /\ TakeFlag(p) /\ pc'[p] = "plan")
    <3>1. Holding(x) /\ job'[x] = job[x] /\ life'[x] = life[x]
      <4>1. CASE x = p
        BY <1>1, <2>2, <4>1, Entry
      <4>2. CASE x # p
        BY <1>1, <4>2, Frame DEF Holding
      <4>. QED BY <4>1, <4>2
    <3>2. flag' = flag
      <4>1. SUFFICES ASSUME flag' # flag PROVE FALSE
        OBVIOUS
      <4>2. x = p /\ pc[p] = "unflag"
        BY <3>1, <4>1, OwnedFlagStays
      <4>3. ReleaseFlag(p)
        BY <4>1, <4>2, FlagChange DEF Remove, TakeFlag
      <4>4. pc'[p] = "idle"
        BY <4>3 DEF ReleaseFlag, LeaveCall, Return, Goto, TypeOK
      <4>. QED BY <1>1, <4>2, <4>4 DEF Holding, Exclusive
    <3>. QED BY <3>1, <3>2 DEF FlagInv
  <2>. QED BY <2>1, <2>2
<1>2. ASSUME flag' # NoFlag, NEW x \in Procs PROVE pc'[x] # "write"
  <2>1. CASE flag' = flag
    <3>1. pc[x] # "write"
      BY <1>2, <2>1 DEF FlagInv
    <3>2. x # p => pc'[x] = pc[x]
      BY Frame
    <3>3. x = p => pc'[x] # "write"
      BY <1>2, <2>1, <3>1, Entry
    <3>. QED BY <3>1, <3>2, <3>3
  <2>2. CASE flag' # flag
    <3>1. TakeFlag(p) /\ pc'[p] = "plan" /\ flag = NoFlag
      BY <1>2, <2>2, FlagChange
    <3>2. \A t \in tokens : Dead(t)
      BY <3>1, TakeFlagEffect DEF Expected
    <3>3. pc[x] # "write"
      <4>1. SUFFICES ASSUME pc[x] = "write" PROVE FALSE
        OBVIOUS
      <4>2. [pid |-> x, life |-> life[x], start |-> life[x]] \in tokens /\ up[x]
        BY <4>1 DEF TokenInv, ProcInv, Expected
      <4>3. ~Dead([pid |-> x, life |-> life[x], start |-> life[x]])
        BY <4>2 DEF Dead
      <4>. QED BY <3>2, <4>2, <4>3
    <3>. QED BY <3>1, <3>3, Frame
  <2>. QED BY <2>1, <2>2
<1>. QED BY <1>1, <1>2 DEF FlagInv

LEMMA JudgeNext ==
  ASSUME TypeOK, ProcInv, MutexInv, PastInv, JudgeInv, FlagInv, Expected,
         NEW p \in Procs, Step(p)
  PROVE  JudgeInv'
<1> SUFFICES ASSUME NEW x \in Procs, pc'[x] \in Judging
             PROVE  /\ flag' # NoFlag /\ rec'[x] = flag'
                    /\ pc'[x] \in {"record", "remove"} => Dead(flag)'
                    /\ pc'[x] = "remove" => <<"recovered", flag'.id>> \in records'
  BY DEF JudgeInv
<1>1. CASE x = p
  <2>1. flag' = flag
    BY <1>1, Entry, FlagChange DEF Remove, ReleaseFlag, TakeFlag, Inspect, Judge, Record
  <2>2. CASE Inspect(p) /\ pc'[p] \in {"judge", "judge_held"} /\ flag # NoFlag /\ rec'[p] = flag
    BY <1>1, <2>1, <2>2
  <2>3. CASE Judge(p) /\ pc'[p] = "record" /\ rec'[p] = rec[p]
    <3>1. rec[p] = flag /\ flag # NoFlag
      BY <2>3 DEF Judge, JudgeInv, Judging
    <3>2. Dead(flag)
      BY <2>3, <3>1, JudgeEffect
    <3>. QED BY <1>1, <2>1, <2>3, <3>1, <3>2, DeadStays
  <2>4. CASE Record(p) /\ pc'[p] = "remove" /\ rec'[p] = rec[p]
    <3>1. rec[p] = flag /\ flag # NoFlag /\ Dead(flag)
      BY <2>4 DEF Record, JudgeInv, Judging
    <3>2. <<"recovered", flag.id>> \in records'
      BY <2>4, <3>1 DEF Record, Goto, Forget, TypeOK
    <3>. QED BY <1>1, <2>1, <2>4, <3>1, <3>2, DeadStays
  <2>. QED BY <1>1, <2>2, <2>3, <2>4, Entry
<1>2. CASE x # p
  <2>1. pc'[x] = pc[x] /\ rec'[x] = rec[x] /\ pc[x] \in Judging
    BY <1>2, Frame
  <2>2. x \in mutex /\ flag # NoFlag /\ rec[x] = flag
        /\ (pc[x] \in {"record", "remove"} => Dead(flag))
        /\ (pc[x] = "remove" => <<"recovered", flag.id>> \in records)
    BY <2>1 DEF ProcInv, Critical, JudgeInv
  <2>3. p \notin mutex /\ pc[p] \notin Critical
    BY <1>2, <2>2 DEF ProcInv, MutexInv
  <2>4. flag' = flag
    BY <2>2, <2>3, FlagChange DEF Remove, ReleaseFlag, TakeFlag, Critical, Judging
  <2>. QED BY <2>1, <2>2, <2>4, DeadStays, RecordChange
<1>. QED BY <1>1, <1>2

LEMMA RecordNext ==
  ASSUME TypeOK, ProcInv, PastInv, JudgeInv, FlagInv, RecordInv, Expected,
         NEW p \in Procs, Step(p)
  PROVE  RecordInv'
<1> SUFFICES ASSUME NEW x \in Procs, pc'[x] \in Exclusive
             PROVE  <<"recovered", job'[x]>> \notin records'
  BY DEF RecordInv
<1>1. CASE x = p /\ TakeFlag(p) /\ pc'[p] = "plan"
  <2>1. job'[p] = ops + 1 /\ records' = records
    BY <1>1, TakeFlagEffect
  <2>2. ops + 1 > ops /\ \A r \in records : r[2] <= ops
    BY FlagShape DEF TypeOK, PastInv
  <2>3. <<"recovered", ops + 1>> \notin records
    BY <2>2, FlagShape DEF TypeOK
  <2>. QED BY <1>1, <2>1, <2>3
<1>2. CASE ~(x = p /\ TakeFlag(p) /\ pc'[p] = "plan")
  <2>1. pc[x] \in Exclusive /\ job'[x] = job[x]
    <3>1. Holding(x)'
      BY DEF Holding
    <3>. QED BY <1>2, <3>1, Entry, Frame
  <2>2. <<"recovered", job[x]>> \notin records
    BY <2>1 DEF RecordInv
  <2>3. SUFFICES ASSUME Record(p), job[x] = rec[p].id PROVE FALSE
    BY <2>1, <2>2, RecordChange
  <2>4. flag.pid = x /\ flag.start = life[x] /\ up[x]
    BY <2>1 DEF FlagInv, Holding, ProcInv, Exclusive
  <2>5. Dead(flag)
    BY <2>3 DEF Record, JudgeInv, Judging
  <2>. QED BY <2>4, <2>5 DEF Dead
<1>. QED BY <1>1, <1>2

------------------------------------------------------------------------------
LEMMA LockInit == Init => LockInv
BY TypeInit, FlagShape DEF Init, LockInv, CoreInv, ProcInv, MutexInv, PastInv, TokenInv,
   JudgeInv, FlagInv, RecordInv, Holding, Judging, Critical, Exclusive

LEMMA LockNext == LockInv /\ [Next]_vars => LockInv'
<1> SUFFICES ASSUME LockInv, [Next]_vars PROVE LockInv'
  OBVIOUS
<1>1. CASE UNCHANGED vars
  BY <1>1 DEF vars, procVars, fileVars, LockInv, CoreInv, TypeOK, ProcInv, MutexInv, PastInv,
              TokenInv, JudgeInv, FlagInv, RecordInv, Expected, Holding, Dead
<1>2. ASSUME NEW p \in Procs, Step(p) PROVE LockInv'
  <2>1. CoreInv'
    BY <1>2, TypeNext, MutexNext, PastNext, TokenNext DEF LockInv, CoreInv
  <2>2. Expected' <=> Expected
    BY <1>2, FaultsStay DEF Expected
  <2>3. Expected => JudgeInv' /\ FlagInv' /\ RecordInv'
    BY <1>2, JudgeNext, FlagNext, RecordNext DEF LockInv, CoreInv
  <2>. QED BY <2>1, <2>2, <2>3 DEF LockInv
<1>. QED BY <1>1, <1>2 DEF Next

(* No writer runs while an archive operation works under its flag, and no   *)
(* two of those run together.                                               *)
THEOREM ArchiveExcludes == Spec => []MutualExclusion
<1>1. LockInv => MutualExclusion
  <2> SUFFICES ASSUME LockInv, Expected, NEW p \in Procs, NEW q \in Procs,
                      pc[p] \in Exclusive, pc[q] \in Exclusive \cup {"write"}
               PROVE  p = q
    BY DEF MutualExclusion
  <2>1. flag # NoFlag /\ flag.pid = p
    BY DEF LockInv, FlagInv, Holding
  <2>. QED BY <2>1 DEF LockInv, FlagInv, Holding
<1>. QED BY <1>1, LockInit, LockNext, PTL DEF Spec

(* Where start times can be read, the token of a live writer outlasts every *)
(* attempt at the flag.                                                     *)
THEOREM LiveTokensStay ==
  ASSUME \A F \in FaultSets : "start" \notin F
  PROVE  Spec => NoLiveTokenSwept
<1>1. LockInv /\ [Next]_vars =>
        [\A p \in Procs : pc[p] = "write" /\ pc'[p] = "write"
          => \A t \in tokens : t.pid = p /\ t.life = life[p] => t \in tokens']_vars
  <2> SUFFICES ASSUME LockInv, NEW q \in Procs, Step(q), NEW p \in Procs,
                      pc[p] = "write", pc'[p] = "write", NEW t \in tokens,
                      t.pid = p, t.life = life[p], t \notin tokens'
               PROVE  FALSE
    BY DEF Next
  <2>1. TypeOK /\ up[p] /\ t.start = life[p] /\ ~Dead(t)
    BY DEF LockInv, CoreInv, TypeOK, ProcInv, TokenInv, Dead
  <2>2. ~TakeFlag(q)
    BY <2>1, TakeFlagEffect
  <2>3. ~FinishWrite(q)
    BY <2>1, RemovedAreThose DEF FinishWrite, Return, Goto, TypeOK
  <2>4. ~TakeToken(q)
    BY DEF TakeToken
  <2>. QED BY <2>2, <2>3, <2>4 DEF Step, Work, Start, Die, Call, Execute, Override, Lock,
     LockTimeout, Inspect, Judge, Record, Remove, ClearStale, ReleaseFlag, Resume,
     FinishResume, Acquire, Journal, FinishMove, ForceClear, fileVars
<1>. QED BY <1>1, LockInit, LockNext, PTL DEF Spec, NoLiveTokenSwept

(* No recovery takes the flag from the operation that works under it.       *)
THEOREM FlagOutlastsWork == Spec => NeverPreempted
<1>1. LockInv /\ [Next]_vars => [Expected => ~Preempted]_vars
  <2> SUFFICES ASSUME LockInv, Expected, NEW p \in Procs, Step(p), NEW x \in Procs,
                      pc[x] \in Exclusive, flag' # flag
               PROVE  FALSE
    BY DEF Next, Preempted
  <2>1. Holding(x)
    BY DEF Holding
  <2>. QED BY <2>1, OwnedFlagStays DEF LockInv, CoreInv, Exclusive
<1>. QED BY <1>1, LockInit, LockNext, PTL DEF Spec, NeverPreempted

(* A flag goes away by its owner's release or after a record of its         *)
(* recovery.                                                                *)
THEOREM RecoveryIsRecorded == Spec => EvidenceFirst
<1>1. LockInv /\ [Next]_vars =>
        [Expected /\ flag # NoFlag /\ flag' # flag
          => \/ <<"recovered", flag.id>> \in records
             \/ \E p \in Procs : pc[p] = "unflag" /\ job[p] = flag.id]_vars
  <2> SUFFICES ASSUME LockInv, Expected, NEW p \in Procs, Step(p), flag # NoFlag, flag' # flag
               PROVE  \/ <<"recovered", flag.id>> \in records
                      \/ \E x \in Procs : pc[x] = "unflag" /\ job[x] = flag.id
    BY DEF Next
  <2>1. Remove(p) \/ (ReleaseFlag(p) /\ flag.id = job[p])
    BY FlagChange DEF LockInv, CoreInv
  <2>2. CASE Remove(p)
    BY <2>2 DEF Remove, LockInv, JudgeInv, Judging
  <2>3. CASE ReleaseFlag(p) /\ flag.id = job[p]
    BY <2>3 DEF ReleaseFlag
  <2>. QED BY <2>1, <2>2, <2>3
<1>. QED BY <1>1, LockInit, LockNext, PTL DEF Spec, EvidenceFirst

(* An operation that a recovery record names is over.                       *)
THEOREM RecordsAreTrue == Spec => []RecoveredIsOver
<1>1. LockInv => RecoveredIsOver
  BY DEF LockInv, RecordInv, RecoveredIsOver
<1>. QED BY <1>1, LockInit, LockNext, PTL DEF Spec
==============================================================================
