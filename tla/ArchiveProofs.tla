---------------------------- MODULE ArchiveProofs ----------------------------
(* Proofs about the archive, for any processes, files, records and bounds.  *)
EXTENDS Archive, TLAPS

------------------------------------------------------------------------------
(* Type correctness.                                                        *)

Labels == {"idle", "recover", "plan", "acquire", "fresh", "look", "hash",
           "rename", "verify", "manifest", "merge", "close"}

(* A process that works on an operation knows which.                        *)
Working == {"fresh", "look", "hash", "rename", "verify", "manifest", "close"}
TypeInv == TypeOK /\ \A p \in Procs : pc[p] \in Working => op[p] \in Ops

LEMMA PlanNowType == TypeOK => PlanNow \in Plans
BY ArchiveAssumption DEF TypeOK, PlanNow, Plans, Versions

LEMMA EntriesType == \A pl \in Plans : Entries(pl) \subseteq Files
BY DEF Entries, Plans

LEMMA FirstIn == \A S : First(S) \subseteq S
BY DEF First

LocalTypes ==
  /\ pc \in [Procs -> Labels]
  /\ op \in [Procs -> Ops \cup {0}]
  /\ todo \in [Procs -> SUBSET Ops]
  /\ plan \in [Procs -> Plans]
  /\ left \in [Procs -> SUBSET Files] /\ idx \in [Procs -> SUBSET Files]
  /\ flag \in Ops \cup {0} /\ holds \subseteq Procs
  /\ \A p \in Procs : pc[p] \in Working => op[p] \in Ops

StoreTypes ==
  /\ setup \in Setups
  /\ active \in Plans /\ archived \in Plans /\ written \in Plans
  /\ eligible \subseteq Records /\ pinned \subseteq Records
  /\ approvals \in Seq(Approvals)
  /\ journals \in [Ops -> Journals]
  /\ log \in [Ops -> SUBSET Files]
  /\ manifest \subseteq Ops /\ index \subseteq Files

LEMMA TwoTypes == TypeInv <=> LocalTypes /\ StoreTypes
BY DEF TypeInv, TypeOK, LocalTypes, StoreTypes, Labels

LEMMA NoPlanType == NoPlan \in Plans
BY ArchiveAssumption DEF NoPlan, Plans, Versions

(* The end of a call, and the way on to the next journal.                   *)
LEMMA ReturnType ==
  ASSUME LocalTypes, NEW p \in Procs, Return(p)
  PROVE  LocalTypes'
<1> USE DEF LocalTypes
<1>1. /\ pc' \in [Procs -> Labels] /\ pc'[p] = "idle"
      /\ op' \in [Procs -> Ops \cup {0}]
      /\ \A q \in Procs : q # p => pc'[q] = pc[q] /\ op'[q] = op[q]
  BY DEF Return, Goto, Labels
<1>2. /\ todo' \in [Procs -> SUBSET Ops]
      /\ left' \in [Procs -> SUBSET Files] /\ idx' \in [Procs -> SUBSET Files]
  BY DEF Return
<1>3. plan' \in [Procs -> Plans]
  BY NoPlanType DEF Return
<1>4. flag' \in Ops \cup {0} /\ holds' \subseteq Procs
  BY DEF Return, lock
<1> QED BY <1>1, <1>2, <1>3, <1>4 DEF Working

LEMMA LeaveType ==
  ASSUME LocalTypes, NEW p \in Procs, Leave(p)
  PROVE  LocalTypes'
<1>1. CASE Return(p)
  BY <1>1, ReturnType
<1>2. CASE Goto(p, "recover") /\ UNCHANGED <<local, lock>>
  BY <1>2 DEF Goto, local, lock, LocalTypes, Labels, Working
<1> QED BY <1>1, <1>2 DEF Leave

LEMMA GotoType ==
  ASSUME LocalTypes, NEW p \in Procs, NEW l \in Labels, Goto(p, l), UNCHANGED <<local, lock>>,
         l \in Working => op[p] \in Ops
  PROVE  LocalTypes'
BY DEF Goto, local, lock, LocalTypes

LEMMA LoggedType ==
  ASSUME LocalTypes, StoreTypes, NEW p \in Procs, NEW f \in Files, op[p] \in Ops,
         Logged(p, f), UNCHANGED pc \/ Goto(p, "look")
  PROVE  LocalTypes' /\ log' \in [Ops -> SUBSET Files]
BY DEF Logged, Goto, lock, LocalTypes, StoreTypes, Labels, Working
LEMMA StoreStays ==
  ASSUME StoreTypes, UNCHANGED <<setup, active, archived, written, rule, books>>
  PROVE  StoreTypes'
BY DEF StoreTypes, rule, books

LEMMA LocalStays ==
  ASSUME LocalTypes, UNCHANGED <<pc, local, lock>>
  PROVE  LocalTypes'
BY DEF LocalTypes, local, lock

Types == LocalTypes /\ StoreTypes

LEMMA ClientTypes ==
  ASSUME Types
  PROVE  /\ \A f \in Files : Write(f) => Types'
         /\ \A r \in Records : Age(r) \/ Pin(r) => Types'
         /\ \A i \in DOMAIN approvals : Revoke(i) => Types'
         /\ Approve => Types'
<1> USE DEF Types
<1>1. ASSUME NEW f \in Files, Write(f) PROVE Types'
  <2>1. active' \in Plans /\ written' \in Plans
    BY <1>1, ArchiveAssumption DEF Write, StoreTypes, Plans, Versions
  <2>2. eligible' \subseteq Records
    BY <1>1 DEF Write, StoreTypes
  <2> QED BY <1>1, <2>1, <2>2, LocalStays DEF Write, StoreTypes, books, local, lock
<1>2. ASSUME NEW r \in Records, Age(r) \/ Pin(r) PROVE Types'
  BY <1>2, LocalStays DEF Age, Pin, StoreTypes, books, local, lock
<1>3. ASSUME NEW i \in DOMAIN approvals, Revoke(i) PROVE Types'
  <2>1. approvals[i] \in Approvals /\ Revoked(approvals[i]) \in Approvals
    <3>1. approvals[i] \in Approvals
      BY DEF StoreTypes
    <3> QED BY <3>1 DEF Approvals, Revoked
  <2>2. approvals' \in Seq(Approvals)
    BY <1>3, <2>1 DEF Revoke, StoreTypes
  <2> QED BY <1>3, <2>2, LocalStays DEF Revoke, StoreTypes, books, local, lock
<1>4. CASE Approve
  <2>1. approvals' \in Seq(Approvals)
    <3>1. PICK valid \in BOOLEAN, tie \in BOOLEAN :
            approvals' = Append(approvals,
              [plan |-> PlanNow, valid |-> valid, revoked |-> FALSE,
               at |-> IF Len(approvals) = 0 THEN 1
                      ELSE IF tie THEN approvals[Len(approvals)].at
                      ELSE approvals[Len(approvals)].at + 1])
      BY <1>4 DEF Approve
    <3>2. Len(approvals) # 0 => approvals[Len(approvals)].at \in Nat
      <4>1. Len(approvals) # 0 => approvals[Len(approvals)] \in Approvals
        BY DEF StoreTypes
      <4> QED BY <4>1 DEF Approvals
    <3>3. PlanNow \in Plans
      BY ArchiveAssumption DEF StoreTypes, PlanNow, Plans, Versions
    <3> DEFINE n == Len(approvals)
               t == IF n = 0 THEN 1 ELSE IF tie THEN approvals[n].at ELSE approvals[n].at + 1
    <3>4. t \in Nat
      BY <3>2
    <3> HIDE DEF t
    <3>5. [plan |-> PlanNow, valid |-> valid, revoked |-> FALSE, at |-> t] \in Approvals
      BY <3>3, <3>4 DEF Approvals
    <3>6. approvals' = Append(approvals,
            [plan |-> PlanNow, valid |-> valid, revoked |-> FALSE, at |-> t])
      BY <3>1 DEF t
    <3> QED BY <3>5, <3>6 DEF StoreTypes
  <2> QED BY <1>4, <2>1, LocalStays DEF Approve, StoreTypes, books, local, lock
<1> QED BY <1>1, <1>2, <1>3, <1>4

LEMMA ExecuteTypes ==
  ASSUME Types, NEW p \in Procs, Execute(p)
  PROVE  Types'
BY StoreStays DEF Types, Execute, Goto, LocalTypes, Labels, Working, Pending, lock

LEMMA ResumeTypes ==
  ASSUME Types, NEW p \in Procs, Resume(p)
  PROVE  Types'
<1> USE DEF Types
<1>1. StoreTypes'
  BY StoreStays DEF Resume
<1>2. CASE todo[p] = {} /\ Goto(p, "plan") /\ UNCHANGED local
  BY <1>1, <1>2, GotoType DEF Resume, Labels, Working
<1>3. ASSUME NEW o \in First(todo[p]), todo' = [todo EXCEPT ![p] = @ \ {o}],
             UNCHANGED <<pc, op, plan, left, idx, lock>>
      PROVE  Types'
  BY <1>1, <1>3 DEF LocalTypes, lock
<1>4. ASSUME NEW o \in First(todo[p]), todo' = [todo EXCEPT ![p] = @ \ {o}],
             Goto(p, "look"), op' = [op EXCEPT ![p] = o],
             plan' = [plan EXCEPT ![p] = journals[o].plan],
             left' = [left EXCEPT ![p] = Entries(journals[o].plan) \ log[o]],
             UNCHANGED <<idx, lock>>
      PROVE  Types'
  <2>1. o \in Ops /\ journals[o].plan \in Plans /\ Entries(journals[o].plan) \subseteq Files
    BY FirstIn, EntriesType DEF LocalTypes, StoreTypes, Journals
  <2> QED BY <1>1, <1>4, <2>1 DEF Goto, LocalTypes, lock, Labels, Working
<1> QED BY <1>2, <1>3, <1>4 DEF Resume

LEMMA PlanTypes ==
  ASSUME Types, NEW p \in Procs, Plan(p)
  PROVE  Types'
<1> USE DEF Types
<1>1. StoreTypes'
  BY StoreStays DEF Plan
<1>2. CASE Return(p)
  BY <1>1, <1>2, ReturnType
<1>3. CASE Goto(p, "acquire") /\ plan' = [plan EXCEPT ![p] = PlanNow]
           /\ UNCHANGED <<op, todo, left, idx, lock>>
  <2>1. PlanNow \in Plans
    BY ArchiveAssumption DEF StoreTypes, PlanNow, Plans, Versions
  <2> QED BY <1>1, <1>3, <2>1 DEF Goto, LocalTypes, lock, Labels, Working
<1> QED BY <1>2, <1>3 DEF Plan

LEMMA AcquireTypes ==
  ASSUME Types, NEW p \in Procs, Acquire(p)
  PROVE  Types'
<1> USE DEF Types
<1>1. StoreTypes'
  BY StoreStays DEF Acquire
<1>2. CASE Return(p)
  BY <1>1, <1>2, ReturnType
<1>3. ASSUME NEW o \in Ops, flag' = o, op' = [op EXCEPT ![p] = o], holds' = {p},
             Goto(p, "fresh"), UNCHANGED <<todo, plan, left, idx>>
      PROVE  Types'
  BY <1>1, <1>3 DEF Goto, LocalTypes, Labels, Working
<1>4. \A o \in First({o \in 1..setup.ops : journals[o].state = "none"}) : o \in Ops
  BY FirstIn, ArchiveAssumption DEF Ops, StoreTypes
<1> QED BY <1>2, <1>3, <1>4 DEF Acquire

LEMMA FreshTypes ==
  ASSUME Types, NEW p \in Procs, Fresh(p)
  PROVE  Types'
<1> USE DEF Types
<1>1. CASE Return(p) /\ UNCHANGED books
  BY <1>1, ReturnType, StoreStays DEF Fresh
<1>2. CASE Journal(p)
  <2>0. PlanNow \in Plans
    BY ArchiveAssumption DEF StoreTypes, PlanNow, Plans, Versions
  <2>1. PlanNow \in Plans /\ Entries(PlanNow) \subseteq Files
    BY <2>0, EntriesType
  <2>2. op[p] \in Ops
    BY DEF Fresh, LocalTypes, Working
  <2>3. LocalTypes'
    BY <1>2, <2>1, <2>2 DEF Journal, Goto, LocalTypes, lock, Labels, Working
  <2>4. journals' \in [Ops -> Journals]
    BY <1>2, <2>1, <2>2 DEF Journal, StoreTypes, Journals
  <2>5. StoreTypes'
    BY <1>2, <2>4 DEF Journal, Fresh, StoreTypes, rule
  <2> QED BY <2>3, <2>5
<1> QED BY <1>1, <1>2 DEF Fresh
LEMMA LookTypes ==
  ASSUME Types, NEW p \in Procs, Look(p)
  PROVE  Types'
<1> USE DEF Types
<1>1. op[p] \in Ops /\ First(left[p]) \subseteq Files
  BY FirstIn DEF Look, LocalTypes, Working
<1>2. ASSUME NEW l \in {"manifest", "hash"}, Goto(p, l), UNCHANGED <<books, local, lock>>
      PROVE  Types'
  BY <1>1, <1>2, GotoType, StoreStays DEF Look, Labels
<1>3. ASSUME NEW f \in Files, Logged(p, f), UNCHANGED pc PROVE Types'
  <2>1. LocalTypes' /\ log' \in [Ops -> SUBSET Files]
    BY <1>1, <1>3, LoggedType
  <2> QED BY <1>3, <2>1 DEF Logged, Look, StoreTypes, rule
<1>4. CASE Leave(p) /\ UNCHANGED books
  BY <1>4, LeaveType, StoreStays DEF Look
<1> QED BY <1>1, <1>2, <1>3, <1>4 DEF Look

LEMMA HashTypes ==
  ASSUME Types, NEW p \in Procs, Hash(p)
  PROVE  Types'
<1> USE DEF Types
<1>1. StoreTypes' /\ op[p] \in Ops
  BY StoreStays DEF Hash, LocalTypes, Working
<1>2. CASE Goto(p, "rename") /\ UNCHANGED <<local, lock>>
  BY <1>1, <1>2, GotoType DEF Labels
<1> QED BY <1>1, <1>2, ReturnType, LeaveType DEF Hash

LEMMA RenameTypes ==
  ASSUME Types, NEW p \in Procs, Rename(p)
  PROVE  Types'
<1> USE DEF Types
<1>1. op[p] \in Ops /\ First(left[p]) \subseteq Files
  BY FirstIn DEF Rename, LocalTypes, Working
<1>2. active' \in Plans /\ archived' \in Plans
  <2>1. active \in Plans /\ archived \in Plans /\ 0 \in Versions
    BY ArchiveAssumption DEF StoreTypes, Versions
  <2> QED BY <1>1, <2>1 DEF Rename, Plans
<1>3. StoreTypes'
  BY <1>2 DEF Rename, StoreTypes, rule, books
<1>4. CASE Goto(p, "verify") /\ UNCHANGED <<local, lock>>
  BY <1>1, <1>3, <1>4, GotoType DEF Labels
<1> QED BY <1>3, <1>4, ReturnType DEF Rename

LEMMA VerifyTypes ==
  ASSUME Types, NEW p \in Procs, Verify(p)
  PROVE  Types'
<1> USE DEF Types
<1>1. op[p] \in Ops /\ First(left[p]) \subseteq Files
  BY FirstIn DEF Verify, LocalTypes, Working
<1>2. ASSUME NEW f \in Files, Logged(p, f), Goto(p, "look") PROVE Types'
  <2>1. LocalTypes' /\ log' \in [Ops -> SUBSET Files]
    BY <1>1, <1>2, LoggedType
  <2> QED BY <1>2, <2>1 DEF Logged, Verify, StoreTypes, rule
<1>3. CASE Leave(p) /\ UNCHANGED books
  BY <1>3, LeaveType, StoreStays DEF Verify
<1> QED BY <1>1, <1>2, <1>3 DEF Verify

LEMMA ManifestTypes ==
  ASSUME Types, NEW p \in Procs, Manifest(p)
  PROVE  Types'
<1> USE DEF Types
<1>1. op[p] \in Ops /\ index \cup Entries(plan[p]) \subseteq Files
  BY EntriesType DEF Manifest, LocalTypes, StoreTypes, Working
<1>2. StoreTypes'
  BY <1>1 DEF Manifest, StoreTypes, rule
<1>3. LocalTypes'
  BY <1>1 DEF Manifest, Goto, LocalTypes, lock, Labels, Working
<1> QED BY <1>2, <1>3

LEMMA RebuildTypes ==
  ASSUME Types, NEW p \in Procs, Rebuild(p)
  PROVE  Types'
<1> USE DEF Types
<1>1. Rebuilt \subseteq Files
  BY EntriesType DEF Rebuilt, StoreTypes, Journals
<1>2. StoreTypes'
  BY StoreStays DEF Rebuild
<1>3. LocalTypes'
  BY <1>1 DEF Rebuild, Goto, LocalTypes, lock, Labels, Working
<1> QED BY <1>2, <1>3

LEMMA MergeTypes ==
  ASSUME Types, NEW p \in Procs, Merge(p)
  PROVE  Types'
<1> USE DEF Types
<1>1. StoreTypes'
  BY DEF Merge, LocalTypes, StoreTypes, rule
<1>2. CASE op[p] = 0 /\ Return(p)
  BY <1>1, <1>2, ReturnType
<1>3. CASE op[p] # 0 /\ Goto(p, "close") /\ UNCHANGED <<local, lock>>
  <2>1. op[p] \in Ops
    BY <1>3 DEF LocalTypes
  <2> QED BY <1>1, <1>3, <2>1, GotoType DEF Labels
<1> QED BY <1>2, <1>3 DEF Merge

LEMMA CloseTypes ==
  ASSUME Types, NEW p \in Procs, Close(p)
  PROVE  Types'
<1> USE DEF Types
<1>1. journals' \in [Ops -> Journals]
  BY DEF Close, StoreTypes, Journals
<1>2. StoreTypes'
  BY <1>1 DEF Close, StoreTypes, rule
<1> QED BY <1>2, ReturnType, LeaveType DEF Close

LEMMA CrashTypes ==
  ASSUME Types, NEW p \in Procs, Crash(p) \/ Fail(p)
  PROVE  Types'
<1> USE DEF Types
<1>1. StoreTypes'
  BY StoreStays DEF Crash, Fail
<1>2. CASE Crash(p)
  BY <1>1, <1>2, NoPlanType DEF Crash, Goto, LocalTypes, Labels, Working
<1>3. CASE Fail(p)
  BY <1>1, <1>3, ReturnType DEF Fail
<1> QED BY <1>2, <1>3

LEMMA StepTypes ==
  ASSUME Types, NEW p \in Procs, Step(p)
  PROVE  Types'
BY ExecuteTypes, ResumeTypes, PlanTypes, AcquireTypes, FreshTypes, LookTypes, HashTypes,
   RenameTypes, VerifyTypes, ManifestTypes, RebuildTypes, MergeTypes, CloseTypes, CrashTypes
   DEF Step

LEMMA TypesStep == Types /\ [Next]_vars => Types'
<1> SUFFICES ASSUME Types, [Next]_vars PROVE Types'
  OBVIOUS
<1>1. CASE Next
  BY <1>1, ClientTypes, StepTypes DEF Next
<1>2. CASE UNCHANGED vars
  BY <1>2, StoreStays, LocalStays DEF vars, Types
<1> QED BY <1>1, <1>2

LEMMA TypesInit == Init => Types
<1> SUFFICES ASSUME Init PROVE Types
  OBVIOUS
<1>1. LocalTypes
  BY NoPlanType DEF Init, LocalTypes, Labels, Working
<1>2. active \in Plans /\ written \in Plans /\ archived \in Plans
  BY NoPlanType DEF Init, Plans
<1>3. journals \in [Ops -> Journals] /\ approvals \in Seq(Approvals)
  BY NoPlanType DEF Init, Journals
<1>4. StoreTypes
  BY <1>2, <1>3 DEF Init, StoreTypes
<1> QED BY <1>1, <1>4 DEF Types

LEMMA TypesInvariant == Spec => []Types
BY TypesInit, TypesStep, PTL DEF Spec

(* Every variable keeps the shape the actions rely on.                      *)
THEOREM TypeCorrect == Spec => []TypeOK
<1>1. Types => TypeOK
  BY TwoTypes DEF Types, TypeInv
<1> QED BY <1>1, TypesInvariant, PTL
------------------------------------------------------------------------------
(* What a step leaves alone.                                                *)

Client == \/ \E f \in Files : Write(f)
          \/ \E r \in Records : Age(r) \/ Pin(r)
          \/ \E i \in DOMAIN approvals : Revoke(i)
          \/ Approve

LEMMA ClientFrame == Client => UNCHANGED <<setup, archived, books, lock, pc, local>>
BY DEF Client, Write, Age, Pin, Revoke, Approve

SameLocal(q) == /\ pc'[q] = pc[q] /\ op'[q] = op[q] /\ todo'[q] = todo[q]
                /\ plan'[q] = plan[q] /\ left'[q] = left[q] /\ idx'[q] = idx[q]

LEMMA ReturnFrame ==
  ASSUME LocalTypes, NEW p \in Procs, Return(p)
  PROVE  /\ pc'[p] = "idle" /\ op'[p] = 0 /\ todo'[p] = {} /\ left'[p] = {} /\ idx'[p] = {}
         /\ \A q \in Procs : q # p => SameLocal(q)
         /\ p \in holds => flag' = 0 /\ holds' = holds \ {p}
         /\ p \notin holds => UNCHANGED lock
BY DEF Return, Goto, LocalTypes, SameLocal

LEMMA GotoFrame ==
  ASSUME LocalTypes, NEW p \in Procs, NEW l, Goto(p, l)
  PROVE  pc'[p] = l /\ \A q \in Procs : q # p => pc'[q] = pc[q]
BY DEF Goto, LocalTypes

LEMMA LeaveFrame ==
  ASSUME LocalTypes, NEW p \in Procs, Leave(p)
  PROVE  /\ \A q \in Procs : q # p => SameLocal(q)
         /\ \/ Return(p) /\ p \in holds
            \/ p \notin holds /\ pc'[p] = "recover" /\ UNCHANGED <<local, lock>>
BY ReturnFrame, GotoFrame DEF Leave, SameLocal, local

LEMMA StepFrame ==
  ASSUME LocalTypes, NEW p \in Procs, Step(p)
  PROVE  \A q \in Procs : q # p => SameLocal(q)
<1> DEFINE Rest == \A q \in Procs : q # p => SameLocal(q)
<1> USE DEF SameLocal, Goto, LocalTypes
<1>1. CASE Execute(p)
  BY <1>1 DEF Execute
<1>2. CASE Resume(p)
  <2>1. CASE todo[p] = {} /\ Goto(p, "plan") /\ UNCHANGED local
    BY <2>1 DEF local
  <2>2. CASE \E o \in First(todo[p]) :
               /\ todo' = [todo EXCEPT ![p] = @ \ {o}]
               /\ UNCHANGED <<pc, op, plan, left, idx>>
    BY <2>2
  <2>3. CASE \E o \in First(todo[p]) :
               /\ todo' = [todo EXCEPT ![p] = @ \ {o}]
               /\ Goto(p, "look")
               /\ op' = [op EXCEPT ![p] = o]
               /\ plan' = [plan EXCEPT ![p] = journals[o].plan]
               /\ left' = [left EXCEPT ![p] = Entries(journals[o].plan) \ log[o]]
               /\ UNCHANGED idx
    BY <2>3
  <2> QED BY <1>2, <2>1, <2>2, <2>3 DEF Resume
<1>3. CASE Plan(p)
  BY <1>3, ReturnFrame DEF Plan
<1>4. CASE Acquire(p)
  BY <1>4, ReturnFrame DEF Acquire
<1>5. CASE Fresh(p)
  BY <1>5, ReturnFrame DEF Fresh, Journal
<1>6. CASE Look(p)
  <2>1. CASE UNCHANGED local /\ \E l \in {"manifest", "hash"} : Goto(p, l)
    BY <2>1 DEF local
  <2>2. CASE (\E f \in First(left[p]) : Logged(p, f)) /\ UNCHANGED pc
    BY <2>2 DEF Logged
  <2>3. CASE Leave(p)
    BY <2>3, LeaveFrame
  <2> QED BY <1>6, <2>1, <2>2, <2>3 DEF Look
<1>7. CASE Hash(p)
  BY <1>7, ReturnFrame, LeaveFrame DEF Hash, local
<1>8. CASE Rename(p)
  BY <1>8, ReturnFrame DEF Rename, local
<1>9. CASE Verify(p)
  BY <1>9, LeaveFrame DEF Verify, Logged
<1>10. CASE Manifest(p) \/ Rebuild(p)
  BY <1>10 DEF Manifest, Rebuild
<1>11. CASE Merge(p)
  BY <1>11, ReturnFrame DEF Merge, local
<1>12. CASE Close(p)
  BY <1>12, ReturnFrame, LeaveFrame DEF Close
<1>13. CASE Crash(p)
  BY <1>13 DEF Crash
<1>14. CASE Fail(p)
  BY <1>14, ReturnFrame DEF Fail
<1> QED BY <1>1, <1>2, <1>3, <1>4, <1>5, <1>6, <1>7, <1>8, <1>9, <1>10, <1>11, <1>12, <1>13,
           <1>14 DEF Step
(* The rule and the setup are the clients' to change.                       *)
LEMMA RuleFrame ==
  ASSUME NEW p \in Procs, Step(p)
  PROVE  UNCHANGED <<setup, written, rule>>
BY DEF Step, Execute, Resume, Plan, Acquire, Fresh, Look, Hash, Rename, Verify, Manifest,
       Rebuild, Merge, Close, Crash, Fail

(* A journal is written once, by its operation, and then closed.            *)
LEMMA JournalFrame ==
  ASSUME NEW p \in Procs, Step(p)
  PROVE  \/ UNCHANGED journals
         \/ Fresh(p) /\ Journal(p) /\ InInventory /\ PlanNow = plan[p]
         \/ /\ Close(p) /\ op[p] \in Pending
            /\ journals' = [journals EXCEPT ![op[p]].state = "completed"]
BY DEF Step, Execute, Resume, Plan, Acquire, Fresh, Look, Hash, Rename, Verify, Manifest,
       Rebuild, Merge, Close, Crash, Fail, Logged, books

(* How an operation gets to its approval, and to its flag.                  *)
LEMMA ToAcquire ==
  ASSUME Types, NEW p \in Procs, Step(p), pc'[p] \in {"acquire", "fresh"}
  PROVE  \/ /\ Plan(p) /\ Authorized(PlanNow) /\ pc'[p] = "acquire"
            /\ plan' = [plan EXCEPT ![p] = PlanNow] /\ UNCHANGED lock
         \/ /\ Acquire(p) /\ pc'[p] = "fresh" /\ UNCHANGED plan
            /\ Free /\ holds' = {p} /\ op'[p] = flag' /\ flag' \in Ops
            /\ journals[op'[p]].state = "none"
<1> USE DEF Types
<1> DEFINE Elsewhere == pc'[p] \notin {"acquire", "fresh"}
<1>1. ASSUME Return(p) \/ Leave(p) PROVE Elsewhere
  BY <1>1, ReturnFrame, LeaveFrame
<1>2. ASSUME NEW l \in {"recover", "plan", "look", "hash", "rename", "verify", "manifest", "merge",
                        "close", "idle"}, Goto(p, l)
      PROVE  Elsewhere
  BY <1>2, GotoFrame
<1>3. CASE Execute(p) \/ Resume(p)
  BY <1>2, <1>3, GotoFrame DEF Execute, Resume
<1>4. CASE Plan(p)
  BY <1>1, <1>4, GotoFrame DEF Plan
<1>5. CASE Acquire(p)
  <2>1. CASE Return(p)
    BY <1>1, <2>1
  <2>2. ASSUME NEW o \in First({o \in 1..setup.ops : journals[o].state = "none"}),
               flag' = o, op' = [op EXCEPT ![p] = o]
        PROVE  op'[p] = flag' /\ journals[op'[p]].state = "none"
    BY <2>2, FirstIn DEF LocalTypes
  <2>3. CASE Goto(p, "fresh") /\ Free /\ holds' = {p} /\ UNCHANGED plan
    <3>1. PICK o \in First({o \in 1..setup.ops : journals[o].state = "none"}) :
            flag' = o /\ op' = [op EXCEPT ![p] = o]
      BY <1>1, <1>5 DEF Acquire
    <3>2. o \in Ops
      <4>1. o \in 1..setup.ops
        BY <3>1, FirstIn
      <4> QED BY <4>1, ArchiveAssumption DEF StoreTypes, Ops
    <3> QED BY <1>5, <2>2, <2>3, <3>1, <3>2, GotoFrame
  <2> QED BY <1>5, <2>1, <2>3 DEF Acquire
<1>6. CASE Fresh(p)
  BY <1>1, <1>2, <1>6 DEF Fresh, Journal
<1>7. CASE Look(p)
  BY <1>1, <1>2, <1>7 DEF Look
<1>8. CASE Hash(p) \/ Rename(p) \/ Verify(p)
  BY <1>1, <1>2, <1>8 DEF Hash, Rename, Verify
<1>9. CASE Manifest(p) \/ Rebuild(p) \/ Merge(p)
  BY <1>1, <1>2, <1>9 DEF Manifest, Rebuild, Merge
<1>10. CASE Close(p) \/ Crash(p) \/ Fail(p)
  BY <1>1, <1>2, <1>10 DEF Close, Crash, Fail
<1> QED BY <1>3, <1>4, <1>5, <1>6, <1>7, <1>8, <1>9, <1>10 DEF Step
LEMMA PlanNowCandidates == \A f \in Entries(PlanNow) : f \in Files /\ Of[f] \in Candidates
BY DEF Entries, PlanNow

------------------------------------------------------------------------------
(* What moves has been approved.                                            *)

ApprovedBy(pl) == \E i \in DOMAIN approvals : approvals[i].plan = pl /\ approvals[i].valid

(* The plan was approved when it was made, and no approval disappears.      *)
ApprovedInv ==
  /\ OnlyApprovedMoves
  /\ \A p \in Procs : pc[p] \in {"acquire", "fresh"} => ApprovedBy(plan[p])

LEMMA ApprovalsStay ==
  ASSUME Types, Client, NEW pl, ApprovedBy(pl)
  PROVE  ApprovedBy(pl)'
<1> PICK i \in DOMAIN approvals : approvals[i].plan = pl /\ approvals[i].valid
  BY DEF ApprovedBy
<1>1. CASE UNCHANGED approvals
  BY <1>1 DEF ApprovedBy
<1>2. ASSUME NEW j \in DOMAIN approvals, Revoke(j) PROVE ApprovedBy(pl)'
  <2>1. \A a \in Approvals : Revoked(a).plan = a.plan /\ Revoked(a).valid = a.valid
    BY DEF Revoked, Approvals
  <2>2. approvals[i] \in Approvals
    BY DEF Types, StoreTypes
  <2>3. DOMAIN approvals' = DOMAIN approvals /\ approvals'[i] \in {approvals[i], Revoked(approvals[i])}
    BY <1>2 DEF Revoke, Types, StoreTypes
  <2> QED BY <2>1, <2>2, <2>3 DEF ApprovedBy
<1>3. CASE Approve
  <2>1. \E a : approvals' = Append(approvals, a)
    BY <1>3 DEF Approve
  <2>2. i \in DOMAIN approvals' /\ approvals'[i] = approvals[i]
    BY <2>1 DEF Types, StoreTypes
  <2> QED BY <2>2 DEF ApprovedBy
<1> QED BY <1>1, <1>2, <1>3 DEF Client, Write, Age, Pin

LEMMA ApprovedStep ==
  ASSUME Types, ApprovedInv, Next
  PROVE  ApprovedInv'
<1> USE DEF ApprovedInv
<1>1. CASE Client
  <2>1. UNCHANGED <<journals, pc, plan>>
    BY <1>1, ClientFrame DEF books, local
  <2> QED BY <1>1, <2>1, ApprovalsStay DEF OnlyApprovedMoves, ApprovedBy
<1>2. ASSUME NEW p \in Procs, Step(p) PROVE ApprovedInv'
  <2>1. UNCHANGED approvals /\ \A q \in Procs : q # p => SameLocal(q)
    BY <1>2, RuleFrame, StepFrame DEF rule, Types
  <2>2. \A pl : ApprovedBy(pl)' <=> ApprovedBy(pl)
    BY <2>1 DEF ApprovedBy
  <2>3. pc'[p] \in {"acquire", "fresh"} => ApprovedBy(plan'[p])
    <3>1. Authorized(PlanNow) => ApprovedBy(PlanNow)
      BY DEF Authorized, ApprovedBy
    <3>2. CASE Plan(p) /\ Authorized(PlanNow) /\ plan' = [plan EXCEPT ![p] = PlanNow]
      BY <3>1, <3>2 DEF Types, LocalTypes
    <3>3. CASE Acquire(p) /\ UNCHANGED plan
      BY <3>3 DEF Acquire
    <3> QED BY <1>2, <3>2, <3>3, ToAcquire
  <2>4. OnlyApprovedMoves'
    <3>1. CASE UNCHANGED journals
      BY <2>1, <3>1 DEF OnlyApprovedMoves
    <3>2. CASE Fresh(p) /\ Journal(p) /\ InInventory /\ PlanNow = plan[p]
      <4>1. ApprovedBy(PlanNow) /\ \A f \in Entries(PlanNow) : Of[f] \in Inventory
        BY <3>2, PlanNowCandidates DEF Fresh, InInventory
      <4>2. journals' = [journals EXCEPT ![op[p]] = [state |-> "pending", plan |-> PlanNow]]
        BY <3>2 DEF Journal
      <4> QED BY <2>1, <4>1, <4>2 DEF OnlyApprovedMoves, ApprovedBy, Types, StoreTypes
    <3>3. CASE op[p] \in Pending /\ journals' = [journals EXCEPT ![op[p]].state = "completed"]
      <4>1. \A o \in Ops : /\ journals'[o].plan = journals[o].plan
                           /\ journals'[o].state # "none" => journals[o].state # "none"
        BY <3>3 DEF Pending, Types, StoreTypes, Journals
      <4> QED BY <2>1, <4>1 DEF OnlyApprovedMoves
    <3> QED BY <1>2, <3>1, <3>2, <3>3, JournalFrame
  <2> QED BY <2>1, <2>2, <2>3, <2>4 DEF SameLocal
<1> QED BY <1>1, <1>2 DEF Next, Client

(* What moves is what the operator has approved: every journal's plan has a *)
(* valid approval, and its records are in the inventory (execute).          *)
THEOREM MovesAreApproved == Spec => []OnlyApprovedMoves
<1>1. Init => ApprovedInv
  BY DEF Init, ApprovedInv, OnlyApprovedMoves
<1>2. Types /\ ApprovedInv /\ [Next]_vars => ApprovedInv'
  <2> SUFFICES ASSUME Types, ApprovedInv, [Next]_vars PROVE ApprovedInv'
    OBVIOUS
  <2>1. CASE UNCHANGED vars
    BY <2>1 DEF vars, rule, books, local, ApprovedInv, OnlyApprovedMoves, ApprovedBy
  <2> QED BY <2>1, ApprovedStep
<1> QED BY <1>1, <1>2, TypesInvariant, PTL DEF Spec, ApprovedInv
------------------------------------------------------------------------------
(* An operation that holds the flag keeps the writers out, so what it is    *)
(* about to move stays a candidate.                                         *)

Moving == {"look", "hash", "rename", "verify"}

FlagInv ==
  /\ holds # {} => flag # 0
  /\ \A p, q \in holds : p = q
  /\ \A p \in holds : /\ pc[p] \in Working \cup {"merge"}
                      /\ pc[p] \in Moving => \A f \in left[p] : Of[f] \in Candidates

LEMMA ReturnFlag ==
  ASSUME Types, FlagInv, NEW p \in Procs, Return(p), UNCHANGED rule
  PROVE  FlagInv'
BY ReturnFrame DEF FlagInv, SameLocal, lock, Types, LocalTypes, Candidates, rule

LEMMA LeaveFlag ==
  ASSUME Types, FlagInv, NEW p \in Procs, Leave(p), UNCHANGED rule
  PROVE  FlagInv'
<1>1. CASE Return(p)
  BY <1>1, ReturnFlag
<1>2. CASE p \notin holds /\ UNCHANGED <<local, lock>> /\ \A q \in Procs : q # p => SameLocal(q)
  BY <1>2 DEF FlagInv, SameLocal, lock, Types, LocalTypes, Candidates, rule
<1> QED BY <1>1, <1>2, LeaveFrame DEF Types

(* A step of p that leaves the flag alone, and goes on.                     *)
LEMMA GoesOnFlag ==
  ASSUME Types, FlagInv, NEW p \in Procs, UNCHANGED <<lock, rule>>,
         \A q \in Procs : q # p => SameLocal(q),
         p \in holds => /\ pc'[p] \in Working \cup {"merge"}
                        /\ pc'[p] \in Moving =>
                             \/ pc[p] \in Moving /\ left'[p] \subseteq left[p]
                             \/ \A f \in left'[p] : Of[f] \in Candidates
  PROVE  FlagInv'
BY DEF FlagInv, SameLocal, lock, Types, LocalTypes, Candidates, rule

LEMMA FlagStep ==
  ASSUME Types, FlagInv, Next
  PROVE  FlagInv'
<1> USE DEF Types
<1>1. CASE Client
  <2>1. UNCHANGED <<lock, pc, left>>
    BY <1>1, ClientFrame DEF local
  <2>2. holds # {} => Candidates \subseteq Candidates'
    BY <1>1 DEF Client, Write, Age, Pin, Revoke, Approve, Free, FlagInv, Candidates
  <2> QED BY <2>1, <2>2 DEF FlagInv, lock
<1>2. ASSUME NEW p \in Procs, Step(p) PROVE FlagInv'
  <2> DEFINE Goes == UNCHANGED lock /\
               (p \in holds => /\ pc'[p] \in Working \cup {"merge"}
                               /\ pc'[p] \in Moving =>
                                    \/ pc[p] \in Moving /\ left'[p] \subseteq left[p]
                                    \/ \A f \in left'[p] : Of[f] \in Candidates)
  <2>1. UNCHANGED rule /\ \A q \in Procs : q # p => SameLocal(q)
    BY <1>2, RuleFrame, StepFrame
  <2>2. Goes => FlagInv'
    BY <2>1, GoesOnFlag
  <2>3. p \in holds => pc[p] \in Working \cup {"merge"}
    BY DEF FlagInv
  <2>4. ASSUME Return(p) \/ Leave(p) PROVE FlagInv'
    BY <2>1, <2>4, ReturnFlag, LeaveFlag
  <2>5. CASE Execute(p) \/ Resume(p) \/ Rebuild(p)
    <3>1. p \notin holds
      BY <2>3, <2>5 DEF Execute, Resume, Rebuild, Working
    <3> QED BY <2>2, <2>5, <3>1 DEF Execute, Resume, Rebuild
  <2>6. CASE Plan(p)
    <3>1. p \notin holds
      BY <2>3, <2>6 DEF Plan, Working
    <3> QED BY <2>2, <2>4, <2>6, <3>1 DEF Plan
  <2>7. CASE Acquire(p)
    <3>1. CASE Goto(p, "fresh") /\ Free /\ holds' = {p} /\ flag' # 0
      <4>1. pc'[p] = "fresh"
        BY <3>1, GotoFrame
      <4> QED BY <3>1, <4>1 DEF FlagInv, Working, Moving
    <3>2. CASE Return(p)
      BY <2>4, <3>2
    <3>3. \A o \in First({o \in 1..setup.ops : journals[o].state = "none"}) : o # 0
      <4>1. \A o \in First({o \in 1..setup.ops : journals[o].state = "none"}) : o \in 1..setup.ops
        BY FirstIn
      <4> QED BY <4>1, ArchiveAssumption DEF StoreTypes
    <3> QED BY <2>7, <3>1, <3>2, <3>3 DEF Acquire
  <2>8. CASE Fresh(p)
    <3>1. CASE Journal(p)
      <4>1. pc'[p] = "look" /\ left'[p] = Entries(PlanNow) /\ UNCHANGED lock
        BY <3>1 DEF Journal, Goto, LocalTypes
      <4> QED BY <2>2, <4>1, PlanNowCandidates DEF Working
    <3> QED BY <2>4, <2>8, <3>1 DEF Fresh
  <2>9. CASE Look(p)
    <3>1. CASE (Goto(p, "manifest") \/ Goto(p, "hash")) /\ UNCHANGED <<local, lock>>
      <4>1. pc'[p] \in {"manifest", "hash"} /\ pc[p] = "look"
        BY <2>9, <3>1, GotoFrame DEF Look
      <4> QED BY <2>2, <3>1, <4>1 DEF local, Working, Moving
    <3>2. ASSUME NEW f \in First(left[p]), Logged(p, f), UNCHANGED pc PROVE FlagInv'
      <4>1. left'[p] \subseteq left[p] /\ UNCHANGED lock /\ pc'[p] = "look" /\ pc[p] = "look"
        BY <2>9, <3>2 DEF Logged, LocalTypes, Look
      <4> QED BY <2>2, <4>1 DEF Working, Moving
    <3> QED BY <2>4, <2>9, <3>1, <3>2 DEF Look
  <2>10. CASE Hash(p) \/ Rename(p)
    <3>1. CASE (Goto(p, "rename") \/ Goto(p, "verify")) /\ UNCHANGED <<local, lock>>
      <4>1. pc'[p] \in {"rename", "verify"} /\ pc[p] \in Moving
        BY <2>10, <3>1, GotoFrame DEF Hash, Rename, Moving
      <4> QED BY <2>2, <3>1, <4>1 DEF local, Working
    <3> QED BY <2>4, <2>10, <3>1 DEF Hash, Rename
  <2>11. CASE Verify(p)
    <3>1. ASSUME NEW f \in First(left[p]), Logged(p, f), Goto(p, "look") PROVE FlagInv'
      <4>1. left'[p] \subseteq left[p] /\ UNCHANGED lock /\ pc'[p] = "look" /\ pc[p] = "verify"
        BY <2>11, <3>1, GotoFrame DEF Logged, LocalTypes, Verify
      <4> QED BY <2>2, <4>1 DEF Working, Moving
    <3> QED BY <2>4, <2>11, <3>1 DEF Verify
  <2>12. CASE Manifest(p)
    <3>1. pc'[p] = "merge" /\ UNCHANGED lock
      BY <2>12, GotoFrame DEF Manifest
    <3> QED BY <2>2, <3>1 DEF Moving
  <2>13. CASE Merge(p)
    <3>1. CASE Goto(p, "close") /\ UNCHANGED lock
      <4>1. pc'[p] = "close"
        BY <3>1, GotoFrame
      <4> QED BY <2>2, <3>1, <4>1 DEF Working, Moving
    <3> QED BY <2>4, <2>13, <3>1 DEF Merge
  <2>14. CASE Close(p) \/ Fail(p)
    BY <2>4, <2>14 DEF Close, Fail
  <2>15. CASE Crash(p)
    BY <2>1, <2>15 DEF Crash, FlagInv, SameLocal, LocalTypes, Candidates, rule
  <2> QED BY <1>2, <2>5, <2>6, <2>7, <2>8, <2>9, <2>10, <2>11, <2>12, <2>13, <2>14, <2>15
          DEF Step
<1> QED BY <1>1, <1>2 DEF Next, Client

(* Under its own flag an operation moves only what is eligible and not      *)
(* pinned at that moment, although its approval is older (execute).         *)
THEOREM FlagKeepsEligible == Spec => MovesUnderFlagEligible
<1>1. Init => FlagInv
  BY DEF Init, FlagInv
<1>2. Types /\ FlagInv /\ [Next]_vars => FlagInv'
  <2> SUFFICES ASSUME Types, FlagInv, [Next]_vars PROVE FlagInv'
    OBVIOUS
  <2>1. CASE UNCHANGED vars
    BY <2>1 DEF vars, rule, local, lock, FlagInv, Candidates
  <2> QED BY <2>1, FlagStep
<1>3. Types /\ FlagInv /\ [Next]_vars =>
        [\A p \in holds : pc[p] = "rename" /\ pc'[p] = "verify" =>
           \A f \in First(left[p]) : Of[f] \in Candidates]_vars
  BY FirstIn DEF FlagInv, Moving
<1> QED BY <1>1, <1>2, <1>3, TypesInvariant, PTL DEF Spec, MovesUnderFlagEligible
------------------------------------------------------------------------------
(* One process executes.  What its books say has happened has happened, and *)
(* what has happened is in its books.                                       *)

ArchiverInv == \A p \in Procs : pc[p] # "idle" => p \in setup.archivers

LogInv == /\ \A o \in Ops : \A f \in log[o] : archived[f] # 0 /\ archived[f] = journals[o].plan[f]
          /\ \A o \in Ops : journals[o].state = "none" => log[o] = {} /\ o \notin manifest

ClosedInv == \A o \in Ops : journals[o].state = "completed" =>
               /\ o \in manifest
               /\ Entries(journals[o].plan) \subseteq log[o] \cap index

MovedInv == \A f \in Files :
  /\ archived[f] # 0 => \E o \in Ops : /\ journals[o].state \in {"pending", "completed"}
                                       /\ f \in Entries(journals[o].plan)
  /\ written[f] # 0 => active[f] # 0 \/ archived[f] # 0

BooksInv == LogInv /\ ClosedInv /\ MovedInv

(* Where p is in the journal it works on.                                   *)
Holding(p) == op[p] \in Pending /\ plan[p] = journals[op[p]].plan

OperationInv(p) ==
  /\ pc[p] = "fresh" => journals[op[p]].state = "none"
  /\ pc[p] \in Moving => Holding(p) /\ left[p] = Entries(plan[p]) \ log[op[p]]
  /\ pc[p] \in {"hash", "rename"} => \A f \in First(left[p]) : archived[f] = 0
  /\ pc[p] = "verify" => \A f \in First(left[p]) : archived[f] # 0
  /\ pc[p] = "manifest" => Holding(p) /\ Entries(plan[p]) \subseteq log[op[p]]
  /\ pc[p] \in {"merge", "close"} /\ op[p] # 0 =>
       Holding(p) /\ Entries(plan[p]) \subseteq log[op[p]] /\ op[p] \in manifest
  /\ pc[p] = "merge" =>
       \A o \in Ops : o = op[p] \/ journals[o].state = "completed" =>
         Entries(journals[o].plan) \subseteq idx[p]
  /\ pc[p] = "close" => Entries(plan[p]) \subseteq index

AloneInv == Alone => BooksInv /\ \A p \in Procs : OperationInv(p)

(* Between two operations there is nothing to say.                          *)
Resting == {"idle", "recover", "plan", "acquire"}

LEMMA RestsWell ==
  ASSUME NEW p \in Procs, pc'[p] \in Resting
  PROVE  OperationInv(p)'
BY DEF OperationInv, Resting, Moving

LEMMA BooksStay ==
  ASSUME BooksInv, UNCHANGED <<active, archived, written, books>>
  PROVE  BooksInv'
BY DEF BooksInv, LogInv, ClosedInv, MovedInv, books

LEMMA ArchiverStep ==
  ASSUME Types, ArchiverInv, Next
  PROVE  ArchiverInv' /\ \A p \in Procs : Step(p) => p \in setup.archivers
<1>1. CASE Client
  BY <1>1, ClientFrame DEF ArchiverInv, local, Step, Execute, Resume, Plan, Acquire, Fresh,
     Look, Hash, Rename, Verify, Manifest, Rebuild, Merge, Close, Crash, Fail
<1>2. ASSUME NEW p \in Procs, Step(p) PROVE p \in setup.archivers
  BY <1>2 DEF ArchiverInv, Step, Execute, Resume, Plan, Acquire, Fresh,
     Look, Hash, Rename, Verify, Manifest, Rebuild, Merge, Close, Crash, Fail
<1>3. ASSUME NEW p \in Procs, Step(p) PROVE ArchiverInv'
  BY <1>2, <1>3, StepFrame, RuleFrame DEF ArchiverInv, SameLocal, Types
<1> QED BY <1>1, <1>2, <1>3 DEF Next, Client

LEMMA LeaveRests ==
  ASSUME Types, NEW p \in Procs, Return(p) \/ Leave(p)
  PROVE  pc'[p] \in Resting
BY ReturnFrame, LeaveFrame DEF Types, Resting

LEMMA ClientAlone ==
  ASSUME Types, BooksInv, Client
  PROVE  BooksInv' /\ \A p \in Procs : OperationInv(p) => OperationInv(p)'
<1>1. UNCHANGED <<archived, books, pc, local>>
  BY ClientFrame
<1>2. \A p \in Procs : OperationInv(p) => OperationInv(p)'
  BY <1>1 DEF OperationInv, Holding, Pending, books, local
<1>3. \A f \in Files : (active[f] = active'[f] /\ written[f] = written'[f]) \/ active'[f] # 0
  BY DEF Client, Write, Age, Pin, Revoke, Approve, Types, StoreTypes, Plans, Versions
<1>4. BooksInv'
  BY <1>1, <1>3 DEF BooksInv, LogInv, ClosedInv, MovedInv, books
<1> QED BY <1>2, <1>4

(* An operation looks for its next move.                                    *)
LEMMA LookAlone ==
  ASSUME Types, BooksInv, NEW p \in Procs, OperationInv(p), Look(p)
  PROVE  BooksInv' /\ OperationInv(p)'
<1> USE DEF Types
<1>1. pc[p] = "look" /\ Holding(p) /\ left[p] = Entries(plan[p]) \ log[op[p]] /\ op[p] \in Ops
  BY DEF Look, OperationInv, Moving, Holding, Pending
<1>2. CASE left[p] = {} /\ Goto(p, "manifest") /\ UNCHANGED <<books, local, lock>>
  <2>1. pc'[p] = "manifest"
    BY <1>2, GotoFrame
  <2>2. OperationInv(p)'
    BY <1>1, <1>2, <2>1 DEF OperationInv, Holding, Pending, Moving, books, local
  <2> QED BY <1>2, <2>2, BooksStay DEF Look
<1>3. ASSUME NEW f \in First(left[p]), archived[f] = 0, Goto(p, "hash"),
             UNCHANGED <<books, local, lock>>
      PROVE  BooksInv' /\ OperationInv(p)'
  <2>1. pc'[p] = "hash" /\ UNCHANGED archived
    BY <1>3, GotoFrame DEF Look
  <2>2. \A g \in First(left[p]) : g = f
    BY ArchiveAssumption DEF First, LocalTypes
  <2>3. OperationInv(p)'
    BY <1>1, <1>3, <2>1, <2>2 DEF OperationInv, Holding, Pending, Moving, books, local
  <2> QED BY <1>3, <2>3, BooksStay DEF Look
<1>4. ASSUME NEW f \in First(left[p]), archived[f] = plan[p][f], Logged(p, f), UNCHANGED pc
      PROVE  BooksInv' /\ OperationInv(p)'
  <2>1. f \in Files /\ f \in Entries(plan[p]) /\ plan[p][f] # 0 /\ op[p] \in Pending
    BY <1>1, FirstIn DEF LocalTypes, Holding, Entries
  <2>2. /\ UNCHANGED <<active, archived, written, journals, manifest, index, op, plan>>
        /\ left'[p] = left[p] \ {f}
        /\ log' = [log EXCEPT ![op[p]] = @ \cup {f}]
    BY <1>4 DEF Look, Logged, LocalTypes
  <2>3. /\ log'[op[p]] = log[op[p]] \cup {f}
        /\ \A o \in Ops : log[o] \subseteq log'[o] /\ (o # op[p] => log'[o] = log[o])
    BY <1>1, <2>2 DEF StoreTypes
  <2>4. LogInv'
    BY <1>1, <1>4, <2>1, <2>2, <2>3 DEF BooksInv, LogInv, Holding, Pending
  <2>5. ClosedInv' /\ MovedInv'
    BY <2>2, <2>3 DEF BooksInv, ClosedInv, MovedInv
  <2>6. OperationInv(p)'
    BY <1>1, <1>4, <2>1, <2>2, <2>3 DEF OperationInv, Holding, Pending, Moving
  <2> QED BY <2>4, <2>5, <2>6 DEF BooksInv
<1>5. CASE Leave(p) /\ UNCHANGED books
  BY <1>5, LeaveRests, RestsWell, BooksStay DEF Look
<1> QED BY <1>2, <1>3, <1>4, <1>5 DEF Look

LEMMA HashAlone ==
  ASSUME Types, BooksInv, NEW p \in Procs, OperationInv(p), Hash(p)
  PROVE  BooksInv' /\ OperationInv(p)'
<1> USE DEF Types
<1>1. BooksInv'
  BY BooksStay DEF Hash
<1>2. CASE Goto(p, "rename") /\ UNCHANGED <<local, lock>>
  <2>1. pc'[p] = "rename" /\ pc[p] = "hash" /\ UNCHANGED <<archived, books>>
    BY <1>2, GotoFrame DEF Hash
  <2>2. OperationInv(p)'
    BY <1>2, <2>1 DEF OperationInv, Holding, Pending, Moving, books, local
  <2> QED BY <1>1, <2>2
<1> QED BY <1>1, <1>2, LeaveRests, RestsWell DEF Hash

(* A move changes nothing that is in the archive already.                   *)
LEMMA RenameAlone ==
  ASSUME Types, BooksInv, NEW p \in Procs, OperationInv(p), Rename(p)
  PROVE  BooksInv' /\ OperationInv(p)'
<1> USE DEF Types
<1>1. /\ pc[p] = "rename" /\ Holding(p) /\ left[p] = Entries(plan[p]) \ log[op[p]]
      /\ op[p] \in Ops
      /\ \A f \in First(left[p]) : archived[f] = 0 /\ f \in Files
  BY FirstIn DEF Rename, OperationInv, Moving, Holding, Pending, LocalTypes
<1>2. CASE Return(p) /\ UNCHANGED <<active, archived>>
  BY <1>2, LeaveRests, RestsWell, BooksStay DEF Rename
<1>3. ASSUME NEW f \in First(left[p]), active[f] # 0,
             archived' = [archived EXCEPT ![f] = active[f]],
             active' = [active EXCEPT ![f] = 0], Goto(p, "verify"), UNCHANGED <<local, lock>>
      PROVE  BooksInv' /\ OperationInv(p)'
  <2>1. /\ archived[f] = 0 /\ archived'[f] # 0 /\ active'[f] = 0
        /\ \A g \in Files : g # f => archived'[g] = archived[g] /\ active'[g] = active[g]
    BY <1>1, <1>3 DEF StoreTypes, Plans
  <2>2. \A g \in Files : archived[g] # 0 => archived'[g] = archived[g]
    BY <2>1
  <2>3. UNCHANGED <<written, books>> /\ pc'[p] = "verify"
    BY <1>3, GotoFrame DEF Rename
  <2>4. LogInv'
    <3>1. \A o \in Ops : log[o] \subseteq Files
      BY DEF StoreTypes
    <3>2. \A o \in Ops : \A g \in log[o] : archived[g] # 0 /\ archived[g] = journals[o].plan[g]
      BY DEF BooksInv, LogInv
    <3>3. \A o \in Ops : \A g \in log[o] : archived'[g] = archived[g]
      BY <2>2, <3>1, <3>2
    <3>4. journals' = journals /\ log' = log /\ manifest' = manifest
      BY <2>3 DEF books
    <3> QED BY <3>2, <3>3, <3>4 DEF BooksInv, LogInv
  <2>5. ClosedInv'
    BY <2>3 DEF BooksInv, ClosedInv, books
  <2>6. f \in Entries(journals[op[p]].plan) /\ journals[op[p]].state = "pending"
    BY <1>1, <1>3, FirstIn DEF Holding, Pending
  <2>7. MovedInv'
    BY <1>1, <2>1, <2>3, <2>6 DEF BooksInv, MovedInv, books
  <2>8. \A g \in First(left[p]) : g = f
    BY <1>3, ArchiveAssumption DEF First, LocalTypes
  <2>9. OperationInv(p)'
    BY <1>1, <1>3, <2>1, <2>3, <2>8 DEF OperationInv, Holding, Pending, Moving, books, local
  <2> QED BY <2>4, <2>5, <2>7, <2>9 DEF BooksInv
<1> QED BY <1>2, <1>3 DEF Rename

LEMMA VerifyAlone ==
  ASSUME Types, BooksInv, NEW p \in Procs, OperationInv(p), Verify(p)
  PROVE  BooksInv' /\ OperationInv(p)'
<1> USE DEF Types
<1>1. /\ pc[p] = "verify" /\ Holding(p) /\ left[p] = Entries(plan[p]) \ log[op[p]]
      /\ op[p] \in Ops /\ \A f \in First(left[p]) : archived[f] # 0
  BY DEF Verify, OperationInv, Moving, Holding, Pending
<1>2. ASSUME NEW f \in First(left[p]), archived[f] = plan[p][f], Logged(p, f), Goto(p, "look")
      PROVE  BooksInv' /\ OperationInv(p)'
  <2>1. f \in Files /\ op[p] \in Pending
    BY <1>1, FirstIn DEF LocalTypes, Holding
  <2>2. /\ UNCHANGED <<active, archived, written, journals, manifest, index, op, plan>>
        /\ left'[p] = left[p] \ {f}
        /\ log' = [log EXCEPT ![op[p]] = @ \cup {f}]
    BY <1>2 DEF Verify, Logged, LocalTypes
  <2>3. /\ log'[op[p]] = log[op[p]] \cup {f}
        /\ \A o \in Ops : log[o] \subseteq log'[o] /\ (o # op[p] => log'[o] = log[o])
    BY <1>1, <2>2 DEF StoreTypes
  <2>4. LogInv'
    <3>1. journals[op[p]].state # "none" /\ archived[f] # 0 /\ archived[f] = journals[op[p]].plan[f]
      BY <1>1, <1>2, <2>1 DEF Holding, Pending
    <3>2. \A o \in Ops : \A g \in log'[o] : g \in log[o] \/ (o = op[p] /\ g = f)
      BY <1>1, <2>3
    <3> QED BY <2>2, <2>3, <3>1, <3>2 DEF BooksInv, LogInv
  <2>5. ClosedInv' /\ MovedInv'
    BY <2>2, <2>3 DEF BooksInv, ClosedInv, MovedInv
  <2>6. pc'[p] = "look"
    BY <1>2, GotoFrame
  <2>7. OperationInv(p)'
    BY <1>1, <2>1, <2>2, <2>3, <2>6 DEF OperationInv, Holding, Pending, Moving
  <2> QED BY <2>4, <2>5, <2>7 DEF BooksInv
<1>3. CASE Leave(p) /\ UNCHANGED books
  BY <1>3, LeaveRests, RestsWell, BooksStay DEF Verify
<1> QED BY <1>2, <1>3 DEF Verify

LEMMA ResumeAlone ==
  ASSUME Types, BooksInv, NEW p \in Procs, OperationInv(p), Resume(p)
  PROVE  BooksInv' /\ OperationInv(p)'
<1> USE DEF Types
<1>1. BooksInv'
  BY BooksStay DEF Resume
<1>2. CASE Goto(p, "plan")
  BY <1>1, <1>2, GotoFrame, RestsWell DEF Resting
<1>3. CASE UNCHANGED pc
  BY <1>1, <1>3, RestsWell DEF Resume, Resting
<1>4. ASSUME NEW o \in First(todo[p]), o \in Pending, Goto(p, "look"),
             op' = [op EXCEPT ![p] = o],
             plan' = [plan EXCEPT ![p] = journals[o].plan],
             left' = [left EXCEPT ![p] = Entries(journals[o].plan) \ log[o]]
      PROVE  OperationInv(p)'
  <2>1. /\ op'[p] = o /\ plan'[p] = journals[o].plan
        /\ left'[p] = Entries(journals[o].plan) \ log[o] /\ pc'[p] = "look"
        /\ UNCHANGED <<journals, log>>
    BY <1>4, GotoFrame DEF LocalTypes, Resume, books
  <2> QED BY <1>4, <2>1 DEF OperationInv, Holding, Pending, Moving
<1> QED BY <1>1, <1>2, <1>3, <1>4 DEF Resume

LEMMA AcquireAlone ==
  ASSUME Types, BooksInv, NEW p \in Procs, OperationInv(p), Acquire(p)
  PROVE  BooksInv' /\ OperationInv(p)'
<1>1. BooksInv'
  BY BooksStay DEF Acquire
<1>2. UNCHANGED journals /\ (pc'[p] = "fresh" => journals[op'[p]].state = "none")
  <2>1. Step(p)
    BY DEF Step
  <2> QED BY <2>1, ToAcquire DEF Acquire, books
<1>3. pc'[p] = "fresh" \/ Return(p)
  BY GotoFrame DEF Acquire, Types
<1>4. CASE pc'[p] = "fresh"
  BY <1>1, <1>2, <1>4 DEF OperationInv, Moving
<1> QED BY <1>1, <1>3, <1>4, LeaveRests, RestsWell

LEMMA FreshAlone ==
  ASSUME Types, BooksInv, NEW p \in Procs, OperationInv(p), Fresh(p)
  PROVE  BooksInv' /\ OperationInv(p)'
<1> USE DEF Types
<1>1. CASE Return(p) /\ UNCHANGED books
  BY <1>1, LeaveRests, RestsWell, BooksStay DEF Fresh
<1>2. CASE Journal(p)
  <2>1. op[p] \in Ops /\ journals[op[p]].state = "none"
    BY DEF Fresh, OperationInv, LocalTypes, Working
  <2>2. /\ journals'[op[p]] = [state |-> "pending", plan |-> PlanNow]
        /\ \A o \in Ops : o # op[p] => journals'[o] = journals[o]
        /\ UNCHANGED <<active, archived, written, log, manifest, index, op>>
        /\ left'[p] = Entries(PlanNow) /\ plan'[p] = PlanNow
    BY <1>2, <2>1 DEF Journal, Fresh, StoreTypes, LocalTypes
  <2>3. pc'[p] = "look" /\ log[op[p]] = {}
    BY <1>2, <2>1, GotoFrame DEF Journal, BooksInv, LogInv
  <2>4. BooksInv'
    BY <2>1, <2>2, <2>3 DEF BooksInv, LogInv, ClosedInv, MovedInv
  <2>5. OperationInv(p)'
    BY <2>1, <2>2, <2>3 DEF OperationInv, Holding, Pending, Moving
  <2> QED BY <2>4, <2>5
<1> QED BY <1>1, <1>2 DEF Fresh

LEMMA ManifestAlone ==
  ASSUME Types, BooksInv, NEW p \in Procs, OperationInv(p), Manifest(p)
  PROVE  BooksInv' /\ OperationInv(p)'
<1> USE DEF Types
<1>1. /\ Holding(p) /\ Entries(plan[p]) \subseteq log[op[p]]
      /\ op[p] \in Ops /\ journals[op[p]].state = "pending"
  BY DEF Manifest, OperationInv, Holding, Pending
<1>2. /\ UNCHANGED <<active, archived, written, journals, log, index, op, plan>>
      /\ manifest' = manifest \cup {op[p]}
      /\ idx'[p] = index \cup Entries(plan[p])
  BY DEF Manifest, LocalTypes
<1>3. pc'[p] = "merge"
  BY GotoFrame DEF Manifest
<1>4. BooksInv'
  BY <1>1, <1>2 DEF BooksInv, LogInv, ClosedInv, MovedInv
<1>5. OperationInv(p)'
  BY <1>1, <1>2, <1>3 DEF OperationInv, Holding, Pending, Moving, BooksInv, ClosedInv
<1> QED BY <1>4, <1>5

LEMMA RebuildAlone ==
  ASSUME Types, BooksInv, NEW p \in Procs, OperationInv(p), Rebuild(p), op[p] = 0
  PROVE  BooksInv' /\ OperationInv(p)'
<1> USE DEF Types
<1>1. BooksInv'
  BY BooksStay DEF Rebuild
<1>2. /\ UNCHANGED <<journals, manifest, op>> /\ pc'[p] = "merge"
      /\ idx'[p] = UNION {Entries(journals[o].plan) : o \in manifest}
  BY GotoFrame DEF Rebuild, Rebuilt, LocalTypes, books
<1>3. 0 \notin Ops
  BY DEF Ops
<1>4. OperationInv(p)'
  BY <1>2, <1>3 DEF OperationInv, Moving, BooksInv, ClosedInv
<1> QED BY <1>1, <1>4

LEMMA MergeAlone ==
  ASSUME Types, BooksInv, NEW p \in Procs, OperationInv(p), Merge(p)
  PROVE  BooksInv' /\ OperationInv(p)'
<1> USE DEF Types
<1>1. /\ UNCHANGED <<active, archived, written, journals, log, manifest>>
      /\ index' = idx[p] /\ pc[p] = "merge"
  BY DEF Merge
<1>2. BooksInv'
  BY <1>1 DEF BooksInv, LogInv, ClosedInv, MovedInv, OperationInv
<1>3. CASE op[p] # 0 /\ Goto(p, "close") /\ UNCHANGED <<local, lock>>
  <2>1. pc'[p] = "close" /\ op[p] \in Ops
    BY <1>3, GotoFrame DEF LocalTypes
  <2>2. OperationInv(p)'
    BY <1>1, <1>3, <2>1 DEF OperationInv, Holding, Pending, Moving, local
  <2> QED BY <1>2, <2>2
<1> QED BY <1>2, <1>3, LeaveRests, RestsWell DEF Merge

LEMMA CloseAlone ==
  ASSUME Types, BooksInv, NEW p \in Procs, OperationInv(p), Close(p)
  PROVE  BooksInv' /\ OperationInv(p)'
<1> USE DEF Types
<1>1. /\ op[p] \in Ops /\ pc[p] = "close" /\ op[p] # 0 /\ Holding(p) /\ op[p] \in manifest
      /\ Entries(plan[p]) \subseteq log[op[p]] \cap index
  BY DEF Close, OperationInv, LocalTypes, Working, Ops
<1>2. /\ journals' = [journals EXCEPT ![op[p]].state = "completed"]
      /\ UNCHANGED <<active, archived, written, log, manifest, index>>
      /\ Leave(p)
  BY <1>1 DEF Close, Holding
<1>3. /\ journals'[op[p]].state = "completed"
      /\ \A o \in Ops : /\ journals'[o].plan = journals[o].plan
                        /\ o # op[p] => journals'[o] = journals[o]
  BY <1>1, <1>2 DEF StoreTypes, Journals
<1>4. journals[op[p]].state = "pending"
  BY <1>1 DEF Holding, Pending
<1>5. LogInv' /\ ClosedInv'
  BY <1>1, <1>2, <1>3, <1>4 DEF BooksInv, LogInv, ClosedInv, Holding
<1>6. MovedInv'
  BY <1>1, <1>2, <1>3, <1>4 DEF BooksInv, MovedInv
<1> QED BY <1>2, <1>5, <1>6, LeaveRests, RestsWell DEF BooksInv

LEMMA OtherAlone ==
  ASSUME Types, BooksInv, NEW p \in Procs, OperationInv(p),
         Execute(p) \/ Plan(p) \/ Crash(p) \/ Fail(p)
  PROVE  BooksInv' /\ OperationInv(p)'
<1>1. BooksInv'
  BY BooksStay DEF Execute, Plan, Crash, Fail
<1>2. pc'[p] \in Resting
  <2>1. CASE Fail(p) \/ (Plan(p) /\ Return(p))
    BY <2>1, LeaveRests DEF Fail
  <2> QED BY <2>1, GotoFrame DEF Execute, Plan, Crash, Resting, Types
<1> QED BY <1>1, <1>2, RestsWell

(* A process that is not at work has no operation.                          *)
IdleInv == \A p \in Procs : pc[p] = "idle" => op[p] = 0

LEMMA IdleStep ==
  ASSUME Types, IdleInv, Next
  PROVE  IdleInv'
<1> USE DEF Types
<1>1. CASE Client
  BY <1>1, ClientFrame DEF IdleInv, local
<1>2. ASSUME NEW p \in Procs, Step(p) PROVE IdleInv'
  <2> DEFINE Well == pc'[p] = "idle" => op'[p] = 0
  <2>1. ASSUME Return(p) \/ Leave(p) PROVE Well
    BY <2>1, ReturnFrame, LeaveFrame
  <2>2. ASSUME NEW l \in Labels \ {"idle"}, Goto(p, l) PROVE Well
    BY <2>2, GotoFrame
  <2>3. ASSUME UNCHANGED pc, pc[p] # "idle" PROVE Well
    BY <2>3
  <2>4. ASSUME Crash(p) PROVE Well
    BY <2>4 DEF Crash, LocalTypes
  <2>5. ASSUME Execute(p) \/ Resume(p) \/ Plan(p) \/ Acquire(p) \/ Fresh(p) PROVE Well
    BY <2>1, <2>2, <2>3, <2>5 DEF Execute, Resume, Plan, Acquire, Fresh, Journal, Labels
  <2>6. ASSUME Look(p) \/ Hash(p) \/ Rename(p) \/ Verify(p) PROVE Well
    BY <2>1, <2>2, <2>3, <2>6 DEF Look, Hash, Rename, Verify, Labels
  <2>7. ASSUME Manifest(p) \/ Rebuild(p) \/ Merge(p) \/ Close(p) \/ Fail(p) PROVE Well
    BY <2>1, <2>2, <2>3, <2>7 DEF Manifest, Rebuild, Merge, Close, Fail, Labels
  <2>8. Well
    BY <1>2, <2>4, <2>5, <2>6, <2>7 DEF Step
  <2> QED BY <1>2, <2>8, StepFrame DEF IdleInv, SameLocal
<1> QED BY <1>1, <1>2 DEF Next, Client

LEMMA StepAlone ==
  ASSUME Types, BooksInv, NEW p \in Procs, OperationInv(p), Step(p), IdleInv
  PROVE  BooksInv' /\ OperationInv(p)'
<1>1. CASE Resume(p) \/ Acquire(p) \/ Fresh(p) \/ Look(p)
  BY <1>1, ResumeAlone, AcquireAlone, FreshAlone, LookAlone
<1>2. CASE Hash(p) \/ Rename(p) \/ Verify(p) \/ Manifest(p)
  BY <1>2, HashAlone, RenameAlone, VerifyAlone, ManifestAlone
<1>3. CASE Rebuild(p) \/ Merge(p) \/ Close(p)
  <2>1. Rebuild(p) => op[p] = 0
    BY DEF Rebuild, IdleInv
  <2> QED BY <1>3, <2>1, RebuildAlone, MergeAlone, CloseAlone
<1>4. CASE Execute(p) \/ Plan(p) \/ Crash(p) \/ Fail(p)
  BY <1>4, OtherAlone
<1> QED BY <1>1, <1>2, <1>3, <1>4 DEF Step

LEMMA AloneStep ==
  ASSUME Types, ArchiverInv, IdleInv, AloneInv, Next
  PROVE  AloneInv'
<1>1. CASE Client
  <2>1. Alone' <=> Alone
    BY <1>1, ClientFrame DEF Alone
  <2> QED BY <1>1, <2>1, ClientAlone DEF AloneInv
<1>2. ASSUME NEW p \in Procs, Step(p), Alone PROVE BooksInv' /\ \A q \in Procs : OperationInv(q)'
  <2>1. BooksInv' /\ OperationInv(p)'
    BY <1>2, StepAlone DEF AloneInv
  <2>2. ASSUME NEW q \in Procs, q # p PROVE OperationInv(q)'
    <3>1. q \notin setup.archivers
      BY <1>2, <2>2, ArchiverStep DEF Alone
    <3>2. pc'[q] = "idle"
      BY <1>2, <2>2, <3>1, StepFrame DEF ArchiverInv, SameLocal, Types
    <3> QED BY <3>2, RestsWell DEF Resting
  <2> QED BY <2>1, <2>2
<1>3. ASSUME NEW p \in Procs, Step(p) PROVE Alone' <=> Alone
  BY <1>3, RuleFrame DEF Alone
<1> QED BY <1>1, <1>2, <1>3 DEF Next, Client, AloneInv

(* The store as one process leaves it, at any time.                         *)
StoreInv == ArchiverInv /\ IdleInv /\ AloneInv

LEMMA StoreInvariant == Spec => []StoreInv
<1>1. Init /\ Types => StoreInv
  <2> SUFFICES ASSUME Init, Types PROVE StoreInv
    OBVIOUS
  <2>1. ArchiverInv /\ IdleInv
    BY DEF Init, ArchiverInv, IdleInv
  <2>2. BooksInv
    BY DEF Init, BooksInv, LogInv, ClosedInv, MovedInv, NoPlan
  <2>3. \A p \in Procs : OperationInv(p)
    BY DEF Init, OperationInv, Moving
  <2> QED BY <2>1, <2>2, <2>3 DEF StoreInv, AloneInv
<1>2. Types /\ StoreInv /\ [Next]_vars => StoreInv'
  <2> SUFFICES ASSUME Types, StoreInv, [Next]_vars PROVE StoreInv'
    OBVIOUS
  <2>1. CASE Next
    BY <2>1, ArchiverStep, IdleStep, AloneStep DEF StoreInv
  <2>2. CASE UNCHANGED vars
    BY <2>2 DEF vars, rule, books, lock, local, StoreInv, ArchiverInv, IdleInv, AloneInv, Alone,
       BooksInv, LogInv, ClosedInv, MovedInv, OperationInv, Holding, Pending
  <2> QED BY <2>1, <2>2
<1> QED BY <1>1, <1>2, TypesInvariant, PTL DEF Spec

(* A completed journal has done all of its moves, as they were approved     *)
(* (finalize_journal).                                                      *)
THEOREM CompletedHasMoved == Spec => []CompletedIsMoved
<1>1. Types /\ StoreInv => CompletedIsMoved
  <2> SUFFICES ASSUME StoreInv, Alone PROVE
         \A o \in Ops : journals[o].state = "completed" =>
           /\ o \in manifest
           /\ \A f \in Entries(journals[o].plan) : archived[f] = journals[o].plan[f]
    BY DEF CompletedIsMoved
  <2> QED BY DEF StoreInv, AloneInv, BooksInv, LogInv, ClosedInv
<1> QED BY <1>1, StoreInvariant, TypesInvariant, PTL

(* "Every id stays resolvable": what was written is found, and what was     *)
(* archived is in the index or in a journal that will be resumed.           *)
THEOREM IdsResolve == Spec => []EveryIdResolves
<1>1. Types /\ StoreInv => EveryIdResolves
  <2> SUFFICES ASSUME Types, StoreInv, Alone, NEW f \in Files,
                      \A o \in Pending : f \notin Entries(journals[o].plan)
               PROVE  /\ written[f] # 0 => Found(f)
                      /\ archived[f] # 0 => f \in index
    BY DEF EveryIdResolves
  <2>1. archived[f] # 0 => f \in index
    BY DEF StoreInv, AloneInv, BooksInv, MovedInv, ClosedInv, Pending
  <2> QED BY <2>1 DEF StoreInv, AloneInv, BooksInv, MovedInv, Found
<1> QED BY <1>1, StoreInvariant, TypesInvariant, PTL

(* A file leaves the active store only into the archive, and nothing in the *)
(* archive is replaced (execute_journal).                                   *)
THEOREM NothingIsLost == Spec => ZeroLoss
<1> DEFINE Kept == Alone => \A f \in Files :
                     /\ archived[f] # 0 => archived'[f] = archived[f]
                     /\ active[f] # 0 /\ active'[f] = 0 => archived'[f] = active[f]
<1>1. Types /\ StoreInv /\ [Next]_vars => [Kept]_vars
  <2> SUFFICES ASSUME Types, StoreInv, Next PROVE Kept
    OBVIOUS
  <2>1. CASE Client
    <3>1. \A f \in Files : active'[f] = active[f] \/ active'[f] # 0
      BY <2>1 DEF Client, Write, Age, Pin, Revoke, Approve, Types, StoreTypes, Plans, Versions
    <3> QED BY <2>1, <3>1, ClientFrame
  <2>2. ASSUME NEW p \in Procs, Rename(p), Alone PROVE Kept
    <3>1. \A f \in First(left[p]) : archived[f] = 0 /\ f \in Files
      BY <2>2, FirstIn DEF Rename, StoreInv, AloneInv, OperationInv, Types, LocalTypes
    <3> QED BY <2>2, <3>1 DEF Rename, Types, StoreTypes, Plans
  <2>3. ASSUME NEW p \in Procs, Step(p), ~Rename(p) PROVE UNCHANGED <<active, archived>>
    BY <2>3 DEF Step, Execute, Resume, Plan, Acquire, Fresh, Look, Hash, Verify, Manifest,
       Rebuild, Merge, Close, Crash, Fail
  <2> QED BY <2>1, <2>2, <2>3 DEF Next, Client
<1> QED BY <1>1, StoreInvariant, TypesInvariant, PTL DEF Spec, ZeroLoss
------------------------------------------------------------------------------
(* A resumed operation halts on an anomaly, and an anomaly does not go      *)
(* away: a version is never written twice.                                  *)

VersionInv == \A f \in Files : /\ active[f] <= written[f]
                               /\ \A o \in Ops : journals[o].plan[f] <= written[f]

LEMMA VersionStep ==
  ASSUME Types, VersionInv, Next
  PROVE  VersionInv'
<1> USE DEF Types
<1> DEFINE Numbers == \A f \in Files : /\ active[f] \in Nat /\ written[f] \in Nat
                                       /\ \A o \in Ops : journals[o].plan[f] \in Nat
<1>1. Numbers
  <2>1. \A f \in Files : active[f] \in Nat /\ written[f] \in Nat
    BY ArchiveAssumption DEF StoreTypes, Plans, Versions
  <2>2. \A o \in Ops : journals[o].plan \in Plans
    BY DEF StoreTypes, Journals
  <2> QED BY <2>1, <2>2, ArchiveAssumption DEF Plans, Versions
<1>2. CASE Client
  <2>1. UNCHANGED journals
    BY <1>2, ClientFrame DEF books
  <2>2. \A f \in Files : \/ active'[f] = active[f] /\ written'[f] = written[f]
                         \/ active'[f] = written[f] + 1 /\ written'[f] = written[f] + 1
    BY <1>2 DEF Client, Write, Age, Pin, Revoke, Approve, StoreTypes, Plans
  <2> QED BY <1>1, <2>1, <2>2 DEF VersionInv
<1>3. ASSUME NEW p \in Procs, Step(p) PROVE VersionInv'
  <2>1. UNCHANGED written
    BY <1>3, RuleFrame
  <2>2. \A f \in Files : active'[f] \in {active[f], 0}
    BY <1>3 DEF Step, Execute, Resume, Plan, Acquire, Fresh, Look, Hash, Rename, Verify,
       Manifest, Rebuild, Merge, Close, Crash, Fail, StoreTypes, Plans
  <2>3. \A f \in Files : \A o \in Ops :
          journals'[o].plan[f] \in {journals[o].plan[f], active[f], 0}
    <3>1. CASE UNCHANGED journals
      BY <3>1
    <3>2. CASE Journal(p)
      <4>1. \A f \in Files : PlanNow[f] \in {active[f], 0}
        BY DEF PlanNow
      <4> QED BY <3>2, <4>1 DEF Journal, StoreTypes
    <3>3. CASE journals' = [journals EXCEPT ![op[p]].state = "completed"]
      BY <3>3 DEF StoreTypes, Journals
    <3> QED BY <1>3, <3>1, <3>2, <3>3, JournalFrame
  <2> QED BY <1>1, <2>1, <2>2, <2>3 DEF VersionInv
<1> QED BY <1>2, <1>3 DEF Next, Client

(* The move of f that a plan with version v asks for has been done, or can  *)
(* be done.                                                                 *)
InOrder(f, v) == \/ active[f] = v /\ archived[f] = 0
                 \/ active[f] = 0 /\ archived[f] = v

LEMMA AnomalyIs ==
  \A o : Anomalous(o) <=> \E f \in Entries(journals[o].plan) \ log[o] :
                            ~ InOrder(f, journals[o].plan[f])
BY DEF Anomalous, InOrder

LEMMA AnomalyStays ==
  ASSUME Types, VersionInv, NEW o \in Ops, Anomalous(o),
         journals'[o].plan = journals[o].plan, log'[o] = log[o],
         \A f \in Files : \/ active'[f] = active[f] /\ archived'[f] = archived[f]
                          \/ active'[f] = written[f] + 1 /\ archived'[f] = archived[f]
                          \/ archived[f] = 0 /\ active[f] # 0
                             /\ active'[f] = 0 /\ archived'[f] = active[f]
  PROVE  Anomalous(o)'
<1> USE DEF Types
<1>1. PICK f \in Entries(journals[o].plan) \ log[o] : ~ InOrder(f, journals[o].plan[f])
  BY AnomalyIs
<1> DEFINE v == journals[o].plan[f]
<1>2. journals[o].plan \in Plans
  BY DEF StoreTypes, Journals
<1>3. f \in Files /\ v # 0 /\ v \in Nat /\ active[f] \in Nat /\ written[f] \in Nat /\ v <= written[f]
  <2>1. f \in Files /\ v # 0
    BY <1>1, <1>2 DEF Entries, Plans
  <2>2. v \in Nat /\ active[f] \in Nat /\ written[f] \in Nat
    BY <1>2, <2>1, ArchiveAssumption DEF Plans, Versions, StoreTypes
  <2> QED BY <2>1, <2>2 DEF VersionInv
<1>4. ~ (active'[f] = v /\ archived'[f] = 0) /\ ~ (active'[f] = 0 /\ archived'[f] = v)
  BY <1>1, <1>3 DEF InOrder
<1>5. f \in Entries(journals'[o].plan) \ log'[o] /\ journals'[o].plan[f] = v
  BY <1>1
<1> QED BY <1>4, <1>5 DEF Anomalous

(* What the resumption of the journals has behind it at p.                  *)
ResumeInv(p) ==
  /\ pc[p] = "fresh" => p \in holds
  /\ pc[p] = "recover" => \A o \in Pending \ todo[p] : Anomalous(o)
  /\ pc[p] \in Working \cup {"merge"} /\ p \notin holds /\ op[p] # 0 =>
       \A o \in Pending \ todo[p] : o = op[p] \/ Anomalous(o)

LEMMA ClientResumes ==
  ASSUME Types, VersionInv, Client
  PROVE  \A p \in Procs : ResumeInv(p) => ResumeInv(p)'
<1> USE DEF Types
<1>1. UNCHANGED <<archived, books, lock, pc, local>>
  BY ClientFrame
<1>2. \A f \in Files : active'[f] \in {active[f], written[f] + 1}
  BY DEF Client, Write, Age, Pin, Revoke, Approve, StoreTypes, Plans
<1>3. ASSUME NEW o \in Ops, Anomalous(o) PROVE Anomalous(o)'
  BY <1>1, <1>2, <1>3, AnomalyStays DEF books
<1>4. Pending' = Pending /\ Pending \subseteq Ops
  BY <1>1 DEF Pending, books
<1> QED BY <1>1, <1>3, <1>4 DEF ResumeInv, lock, local

(* The step of an operation that leaves its journal and halts has met an    *)
(* anomaly.                                                                 *)
LEMMA LeavesHalted ==
  ASSUME Types, BooksInv, NEW p \in Procs, OperationInv(p),
         Look(p) \/ Hash(p) \/ Verify(p), Leave(p), p \notin holds
  PROVE  Anomalous(op[p])
<1> USE DEF Types
<1>1. pc[p] \in Moving /\ Holding(p) /\ left[p] = Entries(plan[p]) \ log[op[p]]
  BY DEF OperationInv, Moving, Look, Hash, Verify
<1>2. pc'[p] = "recover" /\ UNCHANGED <<local, lock>>
  BY LeaveFrame
<1>3. ASSUME NEW f \in First(left[p]), ~ InOrder(f, plan[p][f]) PROVE Anomalous(op[p])
  BY <1>1, <1>3, FirstIn, AnomalyIs DEF Holding
<1>4. \A f \in First(left[p]) : f \in Files /\ plan[p][f] # 0
  BY <1>1, FirstIn DEF Entries, LocalTypes
<1>5. CASE Look(p)
  <2>1. PICK f \in First(left[p]) : \/ active[f] # 0 <=> archived[f] # 0
                                    \/ active[f] = 0 /\ archived[f] \notin {0, plan[p][f]}
    <3>1. ~ Goto(p, "manifest") /\ ~ Goto(p, "hash")
      BY <1>2, GotoFrame
    <3>2. ASSUME NEW f \in First(left[p]) PROVE ~ Logged(p, f)
      <4>1. f \in left[p]
        BY FirstIn
      <4> QED BY <1>2, <4>1 DEF Logged, local, LocalTypes
    <3> QED BY <1>5, <3>1, <3>2 DEF Look
  <2>2. ~ InOrder(f, plan[p][f])
    BY <1>4, <2>1 DEF InOrder
  <2> QED BY <1>3, <2>2
<1>6. CASE Hash(p)
  <2>1. ~ Return(p) /\ ~ Goto(p, "rename")
    BY <1>2, GotoFrame, ReturnFrame
  <2>2. PICK f \in First(left[p]) : active[f] \notin {0, plan[p][f]}
    BY <1>6, <2>1 DEF Hash
  <2>3. ~ InOrder(f, plan[p][f])
    BY <1>4, <2>2 DEF InOrder
  <2> QED BY <1>3, <2>3
<1>7. CASE Verify(p)
  <2>1. ~ Goto(p, "look")
    BY <1>2, GotoFrame
  <2>2. PICK f \in First(left[p]) : archived[f] # plan[p][f]
    BY <1>7, <2>1 DEF Verify
  <2>3. archived[f] # 0
    BY <1>7, <2>2 DEF Verify, OperationInv
  <2>4. ~ InOrder(f, plan[p][f])
    BY <2>2, <2>3 DEF InOrder
  <2> QED BY <1>3, <2>4
<1> QED BY <1>5, <1>6, <1>7

(* The anomalies of the other journals, at a step that goes on with its own.*)
LEMMA GoesOnResuming ==
  ASSUME Types, VersionInv, NEW p \in Procs, ResumeInv(p),
         pc[p] \in Working \cup {"merge"}, pc'[p] \in (Working \cup {"merge"}) \ {"fresh"},
         op'[p] = op[p], todo'[p] = todo[p], UNCHANGED <<lock, written, journals>>,
         \A o \in Ops : o # op[p] => log'[o] = log[o],
         \A f \in Files : \/ active'[f] = active[f] /\ archived'[f] = archived[f]
                          \/ archived[f] = 0 /\ active[f] # 0
                             /\ active'[f] = 0 /\ archived'[f] = active[f]
  PROVE  ResumeInv(p)'
<1>1. ASSUME NEW o \in Ops, o # op[p], Anomalous(o) PROVE Anomalous(o)'
  BY <1>1, AnomalyStays
<1>2. Pending' = Pending /\ Pending \subseteq Ops
  BY DEF Pending
<1> QED BY <1>1, <1>2 DEF ResumeInv, Working, lock

(* A step of p that halts its operation, or whose operation is done.        *)
LEMMA LeavesResuming ==
  ASSUME Types, VersionInv, BooksInv, NEW p \in Procs, OperationInv(p), ResumeInv(p),
         Look(p) \/ Hash(p) \/ Verify(p) \/ Close(p), Return(p) \/ Leave(p),
         UNCHANGED <<active, archived, written, log>>,
         Look(p) \/ Hash(p) \/ Verify(p) => UNCHANGED journals
  PROVE  ResumeInv(p)'
<1> USE DEF Types
<1>1. CASE Return(p)
  BY <1>1, ReturnFrame DEF ResumeInv, Working
<1>2. CASE Leave(p) /\ p \notin holds
  <2>1. pc'[p] = "recover" /\ UNCHANGED <<local, lock>>
    BY <1>2, LeaveFrame, ReturnFrame
  <2>2. pc[p] \in Working
    BY DEF Look, Hash, Verify, Close, Working
  <2>3. op[p] # 0
    BY <2>2 DEF LocalTypes, Ops
  <2>4. \A o \in Pending \ todo[p] : o = op[p] \/ Anomalous(o)
    BY <1>2, <2>2, <2>3 DEF ResumeInv
  <2>5. CASE Look(p) \/ Hash(p) \/ Verify(p)
    <3>1. Anomalous(op[p])
      BY <1>2, <2>5, LeavesHalted
    <3> QED BY <2>1, <2>4, <2>5, <3>1 DEF ResumeInv, Anomalous, Pending, Working, local
  <2>6. CASE Close(p)
    <3>1. /\ op[p] \in Ops /\ op[p] \in Pending
          /\ journals' = [journals EXCEPT ![op[p]].state = "completed"]
      <4>1. op[p] \in Pending
        BY <2>1, <2>3, <2>6, ReturnFrame DEF Close
      <4> QED BY <2>1, <2>6, <4>1, ReturnFrame DEF Close, Pending
    <3>2. \A o \in Ops : journals'[o].plan = journals[o].plan
      BY <3>1 DEF StoreTypes, Journals
    <3>3. Pending' = Pending \ {op[p]}
      BY <3>1 DEF Pending, StoreTypes, Journals
    <3>4. ASSUME NEW o \in Pending, Anomalous(o) PROVE Anomalous(o)'
      BY <3>2, <3>4 DEF Anomalous, Pending
    <3> QED BY <2>1, <2>4, <3>3, <3>4 DEF ResumeInv, Working, local
  <2> QED BY <2>5, <2>6
<1> QED BY <1>1, <1>2, LeaveFrame

LEMMA StepResumes ==
  ASSUME Types, VersionInv, IdleInv, BooksInv, NEW p \in Procs, OperationInv(p), ResumeInv(p),
         Step(p)
  PROVE  ResumeInv(p)'
<1> USE DEF Types
<1>1. CASE Return(p)
  BY <1>1, ReturnFrame DEF ResumeInv, Working
<1>2. CASE Execute(p)
  <2>1. pc'[p] = "recover" /\ todo'[p] = Pending /\ Pending' = Pending
    BY <1>2, GotoFrame DEF Execute, LocalTypes, Pending, books
  <2> QED BY <2>1 DEF ResumeInv, Working
<1>3. CASE Resume(p)
  <2>1. /\ pc[p] = "recover" /\ Pending' = Pending /\ UNCHANGED lock
        /\ \A o : Anomalous(o)' <=> Anomalous(o)
    BY <1>3 DEF Resume, Pending, Anomalous, books
  <2>2. \A o \in Pending \ todo[p] : Anomalous(o)
    BY <2>1 DEF ResumeInv
  <2>3. CASE Goto(p, "plan")
    BY <2>3, GotoFrame DEF ResumeInv, Working
  <2>4. ASSUME NEW o \in First(todo[p]), todo' = [todo EXCEPT ![p] = @ \ {o}], o \notin Pending,
               UNCHANGED pc
        PROVE  ResumeInv(p)'
    <3>1. todo'[p] = todo[p] \ {o} /\ pc'[p] = "recover"
      BY <2>1, <2>4 DEF LocalTypes
    <3> QED BY <2>1, <2>2, <2>4, <3>1 DEF ResumeInv, Working
  <2>5. ASSUME NEW o \in First(todo[p]), todo' = [todo EXCEPT ![p] = @ \ {o}], Goto(p, "look"),
               op' = [op EXCEPT ![p] = o]
        PROVE  ResumeInv(p)'
    <3>1. todo'[p] = todo[p] \ {o} /\ pc'[p] = "look" /\ op'[p] = o
      BY <2>5, GotoFrame DEF LocalTypes
    <3> QED BY <2>1, <2>2, <3>1 DEF ResumeInv
  <2> QED BY <1>3, <2>3, <2>4, <2>5 DEF Resume
<1>4. CASE Plan(p) \/ Acquire(p) \/ Fresh(p)
  <2>1. CASE Goto(p, "acquire")
    BY <2>1, GotoFrame DEF ResumeInv, Working
  <2>2. CASE Goto(p, "fresh") /\ holds' = {p}
    BY <2>2, GotoFrame DEF ResumeInv, Working
  <2>3. CASE Fresh(p) /\ Journal(p)
    BY <2>3, GotoFrame DEF Fresh, Journal, ResumeInv, lock
  <2> QED BY <1>1, <1>4, <2>1, <2>2, <2>3 DEF Plan, Acquire, Fresh
<1>5. CASE Look(p)
  <2>1. CASE (Goto(p, "manifest") \/ Goto(p, "hash")) /\ UNCHANGED <<books, local, lock>>
    <3>1. pc[p] = "look" /\ pc'[p] \in {"manifest", "hash"}
      BY <1>5, <2>1, GotoFrame DEF Look
    <3> QED BY <1>5, <2>1, <3>1, GoesOnResuming DEF Look, Working, local, books
  <2>2. ASSUME NEW f \in Files, Logged(p, f), UNCHANGED pc PROVE ResumeInv(p)'
    <3>1. pc[p] = "look" /\ \A o \in Ops : o # op[p] => log'[o] = log[o]
      BY <1>5, <2>2 DEF Look, Logged, StoreTypes
    <3> QED BY <1>5, <2>2, <3>1, GoesOnResuming DEF Look, Logged, Working
  <2>3. CASE Leave(p) /\ UNCHANGED books
    BY <1>5, <2>3, LeavesResuming DEF Look, books
  <2>4. \A f \in First(left[p]) : f \in Files
    BY FirstIn DEF LocalTypes
  <2> QED BY <1>5, <2>1, <2>2, <2>3, <2>4 DEF Look
<1>6. CASE Hash(p)
  <2>1. CASE Goto(p, "rename") /\ UNCHANGED <<local, lock>>
    <3>1. pc[p] = "hash" /\ pc'[p] = "rename"
      BY <1>6, <2>1, GotoFrame DEF Hash
    <3> QED BY <1>6, <2>1, <3>1, GoesOnResuming DEF Hash, Working, local, books
  <2>2. CASE Leave(p)
    BY <1>6, <2>2, LeavesResuming DEF Hash, books
  <2> QED BY <1>1, <1>6, <2>1, <2>2 DEF Hash
<1>7. CASE Rename(p)
  <2>1. ASSUME NEW f \in First(left[p]), active[f] # 0,
               archived' = [archived EXCEPT ![f] = active[f]],
               active' = [active EXCEPT ![f] = 0], Goto(p, "verify"), UNCHANGED <<local, lock>>
        PROVE  ResumeInv(p)'
    <3>1. pc[p] = "rename" /\ pc'[p] = "verify" /\ UNCHANGED <<written, books>>
      BY <1>7, <2>1, GotoFrame DEF Rename
    <3>2. archived[f] = 0 /\ f \in Files
      BY <3>1, FirstIn DEF OperationInv, LocalTypes
    <3>3. \A g \in Files : \/ active'[g] = active[g] /\ archived'[g] = archived[g]
                           \/ archived[g] = 0 /\ active[g] # 0
                              /\ active'[g] = 0 /\ archived'[g] = active[g]
      BY <2>1, <3>2 DEF StoreTypes, Plans
    <3> QED BY <2>1, <3>1, <3>3, GoesOnResuming DEF Working, local, books
  <2> QED BY <1>1, <1>7, <2>1 DEF Rename
<1>8. CASE Verify(p)
  <2>1. ASSUME NEW f \in Files, Logged(p, f), Goto(p, "look") PROVE ResumeInv(p)'
    <3>1. /\ pc[p] = "verify" /\ pc'[p] = "look"
          /\ \A o \in Ops : o # op[p] => log'[o] = log[o]
      BY <1>8, <2>1, GotoFrame DEF Verify, Logged, StoreTypes
    <3> QED BY <1>8, <2>1, <3>1, GoesOnResuming DEF Verify, Logged, Working
  <2>2. CASE Leave(p) /\ UNCHANGED books
    BY <1>8, <2>2, LeavesResuming DEF Verify, books
  <2>3. \A f \in First(left[p]) : f \in Files
    BY FirstIn DEF LocalTypes
  <2> QED BY <1>8, <2>1, <2>2, <2>3 DEF Verify
<1>9. CASE Manifest(p) \/ (Merge(p) /\ Goto(p, "close") /\ UNCHANGED <<local, lock>>)
  <2>1. pc[p] \in {"manifest", "merge"} /\ pc'[p] \in {"merge", "close"}
    BY <1>9, GotoFrame DEF Manifest, Merge
  <2> QED BY <1>9, <2>1, GoesOnResuming DEF Manifest, Merge, Working, local
<1>10. CASE Rebuild(p)
  <2>1. pc'[p] = "merge" /\ op'[p] = 0
    BY <1>10, GotoFrame DEF Rebuild, IdleInv
  <2> QED BY <2>1 DEF ResumeInv
<1>11. CASE Close(p)
  <2>1. (Return(p) \/ Leave(p)) /\ UNCHANGED <<active, archived, written, log>>
    BY <1>11 DEF Close
  <2>2. ~ (Look(p) \/ Hash(p) \/ Verify(p))
    BY <1>11 DEF Close, Look, Hash, Verify
  <2> QED BY <1>11, <2>1, <2>2, LeavesResuming
<1>12. CASE Crash(p) \/ Fail(p)
  <2>1. pc'[p] = "idle"
    BY <1>12, GotoFrame, ReturnFrame DEF Crash, Fail
  <2> QED BY <2>1 DEF ResumeInv, Working
<1> QED BY <1>1, <1>2, <1>3, <1>4, <1>5, <1>6, <1>7, <1>8, <1>9, <1>10, <1>11, <1>12 DEF Step, Merge

ResumingInv == VersionInv /\ (Alone => \A p \in Procs : ResumeInv(p))

LEMMA ResumingStep ==
  ASSUME Types, StoreInv, ResumingInv, Next
  PROVE  ResumingInv'
<1>1. VersionInv'
  BY VersionStep DEF ResumingInv
<1>2. CASE Client
  <2>1. Alone' <=> Alone
    BY <1>2, ClientFrame DEF Alone
  <2> QED BY <1>1, <1>2, <2>1, ClientResumes DEF ResumingInv
<1>3. ASSUME NEW p \in Procs, Step(p), Alone PROVE \A q \in Procs : ResumeInv(q)'
  <2>1. ResumeInv(p)'
    BY <1>3, StepResumes DEF ResumingInv, StoreInv, AloneInv
  <2>2. ASSUME NEW q \in Procs, q # p PROVE ResumeInv(q)'
    <3>1. q \notin setup.archivers
      BY <1>3, <2>2, ArchiverStep DEF Alone, StoreInv
    <3>2. pc'[q] = "idle"
      BY <1>3, <2>2, <3>1, StepFrame DEF StoreInv, ArchiverInv, SameLocal, Types
    <3> QED BY <3>2 DEF ResumeInv, Working
  <2> QED BY <2>1, <2>2
<1>4. ASSUME NEW p \in Procs, Step(p) PROVE Alone' <=> Alone
  BY <1>4, RuleFrame DEF Alone
<1> QED BY <1>1, <1>2, <1>3, <1>4 DEF Next, Client, ResumingInv

LEMMA ToPlan ==
  ASSUME Types, NEW p \in Procs, Step(p), pc[p] # "plan", pc'[p] = "plan"
  PROVE  Resume(p) /\ pc[p] = "recover" /\ todo[p] = {}
<1> USE DEF Types
<1> DEFINE Elsewhere == pc'[p] # "plan"
<1>1. ASSUME Return(p) \/ Leave(p) PROVE Elsewhere
  BY <1>1, ReturnFrame, LeaveFrame
<1>2. ASSUME NEW l \in Labels \ {"plan"}, Goto(p, l) PROVE Elsewhere
  BY <1>2, GotoFrame
<1>3. ASSUME UNCHANGED pc PROVE Elsewhere
  BY <1>3
<1>4. CASE Resume(p)
  BY <1>2, <1>3, <1>4 DEF Resume, Labels
<1>5. CASE Execute(p) \/ Plan(p) \/ Acquire(p) \/ Fresh(p)
  BY <1>1, <1>2, <1>5 DEF Execute, Plan, Acquire, Fresh, Journal, Labels
<1>6. CASE Look(p) \/ Hash(p) \/ Rename(p) \/ Verify(p)
  BY <1>1, <1>2, <1>3, <1>6 DEF Look, Hash, Rename, Verify, Labels
<1>7. CASE Manifest(p) \/ Rebuild(p) \/ Merge(p) \/ Close(p) \/ Fail(p) \/ Crash(p)
  BY <1>1, <1>2, <1>7 DEF Manifest, Rebuild, Merge, Close, Fail, Crash, Labels
<1> QED BY <1>4, <1>5, <1>6, <1>7 DEF Step

(* When recover_pending returns, a journal is pending only because it has   *)
(* halted on an anomaly.                                                    *)
THEOREM RecoveryResumes == Spec => ResumedOrHalted
<1> DEFINE Resumed == Alone => \A p \in Procs : pc[p] # "plan" /\ pc'[p] = "plan" =>
                        \A o \in Pending : Anomalous(o)
<1>1. Init /\ Types => ResumingInv
  <2> SUFFICES ASSUME Init, Types PROVE ResumingInv
    OBVIOUS
  <2>1. VersionInv
    BY ArchiveAssumption DEF Init, VersionInv, NoPlan, Types, StoreTypes, Plans, Versions
  <2>2. \A p \in Procs : ResumeInv(p)
    BY DEF Init, ResumeInv, Working
  <2> QED BY <2>1, <2>2 DEF ResumingInv
<1>2. Types /\ StoreInv /\ ResumingInv /\ [Next]_vars => ResumingInv'
  <2> SUFFICES ASSUME Types, StoreInv, ResumingInv, [Next]_vars PROVE ResumingInv'
    OBVIOUS
  <2>1. CASE UNCHANGED vars
    BY <2>1 DEF vars, rule, books, lock, local, ResumingInv, Alone, VersionInv, ResumeInv,
       Anomalous, Pending
  <2> QED BY <2>1, ResumingStep
<1>3. Types /\ StoreInv /\ ResumingInv /\ [Next]_vars => [Resumed]_vars
  <2> SUFFICES ASSUME Types, ResumingInv, Next, Alone, NEW p \in Procs,
                      pc[p] # "plan", pc'[p] = "plan"
               PROVE  \A o \in Pending : Anomalous(o)
    OBVIOUS
  <2>1. Step(p)
    <3>1. ~Client
      BY ClientFrame
    <3>2. ASSUME NEW q \in Procs, Step(q), q # p PROVE FALSE
      BY <3>2, StepFrame DEF SameLocal, Types
    <3> QED BY <3>1, <3>2 DEF Next, Client
  <2>2. pc[p] = "recover" /\ todo[p] = {}
    BY <2>1, ToPlan
  <2> QED BY <2>2 DEF ResumingInv, ResumeInv
<1> QED BY <1>1, <1>2, <1>3, StoreInvariant, TypesInvariant, PTL DEF Spec, ResumedOrHalted
------------------------------------------------------------------------------
(* Any number of processes execute.  A journal, once written, is closed but *)
(* never dropped or changed, and a manifest stays.                          *)
BooksGrow ==
  /\ \A o \in Ops : journals[o].state # "none" =>
       journals'[o].state # "none" /\ journals'[o].plan = journals[o].plan
  /\ manifest \subseteq manifest'

(* What p knows of the journal it works on, whoever else works on it.       *)
AtWork == {"look", "hash", "rename", "verify", "manifest", "merge", "close"}

Carries(p) ==
  /\ pc[p] = "fresh" => p \in holds /\ op[p] = flag /\ journals[op[p]].state = "none"
  /\ pc[p] \in AtWork /\ op[p] # 0 =>
       journals[op[p]].state # "none" /\ plan[p] = journals[op[p]].plan
  /\ pc[p] \in Moving => left[p] \subseteq Entries(plan[p])
  /\ pc[p] \in {"merge", "close"} /\ op[p] # 0 => op[p] \in manifest
  /\ idx[p] \subseteq Rebuilt

ManifestInv ==
  /\ \A o \in manifest : journals[o].state # "none"
  /\ \A o \in Ops : journals[o].state = "completed" => o \in manifest
  /\ index \subseteq Rebuilt

(* A file is in the archive because some journal says so.                   *)
NamedInv == \A f \in Files : archived[f] # 0 =>
              \E o \in Ops : journals[o].state # "none" /\ f \in Entries(journals[o].plan)

RestoreInv == ManifestInv /\ NamedInv /\ \A p \in Procs : Carries(p)

LEMMA BooksGrowing ==
  ASSUME Types, NEW p \in Procs, Carries(p), Step(p)
  PROVE  BooksGrow
<1> USE DEF Types
<1>1. manifest \subseteq manifest'
  BY DEF Step, Execute, Resume, Plan, Acquire, Fresh, Journal, Look, Hash, Rename, Verify,
     Manifest, Rebuild, Merge, Close, Crash, Fail, Logged, books
<1>2. CASE UNCHANGED journals
  BY <1>1, <1>2 DEF BooksGrow
<1>3. CASE Fresh(p) /\ Journal(p)
  <2>1. journals[op[p]].state = "none" /\ op[p] \in Ops
    BY <1>3 DEF Fresh, Carries, LocalTypes, Working
  <2>2. \A o \in Ops : o # op[p] => journals'[o] = journals[o]
    BY <1>3 DEF Journal, StoreTypes
  <2> QED BY <1>1, <2>1, <2>2 DEF BooksGrow
<1>4. CASE journals' = [journals EXCEPT ![op[p]].state = "completed"]
  BY <1>1, <1>4 DEF BooksGrow, StoreTypes, Journals
<1> QED BY <1>2, <1>3, <1>4, JournalFrame

LEMMA RebuiltGrows ==
  ASSUME Types, ManifestInv, BooksGrow
  PROVE  Rebuilt \subseteq Rebuilt'
BY DEF Types, StoreTypes, ManifestInv, BooksGrow, Rebuilt

(* The flag is p's until p gives it back.                                   *)
LEMMA FlagIsKept ==
  ASSUME Types, FlagInv, NEW p \in Procs, Step(p), NEW q \in holds, q # p
  PROVE  q \in holds' /\ flag' = flag
<1> USE DEF Types
<1>1. p \notin holds /\ ~Free
  BY DEF FlagInv, Free
<1>2. ASSUME Return(p) \/ Leave(p) \/ UNCHANGED lock PROVE q \in holds' /\ flag' = flag
  BY <1>1, <1>2, ReturnFrame, LeaveFrame DEF lock
<1>3. CASE Execute(p) \/ Resume(p) \/ Plan(p) \/ Acquire(p) \/ Fresh(p)
  BY <1>1, <1>2, <1>3 DEF Execute, Resume, Plan, Acquire, Fresh, Journal
<1>4. CASE Look(p) \/ Hash(p) \/ Rename(p) \/ Verify(p)
  BY <1>2, <1>4 DEF Look, Hash, Rename, Verify, Logged
<1>5. CASE Manifest(p) \/ Rebuild(p) \/ Merge(p) \/ Close(p) \/ Fail(p)
  BY <1>2, <1>5 DEF Manifest, Rebuild, Merge, Close, Fail
<1>6. CASE Crash(p)
  BY <1>6 DEF Crash
<1> QED BY <1>3, <1>4, <1>5, <1>6 DEF Step

(* What the others know stays true.                                         *)
LEMMA OthersCarry ==
  ASSUME Types, FlagInv, ManifestInv, NEW p \in Procs, Step(p), Carries(p),
         NEW q \in Procs, q # p, Carries(q)
  PROVE  Carries(q)'
<1> USE DEF Types
<1>1. BooksGrow /\ Rebuilt \subseteq Rebuilt' /\ SameLocal(q)
  BY BooksGrowing, RebuiltGrows, StepFrame
<1>2. pc'[q] = "fresh" => q \in holds' /\ op'[q] = flag' /\ journals'[op'[q]].state = "none"
  <2> SUFFICES ASSUME pc[q] = "fresh"
               PROVE  q \in holds' /\ op[q] = flag' /\ journals'[op[q]].state = "none"
    BY <1>1 DEF SameLocal
  <2>1. /\ q \in holds /\ op[q] = flag /\ journals[op[q]].state = "none"
        /\ op[q] \in Ops /\ p \notin holds
    BY DEF Carries, FlagInv, LocalTypes, Working
  <2>2. q \in holds' /\ flag' = flag
    BY <2>1, FlagIsKept
  <2>3. journals'[op[q]] = journals[op[q]]
    <3>1. ~Fresh(p)
      BY <2>1 DEF Fresh, Carries
    <3>2. CASE op[p] \in Pending /\ journals' = [journals EXCEPT ![op[p]].state = "completed"]
      BY <2>1, <3>2 DEF Pending, StoreTypes
    <3> QED BY <3>1, <3>2, JournalFrame
  <2> QED BY <2>1, <2>2, <2>3
<1>3. op[q] # 0 => op[q] \in Ops
  BY DEF LocalTypes
<1> QED BY <1>1, <1>2, <1>3 DEF Carries, SameLocal, BooksGrow

(* Between two operations p carries only what it once read.                 *)
LEMMA RestsCarry ==
  ASSUME Types, NEW p \in Procs, pc'[p] \in Resting, idx'[p] \subseteq Rebuilt'
  PROVE  Carries(p)'
BY DEF Carries, Resting, Moving, AtWork

LEMMA LeaveCarries ==
  ASSUME Types, NEW p \in Procs, Carries(p), Rebuilt \subseteq Rebuilt', Return(p) \/ Leave(p)
  PROVE  Carries(p)'
<1>1. idx'[p] = {} \/ idx'[p] = idx[p]
  BY ReturnFrame, LeaveFrame DEF Types, local
<1> QED BY <1>1, LeaveRests, RestsCarry DEF Carries

(* The moves of an operation, one file after the other.                     *)
LEMMA MoveCarries ==
  ASSUME Types, NEW p \in Procs, Carries(p), BooksGrow, Rebuilt \subseteq Rebuilt',
         pc[p] \in Moving, pc'[p] \in Moving \cup {"manifest"},
         op'[p] = op[p], plan'[p] = plan[p], idx'[p] = idx[p], left'[p] \subseteq left[p]
  PROVE  Carries(p)'
<1>1. /\ journals[op[p]].state # "none" /\ plan[p] = journals[op[p]].plan
      /\ op[p] \in Ops /\ left[p] \subseteq Entries(plan[p])
  BY DEF Carries, Moving, AtWork, Working, Types, LocalTypes, Ops
<1>2. journals'[op[p]].state # "none" /\ plan[p] = journals'[op[p]].plan
  BY <1>1 DEF BooksGrow
<1> QED BY <1>1, <1>2 DEF Carries, Moving, AtWork

LEMMA WorkCarries ==
  ASSUME Types, NEW p \in Procs, Carries(p), BooksGrow, Rebuilt \subseteq Rebuilt',
         Look(p) \/ Hash(p) \/ Rename(p) \/ Verify(p)
  PROVE  Carries(p)'
<1> USE DEF Types
<1>1. pc[p] \in Moving
  BY DEF Look, Hash, Rename, Verify, Moving
<1>2. CASE Return(p) \/ Leave(p)
  BY <1>2, LeaveCarries
<1>3. ASSUME NEW l \in Moving \cup {"manifest"}, Goto(p, l), UNCHANGED local PROVE Carries(p)'
  BY <1>1, <1>3, GotoFrame, MoveCarries DEF local
<1>4. ASSUME NEW f, Logged(p, f), UNCHANGED pc \/ Goto(p, "look") PROVE Carries(p)'
  <2>1. pc'[p] \in Moving
    BY <1>1, <1>4, GotoFrame DEF Moving
  <2>2. /\ op'[p] = op[p] /\ plan'[p] = plan[p] /\ idx'[p] = idx[p]
        /\ left'[p] \subseteq left[p]
    BY <1>4 DEF Logged, LocalTypes
  <2> QED BY <1>1, <2>1, <2>2, MoveCarries
<1>5. CASE Look(p) \/ Hash(p)
  BY <1>2, <1>3, <1>4, <1>5 DEF Look, Hash, Moving
<1>6. CASE Rename(p) \/ Verify(p)
  BY <1>2, <1>3, <1>4, <1>6 DEF Rename, Verify, Moving
<1> QED BY <1>5, <1>6

(* A journal that is found pending, and one that is written.                *)
LEMMA ResumeCarries ==
  ASSUME Types, NEW p \in Procs, Carries(p), Rebuilt \subseteq Rebuilt', Resume(p)
  PROVE  Carries(p)'
<1> USE DEF Types
<1>1. UNCHANGED <<journals, manifest>> /\ idx'[p] \subseteq Rebuilt'
  BY DEF Resume, books, local, Carries
<1>2. CASE Goto(p, "plan")
  BY <1>1, <1>2, GotoFrame, RestsCarry DEF Resting
<1>3. CASE UNCHANGED pc
  BY <1>1, <1>3, RestsCarry DEF Resume, Resting
<1>4. ASSUME NEW o \in First(todo[p]), o \in Pending, Goto(p, "look"),
             op' = [op EXCEPT ![p] = o],
             plan' = [plan EXCEPT ![p] = journals[o].plan],
             left' = [left EXCEPT ![p] = Entries(journals[o].plan) \ log[o]]
      PROVE  Carries(p)'
  <2>1. /\ op'[p] = o /\ plan'[p] = journals[o].plan /\ pc'[p] = "look"
        /\ left'[p] \subseteq Entries(plan'[p])
    BY <1>4, GotoFrame DEF LocalTypes
  <2> QED BY <1>1, <1>4, <2>1 DEF Carries, Moving, AtWork, Pending
<1> QED BY <1>2, <1>3, <1>4 DEF Resume

LEMMA AcquireCarries ==
  ASSUME Types, NEW p \in Procs, Carries(p), Rebuilt \subseteq Rebuilt', Acquire(p)
  PROVE  Carries(p)'
<1> USE DEF Types
<1>1. CASE Return(p)
  BY <1>1, LeaveCarries
<1>2. CASE Goto(p, "fresh") /\ UNCHANGED idx
  <2>1. pc'[p] = "fresh"
    BY <1>2, GotoFrame
  <2>2. holds' = {p} /\ op'[p] = flag' /\ journals[op'[p]].state = "none"
    BY <2>1, ToAcquire DEF Step, Plan
  <2> QED BY <1>2, <2>1, <2>2 DEF Carries, Moving, AtWork, Acquire, books
<1> QED BY <1>1, <1>2 DEF Acquire

LEMMA FreshCarries ==
  ASSUME Types, NEW p \in Procs, Carries(p), Rebuilt \subseteq Rebuilt', Fresh(p)
  PROVE  Carries(p)'
<1> USE DEF Types
<1>1. CASE Return(p)
  BY <1>1, LeaveCarries
<1>2. CASE Journal(p)
  <2>1. op[p] \in Ops
    BY DEF Fresh, LocalTypes, Working
  <2>2. /\ journals'[op[p]] = [state |-> "pending", plan |-> PlanNow]
        /\ op'[p] = op[p] /\ left'[p] = Entries(PlanNow) /\ plan'[p] = PlanNow
        /\ idx'[p] = idx[p]
    BY <1>2, <2>1 DEF Journal, StoreTypes, LocalTypes
  <2>3. pc'[p] = "look"
    BY <1>2, GotoFrame DEF Journal
  <2> QED BY <2>2, <2>3 DEF Carries, Moving, AtWork
<1> QED BY <1>1, <1>2 DEF Fresh

(* The manifest, the index and the close of the journal.                    *)
LEMMA ManifestCarries ==
  ASSUME Types, ManifestInv, NEW p \in Procs, Carries(p), Rebuilt \subseteq Rebuilt', Manifest(p)
  PROVE  Carries(p)'
<1> USE DEF Types
<1>1. /\ op[p] \in Ops /\ journals[op[p]].state # "none" /\ plan[p] = journals[op[p]].plan
  BY DEF Manifest, Carries, AtWork, LocalTypes, Working, Ops
<1>2. /\ UNCHANGED <<journals, op, plan>> /\ manifest' = manifest \cup {op[p]}
      /\ idx'[p] = index \cup Entries(plan[p]) /\ pc'[p] = "merge"
  BY GotoFrame DEF Manifest, LocalTypes
<1>3. Entries(plan[p]) \subseteq Rebuilt'
  BY <1>1, <1>2 DEF Rebuilt
<1> QED BY <1>1, <1>2, <1>3 DEF Carries, Moving, AtWork, ManifestInv

LEMMA RebuildCarries ==
  ASSUME Types, NEW p \in Procs, Carries(p), op[p] = 0, Rebuilt \subseteq Rebuilt', Rebuild(p)
  PROVE  Carries(p)'
<1>1. pc'[p] = "merge" /\ op'[p] = 0 /\ idx'[p] = Rebuilt
  BY GotoFrame DEF Rebuild, Types, LocalTypes
<1> QED BY <1>1 DEF Carries, Moving, AtWork

LEMMA MergeCarries ==
  ASSUME Types, NEW p \in Procs, Carries(p), Rebuilt \subseteq Rebuilt', Merge(p)
  PROVE  Carries(p)'
<1>1. CASE Return(p)
  BY <1>1, LeaveCarries
<1>2. CASE op[p] # 0 /\ Goto(p, "close") /\ UNCHANGED <<local, lock>>
  <2>1. pc'[p] = "close" /\ pc[p] = "merge" /\ UNCHANGED <<journals, manifest, op, plan, idx>>
    BY <1>2, GotoFrame DEF Merge, local, Types
  <2> QED BY <1>2, <2>1 DEF Carries, Moving, AtWork
<1> QED BY <1>1, <1>2 DEF Merge

LEMMA OwnCarries ==
  ASSUME Types, ManifestInv, IdleInv, NEW p \in Procs, Carries(p), Step(p)
  PROVE  Carries(p)'
<1>1. BooksGrow /\ Rebuilt \subseteq Rebuilt'
  BY BooksGrowing, RebuiltGrows
<1>2. CASE Execute(p) \/ Plan(p)
  <2>1. CASE Return(p)
    BY <1>1, <2>1, LeaveCarries
  <2>2. CASE (Goto(p, "recover") \/ Goto(p, "acquire")) /\ UNCHANGED idx
    <3>1. pc'[p] \in Resting
      BY <2>2, GotoFrame DEF Resting, Types
    <3> QED BY <1>1, <2>2, <3>1, RestsCarry DEF Carries
  <2> QED BY <1>2, <2>1, <2>2 DEF Execute, Plan
<1>3. CASE Resume(p) \/ Acquire(p) \/ Fresh(p)
  BY <1>1, <1>3, ResumeCarries, AcquireCarries, FreshCarries
<1>4. CASE Look(p) \/ Hash(p) \/ Rename(p) \/ Verify(p)
  BY <1>1, <1>4, WorkCarries
<1>5. CASE Manifest(p) \/ Rebuild(p) \/ Merge(p)
  <2>1. Rebuild(p) => op[p] = 0
    BY DEF Rebuild, IdleInv
  <2> QED BY <1>1, <1>5, <2>1, ManifestCarries, RebuildCarries, MergeCarries
<1>6. CASE Close(p) \/ Fail(p)
  BY <1>1, <1>6, LeaveCarries DEF Close, Fail
<1>7. CASE Crash(p)
  <2>1. pc'[p] = "idle" /\ idx'[p] = {}
    BY <1>7, GotoFrame DEF Crash, Types, LocalTypes
  <2> QED BY <2>1, RestsCarry DEF Resting
<1> QED BY <1>2, <1>3, <1>4, <1>5, <1>6, <1>7 DEF Step

(* The index is written from what was read, and a journal closed after its  *)
(* manifest.                                                                *)
LEMMA ManifestStep ==
  ASSUME Types, ManifestInv, NEW p \in Procs, Carries(p), Step(p)
  PROVE  ManifestInv'
<1> USE DEF Types
<1>1. BooksGrow /\ Rebuilt \subseteq Rebuilt'
  BY BooksGrowing, RebuiltGrows
<1>2. manifest' = manifest \/ (Manifest(p) /\ manifest' = manifest \cup {op[p]})
  BY DEF Step, Execute, Resume, Plan, Acquire, Fresh, Journal, Look, Hash, Rename, Verify,
     Manifest, Rebuild, Merge, Close, Crash, Fail, Logged, books
<1>3. index' = index \/ index' = idx[p]
  BY DEF Step, Execute, Resume, Plan, Acquire, Fresh, Journal, Look, Hash, Rename, Verify,
     Manifest, Rebuild, Merge, Close, Crash, Fail, Logged, books
<1>4. index' \subseteq Rebuilt'
  BY <1>1, <1>3 DEF ManifestInv, Carries
<1>5. \A o \in manifest' : journals'[o].state # "none"
  <2>1. Manifest(p) => op[p] \in Ops /\ journals[op[p]].state # "none"
    BY DEF Manifest, Carries, AtWork, LocalTypes, Working, Ops
  <2>2. \A o \in manifest : o \in Ops /\ journals[o].state # "none"
    BY DEF ManifestInv, StoreTypes
  <2> QED BY <1>1, <1>2, <2>1, <2>2 DEF BooksGrow
<1>6. ASSUME NEW o \in Ops, journals'[o].state = "completed" PROVE o \in manifest'
  <2>1. CASE UNCHANGED journals
    BY <1>2, <1>6, <2>1 DEF ManifestInv
  <2>2. CASE Fresh(p) /\ Journal(p)
    <3>1. journals'[o] \in {journals[o], [state |-> "pending", plan |-> PlanNow]}
      BY <2>2 DEF Journal, StoreTypes
    <3> QED BY <1>2, <1>6, <3>1 DEF ManifestInv
  <2>3. CASE Close(p) /\ journals' = [journals EXCEPT ![op[p]].state = "completed"]
    <3>1. op[p] \in manifest
      BY <2>3 DEF Close, Carries, LocalTypes, Working, Ops
    <3>2. o # op[p] => journals'[o] = journals[o]
      BY <2>3 DEF StoreTypes
    <3> QED BY <1>2, <1>6, <3>1, <3>2 DEF ManifestInv
  <2> QED BY <2>1, <2>2, <2>3, JournalFrame
<1> QED BY <1>4, <1>5, <1>6 DEF ManifestInv

(* Only a rename brings a file into the archive, and its plan names it.     *)
LEMMA NamedStep ==
  ASSUME Types, NamedInv, NEW p \in Procs, Carries(p), Step(p)
  PROVE  NamedInv'
<1> USE DEF Types
<1> DEFINE Named(f) == \E o \in Ops : journals[o].state # "none" /\ f \in Entries(journals[o].plan)
<1>1. BooksGrow
  BY BooksGrowing
<1>2. \A f \in Files : Named(f) => Named(f)'
  BY <1>1 DEF BooksGrow
<1>3. archived' = archived \/ \E f \in First(left[p]) :
        Rename(p) /\ archived' = [archived EXCEPT ![f] = active[f]]
  BY DEF Step, Execute, Resume, Plan, Acquire, Fresh, Look, Hash, Rename, Verify,
     Manifest, Rebuild, Merge, Close, Crash, Fail
<1>4. ASSUME NEW f \in First(left[p]), Rename(p) PROVE Named(f)
  <2>1. /\ op[p] \in Ops /\ journals[op[p]].state # "none" /\ plan[p] = journals[op[p]].plan
        /\ left[p] \subseteq Entries(plan[p])
    BY <1>4 DEF Rename, Carries, AtWork, Moving, LocalTypes, Working, Ops
  <2>2. f \in Entries(plan[p])
    BY <2>1, FirstIn
  <2> QED BY <2>1, <2>2
<1>5. ASSUME NEW g \in Files, archived'[g] # 0 PROVE Named(g)
  <2>1. CASE archived'[g] = archived[g]
    BY <1>5, <2>1 DEF NamedInv
  <2>2. CASE archived'[g] # archived[g]
    BY <1>3, <1>4, <1>5, <2>2 DEF StoreTypes, Plans
  <2> QED BY <2>1, <2>2
<1>6. \A f \in Files : archived'[f] # 0 => Named(f)'
  BY <1>2, <1>5
<1> QED BY <1>6 DEF NamedInv

LEMMA RestoreStep ==
  ASSUME Types, FlagInv, IdleInv, RestoreInv, Next
  PROVE  RestoreInv'
<1>1. CASE Client
  BY <1>1, ClientFrame DEF RestoreInv, ManifestInv, NamedInv, Carries, Rebuilt, books, lock, local
<1>2. ASSUME NEW p \in Procs, Step(p) PROVE RestoreInv'
  BY <1>2, ManifestStep, NamedStep, OwnCarries, OthersCarry DEF RestoreInv
<1> QED BY <1>1, <1>2 DEF Next, Client

(* A merge that two processes have lost is restored by rebuild_index: every *)
(* file in the archive, and every file in the index, is named by a manifest *)
(* or, not yet, by a journal that is to be resumed.                         *)
THEOREM RebuildIsComplete == Spec => []RebuildRestores
<1>1. Init => FlagInv /\ IdleInv /\ RestoreInv
  BY DEF Init, FlagInv, IdleInv, RestoreInv, ManifestInv, NamedInv, Carries, NoPlan, Moving,
     AtWork, Rebuilt
<1>2. Types /\ FlagInv /\ IdleInv /\ RestoreInv /\ [Next]_vars =>
        FlagInv' /\ IdleInv' /\ RestoreInv'
  <2> SUFFICES ASSUME Types, FlagInv, IdleInv, RestoreInv, [Next]_vars
               PROVE  FlagInv' /\ IdleInv' /\ RestoreInv'
    OBVIOUS
  <2>1. CASE Next
    BY <2>1, FlagStep, IdleStep, RestoreStep
  <2>2. CASE UNCHANGED vars
    BY <2>2 DEF vars, rule, books, lock, local, FlagInv, Candidates, IdleInv, RestoreInv,
       ManifestInv, NamedInv, Carries, Rebuilt
  <2> QED BY <2>1, <2>2
<1>3. Types /\ RestoreInv => RebuildRestores
  <2> SUFFICES ASSUME Types, RestoreInv, NEW f \in Files, archived[f] # 0
               PROVE  f \in Rebuilt \/ \E o \in Pending : f \in Entries(journals[o].plan)
    BY DEF RebuildRestores, RestoreInv, ManifestInv
  <2>1. PICK o \in Ops : journals[o].state # "none" /\ f \in Entries(journals[o].plan)
    BY DEF RestoreInv, NamedInv
  <2>2. o \in Pending \/ o \in manifest
    BY <2>1 DEF Pending, RestoreInv, ManifestInv, Types, StoreTypes, Journals
  <2> QED BY <2>1, <2>2 DEF Rebuilt
<1> QED BY <1>1, <1>2, <1>3, TypesInvariant, PTL DEF Spec
==============================================================================
