------------------------ MODULE ClearanceQueueProofs -------------------------
(****************************************************************************)
(* Proofs about ClearanceQueue for any set of agents, any assignment of     *)
(* commands to them and any faults.                                         *)
(*                                                                          *)
(* The argument for NoLoss: a command removes its source only after it has  *)
(* read its destination back, and the copy it read back can be missing      *)
(* later only because a closing command moved it on; a copy in a closed     *)
(* lane that was read back stays for ever.  What makes this an induction is *)
(* who may own a lane: while nothing further along has been read back, at   *)
(* most one command is between creating that lane's file and reading it     *)
(* back, and it finds its own file there.                                   *)
(*                                                                          *)
(* The argument for DeniedNotActed and OneCopyAtRest, which assume one      *)
(* decider and no fault: a decision in progress finds the outbox copy       *)
(* undecided until it ends itself, and whoever acts on the packet found it  *)
(* cleared, so a decision and an action are never under way together.       *)
(****************************************************************************)
EXTENDS ClearanceQueue, FiniteSetTheorems, TLAPS

Unread == {"write", "verify", "rollback"}

(* Agent a is between the creation of lane l's file and its last step.      *)
Owns(a, l) == pc[a] \in Unread \cup {"remove"} /\ Dest(cmd[a]) = l

(* Something was read back in a closed lane; in a lane past the outbox.     *)
Shut  == verified \cap Closed # {}
Moved == verified \cap {"in_progress", "done", "failed"} # {}

(* What an agent knows about itself.                                        *)
Local(a) ==
  /\ pc[a] # "idle" => /\ cmd[a] \in Does[a] \cap Commands
                       /\ Valid(Dest(cmd[a]), result[a])
  /\ pc[a] \in {"open", "fill", "replace"} => cmd[a] \in InPlace
  /\ pc[a] \in Unread \cup {"create", "remove"} => cmd[a] \notin InPlace
  /\ pc[a] = "remove" => cmd[a] # "request" /\ Dest(cmd[a]) \in verified
  /\ pc[a] \notin {"write", "fill"} => fd[a] = "none"
  /\ pc[a] = "write" => fd[a] \in {Dest(cmd[a]), "gone"}
  /\ pc[a] = "fill" => fd[a] \in {"tmp", "outbox", "gone"}
LocalInv == \A a \in Agents : Local(a)

(* A file in a closed lane belongs to the command that created it until it  *)
(* has been read back, and to nobody afterwards.                            *)
ClosedLane(l) ==
  /\ l \in verified => /\ Valid(l, file[l])
                       /\ \A a \in Agents : Owns(a, l) => pc[a] = "remove"
  /\ \A a \in Agents : Owns(a, l) =>
       /\ file[l] # Absent
       /\ pc[a] = "write" => fd[a] = l
       /\ \A b \in Agents : Owns(b, l) => a = b
ClosedInv == \A l \in Closed : ClosedLane(l)

(* The same for the claimed copy, as long as nothing was closed.            *)
ClaimLane ==
  /\ "in_progress" \in verified =>
       /\ Valid("in_progress", file["in_progress"])
       /\ \A a \in Agents : Owns(a, "in_progress") => pc[a] = "remove"
  /\ \A a \in Agents : Owns(a, "in_progress") =>
       /\ file["in_progress"] # Absent
       /\ pc[a] = "write" => fd[a] = "in_progress"
       /\ \A b \in Agents : Owns(b, "in_progress") => a = b
       /\ claimants = {}
  /\ claimants # {} => "in_progress" \in verified
  /\ \A x, y \in claimants : x = y
ClaimInv == ~Shut => ClaimLane

(* With one decider the temporary file is that decider's, or nobody's.      *)
Tmp(a) == /\ pc[a] = "fill" => fd[a] = "tmp" /\ file["tmp"] = Partial
          /\ pc[a] = "replace" => file["tmp"] = result[a]
TmpInv == \A a \in Agents : Tmp(a)

(* The same for the request, as long as nothing was claimed or closed.      *)
RequestLane ==
  /\ "outbox" \in verified => /\ Valid("outbox", file["outbox"])
                             /\ \A a \in Agents : ~Owns(a, "outbox")
  /\ \A a \in Agents : Owns(a, "outbox") =>
       /\ file["outbox"] # Absent
       /\ \A b \in Agents : Owns(b, "outbox") => a = b
RequestInv == ~Moved => RequestLane

(* The inductive invariants: without and with the one-decider hypothesis.   *)
CoreInv == TypeOK /\ LocalInv /\ ClosedInv /\ ClaimInv
LossInv == CoreInv /\ (SoleDecider => TmpInv /\ RequestInv)

------------------------------------------------------------------------------
(* Where a command reads and writes.                                        *)
LEMMA CommandShape ==
  ASSUME NEW c \in Commands
  PROVE  /\ Dest(c) \in Lanes
         /\ Source(c) \in {"outbox", "in_progress"}
         /\ Dest(c) = "outbox" <=> c \in InPlace \cup {"request"}
         /\ Dest(c) = "in_progress" <=> c = "claim"
         /\ Source(c) = "in_progress" => Dest(c) \in Closed
BY DEF Commands, Dest, Source, Lanes, InPlace, Closed

(* A valid file is a packet, and there is one for every status a command    *)
(* gives.                                                                   *)
LEMMA FileShape ==
  /\ \A l, f : Valid(l, f) => f \in Packets /\ f # Absent /\ f # Partial
  /\ Absent \in Files /\ Partial \in Files /\ Absent # Partial
  /\ Packets \subseteq Files
  /\ "none" \notin Commands
BY DEF Commands, Valid, Packets, Statuses, Absent, Partial, Files

LEMMA BuildShape ==
  ASSUME NEW c \in Commands, NEW f \in Files
  PROVE  Build(c, f) \in Packets
BY DEF Build, NewStatus, Commands, Packets, Statuses, Files, Absent, Partial

(* Who issues what under which faults does not change.                      *)
LEMMA SetupStays ==
  ASSUME NEW a \in Agents, Step(a)
  PROVE  UNCHANGED setup
BY DEF Step, Request, Load, Create, Write, Verify, Rollback, RemoveSource, OpenTmp,
       FillTmp, ReplaceTmp, InPlaceFails, Crash

LEMMA TypeInit == Init => TypeOK
BY FileShape DEF Init, TypeOK, Paths, Lanes, Commands

LEMMA TypeNext == TypeOK /\ [Next]_vars => TypeOK'
<1> SUFFICES ASSUME TypeOK, [Next]_vars PROVE TypeOK'
  OBVIOUS
<1>0. setup' \in Setups
  BY SetupStays DEF TypeOK, Next, vars
<1> USE FileShape, <1>0
<1>1. CASE UNCHANGED vars
  BY <1>1 DEF TypeOK, vars
<1>2. ASSUME NEW a \in Agents, Request(a) PROVE TypeOK'
  <2>1. Build("request", Absent) \in Packets
    BY BuildShape DEF Commands
  <2>. QED BY <1>2, <2>1 DEF TypeOK, Request, Goto, Commands
<1>3. ASSUME NEW a \in Agents, NEW c \in Commands, Load(a, c) PROVE TypeOK'
  <2>1. Build(c, file[Source(c)]) \in Packets
    BY BuildShape, CommandShape DEF TypeOK, Paths, Lanes
  <2>2. c # "none"
    OBVIOUS
  <2>. QED BY <1>3, <2>1, <2>2 DEF TypeOK, Load, Goto
<1>4. ASSUME NEW a \in Agents, Create(a) PROVE TypeOK'
  BY CommandShape, <1>4 DEF TypeOK, Create, Paths, Lanes, Goto, Continue, Return
<1>5. ASSUME NEW a \in Agents, Write(a) PROVE TypeOK'
  BY CommandShape, <1>5 DEF TypeOK, Write, Paths, Lanes, Goto, Continue, Return, Unlink, FdsAfterUnlink
<1>6. ASSUME NEW a \in Agents, Verify(a) PROVE TypeOK'
  <2>1. Dest(cmd[a]) \in Lanes
    BY CommandShape, <1>6 DEF TypeOK, Verify
  <2>2. CASE Return(a)
    BY <1>6, <2>1, <2>2 DEF TypeOK, Verify, Goto, Return
  <2>3. CASE Continue(a, "remove") \/ Continue(a, "rollback")
    BY <1>6, <2>1, <2>3 DEF TypeOK, Verify, Goto, Continue
  <2>. QED BY <1>6, <2>2, <2>3 DEF Verify
<1>7. ASSUME NEW a \in Agents, Rollback(a) PROVE TypeOK'
  BY CommandShape, <1>7 DEF TypeOK, Rollback, Paths, Lanes, Goto, Return, Unlink, FdsAfterUnlink
<1>8. ASSUME NEW a \in Agents, RemoveSource(a) PROVE TypeOK'
  BY CommandShape, <1>8 DEF TypeOK, RemoveSource, Paths, Lanes, Goto, Return, Unlink, FdsAfterUnlink
<1>9. ASSUME NEW a \in Agents, OpenTmp(a) PROVE TypeOK'
  BY <1>9 DEF TypeOK, OpenTmp, Goto, Continue, Paths
<1>10. ASSUME NEW a \in Agents, FillTmp(a) PROVE TypeOK'
  BY <1>10 DEF TypeOK, FillTmp, Goto, Continue
<1>11. ASSUME NEW a \in Agents, ReplaceTmp(a) PROVE TypeOK'
  BY <1>11 DEF TypeOK, ReplaceTmp, Goto, Return, Paths, Lanes
<1>12. ASSUME NEW a \in Agents, InPlaceFails(a) PROVE TypeOK'
  BY <1>12 DEF TypeOK, InPlaceFails, Goto, Return, Unlink, FdsAfterUnlink
<1>13. ASSUME NEW a \in Agents, Crash(a) PROVE TypeOK'
  BY <1>13 DEF TypeOK, Crash, Goto, Return
<1>. QED
  BY <1>1, <1>2, <1>3, <1>4, <1>5, <1>6, <1>7, <1>8, <1>9, <1>10, <1>11, <1>12,
     <1>13 DEF Next, Step

(* Every variable keeps its shape, for any agents, roles and faults.        *)
THEOREM TypeCorrect == Spec => []TypeOK
BY TypeInit, TypeNext, PTL DEF Spec

(* A step of one agent leaves the others where they are; at most it moves   *)
(* or orphans the file they have open.                                      *)
LEMMA Frame ==
  ASSUME TypeOK, NEW a \in Agents, Step(a), NEW x \in Agents, x # a
  PROVE  /\ pc'[x] = pc[x] /\ cmd'[x] = cmd[x] /\ result'[x] = result[x]
         /\ fd'[x] \in {fd[x], "gone", "outbox"}
         /\ fd'[x] = "outbox" => fd[x] \in {"tmp", "outbox"}
         /\ fd'[x] = "gone" => fd[x] # "none"
         /\ fd'[x] # fd[x] => \/ fd[x] \in {"tmp", "outbox"}
                             \/ file'[fd[x]] = Absent
<1> USE DEF TypeOK, Goto, Continue, Return, FdsAfterUnlink
<1>1. CASE Request(a) \/ Create(a) \/ Verify(a) \/ Crash(a)
  BY <1>1 DEF Request, Create, Verify, Crash
<1>2. CASE \E c \in Commands : Load(a, c)
  BY <1>2 DEF Load
<1>3. CASE (\E p \in Paths : Unlink(p, a)) /\ Return(a)
  BY <1>3 DEF Unlink, Paths, Lanes
<1>4. CASE OpenTmp(a) \/ FillTmp(a) \/ InPlaceFails(a)
  BY <1>3, <1>4 DEF OpenTmp, FillTmp, InPlaceFails, Paths
<1>5. CASE ReplaceTmp(a)
  BY <1>5 DEF ReplaceTmp
<1>6. CASE Write(a) \/ Rollback(a) \/ RemoveSource(a)
  <2>1. Dest(cmd[a]) \in Paths /\ Source(cmd[a]) \in Paths
    BY <1>6, CommandShape DEF Write, Rollback, RemoveSource, Paths, Lanes
  <2>. QED BY <1>3, <1>6, <2>1 DEF Write, Rollback, RemoveSource
<1>. QED BY <1>1, <1>2, <1>4, <1>5, <1>6 DEF Step

(* What was once read back stays on record.                                 *)
LEMMA VerifiedGrows ==
  ASSUME NEW a \in Agents, Step(a)
  PROVE  verified \subseteq verified'
BY DEF Step, Request, Load, Create, Write, Verify, Rollback, RemoveSource, OpenTmp,
       FillTmp, ReplaceTmp, InPlaceFails, Crash

(* Each agent's own facts survive every step, its own and the others'.      *)
LEMMA LocalNext ==
  ASSUME TypeOK, LocalInv, NEW a \in Agents, Step(a), UNCHANGED Does, NEW x \in Agents
  PROVE  Local(x)'
<1> USE FileShape, CommandShape DEF Local, Unread
<1>0. verified \subseteq verified'
  BY VerifiedGrows
<1>1. CASE x # a
  <2>1. Local(x) /\ (pc[x] # "idle" => Dest(cmd[x]) # "tmp")
    BY DEF LocalInv, TypeOK, Lanes
  <2>2. /\ pc'[x] = pc[x] /\ cmd'[x] = cmd[x] /\ result'[x] = result[x]
        /\ fd'[x] \in {fd[x], "gone", "outbox"}
        /\ fd'[x] = "outbox" => fd[x] \in {"tmp", "outbox"}
        /\ fd'[x] = "gone" => fd[x] # "none"
    BY <1>1, Frame
  <2>. QED BY <1>0, <2>1, <2>2
<1>2. CASE x = a
  <2> USE <1>2 DEF LocalInv, TypeOK, Goto, Continue, Return, Unlink, FdsAfterUnlink
  <2>1. CASE Request(a)
    <3>1. Valid(Dest("request"), Build("request", Absent))
      BY DEF Dest, Build, NewStatus, Valid, Packets, Statuses, QueueStatus, Absent
    <3>. QED BY <2>1, <3>1 DEF Request, Commands, InPlace
  <2>2. CASE \E c \in Commands : Load(a, c)
    BY <2>2 DEF Load
  <2>3. CASE Create(a)
    BY <2>3 DEF Create
  <2>4. CASE Write(a)
    BY <2>4 DEF Write
  <2>5. CASE Verify(a)
    BY <2>5 DEF Verify
  <2>6. CASE Rollback(a) \/ RemoveSource(a) \/ InPlaceFails(a) \/ Crash(a)
    BY <2>6 DEF Rollback, RemoveSource, InPlaceFails, Crash
  <2>7. CASE OpenTmp(a) \/ FillTmp(a)
    BY <2>7 DEF OpenTmp, FillTmp
  <2>8. CASE ReplaceTmp(a)
    BY <2>8 DEF ReplaceTmp
  <2>. QED BY <2>1, <2>2, <2>3, <2>4, <2>5, <2>6, <2>7, <2>8 DEF Step
<1>. QED BY <1>1, <1>2

(* Outside the outbox a lane's file changes only when its owner creates,    *)
(* writes or removes it, or when it is the source of a finished command.    *)
LEMMA LaneFrame ==
  ASSUME TypeOK, LocalInv, NEW a \in Agents, Step(a),
         NEW l \in {"in_progress", "done", "failed"}, file'[l] # file[l]
  PROVE  /\ cmd[a] \in Commands
         /\ \/ Create(a) /\ Dest(cmd[a]) = l /\ file[l] = Absent
            \/ Write(a) /\ Dest(cmd[a]) = l
            \/ Rollback(a) /\ Dest(cmd[a]) = l
            \/ RemoveSource(a) /\ Source(cmd[a]) = l /\ l = "in_progress"
<1> USE FileShape DEF TypeOK, Paths, Lanes
<1>1. CASE Request(a) \/ (\E c \in Commands : Load(a, c)) \/ Verify(a) \/ Crash(a)
  BY <1>1 DEF Request, Load, Verify, Crash
<1>2. CASE Create(a)
  BY <1>2, CommandShape DEF Create
<1>3. CASE Write(a)
  BY <1>3, CommandShape DEF Write, Unlink
<1>4. CASE Rollback(a)
  BY <1>4, CommandShape DEF Rollback, Unlink
<1>5. CASE RemoveSource(a)
  BY <1>5, CommandShape DEF RemoveSource, Unlink
<1>6. CASE OpenTmp(a) \/ ReplaceTmp(a) \/ InPlaceFails(a)
  BY <1>6 DEF OpenTmp, ReplaceTmp, InPlaceFails, Unlink
<1>7. CASE FillTmp(a)
  BY <1>7 DEF FillTmp, LocalInv, Local
<1>. QED BY <1>1, <1>2, <1>3, <1>4, <1>5, <1>6, <1>7 DEF Step

(* Ownership of a lane begins with Create and goes on with the steps of     *)
(* that command; a lane becomes read back by its owner's Verify.            *)
LEMMA OwnsFrame ==
  ASSUME TypeOK, LocalInv, NEW a \in Agents, Step(a), NEW l \in Lanes
  PROVE  /\ \A x \in Agents \ {a} : Owns(x, l)' <=> Owns(x, l)
         /\ Owns(a, l)' => \/ /\ Create(a) /\ Dest(cmd[a]) = l /\ file[l] = Absent
                              /\ pc'[a] = "write" /\ fd'[a] = l
                              /\ file'[l] # Absent
                           \/ /\ Write(a) /\ Owns(a, l) /\ pc[a] = "write"
                              /\ pc'[a] = "verify"
                           \/ /\ Verify(a) /\ Owns(a, l) /\ pc[a] = "verify"
                              /\ pc'[a] \in {"rollback", "remove"}
         /\ l \in verified' \ verified =>
              Verify(a) /\ Owns(a, l) /\ pc[a] = "verify" /\ Valid(l, file[l])
<1> USE FileShape DEF TypeOK, Owns, Unread
<1>1. \A x \in Agents \ {a} : Owns(x, l)' <=> Owns(x, l)
  BY Frame
<1>2. CASE Request(a) \/ (\E c \in Commands : Load(a, c)) \/ Crash(a)
  BY <1>1, <1>2 DEF Request, Load, Crash, Goto, Return
<1>3. CASE Create(a)
  BY <1>1, <1>3, CommandShape DEF Create, Goto, Return, Continue, Paths
<1>4. CASE Write(a)
  BY <1>1, <1>4 DEF Write, Goto, Return, Continue
<1>5. CASE Verify(a)
  BY <1>1, <1>5 DEF Verify, Goto, Return, Continue
<1>6. CASE Rollback(a) \/ RemoveSource(a)
  BY <1>1, <1>6 DEF Rollback, RemoveSource, Goto, Return
<1>7. CASE OpenTmp(a) \/ FillTmp(a) \/ ReplaceTmp(a) \/ InPlaceFails(a)
  BY <1>1, <1>7 DEF OpenTmp, FillTmp, ReplaceTmp, InPlaceFails, Goto, Return, Continue
<1>. QED BY <1>2, <1>3, <1>4, <1>5, <1>6, <1>7 DEF Step

LEMMA VerifyEffect ==
  ASSUME TypeOK, NEW a \in Agents, Verify(a)
  PROVE  /\ file' = file /\ claimants' = claimants /\ pc[a] = "verify"
         /\ pc'[a] = "remove" => verified' = verified \cup {Dest(cmd[a])}
BY DEF Verify, Return, Continue, Goto, TypeOK

LEMMA ClosedNext ==
  ASSUME TypeOK, LocalInv, ClosedInv, NEW a \in Agents, Step(a), NEW l \in Closed
  PROVE  ClosedLane(l)'
<1> USE FileShape DEF Closed
<1>1. ClosedLane(l) /\ l \in {"in_progress", "done", "failed"} /\ l \in Lanes
  BY DEF ClosedInv, Lanes
<1>2. \A x \in Agents \ {a} : /\ pc'[x] = pc[x]
                              /\ Owns(x, l)' <=> Owns(x, l)
                              /\ fd[x] = l /\ file'[l] # Absent => fd'[x] = l
  BY <1>1, Frame, OwnsFrame
<1>3. verified \subseteq verified'
  BY VerifiedGrows
<1>4. CASE ~Owns(a, l) /\ ~(Create(a) /\ Dest(cmd[a]) = l)
  <2>1. file'[l] = file[l]
    BY <1>1, <1>4, LaneFrame DEF Write, Rollback, Owns, Unread
  <2>2. ~Owns(a, l)'
    BY <1>1, <1>4, OwnsFrame
  <2>3. l \in verified' <=> l \in verified
    BY <1>1, <1>3, <1>4, OwnsFrame
  <2>. QED BY <1>1, <1>2, <2>1, <2>2, <2>3 DEF ClosedLane
<1>5. CASE Create(a) /\ Dest(cmd[a]) = l
  <2>1. CASE pc'[a] = "write"
    <3>1. /\ file'[l] = Partial /\ fd'[a] = l /\ pc'[a] = "write"
          /\ verified' = verified /\ file[l] = Absent
      BY <1>1, <1>5, <2>1 DEF Create, Continue, Return, Goto, TypeOK, Paths
    <3>. QED BY <1>1, <1>2, <2>1, <3>1 DEF ClosedLane
  <2>2. CASE pc'[a] # "write"
    <3>1. file'[l] = file[l] /\ ~Owns(a, l)' /\ verified' = verified
      BY <1>1, <1>5, <2>2 DEF Create, Continue, Return, Goto, TypeOK, Owns, Unread
    <3>. QED BY <1>1, <1>2, <3>1 DEF ClosedLane
  <2>. QED BY <2>1, <2>2
<1>6. CASE Owns(a, l)
  <2>1. \A x \in Agents \ {a} : ~Owns(x, l)'
    BY <1>1, <1>2, <1>6 DEF ClosedLane
  <2>2. l \in verified => pc[a] = "remove"
    BY <1>1, <1>6 DEF ClosedLane
  <2>3. CASE Write(a) /\ Owns(a, l)'
    <3>1. /\ pc[a] = "write" /\ pc'[a] = "verify" /\ verified' = verified
          /\ fd[a] = l /\ Dest(cmd[a]) = l
      BY <1>1, <1>6, <2>3, OwnsFrame DEF Write, Owns, ClosedLane, Verify, Create
    <3>2. file'[l] = result[a] /\ result[a] # Absent
      BY <1>1, <2>3, <3>1 DEF Write, Return, Goto, TypeOK, LocalInv, Local, Paths
    <3>. QED BY <1>1, <2>1, <2>2, <3>1, <3>2 DEF ClosedLane
  <2>4. CASE Verify(a) /\ Owns(a, l)'
    <3>1. file' = file /\ pc[a] = "verify" /\ pc'[a] \in {"rollback", "remove"}
      BY <1>1, <1>6, <2>4, OwnsFrame, VerifyEffect DEF Write
    <3>2. CASE pc'[a] = "remove"
      BY <1>1, <1>6, <2>1, <2>2, <2>4, <3>1, <3>2
         DEF ClosedLane, Verify, Continue, Return, Goto, TypeOK
    <3>3. CASE pc'[a] = "rollback"
      <4>1. verified' = verified
        BY <2>4, <3>3 DEF Verify, Continue, Return, Goto, TypeOK
      <4>. QED BY <1>1, <1>6, <2>1, <2>2, <3>1, <3>3, <4>1 DEF ClosedLane
    <3>. QED BY <3>1, <3>2, <3>3
  <2>5. CASE ~Owns(a, l)'
    <3>1. l \in verified' <=> l \in verified
      <4>1. Verify(a) => cmd[a] # "request"
        BY <1>6 DEF Owns, Dest
      <4>2. ~Verify(a)
        BY <1>6, <2>5, <4>1 DEF Owns, Verify, Continue, Return, Goto, TypeOK, Unread
      <4>. QED BY <1>1, <1>3, <4>2, OwnsFrame
    <3>2. l \in verified => file'[l] = file[l]
      BY <1>1, <2>2, LaneFrame DEF Create, Write, Rollback
    <3>. QED BY <1>1, <2>1, <2>5, <3>1, <3>2 DEF ClosedLane
  <2>6. CASE Owns(a, l)' /\ ~Write(a) /\ ~Verify(a)
    BY <1>1, <1>6, <2>6, OwnsFrame DEF Owns, Unread, Create
  <2>. QED BY <2>3, <2>4, <2>5, <2>6
<1>. QED BY <1>4, <1>5, <1>6

LEMMA ClaimNext ==
  ASSUME TypeOK, LocalInv, ClaimInv, NEW a \in Agents, Step(a)
  PROVE  ClaimInv'
<1> DEFINE l == "in_progress"
<1> SUFFICES ASSUME ~Shut' PROVE ClaimLane'
  BY DEF ClaimInv
<1> USE FileShape
<1> HIDE DEF l
<1>1. l \in {"in_progress", "done", "failed"} /\ l \in Lanes /\ l = "in_progress"
  BY DEF Lanes, l
<1>2. verified \subseteq verified'
  BY VerifiedGrows
<1>3. ClaimLane /\ ~Shut
  BY <1>2 DEF Shut, ClaimInv
<1>4. \A x \in Agents \ {a} : /\ pc'[x] = pc[x]
                              /\ Owns(x, l)' <=> Owns(x, l)
                              /\ fd[x] = l /\ file'[l] # Absent => fd'[x] = l
  BY <1>1, Frame, OwnsFrame
<1>5. ~(RemoveSource(a) /\ Source(cmd[a]) = l)
  BY <1>1, <1>3, CommandShape DEF RemoveSource, LocalInv, Local, Shut
<1>6. claimants' # claimants =>
        claimants' = claimants \cup {a} /\ Owns(a, l) /\ ~Owns(a, l)'
  <2>1. RemoveSource(a) => ~Owns(a, l)'
    BY DEF RemoveSource, Return, Goto, Owns, Unread, TypeOK
  <2>2. ASSUME RemoveSource(a), cmd[a] = "claim" PROVE Owns(a, l)
    BY <1>1, <2>2 DEF RemoveSource, Owns, Dest
  <2>3. claimants' # claimants => /\ RemoveSource(a) /\ cmd[a] = "claim"
                                  /\ claimants' = claimants \cup {a}
    BY DEF Step, Request, Load, Create, Write, Verify, Rollback, RemoveSource,
       OpenTmp, FillTmp, ReplaceTmp, InPlaceFails, Crash
  <2>. QED BY <2>1, <2>2, <2>3
<1>7. CASE ~Owns(a, l) /\ ~(Create(a) /\ Dest(cmd[a]) = l)
  <2>1. file'[l] = file[l]
    BY <1>1, <1>5, <1>7, LaneFrame DEF Write, Rollback, Owns, Unread
  <2>2. ~Owns(a, l)'
    BY <1>1, <1>7, OwnsFrame
  <2>3. l \in verified' <=> l \in verified
    BY <1>1, <1>2, <1>7, OwnsFrame
  <2>. QED BY <1>1, <1>3, <1>4, <1>6, <1>7, <2>1, <2>2, <2>3 DEF ClaimLane
<1>8. CASE Create(a) /\ Dest(cmd[a]) = l
  <2>0. claimants' = claimants /\ verified' = verified
    BY <1>8 DEF Create
  <2>1. CASE pc'[a] = "write"
    <3>1. file'[l] = Partial /\ fd'[a] = l /\ pc'[a] = "write" /\ file[l] = Absent
      BY <1>1, <1>8, <2>1 DEF Create, Continue, Return, Goto, TypeOK, Paths
    <3>. QED BY <1>1, <1>3, <1>4, <2>0, <2>1, <3>1 DEF ClaimLane
  <2>2. CASE pc'[a] # "write"
    <3>1. file'[l] = file[l] /\ ~Owns(a, l)'
      BY <1>1, <1>8, <2>2 DEF Create, Continue, Return, Goto, TypeOK, Owns, Unread
    <3>. QED BY <1>1, <1>3, <1>4, <2>0, <3>1 DEF ClaimLane
  <2>. QED BY <2>1, <2>2
<1>9. CASE Owns(a, l)
  <2>1. \A x \in Agents \ {a} : ~Owns(x, l)'
    BY <1>1, <1>3, <1>4, <1>9 DEF ClaimLane
  <2>2. (l \in verified => pc[a] = "remove") /\ claimants = {}
    BY <1>1, <1>3, <1>9 DEF ClaimLane
  <2>3. CASE Write(a) /\ Owns(a, l)'
    <3>1. /\ pc[a] = "write" /\ pc'[a] = "verify" /\ verified' = verified
          /\ fd[a] = l /\ Dest(cmd[a]) = l /\ claimants' = claimants
      BY <1>1, <1>3, <1>9, <2>3, OwnsFrame DEF Write, Owns, ClaimLane, Verify, Create
    <3>2. file'[l] = result[a] /\ result[a] # Absent
      BY <1>1, <2>3, <3>1 DEF Write, Return, Goto, TypeOK, LocalInv, Local, Paths
    <3>. QED BY <1>1, <2>1, <2>2, <3>1, <3>2 DEF ClaimLane
  <2>4. CASE Verify(a) /\ Owns(a, l)'
    <3>1. /\ file' = file /\ claimants' = claimants
          /\ pc[a] = "verify" /\ pc'[a] \in {"rollback", "remove"}
      BY <1>1, <1>9, <2>4, OwnsFrame, VerifyEffect DEF Write
    <3>2. CASE pc'[a] = "remove"
      BY <1>1, <1>3, <1>9, <2>1, <2>2, <2>4, <3>1, <3>2
         DEF ClaimLane, Verify, Continue, Return, Goto, TypeOK
    <3>3. CASE pc'[a] = "rollback"
      <4>1. verified' = verified
        BY <2>4, <3>3 DEF Verify, Continue, Return, Goto, TypeOK
      <4>. QED BY <1>1, <1>3, <1>9, <2>1, <2>2, <3>1, <3>3, <4>1 DEF ClaimLane
    <3>. QED BY <3>1, <3>2, <3>3
  <2>5. CASE ~Owns(a, l)'
    <3>1. l \in verified' <=> l \in verified
      <4>1. Verify(a) => cmd[a] # "request"
        BY <1>1, <1>9 DEF Owns, Dest
      <4>2. ~Verify(a)
        BY <1>9, <2>5, <4>1 DEF Owns, Verify, Continue, Return, Goto, TypeOK, Unread
      <4>. QED BY <1>1, <1>2, <4>2, OwnsFrame
    <3>2. l \in verified => file'[l] = file[l]
      BY <1>1, <1>5, <2>2, LaneFrame DEF Create, Write, Rollback
    <3>3. claimants' # claimants => l \in verified
      BY <1>1, <1>6, <2>2, <3>1, CommandShape DEF Step, Request, Load, Create, Write,
         Verify, Rollback, RemoveSource, OpenTmp, FillTmp, ReplaceTmp, InPlaceFails,
         Crash, LocalInv, Local, Owns
    <3>. QED BY <1>1, <1>3, <1>6, <2>1, <2>2, <2>5, <3>1, <3>2, <3>3 DEF ClaimLane
  <2>6. CASE Owns(a, l)' /\ ~Write(a) /\ ~Verify(a)
    BY <1>1, <1>9, <2>6, OwnsFrame DEF Owns, Unread, Create
  <2>. QED BY <2>3, <2>4, <2>5, <2>6
<1>. QED BY <1>7, <1>8, <1>9

(* Only an agent inside write_inplace touches the temporary file.           *)
LEMMA TmpFrame ==
  ASSUME TypeOK, LocalInv, NEW a \in Agents, Step(a),
         pc[a] \notin {"open", "fill", "replace"}
  PROVE  /\ file'["tmp"] = file["tmp"]
         /\ \A x \in Agents \ {a} : fd[x] = "tmp" => fd'[x] = "tmp"
<1> USE DEF TypeOK, Paths, Lanes, Unlink, FdsAfterUnlink
<1>1. CASE Request(a) \/ Create(a) \/ Verify(a) \/ Crash(a)
  BY <1>1, CommandShape DEF Request, Create, Verify, Crash
<1>2. CASE \E c \in Commands : Load(a, c)
  BY <1>2 DEF Load
<1>3. CASE Write(a) \/ Rollback(a) \/ RemoveSource(a)
  <2>1. /\ Dest(cmd[a]) \in Lanes /\ Source(cmd[a]) \in Lanes
    BY <1>3, CommandShape DEF Write, Rollback, RemoveSource
  <2>2. CASE Write(a)
    BY <2>1, <2>2 DEF Write
  <2>3. CASE Rollback(a) \/ RemoveSource(a)
    BY <2>1, <2>3 DEF Rollback, RemoveSource
  <2>. QED BY <1>3, <2>2, <2>3
<1>4. ~(OpenTmp(a) \/ FillTmp(a) \/ ReplaceTmp(a) \/ InPlaceFails(a))
  BY DEF OpenTmp, FillTmp, ReplaceTmp, InPlaceFails
<1>. QED BY <1>1, <1>2, <1>3, <1>4 DEF Step

LEMMA TmpNext ==
  ASSUME SoleDecider, TypeOK, LocalInv, TmpInv, NEW a \in Agents, Step(a),
         NEW x \in Agents
  PROVE  Tmp(x)'
<1> USE DEF Tmp
<1>1. CASE x # a
  <2>1. /\ pc'[x] = pc[x] /\ result'[x] = result[x] /\ Tmp(x)
    BY <1>1, Frame DEF TmpInv
  <2>2. SUFFICES ASSUME pc[x] \in {"fill", "replace"} PROVE Tmp(x)'
    BY <2>1
  <2>3. pc[a] \notin {"open", "fill", "replace"}
    BY <1>1, <2>2 DEF SoleDecider, LocalInv, Local
  <2>. QED BY <1>1, <2>1, <2>3, TmpFrame
<1>2. CASE x = a
  <2> USE <1>2 DEF TypeOK, Goto, Continue, Return, Paths
  <2>1. CASE pc'[a] = "fill"
    <3>1. OpenTmp(a)
      BY <2>1 DEF Step, Request, Load, Create, Write, Verify, Rollback, RemoveSource,
         FillTmp, ReplaceTmp, InPlaceFails, Crash
    <3>. QED BY <2>1, <3>1 DEF OpenTmp
  <2>2. CASE pc'[a] = "replace"
    <3>1. FillTmp(a)
      BY <2>2 DEF Step, Request, Load, Create, Write, Verify, Rollback, RemoveSource,
         OpenTmp, ReplaceTmp, InPlaceFails, Crash
    <3>2. fd[a] = "tmp" /\ file["tmp"] \notin Packets
      BY <3>1 DEF FillTmp, TmpInv, Partial, Packets, Statuses
    <3>. QED BY <2>2, <3>1, <3>2 DEF FillTmp
  <2>. QED BY <2>1, <2>2
<1>. QED BY <1>1, <1>2

LEMMA RequestNext ==
  ASSUME SoleDecider, TypeOK, LocalInv, TmpInv, RequestInv, NEW a \in Agents, Step(a)
  PROVE  RequestInv'
<1> DEFINE l == "outbox"
<1> SUFFICES ASSUME ~Moved' PROVE RequestLane'
  BY DEF RequestInv
<1> USE FileShape
<1> HIDE DEF l
<1>1. l \in Lanes /\ l = "outbox"
  BY DEF Lanes, l
<1>2. verified \subseteq verified'
  BY VerifiedGrows
<1>3. RequestLane /\ ~Moved
  BY <1>2 DEF Moved, RequestInv
<1>4. \A x \in Agents \ {a} : Owns(x, l)' <=> Owns(x, l)
  BY <1>1, OwnsFrame
<1>5. ~RemoveSource(a)
  BY <1>3, CommandShape DEF RemoveSource, LocalInv, Local, Moved, Lanes, InPlace
<1>6. CASE ReplaceTmp(a)
  <2>1. /\ file'[l] = result[a] /\ Valid(l, result[a]) /\ verified' = verified
    BY <1>1, <1>6, CommandShape
       DEF ReplaceTmp, TmpInv, Tmp, LocalInv, Local, TypeOK, Paths, Lanes
  <2>2. ~Owns(a, l)'
    BY <1>6 DEF ReplaceTmp, Return, Goto, TypeOK, Owns, Unread
  <2>. QED BY <1>1, <1>3, <1>4, <2>1, <2>2 DEF RequestLane
<1>7. CASE Create(a) /\ Dest(cmd[a]) = l
  <2>1. CASE pc'[a] = "write"
    <3>1. file'[l] = Partial /\ verified' = verified /\ file[l] = Absent
      BY <1>1, <1>7, <2>1 DEF Create, Return, Goto, TypeOK, Paths
    <3>. QED BY <1>1, <1>3, <1>4, <2>1, <3>1 DEF RequestLane
  <2>2. CASE pc'[a] # "write"
    <3>1. file'[l] = file[l] /\ ~Owns(a, l)' /\ verified' = verified
      BY <1>1, <1>7, <2>2 DEF Create, Continue, Return, Goto, TypeOK, Owns, Unread
    <3>. QED BY <1>1, <1>3, <1>4, <3>1 DEF RequestLane
  <2>. QED BY <2>1, <2>2
<1>8. CASE Owns(a, l)
  <2>1. (\A x \in Agents \ {a} : ~Owns(x, l)') /\ l \notin verified
    BY <1>1, <1>3, <1>4, <1>8 DEF RequestLane
  <2>2. CASE Write(a)
    <3>1. file'[l] # Absent \/ ~Owns(a, l)'
      BY <1>1, <1>3, <1>8, <2>2
         DEF Write, Return, Continue, Goto, TypeOK, LocalInv, Local, Owns, Unread,
             RequestLane, Paths
    <3>2. verified' = verified
      BY <2>2 DEF Write
    <3>. QED BY <1>1, <2>1, <3>1, <3>2 DEF RequestLane
  <2>3. CASE Verify(a)
    <3>1. file' = file
      BY <2>3 DEF Verify
    <3>2. l \in verified' => Valid(l, file[l]) /\ ~Owns(a, l)'
      BY <1>1, <1>8, <2>1, <2>3, CommandShape
         DEF Verify, Return, Continue, Goto, TypeOK, Owns, Unread, LocalInv, Local
    <3>. QED BY <1>1, <1>3, <1>8, <2>1, <3>1, <3>2 DEF RequestLane
  <2>4. CASE ~Write(a) /\ ~Verify(a)
    <3>1. ~Owns(a, l)' /\ l \notin verified'
      BY <1>1, <1>8, <2>1, <2>4, OwnsFrame DEF Create, Owns, Unread
    <3>. QED BY <1>1, <2>1, <3>1 DEF RequestLane
  <2>. QED BY <2>2, <2>3, <2>4
<1>9. CASE ~Owns(a, l) /\ ~ReplaceTmp(a) /\ ~(Create(a) /\ Dest(cmd[a]) = l)
  <2>1. ~Owns(a, l)' /\ (l \in verified' <=> l \in verified)
    BY <1>1, <1>2, <1>9, OwnsFrame
  <2>2. file'[l] = file[l]
    <3>1. CASE Request(a) \/ (\E c \in Commands : Load(a, c)) \/ Verify(a) \/ Crash(a)
      BY <3>1 DEF Request, Load, Verify, Crash
    <3>2. CASE Create(a) \/ Write(a) \/ Rollback(a)
      BY <1>1, <1>9, <3>2
         DEF Create, Write, Rollback, Unlink, Owns, Unread, TypeOK, Paths
    <3>3. CASE OpenTmp(a) \/ FillTmp(a) \/ InPlaceFails(a)
      BY <1>1, <3>3 DEF OpenTmp, FillTmp, InPlaceFails, Unlink, TypeOK, Paths, Lanes,
                        TmpInv, Tmp
    <3>. QED BY <1>5, <1>9, <3>1, <3>2, <3>3 DEF Step
  <2>. QED BY <1>1, <1>3, <1>4, <2>1, <2>2 DEF RequestLane
<1>. QED BY <1>6, <1>7, <1>8, <1>9

------------------------------------------------------------------------------
(* The invariants hold initially and are kept by every step.                *)
LEMMA CoreInit == Init => CoreInv
BY TypeInit DEF Init, CoreInv, LocalInv, Local, ClosedInv, ClosedLane, ClaimInv, ClaimLane,
                Owns, Unread

LEMMA CoreNext == CoreInv /\ [Next]_vars => CoreInv'
<1> SUFFICES ASSUME CoreInv, [Next]_vars PROVE CoreInv'
  OBVIOUS
<1>1. CASE UNCHANGED vars
  BY <1>1 DEF vars, CoreInv, TypeOK, LocalInv, Local, ClosedInv, ClosedLane, ClaimInv,
              ClaimLane, Owns, Shut, Does
<1>2. ASSUME NEW a \in Agents, Step(a) PROVE CoreInv'
  <2>0. UNCHANGED Does
    BY <1>2, SetupStays DEF Does
  <2>1. TypeOK'
    BY TypeNext DEF CoreInv
  <2>2. LocalInv'
    BY <1>2, <2>0, LocalNext DEF CoreInv, LocalInv
  <2>3. ClosedInv'
    BY <1>2, ClosedNext DEF CoreInv, ClosedInv
  <2>4. ClaimInv'
    BY <1>2, ClaimNext DEF CoreInv
  <2>. QED BY <2>1, <2>2, <2>3, <2>4 DEF CoreInv
<1>. QED BY <1>1, <1>2 DEF Next

(* While a packet is neither completed, failed nor denied, at most one      *)
(* agent has been told that its claim succeeded.                            *)
THEOREM ClaimIsExclusive == Spec => []SingleClaimWhileOpen
<1>1. CoreInv => SingleClaimWhileOpen
  <2> SUFFICES ASSUME CoreInv, ~Shut PROVE Cardinality(claimants) <= 1
    BY DEF SingleClaimWhileOpen, Shut
  <2>1. CASE claimants = {}
    BY <2>1, FS_EmptySet
  <2>2. ASSUME NEW x \in claimants PROVE Cardinality(claimants) <= 1
    <3>1. claimants = {x}
      BY <2>2 DEF CoreInv, ClaimInv, ClaimLane
    <3>2. Cardinality(claimants) = 1
      BY <3>1, FS_Singleton
    <3>. QED BY <3>2
  <2>. QED BY <2>1, <2>2
<1>. QED BY <1>1, CoreInit, CoreNext, PTL DEF Spec

(* A terminal copy that was read back is never changed nor removed.         *)
THEOREM ClosedStays == Spec => ClosedIsFinal
<1>1. CoreInv /\ [Next]_vars => [\A l \in Closed : l \in verified => file'[l] = file[l]]_vars
  <2> SUFFICES ASSUME CoreInv, NEW a \in Agents, Step(a), NEW l \in Closed, l \in verified
               PROVE  file'[l] = file[l]
    BY DEF Next
  <2>1. /\ file[l] # Absent /\ l \in {"in_progress", "done", "failed"} /\ l # "in_progress"
        /\ Owns(a, l) => pc[a] = "remove"
    BY FileShape DEF CoreInv, ClosedInv, ClosedLane, Closed
  <2>2. ~(Write(a) /\ Dest(cmd[a]) = l) /\ ~(Rollback(a) /\ Dest(cmd[a]) = l)
    BY <2>1 DEF Write, Rollback, Owns, Unread
  <2>. QED BY <2>1, <2>2, LaneFrame DEF CoreInv
<1>. QED BY <1>1, CoreInit, CoreNext, PTL DEF Spec, ClosedIsFinal

LEMMA LossInit == Init => LossInv
BY CoreInit DEF Init, LossInv, TmpInv, Tmp, RequestInv, RequestLane, Owns, Unread

LEMMA LossNext == LossInv /\ [Next]_vars => LossInv'
<1> SUFFICES ASSUME LossInv, [Next]_vars PROVE LossInv'
  OBVIOUS
<1>1. CASE UNCHANGED vars
  BY <1>1, CoreNext DEF vars, LossInv, TmpInv, Tmp, RequestInv, RequestLane, Owns, Moved,
                        SoleDecider, Does
<1>2. ASSUME NEW a \in Agents, Step(a) PROVE LossInv'
  <2>1. CoreInv' /\ (SoleDecider' <=> SoleDecider)
    BY <1>2, CoreNext, SetupStays DEF LossInv, SoleDecider, Does
  <2>2. SoleDecider => TmpInv'
    BY <1>2, TmpNext DEF LossInv, CoreInv, TmpInv
  <2>3. SoleDecider => RequestInv'
    BY <1>2, RequestNext DEF LossInv, CoreInv
  <2>. QED BY <2>1, <2>2, <2>3 DEF LossInv
<1>. QED BY <1>1, <1>2 DEF Next

(* With one decider, a packet whose request succeeded is never lost: under  *)
(* any races, crashes and I/O errors a valid copy is in some lane.          *)
THEOREM NeverLost == Spec => []NoLoss
<1>1. LossInv => NoLoss
  <2> SUFFICES ASSUME LossInv, SoleDecider, "outbox" \in verified
               PROVE  \E l \in Lanes : Valid(l, file[l])
    BY DEF NoLoss
  <2>1. CASE Shut
    BY <2>1 DEF LossInv, CoreInv, ClosedInv, ClosedLane, Shut, Closed, Lanes
  <2>2. CASE ~Shut /\ Moved
    <3>1. "in_progress" \in verified
      BY <2>2 DEF Shut, Moved, Closed
    <3>. QED BY <2>2, <3>1 DEF LossInv, CoreInv, ClaimInv, ClaimLane, Lanes
  <2>3. CASE ~Moved
    BY <2>3 DEF LossInv, RequestInv, RequestLane, Lanes
  <2>. QED BY <2>1, <2>2, <2>3
<1>. QED BY <1>1, LossInit, LossNext, PTL DEF Spec

------------------------------------------------------------------------------
(* The lease: a packet past the outbox, or about to be written there, that  *)
(* is active, complete or failed carries the clearance it was given.        *)
Leased(f) == f.status \in {"IN_PROGRESS", "DONE", "FAILED"} => f.cleared
LeaseInv == /\ \A l \in {"in_progress", "done", "failed"} : Leased(file[l])
            /\ \A a \in Agents : Leased(result[a])

LEMMA LeaseNext ==
  ASSUME TypeOK, LocalInv, LeaseInv, NEW a \in Agents, Step(a)
  PROVE  LeaseInv'
<1>1. ASSUME NEW x \in Agents PROVE Leased(result[x])'
  <2>1. CASE result'[x] = result[x]
    BY <2>1 DEF LeaseInv, Leased
  <2>2. CASE Request(a) /\ result'[x] # result[x]
    <3>1. result'[x] = Build("request", Absent)
      BY <2>2 DEF Request, TypeOK
    <3>. QED BY <3>1 DEF Leased, Build, NewStatus
  <2>3. ASSUME NEW c \in Commands, Load(a, c), result'[x] # result[x] PROVE Leased(result[x])'
    <3>1. /\ result'[x] = Build(c, file[Source(c)]) /\ Valid(Source(c), file[Source(c)])
          /\ Valid(Dest(c), Build(c, file[Source(c)])) /\ c # "request"
      BY <2>3 DEF Load, TypeOK
    <3>2. CASE c \in {"claim", "cta", "rfi", "dta"}
      BY <3>1, <3>2 DEF Leased, Build, NewStatus, Valid, Dest, QueueStatus
    <3>3. CASE c \in {"complete", "fail"}
      <4>1. Valid("in_progress", file["in_progress"]) /\ Source(c) = "in_progress"
        BY <3>1, <3>3 DEF Source
      <4>2. file["in_progress"].cleared
        BY <4>1 DEF Valid, QueueStatus
      <4>3. Build(c, file["in_progress"]).cleared
        BY <4>2 DEF Build
      <4>. QED BY <3>1, <4>1, <4>3 DEF Leased
    <3>. QED BY <3>1, <3>2, <3>3 DEF Commands
  <2>4. result'[x] # result[x] /\ ~Request(a) /\ ~(\E c \in Commands : Load(a, c))
          => result'[x] = Absent
    BY DEF Step, Create, Write, Verify, Rollback, RemoveSource, OpenTmp, FillTmp,
           ReplaceTmp, InPlaceFails, Crash, Return, Continue, TypeOK
  <2>. QED BY <2>1, <2>2, <2>3, <2>4 DEF Leased, Absent
<1>2. ASSUME NEW l \in {"in_progress", "done", "failed"} PROVE Leased(file[l])'
  <2>1. file'[l] \in {file[l], Partial, Absent, result[a]}
    <3>1. CASE file'[l] = file[l]
      BY <3>1
    <3>2. CASE file'[l] # file[l]
      BY <3>2, LaneFrame
         DEF Create, Write, Rollback, RemoveSource, Unlink, TypeOK, Paths, Lanes
    <3>. QED BY <3>1, <3>2
  <2>. QED BY <2>1 DEF LeaseInv, Leased, Partial, Absent
<1>. QED BY <1>1, <1>2 DEF LeaseInv

(* No interleaving makes a packet active, complete or failed that was not   *)
(* cleared by a CTA decision, under any faults and any number of deciders.  *)
THEOREM ActedOnlyIfCleared == Spec => []ClearedBeforeActed
<1>1. Init => LeaseInv
  BY DEF Init, LeaseInv, Leased, Absent, Paths, Lanes
<1>2. CoreInv /\ LeaseInv /\ [Next]_vars => LeaseInv'
  <2>1. LeaseInv /\ UNCHANGED vars => LeaseInv'
    BY DEF LeaseInv, Leased, vars
  <2>. QED BY <2>1, LeaseNext DEF CoreInv, Next
<1>3. LeaseInv => ClearedBeforeActed
  BY DEF LeaseInv, Leased, ClearedBeforeActed
<1>. QED BY <1>1, <1>2, <1>3, CoreInit, CoreNext, PTL DEF Spec

------------------------------------------------------------------------------
(* The quiet queue: one agent decides and nothing fails.  Then a request is *)
(* alone until its file is written, the outbox copy is valid from then on,  *)
(* and a decision in progress finds that copy undecided until it ends       *)
(* itself: whoever acts on the packet needs a cleared copy, and the decider *)
(* is the only one who could clear it.                                      *)
Calm == OneDecider /\ Faults = {}

Rest(a) == cmd[a] \in {"none", "request"}

(* The packet has no file yet.                                              *)
Early == ~requested \/ \E a \in Agents : cmd[a] = "request" /\ pc[a] = "create"

RequestOnce ==
  /\ \A a, b \in Agents : cmd[a] = "request" /\ cmd[b] = "request" => a = b
  /\ \A a \in Agents : cmd[a] = "request" => requested
  /\ Early => (\A p \in Paths : file[p] = Absent) /\ \A a \in Agents : Rest(a)
  /\ \A a \in Agents : cmd[a] = "request" /\ pc[a] = "write" =>
       /\ file["outbox"] = Partial /\ fd[a] = "outbox"
       /\ \A p \in Paths \ {"outbox"} : file[p] = Absent
       /\ \A b \in Agents : Rest(b)
  /\ \A a \in Agents : cmd[a] = "request" /\ pc[a] = "rollback" => file["outbox"] = Absent

Box ==
  /\ file["outbox"] # Absent => \/ Valid("outbox", file["outbox"])
                                \/ \E a \in Agents : cmd[a] = "request" /\ pc[a] = "write"
  /\ file["outbox"].cleared => file["outbox"].status = "CTA"

Undecided == Valid("outbox", file["outbox"]) /\ file["outbox"].status \in Decidable

Command(a) ==
  /\ pc[a] # "idle" => result[a].status = NewStatus(cmd[a])
  /\ cmd[a] \in InPlace \cup {"request"} /\ result[a].cleared => cmd[a] = "cta"
  /\ cmd[a] \in Decisions => Undecided
CommandInv == \A a \in Agents : Command(a)

(* Somebody acts on the packet, or has acted.                               *)
Acting == \/ file["in_progress"] # Absent \/ file["failed"] # Absent
          \/ \E a \in Agents : cmd[a] \in {"claim", "complete", "fail"}

Exclusive ==
  /\ Acting => file["outbox"].status \in {"CTA", "absent"} /\ file["done"].status # "DTA"
  /\ file["done"].status = "DTA" => \/ file["outbox"] = Absent
       \/ \E a \in Agents : cmd[a] = "dta" /\ pc[a] \in {"verify", "remove"}
  /\ \A a \in Agents : cmd[a] = "dta" =>
       /\ pc[a] \in {"verify", "remove"} => file["done"] = result[a]
       /\ pc[a] # "rollback"

CalmInv == RequestOnce /\ Box /\ CommandInv /\ Exclusive

(* The steps of the quiet queue: what agent a does to its own command, and  *)
(* what it does to the outbox.                                              *)
LEMMA CalmCommand ==
  ASSUME TypeOK, Faults = {}, NEW a \in Agents, Step(a), cmd'[a] # "none"
  PROVE  \/ /\ cmd'[a] = cmd[a] /\ result'[a] = result[a] /\ requested' = requested
            /\ pc[a] # "idle" /\ pc'[a] # "idle"
            /\ ~Request(a) /\ \A c \in Commands : ~Load(a, c)
         \/ /\ Request(a) /\ pc[a] = "idle" /\ ~requested /\ requested' /\ file' = file
            /\ cmd'[a] = "request" /\ result'[a] = Build("request", Absent)
            /\ pc'[a] = "create"
         \/ \E c \in Commands \ {"request"} :
              /\ Load(a, c) /\ pc[a] = "idle" /\ file' = file /\ requested' = requested
              /\ cmd'[a] = c /\ c \in Does[a] /\ pc'[a] \in {"open", "create"}
              /\ result'[a] = Build(c, file[Source(c)])
              /\ Valid(Source(c), file[Source(c)]) /\ file[Source(c)].status \in Accepts(c)
              /\ Valid(Dest(c), Build(c, file[Source(c)]))
<1> USE DEF TypeOK
<1>1. CASE Request(a)
  BY <1>1 DEF Request, Goto, Commands
<1>2. CASE \E c \in Commands : Load(a, c)
  BY <1>2 DEF Load, Goto
<1>3. CASE Create(a) \/ Write(a) \/ Verify(a)
  BY <1>3 DEF Create, Write, Verify, Continue, Return, Goto, Request, Load
<1>4. CASE Rollback(a) \/ RemoveSource(a) \/ ReplaceTmp(a) \/ InPlaceFails(a)
  BY <1>4 DEF Rollback, RemoveSource, ReplaceTmp, InPlaceFails, Return
<1>5. CASE OpenTmp(a) \/ FillTmp(a)
  BY <1>5 DEF OpenTmp, FillTmp, Continue, Goto, Request, Load
<1>6. ~Crash(a)
  BY DEF Crash
<1>. QED BY <1>1, <1>2, <1>3, <1>4, <1>5, <1>6 DEF Step

LEMMA CalmOutbox ==
  ASSUME TypeOK, LocalInv, TmpInv, Faults = {}, NEW a \in Agents, Step(a),
         file'["outbox"] # file["outbox"]
  PROVE  \/ /\ Create(a) /\ cmd[a] = "request" /\ file["outbox"] = Absent
            /\ file' = [file EXCEPT !["outbox"] = Partial]
            /\ cmd'[a] = "request" /\ pc'[a] = "write" /\ fd'[a] = "outbox"
         \/ /\ Write(a) /\ cmd[a] = "request" /\ pc[a] = "write" /\ pc'[a] = "verify"
            /\ cmd'[a] = "request" /\ file'["outbox"] = result[a]
         \/ /\ Rollback(a) /\ cmd[a] = "request" /\ pc[a] = "rollback"
            /\ file'["outbox"] = Absent /\ cmd'[a] = "none"
         \/ /\ RemoveSource(a) /\ cmd[a] \in {"claim", "dta"} /\ cmd'[a] = "none"
            /\ file'["outbox"] = Absent /\ pc[a] = "remove"
         \/ /\ ReplaceTmp(a) /\ cmd[a] \in InPlace /\ file'["outbox"] = result[a]
            /\ cmd'[a] = "none" /\ pc[a] = "replace"
<1> USE DEF TypeOK, Paths, Lanes, Goto, Continue, Return, LocalInv, Local
<1>1. ~Request(a) /\ ~(\E c \in Commands : Load(a, c)) /\ ~Verify(a) /\ ~Crash(a)
  BY DEF Request, Load, Verify, Crash
<1>2. CASE Create(a)
  BY <1>2, CommandShape DEF Create, Unread
<1>3. CASE Write(a)
  BY <1>3, CommandShape DEF Write, Unread
<1>4. CASE Rollback(a)
  BY <1>4, CommandShape DEF Rollback, Unlink, Unread
<1>5. CASE RemoveSource(a)
  BY <1>5, CommandShape DEF RemoveSource, Unlink, Unread, Source, Commands, InPlace
<1>6. CASE ReplaceTmp(a)
  BY <1>6 DEF ReplaceTmp, TmpInv, Tmp
<1>7. ~OpenTmp(a) /\ ~InPlaceFails(a) /\ ~FillTmp(a)
  BY DEF OpenTmp, InPlaceFails, FillTmp, TmpInv, Tmp
<1>. QED BY <1>1, <1>2, <1>3, <1>4, <1>5, <1>6, <1>7 DEF Step

(* Nobody reads, creates or removes a file of a packet that is being        *)
(* requested, except its requester.                                         *)
LEMMA RequestAlone ==
  ASSUME TypeOK, LocalInv, TmpInv, Faults = {}, RequestOnce, NEW a \in Agents, Step(a)
  PROVE  /\ Early => \/ Request(a)
                     \/ cmd[a] = "request" /\ pc[a] = "create" /\ Create(a)
         /\ \A b \in Agents : cmd[b] = "request" /\ pc[b] = "write" => a = b /\ Write(a)
<1> USE FileShape DEF TypeOK, Paths, Lanes
<1>1. CASE Request(a)
  BY <1>1 DEF RequestOnce, Request
<1>2. CASE \E c \in Commands : Load(a, c)
  <2>1. \E l \in {"outbox", "in_progress"} : Valid(l, file[l])
    BY <1>2, CommandShape DEF Load
  <2>. QED BY <2>1 DEF RequestOnce
<1>3. CASE pc[a] # "idle"
  <2>1. Early => cmd[a] = "request" /\ pc[a] = "create"
    BY <1>3 DEF RequestOnce, Early, Rest
  <2>2. \A b \in Agents : cmd[b] = "request" /\ pc[b] = "write" => a = b
    BY <1>3 DEF RequestOnce, Rest
  <2>3. pc[a] = "create" => Create(a)
    BY DEF Step, Request, Load, Write, Verify, Rollback, RemoveSource, OpenTmp,
           FillTmp, ReplaceTmp, InPlaceFails, Crash
  <2>4. pc[a] = "write" => Write(a)
    BY DEF Step, Request, Load, Create, Verify, Rollback, RemoveSource, OpenTmp,
           FillTmp, ReplaceTmp, InPlaceFails, Crash
  <2>. QED BY <2>1, <2>2, <2>3, <2>4
<1>4. pc[a] = "idle" => Request(a) \/ \E c \in Commands : Load(a, c)
  BY DEF Step, Create, Write, Verify, Rollback, RemoveSource, OpenTmp,
         FillTmp, ReplaceTmp, InPlaceFails, Crash
<1>. QED BY <1>1, <1>2, <1>3, <1>4

LEMMA RequestOnceNext ==
  ASSUME TypeOK, LocalInv, TmpInv, Faults = {}, CalmInv, NEW a \in Agents, Step(a)
  PROVE  RequestOnce'
<1> USE FileShape
<1>0. /\ \A x \in Agents \ {a} : /\ pc'[x] = pc[x] /\ cmd'[x] = cmd[x]
                                 /\ fd[x] = "outbox" /\ pc[a] = "idle" => fd'[x] = fd[x]
      /\ RequestOnce /\ Box
  BY Frame DEF CalmInv, Step, Request, Load, Create, Write, Verify, Rollback, RemoveSource,
     OpenTmp, FillTmp, ReplaceTmp, InPlaceFails, Crash
<1>1. CASE Request(a)
  <2>1. /\ ~requested /\ requested' /\ file' = file /\ fd' = fd
        /\ cmd'[a] = "request" /\ pc'[a] = "create"
    BY <1>1 DEF Request, TypeOK, Goto
  <2>2. \A x \in Agents : cmd[x] # "request"
    BY <1>0, <2>1 DEF RequestOnce
  <2>3. (\A p \in Paths : file[p] = Absent) /\ \A x \in Agents : Rest(x)
    BY <1>0, <2>1 DEF RequestOnce, Early
  <2>. QED BY <1>0, <2>1, <2>2, <2>3 DEF RequestOnce, Rest, Early
<1>2. CASE cmd[a] = "request" /\ pc[a] = "create"
  <2>1. Early /\ Create(a)
    BY <1>0, <1>2, RequestAlone DEF Early, Request
  <2>2. file["outbox"] = Absent /\ \A p \in Paths \ {"outbox"} : file[p] = Absent
    BY <1>0, <2>1 DEF RequestOnce, Paths, Lanes
  <2>3. /\ file' = [file EXCEPT !["outbox"] = Partial] /\ fd'[a] = "outbox"
        /\ cmd'[a] = "request" /\ pc'[a] = "write" /\ requested' = requested
    BY <1>2, <2>1, <2>2 DEF Create, Dest, Continue, Goto, TypeOK
  <2>4. file'["outbox"] = Partial /\ \A p \in Paths \ {"outbox"} : file'[p] = Absent
    BY <2>2, <2>3 DEF TypeOK, Paths, Lanes
  <2>5. \A x \in Agents : (cmd[x] = "request" => x = a) /\ Rest(x)
    BY <1>0, <1>2, <2>1 DEF RequestOnce
  <2>6. requested
    BY <1>0, <1>2 DEF RequestOnce
  <2>. QED BY <1>0, <2>3, <2>4, <2>5, <2>6 DEF RequestOnce, Rest, Early
<1>3. CASE ~Request(a) /\ ~(cmd[a] = "request" /\ pc[a] = "create")
  <2>1. ~Early /\ requested /\ requested' = requested
    BY <1>0, <1>3, RequestAlone DEF Early, Step, Load, Create, Write, Verify, Rollback,
       RemoveSource, OpenTmp, FillTmp, ReplaceTmp, InPlaceFails, Crash
  <2>2. \A x \in Agents : cmd'[x] = "request" => cmd[x] = "request"
    BY <1>0, <1>3, CalmCommand
  <2>3. pc'[a] = "create" => cmd'[a] # "request"
    BY <1>3 DEF Step, Load, Create, Write, Verify, Rollback, RemoveSource, OpenTmp, FillTmp,
       ReplaceTmp, InPlaceFails, Crash, Goto, Return, Continue, TypeOK
  <2>4. ~Early'
    BY <1>0, <2>1, <2>2, <2>3 DEF Early
  <2>5. \A x \in Agents : ~(cmd'[x] = "request" /\ pc'[x] = "write")
    <3>1. pc'[a] = "write" => Create(a) /\ cmd'[a] = cmd[a] /\ pc[a] = "create"
      BY DEF Step, Request, Load, Create, Write, Verify, Rollback, RemoveSource, OpenTmp,
         FillTmp, ReplaceTmp, InPlaceFails, Crash, Goto, Return, Continue, TypeOK
    <3>2. \A x \in Agents : cmd[x] = "request" /\ pc[x] = "write" => x = a /\ Write(a)
      BY <1>0, RequestAlone
    <3>. QED BY <1>0, <1>3, <3>1, <3>2
  <2>6. ASSUME NEW x \in Agents, cmd'[x] = "request", pc'[x] = "rollback"
        PROVE  file'["outbox"] = Absent
    <3>1. file["outbox"] = Absent
      <4>1. CASE pc[x] = "rollback"
        BY <1>0, <2>2, <2>6, <4>1 DEF RequestOnce
      <4>2. CASE pc[x] # "rollback"
        <5>1. x = a /\ Verify(a) /\ cmd[a] = "request"
          BY <1>0, <2>2, <2>6, <4>2 DEF Step, Request, Load, Create, Write, Verify, Rollback,
             RemoveSource, OpenTmp, FillTmp, ReplaceTmp, InPlaceFails, Crash, Goto, Return,
             Continue, TypeOK
        <5>2. ~Valid("outbox", file["outbox"])
          BY <2>6, <5>1 DEF Verify, Dest, Continue, Return, Goto, TypeOK
        <5>3. pc[a] = "verify"
          BY <5>1 DEF Verify
        <5>4. ~\E b \in Agents : cmd[b] = "request" /\ pc[b] = "write"
          BY <1>0, <5>1, <5>3 DEF RequestOnce
        <5>. QED BY <1>0, <5>2, <5>4 DEF Box
      <4>. QED BY <4>1, <4>2
    <3>2. ~(Create(a) /\ cmd[a] = "request") /\ ~(Write(a) /\ cmd[a] = "request")
      <4>1. cmd[a] = "request" => x = a
        BY <1>0, <2>2, <2>6 DEF RequestOnce
      <4>. QED BY <1>3, <2>6, <4>1 DEF Create, Write, Continue, Return, Goto, TypeOK
    <3>3. ~(cmd[a] \in InPlace)
      BY <3>1 DEF CalmInv, CommandInv, Command, Undecided, InPlace, Decisions, Valid, Absent,
                  Packets, Statuses
    <3>. QED BY <3>1, <3>2, <3>3, CalmOutbox
  <2>. QED BY <1>0, <2>1, <2>2, <2>4, <2>5, <2>6 DEF RequestOnce
<1>. QED BY <1>1, <1>2, <1>3

LEMMA BoxNext ==
  ASSUME TypeOK, LocalInv, TmpInv, Faults = {}, CalmInv, NEW a \in Agents, Step(a)
  PROVE  Box'
<1> USE FileShape
<1>1. Box /\ CommandInv
  BY DEF CalmInv
<1>2. CASE file'["outbox"] = file["outbox"]
  <2>1. ASSUME NEW x \in Agents, cmd[x] = "request", pc[x] = "write",
               file["outbox"] # Absent
        PROVE  Valid("outbox", file["outbox"]) \/ (cmd'[x] = "request" /\ pc'[x] = "write")
    <3>1. x = a /\ Write(a)
      BY <2>1, RequestAlone DEF CalmInv
    <3>2. fd[a] = "outbox"
      BY <2>1, <3>1 DEF CalmInv, RequestOnce
    <3>3. file'["outbox"] = result[a]
      BY <2>1, <3>1, <3>2 DEF Write, Dest, TypeOK, Paths, Lanes
    <3>4. Valid("outbox", result[a])
      BY <2>1, <3>1 DEF LocalInv, Local, Dest
    <3>. QED BY <1>2, <3>3, <3>4
  <2>. QED BY <1>1, <1>2, <2>1 DEF Box, Valid
<1>3. CASE file'["outbox"] # file["outbox"]
  <2>1. CASE file'["outbox"] = Absent
    BY <2>1 DEF Box, Absent
  <2>2. CASE file'["outbox"] = result[a] /\ cmd[a] \in InPlace \cup {"request"}
    <3>1. cmd[a] # "none" /\ pc[a] # "idle"
      BY <2>2 DEF TypeOK, InPlace
    <3>2. Valid("outbox", result[a])
      BY <2>2, <3>1, CommandShape DEF LocalInv, Local
    <3>3. result[a].cleared => result[a].status = "CTA"
      BY <1>1, <2>2, <3>1 DEF CommandInv, Command, NewStatus
    <3>. QED BY <2>2, <3>2, <3>3 DEF Box, Valid
  <2>3. CASE /\ file' = [file EXCEPT !["outbox"] = Partial]
             /\ cmd'[a] = "request" /\ pc'[a] = "write"
    BY <2>3 DEF Box, Partial, TypeOK, Paths, Lanes
  <2>. QED BY <1>3, <2>1, <2>2, <2>3, CalmOutbox
<1>. QED BY <1>2, <1>3


(* While a decision is in progress nobody else changes the outbox copy.     *)
LEMMA UndecidedStays ==
  ASSUME TypeOK, LocalInv, TmpInv, Calm, CalmInv, NEW a \in Agents, Step(a),
         NEW x \in Agents, cmd[x] \in Decisions, cmd'[x] \in Decisions
  PROVE  file'["outbox"] = file["outbox"]
<1> USE FileShape
<1> SUFFICES ASSUME file'["outbox"] # file["outbox"] PROVE FALSE
  OBVIOUS
<1>1. Undecided
  BY DEF CalmInv, CommandInv, Command
<1>2. file["outbox"] # Absent /\ file["outbox"] # Partial /\ file["outbox"].status # "CTA"
      /\ file["outbox"].status # "absent"
  BY <1>1 DEF Undecided, Decidable, Absent, Partial
<1>3. cmd[a] \in Decisions => a = x
  <2>1. \A y \in Agents : cmd[y] \in Decisions => cmd[y] \in Does[y]
    BY DEF LocalInv, Local, TypeOK, Decisions
  <2>. QED BY <2>1 DEF Calm, OneDecider
<1>4. cmd[a] \notin {"claim"}
  BY <1>2 DEF CalmInv, Exclusive, Acting
<1>5. cmd'[a] # "none" \/ cmd[a] \notin Decisions
  BY <1>3 DEF Decisions
<1>6. ~(cmd[a] = "request" /\ pc[a] \in {"write", "rollback"})
  BY <1>2 DEF CalmInv, RequestOnce
<1>. QED BY <1>2, <1>4, <1>5, <1>6, CalmOutbox DEF Calm, Decisions, InPlace

LEMMA CommandNext ==
  ASSUME TypeOK, LocalInv, TmpInv, Calm, CalmInv, NEW a \in Agents, Step(a),
         NEW x \in Agents
  PROVE  Command(x)'
<1>1. CASE cmd'[x] = cmd[x] /\ result'[x] = result[x] /\ pc[x] # "idle"
  <2>1. Command(x) /\ (cmd'[x] \in Decisions => file'["outbox"] = file["outbox"])
    BY <1>1, UndecidedStays DEF CalmInv, CommandInv
  <2>2. cmd[x] \in Decisions => Undecided /\ Undecided'
    BY <1>1, <2>1 DEF Command, Undecided, Valid
  <2>. QED BY <1>1, <2>1, <2>2 DEF Command
<1>2. CASE cmd'[x] = "none"
  <2>1. pc'[x] = "idle"
    BY <1>2, TypeNext DEF TypeOK, Next
  <2>. QED BY <1>2, <2>1 DEF Command, InPlace, Decisions
<1>3. CASE x = a /\ Request(a)
  <2>1. cmd'[a] = "request" /\ result'[a] = Build("request", Absent)
    BY <1>3 DEF Request, TypeOK
  <2>2. result'[a].status = NewStatus("request")
    BY <2>1 DEF Build
  <2>3. result'[a].cleared = (Absent.cleared \/ "request" = "cta")
    BY <2>1 DEF Build
  <2>4. ~result'[a].cleared
    BY <2>3 DEF Absent
  <2>. QED BY <1>3, <2>1, <2>2, <2>4 DEF Command, Decisions
<1>4. ASSUME x = a, NEW c \in Commands \ {"request"}, cmd'[a] = c, file' = file,
             result'[a] = Build(c, file[Source(c)]),
             Valid(Source(c), file[Source(c)]), file[Source(c)].status \in Accepts(c)
      PROVE  Command(x)'
  <2>1. result'[a].status = NewStatus(c)
    BY <1>4 DEF Build
  <2>2. c \in Decisions => Undecided
    BY <1>4 DEF Decisions, Source, Accepts, Undecided
  <2>3. c \in Decisions => ~file["outbox"].cleared
    BY <2>2 DEF CalmInv, Box, Undecided, Decidable
  <2>4. c \in InPlace /\ result'[a].cleared => c = "cta"
    <3>1. c \in InPlace => result'[a] = Build(c, file["outbox"])
      BY <1>4 DEF InPlace, Source
    <3>2. c \in InPlace => result'[a].cleared = (file["outbox"].cleared \/ c = "cta")
      BY <3>1 DEF Build
    <3>. QED BY <2>3, <3>2 DEF InPlace, Decisions
  <2>. QED BY <1>4, <2>1, <2>2, <2>4 DEF Command, Undecided, Valid
<1>5. CASE x # a
  <2>1. cmd'[x] = cmd[x] /\ result'[x] = result[x] /\ pc'[x] = pc[x]
    BY <1>5, Frame
  <2>. QED BY <1>1, <1>2, <2>1 DEF TypeOK
<1>. QED BY <1>1, <1>2, <1>3, <1>4, <1>5, CalmCommand DEF Calm

(* Acting begins with a command that found the packet cleared.              *)
LEMMA ActingNext ==
  ASSUME TypeOK, LocalInv, TmpInv, ClosedInv, Calm, CalmInv, NEW a \in Agents, Step(a),
         Acting'
  PROVE  file'["outbox"].status \in {"CTA", "absent"} /\ file'["done"].status # "DTA"
<1> USE FileShape
<1>1. CASE Acting
  <2>1. file["outbox"].status \in {"CTA", "absent"} /\ file["done"].status # "DTA"
    BY <1>1 DEF CalmInv, Exclusive
  <2>2. cmd[a] \notin Decisions
    BY <2>1 DEF CalmInv, CommandInv, Command, Undecided, Decidable
  <2>3. ~Early /\ \A b \in Agents : ~(cmd[b] = "request" /\ pc[b] = "write")
    BY <1>1 DEF Acting, CalmInv, RequestOnce, Rest, Paths, Lanes
  <2>4. ~(cmd[a] = "request" /\ pc[a] \in {"create", "write"})
    BY <2>3 DEF Early
  <2>5. file'["outbox"] \in {file["outbox"], Absent}
    BY <2>2, <2>4, CalmOutbox DEF Calm, Create, Decisions, InPlace
  <2>6. file'["done"].status # "DTA"
    <3>1. CASE file'["done"] = file["done"]
      BY <2>1, <3>1
    <3>2. CASE file'["done"] \in {Partial, Absent}
      BY <3>2 DEF Partial, Absent
    <3>3. CASE Write(a) /\ Dest(cmd[a]) = "done" /\ file'["done"] = result[a]
      <4>1. cmd[a] = "complete" /\ pc[a] = "write"
        BY <2>2, <3>3 DEF Write, TypeOK, Dest, Decisions, Commands
      <4>. QED BY <3>3, <4>1 DEF CalmInv, CommandInv, Command, NewStatus
    <3>. QED BY <3>1, <3>2, <3>3, LaneFrame
             DEF Create, Write, Rollback, Unlink, TypeOK, Paths, Lanes, Calm
  <2>. QED BY <2>1, <2>5, <2>6 DEF Absent
<1>2. CASE ~Acting
  <2>1. file'["in_progress"] = file["in_progress"] \/ file'["in_progress"] = Absent
    BY <1>2, LaneFrame, CommandShape
       DEF Acting, Create, Write, Rollback, RemoveSource, Unlink, TypeOK, Paths, Lanes
  <2>2. file'["failed"] = file["failed"] \/ file'["failed"] = Absent
    <3>1. Dest(cmd[a]) = "failed" /\ cmd[a] \in Commands => cmd[a] = "fail"
      BY DEF Dest, Commands
    <3>. QED BY <1>2, <3>1, LaneFrame DEF Acting, Unlink, Rollback, TypeOK, Paths, Lanes
  <2>3. \E x \in Agents : cmd'[x] \in {"claim", "complete", "fail"}
    BY <1>2, <2>1, <2>2 DEF Acting
  <2>4. cmd'[a] \in {"claim", "complete", "fail"} /\ cmd[a] # cmd'[a]
    BY <1>2, <2>3, Frame DEF Acting
  <2>5. PICK c \in Commands \ {"request"} :
          /\ cmd'[a] = c /\ file' = file /\ Valid(Source(c), file[Source(c)])
          /\ Valid(Dest(c), Build(c, file[Source(c)]))
    BY <2>4, CalmCommand DEF Calm
  <2>6. c = "claim"
    BY <1>2, <2>4, <2>5 DEF Source, Acting
  <2>7. Valid("outbox", file["outbox"]) /\ file["outbox"].cleared
    BY <2>5, <2>6 DEF Source, Dest, Build, NewStatus, Valid
  <2>8. file["outbox"].status = "CTA"
    BY <2>7 DEF CalmInv, Box
  <2>9. file["done"].status # "DTA"
    <3>1. ~Undecided
      BY <2>8 DEF Undecided, Decidable
    <3>2. \A x \in Agents : cmd[x] # "dta"
      BY <3>1 DEF CalmInv, CommandInv, Command, Decisions
    <3>. QED BY <2>7, <3>2 DEF CalmInv, Exclusive
  <2>. QED BY <2>5, <2>8, <2>9
<1>. QED BY <1>1, <1>2


(* A running denial owns the closed lane until it has read it back.         *)
LEMMA DenialNext ==
  ASSUME TypeOK, LocalInv, TmpInv, ClosedInv, Calm, CalmInv, NEW a \in Agents, Step(a),
         NEW x \in Agents, cmd'[x] = "dta"
  PROVE  /\ pc'[x] \in {"verify", "remove"} => file'["done"] = result'[x]
         /\ pc'[x] # "rollback"
<1> USE FileShape
<1>1. CASE x # a
  <2>1. cmd[x] = "dta" /\ result'[x] = result[x] /\ pc'[x] = pc[x]
    BY <1>1, Frame
  <2>2. /\ pc[x] \in {"verify", "remove"} => file["done"] = result[x]
        /\ pc[x] # "rollback"
    BY <2>1 DEF CalmInv, Exclusive
  <2>3. ASSUME pc[x] \in {"verify", "remove"} PROVE file'["done"] = file["done"]
    <3>1. Owns(x, "done")
      BY <2>1, <2>3 DEF Owns, Unread, Dest
    <3>2. file["done"] # Absent /\ ~Owns(a, "done")
      BY <1>1, <3>1 DEF ClosedInv, ClosedLane, Closed
    <3>. QED BY <3>2, LaneFrame DEF Write, Rollback, Owns, Unread
  <2>. QED BY <2>1, <2>2, <2>3
<1>2. CASE x = a
  <2>1. CASE cmd[a] # "dta"
    BY <1>2, <2>1, CalmCommand DEF Calm
  <2>2. CASE cmd[a] = "dta"
    <3>1. /\ pc[a] # "idle" /\ result'[a] = result[a] /\ ~Request(a)
          /\ \A c \in Commands : ~Load(a, c)
      BY <1>2, <2>2, CalmCommand DEF Calm, TypeOK
    <3>2. /\ pc[a] \in {"verify", "remove"} => file["done"] = result[a]
          /\ pc[a] # "rollback"
      BY <2>2 DEF CalmInv, Exclusive
    <3>3. pc[a] \notin {"open", "fill", "replace", "remove"}
      BY <1>2, <2>2 DEF LocalInv, Local, InPlace, Step, Request, Load, Create, Write, Verify,
         Rollback, RemoveSource, OpenTmp, FillTmp, ReplaceTmp, InPlaceFails, Crash, Return,
         TypeOK
    <3>4. CASE pc[a] = "create"
      BY <1>2, <3>1, <3>4 DEF Step, Create, Write, Verify, Rollback, RemoveSource, OpenTmp,
         FillTmp, ReplaceTmp, InPlaceFails, Crash, Continue, Return, Goto, TypeOK, Calm
    <3>5. CASE pc[a] = "write"
      <4>1. Owns(a, "done")
        BY <2>2, <3>5 DEF Owns, Unread, Dest
      <4>2. Write(a) /\ fd[a] = "done"
        <5>1. Write(a)
          BY <3>1, <3>5 DEF Step, Create, Verify, Rollback, RemoveSource, OpenTmp, FillTmp,
             ReplaceTmp, InPlaceFails, Crash, Calm
        <5>2. fd[a] = "done"
          BY <3>5, <4>1 DEF ClosedInv, ClosedLane, Closed
        <5>. QED BY <5>1, <5>2
      <4>3. file'["done"] = result[a] /\ pc'[a] = "verify"
        BY <2>2, <4>2 DEF Write, Dest, Continue, Goto, TypeOK, Paths, Lanes, Calm
      <4>. QED BY <1>2, <3>1, <4>3
    <3>6. CASE pc[a] = "verify"
      <4>1. Verify(a)
        BY <3>1, <3>6 DEF Step, Create, Write, Rollback, RemoveSource, OpenTmp, FillTmp,
           ReplaceTmp, InPlaceFails, Crash, Calm
      <4>2. Valid("done", file["done"])
        BY <2>2, <3>2, <3>6 DEF LocalInv, Local, Dest
      <4>3. file' = file /\ pc'[a] = "remove"
        BY <2>2, <4>1, <4>2 DEF Verify, Dest, Continue, Goto, TypeOK, Calm
      <4>. QED BY <1>2, <3>1, <3>2, <3>6, <4>3
    <3>. QED BY <3>1, <3>2, <3>3, <3>4, <3>5, <3>6 DEF TypeOK
  <2>. QED BY <2>1, <2>2
<1>. QED BY <1>1, <1>2

(* A recorded denial left the outbox, or its own command is about to.       *)
LEMMA DeniedNext ==
  ASSUME TypeOK, LocalInv, TmpInv, ClosedInv, Calm, CalmInv, NEW a \in Agents, Step(a),
         file'["done"].status = "DTA"
  PROVE  \/ file'["outbox"] = Absent
         \/ \E x \in Agents : cmd'[x] = "dta" /\ pc'[x] \in {"verify", "remove"}
<1> USE FileShape
<1>1. CASE file["done"].status = "DTA"
  <2>0. ~Early /\ \A b \in Agents : ~(cmd[b] = "request" /\ pc[b] = "write")
    BY <1>1 DEF CalmInv, RequestOnce, Paths, Lanes, Absent
  <2>1. CASE file["outbox"] = Absent
    <3>1. cmd[a] \notin Decisions
      BY <2>1 DEF CalmInv, CommandInv, Command, Undecided
    <3>2. ~(cmd[a] = "request" /\ pc[a] \in {"create", "write"})
      BY <2>0 DEF Early
    <3>. QED BY <2>1, <3>1, <3>2, CalmOutbox DEF Calm, Create, Decisions, InPlace
  <2>2. ASSUME NEW x \in Agents, cmd[x] = "dta", pc[x] \in {"verify", "remove"},
               file["outbox"] # Absent
        PROVE  \/ file'["outbox"] = Absent
               \/ cmd'[x] = "dta" /\ pc'[x] \in {"verify", "remove"}
    <3>1. CASE x # a
      BY <2>2, <3>1, Frame
    <3>2. CASE x = a /\ pc[a] = "verify"
      <4>1. Verify(a)
        BY <3>2 DEF Step, Request, Load, Create, Write, Rollback, RemoveSource, OpenTmp,
           FillTmp, ReplaceTmp, InPlaceFails, Crash, Calm
      <4>2. Valid("done", file["done"])
        BY <2>2, <3>2 DEF LocalInv, Local, Dest, CalmInv, Exclusive
      <4>. QED BY <2>2, <3>2, <4>1, <4>2 DEF Verify, Dest, Continue, Goto, TypeOK, Calm
    <3>3. CASE x = a /\ pc[a] = "remove"
      <4>1. RemoveSource(a)
        BY <3>3 DEF Step, Request, Load, Create, Write, Rollback, Verify, OpenTmp,
           FillTmp, ReplaceTmp, InPlaceFails, Crash, Calm
      <4>. QED BY <2>2, <3>3, <4>1 DEF RemoveSource, Source, Unlink, TypeOK, Paths, Lanes, Calm
    <3>. QED BY <2>2, <3>1, <3>2, <3>3
  <2>. QED BY <1>1, <2>1, <2>2 DEF CalmInv, Exclusive
<1>2. CASE file["done"].status # "DTA"
  <2>1. /\ Write(a) /\ Dest(cmd[a]) = "done" /\ cmd[a] \in Commands
        /\ file'["done"] \notin {Partial, Absent}
    <3>1. file'["done"] \notin {Partial, Absent}
      BY DEF Partial, Absent
    <3>. QED BY <1>2, <3>1, LaneFrame DEF Create, Rollback, Unlink, TypeOK, Paths, Lanes
  <2>2. /\ file'["done"] = result[a] /\ cmd'[a] = cmd[a] /\ pc'[a] = "verify"
        /\ pc[a] = "write"
    BY <1>2, <2>1 DEF Write, Continue, Goto, TypeOK, Paths, Lanes, Calm
  <2>3. result[a].status = NewStatus(cmd[a])
    BY <2>2 DEF CalmInv, CommandInv, Command
  <2>4. cmd[a] \in {"dta", "complete"}
    BY <2>1 DEF Dest, Commands
  <2>5. cmd[a] = "dta"
    BY <2>2, <2>3, <2>4 DEF NewStatus
  <2>. QED BY <2>2, <2>5
<1>. QED BY <1>1, <1>2

LEMMA CalmNext ==
  ASSUME TypeOK, LocalInv, TmpInv, ClosedInv, Calm, CalmInv, NEW a \in Agents, Step(a)
  PROVE  CalmInv'
<1>1. RequestOnce' /\ Box'
  BY RequestOnceNext, BoxNext DEF Calm
<1>2. CommandInv'
  BY CommandNext DEF CommandInv
<1>3. Exclusive'
  BY ActingNext, DeniedNext, DenialNext DEF Exclusive
<1>. QED BY <1>1, <1>2, <1>3 DEF CalmInv


(* When moreover nobody closes packets: the closed lane holds a denial or   *)
(* one being written, and whoever claimed the packet is removing the outbox *)
(* copy, which lets no second claim begin and no decision go on.            *)
NoClosers == \A a \in Agents : Does[a] \cap {"complete", "fail"} = {}

OpenInv ==
  /\ file["failed"] = Absent
  /\ file["done"] # Absent => \/ file["done"].status = "DTA"
                              \/ \E a \in Agents : cmd[a] = "dta" /\ pc[a] = "write"
  /\ file["in_progress"] # Absent /\ file["outbox"] # Absent =>
       \E a \in Agents : cmd[a] = "claim" /\ pc[a] \in {"write", "verify", "remove"}
  /\ \A a \in Agents : cmd[a] = "claim" =>
       /\ pc[a] = "verify" => file["in_progress"] = result[a]
       /\ pc[a] # "rollback"

(* Then nothing was closed as long as somebody acts on the packet.          *)
LEMMA OpenLane ==
  ASSUME TypeOK, ClosedInv, ClaimInv, CalmInv, OpenInv, Acting
  PROVE  ClaimLane
<1> USE FileShape
<1>1. file["failed"] = Absent /\ file["done"].status # "DTA"
  BY DEF CalmInv, Exclusive, OpenInv
<1>2. "failed" \notin verified
  BY <1>1 DEF ClosedInv, ClosedLane, Closed
<1>3. "done" \notin verified
  <2>1. SUFFICES ASSUME "done" \in verified PROVE FALSE
    OBVIOUS
  <2>2. file["done"] # Absent /\ \A a \in Agents : Owns(a, "done") => pc[a] = "remove"
    BY <2>1 DEF ClosedInv, ClosedLane, Closed
  <2>3. PICK a \in Agents : cmd[a] = "dta" /\ pc[a] = "write"
    BY <1>1, <2>2 DEF OpenInv
  <2>. QED BY <2>2, <2>3 DEF Owns, Unread, Dest
<1>. QED BY <1>2, <1>3 DEF ClaimInv, Shut, Closed

LEMMA ClaimFileNext ==
  ASSUME TypeOK, LocalInv, TmpInv, ClosedInv, ClaimInv, Calm, NoClosers, CalmInv, OpenInv,
         NEW a \in Agents, Step(a), NEW x \in Agents, cmd'[x] = "claim"
  PROVE  /\ pc'[x] = "verify" => file'["in_progress"] = result'[x]
         /\ pc'[x] # "rollback"
<1> USE FileShape
<1>0. ASSUME NEW y \in Agents, cmd[y] = "claim" PROVE ClaimLane
  BY <1>0, OpenLane DEF Acting
<1>1. CASE x # a
  <2>1. cmd[x] = "claim" /\ result'[x] = result[x] /\ pc'[x] = pc[x]
    BY <1>1, Frame
  <2>2. /\ pc[x] = "verify" => file["in_progress"] = result[x]
        /\ pc[x] # "rollback"
    BY <2>1 DEF OpenInv
  <2>3. ASSUME pc[x] = "verify" PROVE file'["in_progress"] = file["in_progress"]
    <3>1. Owns(x, "in_progress")
      BY <2>1, <2>3 DEF Owns, Unread, Dest
    <3>2. file["in_progress"] # Absent /\ ~Owns(a, "in_progress")
      BY <1>0, <1>1, <2>1, <3>1 DEF ClaimLane
    <3>3. cmd[a] \notin {"complete", "fail"}
      BY DEF NoClosers, LocalInv, Local, TypeOK
    <3>. QED BY <3>2, <3>3, LaneFrame DEF Write, Rollback, Owns, Unread, Source
  <2>. QED BY <2>1, <2>2, <2>3
<1>2. CASE x = a
  <2>1. CASE cmd[a] # "claim"
    BY <1>2, <2>1, CalmCommand DEF Calm
  <2>2. CASE cmd[a] = "claim"
    <3>1. /\ pc[a] # "idle" /\ result'[a] = result[a] /\ ~Request(a)
          /\ \A c \in Commands : ~Load(a, c)
      BY <1>2, <2>2, CalmCommand DEF Calm, TypeOK
    <3>2. /\ pc[a] = "verify" => file["in_progress"] = result[a]
          /\ pc[a] # "rollback"
      BY <2>2 DEF OpenInv
    <3>3. pc[a] \notin {"open", "fill", "replace", "remove"}
      BY <1>2, <2>2 DEF LocalInv, Local, InPlace, Step, Request, Load, Create, Write, Verify,
         Rollback, RemoveSource, OpenTmp, FillTmp, ReplaceTmp, InPlaceFails, Crash, Return,
         TypeOK
    <3>4. CASE pc[a] = "create"
      BY <1>2, <3>1, <3>4 DEF Step, Create, Write, Verify, Rollback, RemoveSource, OpenTmp,
         FillTmp, ReplaceTmp, InPlaceFails, Crash, Continue, Return, Goto, TypeOK, Calm
    <3>5. CASE pc[a] = "write"
      <4>1. Owns(a, "in_progress")
        BY <2>2, <3>5 DEF Owns, Unread, Dest
      <4>2. fd[a] = "in_progress"
        BY <1>0, <2>2, <3>5, <4>1 DEF ClaimLane
      <4>3. Write(a)
        BY <3>1, <3>5 DEF Step, Create, Verify, Rollback, RemoveSource, OpenTmp, FillTmp,
           ReplaceTmp, InPlaceFails, Crash, Calm
      <4>4. file'["in_progress"] = result[a] /\ pc'[a] = "verify"
        BY <2>2, <4>2, <4>3 DEF Write, Dest, Continue, Goto, TypeOK, Paths, Lanes, Calm
      <4>. QED BY <1>2, <3>1, <4>4
    <3>6. CASE pc[a] = "verify"
      <4>1. Verify(a)
        BY <3>1, <3>6 DEF Step, Create, Write, Rollback, RemoveSource, OpenTmp, FillTmp,
           ReplaceTmp, InPlaceFails, Crash, Calm
      <4>2. Valid("in_progress", file["in_progress"])
        BY <2>2, <3>2, <3>6 DEF LocalInv, Local, Dest
      <4>3. file' = file /\ pc'[a] = "remove"
        BY <2>2, <4>1, <4>2 DEF Verify, Dest, Continue, Goto, TypeOK, Calm
      <4>. QED BY <1>2, <3>1, <3>2, <3>6, <4>3
    <3>. QED BY <3>1, <3>2, <3>3, <3>4, <3>5, <3>6 DEF TypeOK
  <2>. QED BY <2>1, <2>2
<1>. QED BY <1>1, <1>2


LEMMA OpenNext ==
  ASSUME TypeOK, LocalInv, TmpInv, ClosedInv, ClaimInv, Calm, NoClosers, CalmInv, OpenInv,
         NEW a \in Agents, Step(a)
  PROVE  OpenInv'
<1> USE FileShape
<1>1. cmd[a] \notin {"complete", "fail"}
  BY DEF NoClosers, LocalInv, Local, TypeOK
<1>2. file'["failed"] = Absent
  BY <1>1, LaneFrame DEF OpenInv, Dest, Commands
<1>3. ASSUME file'["done"] # Absent
      PROVE  \/ file'["done"].status = "DTA"
             \/ \E x \in Agents : cmd'[x] = "dta" /\ pc'[x] = "write"
  <2>1. CASE cmd[a] = "dta" /\ pc[a] = "write"
    <3>1. Write(a)
      BY <2>1 DEF Step, Request, Load, Create, Verify, Rollback, RemoveSource, OpenTmp,
         FillTmp, ReplaceTmp, InPlaceFails, Crash, Calm
    <3>2. fd[a] = "done"
      BY <2>1 DEF ClosedInv, ClosedLane, Closed, Owns, Unread, Dest
    <3>3. file'["done"] = result[a]
      BY <2>1, <3>1, <3>2 DEF Write, Dest, TypeOK, Paths, Lanes, Calm
    <3>. QED BY <2>1, <3>3 DEF CalmInv, CommandInv, Command, NewStatus
  <2>2. CASE ~(cmd[a] = "dta" /\ pc[a] = "write") /\ file'["done"] = file["done"]
    BY <1>3, <2>2, Frame DEF OpenInv
  <2>3. CASE ~(cmd[a] = "dta" /\ pc[a] = "write") /\ file'["done"] # file["done"]
    <3>1. cmd[a] = "dta" /\ Create(a)
      <4>1. Dest(cmd[a]) = "done" /\ cmd[a] \in Commands => cmd[a] = "dta"
        BY <1>1 DEF Dest, Commands
      <4>. QED BY <1>3, <2>3, <4>1, LaneFrame
               DEF Write, Rollback, Unlink, TypeOK, Paths, Lanes
    <3>2. cmd'[a] = "dta" /\ pc'[a] = "write"
      BY <2>3, <3>1 DEF Create, Continue, Goto, Return, TypeOK
    <3>. QED BY <3>2
  <2>. QED BY <2>1, <2>2, <2>3
<1>4. ASSUME file'["in_progress"] # Absent, file'["outbox"] # Absent
      PROVE  \E x \in Agents : cmd'[x] = "claim" /\ pc'[x] \in {"write", "verify", "remove"}
  <2>1. CASE file["in_progress"] = Absent
    <3>1. cmd[a] = "claim" /\ pc[a] \in {"create", "write"} /\ pc'[a] # "idle"
      <4>1. Dest(cmd[a]) = "in_progress" /\ cmd[a] \in Commands => cmd[a] = "claim"
        BY <1>1 DEF Dest, Commands
      <4>2. file'["in_progress"] # file["in_progress"]
        BY <1>4, <2>1
      <4>3. \/ Create(a) /\ cmd[a] = "claim"
            \/ Write(a) /\ cmd[a] = "claim"
        BY <1>4, <4>1, <4>2, LaneFrame
           DEF Rollback, RemoveSource, Unlink, TypeOK, Paths, Lanes
      <4>4. CASE Create(a)
        BY <4>2, <4>3, <4>4 DEF Create, Continue, Goto, TypeOK, Write
      <4>5. CASE Write(a)
        BY <4>2, <4>3, <4>5 DEF Write, Continue, Goto, TypeOK, Create, Calm
      <4>. QED BY <4>3, <4>4, <4>5
    <3>2. cmd'[a] = "claim"
      BY <3>1, TypeNext, CalmCommand DEF TypeOK, Next, Calm
    <3>3. pc'[a] \in {"write", "verify"}
      BY <3>1 DEF Step, Request, Load, Create, Write, Verify, Rollback, RemoveSource,
         OpenTmp, FillTmp, ReplaceTmp, InPlaceFails, Crash, Continue, Return, Goto, TypeOK
    <3>. QED BY <3>2, <3>3
  <2>2. CASE file["in_progress"] # Absent
    <3>1. ~Early /\ \A b \in Agents : ~(cmd[b] = "request" /\ pc[b] = "write")
      BY <2>2 DEF CalmInv, RequestOnce, Paths, Lanes
    <3>2. ~(cmd[a] = "request" /\ pc[a] \in {"create", "write"})
      BY <3>1 DEF Early
    <3>3. cmd[a] \notin Decisions
      <4>1. file["outbox"].status \in {"CTA", "absent"}
        BY <2>2 DEF CalmInv, Exclusive, Acting
      <4>. QED BY <4>1 DEF CalmInv, CommandInv, Command, Undecided, Decidable
    <3>4. file'["outbox"] = file["outbox"]
      BY <1>4, <3>2, <3>3, CalmOutbox DEF Calm, Create, Decisions, InPlace
    <3>5. PICK x \in Agents : cmd[x] = "claim" /\ pc[x] \in {"write", "verify", "remove"}
      BY <1>4, <2>2, <3>4 DEF OpenInv
    <3>6. CASE x # a
      BY <3>5, <3>6, Frame
    <3>7. CASE x = a
      <4>1. Write(a) \/ Verify(a) \/ RemoveSource(a)
        BY <3>5, <3>7 DEF Step, Request, Load, Create, Rollback, OpenTmp, FillTmp,
           ReplaceTmp, InPlaceFails, Crash, Calm
      <4>2. ~RemoveSource(a)
        BY <1>4, <3>4, <3>5, <3>7
           DEF RemoveSource, Source, Unlink, TypeOK, Paths, Lanes, Calm
      <4>3. CASE Write(a)
        BY <3>5, <3>7, <4>3 DEF Write, Continue, Goto, TypeOK, Calm
      <4>4. CASE Verify(a)
        <5>1. cmd'[a] = "claim" /\ pc'[a] \in {"remove", "rollback"}
          BY <3>5, <3>7, <4>4 DEF Verify, Continue, Goto, TypeOK
        <5>2. pc'[a] # "rollback"
          BY <5>1, ClaimFileNext
        <5>. QED BY <5>1, <5>2
      <4>. QED BY <4>1, <4>2, <4>3, <4>4
    <3>. QED BY <3>6, <3>7
  <2>. QED BY <2>1, <2>2
<1>. QED BY <1>2, <1>3, <1>4, ClaimFileNext DEF OpenInv

(* The two facts together, for the whole behaviour.                         *)
QuietInv == Calm => CalmInv /\ (NoClosers => OpenInv)

LEMMA QuietInit == Init => QuietInv
BY DEF Init, QuietInv, CalmInv, RequestOnce, Early, Rest, Box, CommandInv, Command, Exclusive,
       Acting, OpenInv, Paths, Lanes, Absent, InPlace, Decisions

LEMMA QuietNext == LossInv /\ QuietInv /\ [Next]_vars => QuietInv'
<1> SUFFICES ASSUME LossInv, QuietInv, [Next]_vars PROVE QuietInv'
  OBVIOUS
<1>1. CASE UNCHANGED vars
  BY <1>1 DEF vars, QuietInv, Calm, OneDecider, NoClosers, Does, Faults, CalmInv, RequestOnce,
     Early, Rest, Box, CommandInv, Command, Undecided, Valid, Exclusive, Acting, OpenInv
<1>2. ASSUME NEW a \in Agents, Step(a) PROVE QuietInv'
  <2>1. (Calm' <=> Calm) /\ (NoClosers' <=> NoClosers)
    BY <1>2, SetupStays DEF Calm, NoClosers, OneDecider, Does, Faults
  <2>2. Calm => SoleDecider
    BY DEF Calm, OneDecider, SoleDecider, InPlace, Decisions
  <2>3. Calm => CalmInv'
    BY <1>2, <2>2, CalmNext DEF LossInv, CoreInv, QuietInv
  <2>4. Calm /\ NoClosers => OpenInv'
    BY <1>2, <2>2, OpenNext DEF LossInv, CoreInv, QuietInv
  <2>. QED BY <2>1, <2>3, <2>4 DEF QuietInv
<1>. QED BY <1>1, <1>2 DEF Next

(* When nothing fails and one agent decides, a packet whose denial has been *)
(* recorded is not also active or failed: the denial ran to its end on an   *)
(* undecided copy, so nobody had it cleared.                                *)
THEOREM DenialIsFinal == Spec => []DeniedNotActed
<1>1. QuietInv => DeniedNotActed
  BY DEF QuietInv, Calm, CalmInv, Exclusive, Acting, DeniedNotActed
<1>. QED BY <1>1, LossInit, LossNext, QuietInit, QuietNext, PTL DEF Spec

(* When nothing fails, one agent decides and nobody closes packets, the     *)
(* packet is in at most one lane whenever no command is half-way.           *)
THEOREM OneCopy == Spec => []OneCopyAtRest
<1>1. TypeOK /\ QuietInv => OneCopyAtRest
  <2> SUFFICES ASSUME TypeOK, Calm, NoClosers, CalmInv, OpenInv,
                      \A a \in Agents : pc[a] = "idle"
               PROVE  Cardinality({l \in Lanes : file[l] # Absent}) <= 1
    BY DEF QuietInv, Calm, NoClosers, OneCopyAtRest
  <2> DEFINE S == {l \in Lanes : file[l] # Absent}
  <2>1. file["failed"] = Absent /\ (file["in_progress"] = Absent \/ file["outbox"] = Absent)
    BY DEF OpenInv
  <2>2. file["done"] # Absent => file["done"].status = "DTA"
    BY DEF OpenInv
  <2>3. file["done"] # Absent => file["in_progress"] = Absent /\ file["outbox"] = Absent
    BY <2>2 DEF CalmInv, Exclusive, Acting
  <2>4. \E l \in Lanes : S \subseteq {l}
    BY <2>1, <2>3 DEF Lanes
  <2>5. PICK l \in Lanes : S \subseteq {l}
    BY <2>4
  <2>6. S = {} \/ S = {l}
    BY <2>5
  <2>7. Cardinality({}) = 0 /\ Cardinality({l}) = 1
    BY FS_EmptySet, FS_Singleton
  <2>. QED BY <2>6, <2>7
<1>2. CoreInv => TypeOK
  BY DEF CoreInv
<1>. QED BY <1>1, <1>2, LossInit, LossNext, QuietInit, QuietNext, PTL DEF Spec, LossInv
==============================================================================
