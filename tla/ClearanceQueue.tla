--------------------------- MODULE ClearanceQueue ----------------------------
(****************************************************************************)
(* The filesystem clearance queue, for the files of ONE packet name.  Every *)
(* command (request, decide, claim, complete, fail) acts on one file name,  *)
(* so two packets never share a file and the queue is a product of copies   *)
(* of this module.                                                          *)
(*                                                                          *)
(* An agent runs one command line at a time.  Each command is modelled as   *)
(* the system calls that other processes can come between: read and check   *)
(* the source, create the destination, fill it, read it back, remove the    *)
(* source.  None of these commands takes a lock.  The semantics of files is *)
(* POSIX: an unlinked or replaced file stays writable through a descriptor  *)
(* that is already open, so `fd` records the path an open descriptor's file *)
(* is reachable at.                                                         *)
(*                                                                          *)
(* Abstracted: packet fields other than the status and the clearance lease, *)
(* dry runs, and a result that field validation rejects for other reasons.  *)
(****************************************************************************)
EXTENDS Integers, FiniteSets

CONSTANTS Agents,  \* the processes that run the command-line tools
          Setups   \* who may issue which commands, under which faults

Commands   == {"request", "cta", "rfi", "dta", "claim", "complete", "fail"}
InPlace    == {"cta", "rfi"}
Decisions  == {"cta", "rfi", "dta"}
FaultKinds == {"crash", "io", "id_reuse"}

ASSUME QueueAssumption ==
  Setups \subseteq [does : [Agents -> SUBSET Commands], faults : SUBSET FaultKinds]

Lanes  == {"outbox", "in_progress", "done", "failed"}
Closed == {"done", "failed"}
Paths  == Lanes \cup {"tmp"}   \* "tmp": the outbox file's name plus ".tmp"

Statuses == {"RTA", "IN_REVIEW", "RFI_PENDING", "CTA", "IN_PROGRESS",
             "DONE", "DTA", "SUPERSEDED", "FAILED"}

QueueStatus == [outbox      |-> {"RTA", "IN_REVIEW", "RFI_PENDING", "CTA"},
                in_progress |-> {"IN_PROGRESS"},
                done        |-> {"DONE", "DTA", "SUPERSEDED"},
                failed      |-> {"FAILED"}]

(* A file: its packet's status and whether the packet carries a clearance   *)
(* (decision_json CTA and clearance_expires_at, which one decision sets     *)
(* together).  Partial is a file that does not parse: created or truncated  *)
(* and not yet written, or overwritten by two writers.                      *)
Packets == [status : Statuses, cleared : BOOLEAN]
Absent  == [status |-> "absent",  cleared |-> FALSE]
Partial == [status |-> "partial", cleared |-> FALSE]
Files   == Packets \cup {Absent, Partial}

VARIABLES
  setup,     \* one of Setups, for the whole behaviour
  file,      \* file[p]: what is at path p
  pc,        \* pc[a]: where agent a is in its command
  cmd,       \* cmd[a]: the command agent a runs
  result,    \* result[a]: the packet it built and is about to write
  fd,        \* fd[a]: where the file it has open for writing is reachable
  requested, \* history: the packet's name has been used by a request
  verified,  \* history: lanes where a command has read back a good copy
  claimants  \* history: agents whose claim returned success

vars == <<setup, file, pc, cmd, result, fd, requested, verified, claimants>>

Does   == setup.does    \* Does[a]: the commands agent a issues
Faults == setup.faults  \* what may go wrong

------------------------------------------------------------------------------
(* What each command reads, writes and accepts.                             *)

Source(c) == IF c \in {"complete", "fail"} THEN "in_progress" ELSE "outbox"

Dest(c) == CASE c \in {"request", "cta", "rfi"} -> "outbox"
             [] c = "claim"                     -> "in_progress"
             [] c \in {"dta", "complete"}       -> "done"
             [] c = "fail"                      -> "failed"

(* Mutant of Decidable: a cleared packet may be decided again.              *)
DecidableCleared == {"RTA", "IN_REVIEW", "CTA"}

Decidable == {"RTA", "IN_REVIEW"}
Claimable == {"RTA", "IN_REVIEW", "RFI_PENDING", "CTA"}

Accepts(c) == CASE c \in Decisions              -> Decidable
                [] c = "claim"                 -> Claimable
                [] OTHER                       -> {"IN_PROGRESS"}

NewStatus(c) == CASE c = "request"  -> "RTA"
                  [] c = "cta"      -> "CTA"
                  [] c = "rfi"      -> "RFI_PENDING"
                  [] c = "dta"      -> "DTA"
                  [] c = "claim"    -> "IN_PROGRESS"
                  [] c = "complete" -> "DONE"
                  [] c = "fail"     -> "FAILED"

(* Mutant of Build: the command's own name becomes the status.              *)
BuildNamed(c, f) == [status |-> c, cleared |-> f.cleared \/ c = "cta"]

(* A command copies the packet it read and changes the fields of its        *)
(* transition; only a CTA decision adds the lease.                          *)
Build(c, f) == [status |-> NewStatus(c), cleared |-> f.cleared \/ c = "cta"]

(* Mutant of Valid: the clearance lease is not required.                    *)
ValidUnleased(l, f) == f \in Packets /\ f.status \in QueueStatus[l]

(* validate and validate_queue_path: the status belongs to the lane, and a  *)
(* cleared or claimed packet carries its lease.                             *)
Valid(l, f) == /\ f \in Packets
               /\ f.status \in QueueStatus[l]
               /\ f.status \in {"CTA", "IN_PROGRESS"} => f.cleared

------------------------------------------------------------------------------
Init == /\ setup \in Setups
        /\ file = [p \in Paths |-> Absent]
        /\ pc = [a \in Agents |-> "idle"]
        /\ cmd = [a \in Agents |-> "none"]
        /\ result = [a \in Agents |-> Absent]
        /\ fd = [a \in Agents |-> "none"]
        /\ requested = FALSE
        /\ verified = {}
        /\ claimants = {}

Goto(a, label) == pc' = [pc EXCEPT ![a] = label]

(* The command of agent a is over.                                          *)
Return(a) == /\ Goto(a, "idle")
             /\ cmd' = [cmd EXCEPT ![a] = "none"]
             /\ result' = [result EXCEPT ![a] = Absent]

Continue(a, label) == Goto(a, label) /\ UNCHANGED <<cmd, result>>

(* Removing path p (when it is there) orphans the file other agents have    *)
(* open at p.  Agent a itself holds no descriptor afterwards.               *)
FdsAfterUnlink(p, a) ==
  [x \in Agents |-> IF x = a THEN "none" ELSE IF fd[x] = p THEN "gone" ELSE fd[x]]

Unlink(p, a) == /\ file' = [file EXCEPT ![p] = Absent]
                /\ fd' = FdsAfterUnlink(p, a)

------------------------------------------------------------------------------
(* request, before its first write: no source is read.  The default name is *)
(* the time in seconds, so a name may be used again ("id_reuse").           *)
Request(a) ==
  /\ pc[a] = "idle"
  /\ "request" \in Does[a]
  /\ requested => "id_reuse" \in Faults
  /\ requested' = TRUE
  /\ Goto(a, "create")
  /\ cmd' = [cmd EXCEPT ![a] = "request"]
  /\ result' = [result EXCEPT ![a] = Build("request", Absent)]
  /\ UNCHANGED <<setup, file, fd, verified, claimants>>

(* decide, claim and transition, before their first write: load the source, *)
(* check it, build the result and check that too.                           *)
Load(a, c) ==
  /\ pc[a] = "idle"
  /\ c \in Does[a] \ {"request"}
  /\ LET src == file[Source(c)]
         new == Build(c, src)
     IN  /\ Valid(Source(c), src)
         /\ src.status \in Accepts(c)
         /\ Valid(Dest(c), new)
         /\ result' = [result EXCEPT ![a] = new]
  /\ cmd' = [cmd EXCEPT ![a] = c]
  /\ Goto(a, IF c \in InPlace THEN "open" ELSE "create")
  /\ UNCHANGED <<setup, file, fd, requested, verified, claimants>>

(* Mutant of Create: the destination is opened without O_EXCL.              *)
CreateOverwrites(a) ==
  LET d == Dest(cmd[a]) IN
  /\ pc[a] = "create"
  /\ file' = [file EXCEPT ![d] = Partial]
  /\ fd' = [fd EXCEPT ![a] = d]
  /\ Continue(a, "write")
  /\ UNCHANGED <<setup, requested, verified, claimants>>

(* write_exclusive, O_CREAT|O_EXCL: refused when the destination exists,    *)
(* and when the system call fails otherwise.                                *)
Create(a) ==
  LET d == Dest(cmd[a]) IN
  /\ pc[a] = "create"
  /\ \/ /\ file[d] = Absent
        /\ file' = [file EXCEPT ![d] = Partial]
        /\ fd' = [fd EXCEPT ![a] = d]
        /\ Continue(a, "write")
     \/ /\ file[d] # Absent \/ "io" \in Faults
        /\ Return(a)
        /\ UNCHANGED <<file, fd>>
  /\ UNCHANGED <<setup, requested, verified, claimants>>

(* write_exclusive, the write: the bytes go to the file that was created,   *)
(* wherever it is now; a failed write removes the destination PATH.         *)
Write(a) ==
  LET d == Dest(cmd[a]) IN
  /\ pc[a] = "write"
  /\ \/ /\ file' = IF fd[a] = d THEN [file EXCEPT ![d] = result[a]] ELSE file
        /\ fd' = [fd EXCEPT ![a] = "none"]
        /\ Continue(a, "verify")
     \/ /\ "io" \in Faults
        /\ Unlink(d, a)
        /\ Return(a)
  /\ UNCHANGED <<setup, requested, verified, claimants>>

(* Re-validate the destination as it is on disk.                            *)
Verify(a) ==
  LET d == Dest(cmd[a]) IN
  /\ pc[a] = "verify"
  /\ \/ /\ Valid(d, file[d])
        /\ verified' = verified \cup {d}
        /\ IF cmd[a] = "request" THEN Return(a) ELSE Continue(a, "remove")
     \/ /\ ~Valid(d, file[d]) \/ "io" \in Faults
        /\ Continue(a, "rollback")
        /\ UNCHANGED verified
  /\ UNCHANGED <<setup, file, fd, requested, claimants>>

(* The read-back failed: remove the destination path.                       *)
Rollback(a) ==
  /\ pc[a] = "rollback"
  /\ Unlink(Dest(cmd[a]), a)
  /\ Return(a)
  /\ UNCHANGED <<setup, requested, verified, claimants>>

(* Remove the source last.  A source that is gone, or cannot be removed, is *)
(* reported (exit code 1) and the destination stays.                        *)
RemoveSource(a) ==
  LET s == Source(cmd[a]) IN
  /\ pc[a] = "remove"
  /\ \/ /\ file[s] # Absent
        /\ Unlink(s, a)
        /\ claimants' = IF cmd[a] = "claim" THEN claimants \cup {a} ELSE claimants
     \/ /\ file[s] = Absent \/ "io" \in Faults
        /\ UNCHANGED <<file, fd, claimants>>
  /\ Return(a)
  /\ UNCHANGED <<setup, requested, verified>>

------------------------------------------------------------------------------
(* write_inplace: the decisions that stay in the outbox.                    *)

(* An OSError anywhere in write_inplace: remove the temporary path, return. *)
InPlaceFails(a) ==
  /\ pc[a] \in {"open", "fill", "replace"}
  /\ "io" \in Faults
  /\ Unlink("tmp", a)
  /\ Return(a)
  /\ UNCHANGED <<setup, requested, verified, claimants>>

(* Open the temporary file, created or truncated: its name is the same for  *)
(* every decider of the packet.                                             *)
OpenTmp(a) ==
  /\ pc[a] = "open"
  /\ file' = [file EXCEPT !["tmp"] = Partial]
  /\ fd' = [fd EXCEPT ![a] = "tmp"]
  /\ Continue(a, "fill")
  /\ UNCHANGED <<setup, requested, verified, claimants>>

(* Write the decision from offset 0.  Over another decider's bytes the      *)
(* outcome is this packet, or this packet followed by the other's tail.     *)
FillTmp(a) ==
  /\ pc[a] = "fill"
  /\ \/ /\ file' = IF fd[a] \in Paths
                   THEN [file EXCEPT ![fd[a]] = result[a]] ELSE file
     \/ /\ fd[a] \in Paths
        /\ file[fd[a]] \in Packets
        /\ file' = [file EXCEPT ![fd[a]] = Partial]
  /\ fd' = [fd EXCEPT ![a] = "none"]
  /\ Continue(a, "replace")
  /\ UNCHANGED <<setup, requested, verified, claimants>>

(* os.replace of the temporary file over the outbox file, which creates the *)
(* outbox file when it is gone.  Without a temporary file it fails.  The    *)
(* read-back that follows only chooses the exit code.                       *)
ReplaceTmp(a) ==
  /\ pc[a] = "replace"
  /\ \/ /\ file["tmp"] # Absent
        /\ file' = [file EXCEPT !["outbox"] = file["tmp"], !["tmp"] = Absent]
        /\ fd' = [x \in Agents |->
                    CASE x = a            -> "none"
                      [] fd[x] = "outbox" -> "gone"
                      [] fd[x] = "tmp"    -> "outbox"
                      [] OTHER            -> fd[x]]
     \/ /\ file["tmp"] = Absent
        /\ UNCHANGED <<file, fd>>
  /\ Return(a)
  /\ UNCHANGED <<setup, requested, verified, claimants>>

------------------------------------------------------------------------------
(* The process dies; what it wrote stays as it is.                          *)
Crash(a) ==
  /\ "crash" \in Faults
  /\ pc[a] # "idle"
  /\ Return(a)
  /\ fd' = [fd EXCEPT ![a] = "none"]
  /\ UNCHANGED <<setup, file, requested, verified, claimants>>

Step(a) == \/ Request(a)
           \/ \E c \in Commands : Load(a, c)
           \/ Create(a) \/ Write(a) \/ Verify(a) \/ Rollback(a) \/ RemoveSource(a)
           \/ OpenTmp(a) \/ FillTmp(a) \/ ReplaceTmp(a) \/ InPlaceFails(a)
           \/ Crash(a)

Next == \E a \in Agents : Step(a)

Spec == Init /\ [][Next]_vars

------------------------------------------------------------------------------
(* Properties.                                                              *)

(* Every variable keeps the shape the actions above rely on.                *)
TypeOK ==
  /\ setup \in Setups
  /\ file \in [Paths -> Files]
  /\ pc \in [Agents -> {"idle", "create", "write", "verify", "rollback", "remove",
                        "open", "fill", "replace"}]
  /\ cmd \in [Agents -> Commands \cup {"none"}]
  /\ \A a \in Agents : cmd[a] = "none" <=> pc[a] = "idle"
  /\ result \in [Agents -> Files]
  /\ fd \in [Agents -> Paths \cup {"none", "gone"}]
  /\ requested \in BOOLEAN
  /\ verified \subseteq Lanes
  /\ claimants \subseteq Agents

(* At most one agent issues decisions that rewrite the outbox file.         *)
SoleDecider == \A a, b \in Agents :
  Does[a] \cap InPlace # {} /\ Does[b] \cap InPlace # {} => a = b

(* With one such agent: once a request has returned success, a readable and *)
(* valid copy of the packet exists in some lane at every moment, whatever   *)
(* commands race, crash or fail half-way ("fail toward a visible duplicate, *)
(* not loss").                                                              *)
NoLoss == SoleDecider /\ "outbox" \in verified => \E l \in Lanes : Valid(l, file[l])

(* A terminal copy that its command has read back is never changed nor      *)
(* removed by any later or concurrent command.                              *)
ClosedIsFinal ==
  [][\A l \in Closed : l \in verified => file'[l] = file[l]]_vars

(* No interleaving of the commands makes a packet active, complete or       *)
(* failed that was not cleared by a CTA decision.                           *)
ClearedBeforeActed ==
  \A l \in {"in_progress", "done", "failed"} :
    file[l].status \in {"IN_PROGRESS", "DONE", "FAILED"} => file[l].cleared

(* Two workers never both get a successful claim before the packet has been *)
(* completed or failed (or denied), however their commands interleave.      *)
SingleClaimWhileOpen == verified \cap Closed = {} => Cardinality(claimants) <= 1

(* At most one agent decides at all.                                        *)
OneDecider == \A a, b \in Agents :
  Does[a] \cap Decisions # {} /\ Does[b] \cap Decisions # {} => a = b

(* No race between claims and the decisions of one decider leaves two       *)
(* copies behind: when nothing fails, nobody closes packets, and no command *)
(* is half-way, the packet is in at most one lane.                          *)
OneCopyAtRest ==
  /\ OneDecider /\ Faults = {}
  /\ \A a \in Agents : pc[a] = "idle" /\ Does[a] \cap {"complete", "fail"} = {}
  => Cardinality({l \in Lanes : file[l] # Absent}) <= 1

(* When nothing fails and one agent decides, a packet whose denial has been *)
(* recorded is not also being acted on.                                     *)
DeniedNotActed ==
  OneDecider /\ Faults = {} /\ file["done"].status = "DTA"
    => file["in_progress"] = Absent /\ file["failed"] = Absent

(* "only one agent can successfully move a given packet": two agents never  *)
(* both get a successful claim of one packet.                               *)
SingleClaim == Cardinality(claimants) <= 1
==============================================================================
