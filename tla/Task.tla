-------------------------------- MODULE Task ---------------------------------
(****************************************************************************)
(* ONE work item from its request to its end: start writes the request, the *)
(* envelope that says how sensitive it is and whether it must be verified,  *)
(* and a claim; councils review its plan and its result; complete ends it   *)
(* if verification allows; otherwise the operator may close it.             *)
(*                                                                          *)
(* The item's state is derived from its messages, gates and councils.       *)
(* Left out: packets (ClearanceQueue has them), progress notes and          *)
(* summaries, which no decision reads, and items of the legacy manifest.    *)
(****************************************************************************)
EXTENDS Council

VARIABLES
  asked,  \* what start is given: class and whether verification is required
  item    \* the item's durable records

Items == [request : BOOLEAN, envelope : BOOLEAN, claimed : BOOLEAN,
          answer : {"none", "respond", "complete"}, closed : BOOLEAN]

task == <<asked, item>>
vars == <<councilVars, task>>

(* _data_sensitivity: without an envelope the item is sensitive.            *)
Class == IF item.envelope THEN asked.class ELSE "sensitive"

(* _verification_state: ... and need not be verified.                       *)
Required == item.envelope /\ asked.required

Verifies  == {c \in Councils : council[c].phase = "verify"}
PlanCouncils == {c \in Councils : council[c].phase = "plan"}
Newest(S) == {c \in S : \A d \in S : d <= c}
Agreed(S) == \A c \in Newest(S) : outcome[c] = "agreement"

(* _derive_state, in its order.                                             *)
Status == IF ~item.request THEN "none"
          ELSE IF item.closed THEN "closed"
          ELSE IF Open # {} THEN "operator_required"
          ELSE IF item.answer # "none" THEN "done"
          ELSE IF ~Agreed(Verifies) THEN "verification"
          ELSE IF ~Agreed(PlanCouncils) THEN "planning"
          ELSE IF item.claimed THEN "claimed" ELSE "open"

------------------------------------------------------------------------------
(* start.                                                                   *)

Request(p) == /\ pc[p] = "idle" /\ Does(p, "start") /\ ~item.request
              /\ item' = [item EXCEPT !.request = TRUE]
              /\ Goto(p, "envelope")
              /\ UNCHANGED <<asked, setup, posts, files, gates, about, plan, mem, got, history>>

Envelope(p) == /\ pc[p] = "envelope"
               /\ item' = [item EXCEPT !.envelope = TRUE]
               /\ Goto(p, "claim")
               /\ UNCHANGED <<asked, setup, posts, files, gates, about, plan, mem, got, history>>

(* _gate_block: an agent's claim or answer is refused while a gate is open. *)
Passed(p) == pc[p] \in {"claim", "respond"} /\ Clear
Halted(p) == /\ pc[p] \in {"claim", "respond"} /\ ~Clear
             /\ Record(Missing)
             /\ Return(p)
             /\ UNCHANGED <<task, setup, posts, files, history>>

Claim(p) == /\ pc[p] = "claim" /\ Passed(p)
            /\ item' = [item EXCEPT !.claimed = TRUE]
            /\ Return(p)
            /\ UNCHANGED <<asked, setup, posts, files, gates, history>>

------------------------------------------------------------------------------
(* claim, respond, complete.                                                *)

Reclaim(p) == /\ pc[p] = "idle" /\ Does(p, "work") /\ item.request
              /\ Goto(p, "claim")
              /\ UNCHANGED <<task, setup, posts, files, gates, about, plan, mem, got, history>>

(* respond as any other agent would call it.                                *)
Respond(p) == /\ pc[p] = "idle" /\ Does(p, "work") /\ item.request /\ Clear
              /\ item' = [item EXCEPT !.answer = "respond"]
              /\ UNCHANGED <<asked, councilVars>>

(* The operator answers whatever is open, after the missing gates.          *)
Reply(p) == /\ pc[p] = "idle" /\ Does(p, "operator") /\ item.request
            /\ Record(Missing)
            /\ item' = [item EXCEPT !.answer = "respond"]
            /\ UNCHANGED <<asked, setup, posts, files, local, history>>

(* Mutant of MayFinish: required, but no council was ever run.              *)
MayFinishUnrun == Agreed(Verifies)

(* The newest verification council agreed; there is one if it is required.  *)
MayFinish == Agreed(Verifies) /\ (Required => Verifies # {})

Complete(p) == /\ pc[p] = "idle" /\ Does(p, "complete") /\ item.request
               /\ Clear /\ MayFinish
               /\ Goto(p, "respond")
               /\ UNCHANGED <<task, setup, posts, files, gates, about, plan, mem, got, history>>

Done(p) == /\ pc[p] = "respond" /\ Passed(p)
           /\ item' = [item EXCEPT !.answer = "complete"]
           /\ Return(p)
           /\ UNCHANGED <<asked, setup, posts, files, gates, history>>

------------------------------------------------------------------------------
(* close and grant-proceed, on the authority of an operator's message.      *)

(* The gates that are open once the missing ones are recorded.              *)
Healed  == Open \cup {[key |-> k, at |-> posts, open |-> TRUE] : k \in Missing}
Settle(g) == gates' = (gates \ {g}) \cup {[g EXCEPT !.open = FALSE]}

(* Something failed or is open, and a message is younger than all of it:    *)
(* than the newest verification council and the gate.                       *)
MayClose == /\ Verifies # {} \/ Required \/ Healed # {}
            /\ ~(Verifies # {} /\ Agreed(Verifies) /\ Healed = {})
            /\ \A c \in Newest(Verifies) : posts > council[c].at
            /\ \A g \in {h \in Healed : \A i \in Healed : h.at <= i.at} : posts > g.at
            /\ posts > 0

Close(p) == /\ pc[p] = "idle" /\ Does(p, "operator") /\ item.request
            /\ MayClose
            /\ Record(Missing)
            /\ item' = [item EXCEPT !.closed = TRUE]
            /\ IF Healed = {} THEN UNCHANGED pc ELSE Goto(p, "settle")
            /\ UNCHANGED <<asked, setup, posts, files, about, plan, mem, got, history>>

(* record_operator_closure of the gate that is active by then, if one was   *)
(* when the item was closed.                                                *)
SettleGate(p) == /\ pc[p] = "settle"
                 /\ \/ \E g \in Active : posts > g.at /\ Settle(g)
                    \/ (\E g \in Active : posts <= g.at) /\ UNCHANGED gates
                    \/ Open = {} /\ UNCHANGED gates
                 /\ Return(p)
                 /\ UNCHANGED <<task, setup, posts, files, history>>

GrantProceed(p) == /\ pc[p] = "idle" /\ Does(p, "operator")
                   /\ \E g \in Active : posts > g.at /\ Settle(g)
                   /\ UNCHANGED <<task, setup, posts, files, local, history>>

------------------------------------------------------------------------------
(* Nothing is there, or start has run.                                      *)
Init == /\ CouncilInit
        /\ asked \in setup.asks
        /\ item = [request |-> setup.begun, envelope |-> setup.begun,
                   claimed |-> setup.begun, answer |-> "none", closed |-> FALSE]

(* What a command of process p does until it returns.                       *)
Step(p) == \/ Round(p) /\ UNCHANGED task
           \/ Envelope(p) \/ Halted(p) \/ Claim(p) \/ Done(p) \/ SettleGate(p)

Next == \/ \E p \in Procs :
             \/ Step(p)
             \/ item.request /\ Issue(p, Class) /\ UNCHANGED task
             \/ Request(p) \/ Reclaim(p) \/ Respond(p) \/ Reply(p) \/ Complete(p)
             \/ Close(p) \/ GrantProceed(p)
             \/ Crash(p) /\ UNCHANGED task
        \/ Post /\ UNCHANGED task

Spec == Init /\ [][Next]_vars

------------------------------------------------------------------------------
(* Every variable has its type; in particular a council that is listed with *)
(* n rounds has n round files.                                              *)
TypeOK ==
  /\ setup \in Setups /\ posts \in 0..setup.posts
  /\ council \in [Councils -> Records]
  /\ rounds \in [Councils -> [Numbers -> Rounds]]
  /\ \A c \in Councils : \A n \in Listed(council[c]) : rounds[c][n].kind # "none"
  /\ outcome \in [Councils -> Outcomes]
  /\ gates \subseteq Gates
  /\ pc \in [Procs -> {"idle", "ready", "ask", "answer", "list", "attach", "conclude",
                       "escalate", "envelope", "claim", "respond", "settle"}]
  /\ about \in [Procs -> Councils \cup {Nobody}]
  /\ plan \in [Procs -> Plans \cup {0}]
  /\ mem \in [Procs -> Records]
  /\ got \in [Procs -> [Reviewers -> Answers \cup {None, HardGate, Unasked}]]
  /\ made \in [Councils -> [Reviewers -> Nat]]
  /\ safe \in [Councils -> [Reviewers -> Plans \cup {0}]]
  /\ said \in [Councils -> [Numbers -> Said]]
  /\ asked \in Asks /\ item \in Items

(* Over all commands about a council, and however many of them died, no     *)
(* reviewer is called for a round more often than twice and once for every  *)
(* grant of the operator (the attempt budget of run_round).                 *)
AttemptBudget ==
  \A c \in Councils, r \in Reviewers : made[c][r] <= 2 + council[c].extra[r]

(* A validated answer survives a round that does not commit: its reviewer   *)
(* is not called again about the same packet (pending_results).             *)
KeptAnswerNotAskedAgain ==
  [][\A c \in Councils, r \in Reviewers : made'[c][r] > made[c][r] =>
       \E p \in Procs : about[p] = c /\ plan[p] # safe[c][r]]_vars

(* What was really answered and reconciled, whatever the files say: both    *)
(* reviewers gave MinRounds reviews, in one round they approved the same    *)
(* packet and Claude was ready, and the scope is recorded.                  *)
Earned(c) ==
  LET both == {n \in Numbers : \A r \in Reviewers : IsReview(said[c][n].by[r])}
  IN  /\ Cardinality(both) >= MinRounds
      /\ \E n \in both : /\ said[c][n].ready
                        /\ \A r \in Reviewers : said[c][n].by[r].says = "approve"
                        /\ said[c][n].by["gpt"].plan = said[c][n].by["codex"].plan
      /\ council[c].scope

(* An agreement on record was earned: no record of a hard gate, half-saved  *)
(* round or reused answer stands in for a review (evaluate, save_outcome).  *)
AgreementEarned == \A c \in Councils : outcome[c] = "agreement" => Earned(c)

(* A reviewer sees nothing that is sensitive: only packets in verified      *)
(* files, and after a first round, whose findings go with the packet, only  *)
(* in the technical lane (run_round's lineage and the guard together).      *)
ReviewedIsCleared ==
  \A c \in Councils, n \in Numbers, r \in Reviewers : IsReview(said[c][n].by[r]) =>
    /\ said[c][n].by[r].plan \in Verified
    /\ council[c].class # "sensitive"
    /\ (\E k \in 1..(n - 1) : rounds[c][k].kind = "real") => council[c].class = "technical"

(* No process completes an item that another one still starts: between the  *)
(* request and the envelope nothing says that verification is required.     *)
StartedFirst ==
  setup.begun \/ \A p, q \in Procs : Does(p, "start") /\ Does(q, "complete") => p = q

(* Where that is so: an item that reads done since complete ended it, and   *)
(* whose envelope requires verification, has a verification council that    *)
(* earned its agreement; also after other commands have run councils or     *)
(* answered beside complete (cmd_complete).                                 *)
DoneVerified ==
  StartedFirst /\ Status = "done" /\ item.answer = "complete" /\ Required =>
    \E c \in Verifies : Earned(c)
==============================================================================
