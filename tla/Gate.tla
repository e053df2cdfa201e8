-------------------------------- MODULE Gate ---------------------------------
(****************************************************************************)
(* The gates of ONE work item.  A review council that ends in an escalation *)
(* must leave an unresolved gate, every governed command first heals        *)
(* missing gates and is refused while one is unresolved, and only a later   *)
(* message of the operator resolves or closes it.                           *)
(*                                                                          *)
(* Councils keep their round count and outcome in files of their own; the   *)
(* gates are a list in one JSON file that every writer reads, changes and   *)
(* replaces through ONE temporary name.  The write token they hold          *)
(* meanwhile keeps archives out, not each other.  A descriptor stays good   *)
(* when its file is renamed or replaced.                                    *)
(*                                                                          *)
(* Abstracted: phrases and sources that disqualify a message, the approved  *)
(* scope (one per council), verification councils, failure notices.         *)
(****************************************************************************)
EXTENDS Integers, Sequences, FiniteSets

CONSTANTS Procs,       \* command-line processes and server requests
          Councils,    \* the item's councils; healed in the order of their ids
          MaxRounds,   \* bound: substantive rounds of a council
          Setups       \* who runs which commands, whether they may stop anywhere,
                       \* and a bound: how many messages the operator posts

Calls       == {"advance", "round", "grant", "close"}
Escalations == {"operator_required", "hard_gate"}
Outcomes    == Escalations \cup {"none"}  \* "none": no outcome, or another one
Keyless     == -1  \* the round of a gate of an older version, stored without key
Item        == 0   \* a message that names the work item rather than a council

ASSUME GateAssumption ==
  /\ Councils \subseteq Nat \ {Item}
  /\ MaxRounds \in Nat
  /\ Setups \subseteq [does : [Procs -> SUBSET Calls], stops : BOOLEAN,
                      posts : Nat]

Keys == [council : Councils, round : 0..MaxRounds, outcome : Escalations]

(* Time is the number of messages the operator has posted: a gate's `at` is *)
(* that number when it is created, and message m came after it iff m > at.  *)
(* `by` is the message that resolved or closed it; `seen` says that its     *)
(* reconciliation event has been recorded.                                  *)
Gates == [council : Councils, round : 0..MaxRounds \cup {Keyless},
          outcome : Escalations, at : Nat,
          disposition : {"unresolved", "resolved", "closed"}, by : Nat, seen : BOOLEAN]

(* The content of a file.  "empty" has just been created or truncated, and  *)
(* "torn" mixes the bytes of two writers; neither can be parsed.            *)
Contents == [state : {"absent", "empty", "torn", "ok"}, gates : Seq(Gates)]
Blank(s) == [state |-> s, gates |-> << >>]
Holds(gs) == [state |-> "ok", gates |-> gs]

VARIABLES
  setup,    \* one of Setups, for the whole behaviour
  rounds,   \* rounds[c]: council c's substantive rounds
  outcome,  \* outcome[c]: what its outcome.json says
  messages, \* what each operator message names, in the order posted
  file,     \* the gate record of the work item
  tmp,      \* the temporary file beside it
  pc, call, \* where process p is, and in which command
  todo,     \* councils its preflight still has to heal
  key,      \* the escalation it ensures a gate for, or none
  msg,      \* the operator message it acts on
  new,      \* the gate list it is about to write
  fd,       \* where the file it has open is: "tmp", "file", "gone" or "none"
  due       \* history: the escalations on record when its preflight began

shared == <<rounds, outcome, messages, file, tmp>>
local  == <<pc, call, todo, key, msg, new, fd, due>>
vars   == <<setup, shared, local>>

Does == setup.does

------------------------------------------------------------------------------
NoKey    == [council |-> Item, round |-> Keyless, outcome |-> "none"]
Readable == file.state \in {"absent", "ok"}

(* The first member of S, as a set of at most one.                          *)
First(S) == {i \in S : \A j \in S : i <= j}

(* Mutant of Matches: a gate of any round of the council will do.           *)
MatchesCouncil(k, gs) == {i \in DOMAIN gs : gs[i].council = k.council}

(* Mutant of Matches: only a gate that is still unresolved counts.          *)
MatchesOpen(k, gs) == {i \in DOMAIN gs : /\ gs[i].council = k.council
                                         /\ gs[i].outcome = k.outcome
                                         /\ gs[i].round \in {k.round, Keyless}
                                         /\ gs[i].disposition = "unresolved"}

(* The places of the gates that k's escalation already has: the stored key, *)
(* or a keyless gate of the same council and outcome.                       *)
Matches(k, gs) == {i \in DOMAIN gs : /\ gs[i].council = k.council
                                     /\ gs[i].outcome = k.outcome
                                     /\ gs[i].round \in {k.round, Keyless}}

Open(gs) == {i \in DOMAIN gs : gs[i].disposition = "unresolved"}

(* active_gate: the place of the first unresolved one.                      *)
Active(gs) == First(Open(gs))

Escalated == {c \in Councils : outcome[c] \in Escalations}
KeyOf(c)  == [council |-> c, round |-> rounds[c], outcome |-> outcome[c]]

(* Mutant of Authorizes: the message may be older than the gate.            *)
AuthorizesAnyTime(m, g) == messages[m] \in {Item, g.council}

(* _validate_authority: the message is after the gate and names its target. *)
Authorizes(m, g) == m > g.at /\ messages[m] \in {Item, g.council}

------------------------------------------------------------------------------
Goto(p, label) == pc' = [pc EXCEPT ![p] = label]

(* The command of process p is over, with whatever exit code.               *)
Return(p) == /\ Goto(p, "idle")
             /\ call' = [call EXCEPT ![p] = "none"]
             /\ todo' = [todo EXCEPT ![p] = {}]
             /\ key' = [key EXCEPT ![p] = NoKey]
             /\ msg' = [msg EXCEPT ![p] = 0]
             /\ new' = [new EXCEPT ![p] = << >>]
             /\ due' = [due EXCEPT ![p] = {}]

(* A gate record of an older version, and the message that resolved it.     *)
Legacy(c, m) ==
  [council |-> c, round |-> Keyless, outcome |-> "operator_required", at |-> 0,
   disposition |-> IF m = 0 THEN "unresolved" ELSE "resolved", by |-> m, seen |-> FALSE]

(* A new work item, or one whose only council was escalated by a version    *)
(* that stored no keys, and whose gate an operator may have resolved.       *)
Init ==
  /\ setup \in Setups
  /\ \/ /\ rounds = [c \in Councils |-> 0]
        /\ outcome = [c \in Councils |-> "none"]
        /\ messages = << >>
        /\ file = Blank("absent")
     \/ \E c \in Councils, m \in 0..1 :
          /\ 1 <= MaxRounds
          /\ rounds = [d \in Councils |-> IF d = c THEN 1 ELSE 0]
          /\ outcome = [d \in Councils |-> IF d = c THEN "operator_required" ELSE "none"]
          /\ messages = IF m = 0 THEN << >> ELSE <<Item>>
          /\ file = Holds(<<Legacy(c, m)>>)
  /\ tmp = Blank("absent")
  /\ pc = [p \in Procs |-> "idle"]
  /\ call = [p \in Procs |-> "none"]
  /\ todo = [p \in Procs |-> {}]
  /\ key = [p \in Procs |-> NoKey]
  /\ msg = [p \in Procs |-> 0]
  /\ new = [p \in Procs |-> << >>]
  /\ fd = [p \in Procs |-> "none"]
  /\ due = [p \in Procs |-> {}]

------------------------------------------------------------------------------
(* The operator posts a message that names the item or a council.           *)
Post ==
  /\ Len(messages) < setup.posts
  /\ \E t \in Councils \cup {Item} : messages' = Append(messages, t)
  /\ UNCHANGED <<setup, rounds, outcome, file, tmp, local>>

(* A command starts.  All but grant-proceed begin with the healing of every *)
(* council of the item.                                                     *)
Begin(p, c) ==
  /\ pc[p] = "idle"
  /\ c \in Does[p]
  /\ call' = [call EXCEPT ![p] = c]
  /\ IF c = "grant"
     THEN Goto(p, "grant") /\ UNCHANGED <<todo, due>>
     ELSE /\ Goto(p, "heal")
          /\ todo' = [todo EXCEPT ![p] = Councils]
          /\ due' = [due EXCEPT ![p] = {KeyOf(d) : d \in Escalated}]
  /\ UNCHANGED <<setup, shared, key, msg, new, fd>>

(* heal_escalation_gates, one council: a council that is not escalated is   *)
(* passed over.                                                             *)
Heal(p) ==
  /\ pc[p] = "heal"
  /\ \/ /\ todo[p] = {}
        /\ Goto(p, "check")
        /\ UNCHANGED <<todo, key>>
     \/ \E c \in First(todo[p]) :
          /\ todo' = [todo EXCEPT ![p] = @ \ {c}]
          /\ IF c \in Escalated
             THEN Goto(p, "ensure") /\ key' = [key EXCEPT ![p] = KeyOf(c)]
             ELSE UNCHANGED <<pc, key>>
  /\ UNCHANGED <<setup, shared, call, msg, new, fd, due>>

(* After ensure_gate returned or a record was written: a preflight goes on  *)
(* healing, while a council's own gate and a disposition end their command. *)
Continue(p) == IF call[p] = "escalate" \/ msg[p] # 0 THEN Return(p)
               ELSE /\ Goto(p, "heal")
                    /\ key' = [key EXCEPT ![p] = NoKey]
                    /\ new' = [new EXCEPT ![p] = << >>]
                    /\ UNCHANGED <<call, todo, msg, due>>

NewGate(k) == [council |-> k.council, round |-> k.round, outcome |-> k.outcome,
               at |-> Len(messages), disposition |-> "unresolved", by |-> 0, seen |-> FALSE]

(* The key is stored (anew) and the reconciliation recorded.                *)
Recognized(g, k) == [g EXCEPT !.round = k.round, !.seen = TRUE]

(* ensure_gate up to its write: a gate of this escalation gets its key and  *)
(* its event when it lacks them, and without one an unresolved gate is      *)
(* added.  A record that does not parse ends the command, fail closed.      *)
EnsureGate(p) ==
  LET k  == key[p]
      gs == file.gates
      M  == Matches(k, gs)
      Write(list) == /\ new' = [new EXCEPT ![p] = list]
                     /\ Goto(p, "open")
                     /\ UNCHANGED <<call, todo, key, msg, due>>
  IN
  /\ pc[p] = "ensure"
  /\ \/ ~Readable /\ Return(p)
     \/ /\ Readable /\ M = {}
        /\ Write(Append(gs, NewGate(k)))
     \/ /\ Readable
        /\ \E i \in First(M) :
             IF gs[i].round = k.round /\ gs[i].seen THEN Continue(p)
             ELSE Write([gs EXCEPT ![i] = Recognized(@, k)])
  /\ UNCHANGED <<setup, shared, fd>>

------------------------------------------------------------------------------
(* _write_record and _write_record_locked.                                  *)

(* Mutant of OpenTmp: the record itself is opened for writing.              *)
OpenFile(p) ==
  /\ pc[p] = "open"
  /\ file' = Blank("empty")
  /\ fd' = [fd EXCEPT ![p] = "file"]
  /\ Goto(p, "fill")
  /\ UNCHANGED <<setup, rounds, outcome, messages, tmp, call, todo, key, msg, new, due>>

(* Open the temporary file, which other writers may have open as well.      *)
OpenTmp(p) ==
  /\ pc[p] = "open"
  /\ tmp' = Blank("empty")
  /\ fd' = [fd EXCEPT ![p] = "tmp"]
  /\ Goto(p, "fill")
  /\ UNCHANGED <<setup, rounds, outcome, messages, file, call, todo, key, msg, new, due>>

(* What a file becomes when p's list is written from its start: over other  *)
(* bytes their tail may remain.                                             *)
Filled(old, gs) == IF old.state = "empty" THEN {Holds(gs)} ELSE {Holds(gs), Blank("torn")}

FillTmp(p) ==
  /\ pc[p] = "fill"
  /\ \/ fd[p] = "tmp"  /\ tmp' \in Filled(tmp, new[p])   /\ UNCHANGED file
     \/ fd[p] = "file" /\ file' \in Filled(file, new[p]) /\ UNCHANGED tmp
     \/ fd[p] = "gone" /\ UNCHANGED <<file, tmp>>
  /\ fd' = [fd EXCEPT ![p] = "none"]
  /\ Goto(p, "replace")
  /\ UNCHANGED <<setup, rounds, outcome, messages, call, todo, key, msg, new, due>>

(* os.replace.  Without a temporary file, which another writer may have     *)
(* moved already, it fails and the command ends.                            *)
ReplaceTmp(p) ==
  /\ pc[p] = "replace"
  /\ \/ /\ tmp.state = "absent"
        /\ Return(p)
        /\ UNCHANGED <<file, tmp, fd>>
     \/ /\ tmp.state # "absent"
        /\ file' = tmp
        /\ tmp' = Blank("absent")
        /\ fd' = [q \in Procs |-> CASE fd[q] = "file" -> "gone"
                                    [] fd[q] = "tmp"  -> "file"
                                    [] OTHER          -> fd[q]]
        /\ Continue(p)
  /\ UNCHANGED <<setup, rounds, outcome, messages>>

------------------------------------------------------------------------------
(* Mutant of Refused: a council may run while a gate is unresolved.         *)
RefusedUnlessRound(p) == Open(file.gates) # {} /\ call[p] # "round"

(* require_open, and what each command does of it: a gate is unresolved.    *)
Refused(p) == Open(file.gates) # {}

(* After the healing, an agent's command is refused while a gate is         *)
(* unresolved.  close goes on with a message that names the item and came   *)
(* after the gate; otherwise it touches no gate.                            *)
Check(p) ==
  /\ pc[p] = "check"
  /\ \/ /\ ~Readable \/ Refused(p) \/ call[p] = "close"
        /\ Return(p)
     \/ /\ Readable /\ ~Refused(p)
        /\ \/ call[p] = "advance" /\ Goto(p, "advance")
           \/ call[p] = "round"   /\ Goto(p, "commit")
        /\ UNCHANGED <<call, todo, key, msg, new, due>>
     \/ /\ Readable /\ call[p] = "close"
        /\ \E i \in Active(file.gates), m \in DOMAIN messages :
             /\ messages[m] = Item
             /\ m > file.gates[i].at
             /\ msg' = [msg EXCEPT ![p] = m]
        /\ Goto(p, "dispose")
        /\ UNCHANGED <<call, todo, key, new, due>>
  /\ UNCHANGED <<setup, shared, fd>>

(* A claim, response, progress or completion message is written.            *)
Advance(p) ==
  /\ pc[p] = "advance"
  /\ Return(p)
  /\ UNCHANGED <<setup, shared, fd>>

(* A round of one council is committed, or none: a reconciliation, a round  *)
(* without reviewers, an audit record, a council at its last round.         *)
Commit(p) ==
  /\ pc[p] = "commit"
  /\ \E c \in Councils :
       /\ \/ UNCHANGED rounds
          \/ rounds[c] < MaxRounds /\ rounds' = [rounds EXCEPT ![c] = @ + 1]
       /\ todo' = [todo EXCEPT ![p] = {c}]
  /\ call' = [call EXCEPT ![p] = "escalate"]
  /\ Goto(p, "save")
  /\ UNCHANGED <<setup, outcome, messages, file, tmp, key, msg, new, fd, due>>

(* save_outcome, after evaluate has judged the votes (without a substantive *)
(* round only a hard gate escalates); an escalation goes on to its gate.    *)
SaveOutcome(p) ==
  /\ pc[p] = "save"
  /\ \E c \in todo[p], o \in Outcomes :
       /\ o = "operator_required" => rounds[c] > 0
       /\ outcome' = [outcome EXCEPT ![c] = o]
       /\ IF o \in Escalations
          THEN /\ key' = [key EXCEPT ![p] = [council |-> c, round |-> rounds[c],
                                            outcome |-> o]]
               /\ Goto(p, "ensure")
               /\ UNCHANGED <<call, todo, msg, new, due>>
          ELSE Return(p)
  /\ UNCHANGED <<setup, rounds, messages, file, tmp, fd>>

------------------------------------------------------------------------------
(* grant_proceed: an unresolved gate, and a message that authorizes it.     *)
Grant(p) ==
  /\ pc[p] = "grant"
  /\ \/ Return(p)
     \/ /\ Readable
        /\ \E i \in Active(file.gates), m \in DOMAIN messages :
             /\ Authorizes(m, file.gates[i])
             /\ msg' = [msg EXCEPT ![p] = m]
        /\ Goto(p, "dispose")
        /\ UNCHANGED <<call, todo, key, new, due>>
  /\ UNCHANGED <<setup, shared, fd>>

(* Mutant of Disposition: the command's own name is stored.                 *)
DispositionNamed(p) == call[p]

Disposition(p) == IF call[p] = "close" THEN "closed" ELSE "resolved"

Disposed(g, d, m) == [g EXCEPT !.disposition = d, !.by = m]

(* Mutant of RecordDisposition: the first gate is taken, unresolved or not. *)
RecordOnFirst(p) ==
  LET gs == file.gates IN
  /\ pc[p] = "dispose"
  /\ \/ /\ ~Readable \/ Open(gs) = {}
        /\ Return(p)
     \/ /\ Readable /\ Open(gs) # {}
        /\ new' = [new EXCEPT ![p] = [gs EXCEPT ![1] = Disposed(@, Disposition(p), msg[p])]]
        /\ Goto(p, "open")
        /\ UNCHANGED <<call, todo, key, msg, due>>
  /\ UNCHANGED <<setup, shared, fd>>

(* _record_disposition up to its write: the record is read again, and the   *)
(* first gate that is unresolved NOW gets the disposition.                  *)
RecordDisposition(p) ==
  LET gs == file.gates IN
  /\ pc[p] = "dispose"
  /\ \/ /\ ~Readable \/ Open(gs) = {}
        /\ Return(p)
     \/ /\ Readable
        /\ \E i \in Active(gs) :
             new' = [new EXCEPT ![p] =
                       [gs EXCEPT ![i] = Disposed(@, Disposition(p), msg[p])]]
        /\ Goto(p, "open")
        /\ UNCHANGED <<call, todo, key, msg, due>>
  /\ UNCHANGED <<setup, shared, fd>>

------------------------------------------------------------------------------
(* A process dies, or is refused because an archive has begun.              *)
Stop(p) ==
  /\ setup.stops
  /\ pc[p] # "idle"
  /\ Return(p)
  /\ fd' = [fd EXCEPT ![p] = "none"]
  /\ UNCHANGED <<setup, shared>>

Step(p) == \/ \E c \in Calls : Begin(p, c)
           \/ Heal(p) \/ EnsureGate(p) \/ OpenTmp(p) \/ FillTmp(p) \/ ReplaceTmp(p)
           \/ Check(p) \/ Advance(p) \/ Commit(p) \/ SaveOutcome(p)
           \/ Grant(p) \/ RecordDisposition(p) \/ Stop(p)

Next == Post \/ \E p \in Procs : Step(p)

Spec == Init /\ [][Next]_vars

------------------------------------------------------------------------------
(* Properties.                                                              *)

(* Every variable keeps the shape the actions rely on.                      *)
TypeOK ==
  /\ setup \in Setups
  /\ rounds \in [Councils -> 0..MaxRounds]
  /\ outcome \in [Councils -> Outcomes]
  /\ messages \in Seq(Councils \cup {Item})
  /\ file \in Contents /\ tmp \in Contents
  /\ pc \in [Procs -> {"idle", "heal", "ensure", "open", "fill", "replace", "check",
                       "advance", "commit", "save", "grant", "dispose"}]
  /\ call \in [Procs -> Calls \cup {"none", "escalate"}]
  /\ todo \in [Procs -> SUBSET Councils]
  /\ key \in [Procs -> Keys \cup {NoKey}]
  /\ msg \in [Procs -> Nat]
  /\ new \in [Procs -> Seq(Gates)]
  /\ fd \in [Procs -> {"none", "tmp", "file", "gone"}]
  /\ due \in [Procs -> SUBSET Keys]

Keyed(gs, k) == {i \in DOMAIN gs : /\ gs[i].council = k.council
                                   /\ gs[i].round = k.round
                                   /\ gs[i].outcome = k.outcome}

(* An escalation never has two gates, whatever processes race, stop or      *)
(* overwrite each other's record ("exactly ONE gate").                      *)
OneGatePerEscalation ==
  \A i, j \in DOMAIN file.gates :
    /\ i # j
    /\ file.gates[i].round # Keyless
    => \/ file.gates[i].council # file.gates[j].council
       \/ file.gates[i].round # file.gates[j].round
       \/ file.gates[i].outcome # file.gates[j].outcome

(* Who rewrites the gate record in a preflight, and who in a disposition.   *)
Healers   == {p \in Procs : Does[p] \cap {"advance", "round", "close"} # {}}
Resolvers == {p \in Procs : Does[p] \cap {"grant", "close"} # {}}

Sole(S) == \A p, q \in S : p = q
Alone   == Sole(Healers \cup Resolvers)

(* Every escalation on record when p's preflight began has its gate.        *)
Gated(p) == /\ file.state = "ok" \/ due[p] = {}
            /\ \A k \in due[p] : Keyed(file.gates, k) # {}

Passes(p) == pc[p] = "check" /\ pc'[p] \in {"advance", "commit"}

(* A governed command that gets past its preflight has found the gate of    *)
(* every escalation that was on record when it began, also of one whose     *)
(* gate a command that stopped had not created: where commands run one at a *)
(* time.  (What is unresolved refuses it.)                                  *)
NoUngatedAdvance ==
  [][Alone => \A p \in Procs : Passes(p) => Gated(p)]_vars

(* The same for commands of any number of processes: "HEAL a missing gate   *)
(* before any governed advancement".                                        *)
NeverUngated ==
  [][\A p \in Procs : Passes(p) => Gated(p)]_vars

(* A gate is resolved or closed only by a message that came after it and    *)
(* names it: where commands run one at a time and may stop anywhere, and    *)
(* also where the operator's command and one agent's preflights rewrite the *)
(* record at the same time and run to their end. (A grant that stops leaves *)
(* its list under the shared temporary name. When the agent then moves it   *)
(* into place, it goes on past the gate and may open the next one, and a    *)
(* second grant, validated against the first gate, resolves that one with   *)
(* the older message.)                                                      *)
AuthorityAfterGate ==
  /\ Sole(Healers) /\ Sole(Resolvers)
  /\ setup.stops => Alone
  =>
    \A i \in DOMAIN file.gates :
      LET g == file.gates[i] IN
      g.disposition # "unresolved" =>
        /\ g.by \in g.at + 1 .. Len(messages)
        /\ messages[g.by] \in {Item, g.council}

(* Where commands run one at a time, the record can be read at any moment,  *)
(* also when they stop half-way.                                            *)
RecordReadable == Alone => Readable

(* Where commands run one at a time there is at most one unresolved gate:   *)
(* no council goes on while the item is gated.                              *)
OneOpenGate == Alone => Cardinality(Open(file.gates)) <= 1

(* Where commands run one at a time, no later command changes a gate that   *)
(* has been resolved or closed, except for its key and its event.           *)
DispositionIsFinal ==
  [][Alone => \A i \in DOMAIN file.gates :
       file.gates[i].disposition # "unresolved" =>
         /\ i \in DOMAIN file'.gates
         /\ file'.gates[i].disposition = file.gates[i].disposition
         /\ file'.gates[i].by = file.gates[i].by]_vars
==============================================================================
