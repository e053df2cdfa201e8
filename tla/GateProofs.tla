----------------------------- MODULE GateProofs ------------------------------
(* Proofs about the gates of a work item, for any processes, councils,      *)
(* bounds and setups.                                                       *)
EXTENDS Gate, FiniteSetTheorems, TLAPS

------------------------------------------------------------------------------
(* Type correctness.                                                        *)

(* A process that ensures a gate knows for which escalation.                *)
TypeInv == TypeOK /\ \A p \in Procs : pc[p] = "ensure" => key[p] \in Keys

(* What a list becomes stays a list of gates.                               *)
LEMMA NewGateType ==
  ASSUME TypeOK, NEW k \in Keys
  PROVE  NewGate(k) \in Gates
BY DEF NewGate, Keys, Gates, TypeOK

LEMMA RecognizedType ==
  ASSUME NEW g \in Gates, NEW k \in Keys
  PROVE  Recognized(g, k) \in Gates
BY DEF Recognized, Gates, Keys

LEMMA DisposedType ==
  ASSUME NEW g \in Gates, NEW d \in {"resolved", "closed"}, NEW m \in Nat
  PROVE  Disposed(g, d, m) \in Gates
BY DEF Disposed, Gates

LEMMA ChangedType ==
  ASSUME NEW gs \in Seq(Gates), NEW i \in DOMAIN gs, NEW g \in Gates
  PROVE  [gs EXCEPT ![i] = g] \in Seq(Gates)
OBVIOUS

LEMMA MemberType ==
  ASSUME NEW gs \in Seq(Gates), NEW i \in DOMAIN gs
  PROVE  gs[i] \in Gates
OBVIOUS

LEMMA ContentTypes ==
  /\ \A s \in {"absent", "empty", "torn", "ok"} : Blank(s) \in Contents
  /\ \A gs \in Seq(Gates) : Holds(gs) \in Contents
  /\ \A f \in Contents : f.gates \in Seq(Gates) /\ f.state \in {"absent", "empty", "torn", "ok"}
BY DEF Blank, Holds, Contents

LEMMA KeyOfType ==
  ASSUME TypeOK, NEW c \in Escalated
  PROVE  KeyOf(c) \in Keys
BY DEF TypeOK, Escalated, KeyOf, Keys, Outcomes

(* The end of a command keeps the types, and so does its continuation.      *)
LEMMA ReturnLocal ==
  ASSUME TypeInv, NEW p \in Procs, Return(p)
  PROVE  /\ pc' \in [Procs -> {"idle", "heal", "ensure", "open", "fill", "replace", "check",
                              "advance", "commit", "save", "grant", "dispose"}]
         /\ call' \in [Procs -> Calls \cup {"none", "escalate"}]
         /\ todo' \in [Procs -> SUBSET Councils]
         /\ key' \in [Procs -> Keys \cup {NoKey}]
         /\ msg' \in [Procs -> Nat]
         /\ new' \in [Procs -> Seq(Gates)]
         /\ due' \in [Procs -> SUBSET Keys]
         /\ \A q \in Procs : pc'[q] = "ensure" => key'[q] \in Keys
<1>1. << >> \in Seq(Gates)
  OBVIOUS
<1>2. \A q \in Procs : pc'[q] = "ensure" => key'[q] \in Keys
  BY DEF TypeInv, TypeOK, Return, Goto
<1>. QED BY <1>1, <1>2 DEF TypeInv, TypeOK, Return, Goto

LEMMA ReturnType ==
  ASSUME TypeInv, NEW p \in Procs, Return(p), setup' = setup,
         rounds' \in [Councils -> 0..MaxRounds], outcome' \in [Councils -> Outcomes],
         messages' = messages, file' \in Contents, tmp' \in Contents,
         fd' \in [Procs -> {"none", "tmp", "file", "gone"}]
  PROVE  TypeInv'
BY ReturnLocal DEF TypeInv, TypeOK

LEMMA ContinueType ==
  ASSUME TypeInv, NEW p \in Procs, Continue(p), UNCHANGED <<setup, rounds, outcome, messages>>,
         file' \in Contents, tmp' \in Contents,
         fd' \in [Procs -> {"none", "tmp", "file", "gone"}]
  PROVE  TypeInv'
<1>1. CASE Return(p)
  BY <1>1, ReturnType DEF TypeInv, TypeOK
<1>2. CASE ~Return(p)
  <2>1. << >> \in Seq(Gates)
    OBVIOUS
  <2>. QED BY <1>2, <2>1 DEF Continue, Goto, TypeInv, TypeOK
<1>. QED BY <1>1, <1>2

LEMMA InitType == Init => TypeInv
<1> SUFFICES ASSUME Init PROVE TypeInv
  OBVIOUS
<1>1. /\ rounds \in [Councils -> 0..MaxRounds]
      /\ outcome \in [Councils -> Outcomes]
      /\ messages \in Seq(Councils \cup {Item})
      /\ file \in Contents
  <2>1. CASE /\ rounds = [c \in Councils |-> 0]
             /\ outcome = [c \in Councils |-> "none"]
             /\ messages = << >>
             /\ file = Blank("absent")
    BY <2>1, GateAssumption, ContentTypes DEF Outcomes
  <2>2. ASSUME NEW c \in Councils, NEW m \in 0..1, 1 <= MaxRounds,
               rounds = [d \in Councils |-> IF d = c THEN 1 ELSE 0],
               outcome = [d \in Councils |-> IF d = c THEN "operator_required" ELSE "none"],
               messages = IF m = 0 THEN << >> ELSE <<Item>>,
               file = Holds(<<Legacy(c, m)>>)
        PROVE  /\ rounds \in [Councils -> 0..MaxRounds]
               /\ outcome \in [Councils -> Outcomes]
               /\ messages \in Seq(Councils \cup {Item})
               /\ file \in Contents
    <3>1. Legacy(c, m) \in Gates
      BY DEF Legacy, Gates, Escalations
    <3>2. <<Legacy(c, m)>> \in Seq(Gates)
      BY <3>1
    <3>3. << >> \in Seq(Councils \cup {Item}) /\ <<Item>> \in Seq(Councils \cup {Item})
      OBVIOUS
    <3>4. rounds \in [Councils -> 0..MaxRounds]
      BY <2>2, GateAssumption
    <3>5. outcome \in [Councils -> Outcomes]
      BY <2>2 DEF Outcomes, Escalations
    <3>. QED BY <2>2, <3>2, <3>3, <3>4, <3>5, ContentTypes
  <2>. QED BY <2>1, <2>2 DEF Init
<1>2. << >> \in Seq(Gates) /\ Blank("absent") \in Contents
  BY ContentTypes
<1>. QED BY <1>1, <1>2 DEF Init, TypeInv, TypeOK

LEMMA EnsureType ==
  ASSUME TypeInv, NEW p \in Procs, EnsureGate(p)
  PROVE  TypeInv'
<1>1. key[p] \in Keys /\ file.gates \in Seq(Gates)
  BY ContentTypes DEF TypeInv, TypeOK, EnsureGate
<1>2. CASE Return(p)
  BY <1>2, ReturnType DEF EnsureGate, TypeInv, TypeOK, shared
<1>3. CASE Continue(p)
  BY <1>3, ContinueType DEF EnsureGate, TypeInv, TypeOK, shared
<1>4. CASE \E list \in Seq(Gates) : /\ new' = [new EXCEPT ![p] = list]
                                    /\ Goto(p, "open")
                                    /\ UNCHANGED <<call, todo, key, msg, due>>
  BY <1>4 DEF TypeInv, TypeOK, Goto, EnsureGate, shared
<1>5. Append(file.gates, NewGate(key[p])) \in Seq(Gates)
  BY <1>1, NewGateType DEF TypeInv
<1>6. \A i \in First(Matches(key[p], file.gates)) :
        [file.gates EXCEPT ![i] = Recognized(@, key[p])] \in Seq(Gates)
  BY <1>1, RecognizedType, ChangedType, MemberType DEF First, Matches
<1>. QED BY <1>2, <1>3, <1>4, <1>5, <1>6 DEF EnsureGate

LEMMA TypeStep == TypeInv /\ [Next]_vars => TypeInv'
<1> SUFFICES ASSUME TypeInv, [Next]_vars PROVE TypeInv'
  OBVIOUS
<1>1. CASE UNCHANGED vars
  BY <1>1 DEF TypeInv, TypeOK, vars, shared, local
<1>2. CASE Post
  BY <1>2 DEF Post, TypeInv, TypeOK, local
<1>3. ASSUME NEW p \in Procs, Step(p) PROVE TypeInv'
  <2>0. \A c \in Escalated : KeyOf(c) \in Keys
    BY KeyOfType DEF TypeInv
  <2>1. ASSUME NEW c \in Calls, Begin(p, c) PROVE TypeInv'
    <3>1. due' \in [Procs -> SUBSET Keys]
      BY <2>0, <2>1 DEF Begin, TypeInv, TypeOK
    <3>2. todo' \in [Procs -> SUBSET Councils]
      BY <2>1 DEF Begin, TypeInv, TypeOK
    <3>3. \A q \in Procs : pc'[q] = "ensure" => pc[q] = "ensure"
      BY <2>1 DEF Begin, TypeInv, TypeOK, Goto
    <3>. QED BY <2>1, <3>1, <3>2, <3>3 DEF Begin, TypeInv, TypeOK, Goto, shared
  <2>2. CASE Heal(p)
    <3>1. key' \in [Procs -> Keys \cup {NoKey}]
      <4>1. CASE key' = key
        BY <4>1 DEF TypeInv, TypeOK
      <4>2. CASE \E c \in Escalated : key' = [key EXCEPT ![p] = KeyOf(c)]
        BY <2>0, <4>2 DEF TypeInv, TypeOK
      <4>. QED BY <2>2, <4>1, <4>2 DEF Heal
    <3>2. todo' \in [Procs -> SUBSET Councils]
      BY <2>2 DEF Heal, TypeInv, TypeOK
    <3>3. \A q \in Procs : pc'[q] = "ensure" => key'[q] \in Keys
      BY <2>0, <2>2 DEF Heal, TypeInv, TypeOK, Goto
    <3>. QED BY <2>2, <3>1, <3>2, <3>3 DEF Heal, TypeInv, TypeOK, Goto, shared
  <2>3. CASE EnsureGate(p)
    BY <2>3, EnsureType
  <2>4. CASE OpenTmp(p)
    BY <2>4, ContentTypes DEF OpenTmp, TypeInv, TypeOK, Goto
  <2>5. CASE FillTmp(p)
    <3>1. \A f \in Contents : Filled(f, new[p]) \subseteq Contents
      BY ContentTypes DEF Filled, TypeInv, TypeOK
    <3>. QED BY <2>5, <3>1 DEF FillTmp, TypeInv, TypeOK, Goto
  <2>6. CASE ReplaceTmp(p)
    <3>1. file' \in Contents /\ tmp' \in Contents
      BY <2>6, ContentTypes DEF ReplaceTmp, TypeInv, TypeOK
    <3>2. fd' \in [Procs -> {"none", "tmp", "file", "gone"}]
      BY <2>6 DEF ReplaceTmp, TypeInv, TypeOK
    <3>3. CASE Continue(p)
      BY <2>6, <3>1, <3>2, <3>3, ContinueType DEF ReplaceTmp
    <3>4. CASE Return(p) /\ UNCHANGED <<file, tmp, fd>>
      BY <2>6, <3>2, <3>4, ReturnType DEF ReplaceTmp, TypeInv, TypeOK
    <3>. QED BY <2>6, <3>3, <3>4 DEF ReplaceTmp
  <2>7. CASE Check(p)
    <3>1. CASE Return(p)
      BY <2>7, <3>1, ReturnType DEF Check, TypeInv, TypeOK, shared
    <3>2. CASE ~Return(p)
      <4>1. msg' \in [Procs -> Nat]
        <5>1. DOMAIN messages \subseteq Nat
          BY DEF TypeInv, TypeOK
        <5>2. CASE msg' = msg
          BY <5>2 DEF TypeInv, TypeOK
        <5>3. CASE \E m \in DOMAIN messages : msg' = [msg EXCEPT ![p] = m]
          BY <5>1, <5>3 DEF TypeInv, TypeOK
        <5>. QED BY <2>7, <3>2, <5>2, <5>3 DEF Check
      <4>2. \A q \in Procs : pc'[q] = "ensure" => pc[q] = "ensure"
        BY <2>7, <3>2 DEF Check, TypeInv, TypeOK, Goto
      <4>. QED BY <2>7, <3>2, <4>1, <4>2 DEF Check, TypeInv, TypeOK, Goto, shared
    <3>. QED BY <3>1, <3>2
  <2>8. CASE Advance(p)
    BY <2>8, ReturnType DEF Advance, TypeInv, TypeOK, shared
  <2>9. CASE Commit(p)
    BY <2>9, GateAssumption DEF Commit, TypeInv, TypeOK, Goto
  <2>10. CASE SaveOutcome(p)
    <3>1. outcome' \in [Councils -> Outcomes]
      BY <2>10 DEF SaveOutcome, TypeInv, TypeOK
    <3>2. CASE Return(p)
      BY <2>10, <3>1, <3>2, ReturnType DEF SaveOutcome, TypeInv, TypeOK
    <3>3. CASE ~Return(p)
      <4>1. PICK c \in todo[p], o \in Escalations :
              /\ key' = [key EXCEPT ![p] = [council |-> c, round |-> rounds[c],
                                           outcome |-> o]]
              /\ Goto(p, "ensure")
              /\ UNCHANGED <<call, todo, msg, new, due>>
        BY <2>10, <3>3 DEF SaveOutcome
      <4>2. [council |-> c, round |-> rounds[c], outcome |-> o] \in Keys
        BY DEF Keys, TypeInv, TypeOK
      <4>3. \A q \in Procs : pc'[q] = "ensure" => key'[q] \in Keys
        BY <4>1, <4>2 DEF TypeInv, TypeOK, Goto
      <4>. QED BY <2>10, <3>1, <4>1, <4>2, <4>3 DEF SaveOutcome, Goto, TypeInv, TypeOK
    <3>. QED BY <3>2, <3>3
  <2>11. CASE Grant(p)
    <3>1. CASE Return(p)
      BY <2>11, <3>1, ReturnType DEF Grant, TypeInv, TypeOK, shared
    <3>2. CASE ~Return(p)
      <4>1. msg' \in [Procs -> Nat]
        <5>1. DOMAIN messages \subseteq Nat
          BY DEF TypeInv, TypeOK
        <5>2. CASE msg' = msg
          BY <5>2 DEF TypeInv, TypeOK
        <5>3. CASE \E m \in DOMAIN messages : msg' = [msg EXCEPT ![p] = m]
          BY <5>1, <5>3 DEF TypeInv, TypeOK
        <5>. QED BY <2>11, <3>2, <5>2, <5>3 DEF Grant
      <4>2. \A q \in Procs : pc'[q] = "ensure" => pc[q] = "ensure"
        BY <2>11, <3>2 DEF Grant, TypeInv, TypeOK, Goto
      <4>. QED BY <2>11, <3>2, <4>1, <4>2 DEF Grant, TypeInv, TypeOK, Goto, shared
    <3>. QED BY <3>1, <3>2
  <2>12. CASE RecordDisposition(p)
    <3>1. CASE Return(p)
      BY <2>12, <3>1, ReturnType DEF RecordDisposition, TypeInv, TypeOK, shared
    <3>2. CASE ~Return(p)
      <4>1. \A i \in Active(file.gates) :
              [file.gates EXCEPT ![i] = Disposed(@, Disposition(p), msg[p])]
                \in Seq(Gates)
        BY ContentTypes, DisposedType, ChangedType, MemberType
           DEF Active, First, Open, Disposition, TypeInv, TypeOK
      <4>. QED BY <2>12, <3>2, <4>1 DEF RecordDisposition, TypeInv, TypeOK, Goto, shared
    <3>. QED BY <3>1, <3>2
  <2>13. CASE Stop(p)
    BY <2>13, ReturnType DEF Stop, TypeInv, TypeOK, shared
  <2>. QED BY <1>3, <2>1, <2>2, <2>3, <2>4, <2>5, <2>6, <2>7, <2>8, <2>9, <2>10,
              <2>11, <2>12, <2>13 DEF Step
<1>. QED BY <1>1, <1>2, <1>3 DEF Next

(* Type correctness of every reachable state.                               *)
THEOREM TypeCorrect == Spec => []TypeOK
<1>1. Spec => []TypeInv
  BY InitType, TypeStep, PTL DEF Spec
<1>2. TypeInv => TypeOK
  BY DEF TypeInv
<1>. QED BY <1>1, <1>2, PTL

------------------------------------------------------------------------------
(* One gate per escalation.  A list is replaced by a list read earlier, a   *)
(* list of another process, or a torn one; so the invariant speaks of every *)
(* list there is, and it must say more than the property: beside a keyless  *)
(* gate there is no other of the same council and outcome, since the first  *)
(* escalation that comes gives it that escalation's key.                    *)

Distinct(gs) ==
  \A i, j \in DOMAIN gs :
    i # j /\ gs[i].council = gs[j].council /\ gs[i].outcome = gs[j].outcome
      => gs[i].round # gs[j].round /\ gs[i].round # Keyless

ListInv == /\ Distinct(file.gates)
           /\ Distinct(tmp.gates)
           /\ \A p \in Procs : Distinct(new[p])

LEMMA DistinctEmpty == Distinct(<< >>)
BY DEF Distinct

LEMMA DistinctBlank ==
  /\ \A s : Distinct(Blank(s).gates)
  /\ \A gs : Distinct(gs) => Distinct(Holds(gs).gates)
BY DistinctEmpty DEF Blank, Holds

(* A gate added for an escalation that no gate matches.                     *)
LEMMA DistinctNew ==
  ASSUME NEW gs \in Seq(Gates), NEW k \in Keys, Distinct(gs), Matches(k, gs) = {}
  PROVE  Distinct(Append(gs, NewGate(k)))
<1> DEFINE h == Append(gs, NewGate(k))
<1>1. DOMAIN h = 1..Len(gs) + 1 /\ DOMAIN gs = 1..Len(gs) /\ Len(gs) \in Nat
  OBVIOUS
<1>2. h[Len(gs) + 1] = NewGate(k) /\ \A i \in 1..Len(gs) : h[i] = gs[i]
  OBVIOUS
<1>3. \A i \in 1..Len(gs) : gs[i].council = k.council /\ gs[i].outcome = k.outcome
                             => gs[i].round # k.round /\ gs[i].round # Keyless
  BY <1>1 DEF Matches
<1>4. /\ NewGate(k).council = k.council
      /\ NewGate(k).outcome = k.outcome
      /\ NewGate(k).round = k.round
      /\ k.round # Keyless
  BY GateAssumption DEF NewGate, Keys, Keyless
<1>5. \A i, j \in 1..Len(gs) + 1 :
        i # j /\ h[i].council = h[j].council /\ h[i].outcome = h[j].outcome
          => h[i].round # h[j].round /\ h[i].round # Keyless
  <2> SUFFICES ASSUME NEW i \in 1..Len(gs) + 1, NEW j \in 1..Len(gs) + 1, i # j,
                      h[i].council = h[j].council, h[i].outcome = h[j].outcome
               PROVE  h[i].round # h[j].round /\ h[i].round # Keyless
    OBVIOUS
  <2> HIDE DEF h
  <2>1. CASE i \in 1..Len(gs) /\ j \in 1..Len(gs)
    BY <1>1, <1>2, <2>1 DEF Distinct
  <2>2. CASE i = Len(gs) + 1 /\ j \in 1..Len(gs)
    BY <1>2, <1>3, <1>4, <2>2
  <2>3. CASE j = Len(gs) + 1 /\ i \in 1..Len(gs)
    BY <1>2, <1>3, <1>4, <2>3
  <2>. QED BY <1>1, <2>1, <2>2, <2>3
<1>. QED BY <1>1, <1>5 DEF Distinct

(* A gate that matches an escalation takes its key.                         *)
LEMMA DistinctRecognized ==
  ASSUME NEW gs \in Seq(Gates), NEW k \in Keys, Distinct(gs), NEW i \in Matches(k, gs)
  PROVE  Distinct([gs EXCEPT ![i] = Recognized(@, k)])
<1> DEFINE h == [gs EXCEPT ![i] = Recognized(@, k)]
<1>1. i \in DOMAIN gs /\ gs[i] \in Gates
  BY MemberType DEF Matches
<1>2. /\ Recognized(gs[i], k).council = gs[i].council
      /\ Recognized(gs[i], k).outcome = gs[i].outcome
      /\ Recognized(gs[i], k).round = k.round
  BY <1>1 DEF Recognized, Gates
<1>3. /\ gs[i].council = k.council /\ gs[i].outcome = k.outcome
      /\ gs[i].round \in {k.round, Keyless}
      /\ k.round # Keyless
  BY GateAssumption DEF Matches, Keys, Keyless
<1>4. DOMAIN h = DOMAIN gs /\ h[i] = Recognized(gs[i], k)
      /\ \A j \in DOMAIN gs : j # i => h[j] = gs[j]
  BY <1>1
<1> HIDE DEF h
<1>5. ASSUME NEW j \in DOMAIN gs, j # i, gs[j].council = k.council, gs[j].outcome = k.outcome
      PROVE  gs[j].round # k.round /\ gs[j].round # Keyless
  BY <1>1, <1>3, <1>5 DEF Distinct
<1>6. Distinct(h)
  BY <1>1, <1>2, <1>3, <1>4, <1>5 DEF Distinct
<1>. QED BY <1>6 DEF h

(* A disposition changes no key.                                            *)
LEMMA DistinctDisposed ==
  ASSUME NEW gs \in Seq(Gates), Distinct(gs), NEW i \in DOMAIN gs, NEW d, NEW m
  PROVE  Distinct([gs EXCEPT ![i] = Disposed(@, d, m)])
<1> DEFINE h == [gs EXCEPT ![i] = Disposed(@, d, m)]
<1>1. gs[i] \in Gates
  BY MemberType
<1>2. /\ Disposed(gs[i], d, m).council = gs[i].council
      /\ Disposed(gs[i], d, m).outcome = gs[i].outcome
      /\ Disposed(gs[i], d, m).round = gs[i].round
  BY <1>1 DEF Disposed, Gates
<1>3. DOMAIN h = DOMAIN gs /\ h[i] = Disposed(gs[i], d, m)
      /\ \A j \in DOMAIN gs : j # i => h[j] = gs[j]
  OBVIOUS
<1> HIDE DEF h
<1>4. Distinct(h)
  BY <1>2, <1>3 DEF Distinct
<1>. QED BY <1>4 DEF h

LEMMA ListStep == TypeInv /\ ListInv /\ [Next]_vars => ListInv'
<1> SUFFICES ASSUME TypeInv, ListInv, [Next]_vars PROVE ListInv'
  OBVIOUS
<1>1. CASE UNCHANGED vars \/ Post
  BY <1>1 DEF ListInv, Post, vars, shared, local
<1>2. ASSUME NEW p \in Procs, Step(p) PROVE ListInv'
  <2>1. CASE UNCHANGED <<file, tmp>> /\ (UNCHANGED new \/ new' = [new EXCEPT ![p] = << >>])
    BY <2>1, DistinctEmpty DEF ListInv, TypeInv, TypeOK
  <2>2. CASE EnsureGate(p)
    <3>1. file.gates \in Seq(Gates) /\ key[p] \in Keys
      BY <2>2, ContentTypes DEF EnsureGate, TypeInv, TypeOK
    <3>2. UNCHANGED <<file, tmp>>
      BY <2>2 DEF EnsureGate, shared
    <3>3. CASE new' = [new EXCEPT ![p] = Append(file.gates, NewGate(key[p]))]
               /\ Matches(key[p], file.gates) = {}
      BY <3>1, <3>2, <3>3, DistinctNew DEF ListInv, TypeInv, TypeOK
    <3>4. CASE \E i \in Matches(key[p], file.gates) :
                 new' = [new EXCEPT ![p] =
                           [file.gates EXCEPT ![i] = Recognized(@, key[p])]]
      <4>1. PICK i \in Matches(key[p], file.gates) :
              new' = [new EXCEPT ![p] = [file.gates EXCEPT ![i] = Recognized(@, key[p])]]
        BY <3>4
      <4>2. Distinct([file.gates EXCEPT ![i] = Recognized(@, key[p])])
        BY <3>1, DistinctRecognized DEF ListInv
      <4>. QED BY <3>2, <4>1, <4>2 DEF ListInv, TypeInv, TypeOK
    <3>. QED BY <2>1, <2>2, <3>2, <3>3, <3>4 DEF EnsureGate, Return, Continue, First
  <2>3. CASE RecordDisposition(p)
    <3>1. file.gates \in Seq(Gates)
      BY ContentTypes DEF TypeInv, TypeOK
    <3>2. UNCHANGED <<file, tmp>>
      BY <2>3 DEF RecordDisposition, shared
    <3>3. CASE \E i \in DOMAIN file.gates :
                 new' = [new EXCEPT ![p] =
                           [file.gates EXCEPT ![i] = Disposed(@, Disposition(p), msg[p])]]
      BY <3>1, <3>2, <3>3, DistinctDisposed DEF ListInv, TypeInv, TypeOK
    <3>. QED BY <2>1, <2>3, <3>2, <3>3 DEF RecordDisposition, Return, Active, First, Open
  <2>4. CASE OpenTmp(p)
    BY <2>4, DistinctBlank DEF OpenTmp, ListInv
  <2>5. CASE FillTmp(p)
    <3>1. \A f : \A g \in Filled(f, new[p]) : Distinct(g.gates)
      BY DistinctBlank DEF Filled, ListInv
    <3>. QED BY <2>5, <3>1 DEF FillTmp, ListInv
  <2>6. CASE ReplaceTmp(p)
    <3>1. Distinct(file'.gates) /\ Distinct(tmp'.gates)
      BY <2>6, DistinctBlank DEF ReplaceTmp, ListInv
    <3>2. UNCHANGED new \/ new' = [new EXCEPT ![p] = << >>]
      BY <2>6 DEF ReplaceTmp, Return, Continue
    <3>. QED BY <3>1, <3>2, DistinctEmpty DEF ListInv, TypeInv, TypeOK
  <2>7. CASE \/ \E c \in Calls : Begin(p, c)
             \/ Heal(p) \/ Check(p) \/ Advance(p) \/ Commit(p) \/ SaveOutcome(p)
             \/ Grant(p) \/ Stop(p)
    BY <2>1, <2>7 DEF Begin, Heal, Check, Advance, Commit, SaveOutcome, Grant, Stop,
                      Return, shared
  <2>. QED BY <1>2, <2>2, <2>3, <2>4, <2>5, <2>6, <2>7 DEF Step
<1>. QED BY <1>1, <1>2 DEF Next

LEMMA InitList == Init => ListInv
<1> SUFFICES ASSUME Init PROVE ListInv
  OBVIOUS
<1>1. \A g : Distinct(<<g>>)
  BY DEF Distinct
<1>. QED BY <1>1, DistinctEmpty, DistinctBlank DEF Init, ListInv

(* An escalation never has two gates, whatever races, stops or overwrites.  *)
THEOREM GatesAreUnique == Spec => []OneGatePerEscalation
<1>1. Spec => []TypeInv
  BY InitType, TypeStep, PTL DEF Spec
<1>2. Spec => []ListInv
  BY <1>1, InitList, ListStep, PTL DEF Spec
<1>3. ListInv => OneGatePerEscalation
  BY DEF ListInv, Distinct, OneGatePerEscalation
<1>. QED BY <1>2, <1>3, PTL

------------------------------------------------------------------------------
(* Commands that run one at a time.  Between its read and its replacement   *)
(* of the record nobody else writes, so what a process is about to write    *)
(* still has every disposition of the record, and the temporary file is its *)
(* own, whatever an earlier command that stopped has left in it.            *)

Preserves(gs, hs) ==
  \A i \in DOMAIN gs :
    gs[i].disposition # "unresolved" =>
      /\ i \in DOMAIN hs
      /\ hs[i].disposition = gs[i].disposition
      /\ hs[i].by = gs[i].by

Solo(p) == /\ pc[p] # "idle" => p \in Healers \cup Resolvers
           /\ pc[p] # "fill" => fd[p] = "none"
           /\ pc[p] = "fill" => fd[p] = "tmp" /\ tmp.state = "empty"
           /\ pc[p] = "replace" => tmp = Holds(new[p])
           /\ pc[p] \in {"open", "fill", "replace"} => Preserves(file.gates, new[p])

SoloInv == Alone => Readable /\ \A p \in Procs : Solo(p)

LEMMA PreservesRefl == \A gs : Preserves(gs, gs)
BY DEF Preserves

LEMMA PreservesNew ==
  ASSUME NEW gs \in Seq(Gates), NEW g
  PROVE  Preserves(gs, Append(gs, g))
BY DEF Preserves

LEMMA PreservesRecognized ==
  ASSUME NEW gs \in Seq(Gates), NEW i \in DOMAIN gs, NEW k \in Keys
  PROVE  Preserves(gs, [gs EXCEPT ![i] = Recognized(@, k)])
<1>1. gs[i] \in Gates
  BY MemberType
<1>2. /\ Recognized(gs[i], k).disposition = gs[i].disposition
      /\ Recognized(gs[i], k).by = gs[i].by
  BY <1>1 DEF Recognized, Gates
<1>. QED BY <1>2 DEF Preserves

LEMMA PreservesDisposed ==
  ASSUME NEW gs \in Seq(Gates), NEW i \in Open(gs), NEW d, NEW m
  PROVE  Preserves(gs, [gs EXCEPT ![i] = Disposed(@, d, m)])
BY DEF Preserves, Open

(* Whoever takes a step is the one process that does anything.              *)
LEMMA OthersIdle ==
  ASSUME Alone, \A q \in Procs : Solo(q), TypeOK, NEW p \in Procs, Step(p)
  PROVE  /\ p \in Healers \cup Resolvers
         /\ \A q \in Procs : q # p => pc[q] = "idle" /\ fd[q] = "none"
<1>1. p \in Healers \cup Resolvers
  <2>1. CASE pc[p] = "idle"
    <3>1. PICK c \in Calls : c \in Does[p]
      BY <2>1 DEF Step, Begin, Heal, EnsureGate, OpenTmp, FillTmp, ReplaceTmp, Check,
                  Advance, Commit, SaveOutcome, Grant, RecordDisposition, Stop
    <3>. QED BY <3>1 DEF Calls, Healers, Resolvers
  <2>. QED BY <2>1 DEF Solo
<1>. QED BY <1>1 DEF Alone, Sole, Solo

LEMMA SoloFrame ==
  ASSUME UNCHANGED setup
  PROVE  Alone' = Alone /\ Healers' = Healers /\ Resolvers' = Resolvers
BY DEF Alone, Sole, Healers, Resolvers, Does

LEMMA StepSetup ==
  ASSUME NEW p \in Procs, Step(p)
  PROVE  UNCHANGED setup
BY DEF Step, Begin, Heal, EnsureGate, OpenTmp, FillTmp, ReplaceTmp, Check, Advance,
       Commit, SaveOutcome, Grant, RecordDisposition, Stop

LEMMA SoloStep ==
  ASSUME TypeInv, Alone, Readable, \A q \in Procs : Solo(q), NEW p \in Procs, Step(p)
  PROVE  /\ Readable' /\ \A q \in Procs : Solo(q)'
         /\ Preserves(file.gates, file'.gates)
<1>1. p \in Healers \cup Resolvers /\ \A q \in Procs : q # p => pc[q] = "idle" /\ fd[q] = "none"
  BY OthersIdle DEF TypeInv
<1>2. Healers' = Healers /\ Resolvers' = Resolvers
  BY StepSetup, SoloFrame
<1>3. TypeOK /\ file.gates \in Seq(Gates)
  BY ContentTypes DEF TypeInv, TypeOK
<1>4. Solo(p)
  OBVIOUS
<1>5. ASSUME \A q \in Procs : q # p => pc'[q] = pc[q] /\ fd'[q] = fd[q],
             pc'[p] # "fill" => fd'[p] = "none",
             pc'[p] = "fill" => fd'[p] = "tmp" /\ tmp'.state = "empty",
             pc'[p] = "replace" => tmp' = Holds(new'[p]),
             pc'[p] \in {"open", "fill", "replace"} => Preserves(file'.gates, new'[p])
      PROVE  \A q \in Procs : Solo(q)'
  BY <1>1, <1>2, <1>5 DEF Solo
<1>6. CASE \E c \in Calls : Begin(p, c)
  <2>1. UNCHANGED <<file, fd>>
    BY <1>6 DEF Begin, shared
  <2>2. pc'[p] \in {"grant", "heal"} /\ \A q \in Procs : q # p => pc'[q] = pc[q]
    BY <1>3, <1>6 DEF Begin, Goto, TypeOK
  <2>3. pc[p] = "idle"
    BY <1>6 DEF Begin
  <2>. QED BY <1>4, <1>5, <2>1, <2>2, <2>3, PreservesRefl DEF Solo, Readable
<1>7. CASE \/ Heal(p) \/ Check(p) \/ Advance(p) \/ Commit(p) \/ SaveOutcome(p) \/ Grant(p)
  <2>1. UNCHANGED <<file, fd>>
    BY <1>7 DEF Heal, Check, Advance, Commit, SaveOutcome, Grant, shared
  <2>2. pc'[p] \notin {"open", "fill", "replace"} /\ \A q \in Procs : q # p => pc'[q] = pc[q]
    BY <1>3, <1>7 DEF Heal, Check, Advance, Commit, SaveOutcome, Grant, Return, Goto, TypeOK
  <2>3. pc[p] # "fill"
    BY <1>7 DEF Heal, Check, Advance, Commit, SaveOutcome, Grant
  <2>. QED BY <1>4, <1>5, <2>1, <2>2, <2>3, PreservesRefl DEF Solo, Readable
<1>8. CASE EnsureGate(p)
  <2>1. UNCHANGED <<file, fd>> /\ key[p] \in Keys /\ pc[p] = "ensure"
    BY <1>8 DEF EnsureGate, shared, TypeInv
  <2>2. CASE Return(p) \/ Continue(p)
    <3>1. pc'[p] \in {"idle", "heal"} /\ \A q \in Procs : q # p => pc'[q] = pc[q]
      BY <1>3, <2>2 DEF Continue, Return, Goto, TypeOK
    <3>. QED BY <1>4, <1>5, <2>1, <3>1, PreservesRefl DEF Solo, Readable
  <2>3. CASE Goto(p, "open") /\ new' = [new EXCEPT ![p] = Append(file.gates, NewGate(key[p]))]
    <3>1. Preserves(file.gates, new'[p])
      BY <1>3, <2>3, PreservesNew DEF TypeOK
    <3>. QED BY <1>3, <1>4, <1>5, <2>1, <2>3, <3>1, PreservesRefl DEF Solo, Readable, Goto, TypeOK
  <2>4. ASSUME NEW i \in Matches(key[p], file.gates), Goto(p, "open"),
               new' = [new EXCEPT ![p] = [file.gates EXCEPT ![i] = Recognized(@, key[p])]]
        PROVE  /\ Readable' /\ \A q \in Procs : Solo(q)'
               /\ Preserves(file.gates, file'.gates)
    <3>1. Preserves(file.gates, [file.gates EXCEPT ![i] = Recognized(@, key[p])])
      BY <1>3, <2>1, PreservesRecognized DEF Matches
    <3>2. Preserves(file.gates, new'[p])
      BY <1>3, <2>4, <3>1 DEF TypeOK
    <3>. QED BY <1>3, <1>4, <1>5, <2>1, <2>4, <3>2, PreservesRefl DEF Solo, Readable, Goto, TypeOK
  <2>. QED BY <1>8, <2>2, <2>3, <2>4 DEF EnsureGate, First
<1>9. CASE RecordDisposition(p)
  <2>1. UNCHANGED <<file, fd>> /\ pc[p] = "dispose"
    BY <1>9 DEF RecordDisposition, shared
  <2>2. CASE Return(p)
    <3>1. pc'[p] = "idle" /\ \A q \in Procs : q # p => pc'[q] = pc[q]
      BY <1>3, <2>2 DEF Return, Goto, TypeOK
    <3>. QED BY <1>4, <1>5, <2>1, <3>1, PreservesRefl DEF Solo, Readable
  <2>3. ASSUME NEW i \in Open(file.gates), Goto(p, "open"),
               new' = [new EXCEPT ![p] =
                         [file.gates EXCEPT ![i] = Disposed(@, Disposition(p), msg[p])]]
        PROVE  /\ Readable' /\ \A q \in Procs : Solo(q)'
               /\ Preserves(file.gates, file'.gates)
    <3>1. Preserves(file.gates, [file.gates EXCEPT ![i] = Disposed(@, Disposition(p), msg[p])])
      BY <1>3, PreservesDisposed
    <3>2. Preserves(file.gates, new'[p])
      BY <1>3, <2>3, <3>1 DEF TypeOK
    <3>. QED BY <1>3, <1>4, <1>5, <2>1, <2>3, <3>2, PreservesRefl DEF Solo, Readable, Goto, TypeOK
  <2>. QED BY <1>9, <2>2, <2>3 DEF RecordDisposition, Active, First
<1>10. CASE OpenTmp(p)
  <2>1. /\ UNCHANGED <<file, new>> /\ pc[p] = "open" /\ tmp'.state = "empty"
        /\ pc'[p] = "fill" /\ fd'[p] = "tmp"
        /\ \A q \in Procs : q # p => pc'[q] = pc[q] /\ fd'[q] = fd[q]
    BY <1>3, <1>10 DEF OpenTmp, Goto, TypeOK, Blank
  <2>. QED BY <1>4, <1>5, <2>1, PreservesRefl DEF Solo, Readable
<1>11. CASE FillTmp(p)
  <2>1. pc[p] = "fill" /\ fd[p] = "tmp" /\ tmp.state = "empty"
    BY <1>4, <1>11 DEF FillTmp, Solo
  <2>2. /\ UNCHANGED <<file, new>> /\ tmp' = Holds(new[p])
        /\ pc'[p] = "replace" /\ fd'[p] = "none"
        /\ \A q \in Procs : q # p => pc'[q] = pc[q] /\ fd'[q] = fd[q]
    BY <1>3, <1>11, <2>1 DEF FillTmp, Filled, Goto, TypeOK
  <2>. QED BY <1>4, <1>5, <2>1, <2>2, PreservesRefl DEF Solo, Readable
<1>12. CASE ReplaceTmp(p)
  <2>1. pc[p] = "replace" /\ tmp = Holds(new[p]) /\ fd[p] = "none"
    BY <1>4, <1>12 DEF ReplaceTmp, Solo
  <2>2. file' = Holds(new[p]) /\ Continue(p) /\ fd' = [q \in Procs |-> fd[q]]
    BY <1>1, <1>12, <2>1 DEF ReplaceTmp, Holds
  <2>3. /\ pc'[p] \in {"idle", "heal"} /\ \A q \in Procs : q # p => pc'[q] = pc[q]
        /\ \A q \in Procs : fd'[q] = fd[q]
    BY <1>3, <2>2 DEF Continue, Return, Goto, TypeOK
  <2>4. Preserves(file.gates, file'.gates) /\ Readable'
    BY <1>4, <2>1, <2>2 DEF Solo, Readable, Holds
  <2>. QED BY <1>5, <2>1, <2>3, <2>4
<1>13. CASE Stop(p)
  <2>1. /\ UNCHANGED file /\ pc'[p] = "idle" /\ fd'[p] = "none"
        /\ \A q \in Procs : q # p => pc'[q] = pc[q] /\ fd'[q] = fd[q]
    BY <1>3, <1>13 DEF Stop, Return, Goto, shared, TypeOK
  <2>. QED BY <1>5, <2>1, PreservesRefl DEF Readable
<1>. QED BY <1>6, <1>7, <1>8, <1>9, <1>10, <1>11, <1>12, <1>13 DEF Step

LEMMA SoloNext ==
  TypeInv /\ SoloInv /\ [Next]_vars
    => SoloInv' /\ (Alone => Preserves(file.gates, file'.gates))
<1> SUFFICES ASSUME TypeInv, SoloInv, [Next]_vars
             PROVE  SoloInv' /\ (Alone => Preserves(file.gates, file'.gates))
  OBVIOUS
<1>1. CASE UNCHANGED vars \/ Post
  <2>1. UNCHANGED <<setup, file, tmp, pc, new, fd>>
    BY <1>1 DEF Post, vars, shared, local
  <2>2. \A p \in Procs : Solo(p) => Solo(p)'
    BY <2>1, SoloFrame DEF Solo
  <2>. QED BY <2>1, <2>2, SoloFrame, PreservesRefl DEF SoloInv, Readable
<1>2. ASSUME NEW p \in Procs, Step(p)
      PROVE  SoloInv' /\ (Alone => Preserves(file.gates, file'.gates))
  BY <1>2, StepSetup, SoloFrame, SoloStep DEF SoloInv
<1>. QED BY <1>1, <1>2 DEF Next

LEMMA InitSolo == Init => SoloInv
BY DEF Init, SoloInv, Solo, Readable, Blank, Holds

(* Where commands run one at a time, also when they stop anywhere, the      *)
(* record is never found half-written.                                      *)
THEOREM RecordStaysReadable == Spec => []RecordReadable
<1>1. Spec => []TypeInv
  BY InitType, TypeStep, PTL DEF Spec
<1>2. Spec => []SoloInv
  BY <1>1, InitSolo, SoloNext, PTL DEF Spec
<1>3. SoloInv => RecordReadable
  BY DEF SoloInv, RecordReadable
<1>. QED BY <1>2, <1>3, PTL

(* Where commands run one at a time, a gate that is resolved or closed      *)
(* keeps its disposition and its message for ever.                          *)
THEOREM DispositionsStay == Spec => DispositionIsFinal
<1>1. Spec => []TypeInv
  BY InitType, TypeStep, PTL DEF Spec
<1>2. Spec => []SoloInv
  BY <1>1, InitSolo, SoloNext, PTL DEF Spec
<1>3. TypeInv /\ SoloInv /\ [Next]_vars =>
        [Alone => \A i \in DOMAIN file.gates :
           file.gates[i].disposition # "unresolved" =>
             /\ i \in DOMAIN file'.gates
             /\ file'.gates[i].disposition = file.gates[i].disposition
             /\ file'.gates[i].by = file.gates[i].by]_vars
  BY SoloNext DEF Preserves
<1>. QED BY <1>1, <1>2, <1>3, PTL DEF Spec, DispositionIsFinal
------------------------------------------------------------------------------
(* Commands that run one at a time, again: what a council wants is a gate   *)
(* for its escalation, and while an escalation wants one no gate is open    *)
(* and no other escalation wants one.                                       *)

Writing == {"open", "fill", "replace"}

Wants(c, gs) == c \in Escalated /\ Matches(KeyOf(c), gs) = {}

Sound(gs) ==
  /\ \A i, j \in Open(gs) : i = j
  /\ \A c \in Councils : Wants(c, gs) =>
       Open(gs) = {} /\ \A d \in Councils : Wants(d, gs) => d = c

(* A command heals, or has healed and not gone on yet.                      *)
Preflight(p) == /\ pc[p] \in {"heal", "ensure", "check"} \cup Writing
                /\ call[p] # "escalate" /\ msg[p] = 0

HealedBut(p) ==
  /\ due[p] = {KeyOf(d) : d \in Escalated}
  /\ \A c \in Escalated \ todo[p] :
       \/ Keyed(file.gates, KeyOf(c)) # {}
       \/ pc[p] \notin {"heal", "check"} /\ KeyOf(c) = key[p]

(* No gate of gs gets lost in hs.                                           *)
Keeps(gs, hs) == \A k \in Keys : Keyed(gs, k) # {} => Keyed(hs, k) # {}

AtGate(p) ==
  /\ pc[p] = "dispose" => msg[p] # 0
  /\ pc[p] \notin {"dispose"} \cup Writing => msg[p] = 0
  /\ pc[p] \in {"heal", "check"} => call[p] # "escalate"
  /\ pc[p] \in {"ensure"} \cup Writing /\ msg[p] = 0 => \E c \in Escalated : key[p] = KeyOf(c)
  /\ pc[p] \in Writing => Sound(new[p])
  /\ pc[p] \in Writing /\ msg[p] = 0 =>
       Keyed(new[p], key[p]) # {} /\ Keeps(file.gates, new[p])
  /\ Preflight(p) => HealedBut(p)
  /\ pc[p] = "check" => todo[p] = {}
  /\ pc[p] = "commit" => Open(file.gates) = {} /\ \A c \in Councils : ~Wants(c, file.gates)
  /\ pc[p] = "save" => /\ call[p] = "escalate" /\ Open(file.gates) = {}
                       /\ \E c \in Councils : /\ todo[p] = {c}
                                              /\ \A d \in Councils : Wants(d, file.gates) => d = c

RecordInv == /\ file.state = "absent" => file.gates = << >>
             /\ Sound(file.gates)

HealInv == Alone => RecordInv /\ \A p \in Procs : AtGate(p)

LEMMA SameCouncils ==
  ASSUME UNCHANGED <<rounds, outcome>>
  PROVE  /\ Escalated' = Escalated /\ \A c : KeyOf(c)' = KeyOf(c)
         /\ \A c, gs : Wants(c, gs)' <=> Wants(c, gs)
         /\ \A gs : Sound(gs)' <=> Sound(gs)
<1>1. Escalated' = Escalated /\ \A c : KeyOf(c)' = KeyOf(c)
  BY DEF Escalated, KeyOf
<1>2. \A c, gs : Wants(c, gs)' <=> Wants(c, gs)
  BY <1>1 DEF Wants, Matches
<1>3. \A gs : Sound(gs)' <=> Sound(gs)
  BY <1>2 DEF Sound, Open
<1>. QED BY <1>1, <1>2, <1>3

LEMMA SoundNew ==
  ASSUME NEW gs \in Seq(Gates), Sound(gs), NEW c \in Escalated, Matches(KeyOf(c), gs) = {}
  PROVE  LET hs == Append(gs, NewGate(KeyOf(c))) IN
         Sound(hs) /\ Keyed(hs, KeyOf(c)) # {} /\ Keeps(gs, hs)
<1> DEFINE n == Len(gs) + 1
           hs == Append(gs, NewGate(KeyOf(c)))
<1>1. /\ DOMAIN hs = DOMAIN gs \cup {n} /\ n \notin DOMAIN gs
      /\ hs[n] = NewGate(KeyOf(c)) /\ \A i \in DOMAIN gs : hs[i] = gs[i]
  OBVIOUS
<1> HIDE DEF hs, n
<1>2. /\ hs[n].council = KeyOf(c).council /\ hs[n].round = KeyOf(c).round
      /\ hs[n].outcome = KeyOf(c).outcome /\ hs[n].disposition = "unresolved"
  BY <1>1 DEF NewGate
<1>3. n \in Keyed(hs, KeyOf(c)) /\ n \in Matches(KeyOf(c), hs)
  BY <1>1, <1>2 DEF Keyed, Matches
<1>4. Keeps(gs, hs)
  <2>1. \A k \in Keys : Keyed(gs, k) \subseteq Keyed(hs, k)
    BY <1>1 DEF Keyed
  <2>. QED BY <2>1 DEF Keeps
<1>5. Wants(c, gs) /\ c \in Councils
  BY DEF Wants, Escalated
<1>6. Open(gs) = {} /\ \A d \in Councils : Wants(d, gs) => d = c
  BY <1>5 DEF Sound
<1>7. \A i, j \in Open(hs) : i = j
  BY <1>1, <1>6 DEF Open
<1>8. \A d \in Councils : Matches(KeyOf(d), gs) \subseteq Matches(KeyOf(d), hs)
  BY <1>1 DEF Matches
<1>9. \A d \in Councils : ~Wants(d, hs)
  BY <1>3, <1>6, <1>8 DEF Wants
<1>. QED BY <1>3, <1>4, <1>7, <1>9 DEF Sound, hs

LEMMA SoundRecognized ==
  ASSUME NEW gs \in Seq(Gates), Sound(gs), NEW c \in Escalated, KeyOf(c) \in Keys,
         NEW i \in Matches(KeyOf(c), gs)
  PROVE  LET hs == [gs EXCEPT ![i] = Recognized(@, KeyOf(c))] IN
         Sound(hs) /\ Keyed(hs, KeyOf(c)) # {} /\ Keeps(gs, hs)
<1> DEFINE k == KeyOf(c)
           hs == [gs EXCEPT ![i] = Recognized(@, k)]
<1>1. i \in DOMAIN gs /\ gs[i] \in Gates /\ gs[i].council = k.council /\ gs[i].outcome = k.outcome
      /\ gs[i].round \in {k.round, Keyless}
  BY DEF Matches
<1>2. /\ DOMAIN hs = DOMAIN gs /\ hs[i] = Recognized(gs[i], k)
      /\ \A j \in DOMAIN gs : j # i => hs[j] = gs[j]
  BY <1>1
<1>3. /\ hs[i].council = k.council /\ hs[i].outcome = k.outcome /\ hs[i].round = k.round
      /\ hs[i].disposition = gs[i].disposition
  BY <1>1, <1>2 DEF Recognized, Gates
<1> HIDE DEF hs
<1>4. i \in Keyed(hs, k)
  BY <1>1, <1>2, <1>3 DEF Keyed
<1>5. Keeps(gs, hs)
  <2>1. ASSUME NEW l \in Keys, NEW j \in Keyed(gs, l) PROVE j \in Keyed(hs, l)
    <3>1. l.round # Keyless
      BY DEF Keys, Keyless
    <3>2. CASE j = i
      <4>1. gs[i].round = l.round /\ l.round = k.round
        BY <1>1, <2>1, <3>1, <3>2 DEF Keyed
      <4>. QED BY <1>1, <1>2, <1>3, <2>1, <3>2, <4>1 DEF Keyed
    <3>3. CASE j # i
      BY <1>2, <2>1, <3>3 DEF Keyed
    <3>. QED BY <3>2, <3>3
  <2>. QED BY <2>1 DEF Keeps
<1>6. Open(hs) = Open(gs)
  BY <1>1, <1>2, <1>3 DEF Open
<1>7. ASSUME NEW d \in Councils, Wants(d, hs) PROVE Wants(d, gs)
  <2>1. ASSUME NEW j \in Matches(KeyOf(d), gs) PROVE FALSE
    <3>1. CASE j # i
      BY <1>2, <1>7, <2>1, <3>1 DEF Wants, Matches
    <3>2. CASE j = i
      <4>1. d = c
        BY <1>1, <2>1, <3>2 DEF Matches, KeyOf
      <4>. QED BY <1>4, <1>7, <4>1 DEF Wants, Matches, Keyed
    <3>. QED BY <3>1, <3>2
  <2>. QED BY <1>7, <2>1 DEF Wants
<1>8. Sound(hs)
  BY <1>6, <1>7 DEF Sound
<1>. QED BY <1>4, <1>5, <1>8 DEF hs

LEMMA SoundDisposed ==
  ASSUME NEW gs \in Seq(Gates), Sound(gs), NEW i \in Open(gs),
         NEW d \in {"resolved", "closed"}, NEW m
  PROVE  Sound([gs EXCEPT ![i] = Disposed(@, d, m)])
<1> DEFINE hs == [gs EXCEPT ![i] = Disposed(@, d, m)]
<1>1. i \in DOMAIN gs /\ gs[i] \in Gates
  BY DEF Open
<1>2. /\ DOMAIN hs = DOMAIN gs /\ hs[i] = Disposed(gs[i], d, m)
      /\ \A j \in DOMAIN gs : j # i => hs[j] = gs[j]
  BY <1>1
<1>3. /\ hs[i].council = gs[i].council /\ hs[i].outcome = gs[i].outcome
      /\ hs[i].round = gs[i].round
  BY <1>1, <1>2 DEF Disposed, Gates
<1> HIDE DEF hs
<1>4. Open(hs) \subseteq Open(gs)
  <2>1. ASSUME NEW j \in Open(hs) PROVE j \in DOMAIN gs /\ gs[j].disposition = "unresolved"
    <3>1. CASE j = i
      BY <1>1, <3>1 DEF Open
    <3>2. CASE j # i
      BY <1>2, <2>1, <3>2 DEF Open
    <3>. QED BY <3>1, <3>2
  <2>. QED BY <2>1 DEF Open
<1>5. \A c \in Councils : Wants(c, hs) <=> Wants(c, gs)
  <2>1. \A k : Matches(k, hs) = Matches(k, gs)
    BY <1>1, <1>2, <1>3 DEF Matches
  <2>. QED BY <2>1 DEF Wants
<1>6. Sound(hs)
  BY <1>4, <1>5 DEF Sound
<1>. QED BY <1>6 DEF hs

(* What does not touch the record leaves it as sound as it was.             *)
LEMMA RecordStays ==
  ASSUME RecordInv, UNCHANGED <<rounds, outcome, file>>
  PROVE  RecordInv'
BY SameCouncils DEF RecordInv

(* A process whose command is over.                                         *)
LEMMA AtRest ==
  ASSUME NEW p \in Procs, pc'[p] = "idle", msg'[p] = 0
  PROVE  AtGate(p)'
BY DEF AtGate, Writing, Preflight

LEMMA ReturnsToRest ==
  ASSUME TypeOK, NEW p \in Procs, Return(p)
  PROVE  AtGate(p)' /\ pc'[p] = "idle" /\ msg'[p] = 0
<1>1. pc'[p] = "idle" /\ msg'[p] = 0
  BY DEF Return, Goto, TypeOK
<1>. QED BY <1>1, AtRest

LEMMA BeginHeals ==
  ASSUME TypeInv, RecordInv, NEW p \in Procs, AtGate(p), NEW c \in Calls, Begin(p, c)
  PROVE  RecordInv' /\ AtGate(p)'
<1>1. UNCHANGED <<rounds, outcome, file, key>> /\ msg'[p] = msg[p] /\ pc[p] = "idle"
  BY DEF Begin, shared
<1>2. RecordInv'
  BY <1>1, RecordStays
<1>3. msg'[p] = 0
  BY <1>1 DEF AtGate, Writing
<1>4. CASE pc'[p] = "grant"
  BY <1>2, <1>3, <1>4 DEF AtGate, Writing, Preflight
<1>5. CASE /\ pc'[p] = "heal" /\ call'[p] = c /\ todo'[p] = Councils
           /\ due'[p] = {KeyOf(d) : d \in Escalated}
  <2>1. c # "escalate"
    BY DEF Calls
  <2>2. HealedBut(p)'
    <3>1. Escalated' = Escalated /\ \A d : KeyOf(d)' = KeyOf(d)
      BY <1>1, SameCouncils
    <3>2. due'[p] = {KeyOf(d)' : d \in Escalated'}
      BY <1>5, <3>1
    <3>3. Escalated' \subseteq todo'[p]
      BY <1>5, <3>1 DEF Escalated
    <3>. QED BY <3>2, <3>3 DEF HealedBut
  <2>. QED BY <1>2, <1>3, <1>5, <2>1, <2>2 DEF AtGate, Writing
<1>6. pc'[p] = "grant" \/ (pc'[p] = "heal" /\ call'[p] = c /\ todo'[p] = Councils
        /\ due'[p] = {KeyOf(d) : d \in Escalated})
  BY DEF Begin, Goto, TypeInv, TypeOK
<1>. QED BY <1>2, <1>4, <1>5, <1>6

LEMMA HealHeals ==
  ASSUME TypeInv, RecordInv, NEW p \in Procs, AtGate(p), Heal(p)
  PROVE  RecordInv' /\ AtGate(p)'
<1>1. UNCHANGED <<rounds, outcome, file, call, msg, new, due>> /\ pc[p] = "heal"
  BY DEF Heal, shared
<1>2. RecordInv'
  BY <1>1, RecordStays
<1>3. /\ Escalated' = Escalated /\ \A d : KeyOf(d)' = KeyOf(d)
      /\ file' = file /\ \A gs, k : Keyed(gs, k)' = Keyed(gs, k)
  BY <1>1, SameCouncils DEF Keyed
<1>4. /\ msg[p] = 0 /\ call[p] # "escalate"
      /\ due[p] = {KeyOf(d) : d \in Escalated}
      /\ \A c \in Escalated \ todo[p] : Keyed(file.gates, KeyOf(c)) # {}
  BY <1>1 DEF AtGate, Writing, Preflight, HealedBut
<1>5. CASE todo[p] = {} /\ Goto(p, "check") /\ UNCHANGED <<todo, key>>
  <2>1. pc'[p] = "check"
    BY <1>5 DEF Goto, TypeInv, TypeOK
  <2>2. HealedBut(p)'
    BY <1>1, <1>3, <1>4, <1>5 DEF HealedBut
  <2>. QED BY <1>1, <1>2, <1>4, <1>5, <2>1, <2>2 DEF AtGate, Writing
<1>6. ASSUME NEW c \in First(todo[p]), todo' = [todo EXCEPT ![p] = @ \ {c}],
             c \in Escalated, Goto(p, "ensure"), key' = [key EXCEPT ![p] = KeyOf(c)]
      PROVE  AtGate(p)'
  <2>1. pc'[p] = "ensure" /\ key'[p] = KeyOf(c) /\ todo'[p] = todo[p] \ {c}
    BY <1>6 DEF Goto, TypeInv, TypeOK
  <2>2. HealedBut(p)'
    BY <1>1, <1>3, <1>4, <2>1 DEF HealedBut
  <2>. QED BY <1>1, <1>3, <1>4, <1>6, <2>1, <2>2 DEF AtGate, Writing
<1>7. ASSUME NEW c \in First(todo[p]), todo' = [todo EXCEPT ![p] = @ \ {c}],
             c \notin Escalated, UNCHANGED <<pc, key>>
      PROVE  AtGate(p)'
  <2>1. todo'[p] = todo[p] \ {c}
    BY <1>7 DEF TypeInv, TypeOK
  <2>2. HealedBut(p)'
    BY <1>1, <1>3, <1>4, <1>7, <2>1 DEF HealedBut
  <2>. QED BY <1>1, <1>4, <1>7, <2>2 DEF AtGate, Writing
<1>. QED BY <1>2, <1>5, <1>6, <1>7 DEF Heal

(* A command that has a gate for its key and does not write goes on healing *)
(* or is over.                                                              *)
LEMMA ContinueHeals ==
  ASSUME TypeInv, NEW p \in Procs, AtGate(p), Continue(p), UNCHANGED <<rounds, outcome>>,
         pc[p] \in {"ensure"} \cup Writing,
         msg[p] = 0 => Keyed(file'.gates, key[p]) # {} /\ Keeps(file.gates, file'.gates)
  PROVE  AtGate(p)'
<1>1. CASE Return(p)
  BY <1>1, ReturnsToRest DEF TypeInv
<1>2. CASE ~Return(p)
  <2>1. /\ pc'[p] = "heal" /\ msg'[p] = 0 /\ call'[p] # "escalate" /\ msg[p] = 0
        /\ call[p] # "escalate" /\ todo'[p] = todo[p] /\ due'[p] = due[p]
    BY <1>2 DEF Continue, Goto, TypeInv, TypeOK
  <2>2. /\ Escalated' = Escalated /\ \A d : KeyOf(d)' = KeyOf(d)
        /\ \A gs, k : Keyed(gs, k)' = Keyed(gs, k)
    BY SameCouncils DEF Keyed
  <2>3. HealedBut(p)
    BY <2>1 DEF AtGate, Preflight
  <2>4. \A c \in Escalated : KeyOf(c) \in Keys
    BY KeyOfType DEF TypeInv
  <2>5. \A c \in Escalated \ todo[p] : Keyed(file'.gates, KeyOf(c)) # {}
    BY <2>1, <2>3, <2>4 DEF HealedBut, Keeps
  <2>6. HealedBut(p)'
    BY <2>1, <2>2, <2>3, <2>5 DEF HealedBut, Keyed
  <2>. QED BY <2>1, <2>6 DEF AtGate, Writing
<1>. QED BY <1>1, <1>2

LEMMA EnsureHeals ==
  ASSUME TypeInv, RecordInv, NEW p \in Procs, AtGate(p), EnsureGate(p)
  PROVE  RecordInv' /\ AtGate(p)'
<1>1. UNCHANGED <<rounds, outcome, file>> /\ pc[p] = "ensure" /\ file.gates \in Seq(Gates)
  BY ContentTypes DEF EnsureGate, shared, TypeInv, TypeOK
<1>2. RecordInv'
  BY <1>1, RecordStays
<1>3. PICK c \in Escalated : key[p] = KeyOf(c)
  BY <1>1 DEF AtGate, Writing
<1>4. KeyOf(c) \in Keys /\ Sound(file.gates) /\ msg[p] = 0
  BY <1>1, KeyOfType DEF RecordInv, AtGate, TypeInv, Writing
<1>5. CASE Return(p)
  BY <1>2, <1>5, ReturnsToRest DEF TypeInv
<1>6. ASSUME NEW i \in Matches(KeyOf(c), file.gates), file.gates[i].round = KeyOf(c).round, Continue(p)
      PROVE  AtGate(p)'
  <2>1. i \in Keyed(file.gates, key[p]) /\ Keeps(file.gates, file'.gates)
    BY <1>1, <1>3, <1>6 DEF Matches, Keyed, Keeps
  <2>. QED BY <1>1, <1>6, <2>1, ContinueHeals
<1>7. ASSUME NEW hs \in Seq(Gates), Sound(hs), Keyed(hs, KeyOf(c)) # {}, Keeps(file.gates, hs),
             new' = [new EXCEPT ![p] = hs], Goto(p, "open"),
             UNCHANGED <<call, todo, key, msg, due>>
      PROVE  AtGate(p)'
  <2>1. pc'[p] = "open" /\ new'[p] = hs
    BY <1>7 DEF Goto, TypeInv, TypeOK
  <2>2. /\ Escalated' = Escalated /\ \A d : KeyOf(d)' = KeyOf(d)
        /\ Sound(hs)'
    BY <1>1, <1>7, SameCouncils
  <2>3. Preflight(p)' => HealedBut(p)'
    <3>1. Preflight(p)' => Preflight(p)
      BY <1>1, <1>7 DEF Preflight
    <3>2. HealedBut(p) => HealedBut(p)'
      BY <1>1, <1>7, <2>1, <2>2 DEF HealedBut, Keyed
    <3>. QED BY <3>1, <3>2 DEF AtGate
  <2>4. Sound(new[p])'
    BY <2>1, <2>2 DEF Sound, Wants, Matches, Open
  <2>5. Keyed(new'[p], key'[p]) # {} /\ Keeps(file'.gates, new'[p])
    BY <1>1, <1>3, <1>7, <2>1
  <2>. QED BY <1>3, <1>4, <1>7, <2>1, <2>2, <2>3, <2>4, <2>5 DEF AtGate, Writing, Keeps, Keyed
<1>8. CASE /\ Matches(KeyOf(c), file.gates) = {}
           /\ new' = [new EXCEPT ![p] = Append(file.gates, NewGate(KeyOf(c)))]
           /\ Goto(p, "open") /\ UNCHANGED <<call, todo, key, msg, due>>
  <2>1. Append(file.gates, NewGate(KeyOf(c))) \in Seq(Gates)
    BY <1>1, <1>4, NewGateType DEF TypeInv
  <2>. QED BY <1>1, <1>2, <1>4, <1>7, <1>8, <2>1, SoundNew
<1>9. ASSUME NEW i \in Matches(KeyOf(c), file.gates),
             new' = [new EXCEPT ![p] = [file.gates EXCEPT ![i] = Recognized(@, KeyOf(c))]],
             Goto(p, "open"), UNCHANGED <<call, todo, key, msg, due>>
      PROVE  AtGate(p)'
  <2>1. [file.gates EXCEPT ![i] = Recognized(@, KeyOf(c))] \in Seq(Gates)
    BY <1>1, <1>4, RecognizedType, ChangedType, MemberType DEF Matches
  <2>. QED BY <1>1, <1>4, <1>7, <1>9, <2>1, SoundRecognized
<1>. QED BY <1>2, <1>3, <1>5, <1>6, <1>8, <1>9 DEF EnsureGate, First

(* The list is on its way to the record.                                    *)
LEMMA WriteHeals ==
  ASSUME TypeInv, RecordInv, NEW p \in Procs, AtGate(p), OpenTmp(p) \/ FillTmp(p),
         UNCHANGED file
  PROVE  RecordInv' /\ AtGate(p)'
<1>1. /\ UNCHANGED <<rounds, outcome, call, todo, key, msg, new, due>>
      /\ pc[p] \in Writing /\ pc'[p] \in Writing
  BY DEF OpenTmp, FillTmp, Goto, Writing, TypeInv, TypeOK
<1>2. RecordInv'
  BY <1>1, RecordStays
<1>3. /\ Escalated' = Escalated /\ \A d : KeyOf(d)' = KeyOf(d)
      /\ Sound(new[p])' <=> Sound(new[p])
  BY <1>1, SameCouncils DEF Sound, Wants, Matches, Open
<1>4. Preflight(p)' => HealedBut(p)'
  <2>1. Preflight(p)' => Preflight(p)
    BY <1>1 DEF Preflight
  <2>2. HealedBut(p) => HealedBut(p)'
    BY <1>1, <1>3 DEF HealedBut, Keyed, Writing
  <2>. QED BY <2>1, <2>2 DEF AtGate
<1>. QED BY <1>1, <1>2, <1>3, <1>4 DEF AtGate, Writing, Keeps, Keyed

LEMMA ReplaceHeals ==
  ASSUME TypeInv, RecordInv, NEW p \in Procs, AtGate(p), ReplaceTmp(p), tmp = Holds(new[p])
  PROVE  RecordInv' /\ AtGate(p)'
<1>1. UNCHANGED <<rounds, outcome>> /\ pc[p] \in Writing
  BY DEF ReplaceTmp, Writing
<1>2. file' = Holds(new[p]) /\ Continue(p)
  BY DEF ReplaceTmp, Holds
<1>3. RecordInv'
  BY <1>1, <1>2, SameCouncils DEF RecordInv, AtGate, Holds
<1>4. msg[p] = 0 => Keyed(file'.gates, key[p]) # {} /\ Keeps(file.gates, file'.gates)
  BY <1>1, <1>2 DEF AtGate, Holds
<1>. QED BY <1>1, <1>2, <1>3, <1>4, ContinueHeals

(* Past its preflight a command finds every escalation gated.               *)
LEMMA CheckHeals ==
  ASSUME TypeInv, RecordInv, NEW p \in Procs, AtGate(p), Check(p)
  PROVE  RecordInv' /\ AtGate(p)'
<1>1. UNCHANGED <<rounds, outcome, file>> /\ pc[p] = "check"
  BY DEF Check, shared
<1>2. RecordInv'
  BY <1>1, RecordStays
<1>3. CASE Return(p)
  BY <1>2, <1>3, ReturnsToRest DEF TypeInv
<1>4. CASE Goto(p, "advance") /\ UNCHANGED <<call, todo, key, msg, new, due>>
  BY <1>1, <1>2, <1>4 DEF AtGate, Writing, Preflight, Goto, TypeInv, TypeOK
<1>5. CASE Goto(p, "commit") /\ UNCHANGED <<call, todo, key, msg, new, due>> /\ ~Refused(p)
  <2>1. pc'[p] = "commit" /\ msg'[p] = 0
    BY <1>1, <1>5 DEF AtGate, Writing, Goto, TypeInv, TypeOK
  <2>2. HealedBut(p) /\ todo[p] = {}
    BY <1>1 DEF AtGate, Preflight, Writing
  <2>3. \A c \in Councils : ~Wants(c, file.gates)
    <3>1. \A c \in Escalated : Keyed(file.gates, KeyOf(c)) # {}
      BY <1>1, <2>2 DEF HealedBut
    <3>. QED BY <3>1 DEF Wants, Keyed, Matches
  <2>4. (Open(file.gates) = {})' /\ \A c \in Councils : ~Wants(c, file.gates)'
    BY <1>1, <1>5, <2>3, SameCouncils DEF Refused, Open, Wants, Matches
  <2>. QED BY <1>2, <2>1, <2>4 DEF AtGate, Writing, Preflight
<1>6. ASSUME NEW m \in DOMAIN messages, msg' = [msg EXCEPT ![p] = m], Goto(p, "dispose")
      PROVE  AtGate(p)'
  <2>1. m # 0
    BY <1>6 DEF TypeInv, TypeOK
  <2>2. pc'[p] = "dispose" /\ msg'[p] # 0
    BY <1>6, <2>1 DEF Goto, TypeInv, TypeOK
  <2>. QED BY <2>2 DEF AtGate, Writing, Preflight
<1>. QED BY <1>2, <1>3, <1>4, <1>5, <1>6 DEF Check

LEMMA CommitHeals ==
  ASSUME TypeInv, RecordInv, NEW p \in Procs, AtGate(p), Commit(p)
  PROVE  RecordInv' /\ AtGate(p)'
<1>1. /\ UNCHANGED <<outcome, file, msg>> /\ pc[p] = "commit" /\ msg[p] = 0
      /\ Open(file.gates) = {} /\ \A c \in Councils : ~Wants(c, file.gates)
  BY DEF Commit, AtGate, Writing
<1>2. PICK c \in Councils : /\ todo' = [todo EXCEPT ![p] = {c}]
                            /\ \/ UNCHANGED rounds
                               \/ rounds' = [rounds EXCEPT ![c] = @ + 1]
  BY DEF Commit
<1>3. /\ pc'[p] = "save" /\ call'[p] = "escalate" /\ todo'[p] = {c}
      /\ \A d \in Councils : d # c => rounds'[d] = rounds[d]
  BY <1>2 DEF Commit, Goto, TypeInv, TypeOK
<1>4. \A d \in Councils : Wants(d, file.gates)' => d = c
  BY <1>1, <1>3 DEF Wants, Escalated, KeyOf, Matches
<1>5. Open(file'.gates) = {}
  BY <1>1
<1>6. RecordInv'
  BY <1>1, <1>4, <1>5 DEF RecordInv, Sound, Open
<1>. QED BY <1>1, <1>3, <1>4, <1>5, <1>6 DEF AtGate, Writing, Preflight, Open

LEMMA SaveHeals ==
  ASSUME TypeInv, RecordInv, NEW p \in Procs, AtGate(p), SaveOutcome(p)
  PROVE  RecordInv' /\ AtGate(p)'
<1>1. UNCHANGED <<rounds, file>> /\ pc[p] = "save" /\ msg[p] = 0 /\ Open(file.gates) = {}
  BY DEF SaveOutcome, AtGate, Writing
<1>2. PICK c \in Councils : todo[p] = {c} /\ \A d \in Councils : Wants(d, file.gates) => d = c
  BY <1>1 DEF AtGate
<1>3. PICK o \in Outcomes :
        /\ outcome' = [outcome EXCEPT ![c] = o]
        /\ IF o \in Escalations
           THEN /\ key' = [key EXCEPT ![p] = [council |-> c, round |-> rounds[c], outcome |-> o]]
                /\ Goto(p, "ensure")
                /\ UNCHANGED <<call, todo, msg, new, due>>
           ELSE Return(p)
  BY <1>2 DEF SaveOutcome
<1>4. call[p] = "escalate"
  BY <1>1 DEF AtGate
<1>5. \A d \in Councils : d # c => outcome'[d] = outcome[d]
  BY <1>3 DEF TypeInv, TypeOK
<1>6. \A d \in Councils : Wants(d, file.gates)' => d = c
  BY <1>1, <1>2, <1>5 DEF Wants, Escalated, KeyOf, Matches
<1>7. RecordInv'
  BY <1>1, <1>6 DEF RecordInv, Sound, Open
<1>8. CASE Return(p)
  BY <1>7, <1>8, ReturnsToRest DEF TypeInv
<1>9. CASE o \in Escalations
  <2>1. /\ pc'[p] = "ensure" /\ outcome'[c] = o /\ msg'[p] = 0 /\ call'[p] = call[p]
        /\ key'[p] = [council |-> c, round |-> rounds[c], outcome |-> o]
    BY <1>1, <1>3, <1>9 DEF Goto, TypeInv, TypeOK
  <2>2. c \in Escalated' /\ key'[p] = KeyOf(c)'
    BY <1>1, <1>9, <2>1 DEF Escalated, KeyOf
  <2>3. ~Preflight(p)'
    BY <1>4, <2>1 DEF Preflight
  <2>. QED BY <1>7, <2>1, <2>2, <2>3 DEF AtGate, Writing
<1>. QED BY <1>3, <1>8, <1>9

(* The operator's commands.                                                 *)
LEMMA GrantHeals ==
  ASSUME TypeInv, RecordInv, NEW p \in Procs, AtGate(p), Grant(p) \/ Advance(p) \/ Stop(p)
  PROVE  RecordInv' /\ AtGate(p)'
<1>1. RecordInv'
  BY RecordStays DEF Grant, Advance, Stop, shared
<1>2. CASE Return(p)
  BY <1>1, <1>2, ReturnsToRest DEF TypeInv
<1>3. ASSUME NEW m \in DOMAIN messages, msg' = [msg EXCEPT ![p] = m], Goto(p, "dispose")
      PROVE  AtGate(p)'
  <2>1. m # 0
    BY <1>3 DEF TypeInv, TypeOK
  <2>2. pc'[p] = "dispose" /\ msg'[p] # 0
    BY <1>3, <2>1 DEF Goto, TypeInv, TypeOK
  <2>. QED BY <2>2 DEF AtGate, Writing, Preflight
<1>. QED BY <1>1, <1>2, <1>3 DEF Grant, Advance, Stop

LEMMA DisposeHeals ==
  ASSUME TypeInv, RecordInv, NEW p \in Procs, AtGate(p), RecordDisposition(p)
  PROVE  RecordInv' /\ AtGate(p)'
<1>1. UNCHANGED <<rounds, outcome, file>> /\ pc[p] = "dispose" /\ file.gates \in Seq(Gates)
  BY ContentTypes DEF RecordDisposition, shared, TypeInv, TypeOK
<1>2. RecordInv'
  BY <1>1, RecordStays
<1>3. CASE Return(p)
  BY <1>2, <1>3, ReturnsToRest DEF TypeInv
<1>4. ASSUME NEW i \in Open(file.gates), Goto(p, "open"), UNCHANGED msg,
             new' = [new EXCEPT ![p] =
                       [file.gates EXCEPT ![i] = Disposed(@, Disposition(p), msg[p])]]
      PROVE  AtGate(p)'
  <2> DEFINE hs == [file.gates EXCEPT ![i] = Disposed(@, Disposition(p), msg[p])]
  <2>1. Disposition(p) \in {"resolved", "closed"}
    BY DEF Disposition
  <2>2. Sound(hs)
    BY <1>1, <2>1, SoundDisposed DEF RecordInv
  <2>3. pc'[p] = "open" /\ new'[p] = hs /\ msg'[p] # 0
    BY <1>1, <1>4 DEF Goto, TypeInv, TypeOK, AtGate
  <2> HIDE DEF hs
  <2>4. Sound(new[p])'
    <3>1. \A gs : Sound(gs)' <=> Sound(gs)
      BY <1>1, SameCouncils
    <3>. QED BY <1>1, <2>2, <2>3, SameCouncils DEF Sound, Wants, Matches, Open
  <2>. QED BY <2>3, <2>4 DEF AtGate, Writing, Preflight
<1>. QED BY <1>2, <1>3, <1>4 DEF RecordDisposition, Active, First

LEMMA HealStep ==
  ASSUME TypeInv, Alone, Readable, \A q \in Procs : Solo(q),
         RecordInv, \A q \in Procs : AtGate(q), NEW p \in Procs, Step(p)
  PROVE  RecordInv' /\ \A q \in Procs : AtGate(q)'
<1>1. \A q \in Procs : q # p => pc[q] = "idle" /\ fd[q] = "none"
  BY OthersIdle DEF TypeInv
<1>2. ASSUME NEW q \in Procs, q # p PROVE AtGate(q)'
  <2>1. msg[q] = 0
    BY <1>1, <1>2 DEF AtGate, Writing
  <2>2. pc'[q] = pc[q] /\ msg'[q] = msg[q]
    <3> USE DEF TypeInv, TypeOK, Goto, Return, Continue
    <3>1. CASE (\E c \in Calls : Begin(p, c)) \/ Heal(p) \/ EnsureGate(p)
      BY <1>2, <3>1 DEF Begin, Heal, EnsureGate
    <3>2. CASE OpenTmp(p) \/ FillTmp(p) \/ ReplaceTmp(p) \/ Check(p)
      BY <1>2, <3>2 DEF OpenTmp, FillTmp, ReplaceTmp, Check
    <3>3. CASE Advance(p) \/ Commit(p) \/ SaveOutcome(p) \/ Grant(p)
      BY <1>2, <3>3 DEF Advance, Commit, SaveOutcome, Grant
    <3>4. CASE RecordDisposition(p) \/ Stop(p)
      BY <1>2, <3>4 DEF RecordDisposition, Stop
    <3>. QED BY <3>1, <3>2, <3>3, <3>4 DEF Step
  <2>. QED BY <1>1, <1>2, <2>1, <2>2, AtRest
<1>3. RecordInv' /\ AtGate(p)'
  <2>1. CASE (\E c \in Calls : Begin(p, c)) \/ Heal(p) \/ EnsureGate(p)
    BY <2>1, BeginHeals, HealHeals, EnsureHeals
  <2>2. CASE OpenTmp(p)
    BY <2>2, WriteHeals DEF OpenTmp
  <2>3. CASE FillTmp(p)
    <3>1. fd[p] = "tmp"
      BY <2>3 DEF FillTmp, Solo
    <3>. QED BY <2>3, <3>1, WriteHeals DEF FillTmp
  <2>4. CASE ReplaceTmp(p)
    <3>1. tmp = Holds(new[p])
      BY <2>4 DEF ReplaceTmp, Solo
    <3>. QED BY <2>4, <3>1, ReplaceHeals
  <2>5. CASE Check(p) \/ Commit(p) \/ SaveOutcome(p)
    BY <2>5, CheckHeals, CommitHeals, SaveHeals
  <2>6. CASE Grant(p) \/ Advance(p) \/ Stop(p) \/ RecordDisposition(p)
    BY <2>6, GrantHeals, DisposeHeals
  <2>. QED BY <2>1, <2>2, <2>3, <2>4, <2>5, <2>6 DEF Step
<1>. QED BY <1>2, <1>3

LEMMA InitHeals == TypeInv /\ Init => HealInv
<1> SUFFICES ASSUME TypeInv, Init PROVE RecordInv /\ \A p \in Procs : AtGate(p)
  BY DEF HealInv
<1>1. \A p \in Procs : AtGate(p)
  BY AtRest DEF Init, AtGate, Writing, Preflight
<1>2. CASE outcome = [c \in Councils |-> "none"] /\ file = Blank("absent")
  <2>1. \A c \in Councils : c \notin Escalated
    BY <1>2 DEF Escalated, Escalations
  <2>. QED BY <1>1, <1>2, <2>1 DEF RecordInv, Sound, Wants, Open, Blank
<1>3. ASSUME NEW c \in Councils, NEW m \in 0..1, file = Holds(<<Legacy(c, m)>>),
             outcome = [d \in Councils |-> IF d = c THEN "operator_required" ELSE "none"]
      PROVE  RecordInv
  <2> DEFINE gs == <<Legacy(c, m)>>
  <2>1. /\ DOMAIN gs = {1} /\ gs[1].council = c /\ gs[1].round = Keyless
        /\ gs[1].outcome = "operator_required"
    BY DEF Legacy
  <2> HIDE DEF gs
  <2>2. \A i, j \in Open(gs) : i = j
    BY <2>1 DEF Open
  <2>3. ASSUME NEW d \in Councils, Wants(d, gs) PROVE FALSE
    <3>1. d = c
      BY <1>3, <2>3 DEF Wants, Escalated, Escalations
    <3>2. 1 \in Matches(KeyOf(c), gs)
      BY <1>3, <2>1 DEF Matches, KeyOf
    <3>. QED BY <2>3, <3>1, <3>2 DEF Wants
  <2>4. file.gates = gs /\ file.state = "ok"
    BY <1>3 DEF Holds, gs
  <2>. QED BY <2>2, <2>3, <2>4 DEF RecordInv, Sound
<1>. QED BY <1>1, <1>2, <1>3 DEF Init

LEMMA HealInvariant == Spec => [](TypeInv /\ SoloInv /\ HealInv)
<1>1. TypeInv /\ SoloInv /\ HealInv /\ [Next]_vars => HealInv'
  <2> SUFFICES ASSUME TypeInv, SoloInv, HealInv, [Next]_vars PROVE HealInv'
    OBVIOUS
  <2>1. CASE UNCHANGED vars \/ Post
    <3>1. UNCHANGED <<setup, rounds, outcome, file, local>>
      BY <2>1 DEF Post, vars, shared
    <3>2. RecordInv => RecordInv'
      BY <3>1, RecordStays
    <3>3. \A p \in Procs : AtGate(p) => AtGate(p)'
      BY <3>1, SameCouncils DEF local, AtGate, Preflight, HealedBut, Keeps, Keyed, Sound, Wants,
         Matches, Open
    <3>. QED BY <3>1, <3>2, <3>3, SoloFrame DEF HealInv
  <2>2. ASSUME NEW p \in Procs, Step(p) PROVE HealInv'
    BY <2>2, StepSetup, SoloFrame, HealStep DEF HealInv, SoloInv
  <2>. QED BY <2>1, <2>2 DEF Next
<1>. QED BY <1>1, InitType, TypeStep, InitSolo, SoloNext, InitHeals, PTL DEF Spec

(* Where commands run one at a time, at most one gate is unresolved.        *)
THEOREM GatesOneByOne == Spec => []OneOpenGate
<1>1. TypeInv /\ SoloInv /\ HealInv => OneOpenGate
  <2> SUFFICES ASSUME HealInv, Alone PROVE Cardinality(Open(file.gates)) <= 1
    BY DEF OneOpenGate
  <2>1. \A i, j \in Open(file.gates) : i = j
    BY DEF HealInv, RecordInv, Sound
  <2>2. CASE Open(file.gates) = {}
    BY <2>2, FS_EmptySet
  <2>3. ASSUME NEW i \in Open(file.gates) PROVE Cardinality(Open(file.gates)) = 1
    <3>1. Open(file.gates) = {i}
      BY <2>1, <2>3
    <3>. QED BY <3>1, FS_Singleton
  <2>. QED BY <2>2, <2>3
<1>. QED BY <1>1, HealInvariant, PTL

(* Where commands run one at a time, a command passes its preflight only    *)
(* when every escalation that was on record as it began has its gate.       *)
THEOREM AdvanceIsGated == Spec => NoUngatedAdvance
<1>1. TypeInv /\ SoloInv /\ HealInv /\ [Next]_vars =>
        [Alone => \A p \in Procs : Passes(p) => Gated(p)]_vars
  <2> SUFFICES ASSUME SoloInv, HealInv, Alone, NEW p \in Procs, pc[p] = "check" PROVE Gated(p)
    BY DEF Passes
  <2>1. HealedBut(p) /\ todo[p] = {}
    BY DEF HealInv, AtGate, Preflight, Writing
  <2>2. \A k \in due[p] : Keyed(file.gates, k) # {}
    BY <2>1 DEF HealedBut
  <2>3. file.gates = << >> => due[p] = {}
    BY <2>2 DEF Keyed
  <2>. QED BY <2>2, <2>3 DEF HealInv, RecordInv, SoloInv, Readable, Gated
<1>. QED BY <1>1, HealInvariant, PTL DEF Spec, NoUngatedAdvance

------------------------------------------------------------------------------
(* Authority.  Every list there is must be sound in it, since any of them   *)
(* may become the record; and every list stays so if the message a process  *)
(* is about to use permits what it will find unresolved.                    *)

Authorized(ms, gs) ==
  \A i \in DOMAIN gs :
    gs[i].disposition # "unresolved" =>
      gs[i].by \in gs[i].at + 1 .. Len(ms) /\ ms[gs[i].by] \in {Item, gs[i].council}

AuthInv == /\ Authorized(messages, file.gates)
           /\ Authorized(messages, tmp.gates)
           /\ \A p \in Procs : Authorized(messages, new[p])

(* Message m may resolve or close whichever gate of gs is unresolved.       *)
Permits(ms, m, gs) ==
  /\ m \in DOMAIN ms
  /\ \A i \in Open(gs) : m > gs[i].at /\ ms[m] \in {Item, gs[i].council}

LEMMA AuthorizedEmpty == \A ms : Authorized(ms, << >>)
BY DEF Authorized

LEMMA AuthorizedBlank ==
  /\ \A ms, s : Authorized(ms, Blank(s).gates)
  /\ \A ms, gs : Authorized(ms, gs) => Authorized(ms, Holds(gs).gates)
BY AuthorizedEmpty DEF Blank, Holds

(* A message more changes nothing.                                          *)
LEMMA AuthorizedLater ==
  ASSUME NEW ms \in Seq(Councils \cup {Item}), NEW t \in Councils \cup {Item},
         NEW gs \in Seq(Gates), Authorized(ms, gs)
  PROVE  Authorized(Append(ms, t), gs)
<1>1. /\ Len(Append(ms, t)) = Len(ms) + 1 /\ Len(ms) \in Nat
      /\ \A m \in 1..Len(ms) : Append(ms, t)[m] = ms[m]
  OBVIOUS
<1>2. \A i \in DOMAIN gs : gs[i].at \in Nat
  BY MemberType DEF Gates
<1>. QED BY <1>1, <1>2 DEF Authorized

LEMMA AuthorizedNew ==
  ASSUME NEW ms, NEW gs \in Seq(Gates), NEW g, Authorized(ms, gs),
         g.disposition = "unresolved"
  PROVE  Authorized(ms, Append(gs, g))
<1>1. /\ DOMAIN Append(gs, g) = DOMAIN gs \cup {Len(gs) + 1}
      /\ Append(gs, g)[Len(gs) + 1] = g
      /\ \A i \in DOMAIN gs : Append(gs, g)[i] = gs[i]
  OBVIOUS
<1>. QED BY <1>1 DEF Authorized

LEMMA AuthorizedRecognized ==
  ASSUME NEW ms, NEW gs \in Seq(Gates), NEW i \in DOMAIN gs, NEW k, Authorized(ms, gs)
  PROVE  Authorized(ms, [gs EXCEPT ![i] = Recognized(@, k)])
<1> DEFINE hs == [gs EXCEPT ![i] = Recognized(@, k)]
<1>1. gs[i] \in Gates
  BY MemberType
<1>2. /\ Recognized(gs[i], k).disposition = gs[i].disposition
      /\ Recognized(gs[i], k).by = gs[i].by /\ Recognized(gs[i], k).at = gs[i].at
      /\ Recognized(gs[i], k).council = gs[i].council
  BY <1>1 DEF Recognized, Gates
<1>3. /\ DOMAIN hs = DOMAIN gs /\ hs[i] = Recognized(gs[i], k)
      /\ \A j \in DOMAIN gs : j # i => hs[j] = gs[j]
  OBVIOUS
<1> HIDE DEF hs
<1>4. Authorized(ms, hs)
  BY <1>2, <1>3 DEF Authorized
<1>. QED BY <1>4 DEF hs

LEMMA AuthorizedDisposed ==
  ASSUME NEW ms \in Seq(Councils \cup {Item}), NEW gs \in Seq(Gates), NEW i \in DOMAIN gs,
         NEW d, NEW m \in DOMAIN ms, Authorized(ms, gs),
         m > gs[i].at, ms[m] \in {Item, gs[i].council}
  PROVE  Authorized(ms, [gs EXCEPT ![i] = Disposed(@, d, m)])
<1> DEFINE hs == [gs EXCEPT ![i] = Disposed(@, d, m)]
<1>1. gs[i] \in Gates
  BY MemberType
<1>2. /\ Disposed(gs[i], d, m).by = m /\ Disposed(gs[i], d, m).at = gs[i].at
      /\ Disposed(gs[i], d, m).council = gs[i].council /\ gs[i].at \in Nat
  BY <1>1 DEF Disposed, Gates
<1>3. /\ DOMAIN hs = DOMAIN gs /\ hs[i] = Disposed(gs[i], d, m)
      /\ \A j \in DOMAIN gs : j # i => hs[j] = gs[j]
  OBVIOUS
<1>4. m \in gs[i].at + 1 .. Len(ms)
  BY <1>2
<1> HIDE DEF hs
<1>5. Authorized(ms, hs)
  BY <1>2, <1>3, <1>4 DEF Authorized
<1>. QED BY <1>5 DEF hs

(* A step of a process keeps every list authorized.                         *)
LEMMA AuthStep ==
  ASSUME TypeInv, AuthInv, NEW p \in Procs, Step(p),
         pc[p] = "dispose" =>
           msg[p] \in DOMAIN messages
           /\ \A i \in Active(file.gates) : Authorizes(msg[p], file.gates[i])
  PROVE  AuthInv'
<1>0. /\ file.gates \in Seq(Gates) /\ messages' = messages
      /\ messages \in Seq(Councils \cup {Item}) /\ new \in [Procs -> Seq(Gates)]
  <2>1. messages' = messages
    BY DEF Step, Begin, Heal, EnsureGate, OpenTmp, FillTmp, ReplaceTmp, Check, Advance,
           Commit, SaveOutcome, Grant, RecordDisposition, Stop, shared
  <2>. QED BY <2>1, ContentTypes DEF TypeInv, TypeOK
<1>1. CASE UNCHANGED <<file, tmp>> /\ (UNCHANGED new \/ new' = [new EXCEPT ![p] = << >>])
  <2>1. \A q \in Procs : new'[q] = new[q] \/ new'[q] = << >>
    BY <1>0, <1>1
  <2>. QED BY <1>0, <1>1, <2>1, AuthorizedEmpty DEF AuthInv
<1>2. CASE EnsureGate(p)
  <2>1. key[p] \in Keys /\ UNCHANGED <<file, tmp>>
    BY <1>2 DEF EnsureGate, TypeInv, shared
  <2>2. CASE new' = [new EXCEPT ![p] = Append(file.gates, NewGate(key[p]))]
    <3>1. Authorized(messages, Append(file.gates, NewGate(key[p])))
      BY <1>0, AuthorizedNew DEF AuthInv, NewGate
    <3>. QED BY <1>0, <2>1, <2>2, <3>1 DEF AuthInv
  <2>3. CASE \E i \in Matches(key[p], file.gates) :
               new' = [new EXCEPT ![p] = [file.gates EXCEPT ![i] = Recognized(@, key[p])]]
    <3>1. PICK i \in Matches(key[p], file.gates) :
            new' = [new EXCEPT ![p] = [file.gates EXCEPT ![i] = Recognized(@, key[p])]]
      BY <2>3
    <3>2. Authorized(messages, [file.gates EXCEPT ![i] = Recognized(@, key[p])])
      BY <1>0, AuthorizedRecognized DEF AuthInv, Matches
    <3>. QED BY <1>0, <2>1, <3>1, <3>2 DEF AuthInv
  <2>. QED BY <1>1, <1>2, <2>1, <2>2, <2>3 DEF EnsureGate, Return, Continue, First
<1>3. CASE RecordDisposition(p)
  <2>1. UNCHANGED <<file, tmp>> /\ pc[p] = "dispose"
    BY <1>3 DEF RecordDisposition, shared
  <2>2. ASSUME NEW i \in Active(file.gates),
               new' = [new EXCEPT ![p] =
                         [file.gates EXCEPT ![i] = Disposed(@, Disposition(p), msg[p])]]
        PROVE  AuthInv'
    <3>1. i \in DOMAIN file.gates
      BY DEF Active, First, Open
    <3>2. Authorized(messages,
                     [file.gates EXCEPT ![i] = Disposed(@, Disposition(p), msg[p])])
      BY <1>0, <2>1, <3>1, AuthorizedDisposed DEF AuthInv, Authorizes
    <3>. QED BY <1>0, <2>1, <2>2, <3>2 DEF AuthInv
  <2>. QED BY <1>1, <1>3, <2>1, <2>2 DEF RecordDisposition, Return
<1>4. CASE OpenTmp(p)
  BY <1>0, <1>4, AuthorizedBlank DEF OpenTmp, AuthInv
<1>5. CASE FillTmp(p)
  <2>1. \A f : \A g \in Filled(f, new[p]) : Authorized(messages, g.gates)
    BY AuthorizedBlank DEF Filled, AuthInv
  <2>. QED BY <1>0, <1>5, <2>1 DEF FillTmp, AuthInv
<1>6. CASE ReplaceTmp(p)
  <2>1. Authorized(messages, file'.gates) /\ Authorized(messages, tmp'.gates)
    BY <1>6, AuthorizedBlank DEF ReplaceTmp, AuthInv
  <2>2. UNCHANGED new \/ new' = [new EXCEPT ![p] = << >>]
    BY <1>6 DEF ReplaceTmp, Return, Continue
  <2>3. \A q \in Procs : new'[q] = new[q] \/ new'[q] = << >>
    BY <1>0, <2>2
  <2>. QED BY <1>0, <2>1, <2>3, AuthorizedEmpty DEF AuthInv
<1>7. CASE \/ \E c \in Calls : Begin(p, c)
           \/ Heal(p) \/ Check(p) \/ Advance(p) \/ Commit(p) \/ SaveOutcome(p)
           \/ Grant(p) \/ Stop(p)
  BY <1>1, <1>7 DEF Begin, Heal, Check, Advance, Commit, SaveOutcome, Grant, Stop,
                    Return, shared
<1>. QED BY <1>2, <1>3, <1>4, <1>5, <1>6, <1>7 DEF Step

LEMMA AuthPost == TypeInv /\ AuthInv /\ Post => AuthInv'
<1> SUFFICES ASSUME TypeInv, AuthInv, Post PROVE AuthInv'
  OBVIOUS
<1>1. PICK t \in Councils \cup {Item} : messages' = Append(messages, t)
  BY DEF Post
<1>2. UNCHANGED <<file, tmp, new>> /\ messages \in Seq(Councils \cup {Item})
  BY DEF Post, local, TypeInv, TypeOK
<1>3. /\ file.gates \in Seq(Gates) /\ tmp.gates \in Seq(Gates)
      /\ \A p \in Procs : new[p] \in Seq(Gates)
  BY ContentTypes DEF TypeInv, TypeOK
<1>. QED BY <1>1, <1>2, <1>3, AuthorizedLater DEF AuthInv

LEMMA InitAuth == Init => AuthInv
<1> SUFFICES ASSUME Init PROVE AuthInv
  OBVIOUS
<1>1. ASSUME NEW c \in Councils, NEW m \in 0..1, file = Holds(<<Legacy(c, m)>>),
             messages = IF m = 0 THEN << >> ELSE <<Item>>
      PROVE  Authorized(messages, file.gates)
  <2>1. CASE m = 0
    BY <1>1, <2>1 DEF Legacy, Holds, Authorized
  <2>2. CASE m = 1
    <3>1. /\ Legacy(c, m).by = 1 /\ Legacy(c, m).at = 0
          /\ messages = <<Item>> /\ Len(messages) = 1 /\ messages[1] = Item
          /\ 1 \in 0 + 1 .. 1
      BY <1>1, <2>2 DEF Legacy
    <3>2. file.gates = <<Legacy(c, m)>>
      BY <1>1 DEF Holds
    <3>. QED BY <3>1, <3>2 DEF Authorized
  <2>. QED BY <2>1, <2>2
<1>. QED BY <1>1, AuthorizedEmpty, AuthorizedBlank DEF Init, AuthInv

(* A step of p leaves the others where they are.                            *)
LEMMA StepOthers ==
  ASSUME TypeInv, NEW p \in Procs, Step(p), NEW q \in Procs, q # p
  PROVE  /\ pc'[q] = pc[q] /\ call'[q] = call[q] /\ todo'[q] = todo[q]
         /\ key'[q] = key[q] /\ msg'[q] = msg[q] /\ new'[q] = new[q]
<1> USE DEF TypeInv, TypeOK, Goto, Return, Continue
<1>1. CASE \E c \in Calls : Begin(p, c)
  BY <1>1 DEF Begin
<1>2. CASE Heal(p) \/ Check(p)
  BY <1>2 DEF Heal, Check
<1>3. CASE EnsureGate(p)
  BY <1>3 DEF EnsureGate
<1>4. CASE OpenTmp(p) \/ FillTmp(p)
  BY <1>4 DEF OpenTmp, FillTmp
<1>5. CASE ReplaceTmp(p)
  BY <1>5 DEF ReplaceTmp
<1>6. CASE Advance(p) \/ Commit(p) \/ SaveOutcome(p)
  BY <1>6 DEF Advance, Commit, SaveOutcome
<1>7. CASE Grant(p) \/ RecordDisposition(p) \/ Stop(p)
  BY <1>7 DEF Grant, RecordDisposition, Stop
<1>. QED BY <1>1, <1>2, <1>3, <1>4, <1>5, <1>6, <1>7 DEF Step

(* Where commands run one at a time, the record a message was validated     *)
(* against is the one that gets the disposition.                            *)
SoleAuth == Alone => \A p \in Procs :
  pc[p] = "dispose" => msg[p] \in DOMAIN messages
                       /\ \A i \in Active(file.gates) : Authorizes(msg[p], file.gates[i])

LEMMA SoleAuthStep ==
  ASSUME TypeInv, SoloInv, SoleAuth, Alone, NEW p \in Procs, Step(p)
  PROVE  SoleAuth'
<1>1. \A q \in Procs : q # p => pc'[q] = "idle"
  BY OthersIdle, StepOthers DEF SoloInv, TypeInv
<1>2. CASE pc'[p] # "dispose"
  BY <1>1, <1>2 DEF SoleAuth
<1>3. CASE pc'[p] = "dispose"
  <2>1. Check(p) \/ Grant(p)
    <3> USE DEF TypeInv, TypeOK, Goto, Return, Continue
    <3>1. ~(Heal(p) \/ Advance(p) \/ Commit(p) \/ SaveOutcome(p) \/ Stop(p)
            \/ \E c \in Calls : Begin(p, c))
      BY <1>3 DEF Begin, Heal, Advance, Commit, SaveOutcome, Stop
    <3>2. ~(EnsureGate(p) \/ OpenTmp(p) \/ FillTmp(p) \/ ReplaceTmp(p)
            \/ RecordDisposition(p))
      BY <1>3 DEF EnsureGate, OpenTmp, FillTmp, ReplaceTmp, RecordDisposition
    <3>. QED BY <3>1, <3>2 DEF Step
  <2>2. UNCHANGED <<file, messages>>
    BY <2>1 DEF Check, Grant, shared
  <2>3. PICK i \in Active(file.gates), m \in DOMAIN messages :
          Authorizes(m, file.gates[i]) /\ msg' = [msg EXCEPT ![p] = m]
    BY <1>3, <2>1 DEF Check, Grant, Return, Goto, Authorizes, TypeInv, TypeOK
  <2>4. \A j \in Active(file.gates) : j = i
    <3>1. file.gates \in Seq(Gates)
      BY ContentTypes DEF TypeInv, TypeOK
    <3>. QED BY <3>1 DEF Active, First, Open
  <2>5. msg'[p] = m
    BY <2>3 DEF TypeInv, TypeOK
  <2>6. \A j \in Active(file'.gates) : Authorizes(msg[p], file.gates[j])'
    BY <2>2, <2>3, <2>4, <2>5 DEF Authorizes
  <2>7. \A q \in Procs : pc'[q] = "dispose" => q = p
    BY <1>1
  <2>. QED BY <2>2, <2>3, <2>5, <2>6, <2>7 DEF SoleAuth, Authorizes, Active, First, Open
<1>. QED BY <1>2, <1>3

LEMMA SoleAuthPost == TypeInv /\ SoleAuth /\ Post => SoleAuth'
<1> SUFFICES ASSUME TypeInv, SoleAuth, Alone, Post PROVE SoleAuth'
  BY SoloFrame DEF Post, SoleAuth
<1>1. PICK t \in Councils \cup {Item} : messages' = Append(messages, t)
  BY DEF Post
<1>2. UNCHANGED <<file, pc, msg>> /\ messages \in Seq(Councils \cup {Item})
  BY DEF Post, local, TypeInv, TypeOK
<1>3. \A m \in DOMAIN messages : m \in DOMAIN messages' /\ messages'[m] = messages[m]
  BY <1>1, <1>2
<1>. QED BY <1>2, <1>3 DEF SoleAuth, Authorizes, Active, First, Open

------------------------------------------------------------------------------
(* An agent's preflights beside the operator's grants.  Each of the two may *)
(* move the other's list into place, so a gate the operator has resolved    *)
(* may be unresolved again.  But while a grant is between its validation    *)
(* and its write there is an unresolved gate in every list that can become  *)
(* the record, it is the same gate in all of them, and so the agent gets no *)
(* further and no other gate is created.                                    *)

Lacks(k, gs) == Matches(k, gs) = {}

(* The escalations on record; at most one of a council.                     *)
Wanted     == {KeyOf(c) : c \in Escalated}
OneEach(W) == W \subseteq Keys /\ \A k, l \in W : k.council = l.council => k = l

(* At most one gate of gs is unresolved; an escalation that lacks its gate  *)
(* is the only one, and then none is.                                       *)
Fits(W, gs) ==
  /\ \A i, j \in Open(gs) : i = j
  /\ \A k \in W : Lacks(k, gs) => Open(gs) = {} /\ \A l \in W : Lacks(l, gs) => l = k

(* What is unresolved in gs is unresolved in hs.                            *)
Covers(gs, hs) ==
  \A i \in Open(gs) : \E j \in Open(hs) : /\ hs[j].council = gs[i].council
                                          /\ hs[j].at = gs[i].at

LEMMA WantedType == TypeOK => OneEach(Wanted)
BY KeyOfType DEF OneEach, Wanted, KeyOf

LEMMA WantedNext ==
  ASSUME TypeInv, Next
  PROVE  OneEach(Wanted')
<1>1. TypeOK'
  BY TypeStep DEF TypeInv
<1>2. \A c \in Escalated' : KeyOf(c)' \in Keys
  BY <1>1 DEF TypeOK, Escalated, KeyOf, Keys, Outcomes
<1>. QED BY <1>2 DEF OneEach, Wanted, KeyOf

LEMMA CoversSame == \A gs : Covers(gs, gs)
BY DEF Covers

LEMMA PermitsCovered ==
  ASSUME NEW ms, NEW m, NEW gs, NEW hs, Covers(gs, hs), \A i, j \in Open(hs) : i = j,
         Open(gs) # {}, Permits(ms, m, gs)
  PROVE  Open(hs) # {} /\ Permits(ms, m, hs)
BY DEF Covers, Permits

LEMMA FitsNew ==
  ASSUME NEW W, OneEach(W), NEW gs \in Seq(Gates), Fits(W, gs), NEW k \in W, Lacks(k, gs),
         NEW hs, hs = Append(gs, NewGate(k))
  PROVE  /\ Fits(W, hs) /\ Covers(gs, hs) /\ \A l \in W : ~Lacks(l, hs)
         /\ Open(gs) = {}
<1> DEFINE n == Len(gs) + 1
<1>1. /\ DOMAIN hs = DOMAIN gs \cup {n} /\ n \notin DOMAIN gs
      /\ hs[n] = NewGate(k) /\ \A i \in DOMAIN gs : hs[i] = gs[i]
  OBVIOUS
<1> HIDE DEF n
<1>2. /\ hs[n].council = k.council /\ hs[n].round = k.round
      /\ hs[n].outcome = k.outcome /\ hs[n].disposition = "unresolved"
  BY <1>1 DEF NewGate
<1>3. Open(gs) = {} /\ \A l \in W : Lacks(l, gs) => l = k
  BY DEF Fits
<1>4. n \in Matches(k, hs) /\ \A l \in W : Matches(l, gs) \subseteq Matches(l, hs)
  BY <1>1, <1>2 DEF Matches
<1>5. \A l \in W : ~Lacks(l, hs)
  BY <1>3, <1>4 DEF Lacks
<1>6. \A i, j \in Open(hs) : i = j
  BY <1>1, <1>3 DEF Open
<1>. QED BY <1>3, <1>5, <1>6 DEF Fits, Covers

LEMMA FitsRecognized ==
  ASSUME NEW W, OneEach(W), NEW gs \in Seq(Gates), Fits(W, gs), NEW k \in W,
         NEW i \in Matches(k, gs), NEW hs, hs = [gs EXCEPT ![i] = Recognized(@, k)]
  PROVE  /\ Fits(W, hs) /\ Covers(gs, hs) /\ ~Lacks(k, hs)
         /\ \A l \in W : Lacks(l, hs) => Lacks(l, gs)
<1>1. /\ i \in DOMAIN gs /\ gs[i] \in Gates
      /\ gs[i].council = k.council /\ gs[i].outcome = k.outcome
  BY DEF Matches
<1>2. /\ DOMAIN hs = DOMAIN gs /\ hs[i] = Recognized(gs[i], k)
      /\ \A j \in DOMAIN gs : j # i => hs[j] = gs[j]
  BY <1>1
<1>3. /\ hs[i].council = gs[i].council /\ hs[i].outcome = gs[i].outcome
      /\ hs[i].round = k.round /\ hs[i].at = gs[i].at
      /\ hs[i].disposition = gs[i].disposition
  BY <1>1, <1>2 DEF Recognized, Gates
<1>4. i \in Matches(k, hs)
  BY <1>1, <1>2, <1>3 DEF Matches
<1>5. Open(hs) = Open(gs) /\ Covers(gs, hs)
  <2>1. Open(hs) = Open(gs)
    BY <1>1, <1>2, <1>3 DEF Open
  <2>2. \A j \in DOMAIN gs : hs[j].council = gs[j].council /\ hs[j].at = gs[j].at
    BY <1>2, <1>3
  <2>. QED BY <2>1, <2>2 DEF Covers, Open
<1>6. ASSUME NEW l \in W, Lacks(l, hs) PROVE Lacks(l, gs)
  <2>1. l # k
    BY <1>4, <1>6 DEF Lacks
  <2>2. i \notin Matches(l, gs)
    BY <1>1, <2>1 DEF OneEach, Matches
  <2>3. \A j \in Matches(l, gs) : j \in Matches(l, hs)
    BY <1>2, <2>2 DEF Matches
  <2>. QED BY <1>6, <2>3 DEF Lacks
<1>7. ~Lacks(k, hs)
  BY <1>4 DEF Lacks
<1>8. Fits(W, hs)
  BY <1>5, <1>6 DEF Fits
<1>. QED BY <1>5, <1>6, <1>7, <1>8

LEMMA FitsDisposed ==
  ASSUME NEW W, NEW gs \in Seq(Gates), Fits(W, gs), NEW i \in Open(gs),
         NEW d \in {"resolved", "closed"}, NEW m,
         NEW hs, hs = [gs EXCEPT ![i] = Disposed(@, d, m)]
  PROVE  Fits(W, hs) /\ Open(hs) = {} /\ \A k \in W : ~Lacks(k, hs)
<1>1. i \in DOMAIN gs /\ gs[i] \in Gates
  BY DEF Open
<1>2. /\ DOMAIN hs = DOMAIN gs /\ hs[i] = Disposed(gs[i], d, m)
      /\ \A j \in DOMAIN gs : j # i => hs[j] = gs[j]
  BY <1>1
<1>3. /\ hs[i].council = gs[i].council /\ hs[i].outcome = gs[i].outcome
      /\ hs[i].round = gs[i].round /\ hs[i].disposition = d
  BY <1>1, <1>2 DEF Disposed, Gates
<1>4. Open(hs) = {}
  <2>1. ASSUME NEW j \in Open(hs) PROVE FALSE
    <3>1. j # i /\ j \in DOMAIN gs
      BY <1>2, <1>3, <2>1 DEF Open
    <3>2. j \in Open(gs)
      BY <1>2, <2>1, <3>1 DEF Open
    <3>. QED BY <3>1, <3>2 DEF Fits
  <2>. QED BY <2>1
<1>5. \A k \in W : ~Lacks(k, hs)
  <2>1. \A k \in W : Matches(k, hs) = Matches(k, gs)
    BY <1>1, <1>2, <1>3 DEF Matches
  <2>2. \A k \in W : ~Lacks(k, gs)
    BY DEF Fits
  <2>. QED BY <2>1, <2>2 DEF Lacks
<1>. QED BY <1>4, <1>5 DEF Fits

(* Nobody stops; h is the one agent and r the one who grants.               *)
Apart == /\ ~setup.stops
         /\ Sole(Healers) /\ Sole(Resolvers)
         /\ Healers \cap Resolvers = {}

Acting(r) == pc[r] \in {"dispose", "open", "fill"}

Satisfied(gs) == \A k \in Wanted : ~Lacks(k, gs)

Roles(h, r) ==
  /\ pc[h] \notin {"grant", "dispose"} /\ msg[h] = 0 /\ call[h] \notin {"close", "grant"}
  /\ pc[r] \in {"idle", "grant", "dispose"} \cup Writing
  /\ pc[r] \in {"dispose"} \cup Writing => msg[r] # 0
  /\ \A q \in Procs : q \notin {h, r} => pc[q] = "idle"
  /\ \A q \in Procs : pc[q] # "fill" => fd[q] = "none"

(* What is in the temporary file is about to be moved, by who wrote it or   *)
(* by the other.                                                            *)
Temporary(h, r) ==
  /\ tmp.state = "ok" =>
       \/ pc[h] = "replace" /\ tmp.gates = new[h]
       \/ pc[r] = "replace" /\ tmp.gates = new[r] /\ Satisfied(new[r])
  /\ tmp.state # "absent" /\ pc[h] \notin Writing =>
       \/ pc[r] = "fill" /\ fd[r] = "tmp" /\ tmp.state = "empty"
       \/ /\ pc[r] = "replace" /\ tmp.state = "ok"
          /\ Readable => Open(file.gates) # {}
  /\ fd[r] = "tmp" => tmp.state # "absent"

Lists(h, r) ==
  /\ file.state # "ok" => file.gates = << >>
  /\ tmp.state # "ok" => tmp.gates = << >>
  /\ Readable => Fits(Wanted, file.gates)
  /\ pc[h] \in Writing => Fits(Wanted, new[h]) /\ Covers(file.gates, new[h])
  /\ pc[r] \in Writing => Open(new[r]) = {}
  /\ pc[r] \in {"open", "fill"} => Satisfied(new[r])

(* Between a grant's validation and its write.                              *)
Granting(h, r) ==
  Acting(r) =>
    /\ Readable => Open(file.gates) # {}
    /\ Permits(messages, msg[r], file.gates)
    /\ pc[h] \in Writing => Open(new[h]) # {} /\ Permits(messages, msg[r], new[h])

(* An agent past its preflight has found nothing unresolved.                *)
Agent(h) ==
  /\ pc[h] = "ensure" => key[h] \in Wanted
  /\ pc[h] \in {"heal", "check"} => call[h] # "escalate"
  /\ pc[h] \in {"heal", "ensure", "check"} \cup Writing /\ call[h] # "escalate" =>
       \A k \in Wanted : k.council \notin todo[h] =>
         /\ pc[h] \in Writing => ~Lacks(k, new[h])
         /\ Readable => \/ ~Lacks(k, file.gates)
                        \/ pc[h] \notin {"heal", "check"} /\ k = key[h]
  /\ pc[h] = "check" => todo[h] = {}
  /\ pc[h] \in {"commit", "save"} =>
       Readable /\ Open(file.gates) = {} /\ tmp.state = "absent"
  /\ pc[h] = "commit" => Satisfied(file.gates)
  /\ pc[h] = "save" =>
       /\ call[h] = "escalate"
       /\ \E c \in Councils : /\ todo[h] = {c}
                              /\ \A k \in Wanted : Lacks(k, file.gates) => k.council = c

PairInv(h, r) == /\ Roles(h, r) /\ Temporary(h, r) /\ Lists(h, r)
                 /\ Granting(h, r) /\ Agent(h)

LEMMA WantedSame ==
  ASSUME UNCHANGED <<rounds, outcome>>
  PROVE  Wanted' = Wanted /\ \A gs : Satisfied(gs)' <=> Satisfied(gs)
<1>1. Wanted' = Wanted
  BY SameCouncils DEF Wanted
<1>. QED BY <1>1 DEF Satisfied

(* Only council c's escalation may be another one.                          *)
LEMMA WantedBut ==
  ASSUME TypeOK, NEW c \in Councils,
         \A d \in Councils : d # c => rounds'[d] = rounds[d] /\ outcome'[d] = outcome[d]
  PROVE  \A k \in Wanted' : k.council # c => k \in Wanted
BY DEF Wanted, Escalated, KeyOf

(* A step of the agent that neither writes nor judges.                      *)
LEMMA AgentRests ==
  ASSUME TypeInv, NEW h \in Procs, NEW r \in Procs, h # r, PairInv(h, r), Step(h),
         pc[h] \notin Writing, pc'[h] \notin Writing,
         UNCHANGED <<rounds, outcome, messages, file, tmp, fd>>
  PROVE  Temporary(h, r)' /\ Lists(h, r)' /\ Granting(h, r)'
<1>1. pc'[r] = pc[r] /\ new'[r] = new[r] /\ msg'[r] = msg[r]
  BY StepOthers
<1>2. Wanted' = Wanted
  BY WantedSame
<1>3. Temporary(h, r)'
  BY <1>1, <1>2 DEF PairInv, Temporary, Readable, Satisfied, Writing
<1>4. Lists(h, r)'
  BY <1>1, <1>2 DEF PairInv, Lists, Readable, Satisfied
<1>5. Granting(h, r)'
  BY <1>1 DEF PairInv, Granting, Acting, Readable
<1>. QED BY <1>3, <1>4, <1>5

LEMMA AgentRoles ==
  ASSUME TypeInv, NEW h \in Procs, NEW r \in Procs, h # r, PairInv(h, r), Step(h),
         pc'[h] \notin {"grant", "dispose"}, msg'[h] = 0, call'[h] \notin {"close", "grant"},
         \A q \in Procs : pc'[q] # "fill" => fd'[q] = "none"
  PROVE  Roles(h, r)'
<1>1. \A q \in Procs : q # h => pc'[q] = pc[q] /\ msg'[q] = msg[q]
  BY StepOthers
<1>. QED BY <1>1 DEF PairInv, Roles

LEMMA AgentBegins ==
  ASSUME TypeInv, NEW h \in Procs, NEW r \in Procs, h # r, PairInv(h, r),
         NEW c \in {"advance", "round"}, Begin(h, c)
  PROVE  PairInv(h, r)'
<1>1. /\ UNCHANGED <<rounds, outcome, messages, file, tmp, fd, msg>>
      /\ Step(h) /\ pc[h] = "idle"
  BY DEF Begin, shared, Step, Calls
<1>2. /\ pc'[h] = "heal" /\ call'[h] = c /\ todo'[h] = Councils
  BY DEF Begin, Goto, TypeInv, TypeOK
<1>3. Temporary(h, r)' /\ Lists(h, r)' /\ Granting(h, r)'
  BY <1>1, <1>2, AgentRests DEF Writing
<1>4. \A q \in Procs : pc'[q] # "fill" => pc[q] # "fill"
  BY <1>1 DEF Begin, Goto, TypeInv, TypeOK
<1>5. Roles(h, r)'
  BY <1>1, <1>2, <1>4, AgentRoles DEF PairInv, Roles
<1>6. Wanted' = Wanted /\ \A k \in Wanted : k.council \in Councils
  BY <1>1, WantedSame DEF Wanted, KeyOf, Escalated
<1>7. Agent(h)'
  BY <1>2, <1>6 DEF Agent, Writing
<1>. QED BY <1>3, <1>5, <1>7 DEF PairInv

(* A command of the agent that is over.                                     *)
LEMMA AgentReturns ==
  ASSUME TypeInv, NEW h \in Procs, NEW r \in Procs, h # r, PairInv(h, r), Step(h), Return(h),
         pc[h] \notin Writing, UNCHANGED <<rounds, outcome, messages, file, tmp, fd>>
  PROVE  PairInv(h, r)'
<1>1. pc'[h] = "idle" /\ msg'[h] = 0 /\ call'[h] = "none"
  BY DEF Return, Goto, TypeInv, TypeOK
<1>2. Temporary(h, r)' /\ Lists(h, r)' /\ Granting(h, r)'
  BY <1>1, AgentRests DEF Writing
<1>3. \A q \in Procs : pc'[q] # "fill" => pc[q] # "fill"
  BY <1>1, StepOthers DEF Writing
<1>4. Roles(h, r)'
  BY <1>1, <1>3, AgentRoles DEF PairInv, Roles
<1>5. Agent(h)'
  BY <1>1 DEF Agent, Writing
<1>. QED BY <1>2, <1>4, <1>5 DEF PairInv

LEMMA AgentHeals ==
  ASSUME TypeInv, NEW h \in Procs, NEW r \in Procs, h # r, PairInv(h, r), Heal(h)
  PROVE  PairInv(h, r)'
<1>1. /\ UNCHANGED <<rounds, outcome, messages, file, tmp, fd, msg, call, new>>
      /\ Step(h) /\ pc[h] = "heal"
  BY DEF Heal, shared, Step
<1>2. pc'[h] \in {"heal", "check", "ensure"} /\ \A q \in Procs : q # h => pc'[q] = pc[q]
  BY <1>1 DEF Heal, Goto, TypeInv, TypeOK
<1>3. Temporary(h, r)' /\ Lists(h, r)' /\ Granting(h, r)'
  BY <1>1, <1>2, AgentRests DEF Writing
<1>4. Roles(h, r)'
  BY <1>1, <1>2, AgentRoles DEF PairInv, Roles
<1>5. Wanted' = Wanted
  BY <1>1, WantedSame
<1>6. \A k \in Wanted : k.council \notin todo[h] => (Readable => ~Lacks(k, file.gates))
  BY <1>1 DEF PairInv, Agent
<1>7. CASE todo[h] = {} /\ Goto(h, "check") /\ UNCHANGED <<todo, key>>
  <2>1. pc'[h] = "check"
    BY <1>7 DEF Goto, TypeInv, TypeOK
  <2>2. Agent(h)'
    BY <1>1, <1>5, <1>6, <1>7, <2>1 DEF PairInv, Agent, Readable, Writing
  <2>. QED BY <1>3, <1>4, <2>2 DEF PairInv
<1>8. ASSUME NEW c \in First(todo[h]), todo' = [todo EXCEPT ![h] = @ \ {c}],
             c \in Escalated, Goto(h, "ensure"), key' = [key EXCEPT ![h] = KeyOf(c)]
      PROVE  PairInv(h, r)'
  <2>1. /\ pc'[h] = "ensure" /\ todo'[h] = todo[h] \ {c}
        /\ key'[h] = KeyOf(c) /\ KeyOf(c) \in Wanted
    BY <1>8 DEF Goto, Wanted, TypeInv, TypeOK
  <2>2. \A k \in Wanted : k.council = c => k = KeyOf(c)
    BY DEF Wanted, KeyOf
  <2>3. Agent(h)'
    BY <1>1, <1>5, <1>6, <2>1, <2>2 DEF Agent, Readable, Writing
  <2>. QED BY <1>3, <1>4, <2>3 DEF PairInv
<1>9. ASSUME NEW c \in First(todo[h]), todo' = [todo EXCEPT ![h] = @ \ {c}],
             c \notin Escalated, UNCHANGED <<pc, key>>
      PROVE  PairInv(h, r)'
  <2>1. todo'[h] = todo[h] \ {c}
    BY <1>9 DEF TypeInv, TypeOK
  <2>2. \A k \in Wanted : k.council # c
    BY <1>9 DEF Wanted, KeyOf
  <2>3. Agent(h)'
    BY <1>1, <1>5, <1>6, <1>9, <2>1, <2>2 DEF PairInv, Agent, Readable, Writing
  <2>. QED BY <1>3, <1>4, <2>3 DEF PairInv
<1>. QED BY <1>7, <1>8, <1>9 DEF Heal

(* The agent has a list with the gate of its escalation.                    *)
LEMMA AgentWrites ==
  ASSUME TypeInv, NEW h \in Procs, NEW r \in Procs, h # r, PairInv(h, r), EnsureGate(h),
         NEW hs \in Seq(Gates), new' = [new EXCEPT ![h] = hs], Goto(h, "open"),
         UNCHANGED <<call, todo, key, msg, due>>,
         Fits(Wanted, hs), Covers(file.gates, hs),
         \A k \in Wanted : Lacks(k, hs) => Lacks(k, file.gates) /\ k # key[h],
         Readable, Acting(r) => Permits(messages, msg[r], hs) /\ Open(hs) # {}
  PROVE  PairInv(h, r)'
<1>1. /\ UNCHANGED <<rounds, outcome, messages, file, tmp, fd, msg, call, todo, key>>
      /\ Step(h) /\ pc[h] = "ensure"
  BY DEF EnsureGate, shared, Step
<1>2. /\ pc'[h] = "open" /\ new'[h] = hs
      /\ \A q \in Procs : q # h => pc'[q] = pc[q] /\ new'[q] = new[q]
  BY DEF Goto, TypeInv, TypeOK
<1>3. Wanted' = Wanted
  BY <1>1, WantedSame
<1>4. Roles(h, r)'
  BY <1>1, <1>2, AgentRoles DEF PairInv, Roles
<1>5. Temporary(h, r)'
  BY <1>1, <1>2, <1>3 DEF PairInv, Temporary, Satisfied, Writing
<1>6. Lists(h, r)'
  BY <1>1, <1>2, <1>3 DEF PairInv, Lists, Readable, Satisfied, Writing
<1>7. Granting(h, r)'
  BY <1>1, <1>2 DEF PairInv, Granting, Acting, Readable
<1>8. Agent(h)'
  BY <1>1, <1>2, <1>3 DEF PairInv, Agent, Readable, Writing
<1>. QED BY <1>4, <1>5, <1>6, <1>7, <1>8 DEF PairInv

LEMMA AgentEnsures ==
  ASSUME TypeInv, NEW h \in Procs, NEW r \in Procs, h # r, PairInv(h, r), EnsureGate(h)
  PROVE  PairInv(h, r)'
<1>1. /\ UNCHANGED <<rounds, outcome, messages, file, tmp, fd>>
      /\ Step(h) /\ pc[h] = "ensure" /\ pc[h] \notin Writing
  BY DEF EnsureGate, shared, Step, Writing
<1>2. key[h] \in Wanted /\ key[h] \in Keys /\ OneEach(Wanted) /\ file.gates \in Seq(Gates)
  BY <1>1, WantedType, ContentTypes DEF PairInv, Agent, TypeInv, TypeOK
<1>3. /\ Readable => Fits(Wanted, file.gates)
      /\ Acting(r) /\ Readable =>
           Open(file.gates) # {} /\ Permits(messages, msg[r], file.gates)
  BY DEF PairInv, Lists, Granting
<1>4. CASE Return(h)
  BY <1>1, <1>4, AgentReturns
<1>5. ASSUME Readable, Continue(h), ~Return(h), ~Lacks(key[h], file.gates)
      PROVE  PairInv(h, r)'
  <2>1. /\ pc'[h] = "heal" /\ msg'[h] = msg[h] /\ call'[h] = call[h] /\ call[h] # "escalate"
        /\ todo'[h] = todo[h] /\ \A q \in Procs : q # h => pc'[q] = pc[q]
    BY <1>5 DEF Continue, Goto, TypeInv, TypeOK
  <2>2. Temporary(h, r)' /\ Lists(h, r)' /\ Granting(h, r)'
    BY <1>1, <2>1, AgentRests DEF Writing
  <2>3. Roles(h, r)'
    BY <1>1, <2>1, AgentRoles DEF PairInv, Roles
  <2>4. Wanted' = Wanted
    BY <1>1, WantedSame
  <2>5. Agent(h)'
    BY <1>1, <1>5, <2>1, <2>4 DEF PairInv, Agent, Readable, Writing
  <2>. QED BY <2>2, <2>3, <2>5 DEF PairInv
<1>6. CASE /\ Readable /\ Lacks(key[h], file.gates)
           /\ new' = [new EXCEPT ![h] = Append(file.gates, NewGate(key[h]))]
           /\ Goto(h, "open") /\ UNCHANGED <<call, todo, key, msg, due>>
  <2> DEFINE hs == Append(file.gates, NewGate(key[h]))
  <2>1. hs \in Seq(Gates)
    BY <1>2, NewGateType DEF TypeInv
  <2>2. /\ Fits(Wanted, hs) /\ Covers(file.gates, hs) /\ \A l \in Wanted : ~Lacks(l, hs)
        /\ Open(file.gates) = {}
    BY <1>2, <1>3, <1>6, FitsNew
  <2> HIDE DEF hs
  <2>3. ~Acting(r)
    BY <1>3, <1>6, <2>2
  <2>4. new' = [new EXCEPT ![h] = hs]
    BY <1>6 DEF hs
  <2>. QED BY <1>6, <2>1, <2>2, <2>3, <2>4, AgentWrites
<1>7. ASSUME NEW i \in Matches(key[h], file.gates), Readable,
             new' = [new EXCEPT ![h] = [file.gates EXCEPT ![i] = Recognized(@, key[h])]],
             Goto(h, "open"), UNCHANGED <<call, todo, key, msg, due>>
      PROVE  PairInv(h, r)'
  <2> DEFINE hs == [file.gates EXCEPT ![i] = Recognized(@, key[h])]
  <2>1. hs \in Seq(Gates)
    BY <1>2, RecognizedType, ChangedType, MemberType DEF Matches
  <2>2. /\ Fits(Wanted, hs) /\ Covers(file.gates, hs) /\ ~Lacks(key[h], hs)
        /\ \A l \in Wanted : Lacks(l, hs) => Lacks(l, file.gates)
    BY <1>2, <1>3, <1>7, FitsRecognized
  <2> HIDE DEF hs
  <2>3. Acting(r) => Permits(messages, msg[r], hs) /\ Open(hs) # {}
    <3>1. \A m, j \in Open(hs) : m = j
      BY <2>2 DEF Fits
    <3>. QED BY <1>3, <1>7, <2>2, <3>1, PermitsCovered
  <2>4. new' = [new EXCEPT ![h] = hs]
    BY <1>7 DEF hs
  <2>. QED BY <1>7, <2>1, <2>2, <2>3, <2>4, AgentWrites
<1>8. Matches(key[h], file.gates) # {} <=> ~Lacks(key[h], file.gates)
  BY DEF Lacks
<1>. QED BY <1>4, <1>5, <1>6, <1>7, <1>8 DEF EnsureGate, First

LEMMA AgentOpens ==
  ASSUME TypeInv, NEW h \in Procs, NEW r \in Procs, h # r, PairInv(h, r), OpenTmp(h)
  PROVE  PairInv(h, r)'
<1>1. /\ UNCHANGED <<rounds, outcome, messages, file, call, todo, key, msg, new>>
      /\ Step(h) /\ pc[h] = "open"
  BY DEF OpenTmp, Step
<1>2. /\ pc'[h] = "fill" /\ tmp'.state = "empty" /\ tmp'.gates = << >>
      /\ \A q \in Procs : q # h => pc'[q] = pc[q] /\ fd'[q] = fd[q]
  BY DEF OpenTmp, Blank, Goto, TypeInv, TypeOK
<1>3. Wanted' = Wanted
  BY <1>1, WantedSame
<1>4. Roles(h, r)'
  BY <1>1, <1>2, AgentRoles DEF PairInv, Roles
<1>5. Temporary(h, r)'
  BY <1>2 DEF Temporary, Writing
<1>6. Lists(h, r)'
  BY <1>1, <1>2, <1>3 DEF PairInv, Lists, Readable, Satisfied, Writing
<1>7. Granting(h, r)'
  BY <1>1, <1>2 DEF PairInv, Granting, Acting, Readable, Writing
<1>8. Agent(h)'
  BY <1>1, <1>2, <1>3 DEF PairInv, Agent, Readable, Writing
<1>. QED BY <1>4, <1>5, <1>6, <1>7, <1>8 DEF PairInv

(* What a process writes, and what a torn write leaves.                     *)
LEMMA FilledIs ==
  ASSUME NEW f, NEW gs, NEW g \in Filled(f, gs)
  PROVE  \/ g.state = "ok" /\ g.gates = gs
         \/ g.state = "torn" /\ g.gates = << >> /\ f.state # "empty"
BY DEF Filled, Holds, Blank

LEMMA EmptyList == Open(<< >>) = {} /\ \A gs : Covers(<< >>, gs)
BY DEF Open, Covers

LEMMA AgentFills ==
  ASSUME TypeInv, NEW h \in Procs, NEW r \in Procs, h # r, PairInv(h, r), FillTmp(h)
  PROVE  PairInv(h, r)'
<1>1. /\ UNCHANGED <<rounds, outcome, messages, call, todo, key, msg, new>>
      /\ Step(h) /\ pc[h] = "fill"
  BY DEF FillTmp, Step
<1>2. /\ pc'[h] = "replace"
      /\ \A q \in Procs : q # h => pc'[q] = pc[q] /\ fd'[q] = fd[q]
      /\ fd'[h] = "none"
  BY DEF FillTmp, Goto, TypeInv, TypeOK
<1>3. Wanted' = Wanted
  BY <1>1, WantedSame
<1>4. Roles(h, r)'
  BY <1>1, <1>2, AgentRoles DEF PairInv, Roles
<1>5. \/ UNCHANGED <<file, tmp>>
      \/ /\ UNCHANGED file
         /\ \/ tmp'.state = "ok" /\ tmp'.gates = new[h]
            \/ tmp'.state = "torn" /\ tmp'.gates = << >>
      \/ /\ UNCHANGED tmp
         /\ \/ file'.state = "ok" /\ file'.gates = new[h]
            \/ file'.state = "torn" /\ file'.gates = << >>
  BY FilledIs DEF FillTmp
<1>6. Temporary(h, r)'
  BY <1>1, <1>2, <1>3, <1>5 DEF PairInv, Temporary, Satisfied, Writing
<1>7. Covers(new[h], new[h])
  BY CoversSame
<1>8. Lists(h, r)'
  BY <1>1, <1>2, <1>3, <1>5, <1>7, EmptyList DEF PairInv, Lists, Readable, Satisfied, Writing
<1>9. Permits(messages, msg[r], file.gates) => Permits(messages, msg[r], << >>)
  BY EmptyList DEF Permits
<1>10. Granting(h, r)'
  BY <1>1, <1>2, <1>5, <1>9 DEF PairInv, Granting, Acting, Readable, Writing
<1>11. Agent(h)'
  BY <1>1, <1>2, <1>3, <1>5 DEF PairInv, Agent, Readable, Writing
<1>. QED BY <1>4, <1>6, <1>8, <1>10, <1>11 DEF PairInv

LEMMA AgentReplaces ==
  ASSUME TypeInv, NEW h \in Procs, NEW r \in Procs, h # r, PairInv(h, r), ReplaceTmp(h)
  PROVE  PairInv(h, r)'
<1>1. /\ UNCHANGED <<rounds, outcome, messages>> /\ Step(h) /\ pc[h] = "replace"
      /\ Return(h) \/ Continue(h)
  BY DEF ReplaceTmp, Step
<1>2. /\ pc'[h] \in {"idle", "heal"} /\ msg'[h] = 0 /\ call'[h] \in {"none", call[h]}
      /\ pc'[h] = "heal" => /\ call'[h] = call[h] /\ call[h] # "escalate"
                            /\ todo'[h] = todo[h] /\ tmp.state # "absent"
      /\ \A q \in Procs : q # h => pc'[q] = pc[q] /\ new'[q] = new[q] /\ msg'[q] = msg[q]
  <2>1. \A q \in Procs : q # h => pc'[q] = pc[q] /\ new'[q] = new[q] /\ msg'[q] = msg[q]
    BY <1>1, StepOthers
  <2>2. msg[h] = 0
    BY DEF PairInv, Roles
  <2>. QED BY <2>1, <2>2 DEF ReplaceTmp, Continue, Return, Goto, TypeInv, TypeOK
<1>3. Wanted' = Wanted
  BY <1>1, WantedSame
<1>4. \A q \in Procs : fd[q] = "none" => fd'[q] = "none"
  BY DEF ReplaceTmp
<1>5. Roles(h, r)'
  <2>1. \A q \in Procs : pc'[q] # "fill" => pc[q] # "fill"
    BY <1>1, <1>2
  <2>2. \A q \in Procs : pc'[q] # "fill" => fd'[q] = "none"
    BY <1>4, <2>1 DEF PairInv, Roles
  <2>. QED BY <1>1, <1>2, <2>2, AgentRoles DEF PairInv, Roles
<1>6. tmp'.state = "absent" /\ tmp'.gates = << >>
      /\ \/ UNCHANGED file /\ pc'[h] = "idle"
         \/ file'.state = tmp.state /\ file'.gates = tmp.gates /\ tmp.state # "absent"
  <2>1. tmp.state = "absent" => tmp.gates = << >>
    BY DEF PairInv, Lists
  <2>2. tmp.state = "absent" => UNCHANGED file /\ pc'[h] = "idle"
    BY <1>1 DEF ReplaceTmp, Return, Goto, TypeInv, TypeOK
  <2>. QED BY <2>1, <2>2 DEF ReplaceTmp, Blank
<1>7. Temporary(h, r)'
  <2>1. fd'[r] # "tmp"
    BY DEF ReplaceTmp, PairInv, Temporary
  <2>. QED BY <1>6, <2>1 DEF Temporary
<1>8. tmp.state = "ok" =>
        /\ Fits(Wanted, tmp.gates)
        /\ \/ tmp.gates = new[h]
           \/ pc[r] = "replace" /\ tmp.gates = new[r] /\ Satisfied(new[r])
  <2>1. pc[r] = "replace" /\ Satisfied(new[r]) => Fits(Wanted, new[r])
    BY DEF PairInv, Lists, Writing, Satisfied, Fits
  <2>. QED BY <1>1, <2>1 DEF PairInv, Temporary, Lists, Writing
<1>9. tmp.state # "ok" => tmp.gates = << >>
  BY DEF PairInv, Lists
<1>10. Lists(h, r)'
  BY <1>1, <1>2, <1>3, <1>6, <1>8, <1>9 DEF PairInv, Lists, Readable, Satisfied, Writing
<1>11. Permits(messages, msg[r], file.gates) => Permits(messages, msg[r], << >>)
  BY EmptyList DEF Permits
<1>12. Granting(h, r)'
  BY <1>1, <1>2, <1>6, <1>8, <1>9, <1>11 DEF PairInv, Granting, Acting, Readable, Writing
<1>13. Agent(h)'
  BY <1>1, <1>2, <1>3, <1>6, <1>8, <1>9 DEF PairInv, Agent, Readable, Writing, Satisfied
<1>. QED BY <1>5, <1>7, <1>10, <1>12, <1>13 DEF PairInv

(* A grant under way keeps an unresolved gate in the record, so the agent   *)
(* is refused; without one nothing is on its way to the record.             *)
LEMMA AgentChecks ==
  ASSUME TypeInv, NEW h \in Procs, NEW r \in Procs, h # r, PairInv(h, r), Check(h)
  PROVE  PairInv(h, r)'
<1>1. /\ UNCHANGED <<rounds, outcome, messages, file, tmp, fd>>
      /\ Step(h) /\ pc[h] = "check" /\ pc[h] \notin Writing
      /\ call[h] # "close"
  BY DEF Check, shared, Step, Writing, PairInv, Roles
<1>2. CASE Return(h)
  BY <1>1, <1>2, AgentReturns
<1>3. ASSUME NEW l \in {"advance", "commit"}, Goto(h, l), Readable, Open(file.gates) = {},
             UNCHANGED <<call, todo, key, msg, new, due>>
      PROVE  PairInv(h, r)'
  <2>1. pc'[h] = l /\ \A q \in Procs : q # h => pc'[q] = pc[q]
    BY <1>3 DEF Goto, TypeInv, TypeOK
  <2>2. Temporary(h, r)' /\ Lists(h, r)' /\ Granting(h, r)'
    BY <1>1, <2>1, AgentRests DEF Writing
  <2>3. Roles(h, r)'
    BY <1>1, <1>3, <2>1, AgentRoles DEF PairInv, Roles
  <2>4. Wanted' = Wanted
    BY <1>1, WantedSame
  <2>5. Satisfied(file.gates)
    BY <1>1, <1>3 DEF PairInv, Agent, Satisfied
  <2>6. tmp.state = "absent"
    BY <1>1, <1>3 DEF PairInv, Temporary, Granting, Acting, Writing
  <2>7. Agent(h)'
    BY <1>1, <1>3, <2>1, <2>4, <2>5, <2>6 DEF Agent, Readable, Satisfied, Writing
  <2>. QED BY <2>2, <2>3, <2>7 DEF PairInv
<1>. QED BY <1>1, <1>2, <1>3 DEF Check, Refused

LEMMA AgentCommits ==
  ASSUME TypeInv, NEW h \in Procs, NEW r \in Procs, h # r, PairInv(h, r), Commit(h)
  PROVE  PairInv(h, r)'
<1>1. /\ UNCHANGED <<outcome, messages, file, tmp, fd, msg, new>>
      /\ Step(h) /\ pc[h] = "commit"
  BY DEF Commit, Step
<1>2. PICK c \in Councils : /\ todo' = [todo EXCEPT ![h] = {c}]
                            /\ \/ UNCHANGED rounds
                               \/ rounds' = [rounds EXCEPT ![c] = @ + 1]
  BY DEF Commit
<1>3. /\ pc'[h] = "save" /\ call'[h] = "escalate" /\ todo'[h] = {c}
      /\ \A d \in Councils : d # c => rounds'[d] = rounds[d]
      /\ \A q \in Procs : q # h => pc'[q] = pc[q]
  BY <1>2 DEF Commit, Goto, TypeInv, TypeOK
<1>4. /\ Readable /\ Open(file.gates) = {} /\ tmp.state = "absent" /\ ~Acting(r)
      /\ Satisfied(file.gates)
  BY <1>1 DEF PairInv, Agent, Granting
<1>5. \A k \in Wanted' : Lacks(k, file.gates) => k.council = c
  BY <1>1, <1>3, <1>4, WantedBut DEF Satisfied, TypeInv
<1>6. Roles(h, r)'
  BY <1>1, <1>3, AgentRoles DEF PairInv, Roles
<1>7. Temporary(h, r)'
  <2>1. fd[r] = "none"
    BY <1>4 DEF Acting, PairInv, Roles
  <2>. QED BY <1>1, <1>4, <2>1 DEF Temporary
<1>8. Fits(Wanted', file.gates)
  <2>1. OneEach(Wanted')
    BY <1>1, WantedNext DEF Next
  <2>2. \A i, j \in Open(file.gates) : i = j
    BY <1>4
  <2>. QED BY <1>4, <1>5, <2>1, <2>2 DEF Fits, OneEach
<1>9. Lists(h, r)'
  BY <1>1, <1>3, <1>4, <1>8 DEF PairInv, Lists, Readable, Acting, Writing
<1>10. Granting(h, r)'
  BY <1>3, <1>4 DEF Granting, Acting
<1>11. Agent(h)'
  BY <1>1, <1>3, <1>4, <1>5 DEF Agent, Readable, Writing
<1>. QED BY <1>6, <1>7, <1>9, <1>10, <1>11 DEF PairInv

LEMMA AgentSaves ==
  ASSUME TypeInv, NEW h \in Procs, NEW r \in Procs, h # r, PairInv(h, r), SaveOutcome(h)
  PROVE  PairInv(h, r)'
<1>1. /\ UNCHANGED <<rounds, messages, file, tmp, fd>>
      /\ Step(h) /\ pc[h] = "save"
  BY DEF SaveOutcome, Step
<1>2. PICK c \in Councils :
        todo[h] = {c} /\ \A k \in Wanted : Lacks(k, file.gates) => k.council = c
  BY <1>1 DEF PairInv, Agent
<1>3. PICK o \in Outcomes :
        /\ outcome' = [outcome EXCEPT ![c] = o]
        /\ IF o \in Escalations
           THEN /\ key' = [key EXCEPT ![h] = [council |-> c, round |-> rounds[c], outcome |-> o]]
                /\ Goto(h, "ensure")
                /\ UNCHANGED <<call, todo, msg, new, due>>
           ELSE Return(h)
  BY <1>2 DEF SaveOutcome
<1>4. /\ Readable /\ Open(file.gates) = {} /\ tmp.state = "absent" /\ ~Acting(r)
      /\ call[h] = "escalate" /\ msg[h] = 0
  BY <1>1 DEF PairInv, Agent, Granting, Roles
<1>5. \A d \in Councils : d # c => outcome'[d] = outcome[d]
  BY <1>3 DEF TypeInv, TypeOK
<1>6. \A k \in Wanted' : Lacks(k, file.gates) => k.council = c
  BY <1>1, <1>2, <1>5, WantedBut DEF TypeInv
<1>7. /\ pc'[h] \in {"idle", "ensure"} /\ msg'[h] = 0 /\ call'[h] \in {"none", "escalate"}
      /\ pc'[h] = "ensure" => /\ o \in Escalations /\ call'[h] = "escalate"
                              /\ key'[h] = [council |-> c, round |-> rounds[c], outcome |-> o]
      /\ \A q \in Procs : q # h => pc'[q] = pc[q] /\ new'[q] = new[q]
  BY <1>3, <1>4 DEF Return, Goto, TypeInv, TypeOK
<1>8. Roles(h, r)'
  BY <1>1, <1>7, AgentRoles DEF PairInv, Roles
<1>9. Temporary(h, r)'
  <2>1. fd[r] = "none"
    BY <1>4 DEF Acting, PairInv, Roles
  <2>. QED BY <1>1, <1>4, <2>1 DEF Temporary
<1>10. Fits(Wanted', file.gates)
  <2>1. OneEach(Wanted')
    BY <1>1, WantedNext DEF Next
  <2>2. \A i, j \in Open(file.gates) : i = j
    BY <1>4
  <2>. QED BY <1>4, <1>6, <2>1, <2>2 DEF Fits, OneEach
<1>11. Lists(h, r)'
  BY <1>1, <1>4, <1>7, <1>10 DEF PairInv, Lists, Readable, Acting, Writing
<1>12. Granting(h, r)'
  BY <1>4, <1>7 DEF Granting, Acting
<1>13. pc'[h] = "ensure" => key'[h] \in Wanted'
  <2>1. o \in Escalations => c \in Escalated' /\ KeyOf(c)' = [council |-> c, round |-> rounds[c],
                                                           outcome |-> o]
    BY <1>1, <1>3 DEF Escalated, KeyOf, TypeInv, TypeOK
  <2>. QED BY <1>7, <2>1 DEF Wanted
<1>14. Agent(h)'
  BY <1>7, <1>13 DEF Agent, Writing
<1>. QED BY <1>8, <1>9, <1>11, <1>12, <1>14 DEF PairInv

(* Every step of the agent.                                                 *)
LEMMA AgentStep ==
  ASSUME TypeInv, Apart, NEW h \in Healers, NEW r \in Resolvers, PairInv(h, r), Step(h)
  PROVE  PairInv(h, r)'
<1>1. h \in Procs /\ r \in Procs /\ h # r
  BY DEF Healers, Resolvers, Apart
<1>2. ASSUME NEW c \in Calls, Begin(h, c) PROVE c \in {"advance", "round"}
  BY <1>1, <1>2 DEF Begin, Calls, Apart, Resolvers
<1>3. ~Stop(h) /\ ~Grant(h) /\ ~RecordDisposition(h)
  BY DEF Stop, Grant, RecordDisposition, Apart, PairInv, Roles
<1>4. CASE Advance(h)
  BY <1>1, <1>4, AgentReturns DEF Advance, shared, Writing
<1>5. CASE (\E c \in Calls : Begin(h, c)) \/ Heal(h) \/ EnsureGate(h)
  BY <1>1, <1>2, <1>5, AgentBegins, AgentHeals, AgentEnsures
<1>6. CASE OpenTmp(h) \/ FillTmp(h) \/ ReplaceTmp(h)
  BY <1>1, <1>6, AgentOpens, AgentFills, AgentReplaces
<1>7. CASE Check(h) \/ Commit(h) \/ SaveOutcome(h)
  BY <1>1, <1>7, AgentChecks, AgentCommits, AgentSaves
<1>. QED BY <1>3, <1>4, <1>5, <1>6, <1>7 DEF Step

(* The operator's command where it touches no file.                         *)
LEMMA OperatorRests ==
  ASSUME TypeInv, NEW h \in Procs, NEW r \in Procs, h # r, PairInv(h, r), Step(r),
         UNCHANGED <<rounds, outcome, messages, file, tmp, fd>>,
         pc[r] \notin Writing, pc'[r] \in {"idle", "grant"}
  PROVE  PairInv(h, r)'
<1>1. \A q \in Procs : q # r =>
        /\ pc'[q] = pc[q] /\ call'[q] = call[q] /\ todo'[q] = todo[q]
        /\ key'[q] = key[q] /\ msg'[q] = msg[q] /\ new'[q] = new[q]
  BY StepOthers
<1>2. Wanted' = Wanted
  BY WantedSame
<1>3. Roles(h, r)'
  BY <1>1 DEF PairInv, Roles, Writing
<1>4. Temporary(h, r)'
  BY <1>1, <1>2 DEF PairInv, Temporary, Readable, Satisfied, Writing
<1>5. Lists(h, r)'
  BY <1>1, <1>2 DEF PairInv, Lists, Readable, Writing
<1>6. Granting(h, r)'
  BY DEF Granting, Acting
<1>7. Agent(h)'
  BY <1>1, <1>2 DEF PairInv, Agent, Readable, Satisfied
<1>. QED BY <1>3, <1>4, <1>5, <1>6, <1>7 DEF PairInv

(* The message is validated against the gate that is unresolved in every    *)
(* list.                                                                    *)
LEMMA OperatorGrants ==
  ASSUME TypeInv, NEW h \in Procs, NEW r \in Procs, h # r, PairInv(h, r), Grant(r)
  PROVE  PairInv(h, r)'
<1>1. /\ UNCHANGED <<rounds, outcome, messages, file, tmp, fd>>
      /\ Step(r) /\ pc[r] = "grant"
  BY DEF Grant, Step, shared
<1>2. CASE Return(r)
  <2>1. pc'[r] = "idle"
    BY <1>2 DEF Return, Goto, TypeInv, TypeOK
  <2>. QED BY <1>1, <2>1, OperatorRests DEF Writing
<1>3. ASSUME NEW i \in Active(file.gates), NEW m \in DOMAIN messages, Readable,
             Authorizes(m, file.gates[i]), msg' = [msg EXCEPT ![r] = m], Goto(r, "dispose"),
             UNCHANGED <<call, todo, key, new, due>>
      PROVE  PairInv(h, r)'
  <2>1. /\ pc'[r] = "dispose" /\ msg'[r] = m /\ m # 0
        /\ \A q \in Procs : q # r => pc'[q] = pc[q] /\ msg'[q] = msg[q]
    BY <1>3 DEF Goto, TypeInv, TypeOK
  <2>2. Wanted' = Wanted
    BY <1>1, WantedSame
  <2>3. Roles(h, r)'
    BY <1>1, <1>3, <2>1 DEF PairInv, Roles, Writing
  <2>4. Temporary(h, r)'
    BY <1>1, <1>3, <2>1, <2>2 DEF PairInv, Temporary, Readable, Satisfied, Writing
  <2>5. Lists(h, r)'
    BY <1>1, <1>3, <2>1, <2>2 DEF PairInv, Lists, Readable, Writing
  <2>6. i \in Open(file.gates) /\ Fits(Wanted, file.gates)
    BY <1>3 DEF Active, First, PairInv, Lists
  <2>7. Permits(messages, m, file.gates)
    BY <1>3, <2>6 DEF Permits, Fits, Authorizes
  <2>8. pc[h] \in Writing => Open(new[h]) # {} /\ Permits(messages, m, new[h])
    <3>1. pc[h] \in Writing => Covers(file.gates, new[h]) /\ \A j, l \in Open(new[h]) : j = l
      BY DEF PairInv, Lists, Fits
    <3>. QED BY <2>6, <2>7, <3>1, PermitsCovered
  <2>9. Granting(h, r)'
    BY <1>1, <1>3, <2>1, <2>6, <2>7, <2>8 DEF Granting, Readable
  <2>10. Agent(h)'
    BY <1>1, <1>3, <2>1, <2>2 DEF PairInv, Agent, Readable, Satisfied
  <2>. QED BY <2>3, <2>4, <2>5, <2>9, <2>10 DEF PairInv
<1>. QED BY <1>2, <1>3 DEF Grant

LEMMA OperatorDisposes ==
  ASSUME TypeInv, NEW h \in Procs, NEW r \in Procs, h # r, PairInv(h, r), RecordDisposition(r)
  PROVE  PairInv(h, r)'
<1>1. /\ UNCHANGED <<rounds, outcome, messages, file, tmp, fd>>
      /\ Step(r) /\ pc[r] = "dispose" /\ file.gates \in Seq(Gates)
  BY ContentTypes DEF RecordDisposition, Step, shared, TypeInv, TypeOK
<1>2. CASE Return(r)
  <2>1. pc'[r] = "idle"
    BY <1>2 DEF Return, Goto, TypeInv, TypeOK
  <2>. QED BY <1>1, <2>1, OperatorRests DEF Writing
<1>3. ASSUME NEW i \in Open(file.gates), Readable, Goto(r, "open"),
             UNCHANGED <<call, todo, key, msg, due>>,
             new' = [new EXCEPT ![r] =
                       [file.gates EXCEPT ![i] = Disposed(@, Disposition(r), msg[r])]]
      PROVE  PairInv(h, r)'
  <2> DEFINE hs == [file.gates EXCEPT ![i] = Disposed(@, Disposition(r), msg[r])]
  <2>1. Disposition(r) \in {"resolved", "closed"} /\ Fits(Wanted, file.gates)
    BY <1>3 DEF Disposition, PairInv, Lists
  <2>2. Fits(Wanted, hs) /\ Open(hs) = {} /\ \A k \in Wanted : ~Lacks(k, hs)
    BY <1>1, <2>1, FitsDisposed
  <2>3. new' = [new EXCEPT ![r] = hs]
    BY <1>3
  <2> HIDE DEF hs
  <2>4. /\ pc'[r] = "open" /\ new'[r] = hs
        /\ \A q \in Procs : q # r => pc'[q] = pc[q] /\ new'[q] = new[q]
    BY <1>3, <2>3 DEF Goto, TypeInv, TypeOK
  <2>5. Wanted' = Wanted
    BY <1>1, WantedSame
  <2>6. Roles(h, r)'
    BY <1>1, <1>3, <2>4 DEF PairInv, Roles, Writing
  <2>7. Temporary(h, r)'
    BY <1>1, <2>4, <2>5 DEF PairInv, Temporary, Readable, Satisfied, Writing
  <2>8. Lists(h, r)'
    BY <1>1, <2>2, <2>4, <2>5 DEF PairInv, Lists, Readable, Satisfied, Writing
  <2>9. Granting(h, r)'
    BY <1>1, <1>3, <2>4 DEF PairInv, Granting, Acting, Readable
  <2>10. Agent(h)'
    BY <1>1, <1>3, <2>4, <2>5 DEF PairInv, Agent, Readable, Satisfied
  <2>. QED BY <2>6, <2>7, <2>8, <2>9, <2>10 DEF PairInv
<1>. QED BY <1>2, <1>3 DEF RecordDisposition, Active, First

LEMMA OperatorOpens ==
  ASSUME TypeInv, NEW h \in Procs, NEW r \in Procs, h # r, PairInv(h, r), OpenTmp(r)
  PROVE  PairInv(h, r)'
<1>1. /\ UNCHANGED <<rounds, outcome, messages, file, call, todo, key, msg, new>>
      /\ Step(r) /\ pc[r] = "open"
  BY DEF OpenTmp, Step
<1>2. /\ pc'[r] = "fill" /\ fd'[r] = "tmp" /\ tmp'.state = "empty" /\ tmp'.gates = << >>
      /\ \A q \in Procs : q # r => pc'[q] = pc[q] /\ fd'[q] = fd[q]
  BY DEF OpenTmp, Blank, Goto, TypeInv, TypeOK
<1>3. Wanted' = Wanted
  BY <1>1, WantedSame
<1>4. Roles(h, r)'
  BY <1>1, <1>2 DEF PairInv, Roles, Writing
<1>5. Temporary(h, r)'
  BY <1>2 DEF Temporary
<1>6. Lists(h, r)'
  BY <1>1, <1>2, <1>3 DEF PairInv, Lists, Readable, Satisfied, Writing
<1>7. Granting(h, r)'
  BY <1>1, <1>2 DEF PairInv, Granting, Acting, Readable
<1>8. pc[h] \notin {"commit", "save"}
  BY <1>1 DEF PairInv, Granting, Acting, Agent
<1>9. Agent(h)'
  BY <1>1, <1>2, <1>3, <1>8 DEF PairInv, Agent, Readable
<1>. QED BY <1>4, <1>5, <1>6, <1>7, <1>9 DEF PairInv

LEMMA OperatorFills ==
  ASSUME TypeInv, NEW h \in Procs, NEW r \in Procs, h # r, PairInv(h, r), FillTmp(r)
  PROVE  PairInv(h, r)'
<1>1. /\ UNCHANGED <<rounds, outcome, messages, call, todo, key, msg, new>>
      /\ Step(r) /\ pc[r] = "fill"
  BY DEF FillTmp, Step
<1>2. /\ pc'[r] = "replace" /\ fd'[r] = "none"
      /\ \A q \in Procs : q # r => pc'[q] = pc[q] /\ fd'[q] = fd[q]
  BY DEF FillTmp, Goto, TypeInv, TypeOK
<1>3. Wanted' = Wanted
  BY <1>1, WantedSame
<1>4. Roles(h, r)'
  BY <1>1, <1>2 DEF PairInv, Roles, Writing
<1>5. \/ fd[r] # "tmp" /\ UNCHANGED <<file, tmp>>
      \/ /\ fd[r] = "tmp" /\ UNCHANGED file
         /\ \/ tmp'.state = "ok" /\ tmp'.gates = new[r]
            \/ tmp'.state = "torn" /\ tmp'.gates = << >> /\ tmp.state # "empty"
      \/ /\ fd[r] # "tmp" /\ UNCHANGED tmp
         /\ \/ file'.state = "ok" /\ file'.gates = new[r]
            \/ file'.state = "torn" /\ file'.gates = << >>
  BY FilledIs DEF FillTmp
<1>6. /\ Open(new[r]) = {} /\ Satisfied(new[r]) /\ Fits(Wanted, new[r])
      /\ Covers(new[r], new[h]) /\ Covers(<< >>, new[h])
  BY <1>1, EmptyList DEF PairInv, Lists, Satisfied, Fits, Covers, Writing
<1>7. pc[h] \notin {"commit", "save"} /\ (Readable => Open(file.gates) # {})
  BY <1>1 DEF PairInv, Granting, Acting, Agent
<1>8. Temporary(h, r)'
  <2>1. Satisfied(new[r])'
    BY <1>1, <1>3, <1>6 DEF Satisfied
  <2>2. ASSUME tmp'.state = "ok"
        PROVE  \/ pc'[h] = "replace" /\ tmp'.gates = new'[h]
               \/ pc'[r] = "replace" /\ tmp'.gates = new'[r]
    BY <1>1, <1>2, <1>5, <2>2 DEF PairInv, Temporary
  <2>3. ASSUME tmp'.state # "absent", pc'[h] \notin Writing
        PROVE  tmp'.state = "ok" /\ (Readable => Open(file.gates) # {}) /\ UNCHANGED file
    BY <1>1, <1>2, <1>5, <1>7, <2>3 DEF PairInv, Temporary
  <2>. QED BY <1>1, <1>2, <2>1, <2>2, <2>3 DEF Temporary, Readable
<1>9. Lists(h, r)'
  BY <1>1, <1>2, <1>3, <1>5, <1>6 DEF PairInv, Lists, Readable, Satisfied, Writing
<1>10. Granting(h, r)'
  BY <1>2 DEF Granting, Acting
<1>11. Agent(h)'
  BY <1>1, <1>2, <1>3, <1>5, <1>6, <1>7 DEF PairInv, Agent, Readable, Satisfied
<1>. QED BY <1>4, <1>8, <1>9, <1>10, <1>11 DEF PairInv

LEMMA OperatorReplaces ==
  ASSUME TypeInv, NEW h \in Procs, NEW r \in Procs, h # r, PairInv(h, r), ReplaceTmp(r)
  PROVE  PairInv(h, r)'
<1>1. /\ UNCHANGED <<rounds, outcome, messages>> /\ Step(r) /\ pc[r] = "replace"
      /\ msg[r] # 0
  BY DEF ReplaceTmp, Step, PairInv, Roles, Writing
<1>2. Return(r)
  BY <1>1 DEF ReplaceTmp, Continue
<1>3. /\ pc'[r] = "idle"
      /\ \A q \in Procs : q # r =>
           /\ pc'[q] = pc[q] /\ call'[q] = call[q] /\ todo'[q] = todo[q]
           /\ key'[q] = key[q] /\ msg'[q] = msg[q] /\ new'[q] = new[q]
  BY <1>1, <1>2, StepOthers DEF Return, Goto, TypeInv, TypeOK
<1>4. Wanted' = Wanted
  BY <1>1, WantedSame
<1>5. \A q \in Procs : fd[q] = "none" => fd'[q] = "none"
  BY DEF ReplaceTmp
<1>6. Roles(h, r)'
  BY <1>1, <1>3, <1>5 DEF PairInv, Roles, Writing
<1>7. tmp'.state = "absent" /\ tmp'.gates = << >>
      /\ \/ UNCHANGED file
         \/ file'.state = tmp.state /\ file'.gates = tmp.gates /\ tmp.state # "absent"
  <2>1. tmp.state = "absent" => tmp.gates = << >>
    BY DEF PairInv, Lists
  <2>. QED BY <2>1 DEF ReplaceTmp, Blank
<1>8. Temporary(h, r)'
  <2>1. fd'[r] # "tmp"
    BY DEF ReplaceTmp, PairInv, Temporary
  <2>. QED BY <1>7, <2>1 DEF Temporary
<1>9. tmp.state = "ok" =>
        /\ Fits(Wanted, tmp.gates)
        /\ pc[h] \in Writing => Covers(tmp.gates, new[h])
        /\ \/ pc[h] = "replace" /\ tmp.gates = new[h]
           \/ Satisfied(tmp.gates)
  <2>1. /\ Open(new[r]) = {} /\ Covers(new[r], new[h]) /\ Covers(new[h], new[h])
        /\ Satisfied(new[r]) => Fits(Wanted, new[r])
    BY <1>1 DEF PairInv, Lists, Writing, Satisfied, Fits, Covers
  <2>. QED BY <2>1 DEF PairInv, Temporary, Lists, Writing
<1>10. tmp.state # "ok" => tmp.gates = << >>
  BY DEF PairInv, Lists
<1>11. Lists(h, r)'
  BY <1>1, <1>3, <1>4, <1>7, <1>9, <1>10, EmptyList DEF PairInv, Lists, Readable, Writing
<1>12. Granting(h, r)'
  BY <1>3 DEF Granting, Acting
<1>13. Agent(h)'
  BY <1>3, <1>4, <1>7, <1>9, <1>10 DEF PairInv, Agent, Readable, Satisfied, Writing
<1>. QED BY <1>6, <1>8, <1>11, <1>12, <1>13 DEF PairInv

(* Every step of the operator's command.                                    *)
LEMMA OperatorStep ==
  ASSUME TypeInv, Apart, NEW h \in Healers, NEW r \in Resolvers, PairInv(h, r), Step(r)
  PROVE  PairInv(h, r)'
<1>1. h \in Procs /\ r \in Procs /\ h # r
  BY DEF Healers, Resolvers, Apart
<1>2. ASSUME NEW c \in Calls, Begin(r, c) PROVE PairInv(h, r)'
  <2>1. c = "grant"
    BY <1>1, <1>2 DEF Begin, Calls, Apart, Healers
  <2>2. pc'[r] = "grant" /\ pc[r] = "idle"
        /\ UNCHANGED <<rounds, outcome, messages, file, tmp, fd>>
    BY <1>1, <1>2, <2>1 DEF Begin, Goto, shared, TypeInv, TypeOK
  <2>. QED BY <1>1, <2>2, OperatorRests DEF Writing
<1>3. pc[r] \in {"idle", "grant", "dispose", "open", "fill", "replace"} /\ ~setup.stops
  BY DEF PairInv, Roles, Writing, Apart
<1>4. ~(Heal(r) \/ EnsureGate(r) \/ Check(r) \/ Advance(r) \/ Commit(r) \/ SaveOutcome(r)
        \/ Stop(r))
  BY <1>3 DEF Heal, EnsureGate, Check, Advance, Commit, SaveOutcome, Stop
<1>. QED BY <1>1, <1>2, <1>4, OperatorGrants, OperatorDisposes, OperatorOpens, OperatorFills,
            OperatorReplaces DEF Step

LEMMA PairPost ==
  ASSUME TypeInv, NEW h \in Procs, NEW r \in Procs, PairInv(h, r), Post
  PROVE  PairInv(h, r)'
<1>1. PICK t \in Councils \cup {Item} : messages' = Append(messages, t)
  BY DEF Post
<1>2. UNCHANGED <<rounds, outcome, file, tmp, pc, call, todo, key, msg, new, fd>>
  BY DEF Post, local
<1>3. \A m, gs : Permits(messages, m, gs) => Permits(messages', m, gs)
  <2>1. messages \in Seq(Councils \cup {Item})
    BY DEF TypeInv, TypeOK
  <2>2. \A m \in DOMAIN messages : m \in DOMAIN messages' /\ messages'[m] = messages[m]
    BY <1>1, <2>1
  <2>. QED BY <2>2 DEF Permits
<1>4. Wanted' = Wanted
  BY <1>2, WantedSame
<1>5. Roles(h, r)' /\ Temporary(h, r)' /\ Lists(h, r)'
  BY <1>2, <1>4 DEF PairInv, Roles, Temporary, Lists, Readable, Satisfied
<1>6. Granting(h, r)'
  BY <1>2, <1>3 DEF PairInv, Granting, Acting, Readable
<1>7. Agent(h)'
  BY <1>2, <1>4 DEF PairInv, Agent, Readable, Satisfied
<1>. QED BY <1>5, <1>6, <1>7 DEF PairInv

InitPairShape == /\ file.state # "ok" => file.gates = << >>
                 /\ Fits(Wanted, file.gates) /\ Readable

LEMMA InitRecord == Init => InitPairShape
<1> SUFFICES ASSUME Init PROVE InitPairShape
  OBVIOUS
<1>1. CASE outcome = [c \in Councils |-> "none"] /\ file = Blank("absent")
  <2>1. Wanted = {}
    BY <1>1 DEF Wanted, Escalated, Escalations
  <2>. QED BY <1>1, <2>1, EmptyList DEF InitPairShape, Fits, Blank, Readable
<1>2. ASSUME NEW c \in Councils, NEW m \in 0..1, file = Holds(<<Legacy(c, m)>>),
             outcome = [d \in Councils |-> IF d = c THEN "operator_required" ELSE "none"]
      PROVE  InitPairShape
  <2> DEFINE gs == <<Legacy(c, m)>>
  <2>1. /\ DOMAIN gs = {1} /\ gs[1].council = c /\ gs[1].round = Keyless
        /\ gs[1].outcome = "operator_required"
    BY DEF Legacy
  <2>2. file.gates = gs /\ file.state = "ok"
    BY <1>2 DEF Holds
  <2> HIDE DEF gs
  <2>3. \A i, j \in Open(gs) : i = j
    BY <2>1 DEF Open
  <2>4. \A k \in Wanted : k.council = c /\ k.outcome = "operator_required"
    BY <1>2 DEF Wanted, KeyOf, Escalated, Escalations
  <2>5. \A k \in Wanted : ~Lacks(k, gs)
    BY <2>1, <2>4 DEF Lacks, Matches
  <2>. QED BY <2>2, <2>3, <2>5 DEF InitPairShape, Fits, Readable
<1>. QED BY <1>1, <1>2 DEF Init

LEMMA InitPair ==
  ASSUME Init, NEW h \in Procs, NEW r \in Procs
  PROVE  PairInv(h, r)
<1>1. InitPairShape
  BY InitRecord
<1>2. /\ \A p \in Procs : pc[p] = "idle" /\ call[p] = "none" /\ msg[p] = 0 /\ fd[p] = "none"
      /\ tmp.state = "absent" /\ tmp.gates = << >>
  BY DEF Init, Blank
<1>. QED BY <1>1, <1>2 DEF InitPairShape, PairInv, Roles, Temporary, Lists, Granting, Agent,
                           Acting, Writing

(* Whichever process takes a step, it is one of the two.                    *)
PairsInv == Apart => \A h \in Healers, r \in Resolvers : PairInv(h, r)

LEMMA ApartFrame ==
  ASSUME UNCHANGED setup
  PROVE  Apart' = Apart /\ Healers' = Healers /\ Resolvers' = Resolvers
BY SoloFrame DEF Apart, Sole

LEMMA PairNext == TypeInv /\ PairsInv /\ [Next]_vars => PairsInv'
<1> SUFFICES ASSUME TypeInv, PairsInv, [Next]_vars PROVE PairsInv'
  OBVIOUS
<1>0. UNCHANGED setup
  <2>1. CASE UNCHANGED vars \/ Post
    BY <2>1 DEF vars, Post
  <2>2. CASE \E p \in Procs : Step(p)
    BY <2>2, StepSetup
  <2>. QED BY <2>1, <2>2 DEF Next
<1> SUFFICES ASSUME Apart, NEW h \in Healers, NEW r \in Resolvers PROVE PairInv(h, r)'
  BY <1>0, ApartFrame DEF PairsInv
<1>1. h \in Procs /\ r \in Procs /\ PairInv(h, r)
  BY DEF Healers, Resolvers, PairsInv
<1>2. CASE UNCHANGED vars
  <2>1. UNCHANGED <<rounds, outcome, messages, file, tmp, pc, call, todo, key, msg, new, fd>>
    BY <1>2 DEF vars, shared, local
  <2>2. Wanted' = Wanted
    BY <2>1, WantedSame
  <2>3. Roles(h, r)' /\ Temporary(h, r)' /\ Lists(h, r)'
    BY <1>1, <2>1, <2>2 DEF PairInv, Roles, Temporary, Lists, Readable, Satisfied
  <2>4. Granting(h, r)' /\ Agent(h)'
    BY <1>1, <2>1, <2>2 DEF PairInv, Granting, Acting, Agent, Readable, Satisfied
  <2>. QED BY <2>3, <2>4 DEF PairInv
<1>3. CASE Post
  BY <1>1, <1>3, PairPost
<1>4. ASSUME NEW p \in Procs, Step(p) PROVE PairInv(h, r)'
  <2>1. p \in {h, r}
    <3>1. ASSUME p \notin {h, r} PROVE FALSE
      <4>1. pc[p] = "idle"
        BY <1>1, <3>1 DEF PairInv, Roles
      <4>2. PICK c \in Calls : c \in Does[p]
        BY <1>4, <4>1 DEF Step, Begin, Heal, EnsureGate, OpenTmp, FillTmp, ReplaceTmp, Check,
                          Advance, Commit, SaveOutcome, Grant, RecordDisposition, Stop
      <4>3. p \in Healers \cup Resolvers
        BY <4>2 DEF Calls, Healers, Resolvers
      <4>. QED BY <3>1, <4>3 DEF Apart, Sole
    <3>. QED BY <3>1
  <2>. QED BY <1>1, <1>4, <2>1, AgentStep, OperatorStep
<1>. QED BY <1>2, <1>3, <1>4 DEF Next

(* The gate that gets a disposition is permitted to have it.                *)
LEMMA DisposeIsPermitted ==
  ASSUME SoleAuth, PairsInv, NEW p \in Procs,
         Sole(Healers), Sole(Resolvers), setup.stops => Alone
  PROVE  pc[p] = "dispose" => msg[p] \in DOMAIN messages
           /\ \A i \in Active(file.gates) : Authorizes(msg[p], file.gates[i])
<1>1. CASE Alone
  BY <1>1 DEF SoleAuth
<1>2. CASE ~Alone
  <2>1. Apart
    <3>1. Healers \cap Resolvers = {}
      BY <1>2 DEF Alone, Sole
    <3>. QED BY <1>2, <3>1 DEF Apart
  <2>2. PICK h \in Healers, r \in Resolvers : TRUE
    <3>1. Healers = {} \/ Resolvers = {} => Alone
      BY DEF Alone, Sole
    <3>. QED BY <1>2, <3>1
  <2>3. PairInv(h, r) /\ h # r
    BY <2>1, <2>2 DEF PairsInv, Apart
  <2>4. pc[p] = "dispose" => p = r
    BY <2>3 DEF PairInv, Roles
  <2>5. pc[r] = "dispose" => Permits(messages, msg[r], file.gates)
    BY <2>3 DEF PairInv, Granting, Acting
  <2>. QED BY <2>4, <2>5 DEF Permits, Active, First, Authorizes
<1>. QED BY <1>1, <1>2

(* A gate is resolved or closed only by a message that came after it and    *)
(* names it: where commands run one at a time and may stop anywhere, and    *)
(* where the operator's grants run beside one agent's commands to their     *)
(* end.                                                                     *)
THEOREM AuthorityFollowsGate == Spec => []AuthorityAfterGate
<1> DEFINE Held == /\ Sole(Healers) /\ Sole(Resolvers)
                   /\ setup.stops => Alone
           Inv  == TypeInv /\ SoloInv /\ SoleAuth /\ PairsInv /\ (Held => AuthInv)
<1>1. Init => Inv
  <2> SUFFICES ASSUME Init PROVE Inv
    OBVIOUS
  <2>1. SoleAuth
    BY DEF Init, SoleAuth
  <2>2. PairsInv
    BY InitPair DEF PairsInv, Healers, Resolvers
  <2>. QED BY <2>1, <2>2, InitType, InitSolo, InitAuth
<1>2. Inv /\ [Next]_vars => Inv'
  <2> SUFFICES ASSUME Inv, [Next]_vars PROVE Inv'
    OBVIOUS
  <2>1. TypeInv' /\ SoloInv' /\ PairsInv'
    BY TypeStep, SoloNext, PairNext
  <2>2. CASE UNCHANGED vars
    <3>1. UNCHANGED <<setup, messages, file, tmp, pc, msg, new>>
      BY <2>2 DEF vars, shared, local
    <3>2. SoleAuth'
      BY <3>1, SoloFrame DEF SoleAuth, Authorizes, Active, First, Open
    <3>3. (Held => AuthInv)'
      BY <3>1, SoloFrame DEF Sole, AuthInv
    <3>. QED BY <2>1, <3>2, <3>3
  <2>3. CASE Post
    <3>1. SoleAuth'
      BY <2>3, SoleAuthPost
    <3>2. UNCHANGED setup
      BY <2>3 DEF Post
    <3>3. (Held => AuthInv)'
      BY <2>3, <3>2, SoloFrame, AuthPost DEF Sole
    <3>. QED BY <2>1, <3>1, <3>3
  <2>4. ASSUME NEW p \in Procs, Step(p) PROVE Inv'
    <3>1. UNCHANGED setup
      BY <2>4, StepSetup
    <3>2. SoleAuth'
      BY <2>4, <3>1, SoloFrame, SoleAuthStep DEF SoleAuth
    <3>3. Held => AuthInv'
      BY <2>4, DisposeIsPermitted, AuthStep
    <3>4. (Held => AuthInv)'
      BY <3>1, <3>3, SoloFrame DEF Sole
    <3>. QED BY <2>1, <3>2, <3>4
  <2>. QED BY <2>2, <2>3, <2>4 DEF Next
<1>3. Inv => AuthorityAfterGate
  BY DEF AuthInv, Authorized, AuthorityAfterGate
<1>. QED BY <1>1, <1>2, <1>3, PTL DEF Spec
==============================================================================
