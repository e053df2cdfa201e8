---------------------------- MODULE ServerProofs -----------------------------
(* Proofs about the server and the messages posted to it, for any requests, *)
(* processes, bounds and setups.                                            *)
EXTENDS Server, TLAPS

------------------------------------------------------------------------------
(* The invariant of the requests.                                           *)

HasKey(h) == \E r \in req[h] : r.key # NoKey

(* h is between its look for the key and the end of what it does under the  *)
(* lock.                                                                    *)
Inside(h) == \/ hpc[h] \in {"look", "unlock"}
             \/ hpc[h] \in {"create", "fill"} /\ HasKey(h)

MessageTypes ==
  /\ store \in [Names -> {Absent, Torn} \cup {Full(r) : r \in Requests}]
  /\ mutex \in BOOLEAN
  /\ hpc \in [Handlers -> {"idle", "lock", "look", "create", "fill", "unlock", "reply"}]
  /\ req \in [Handlers -> SUBSET Requests]
  /\ stamp \in [Handlers -> SUBSET Ids]
  /\ file \in [Handlers -> SUBSET Names]
  /\ says \in [Handlers -> [what : {"nothing", "refused", "posted", "repeated", "conflict"},
                            of : SUBSET Names]]

(* A request has an answer only when it has done its work.                  *)
ProgressInv ==
  \A h \in Handlers :
    /\ hpc[h] = "idle" => req[h] = {}
    /\ hpc[h] # "idle" => \E r \in Requests : req[h] = {r}
    /\ hpc[h] \in {"idle", "lock", "look", "create", "fill"} => says[h] = Nothing
    /\ hpc[h] \in {"lock", "look"} => HasKey(h)

(* The lock excludes, as long as nobody goes on without it.                 *)
LockInv == /\ \A h \in Handlers : Inside(h) => mutex
           /\ \A g, h \in Handlers : Inside(g) /\ Inside(h) => g = h

(* A file that is being filled is its handler's own.                        *)
FillInv == /\ \A h \in Handlers : hpc[h] = "fill" =>
                \E n \in Names : file[h] = {n} /\ store[n] = Torn
           /\ \A g, h \in Handlers : hpc[g] = "fill" /\ hpc[h] = "fill" /\ g # h =>
                file[g] \cap file[h] = {}

(* What a look for the key has found out stays true until the lock is gone. *)
KeyInv == \A h \in Handlers : hpc[h] \in {"create", "fill"} /\ HasKey(h) => Found(h) = {}

MessageInv == MessageTypes /\ ProgressInv /\ LockInv /\ FillInv /\ KeyInv

------------------------------------------------------------------------------
(* What the steps do to the messages that are read.                         *)

LEMMA FilesDiffer == Absent # Torn /\ \A r : Full(r) # Absent /\ Full(r) # Torn
BY DEF Absent, Torn, Full

LEMMA NothingPosted ==
  ASSUME NEW n \in Names, store[n] = Torn \/ store[n] = Absent
  PROVE  \A m \in Posted : m.name # n
BY DEF Posted, Torn, Absent

LEMMA PostedSame ==
  ASSUME UNCHANGED store
  PROVE  Posted' = Posted
BY DEF Posted

LEMMA PostedTorn ==
  ASSUME MessageTypes, NEW n \in Names, store[n] = Absent,
         store' = [store EXCEPT ![n] = Torn]
  PROVE  Posted' = Posted
<1> DEFINE M == [name : Names, key : Keys \cup {NoKey}, text : Texts]
<1>1. \A m \in M : store'[m.name].with = store[m.name].with
  <2> TAKE m \in M
  <2>1. m.name \in Names
    OBVIOUS
  <2>2. store'[n].with = {} /\ store[n].with = {}
    BY DEF MessageTypes, Absent, Torn
  <2>3. CASE m.name = n
    BY <2>2, <2>3
  <2>4. CASE m.name # n
    BY <2>1, <2>4 DEF MessageTypes
  <2> QED BY <2>3, <2>4
<1> QED BY <1>1 DEF Posted

LEMMA PostedFull ==
  ASSUME MessageTypes, NEW n \in Names, NEW r \in Requests, store[n] = Torn,
         store' = [store EXCEPT ![n] = Full(r)]
  PROVE  Posted' = Posted \cup {[name |-> n, key |-> r.key, text |-> r.text]}
<1> DEFINE M == [name : Names, key : Keys \cup {NoKey}, text : Texts]
           new == [name |-> n, key |-> r.key, text |-> r.text]
<1>1. new \in M
  BY DEF Requests
<1>2. store'[n].with = {r} /\ store[n].with = {}
  BY DEF MessageTypes, Torn, Full
<1>3. \A m \in M : m.name # n => store'[m.name] = store[m.name]
  BY DEF MessageTypes
<1>4. \A m \in M : m.name = n => ([key |-> m.key, text |-> m.text] = r <=> m = new)
  BY DEF Requests
<1>5. ASSUME NEW m \in M
      PROVE  [key |-> m.key, text |-> m.text] \in store'[m.name].with <=>
               \/ [key |-> m.key, text |-> m.text] \in store[m.name].with
               \/ m = new
  <2>1. CASE m.name = n
    BY <1>2, <1>4, <2>1
  <2>2. CASE m.name # n
    BY <1>3, <2>2
  <2> QED BY <2>1, <2>2
<1> HIDE DEF new, M
<1>6. /\ Posted = {m \in M : [key |-> m.key, text |-> m.text] \in store[m.name].with}
      /\ Posted' = {m \in M : [key |-> m.key, text |-> m.text] \in store'[m.name].with}
  BY DEF Posted, M
<1> QED BY <1>1, <1>5, <1>6 DEF new
------------------------------------------------------------------------------
(* Every step of a request keeps the invariant.                             *)

Labels  == {"idle", "lock", "look", "create", "fill", "unlock", "reply"}
SayType == [what : {"nothing", "refused", "posted", "repeated", "conflict"}, of : SUBSET Names]

LEMMA Moves ==
  ASSUME MessageTypes, NEW h \in Handlers, NEW l \in Labels, Move(h, l)
  PROVE  /\ hpc' \in [Handlers -> Labels]
         /\ hpc'[h] = l
         /\ \A g \in Handlers : g # h => hpc'[g] = hpc[g]
BY DEF MessageTypes, Move, Labels

(* A request that is not at work on a file or done stays as it is.          *)
LEMMA SameRequest ==
  ASSUME NEW g \in Handlers, req'[g] = req[g]
  PROVE  /\ HasKey(g)' <=> HasKey(g)
         /\ Posted' = Posted => Found(g)' = Found(g)
         /\ hpc'[g] = hpc[g] => (Inside(g)' <=> Inside(g))
BY DEF HasKey, Found, Inside

(* A step of h that changes neither files nor requests.                     *)
LEMMA QuietStep ==
  ASSUME MessageInv, NEW h \in Handlers, hpc[h] # "idle",
         NEW l \in Labels \ {"idle", "fill"}, Move(h, l),
         UNCHANGED <<store, req, stamp, file>>,
         mutex' \in BOOLEAN, says' \in [Handlers -> SayType],
         \A g \in Handlers : g # h => says'[g] = says[g],
         l \in {"lock", "look", "create"} => says'[h] = Nothing,
         l \in {"lock", "look"} => HasKey(h),
         l = "create" => Found(h) = {}
  PROVE  MessageTypes' /\ ProgressInv' /\ FillInv' /\ KeyInv'
<1> USE DEF MessageInv
<1>1. /\ hpc' \in [Handlers -> Labels] /\ hpc'[h] = l
      /\ \A g \in Handlers : g # h => hpc'[g] = hpc[g]
  BY Moves
<1>2. \A g \in Handlers : (HasKey(g)' <=> HasKey(g)) /\ Found(g)' = Found(g)
  BY SameRequest, PostedSame
<1>3. MessageTypes'
  BY <1>1 DEF MessageTypes, Labels, SayType
<1>4. ProgressInv'
  BY <1>1, <1>2 DEF ProgressInv, Labels
<1>5. FillInv'
  BY <1>1 DEF FillInv
<1>6. KeyInv'
  BY <1>1, <1>2 DEF KeyInv
<1> QED BY <1>3, <1>4, <1>5, <1>6
(* Who goes in finds the lock free; who unlocks was the only one inside.    *)
LEMMA LockStep ==
  ASSUME LockInv, NEW h \in Handlers,
         \A g \in Handlers : g # h => (Inside(g)' => Inside(g)),
         \/ mutex' = mutex /\ (Inside(h)' => Inside(h))
         \/ ~mutex /\ mutex'
         \/ Inside(h) /\ ~Inside(h)'
  PROVE  LockInv'
BY DEF LockInv

LEMMA LockKeeps ==
  ASSUME MessageInv, NEW h \in Handlers, Lock(h)
  PROVE  MessageInv'
<1>1. hpc[h] = "lock" /\ HasKey(h) /\ says[h] = Nothing
  BY DEF MessageInv, ProgressInv, Lock
<1>2. MessageTypes' /\ ProgressInv' /\ FillInv' /\ KeyInv'
  BY <1>1, QuietStep DEF Lock, MessageInv, MessageTypes, Labels, SayType
<1>3. \A g \in Handlers : g # h => (Inside(g)' => Inside(g))
  BY SameRequest, Moves DEF Lock, MessageInv, Labels
<1>4. LockInv'
  BY <1>3, LockStep DEF Lock, MessageInv
<1> QED BY <1>2, <1>4 DEF MessageInv

LEMMA ExpireKeeps ==
  ASSUME MessageInv, NEW h \in Handlers, Expire(h)
  PROVE  MessageInv'
<1>1. /\ says' \in [Handlers -> SayType]
      /\ \A g \in Handlers : g # h => says'[g] = says[g]
  BY DEF Expire, Says, MessageInv, MessageTypes, SayType
<1>2. MessageTypes' /\ ProgressInv' /\ FillInv' /\ KeyInv'
  BY <1>1, QuietStep DEF Expire, MessageInv, MessageTypes, Labels
<1>3. hpc'[h] = "reply" /\ \A g \in Handlers : g # h => (Inside(g)' => Inside(g))
  BY SameRequest, Moves DEF Expire, MessageInv, Labels
<1>4. LockInv'
  BY <1>3, LockStep DEF Expire, MessageInv, Inside
<1> QED BY <1>2, <1>4 DEF MessageInv

LEMMA LookKeeps ==
  ASSUME MessageInv, NEW h \in Handlers, Look(h)
  PROVE  MessageInv'
<1>1. hpc[h] = "look" /\ HasKey(h) /\ says[h] = Nothing /\ Inside(h)
  BY DEF MessageInv, ProgressInv, Look, Inside
<1>2. \A m \in Posted : m.name \in Names
  BY DEF Posted
<1>3. /\ says' \in [Handlers -> SayType]
      /\ \A g \in Handlers : g # h => says'[g] = says[g]
  <2>1. CASE UNCHANGED says
    BY <2>1 DEF MessageInv, MessageTypes, SayType
  <2>2. CASE \E m \in Found(h), r \in req[h] :
               Says(h, IF m.text = r.text THEN "repeated" ELSE "conflict", {m.name})
    BY <1>2, <2>2 DEF Found, Says, MessageInv, MessageTypes, SayType
  <2> QED BY <2>1, <2>2 DEF Look
<1> DEFINE Rest == MessageTypes' /\ ProgressInv' /\ FillInv' /\ KeyInv'
<1>4. hpc[h] # "idle" /\ mutex' \in BOOLEAN /\ UNCHANGED <<store, req, stamp, file>>
  BY DEF Look, MessageInv, MessageTypes
<1>5. {"create", "unlock"} \subseteq Labels \ {"idle", "fill"}
  BY DEF Labels
<1>6. ASSUME Found(h) = {} /\ Move(h, "create") /\ UNCHANGED says PROVE Rest
  <2>1. says'[h] = Nothing
    BY <1>1, <1>6
  <2> QED BY <1>1, <1>3, <1>6, <1>4, <1>5, <2>1, QuietStep
<1>7. ASSUME Move(h, "unlock") PROVE Rest
  BY <1>3, <1>7, <1>4, <1>5, QuietStep
<1>8. \A g \in Handlers : g # h => (Inside(g)' => Inside(g))
  BY SameRequest, Moves DEF Look, MessageInv, Labels
<1>9. LockInv'
  BY <1>1, <1>8, LockStep DEF Look, MessageInv
<1> QED BY <1>6, <1>7, <1>9 DEF MessageInv, Look

LEMMA RefusedKeeps ==
  ASSUME MessageInv, NEW h \in Handlers, Refused(h)
  PROVE  MessageInv'
<1>1. /\ says' \in [Handlers -> SayType]
      /\ \A g \in Handlers : g # h => says'[g] = says[g]
  BY DEF Refused, Says, MessageInv, MessageTypes, SayType
<1>2. After(h) \in Labels \ {"idle", "fill", "lock", "look", "create"}
  BY DEF After, Labels
<1>3. MessageTypes' /\ ProgressInv' /\ FillInv' /\ KeyInv'
  BY <1>1, <1>2, QuietStep DEF Refused, MessageInv, MessageTypes
<1>4. hpc'[h] = After(h) /\ \A g \in Handlers : g # h => (Inside(g)' => Inside(g))
  BY <1>2, SameRequest, Moves DEF Refused, MessageInv
<1>5. Inside(h)' => Inside(h)
  BY <1>4 DEF Inside, HasKey, After, Refused
<1>6. LockInv'
  BY <1>4, <1>5, LockStep DEF Refused, MessageInv
<1> QED BY <1>3, <1>6 DEF MessageInv

LEMMA UnlockKeeps ==
  ASSUME MessageInv, NEW h \in Handlers, Unlock(h)
  PROVE  MessageInv'
<1>1. MessageTypes' /\ ProgressInv' /\ FillInv' /\ KeyInv'
  BY QuietStep DEF Unlock, MessageInv, MessageTypes, Labels, SayType
<1>2. hpc'[h] = "reply" /\ \A g \in Handlers : g # h => (Inside(g)' => Inside(g))
  BY SameRequest, Moves DEF Unlock, MessageInv, Labels
<1>3. Inside(h) /\ ~Inside(h)'
  BY <1>2 DEF Unlock, Inside
<1>4. LockInv'
  BY <1>2, <1>3, LockStep DEF MessageInv
<1> QED BY <1>1, <1>4 DEF MessageInv
LEMMA ReceiveKeeps ==
  ASSUME MessageInv, NEW h \in Handlers, NEW r \in Requests, NEW i \in Ids, Receive(h, r, i)
  PROVE  MessageInv'
<1> DEFINE l == IF r.key = NoKey THEN "create" ELSE "lock"
<1> USE DEF MessageInv
<1>1. hpc[h] = "idle" /\ says[h] = Nothing
  BY DEF Receive, Busy, ProgressInv
<1>2. /\ hpc' \in [Handlers -> Labels] /\ hpc'[h] = l
      /\ \A g \in Handlers : g # h => hpc'[g] = hpc[g]
  BY Moves DEF Receive, Labels
<1>3. /\ req' \in [Handlers -> SUBSET Requests] /\ req'[h] = {r}
      /\ \A g \in Handlers : g # h => req'[g] = req[g]
      /\ stamp' \in [Handlers -> SUBSET Ids]
      /\ UNCHANGED <<store, mutex, file, says>>
  BY DEF Receive, MessageTypes
<1>4. \A g \in Handlers : g # h => /\ HasKey(g)' <=> HasKey(g)
                                   /\ Found(g)' = Found(g)
                                   /\ Inside(g)' <=> Inside(g)
  BY <1>2, <1>3, SameRequest, PostedSame
<1>5. (HasKey(h)' <=> r.key # NoKey) /\ ~Inside(h)'
  BY <1>2, <1>3 DEF HasKey, Inside
<1>6. MessageTypes'
  BY <1>2, <1>3 DEF MessageTypes, Labels
<1>7. ProgressInv'
  BY <1>1, <1>2, <1>3, <1>4, <1>5 DEF ProgressInv
<1>8. LockInv'
  BY <1>3, <1>4, <1>5, LockStep
<1>9. FillInv'
  BY <1>2, <1>3 DEF FillInv
<1>10. KeyInv'
  BY <1>2, <1>4, <1>5 DEF KeyInv
<1> QED BY <1>6, <1>7, <1>8, <1>9, <1>10

LEMMA CreateKeeps ==
  ASSUME MessageInv, NEW h \in Handlers, Create(h)
  PROVE  MessageInv' /\ Posted' = Posted
<1> USE DEF MessageInv
<1>1. PICK n \in Names : /\ store[n] = Absent
                         /\ store' = [store EXCEPT ![n] = Torn]
                         /\ file' = [file EXCEPT ![h] = {n}]
  BY DEF Create, MessageTypes, Names
<1>2. Posted' = Posted
  BY <1>1, PostedTorn
<1>3. /\ hpc' \in [Handlers -> Labels] /\ hpc'[h] = "fill" /\ hpc[h] = "create"
      /\ \A g \in Handlers : g # h => hpc'[g] = hpc[g]
  BY Moves DEF Create, Labels
<1>4. UNCHANGED <<mutex, req, stamp, says>>
  BY DEF Create
<1>5. \A g \in Handlers : (HasKey(g)' <=> HasKey(g)) /\ Found(g)' = Found(g)
  BY <1>2, <1>4, SameRequest
<1>6. MessageTypes'
  BY <1>1, <1>3, <1>4 DEF MessageTypes, Labels
<1>7. ProgressInv'
  BY <1>3, <1>4, <1>5 DEF ProgressInv
<1>8. \A g \in Handlers : Inside(g)' => Inside(g)
  BY <1>3, <1>5 DEF Inside
<1>9. LockInv'
  BY <1>4, <1>8, LockStep
<1>10. \A m \in Names : store[m] = Torn => m # n /\ store'[m] = Torn
  BY <1>1, FilesDiffer DEF MessageTypes
<1>11. FillInv'
  <2>1. file'[h] = {n} /\ store'[n] = Torn
    BY <1>1 DEF MessageTypes
  <2>2. \A g \in Handlers : g # h => file'[g] = file[g]
    BY <1>1 DEF MessageTypes
  <2> QED BY <1>3, <1>10, <2>1, <2>2 DEF FillInv
<1>12. KeyInv'
  BY <1>3, <1>5 DEF KeyInv
<1> QED BY <1>2, <1>6, <1>7, <1>9, <1>11, <1>12

(* The file of h is full, or stays torn.                                    *)
LEMMA FilledKeeps ==
  ASSUME MessageInv, NEW h \in Handlers, hpc[h] = "fill",
         \/ UNCHANGED store
         \/ \E n \in file[h], r \in req[h] : store' = [store EXCEPT ![n] = Full(r)],
         NEW w \in SayType, says' = [says EXCEPT ![h] = w],
         Move(h, After(h)), UNCHANGED <<mutex, req, stamp, file>>
  PROVE  MessageInv'
<1> USE DEF MessageInv
<1>1. PICK n \in Names, r \in Requests :
        file[h] = {n} /\ store[n] = Torn /\ req[h] = {r}
  BY DEF FillInv, ProgressInv
<1>2. /\ hpc' \in [Handlers -> Labels]
      /\ hpc'[h] = IF HasKey(h) THEN "unlock" ELSE "reply"
      /\ \A g \in Handlers : g # h => hpc'[g] = hpc[g]
  BY Moves DEF After, HasKey, Labels
<1>3. \A g \in Handlers : HasKey(g)' <=> HasKey(g)
  BY SameRequest
<1>4. MessageTypes'
  <2>1. store' \in [Names -> {Absent, Torn} \cup {Full(x) : x \in Requests}]
    BY <1>1 DEF MessageTypes
  <2> QED BY <1>2, <2>1 DEF MessageTypes, Labels, SayType
<1>5. ProgressInv'
  BY <1>2, <1>3 DEF ProgressInv, MessageTypes
<1>6. \A g \in Handlers : Inside(g)' => Inside(g)
  BY <1>2, <1>3 DEF Inside
<1>7. LockInv'
  BY <1>6, LockStep
<1>8. \A m \in Names : m # n => store'[m] = store[m]
  BY <1>1 DEF MessageTypes
<1>9. FillInv'
  BY <1>1, <1>2, <1>8 DEF FillInv
<1>10. ASSUME NEW g \in Handlers, hpc'[g] \in {"create", "fill"}, HasKey(g)'
       PROVE  Found(g)' = {}
  <2>1. g # h /\ hpc'[g] = hpc[g] /\ HasKey(g) /\ Found(g) = {} /\ Inside(g)
    BY <1>2, <1>3, <1>10 DEF KeyInv, Inside
  <2>2. ~Inside(h)
    BY <2>1 DEF LockInv
  <2>3. r.key = NoKey
    BY <1>1, <2>2 DEF Inside, HasKey
  <2>4. PICK x \in Requests : req[g] = {x} /\ x.key # NoKey
    BY <2>1 DEF ProgressInv, HasKey
  <2>5. Posted' = Posted \/ Posted' = Posted \cup {[name |-> n, key |-> r.key, text |-> r.text]}
    BY <1>1, PostedSame, PostedFull
  <2> QED BY <2>1, <2>3, <2>4, <2>5 DEF Found
<1>11. KeyInv'
  BY <1>10 DEF KeyInv
<1> QED BY <1>4, <1>5, <1>7, <1>9, <1>11

LEMMA FillKeeps ==
  ASSUME MessageInv, NEW h \in Handlers, Fill(h)
  PROVE  MessageInv'
<1>1. [what |-> "posted", of |-> file[h]] \in SayType
  BY DEF MessageInv, MessageTypes, SayType
<1> QED BY <1>1, FilledKeeps DEF Fill, Says

LEMMA FillFailsKeeps ==
  ASSUME MessageInv, NEW h \in Handlers, FillFails(h)
  PROVE  MessageInv'
<1>1. [what |-> "refused", of |-> {}] \in SayType
  BY DEF SayType
<1> QED BY <1>1, FilledKeeps DEF FillFails, Says

(* Requests are over, wherever they were; the lock may stay.                *)
LEMMA ForgetKeeps ==
  ASSUME MessageInv, NEW H \in SUBSET Handlers, Forget(H), UNCHANGED <<store, mutex>>
  PROVE  MessageInv'
<1> USE DEF MessageInv
<1>1. /\ hpc' = [h \in Handlers |-> IF h \in H THEN "idle" ELSE hpc[h]]
      /\ req' = [h \in Handlers |-> IF h \in H THEN {} ELSE req[h]]
      /\ stamp' = [h \in Handlers |-> IF h \in H THEN {} ELSE stamp[h]]
      /\ file' = [h \in Handlers |-> IF h \in H THEN {} ELSE file[h]]
      /\ says' = [h \in Handlers |-> IF h \in H THEN Nothing ELSE says[h]]
  BY DEF Forget
<1>2. \A g \in Handlers \ H : /\ HasKey(g)' <=> HasKey(g)
                              /\ Found(g)' = Found(g)
                              /\ Inside(g)' <=> Inside(g)
  BY <1>1, SameRequest, PostedSame
<1>3. \A g \in H : hpc'[g] = "idle" /\ ~Inside(g)'
  BY <1>1 DEF Inside
<1>4. MessageTypes'
  BY <1>1 DEF MessageTypes, Nothing
<1>5. ProgressInv'
  BY <1>1, <1>2 DEF ProgressInv
<1>6. LockInv'
  BY <1>2, <1>3 DEF LockInv
<1>7. FillInv'
  BY <1>1 DEF FillInv
<1>8. KeyInv'
  BY <1>1, <1>2 DEF KeyInv
<1> QED BY <1>4, <1>5, <1>6, <1>7, <1>8

LEMMA ReplyKeeps ==
  ASSUME MessageInv, NEW h \in Handlers, Reply(h)
  PROVE  MessageInv'
BY ForgetKeeps DEF Reply

LEMMA HandleKeeps ==
  ASSUME MessageInv, NEW h \in Handlers, Handle(h)
  PROVE  MessageInv'
BY LockKeeps, ExpireKeeps, LookKeeps, RefusedKeeps, CreateKeeps, FillKeeps, FillFailsKeeps,
   UnlockKeeps, ReplyKeeps DEF Handle
------------------------------------------------------------------------------
(* Every step of a request is one of the board, or none.                    *)

Implemented == TheBoard!Next \/ UNCHANGED <<Posted, req, says>>

LEMMA QuietImplements ==
  ASSUME UNCHANGED <<store, req, says>>
  PROVE  Implemented
BY PostedSame DEF Implemented

LEMMA ReceiveImplements ==
  ASSUME MessageInv, NEW h \in Handlers, NEW r \in Requests, NEW i \in Ids, Receive(h, r, i)
  PROVE  Implemented
<1>1. req[h] = {} /\ Posted' = Posted
  BY PostedSame DEF MessageInv, ProgressInv, Receive, Busy
<1>2. TheBoard!Ask(h, r)
  BY <1>1 DEF TheBoard!Ask, Receive
<1> QED BY <1>2 DEF Implemented, TheBoard!Next

LEMMA RefusesImplements ==
  ASSUME MessageInv, NEW h \in Handlers, Expire(h) \/ Refused(h)
  PROVE  Implemented
<1>1. req[h] # {} /\ says[h] = Nothing /\ Posted' = Posted
  BY PostedSame DEF MessageInv, ProgressInv, Expire, Refused
<1>2. TheBoard!Refuse(h)
  BY <1>1 DEF TheBoard!Refuse, TheBoard!Waits, TheBoard!Nothing, TheBoard!Says,
              Nothing, Says, Expire, Refused
<1> QED BY <1>2 DEF Implemented, TheBoard!Next

LEMMA LookImplements ==
  ASSUME MessageInv, NEW h \in Handlers, Look(h)
  PROVE  Implemented
<1>1. Posted' = Posted /\ UNCHANGED req
  BY PostedSame DEF Look
<1>2. CASE UNCHANGED says
  BY <1>1, <1>2 DEF Implemented
<1>3. CASE \E m \in Found(h), r \in req[h] :
             Says(h, IF m.text = r.text THEN "repeated" ELSE "conflict", {m.name})
  <2>1. PICK m \in Found(h), r \in req[h] :
          Says(h, IF m.text = r.text THEN "repeated" ELSE "conflict", {m.name})
    BY <1>3
  <2>2. m \in TheBoard!Keyed(r.key) /\ says[h] = Nothing
    BY DEF Found, TheBoard!Keyed, MessageInv, ProgressInv, HasKey, Look
  <2>3. CASE m.text = r.text
    <3>1. TheBoard!Repeat(h)
      BY <1>1, <2>1, <2>2, <2>3
         DEF TheBoard!Repeat, TheBoard!Waits, TheBoard!Nothing, TheBoard!Says, Nothing, Says
    <3> QED BY <3>1 DEF Implemented, TheBoard!Next
  <2>4. CASE m.text # r.text
    <3>1. TheBoard!Conflict(h)
      BY <1>1, <2>1, <2>2, <2>4
         DEF TheBoard!Conflict, TheBoard!Waits, TheBoard!Nothing, TheBoard!Says, Nothing, Says
    <3> QED BY <3>1 DEF Implemented, TheBoard!Next
  <2> QED BY <2>3, <2>4
<1> QED BY <1>2, <1>3 DEF Look

LEMMA CreateImplements ==
  ASSUME MessageInv, NEW h \in Handlers, Create(h)
  PROVE  Implemented
BY CreateKeeps DEF Create, Implemented

(* The message appears when its file is full, whatever is answered.         *)
LEMMA FilledImplements ==
  ASSUME MessageInv, NEW h \in Handlers, Fill(h) \/ FillFails(h)
  PROVE  Implemented
<1> USE DEF MessageInv
<1>1. PICK n \in Names, r \in Requests :
        file[h] = {n} /\ store[n] = Torn /\ req[h] = {r}
  BY DEF FillInv, ProgressInv, Fill, FillFails
<1>2. says[h] = Nothing /\ UNCHANGED req
  BY DEF ProgressInv, Fill, FillFails
<1>3. CASE store' = [store EXCEPT ![n] = Full(r)]
  <2>1. Posted' = Posted \cup {[name |-> n, key |-> r.key, text |-> r.text]}
    BY <1>1, <1>3, PostedFull
  <2>2. n \notin {b.name : b \in Posted}
    BY <1>1, NothingPosted
  <2>3. TheBoard!Keyed(r.key) = {}
    <3>1. CASE r.key = NoKey
      BY <3>1 DEF TheBoard!Keyed
    <3>2. CASE r.key # NoKey
      <4>1. Found(h) = {}
        BY <1>1, <3>2 DEF KeyInv, HasKey, Fill, FillFails
      <4> QED BY <1>1, <4>1 DEF TheBoard!Keyed, Found
    <3> QED BY <3>1, <3>2
  <2>4. TheBoard!Says(h, "posted", {n}) \/ TheBoard!Says(h, "refused", {})
    BY <1>1 DEF TheBoard!Says, Says, Fill, FillFails
  <2>5. TheBoard!Post(h, n)
    BY <1>1, <1>2, <2>1, <2>2, <2>3, <2>4
       DEF TheBoard!Post, TheBoard!Waits, TheBoard!Nothing, Nothing
  <2> QED BY <2>5 DEF Implemented, TheBoard!Next
<1>4. CASE UNCHANGED store /\ FillFails(h)
  <2>1. TheBoard!Refuse(h)
    BY <1>1, <1>2, <1>4, PostedSame DEF TheBoard!Refuse, TheBoard!Waits, TheBoard!Nothing,
       TheBoard!Says, Nothing, Says, FillFails
  <2> QED BY <2>1 DEF Implemented, TheBoard!Next
<1> QED BY <1>1, <1>3, <1>4 DEF Fill, FillFails

LEMMA ForgetImplements ==
  ASSUME MessageInv, NEW H \in SUBSET Handlers, Forget(H), UNCHANGED store
  PROVE  Implemented
<1>1. TheBoard!Leave(H)
  BY PostedSame DEF TheBoard!Leave, TheBoard!Nothing, Nothing, Forget
<1> QED BY <1>1 DEF Implemented, TheBoard!Next

LEMMA HandleImplements ==
  ASSUME MessageInv, NEW h \in Handlers, Handle(h)
  PROVE  Implemented
<1>1. CASE Lock(h) \/ Unlock(h)
  BY <1>1, QuietImplements DEF Lock, Unlock
<1>2. CASE Reply(h)
  BY <1>2, ForgetImplements DEF Reply
<1> QED BY <1>1, <1>2, RefusesImplements, LookImplements, CreateImplements, FilledImplements
        DEF Handle
------------------------------------------------------------------------------
(* The invariant of the servers.                                            *)

Places == {"new", "take", "clear", "bind", "ready", "serving", "closing", "sweep",
           "release", "ended"}
Stops  == [who : Procs, exact : BOOLEAN] \cup {NoStop}

ServerTypes == /\ setup \in Setups
               /\ pc \in [Procs -> Places]
               /\ instance \in Procs \cup {Free}
               /\ sentinel \in Stops /\ target \in Stops
               /\ asked \subseteq Procs

(* A request is under way in one process, which lives.                      *)
PlaceInv == /\ on \in [Handlers -> SUBSET Procs]
            /\ \A h \in Handlers : /\ req[h] \subseteq setup.requests
                                   /\ hpc[h] = "idle" => on[h] = {}
                                   /\ hpc[h] # "idle" => \E p \in Procs : on[h] = {p} /\ Alive(p)

(* Where starts do not overlap one process lives, and it has the lock as    *)
(* soon as it has taken it.                                                 *)
HolderInv == \/ setup.together
             \/ /\ \A p, q \in Procs : Alive(p) /\ Alive(q) => p = q
                /\ \A p \in Procs : Alive(p) /\ pc[p] # "take" => instance = p

(* Whom a sentinel names, or is about to, somebody has asked to stop.       *)
AskedInv == \A s \in {sentinel, target} : s # NoStop => s.who \in asked

ServerInv == MessageInv /\ ServerTypes /\ PlaceInv /\ HolderInv /\ AskedInv

LEMMA SetupRequests ==
  ASSUME setup \in Setups
  PROVE  setup.requests \subseteq Requests
BY ServerAssumption

(* A step from one place to another.                                        *)
LEMMA Goes ==
  ASSUME ServerTypes, NEW p \in Procs, NEW l \in Places, Goto(p, l)
  PROVE  /\ pc' \in [Procs -> Places]
         /\ pc'[p] = l
         /\ \A q \in Procs : q # p => pc'[q] = pc[q] /\ (Alive(q)' <=> Alive(q))
         /\ Alive(p)' <=> l \notin {"new", "ended"}
BY DEF ServerTypes, Goto, Alive, Places

LEMMA MessagesStay ==
  ASSUME MessageInv, UNCHANGED messageVars
  PROVE  MessageInv'
<1>1. \A h \in Handlers : /\ HasKey(h)' <=> HasKey(h)
                          /\ Found(h)' = Found(h)
                          /\ Inside(h)' <=> Inside(h)
  BY SameRequest, PostedSame DEF messageVars
<1>2. MessageTypes' /\ ProgressInv' /\ LockInv' /\ FillInv' /\ KeyInv'
  BY <1>1 DEF MessageInv, MessageTypes, ProgressInv, LockInv, FillInv, KeyInv, messageVars
<1> QED BY <1>2 DEF MessageInv

(* What a request does is its own.                                          *)
LEMMA HandleLocal ==
  ASSUME MessageTypes, NEW h \in Handlers, Handle(h)
  PROVE  /\ hpc[h] # "idle"
         /\ \A g \in Handlers : g # h => hpc'[g] = hpc[g]
         /\ \A g \in Handlers : req'[g] \subseteq req[g]
<1>1. CASE Reply(h)
  BY <1>1 DEF Reply, Forget, MessageTypes
<1>2. ASSUME NEW l \in Labels, Move(h, l)
      PROVE  \A g \in Handlers : g # h => hpc'[g] = hpc[g]
  BY <1>2, Moves
<1>3. After(h) \in Labels /\ {"look", "reply", "create", "unlock", "fill"} \subseteq Labels
  BY DEF After, Labels
<1>4. CASE Lock(h) \/ Expire(h) \/ Look(h) \/ Create(h) \/ Unlock(h)
  BY <1>2, <1>3, <1>4 DEF Lock, Expire, Look, Create, Unlock
<1>5. CASE Refused(h) \/ Fill(h) \/ FillFails(h)
  BY <1>2, <1>3, <1>5 DEF Refused, Fill, FillFails
<1> QED BY <1>1, <1>4, <1>5 DEF Handle

------------------------------------------------------------------------------
(* Every step keeps the types.                                              *)
LEMMA ServerTypesStep ==
  ASSUME ServerTypes, Next
  PROVE  ServerTypes'
<1> USE DEF ServerTypes, Stops
<1>1. ASSUME NEW p \in Procs, Inspect(p) PROVE ServerTypes'
  BY <1>1, Goes DEF Inspect, Places
<1>2. ASSUME NEW p \in Procs, Take(p) \/ ClearStale(p) \/ Bind(p) PROVE ServerTypes'
  BY <1>2, Goes DEF Take, ClearStale, Bind, Places
<1>3. ASSUME NEW p \in Procs, StartFails(p) \/ Serve(p) \/ Close(p) PROVE ServerTypes'
  BY <1>3, Goes DEF StartFails, Serve, Close, Places
<1>4. ASSUME NEW p \in Procs, Watch(p) PROVE ServerTypes'
  BY <1>4, Goes DEF Watch, Places
<1>5. ASSUME NEW p \in Procs, Sweep(p) \/ Interrupt(p) PROVE ServerTypes'
  BY <1>5, Goes DEF Sweep, Interrupt, Places
<1>6. ASSUME NEW p \in Procs, Release(p) \/ Crash(p) PROVE ServerTypes'
  BY <1>6, Goes DEF Release, Crash, Ends, Places
<1>7. ASSUME NEW p \in Procs, HelperKills(p) PROVE ServerTypes'
  BY <1>7, Goes DEF HelperKills, Ends, Places
<1>8. ASSUME NEW p \in Procs, HelperLooks(p) PROVE ServerTypes'
  BY <1>8 DEF HelperLooks
<1>9. CASE HelperWrites
  BY <1>9 DEF HelperWrites
<1>10. ASSUME NEW p \in Procs, NEW h \in Handlers, NEW r \in Requests, NEW i \in Ids,
              Accept(p, h, r, i)
       PROVE  ServerTypes'
  BY <1>10 DEF Accept
<1>11. ASSUME NEW h \in Handlers, Handling(h) PROVE ServerTypes'
  BY <1>11 DEF Handling
<1> QED BY <1>1, <1>2, <1>3, <1>4, <1>5, <1>6, <1>7, <1>8, <1>9, <1>10, <1>11 DEF Next, Run
------------------------------------------------------------------------------
(* Four kinds of steps, as the requests see them: none of theirs, the end   *)
(* of their process, a new request, and one of their own.                   *)
Quiet == /\ UNCHANGED <<messageVars, on>>
         /\ \A p \in Procs : Alive(p) => Alive(p)'

LEMMA StepKinds ==
  ASSUME ServerTypes, Next
  PROVE  \/ Quiet
         \/ \E p \in Procs : Ends(p)
         \/ \E p \in Procs, h \in Handlers, r \in Requests, i \in Ids : Accept(p, h, r, i)
         \/ \E h \in Handlers : Handling(h)
<1>1. ASSUME NEW p \in Procs, Inspect(p) PROVE Quiet
  BY <1>1, Goes DEF Inspect, MayStart, Alive, Quiet, Places
<1>2. ASSUME NEW p \in Procs, Take(p) \/ ClearStale(p) \/ Bind(p) PROVE Quiet
  BY <1>2, Goes DEF Take, ClearStale, Bind, Quiet, Places
<1>3. ASSUME NEW p \in Procs, StartFails(p) \/ Serve(p) \/ Close(p) PROVE Quiet
  BY <1>3, Goes DEF StartFails, Serve, Close, Quiet, Places
<1>4. ASSUME NEW p \in Procs, Watch(p) PROVE Quiet
  BY <1>4, Goes DEF Watch, Quiet, Places, Alive
<1>5. ASSUME NEW p \in Procs, Sweep(p) \/ Interrupt(p) PROVE Quiet
  BY <1>5, Goes DEF Sweep, Interrupt, Quiet, Places
<1>6. ASSUME NEW p \in Procs, Release(p) \/ Crash(p) \/ HelperKills(p) PROVE Ends(p)
  BY <1>6 DEF Release, Crash, HelperKills
<1>7. ASSUME NEW p \in Procs, HelperLooks(p) \/ HelperWrites PROVE Quiet
  BY <1>7 DEF HelperLooks, HelperWrites, Quiet, Alive
<1>8. CASE HelperWrites
  BY <1>8 DEF HelperWrites, Quiet, Alive
<1> QED BY <1>1, <1>2, <1>3, <1>4, <1>5, <1>6, <1>7, <1>8 DEF Next, Run

LEMMA SetupStays == ASSUME Next PROVE UNCHANGED setup
BY DEF Next, Run, Inspect, Take, ClearStale, Bind, StartFails, Serve, Watch, Close, Sweep,
       Release, Interrupt, Crash, HelperLooks, HelperKills, HelperWrites, Accept, Handling

LEMMA MessageStep ==
  ASSUME MessageInv, ServerTypes, Next
  PROVE  MessageInv' /\ Implemented
<1>1. CASE Quiet
  BY <1>1, MessagesStay, QuietImplements DEF Quiet, messageVars
<1>2. ASSUME NEW p \in Procs, Ends(p) PROVE MessageInv' /\ Implemented
  <2>1. Of(p) \in SUBSET Handlers
    BY DEF Of
  <2> QED BY <1>2, <2>1, ForgetKeeps, ForgetImplements DEF Ends
<1>3. ASSUME NEW p \in Procs, NEW h \in Handlers, NEW r \in Requests, NEW i \in Ids,
             Accept(p, h, r, i)
      PROVE  MessageInv' /\ Implemented
  BY <1>3, ReceiveKeeps, ReceiveImplements DEF Accept
<1>4. ASSUME NEW h \in Handlers, Handling(h) PROVE MessageInv' /\ Implemented
  BY <1>4, HandleKeeps, HandleImplements DEF Handling
<1> QED BY <1>1, <1>2, <1>3, <1>4, StepKinds

LEMMA PlaceStep ==
  ASSUME MessageInv, ServerTypes, PlaceInv, Next
  PROVE  PlaceInv'
<1> USE DEF PlaceInv
<1>1. UNCHANGED setup
  BY SetupStays
<1>2. CASE Quiet
  BY <1>1, <1>2 DEF Quiet, messageVars
<1>3. ASSUME NEW p \in Procs, Ends(p) PROVE PlaceInv'
  <2>1. \A q \in Procs : q # p => (Alive(q)' <=> Alive(q))
    BY <1>3, Goes DEF Ends, Places
  <2>2. /\ on' = [h \in Handlers |-> on[h] \ {p}]
        /\ hpc' = [h \in Handlers |-> IF h \in Of(p) THEN "idle" ELSE hpc[h]]
        /\ req' = [h \in Handlers |-> IF h \in Of(p) THEN {} ELSE req[h]]
    BY <1>3 DEF Ends, Forget
  <2>3. on' \in [Handlers -> SUBSET Procs]
    BY <2>2
  <2>4. ASSUME NEW h \in Handlers
        PROVE  /\ req'[h] \subseteq setup'.requests
               /\ hpc'[h] = "idle" => on'[h] = {}
               /\ hpc'[h] # "idle" => \E q \in Procs : on'[h] = {q} /\ Alive(q)'
    <3>1. CASE h \in Of(p)
      BY <1>1, <2>2, <3>1 DEF Of
    <3>2. CASE h \notin Of(p)
      BY <1>1, <2>1, <2>2, <3>2 DEF Of
    <3> QED BY <3>1, <3>2
  <2> QED BY <2>3, <2>4
<1>4. ASSUME NEW p \in Procs, NEW h \in Handlers, NEW r \in Requests, NEW i \in Ids,
             Accept(p, h, r, i)
      PROVE  PlaceInv'
  <2>1. Alive(p) /\ r \in setup.requests /\ \A q \in Procs : Alive(q)' <=> Alive(q)
    BY <1>4 DEF Accept, Alive
  <2>2. /\ \A g \in Handlers : g # h => hpc'[g] = hpc[g] /\ req'[g] = req[g]
        /\ req'[h] = {r} /\ hpc'[h] # "idle"
    BY <1>4 DEF Accept, Receive, Move, MessageInv, MessageTypes
  <2>3. on' = [on EXCEPT ![h] = {p}]
    BY <1>4 DEF Accept
  <2> QED BY <1>1, <2>1, <2>2, <2>3
<1>5. ASSUME NEW h \in Handlers, Handling(h) PROVE PlaceInv'
  <2>1. \A p \in Procs : Alive(p)' <=> Alive(p)
    BY <1>5 DEF Handling, Alive
  <2>2. /\ hpc[h] # "idle"
        /\ \A g \in Handlers : g # h => hpc'[g] = hpc[g]
        /\ \A g \in Handlers : req'[g] \subseteq req[g]
    BY <1>5, HandleLocal DEF Handling, MessageInv
  <2>3. on' = [on EXCEPT ![h] = IF hpc'[h] = "idle" THEN {} ELSE on[h]]
    BY <1>5 DEF Handling
  <2> QED BY <1>1, <2>1, <2>2, <2>3
<1> QED BY <1>2, <1>3, <1>4, <1>5, StepKinds
(* A server that starts finds the one that lives, and makes way for it.     *)
LEMMA HolderStep ==
  ASSUME ServerTypes, HolderInv, Next
  PROVE  HolderInv'
<1> SUFFICES ASSUME ~setup.together PROVE HolderInv'
  BY SetupStays DEF HolderInv
<1> USE DEF HolderInv
<1>1. ASSUME NEW p \in Procs, Inspect(p) PROVE HolderInv'
  <2>1. CASE Holds(instance)
    BY <1>1, <2>1, Goes DEF Inspect, Places
  <2>2. CASE ~Holds(instance)
    <3>1. \A q \in Procs : ~Alive(q)
      BY <1>1, <2>2, ServerAssumption DEF Inspect, MayStart, Starting, Holds
    <3>2. pc'[p] = "take" /\ \A q \in Procs : Alive(q)' => q = p
      BY <1>1, <2>2, <3>1, Goes DEF Inspect, Places
    <3> QED BY <3>2
  <2> QED BY <2>1, <2>2
<1>2. ASSUME NEW p \in Procs, Take(p) PROVE HolderInv'
  <2>1. Alive(p) /\ \A q \in Procs : Alive(q)' => Alive(q)
    BY <1>2, Goes DEF Take, Alive, Places
  <2> QED BY <1>2, <2>1 DEF Take
<1>3. ASSUME NEW p \in Procs,
             \/ ClearStale(p) \/ Bind(p) \/ StartFails(p) \/ Serve(p)
             \/ Watch(p) \/ Close(p) \/ Sweep(p) \/ Interrupt(p)
      PROVE  HolderInv'
  <2>1. UNCHANGED instance /\ Alive(p) /\ pc[p] # "take"
    BY <1>3 DEF ClearStale, Bind, StartFails, Serve, Watch, Close, Sweep, Interrupt, Alive
  <2>2. \A q \in Procs : (Alive(q)' => Alive(q)) /\ (q # p => pc'[q] = pc[q])
    <3>1. CASE ClearStale(p) \/ Bind(p) \/ StartFails(p) \/ Serve(p)
      BY <2>1, <3>1, Goes DEF ClearStale, Bind, StartFails, Serve, Places
    <3>2. CASE Close(p) \/ Sweep(p) \/ Interrupt(p)
      BY <2>1, <3>2, Goes DEF Close, Sweep, Interrupt, Places
    <3>3. CASE Watch(p)
      BY <2>1, <3>3, Goes DEF Watch, Places, Alive
    <3> QED BY <1>3, <3>1, <3>2, <3>3
  <2> QED BY <2>1, <2>2
<1>4. ASSUME NEW p \in Procs, Release(p) \/ Crash(p) \/ HelperKills(p) PROVE HolderInv'
  <2>1. ~Alive(p)' /\ \A q \in Procs : q # p => pc'[q] = pc[q] /\ (Alive(q)' <=> Alive(q))
    BY <1>4, Goes DEF Release, Crash, HelperKills, Ends, Places
  <2>2. UNCHANGED instance \/ Alive(p)
    BY <1>4 DEF Release, Crash, HelperKills, Alive
  <2> QED BY <2>1, <2>2
<1>5. ASSUME UNCHANGED <<pc, instance>> PROVE HolderInv'
  BY <1>5 DEF Alive
<1>6. ASSUME NEW p \in Procs, HelperLooks(p) PROVE HolderInv'
  BY <1>5, <1>6 DEF HelperLooks
<1>7. CASE HelperWrites
  BY <1>5, <1>7 DEF HelperWrites
<1>8. ASSUME NEW p \in Procs, NEW h \in Handlers, NEW r \in Requests, NEW i \in Ids,
             Accept(p, h, r, i)
      PROVE  HolderInv'
  BY <1>5, <1>8 DEF Accept
<1>9. ASSUME NEW h \in Handlers, Handling(h) PROVE HolderInv'
  BY <1>5, <1>9 DEF Handling
<1> QED BY <1>1, <1>2, <1>3, <1>4, <1>6, <1>7, <1>8, <1>9 DEF Next, Run

(* A stop is asked for before it is written, and nobody forgets it.         *)
LEMMA AskedStep ==
  ASSUME AskedInv, Next
  PROVE  AskedInv'
<1> USE DEF AskedInv
<1>1. ASSUME asked \subseteq asked', sentinel' \in {sentinel, target, NoStop},
             target' \in {target, NoStop}
      PROVE  AskedInv'
  BY <1>1
<1>2. ASSUME NEW p \in Procs, Inspect(p) \/ Run(p) \/ Interrupt(p) PROVE AskedInv'
  BY <1>1, <1>2 DEF Inspect, Run, Interrupt, Take, ClearStale, Bind, StartFails, Serve, Watch,
                    Close, Sweep, Release
<1>3. ASSUME NEW p \in Procs, Crash(p) \/ HelperKills(p) PROVE AskedInv'
  BY <1>1, <1>3 DEF Crash, HelperKills
<1>4. ASSUME NEW p \in Procs, HelperLooks(p) PROVE AskedInv'
  BY <1>4 DEF HelperLooks
<1>5. CASE HelperWrites
  BY <1>1, <1>5 DEF HelperWrites
<1>6. ASSUME NEW p \in Procs, NEW h \in Handlers, NEW r \in Requests, NEW i \in Ids,
             Accept(p, h, r, i)
      PROVE  AskedInv'
  BY <1>1, <1>6 DEF Accept
<1>7. ASSUME NEW h \in Handlers, Handling(h) PROVE AskedInv'
  BY <1>1, <1>7 DEF Handling
<1> QED BY <1>2, <1>3, <1>4, <1>5, <1>6, <1>7 DEF Next

------------------------------------------------------------------------------
(* The invariant, and what follows from it.                                 *)
LEMMA ServerInit == Init => ServerInv
<1> SUFFICES ASSUME Init PROVE ServerInv
  OBVIOUS
<1>1. MessageInv
  BY DEF Init, MessagesInit, MessageInv, MessageTypes, ProgressInv, LockInv, FillInv, KeyInv,
         Inside, Nothing
<1>2. ServerTypes
  BY DEF Init, ServerTypes, Places, Stops
<1>3. PlaceInv
  BY DEF Init, MessagesInit, PlaceInv
<1>4. HolderInv /\ AskedInv
  BY DEF Init, HolderInv, AskedInv, Alive
<1> QED BY <1>1, <1>2, <1>3, <1>4 DEF ServerInv

LEMMA ServerStep == ServerInv /\ [Next]_vars => ServerInv'
<1> SUFFICES ASSUME ServerInv, [Next]_vars PROVE ServerInv'
  OBVIOUS
<1> USE DEF ServerInv
<1>1. CASE Next
  BY <1>1, MessageStep, ServerTypesStep, PlaceStep, HolderStep, AskedStep
<1>2. CASE UNCHANGED vars
  <2>1. MessageInv'
    BY <1>2, MessagesStay DEF vars
  <2>2. ServerTypes' /\ PlaceInv' /\ HolderInv' /\ AskedInv'
    BY <1>2 DEF vars, serverVars, messageVars, ServerTypes, PlaceInv, HolderInv, AskedInv, Alive
  <2> QED BY <2>1, <2>2
<1> QED BY <1>1, <1>2

LEMMA ServerInvariant == Spec => []ServerInv
BY ServerInit, ServerStep, PTL DEF Spec

(* Every variable has its type; requests are under way only in processes    *)
(* that live, and no two handlers write one file, whatever ids they have.   *)
THEOREM TypeCorrect == Spec => []TypeOK
<1>1. ServerInv => TypeOK
  <2> SUFFICES ASSUME ServerInv PROVE TypeOK
    OBVIOUS
  <2>1. ServerTypes /\ PlaceInv /\ FillInv /\ MessageTypes
    BY DEF ServerInv, MessageInv
  <2>2. \A h \in Handlers :
          /\ req[h] \subseteq setup.requests /\ stamp[h] \subseteq Ids
          /\ file[h] \subseteq Names /\ on[h] \subseteq Procs
          /\ Busy(h) <=> \E p \in on[h] : Alive(p)
          /\ hpc[h] = "fill" => \A n \in file[h] : store[n] = Torn
    BY <2>1 DEF PlaceInv, FillInv, MessageTypes, Busy
  <2> QED BY <2>1, <2>2 DEF TypeOK, ServerTypes, Stops, Places, MessageTypes
<1> QED BY <1>1, ServerInvariant, PTL

(* The messages of a thread are a board: a key names one message, which     *)
(* stays as it is, whoever posts, dies or fails (write_message_idempotent). *)
THEOREM ImplementsBoard == Spec => IsABoard
<1>1. Init => TheBoard!Init
  BY DEF Init, MessagesInit, TheBoard!Init, TheBoard!Nothing, Nothing, Posted, Absent, Names
<1>2. ServerInv /\ [Next]_vars => [TheBoard!Next]_(TheBoard!vars)
  <2> SUFFICES ASSUME ServerInv, [Next]_vars
               PROVE  TheBoard!Next \/ UNCHANGED TheBoard!vars
    OBVIOUS
  <2>1. CASE Next
    BY <2>1, MessageStep DEF ServerInv, Implemented, TheBoard!vars
  <2>2. CASE UNCHANGED vars
    BY <2>2, PostedSame DEF vars, messageVars, TheBoard!vars
  <2> QED BY <2>1, <2>2
<1> QED BY <1>1, <1>2, ServerInvariant, PTL DEF Spec, IsABoard, TheBoard!Spec

(* Where starts do not overlap, what is served is served by the process     *)
(* that the instance lock names (acquire_instance_lock).                    *)
THEOREM HolderServes == Spec => []ServedByInstance
<1>1. ServerInv => ServedByInstance
  BY DEF ServerInv, HolderInv, ServedByInstance, Alive
<1> QED BY <1>1, ServerInvariant, PTL

(* A server stops of its own only when it was told to (the watching thread  *)
(* and stop_sentinel_targets_me).                                           *)
THEOREM OnlyTheAskedStop == Spec => StoppedWasAsked
<1>1. ServerInv /\ [Next]_vars =>
        [\A p \in Procs : pc[p] = "serving" /\ pc'[p] = "closing" => p \in asked']_vars
  <2> SUFFICES ASSUME ServerInv, Next, NEW p \in Procs, pc[p] = "serving", pc'[p] = "closing"
               PROVE  p \in asked'
    OBVIOUS
  <2>1. CASE \E q \in Procs : Watch(q)
    <3>1. PICK q \in Procs : Watch(q)
      BY <2>1
    <3>2. p = q /\ TargetsMe(q)
      BY <3>1, Goes DEF Watch, ServerInv, Places
    <3> QED BY <3>1, <3>2, ServerAssumption
            DEF Watch, TargetsMe, ServerInv, AskedInv, NoStop
  <2>2. CASE \E q \in Procs : Interrupt(q)
    BY <2>2, Goes DEF Interrupt, ServerInv, Places
  <2>3. ASSUME NEW q \in Procs, NEW l \in Places \ {"closing"}, Goto(q, l) PROVE FALSE
    BY <2>3, Goes DEF ServerInv, ServerTypes
  <2>4. {"take", "ended", "clear", "bind", "release", "ready", "serving", "sweep"}
          \subseteq Places \ {"closing"}
    BY DEF Places
  <2>5. ASSUME NEW q \in Procs,
               \/ Inspect(q) \/ Take(q) \/ ClearStale(q) \/ Bind(q) \/ StartFails(q)
               \/ Serve(q) \/ Sweep(q) \/ Release(q) \/ Crash(q) \/ HelperKills(q)
        PROVE  FALSE
    <3>1. CASE Inspect(q) \/ Take(q) \/ ClearStale(q) \/ Bind(q)
      BY <2>3, <2>4, <3>1 DEF Inspect, Take, ClearStale, Bind
    <3>2. CASE StartFails(q) \/ Serve(q) \/ Sweep(q)
      BY <2>3, <2>4, <3>2 DEF StartFails, Serve, Sweep
    <3>3. CASE Release(q) \/ Crash(q) \/ HelperKills(q)
      BY <2>3, <2>4, <3>3 DEF Release, Crash, HelperKills, Ends
    <3> QED BY <2>5, <3>1, <3>2, <3>3
  <2>6. ASSUME NEW q \in Procs, Close(q) PROVE FALSE
    BY <2>3, <2>4, <2>6 DEF Close
  <2>7. ~UNCHANGED pc
    OBVIOUS
  <2> QED BY <2>1, <2>2, <2>5, <2>6, <2>7
          DEF Next, Run, HelperLooks, HelperWrites, Accept, Handling
<1> QED BY <1>1, ServerInvariant, PTL DEF Spec, StoppedWasAsked
(* What the board promises first: however often, and by however many at     *)
(* once, a request with a key is sent, one message has the key.             *)
KeysNameOne == \A m, n \in Posted : m.key = n.key /\ m.key # NoKey => m = n

THEOREM OneMessagePerKey == Spec => []KeysNameOne
<1>1. Init => KeysNameOne
  BY DEF Init, MessagesInit, KeysNameOne, Posted, Absent, Names
<1>2. ServerInv /\ KeysNameOne /\ [Next]_vars => KeysNameOne'
  <2> SUFFICES ASSUME ServerInv, KeysNameOne, [Next]_vars PROVE KeysNameOne'
    OBVIOUS
  <2>1. Implemented
    BY MessageStep, QuietImplements DEF ServerInv, vars, messageVars
  <2>2. CASE Posted' = Posted
    BY <2>2 DEF KeysNameOne
  <2>3. ASSUME NEW h \in Handlers, NEW n \in Names, TheBoard!Post(h, n) PROVE KeysNameOne'
    BY <2>3 DEF KeysNameOne, TheBoard!Post, TheBoard!Keyed
  <2> QED BY <2>1, <2>2, <2>3
          DEF Implemented, TheBoard!Next, TheBoard!Ask, TheBoard!Repeat, TheBoard!Conflict,
              TheBoard!Refuse, TheBoard!Leave
<1> QED BY <1>1, <1>2, ServerInvariant, PTL DEF Spec
==============================================================================
