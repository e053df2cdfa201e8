------------------------------ MODULE Messages -------------------------------
(****************************************************************************)
(* The messages of ONE thread, and the requests that post to it.  A message *)
(* is a file under communications/, created under a name that is not taken  *)
(* and then filled.  A request with an idempotency key first looks for a    *)
(* message with that key; a lock file of the thread keeps two requests from *)
(* looking and writing at the same time.  It names no owner: what its       *)
(* holder leaves behind when it dies stays.                                 *)
(*                                                                          *)
(* A message's id is the time at which its request was built, and part of   *)
(* its file's name.  Requests of different processes, or of two threads of  *)
(* one, may have the same time.                                             *)
(*                                                                          *)
(* Abstracted: text is a message's content and work item; the writer token  *)
(* (WriterLock has it) is refused or not; a request without a key stands    *)
(* for those of any process.  Left out: archived messages, which the look   *)
(* for a key does not see.                                                  *)
(****************************************************************************)
EXTENDS Integers, FiniteSets

CONSTANTS Handlers,       \* requests that can be under way at once
          Keys, NoKey,    \* idempotency keys
          Texts,          \* contents
          Ids, MaxSuffix  \* message ids; bound: files with the same id

ASSUME MessagesAssumption == NoKey \notin Keys /\ MaxSuffix \in Nat

Requests == [key : Keys \cup {NoKey}, text : Texts]
Names    == Ids \X (0..MaxSuffix)

VARIABLES
  store,   \* store[n]: whether there is a file of name n, and its message
  mutex,   \* does the thread's lock file exist?
  hpc,     \* where request h is
  req,     \* req[h]: what it asks for
  stamp,   \* stamp[h]: the id of its message
  file,    \* file[h]: the name it created
  says     \* says[h]: what it will be answered, and about which message

messageVars == <<store, mutex, hpc, req, stamp, file, says>>

(* A file that is empty, or written in part, is not read.                   *)
Absent  == [is |-> "absent", with |-> {}]
Torn    == [is |-> "torn", with |-> {}]
Full(r) == [is |-> "full", with |-> {r}]

(* What read_messages returns.                                              *)
Posted == {m \in [name : Names, key : Keys \cup {NoKey}, text : Texts] :
             [key |-> m.key, text |-> m.text] \in store[m.name].with}

Nothing   == [what |-> "nothing", of |-> {}]
Busy(h)   == hpc[h] # "idle"
Move(h, l) == hpc' = [hpc EXCEPT ![h] = l]
Says(h, what, of) == says' = [says EXCEPT ![h] = [what |-> what, of |-> of]]

------------------------------------------------------------------------------
(* build_message.                                                           *)
Receive(h, r, i) == /\ ~Busy(h)
                    /\ Move(h, IF r.key = NoKey THEN "create" ELSE "lock")
                    /\ req' = [req EXCEPT ![h] = {r}]
                    /\ stamp' = [stamp EXCEPT ![h] = {i}]
                    /\ UNCHANGED <<store, mutex, file, says>>

(* _ThreadIdempotencyLock.__enter__.                                        *)
Lock(h) == /\ hpc[h] = "lock" /\ ~mutex
           /\ mutex' = TRUE
           /\ Move(h, "look")
           /\ UNCHANGED <<store, req, stamp, file, says>>

(* Mutant of Expire: after five seconds it goes on without the lock.        *)
ExpireProceeds(h) == /\ hpc[h] = "lock" /\ mutex
                     /\ Move(h, "look")
                     /\ UNCHANGED <<store, mutex, req, stamp, file, says>>

(* It was held for five seconds.                                            *)
Expire(h) == /\ hpc[h] = "lock" /\ mutex
             /\ Says(h, "refused", {})
             /\ Move(h, "reply")
             /\ UNCHANGED <<store, mutex, req, stamp, file>>

(* find_by_idempotency_key.                                                 *)
Found(h) == {m \in Posted : \E r \in req[h] : m.key = r.key}

(* A message with the key is the answer, or there is none yet.              *)
Look(h) == /\ hpc[h] = "look"
           /\ \/ /\ Found(h) = {}
                 /\ Move(h, "create")
                 /\ UNCHANGED says
              \/ /\ \E m \in Found(h), r \in req[h] :
                      Says(h, IF m.text = r.text THEN "repeated" ELSE "conflict", {m.name})
                 /\ Move(h, "unlock")
           /\ UNCHANGED <<store, mutex, req, stamp, file>>

(* What follows write_message, in a request with and without a lock.        *)
After(h) == IF \E r \in req[h] : r.key # NoKey THEN "unlock" ELSE "reply"

(* Maintenance, or the directory is not there.                              *)
Refused(h) == /\ hpc[h] = "create"
              /\ Says(h, "refused", {})
              /\ Move(h, After(h))
              /\ UNCHANGED <<store, mutex, req, stamp, file>>

(* Mutant of Create: without O_EXCL an id has one name.                     *)
CreateOver(h) == /\ hpc[h] = "create"
                 /\ \E n \in stamp[h] \X {0} :
                      /\ store' = [store EXCEPT ![n] = Torn]
                      /\ file' = [file EXCEPT ![h] = {n}]
                 /\ Move(h, "fill")
                 /\ UNCHANGED <<mutex, req, stamp, says>>

(* The first of an id's names that does not exist (O_EXCL).                 *)
Create(h) == /\ hpc[h] = "create"
             /\ \E n \in stamp[h] \X (0..MaxSuffix) :
                  /\ store[n] = Absent
                  /\ \A s \in 0..(n[2] - 1) : store[<<n[1], s>>] # Absent
                  /\ store' = [store EXCEPT ![n] = Torn]
                  /\ file' = [file EXCEPT ![h] = {n}]
             /\ Move(h, "fill")
             /\ UNCHANGED <<mutex, req, stamp, says>>

Fill(h) == /\ hpc[h] = "fill"
           /\ \E n \in file[h], r \in req[h] : store' = [store EXCEPT ![n] = Full(r)]
           /\ Says(h, "posted", file[h])
           /\ Move(h, After(h))
           /\ UNCHANGED <<mutex, req, stamp, file>>

(* The disk is full or fails: what was written, perhaps all of it, stays.   *)
FillFails(h) == /\ hpc[h] = "fill"
                /\ \/ UNCHANGED store
                   \/ \E n \in file[h], r \in req[h] : store' = [store EXCEPT ![n] = Full(r)]
                /\ Says(h, "refused", {})
                /\ Move(h, After(h))
                /\ UNCHANGED <<mutex, req, stamp, file>>

(* __exit__, where an error is ignored.                                     *)
Unlock(h) == /\ hpc[h] = "unlock"
             /\ mutex' = FALSE \/ UNCHANGED mutex
             /\ Move(h, "reply")
             /\ UNCHANGED <<store, req, stamp, file, says>>

(* Requests H are over.                                                     *)
Forget(H) == LET without(f, v) == [h \in Handlers |-> IF h \in H THEN v ELSE f[h]]
             IN  /\ hpc' = without(hpc, "idle")
                 /\ req' = without(req, {})
                 /\ stamp' = without(stamp, {})
                 /\ file' = without(file, {})
                 /\ says' = without(says, Nothing)

Reply(h) == /\ hpc[h] = "reply"
            /\ Forget({h})
            /\ UNCHANGED <<store, mutex>>

Handle(h) == \/ Lock(h) \/ Expire(h) \/ Look(h) \/ Refused(h) \/ Create(h)
             \/ Fill(h) \/ FillFails(h) \/ Unlock(h) \/ Reply(h)

MessagesInit == /\ store = [n \in Names |-> Absent]
                /\ mutex = FALSE
                /\ hpc = [h \in Handlers |-> "idle"]
                /\ req = [h \in Handlers |-> {}]
                /\ stamp = [h \in Handlers |-> {}]
                /\ file = [h \in Handlers |-> {}]
                /\ says = [h \in Handlers |-> Nothing]
==============================================================================
