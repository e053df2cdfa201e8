------------------------------- MODULE Server --------------------------------
(****************************************************************************)
(* The control plane's server at ONE port, from its start to its stop, with *)
(* the requests it serves (Messages).                                       *)
(*                                                                          *)
(* A server takes the instance lock, a file that names it, unless a live    *)
(* process holds it; deletes the stop sentinel it finds; binds the port;    *)
(* and serves until a sentinel names it, by pid and start time, or it is    *)
(* interrupted.  Its request handlers are daemon threads, which nobody      *)
(* waits for.  The stop helper writes the sentinel, and kills the process   *)
(* if it does not stop in time.                                             *)
(*                                                                          *)
(* The writer token under which the instance lock is read and replaced is   *)
(* shared: it does not keep two servers that start from doing so at once.   *)
(*                                                                          *)
(* Abstracted: liveness of a holder is exact (WriterLock has it).  Left     *)
(* out: the lifecycle log, which no decision reads.                         *)
(****************************************************************************)
EXTENDS Messages

CONSTANTS Procs,   \* server processes: each starts once
          Pid,     \* Pid[p]: its pid, which a later process may have again
          Setups   \* what happens; bounds: requests for a stop

Free    == "free"    \* no instance lock
NoStop  == [who |-> Free, exact |-> FALSE] \* no sentinel, no target

ASSUME ServerAssumption ==
  /\ Free \notin Procs
  /\ DOMAIN Pid = Procs
  /\ Setups \subseteq
       [procs    : SUBSET Procs,
        together : BOOLEAN,          \* may two start at the same time?
        shares   : BOOLEAN,          \* may a port be bound twice (Windows)?
        requests : SUBSET Requests,
        stops    : Nat]

VARIABLES
  setup,     \* one of Setups, for the whole behaviour
  pc,        \* where process p is
  instance,  \* the process that the instance lock names
  sentinel,  \* the stop sentinel: whom it names, and whether with its start time
  target,    \* what the stop helper is about to write
  on,        \* on[h]: the process that handles request h
  asked      \* history: whom the helper was told to stop, or an interrupt reached

serverVars == <<setup, pc, instance, sentinel, target, on, asked>>
vars       == <<serverVars, messageVars>>

Starting == {"take", "clear", "bind", "ready"}
Alive(p) == pc[p] \notin {"new", "ended"}
Bound    == {p \in Procs : pc[p] \in {"ready", "serving", "closing"}}
Goto(p, l) == pc' = [pc EXCEPT ![p] = l]
Of(p)      == {h \in Handlers : on[h] = {p}}

------------------------------------------------------------------------------
(* main.                                                                    *)

(* Two processes do not start at once, and none has a live one's pid.       *)
MayStart(p) == /\ pc[p] = "new" /\ p \in setup.procs
               /\ \A q \in Procs : Alive(q) => Pid[q] # Pid[p]
               /\ ~setup.together => \A q \in Procs : pc[q] \notin Starting

(* acquire_instance_lock, up to its decision.  A process that dies is known *)
(* to be dead.                                                              *)
Holds(p) == p # Free /\ Alive(p)

(* Mutant of Inspect: the holder is not looked at.                          *)
InspectBlind(p) == /\ MayStart(p)
                   /\ Goto(p, "take")
                   /\ UNCHANGED <<setup, instance, sentinel, target, on, asked, messageVars>>

(* Mutant of Inspect: the sentinel is cleared before the lock is taken.     *)
InspectClears(p) == /\ MayStart(p)
                    /\ Goto(p, IF Holds(instance) THEN "ended" ELSE "take")
                    /\ sentinel' = NoStop
                    /\ UNCHANGED <<setup, instance, target, on, asked, messageVars>>

Inspect(p) == /\ MayStart(p)
              /\ Goto(p, IF Holds(instance) THEN "ended" ELSE "take")
              /\ UNCHANGED <<setup, instance, sentinel, target, on, asked, messageVars>>

Take(p) == /\ pc[p] = "take"
           /\ instance' = p
           /\ Goto(p, "clear")
           /\ UNCHANGED <<setup, sentinel, target, on, asked, messageVars>>

(* clear_stale_startup_sentinel.                                            *)
ClearStale(p) == /\ pc[p] = "clear"
                 /\ sentinel' = NoStop
                 /\ Goto(p, "bind")
                 /\ UNCHANGED <<setup, instance, target, on, asked, messageVars>>

Bind(p) == /\ pc[p] = "bind"
           /\ setup.shares \/ Bound = {}
           /\ Goto(p, "ready")
           /\ UNCHANGED <<setup, instance, sentinel, target, on, asked, messageVars>>

(* The port is taken, by whomever, or the server is not ready.              *)
StartFails(p) == /\ pc[p] \in {"bind", "ready"}
                 /\ Goto(p, "release")
                 /\ UNCHANGED <<setup, instance, sentinel, target, on, asked, messageVars>>

Serve(p) == /\ pc[p] = "ready"
            /\ Goto(p, "serving")
            /\ UNCHANGED <<setup, instance, sentinel, target, on, asked, messageVars>>

(* Mutant of TargetsMe: only the pid is compared.                           *)
TargetsMePid(p) == sentinel # NoStop /\ Pid[sentinel.who] = Pid[p]

(* stop_sentinel_targets_me: pid and start time.                            *)
TargetsMe(p) == sentinel = [who |-> p, exact |-> TRUE]

(* The watching thread: the server stops, or the sentinel is deleted.       *)
Watch(p) == /\ pc[p] = "serving" /\ sentinel # NoStop
            /\ IF TargetsMe(p) THEN Goto(p, "closing") /\ UNCHANGED sentinel
                               ELSE sentinel' = NoStop /\ UNCHANGED pc
            /\ UNCHANGED <<setup, instance, target, on, asked, messageVars>>

Interrupt(p) == /\ pc[p] = "serving"
                /\ asked' = asked \cup {p}
                /\ Goto(p, "closing")
                /\ UNCHANGED <<setup, instance, sentinel, target, on, messageVars>>

(* server_close.                                                            *)
Close(p) == /\ pc[p] = "closing"
            /\ Goto(p, "sweep")
            /\ UNCHANGED <<setup, instance, sentinel, target, on, asked, messageVars>>

(* clear_stop_sentinel.                                                     *)
Sweep(p) == /\ pc[p] = "sweep"
            /\ sentinel' = NoStop
            /\ Goto(p, "release")
            /\ UNCHANGED <<setup, instance, target, on, asked, messageVars>>

(* The process is over, and so are the requests it had.                     *)
Ends(p) == /\ Goto(p, "ended")
           /\ Forget(Of(p))
           /\ on' = [h \in Handlers |-> on[h] \ {p}]
           /\ UNCHANGED <<store, mutex>>

(* release_instance_lock: of its own, unless maintenance or an error keeps  *)
(* it from it.                                                              *)
Release(p) == /\ pc[p] = "release"
              /\ \/ /\ instance # Free /\ Pid[instance] = Pid[p]
                    /\ instance' = Free
                 \/ UNCHANGED instance
              /\ Ends(p)
              /\ UNCHANGED <<setup, sentinel, target, asked>>

Crash(p) == /\ Alive(p)
            /\ Ends(p)
            /\ UNCHANGED <<setup, instance, sentinel, target, asked>>

------------------------------------------------------------------------------
(* stop-clearwright.ps1.                                                    *)

(* The recorded process is alive; its start time is that of the instance    *)
(* lock, if that has the same pid.                                          *)
HelperLooks(p) == /\ target = NoStop /\ setup.stops > Cardinality(asked)
                  /\ Alive(p)
                  /\ target' = [who |-> IF instance # Free /\ Pid[instance] = Pid[p]
                                        THEN instance ELSE p,
                                exact |-> instance # Free /\ Pid[instance] = Pid[p]]
                  /\ asked' = asked \cup {target'.who}
                  /\ UNCHANGED <<setup, pc, instance, sentinel, on, messageVars>>

HelperWrites == /\ target # NoStop
                /\ sentinel' = target
                /\ target' = NoStop
                /\ UNCHANGED <<setup, pc, instance, on, asked, messageVars>>

(* The grace is over.                                                       *)
HelperKills(p) == /\ target = NoStop /\ Alive(p)
                  /\ \E q \in asked : Pid[q] = Pid[p]
                  /\ sentinel' = NoStop
                  /\ Ends(p)
                  /\ UNCHANGED <<setup, instance, target, asked>>

------------------------------------------------------------------------------
(* do_POST: a request that process p receives.                              *)
Accept(p, h, r, i) == /\ pc[p] = "serving" /\ r \in setup.requests
                      /\ Receive(h, r, i)
                      /\ on' = [on EXCEPT ![h] = {p}]
                      /\ UNCHANGED <<setup, pc, instance, sentinel, target, asked>>

(* A request that is answered leaves its process.                           *)
Handling(h) == /\ Handle(h)
               /\ on' = [on EXCEPT ![h] = IF hpc'[h] = "idle" THEN {} ELSE @]
               /\ UNCHANGED <<setup, pc, instance, sentinel, target, asked>>

Init == /\ MessagesInit
        /\ setup \in Setups
        /\ pc = [p \in Procs |-> "new"]
        /\ instance = Free
        /\ sentinel = NoStop /\ target = NoStop
        /\ on = [h \in Handlers |-> {}]
        /\ asked = {}

(* What a server does of its own.                                           *)
Run(p) == \/ Take(p) \/ ClearStale(p) \/ Bind(p) \/ StartFails(p) \/ Serve(p)
          \/ Watch(p) \/ Close(p) \/ Sweep(p) \/ Release(p)

Next == \/ \E p \in Procs : \/ Inspect(p) \/ Run(p) \/ Interrupt(p) \/ Crash(p)
                            \/ HelperLooks(p) \/ HelperKills(p)
                            \/ \E h \in Handlers, r \in Requests, i \in Ids : Accept(p, h, r, i)
        \/ HelperWrites
        \/ \E h \in Handlers : Handling(h)

(* A process that is not killed goes on, and looks at the sentinel again    *)
(* and again.                                                               *)
Spec == Init /\ [][Next]_vars /\ \A p \in Procs : WF_vars(Run(p))

------------------------------------------------------------------------------
(* Every variable has its type; requests are under way only in processes    *)
(* that live, and what one is writing no other has written.                 *)
TypeOK ==
  /\ store \in [Names -> {Absent, Torn} \cup {Full(r) : r \in Requests}]
  /\ mutex \in BOOLEAN
  /\ hpc \in [Handlers -> {"idle", "lock", "look", "create", "fill", "unlock", "reply"}]
  /\ \A h \in Handlers :
       /\ req[h] \subseteq setup.requests /\ stamp[h] \subseteq Ids
       /\ file[h] \subseteq Names
       /\ on[h] \subseteq Procs
       /\ Busy(h) <=> \E p \in on[h] : Alive(p)
       /\ hpc[h] = "fill" => \A n \in file[h] : store[n] = Torn
  /\ setup \in Setups
  /\ pc \in [Procs -> {"new", "take", "clear", "bind", "ready", "serving", "closing",
                       "sweep", "release", "ended"}]
  /\ instance \in Procs \cup {Free}
  /\ {sentinel, target} \subseteq [who : Procs, exact : BOOLEAN] \cup {NoStop}
  /\ asked \subseteq Procs

(* However many post at once, die on the way, run into a full disk or share *)
(* an id: the thread is a Board (write_message_idempotent, do_message).     *)
TheBoard == INSTANCE Board WITH board <- Posted, asks <- req, says <- says
IsABoard == TheBoard!Spec

(* What is served is served by the one process that the instance lock names,*)
(* even where the system would let another one bind the port; unless two    *)
(* start at once (acquire_instance_lock).                                   *)
ServedByInstance ==
  setup.together \/ \A p \in Procs : pc[p] \in {"serving", "closing"} => instance = p

(* A server stops of its own only when it was told to, and no process in    *)
(* its place, even one with the same pid (stop_sentinel_targets_me).        *)
StoppedWasAsked ==
  [][\A p \in Procs : pc[p] = "serving" /\ pc'[p] = "closing" => p \in asked']_vars

(* A server that a sentinel names ends; unless another one starts at the    *)
(* same time (the watching thread of main).                                 *)
StopHonoured ==
  \A p \in Procs : (~setup.together /\ pc[p] = "serving" /\ TargetsMe(p)) ~> (pc[p] = "ended")
==============================================================================
