-------------------------------- MODULE Board --------------------------------
(****************************************************************************)
(* What posting to ONE thread promises its clients: a message that is       *)
(* posted stays as it is; a key names at most one message, however often,   *)
(* and by however many at once, it is sent; a repetition is answered with   *)
(* the original, and other text under the same key is refused.  A request   *)
(* may be refused, and its answer lost; then its message may be there.      *)
(****************************************************************************)
CONSTANTS Handlers, \* requests that can be under way at once
          Names,    \* under which messages are kept
          Requests, \* [key, text]
          NoKey     \* the key of a message that has none

VARIABLES board,    \* the messages: [name, key, text]
          asks,     \* asks[h]: the request of h, if it has one
          says      \* says[h]: the answer, and the message it is about

vars == <<board, asks, says>>

Nothing   == [what |-> "nothing", of |-> {}]
Keyed(k)  == {b \in board : k # NoKey /\ b.key = k}
Says(h, what, of) == says' = [says EXCEPT ![h] = [what |-> what, of |-> of]]
Waits(h)  == says[h] = Nothing

Init == /\ board = {}
        /\ asks = [h \in Handlers |-> {}]
        /\ says = [h \in Handlers |-> Nothing]

Ask(h, r) == /\ asks[h] = {}
             /\ asks' = [asks EXCEPT ![h] = {r}]
             /\ UNCHANGED <<board, says>>

Post(h, n) == /\ Waits(h)
              /\ n \notin {b.name : b \in board}
              /\ \E r \in asks[h] :
                   /\ Keyed(r.key) = {}
                   /\ board' = board \cup {[name |-> n, key |-> r.key, text |-> r.text]}
              /\ Says(h, "posted", {n}) \/ Says(h, "refused", {})
              /\ UNCHANGED asks

Repeat(h) == /\ Waits(h)
             /\ \E r \in asks[h] : \E b \in Keyed(r.key) :
                  b.text = r.text /\ Says(h, "repeated", {b.name})
             /\ UNCHANGED <<board, asks>>

Conflict(h) == /\ Waits(h)
               /\ \E r \in asks[h] : \E b \in Keyed(r.key) :
                    b.text # r.text /\ Says(h, "conflict", {b.name})
               /\ UNCHANGED <<board, asks>>

Refuse(h) == /\ Waits(h) /\ asks[h] # {}
             /\ Says(h, "refused", {})
             /\ UNCHANGED <<board, asks>>

(* Requests are over, answered or not.                                      *)
Leave(H) == /\ asks' = [h \in Handlers |-> IF h \in H THEN {} ELSE asks[h]]
            /\ says' = [h \in Handlers |-> IF h \in H THEN Nothing ELSE says[h]]
            /\ UNCHANGED board

Next == \/ \E h \in Handlers : \/ \E r \in Requests : Ask(h, r)
                               \/ \E n \in Names : Post(h, n)
                               \/ Repeat(h) \/ Conflict(h) \/ Refuse(h)
        \/ \E H \in SUBSET Handlers : Leave(H)

Spec == Init /\ [][Next]_vars
==============================================================================
