----------------------------- MODULE ResultBoard -----------------------------
(***************************************************************************)
(* What the request queue promises to the clients of the API server,       *)
(* without timers, callbacks, locks or an eviction order.  Under each      *)
(* request ID there is at most one slot, owned by one accepted request.    *)
(*   - a newly accepted request takes the slot of its ID, and other slots  *)
(*     may be forgotten to make room;                                      *)
(*   - the owner of a slot, and nobody else, publishes its result in it,   *)
(*     once;                                                               *)
(*   - a published result stays as it is until the slot is taken or        *)
(*     forgotten, and no slot ever goes back to an older request.          *)
(***************************************************************************)
EXTENDS Integers

CONSTANTS Hashes, Results, Pending

VARIABLES accepted,  \* number of requests accepted so far
          board      \* board[h]: owner (0 if there is none) and result

vars == <<accepted, board>>

Absent == [owner |-> 0, result |-> Pending]

Init ==
    /\ accepted = 0
    /\ board = [h \in Hashes |-> Absent]

Accept(h) ==
    /\ accepted' = accepted + 1
    /\ \E forgotten \in SUBSET (Hashes \ {h}) :
           board' = [g \in Hashes |->
                        IF g = h THEN [owner |-> accepted + 1, result |-> Pending]
                        ELSE IF g \in forgotten THEN Absent ELSE board[g]]

Publish(h, r) ==
    /\ board[h].owner # 0
    /\ board[h].result = Pending
    /\ board' = [board EXCEPT ![h].result = r]
    /\ UNCHANGED accepted

Next == \E h \in Hashes : Accept(h) \/ \E r \in Results : Publish(h, r)

Spec == Init /\ [][Next]_vars
=============================================================================
