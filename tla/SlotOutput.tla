------------------------------- MODULE SlotOutput -------------------------------
(***************************************************************************)
(* What the game may expect of a slot it sends to: a client comes and goes, *)
(* and at any time the slot may fall silent.  A silent slot stays silent,  *)
(* for the clients to come as well: nothing ever empties its queue.        *)
(***************************************************************************)
CONSTANT Slots

VARIABLES
    connected,  \* [Slots -> BOOLEAN]
    blocked     \* [Slots -> BOOLEAN]: no message of the slot will be sent

Init ==
    /\ connected = [s \in Slots |-> FALSE]
    /\ blocked = [s \in Slots |-> FALSE]

Become(s, c, b) ==
    /\ connected' = [connected EXCEPT ![s] = c]
    /\ blocked' = [blocked EXCEPT ![s] = b]

Enter(s) == ~connected[s] /\ Become(s, TRUE, blocked[s])

\* What is on its way when the client leaves may be left in the queue.
Leave(s) == connected[s] /\ \E b \in {blocked[s], TRUE} : Become(s, FALSE, b)

Block(s) == Become(s, connected[s], TRUE)

Next == \E s \in Slots : Enter(s) \/ Leave(s) \/ Block(s)

Spec == Init /\ [][Next]_<<connected, blocked>>

=============================================================================
