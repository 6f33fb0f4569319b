---------------------------- MODULE SessionLifecycle ----------------------------
(***************************************************************************)
(* What the session core promises of a client slot, with no threads, no    *)
(* sockets and no time: it is free, then on offer to AcceptEx, then serves *)
(* one client until that client leaves, then free again.  A slot whose     *)
(* offer fails is lost.                                                    *)
(***************************************************************************)
CONSTANTS Slots, AcceptFaults

VARIABLE phase

Init == phase = [s \in Slots |-> "free"]

Move(s, from, to) == phase[s] = from /\ phase' = [phase EXCEPT ![s] = to]

Offer(s) == Move(s, "free", "offered")
Connect(s) == Move(s, "offered", "serving")
Leave(s) == Move(s, "serving", "free")
Lose(s) == AcceptFaults /\ (Move(s, "free", "lost") \/ Move(s, "offered", "lost"))

Next == \E s \in Slots : Offer(s) \/ Connect(s) \/ Leave(s) \/ Lose(s)

Spec == Init /\ [][Next]_phase

=============================================================================
