--------------------------------- MODULE Inbox ---------------------------------
(***************************************************************************)
(* What the game thread relies on about the packets of one client, with no *)
(* bytes, no buffer and no threads.  A receive completes some packets and  *)
(* leaves one entry; an entry is good for one packet, the next one, and is *)
(* used up in vain only when no packet is complete.                        *)
(***************************************************************************)
EXTENDS Integers

VARIABLES
    unread,     \* complete packets nobody has taken
    entries     \* entries of the client nobody has followed

Init == unread = 0 /\ entries = 0

Store ==
    /\ unread' \in Nat /\ unread' >= unread
    /\ entries' = entries + 1

Take ==
    /\ entries > 0
    /\ entries' = entries - 1
    /\ unread' = IF unread > 0 THEN unread - 1 ELSE 0

Next == Store \/ Take

Spec == Init /\ [][Next]_<<unread, entries>>

=============================================================================
