------------------------------- MODULE GameServer -------------------------------
(***************************************************************************)
(* The game server above the sessions: workers store received packets and  *)
(* push connects and disconnects, the game thread's timer takes one entry  *)
(* of each queue a tick and runs the packet's handler                      *)
(* (TeemoGameInstance.cpp, App_Server.cpp).                                *)
(*                                                                         *)
(* A receive ends no packet, one or two, and what a session leaves in its  *)
(* slot's User is whole packets: PacketBuffer has the bytes.  The server   *)
(* asks nothing of who sends a request, so any client may send any.        *)
(* In place of the session core it has the contract SlotOutput, which      *)
(* IocpNetServer keeps (RefinesOutput): whether a slot is connected, and   *)
(* whether its send queue is blocked by a message whose WSASend was        *)
(* refused or failed.  A blocked slot sends nothing.                       *)
(***************************************************************************)
EXTENDS Integers, Sequences, SequencesExt, FiniteSets

CONSTANTS
    Slots,      \* client indices
    Positions,  \* where a player may stand
    Spawn,      \* DefaultLocation: where a player enters
    Unknown,    \* not told yet
    Ops,        \* the requests the clients of this instance make
    MaxSessions,\* bound: connects of all slots
    MaxUnread,  \* bound: a User with so many packets or entries is brought no more
    Batches,    \* how many packets a receive may complete
    MaxSystem   \* bound: connects and disconnects not taken yet

ASSUME ServerAssumption ==
    /\ Spawn \in Positions
    /\ Unknown \notin Positions
    /\ Ops \subseteq {"LOGIN", "SIGNIN", "CHAT", "TEST", "IN_GAME", "REMOTE", "MOVE", "DAMAGE"}
    /\ MaxSessions \in Nat
    /\ MaxUnread \in Nat
    /\ Batches \subseteq 0 .. 2
    /\ MaxSystem \in Nat

VARIABLES
    connected,          \* [Slots -> BOOLEAN]: IsConnected
    blocked,            \* [Slots -> BOOLEAN]: the send queue is stuck
    closing,            \* closed slots of which a second worker still has a completion
    sessions,           \* connects so far
    unread,             \* [Slots -> packets in its User's buffer]
    incoming,           \* server_in_coming_packet_user_index_
    system_packet_queue_,
    timer,              \* half of the tick the game thread is at
    client_info_array,  \* [Slots -> position and in_game_connect]
    asked,              \* ghost: clients whose request for the other players was answered
    entered,            \* ghost: players that entered the game and have not moved since
    view                \* [Slots -> [Slots -> position it was last told of another]]

session == <<connected, blocked, closing, sessions>>
queues == <<unread, incoming, system_packet_queue_>>
world == <<client_info_array, asked, entered, view>>
vars == <<session, queues, timer, world>>

Packets ==
    [op : Ops \ {"MOVE", "DAMAGE"}]
        \cup [op : Ops \cap {"MOVE"}, to : Positions]
        \cup [op : Ops \cap {"DAMAGE"}, whom : Slots]

SystemPackets == [id : {"PACKET_CHATNAME_REQ", "SYS_USER_DISCONNECT"}, slot : Slots]

Init ==
    /\ connected = [s \in Slots |-> FALSE]
    /\ blocked = [s \in Slots |-> FALSE]
    /\ closing = {}
    /\ sessions = 0
    /\ unread = [s \in Slots |-> <<>>]
    /\ incoming = <<>>
    /\ system_packet_queue_ = <<>>
    /\ timer = "data"
    /\ client_info_array = [s \in Slots |-> [at |-> Spawn, in_game_connect |-> FALSE]]
    /\ asked = {}
    /\ entered = {}
    /\ view = [s \in Slots |-> [p \in Slots |-> Unknown]]

\* The slots of the session core.
Slot == INSTANCE SlotOutput

-----------------------------------------------------------------------------
(* Workers *)

\* OnConnect.  What the slot's User and client_info_array hold stays.
Connect(s) ==
    /\ sessions < MaxSessions
    /\ Len(system_packet_queue_) < MaxSystem
    /\ Slot!Enter(s)
    /\ sessions' = sessions + 1
    /\ asked' = asked \ {s}
    /\ view' = [view EXCEPT ![s] = [p \in Slots |-> Unknown]]
    /\ system_packet_queue_' =
            Append(system_packet_queue_, [id |-> "PACKET_CHATNAME_REQ", slot |-> s])
    /\ UNCHANGED <<closing, unread, incoming, timer, client_info_array, entered>>

\* OnClose.  A message that was on its way may stay in the send queue, and another
\* worker may be about to store what the session received or to close it too.
Disconnect(s) ==
    /\ Len(system_packet_queue_) < MaxSystem
    /\ Slot!Leave(s)
    /\ closing' \in {closing, closing \cup {s}}
    /\ system_packet_queue_' =
            Append(system_packet_queue_, [id |-> "SYS_USER_DISCONNECT", slot |-> s])
    /\ UNCHANGED <<sessions, unread, incoming, timer, world>>

\* A slot has one receive and one send under way: two workers that find it connected
\* together both push a disconnect.
CloseAgain(s) ==
    /\ s \in closing
    /\ ~connected[s]
    /\ Len(system_packet_queue_) < MaxSystem
    /\ closing' = closing \ {s}
    /\ system_packet_queue_' =
            Append(system_packet_queue_, [id |-> "SYS_USER_DISCONNECT", slot |-> s])
    /\ UNCHANGED <<connected, blocked, sessions, unread, incoming, timer, world>>

\* SendIO: a WSASend is refused, or it fails.
Refuse(s) ==
    /\ Slot!Block(s)
    /\ UNCHANGED <<closing, sessions, queues, timer, world>>

\* Faulty variant: the entry goes to the front of the queue.
StoreFront(s, ps) ==
    /\ unread' = [unread EXCEPT ![s] = @ \o ps]
    /\ incoming' = <<s>> \o incoming

\* ReceivePacketData: SetPacketData, then EnqueuePacketData.
Store(s, ps) ==
    /\ unread' = [unread EXCEPT ![s] = @ \o ps]
    /\ incoming' = Append(incoming, s)

\* The entries of s nobody has followed.
EntriesOf(s) == {i \in 1 .. Len(incoming) : incoming[i] = s}

\* The last receive of a closed session may be stored late.
Receive(s) ==
    /\ connected[s] \/ s \in closing
    /\ closing' = closing \ {s}
    /\ Len(unread[s]) < MaxUnread
    /\ Cardinality(EntriesOf(s)) < MaxUnread
    /\ \E n \in Batches : \E ps \in [1 .. n -> Packets] : Store(s, ps)
    /\ UNCHANGED <<connected, blocked, sessions, system_packet_queue_, timer, world>>

-----------------------------------------------------------------------------
(* SendPacketFunc and BroadCastSendPacketFunc *)

Hears(s) == connected[s] /\ ~blocked[s]

\* SendPacketFunc does not ask whether the slot is connected: a message to a
\* closed slot blocks its queue.
Sent(s) == blocked' = [blocked EXCEPT ![s] = @ \/ ~connected[s]]

Answer(s) == Sent(s) /\ UNCHANGED world

-----------------------------------------------------------------------------
(* Packet handlers *)

\* What the database says decides which answer it is.
ProcessLogin(s) == Answer(s)

ProcessSignup(s) == Answer(s)

\* Broadcast: only connected slots are sent the message, and it changes no player.
ProcessChatting == UNCHANGED <<blocked, world>>

ProocessPacketTest(s) == Answer(s)

\* Broadcast too, but only the client whose index it carries takes notice.
ProocessInGame(s) ==
    /\ client_info_array' = [client_info_array EXCEPT ![s].at = Spawn]
    /\ entered' = entered \cup {s}
    /\ UNCHANGED <<blocked, asked, view>>

\* Every connected client is told where s is.
TellPosition(s, to) ==
    view' = [c \in Slots |-> IF Hears(c) /\ c # s THEN [view[c] EXCEPT ![s] = to] ELSE view[c]]

\* Faulty variant: the move is passed on and not stored.
PlayerMoveUnsaved(s, to) ==
    /\ client_info_array' = [client_info_array EXCEPT ![s].in_game_connect = TRUE]
    /\ TellPosition(s, to)
    /\ entered' = entered \ {s}
    /\ UNCHANGED <<blocked, asked>>

ProocessPlayerMove(s, to) ==
    /\ client_info_array' =
            [client_info_array EXCEPT ![s] = [at |-> to, in_game_connect |-> TRUE]]
    /\ TellPosition(s, to)
    /\ entered' = entered \ {s}
    /\ UNCHANGED <<blocked, asked>>

\* The players s is told of.
Reported(s) == {p \in Slots \ {s} : client_info_array[p].in_game_connect}

ProocessRemotePlayerInit(s) ==
    /\ IF Reported(s) # {} THEN Sent(s) ELSE UNCHANGED blocked
    /\ asked' = IF Hears(s) THEN asked \cup {s} ELSE asked
    /\ view' = [view EXCEPT ![s] = [p \in Slots |->
            IF Hears(s) /\ p \in Reported(s) THEN client_info_array[p].at ELSE view[s][p]]]
    /\ UNCHANGED <<client_info_array, entered>>

\* Sent to the slot of the actor that was hit, connected or not.
ProocessInPlayerDamage(whom) == Answer(whom)

\* ProcessRecvPacket: recv_funtion_dictionary_[packet_id] of a data packet.
ProcessRecvPacket(s, p) ==
    \/ p.op = "LOGIN" /\ ProcessLogin(s)
    \/ p.op = "SIGNIN" /\ ProcessSignup(s)
    \/ p.op = "CHAT" /\ ProcessChatting
    \/ p.op = "TEST" /\ ProocessPacketTest(s)
    \/ p.op = "IN_GAME" /\ ProocessInGame(s)
    \/ p.op = "MOVE" /\ ProocessPlayerMove(s, p.to)
    \/ p.op = "REMOTE" /\ ProocessRemotePlayerInit(s)
    \/ p.op = "DAMAGE" /\ ProocessInPlayerDamage(p.whom)

-----------------------------------------------------------------------------
(* TimerProcessPacket *)

\* Faulty variant: the system queue is looked at when there was no data only.
TakeDataOnly ==
    /\ timer = "data"
    /\ incoming # <<>>
    /\ LET s == Head(incoming) IN
        /\ unread[s] # <<>>
        /\ ProcessRecvPacket(s, Head(unread[s]))
        /\ unread' = [unread EXCEPT ![s] = Tail(@)]
    /\ incoming' = Tail(incoming)
    /\ UNCHANGED <<connected, closing, sessions, system_packet_queue_, timer>>

\* Faulty variant: the packets behind the one that is handled are dropped.
TakeDataLast ==
    /\ timer = "data"
    /\ incoming # <<>>
    /\ LET s == Head(incoming) IN
        /\ unread[s] # <<>>
        /\ ProcessRecvPacket(s, Head(unread[s]))
        /\ unread' = [unread EXCEPT ![s] = <<>>]
    /\ incoming' = Tail(incoming)
    /\ timer' = "system"
    /\ UNCHANGED <<connected, closing, sessions, system_packet_queue_>>

\* DequePacketData takes one entry and one packet of that slot.
TakeData ==
    /\ timer = "data"
    /\ incoming # <<>>
    /\ LET s == Head(incoming) IN
        /\ unread[s] # <<>>
        /\ ProcessRecvPacket(s, Head(unread[s]))
        /\ unread' = [unread EXCEPT ![s] = Tail(@)]
    /\ incoming' = Tail(incoming)
    /\ timer' = "system"
    /\ UNCHANGED <<connected, closing, sessions, system_packet_queue_>>

\* No entry, or an entry of a slot without a packet.
TakeNoData ==
    /\ timer = "data"
    /\ incoming # <<>> => unread[Head(incoming)] = <<>>
    /\ incoming' = IF incoming = <<>> THEN <<>> ELSE Tail(incoming)
    /\ timer' = "system"
    /\ UNCHANGED <<session, unread, system_packet_queue_, world>>

\* ClearConnectionInfo: the domain state is NONE, because no code sets another,
\* so the user is left as it is.
ProcessUserDisConnect(s) == UNCHANGED unread

\* DequeSystemPacketData.  No handler has the number PACKET_CHATNAME_REQ.
TakeSystem ==
    /\ timer = "system"
    /\ system_packet_queue_ # <<>>
    /\ LET p == Head(system_packet_queue_) IN
        \/ p.id = "SYS_USER_DISCONNECT" /\ ProcessUserDisConnect(p.slot)
        \/ p.id = "PACKET_CHATNAME_REQ" /\ UNCHANGED unread
    /\ system_packet_queue_' = Tail(system_packet_queue_)
    /\ timer' = "data"
    /\ UNCHANGED <<session, incoming, world>>

TakeNoSystem ==
    /\ timer = "system"
    /\ system_packet_queue_ = <<>>
    /\ timer' = "data"
    /\ UNCHANGED <<session, queues, world>>

TimerProcessPacket == TakeData \/ TakeNoData \/ TakeSystem \/ TakeNoSystem

Next ==
    \/ \E s \in Slots :
        Connect(s) \/ Disconnect(s) \/ CloseAgain(s) \/ Refuse(s) \/ Receive(s)
    \/ TimerProcessPacket

Spec == Init /\ [][Next]_vars

\* The engine calls the timer 120 times a second.
FairSpec == Spec /\ WF_vars(TimerProcessPacket)

-----------------------------------------------------------------------------
(* Properties *)

\* The types of the members of UTeemoGameInstance.
TypeOK ==
    /\ connected \in [Slots -> BOOLEAN]
    /\ blocked \in [Slots -> BOOLEAN]
    /\ closing \subseteq Slots
    /\ sessions \in 0 .. MaxSessions
    /\ unread \in [Slots -> Seq(Packets)]
    /\ incoming \in Seq(Slots)
    /\ system_packet_queue_ \in Seq(SystemPackets)
    /\ timer \in {"data", "system"}
    /\ client_info_array \in [Slots -> [at : Positions, in_game_connect : BOOLEAN]]
    /\ asked \subseteq Slots
    /\ entered \subseteq Slots
    /\ view \in [Slots -> [Slots -> Positions \cup {Unknown}]]

\* A client that has asked for the other players (ProocessRemotePlayerInit) and is
\* sent every move since (ProocessPlayerMove) knows of each player in the game the
\* position the server has stored, unless that player has just entered again and
\* not moved: whatever the order of requests, moves, disconnects and slots used
\* again.
ViewsAgree ==
    \A c, p \in Slots :
        /\ c # p
        /\ Hears(c)
        /\ c \in asked
        /\ client_info_array[p].in_game_connect
        /\ p \notin entered
        => client_info_array[p].at = view[c][p]

Box(s) == INSTANCE Inbox WITH unread <- Len(unread[s]), entries <- Cardinality(EntriesOf(s))

\* Each client has an inbox of its own although one queue of entries serves them all:
\* no packet is taken without an entry of its client, and none for two entries.
RefinesInbox ==
    /\ \A s \in Slots : Box(s)!Init
    /\ [][\A s \in Slots :
            [Box(s)!Next]_<<Len(unread[s]), Cardinality(EntriesOf(s))>>]_<<unread, incoming>>

\* DequePacketData takes an entry of s.
Served(s) == incoming # <<>> /\ Head(incoming) = s /\ (TakeData \/ TakeNoData)

\* No client's entries stay in the index queue for ever while the others' are taken
\* (TimerProcessPacket takes one entry a tick, EnqueuePacketData adds at the back).
EveryClientServed ==
    \A s \in Slots : []<>(~Contains(incoming, s)) \/ []<><<Served(s)>>_vars

\* However many packets come in, every disconnect is taken from its queue, one that
\* two workers announced twice included (TimerProcessPacket looks at both queues
\* each tick).
DisconnectsTaken ==
    \A s \in Slots :
        LET Announced == Contains(system_packet_queue_, [id |-> "SYS_USER_DISCONNECT", slot |-> s])
        IN Announced ~> ~Announced

=============================================================================
