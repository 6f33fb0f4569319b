---------------------------- MODULE GameClient_proofs ----------------------------
(* What is proved about GameClient, for any clients, places and number of packets. *)
EXTENDS GameClient, SequenceTheorems, TLAPS

Settled == thread \notin {"game header", "game rest", "game push"}

\* The thread runs from Server_Connect to the join, and outlives every timer.
ThreadKnows ==
    /\ (rece_thread = "none") <=> (thread = "none")
    /\ (rece_thread = "running") <=> (sock = "open")
    /\ rece_thread = "joined" => thread = "ended"
    /\ recevie_connected <=> (game.in \notin {"join", "over"})
    /\ thread = "ended" => ~recevie_connected

\* A queue with something in it was filled by a thread that had copied a packet.
QueueKnows ==
    /\ thread = "none" => /\ receive_header_check_data_queue = << >>
                          /\ receive_ingame_moveinfo_data_queue = << >>
    /\ thread = "push" => Login_data \in Data
    /\ receive_header_check_data_queue # << >> => Login_data \in Data
    /\ game.in = "login" => receive_header_check_data_queue # << >>
    /\ thread = "game push" => in_game_move_data_ = client_buffer_
    /\ receive_ingame_moveinfo_data_queue # << >> => in_game_move_data_ \in Data
    /\ game.in = "in game" => receive_ingame_moveinfo_data_queue # << >>

\* While the thread does not write the variable it holds the last packet pushed, which
\* is waiting, being acted on, or was acted on last.
MoveKnows ==
    Settled =>
        /\ receive_ingame_moveinfo_data_queue # << >> => in_game_move_data_ = pushed
        /\ game.in = "in game" => game.id = pushed.id
        /\ (receive_ingame_moveinfo_data_queue = << >> /\ game.in # "in game")
            => shown = <<pushed.id, pushed>>

IInv == TypeOK /\ ThreadKnows /\ QueueKnows /\ MoveKnows

-----------------------------------------------------------------------------

Ids == LoginIds \cup GameIds

\* Packets, whole or cut, are packets; what was never written is none.
LEMMA DataFacts ==
    /\ Zeroed \in Data /\ Garbage \notin Data
    /\ Garbage.who \in Clients /\ Garbage.at \in Places
    /\ \A p \in Data : p.id \in Ids /\ p.who \in Clients /\ p.at \in Places
    /\ \A p \in Data, a \in Places : [p EXCEPT !.at = a] \in Data
    /\ \A id \in Ids : Packet(id, 0, Origin) \in Data
<1>1. Zeroed \in Data /\ Garbage \notin Data
  BY ClientAssumption DEF Zeroed, Packet, Garbage, Data, LoginIds, GameIds
<1>2. Garbage.who \in Clients /\ Garbage.at \in Places
  BY ClientAssumption DEF Garbage
<1>3. \A p \in Data : p.id \in Ids /\ p.who \in Clients /\ p.at \in Places
  BY DEF Data, Ids
<1>4. \A p \in Data, a \in Places : [p EXCEPT !.at = a] \in Data
  BY DEF Data
<1>5. \A id \in Ids : Packet(id, 0, Origin) \in Data
  BY ClientAssumption DEF Packet, Data, Ids
<1>6. QED
  BY <1>1, <1>2, <1>3, <1>4, <1>5

\* What the server may send is a packet.
LEMMA SendableType == TypeOK => Sendable \subseteq Data
<1> SUFFICES ASSUME TypeOK, NEW p \in Sendable PROVE p \in Data
  OBVIOUS
<1>1. CASE \/ p \in [id : {"IN_GAME_SUCCESS"}, who : Clients \ {Me}, at : Places \ {Origin}]
           \/ p \in [id : {"IN_GAME_MOVE_END"}, who : Clients, at : Places \ {Origin}]
  BY <1>1 DEF Data, GameIds
<1>2. CASE p \in [id : {"IN_GAME_REMOTE_RESPONSE"}, who : Clients \ {Me}, at : Places \ {Origin}]
  BY <1>2 DEF Data, GameIds
<1>3. CASE \E id \in LoginIds \cup GameIds, who \in {0, Me}, at \in Places : p = Packet(id, who, at)
  BY <1>3, ClientAssumption DEF Packet, Data
<1>4. QED
  BY <1>1, <1>2, <1>3, ClientAssumption DEF Sendable, LoginIds, GameIds

\* The parts of the types.
LinkType ==
    /\ sock \in {"none", "open", "closed"}
    /\ rece_thread \in {"none", "running", "joined"}
    /\ recevie_connected \in BOOLEAN /\ client_check \in BOOLEAN
NetworkType ==
    /\ wire \in Seq([part : {"header", "rest"}, of : Data])
    /\ sent \in 0 .. MaxPackets
    /\ asked \subseteq {"LOGIN_REQUEST", "IN_GAME_REQUEST", "IN_GAME_REMOTE_REQUEST"}
LocalsType ==
    /\ thread \in Steps
    /\ client_buffer_ \in Data
    /\ Login_data \in Data \cup {Garbage} /\ in_game_move_data_ \in Data \cup {Garbage}
QueuesType ==
    /\ receive_header_check_data_queue \in Seq(Data)
    /\ receive_ingame_moveinfo_data_queue \in Seq(Data)
    /\ pushed \in Data
GameType ==
    game \in [in : {"idle", "connect", "login", "in game", "join", "over"}, id : Ids]
LevelType ==
    /\ client_index_ \in Clients
    /\ in_game_ \in BOOLEAN /\ client_index \in Clients
    /\ shown \in Ids \X (Data \cup {Garbage})
    /\ hp \in 1 .. 3
    /\ remote \in [Clients -> Places]

LEMMA TypeParts ==
    TypeOK <=> LinkType /\ NetworkType /\ LocalsType /\ QueuesType /\ GameType /\ LevelType
BY DEF TypeOK, Ids, LinkType, NetworkType, LocalsType, QueuesType, GameType, LevelType

\* Pushing and popping.
LEMMA SeqFacts ==
    ASSUME NEW q \in Seq(Data)
    PROVE  /\ \A p \in Data : Append(q, p) \in Seq(Data) /\ Append(q, p) # << >>
           /\ q # << >> => Tail(q) \in Seq(Data)
<1>1. \A p \in Data : Append(q, p) \in Seq(Data) /\ Append(q, p) # << >>
  BY AppendProperties
<1>2. q # << >> => Tail(q) \in Seq(Data)
  BY HeadTailProperties
<1>3. QED
  BY <1>1, <1>2

LEMMA IdFacts == "0" \in Ids /\ Idle.in = "idle" /\ Idle.id = "0"
BY DEF Ids, LoginIds, Idle

LEMMA InitInv == Init => IInv
<1> SUFFICES ASSUME Init PROVE IInv
  OBVIOUS
<1>1. TypeOK
  <2>1. LinkType
    BY DEF Init, LinkType
  <2>7. NetworkType
    <3>1. << >> \in Seq([part : {"header", "rest"}, of : Data])
      OBVIOUS
    <3>2. QED
      BY <3>1, ClientAssumption DEF Init, NetworkType
  <2>6. QueuesType
    BY DataFacts DEF Init, QueuesType
  <2>2. LocalsType
    BY DataFacts DEF Init, LocalsType, Steps
  <2>3. GameType
    BY IdFacts DEF Init, GameType, Idle
  <2>4. LevelType
    <3>1. shown \in Ids \X (Data \cup {Garbage})
      BY DataFacts, IdFacts DEF Init
    <3>2. QED
      BY <3>1, ClientAssumption DEF Init, LevelType
  <2>5. QED
    BY <2>1, <2>2, <2>3, <2>4, <2>6, <2>7, TypeParts
<1>2. ThreadKnows
  BY DEF Init, ThreadKnows, Idle
<1>3. QueueKnows
  BY DEF Init, QueueKnows, Idle
<1>4. MoveKnows
  BY DEF Init, MoveKnows, Idle, Zeroed, Packet
<1>5. QED
  BY <1>1, <1>2, <1>3, <1>4 DEF IInv

\* The thread is started.
LEMMA ServerConnectStep == IInv /\ Server_Connect => IInv'
<1> SUFFICES ASSUME IInv, Server_Connect PROVE IInv'
  OBVIOUS
<1> USE DEF link, network, queues, locals, level
<1>1. TypeOK'
  <2>. /\ LinkType /\ NetworkType /\ LocalsType /\ QueuesType /\ GameType /\ LevelType
       /\ QueueKnows
    BY TypeParts DEF IInv
  <2>1. LinkType'
    BY DEF LinkType, Server_Connect, Idle
  <2>2. NetworkType'
    BY DEF NetworkType, Server_Connect, Idle
  <2>3. LocalsType'
    BY DataFacts, ClientAssumption DEF LocalsType, Steps, Server_Connect, Idle
  <2>4. QueuesType'
    BY SeqFacts DEF QueuesType, LocalsType, QueueKnows, Server_Connect, Idle
  <2>5. GameType'
    BY DataFacts, IdFacts DEF GameType, QueueKnows, Server_Connect, Idle
  <2>6. LevelType'
    BY DataFacts, ClientAssumption DEF LevelType, LocalsType, GameType, Server_Connect, Idle
  <2>7. QED
    BY <2>1, <2>2, <2>3, <2>4, <2>5, <2>6
       DEF TypeOK, Ids, LinkType, NetworkType, LocalsType, QueuesType, GameType, LevelType
<1>2. ThreadKnows'
  BY DEF IInv, ThreadKnows, Server_Connect, Idle
<1>3. QueueKnows'
  BY DataFacts, ClientAssumption DEF IInv, QueueKnows, ThreadKnows, TypeOK, Server_Connect, Idle
<1>4. MoveKnows'
  BY DataFacts, SeqFacts DEF IInv, MoveKnows, QueueKnows, ThreadKnows, TypeOK, Settled, Server_Connect, Idle
<1>5. QED
  BY <1>1, <1>2, <1>3, <1>4 DEF IInv

\* client_check is set after it.
LEMMA ConnectedStep == IInv /\ Connected => IInv'
<1> SUFFICES ASSUME IInv, Connected PROVE IInv'
  OBVIOUS
<1> USE DEF link, network, queues, locals, level
<1>1. TypeOK'
  <2>. /\ LinkType /\ NetworkType /\ LocalsType /\ QueuesType /\ GameType /\ LevelType
       /\ QueueKnows
    BY TypeParts DEF IInv
  <2>1. LinkType'
    BY DEF LinkType, Connected, Idle
  <2>2. NetworkType'
    BY DEF NetworkType, Connected, Idle
  <2>3. LocalsType'
    BY DataFacts, ClientAssumption DEF LocalsType, Steps, Connected, Idle
  <2>4. QueuesType'
    BY SeqFacts DEF QueuesType, LocalsType, QueueKnows, Connected, Idle
  <2>5. GameType'
    BY DataFacts, IdFacts DEF GameType, QueueKnows, Connected, Idle
  <2>6. LevelType'
    BY DataFacts, ClientAssumption DEF LevelType, LocalsType, GameType, Connected, Idle
  <2>7. QED
    BY <2>1, <2>2, <2>3, <2>4, <2>5, <2>6
       DEF TypeOK, Ids, LinkType, NetworkType, LocalsType, QueuesType, GameType, LevelType
<1>2. ThreadKnows'
  BY DEF IInv, ThreadKnows, Connected, Idle
<1>3. QueueKnows'
  BY DataFacts, ClientAssumption DEF IInv, QueueKnows, ThreadKnows, TypeOK, Connected, Idle
<1>4. MoveKnows'
  BY DataFacts, SeqFacts DEF IInv, MoveKnows, QueueKnows, ThreadKnows, TypeOK, Settled, Connected, Idle
<1>5. QED
  BY <1>1, <1>2, <1>3, <1>4 DEF IInv

\* A login is asked for.
LEMMA SetLoginInfoStep == IInv /\ SetLoginInfo => IInv'
<1> SUFFICES ASSUME IInv, SetLoginInfo PROVE IInv'
  OBVIOUS
<1> USE DEF link, network, queues, locals, level
<1>1. TypeOK'
  <2>. /\ LinkType /\ NetworkType /\ LocalsType /\ QueuesType /\ GameType /\ LevelType
       /\ QueueKnows
    BY TypeParts DEF IInv
  <2>1. LinkType'
    BY DEF LinkType, SetLoginInfo, Idle
  <2>2. NetworkType'
    BY DEF NetworkType, SetLoginInfo, Idle
  <2>3. LocalsType'
    BY DataFacts, ClientAssumption DEF LocalsType, Steps, SetLoginInfo, Idle
  <2>4. QueuesType'
    BY SeqFacts DEF QueuesType, LocalsType, QueueKnows, SetLoginInfo, Idle
  <2>5. GameType'
    BY DataFacts, IdFacts DEF GameType, QueueKnows, SetLoginInfo, Idle
  <2>6. LevelType'
    BY DataFacts, ClientAssumption DEF LevelType, LocalsType, GameType, SetLoginInfo, Idle
  <2>7. QED
    BY <2>1, <2>2, <2>3, <2>4, <2>5, <2>6
       DEF TypeOK, Ids, LinkType, NetworkType, LocalsType, QueuesType, GameType, LevelType
<1>2. ThreadKnows'
  BY DEF IInv, ThreadKnows, SetLoginInfo, Idle
<1>3. QueueKnows'
  BY DataFacts, ClientAssumption DEF IInv, QueueKnows, ThreadKnows, TypeOK, SetLoginInfo, Idle
<1>4. MoveKnows'
  BY DataFacts, SeqFacts DEF IInv, MoveKnows, QueueKnows, ThreadKnows, TypeOK, Settled, SetLoginInfo, Idle
<1>5. QED
  BY <1>1, <1>2, <1>3, <1>4 DEF IInv

\* The flag is cleared.
LEMMA ShutdownStep == IInv /\ Client_Shutdown => IInv'
<1> SUFFICES ASSUME IInv, Client_Shutdown PROVE IInv'
  OBVIOUS
<1> USE DEF link, network, queues, locals, level
<1>1. TypeOK'
  <2>. /\ LinkType /\ NetworkType /\ LocalsType /\ QueuesType /\ GameType /\ LevelType
       /\ QueueKnows
    BY TypeParts DEF IInv
  <2>1. LinkType'
    BY DEF LinkType, Client_Shutdown, Idle
  <2>2. NetworkType'
    BY DEF NetworkType, Client_Shutdown, Idle
  <2>3. LocalsType'
    BY DataFacts, ClientAssumption DEF LocalsType, Steps, Client_Shutdown, Idle
  <2>4. QueuesType'
    BY SeqFacts DEF QueuesType, LocalsType, QueueKnows, Client_Shutdown, Idle
  <2>5. GameType'
    BY DataFacts, IdFacts DEF GameType, QueueKnows, Client_Shutdown, Idle
  <2>6. LevelType'
    BY DataFacts, ClientAssumption DEF LevelType, LocalsType, GameType, Client_Shutdown, Idle
  <2>7. QED
    BY <2>1, <2>2, <2>3, <2>4, <2>5, <2>6
       DEF TypeOK, Ids, LinkType, NetworkType, LocalsType, QueuesType, GameType, LevelType
<1>2. ThreadKnows'
  BY DEF IInv, ThreadKnows, Client_Shutdown, Idle
<1>3. QueueKnows'
  BY DataFacts, ClientAssumption DEF IInv, QueueKnows, ThreadKnows, TypeOK, Client_Shutdown, Idle
<1>4. MoveKnows'
  BY DataFacts, SeqFacts DEF IInv, MoveKnows, QueueKnows, ThreadKnows, TypeOK, Settled, Client_Shutdown, Idle
<1>5. QED
  BY <1>1, <1>2, <1>3, <1>4 DEF IInv

\* The thread is joined and the socket closed.
LEMMA JoinedStep == IInv /\ Joined => IInv'
<1> SUFFICES ASSUME IInv, Joined PROVE IInv'
  OBVIOUS
<1> USE DEF link, network, queues, locals, level
<1>1. TypeOK'
  <2>. /\ LinkType /\ NetworkType /\ LocalsType /\ QueuesType /\ GameType /\ LevelType
       /\ QueueKnows
    BY TypeParts DEF IInv
  <2>1. LinkType'
    BY DEF LinkType, Joined
  <2>2. NetworkType'
    BY DEF NetworkType, Joined
  <2>3. LocalsType'
    BY DataFacts, ClientAssumption DEF LocalsType, Steps, Joined
  <2>4. QueuesType'
    BY SeqFacts DEF QueuesType, LocalsType, QueueKnows, Joined
  <2>5. GameType'
    BY DataFacts, IdFacts DEF GameType, QueueKnows, Joined
  <2>6. LevelType'
    BY DataFacts, ClientAssumption DEF LevelType, LocalsType, GameType, Joined
  <2>7. QED
    BY <2>1, <2>2, <2>3, <2>4, <2>5, <2>6
       DEF TypeOK, Ids, LinkType, NetworkType, LocalsType, QueuesType, GameType, LevelType
<1>2. ThreadKnows'
  BY DEF IInv, ThreadKnows, Joined
<1>3. QueueKnows'
  BY DataFacts, ClientAssumption DEF IInv, QueueKnows, ThreadKnows, TypeOK, Joined
<1>4. MoveKnows'
  BY DataFacts, SeqFacts DEF IInv, MoveKnows, QueueKnows, ThreadKnows, TypeOK, Settled, Joined
<1>5. QED
  BY <1>1, <1>2, <1>3, <1>4 DEF IInv

\* The thread ends.
LEMMA EndStep == IInv /\ End => IInv'
<1> SUFFICES ASSUME IInv, End PROVE IInv'
  OBVIOUS
<1> USE DEF link, network, queues, locals, level
<1>1. TypeOK'
  <2>. /\ LinkType /\ NetworkType /\ LocalsType /\ QueuesType /\ GameType /\ LevelType
       /\ QueueKnows
    BY TypeParts DEF IInv
  <2>1. LinkType'
    BY DEF LinkType, End, Step
  <2>2. NetworkType'
    BY DEF NetworkType, End, Step
  <2>3. LocalsType'
    BY DataFacts, ClientAssumption DEF LocalsType, Steps, End, Step
  <2>4. QueuesType'
    BY SeqFacts DEF QueuesType, LocalsType, QueueKnows, End, Step
  <2>5. GameType'
    BY DataFacts, IdFacts DEF GameType, QueueKnows, End, Step
  <2>6. LevelType'
    BY DataFacts, ClientAssumption DEF LevelType, LocalsType, GameType, End, Step
  <2>7. QED
    BY <2>1, <2>2, <2>3, <2>4, <2>5, <2>6
       DEF TypeOK, Ids, LinkType, NetworkType, LocalsType, QueuesType, GameType, LevelType
<1>2. ThreadKnows'
  BY DEF IInv, ThreadKnows, End, Step
<1>3. QueueKnows'
  BY DataFacts, ClientAssumption DEF IInv, QueueKnows, ThreadKnows, TypeOK, End, Step
<1>4. MoveKnows'
  BY DataFacts, SeqFacts DEF IInv, MoveKnows, QueueKnows, ThreadKnows, TypeOK, Settled, End, Step
<1>5. QED
  BY <1>1, <1>2, <1>3, <1>4 DEF IInv

\* The thread copies a packet.
LEMMA CopyLoginStep == IInv /\ CopyLogin => IInv'
<1> SUFFICES ASSUME IInv, CopyLogin PROVE IInv'
  OBVIOUS
<1> USE DEF link, network, queues, locals, level
<1>1. TypeOK'
  <2>. /\ LinkType /\ NetworkType /\ LocalsType /\ QueuesType /\ GameType /\ LevelType
       /\ QueueKnows
    BY TypeParts DEF IInv
  <2>1. LinkType'
    BY DEF LinkType, CopyLogin, Step
  <2>2. NetworkType'
    BY DEF NetworkType, CopyLogin, Step
  <2>3. LocalsType'
    BY DataFacts, ClientAssumption DEF LocalsType, Steps, CopyLogin, Step
  <2>4. QueuesType'
    BY SeqFacts DEF QueuesType, LocalsType, QueueKnows, CopyLogin, Step
  <2>5. GameType'
    BY DataFacts, IdFacts DEF GameType, QueueKnows, CopyLogin, Step
  <2>6. LevelType'
    BY DataFacts, ClientAssumption DEF LevelType, LocalsType, GameType, CopyLogin, Step
  <2>7. QED
    BY <2>1, <2>2, <2>3, <2>4, <2>5, <2>6
       DEF TypeOK, Ids, LinkType, NetworkType, LocalsType, QueuesType, GameType, LevelType
<1>2. ThreadKnows'
  BY DEF IInv, ThreadKnows, CopyLogin, Step
<1>3. QueueKnows'
  <2>1. Login_data' \in Data
    <3>1. client_buffer_ \in Data /\ Origin \in Places
      BY ClientAssumption DEF IInv, TypeOK
    <3>2. [client_buffer_ EXCEPT !.at = Origin] \in Data /\ Zeroed \in Data
      BY <3>1, DataFacts
    <3>3. QED
      BY <3>1, <3>2 DEF CopyLogin
  <2>2. thread' \notin {"none", "game push"} /\ UNCHANGED <<in_game_move_data_, client_buffer_, queues, game>>
    BY DEF CopyLogin, Step
  <2>3. QED
    BY <2>1, <2>2 DEF IInv, QueueKnows
<1>4. MoveKnows'
  BY DataFacts, SeqFacts DEF IInv, MoveKnows, QueueKnows, ThreadKnows, TypeOK, Settled, CopyLogin, Step
<1>5. QED
  BY <1>1, <1>2, <1>3, <1>4 DEF IInv

\* ... and, for the other queue, once more.
LEMMA CopyInGameStep == IInv /\ CopyInGame => IInv'
<1> SUFFICES ASSUME IInv, CopyInGame PROVE IInv'
  OBVIOUS
<1> USE DEF link, network, queues, locals, level
<1>1. TypeOK'
  <2>. /\ LinkType /\ NetworkType /\ LocalsType /\ QueuesType /\ GameType /\ LevelType
       /\ QueueKnows
    BY TypeParts DEF IInv
  <2>1. LinkType'
    BY DEF LinkType, CopyInGame, Step
  <2>2. NetworkType'
    BY DEF NetworkType, CopyInGame, Step
  <2>3. LocalsType'
    BY DataFacts, ClientAssumption DEF LocalsType, Steps, CopyInGame, Step
  <2>4. QueuesType'
    BY SeqFacts DEF QueuesType, LocalsType, QueueKnows, CopyInGame, Step
  <2>5. GameType'
    BY DataFacts, IdFacts DEF GameType, QueueKnows, CopyInGame, Step
  <2>6. LevelType'
    BY DataFacts, ClientAssumption DEF LevelType, LocalsType, GameType, CopyInGame, Step
  <2>7. QED
    BY <2>1, <2>2, <2>3, <2>4, <2>5, <2>6
       DEF TypeOK, Ids, LinkType, NetworkType, LocalsType, QueuesType, GameType, LevelType
<1>2. ThreadKnows'
  BY DEF IInv, ThreadKnows, CopyInGame, Step
<1>3. QueueKnows'
  <2>1. in_game_move_data_' \in Data
    <3>1. client_buffer_ \in Data /\ Origin \in Places
      BY ClientAssumption DEF IInv, TypeOK
    <3>2. [client_buffer_ EXCEPT !.at = Origin] \in Data /\ Zeroed \in Data
      BY <3>1, DataFacts
    <3>3. QED
      BY <3>1, <3>2 DEF CopyInGame
  <2>2. /\ thread' \notin {"none", "push"} /\ UNCHANGED <<Login_data, client_buffer_, queues, game>>
        /\ thread' = "game push" => in_game_move_data_' = client_buffer_
    BY DEF CopyInGame, Step
  <2>3. QED
    BY <2>1, <2>2 DEF IInv, QueueKnows
<1>4. MoveKnows'
  BY DataFacts, SeqFacts DEF IInv, MoveKnows, QueueKnows, ThreadKnows, TypeOK, Settled, CopyInGame, Step
<1>5. QED
  BY <1>1, <1>2, <1>3, <1>4 DEF IInv

\* It pushes while no timer is at work.
LEMMA PushLoginStep == IInv /\ PushLogin => IInv'
<1> SUFFICES ASSUME IInv, PushLogin PROVE IInv'
  OBVIOUS
<1> USE DEF link, network, queues, locals, level
<1>1. TypeOK'
  <2>. /\ LinkType /\ NetworkType /\ LocalsType /\ QueuesType /\ GameType /\ LevelType
       /\ QueueKnows
    BY TypeParts DEF IInv
  <2>1. LinkType'
    BY DEF LinkType, PushLogin, Step, Unlocked
  <2>2. NetworkType'
    BY DEF NetworkType, PushLogin, Step, Unlocked
  <2>3. LocalsType'
    BY DataFacts, ClientAssumption DEF LocalsType, Steps, PushLogin, Step, Unlocked
  <2>4. QueuesType'
    BY SeqFacts DEF QueuesType, LocalsType, QueueKnows, PushLogin, Step, Unlocked
  <2>5. GameType'
    BY DataFacts, IdFacts DEF GameType, QueueKnows, PushLogin, Step, Unlocked
  <2>6. LevelType'
    BY DataFacts, ClientAssumption DEF LevelType, LocalsType, GameType, PushLogin, Step, Unlocked
  <2>7. QED
    BY <2>1, <2>2, <2>3, <2>4, <2>5, <2>6
       DEF TypeOK, Ids, LinkType, NetworkType, LocalsType, QueuesType, GameType, LevelType
<1>2. ThreadKnows'
  BY DEF IInv, ThreadKnows, PushLogin, Step, Unlocked
<1>3. QueueKnows'
  BY DataFacts, ClientAssumption DEF IInv, QueueKnows, ThreadKnows, TypeOK, PushLogin, Step, Unlocked
<1>4. MoveKnows'
  BY DataFacts, SeqFacts DEF IInv, MoveKnows, QueueKnows, ThreadKnows, TypeOK, Settled, PushLogin, Step, Unlocked
<1>5. QED
  BY <1>1, <1>2, <1>3, <1>4 DEF IInv

\* It pushes while no timer is at work.
LEMMA PushInGameStep == IInv /\ PushInGame => IInv'
<1> SUFFICES ASSUME IInv, PushInGame PROVE IInv'
  OBVIOUS
<1> USE DEF link, network, queues, locals, level
<1>1. TypeOK'
  <2>. /\ LinkType /\ NetworkType /\ LocalsType /\ QueuesType /\ GameType /\ LevelType
       /\ QueueKnows
    BY TypeParts DEF IInv
  <2>1. LinkType'
    BY DEF LinkType, PushInGame, Step, Unlocked
  <2>2. NetworkType'
    BY DEF NetworkType, PushInGame, Step, Unlocked
  <2>3. LocalsType'
    BY DataFacts, ClientAssumption DEF LocalsType, Steps, PushInGame, Step, Unlocked
  <2>4. QueuesType'
    BY SeqFacts DEF QueuesType, LocalsType, QueueKnows, PushInGame, Step, Unlocked
  <2>5. GameType'
    BY DataFacts, IdFacts DEF GameType, QueueKnows, PushInGame, Step, Unlocked
  <2>6. LevelType'
    BY DataFacts, ClientAssumption DEF LevelType, LocalsType, GameType, PushInGame, Step, Unlocked
  <2>7. QED
    BY <2>1, <2>2, <2>3, <2>4, <2>5, <2>6
       DEF TypeOK, Ids, LinkType, NetworkType, LocalsType, QueuesType, GameType, LevelType
<1>2. ThreadKnows'
  BY DEF IInv, ThreadKnows, PushInGame, Step, Unlocked
<1>3. QueueKnows'
  BY DataFacts, ClientAssumption DEF IInv, QueueKnows, ThreadKnows, TypeOK, PushInGame, Step, Unlocked
<1>4. MoveKnows'
  BY DataFacts, SeqFacts DEF IInv, MoveKnows, QueueKnows, ThreadKnows, TypeOK, Settled, PushInGame, Step, Unlocked
<1>5. QED
  BY <1>1, <1>2, <1>3, <1>4 DEF IInv

\* A timer reads an id.
LEMMA InspectLoginStep == IInv /\ InspectLogin => IInv'
<1> SUFFICES ASSUME IInv, InspectLogin PROVE IInv'
  OBVIOUS
<1> USE DEF link, network, queues, locals, level
<1>1. TypeOK'
  <2>. /\ LinkType /\ NetworkType /\ LocalsType /\ QueuesType /\ GameType /\ LevelType
       /\ QueueKnows
    BY TypeParts DEF IInv
  <2>1. LinkType'
    BY DEF LinkType, InspectLogin, Idle
  <2>2. NetworkType'
    BY DEF NetworkType, InspectLogin, Idle
  <2>3. LocalsType'
    BY DataFacts, ClientAssumption DEF LocalsType, Steps, InspectLogin, Idle
  <2>4. QueuesType'
    BY SeqFacts DEF QueuesType, LocalsType, QueueKnows, InspectLogin, Idle
  <2>5. GameType'
    BY DataFacts, IdFacts DEF GameType, QueueKnows, InspectLogin, Idle
  <2>6. LevelType'
    BY DataFacts, ClientAssumption DEF LevelType, LocalsType, GameType, InspectLogin, Idle
  <2>7. QED
    BY <2>1, <2>2, <2>3, <2>4, <2>5, <2>6
       DEF TypeOK, Ids, LinkType, NetworkType, LocalsType, QueuesType, GameType, LevelType
<1>2. ThreadKnows'
  BY DEF IInv, ThreadKnows, InspectLogin, Idle
<1>3. QueueKnows'
  BY DataFacts, ClientAssumption DEF IInv, QueueKnows, ThreadKnows, TypeOK, InspectLogin, Idle
<1>4. MoveKnows'
  BY DataFacts, SeqFacts DEF IInv, MoveKnows, QueueKnows, ThreadKnows, TypeOK, Settled, InspectLogin, Idle
<1>5. QED
  BY <1>1, <1>2, <1>3, <1>4 DEF IInv

\* A timer reads an id.
LEMMA InspectInGameStep == IInv /\ InspectInGame => IInv'
<1> SUFFICES ASSUME IInv, InspectInGame PROVE IInv'
  OBVIOUS
<1> USE DEF link, network, queues, locals, level
<1>1. TypeOK'
  <2>. /\ LinkType /\ NetworkType /\ LocalsType /\ QueuesType /\ GameType /\ LevelType
       /\ QueueKnows
    BY TypeParts DEF IInv
  <2>1. LinkType'
    BY DEF LinkType, InspectInGame, Idle
  <2>2. NetworkType'
    BY DEF NetworkType, InspectInGame, Idle
  <2>3. LocalsType'
    BY DataFacts, ClientAssumption DEF LocalsType, Steps, InspectInGame, Idle
  <2>4. QueuesType'
    BY SeqFacts DEF QueuesType, LocalsType, QueueKnows, InspectInGame, Idle
  <2>5. GameType'
    BY DataFacts, IdFacts DEF GameType, QueueKnows, InspectInGame, Idle
  <2>6. LevelType'
    BY DataFacts, ClientAssumption DEF LevelType, LocalsType, GameType, InspectInGame, Idle
  <2>7. QED
    BY <2>1, <2>2, <2>3, <2>4, <2>5, <2>6
       DEF TypeOK, Ids, LinkType, NetworkType, LocalsType, QueuesType, GameType, LevelType
<1>2. ThreadKnows'
  BY DEF IInv, ThreadKnows, InspectInGame, Idle
<1>3. QueueKnows'
  BY DataFacts, ClientAssumption DEF IInv, QueueKnows, ThreadKnows, TypeOK, InspectInGame, Idle
<1>4. MoveKnows'
  BY DataFacts, SeqFacts DEF IInv, MoveKnows, QueueKnows, ThreadKnows, TypeOK, Settled, InspectInGame, Idle
<1>5. QED
  BY <1>1, <1>2, <1>3, <1>4 DEF IInv

\* A timer acts on what the login queue points to.
LEMMA LoginTimerStep == IInv /\ ClientTimerLoginAndChatProcessPacket => IInv'
<1> SUFFICES ASSUME IInv, ClientTimerLoginAndChatProcessPacket PROVE IInv'
  OBVIOUS
<1> USE DEF link, network, queues, locals, level
<1>1. TypeOK'
  <2>. /\ LinkType /\ NetworkType /\ LocalsType /\ QueuesType /\ GameType /\ LevelType
       /\ QueueKnows
    BY TypeParts DEF IInv
  <2>1. LinkType'
    BY DEF LinkType, ClientTimerLoginAndChatProcessPacket, InGameConnect, Idle
  <2>2. NetworkType'
    BY DEF NetworkType, ClientTimerLoginAndChatProcessPacket, InGameConnect, Idle
  <2>3. LocalsType'
    BY DataFacts, ClientAssumption DEF LocalsType, Steps, ClientTimerLoginAndChatProcessPacket, InGameConnect, Idle
  <2>4. QueuesType'
    BY SeqFacts DEF QueuesType, LocalsType, QueueKnows, ClientTimerLoginAndChatProcessPacket, InGameConnect, Idle
  <2>5. GameType'
    BY DataFacts, IdFacts DEF GameType, QueueKnows, ClientTimerLoginAndChatProcessPacket, InGameConnect, Idle
  <2>6. LevelType'
    BY DataFacts, ClientAssumption DEF LevelType, LocalsType, GameType, ClientTimerLoginAndChatProcessPacket, InGameConnect, Idle
  <2>7. QED
    BY <2>1, <2>2, <2>3, <2>4, <2>5, <2>6
       DEF TypeOK, Ids, LinkType, NetworkType, LocalsType, QueuesType, GameType, LevelType
<1>2. ThreadKnows'
  BY DEF IInv, ThreadKnows, ClientTimerLoginAndChatProcessPacket, InGameConnect, Idle
<1>3. QueueKnows'
  BY DataFacts, ClientAssumption DEF IInv, QueueKnows, ThreadKnows, TypeOK, ClientTimerLoginAndChatProcessPacket, InGameConnect, Idle
<1>4. MoveKnows'
  BY DataFacts, SeqFacts DEF IInv, MoveKnows, QueueKnows, ThreadKnows, TypeOK, Settled, ClientTimerLoginAndChatProcessPacket, InGameConnect, Idle
<1>5. QED
  BY <1>1, <1>2, <1>3, <1>4 DEF IInv

\* A timer acts on what the in-game queue points to.
LEMMA InGameTimerStep == IInv /\ ClientTimerInGameProcessPacket => IInv'
<1> SUFFICES ASSUME IInv, ClientTimerInGameProcessPacket PROVE IInv'
  OBVIOUS
<1> USE DEF link, network, queues, locals, level
<1>1. TypeOK'
  <2>. /\ LinkType /\ NetworkType /\ LocalsType /\ QueuesType /\ GameType /\ LevelType
       /\ QueueKnows
    BY TypeParts DEF IInv
  <2>1. LinkType'
    BY DEF LinkType, ClientTimerInGameProcessPacket, Dispatch, SetPositionInit, RemoteTeemoMoveChange, OnHitEvent, Idle
  <2>2. NetworkType'
    BY DEF NetworkType, ClientTimerInGameProcessPacket, Dispatch, SetPositionInit, RemoteTeemoMoveChange, OnHitEvent, Idle
  <2>3. LocalsType'
    BY DataFacts, ClientAssumption DEF LocalsType, Steps, ClientTimerInGameProcessPacket, Dispatch, SetPositionInit, RemoteTeemoMoveChange, OnHitEvent, Idle
  <2>4. QueuesType'
    BY SeqFacts DEF QueuesType, LocalsType, QueueKnows, ClientTimerInGameProcessPacket, Dispatch, SetPositionInit, RemoteTeemoMoveChange, OnHitEvent, Idle
  <2>5. GameType'
    BY DataFacts, IdFacts DEF GameType, QueueKnows, ClientTimerInGameProcessPacket, Dispatch, SetPositionInit, RemoteTeemoMoveChange, OnHitEvent, Idle
  <2>6. LevelType'
    <3>1. shown' \in Ids \X (Data \cup {Garbage})
      BY DEF LocalsType, GameType, ClientTimerInGameProcessPacket
    <3>2. in_game_move_data_.who \in Clients /\ in_game_move_data_.at \in Places
      BY DataFacts DEF LocalsType
    <3>3. CASE SetPositionInit(in_game_move_data_)
      BY <3>1, <3>2, <3>3 DEF LevelType, SetPositionInit
    <3>4. CASE RemoteTeemoMoveChange(in_game_move_data_)
      BY <3>1, <3>2, <3>4 DEF LevelType, RemoteTeemoMoveChange
    <3>5. CASE OnHitEvent
      BY <3>1, <3>5 DEF LevelType, OnHitEvent
    <3>6. CASE UNCHANGED <<asked, client_index_, in_game_, client_index, hp, remote>>
      BY <3>1, <3>6 DEF LevelType
    <3>7. QED
      BY <3>3, <3>4, <3>5, <3>6 DEF ClientTimerInGameProcessPacket, Dispatch
  <2>7. QED
    BY <2>1, <2>2, <2>3, <2>4, <2>5, <2>6
       DEF TypeOK, Ids, LinkType, NetworkType, LocalsType, QueuesType, GameType, LevelType
<1>2. ThreadKnows'
  BY DEF IInv, ThreadKnows, ClientTimerInGameProcessPacket, Dispatch, SetPositionInit, RemoteTeemoMoveChange, OnHitEvent, Idle
<1>3. QueueKnows'
  BY DataFacts, ClientAssumption DEF IInv, QueueKnows, ThreadKnows, TypeOK, ClientTimerInGameProcessPacket, Dispatch, SetPositionInit, RemoteTeemoMoveChange, OnHitEvent, Idle
<1>4. MoveKnows'
  BY DataFacts, SeqFacts DEF IInv, MoveKnows, QueueKnows, ThreadKnows, TypeOK, Settled, ClientTimerInGameProcessPacket, Dispatch, SetPositionInit, RemoteTeemoMoveChange, OnHitEvent, Idle
<1>5. QED
  BY <1>1, <1>2, <1>3, <1>4 DEF IInv

\* The server sends.
LEMMA SendStep == IInv /\ (\E p \in Sendable : Send(p)) => IInv'
<1> SUFFICES ASSUME IInv, NEW p \in Sendable, Send(p) PROVE IInv'
  OBVIOUS
<1> USE DEF link, network, queues, locals, level
<1>1. TypeOK'
  <2>1. p \in Data
    BY SendableType DEF IInv
  <2>2. wire' \in Seq([part : {"header", "rest"}, of : Data])
    <3>1. <<[part |-> "header", of |-> p], [part |-> "rest", of |-> p]>>
            \in Seq([part : {"header", "rest"}, of : Data])
      BY <2>1
    <3>2. QED
      BY <3>1, ConcatProperties DEF IInv, TypeOK, Send
  <2>3. sent' \in 0 .. MaxPackets
    <3>1. sent \in 0 .. MaxPackets /\ sent < MaxPackets /\ sent' = sent + 1
      BY DEF IInv, TypeOK, Send
    <3>2. QED
      BY <3>1, ClientAssumption
  <2>4. QED
    BY <2>2, <2>3 DEF IInv, TypeOK, Send
<1>2. ThreadKnows' /\ QueueKnows' /\ MoveKnows'
  BY DEF IInv, ThreadKnows, QueueKnows, MoveKnows, Settled, Send
<1>3. QED
  BY <1>1, <1>2 DEF IInv

\* What recv leaves in the buffer is a packet, whole, cut or junk.
LEMMA RecvStep == IInv /\ Recv => IInv'
<1> SUFFICES ASSUME IInv, Recv PROVE IInv'
  OBVIOUS
<1> USE DEF link, network, queues, locals, level
<1>1. PICK k \in 1 .. Len(wire) : client_buffer_' \in First(k) /\ wire' = SubSeq(wire, k + 1, Len(wire))
  BY DEF Recv
<1>2. TypeOK'
  <2>1. wire[1].of \in Data
    <3>1. wire \in Seq([part : {"header", "rest"}, of : Data])
      BY DEF IInv, TypeOK
    <3>2. wire[1] \in [part : {"header", "rest"}, of : Data]
      <4>1. Len(wire) \in Nat
        BY <3>1, LenProperties
      <4>2. 1 \in 1 .. Len(wire)
        BY <1>1, <4>1
      <4>3. QED
        BY <3>1, <4>2, ElementOfSeq
    <3>3. QED
      BY <3>2
  <2>2. client_buffer_' \in Data
    <3>1. {Packet(id, 0, Origin) : id \in {"low junk", "high junk"}} \subseteq Data
      BY DataFacts DEF Ids, LoginIds, GameIds
    <3>2. [wire[1].of EXCEPT !.at = client_buffer_.at] \in Data
      BY <2>1, DataFacts DEF IInv, TypeOK
    <3>3. QED
      BY <1>1, <2>1, <3>1, <3>2 DEF First
  <2>3. wire' \in Seq([part : {"header", "rest"}, of : Data])
    <3> DEFINE W == [part : {"header", "rest"}, of : Data]
    <3>1. wire \in Seq(W)
      BY DEF IInv, TypeOK
    <3> HIDE DEF W
    <3>2. Len(wire) \in Nat /\ \A i \in 1 .. Len(wire) : wire[i] \in W
      BY <3>1, LenProperties, ElementOfSeq
    <3>3. \A i \in k + 1 .. Len(wire) : wire[i] \in W
      BY <3>2
    <3>4. SubSeq(wire, k + 1, Len(wire)) \in Seq(W)
      BY <3>1, <3>2, <3>3, SubSeqProperties
    <3>5. QED
      BY <1>1, <3>4 DEF W
  <2>4. thread' \in Steps
    BY DEF Recv, Step, Steps
  <2>5. QED
    BY <2>2, <2>3, <2>4 DEF IInv, TypeOK, Recv
<1>3. ThreadKnows' /\ QueueKnows' /\ MoveKnows'
  BY DEF IInv, ThreadKnows, QueueKnows, MoveKnows, Settled, Recv, Step
<1>4. QED
  BY <1>2, <1>3 DEF IInv

LEMMA StutterStep == IInv /\ UNCHANGED vars => IInv'
<1> SUFFICES ASSUME IInv, UNCHANGED vars PROVE IInv'
  OBVIOUS
<1> USE DEF vars, link, network, queues, locals, level
<1>1. TypeOK'
  <2>1. LinkType /\ NetworkType /\ LocalsType /\ QueuesType /\ GameType /\ LevelType
    BY TypeParts DEF IInv
  <2>2. LinkType' /\ NetworkType'
    BY <2>1 DEF LinkType, NetworkType
  <2>3. LocalsType' /\ QueuesType'
    BY <2>1 DEF LocalsType, QueuesType
  <2>4. GameType' /\ LevelType'
    BY <2>1 DEF GameType, LevelType
  <2>5. QED
    BY <2>2, <2>3, <2>4
       DEF TypeOK, Ids, LinkType, NetworkType, LocalsType, QueuesType, GameType, LevelType
<1>2. ThreadKnows' /\ QueueKnows'
  BY DEF IInv, ThreadKnows, QueueKnows
<1>3. MoveKnows'
  BY DEF IInv, MoveKnows, Settled
<1>4. QED
  BY <1>1, <1>2, <1>3 DEF IInv

-----------------------------------------------------------------------------

\* The invariant holds of every behaviour of the client.
THEOREM ClientInvariance == Spec => []IInv
<1>1. IInv /\ [Next]_vars => IInv'
  BY ServerConnectStep, ConnectedStep, SetLoginInfoStep, ShutdownStep, JoinedStep, EndStep,
     CopyLoginStep, CopyInGameStep, PushLoginStep, PushInGameStep, InspectLoginStep,
     InspectInGameStep, LoginTimerStep, InGameTimerStep, SendStep, RecvStep, StutterStep
     DEF Next, GameThread, Timers, receive_thread
<1>2. QED
  BY <1>1, InitInv, PTL DEF Spec

\* The client's members keep their types.
THEOREM ClientTypeCorrect == Spec => []TypeOK
<1>1. IInv => TypeOK
  BY DEF IInv
<1>2. QED
  BY <1>1, ClientInvariance, PTL

\* No timer follows a pointer to a frame that is gone.
THEOREM PointersSafe == Spec => []PointersAlive
<1>1. IInv => PointersAlive
  BY DataFacts DEF IInv, ThreadKnows, QueueKnows, PointersAlive
<1>2. QED
  BY <1>1, ClientInvariance, PTL

\* The socket is open for as long as the thread reads it.
THEOREM SocketSafe == Spec => []SocketOutlivesThread
<1>1. IInv => SocketOutlivesThread
  BY DEF IInv, TypeOK, ThreadKnows, SocketOutlivesThread
<1>2. QED
  BY <1>1, ClientInvariance, PTL

\* The last in-game packet pushed is acted on as it was received.
THEOREM LastPushShown == Spec => []LastDispatched
<1>1. IInv => LastDispatched
  BY DEF IInv, MoveKnows, Settled, LastDispatched
<1>2. QED
  BY <1>1, ClientInvariance, PTL

=============================================================================
