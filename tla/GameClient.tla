------------------------------- MODULE GameClient -------------------------------
(***************************************************************************)
(* The client half of TeemoGameInstance.cpp: receive_thread reads the      *)
(* socket and hands packets to the game thread, whose two timers take them *)
(* and move the actors of the level.                                       *)
(*                                                                         *)
(* Each queue is a queue of pointers to one local variable of the thread   *)
(* (Login_data, in_game_move_data_), which the thread fills without the    *)
(* lock: whatever a timer takes, it reads what is there by then.  The      *)
(* queues of this module hold the packets the pointers were pushed for.    *)
(*                                                                         *)
(* A packet travels as two pieces, its header (id, who) and the rest (at), *)
(* and is zeroed and copied in that order; a timer reads the id and then   *)
(* everything else.                                                        *)
(***************************************************************************)
EXTENDS Integers, Sequences

CONSTANTS
    Clients,        \* slot numbers of the server
    Me,             \* the one this client is given
    Places, Origin,
    MaxPackets      \* bound: packets the server sends

ASSUME ClientAssumption ==
    /\ 0 \in Clients /\ Me \in Clients
    /\ Origin \in Places
    /\ MaxPackets \in Nat

VARIABLES
    sock, rece_thread, recevie_connected, client_check,
    wire,           \* pieces on their way to the client
    sent,           \* packets the server has sent
    asked,          \* what this client has asked the server for
    thread,         \* the step receive_thread is at
    client_buffer_,
    Login_data, in_game_move_data_,
    receive_header_check_data_queue, receive_ingame_moveinfo_data_queue,
    game,           \* what the game thread is in, and the packet_id it has read
    client_index_, in_game_,
    client_index, hp,   \* of the player's own ATeemo
    remote,         \* where the remote actors are
    pushed,         \* ghost: the last packet pushed on the in-game queue
    shown           \* ghost: the id and the packet last acted on from it

link == <<sock, rece_thread, recevie_connected, client_check>>
network == <<wire, sent>>
queues == <<receive_header_check_data_queue, receive_ingame_moveinfo_data_queue, pushed>>
locals == <<thread, client_buffer_, Login_data, in_game_move_data_>>
level == <<client_index_, in_game_, client_index, hp, remote, shown>>
vars == <<link, network, asked, locals, queues, game, level>>

\* Ids up to 400 go to the login and chat queue.  The ones left out are handled like
\* CHAT_SEND_RESPONSE_SUCCESS and like the junk: no member changes.
LoginIds == {"LOGIN_RESPONSE_SUCCESS", "CHAT_SEND_RESPONSE_SUCCESS", "low junk", "0"}
GameIds == {"IN_GAME_SUCCESS", "IN_GAME_MOVE_END", "IN_GAME_MAGAGE_SUCCESS",
            "IN_GAME_REMOTE_RESPONSE", "high junk"}

Data == [id : LoginIds \cup GameIds, who : Clients, at : Places]
Packet(id, who, at) == [id |-> id, who |-> who, at |-> at]
Zeroed == Packet("0", 0, Origin)

\* A variable of a frame that is not there yet.
Garbage == [id |-> "garbage", who |-> 0, at |-> Origin]

Steps == {"none", "recv", "zero", "header", "rest", "push", "game zero", "game header",
          "game rest", "game push", "ended"}
Idle == [in |-> "idle", id |-> "0"]

Init ==
    /\ sock = "none" /\ rece_thread = "none"
    /\ recevie_connected = TRUE
    /\ client_check = FALSE
    /\ wire = << >> /\ sent = 0
    /\ asked = {}
    /\ thread = "none"
    /\ client_buffer_ = Zeroed
    /\ Login_data = Garbage /\ in_game_move_data_ = Garbage
    /\ receive_header_check_data_queue = << >>
    /\ receive_ingame_moveinfo_data_queue = << >>
    /\ pushed = Zeroed
    /\ game = Idle
    /\ client_index_ = 0
    /\ in_game_ = FALSE
    /\ client_index = 0
    /\ hp = 3
    /\ shown = <<"0", Zeroed>>
    /\ remote = [c \in Clients |-> Origin]

-----------------------------------------------------------------------------
(* The server, as far as a client can tell *)

\* What it may send now: answers to what was asked, and broadcasts, those of the
\* client's own moves and of moves its slot's last client left behind among them.
Sendable ==
    [id : {"IN_GAME_SUCCESS"}, who : Clients \ {Me}, at : Places \ {Origin}]
    \cup [id : {"IN_GAME_MOVE_END"}, who : Clients, at : Places \ {Origin}]
    \cup {Packet("IN_GAME_MAGAGE_SUCCESS", 0, Origin), Packet("CHAT_SEND_RESPONSE_SUCCESS", 0, Origin)}
    \cup {Packet("LOGIN_RESPONSE_SUCCESS", Me, Origin) : r \in asked \cap {"LOGIN_REQUEST"}}
    \cup {Packet("IN_GAME_SUCCESS", Me, at) : at \in {a \in Places \ {Origin} : "IN_GAME_REQUEST" \in asked}}
    \cup {p \in [id : {"IN_GAME_REMOTE_RESPONSE"}, who : Clients \ {Me}, at : Places \ {Origin}] :
            "IN_GAME_REMOTE_REQUEST" \in asked}

Send(p) ==
    /\ rece_thread = "running"
    /\ sent < MaxPackets
    /\ sent' = sent + 1
    /\ wire' = wire \o <<[part |-> "header", of |-> p], [part |-> "rest", of |-> p]>>
    /\ asked' = IF p.id = "LOGIN_RESPONSE_SUCCESS" THEN asked \ {"LOGIN_REQUEST"} ELSE asked
    /\ UNCHANGED <<link, locals, queues, game, level>>

-----------------------------------------------------------------------------
(* Connecting, asking, leaving: the game thread *)

\* The thread runs before client_check is set.
Server_Connect ==
    /\ game = Idle /\ rece_thread = "none"
    /\ sock' = "open" /\ rece_thread' = "running" /\ thread' = "recv"
    /\ game' = [in |-> "connect", id |-> "0"]
    /\ UNCHANGED <<recevie_connected, client_check, network, asked, client_buffer_, Login_data,
                   in_game_move_data_, queues, level>>

Connected ==
    /\ game.in = "connect"
    /\ client_check' = TRUE
    /\ game' = Idle
    /\ UNCHANGED <<sock, rece_thread, recevie_connected, network, asked, locals, queues, level>>

SetLoginInfo ==
    /\ game = Idle /\ sock = "open"
    /\ "LOGIN_REQUEST" \notin asked
    /\ asked' = asked \cup {"LOGIN_REQUEST"}
    /\ UNCHANGED <<link, network, locals, queues, game, level>>

Client_Shutdown ==
    /\ game = Idle /\ rece_thread = "running"
    /\ recevie_connected' = FALSE
    /\ game' = [in |-> "join", id |-> "0"]
    /\ UNCHANGED <<sock, rece_thread, client_check, network, asked, locals, queues, level>>

\* Mutant: the socket is closed and the thread joined after that.
JoinedLate ==
    /\ game.in = "join"
    /\ sock' = "closed"
    /\ game' = IF thread = "ended" THEN [in |-> "over", id |-> "0"] ELSE game
    /\ rece_thread' = IF thread = "ended" THEN "joined" ELSE rece_thread
    /\ UNCHANGED <<recevie_connected, client_check, network, asked, locals, queues, level>>

\* Nothing runs on the game thread afterwards.
Joined ==
    /\ game.in = "join" /\ thread = "ended"
    /\ rece_thread' = "joined" /\ sock' = "closed"
    /\ game' = [in |-> "over", id |-> "0"]
    /\ UNCHANGED <<recevie_connected, client_check, network, asked, locals, queues, level>>

-----------------------------------------------------------------------------
(* receive_thread *)

Step(from, to) == thread = from /\ thread' = to

\* The buffer's first bytes become a packet: the rest of one that was cut is what was
\* there before, and bytes in the middle of one are junk.
First(k) ==
    LET p == wire[1].of IN
    IF wire[1].part = "rest" THEN {Packet(id, 0, Origin) : id \in {"low junk", "high junk"}}
    ELSE IF k = 1 THEN {[p EXCEPT !.at = client_buffer_.at]}
    ELSE {p}

\* recv takes any part of what has arrived; only the first packet of it is looked at.
Recv ==
    /\ recevie_connected
    /\ Step("recv", "zero")
    /\ \E k \in 1 .. Len(wire) :
        /\ client_buffer_' \in First(k)
        /\ wire' = SubSeq(wire, k + 1, Len(wire))
    /\ UNCHANGED <<link, sent, asked, Login_data, in_game_move_data_, queues, game, level>>

\* Mutant: a receive that brings nothing ends the loop.
EndWithoutData ==
    /\ Step("recv", "ended")
    /\ UNCHANGED <<link, network, asked, client_buffer_, Login_data, in_game_move_data_, queues,
                   game, level>>

\* Mutant: the loop runs for as long as the socket is open.
EndOnClose ==
    /\ sock = "closed"
    /\ Step("recv", "ended")
    /\ UNCHANGED <<link, network, asked, client_buffer_, Login_data, in_game_move_data_, queues,
                   game, level>>

\* Without data the loop goes round until recevie_connected is cleared.
End ==
    /\ ~recevie_connected
    /\ Step("recv", "ended")
    /\ UNCHANGED <<link, network, asked, client_buffer_, Login_data, in_game_move_data_, queues,
                   game, level>>

\* ZeroMemory and CopyMemory of Login_data; the rest decides the queue.
CopyLogin ==
    /\ \/ Step("zero", "header") /\ Login_data' = Zeroed
       \/ Step("header", "rest") /\ Login_data' = [client_buffer_ EXCEPT !.at = Origin]
       \/ /\ thread = "rest"
          /\ Login_data' = client_buffer_
          /\ thread' = IF client_buffer_.id \in LoginIds THEN "push"
                       ELSE IF client_check THEN "game zero" ELSE "recv"
    /\ UNCHANGED <<link, network, asked, client_buffer_, in_game_move_data_, queues, game, level>>

\* received_data_mutex is held by a timer from its look at the queue to its end.
Unlocked == game.in \notin {"login", "in game"}

\* Mutant: the pointer is pushed before the packet is copied.
PushBeforeCopy ==
    \/ /\ Unlocked
       /\ Step("game zero", "game header")
       /\ receive_ingame_moveinfo_data_queue' = Append(receive_ingame_moveinfo_data_queue, client_buffer_)
       /\ pushed' = client_buffer_
       /\ in_game_move_data_' = Zeroed
       /\ UNCHANGED <<link, network, asked, client_buffer_, Login_data,
                      receive_header_check_data_queue, game, level>>
    \/ /\ Step("game header", "recv")
       /\ in_game_move_data_' = client_buffer_
       /\ UNCHANGED <<link, network, asked, client_buffer_, Login_data, queues, game, level>>

CopyInGame ==
    /\ \/ Step("game zero", "game header") /\ in_game_move_data_' = Zeroed
       \/ Step("game header", "game rest") /\ in_game_move_data_' = [client_buffer_ EXCEPT !.at = Origin]
       \/ Step("game rest", "game push") /\ in_game_move_data_' = client_buffer_
    /\ UNCHANGED <<link, network, asked, client_buffer_, Login_data, queues, game, level>>

PushLogin ==
    /\ Unlocked
    /\ Step("push", "recv")
    /\ receive_header_check_data_queue' = Append(receive_header_check_data_queue, client_buffer_)
    /\ UNCHANGED <<link, network, asked, client_buffer_, Login_data, in_game_move_data_,
                   receive_ingame_moveinfo_data_queue, pushed, game, level>>

PushInGame ==
    /\ Unlocked
    /\ Step("game push", "recv")
    /\ receive_ingame_moveinfo_data_queue' = Append(receive_ingame_moveinfo_data_queue, client_buffer_)
    /\ pushed' = client_buffer_
    /\ UNCHANGED <<link, network, asked, client_buffer_, Login_data, in_game_move_data_,
                   receive_header_check_data_queue, game, level>>

receive_thread == Recv \/ End \/ CopyLogin \/ CopyInGame \/ PushLogin \/ PushInGame

-----------------------------------------------------------------------------
(* The timers *)

InspectLogin ==
    /\ game = Idle
    /\ receive_header_check_data_queue # << >>
    /\ game' = [in |-> "login", id |-> Login_data.id]
    /\ UNCHANGED <<link, network, asked, locals, queues, level>>

\* ULogin::InGameConnect asks to enter and takes the index.
InGameConnect ==
    /\ asked' = asked \cup {"IN_GAME_REQUEST"}
    /\ client_index_' = Login_data.who
    /\ UNCHANGED <<in_game_, client_index, hp, remote, shown>>

ClientTimerLoginAndChatProcessPacket ==
    /\ game.in = "login"
    /\ IF game.id = "LOGIN_RESPONSE_SUCCESS" THEN InGameConnect ELSE UNCHANGED <<asked, level>>
    /\ receive_header_check_data_queue' = Tail(receive_header_check_data_queue)
    /\ game' = Idle
    /\ UNCHANGED <<link, network, locals, receive_ingame_moveinfo_data_queue, pushed>>

InspectInGame ==
    /\ game = Idle
    /\ receive_ingame_moveinfo_data_queue # << >>
    /\ game' = [in |-> "in game", id |-> in_game_move_data_.id]
    /\ UNCHANGED <<link, network, asked, locals, queues, level>>

\* ATeemo::SetPositionInit of the player's own actor; it also reports the position.
SetPositionInit(p) ==
    /\ IF p.who = client_index_
          THEN /\ in_game_' = TRUE
               /\ client_index' = p.who
               /\ asked' = asked \cup {"IN_GAME_REMOTE_REQUEST"}
          ELSE UNCHANGED <<in_game_, client_index, asked>>
    /\ UNCHANGED <<client_index_, hp, remote>>

\* RemoteTeemoInit does the same.
RemoteTeemoMoveChange(p) ==
    /\ remote' = IF p.who = client_index_ THEN remote ELSE [remote EXCEPT ![p.who] = p.at]
    /\ UNCHANGED <<asked, client_index_, in_game_, client_index, hp>>

\* ATeemo::OnHitEvent.
OnHitEvent ==
    /\ hp' = IF hp - 1 <= 0 THEN 3 ELSE hp - 1
    /\ UNCHANGED <<asked, client_index_, in_game_, client_index, remote>>

Dispatch(id, p) ==
    CASE id = "IN_GAME_SUCCESS" -> SetPositionInit(p)
      [] id \in {"IN_GAME_MOVE_END", "IN_GAME_REMOTE_RESPONSE"} -> RemoteTeemoMoveChange(p)
      [] id = "IN_GAME_MAGAGE_SUCCESS" -> OnHitEvent
      [] OTHER -> UNCHANGED <<asked, client_index_, in_game_, client_index, hp, remote>>

\* Mutant: an id without a case returns before the pop.
ReturnOnUnknown ==
    /\ game.in = "in game"
    /\ Dispatch(game.id, in_game_move_data_)
    /\ shown' = <<game.id, in_game_move_data_>>
    /\ receive_ingame_moveinfo_data_queue' =
        IF game.id = "high junk" THEN receive_ingame_moveinfo_data_queue
        ELSE Tail(receive_ingame_moveinfo_data_queue)
    /\ game' = Idle
    /\ UNCHANGED <<link, network, locals, receive_header_check_data_queue, pushed>>

ClientTimerInGameProcessPacket ==
    /\ game.in = "in game"
    /\ Dispatch(game.id, in_game_move_data_)
    /\ shown' = <<game.id, in_game_move_data_>>
    /\ receive_ingame_moveinfo_data_queue' = Tail(receive_ingame_moveinfo_data_queue)
    /\ game' = Idle
    /\ UNCHANGED <<link, network, locals, receive_header_check_data_queue, pushed>>

Timers ==
    \/ InspectLogin \/ ClientTimerLoginAndChatProcessPacket
    \/ InspectInGame \/ ClientTimerInGameProcessPacket

GameThread == Server_Connect \/ Connected \/ SetLoginInfo \/ Client_Shutdown \/ Joined \/ Timers

Next == (\E p \in Sendable : Send(p)) \/ GameThread \/ receive_thread

\* The threads are scheduled, and the engine's timers go on firing while there is
\* something to take: each timer on its own, so that one does not starve the other.
Fairness ==
    /\ WF_vars(receive_thread)
    /\ WF_vars(Connected \/ Joined)
    /\ SF_vars(InspectLogin) /\ WF_vars(ClientTimerLoginAndChatProcessPacket)
    /\ SF_vars(InspectInGame) /\ WF_vars(ClientTimerInGameProcessPacket)

Spec == Init /\ [][Next]_vars /\ Fairness

-----------------------------------------------------------------------------
(* Properties *)

TypeOK ==
    /\ sock \in {"none", "open", "closed"}
    /\ rece_thread \in {"none", "running", "joined"}
    /\ recevie_connected \in BOOLEAN /\ client_check \in BOOLEAN
    /\ wire \in Seq([part : {"header", "rest"}, of : Data])
    /\ sent \in 0 .. MaxPackets
    /\ asked \subseteq {"LOGIN_REQUEST", "IN_GAME_REQUEST", "IN_GAME_REMOTE_REQUEST"}
    /\ thread \in Steps
    /\ client_buffer_ \in Data
    /\ Login_data \in Data \cup {Garbage} /\ in_game_move_data_ \in Data \cup {Garbage}
    /\ receive_header_check_data_queue \in Seq(Data)
    /\ receive_ingame_moveinfo_data_queue \in Seq(Data)
    /\ pushed \in Data
    /\ game \in [in : {"idle", "connect", "login", "in game", "join", "over"},
                 id : LoginIds \cup GameIds]
    /\ client_index_ \in Clients
    /\ in_game_ \in BOOLEAN /\ client_index \in Clients
    /\ shown \in (LoginIds \cup GameIds) \X (Data \cup {Garbage})
    /\ hp \in 1 .. 3
    /\ remote \in [Clients -> Places]

\* Though the thread overwrites what a queued pointer points to while a timer reads it, the
\* last in-game packet pushed is in the end acted on as it was received: its own id, player
\* and position together (receive_thread, ClientTimerInGameProcessPacket).
LastDispatched ==
    /\ thread = "recv" /\ game.in # "in game"
    /\ receive_ingame_moveinfo_data_queue = << >>
    => shown = <<pushed.id, pushed>>

\* A timer never follows a pointer to a variable whose frame is gone or was never there.
PointersAlive ==
    game.in \in {"login", "in game"} =>
        /\ thread \notin {"none", "ended"}
        /\ (game.in = "login" => Login_data # Garbage)
        /\ (game.in = "in game" => in_game_move_data_ # Garbage)

\* receive_thread never reads a socket that is not open: Client_Shutdown closes it after
\* the join.
SocketOutlivesThread == thread \notin {"none", "ended"} => sock = "open"

\* The join comes back, in whatever step the thread was and whatever the server goes on
\* sending: nothing the thread waits for is held by the one that joins it.
ShutdownReturns == (game.in = "join") ~> (game.in = "over")

\* Queued in-game packets are taken one each timer call, those without a case too, or the
\* client shuts down.  That the queue is empty then is due to MaxPackets.
EveryPushTaken ==
    receive_ingame_moveinfo_data_queue # << >>
        ~> (receive_ingame_moveinfo_data_queue = << >> \/ ~recevie_connected)

=============================================================================
