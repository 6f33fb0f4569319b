# TeemoEscape and its IOCP server: TLA+ models

The repository is an Unreal Engine game, TeemoEscape, whose process can be the
game client, the game server or both. The server is built on Windows I/O
completion ports (IOCP). This directory models server and client with TLA+, checks
the models with TLC and proves the invariants that matter most with TLAPS. Paths
below are relative to `src/Source/TeemoEscape_5_1/`; headers are in `Public/`,
code files in `Private/`.

## 1. The system

### 1.1 Components

| Component | Code | State | Operations |
|---|---|---|---|
| Session core | `IocpNetServer.h`, `ClientInfo.h` | a fixed array of `ClientInfo` slots: socket, `is_connect_`, `latest_closed_time_sec_`, one recv OVERLAPPED and buffer, one accept OVERLAPPED, the queue `send_data_queue_`; `client_cnt_` | worker threads take completions (ACCEPT, RECV, SEND, failures); the accepter thread offers free slots to `AcceptEx`; the game thread calls `SendMsg` and `BroadcastSendMsg` |
| Receive buffer | `User.h`, `EnqueuePacketData` and `DequePacketData` in `TeemoGameInstance.cpp` | per slot a linear byte buffer with a read and a write position; one index queue for all slots | a worker appends and compacts, the game thread takes one packet for one index entry |
| Game server | `TeemoGameInstance.cpp`, `App_Server.cpp`, `UserManager.h`, `Packet.h` | index queue, system queue, `client_info_array` (position and `in_game_connect` of each slot), `signin_id`, the table of handlers | `OnConnect`, `OnClose`, `OnReceive` on the workers; `TimerProcessPacket` 120 times a second on the game thread; ten handlers |
| Start and stop | `App_Server.cpp`, `Setting_Choice.cpp`, `IocpNetServer.h` | the port, the threads, the flags that stop them | `Init`, `BindAndListen`, `StartServer`, `DestroyThread`, `Shutdown` |
| Game client | second half of `TeemoGameInstance.cpp` | socket, receive thread, two queues of pointers, two timers, `client_index_` | `Server_Connect`, `receive_thread`, `ClientTimerLoginAndChatProcessPacket`, `ClientTimerInGameProcessPacket`, `Client_Shutdown` |
| Remote players | `Remote_Teemo_Manager.cpp`, `Teemo_Remote_FSM.cpp`, `Remotable_Teemo.cpp` | an actor for each slot | place it on a move, send a hit |
| Local player | `Teemo.cpp` | in-game flag, last reported position, weapon modes | report moves, enter the game |
| Enemies | `EnemyFSM.cpp`, `DrMundoFSM.cpp`, `EnemyAnimInstance.cpp` | state, timer, hit points, what the animation shows | tick, damage, the animation's notifies |
| Database | `Odbc.cpp` | ODBC handles, prepared statements bound to members of the object (`TCHAR[20]` for names and passwords), the table of accounts | log in, sign up; the other functions are called by nothing |
| Client forms | `Login.cpp`, `Login_Signup.cpp`, `Chatting.cpp` | text fields | fill a packet and send it |
| `RecvBuffer`, `MoveTestActor`, the earlier server (`AppServer`, `PacketManager`, `Server_Packet_Process`) | | | not reached by the running game |

### 1.2 How they interact

    client form/actor --Server_Packet_Send--> TCP --> kernel --completion-->
      worker: IocpNetServer::WorkerThread --OnReceive--> App_Server
        --ReceivePacketData--> User::SetPacketData, then an index entry
      game thread: TimerProcessPacket --GetPacket--> handler
        --SendPacketFunc / BroadCastSendPacketFunc--> ClientInfo::SendMsg
      kernel --SEND completion--> worker: SendCompleted --> the next WSASend

Connects and disconnects go from the workers to the game thread by a second,
"system" queue. On the client the receive thread hands packets to two timers of
the game thread, through two queues under one lock; the timers call the actors by
delegates, and the actors send. The workers and the accepter share the slots with no lock but
the one on the send queue; workers and game thread share the user buffers with
no lock; `lock_` of the game instance protects the two queues only.

### 1.3 What is hard here

* Four workers, an accepter and the game thread act on one slot. A completion
  of a closed socket may be in a worker's hands while the slot is used again;
  only a wait of three seconds before reuse keeps them apart.
* `SendCompleted` frees the front of the send queue without looking at what
  completed, and a send starts only when the queue's length becomes one. A
  refused call leaves the slot mute, in this and in later sessions.
* Results of `WSARecv`, `WSASocket`, `AcceptEx` and `BindAndListen` are ignored.
* The user buffer is compacted by one thread while the other may be reading a
  packet where it lies; its size is not checked after the compaction.
* TCP splits and joins packets, but an index entry stands for one receive and
  takes one packet.
* Data and system packets are in separate queues, so their order is lost; slots
  are used again and nothing of the last client is cleared.
* The client's queues hold pointers to one local variable of the receive thread,
  which it overwrites without the lock while a timer reads it.
* Every call of the server's start may fail and the start goes on; the stop has to
  join what was started, in any order of the two roles, while threads run.
* The database's statements read names and passwords of up to 32 characters from
  members of 20, which run into one another; they keep cursors open, and half of the
  functions ignore the results of the driver.
* Every state of an enemy waits on the one timer, and a hit comes in any state,
  also while the enemy dies. Hit points of a player are counted by every client.

These places are the hazards in `PROJECT.json`, at their lines, with the properties
that would catch them. Where the code does what its comment denies, no property can
demand the opposite; such a hazard has a note instead (section 3.1).

### 1.4 What makes each part correct

* Session core: at most one receive, one accept and one send outstanding for a
  slot, the send being of the queue's front; no I/O of an old socket survives
  into the slot's next session; no message of an old session is sent in a new
  one; no handle leaks; a slot whose client left is offered again.
* Receive buffer: handlers get the packets whole, unchanged, once and in order;
  compactions lose nothing; writes stay within the buffer; requests are handled.
* Game server: clients agree with the server where players are; no client and
  no disconnect is starved; a new session does not inherit from the last.
* Game client: what was received last is acted on as it was received; no pointer is
  followed that points nowhere; a shutdown ends.
* Start and stop: no completion is handled before what it needs exists; after the
  shutdown no thread is left that it knew of.
* Enemies: dead exactly when the hit points are used up; a stun lasts from the last
  hit; attacks keep their distance in time; the dead are removed.
* Local player: between two frames the server knows where the player is; toggled
  modes follow the keys; one shooter's count of hit points differs from the victim's
  by nothing but what the client's queue loses or doubles.
* Database: a login is confirmed only for what somebody signed up with; a confirmed
  account is found again; no request makes the next one fail. The first two have
  limits in the code, see 3.1.

## 2. The modules and the code

### 2.1 `SessionLifecycle` and `IocpNetServer`

`SessionLifecycle` is the abstract specification: a slot is *free*, *offered*,
*serving* and free again, or *lost* when an offer fails. It has no threads,
sockets or time.

`IocpNetServer` is the detailed one. Its variables bear the names of the fields
(`is_connect_`, `socket_`, `send_data_queue_`, `client_cnt_`); `pc` and `io` are
the place of a worker in `WorkerThread` and the completion in its hands,
`pending` what the kernel will report.

* `GetCompletion` .. `CompleteSend` are the steps of a worker. A step ends where
  another thread could see a difference: between the `IsConnected` test and
  `Close`, between `OnConnect`'s flag (`SetConnected`), the association with the port
  (`BindSocket`) and the first receive (`FirstRecv`). `Close` itself, the flag, the time
  stamp, `closesocket` and the reset of `socket_`, is one step: a thread that sees the
  flag cleared and the socket still open is not told from one that came before.
* `StartPass` and `Visit` are the accepter. It reads the clock once a pass and
  compares with each slot's closing time, so `cur_ago` is a variable of its own.
* `Reply`, `SendDamage`, `BroadcastFind` and `BroadcastSend` are the game thread:
  an answer to whoever sent a packet, a hit passed on to any slot, and the
  broadcast with its test and its send apart.
* `Tick` is time. `closed_ago` is the code's `latest_closed_time_sec_` counted
  from the present, and stops at `Horizon`, past every comparison.

A socket value names one session of a slot; the code never compares sockets, the
model uses them to tell an old completion from a new one. `left_over` counts
messages older than the slot's socket. The kernel is external: a call is refused
or its completion is reported in the end, in any order. `Tick` does not let an
I/O of a closed socket stay unprocessed for longer than `MaxLag` seconds, nor a
pass of the accepter last longer than `MaxPass`: those are assumptions on the
machine, and `LagAssumption` (`MaxLag <= RE_USE_SESSION_WAIT_TIMESEC`) is just
what the wait of three seconds in the code takes for granted.

`SlotOutput` is a second abstract specification of the same module, for whoever
sends: a slot has a client or not (`connected`), and it may fall silent (`blocked`)
at any time, for good. The core implements it with `blocked` read as `Silent`:
something is queued, no `WSASend` is outstanding and no worker is about to pop the
queue. `GameServer` is built on it (2.3).

### 2.2 `PacketBuffer`

One session of one client. `SetPacketData` and `GetPacket` are taken apart into
their statements (`Check`, `Move`, `Reset`, `Copy`, `Commit`, `Enqueue`;
`Deque`, `Remain`, `Header`, `Advance`, `HandlePacket`), because the two threads
run them with no lock. A byte is its place in the client's stream, so a wrong
byte is seen whatever its value.

Behaviours stop in two places. `Clash`: the worker compacts while the game
thread is between `GetPacket` and the end of the handler. The code has a data
race there, and what follows is any mixture of the two threads' loads and
stores; the properties claim nothing after it. `Overrun`: the copy is about to
pass the end of the buffer. Both are reachable in the run's instance; what is
shown of the second is when it can happen (`OverrunOnlyWhenFull`).

`Inbox` is the abstract specification, the client as the game sees it: a number of
complete packets and a number of entries; a receive adds any packets and one entry,
the game uses up an entry for the next packet, or for none if none is complete.
`PacketBuffer` implements it with `Unread` (packets that are complete below `w_pos`
and not yet `Claimed`) and `Announced` (entries queued, about to be queued, or taken
by a game thread that has not looked at the positions). The worker's step to the
inbox is `Commit`, where `w_pos` moves and `Enqueue` is still to come; the game
thread's is `Remain`, where it reads both positions: what it saw then decides
whether there is a packet, whatever the worker does meanwhile.

### 2.3 `GameServer`

Both queues, the timer, the handlers and the slots' users above whole packets.
`Connect`, `Disconnect` and `Receive` are `OnConnect`, `OnClose` and `OnReceive`;
a receive completes none, one or two packets, of any kind: the server asks nothing of
who sends them. What a closed session leaves in the slot's user is whole packets here;
in the code it may be half a packet, which misaligns all that the next session sends.
`CloseAgain` is the second worker that found the slot connected and pushes its own
`SYS_USER_DISCONNECT`; `closing` holds the slots where one may still do so, or still
store what the session received last. `TakeData`/`TakeNoData` and then
`TakeSystem`/`TakeNoSystem` are the two halves of one call of
`TimerProcessPacket`: workers run between them, as they do in the code.

* A position stands for a location and rotation. `Spawn` is `DefaultLocation`,
  which the code shifts for each entry; only that it is not where the player
  stood before matters.
* `view[c][p]` is what `c` was last told of `p`; `entered`, and `asked` (whose request
  for the other players was answered), are ghosts. Other answers change nothing the
  model keeps.
* In place of the session core it has an instance `Slot` of `SlotOutput`. Its
  `connected` and `blocked` are that module's: `Connect` and `Disconnect` are
  `Slot!Enter` and `Slot!Leave` with what the game does besides, and `Refuse` is
  `Slot!Block`, a `WSASend` that fails. A blocked slot is answered nothing.
* `ProcessuserConnect` has no action: its key is never pushed (`App_Server.cpp:20`
  pushes an id that has no handler), so that a connect clears nothing.

### 2.4 `GameClient`

The receive thread is taken apart into its memory operations (`Recv`, `CopyLogin`,
`CopyInGame`, `PushLogin`, `PushInGame`) and the two timers into the look at the
queue with the read of the id (`InspectLogin`, `InspectInGame`) and the rest, which
reads the other members (`ClientTimer...`). A packet travels as two pieces, header
and rest, so TCP may cut it, join it to the next, or start a receive in its middle;
only the first packet of a receive is looked at. `Login_data` and
`in_game_move_data_` are locals of the loop's body: they keep their place on the
thread's stack from one round to the next, which is what makes the pointers in the
queues point to something as long as the thread runs; before its first use such a
place is `Garbage`. The queues of the module hold, for the properties, the packet
each pointer was pushed for; the timers never read it.

`Dispatch` is the switch of the in-game timer with the delegates it calls, which
are taken to be bound to the player's actor and to `ARemote_Teemo_Manager`. Ids
that only log or add a line of chat are represented by one id and by junk. `Recv` is
the test of `recevie_connected` with the `recv` behind it; a shutdown between the two
is one after a `recv` that has not returned. `Sendable` is what the server's handlers
may send, a client's own moves included, since the broadcast goes to its sender too.

### 2.5 `AppLifecycle`

A process: the two buttons of the settings widget and the login widget's connect,
each a sequence of steps of the game thread (`ServerInit`, `BindAndListen`,
`PacketInit`, `UserInit`, `CreateClient`, `CreateWokerThread`,
`CreateAccepterThread`; `Server_Connect`) that may fail without stopping the
sequence; the worker, accepter and receive threads with their loops only; the
timers each role clears; `Shutdown` with its steps and `Destroy`, which ends the
program by `std::terminate` if a thread was left unjoined. Pressing the server
button a second time ends it too. What a completion does is in `IocpNetServer`;
here it matters which parts it finds.

### 2.6 `Odbc`

What the game calls: the opening of the database, with everything that may come of
each statement's preparation (`Failures`), `LoginCheckSQL` and `AddSQL`. Statements are
handles with what the driver keeps of them: prepared, every marker bound, cursor open.
`Executable`, `Execute`, `Fetch`, `Opened` and `Closed` stand for the driver and are
external; any call may fail or succeed with information.

Names and passwords have up to 32 characters and are copied, without their end, into
members of 20. `Long` texts are those of 20 characters or more; each has its first 20
as `Start`. A text as the driver reads it is a sequence of pieces: a short one is one
piece, a long one is its start and whatever is behind the member. Behind `m_szLoginId`
is `m_szLoginPw` and behind that an integer of 40, a parenthesis (`LoginId`, `LoginPw`);
behind `m_szInsertName` is `m_szInsertPass`, whose own zeroing cuts the overrun, and
behind that a handle the game has no use for (`InsertName`, `InsertPass`). The marker of
the inserted name is declared with the contents of `m_iDataLength`, which another
statement's preparation set (`Declared`); the driver may cut a longer text (`Sent`).
`user_table` is the sequence of rows, so one account signed up twice is two rows.
`signed` and `promised` are ghosts: for whom a row was inserted, and to whom it was
confirmed. The length indicators stay `SQL_NTS`, as no function that changes one is
called.

### 2.7 `EnemyFSM`

One call of `TickComponent` is one action with a frame of some length and the
player at some distance; hits (`OnDamageProcess`) and the animation's notifies
come between any two. Enemies share nothing, so one `UEnemyFSM` and one
`UDrMundoFSM` stand for all. `animState`, `bAttackPlay` and `bDieDone` are the
members of `UEnemyAnimInstance`; `sinceHit`, `sinceAttack` and `gap` are ghosts.
`DieDone` is external: the animation blueprint sets `bDieDone`. Nothing calls
`UDrMundoFSM::OnDamageProcess`, so DrMundo has neither Damage nor Die.

### 2.8 `Teemo`

A frame is input, movement, `Tick`, timers: the engine's order, external. The
report to the server is sent by `Tick`, by `SetPositionInit` (which the in-game
timer calls) and by a test key (`ForwordCharacter`); the last two do not write the
rotation, which is then `unset`. Aim and run are toggled by press and release of
their keys, either of which may be down before it is bound (`aimHeld`, `runHeld`). Hits:
`view` is each client's count of another player's hit points, `hp` his own, and `hits`
the messages in between. The victim's queue points to one variable (`GameClient`), so a
message is lost when it is overwritten (`HitLost`) and dispatched again when it has
overwritten one that was still queued (`OnHitEvent`). When he connects again he starts
with three (`OtherBegins`). `drift` is the ghost that counts what was lost, doubled and
forgotten; `aimHeld`, `runHeld`, `swapped` and `shot` are ghosts too.

### 2.9 Composition

Two abstract specifications join the server's three modules. `IocpNetServer`
implements `SlotOutput` (`RefinesOutput`) and `GameServer` acts on its slots within it
(`SlotsAsPromised`). `PacketBuffer` implements `Inbox` (`RefinesInbox`), and so does
`GameServer` for each client (its own `RefinesInbox`), whose one queue of entries
serves all clients and whose receives are whole packets.

`OneRecvPerSlot` of `IocpNetServer` is why `PacketBuffer` has one worker per user and
why `Receive` of `GameServer` stores at once; `PacketIntact` is why a packet is a value
there. `NoStaleIo` says that a closed session's last receive is stored before the slot
is offered again; `GameServer` does not rely on it and lets that receive come later
still, so its results hold without `LagAssumption`. `HandlersReady` of `AppLifecycle` is why
`IocpNetServer` and `GameServer` begin with their slots and users in place.
`Sendable` of `GameClient` is what the handlers of `GameServer` send. What `GameClient`
loses and doubles are `HitLost` and the second dispatch of `OnHitEvent` in `Teemo`, whose entry into the game is
the dispatch of `IN_GAME_SUCCESS`.

The `MC...` modules define symmetry and model values only. Slots (and workers,
sockets, buffers) are interchangeable in every definition checked with symmetry, which are
invariants, action properties and a refinement with no fairness.

## 3. The runs

| Run | Bounds | What it shows |
|---|---|---|
| `session` | 1 slot, 3 workers, 3 sockets, 3 buffers, wait 3 | all safety properties of the session core; the core implements `SessionLifecycle` and `SlotOutput` |
| `session_returns` | 1 slot, 2 workers, wait 1, no accept faults | a closed slot is offered again |
| `buffer` | buffer 7, header 2, receive 4, packets of 2 and 3, 11 bytes | `PacketIntact`, `UnreadInPlace`, `OverrunOnlyWhenFull`; the buffer implements `Inbox`; a client that waits for its answers (`Waits`) gets them |
| `server_views` | 2 slots, 3 sessions, 2 positions, 1 packet a receive, 1 system packet waiting | `ViewsAgree` |
| `server_inbox` | 2 slots, 3 sessions, 0, 1 or 2 packets a receive, 2 unread, 2 system packets waiting | `RefinesInbox`: each client has its inbox |
| `server_fair` | 2 slots, 2 sessions, requests without movement, 2 system packets waiting | `EveryClientServed`, `DisconnectsTaken` |
| `client` | 3 players, 2 packets of the server | the shared variable of thread and timers; shutdown and queues under fairness |
| `app` | 3 workers, both roles, every call failing or not | start and stop |
| `odbc` | 3 names, two of them long and alike, a short and a long password, 2 rows, 1 statement not prepared | answers of the database |
| `enemy` | frames of 1 and 2, delays 2 and 3, 5 hits, the player in three distances | states, timers and hits |
| `teemo` | 2 places, 2 rotations, 2 shooters, 2 hits on their way | reports, toggles, hit points |
| `claim_sending` | 1 slot | a violation, section 3.1 |

The properties in a sentence:

* `SendOfHeadOnly`: the one send in flight is of the queue's front.
  `OneRecvPerSlot`, `OneAcceptPerSlot`: the OVERLAPPEDs that exist once are used
  once. `NoStaleIo`: a slot on offer or in use owes nothing of an earlier
  socket. `NoOldMessage`: what a session left unsent is never sent in the next.
  `NoSocketLeak`: a socket is closed before the slot gets another.
* `RefinesLifecycle`: no interleaving takes an offer back or ends the session of
  the next client. `ClosedSlotReturns` is its liveness half.
* `RefinesOutput`: once a message is left in a slot's queue with no send under way, the
  slot stays silent, through closes and new sessions, whoever sends to it; and clients
  enter and leave it one at a time.
* `PacketIntact`: the packet a handler reads is whole, next in order, and not
  overwritten, as long as no compaction meets it. `UnreadInPlace`: what was
  received and not handed over is between the positions. `OverrunOnlyWhenFull`:
  the write passes the end only if the data could not fit at all. `RefinesInbox`:
  one packet at most for an entry, the next one, and none only if none was complete
  (of the buffer in `buffer`, of every client of the one index queue in `server_inbox`).
  `RequestHandled`: in a behaviour in which the client never has two requests under way,
  each is handled, however TCP splits it.
* `ViewsAgree`: what a client that asked for the others was told of a player is
  what the server has stored, unless that player entered again and has not moved.
* `EveryClientServed`: no slot's entries wait for ever while others' are taken.
  `DisconnectsTaken`: a flood of data does not keep a disconnect waiting.

* `LastDispatched`: when thread and timer are at rest, the last packet pushed was
  acted on with its own id, player and place, although the timers may act on
  mixtures before. `PointersAlive`: no timer follows a pointer into a frame that is
  not there. `SocketOutlivesThread`: `Client_Shutdown` closes after the join.
  `ShutdownReturns` (`client`): the join comes back. `EveryPushTaken`: what is queued
  is taken, ids without a case included (each timer call takes one entry; that the queue
  is empty in the end is so because the run bounds what arrives).
* `HandlersReady`: a completion is handled only once slots and users exist.
  `NothingLeftRunning`: after `Shutdown` every thread it knows of is joined; a client
  connected by the login widget alone is the exception, see 3.1. `RoleHasTimers`: a
  process of one role keeps that role's timers. `ShutdownReturns` (`app`): whatever
  failed at the start, the stop comes to its end. `JoinsApproach`: while the game thread
  is in a join, no thread it waits for begins anything new or waits at an open port.
* `LoginTruthful`: a login is confirmed only for a name and password somebody signed up
  with; of long texts only their first 20 characters count, and a fetch that failed
  counts as a row, as the code has it. `SignedUpFound`: a login that finds no row is not
  one for a sign-up that was confirmed, if name and password fit their members: what
  other requests leave in the members or write over their ends stays out of it. Both
  are claimed if the statement that sets the inserted name's width was prepared.
  `StaysExecutable`: no request leaves login or sign-up unusable for the next one.
* `DeadIffNoHp`: no hit revives or stuns the dead. `AnimFollows`: outside a stun and a
  death the animation is the state's. `StunLasts`: the stun is counted from the last
  hit. `MundoPaced`: leaving the range and coming back does not speed up DrMundo.
  `DeadRemoved`: the dead leave the level.
* `LastWordIsHere`: between two frames the server's last word on a player is where he
  stands; the rotation of the two reports that do not write it is whatever was on the
  stack, and nothing is claimed of it. `KeysFollowed`: aim and run follow their keys, a
  key that was down before it was bound with its meaning turned round; the aim until the
  gun is changed between two strokes of its key. `CountsAgree`: one shooter's count of a
  victim's hit points is the victim's own less what is on its way, lost, forgotten, and
  with what was dispatched twice; nothing else comes between.

Types and inductive invariants are proved of every module (section 4) and in no run.

Each property has a mutant: a faulty variant of one action (`...Unguarded`,
`...TooSoon`, `MoveForgotten`, `StoreFront`, `TakeDataLast`), beside the action in the module,
under which TLC finds the property violated in the same run.

### 3.1 Where the code and its comments differ

`claim_sending` checks a comment and TLC finds it violated: `ClientInfo.h:210` says
that two messages in the send queue mean a send in progress. A refused `WSASend`
(for a start one of a broadcast that met a slot just closed, or not yet associated
with the port) leaves its message at the front, and nothing is sent any more, in this
session and in the slot's next ones.

The models follow the code in other places where a comment promises more, with no
run of their own:

* A failed accept completes with key 0, so that the worker uses a null `ClientInfo`
  (`FailedAccept`); `IocpNetServer.h:272` takes it for a client that left.
* `BindRecv` refused leaves a connected slot nobody reads from; `ClientInfo.h:177`
  says it counts as disconnected. A failed `WSASocket` or `AcceptEx` takes a slot out
  of service (the phase *lost*). `client_cnt_` is never decremented
  (`IocpNetServer.h:389`).
* Of two packets in one receive the second waits for the client's next receive
  (`TeemoGameInstance.cpp:114`); the buffer is no ring buffer and may be overrun
  (`User.h:76`).
* A connect pushes an id without a handler, so that no user is cleared
  (`App_Server.cpp:22`, `TeemoGameInstance.cpp:260`), and a disconnect returns none
  (`TeemoGameInstance.cpp:267`). New players are also told of those who left
  (`TeemoGameInstance.cpp:427`).
* A fetch that fails counts as a login (`Odbc.cpp:634`); a sign-up that succeeds with
  information is stored and answered "failed" (`Odbc.cpp:268`). A sign-up with a name or
  a password of 20 characters or more is confirmed, and no login need find it
  (`Odbc.cpp:260`, `Odbc.cpp:624`).
* A damage message is dispatched twice, or not at all, when two packets meet in the
  client's one variable (`TeemoGameInstance.cpp:589`); nobody's count is corrected.
* A client that has not logged in takes itself for player 0 when player 0 enters
  (`Teemo.cpp:314`).
* `ULogin::ServerConnect` starts a thread whose join at the end the comment at
  `TeemoGameInstance.cpp:508` asks for, but not the flag `Shutdown` goes by: the
  process then ends in `std::terminate`. A second start of the server ends there at
  once, and a process that takes both roles clears the timers of both.

### 3.2 Why the bounds are enough

* Sessions: the hazards are about one slot and the threads that act on it. Three
  workers hold a receive, a send and a late completion of an earlier session at
  once; three sockets give a slot any number of sessions, since handles are
  used again; three buffers make a queue with a send in flight, a message
  behind it and one left over. Slots meet in the accepter's pass and in broadcasts
  only; that this changes nothing is proved (section 4), for any number of slots.
* `MaxCount` cuts `client_cnt_`, which nothing reads.
* Buffer: 7 places and receives of up to 4 bytes make the positions meet every
  alignment; 11 bytes are more than the buffer holds, so compactions happen with
  nothing, something and everything unread. Packets of 2 and 3 bytes are a
  header alone and a header with a body, and are split and joined in all ways.
* Server: two slots suffice since every handler touches one slot and tells the
  others the same; three sessions use one of them twice or both once and one
  again. `MaxUnread`, `MaxSystem` bound what waits in the queues, `Ops` and
  `Batches` choose what the clients of an instance do: movement, the other requests,
  and packets that come two at a time are explored in runs of their own (the
  server does not ask whether a client is logged in, so an instance needs no logins).
  Disconnects follow one another, also two of one session, in `server_fair` and
  `server_inbox`.
* Client: the hazards are about the packet a timer reads and the one that overwrites
  it, so two packets (four pieces) suffice for every mixture; three players are the
  client's own, number 0 and another.
* Process: three workers are joined one after the other, so that one is before, at
  and after its join. Roles may be taken in any order and again.
* Database: two long names that begin alike and one that fits are what a text that runs
  on or is cut can be confused with, the long ones being interchangeable (symmetry); two
  rows are one and another before or after it; one statement that could not be prepared
  stands for each in turn.
* Enemies: frames shorter and longer than what is left of a delay; two hits more than
  hit points, so that the dying are hit; the floor is two units above the bottom.
* Player: two places and two rotations tell a change from none, a second shooter is
  what makes counts differ, two messages overlap.
* The theorems of section 4 hold for every value of these constants.

### 3.3 Fairness

* `session_returns`: weak fairness of the workers, the accepter, and time. The
  threads loop until the server stops, the kernel reports every I/O of a closed
  socket, and the accepter sleeps 32 ms between passes. The socket calls of the
  accepter succeed (`AcceptFaults = FALSE`): a slot whose offer failed is never offered
  again, whatever the fairness.
* `buffer`: weak fairness of the worker (TCP delivers what was sent)
  and of the game thread (the engine calls the timer).
* `server_fair`: weak fairness of `TimerProcessPacket` alone. Clients may send
  for ever or not at all.
* `client`: weak fairness of the receive thread and of the game thread's steps once
  begun; strong fairness of each timer's look at its queue, since the engine fires
  both timers again and again but the other timer, or a shutdown, may be first.
* `app`: weak fairness of each thread and of the steps of `Shutdown` once it is called;
  roles need not be taken nor the process be shut down.
* `enemy`: weak fairness of `TickComponent` (every frame) and of the animation's end.

Deadlock is not checked where the modelled program may really stop: after the
null pointer in the session core, at the end of a bounded session of
`PacketBuffer`, and when a process or a client has shut down. The other modules are
checked for it.

## 4. What is proved

All theorems are in the `..._proofs` modules, for every value of the constants
that the assumptions allow.

* `IocpNetServer_proofs`. `Invariance`: `Spec => []IInv`; from it type
  correctness and the safety properties of section 3. The properties
  are not inductive: that no worker acts on an old socket holds because *time*
  keeps the two apart. `LateIo` says it: an I/O of a socket that is not the
  slot's own belongs to a slot that is closed, for at most `MaxLag` seconds,
  so the accepter, which offers a slot closed for longer than the wait, finds none
  (`LagAssumption`). `AcceptAlone` then says that the accept is the only thing
  outstanding of an offered slot, `RecvAlone` and `SendAlone` that the receive
  and the send are single, and `NoLeftOver` that a send in flight on the slot's
  socket means that everything queued belongs to it. `Refinement`:
  `Spec => RefinesLifecycle`. It needs one invariant more, `LiveIo`: I/O of the socket
  a slot has now, other than its accept, is of a connected slot. Without it a late
  close could take a reserved slot from *lost* to *free*. `OutputRefinement`:
  `Spec => RefinesOutput`, a step of the core being a step of one slot in `SlotOutput` or
  none. From the invariant it needs `AcceptAlone`: the slot whose accept a worker has in
  hand is not connected. That a silent slot stays silent follows from who may end the
  silence: a completion of its send, of which there is none, or a push into its queue,
  which sends only if the queue was empty.
* `PacketBuffer_proofs`. `BufferInvariance`: `Spec => []IInv`, with what each
  thread knows at each of its statements (`WorkerKnows`, `GameKnows`), the bytes
  between the positions (`Window`, `Moved` in the middle of a compaction) and
  that the packets lie end to end (`Tiled`). `HandlersGetPackets`, `NothingLost`,
  `SpaceIsUsed` and `BufferTypeCorrect` follow. `BufferIsInbox`: `Spec => RefinesInbox`. One
  lemma for each of the two steps that count shows the inbox's step, all others leave
  both numbers alone. The invariant it needs besides is `Apart`: there are
  finitely many packets and none overlaps another, so that handing one over takes one
  off the count and makes no other incomplete. The assumptions are that a packet
  is as long as a header at least and a header not empty.
* `GameServer_proofs`. `ViewsInvariance`: types and `ViewsAgree` together are
  inductive, one lemma for each kind of handler; `ServerTypeCorrect` and
  `ViewsRight` follow. `InboxRefinement`: taking from the front of one queue of
  entries lowers the number of one client's entries and no other's, for any number of
  clients. `SlotsAsPromised`: `Spec => Slot!Spec`; a handler's answers only ever block a
  slot. Nothing is assumed but `ServerAssumption`.

* `GameClient_proofs`. What makes `LastDispatched` true is not the lock but the order
  of the thread's steps: the packet is complete in the variable before its pointer is
  pushed, and whatever mixture a timer reads meanwhile, a push follows. `MoveKnows`
  says it: while the thread does not write the variable it holds the last packet
  pushed, and that packet is waiting, being acted on, or was acted on last.
* `AppLifecycle_proofs`. The invariant says at each step of a start or stop what is
  built, running and joined; `HandlersFindTheirParts`, `ShutdownJoins` and `TimersStay`
  follow for any number of workers. `JoinedThreadsEnd`: what the threads were told before
  they are joined (`StopKnows`) makes each of their steps one towards their end. It is the
  part of `ShutdownReturns` that needs no fairness; that the steps are taken is TLC's.
* `Odbc_proofs`. `LoginsTrue` and `SignUpsFound` for any names and passwords, long or not,
  any statements that could not be prepared and any number of rows: the invariant says
  that each row begins as a sign-up does (`TableTold`) and that every promise whose texts fit
  has its row (`Kept`). `StatementsStayExecutable`: both statements' cursors are closed
  between requests.
* `EnemyFSM_proofs`. For any delays, range, frames and distances. `StunLasts` needs that
  the time since the last hit is the time in the damage state; `MundoPaced` that the
  time DrMundo keeps is never more than the time since his last attack.
* `Teemo_proofs`. For any places, rotations and shooters. `TogglesFollowKeys` leaves both
  keys free at the binding. `SoleShooterAgrees` is carried modulo three, since both counts
  start again at three: a loss adds one to `drift`, a second dispatch takes one off, a new
  actor adds what its predecessor had lost.

Every invariant, action property and refinement that a run checks is stated by a
theorem, but for the violation of `claim_sending`. Only model-checked: what is temporal
under fairness (`ClosedSlotReturns`,
`RequestHandled`, `EveryClientServed`, `DisconnectsTaken`, both `ShutdownReturns`,
`EveryPushTaken`, `DeadRemoved`). Liveness and ENABLED are beyond the provers at hand, and so is induction over data;
no module that is proved about uses recursive operators, and none of the theorems
needs either.

## 5. What is not modelled

* Texts of messages (`FStringToCharArray` of `Chatting.cpp` gives `strcpy_s` the size of a
  pointer) and their senders' names (`signin_id`).
* Half a packet left in a slot's user by a closed session (2.3).
* Code that nothing calls: the thread `ProcessPacket`; `Clear`, `SetLogin`, `EnterRoom`
  of `User`; `Connect`, `DisConnect`, `Load`, `InventoryCheck`, `UpdateSQL`, `ReadRecord`,
  `DeleteSQL` and `CreateInsertAccount` of `Odbc`; `RecvBuffer`; `recvn`; `UDrMundoFSM::OnDamageProcess` and the two states
  only it leads to; the input and camera functions of `Remotable_Teemo`.
* The earlier server (`AppServer`, `PacketManager`, `Server_Packet_Process`): nothing
  creates it, and its enqueue calls are commented out.
* Where enemies walk (the engine's path finder), the test keys that spawn actors, and
  grenades, which explode and hurt nobody.
* Which actor binds the game instance's delegates last: each `ATeemo` that begins play
  rebinds them, and the order is the level's, which is not in the repository.
* Component set-up of actors, animation graphs, sounds, widgets' layout, build files:
  engine glue.

## 6. What could follow

The modules of the server are joined by their abstract specifications (2.9), those of the
client stand beside them; a composition of `GameServer` with several
`GameClient`s would show the views of section 2.3 through the losses of section 2.4,
at the price of a state space TLC has to be cut for. Names in chat messages need a
model of `signin_id` on both sides.
