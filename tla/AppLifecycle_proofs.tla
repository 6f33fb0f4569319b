--------------------------- MODULE AppLifecycle_proofs ---------------------------
(* What is proved about AppLifecycle, for any set of worker threads. *)
EXTENDS AppLifecycle, TLAPS

\* What a start has built by which step, and that the threads come last.
BuiltKnows ==
    /\ server_check_ <=> (starts # 0)
    /\ game \in StartSteps => starts # 0
    /\ game \in {"CreateClient", "CreateWokerThread", "CreateAccepterThread"} => users = "ready"
    /\ game \in {"CreateWokerThread", "CreateAccepterThread"} => client_Infos_
    /\ (starts = 0 \/ (starts = 1 /\ game \in {"Init", "BindAndListen", "PacketInit", "UserInit", "CreateClient"}))
        => \A w \in Workers : io_worker_threads_[w] = "none"
    /\ \A w \in Workers : io_worker_threads_[w] # "none" /\ starts <= 1 => client_Infos_ /\ users = "ready"
    /\ starts = 0 => accepter_thread_ = "none"

\* Which threads Shutdown has joined by which step.
JoinKnows ==
    /\ game \in {"close listen", "join accepter", "client", "join receiver", "over", "gone"}
        => \A w \in Workers : ~Joinable(io_worker_threads_[w])
    /\ game \in {"client", "join receiver", "over", "gone"} => ~Joinable(accepter_thread_)
    /\ game = "join receiver" => timer_destroy_sw
    /\ game \in {"over", "gone"} /\ timer_destroy_sw => rece_thread = "joined"

\* A timer is cleared only in a process that has taken the other role.
TimersKnow ==
    /\ server_client_check => server_check_
    /\ ~timer_destroy_sw => "server" \in timers
    /\ ~server_check_ => ClientTimers \subseteq timers

IInv == TypeOK /\ BuiltKnows /\ JoinKnows /\ TimersKnow

-----------------------------------------------------------------------------

\* The parts of the types.
RoleType ==
    /\ server_client_check \in BOOLEAN /\ timer_destroy_sw \in BOOLEAN /\ server_check_ \in BOOLEAN
    /\ timers \subseteq {"server"} \cup ClientTimers
    /\ is_worker_run_ \in BOOLEAN /\ is_accepter_run_ \in BOOLEAN /\ recevie_connected \in BOOLEAN
PartsType ==
    /\ max_io_worker_thread_count_ \in BOOLEAN
    /\ listen_socket_ \in {"none", "open", "closed"} /\ iocp_handle_ \in {"none", "open", "closed"}
    /\ listening \in BOOLEAN
    /\ users \in {"none", "empty", "ready"} /\ client_Infos_ \in BOOLEAN
WorkersType ==
    io_worker_threads_ \in [Workers -> {"none", "loop", "wait", "handle", "ended", "joined"}]
ThreadsType ==
    /\ accepter_thread_ \in {"none", "loop", "offer", "ended", "joined"}
    /\ rece_thread \in {"none", "loop", "ended", "joined"}
GameType ==
    /\ game \in {"play", "over", "gone", "terminated"} \cup StartSteps \cup StopSteps
    /\ starts \in 0 .. 2

LEMMA TypeParts == TypeOK <=> RoleType /\ PartsType /\ WorkersType /\ ThreadsType /\ GameType
BY DEF TypeOK, RoleType, PartsType, WorkersType, ThreadsType, GameType

LEMMA InitInv == Init => IInv
<1> SUFFICES ASSUME Init PROVE IInv
  OBVIOUS
<1>1. TypeOK
  <2>1. RoleType /\ PartsType /\ ThreadsType
    BY DEF Init, RoleType, PartsType, ThreadsType
  <2>2. WorkersType
    BY DEF Init, WorkersType
  <2>3. GameType
    BY DEF Init, GameType
  <2>4. QED
    BY <2>1, <2>2, <2>3, TypeParts
<1>2. BuiltKnows
  BY DEF Init, BuiltKnows, StartSteps
<1>3. JoinKnows /\ TimersKnow
  BY DEF Init, JoinKnows, TimersKnow
<1>4. QED
  BY <1>1, <1>2, <1>3 DEF IInv

\* The first step of a start of the server.
LEMMA ServerStartStep == IInv /\ ServerStart => IInv'
<1> SUFFICES ASSUME IInv, ServerStart PROVE IInv'
  OBVIOUS
<1> USE DEF Go, role, parts, flags, threads
<1>1. TypeOK'
  <2>. RoleType /\ PartsType /\ WorkersType /\ ThreadsType /\ GameType
    BY TypeParts DEF IInv
  <2>1. RoleType'
    BY DEF RoleType, ServerStart
  <2>2. PartsType'
    BY DEF PartsType, ServerStart
  <2>3. WorkersType'
    BY DEF WorkersType, ServerStart
  <2>4. ThreadsType'
    BY DEF ThreadsType, ServerStart
  <2>5. GameType'
    BY DEF GameType, StartSteps, StopSteps, ServerStart
  <2>6. QED
    BY <2>1, <2>2, <2>3, <2>4, <2>5 DEF TypeOK, RoleType, PartsType, WorkersType, ThreadsType, GameType
<1>2. BuiltKnows'
  <2>1. starts' # 0 /\ (starts' <= 1 => starts = 0) /\ server_check_' /\ game' = "Init"
    BY DEF IInv, TypeOK, ServerStart
  <2>2. /\ UNCHANGED <<users, client_Infos_, io_worker_threads_, accepter_thread_>>
        /\ starts = 0 => \A w \in Workers : io_worker_threads_[w] = "none"
    BY DEF IInv, BuiltKnows, ServerStart
  <2>3. starts' \in 0 .. 2
    BY DEF IInv, TypeOK, ServerStart
  <2>4. QED
    BY <2>1, <2>2, <2>3 DEF BuiltKnows, StartSteps
<1>3. JoinKnows'
  BY DEF IInv, TypeOK, BuiltKnows, JoinKnows, Joinable, ServerStart
<1>4. TimersKnow'
  BY DEF IInv, BuiltKnows, TimersKnow, ClientTimers, ServerStart
<1>5. QED
  BY <1>1, <1>2, <1>3, <1>4 DEF IInv

\* The sockets.
LEMMA ServerInitStep == IInv /\ ServerInit => IInv'
<1> SUFFICES ASSUME IInv, ServerInit PROVE IInv'
  OBVIOUS
<1> USE DEF Go, role, parts, flags, threads
<1>1. TypeOK'
  <2>. RoleType /\ PartsType /\ WorkersType /\ ThreadsType /\ GameType
    BY TypeParts DEF IInv
  <2>1. RoleType'
    BY DEF RoleType, ServerInit
  <2>2. PartsType'
    BY DEF PartsType, ServerInit
  <2>3. WorkersType'
    BY DEF WorkersType, ServerInit
  <2>4. ThreadsType'
    BY DEF ThreadsType, ServerInit
  <2>5. GameType'
    BY DEF GameType, StartSteps, StopSteps, ServerInit
  <2>6. QED
    BY <2>1, <2>2, <2>3, <2>4, <2>5 DEF TypeOK, RoleType, PartsType, WorkersType, ThreadsType, GameType
<1>2. BuiltKnows'
  BY DEF IInv, TypeOK, BuiltKnows, StartSteps, ServerInit
<1>3. JoinKnows'
  BY DEF IInv, TypeOK, BuiltKnows, JoinKnows, Joinable, ServerInit
<1>4. TimersKnow'
  BY DEF IInv, BuiltKnows, TimersKnow, ClientTimers, ServerInit
<1>5. QED
  BY <1>1, <1>2, <1>3, <1>4 DEF IInv

\* The port.
LEMMA BindStep == IInv /\ BindAndListen => IInv'
<1> SUFFICES ASSUME IInv, BindAndListen PROVE IInv'
  OBVIOUS
<1> USE DEF Go, role, parts, flags, threads
<1>1. TypeOK'
  <2>. RoleType /\ PartsType /\ WorkersType /\ ThreadsType /\ GameType
    BY TypeParts DEF IInv
  <2>1. RoleType'
    BY DEF RoleType, BindAndListen
  <2>2. PartsType'
    BY DEF PartsType, BindAndListen
  <2>3. WorkersType'
    BY DEF WorkersType, BindAndListen
  <2>4. ThreadsType'
    BY DEF ThreadsType, BindAndListen
  <2>5. GameType'
    BY DEF GameType, StartSteps, StopSteps, BindAndListen
  <2>6. QED
    BY <2>1, <2>2, <2>3, <2>4, <2>5 DEF TypeOK, RoleType, PartsType, WorkersType, ThreadsType, GameType
<1>2. BuiltKnows'
  BY DEF IInv, TypeOK, BuiltKnows, StartSteps, BindAndListen
<1>3. JoinKnows'
  BY DEF IInv, TypeOK, BuiltKnows, JoinKnows, Joinable, BindAndListen
<1>4. TimersKnow'
  BY DEF IInv, BuiltKnows, TimersKnow, ClientTimers, BindAndListen
<1>5. QED
  BY <1>1, <1>2, <1>3, <1>4 DEF IInv

\* The users' manager.
LEMMA PacketInitStep == IInv /\ PacketInit => IInv'
<1> SUFFICES ASSUME IInv, PacketInit PROVE IInv'
  OBVIOUS
<1> USE DEF Go, role, parts, flags, threads
<1>1. TypeOK'
  <2>. RoleType /\ PartsType /\ WorkersType /\ ThreadsType /\ GameType
    BY TypeParts DEF IInv
  <2>1. RoleType'
    BY DEF RoleType, PacketInit
  <2>2. PartsType'
    BY DEF PartsType, PacketInit
  <2>3. WorkersType'
    BY DEF WorkersType, PacketInit
  <2>4. ThreadsType'
    BY DEF ThreadsType, PacketInit
  <2>5. GameType'
    BY DEF GameType, StartSteps, StopSteps, PacketInit
  <2>6. QED
    BY <2>1, <2>2, <2>3, <2>4, <2>5 DEF TypeOK, RoleType, PartsType, WorkersType, ThreadsType, GameType
<1>2. BuiltKnows'
  BY DEF IInv, TypeOK, BuiltKnows, StartSteps, PacketInit
<1>3. JoinKnows'
  BY DEF IInv, TypeOK, BuiltKnows, JoinKnows, Joinable, PacketInit
<1>4. TimersKnow'
  BY DEF IInv, BuiltKnows, TimersKnow, ClientTimers, PacketInit
<1>5. QED
  BY <1>1, <1>2, <1>3, <1>4 DEF IInv

\* The users.
LEMMA UserInitStep == IInv /\ UserInit => IInv'
<1> SUFFICES ASSUME IInv, UserInit PROVE IInv'
  OBVIOUS
<1> USE DEF Go, role, parts, flags, threads
<1>1. TypeOK'
  <2>. RoleType /\ PartsType /\ WorkersType /\ ThreadsType /\ GameType
    BY TypeParts DEF IInv
  <2>1. RoleType'
    BY DEF RoleType, UserInit
  <2>2. PartsType'
    BY DEF PartsType, UserInit
  <2>3. WorkersType'
    BY DEF WorkersType, UserInit
  <2>4. ThreadsType'
    BY DEF ThreadsType, UserInit
  <2>5. GameType'
    BY DEF GameType, StartSteps, StopSteps, UserInit
  <2>6. QED
    BY <2>1, <2>2, <2>3, <2>4, <2>5 DEF TypeOK, RoleType, PartsType, WorkersType, ThreadsType, GameType
<1>2. BuiltKnows'
  BY DEF IInv, TypeOK, BuiltKnows, StartSteps, UserInit
<1>3. JoinKnows'
  BY DEF IInv, TypeOK, BuiltKnows, JoinKnows, Joinable, UserInit
<1>4. TimersKnow'
  BY DEF IInv, BuiltKnows, TimersKnow, ClientTimers, UserInit
<1>5. QED
  BY <1>1, <1>2, <1>3, <1>4 DEF IInv

\* The slots.
LEMMA CreateClientStep == IInv /\ CreateClient => IInv'
<1> SUFFICES ASSUME IInv, CreateClient PROVE IInv'
  OBVIOUS
<1> USE DEF Go, role, parts, flags, threads
<1>1. TypeOK'
  <2>. RoleType /\ PartsType /\ WorkersType /\ ThreadsType /\ GameType
    BY TypeParts DEF IInv
  <2>1. RoleType'
    BY DEF RoleType, CreateClient
  <2>2. PartsType'
    BY DEF PartsType, CreateClient
  <2>3. WorkersType'
    BY DEF WorkersType, CreateClient
  <2>4. ThreadsType'
    BY DEF ThreadsType, CreateClient
  <2>5. GameType'
    BY DEF GameType, StartSteps, StopSteps, CreateClient
  <2>6. QED
    BY <2>1, <2>2, <2>3, <2>4, <2>5 DEF TypeOK, RoleType, PartsType, WorkersType, ThreadsType, GameType
<1>2. BuiltKnows'
  BY DEF IInv, TypeOK, BuiltKnows, StartSteps, CreateClient
<1>3. JoinKnows'
  BY DEF IInv, TypeOK, BuiltKnows, JoinKnows, Joinable, CreateClient
<1>4. TimersKnow'
  BY DEF IInv, BuiltKnows, TimersKnow, ClientTimers, CreateClient
<1>5. QED
  BY <1>1, <1>2, <1>3, <1>4 DEF IInv

\* A worker, or the end of the loop.
LEMMA CreateWorkerStep == IInv /\ CreateWokerThread => IInv'
<1> SUFFICES ASSUME IInv, CreateWokerThread PROVE IInv'
  OBVIOUS
<1> USE DEF Go, role, parts, flags, threads
<1>1. TypeOK'
  <2>. RoleType /\ PartsType /\ WorkersType /\ ThreadsType /\ GameType
    BY TypeParts DEF IInv
  <2>1. RoleType'
    BY DEF RoleType, CreateWokerThread
  <2>2. PartsType'
    BY DEF PartsType, CreateWokerThread
  <2>3. WorkersType'
    BY DEF WorkersType, CreateWokerThread
  <2>4. ThreadsType'
    BY DEF ThreadsType, CreateWokerThread
  <2>5. GameType'
    BY DEF GameType, StartSteps, StopSteps, CreateWokerThread
  <2>6. QED
    BY <2>1, <2>2, <2>3, <2>4, <2>5 DEF TypeOK, RoleType, PartsType, WorkersType, ThreadsType, GameType
<1>2. BuiltKnows'
  BY DEF IInv, TypeOK, BuiltKnows, StartSteps, CreateWokerThread
<1>3. JoinKnows'
  BY DEF IInv, TypeOK, BuiltKnows, JoinKnows, Joinable, CreateWokerThread
<1>4. TimersKnow'
  BY DEF IInv, BuiltKnows, TimersKnow, ClientTimers, CreateWokerThread
<1>5. QED
  BY <1>1, <1>2, <1>3, <1>4 DEF IInv

\* The accepter.
LEMMA CreateAccepterStep == IInv /\ CreateAccepterThread => IInv'
<1> SUFFICES ASSUME IInv, CreateAccepterThread PROVE IInv'
  OBVIOUS
<1> USE DEF Go, role, parts, flags, threads
<1>1. TypeOK'
  <2>. RoleType /\ PartsType /\ WorkersType /\ ThreadsType /\ GameType
    BY TypeParts DEF IInv
  <2>1. RoleType'
    BY DEF RoleType, CreateAccepterThread
  <2>2. PartsType'
    BY DEF PartsType, CreateAccepterThread
  <2>3. WorkersType'
    BY DEF WorkersType, CreateAccepterThread
  <2>4. ThreadsType'
    BY DEF ThreadsType, CreateAccepterThread
  <2>5. GameType'
    BY DEF GameType, StartSteps, StopSteps, CreateAccepterThread
  <2>6. QED
    BY <2>1, <2>2, <2>3, <2>4, <2>5 DEF TypeOK, RoleType, PartsType, WorkersType, ThreadsType, GameType
<1>2. BuiltKnows'
  BY DEF IInv, TypeOK, BuiltKnows, StartSteps, CreateAccepterThread
<1>3. JoinKnows'
  BY DEF IInv, TypeOK, BuiltKnows, JoinKnows, Joinable, CreateAccepterThread
<1>4. TimersKnow'
  BY DEF IInv, BuiltKnows, TimersKnow, ClientTimers, CreateAccepterThread
<1>5. QED
  BY <1>1, <1>2, <1>3, <1>4 DEF IInv

\* A client is started.
LEMMA ClientStartStep == IInv /\ ClientStart => IInv'
<1> SUFFICES ASSUME IInv, ClientStart PROVE IInv'
  OBVIOUS
<1> USE DEF Go, role, parts, flags, threads
<1>1. TypeOK'
  <2>. RoleType /\ PartsType /\ WorkersType /\ ThreadsType /\ GameType
    BY TypeParts DEF IInv
  <2>1. RoleType'
    BY DEF RoleType, ClientStart, Server_Connect
  <2>2. PartsType'
    BY DEF PartsType, ClientStart, Server_Connect
  <2>3. WorkersType'
    BY DEF WorkersType, ClientStart, Server_Connect
  <2>4. ThreadsType'
    BY DEF ThreadsType, ClientStart, Server_Connect
  <2>5. GameType'
    BY DEF GameType, StartSteps, StopSteps, ClientStart, Server_Connect
  <2>6. QED
    BY <2>1, <2>2, <2>3, <2>4, <2>5 DEF TypeOK, RoleType, PartsType, WorkersType, ThreadsType, GameType
<1>2. BuiltKnows'
  BY DEF IInv, TypeOK, BuiltKnows, StartSteps, ClientStart, Server_Connect
<1>3. JoinKnows'
  BY DEF IInv, TypeOK, BuiltKnows, JoinKnows, Joinable, ClientStart, Server_Connect
<1>4. TimersKnow'
  BY DEF IInv, BuiltKnows, TimersKnow, ClientTimers, ClientStart, Server_Connect
<1>5. QED
  BY <1>1, <1>2, <1>3, <1>4 DEF IInv

\* A client is connected with no role taken.
LEMMA LoginConnectStep == IInv /\ LoginConnect => IInv'
<1> SUFFICES ASSUME IInv, LoginConnect PROVE IInv'
  OBVIOUS
<1> USE DEF Go, role, parts, flags, threads
<1>1. TypeOK'
  <2>. RoleType /\ PartsType /\ WorkersType /\ ThreadsType /\ GameType
    BY TypeParts DEF IInv
  <2>1. RoleType'
    BY DEF RoleType, LoginConnect, Server_Connect
  <2>2. PartsType'
    BY DEF PartsType, LoginConnect, Server_Connect
  <2>3. WorkersType'
    BY DEF WorkersType, LoginConnect, Server_Connect
  <2>4. ThreadsType'
    BY DEF ThreadsType, LoginConnect, Server_Connect
  <2>5. GameType'
    BY DEF GameType, StartSteps, StopSteps, LoginConnect, Server_Connect
  <2>6. QED
    BY <2>1, <2>2, <2>3, <2>4, <2>5 DEF TypeOK, RoleType, PartsType, WorkersType, ThreadsType, GameType
<1>2. BuiltKnows'
  BY DEF IInv, TypeOK, BuiltKnows, StartSteps, LoginConnect, Server_Connect
<1>3. JoinKnows'
  BY DEF IInv, TypeOK, BuiltKnows, JoinKnows, Joinable, LoginConnect, Server_Connect
<1>4. TimersKnow'
  BY DEF IInv, BuiltKnows, TimersKnow, ClientTimers, LoginConnect, Server_Connect
<1>5. QED
  BY <1>1, <1>2, <1>3, <1>4 DEF IInv

\* The server's timer.
LEMMA TimerStep == IInv /\ TimerProcessPacket => IInv'
<1> SUFFICES ASSUME IInv, TimerProcessPacket PROVE IInv'
  OBVIOUS
<1> USE DEF Go, role, parts, flags, threads
<1>1. TypeOK'
  <2>. RoleType /\ PartsType /\ WorkersType /\ ThreadsType /\ GameType
    BY TypeParts DEF IInv
  <2>1. RoleType'
    BY DEF RoleType, TimerProcessPacket
  <2>2. PartsType'
    BY DEF PartsType, TimerProcessPacket
  <2>3. WorkersType'
    BY DEF WorkersType, TimerProcessPacket
  <2>4. ThreadsType'
    BY DEF ThreadsType, TimerProcessPacket
  <2>5. GameType'
    BY DEF GameType, StartSteps, StopSteps, TimerProcessPacket
  <2>6. QED
    BY <2>1, <2>2, <2>3, <2>4, <2>5 DEF TypeOK, RoleType, PartsType, WorkersType, ThreadsType, GameType
<1>2. BuiltKnows'
  BY DEF IInv, TypeOK, BuiltKnows, StartSteps, TimerProcessPacket
<1>3. JoinKnows'
  BY DEF IInv, TypeOK, BuiltKnows, JoinKnows, Joinable, TimerProcessPacket
<1>4. TimersKnow'
  BY DEF IInv, BuiltKnows, TimersKnow, ClientTimers, TimerProcessPacket
<1>5. QED
  BY <1>1, <1>2, <1>3, <1>4 DEF IInv

\* The client's timer.
LEMMA ClientTimerStep == IInv /\ ClientTimerInGameProcessPacket => IInv'
<1> SUFFICES ASSUME IInv, ClientTimerInGameProcessPacket PROVE IInv'
  OBVIOUS
<1> USE DEF Go, role, parts, flags, threads
<1>1. TypeOK'
  <2>. RoleType /\ PartsType /\ WorkersType /\ ThreadsType /\ GameType
    BY TypeParts DEF IInv
  <2>1. RoleType'
    BY DEF RoleType, ClientTimerInGameProcessPacket
  <2>2. PartsType'
    BY DEF PartsType, ClientTimerInGameProcessPacket
  <2>3. WorkersType'
    BY DEF WorkersType, ClientTimerInGameProcessPacket
  <2>4. ThreadsType'
    BY DEF ThreadsType, ClientTimerInGameProcessPacket
  <2>5. GameType'
    BY DEF GameType, StartSteps, StopSteps, ClientTimerInGameProcessPacket
  <2>6. QED
    BY <2>1, <2>2, <2>3, <2>4, <2>5 DEF TypeOK, RoleType, PartsType, WorkersType, ThreadsType, GameType
<1>2. BuiltKnows'
  BY DEF IInv, TypeOK, BuiltKnows, StartSteps, ClientTimerInGameProcessPacket
<1>3. JoinKnows'
  BY DEF IInv, TypeOK, BuiltKnows, JoinKnows, Joinable, ClientTimerInGameProcessPacket
<1>4. TimersKnow'
  BY DEF IInv, BuiltKnows, TimersKnow, ClientTimers, ClientTimerInGameProcessPacket
<1>5. QED
  BY <1>1, <1>2, <1>3, <1>4 DEF IInv

\* Shutdown begins.
LEMMA ShutdownStep == IInv /\ Shutdown => IInv'
<1> SUFFICES ASSUME IInv, Shutdown PROVE IInv'
  OBVIOUS
<1> USE DEF Go, role, parts, flags, threads
<1>1. TypeOK'
  <2>. RoleType /\ PartsType /\ WorkersType /\ ThreadsType /\ GameType
    BY TypeParts DEF IInv
  <2>1. RoleType'
    BY DEF RoleType, Shutdown
  <2>2. PartsType'
    BY DEF PartsType, Shutdown
  <2>3. WorkersType'
    BY DEF WorkersType, Shutdown
  <2>4. ThreadsType'
    BY DEF ThreadsType, Shutdown
  <2>5. GameType'
    BY DEF GameType, StartSteps, StopSteps, Shutdown
  <2>6. QED
    BY <2>1, <2>2, <2>3, <2>4, <2>5 DEF TypeOK, RoleType, PartsType, WorkersType, ThreadsType, GameType
<1>2. BuiltKnows'
  BY DEF IInv, TypeOK, BuiltKnows, StartSteps, Shutdown
<1>3. JoinKnows'
  <2>1. CASE server_check_
    BY <2>1 DEF IInv, JoinKnows, Shutdown
  <2>2. CASE ~server_check_
    <3>1. accepter_thread_ = "none" /\ \A w \in Workers : io_worker_threads_[w] = "none"
      BY <2>2 DEF IInv, BuiltKnows
    <3>2. QED
      BY <2>2, <3>1 DEF JoinKnows, Joinable, Shutdown
  <2>3. QED
    BY <2>1, <2>2 DEF IInv, TypeOK
<1>4. TimersKnow'
  BY DEF IInv, BuiltKnows, TimersKnow, ClientTimers, Shutdown
<1>5. QED
  BY <1>1, <1>2, <1>3, <1>4 DEF IInv

\* The port is closed.
LEMMA CloseHandleStep == IInv /\ CloseHandle => IInv'
<1> SUFFICES ASSUME IInv, CloseHandle PROVE IInv'
  OBVIOUS
<1> USE DEF Go, role, parts, flags, threads
<1>1. TypeOK'
  <2>. RoleType /\ PartsType /\ WorkersType /\ ThreadsType /\ GameType
    BY TypeParts DEF IInv
  <2>1. RoleType'
    BY DEF RoleType, CloseHandle
  <2>2. PartsType'
    BY DEF PartsType, CloseHandle
  <2>3. WorkersType'
    BY DEF WorkersType, CloseHandle
  <2>4. ThreadsType'
    BY DEF ThreadsType, CloseHandle
  <2>5. GameType'
    BY DEF GameType, StartSteps, StopSteps, CloseHandle
  <2>6. QED
    BY <2>1, <2>2, <2>3, <2>4, <2>5 DEF TypeOK, RoleType, PartsType, WorkersType, ThreadsType, GameType
<1>2. BuiltKnows'
  BY DEF IInv, TypeOK, BuiltKnows, StartSteps, CloseHandle
<1>3. JoinKnows'
  BY DEF IInv, TypeOK, BuiltKnows, JoinKnows, Joinable, CloseHandle
<1>4. TimersKnow'
  BY DEF IInv, BuiltKnows, TimersKnow, ClientTimers, CloseHandle
<1>5. QED
  BY <1>1, <1>2, <1>3, <1>4 DEF IInv

\* The workers are joined.
LEMMA JoinWorkersStep == IInv /\ JoinWorkers => IInv'
<1> SUFFICES ASSUME IInv, JoinWorkers PROVE IInv'
  OBVIOUS
<1> USE DEF Go, role, parts, flags, threads
<1>1. TypeOK'
  <2>. RoleType /\ PartsType /\ WorkersType /\ ThreadsType /\ GameType
    BY TypeParts DEF IInv
  <2>1. RoleType'
    BY DEF RoleType, JoinWorkers
  <2>2. PartsType'
    BY DEF PartsType, JoinWorkers
  <2>3. WorkersType'
    BY DEF WorkersType, JoinWorkers
  <2>4. ThreadsType'
    BY DEF ThreadsType, JoinWorkers
  <2>5. GameType'
    BY DEF GameType, StartSteps, StopSteps, JoinWorkers
  <2>6. QED
    BY <2>1, <2>2, <2>3, <2>4, <2>5 DEF TypeOK, RoleType, PartsType, WorkersType, ThreadsType, GameType
<1>2. BuiltKnows'
  BY DEF IInv, TypeOK, BuiltKnows, StartSteps, JoinWorkers
<1>3. JoinKnows'
  BY DEF IInv, TypeOK, BuiltKnows, JoinKnows, Joinable, JoinWorkers
<1>4. TimersKnow'
  BY DEF IInv, BuiltKnows, TimersKnow, ClientTimers, JoinWorkers
<1>5. QED
  BY <1>1, <1>2, <1>3, <1>4 DEF IInv

\* The listening socket is closed.
LEMMA CloseListenStep == IInv /\ CloseListen => IInv'
<1> SUFFICES ASSUME IInv, CloseListen PROVE IInv'
  OBVIOUS
<1> USE DEF Go, role, parts, flags, threads
<1>1. TypeOK'
  <2>. RoleType /\ PartsType /\ WorkersType /\ ThreadsType /\ GameType
    BY TypeParts DEF IInv
  <2>1. RoleType'
    BY DEF RoleType, CloseListen
  <2>2. PartsType'
    BY DEF PartsType, CloseListen
  <2>3. WorkersType'
    BY DEF WorkersType, CloseListen
  <2>4. ThreadsType'
    BY DEF ThreadsType, CloseListen
  <2>5. GameType'
    BY DEF GameType, StartSteps, StopSteps, CloseListen
  <2>6. QED
    BY <2>1, <2>2, <2>3, <2>4, <2>5 DEF TypeOK, RoleType, PartsType, WorkersType, ThreadsType, GameType
<1>2. BuiltKnows'
  BY DEF IInv, TypeOK, BuiltKnows, StartSteps, CloseListen
<1>3. JoinKnows'
  BY DEF IInv, TypeOK, BuiltKnows, JoinKnows, Joinable, CloseListen
<1>4. TimersKnow'
  BY DEF IInv, BuiltKnows, TimersKnow, ClientTimers, CloseListen
<1>5. QED
  BY <1>1, <1>2, <1>3, <1>4 DEF IInv

\* The accepter is joined.
LEMMA JoinAccepterStep == IInv /\ JoinAccepter => IInv'
<1> SUFFICES ASSUME IInv, JoinAccepter PROVE IInv'
  OBVIOUS
<1> USE DEF Go, role, parts, flags, threads
<1>1. TypeOK'
  <2>. RoleType /\ PartsType /\ WorkersType /\ ThreadsType /\ GameType
    BY TypeParts DEF IInv
  <2>1. RoleType'
    BY DEF RoleType, JoinAccepter
  <2>2. PartsType'
    BY DEF PartsType, JoinAccepter
  <2>3. WorkersType'
    BY DEF WorkersType, JoinAccepter
  <2>4. ThreadsType'
    BY DEF ThreadsType, JoinAccepter
  <2>5. GameType'
    BY DEF GameType, StartSteps, StopSteps, JoinAccepter
  <2>6. QED
    BY <2>1, <2>2, <2>3, <2>4, <2>5 DEF TypeOK, RoleType, PartsType, WorkersType, ThreadsType, GameType
<1>2. BuiltKnows'
  BY DEF IInv, TypeOK, BuiltKnows, StartSteps, JoinAccepter
<1>3. JoinKnows'
  BY DEF IInv, TypeOK, BuiltKnows, JoinKnows, Joinable, JoinAccepter
<1>4. TimersKnow'
  BY DEF IInv, BuiltKnows, TimersKnow, ClientTimers, JoinAccepter
<1>5. QED
  BY <1>1, <1>2, <1>3, <1>4 DEF IInv

\* The receive thread is told to end.
LEMMA ClientShutdownStep == IInv /\ Client_Shutdown => IInv'
<1> SUFFICES ASSUME IInv, Client_Shutdown PROVE IInv'
  OBVIOUS
<1> USE DEF Go, role, parts, flags, threads
<1>1. TypeOK'
  <2>. RoleType /\ PartsType /\ WorkersType /\ ThreadsType /\ GameType
    BY TypeParts DEF IInv
  <2>1. RoleType'
    BY DEF RoleType, Client_Shutdown
  <2>2. PartsType'
    BY DEF PartsType, Client_Shutdown
  <2>3. WorkersType'
    BY DEF WorkersType, Client_Shutdown
  <2>4. ThreadsType'
    BY DEF ThreadsType, Client_Shutdown
  <2>5. GameType'
    BY DEF GameType, StartSteps, StopSteps, Client_Shutdown
  <2>6. QED
    BY <2>1, <2>2, <2>3, <2>4, <2>5 DEF TypeOK, RoleType, PartsType, WorkersType, ThreadsType, GameType
<1>2. BuiltKnows'
  BY DEF IInv, TypeOK, BuiltKnows, StartSteps, Client_Shutdown
<1>3. JoinKnows'
  BY DEF IInv, TypeOK, BuiltKnows, JoinKnows, Joinable, Client_Shutdown
<1>4. TimersKnow'
  BY DEF IInv, BuiltKnows, TimersKnow, ClientTimers, Client_Shutdown
<1>5. QED
  BY <1>1, <1>2, <1>3, <1>4 DEF IInv

\* The receive thread is joined.
LEMMA JoinReceiverStep == IInv /\ JoinReceiver => IInv'
<1> SUFFICES ASSUME IInv, JoinReceiver PROVE IInv'
  OBVIOUS
<1> USE DEF Go, role, parts, flags, threads
<1>1. TypeOK'
  <2>. RoleType /\ PartsType /\ WorkersType /\ ThreadsType /\ GameType
    BY TypeParts DEF IInv
  <2>1. RoleType'
    BY DEF RoleType, JoinReceiver
  <2>2. PartsType'
    BY DEF PartsType, JoinReceiver
  <2>3. WorkersType'
    BY DEF WorkersType, JoinReceiver
  <2>4. ThreadsType'
    BY DEF ThreadsType, JoinReceiver
  <2>5. GameType'
    BY DEF GameType, StartSteps, StopSteps, JoinReceiver
  <2>6. QED
    BY <2>1, <2>2, <2>3, <2>4, <2>5 DEF TypeOK, RoleType, PartsType, WorkersType, ThreadsType, GameType
<1>2. BuiltKnows'
  BY DEF IInv, TypeOK, BuiltKnows, StartSteps, JoinReceiver
<1>3. JoinKnows'
  BY DEF IInv, TypeOK, BuiltKnows, JoinKnows, Joinable, JoinReceiver
<1>4. TimersKnow'
  BY DEF IInv, BuiltKnows, TimersKnow, ClientTimers, JoinReceiver
<1>5. QED
  BY <1>1, <1>2, <1>3, <1>4 DEF IInv

\* The members are destroyed.
LEMMA DestroyStep == IInv /\ Destroy => IInv'
<1> SUFFICES ASSUME IInv, Destroy PROVE IInv'
  OBVIOUS
<1> USE DEF Go, role, parts, flags, threads
<1>1. TypeOK'
  <2>. RoleType /\ PartsType /\ WorkersType /\ ThreadsType /\ GameType
    BY TypeParts DEF IInv
  <2>1. RoleType'
    BY DEF RoleType, Destroy
  <2>2. PartsType'
    BY DEF PartsType, Destroy
  <2>3. WorkersType'
    BY DEF WorkersType, Destroy
  <2>4. ThreadsType'
    BY DEF ThreadsType, Destroy
  <2>5. GameType'
    BY DEF GameType, StartSteps, StopSteps, Destroy
  <2>6. QED
    BY <2>1, <2>2, <2>3, <2>4, <2>5 DEF TypeOK, RoleType, PartsType, WorkersType, ThreadsType, GameType
<1>2. BuiltKnows'
  BY DEF IInv, TypeOK, BuiltKnows, StartSteps, Destroy
<1>3. JoinKnows'
  BY DEF IInv, TypeOK, BuiltKnows, JoinKnows, Joinable, Destroy
<1>4. TimersKnow'
  BY DEF IInv, BuiltKnows, TimersKnow, ClientTimers, Destroy
<1>5. QED
  BY <1>1, <1>2, <1>3, <1>4 DEF IInv

\* The accepter.
LEMMA AccepterStep == IInv /\ Accepter => IInv'
<1> SUFFICES ASSUME IInv, Accepter PROVE IInv'
  OBVIOUS
<1> USE DEF Go, role, parts, flags, threads
<1>1. TypeOK'
  <2>. RoleType /\ PartsType /\ WorkersType /\ ThreadsType /\ GameType
    BY TypeParts DEF IInv
  <2>1. RoleType'
    BY DEF RoleType, Accepter, AccepterLoop, AccepterOffers, AccepterAt, Alive
  <2>2. PartsType'
    BY DEF PartsType, Accepter, AccepterLoop, AccepterOffers, AccepterAt, Alive
  <2>3. WorkersType'
    BY DEF WorkersType, Accepter, AccepterLoop, AccepterOffers, AccepterAt, Alive
  <2>4. ThreadsType'
    BY DEF ThreadsType, Accepter, AccepterLoop, AccepterOffers, AccepterAt, Alive
  <2>5. GameType'
    BY DEF GameType, StartSteps, StopSteps, Accepter, AccepterLoop, AccepterOffers, AccepterAt, Alive
  <2>6. QED
    BY <2>1, <2>2, <2>3, <2>4, <2>5 DEF TypeOK, RoleType, PartsType, WorkersType, ThreadsType, GameType
<1>2. BuiltKnows'
  BY DEF IInv, TypeOK, BuiltKnows, StartSteps, Accepter, AccepterLoop, AccepterOffers, AccepterAt, Alive
<1>3. JoinKnows'
  BY DEF IInv, TypeOK, BuiltKnows, JoinKnows, Joinable, Accepter, AccepterLoop, AccepterOffers, AccepterAt, Alive
<1>4. TimersKnow'
  BY DEF IInv, BuiltKnows, TimersKnow, ClientTimers, Accepter, AccepterLoop, AccepterOffers, AccepterAt, Alive
<1>5. QED
  BY <1>1, <1>2, <1>3, <1>4 DEF IInv

\* The receive thread ends.
LEMMA ReceiverStep == IInv /\ ReceiverEnds => IInv'
<1> SUFFICES ASSUME IInv, ReceiverEnds PROVE IInv'
  OBVIOUS
<1> USE DEF Go, role, parts, flags, threads
<1>1. TypeOK'
  <2>. RoleType /\ PartsType /\ WorkersType /\ ThreadsType /\ GameType
    BY TypeParts DEF IInv
  <2>1. RoleType'
    BY DEF RoleType, ReceiverEnds, Alive
  <2>2. PartsType'
    BY DEF PartsType, ReceiverEnds, Alive
  <2>3. WorkersType'
    BY DEF WorkersType, ReceiverEnds, Alive
  <2>4. ThreadsType'
    BY DEF ThreadsType, ReceiverEnds, Alive
  <2>5. GameType'
    BY DEF GameType, StartSteps, StopSteps, ReceiverEnds, Alive
  <2>6. QED
    BY <2>1, <2>2, <2>3, <2>4, <2>5 DEF TypeOK, RoleType, PartsType, WorkersType, ThreadsType, GameType
<1>2. BuiltKnows'
  BY DEF IInv, TypeOK, BuiltKnows, StartSteps, ReceiverEnds, Alive
<1>3. JoinKnows'
  BY DEF IInv, TypeOK, BuiltKnows, JoinKnows, Joinable, ReceiverEnds, Alive
<1>4. TimersKnow'
  BY DEF IInv, BuiltKnows, TimersKnow, ClientTimers, ReceiverEnds, Alive
<1>5. QED
  BY <1>1, <1>2, <1>3, <1>4 DEF IInv

\* A worker.
LEMMA WorkerStep == IInv /\ (\E w \in Workers : Worker(w)) => IInv'
<1> SUFFICES ASSUME IInv, (\E w \in Workers : Worker(w)) PROVE IInv'
  OBVIOUS
<1> USE DEF Go, role, parts, flags, threads
<1>1. TypeOK'
  <2>. RoleType /\ PartsType /\ WorkersType /\ ThreadsType /\ GameType
    BY TypeParts DEF IInv
  <2>1. RoleType'
    BY DEF RoleType, Worker, WorkerLoop, WorkerFails, WorkerHandles, WorkerHandled, WorkerAt, Alive
  <2>2. PartsType'
    BY DEF PartsType, Worker, WorkerLoop, WorkerFails, WorkerHandles, WorkerHandled, WorkerAt, Alive
  <2>3. WorkersType'
    BY DEF WorkersType, Worker, WorkerLoop, WorkerFails, WorkerHandles, WorkerHandled, WorkerAt, Alive
  <2>4. ThreadsType'
    BY DEF ThreadsType, Worker, WorkerLoop, WorkerFails, WorkerHandles, WorkerHandled, WorkerAt, Alive
  <2>5. GameType'
    BY DEF GameType, StartSteps, StopSteps, Worker, WorkerLoop, WorkerFails, WorkerHandles, WorkerHandled, WorkerAt, Alive
  <2>6. QED
    BY <2>1, <2>2, <2>3, <2>4, <2>5 DEF TypeOK, RoleType, PartsType, WorkersType, ThreadsType, GameType
<1>2. BuiltKnows'
  BY DEF IInv, TypeOK, BuiltKnows, StartSteps, Worker, WorkerLoop, WorkerFails, WorkerHandles, WorkerHandled, WorkerAt, Alive
<1>3. JoinKnows'
  BY DEF IInv, TypeOK, BuiltKnows, JoinKnows, Joinable, Worker, WorkerLoop, WorkerFails, WorkerHandles, WorkerHandled, WorkerAt, Alive
<1>4. TimersKnow'
  BY DEF IInv, BuiltKnows, TimersKnow, ClientTimers, Worker, WorkerLoop, WorkerFails, WorkerHandles, WorkerHandled, WorkerAt, Alive
<1>5. QED
  BY <1>1, <1>2, <1>3, <1>4 DEF IInv

\* Nothing happens.
LEMMA StutterStep == IInv /\ UNCHANGED vars => IInv'
<1> SUFFICES ASSUME IInv, UNCHANGED vars PROVE IInv'
  OBVIOUS
<1> USE DEF Go, role, parts, flags, threads
<1>1. TypeOK'
  <2>. RoleType /\ PartsType /\ WorkersType /\ ThreadsType /\ GameType
    BY TypeParts DEF IInv
  <2>1. RoleType'
    BY DEF RoleType, vars
  <2>2. PartsType'
    BY DEF PartsType, vars
  <2>3. WorkersType'
    BY DEF WorkersType, vars
  <2>4. ThreadsType'
    BY DEF ThreadsType, vars
  <2>5. GameType'
    BY DEF GameType, StartSteps, StopSteps, vars
  <2>6. QED
    BY <2>1, <2>2, <2>3, <2>4, <2>5 DEF TypeOK, RoleType, PartsType, WorkersType, ThreadsType, GameType
<1>2. BuiltKnows'
  BY DEF IInv, TypeOK, BuiltKnows, StartSteps, vars
<1>3. JoinKnows'
  BY DEF IInv, TypeOK, BuiltKnows, JoinKnows, Joinable, vars
<1>4. TimersKnow'
  BY DEF IInv, BuiltKnows, TimersKnow, ClientTimers, vars
<1>5. QED
  BY <1>1, <1>2, <1>3, <1>4 DEF IInv

-----------------------------------------------------------------------------

\* What is built, joined and set is known at every step of the process.
THEOREM AppInvariance == Spec => []IInv
<1>1. IInv /\ [Next]_vars => IInv'
  BY ServerStartStep, ServerInitStep, BindStep, PacketInitStep, UserInitStep, CreateClientStep, CreateWorkerStep, CreateAccepterStep, ClientStartStep, LoginConnectStep, TimerStep, ClientTimerStep, ShutdownStep, CloseHandleStep, JoinWorkersStep, CloseListenStep, JoinAccepterStep, ClientShutdownStep, JoinReceiverStep, DestroyStep, AccepterStep, ReceiverStep, WorkerStep, StutterStep
     DEF Next, Start, Go_on
<1>2. QED
  BY <1>1, InitInv, PTL DEF Spec

\* The members keep their types.
THEOREM AppTypeCorrect == Spec => []TypeOK
<1>1. IInv => TypeOK
  BY DEF IInv
<1>2. QED
  BY <1>1, AppInvariance, PTL

\* A completion is handled only when the slots and the users exist.
THEOREM HandlersFindTheirParts == Spec => []HandlersReady
<1>1. IInv => HandlersReady
  BY DEF IInv, BuiltKnows, HandlersReady
<1>2. QED
  BY <1>1, AppInvariance, PTL

\* Shutdown leaves no thread it knows of.
THEOREM ShutdownJoins == Spec => []NothingLeftRunning
<1>1. IInv => NothingLeftRunning
  BY DEF IInv, JoinKnows, NothingLeftRunning, Joinable
<1>2. QED
  BY <1>1, AppInvariance, PTL

\* The timers of the one role a process has are never cleared.
THEOREM TimersStay == Spec => []RoleHasTimers
<1>1. IInv => RoleHasTimers
  BY DEF IInv, TimersKnow, RoleHasTimers
<1>2. QED
  BY <1>1, AppInvariance, PTL

-----------------------------------------------------------------------------

\* What the threads have been told by the time they are joined.
StopKnows ==
    /\ game \in {"CloseHandle", "join workers"} => is_worker_run_ = FALSE
    /\ game = "join workers" => iocp_handle_ # "open"
    /\ game \in {"close listen", "join accepter"} => is_accepter_run_ = FALSE

Stopping == {"CloseHandle", "join workers", "close listen", "join accepter"}

LEMMA StopElsewhere == game' \notin Stopping => StopKnows'
BY DEF Stopping, StopKnows

LEMMA StopFrame ==
  StopKnows /\ UNCHANGED <<game, iocp_handle_, is_worker_run_, is_accepter_run_>> => StopKnows'
<1> SUFFICES ASSUME StopKnows, UNCHANGED <<game, iocp_handle_, is_worker_run_, is_accepter_run_>>
             PROVE  StopKnows'
  OBVIOUS
<1>1. game' = game /\ iocp_handle_' = iocp_handle_
  OBVIOUS
<1>2. is_worker_run_' = is_worker_run_ /\ is_accepter_run_' = is_accepter_run_
  OBVIOUS
<1>3. ASSUME game' \in {"CloseHandle", "join workers"} PROVE is_worker_run_' = FALSE
  BY <1>1, <1>2, <1>3 DEF StopKnows
<1>4. ASSUME game' \in {"close listen", "join accepter"} PROVE is_accepter_run_' = FALSE
  BY <1>1, <1>2, <1>4 DEF StopKnows
<1>5. game' = "join workers" => iocp_handle_' # "open"
  BY <1>1 DEF StopKnows
<1>6. QED
  BY <1>3, <1>4, <1>5 DEF StopKnows

\* The steps of a thread and of a timer.
LEMMA AsideSteps ==
  TimerProcessPacket \/ ClientTimerInGameProcessPacket \/ (\E w \in Workers : Worker(w))
    \/ Accepter \/ ReceiverEnds \/ UNCHANGED vars
  => UNCHANGED <<game, iocp_handle_, is_worker_run_, is_accepter_run_>>
<1> USE DEF role, parts, flags, threads
<1>1. TimerProcessPacket \/ ClientTimerInGameProcessPacket
      => UNCHANGED <<game, iocp_handle_, is_worker_run_, is_accepter_run_>>
  BY Zenon DEF TimerProcessPacket, ClientTimerInGameProcessPacket
<1>2. (\E w \in Workers : Worker(w))
      => UNCHANGED <<game, iocp_handle_, is_worker_run_, is_accepter_run_>>
  BY Zenon DEF Worker, WorkerLoop, WorkerFails, WorkerHandles, WorkerHandled, WorkerAt
<1>3. Accepter \/ ReceiverEnds => UNCHANGED <<game, iocp_handle_, is_worker_run_, is_accepter_run_>>
  BY Zenon DEF Accepter, AccepterLoop, AccepterOffers, AccepterAt, ReceiverEnds
<1>4. UNCHANGED vars => UNCHANGED <<game, iocp_handle_, is_worker_run_, is_accepter_run_>>
  BY DEF vars
<1>5. QED
  BY <1>1, <1>2, <1>3, <1>4

\* No start, timer or thread takes it back.
LEMMA StopStep == StopKnows /\ [Next]_vars => StopKnows'
<1> SUFFICES ASSUME StopKnows, [Next]_vars PROVE StopKnows'
  OBVIOUS
<1> USE DEF Go, role, parts, flags, threads
<1>1. CASE Start
  <2>1. game' \notin Stopping
    BY <1>1 DEF Start, ServerStart, ClientStart, LoginConnect, Server_Connect, Stopping
  <2>2. QED
    BY <2>1, StopElsewhere
<1>2. CASE TimerProcessPacket \/ ClientTimerInGameProcessPacket \/ (\E w \in Workers : Worker(w))
             \/ Accepter \/ ReceiverEnds \/ UNCHANGED vars
  BY <1>2, AsideSteps, StopFrame
<1>3. CASE ServerInit \/ BindAndListen \/ PacketInit \/ UserInit \/ CreateClient \/ CreateWokerThread
             \/ CreateAccepterThread \/ JoinAccepter \/ Client_Shutdown \/ JoinReceiver \/ Destroy
  <2>1. game' \notin Stopping
    BY <1>3 DEF ServerInit, BindAndListen, PacketInit, UserInit, CreateClient, CreateWokerThread,
                CreateAccepterThread, JoinAccepter, Client_Shutdown, JoinReceiver, Destroy, Stopping
  <2>2. QED
    BY <2>1, StopElsewhere
<1>4. CASE Shutdown
  <2>1. CASE game' = "CloseHandle" /\ is_worker_run_' = FALSE
    BY <2>1 DEF StopKnows
  <2>2. CASE game' = "client"
    BY <2>2, StopElsewhere DEF Stopping
  <2>3. QED
    BY <1>4, <2>1, <2>2 DEF Shutdown
<1>5. CASE CloseHandle
  <2>1. game = "CloseHandle" /\ game' = "join workers" /\ is_worker_run_' = is_worker_run_
    BY <1>5 DEF CloseHandle
  <2>2. iocp_handle_' # "open"
    BY <1>5 DEF CloseHandle
  <2>3. QED
    BY <2>1, <2>2 DEF StopKnows
<1>6. CASE JoinWorkers
  <2>1. game' = "close listen" /\ is_accepter_run_' = FALSE
    BY <1>6 DEF JoinWorkers
  <2>2. QED
    BY <2>1 DEF StopKnows
<1>7. CASE CloseListen
  <2>1. game = "close listen" /\ game' = "join accepter" /\ is_accepter_run_' = is_accepter_run_
    BY <1>7 DEF CloseListen
  <2>2. QED
    BY <2>1 DEF StopKnows
<1>8. QED
  BY <1>1, <1>2, <1>3, <1>4, <1>5, <1>6, <1>7, Zenon DEF Next, Go_on

\* The steps that a thread which is told to end may take.
LEMMA StepsToGo ==
  /\ Nearer("loop", "ended")
  /\ Nearer("wait", "loop") /\ Nearer("handle", "loop") /\ Nearer("offer", "loop")
  /\ \A next : Nearer("none", next) /\ Nearer("ended", next)
BY DEF Nearer, ToGo

LEMMA Staying == \A t : Nearer(t, t)
BY DEF Nearer

\* A worker that is joined leaves its loop, or the closed port sends it back there.
LEMMA WorkersNearer ==
  ASSUME WorkersType, StopKnows, [Next]_vars, game = "join workers", NEW w \in Workers
  PROVE  Nearer(io_worker_threads_[w], io_worker_threads_'[w])
<1>1. CASE \E v \in Workers : Worker(v)
  <2> PICK v \in Workers : Worker(v)
    BY <1>1
  <2>1. ASSUME NEW from, NEW to, WorkerAt(v, from, to), Nearer(from, to)
        PROVE  Nearer(io_worker_threads_[w], io_worker_threads_'[w])
    <3>1. CASE w = v
      <4>1. io_worker_threads_[w] = from /\ io_worker_threads_'[w] = to
        BY <2>1, <3>1 DEF WorkerAt, WorkersType
      <4>2. QED
        BY <2>1, <4>1
    <3>2. CASE w # v
      <4>1. io_worker_threads_'[w] = io_worker_threads_[w]
        BY <2>1, <3>2 DEF WorkerAt, WorkersType
      <4>2. QED
        BY <4>1, Staying
    <3>3. QED
      BY <3>1, <3>2
  <2>2. CASE WorkerLoop(v)
    <3>1. is_worker_run_ = FALSE
      BY DEF StopKnows
    <3>2. WorkerAt(v, "loop", "ended")
      BY <2>2, <3>1, Zenon DEF WorkerLoop
    <3>3. QED
      BY <3>2, StepsToGo, <2>1
  <2>3. CASE WorkerFails(v)
    BY <2>3, StepsToGo, <2>1 DEF WorkerFails
  <2>4. CASE WorkerHandled(v)
    BY <2>4, StepsToGo, <2>1 DEF WorkerHandled
  <2>5. ~WorkerHandles(v)
    BY DEF WorkerHandles, StopKnows
  <2>6. QED
    BY <2>2, <2>3, <2>4, <2>5 DEF Worker
<1>2. CASE JoinWorkers
  <2>1. io_worker_threads_[w] \in {"none", "ended"}
    BY <1>2 DEF JoinWorkers
  <2>2. QED
    BY <2>1, StepsToGo
<1>3. CASE UNCHANGED io_worker_threads_
  BY <1>3, Staying
<1>4. Accepter \/ ReceiverEnds \/ UNCHANGED vars => UNCHANGED io_worker_threads_
  BY DEF Accepter, AccepterLoop, AccepterOffers, AccepterAt, ReceiverEnds, vars, threads
<1>5. ~Start /\ ~TimerProcessPacket /\ ~ClientTimerInGameProcessPacket /\ ~Shutdown
  BY DEF Start, ServerStart, ClientStart, LoginConnect, TimerProcessPacket,
         ClientTimerInGameProcessPacket, Shutdown, Go
<1>6. Go_on => JoinWorkers
  BY DEF Go_on, ServerInit, BindAndListen, PacketInit, UserInit, CreateClient, CreateWokerThread,
         CreateAccepterThread, CloseHandle, CloseListen, JoinAccepter, Client_Shutdown, JoinReceiver,
         Destroy, Go
<1>7. QED
  BY <1>1, <1>2, <1>3, <1>4, <1>5, <1>6 DEF Next

\* The accepter that is joined ends its pass and leaves its loop.
LEMMA AccepterNearer ==
  ASSUME StopKnows, [Next]_vars, game = "join accepter"
  PROVE  Nearer(accepter_thread_, accepter_thread_')
<1>1. CASE AccepterLoop
  <2>1. is_accepter_run_ = FALSE
    BY DEF StopKnows
  <2>2. AccepterAt("loop", "ended")
    BY <1>1, <2>1, Zenon DEF AccepterLoop
  <2>3. accepter_thread_ = "loop" /\ accepter_thread_' = "ended"
    BY <2>2 DEF AccepterAt
  <2>4. QED
    BY <2>3, StepsToGo
<1>2. CASE AccepterOffers
  <2>1. accepter_thread_ = "offer" /\ accepter_thread_' = "loop"
    BY <1>2 DEF AccepterOffers, AccepterAt
  <2>2. QED
    BY <2>1, StepsToGo
<1>3. CASE JoinAccepter
  <2>1. accepter_thread_ \in {"none", "ended"}
    BY <1>3 DEF JoinAccepter
  <2>2. QED
    BY <2>1, StepsToGo
<1>4. CASE UNCHANGED accepter_thread_
  BY <1>4, Staying
<1>5. (\E w \in Workers : Worker(w)) \/ ReceiverEnds \/ UNCHANGED vars => UNCHANGED accepter_thread_
  BY DEF Worker, WorkerLoop, WorkerFails, WorkerHandles, WorkerHandled, WorkerAt, ReceiverEnds,
         vars, threads
<1>6. ~Start /\ ~TimerProcessPacket /\ ~ClientTimerInGameProcessPacket /\ ~Shutdown
  BY DEF Start, ServerStart, ClientStart, LoginConnect, TimerProcessPacket,
         ClientTimerInGameProcessPacket, Shutdown, Go
<1>7. Go_on => JoinAccepter
  BY DEF Go_on, ServerInit, BindAndListen, PacketInit, UserInit, CreateClient, CreateWokerThread,
         CreateAccepterThread, CloseHandle, JoinWorkers, CloseListen, Client_Shutdown, JoinReceiver,
         Destroy, Go
<1>8. QED
  BY <1>1, <1>2, <1>3, <1>4, <1>5, <1>6, <1>7 DEF Next, Accepter

\* For any number of workers, and whatever calls of the start failed: threads that are
\* joined only go towards their end, which is what ShutdownReturns rests on.
THEOREM JoinedThreadsEnd == Spec => JoinsApproach
<1>1. Init => StopKnows
  BY DEF Init, StopKnows
<1>2. TypeOK /\ StopKnows /\ [Next]_vars =>
        [/\ game = "join workers" =>
              \A w \in Workers :
                  /\ Nearer(io_worker_threads_[w], io_worker_threads_'[w])
                  /\ io_worker_threads_[w] = "wait" => iocp_handle_ # "open"
         /\ game = "join accepter" => Nearer(accepter_thread_, accepter_thread_')]_<<game, threads>>
  BY WorkersNearer, AccepterNearer, TypeParts DEF StopKnows
<1>3. QED
  BY <1>1, <1>2, StopStep, AppTypeCorrect, PTL DEF Spec, JoinsApproach

=============================================================================
