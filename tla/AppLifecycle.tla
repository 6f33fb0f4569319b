------------------------------ MODULE AppLifecycle ------------------------------
(***************************************************************************)
(* One process from UTeemoGameInstance::Init to its destruction: the two    *)
(* buttons of the settings widget start a server or a client, calls of the  *)
(* start fail and are not looked at, and Shutdown stops what was started.   *)
(*                                                                         *)
(* What the threads do with sessions and packets is in IocpNetServer and    *)
(* GameClient.  Here they exist, look at their flags, wait, and use what    *)
(* the start has built.  std::terminate stands for the assignment to, or    *)
(* the destruction of, a std::thread that was not joined.                   *)
(***************************************************************************)
EXTENDS Integers, FiniteSets

CONSTANT
    Workers         \* the threads of one start; a second start adds none here

VARIABLES
    game,           \* the step the game thread is at
    server_client_check, timer_destroy_sw, server_check_,
    timers,
    max_io_worker_thread_count_,    \* whether Init has set it
    listen_socket_, iocp_handle_,
    listening,      \* whether connections complete at the port
    users,          \* user_manager_ and its user_pool_
    client_Infos_,  \* whether there are any
    is_worker_run_, is_accepter_run_, recevie_connected,
    io_worker_threads_, accepter_thread_, rece_thread,
    starts          \* ghost: how often the server was started, cut at 2

role == <<server_client_check, timer_destroy_sw, server_check_>>
parts == <<max_io_worker_thread_count_, listen_socket_, iocp_handle_, listening, users, client_Infos_>>
flags == <<is_worker_run_, is_accepter_run_, recevie_connected>>
threads == <<io_worker_threads_, accepter_thread_, rece_thread>>
vars == <<game, role, timers, parts, flags, threads, starts>>

ClientTimers == {"login", "ingame"}

StartSteps == {"Init", "BindAndListen", "PacketInit", "UserInit", "CreateClient", "CreateWokerThread",
               "CreateAccepterThread"}
StopSteps == {"CloseHandle", "join workers", "close listen", "join accepter", "client", "join receiver"}

\* UTeemoGameInstance::Init and the initialisers.
Init ==
    /\ game = "play"
    /\ server_client_check = FALSE /\ timer_destroy_sw = FALSE /\ server_check_ = FALSE
    /\ timers = {"server"} \cup ClientTimers
    /\ max_io_worker_thread_count_ = FALSE
    /\ listen_socket_ = "none" /\ iocp_handle_ = "none" /\ listening = FALSE
    /\ users = "none" /\ client_Infos_ = FALSE
    /\ is_worker_run_ = TRUE /\ is_accepter_run_ = TRUE /\ recevie_connected = TRUE
    /\ io_worker_threads_ = [w \in Workers |-> "none"]
    /\ accepter_thread_ = "none" /\ rece_thread = "none"
    /\ starts = 0

Go(from, to) == game = from /\ game' = to

-----------------------------------------------------------------------------
(* Starting a server *)

\* USetting_Choice::ServerStart up to the call of IocpNetServer::Init.
ServerStart ==
    /\ Go("play", "Init")
    /\ server_client_check' = TRUE /\ server_check_' = TRUE
    /\ starts' = IF starts = 0 THEN 1 ELSE 2
    /\ UNCHANGED <<timer_destroy_sw, timers, parts, flags, threads>>

\* WSAStartup fails, the socket is refused, or both succeed.
ServerInit ==
    /\ Go("Init", "BindAndListen")
    /\ \/ UNCHANGED <<listen_socket_, max_io_worker_thread_count_>>
       \/ listen_socket_' = "none" /\ UNCHANGED max_io_worker_thread_count_
       \/ listen_socket_' = "open" /\ max_io_worker_thread_count_' = TRUE
    /\ UNCHANGED <<role, timers, iocp_handle_, listening, users, client_Infos_, flags, threads, starts>>

\* bind or listen fails, the port is refused, the listening socket cannot be put on it, or
\* all succeed.
BindAndListen ==
    /\ Go("BindAndListen", "PacketInit")
    /\ \/ UNCHANGED <<iocp_handle_, listening>>
       \/ listen_socket_ = "open" /\ iocp_handle_' = "none" /\ UNCHANGED listening
       \/ listen_socket_ = "open" /\ iocp_handle_' = "open" /\ listening' \in {listening, TRUE}
    /\ UNCHANGED <<role, timers, max_io_worker_thread_count_, listen_socket_, users, client_Infos_,
                   flags, threads, starts>>

\* CreateCompent: a manager, whose pool is empty; DbRun's results are not looked at.
PacketInit ==
    /\ Go("PacketInit", "UserInit")
    /\ users' = "empty"
    /\ UNCHANGED <<role, timers, max_io_worker_thread_count_, listen_socket_, iocp_handle_, listening,
                   client_Infos_, flags, threads, starts>>

\* Mutant: the threads are started before the users exist.
UserInitLate ==
    /\ Go("UserInit", "CreateClient")
    /\ UNCHANGED <<role, timers, parts, flags, threads, starts>>

UserInit ==
    /\ Go("UserInit", "CreateClient")
    /\ users' = "ready"
    /\ UNCHANGED <<role, timers, max_io_worker_thread_count_, listen_socket_, iocp_handle_, listening,
                   client_Infos_, flags, threads, starts>>

CreateClient ==
    /\ Go("CreateClient", "CreateWokerThread")
    /\ client_Infos_' = TRUE
    /\ UNCHANGED <<role, timers, max_io_worker_thread_count_, listen_socket_, iocp_handle_, listening,
                   users, flags, threads, starts>>

CreateWokerThread ==
    /\ game = "CreateWokerThread"
    /\ IF max_io_worker_thread_count_ /\ \E w \in Workers : io_worker_threads_[w] = "none"
         THEN /\ \E w \in Workers :
                    /\ io_worker_threads_[w] = "none"
                    /\ io_worker_threads_' = [io_worker_threads_ EXCEPT ![w] = "loop"]
              /\ UNCHANGED game
         ELSE game' = "CreateAccepterThread" /\ UNCHANGED io_worker_threads_
    /\ UNCHANGED <<role, timers, parts, flags, accepter_thread_, rece_thread, starts>>

\* A thread is assigned over one that was not joined.
CreateAccepterThread ==
    /\ IF accepter_thread_ = "none"
         THEN Go("CreateAccepterThread", "play") /\ accepter_thread_' = "loop"
         ELSE Go("CreateAccepterThread", "terminated") /\ UNCHANGED accepter_thread_
    /\ UNCHANGED <<role, timers, parts, flags, io_worker_threads_, rece_thread, starts>>

-----------------------------------------------------------------------------
(* Starting a client *)

Server_Connect ==
    IF rece_thread = "none"
      THEN rece_thread' = "loop" /\ UNCHANGED game
      ELSE game' = "terminated" /\ UNCHANGED rece_thread

ClientStart ==
    /\ game = "play"
    /\ Server_Connect
    /\ server_client_check' = FALSE /\ timer_destroy_sw' = TRUE
    /\ UNCHANGED <<server_check_, timers, parts, flags, io_worker_threads_, accepter_thread_, starts>>

\* ULogin::ServerConnect sets no flag.
LoginConnect ==
    /\ game = "play"
    /\ Server_Connect
    /\ UNCHANGED <<role, timers, parts, flags, io_worker_threads_, accepter_thread_, starts>>

-----------------------------------------------------------------------------
(* Timers, between two steps of the game thread *)

TimerProcessPacket ==
    /\ game = "play" /\ "server" \in timers /\ timer_destroy_sw
    /\ timers' = timers \ {"server"}
    /\ UNCHANGED <<game, role, parts, flags, threads, starts>>

\* Mutant: every timer of the process is cleared.
ClearAllTimers ==
    /\ game = "play" /\ "ingame" \in timers /\ server_client_check
    /\ timers' = {}
    /\ UNCHANGED <<game, role, parts, flags, threads, starts>>

ClientTimerInGameProcessPacket ==
    /\ game = "play" /\ "ingame" \in timers /\ server_client_check
    /\ timers' = timers \ ClientTimers
    /\ UNCHANGED <<game, role, parts, flags, threads, starts>>

-----------------------------------------------------------------------------
(* The threads *)

Alive == game \notin {"terminated", "gone"}

WorkerAt(w, from, to) ==
    /\ Alive
    /\ io_worker_threads_[w] = from
    /\ io_worker_threads_' = [io_worker_threads_ EXCEPT ![w] = to]
    /\ UNCHANGED <<game, role, timers, parts, flags, accepter_thread_, rece_thread, starts>>

WorkerLoop(w) == WorkerAt(w, "loop", IF is_worker_run_ THEN "wait" ELSE "ended")

\* A handle that was never a port, or is closed, fails the call with no OVERLAPPED.
WorkerFails(w) == iocp_handle_ # "open" /\ WorkerAt(w, "wait", "loop")

WorkerHandles(w) == iocp_handle_ = "open" /\ listening /\ WorkerAt(w, "wait", "handle")

WorkerHandled(w) == WorkerAt(w, "handle", "loop")

AccepterAt(from, to) ==
    /\ Alive
    /\ accepter_thread_ = from /\ accepter_thread_' = to
    /\ UNCHANGED <<game, role, timers, parts, flags, io_worker_threads_, rece_thread, starts>>

\* A pass over client_Infos_ and a nap, whatever became of the sockets.
AccepterLoop == AccepterAt("loop", IF is_accepter_run_ THEN "offer" ELSE "ended")
AccepterOffers == AccepterAt("offer", "loop")

ReceiverEnds ==
    /\ Alive
    /\ rece_thread = "loop" /\ ~recevie_connected
    /\ rece_thread' = "ended"
    /\ UNCHANGED <<game, role, timers, parts, flags, io_worker_threads_, accepter_thread_, starts>>

-----------------------------------------------------------------------------
(* Shutdown *)

\* Mutant: the role is asked for, not what was started.
ShutdownByRole ==
    /\ game = "play"
    /\ IF server_client_check
         THEN game' = "CloseHandle" /\ is_worker_run_' = FALSE
         ELSE game' = "client" /\ UNCHANGED is_worker_run_
    /\ UNCHANGED <<role, timers, parts, is_accepter_run_, recevie_connected, threads, starts>>

\* PacketEnd joins process_thread_, which nothing starts.
Shutdown ==
    /\ game = "play"
    /\ IF server_check_
         THEN game' = "CloseHandle" /\ is_worker_run_' = FALSE
         ELSE game' = "client" /\ UNCHANGED is_worker_run_
    /\ UNCHANGED <<role, timers, parts, is_accepter_run_, recevie_connected, threads, starts>>

\* Mutant: the workers are joined with the port open.
CloseLater ==
    /\ Go("CloseHandle", "join workers")
    /\ UNCHANGED <<role, timers, parts, flags, threads, starts>>

CloseHandle ==
    /\ Go("CloseHandle", "join workers")
    /\ iocp_handle_' = IF iocp_handle_ = "open" THEN "closed" ELSE iocp_handle_
    /\ UNCHANGED <<role, timers, max_io_worker_thread_count_, listen_socket_, listening, users,
                   client_Infos_, flags, threads, starts>>

JoinWorkers ==
    /\ Go("join workers", "close listen")
    /\ \A w \in Workers : io_worker_threads_[w] \in {"none", "ended"}
    /\ io_worker_threads_' =
        [w \in Workers |-> IF io_worker_threads_[w] = "ended" THEN "joined" ELSE "none"]
    /\ is_accepter_run_' = FALSE
    /\ UNCHANGED <<role, timers, parts, is_worker_run_, recevie_connected, accepter_thread_, rece_thread,
                   starts>>

CloseListen ==
    /\ Go("close listen", "join accepter")
    /\ listen_socket_' = IF listen_socket_ = "open" THEN "closed" ELSE listen_socket_
    /\ UNCHANGED <<role, timers, max_io_worker_thread_count_, iocp_handle_, listening, users,
                   client_Infos_, flags, threads, starts>>

JoinAccepter ==
    /\ Go("join accepter", "client")
    /\ accepter_thread_ \in {"none", "ended"}
    /\ accepter_thread_' = IF accepter_thread_ = "ended" THEN "joined" ELSE "none"
    /\ UNCHANGED <<role, timers, parts, flags, io_worker_threads_, rece_thread, starts>>

Client_Shutdown ==
    /\ IF timer_destroy_sw
         THEN Go("client", "join receiver") /\ recevie_connected' = FALSE
         ELSE Go("client", "over") /\ UNCHANGED recevie_connected
    /\ UNCHANGED <<role, timers, parts, is_worker_run_, is_accepter_run_, threads, starts>>

JoinReceiver ==
    /\ Go("join receiver", "over")
    /\ rece_thread = "ended" /\ rece_thread' = "joined"
    /\ UNCHANGED <<role, timers, parts, flags, io_worker_threads_, accepter_thread_, starts>>

Joinable(t) == t \notin {"none", "joined"}

\* The destructors of the thread members.
Destroy ==
    /\ Go("over", IF Joinable(rece_thread) \/ Joinable(accepter_thread_)
                        \/ \E w \in Workers : Joinable(io_worker_threads_[w])
                  THEN "terminated" ELSE "gone")
    /\ UNCHANGED <<role, timers, parts, flags, threads, starts>>

-----------------------------------------------------------------------------

Start == ServerStart \/ ClientStart \/ LoginConnect

Go_on ==
    \/ ServerInit \/ BindAndListen \/ PacketInit \/ UserInit \/ CreateClient
    \/ CreateWokerThread \/ CreateAccepterThread
    \/ CloseHandle \/ JoinWorkers \/ CloseListen \/ JoinAccepter \/ Client_Shutdown \/ JoinReceiver
    \/ Destroy

Worker(w) == WorkerLoop(w) \/ WorkerFails(w) \/ WorkerHandles(w) \/ WorkerHandled(w)
Accepter == AccepterLoop \/ AccepterOffers

Next ==
    \/ Start \/ TimerProcessPacket \/ ClientTimerInGameProcessPacket \/ Shutdown \/ Go_on
    \/ \E w \in Workers : Worker(w)
    \/ Accepter \/ ReceiverEnds

\* The game thread goes on with what it has begun and the threads are scheduled; nothing
\* makes anybody press a button or send anything.
Fairness ==
    /\ WF_vars(Go_on)
    /\ \A w \in Workers : WF_vars(WorkerLoop(w) \/ WorkerFails(w) \/ WorkerHandled(w))
    /\ WF_vars(Accepter) /\ WF_vars(ReceiverEnds)

Spec == Init /\ [][Next]_vars /\ Fairness

-----------------------------------------------------------------------------
(* Properties *)

TypeOK ==
    /\ game \in {"play", "over", "gone", "terminated"} \cup StartSteps \cup StopSteps
    /\ server_client_check \in BOOLEAN /\ timer_destroy_sw \in BOOLEAN /\ server_check_ \in BOOLEAN
    /\ timers \subseteq {"server"} \cup ClientTimers
    /\ max_io_worker_thread_count_ \in BOOLEAN
    /\ listen_socket_ \in {"none", "open", "closed"} /\ iocp_handle_ \in {"none", "open", "closed"}
    /\ listening \in BOOLEAN
    /\ users \in {"none", "empty", "ready"} /\ client_Infos_ \in BOOLEAN
    /\ is_worker_run_ \in BOOLEAN /\ is_accepter_run_ \in BOOLEAN /\ recevie_connected \in BOOLEAN
    /\ io_worker_threads_ \in [Workers -> {"none", "loop", "wait", "handle", "ended", "joined"}]
    /\ accepter_thread_ \in {"none", "loop", "offer", "ended", "joined"}
    /\ rece_thread \in {"none", "loop", "ended", "joined"}
    /\ starts \in 0 .. 2

\* A worker that handles a completion finds the slots and the users of Run, as long as the
\* server is not started a second time: the threads are the last thing a start makes.
HandlersReady ==
    (\E w \in Workers : io_worker_threads_[w] = "handle") /\ starts <= 1
        => client_Infos_ /\ users = "ready"

\* After Shutdown every thread is joined, whatever failed at the start and in whatever
\* order the roles were taken; the one exception is a client that was connected by
\* ULogin::ServerConnect and never by ClientStart, which Shutdown does not know of.
NothingLeftRunning ==
    game \in {"over", "gone"} =>
        /\ \A w \in Workers : ~Joinable(io_worker_threads_[w])
        /\ ~Joinable(accepter_thread_)
        /\ Joinable(rece_thread) => ~timer_destroy_sw

\* Clearing the timers of the role a process does not have never takes those of the one it
\* has (TimerProcessPacket, ClientTimerInGameProcessPacket).
RoleHasTimers ==
    /\ server_check_ /\ ~timer_destroy_sw => "server" \in timers
    /\ timer_destroy_sw /\ ~server_check_ => ClientTimers \subseteq timers

\* The steps a thread that is told to end has left.
ToGo(t) == IF t \in {"wait", "handle", "offer"} THEN 2 ELSE IF t = "loop" THEN 1 ELSE 0

Nearer(t, next) == ToGo(t) > 0 => next = t \/ ToGo(next) < ToGo(t)

\* While the game thread waits in a join, no thread it waits for begins anything new or
\* waits at an open port: each of its steps takes it nearer its end.
JoinsApproach ==
    [][/\ game = "join workers" =>
            \A w \in Workers :
                /\ Nearer(io_worker_threads_[w], io_worker_threads_'[w])
                /\ io_worker_threads_[w] = "wait" => iocp_handle_ # "open"
       /\ game = "join accepter" => Nearer(accepter_thread_, accepter_thread_')]_<<game, threads>>

\* Shutdown returns: whatever calls of the start failed, no join waits for ever.
ShutdownReturns == game \in StopSteps ~> game \in {"gone", "terminated"}

=============================================================================
