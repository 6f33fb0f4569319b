----------------------------- MODULE IocpNetServer -----------------------------
(***************************************************************************)
(* The session core of the IOCP server (IocpNetServer.h, ClientInfo.h): a  *)
(* fixed array of ClientInfo slots, the accepter thread that offers free   *)
(* slots to AcceptEx, the worker threads that take completions from the    *)
(* port, and the game thread that calls SendMsg.                           *)
(*                                                                         *)
(* A socket stands for one life of a slot: a worker that still holds a     *)
(* completion of an earlier life is told from one of the present life by   *)
(* the socket its I/O was posted on, which the code itself never looks at. *)
(***************************************************************************)
EXTENDS Integers, Sequences, FiniteSets

CONSTANTS
    Slots,            \* indices of client_Infos_
    Workers,          \* threads that run WorkerThread
    Sockets,          \* socket handles
    Buffers,          \* heap addresses of send stOverlappedEx
    INVALID_SOCKET,
    RESERVED,         \* latest_closed_time_sec_ = UINT32_MAX
    None,             \* no completion in hand, no target
    RE_USE_SESSION_WAIT_TIMESEC,
    MaxLag,           \* seconds an I/O of a closed socket may stay unprocessed
    MaxPass,          \* seconds a pass of the accepter over the slots may take
    MaxCount,         \* bound on client_cnt_
    AcceptFaults      \* may WSASocket, AcceptEx or an accept's completion fail?

ASSUME NamesAssumption ==
    /\ INVALID_SOCKET \notin Sockets
    /\ RESERVED \notin Int
    /\ None \notin Slots
    /\ None \notin [op : {"ACCEPT", "RECV", "SEND"}, slot : Slots,
                    sock : Sockets, buf : Buffers \cup {INVALID_SOCKET}]

ASSUME TimeAssumption ==
    /\ RE_USE_SESSION_WAIT_TIMESEC \in Nat
    /\ MaxLag \in Nat
    /\ MaxPass \in Nat
    /\ MaxCount \in Nat
    /\ AcceptFaults \in BOOLEAN

\* What the wait before a slot is used again is for: everything the closed
\* socket still owed has been handled when it is over.
ASSUME LagAssumption == MaxLag <= RE_USE_SESSION_WAIT_TIMESEC

VARIABLES
    is_connect_,      \* [Slots -> BOOLEAN]
    closed_ago,       \* [Slots -> seconds since latest_closed_time_sec_, or RESERVED]
    socket_,          \* [Slots -> Sockets or INVALID_SOCKET]
    bound,            \* [Slots -> BOOLEAN]: socket_ is associated with the port
    send_data_queue_, \* [Slots -> Seq(Buffers)]
    left_over,        \* [Slots -> Nat]: messages in the queue older than socket_
    pending,          \* I/O the kernel will report, or has queued on the port
    pc,               \* [Workers -> where the thread is]
    io,               \* [Workers -> the completion it is handling]
    cur_ago,          \* seconds since the accepter read cur_time_sec
    to_visit,         \* slots the accepter's pass has still to look at
    replies,          \* slots with a received packet the game thread may answer
    target,           \* slot BroadcastSendMsg found connected
    client_cnt_,
    crashed           \* the process died on a null ClientInfo*

session == <<is_connect_, closed_ago, socket_, bound>>
sendq == <<send_data_queue_, left_over>>
thread == <<pc, io>>
accepter == <<cur_ago, to_visit>>
game == <<replies, target>>
vars == <<session, sendq, pending, thread, accepter, game, client_cnt_, crashed>>

Horizon == RE_USE_SESSION_WAIT_TIMESEC + MaxPass + 1

IoType == [op : {"ACCEPT", "RECV", "SEND"}, slot : Slots, sock : Sockets,
           buf : Buffers \cup {INVALID_SOCKET}]

Accept(s, k) == [op |-> "ACCEPT", slot |-> s, sock |-> k, buf |-> INVALID_SOCKET]
Recv(s, k) == [op |-> "RECV", slot |-> s, sock |-> k, buf |-> INVALID_SOCKET]
Send(s, k, b) == [op |-> "SEND", slot |-> s, sock |-> k, buf |-> b]

Busy(w) == pc[w] # "gqcs"

\* Every I/O somebody still has to act on: with the kernel or in a worker's hands.
Outstanding == pending \cup {io[w] : w \in {v \in Workers : Busy(v)}}

\* Handles and addresses the system hands out are not in use.
FreshSockets == Sockets \ ({socket_[s] : s \in Slots} \cup {o.sock : o \in Outstanding})
FreshBuffers ==
    Buffers \ UNION {{send_data_queue_[s][i] : i \in 1 .. Len(send_data_queue_[s])} : s \in Slots}

-----------------------------------------------------------------------------
Init ==
    /\ is_connect_ = [s \in Slots |-> FALSE]
    /\ closed_ago = [s \in Slots |-> Horizon]   \* latest_closed_time_sec_ = 0
    /\ socket_ = [s \in Slots |-> INVALID_SOCKET]
    /\ bound = [s \in Slots |-> FALSE]
    /\ send_data_queue_ = [s \in Slots |-> <<>>]
    /\ left_over = [s \in Slots |-> 0]
    /\ pending = {}
    /\ pc = [w \in Workers |-> "gqcs"]
    /\ io = [w \in Workers |-> None]
    /\ cur_ago = 0
    /\ to_visit = {}
    /\ replies = {}
    /\ target = None
    /\ client_cnt_ = 0
    /\ crashed = FALSE

-----------------------------------------------------------------------------
(* ClientInfo *)

\* WSARecv and WSASend: the call is refused, or it is accepted and its
\* completion will reach the port if the socket is associated with it.  On
\* INVALID_SOCKET, or before the client is there, it cannot be accepted.
Post(s, o, base) ==
    \/ pending' = base
    \/ /\ bound[s]
       /\ pending' = base \cup {o}

\* SendIO: WSASend of the queue's head; a refusal changes nothing.
SendIO(s, q, base) == Post(s, Send(s, socket_[s], Head(q)), base)

\* Faulty variant: WSASend on every push, without the test of the size.
SendMsgUnguarded(s) ==
    \E b \in FreshBuffers :
        LET q == Append(send_data_queue_[s], b)
        IN  /\ send_data_queue_' = [send_data_queue_ EXCEPT ![s] = q]
            /\ SendIO(s, q, pending)

\* Faulty variant: WSASend whenever none is in flight, the queue not emptied.
SendMsgRestarting(s) ==
    \E b \in FreshBuffers :
        LET q == Append(send_data_queue_[s], b)
        IN  /\ send_data_queue_' = [send_data_queue_ EXCEPT ![s] = q]
            /\ IF \A o \in Outstanding : o.slot = s => o.op # "SEND"
               THEN SendIO(s, q, pending) ELSE UNCHANGED pending

\* ClientInfo::SendMsg, one critical section under send_lock_.
SendMsg(s) ==
    \E b \in FreshBuffers :
        LET q == Append(send_data_queue_[s], b)
        IN  /\ send_data_queue_' = [send_data_queue_ EXCEPT ![s] = q]
            /\ IF Len(q) = 1 THEN SendIO(s, q, pending) ELSE UNCHANGED pending

\* SendCompleted, one critical section under send_lock_: free and pop the
\* head, then send the next one.
SendCompleted(s) ==
    LET q == Tail(send_data_queue_[s])
    IN  /\ send_data_queue_' = [send_data_queue_ EXCEPT ![s] = q]
        /\ left_over' = [left_over EXCEPT ![s] = IF @ > 0 THEN @ - 1 ELSE 0]
        /\ IF q # <<>> THEN SendIO(s, q, pending) ELSE UNCHANGED pending

\* Faulty variant: the closing time is not recorded.
CloseUnstamped(s) ==
    /\ is_connect_' = [is_connect_ EXCEPT ![s] = FALSE]
    /\ socket_' = [socket_ EXCEPT ![s] = INVALID_SOCKET]
    /\ bound' = [bound EXCEPT ![s] = FALSE]
    /\ UNCHANGED closed_ago

\* Close: the queue of unsent messages is left as it is.
Close(s) ==
    /\ is_connect_' = [is_connect_ EXCEPT ![s] = FALSE]
    /\ closed_ago' = [closed_ago EXCEPT ![s] = 0]
    /\ socket_' = [socket_ EXCEPT ![s] = INVALID_SOCKET]
    /\ bound' = [bound EXCEPT ![s] = FALSE]

\* Faulty variant: the slot is not marked RESERVED.
ReadyAcceptUnmarked(s) ==
    \E k \in FreshSockets :
        /\ socket_' = [socket_ EXCEPT ![s] = k]
        /\ left_over' = [left_over EXCEPT ![s] = Len(send_data_queue_[s])]
        /\ pending' = pending \cup {Accept(s, k)}
        /\ UNCHANGED <<is_connect_, closed_ago, bound, send_data_queue_>>

\* ReadyAccept: the slot is marked RESERVED before anything can fail.
ReadyAccept(s) ==
    /\ closed_ago' = [closed_ago EXCEPT ![s] = RESERVED]
    /\ \/ /\ AcceptFaults                              \* WSASocket failed
          /\ UNCHANGED <<socket_, pending, left_over>>
       \/ \E k \in FreshSockets :
            /\ socket_' = [socket_ EXCEPT ![s] = k]
            /\ left_over' = [left_over EXCEPT ![s] = Len(send_data_queue_[s])]
            /\ \/ pending' = pending \cup {Accept(s, k)}
               \/ AcceptFaults /\ UNCHANGED pending    \* AcceptEx failed
    /\ UNCHANGED <<is_connect_, bound, send_data_queue_>>

-----------------------------------------------------------------------------
(* WorkerThread *)

Goto(w, at) == pc' = [pc EXCEPT ![w] = at] /\ UNCHANGED io
Loop(w) == pc' = [pc EXCEPT ![w] = "gqcs"] /\ io' = [io EXCEPT ![w] = None]

\* GetQueuedCompletionStatus: any of the I/O, with any result.  A failed or
\* empty RECV or SEND leads to CloseSocket.
GetCompletion(w) ==
    /\ pc[w] = "gqcs"
    /\ \E o \in pending :
        /\ pending' = pending \ {o}
        /\ io' = [io EXCEPT ![w] = o]
        /\ \/ pc' = [pc EXCEPT ![w] = o.op]
           \/ /\ o.op # "ACCEPT"
              /\ pc' = [pc EXCEPT ![w] = "CloseSocket"]
    /\ UNCHANGED <<session, sendq, accepter, game, client_cnt_, crashed>>

\* The completion key of the listening socket is 0: a failed ACCEPT makes
\* CloseSocket read the members of a null ClientInfo.
FailedAccept(w) ==
    /\ AcceptFaults
    /\ pc[w] = "gqcs"
    /\ \E o \in pending :
        /\ o.op = "ACCEPT"
        /\ pending' = pending \ {o}
    /\ crashed' = TRUE
    /\ UNCHANGED <<session, sendq, thread, accepter, game, client_cnt_>>

\* CloseSocket's test of IsConnected, which nothing keeps true until Close.
CheckConnected(w) ==
    /\ pc[w] = "CloseSocket"
    /\ IF is_connect_[io[w].slot] THEN Goto(w, "Close") ELSE Loop(w)
    /\ UNCHANGED <<session, sendq, pending, accepter, game, client_cnt_, crashed>>

DoClose(w) ==
    /\ pc[w] = "Close"
    /\ Close(io[w].slot)
    /\ Loop(w)
    /\ UNCHANGED <<sendq, pending, accepter, game, client_cnt_, crashed>>

\* AcceptCompletion, first half: the slot counts as connected before its
\* socket is associated with the port.
SetConnected(w) ==
    /\ pc[w] = "ACCEPT"
    /\ is_connect_' = [is_connect_ EXCEPT ![io[w].slot] = TRUE]
    /\ Goto(w, "BindSocket")
    /\ UNCHANGED <<closed_ago, socket_, bound, sendq, pending, accepter, game, client_cnt_, crashed>>

\* SetIocpBindSocket compares the result of CreateIoCompletionPort with the
\* wrong value, so a failed association goes on as if it had worked.
BindSocket(w) ==
    /\ pc[w] = "BindSocket"
    /\ \E ok \in BOOLEAN : bound' = [bound EXCEPT ![io[w].slot] = ok]
    /\ Goto(w, "FirstRecv")
    /\ UNCHANGED <<is_connect_, closed_ago, socket_, sendq, pending, accepter, game, client_cnt_, crashed>>

\* AcceptCompletion's BindRecv, on whatever socket_ is by now: its failure closes the slot.
\* What is posted on a socket that is not associated reaches nobody.
FirstRecv(w) ==
    LET s == io[w].slot IN
    /\ pc[w] = "FirstRecv"
    /\ \/ /\ socket_[s] # INVALID_SOCKET
          /\ pending' = IF bound[s] THEN pending \cup {Recv(s, socket_[s])} ELSE pending
          /\ Goto(w, "OnConnect")
       \/ /\ UNCHANGED pending
          /\ Goto(w, "CloseSocket")
    /\ UNCHANGED <<session, sendq, accepter, game, client_cnt_, crashed>>

\* ++client_cnt_ is not atomic: of two workers at it one increment may be lost.
CountClient(w) ==
    /\ pc[w] = "OnConnect"
    /\ \/ client_cnt_' = IF client_cnt_ < MaxCount THEN client_cnt_ + 1 ELSE MaxCount
       \/ /\ \E v \in Workers \ {w} : pc[v] = "OnConnect"
          /\ UNCHANGED client_cnt_
    /\ Loop(w)
    /\ UNCHANGED <<session, sendq, pending, accepter, game, crashed>>

\* OnReceive hands the data to the game thread.
OnReceive(w) ==
    /\ pc[w] = "RECV"
    /\ replies' = replies \cup {io[w].slot}
    /\ Goto(w, "BindRecv")
    /\ UNCHANGED <<session, sendq, pending, accepter, target, client_cnt_, crashed>>

\* The next BindRecv, on whatever socket_ is by now; its result is not looked at.
BindRecv(w) ==
    LET s == io[w].slot IN
    /\ pc[w] = "BindRecv"
    /\ Post(s, Recv(s, socket_[s]), pending)
    /\ Loop(w)
    /\ UNCHANGED <<session, sendq, accepter, game, client_cnt_, crashed>>

CompleteSend(w) ==
    /\ pc[w] = "SEND"
    /\ SendCompleted(io[w].slot)
    /\ Loop(w)
    /\ UNCHANGED <<session, accepter, game, client_cnt_, crashed>>

WorkerStep(w) ==
    \/ GetCompletion(w)
    \/ FailedAccept(w)
    \/ CheckConnected(w)
    \/ DoClose(w)
    \/ SetConnected(w)
    \/ BindSocket(w)
    \/ FirstRecv(w)
    \/ CountClient(w)
    \/ OnReceive(w)
    \/ BindRecv(w)
    \/ CompleteSend(w)

-----------------------------------------------------------------------------
(* AccepterThread *)

\* Top of the loop: the clock is read once for the whole pass.
StartPass ==
    /\ to_visit = {}
    /\ cur_ago' = 0
    /\ to_visit' = Slots
    /\ UNCHANGED <<session, sendq, pending, thread, game, client_cnt_, crashed>>

\* Faulty variants: the wait is a second short, or not made at all.
MayOfferTooSoon(s) ==
    /\ ~is_connect_[s]
    /\ closed_ago[s] # RESERVED
    /\ closed_ago[s] - cur_ago >= RE_USE_SESSION_WAIT_TIMESEC

MayOfferAtOnce(s) ==
    /\ ~is_connect_[s]
    /\ closed_ago[s] # RESERVED
    /\ closed_ago[s] - cur_ago >= 0

\* Not connected, closed before cur_time_sec, and longer ago than the wait.
MayOffer(s) ==
    /\ ~is_connect_[s]
    /\ closed_ago[s] # RESERVED
    /\ closed_ago[s] - cur_ago > RE_USE_SESSION_WAIT_TIMESEC

Visit(s) ==
    /\ s \in to_visit
    /\ to_visit' = to_visit \ {s}
    /\ \/ MayOffer(s) /\ ReadyAccept(s)
       \/ ~MayOffer(s) /\ UNCHANGED <<session, sendq, pending>>
    /\ UNCHANGED <<thread, cur_ago, game, client_cnt_, crashed>>

-----------------------------------------------------------------------------
(* The game thread *)

\* A handler answers the slot a packet came from, once or several times.
Reply(s) ==
    /\ s \in replies
    /\ SendMsg(s)
    /\ \/ replies' = replies \ {s}
       \/ UNCHANGED replies
    /\ UNCHANGED <<session, left_over, thread, accepter, target, client_cnt_, crashed>>

\* ProocessInPlayerDamage answers the slot a packet names, whatever its state.
SendDamage(s) ==
    /\ replies # {}
    /\ SendMsg(s)
    /\ UNCHANGED <<session, left_over, thread, accepter, game, client_cnt_, crashed>>

\* BroadcastSendMsg, called for any packet: IsConnected first, SendMsg after.
BroadcastFind(s) ==
    /\ replies # {}
    /\ target = None
    /\ is_connect_[s]
    /\ target' = s
    /\ UNCHANGED <<session, sendq, pending, thread, accepter, replies, client_cnt_, crashed>>

BroadcastSend ==
    /\ target # None
    /\ SendMsg(target)
    /\ target' = None
    /\ UNCHANGED <<session, left_over, thread, accepter, replies, client_cnt_, crashed>>

-----------------------------------------------------------------------------
\* I/O of a closed life of slot s that somebody still holds.
Stale(s) == {o \in Outstanding : o.slot = s /\ o.sock # socket_[s]}

\* A second passes.  The kernel and the workers are done with a closed socket
\* within MaxLag, the accepter with a pass within MaxPass.
Tick ==
    /\ cur_ago < MaxPass
    /\ \A s \in Slots : Stale(s) # {} /\ closed_ago[s] # RESERVED => closed_ago[s] < MaxLag
    /\ cur_ago' = cur_ago + 1
    /\ closed_ago' = [s \in Slots |->
            IF closed_ago[s] \in 0 .. Horizon - 1 THEN closed_ago[s] + 1 ELSE closed_ago[s]]
    /\ UNCHANGED <<is_connect_, socket_, bound, sendq, pending, thread, to_visit, game, client_cnt_, crashed>>

Next ==
    /\ ~crashed
    /\ \/ \E w \in Workers : WorkerStep(w)
       \/ StartPass
       \/ \E s \in Slots : Visit(s) \/ Reply(s) \/ SendDamage(s) \/ BroadcastFind(s)
       \/ BroadcastSend
       \/ Tick

Spec == Init /\ [][Next]_vars

(***************************************************************************)
(* Fairness.  The threads are scheduled; the port is first in, first out,  *)
(* so what the kernel queued for a closed socket is taken even if other    *)
(* traffic keeps the workers busy; time passes.  Nothing is assumed of the *)
(* clients or of the game thread.                                          *)
(***************************************************************************)
Handle(w) ==
    \/ CheckConnected(w) \/ DoClose(w) \/ SetConnected(w) \/ BindSocket(w) \/ FirstRecv(w)
    \/ CountClient(w) \/ OnReceive(w) \/ BindRecv(w) \/ CompleteSend(w)

TakeStale ==
    \E w \in Workers : GetCompletion(w) /\ \E s \in Slots : io'[w] \in Stale(s)

FairSpec ==
    /\ Spec
    /\ WF_vars(~crashed /\ StartPass)
    /\ \A s \in Slots : WF_vars(~crashed /\ Visit(s))
    /\ \A w \in Workers : WF_vars(~crashed /\ Handle(w))
    /\ SF_vars(~crashed /\ TakeStale)
    /\ SF_vars(~crashed /\ Tick)

-----------------------------------------------------------------------------
(* Properties *)

PcType == {"gqcs", "ACCEPT", "RECV", "SEND", "CloseSocket", "Close",
           "BindSocket", "FirstRecv", "OnConnect", "BindRecv"}

\* The types of the fields of IocpNetServer and ClientInfo.
TypeOK ==
    /\ is_connect_ \in [Slots -> BOOLEAN]
    /\ closed_ago \in [Slots -> 0 .. Horizon \cup {RESERVED}]
    /\ socket_ \in [Slots -> Sockets \cup {INVALID_SOCKET}]
    /\ bound \in [Slots -> BOOLEAN]
    /\ send_data_queue_ \in [Slots -> Seq(Buffers)]
    /\ left_over \in [Slots -> Nat]
    /\ pending \subseteq IoType
    /\ pc \in [Workers -> PcType]
    /\ io \in [Workers -> IoType \cup {None}]
    /\ \A w \in Workers : Busy(w) => io[w] \in IoType
    /\ cur_ago \in 0 .. MaxPass
    /\ to_visit \subseteq Slots
    /\ replies \subseteq Slots
    /\ target \in Slots \cup {None}
    /\ client_cnt_ \in 0 .. MaxCount
    /\ crashed \in BOOLEAN

Working(s, at) == {w \in Workers : pc[w] \in at /\ io[w].slot = s}
Pending(s, op) == {o \in pending : o.op = op /\ o.slot = s}

\* ClientInfo::SendCompleted frees and pops the front of send_data_queue_
\* without looking at the OVERLAPPED that completed: the buffer the kernel was
\* given must be the front, and there must be one WSASend of a slot at a time,
\* across closes, refused sends and a slot's next life.
SendOfHeadOnly ==
    \A s \in Slots :
        LET sends == Pending(s, "SEND") \cup {io[w] : w \in Working(s, {"SEND"})}
        IN  /\ Cardinality(Pending(s, "SEND")) + Cardinality(Working(s, {"SEND"})) <= 1
            /\ \A o \in sends :
                  send_data_queue_[s] # <<>> /\ o.buf = Head(send_data_queue_[s])

\* recv_overlapped_ex_ and recv_buf_ exist once per slot: at most one WSARecv
\* of a slot is with the kernel or in the hands of a worker that will post the
\* next one (WorkerThread RECV branch, ClientInfo::BindRecv).
OneRecvPerSlot ==
    \A s \in Slots :
        Cardinality(Pending(s, "RECV")) + Cardinality(Working(s, {"RECV", "BindRecv", "BindSocket", "FirstRecv"})) <= 1

\* accept_overlapped_ex_ exists once per slot: at most one AcceptEx of a slot
\* is outstanding, for the slot's present socket, and the slot is neither
\* connected nor on offer to the accepter meanwhile (AccepterThread).
OneAcceptPerSlot ==
    \A s \in Slots :
        LET accepts == Pending(s, "ACCEPT") \cup {io[w] : w \in Working(s, {"ACCEPT"})}
        IN  /\ Cardinality(Pending(s, "ACCEPT")) + Cardinality(Working(s, {"ACCEPT"})) <= 1
            /\ \A o \in accepts :
                  ~is_connect_[s] /\ closed_ago[s] = RESERVED /\ o.sock = socket_[s]

\* A slot is not given a new socket while an I/O of its last one is with the
\* kernel or in a worker's hands, so no completion ever closes, reads for or
\* sends on a session it does not belong to: what the wait in AccepterThread
\* (IocpNetServer.h:343-355) is for.
NoStaleIo ==
    \A s \in Slots : closed_ago[s] = RESERVED => Stale(s) = {}

\* Messages a closed session left in send_data_queue_, which Close does not
\* empty, are never sent to the slot's next client.
NoOldMessage ==
    \A s \in Slots : \A o \in Pending(s, "SEND") :
        o.sock = socket_[s] => left_over[s] = 0

\* ReadyAccept never overwrites a socket nobody closed (a leaked handle).
NoSocketLeak ==
    [][\A s \in Slots : socket_[s] # INVALID_SOCKET /\ socket_'[s] # socket_[s]
                            => socket_'[s] = INVALID_SOCKET]_socket_

\* A slot whose client left is offered to a new client in the end, when
\* WSASocket and AcceptEx succeed (AccepterThread).
ClosedSlotReturns ==
    \A s \in Slots : socket_[s] = INVALID_SOCKET ~> socket_[s] # INVALID_SOCKET

-----------------------------------------------------------------------------
(* The inductive invariant behind the safety properties *)

\* Close stamps a slot and drops its socket; ReadyAccept does the reverse.
Stamped ==
    \A s \in Slots : closed_ago[s] # RESERVED => socket_[s] = INVALID_SOCKET

Associated ==
    \A s \in Slots :
        /\ bound[s] => is_connect_[s]
        /\ is_connect_[s] => closed_ago[s] = RESERVED /\ socket_[s] # INVALID_SOCKET

\* I/O of a dropped socket is never older than MaxLag.
InTime(o) ==
    o.sock # socket_[o.slot] =>
        closed_ago[o.slot] # RESERVED /\ closed_ago[o.slot] <= MaxLag

LateIo ==
    /\ \A o \in pending : InTime(o)
    /\ \A w \in Workers : Busy(w) => InTime(io[w])

\* Until its socket is associated, the AcceptEx is all a slot has outstanding.
Accepting(w) == pc[w] \in {"ACCEPT", "BindSocket"}

AcceptAlone ==
    /\ \A o \in pending : o.op = "ACCEPT" =>
        /\ ~is_connect_[o.slot]
        /\ closed_ago[o.slot] = RESERVED
        /\ o.sock = socket_[o.slot]
        /\ \A p \in pending : p.slot = o.slot => p = o
        /\ \A v \in Workers : Busy(v) => io[v].slot # o.slot
    /\ \A w \in Workers : Accepting(w) =>
        /\ is_connect_[io[w].slot] <=> pc[w] = "BindSocket"
        /\ ~bound[io[w].slot]
        /\ closed_ago[io[w].slot] = RESERVED
        /\ io[w].sock = socket_[io[w].slot]
        /\ \A p \in pending : p.slot # io[w].slot
        /\ \A v \in Workers \ {w} : Busy(v) => io[v].slot # io[w].slot

Receiving(w) == pc[w] \in {"RECV", "BindRecv", "FirstRecv"}

RecvAlone ==
    /\ \A o, p \in pending : o.op = "RECV" /\ p.op = "RECV" /\ o.slot = p.slot => o = p
    /\ \A w \in Workers : Receiving(w) =>
        /\ \A o \in pending : o.op = "RECV" => o.slot # io[w].slot
        /\ \A v \in Workers \ {w} : Receiving(v) => io[v].slot # io[w].slot

\* A WSASend in flight is of the front of the queue, and alone.
IsFront(o) ==
    /\ send_data_queue_[o.slot] # <<>>
    /\ o.buf = Head(send_data_queue_[o.slot])

SendAlone ==
    /\ \A o \in pending : o.op = "SEND" =>
        /\ IsFront(o)
        /\ \A p \in pending : p.op = "SEND" /\ p.slot = o.slot => p = o
    /\ \A w \in Workers : pc[w] = "SEND" =>
        /\ IsFront(io[w])
        /\ \A o \in pending : o.op = "SEND" => o.slot # io[w].slot
        /\ \A v \in Workers \ {w} : pc[v] = "SEND" => io[v].slot # io[w].slot

\* Messages older than the socket are at the front, so while one of the
\* socket's own is in flight there are none.
Purged(o) == o.sock = socket_[o.slot] => left_over[o.slot] = 0

NoLeftOver ==
    /\ \A s \in Slots : left_over[s] <= Len(send_data_queue_[s])
    /\ \A o \in pending : o.op = "SEND" => Purged(o)
    /\ \A w \in Workers : pc[w] = "SEND" => Purged(io[w])

\* I/O of the socket a slot has now, other than its AcceptEx, is of a connected slot:
\* what the refinement needs besides IInv.
Live(o) == o.sock = socket_[o.slot] => is_connect_[o.slot]

LiveIo ==
    /\ \A o \in pending : o.op # "ACCEPT" => Live(o)
    /\ \A w \in Workers : pc[w] \notin {"gqcs", "ACCEPT"} => Live(io[w])

\* The conjunction the proofs carry from step to step (slots, threads and send
\* queues of IocpNetServer.h and ClientInfo.h together).
IInv ==
    /\ TypeOK
    /\ Stamped
    /\ Associated
    /\ LateIo
    /\ AcceptAlone
    /\ RecvAlone
    /\ SendAlone
    /\ NoLeftOver

-----------------------------------------------------------------------------
(* The abstract life of a slot *)

HasAccept(s) == Pending(s, "ACCEPT") # {} \/ Working(s, {"ACCEPT"}) # {}

PhaseOf(s) ==
    IF is_connect_[s] THEN "serving"
    ELSE IF closed_ago[s] # RESERVED THEN "free"
    ELSE IF HasAccept(s) THEN "offered" ELSE "lost"

SlotPhase == [s \in Slots |-> PhaseOf(s)]

Lifecycle == INSTANCE SessionLifecycle WITH phase <- SlotPhase

\* Whatever the workers interleave, a slot goes from free to offered to serving
\* and back: no late completion takes an offer back or ends the next client's
\* session (AccepterThread, WorkerThread, CloseSocket).
RefinesLifecycle == Lifecycle!Spec

-----------------------------------------------------------------------------
(* The slots as the game server sees them: GameServer has connected and blocked
   in place of the session core. *)

\* Something is queued and no completion will have the next message sent.
Silent(s) ==
    /\ send_data_queue_[s] # <<>>
    /\ Pending(s, "SEND") = {}
    /\ Working(s, {"SEND"}) = {}

SilentSlots == [s \in Slots |-> Silent(s)]

Output == INSTANCE SlotOutput WITH connected <- is_connect_, blocked <- SilentSlots

\* A slot is entered and left by one client at a time, and once a message is left in
\* its queue with no WSASend under way it never sends again, through closes and new
\* sessions, whoever sends to it meanwhile (SendMsg, SendCompleted, Close).
RefinesOutput == Output!Spec

-----------------------------------------------------------------------------
(* What a comment of the code says, and the code does not do *)

\* ClientInfo.h:210: with two or more messages in send_data_queue_ a WSASend is
\* in progress.
QueuedMeansSending ==
    \A s \in Slots : Len(send_data_queue_[s]) >= 2
        => Pending(s, "SEND") # {} \/ Working(s, {"SEND", "CloseSocket", "Close"}) # {}

=============================================================================
