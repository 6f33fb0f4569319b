------------------------------ MODULE PacketBuffer ------------------------------
(***************************************************************************)
(* The receive path of one client, for one session: a worker thread puts   *)
(* what WSARecv delivered into the packet_data_buffer_ of its User and an   *)
(* entry into server_in_coming_packet_user_index_; the game thread's timer *)
(* takes an entry, asks the User for one packet and runs its handler on the *)
(* bytes in the buffer (User.h, TeemoGameInstance.cpp).                    *)
(*                                                                         *)
(* The mutex lock_ protects the index queue only.  The buffer and its two  *)
(* positions are read and written by both threads with no lock, so both    *)
(* functions are modelled a statement at a time.                           *)
(*                                                                         *)
(* A byte is its place in the client's stream: the first byte sent is 0.   *)
(***************************************************************************)
EXTENDS Integers, FiniteSets

CONSTANTS
    PACKET_DATA_BUFFER_SIZE,
    PACKET_HEADER_LENGTH,
    MAX_SOCKBUF,            \* bytes WSARecv delivers at most
    PacketLengths,          \* the packet_length_ a client may send
    MaxSent                 \* bound: bytes of a session

ASSUME SizeAssumption ==
    /\ PACKET_DATA_BUFFER_SIZE \in Nat
    /\ PACKET_HEADER_LENGTH \in Nat \ {0}
    /\ MAX_SOCKBUF \in Nat
    /\ MaxSent \in Nat

ASSUME LengthAssumption ==
    PacketLengths \subseteq {n \in Nat : n >= PACKET_HEADER_LENGTH}

VARIABLES
    packets,    \* packets sent: where they begin in the stream, and their length
    sent,       \* bytes sent
    received,   \* bytes SetPacketData has stored
    buf,        \* packet_data_buffer_: the stream byte in each place
    w_pos,      \* packet_data_buffer_w_pos_
    r_pos,      \* packet_data_buffer_r_pos_
    worker,     \* the thread in SetPacketData: statement, data_size, re_main_data_size
    entries,    \* entries of this user in server_in_coming_packet_user_index_
    game,       \* the thread in GetPacket: statement, re_main_byte, packet, its address
    consumed    \* bytes handed to the handlers

stream == <<packets, sent>>
positions == <<w_pos, r_pos>>
vars == <<stream, received, buf, positions, worker, entries, game, consumed>>

Places == 0 .. PACKET_DATA_BUFFER_SIZE - 1
PacketType == [at : Nat, len : PacketLengths]
NoPacket == [at |-> 0, len |-> 0]

Init ==
    /\ packets = {}
    /\ sent = 0
    /\ received = 0
    /\ buf = [i \in Places |-> -1]
    /\ w_pos = 0
    /\ r_pos = 0
    /\ worker = [at |-> "idle", size |-> 0, remain |-> 0]
    /\ entries = 0
    /\ game = [at |-> "idle", remain |-> 0, packet |-> NoPacket, ptr |-> 0]
    /\ consumed = 0

WorkerAt(next) == worker' = [worker EXCEPT !.at = next]
GameAt(next) == game' = [game EXCEPT !.at = next]

-----------------------------------------------------------------------------
(* The client: Server_Packet_Send of a whole packet. *)

SendPacket ==
    /\ \E n \in PacketLengths :
        /\ sent + n <= MaxSent
        /\ packets' = packets \cup {[at |-> sent, len |-> n]}
        /\ sent' = sent + n
    /\ UNCHANGED <<received, buf, positions, worker, entries, game, consumed>>

-----------------------------------------------------------------------------
(* The worker: OnReceive, ReceivePacketData, SetPacketData.  A user has one at
   a time (OneRecvPerSlot of IocpNetServer). *)

\* TCP delivers any part of what was sent, several packets or half of one.
Receive ==
    /\ worker.at = "idle"
    /\ \E n \in 1 .. MAX_SOCKBUF :
        /\ received + n <= sent
        /\ worker' = [at |-> "check", size |-> n, remain |-> 0]
    /\ UNCHANGED <<stream, received, buf, positions, entries, game, consumed>>

\* Faulty variant: compaction only when the data does not fit by two bytes.
CheckLate ==
    /\ worker.at = "check"
    /\ IF w_pos + worker.size >= PACKET_DATA_BUFFER_SIZE + 2
       THEN worker' = [worker EXCEPT !.at = "move", !.remain = w_pos - r_pos]
       ELSE WorkerAt("copy")
    /\ UNCHANGED <<stream, received, buf, positions, entries, game, consumed>>

Check ==
    /\ worker.at = "check"
    /\ IF w_pos + worker.size >= PACKET_DATA_BUFFER_SIZE
       THEN worker' = [worker EXCEPT !.at = "move", !.remain = w_pos - r_pos]
       ELSE WorkerAt("copy")
    /\ UNCHANGED <<stream, received, buf, positions, entries, game, consumed>>

\* Faulty variant: the unread bytes stay where they are.
MoveForgotten ==
    /\ worker.at = "move"
    /\ w_pos' = worker.remain
    /\ WorkerAt("reset")
    /\ UNCHANGED <<stream, received, buf, r_pos, entries, game, consumed>>

\* Unread bytes to the front (CopyMemory copies upwards, so the places may
\* overlap), w_pos behind them.
Move ==
    /\ worker.at = "move"
    /\ buf' = [i \in Places |-> IF i < worker.remain THEN buf[r_pos + i] ELSE buf[i]]
    /\ w_pos' = worker.remain
    /\ WorkerAt("reset")
    /\ UNCHANGED <<stream, received, r_pos, entries, game, consumed>>

Reset ==
    /\ worker.at = "reset"
    /\ r_pos' = 0
    /\ WorkerAt("copy")
    /\ UNCHANGED <<stream, received, buf, w_pos, entries, game, consumed>>

\* Nothing tests that the data fits after the compaction.
Overrun == worker.at = "copy" /\ w_pos + worker.size > PACKET_DATA_BUFFER_SIZE

Copy ==
    /\ worker.at = "copy"
    /\ buf' = [i \in Places |->
            IF i \in w_pos .. w_pos + worker.size - 1 THEN received + (i - w_pos) ELSE buf[i]]
    /\ WorkerAt("commit")
    /\ UNCHANGED <<stream, received, positions, entries, game, consumed>>

Commit ==
    /\ worker.at = "commit"
    /\ w_pos' = w_pos + worker.size
    /\ received' = received + worker.size
    /\ WorkerAt("enqueue")
    /\ UNCHANGED <<stream, buf, r_pos, entries, game, consumed>>

\* Faulty variant: a receive shorter than a header is not announced.
EnqueueLong ==
    /\ worker.at = "enqueue"
    /\ entries' = IF worker.size < PACKET_HEADER_LENGTH THEN entries ELSE entries + 1
    /\ WorkerAt("idle")
    /\ UNCHANGED <<stream, received, buf, positions, game, consumed>>

\* EnqueuePacketData: one entry for a receive, however many packets it ends.
Enqueue ==
    /\ worker.at = "enqueue"
    /\ entries' = entries + 1
    /\ WorkerAt("idle")
    /\ UNCHANGED <<stream, received, buf, positions, game, consumed>>

Worker == Receive \/ Check \/ Move \/ Reset \/ Copy \/ Commit \/ Enqueue

-----------------------------------------------------------------------------
(* The game thread: TimerProcessPacket, DequePacketData, GetPacket. *)

Deque ==
    /\ game.at = "idle"
    /\ entries > 0
    /\ entries' = entries - 1
    /\ GameAt("remain")
    /\ UNCHANGED <<stream, received, buf, positions, worker, consumed>>

Remain ==
    /\ game.at = "remain"
    /\ IF w_pos - r_pos < PACKET_HEADER_LENGTH
       THEN GameAt("idle")
       ELSE game' = [game EXCEPT !.at = "header", !.remain = w_pos - r_pos]
    /\ UNCHANGED <<stream, received, buf, positions, worker, entries, consumed>>

\* Faulty variant: the packet is taken when its header is there.
HeaderOnly ==
    /\ game.at = "header"
    /\ \E p \in packets :
        /\ buf[r_pos] = p.at
        /\ game' = [game EXCEPT !.at = "advance", !.packet = p, !.ptr = r_pos]
    /\ UNCHANGED <<stream, received, buf, positions, worker, entries, consumed>>

Header ==
    /\ game.at = "header"
    /\ \E p \in packets :
        /\ buf[r_pos] = p.at
        /\ IF p.len > game.remain
           THEN GameAt("idle")
           ELSE game' = [game EXCEPT !.at = "advance", !.packet = p, !.ptr = r_pos]
    /\ UNCHANGED <<stream, received, buf, positions, worker, entries, consumed>>

Advance ==
    /\ game.at = "advance"
    /\ r_pos' = r_pos + game.packet.len
    /\ consumed' = consumed + game.packet.len
    /\ GameAt("handle")
    /\ UNCHANGED <<stream, received, buf, w_pos, worker, entries>>

\* ProcessRecvPacket: the handler reads the packet where it lies in the buffer.
HandlePacket ==
    /\ game.at = "handle"
    /\ GameAt("idle")
    /\ UNCHANGED <<stream, received, buf, positions, worker, entries, consumed>>

Game == Deque \/ Remain \/ Header \/ Advance \/ HandlePacket

-----------------------------------------------------------------------------
\* The worker compacts while the game thread is in GetPacket or its handler.
\* What follows depends on how their loads and stores interleave: the packet
\* may be garbled, taken twice or skipped.  The behaviours stop here, and where
\* the worker is about to write past the end of the buffer.
Clash == worker.at \in {"move", "reset"} /\ game.at # "idle"

Next == ~Clash /\ ~Overrun /\ (SendPacket \/ Worker \/ Game)

Spec == Init /\ [][Next]_vars

\* Data sent is delivered, the workers and the timer keep running.
FairSpec == Spec /\ WF_vars(~Clash /\ ~Overrun /\ Worker) /\ WF_vars(~Clash /\ ~Overrun /\ Game)

-----------------------------------------------------------------------------
(* Properties *)

\* The types of the fields of User and of the locals of SetPacketData and
\* GetPacket.
TypeOK ==
    /\ packets \subseteq PacketType
    /\ sent \in Nat
    /\ received \in 0 .. sent
    /\ buf \in [Places -> Int]
    /\ w_pos \in 0 .. PACKET_DATA_BUFFER_SIZE
    /\ r_pos \in 0 .. PACKET_DATA_BUFFER_SIZE
    /\ worker \in [at : {"idle", "check", "move", "reset", "copy", "commit", "enqueue"},
                   size : 0 .. MAX_SOCKBUF, remain : 0 .. PACKET_DATA_BUFFER_SIZE]
    /\ entries \in Nat
    /\ game \in [at : {"idle", "remain", "header", "advance", "handle"},
                 remain : 0 .. PACKET_DATA_BUFFER_SIZE,
                 packet : PacketType \cup {NoPacket}, ptr : 0 .. PACKET_DATA_BUFFER_SIZE]
    /\ consumed \in 0 .. received

\* A packet a handler reads is whole and unchanged where GetPacket found it,
\* and is the one after the last: the threads need no lock (User.h has none)
\* as long as no compaction falls between GetPacket and the end of the handler.
PacketIntact ==
    ~Clash /\ game.at = "handle" =>
        /\ consumed = game.packet.at + game.packet.len
        /\ \A i \in 0 .. game.packet.len - 1 : buf[game.ptr + i] = game.packet.at + i

\* What was received and not handed over yet lies between r_pos and w_pos, in
\* order, through every compaction (SetPacketData, GetPacket).
UnreadInPlace ==
    ~Clash /\ worker.at # "reset" /\ game.at # "handle" =>
        /\ w_pos - r_pos = received - consumed
        /\ \A i \in 0 .. w_pos - r_pos - 1 : buf[r_pos + i] = consumed + i

\* SetPacketData gives up no space: it runs over the end only when what was
\* unread at the compaction and the new data are more than the buffer holds.
OverrunOnlyWhenFull ==
    Overrun => worker.remain + worker.size > PACKET_DATA_BUFFER_SIZE

\* At most one request of the client is still to be handled.
Waits == \A p, q \in packets : p.at >= consumed /\ q.at >= consumed => p = q

\* TeemoGameInstance.cpp:114: a request that is there is processed.  It holds for
\* a client that waits for its answers (login, sign-up).
RequestHandled == []Waits => (consumed < sent ~> consumed = sent \/ Clash \/ Overrun)

-----------------------------------------------------------------------------
(* The inductive invariant *)

\* The packets sent lie end to end, and the next one to hand over is one of them.
Boundary(n) == n = sent \/ \E p \in packets : p.at = n

Tiled ==
    /\ \A p \in packets : p.at + p.len <= sent /\ Boundary(p.at + p.len)
    /\ \A p, q \in packets : p.at = q.at => p = q
    /\ Boundary(consumed)

\* No two packets overlap, and there are finitely many: what the refinement needs besides.
Apart ==
    /\ IsFiniteSet(packets)
    /\ \A p, q \in packets : p.at < q.at => p.at + p.len <= q.at

\* Between r_pos and w_pos the bytes are those after the last one handed over.
Window ==
    /\ w_pos - r_pos = received - consumed
    /\ \A i \in 0 .. w_pos - r_pos - 1 : buf[r_pos + i] = consumed + i

\* After Move the same bytes are at the front.
Moved ==
    /\ w_pos = received - consumed
    /\ \A i \in 0 .. w_pos - 1 : buf[i] = consumed + i

\* What the worker knows at each statement of SetPacketData.
WorkerKnows ==
    /\ worker.at \in {"check", "move", "reset", "copy", "commit"} => received + worker.size <= sent
    /\ worker.at = "move" => worker.remain = w_pos - r_pos
    /\ worker.at = "copy" =>
        \/ w_pos + worker.size < PACKET_DATA_BUFFER_SIZE
        \/ w_pos = worker.remain
    /\ worker.at = "reset" => w_pos = worker.remain
    /\ worker.at = "commit" =>
        /\ w_pos + worker.size <= PACKET_DATA_BUFFER_SIZE
        /\ \A i \in 0 .. worker.size - 1 : buf[w_pos + i] = received + i

\* What the game thread knows at each statement of GetPacket.
GameKnows ==
    /\ game.at = "header" =>
        /\ PACKET_HEADER_LENGTH <= game.remain
        /\ game.remain <= received - consumed
    /\ game.at = "advance" =>
        /\ game.packet \in packets
        /\ game.packet.at = consumed
        /\ game.packet.len <= received - consumed
        /\ game.ptr = r_pos
    /\ game.at = "handle" =>
        /\ game.packet \in packets
        /\ consumed = game.packet.at + game.packet.len
        /\ game.ptr + game.packet.len = r_pos
        /\ \A i \in 0 .. game.packet.len - 1 : buf[game.ptr + i] = game.packet.at + i

\* The conjunction the proofs carry from statement to statement (User.h).
IInv ==
    /\ TypeOK
    /\ Tiled
    /\ ~Clash =>
        /\ worker.at # "reset" => Window
        /\ worker.at = "reset" => Moved
        /\ WorkerKnows
        /\ GameKnows

-----------------------------------------------------------------------------
(* The inbox of the client, which GameServer has in place of the bytes.  A receive counts
   when w_pos moves, an entry is followed when Remain has read the positions: what it saw
   then decides whether there is a packet. *)

\* The game thread has seen the whole of p, the next packet.
Claimed(p) ==
    /\ p.at = consumed
    /\ \/ game.at = "header" /\ p.len <= game.remain
       \/ game.at = "advance"

Unread == {p \in packets : p.at >= consumed /\ p.at + p.len <= received /\ ~Claimed(p)}

Announced == entries + (IF worker.at = "enqueue" THEN 1 ELSE 0) + (IF game.at = "remain" THEN 1 ELSE 0)

Box == INSTANCE Inbox WITH unread <- Cardinality(Unread), entries <- Announced

\* Though bytes, positions and entries are read and written by two threads a statement at
\* a time, the client's packets come and go as in the inbox: one packet at most for an
\* entry, and none only if none was complete (SetPacketData, GetPacket, DequePacketData).
RefinesInbox == Box!Spec

=============================================================================
