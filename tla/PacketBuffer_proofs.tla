--------------------------- MODULE PacketBuffer_proofs ---------------------------
(***************************************************************************)
(* Proofs about PacketBuffer, for every size of the buffer, the header and *)
(* the receive, and any packet lengths.                                    *)
(***************************************************************************)
EXTENDS PacketBuffer, FiniteSetTheorems, TLAPS

\* A thread that is not at the compaction leaves the next state without a clash.
LEMMA InitIInv == Init => IInv
BY SizeAssumption DEF Init, IInv, TypeOK, Tiled, Boundary, Clash, Window, Moved, WorkerKnows,
   GameKnows, Places, NoPacket, PacketType

\* Lengths are positive numbers.
LEMMA PacketFacts ==
    ASSUME TypeOK, NEW p \in packets
    PROVE  p \in PacketType /\ p.at \in Nat /\ p.len \in Nat /\ p.len >= 1
<1>1. p \in PacketType
    BY DEF TypeOK
<1>2. p.at \in Nat /\ p.len \in PacketLengths
    BY <1>1 DEF PacketType
<1>3. p.len \in Nat /\ p.len >= PACKET_HEADER_LENGTH
    BY <1>2, LengthAssumption
<1> QED
    BY <1>1, <1>2, <1>3, SizeAssumption

\* Client: a packet is sent behind the others.
LEMMA SendPacketIInv == IInv /\ ~Clash /\ SendPacket => IInv'
<1> SUFFICES ASSUME IInv, ~Clash, SendPacket PROVE IInv'
    OBVIOUS
<1> USE DEF IInv
<1>1. PICK n \in PacketLengths :
        /\ packets' = packets \cup {[at |-> sent, len |-> n]}
        /\ sent' = sent + n
    BY DEF SendPacket
<1>2. UNCHANGED <<received, buf, w_pos, r_pos, worker, entries, game, consumed>>
    BY DEF SendPacket, positions
<1>3. n \in Nat /\ n >= 1
    BY LengthAssumption, SizeAssumption
<1>4. TypeOK'
    BY <1>1, <1>2, <1>3 DEF TypeOK, PacketType
<1>5. Tiled'
    <2>1. \A m : Boundary(m) => Boundary(m)'
        <3> SUFFICES ASSUME NEW m, Boundary(m) PROVE Boundary(m)'
            OBVIOUS
        <3>1. CASE m = sent
            <4>1. [at |-> sent, len |-> n] \in packets' /\ [at |-> sent, len |-> n].at = m
                BY <1>1, <3>1
            <4> QED
                BY <4>1 DEF Boundary
        <3>2. CASE \E p \in packets : p.at = m
            BY <1>1, <3>2 DEF Boundary
        <3> QED
            BY <3>1, <3>2 DEF Boundary
    <2>2. \A p \in packets : p.at \in Nat /\ p.len \in Nat /\ p.len >= 1 /\ p.at + p.len <= sent
        BY PacketFacts DEF Tiled
    <2>3. \A p \in packets' : p.at + p.len <= sent' /\ Boundary(p.at + p.len)'
        BY <1>1, <1>3, <2>1, <2>2 DEF TypeOK, Tiled, Boundary
    <2>4. \A p, q \in packets' : p.at = q.at => p = q
        BY <1>1, <2>2 DEF TypeOK, Tiled
    <2>5. Boundary(consumed)'
        BY <1>2, <2>1 DEF Tiled, Boundary
    <2> QED
        BY <2>3, <2>4, <2>5 DEF Tiled
<1>6. (worker.at # "reset" => Window)' /\ (worker.at = "reset" => Moved)'
    BY <1>2 DEF Window, Moved, Clash
<1>7. WorkerKnows'
    BY <1>1, <1>2, <1>3 DEF WorkerKnows, TypeOK
<1>8. GameKnows'
    BY <1>1, <1>2 DEF GameKnows
<1> QED
    BY <1>4, <1>5, <1>6, <1>7, <1>8

-----------------------------------------------------------------------------
(* SetPacketData *)

\* The steps of the worker leave what the client has sent and what has been
\* handed over alone.
LEMMA TiledKept ==
    ASSUME Tiled, UNCHANGED stream, UNCHANGED consumed
    PROVE  Tiled'
BY DEF Tiled, Boundary, stream

LEMMA ReceiveIInv == IInv /\ ~Clash /\ Receive => IInv'
<1> SUFFICES ASSUME IInv, ~Clash, Receive PROVE IInv'
    OBVIOUS
<1> USE DEF IInv
<1>1. UNCHANGED <<packets, sent, received, buf, w_pos, r_pos, entries, game, consumed>>
    BY DEF Receive, stream, positions
<1>2. PICK n \in 1 .. MAX_SOCKBUF :
        received + n <= sent /\ worker' = [at |-> "check", size |-> n, remain |-> 0]
    BY DEF Receive
<1>3. worker.at = "idle"
    BY DEF Receive
<1>4. TypeOK'
    BY <1>1, <1>2, SizeAssumption DEF TypeOK
<1>5. Tiled'
    BY <1>1, TiledKept DEF stream
<1>6. Window' /\ worker'.at = "check"
    BY <1>1, <1>2, <1>3 DEF Window
<1>7. WorkerKnows'
    BY <1>1, <1>2 DEF WorkerKnows
<1>8. GameKnows'
    BY <1>1 DEF GameKnows
<1> QED
    BY <1>4, <1>5, <1>6, <1>7, <1>8

LEMMA CheckIInv == IInv /\ ~Clash /\ Check => IInv'
<1> SUFFICES ASSUME IInv, ~Clash, Check PROVE IInv'
    OBVIOUS
<1> USE DEF IInv
<1>1. UNCHANGED <<packets, sent, received, buf, w_pos, r_pos, entries, game, consumed>>
    BY DEF Check, stream, positions
<1>2. worker.at = "check" /\ Window
    BY DEF Check
<1>3. w_pos - r_pos \in 0 .. PACKET_DATA_BUFFER_SIZE
    BY <1>2, SizeAssumption DEF Window, TypeOK
<1>4. \/ worker' = [worker EXCEPT !.at = "move", !.remain = w_pos - r_pos]
      \/ /\ worker' = [worker EXCEPT !.at = "copy"]
         /\ w_pos + worker.size < PACKET_DATA_BUFFER_SIZE
    BY SizeAssumption DEF Check, WorkerAt, TypeOK
<1>5. TypeOK'
    BY <1>1, <1>3, <1>4 DEF TypeOK
<1>6. Tiled'
    BY <1>1, TiledKept DEF stream
<1>7. Window' /\ worker'.at # "reset"
    BY <1>1, <1>2, <1>4 DEF Window, TypeOK
<1>8. WorkerKnows'
    BY <1>1, <1>2, <1>4 DEF WorkerKnows, TypeOK
<1>9. GameKnows'
    BY <1>1 DEF GameKnows
<1> QED
    BY <1>5, <1>6, <1>7, <1>8, <1>9

\* Compaction: the unread bytes are at the front.
LEMMA MoveIInv == IInv /\ ~Clash /\ Move => IInv'
<1> SUFFICES ASSUME IInv, ~Clash, Move PROVE IInv'
    OBVIOUS
<1> USE DEF IInv
<1>1. UNCHANGED <<packets, sent, received, r_pos, entries, game, consumed>>
    BY DEF Move, stream
<1>2. worker.at = "move" /\ Window /\ worker.remain = w_pos - r_pos /\ game.at = "idle"
    BY DEF Move, Clash, WorkerKnows
<1>3. /\ worker' = [worker EXCEPT !.at = "reset"]
      /\ w_pos' = worker.remain
      /\ buf' = [i \in Places |-> IF i < worker.remain THEN buf[r_pos + i] ELSE buf[i]]
    BY DEF Move, WorkerAt
<1>4. worker.remain \in 0 .. PACKET_DATA_BUFFER_SIZE
    BY DEF TypeOK
<1>5. \A i \in 0 .. worker.remain - 1 : r_pos + i \in Places
    BY <1>2, <1>4, SizeAssumption DEF TypeOK, Places
<1>6. TypeOK'
    <2>1. buf' \in [Places -> Int]
        BY <1>3, <1>4, <1>5 DEF TypeOK, Places
    <2> QED
        BY <2>1, <1>1, <1>3, <1>4 DEF TypeOK
<1>7. Tiled'
    BY <1>1, TiledKept DEF stream
<1>8. Moved'
    <2>1. w_pos' = received - consumed
        BY <1>2, <1>3 DEF Window
    <2>2. \A i \in 0 .. w_pos' - 1 : buf'[i] = consumed + i
        <3> SUFFICES ASSUME NEW i \in 0 .. w_pos' - 1 PROVE buf'[i] = consumed + i
            OBVIOUS
        <3>1. i \in Places /\ i < worker.remain /\ i \in 0 .. w_pos - r_pos - 1
            BY <1>2, <1>3, <1>4, SizeAssumption DEF Places
        <3>2. buf'[i] = buf[r_pos + i]
            BY <1>3, <3>1
        <3> QED
            BY <1>2, <3>1, <3>2 DEF Window
    <2> QED
        BY <1>1, <2>1, <2>2 DEF Moved
<1>9. worker'.at = "reset"
    BY <1>3 DEF TypeOK
<1>10. WorkerKnows'
    BY <1>1, <1>2, <1>3 DEF WorkerKnows, TypeOK
<1>11. GameKnows'
    BY <1>1, <1>2 DEF GameKnows
<1> QED
    BY <1>6, <1>7, <1>8, <1>9, <1>10, <1>11

LEMMA ResetIInv == IInv /\ ~Clash /\ Reset => IInv'
<1> SUFFICES ASSUME IInv, ~Clash, Reset PROVE IInv'
    OBVIOUS
<1> USE DEF IInv
<1>1. UNCHANGED <<packets, sent, received, buf, w_pos, entries, game, consumed>>
    BY DEF Reset, stream
<1>2. worker.at = "reset" /\ Moved /\ game.at = "idle"
    BY DEF Reset, Clash
<1>3. worker' = [worker EXCEPT !.at = "copy"] /\ r_pos' = 0
    BY DEF Reset, WorkerAt
<1>4. TypeOK'
    BY <1>1, <1>3, SizeAssumption DEF TypeOK
<1>5. Tiled'
    BY <1>1, TiledKept DEF stream
<1>6. Window'
    BY <1>1, <1>2, <1>3 DEF Moved, Window, TypeOK
<1>7. worker'.at = "copy"
    BY <1>3 DEF TypeOK
<1>8. WorkerKnows'
    BY <1>1, <1>2, <1>3 DEF WorkerKnows, TypeOK
<1>9. GameKnows'
    BY <1>1, <1>2 DEF GameKnows
<1> QED
    BY <1>4, <1>5, <1>6, <1>7, <1>8, <1>9

\* The new bytes go behind w_pos, where neither the unread bytes nor the packet
\* in a handler's hands lie.
LEMMA CopyIInv == IInv /\ ~Clash /\ ~Overrun /\ Copy => IInv'
<1> SUFFICES ASSUME IInv, ~Clash, ~Overrun, Copy PROVE IInv'
    OBVIOUS
<1> USE DEF IInv
<1>1. UNCHANGED <<packets, sent, received, w_pos, r_pos, entries, game, consumed>>
    BY DEF Copy, stream, positions
<1>2. worker.at = "copy" /\ Window /\ WorkerKnows /\ GameKnows
    BY DEF Copy
<1>3. /\ worker' = [worker EXCEPT !.at = "commit"]
      /\ buf' = [i \in Places |->
            IF i \in w_pos .. w_pos + worker.size - 1 THEN received + (i - w_pos) ELSE buf[i]]
    BY DEF Copy, WorkerAt
<1>4. w_pos + worker.size <= PACKET_DATA_BUFFER_SIZE
    BY <1>2, SizeAssumption DEF Overrun, TypeOK
<1>5. TypeOK'
    <2>1. buf' \in [Places -> Int]
        BY <1>3 DEF TypeOK, Places
    <2> QED
        BY <2>1, <1>1, <1>3 DEF TypeOK
<1>6. Tiled'
    BY <1>1, TiledKept DEF stream
<1>7. \A i \in 0 .. w_pos - 1 : buf'[i] = buf[i]
    BY <1>3, <1>4, SizeAssumption DEF Places, TypeOK
<1>8. Window'
    <2>1. \A i \in 0 .. w_pos - r_pos - 1 : buf'[r_pos + i] = consumed + i
        BY <1>2, <1>7 DEF Window, TypeOK
    <2> QED
        BY <1>1, <1>2, <2>1 DEF Window
<1>9. worker'.at = "commit"
    BY <1>3 DEF TypeOK
<1>10. WorkerKnows'
    <2>1. \A i \in 0 .. worker.size - 1 : buf'[w_pos + i] = received + i
        <3> SUFFICES ASSUME NEW i \in 0 .. worker.size - 1 PROVE buf'[w_pos + i] = received + i
            OBVIOUS
        <3>1. w_pos \in Nat /\ worker.size \in Nat /\ received \in Nat
            BY DEF TypeOK
        <3>2. w_pos + i \in Places /\ w_pos + i \in w_pos .. w_pos + worker.size - 1
            BY <1>4, <3>1, SizeAssumption DEF Places
        <3>3. buf'[w_pos + i] = received + ((w_pos + i) - w_pos)
            BY <1>3, <3>2
        <3> QED
            BY <3>1, <3>3
    <2>2. worker'.size = worker.size
        BY <1>3 DEF TypeOK
    <2> QED
        BY <1>1, <1>2, <1>4, <1>9, <2>1, <2>2 DEF WorkerKnows
<1>11. GameKnows'
    <2>1. CASE game.at = "handle"
        <3>1. game.packet.len \in Nat /\ game.ptr \in Nat
            BY <2>1, <1>2, PacketFacts DEF GameKnows, TypeOK
        <3>2. r_pos <= w_pos
            BY <1>2 DEF Window, TypeOK
        <3>3. \A i \in 0 .. game.packet.len - 1 : buf'[game.ptr + i] = game.packet.at + i
            BY <1>2, <1>7, <2>1, <3>1, <3>2 DEF GameKnows, TypeOK
        <3> QED
            BY <1>1, <1>2, <2>1, <3>3 DEF GameKnows
    <2>2. CASE game.at # "handle"
        BY <1>1, <1>2, <2>2 DEF GameKnows
    <2> QED
        BY <2>1, <2>2
<1> QED
    BY <1>5, <1>6, <1>8, <1>9, <1>10, <1>11

LEMMA CommitIInv == IInv /\ ~Clash /\ Commit => IInv'
<1> SUFFICES ASSUME IInv, ~Clash, Commit PROVE IInv'
    OBVIOUS
<1> USE DEF IInv
<1>1. UNCHANGED <<packets, sent, buf, r_pos, entries, game, consumed>>
    BY DEF Commit, stream
<1>2. worker.at = "commit" /\ Window /\ WorkerKnows /\ GameKnows
    BY DEF Commit
<1>3. /\ worker' = [worker EXCEPT !.at = "enqueue"]
      /\ w_pos' = w_pos + worker.size
      /\ received' = received + worker.size
    BY DEF Commit, WorkerAt
<1>4. worker.size \in Nat /\ received + worker.size <= sent
      /\ w_pos + worker.size <= PACKET_DATA_BUFFER_SIZE
    BY <1>2 DEF WorkerKnows, TypeOK
<1>5. TypeOK'
    BY <1>1, <1>3, <1>4 DEF TypeOK
<1>6. Tiled'
    BY <1>1, TiledKept DEF stream
<1>7. Window'
    <2>1. w_pos' - r_pos = received' - consumed
        BY <1>2, <1>3, <1>4 DEF Window, TypeOK
    <2>2. ASSUME NEW i \in 0 .. w_pos' - r_pos - 1
          PROVE  buf[r_pos + i] = consumed + i
        <3>1. CASE i < w_pos - r_pos
            BY <1>2, <3>1 DEF Window, TypeOK
        <3>2. CASE i >= w_pos - r_pos
            <4> DEFINE j == i - (w_pos - r_pos)
            <4>1. j \in 0 .. worker.size - 1 /\ r_pos + i = w_pos + j
                BY <1>3, <1>4, <3>2 DEF TypeOK
            <4>2. buf[w_pos + j] = received + j
                BY <1>2, <4>1 DEF WorkerKnows
            <4>3. received + j = consumed + i
                BY <1>2, <4>1 DEF Window, TypeOK
            <4> QED
                BY <4>1, <4>2, <4>3
        <3> QED
            BY <3>1, <3>2 DEF TypeOK
    <2> QED
        BY <1>1, <2>1, <2>2 DEF Window
<1>8. worker'.at = "enqueue"
    BY <1>3 DEF TypeOK
<1>9. WorkerKnows'
    BY <1>8 DEF WorkerKnows
<1>10. GameKnows'
    <2>1. game.at = "header" => game.remain <= received' - consumed
        BY <1>2, <1>3, <1>4 DEF GameKnows, TypeOK
    <2>2. game.at = "advance" => game.packet.len <= received' - consumed
        <3> SUFFICES ASSUME game.at = "advance" PROVE game.packet.len <= received' - consumed
            OBVIOUS
        <3>1. game.packet.len \in Nat
            BY <1>2, LengthAssumption DEF GameKnows, TypeOK, PacketType
        <3> QED
            BY <1>2, <1>3, <1>4, <3>1 DEF GameKnows, TypeOK
    <2> QED
        BY <1>1, <1>2, <2>1, <2>2 DEF GameKnows
<1> QED
    BY <1>5, <1>6, <1>7, <1>8, <1>9, <1>10

LEMMA EnqueueIInv == IInv /\ ~Clash /\ Enqueue => IInv'
<1> SUFFICES ASSUME IInv, ~Clash, Enqueue PROVE IInv'
    OBVIOUS
<1> USE DEF IInv
<1>1. UNCHANGED <<packets, sent, received, buf, w_pos, r_pos, game, consumed>>
    BY DEF Enqueue, stream, positions
<1>2. worker.at = "enqueue" /\ Window /\ entries' = entries + 1
      /\ worker' = [worker EXCEPT !.at = "idle"]
    BY DEF Enqueue, WorkerAt
<1>3. TypeOK'
    BY <1>1, <1>2 DEF TypeOK
<1>4. Tiled'
    BY <1>1, TiledKept DEF stream
<1>5. Window' /\ worker'.at = "idle"
    BY <1>1, <1>2 DEF Window, TypeOK
<1>6. WorkerKnows'
    BY <1>5 DEF WorkerKnows
<1>7. GameKnows'
    BY <1>1 DEF GameKnows
<1> QED
    BY <1>3, <1>4, <1>5, <1>6, <1>7

-----------------------------------------------------------------------------
(* GetPacket *)

\* While the game thread moves, a state without a clash has the worker outside
\* the compaction, or the game thread starts from idle.
LEMMA DequeIInv == IInv /\ ~Clash /\ Deque => IInv'
<1> SUFFICES ASSUME IInv, ~Clash, Deque PROVE IInv'
    OBVIOUS
<1> USE DEF IInv
<1>1. UNCHANGED <<packets, sent, received, buf, w_pos, r_pos, worker, consumed>>
    BY DEF Deque, stream, positions
<1>2. entries > 0 /\ entries' = entries - 1 /\ game' = [game EXCEPT !.at = "remain"]
    BY DEF Deque, GameAt
<1>3. TypeOK'
    BY <1>1, <1>2 DEF TypeOK
<1>4. Tiled'
    BY <1>1, TiledKept DEF stream
<1>5. (worker.at # "reset" => Window)' /\ (worker.at = "reset" => Moved)'
    BY <1>1 DEF Window, Moved
<1>6. WorkerKnows'
    BY <1>1 DEF WorkerKnows
<1>7. GameKnows'
    BY <1>2 DEF GameKnows, TypeOK
<1> QED
    BY <1>3, <1>4, <1>5, <1>6, <1>7

LEMMA RemainIInv == IInv /\ ~Clash /\ Remain => IInv'
<1> SUFFICES ASSUME IInv, ~Clash, Remain PROVE IInv'
    OBVIOUS
<1> USE DEF IInv
<1>1. UNCHANGED <<packets, sent, received, buf, w_pos, r_pos, worker, entries, consumed>>
    BY DEF Remain, stream, positions
<1>2. game.at = "remain" /\ worker.at # "reset" /\ Window
    BY DEF Remain, Clash
<1>3. \/ game' = [game EXCEPT !.at = "idle"]
      \/ /\ game' = [game EXCEPT !.at = "header", !.remain = w_pos - r_pos]
         /\ w_pos - r_pos >= PACKET_HEADER_LENGTH
    BY SizeAssumption DEF Remain, GameAt, TypeOK
<1>4. w_pos - r_pos \in 0 .. PACKET_DATA_BUFFER_SIZE
    BY <1>2, SizeAssumption DEF Window, TypeOK
<1>5. TypeOK'
    BY <1>1, <1>3, <1>4 DEF TypeOK
<1>6. Tiled'
    BY <1>1, TiledKept DEF stream
<1>7. Window' /\ worker'.at # "reset"
    BY <1>1, <1>2 DEF Window
<1>8. WorkerKnows'
    BY <1>1 DEF WorkerKnows
<1>9. GameKnows'
    <2>1. CASE game' = [game EXCEPT !.at = "idle"]
        BY <2>1 DEF GameKnows, TypeOK
    <2>2. CASE /\ game' = [game EXCEPT !.at = "header", !.remain = w_pos - r_pos]
               /\ w_pos - r_pos >= PACKET_HEADER_LENGTH
        <3>1. game'.at = "header" /\ game'.remain = w_pos - r_pos
            BY <2>2 DEF TypeOK
        <3>2. w_pos - r_pos = received - consumed /\ w_pos - r_pos \in Int
            BY <1>2, <1>4 DEF Window
        <3>3. PACKET_HEADER_LENGTH <= w_pos - r_pos /\ w_pos - r_pos <= received - consumed
            BY <2>2, <3>2, SizeAssumption
        <3> QED
            BY <1>1, <3>1, <3>3 DEF GameKnows
    <2> QED
        BY <1>3, <2>1, <2>2
<1> QED
    BY <1>5, <1>6, <1>7, <1>8, <1>9

\* A header is only ever read at the first byte of a packet.
LEMMA HeaderIInv == IInv /\ ~Clash /\ Header => IInv'
<1> SUFFICES ASSUME IInv, ~Clash, Header PROVE IInv'
    OBVIOUS
<1> USE DEF IInv
<1>1. UNCHANGED <<packets, sent, received, buf, w_pos, r_pos, worker, entries, consumed>>
    BY DEF Header, stream, positions
<1>2. game.at = "header" /\ worker.at # "reset" /\ Window /\ GameKnows
    BY DEF Header, Clash
<1>3. PICK p \in packets :
        /\ buf[r_pos] = p.at
        /\ \/ game' = [game EXCEPT !.at = "idle"]
           \/ /\ game' = [game EXCEPT !.at = "advance", !.packet = p, !.ptr = r_pos]
              /\ ~(p.len > game.remain)
    BY DEF Header, GameAt
<1>4. p \in PacketType /\ p.at \in Nat /\ p.len \in Nat
    BY LengthAssumption DEF TypeOK, PacketType
<1>5. buf[r_pos] = consumed
    <2>1. w_pos - r_pos >= 1
        BY <1>2, SizeAssumption DEF GameKnows, Window, TypeOK
    <2>2. buf[r_pos + 0] = consumed + 0
        BY <1>2, <2>1 DEF Window, TypeOK
    <2> QED
        BY <2>2 DEF TypeOK
<1>6. p.len <= game.remain => p.len <= received - consumed
    BY <1>2, <1>4 DEF GameKnows, TypeOK
<1>7. TypeOK'
    BY <1>1, <1>3, <1>4 DEF TypeOK
<1>8. Tiled'
    BY <1>1, TiledKept DEF stream
<1>9. Window' /\ worker'.at # "reset"
    BY <1>1, <1>2 DEF Window
<1>10. WorkerKnows'
    BY <1>1 DEF WorkerKnows
<1>11. GameKnows'
    <2>1. CASE game' = [game EXCEPT !.at = "idle"]
        BY <2>1 DEF GameKnows, TypeOK
    <2>2. CASE game' = [game EXCEPT !.at = "advance", !.packet = p, !.ptr = r_pos]
               /\ ~(p.len > game.remain)
        <3>1. p.len <= received - consumed
            BY <2>2, <1>4, <1>6 DEF TypeOK
        <3>2. game'.at = "advance" /\ game'.packet = p /\ game'.ptr = r_pos
            BY <2>2 DEF TypeOK
        <3> QED
            BY <1>1, <1>3, <1>5, <3>1, <3>2 DEF GameKnows
    <2> QED
        BY <1>3, <2>1, <2>2
<1> QED
    BY <1>7, <1>8, <1>9, <1>10, <1>11

LEMMA AdvanceIInv == IInv /\ ~Clash /\ Advance => IInv'
<1> SUFFICES ASSUME IInv, ~Clash, Advance PROVE IInv'
    OBVIOUS
<1> USE DEF IInv
<1> DEFINE p == game.packet
<1>1. UNCHANGED <<packets, sent, received, buf, w_pos, worker, entries>>
    BY DEF Advance, stream
<1>2. game.at = "advance" /\ worker.at # "reset" /\ Window /\ GameKnows
    BY DEF Advance, Clash
<1>3. /\ r_pos' = r_pos + p.len
      /\ consumed' = consumed + p.len
      /\ game' = [game EXCEPT !.at = "handle"]
    BY DEF Advance, GameAt
<1>4. /\ p \in packets
      /\ p.at = consumed
      /\ p.len \in Nat
      /\ p.len <= received - consumed
      /\ game.ptr = r_pos
    BY <1>2, LengthAssumption DEF GameKnows, TypeOK, PacketType
<1>5. w_pos - r_pos = received - consumed
    BY <1>2 DEF Window
<1>6. TypeOK'
    <2>1. consumed' \in 0 .. received
        BY <1>3, <1>4 DEF TypeOK
    <2>2. r_pos' \in 0 .. PACKET_DATA_BUFFER_SIZE
        BY <1>3, <1>4, <1>5, SizeAssumption DEF TypeOK
    <2>3. game' \in [at : {"idle", "remain", "header", "advance", "handle"},
                     remain : 0 .. PACKET_DATA_BUFFER_SIZE,
                     packet : PacketType \cup {NoPacket}, ptr : 0 .. PACKET_DATA_BUFFER_SIZE]
        BY <1>3 DEF TypeOK
    <2> QED
        BY <1>1, <2>1, <2>2, <2>3 DEF TypeOK
<1>7. Tiled'
    <2>1. Boundary(p.at + p.len)
        BY <1>4 DEF Tiled
    <2>2. Boundary(consumed)'
        BY <1>1, <1>3, <1>4, <2>1 DEF Boundary
    <2> QED
        BY <1>1, <2>2 DEF Tiled, Boundary
<1>8. Window'
    <2>1. w_pos - r_pos' = received - consumed'
        BY <1>3, <1>4, <1>5 DEF TypeOK
    <2>2. ASSUME NEW i \in 0 .. w_pos - r_pos' - 1
          PROVE  buf[r_pos' + i] = consumed' + i
        <3>1. p.len + i \in 0 .. w_pos - r_pos - 1
            BY <1>3, <1>4 DEF TypeOK
        <3>2. buf[r_pos + (p.len + i)] = consumed + (p.len + i)
            BY <1>2, <3>1 DEF Window
        <3> QED
            BY <1>3, <1>4, <3>2 DEF TypeOK
    <2> QED
        BY <1>1, <2>1, <2>2 DEF Window
<1>9. worker'.at # "reset"
    BY <1>1, <1>2
<1>10. WorkerKnows'
    <2>1. worker.at # "move"
        BY <1>2 DEF Clash
    <2> QED
        BY <1>1, <1>2, <2>1 DEF WorkerKnows
<1>11. GameKnows'
    <2>1. game'.at = "handle" /\ game'.packet = p /\ game'.ptr = r_pos
        BY <1>3, <1>4 DEF TypeOK
    <2>2. \A i \in 0 .. p.len - 1 : buf[r_pos + i] = p.at + i
        BY <1>2, <1>4, <1>5 DEF Window, TypeOK
    <2> QED
        BY <1>1, <1>3, <1>4, <2>1, <2>2 DEF GameKnows
<1> QED
    BY <1>6, <1>7, <1>8, <1>9, <1>10, <1>11

LEMMA HandlePacketIInv == IInv /\ ~Clash /\ HandlePacket => IInv'
<1> SUFFICES ASSUME IInv, ~Clash, HandlePacket PROVE IInv'
    OBVIOUS
<1> USE DEF IInv
<1>1. UNCHANGED <<packets, sent, received, buf, w_pos, r_pos, worker, entries, consumed>>
    BY DEF HandlePacket, stream, positions
<1>2. game.at = "handle" /\ game' = [game EXCEPT !.at = "idle"]
    BY DEF HandlePacket, GameAt
<1>3. TypeOK'
    BY <1>1, <1>2 DEF TypeOK
<1>4. Tiled'
    BY <1>1, TiledKept DEF stream
<1>5. worker.at # "reset" /\ Window
    BY <1>2 DEF Clash
<1>6. Window' /\ worker'.at # "reset"
    BY <1>1, <1>5 DEF Window
<1>7. WorkerKnows'
    BY <1>1 DEF WorkerKnows
<1>8. GameKnows'
    BY <1>2 DEF GameKnows, TypeOK
<1> QED
    BY <1>3, <1>4, <1>6, <1>7, <1>8

-----------------------------------------------------------------------------
LEMMA NextIInv == IInv /\ [Next]_vars => IInv'
<1> SUFFICES ASSUME IInv, [Next]_vars PROVE IInv'
    OBVIOUS
<1>1. CASE Next
    BY <1>1, SendPacketIInv, ReceiveIInv, CheckIInv, MoveIInv, ResetIInv, CopyIInv, CommitIInv,
       EnqueueIInv, DequeIInv, RemainIInv, HeaderIInv, AdvanceIInv, HandlePacketIInv
       DEF Next, Worker, Game
<1>2. CASE UNCHANGED vars
    BY <1>2 DEF vars, stream, positions, IInv, TypeOK, Tiled, Boundary, Clash, Window, Moved,
       WorkerKnows, GameKnows
<1> QED
    BY <1>1, <1>2

\* The bytes between r_pos and w_pos, and what each thread knows of them at each
\* statement of SetPacketData and GetPacket.
THEOREM BufferInvariance == Spec => []IInv
BY InitIInv, NextIInv, PTL DEF Spec

\* The fields of User and the threads' locals keep their types.
THEOREM BufferTypeCorrect == Spec => []TypeOK
<1>1. IInv => TypeOK
    BY DEF IInv
<1> QED
    BY <1>1, BufferInvariance, PTL

\* As long as no compaction meets GetPacket or a handler, the handlers get the
\* client's packets whole, unchanged and in order, without any lock.
THEOREM HandlersGetPackets == Spec => []PacketIntact
<1>1. IInv => PacketIntact
    BY DEF IInv, PacketIntact, GameKnows
<1> QED
    BY <1>1, BufferInvariance, PTL

\* Compaction and concurrent appends lose and reorder no byte.
THEOREM NothingLost == Spec => []UnreadInPlace
<1>1. IInv => UnreadInPlace
    BY DEF IInv, UnreadInPlace, Window
<1> QED
    BY <1>1, BufferInvariance, PTL

\* SetPacketData writes past the end only when the data could not fit.
THEOREM SpaceIsUsed == Spec => []OverrunOnlyWhenFull
<1>1. IInv => OverrunOnlyWhenFull
    BY SizeAssumption DEF IInv, OverrunOnlyWhenFull, Overrun, WorkerKnows, TypeOK, Clash
<1> QED
    BY <1>1, BufferInvariance, PTL

-----------------------------------------------------------------------------
(* The refinement *)

\* Packets sent one behind the other never overlap.
LEMMA NextApart == IInv /\ Apart /\ [Next]_vars => Apart'
<1> SUFFICES ASSUME IInv, Apart, [Next]_vars PROVE Apart'
    OBVIOUS
<1>1. CASE SendPacket
    <2>1. PICK n \in PacketLengths : packets' = packets \cup {[at |-> sent, len |-> n]}
        BY <1>1 DEF SendPacket
    <2>2. IsFiniteSet(packets')
        BY <2>1, FS_AddElement DEF Apart
    <2>3. \A p \in packets : p.at \in Nat /\ p.len \in Nat /\ p.len >= 1 /\ p.at + p.len <= sent
        BY PacketFacts DEF IInv, Tiled
    <2>4. \A p, q \in packets' : p.at < q.at => p.at + p.len <= q.at
        BY <2>1, <2>3 DEF Apart, IInv, TypeOK
    <2> QED
        BY <2>2, <2>4 DEF Apart
<1>2. CASE UNCHANGED packets
    BY <1>2 DEF Apart
<1> QED
    BY <1>1, <1>2 DEF Next, vars, stream, Worker, Game, Receive, Check, Move, Reset, Copy, Commit,
       Enqueue, Deque, Remain, Header, Advance, HandlePacket

\* The complete packets are finitely many, and none is complete before it is sent.
LEMMA UnreadFinite == Apart => IsFiniteSet(Unread) /\ Cardinality(Unread) \in Nat
<1> SUFFICES ASSUME Apart PROVE IsFiniteSet(Unread) /\ Cardinality(Unread) \in Nat
    OBVIOUS
<1>1. Unread \in SUBSET packets
    BY DEF Unread
<1>2. IsFiniteSet(Unread)
    BY <1>1, FS_Subset DEF Apart
<1> QED
    BY <1>2, FS_CardinalityType

\* A step of the client: what is sent is not there yet.
LEMMA SendPacketUnread ==
    ASSUME IInv, SendPacket
    PROVE  Unread' = Unread /\ Announced' = Announced
<1>1. PICK n \in PacketLengths : packets' = packets \cup {[at |-> sent, len |-> n]}
    BY DEF SendPacket
<1>2. n \in Nat /\ n >= 1
    BY LengthAssumption, SizeAssumption
<1>3. UNCHANGED <<received, worker, entries, game, consumed>>
    BY DEF SendPacket
<1>4. sent \in Nat /\ received \in Nat /\ received <= sent
    BY DEF IInv, TypeOK
<1>5. \A p : Claimed(p)' = Claimed(p)
    BY <1>3 DEF Claimed
<1>6. ~([at |-> sent, len |-> n].at + [at |-> sent, len |-> n].len <= received)
    BY <1>2, <1>4
<1>7. Unread' = Unread
    BY <1>1, <1>3, <1>5, <1>6 DEF Unread
<1> QED
    BY <1>3, <1>7 DEF Announced

\* The statements at which nothing is received, announced, followed or claimed.
LEMMA QuietUnread ==
    ASSUME IInv,
           \/ Receive \/ Check \/ Move \/ Reset \/ Copy \/ Enqueue \/ Deque \/ HandlePacket
           \/ UNCHANGED vars
    PROVE  Unread' = Unread /\ Announced' = Announced
<1>1. UNCHANGED <<packets, received, consumed>>
    BY DEF Receive, Check, Move, Reset, Copy, Enqueue, Deque, HandlePacket, vars, stream
<1>2. /\ (game'.at = "header" \/ game'.at = "advance" \/ game.at = "header" \/ game.at = "advance")
            => game' = game
    BY DEF Receive, Check, Move, Reset, Copy, Enqueue, Deque, HandlePacket, vars, GameAt, IInv, TypeOK
<1>3. \A p : Claimed(p)' = Claimed(p)
    BY <1>1, <1>2 DEF Claimed
<1>4. Unread' = Unread
    BY <1>1, <1>3 DEF Unread
<1>5. Announced' = Announced
    <2>1. entries \in Nat
        BY DEF IInv, TypeOK
    <2>2. CASE Enqueue
        BY <2>1, <2>2 DEF Enqueue, WorkerAt, Announced, IInv, TypeOK
    <2>3. CASE Deque
        BY <2>1, <2>3 DEF Deque, GameAt, Announced, IInv, TypeOK
    <2>4. CASE Receive \/ Check \/ Move \/ Reset \/ Copy \/ HandlePacket \/ UNCHANGED vars
        <3>1. entries' = entries
            BY <2>4 DEF Receive, Check, Move, Reset, Copy, HandlePacket, vars
        <3>2. worker'.at = "enqueue" <=> worker.at = "enqueue"
            <4>1. CASE Receive
                BY <4>1 DEF Receive
            <4>2. CASE Check \/ Move \/ Reset \/ Copy
                BY <4>2 DEF Check, Move, Reset, Copy, WorkerAt, IInv, TypeOK
            <4>3. CASE HandlePacket \/ UNCHANGED vars
                BY <4>3 DEF HandlePacket, vars
            <4> QED
                BY <2>4, <4>1, <4>2, <4>3
        <3>3. game'.at = "remain" <=> game.at = "remain"
            <4>1. CASE HandlePacket
                BY <4>1 DEF HandlePacket, GameAt, IInv, TypeOK
            <4>2. CASE ~HandlePacket
                BY <2>4, <4>2 DEF Receive, Check, Move, Reset, Copy, vars
            <4> QED
                BY <4>1, <4>2
        <3> QED
            BY <3>1, <3>2, <3>3 DEF Announced
    <2> QED
        BY <2>2, <2>3, <2>4
<1> QED
    BY <1>4, <1>5

\* Commit is the receive: the packets it completes are there, and an entry for them.
LEMMA CommitStores == IInv /\ Apart /\ Commit => Box!Store
<1> SUFFICES ASSUME IInv, Apart, Commit PROVE Box!Store
    OBVIOUS
<1>1. /\ worker.at = "commit" /\ worker'.at = "enqueue"
      /\ received' = received + worker.size
      /\ UNCHANGED <<packets, entries, game, consumed>>
    BY DEF Commit, WorkerAt, stream, IInv, TypeOK
<1>2. received \in Nat /\ worker.size \in Nat
    BY SizeAssumption DEF IInv, TypeOK
<1>3. \A p \in packets : p.at \in Nat /\ p.len \in Nat
    BY PacketFacts DEF IInv
<1>4. \A p : Claimed(p)' = Claimed(p)
    BY <1>1 DEF Claimed
<1>5. Unread \in SUBSET (Unread')
    BY <1>1, <1>2, <1>3, <1>4 DEF Unread
<1>6. Apart'
    BY <1>1 DEF Apart
<1>7. IsFiniteSet(Unread') /\ Cardinality(Unread') \in Nat
    <2>1. Unread' \in SUBSET packets
        BY <1>1 DEF Unread
    <2> QED
        BY <2>1, FS_Subset, FS_CardinalityType DEF Apart
<1>8. Cardinality(Unread) <= Cardinality(Unread')
    BY <1>5, <1>7, FS_Subset
<1>9. Announced' = Announced + 1
    BY <1>1 DEF Announced, IInv, TypeOK
<1> QED
    BY <1>7, <1>8, <1>9 DEF Box!Store

\* Remain is the moment an entry is followed: the bytes it saw are the ones the thread
\* decides by, whatever is appended before it looks at the header.
LEMMA RemainTakes == IInv /\ Apart /\ ~Clash /\ Remain => Box!Take
<1> SUFFICES ASSUME IInv, Apart, ~Clash, Remain PROVE Box!Take
    OBVIOUS
<1>1. UNCHANGED <<packets, received, worker, entries, consumed>> /\ game.at = "remain"
    BY DEF Remain, stream
<1>2. w_pos - r_pos = received - consumed
    BY <1>1 DEF IInv, Clash, Window
<1>3. /\ received \in Nat /\ consumed \in Nat /\ sent \in Nat
      /\ received <= sent /\ consumed <= received
    BY DEF IInv, TypeOK
<1>4. \A p \in packets : p.at \in Nat /\ p.len \in Nat /\ p.len >= PACKET_HEADER_LENGTH
    BY LengthAssumption DEF IInv, TypeOK, PacketType
<1>5. PACKET_HEADER_LENGTH \in Nat /\ PACKET_HEADER_LENGTH >= 1
    BY SizeAssumption
<1>6. \A p : ~Claimed(p)
    BY <1>1 DEF Claimed
<1>7. Announced \in Nat /\ Announced > 0 /\ Announced' = Announced - 1
    <2>1. entries \in Nat /\ game'.at # "remain"
        BY DEF IInv, TypeOK, Remain, GameAt
    <2> QED
        BY <1>1, <2>1 DEF Announced
<1>8. IsFiniteSet(Unread) /\ Cardinality(Unread) \in Nat
    BY UnreadFinite
<1>9. CASE w_pos - r_pos < PACKET_HEADER_LENGTH
    <2>1. \A p : ~Claimed(p)'
        BY <1>9 DEF Claimed, Remain, GameAt, IInv, TypeOK
    <2>2. \A p \in packets : ~(p.at >= consumed /\ p.at + p.len <= received)
        BY <1>2, <1>3, <1>4, <1>5, <1>9
    <2>3. Unread = {} /\ Unread' = {}
        BY <1>1, <2>2 DEF Unread
    <2> QED
        BY <1>7, <2>3, FS_EmptySet DEF Box!Take
<1>10. CASE w_pos - r_pos >= PACKET_HEADER_LENGTH
    <2>1. game'.at = "header" /\ game'.remain = received - consumed
        <3>1. ~(w_pos - r_pos < PACKET_HEADER_LENGTH)
            BY <1>2, <1>3, <1>5, <1>10
        <3>2. game' = [game EXCEPT !.at = "header", !.remain = w_pos - r_pos]
            BY <3>1 DEF Remain
        <3> QED
            BY <1>2, <3>2 DEF IInv, TypeOK
    <2>2. \A p : Claimed(p)' <=> p.at = consumed /\ p.len <= received - consumed
        BY <1>1, <2>1 DEF Claimed
    <2>3. PICK q \in packets : q.at = consumed
        BY <1>2, <1>3, <1>5, <1>10 DEF IInv, Tiled, Boundary
    <2>4. \A p \in packets : p.at = consumed => p = q
        BY <2>3 DEF IInv, Tiled
    <2>5. CASE q.len <= received - consumed
        <3>1. q \in Unread
            BY <1>3, <1>4, <1>6, <2>3, <2>5 DEF Unread
        <3>2. Unread' = Unread \ {q}
            BY <1>1, <1>6, <2>2, <2>3, <2>4, <2>5 DEF Unread
        <3>3. Cardinality(Unread) > 0
            BY <1>8, <3>1, FS_EmptySet
        <3>4. Cardinality(Unread') = Cardinality(Unread) - 1
            BY <1>8, <3>1, <3>2, FS_RemoveElement
        <3> QED
            BY <1>7, <3>3, <3>4 DEF Box!Take
    <2>6. CASE ~(q.len <= received - consumed)
        <3>1. \A p \in packets : p.at > consumed => q.at + q.len <= p.at
            BY <1>3, <1>4, <2>3 DEF Apart
        <3>2. \A p \in packets : ~(p.at >= consumed /\ p.at + p.len <= received)
            BY <1>3, <1>4, <2>3, <2>4, <2>6, <3>1
        <3>3. Unread = {} /\ Unread' = {}
            BY <1>1, <3>2 DEF Unread
        <3> QED
            BY <1>7, <3>3, FS_EmptySet DEF Box!Take
    <2> QED
        BY <2>5, <2>6
<1> QED
    BY <1>2, <1>3, <1>5, <1>9, <1>10

\* Header acts on what Remain saw.
LEMMA HeaderUnread ==
    ASSUME IInv, ~Clash, Header
    PROVE  Unread' = Unread /\ Announced' = Announced
<1>1. UNCHANGED <<packets, received, worker, entries, consumed>> /\ game.at = "header"
    BY DEF Header, stream
<1>2. w_pos - r_pos = received - consumed /\ buf[r_pos] = consumed
    <2>1. Window /\ GameKnows /\ PACKET_HEADER_LENGTH >= 1
        BY <1>1, SizeAssumption DEF IInv, Clash
    <2>2. 0 \in 0 .. w_pos - r_pos - 1 /\ r_pos \in Nat /\ consumed \in Nat
        BY <1>1, <2>1, SizeAssumption DEF GameKnows, Window, IInv, TypeOK
    <2>3. buf[r_pos + 0] = consumed + 0
        BY <2>1, <2>2 DEF Window
    <2> QED
        BY <2>1, <2>2, <2>3 DEF Window
<1>3. PICK q \in packets :
        /\ buf[r_pos] = q.at
        /\ IF q.len > game.remain
           THEN GameAt("idle")
           ELSE game' = [game EXCEPT !.at = "advance", !.packet = q, !.ptr = r_pos]
    BY DEF Header
<1>4. \A p \in packets : p.at = consumed => p = q
    BY <1>2, <1>3 DEF IInv, Tiled
<1>5. game.remain \in Int /\ q.len \in Int
    BY PacketFacts, SizeAssumption DEF IInv, TypeOK
<1>6. \A p \in packets : Claimed(p)' = Claimed(p)
    <2>1. CASE q.len > game.remain
        BY <1>1, <1>3, <1>4, <1>5, <2>1 DEF Claimed, GameAt, IInv, TypeOK
    <2>2. CASE ~(q.len > game.remain)
        <3>1. game'.at = "advance"
            BY <1>3, <2>2 DEF IInv, TypeOK
        <3>2. q.len <= game.remain
            BY <1>5, <2>2
        <3> QED
            BY <1>1, <1>4, <3>1, <3>2 DEF Claimed
    <2> QED
        BY <2>1, <2>2
<1>7. Unread' = Unread
    BY <1>1, <1>6 DEF Unread
<1>8. game'.at # "remain"
    BY <1>3 DEF GameAt, IInv, TypeOK
<1> QED
    BY <1>1, <1>7, <1>8 DEF Announced

\* Advance leaves behind the packet that was claimed and none else.
LEMMA AdvanceUnread ==
    ASSUME IInv, Apart, ~Clash, Advance
    PROVE  Unread' = Unread /\ Announced' = Announced
<1>1. /\ UNCHANGED <<packets, received, worker, entries>>
      /\ game.at = "advance" /\ game'.at = "handle"
      /\ consumed' = consumed + game.packet.len
    BY DEF Advance, GameAt, stream, IInv, TypeOK
<1>2. game.packet \in packets /\ game.packet.at = consumed
    BY <1>1 DEF IInv, GameKnows
<1>3. \A p \in packets : p.at \in Nat /\ p.len \in Nat /\ p.len >= 1
    BY PacketFacts DEF IInv
<1>4. \A p \in packets : Claimed(p) <=> p.at = consumed
    BY <1>1 DEF Claimed
<1>5. \A p : ~Claimed(p)'
    BY <1>1 DEF Claimed
<1>6. consumed \in Nat
    BY DEF IInv, TypeOK
<1>7. \A p \in packets : p.at >= consumed' <=> p.at >= consumed /\ p.at # consumed
    BY <1>1, <1>2, <1>3, <1>6 DEF Apart
<1>8. Unread' = Unread
    BY <1>1, <1>4, <1>5, <1>7 DEF Unread
<1> QED
    BY <1>1, <1>8 DEF Announced

\* The buffer with its two threads is an inbox to the game, for any sizes and packets: no
\* entry brings two packets, and none is used up while a packet is complete, although each
\* thread reads and writes the buffer without the other's knowledge.
THEOREM BufferIsInbox == Spec => RefinesInbox
<1>1. Init => Apart /\ Box!Init
    <2> SUFFICES ASSUME Init PROVE Apart /\ Box!Init
        OBVIOUS
    <2>1. packets = {} /\ Unread = {}
        BY DEF Init, Unread
    <2> QED
        BY <2>1, FS_EmptySet DEF Init, Apart, Announced, Box!Init
<1>2. IInv /\ Apart /\ [Next]_vars => [Box!Next]_<<Cardinality(Unread), Announced>>
    <2> SUFFICES ASSUME IInv, Apart, [Next]_vars
                 PROVE  Box!Next \/ (Unread' = Unread /\ Announced' = Announced)
        OBVIOUS
    <2> QED
        BY SendPacketUnread, QuietUnread, CommitStores, RemainTakes, HeaderUnread, AdvanceUnread
           DEF Next, Worker, Game, Box!Next
<1> QED
    BY <1>1, <1>2, NextApart, BufferInvariance, PTL DEF Spec, RefinesInbox, Box!Spec

=============================================================================
