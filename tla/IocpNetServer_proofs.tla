-------------------------- MODULE IocpNetServer_proofs --------------------------
(***************************************************************************)
(* The safety of the session core for any number of slots, workers,        *)
(* sockets and messages, provided closed I/O is handled within the wait    *)
(* (LagAssumption).  IInv is shown inductive, one lemma per thread.        *)
(***************************************************************************)
EXTENDS IocpNetServer, FiniteSetTheorems, SequenceTheorems, TLAPS

USE DEF vars, session, sendq, thread, accepter, game

-----------------------------------------------------------------------------
\* The first state satisfies the invariant.
LEMMA InitIInv == Init => IInv
<1> SUFFICES ASSUME Init PROVE IInv
  OBVIOUS
<1>1. Horizon \in Nat
  BY TimeAssumption DEF Horizon
<1>2. TypeOK
  <2>1. /\ is_connect_ \in [Slots -> BOOLEAN]
        /\ closed_ago \in [Slots -> 0 .. Horizon \cup {RESERVED}]
        /\ socket_ \in [Slots -> Sockets \cup {INVALID_SOCKET}]
        /\ bound \in [Slots -> BOOLEAN]
        /\ left_over \in [Slots -> Nat]
    BY <1>1 DEF Init
  <2>2. send_data_queue_ \in [Slots -> Seq(Buffers)]
    BY EmptySeq DEF Init
  <2>3. /\ pending \subseteq IoType
        /\ pc \in [Workers -> PcType]
        /\ io \in [Workers -> IoType \cup {None}]
        /\ \A w \in Workers : Busy(w) => io[w] \in IoType
    BY DEF Init, PcType, Busy
  <2>4. /\ cur_ago \in 0 .. MaxPass
        /\ to_visit \subseteq Slots
        /\ replies \subseteq Slots
        /\ target \in Slots \cup {None}
        /\ client_cnt_ \in 0 .. MaxCount
    BY TimeAssumption DEF Init
  <2>5. crashed \in BOOLEAN
    BY Zenon DEF Init
  <2>6. QED
    BY <2>1, <2>2, <2>3, <2>4, <2>5 DEF TypeOK
<1>3. Stamped /\ Associated
  BY DEF Init, Stamped, Associated
<1>4. LateIo /\ AcceptAlone
  BY DEF Init, LateIo, AcceptAlone, Accepting, Busy
<1>5. RecvAlone /\ SendAlone
  BY DEF Init, RecvAlone, SendAlone, Receiving
<1>6. NoLeftOver
  BY DEF Init, NoLeftOver
<1>7. QED
  BY <1>2, <1>3, <1>4, <1>5, <1>6 DEF IInv

-----------------------------------------------------------------------------
(* The workers *)

\* GetQueuedCompletionStatus moves an I/O from the port into a worker's hands.
LEMMA GetCompletionIInv ==
  ASSUME IInv, NEW w \in Workers, GetCompletion(w)
  PROVE  IInv'
<1> USE DEF IInv
<1>1. PICK o \in pending :
        /\ pc[w] = "gqcs"
        /\ pending' = pending \ {o}
        /\ io' = [io EXCEPT ![w] = o]
        /\ \/ pc' = [pc EXCEPT ![w] = o.op]
           \/ /\ o.op # "ACCEPT"
              /\ pc' = [pc EXCEPT ![w] = "CloseSocket"]
  BY DEF GetCompletion
<1>2. UNCHANGED <<session, sendq, accepter, game, client_cnt_, crashed>>
  BY DEF GetCompletion
<1>3. /\ o \in IoType
      /\ pc'[w] \in {"ACCEPT", "RECV", "SEND", "CloseSocket"}
      /\ pc'[w] # "CloseSocket" => pc'[w] = o.op
      /\ pc'[w] = "CloseSocket" => o.op # "ACCEPT"
      /\ io'[w] = o
      /\ \A v \in Workers \ {w} : pc'[v] = pc[v] /\ io'[v] = io[v]
  BY <1>1 DEF TypeOK, IoType
<1>4. TypeOK'
  BY <1>1, <1>2, <1>3 DEF TypeOK, PcType, Busy
<1>5. Stamped' /\ Associated'
  BY <1>2 DEF Stamped, Associated
<1>6. LateIo'
  BY <1>1, <1>2, <1>3 DEF LateIo, InTime, Busy
<1>7. AcceptAlone'
  <2>1. ASSUME NEW a \in pending', a.op = "ACCEPT"
        PROVE  /\ ~is_connect_'[a.slot]
               /\ closed_ago'[a.slot] = RESERVED
               /\ a.sock = socket_'[a.slot]
               /\ \A p \in pending' : p.slot = a.slot => p = a
               /\ \A v \in Workers : Busy(v)' => io'[v].slot # a.slot
    BY <1>1, <1>2, <1>3, <2>1 DEF AcceptAlone, Busy
  <2>2. ASSUME NEW u \in Workers, Accepting(u)'
        PROVE  /\ is_connect_'[io'[u].slot] <=> pc'[u] = "BindSocket"
               /\ ~bound'[io'[u].slot]
               /\ closed_ago'[io'[u].slot] = RESERVED
               /\ io'[u].sock = socket_'[io'[u].slot]
               /\ \A p \in pending' : p.slot # io'[u].slot
               /\ \A v \in Workers \ {u} : Busy(v)' => io'[v].slot # io'[u].slot
    <3>1. CASE u = w
      BY <1>1, <1>2, <1>3, <2>2, <3>1 DEF AcceptAlone, Accepting, Busy, TypeOK, Associated, IoType
    <3>2. CASE u # w
      BY <1>1, <1>2, <1>3, <2>2, <3>2 DEF AcceptAlone, Accepting, Busy
    <3>3. QED
      BY <3>1, <3>2
  <2>3. QED
    BY <2>1, <2>2 DEF AcceptAlone
<1>8. RecvAlone'
  BY <1>1, <1>3 DEF RecvAlone, Receiving
<1>9. SendAlone'
  BY <1>1, <1>2, <1>3 DEF SendAlone, IsFront
<1>10. NoLeftOver'
  BY <1>1, <1>2, <1>3 DEF NoLeftOver, Purged
<1>11. QED
  BY <1>4, <1>5, <1>6, <1>7, <1>8, <1>9, <1>10

\* Steps that only move one worker on, its I/O handled no further: the test of
\* IsConnected, ++client_cnt_ and OnReceive.
LEMMA MoveOnIInv ==
  ASSUME IInv, NEW w \in Workers, Busy(w),
         UNCHANGED <<session, sendq, pending>>,
         cur_ago' \in 0 .. MaxPass, to_visit' \subseteq Slots,
         replies' \subseteq Slots, target' \in Slots \cup {None},
         client_cnt_' \in 0 .. MaxCount, crashed' \in BOOLEAN,
         ~Accepting(w), pc[w] # "SEND",
         \/ pc' = [pc EXCEPT ![w] = "gqcs"] /\ io' = [io EXCEPT ![w] = None]
         \/ pc' = [pc EXCEPT ![w] = "Close"] /\ UNCHANGED io
         \/ pc[w] = "RECV" /\ pc' = [pc EXCEPT ![w] = "BindRecv"] /\ UNCHANGED io
  PROVE  IInv'
<1> USE DEF IInv
<1>1. /\ pc'[w] \in {"gqcs", "Close", "BindRecv"}
      /\ pc'[w] = "BindRecv" => pc[w] = "RECV"
      /\ pc'[w] # "gqcs" => io'[w] = io[w]
      /\ \A v \in Workers \ {w} : pc'[v] = pc[v] /\ io'[v] = io[v]
      /\ pc' \in [Workers -> PcType]
      /\ io' \in [Workers -> IoType \cup {None}]
  BY DEF TypeOK, PcType
<1>2. TypeOK'
  BY <1>1 DEF TypeOK, Busy
<1>3. Stamped' /\ Associated'
  BY DEF Stamped, Associated
<1>4. LateIo'
  BY <1>1 DEF LateIo, InTime, Busy
<1>5. AcceptAlone'
  BY <1>1 DEF AcceptAlone, Accepting, Busy
<1>6. RecvAlone'
  BY <1>1 DEF RecvAlone, Receiving
<1>7. SendAlone'
  BY <1>1 DEF SendAlone, IsFront
<1>8. NoLeftOver'
  BY <1>1 DEF NoLeftOver, Purged
<1>9. QED
  BY <1>2, <1>3, <1>4, <1>5, <1>6, <1>7, <1>8

\* ClientInfo::Close: whatever is outstanding for the slot is zero seconds late.
LEMMA DoCloseIInv ==
  ASSUME IInv, NEW w \in Workers, DoClose(w)
  PROVE  IInv'
<1> USE DEF IInv
<1> DEFINE s == io[w].slot
<1>1. /\ s \in Slots
      /\ \A k \in Sockets : k # INVALID_SOCKET
      /\ \A o \in pending : o \in IoType /\ o.sock \in Sockets /\ o.slot \in Slots
      /\ \A v \in Workers : Busy(v) => io[v].sock \in Sockets /\ io[v].slot \in Slots
      /\ RESERVED # 0
      /\ 0 \in 0 .. Horizon
      /\ 0 <= MaxLag
  BY NamesAssumption, TimeAssumption DEF DoClose, TypeOK, Busy, IoType, Horizon
<1>2. /\ pc'[w] = "gqcs"
      /\ \A v \in Workers \ {w} : pc'[v] = pc[v] /\ io'[v] = io[v]
      /\ pc' \in [Workers -> PcType]
      /\ io' \in [Workers -> IoType \cup {None}]
  BY DEF DoClose, Loop, TypeOK, PcType
<1>3. /\ is_connect_' = [is_connect_ EXCEPT ![s] = FALSE]
      /\ closed_ago' = [closed_ago EXCEPT ![s] = 0]
      /\ socket_' = [socket_ EXCEPT ![s] = INVALID_SOCKET]
      /\ bound' = [bound EXCEPT ![s] = FALSE]
      /\ UNCHANGED <<sendq, pending, accepter, game, client_cnt_, crashed>>
  BY DEF DoClose, Close
<1>4. \A o \in IoType :
        /\ o.slot = s => closed_ago'[o.slot] = 0 /\ socket_'[o.slot] = INVALID_SOCKET
        /\ o.slot # s => /\ closed_ago'[o.slot] = closed_ago[o.slot]
                         /\ socket_'[o.slot] = socket_[o.slot]
                         /\ is_connect_'[o.slot] = is_connect_[o.slot]
                         /\ bound'[o.slot] = bound[o.slot]
  BY <1>1, <1>3 DEF TypeOK, IoType
<1> HIDE DEF s
<1>5. TypeOK'
  BY <1>1, <1>2, <1>3 DEF TypeOK, Busy
<1>6. Stamped' /\ Associated'
  BY <1>1, <1>3 DEF Stamped, Associated, TypeOK
<1>7. LateIo'
  <2>1. ASSUME NEW o \in IoType, InTime(o)
        PROVE  InTime(o)'
    <3>1. CASE o.slot = s
      <4>1. closed_ago'[o.slot] = 0
        BY <1>4, <3>1
      <4>2. closed_ago'[o.slot] # RESERVED /\ closed_ago'[o.slot] <= MaxLag
        BY <1>1, <4>1
      <4>3. QED
        BY <4>2 DEF InTime
    <3>2. CASE o.slot # s
      BY <1>4, <2>1, <3>2 DEF InTime
    <3>3. QED
      BY <3>1, <3>2
  <2>2. /\ \A o \in pending : o \in IoType
        /\ \A v \in Workers : Busy(v) => io[v] \in IoType
        /\ \A v \in Workers : Busy(v)' => Busy(v) /\ io'[v] = io[v]
    BY <1>2 DEF TypeOK, Busy
  <2>3. QED
    BY <1>3, <2>1, <2>2 DEF LateIo, InTime
<1>8. AcceptAlone'
  <2>1. /\ pc[w] = "Close" /\ Busy(w) /\ ~Accepting(w)
        /\ io[w].slot = s
    BY DEF DoClose, Busy, Accepting, s
  <2>2. \A o \in pending : o.op = "ACCEPT" => o.slot # s
    BY <2>1 DEF AcceptAlone
  <2>3. \A v \in Workers : Accepting(v) => io[v].slot # s
    BY <2>1 DEF AcceptAlone
  <2>4. \A v \in Workers : Accepting(v)' => v # w /\ Accepting(v)
    BY <1>2 DEF Accepting
  <2>5. \A v \in Workers : Accepting(v) => io[v] \in IoType
    BY DEF Accepting, TypeOK, Busy
  <2>6. QED
    BY <1>1, <1>2, <1>3, <1>4, <2>2, <2>3, <2>4, <2>5 DEF AcceptAlone, Busy
<1>9. RecvAlone'
  BY <1>2, <1>3 DEF RecvAlone, Receiving
<1>10. SendAlone'
  BY <1>2, <1>3 DEF SendAlone, IsFront
<1>11. NoLeftOver'
  <2>1. ASSUME NEW o \in IoType, Purged(o)
        PROVE  Purged(o)'
    <3>1. o.sock \in Sockets
      BY DEF IoType
    <3>2. QED
      BY <1>1, <1>3, <1>4, <2>1, <3>1 DEF Purged
  <2>2. /\ \A o \in pending : o \in IoType
        /\ \A v \in Workers : pc[v] = "SEND" => io[v] \in IoType
        /\ \A v \in Workers : pc'[v] = "SEND" => pc[v] = "SEND" /\ io'[v] = io[v]
    BY <1>2 DEF TypeOK, Busy
  <2>3. QED
    BY <1>3, <2>1, <2>2 DEF NoLeftOver, Purged
<1>12. QED
  BY <1>5, <1>6, <1>7, <1>8, <1>9, <1>10, <1>11

\* AcceptCompletion's is_connect_ = 1: the slot has nothing else outstanding.
LEMMA SetConnectedIInv ==
  ASSUME IInv, NEW w \in Workers, SetConnected(w)
  PROVE  IInv'
<1> USE DEF IInv
<1> DEFINE s == io[w].slot
<1>1. /\ s \in Slots /\ io[w] \in IoType /\ io[w].sock # INVALID_SOCKET
      /\ Accepting(w) /\ Busy(w) /\ pc[w] = "ACCEPT"
  BY NamesAssumption DEF SetConnected, Accepting, TypeOK, Busy, IoType
<1>2. /\ pc'[w] = "BindSocket"
      /\ \A v \in Workers \ {w} : pc'[v] = pc[v]
      /\ pc' \in [Workers -> PcType]
      /\ is_connect_' = [is_connect_ EXCEPT ![s] = TRUE]
      /\ UNCHANGED <<io, closed_ago, socket_, bound, sendq, pending, accepter, game, client_cnt_, crashed>>
  BY DEF SetConnected, Goto, TypeOK, PcType
<1>3. /\ is_connect_'[s]
      /\ \A r \in Slots \ {s} : is_connect_'[r] = is_connect_[r]
      /\ is_connect_' \in [Slots -> BOOLEAN]
  BY <1>1, <1>2 DEF TypeOK
<1>4. /\ closed_ago[s] = RESERVED /\ io[w].sock = socket_[s]
      /\ \A p \in pending : p.slot # s
      /\ \A v \in Workers \ {w} : Busy(v) => io[v].slot # s
  BY <1>1 DEF AcceptAlone
<1> HIDE DEF s
<1>5. TypeOK'
  BY <1>1, <1>2, <1>3 DEF TypeOK, Busy
<1>6. Stamped' /\ Associated'
  BY <1>1, <1>2, <1>3, <1>4 DEF Stamped, Associated
<1>7. LateIo'
  BY <1>1, <1>2 DEF LateIo, InTime, Busy
<1>8. AcceptAlone'
  <2>1. ASSUME NEW a \in pending', a.op = "ACCEPT"
        PROVE  /\ ~is_connect_'[a.slot]
               /\ closed_ago'[a.slot] = RESERVED
               /\ a.sock = socket_'[a.slot]
               /\ \A p \in pending' : p.slot = a.slot => p = a
               /\ \A v \in Workers : Busy(v)' => io'[v].slot # a.slot
    <3>1. a \in pending /\ a.slot # s /\ a.slot \in Slots
      BY <1>2, <1>4 DEF TypeOK, IoType
    <3>2. \A v \in Workers : Busy(v)' => Busy(v)
      BY <1>1, <1>2 DEF Busy
    <3>3. QED
      BY <1>2, <1>3, <2>1, <3>1, <3>2 DEF AcceptAlone
  <2>2. ASSUME NEW u \in Workers, Accepting(u)'
        PROVE  /\ is_connect_'[io'[u].slot] <=> pc'[u] = "BindSocket"
               /\ ~bound'[io'[u].slot]
               /\ closed_ago'[io'[u].slot] = RESERVED
               /\ io'[u].sock = socket_'[io'[u].slot]
               /\ \A p \in pending' : p.slot # io'[u].slot
               /\ \A v \in Workers \ {u} : Busy(v)' => io'[v].slot # io'[u].slot
    <3>1. Accepting(u) /\ Busy(u) /\ \A v \in Workers : Busy(v)' => Busy(v)
      BY <1>1, <1>2, <2>2 DEF Accepting, Busy
    <3>2. CASE u = w
      BY <1>1, <1>2, <1>3, <1>4, <3>1, <3>2 DEF AcceptAlone, s
    <3>3. CASE u # w
      <4>1. io[u].slot \in Slots \ {s}
        BY <1>4, <3>1, <3>3 DEF TypeOK, IoType, Busy
      <4>2. is_connect_'[io'[u].slot] <=> pc'[u] = "BindSocket"
        BY <1>2, <1>3, <3>1, <3>3, <4>1 DEF AcceptAlone
      <4>3. QED
        BY <1>2, <3>1, <4>2 DEF AcceptAlone
    <3>4. QED
      BY <3>2, <3>3
  <2>3. QED
    BY <2>1, <2>2 DEF AcceptAlone
<1>9. RecvAlone'
  BY <1>2 DEF RecvAlone, Receiving
<1>10. SendAlone'
  BY <1>2 DEF SendAlone, IsFront
<1>11. NoLeftOver'
  BY <1>2 DEF NoLeftOver, Purged
<1>12. QED
  BY <1>5, <1>6, <1>7, <1>8, <1>9, <1>10, <1>11

\* SetIocpBindSocket: nothing else of the slot is outstanding yet.
LEMMA BindSocketIInv ==
  ASSUME IInv, NEW w \in Workers, BindSocket(w)
  PROVE  IInv'
<1> USE DEF IInv
<1> DEFINE s == io[w].slot
<1>1. /\ s \in Slots /\ io[w] \in IoType
      /\ Accepting(w) /\ Busy(w) /\ pc[w] = "BindSocket"
  BY DEF BindSocket, Accepting, TypeOK, Busy, IoType
<1>2. /\ is_connect_[s] /\ closed_ago[s] = RESERVED /\ io[w].sock = socket_[s]
      /\ \A p \in pending : p.slot # s
      /\ \A v \in Workers \ {w} : Busy(v) => io[v].slot # s
  BY <1>1 DEF AcceptAlone
<1>3. PICK ok \in BOOLEAN : bound' = [bound EXCEPT ![s] = ok]
  BY DEF BindSocket
<1>4. /\ pc' = [pc EXCEPT ![w] = "FirstRecv"]
      /\ UNCHANGED <<io, is_connect_, closed_ago, socket_, sendq, pending, accepter, game, client_cnt_, crashed>>
  BY DEF BindSocket, Goto
<1>5. /\ pc'[w] = "FirstRecv"
      /\ \A v \in Workers \ {w} : pc'[v] = pc[v]
      /\ pc' \in [Workers -> PcType]
      /\ bound' \in [Slots -> BOOLEAN]
      /\ \A t \in Slots \ {s} : bound'[t] = bound[t]
  BY <1>3, <1>4 DEF TypeOK, PcType
<1>6. \A v \in Workers : Busy(v)' => Busy(v)
  BY <1>1, <1>5 DEF Busy
<1> HIDE DEF s
<1>7. TypeOK'
  BY <1>4, <1>5, <1>6 DEF TypeOK
<1>8. Stamped' /\ Associated'
  BY <1>2, <1>4, <1>5 DEF Stamped, Associated
<1>9. LateIo'
  BY <1>4, <1>6 DEF LateIo, InTime
<1>10. AcceptAlone'
  <2>1. ASSUME NEW a \in pending', a.op = "ACCEPT"
        PROVE  /\ ~is_connect_'[a.slot]
               /\ closed_ago'[a.slot] = RESERVED
               /\ a.sock = socket_'[a.slot]
               /\ \A p \in pending' : p.slot = a.slot => p = a
               /\ \A v \in Workers : Busy(v)' => io'[v].slot # a.slot
    BY <1>4, <1>6, <2>1 DEF AcceptAlone
  <2>2. ASSUME NEW u \in Workers, Accepting(u)'
        PROVE  /\ is_connect_'[io'[u].slot] <=> pc'[u] = "BindSocket"
               /\ ~bound'[io'[u].slot]
               /\ closed_ago'[io'[u].slot] = RESERVED
               /\ io'[u].sock = socket_'[io'[u].slot]
               /\ \A p \in pending' : p.slot # io'[u].slot
               /\ \A v \in Workers \ {u} : Busy(v)' => io'[v].slot # io'[u].slot
    <3>1. u # w /\ Accepting(u) /\ pc'[u] = pc[u] /\ Busy(u)
      BY <1>5, <2>2 DEF Accepting, Busy
    <3>2. io[u].slot \in Slots \ {s}
      BY <1>2, <3>1 DEF TypeOK, IoType, Busy
    <3>3. QED
      BY <1>4, <1>5, <1>6, <3>1, <3>2 DEF AcceptAlone
  <2>3. QED
    BY <2>1, <2>2 DEF AcceptAlone
<1>11. RecvAlone'
  <2>1. \A v \in Workers : Receiving(v)' => v = w \/ (Receiving(v) /\ Busy(v))
    BY <1>5 DEF Receiving, Busy
  <2>2. io'[w].slot = s
    BY <1>4 DEF s
  <2>3. QED
    BY <1>2, <1>4, <1>5, <2>1, <2>2 DEF RecvAlone
<1>12. SendAlone' /\ NoLeftOver'
  <2>1. \A v \in Workers : pc'[v] = "SEND" => pc[v] = "SEND"
    BY <1>5
  <2>2. SendAlone'
    BY <1>4, <2>1 DEF SendAlone, IsFront
  <2>3. NoLeftOver'
    BY <1>4, <2>1 DEF NoLeftOver, Purged
  <2>4. QED
    BY <2>2, <2>3
<1>13. QED
  BY <1>7, <1>8, <1>9, <1>10, <1>11, <1>12

\* What an I/O posted on an associated socket finds: a connected slot, no
\* AcceptEx, and nothing outstanding of an earlier socket.
LEMMA PostedIo ==
  ASSUME IInv, NEW s \in Slots, bound[s]
  PROVE  /\ socket_[s] \in Sockets /\ socket_[s] # INVALID_SOCKET
         /\ closed_ago[s] = RESERVED
         /\ \A o \in pending : o.slot = s => o.op # "ACCEPT" /\ o.sock = socket_[s]
         /\ \A v \in Workers : Busy(v) /\ io[v].slot = s =>
                 ~Accepting(v) /\ io[v].sock = socket_[s]
<1> USE DEF IInv
<1>1. is_connect_[s] /\ closed_ago[s] = RESERVED /\ socket_[s] # INVALID_SOCKET
  BY DEF Associated
<1>2. socket_[s] \in Sockets
  BY <1>1 DEF TypeOK
<1>3. \A o \in pending : o.slot = s => o.op # "ACCEPT" /\ o.sock = socket_[s]
  BY <1>1 DEF AcceptAlone, LateIo, InTime
<1>4. \A v \in Workers : Busy(v) /\ io[v].slot = s =>
                 ~Accepting(v) /\ io[v].sock = socket_[s]
  BY <1>1 DEF AcceptAlone, LateIo, InTime
<1>5. QED
  BY <1>1, <1>2, <1>3, <1>4

\* A WSARecv, the session's first or the next, posted by the one worker that may.
LEMMA BindRecvIInv ==
  ASSUME IInv, NEW w \in Workers, BindRecv(w) \/ FirstRecv(w)
  PROVE  IInv'
<1> USE DEF IInv
<1> DEFINE s == io[w].slot
           r == Recv(s, socket_[s])
<1>1. s \in Slots /\ Receiving(w) /\ Busy(w) /\ ~Accepting(w)
  BY DEF BindRecv, FirstRecv, Accepting, Receiving, TypeOK, Busy, IoType
<1>2. /\ pc'[w] = "gqcs" \/ (pc'[w] \in {"OnConnect", "CloseSocket"} /\ io'[w] = io[w])
      /\ \A v \in Workers \ {w} : pc'[v] = pc[v] /\ io'[v] = io[v]
      /\ pc' \in [Workers -> PcType]
      /\ io' \in [Workers -> IoType \cup {None}]
      /\ UNCHANGED <<session, sendq, accepter, game, client_cnt_, crashed>>
  BY DEF BindRecv, FirstRecv, Loop, Goto, TypeOK, PcType
<1>3. /\ \A v \in Workers : Busy(v)' => Busy(v) /\ io'[v] = io[v]
      /\ \A v \in Workers : Accepting(v)' => v # w /\ Accepting(v) /\ pc'[v] = pc[v]
      /\ \A v \in Workers : Receiving(v)' => v # w /\ Receiving(v) /\ Busy(v)'
      /\ \A v \in Workers : pc'[v] = "SEND" => v # w /\ pc[v] = "SEND" /\ Busy(v)'
  BY <1>1, <1>2 DEF Busy, Accepting, Receiving
<1>4. r.op = "RECV" /\ r.slot = s /\ r.sock = socket_[s]
  BY DEF Recv
<1>5. CASE pending' = pending
  <2>1. TypeOK'
    BY <1>2, <1>3, <1>5 DEF TypeOK
  <2>2. Stamped' /\ Associated' /\ LateIo'
    BY <1>2, <1>3, <1>5 DEF Stamped, Associated, LateIo, InTime
  <2>3. AcceptAlone'
    BY <1>2, <1>3, <1>5 DEF AcceptAlone, Accepting, Busy
  <2>4. RecvAlone' /\ SendAlone'
    BY <1>2, <1>3, <1>5 DEF RecvAlone, Receiving, SendAlone, IsFront, Busy
  <2>5. NoLeftOver'
    BY <1>2, <1>5 DEF NoLeftOver, Purged
  <2>6. QED
    BY <2>1, <2>2, <2>3, <2>4, <2>5
<1>6. CASE bound[s] /\ pending' = pending \cup {r}
  <2>1. /\ socket_[s] \in Sockets /\ socket_[s] # INVALID_SOCKET
        /\ closed_ago[s] = RESERVED
        /\ \A o \in pending : o.slot = s => o.op # "ACCEPT" /\ o.sock = socket_[s]
        /\ \A v \in Workers : Busy(v) /\ io[v].slot = s =>
                 ~Accepting(v) /\ io[v].sock = socket_[s]
    BY <1>1, <1>6, PostedIo
  <2>2. r \in IoType
    BY <1>1, <2>1 DEF Recv, IoType
  <2>3. \A o \in pending : o.op = "RECV" => o.slot # s
    BY <1>1 DEF RecvAlone
  <2>4. \A v \in Workers \ {w} : Receiving(v) => io[v].slot # s
    BY <1>1 DEF RecvAlone
  <2> HIDE DEF s, r
  <2>5. TypeOK'
    BY <1>2, <1>3, <1>6, <2>2 DEF TypeOK
  <2>6. Stamped' /\ Associated' /\ LateIo'
    BY <1>2, <1>3, <1>4, <1>6 DEF Stamped, Associated, LateIo, InTime
  <2>7. AcceptAlone'
    <3>1. ASSUME NEW a \in pending', a.op = "ACCEPT"
          PROVE  /\ ~is_connect_'[a.slot]
                 /\ closed_ago'[a.slot] = RESERVED
                 /\ a.sock = socket_'[a.slot]
                 /\ \A p \in pending' : p.slot = a.slot => p = a
                 /\ \A v \in Workers : Busy(v)' => io'[v].slot # a.slot
      <4>1. a \in pending /\ a.slot # s
        BY <1>4, <1>6, <2>1, <3>1
      <4>2. QED
        BY <1>2, <1>3, <1>4, <1>6, <3>1, <4>1 DEF AcceptAlone
    <3>2. ASSUME NEW u \in Workers, Accepting(u)'
          PROVE  /\ is_connect_'[io'[u].slot] <=> pc'[u] = "BindSocket"
                 /\ ~bound'[io'[u].slot]
                 /\ closed_ago'[io'[u].slot] = RESERVED
                 /\ io'[u].sock = socket_'[io'[u].slot]
                 /\ \A p \in pending' : p.slot # io'[u].slot
                 /\ \A v \in Workers \ {u} : Busy(v)' => io'[v].slot # io'[u].slot
      <4>1. Busy(u) /\ Accepting(u) /\ u # w /\ pc'[u] = pc[u] /\ io'[u] = io[u]
        BY <1>3, <3>2 DEF Accepting, Busy
      <4>2. io[u].slot # s
        BY <2>1, <4>1
      <4>3. QED
        BY <1>2, <1>3, <1>4, <1>6, <4>1, <4>2 DEF AcceptAlone
    <3>3. QED
      BY <3>1, <3>2 DEF AcceptAlone
  <2>8. RecvAlone'
    BY <1>2, <1>3, <1>4, <1>6, <2>3, <2>4 DEF RecvAlone, Receiving, Busy
  <2>9. SendAlone'
    BY <1>2, <1>4, <1>6 DEF SendAlone, IsFront
  <2>10. NoLeftOver'
    BY <1>2, <1>4, <1>6 DEF NoLeftOver, Purged
  <2>11. QED
    BY <2>5, <2>6, <2>7, <2>8, <2>9, <2>10
<1>7. pending' = pending \/ (bound[s] /\ pending' = pending \cup {r})
  BY DEF BindRecv, FirstRecv, Post
<1>8. QED
  BY <1>5, <1>6, <1>7

\* ReadyAccept: whatever the slot's last socket owed is settled, so nothing is
\* outstanding for the slot but the new AcceptEx.
LEMMA ReadyAcceptIInv ==
  ASSUME IInv, NEW s \in Slots, MayOffer(s), ReadyAccept(s),
         UNCHANGED <<thread, cur_ago, game, client_cnt_, crashed>>,
         to_visit' \subseteq Slots
  PROVE  IInv'
<1> USE DEF IInv
<1>1. /\ ~is_connect_[s] /\ closed_ago[s] # RESERVED /\ socket_[s] = INVALID_SOCKET
      /\ ~bound[s]
  BY DEF MayOffer, Stamped, Associated
<1>2. closed_ago[s] > MaxLag
  <2>1. closed_ago[s] \in Nat /\ cur_ago \in Nat
    BY <1>1, TimeAssumption DEF TypeOK, Horizon
  <2>2. QED
    BY <2>1, TimeAssumption, LagAssumption DEF MayOffer
<1>3. /\ \A o \in pending : o.slot # s
      /\ \A v \in Workers : Busy(v) => io[v].slot # s
  <2>1. \A o \in IoType : o.slot = s /\ InTime(o) => FALSE
    <3>1. \A o \in IoType : o.sock # INVALID_SOCKET
      BY NamesAssumption DEF IoType
    <3>2. ~(closed_ago[s] <= MaxLag)
      BY <1>1, <1>2, TimeAssumption DEF TypeOK, Horizon
    <3>3. QED
      BY <1>1, <3>1, <3>2 DEF InTime
  <2>2. QED
    BY <2>1 DEF LateIo, TypeOK
<1>4. /\ closed_ago' = [closed_ago EXCEPT ![s] = RESERVED]
      /\ UNCHANGED <<is_connect_, bound, send_data_queue_>>
  BY DEF ReadyAccept
<1>5. /\ closed_ago' \in [Slots -> 0 .. Horizon \cup {RESERVED}]
      /\ closed_ago'[s] = RESERVED
      /\ \A r \in Slots \ {s} : closed_ago'[r] = closed_ago[r]
  BY <1>4 DEF TypeOK
<1>6. /\ \A o \in pending : o \in IoType /\ o.slot \in Slots \ {s}
      /\ \A v \in Workers : Busy(v) => io[v] \in IoType /\ io[v].slot \in Slots \ {s}
  BY <1>3 DEF TypeOK, IoType
<1>7. CASE UNCHANGED <<socket_, pending, left_over>>
  <2>1. TypeOK'
    BY <1>4, <1>5, <1>7 DEF TypeOK, Busy
  <2>2. Stamped' /\ Associated'
    BY <1>4, <1>5, <1>7 DEF Stamped, Associated
  <2>3. LateIo'
    BY <1>5, <1>6, <1>7 DEF LateIo, InTime, Busy
  <2>4. AcceptAlone'
    BY <1>4, <1>5, <1>6, <1>7 DEF AcceptAlone, Accepting, Busy
  <2>5. RecvAlone' /\ SendAlone' /\ NoLeftOver'
    BY <1>4, <1>7 DEF RecvAlone, Receiving, SendAlone, IsFront, NoLeftOver, Purged
  <2>6. QED
    BY <2>1, <2>2, <2>3, <2>4, <2>5
<1>8. CASE ~UNCHANGED <<socket_, pending, left_over>>
  <2>1. PICK k \in FreshSockets :
          /\ socket_' = [socket_ EXCEPT ![s] = k]
          /\ left_over' = [left_over EXCEPT ![s] = Len(send_data_queue_[s])]
          /\ pending' = pending \cup {Accept(s, k)} \/ pending' = pending
    BY <1>8 DEF ReadyAccept
  <2>2. /\ k \in Sockets /\ k # INVALID_SOCKET
        /\ Accept(s, k) \in IoType
        /\ Accept(s, k).op = "ACCEPT" /\ Accept(s, k).slot = s /\ Accept(s, k).sock = k
    BY NamesAssumption DEF FreshSockets, Accept, IoType
  <2>3. /\ socket_' \in [Slots -> Sockets \cup {INVALID_SOCKET}]
        /\ socket_'[s] = k
        /\ \A r \in Slots \ {s} : socket_'[r] = socket_[r]
        /\ Len(send_data_queue_[s]) \in Nat
        /\ left_over' \in [Slots -> Nat]
        /\ left_over'[s] = Len(send_data_queue_[s])
        /\ \A r \in Slots \ {s} : left_over'[r] = left_over[r]
    BY <2>1, <2>2 DEF TypeOK
  <2>4. \A o \in pending' : o \in pending \/ o = Accept(s, k)
    BY <2>1
  <2>5. TypeOK'
    BY <1>4, <1>5, <2>2, <2>3, <2>4 DEF TypeOK, Busy
  <2>6. Stamped' /\ Associated'
    BY <1>1, <1>4, <1>5, <2>3 DEF Stamped, Associated
  <2>7. LateIo'
    BY <1>5, <1>6, <2>2, <2>3, <2>4 DEF LateIo, InTime, Busy
  <2>8. AcceptAlone'
    BY <1>1, <1>4, <1>5, <1>6, <2>2, <2>3, <2>4 DEF AcceptAlone, Accepting, Busy
  <2>9. RecvAlone'
    BY <2>2, <2>4 DEF RecvAlone, Receiving
  <2>10. SendAlone'
    BY <1>4, <2>2, <2>4 DEF SendAlone, IsFront
  <2>11. NoLeftOver'
    <3>1. \A r \in Slots : left_over'[r] <= Len(send_data_queue_'[r])
      BY <1>4, <2>3 DEF NoLeftOver
    <3>2. \A v \in Workers : pc[v] = "SEND" => Busy(v)
      BY DEF Busy
    <3>3. QED
      BY <1>6, <2>2, <2>3, <2>4, <3>1, <3>2 DEF NoLeftOver, Purged
  <2>12. QED
    BY <2>5, <2>6, <2>7, <2>8, <2>9, <2>10, <2>11
<1>9. QED
  BY <1>7, <1>8

\* A message pushed on a slot's queue is sent at once only if the queue was
\* empty, and then no WSASend of the slot was in flight.
LEMMA SendMsgIInv ==
  ASSUME IInv, NEW s \in Slots, SendMsg(s),
         UNCHANGED <<session, left_over, thread, accepter, client_cnt_, crashed>>,
         replies' \subseteq Slots, target' \in Slots \cup {None}
  PROVE  IInv'
<1> USE DEF IInv
<1>1. PICK b \in Buffers :
        /\ send_data_queue_' = [send_data_queue_ EXCEPT ![s] = Append(send_data_queue_[s], b)]
        /\ IF Len(Append(send_data_queue_[s], b)) = 1
           THEN SendIO(s, Append(send_data_queue_[s], b), pending) ELSE UNCHANGED pending
  BY DEF SendMsg, FreshBuffers
<1> DEFINE old == send_data_queue_[s]
           q == Append(old, b)
           m == Send(s, socket_[s], Head(q))
<1>2. /\ old \in Seq(Buffers) /\ q \in Seq(Buffers)
      /\ q # <<>> /\ Len(q) = Len(old) + 1 /\ Len(old) \in Nat
      /\ old # <<>> => Head(q) = Head(old)
      /\ Len(q) = 1 => old = <<>>
      /\ Head(q) \in Buffers
  <2>1. old \in Seq(Buffers)
    BY DEF TypeOK
  <2>2. /\ q \in Seq(Buffers) /\ q # <<>> /\ Len(q) = Len(old) + 1 /\ Len(old) \in Nat
    BY <2>1, AppendProperties, LenProperties
  <2>3. old # <<>> => Head(q) = Head(old)
    BY <2>1, HeadTailAppend
  <2>4. Len(q) = 1 => old = <<>>
    BY <2>1, <2>2, EmptySeq
  <2>5. Head(q) \in Buffers
    BY <2>2, HeadTailProperties
  <2>6. QED
    BY <2>1, <2>2, <2>3, <2>4, <2>5
<1>3. /\ send_data_queue_' \in [Slots -> Seq(Buffers)]
      /\ send_data_queue_'[s] = q
      /\ \A r \in Slots \ {s} : send_data_queue_'[r] = send_data_queue_[r]
  BY <1>1, <1>2 DEF TypeOK
<1>4. m.op = "SEND" /\ m.slot = s /\ m.sock = socket_[s] /\ m.buf = Head(q)
  BY DEF Send
<1>5. \/ pending' = pending
      \/ old = <<>> /\ bound[s] /\ pending' = pending \cup {m}
  BY <1>1, <1>2 DEF SendIO, Post
<1>6. /\ Stamped' /\ Associated'
      /\ \A r \in Slots : left_over'[r] <= Len(send_data_queue_'[r])
  <2>1. left_over[s] \in Nat /\ left_over[s] <= Len(old)
    BY DEF NoLeftOver, TypeOK
  <2>2. left_over'[s] <= Len(q)
    BY <1>2, <2>1
  <2>3. \A r \in Slots : left_over'[r] <= Len(send_data_queue_'[r])
    BY <1>3, <2>2 DEF NoLeftOver
  <2>4. QED
    BY <2>3 DEF Stamped, Associated
<1>7. \A o \in IoType : IsFront(o) =>
         /\ send_data_queue_'[o.slot] # <<>>
         /\ o.buf = Head(send_data_queue_'[o.slot])
  <2>1. \A o \in IoType : o.slot \in Slots
    BY DEF IoType
  <2>2. QED
    BY <1>2, <1>3, <2>1 DEF IsFront
<1>8. /\ \A o \in pending : o \in IoType
      /\ \A v \in Workers : Busy(v) => io[v] \in IoType
      /\ \A v \in Workers : pc[v] = "SEND" => Busy(v)
  BY DEF TypeOK, Busy
<1> HIDE DEF old, q, m
<1>9. CASE pending' = pending
  <2>1. TypeOK'
    BY <1>3, <1>9 DEF TypeOK, Busy
  <2>2. LateIo' /\ AcceptAlone'
    BY <1>9 DEF LateIo, InTime, AcceptAlone, Accepting, Busy
  <2>3. RecvAlone'
    BY <1>9 DEF RecvAlone, Receiving
  <2>4. SendAlone'
    BY <1>7, <1>8, <1>9 DEF SendAlone, IsFront
  <2>5. NoLeftOver'
    BY <1>6, <1>9 DEF NoLeftOver, Purged
  <2>6. QED
    BY <1>6, <2>1, <2>2, <2>3, <2>4, <2>5
<1>10. CASE old = <<>> /\ bound[s] /\ pending' = pending \cup {m}
  <2>1. /\ socket_[s] \in Sockets /\ socket_[s] # INVALID_SOCKET
        /\ closed_ago[s] = RESERVED
        /\ \A o \in pending : o.slot = s => o.op # "ACCEPT" /\ o.sock = socket_[s]
        /\ \A v \in Workers : Busy(v) /\ io[v].slot = s =>
                 ~Accepting(v) /\ io[v].sock = socket_[s]
    BY <1>10, PostedIo
  <2>2. m \in IoType
    BY <1>2, <2>1 DEF m, Send, IoType
  <2>3. /\ \A o \in pending : o.op = "SEND" => o.slot # s
        /\ \A v \in Workers : pc[v] = "SEND" => io[v].slot # s
    BY <1>10 DEF SendAlone, IsFront, old
  <2>4. TypeOK'
    BY <1>3, <1>10, <2>2 DEF TypeOK, Busy
  <2>5. LateIo'
    BY <1>4, <1>10 DEF LateIo, InTime, Busy
  <2>6. AcceptAlone'
    <3>1. \A v \in Workers : Accepting(v) => io[v].slot # s
      BY <2>1 DEF Accepting, Busy
    <3>2. QED
      BY <1>4, <1>10, <2>1, <3>1 DEF AcceptAlone, Accepting, Busy
  <2>7. RecvAlone'
    BY <1>4, <1>10 DEF RecvAlone, Receiving
  <2>8. SendAlone'
    <3>1. send_data_queue_'[m.slot] # <<>> /\ m.buf = Head(send_data_queue_'[m.slot])
      BY <1>2, <1>3, <1>4
    <3>2. ASSUME NEW o \in pending', o.op = "SEND"
          PROVE  /\ IsFront(o)'
                 /\ \A p \in pending' : p.op = "SEND" /\ p.slot = o.slot => p = o
      <4>1. CASE o = m
        BY <1>4, <1>10, <2>3, <3>1, <4>1 DEF IsFront
      <4>2. CASE o \in pending
        <5>1. IsFront(o)'
          BY <1>7, <1>8, <3>2, <4>2 DEF SendAlone, IsFront
        <5>2. o.slot # s /\ \A p \in pending : p.op = "SEND" /\ p.slot = o.slot => p = o
          BY <2>3, <3>2, <4>2 DEF SendAlone
        <5>3. QED
          BY <1>4, <1>10, <5>1, <5>2
      <4>3. QED
        BY <1>10, <4>1, <4>2
    <3>3. ASSUME NEW v \in Workers, pc'[v] = "SEND"
          PROVE  /\ IsFront(io[v])'
                 /\ \A o \in pending' : o.op = "SEND" => o.slot # io'[v].slot
                 /\ \A u \in Workers \ {v} : pc'[u] = "SEND" => io'[u].slot # io'[v].slot
      <4>1. IsFront(io[v])'
        BY <1>7, <1>8, <3>3 DEF SendAlone, IsFront
      <4>2. \A o \in pending' : o.op = "SEND" => o.slot # io'[v].slot
        BY <1>4, <1>10, <2>3, <3>3 DEF SendAlone
      <4>3. QED
        BY <3>3, <4>1, <4>2 DEF SendAlone
    <3>4. QED
      BY <3>2, <3>3 DEF SendAlone
  <2>9. NoLeftOver'
    <3>1. left_over[s] = 0
      <4>1. Len(send_data_queue_[s]) = 0
        BY <1>10, EmptySeq DEF old
      <4>2. QED
        BY <4>1 DEF NoLeftOver, TypeOK
    <3>2. QED
      BY <1>4, <1>6, <1>10, <3>1 DEF NoLeftOver, Purged
  <2>10. QED
    BY <1>6, <2>4, <2>5, <2>6, <2>7, <2>8, <2>9
<1>11. QED
  BY <1>5, <1>9, <1>10

\* SendCompleted: the worker's WSASend was the only one of the slot, so the next
\* is the only one again.
LEMMA CompleteSendIInv ==
  ASSUME IInv, NEW w \in Workers, CompleteSend(w)
  PROVE  IInv'
<1> USE DEF IInv
<1> DEFINE s == io[w].slot
           old == send_data_queue_[s]
           q == Tail(old)
           m == Send(s, socket_[s], Head(q))
<1>1. s \in Slots /\ Busy(w) /\ ~Accepting(w) /\ pc[w] = "SEND" /\ io[w] \in IoType
  BY DEF CompleteSend, Accepting, TypeOK, Busy, IoType
<1>2. /\ pc'[w] = "gqcs"
      /\ \A v \in Workers \ {w} : pc'[v] = pc[v] /\ io'[v] = io[v]
      /\ pc' \in [Workers -> PcType]
      /\ io' \in [Workers -> IoType \cup {None}]
      /\ UNCHANGED <<session, accepter, game, client_cnt_, crashed>>
  BY DEF CompleteSend, Loop, TypeOK, PcType
<1>3. \A v \in Workers : Busy(v)' => v # w /\ Busy(v) /\ pc'[v] = pc[v] /\ io'[v] = io[v]
  BY <1>2 DEF Busy
<1>4. /\ IsFront(io[w])
      /\ \A o \in pending : o.op = "SEND" => o.slot # s
      /\ \A v \in Workers \ {w} : pc[v] = "SEND" => io[v].slot # s
      /\ Purged(io[w])
  BY <1>1 DEF SendAlone, NoLeftOver
<1>5. /\ q \in Seq(Buffers) /\ Len(old) \in Nat /\ Len(old) > 0 /\ Len(q) = Len(old) - 1
      /\ q # <<>> => Head(q) \in Buffers
  <2>1. old \in Seq(Buffers) /\ old # <<>>
    BY <1>1, <1>4 DEF TypeOK, IsFront
  <2>2. QED
    BY <2>1, HeadTailProperties, LenProperties, EmptySeq
<1>6. /\ send_data_queue_' = [send_data_queue_ EXCEPT ![s] = q]
      /\ left_over' = [left_over EXCEPT ![s] = IF @ > 0 THEN @ - 1 ELSE 0]
      /\ \/ pending' = pending
         \/ q # <<>> /\ bound[s] /\ pending' = pending \cup {m}
  BY DEF CompleteSend, SendCompleted, SendIO, Post
<1>7. /\ send_data_queue_' \in [Slots -> Seq(Buffers)]
      /\ send_data_queue_'[s] = q
      /\ \A r \in Slots \ {s} : send_data_queue_'[r] = send_data_queue_[r]
      /\ left_over' \in [Slots -> Nat]
      /\ left_over'[s] = IF left_over[s] > 0 THEN left_over[s] - 1 ELSE 0
      /\ \A r \in Slots \ {s} : left_over'[r] = left_over[r]
  BY <1>1, <1>5, <1>6 DEF TypeOK
<1>8. m.op = "SEND" /\ m.slot = s /\ m.sock = socket_[s] /\ m.buf = Head(q)
  BY DEF Send
<1>9. /\ Stamped' /\ Associated'
      /\ \A r \in Slots : left_over'[r] <= Len(send_data_queue_'[r])
  <2>1. left_over[s] \in Nat /\ left_over[s] <= Len(old)
    BY <1>1 DEF NoLeftOver, TypeOK
  <2>2. left_over'[s] <= Len(q)
    BY <1>5, <1>7, <2>1
  <2>3. \A r \in Slots : left_over'[r] <= Len(send_data_queue_'[r])
    BY <1>7, <2>2 DEF NoLeftOver
  <2>4. QED
    BY <1>2, <2>3 DEF Stamped, Associated
<1>10. \A o \in pending : o \in IoType /\ o.slot \in Slots
  BY DEF TypeOK, IoType
<1>11. \A v \in Workers : pc'[v] = "SEND" =>
          /\ v # w /\ pc[v] = "SEND" /\ io'[v] = io[v]
          /\ io[v].slot \in Slots \ {s}
  BY <1>2, <1>4 DEF TypeOK, Busy, IoType
<1>12. \A o : o.slot \in Slots \ {s} /\ IsFront(o) =>
         /\ send_data_queue_'[o.slot] # <<>>
         /\ o.buf = Head(send_data_queue_'[o.slot])
  BY <1>7 DEF IsFront
<1>13. \A o : o.slot \in Slots \ {s} /\ Purged(o) =>
         (o.sock = socket_'[o.slot] => left_over'[o.slot] = 0)
  BY <1>2, <1>7 DEF Purged
<1>14. \A v \in Workers : pc'[v] = "SEND" =>
         /\ IsFront(io[v])'
         /\ Purged(io[v])'
         /\ \A o \in pending : o.op = "SEND" => o.slot # io'[v].slot
         /\ \A u \in Workers \ {v} : pc'[u] = "SEND" => io'[u].slot # io'[v].slot
         /\ io'[v].slot # s
  <2>1. SUFFICES ASSUME NEW v \in Workers, pc'[v] = "SEND"
                 PROVE  /\ IsFront(io[v])'
                        /\ Purged(io[v])'
                        /\ \A o \in pending : o.op = "SEND" => o.slot # io'[v].slot
                        /\ \A u \in Workers \ {v} : pc'[u] = "SEND" => io'[u].slot # io'[v].slot
                        /\ io'[v].slot # s
    OBVIOUS
  <2>2. /\ pc[v] = "SEND" /\ io'[v] = io[v] /\ io[v].slot \in Slots \ {s}
        /\ IsFront(io[v]) /\ Purged(io[v])
    BY <1>11, <2>1 DEF SendAlone, NoLeftOver
  <2>3. IsFront(io[v])'
    BY <1>12, <2>2 DEF IsFront
  <2>4. Purged(io[v])'
    BY <1>13, <2>2 DEF Purged
  <2>5. QED
    BY <1>11, <2>1, <2>2, <2>3, <2>4 DEF SendAlone
<1>15. \A o \in pending : o.op = "SEND" =>
         /\ send_data_queue_'[o.slot] # <<>>
         /\ o.buf = Head(send_data_queue_'[o.slot])
         /\ o.sock = socket_'[o.slot] => left_over'[o.slot] = 0
         /\ o.slot # s
  BY <1>4, <1>10, <1>12, <1>13 DEF SendAlone, NoLeftOver
<1> HIDE DEF s, old, q, m
<1>16. CASE pending' = pending
  <2>1. TypeOK'
    BY <1>2, <1>3, <1>7, <1>16 DEF TypeOK
  <2>2. LateIo'
    BY <1>2, <1>3, <1>16 DEF LateIo, InTime
  <2>3. AcceptAlone'
    BY <1>2, <1>3, <1>16 DEF AcceptAlone, Accepting, Busy
  <2>4. RecvAlone'
    BY <1>2, <1>16 DEF RecvAlone, Receiving
  <2>5. SendAlone'
    BY <1>16, <1>14, <1>15 DEF SendAlone, IsFront
  <2>6. NoLeftOver'
    BY <1>9, <1>16, <1>14, <1>15 DEF NoLeftOver, Purged
  <2>7. QED
    BY <1>9, <2>1, <2>2, <2>3, <2>4, <2>5, <2>6
<1>17. CASE q # <<>> /\ bound[s] /\ pending' = pending \cup {m}
  <2>1. /\ socket_[s] \in Sockets /\ socket_[s] # INVALID_SOCKET
        /\ closed_ago[s] = RESERVED
        /\ \A o \in pending : o.slot = s => o.op # "ACCEPT" /\ o.sock = socket_[s]
        /\ \A v \in Workers : Busy(v) /\ io[v].slot = s =>
                 ~Accepting(v) /\ io[v].sock = socket_[s]
    BY <1>1, <1>17, PostedIo
  <2>2. m \in IoType
    BY <1>1, <1>5, <1>17, <2>1 DEF m, Send, IoType
  <2>3. left_over'[s] = 0
    <3>1. io[w].sock = socket_[s] /\ io[w].slot = s
      BY <1>1, <2>1 DEF s
    <3>2. QED
      BY <1>4, <1>7, <3>1 DEF Purged
  <2>4. TypeOK'
    BY <1>2, <1>3, <1>7, <1>17, <2>2 DEF TypeOK
  <2>5. LateIo'
    BY <1>2, <1>3, <1>8, <1>17 DEF LateIo, InTime
  <2>6. AcceptAlone'
    <3>1. \A v \in Workers : Accepting(v) => io[v].slot # s
      BY <2>1 DEF Accepting, Busy
    <3>2. QED
      BY <1>2, <1>3, <1>8, <1>17, <2>1, <3>1 DEF AcceptAlone, Accepting, Busy
  <2>7. RecvAlone'
    BY <1>2, <1>8, <1>17 DEF RecvAlone, Receiving
  <2>8. SendAlone'
    <3>1. send_data_queue_'[m.slot] # <<>> /\ m.buf = Head(send_data_queue_'[m.slot])
      BY <1>7, <1>8, <1>17
    <3>2. \A o \in pending' : o.op = "SEND" => o = m \/ (o \in pending /\ o.slot # s)
      BY <1>4, <1>17
    <3>3. \A o \in pending' : o.op = "SEND" => IsFront(o)'
      BY <1>15, <3>1, <3>2 DEF IsFront
    <3>4. \A o, p \in pending' : o.op = "SEND" /\ p.op = "SEND" /\ p.slot = o.slot => p = o
      BY <1>8, <3>2 DEF SendAlone
    <3>5. \A v \in Workers : pc'[v] = "SEND" =>
            \A o \in pending' : o.op = "SEND" => o.slot # io'[v].slot
      BY <1>8, <1>14, <3>2
    <3>6. QED
      BY <1>14, <3>3, <3>4, <3>5 DEF SendAlone
  <2>9. NoLeftOver'
    BY <1>8, <1>9, <1>17, <1>14, <1>15, <2>3 DEF NoLeftOver, Purged
  <2>10. QED
    BY <1>9, <2>4, <2>5, <2>6, <2>7, <2>8, <2>9
<1>18. QED
  BY <1>6, <1>16, <1>17

\* A failed ACCEPT takes an I/O away and ends the process.
LEMMA FailedAcceptIInv ==
  ASSUME IInv, NEW w \in Workers, FailedAccept(w)
  PROVE  IInv'
<1> USE DEF IInv
<1>1. /\ \A o \in pending' : o \in pending
      /\ crashed' = TRUE
      /\ UNCHANGED <<session, sendq, thread, accepter, game, client_cnt_>>
  BY DEF FailedAccept
<1>2. crashed' \in BOOLEAN
  BY <1>1, Zenon
<1>3. TypeOK'
  BY <1>1, <1>2 DEF TypeOK, Busy
<1>4. Stamped' /\ Associated' /\ LateIo'
  BY <1>1 DEF Stamped, Associated, LateIo, InTime, Busy
<1>5. AcceptAlone' /\ RecvAlone'
  BY <1>1 DEF AcceptAlone, Accepting, RecvAlone, Receiving, Busy
<1>6. SendAlone' /\ NoLeftOver'
  BY <1>1 DEF SendAlone, IsFront, NoLeftOver, Purged
<1>7. QED
  BY <1>3, <1>4, <1>5, <1>6

\* Steps of the accepter and the game thread that touch no slot.
LEMMA FrameIInv ==
  ASSUME IInv, UNCHANGED <<session, sendq, pending, thread, client_cnt_, crashed>>,
         cur_ago' \in 0 .. MaxPass, to_visit' \subseteq Slots,
         replies' \subseteq Slots, target' \in Slots \cup {None}
  PROVE  IInv'
<1>1. TypeOK'
  BY DEF IInv, TypeOK, Busy
<1>2. Stamped' /\ Associated' /\ LateIo'
  BY DEF IInv, Stamped, Associated, LateIo, InTime, Busy
<1>3. AcceptAlone' /\ RecvAlone'
  BY DEF IInv, AcceptAlone, Accepting, RecvAlone, Receiving, Busy
<1>4. SendAlone' /\ NoLeftOver'
  BY DEF IInv, SendAlone, IsFront, NoLeftOver, Purged
<1>5. QED
  BY <1>1, <1>2, <1>3, <1>4 DEF IInv

\* Time passes only while nothing is later than MaxLag.
LEMMA TickIInv ==
  ASSUME IInv, Tick
  PROVE  IInv'
<1> USE DEF IInv
<1>1. /\ UNCHANGED <<is_connect_, socket_, bound, sendq, pending, thread, to_visit, game, client_cnt_, crashed>>
      /\ cur_ago' \in 0 .. MaxPass
  BY TimeAssumption DEF Tick, TypeOK
<1>2. \A s \in Slots :
        /\ closed_ago'[s] = IF closed_ago[s] \in 0 .. Horizon - 1
                            THEN closed_ago[s] + 1 ELSE closed_ago[s]
        /\ closed_ago'[s] = RESERVED <=> closed_ago[s] = RESERVED
        /\ closed_ago'[s] \in 0 .. Horizon \cup {RESERVED}
  <2>1. Horizon \in Nat
    BY TimeAssumption DEF Horizon
  <2>2. QED
    BY <2>1, NamesAssumption DEF Tick, TypeOK
<1>3. closed_ago' \in [Slots -> 0 .. Horizon \cup {RESERVED}]
  BY <1>2 DEF Tick
<1>4. TypeOK'
  BY <1>1, <1>3 DEF TypeOK, Busy
<1>5. Stamped' /\ Associated'
  BY <1>1, <1>2 DEF Stamped, Associated
<1>6. \A o \in Outstanding : o \in IoType /\ InTime(o)
  BY DEF LateIo, TypeOK, Outstanding
<1>7. \A o \in Outstanding : o.sock # socket_[o.slot] =>
        closed_ago'[o.slot] # RESERVED /\ closed_ago'[o.slot] <= MaxLag
  <2>1. SUFFICES ASSUME NEW o \in Outstanding, o.sock # socket_[o.slot]
                 PROVE  closed_ago'[o.slot] # RESERVED /\ closed_ago'[o.slot] <= MaxLag
    OBVIOUS
  <2>2. o.slot \in Slots /\ closed_ago[o.slot] # RESERVED /\ closed_ago[o.slot] <= MaxLag
    BY <1>6, <2>1 DEF InTime, IoType
  <2>3. Stale(o.slot) # {}
    BY <2>1 DEF Stale
  <2>4. closed_ago[o.slot] < MaxLag
    BY <2>2, <2>3 DEF Tick
  <2>5. closed_ago[o.slot] \in Int
    BY <2>2 DEF TypeOK
  <2>6. QED
    BY <1>2, <2>2, <2>4, <2>5, TimeAssumption
<1>8. LateIo'
  BY <1>1, <1>7 DEF LateIo, InTime, Outstanding, Busy
<1>9. AcceptAlone'
  <2>1. \A o \in pending : o.slot \in Slots
    BY DEF TypeOK, IoType
  <2>2. \A v \in Workers : Accepting(v) => io[v].slot \in Slots
    BY DEF TypeOK, IoType, Accepting, Busy
  <2>3. QED
    BY <1>1, <1>2, <2>1, <2>2 DEF AcceptAlone, Accepting, Busy
<1>10. RecvAlone' /\ SendAlone' /\ NoLeftOver'
  BY <1>1 DEF RecvAlone, Receiving, SendAlone, IsFront, NoLeftOver, Purged
<1>11. QED
  BY <1>4, <1>5, <1>8, <1>9, <1>10

-----------------------------------------------------------------------------
\* Every step of every thread keeps the invariant.
LEMMA NextIInv ==
  ASSUME IInv, [Next]_vars
  PROVE  IInv'
<1>1. TypeOK
  BY DEF IInv
<1>2. ASSUME NEW w \in Workers, WorkerStep(w)
      PROVE  IInv'
  <2>1. CASE CheckConnected(w)
    <3>1. Busy(w) /\ ~Accepting(w) /\ pc[w] = "CloseSocket"
      BY <2>1 DEF CheckConnected, Busy, Accepting
    <3>2. QED
      BY <1>1, <2>1, <3>1, MoveOnIInv DEF CheckConnected, Goto, Loop, TypeOK
  <2>2. CASE CountClient(w)
    <3>1. Busy(w) /\ ~Accepting(w) /\ pc[w] = "OnConnect"
      BY <2>2 DEF CountClient, Busy, Accepting
    <3>2. client_cnt_' \in 0 .. MaxCount
      BY <1>1, <2>2, TimeAssumption DEF CountClient, TypeOK
    <3>3. QED
      BY <1>1, <2>2, <3>1, <3>2, MoveOnIInv DEF CountClient, Loop, TypeOK
  <2>3. CASE OnReceive(w)
    <3>1. Busy(w) /\ ~Accepting(w) /\ pc[w] = "RECV"
      BY <2>3 DEF OnReceive, Busy, Accepting
    <3>2. io[w].slot \in Slots
      BY <1>1, <3>1 DEF TypeOK, IoType
    <3>3. QED
      BY <1>1, <2>3, <3>1, <3>2, MoveOnIInv DEF OnReceive, Goto, TypeOK
  <2>4. QED
    BY <1>2, <2>1, <2>2, <2>3, GetCompletionIInv, FailedAcceptIInv, DoCloseIInv,
       SetConnectedIInv, BindSocketIInv, BindRecvIInv, CompleteSendIInv DEF WorkerStep
<1>3. CASE StartPass
  BY <1>1, <1>3, FrameIInv, TimeAssumption DEF StartPass, TypeOK
<1>4. ASSUME NEW s \in Slots, Visit(s)
      PROVE  IInv'
  <2>1. to_visit' \subseteq Slots
    BY <1>1, <1>4 DEF Visit, TypeOK
  <2>2. CASE MayOffer(s) /\ ReadyAccept(s)
    BY <1>4, <2>1, <2>2, ReadyAcceptIInv DEF Visit
  <2>3. CASE UNCHANGED <<session, sendq, pending>>
    BY <1>1, <1>4, <2>1, <2>3, FrameIInv DEF Visit, TypeOK
  <2>4. QED
    BY <1>4, <2>2, <2>3 DEF Visit
<1>5. ASSUME NEW s \in Slots, Reply(s)
      PROVE  IInv'
  BY <1>1, <1>5, SendMsgIInv DEF Reply, TypeOK
<1>6. ASSUME NEW s \in Slots, SendDamage(s)
      PROVE  IInv'
  BY <1>1, <1>6, SendMsgIInv DEF SendDamage, game, TypeOK
<1>7. ASSUME NEW s \in Slots, BroadcastFind(s)
      PROVE  IInv'
  BY <1>1, <1>7, FrameIInv DEF BroadcastFind, TypeOK
<1>8. CASE BroadcastSend
  <2>1. target \in Slots
    BY <1>1, <1>8 DEF BroadcastSend, TypeOK
  <2>2. QED
    BY <1>1, <1>8, <2>1, SendMsgIInv DEF BroadcastSend, TypeOK
<1>9. CASE Tick
  BY <1>9, TickIInv
<1>10. CASE UNCHANGED vars
  BY <1>1, <1>10, FrameIInv DEF TypeOK
<1>11. QED
  BY <1>2, <1>3, <1>4, <1>5, <1>6, <1>7, <1>8, <1>9, <1>10 DEF Next

\* The invariant holds in every reachable state of the session core.
THEOREM Invariance == Spec => []IInv
<1>1. Init => IInv
  BY InitIInv
<1>2. IInv /\ [Next]_vars => IInv'
  BY NextIInv
<1>3. QED
  BY <1>1, <1>2, PTL DEF Spec

-----------------------------------------------------------------------------
(* The properties of the session core *)

\* A set with at most one element has at most one element.
LEMMA AtMostOne ==
  ASSUME NEW S, \A x, y \in S : x = y
  PROVE  IsFiniteSet(S) /\ Cardinality(S) \in {0, 1} /\ (Cardinality(S) = 0 <=> S = {})
<1>1. CASE S = {}
  BY <1>1, FS_EmptySet
<1>2. CASE S # {}
  <2>1. PICK x \in S : TRUE
    BY <1>2
  <2>2. S = {x}
    BY <2>1
  <2>3. IsFiniteSet({x}) /\ Cardinality({x}) = 1
    BY FS_Singleton
  <2>4. QED
    BY <1>2, <2>2, <2>3
<1>3. QED
  BY <1>1, <1>2

\* Two sets of which one is empty and the other has at most one element.
LEMMA AtMostOneOfTwo ==
  ASSUME NEW S, NEW T, \A x, y \in S : x = y, \A x, y \in T : x = y,
         S = {} \/ T = {}
  PROVE  Cardinality(S) + Cardinality(T) <= 1
<1>1. Cardinality(S) \in {0, 1} /\ (Cardinality(S) = 0 <=> S = {})
  BY AtMostOne
<1>2. Cardinality(T) \in {0, 1} /\ (Cardinality(T) = 0 <=> T = {})
  BY AtMostOne
<1>3. QED
  BY <1>1, <1>2

\* Every field keeps its type (IocpNetServer.h, ClientInfo.h).
THEOREM TypeCorrect == Spec => []TypeOK
<1>1. IInv => TypeOK
  BY DEF IInv
<1>2. QED
  BY <1>1, Invariance, PTL

\* ClientInfo::SendCompleted always frees the buffer of the WSASend that
\* completed: one WSASend per slot, of the front of the queue.
THEOREM SendSafety == Spec => []SendOfHeadOnly
<1>1. IInv => SendOfHeadOnly
  <2>1. SUFFICES ASSUME IInv, NEW s \in Slots
                 PROVE  /\ Cardinality(Pending(s, "SEND")) + Cardinality(Working(s, {"SEND"})) <= 1
                        /\ \A o \in Pending(s, "SEND") \cup {io[w] : w \in Working(s, {"SEND"})} :
                              send_data_queue_[s] # <<>> /\ o.buf = Head(send_data_queue_[s])
    BY DEF SendOfHeadOnly
  <2>2. \A o, p \in Pending(s, "SEND") : o = p
    BY <2>1 DEF IInv, SendAlone, Pending
  <2>3. \A v, w \in Working(s, {"SEND"}) : v = w
    BY <2>1 DEF IInv, SendAlone, Working
  <2>4. Pending(s, "SEND") = {} \/ Working(s, {"SEND"}) = {}
    BY <2>1 DEF IInv, SendAlone, Pending, Working
  <2>5. \A o \in Pending(s, "SEND") \cup {io[w] : w \in Working(s, {"SEND"})} :
            send_data_queue_[s] # <<>> /\ o.buf = Head(send_data_queue_[s])
    BY <2>1 DEF IInv, SendAlone, IsFront, Pending, Working
  <2>6. QED
    BY <2>2, <2>3, <2>4, <2>5, AtMostOneOfTwo
<1>2. QED
  BY <1>1, Invariance, PTL

\* The one recv_overlapped_ex_ and recv_buf_ of a slot are used by one WSARecv
\* at a time (ClientInfo::BindRecv, WorkerThread).
THEOREM RecvSafety == Spec => []OneRecvPerSlot
<1>1. IInv => OneRecvPerSlot
  <2>1. SUFFICES ASSUME IInv, NEW s \in Slots
                 PROVE  Cardinality(Pending(s, "RECV"))
                          + Cardinality(Working(s, {"RECV", "BindRecv", "BindSocket", "FirstRecv"})) <= 1
    BY DEF OneRecvPerSlot
  <2>2. \A o, p \in Pending(s, "RECV") : o = p
    BY <2>1 DEF IInv, RecvAlone, Pending
  <2>3. \A v, w \in Working(s, {"RECV", "BindRecv", "BindSocket", "FirstRecv"}) : v = w
    BY <2>1 DEF IInv, RecvAlone, AcceptAlone, Accepting, Receiving, Busy, Working
  <2>4. Pending(s, "RECV") = {} \/ Working(s, {"RECV", "BindRecv", "BindSocket", "FirstRecv"}) = {}
    BY <2>1 DEF IInv, RecvAlone, AcceptAlone, Accepting, Receiving, Pending, Working
  <2>5. QED
    BY <2>2, <2>3, <2>4, AtMostOneOfTwo
<1>2. QED
  BY <1>1, Invariance, PTL

\* A slot on offer has one AcceptEx, for its present socket, and is not
\* connected (AccepterThread, ClientInfo::ReadyAccept).
THEOREM AcceptSafety == Spec => []OneAcceptPerSlot
<1>1. IInv => OneAcceptPerSlot
  <2>1. SUFFICES ASSUME IInv, NEW s \in Slots
                 PROVE  /\ Cardinality(Pending(s, "ACCEPT")) + Cardinality(Working(s, {"ACCEPT"})) <= 1
                        /\ \A o \in Pending(s, "ACCEPT") \cup {io[w] : w \in Working(s, {"ACCEPT"})} :
                              ~is_connect_[s] /\ closed_ago[s] = RESERVED /\ o.sock = socket_[s]
    BY DEF OneAcceptPerSlot
  <2>2. \A o, p \in Pending(s, "ACCEPT") : o = p
    BY <2>1 DEF IInv, AcceptAlone, Pending
  <2>3. \A v, w \in Working(s, {"ACCEPT"}) : v = w
    BY <2>1 DEF IInv, AcceptAlone, Accepting, Busy, Working
  <2>4. Pending(s, "ACCEPT") = {} \/ Working(s, {"ACCEPT"}) = {}
    BY <2>1 DEF IInv, AcceptAlone, Accepting, Pending, Working
  <2>5. \A o \in Pending(s, "ACCEPT") \cup {io[w] : w \in Working(s, {"ACCEPT"})} :
            ~is_connect_[s] /\ closed_ago[s] = RESERVED /\ o.sock = socket_[s]
    BY <2>1 DEF IInv, AcceptAlone, Accepting, Pending, Working
  <2>6. QED
    BY <2>2, <2>3, <2>4, <2>5, AtMostOneOfTwo
<1>2. QED
  BY <1>1, Invariance, PTL

\* No I/O of a closed socket is left when its slot is offered again, so the wait
\* of AccepterThread does what its comment says, given LagAssumption.
THEOREM ReuseSafety == Spec => []NoStaleIo
<1>1. IInv => NoStaleIo
  BY DEF IInv, NoStaleIo, Stale, Outstanding, LateIo, InTime
<1>2. QED
  BY <1>1, Invariance, PTL

\* Messages Close left in send_data_queue_ never reach the slot's next client.
THEOREM OldMessageSafety == Spec => []NoOldMessage
<1>1. IInv => NoOldMessage
  BY DEF IInv, NoOldMessage, NoLeftOver, Purged, Pending
<1>2. QED
  BY <1>1, Invariance, PTL

\* ReadyAccept never overwrites an open socket handle.
THEOREM HandleSafety == Spec => NoSocketLeak
<1>1. ASSUME IInv, [Next]_vars
      PROVE  [\A s \in Slots : socket_[s] # INVALID_SOCKET /\ socket_'[s] # socket_[s]
                            => socket_'[s] = INVALID_SOCKET]_socket_
  <2>1. ASSUME NEW r \in Slots, MayOffer(r), ReadyAccept(r)
        PROVE  \A s \in Slots : socket_[s] # INVALID_SOCKET => socket_'[s] = socket_[s]
    <3>1. socket_[r] = INVALID_SOCKET
      BY <1>1, <2>1 DEF IInv, Stamped, MayOffer
    <3>2. \A s \in Slots \ {r} : socket_'[s] = socket_[s]
      BY <1>1, <2>1 DEF ReadyAccept, IInv, TypeOK
    <3>3. QED
      BY <3>1, <3>2
  <2>2. ASSUME NEW r \in Slots, Close(r)
        PROVE  \A s \in Slots : socket_'[s] = socket_[s] \/ socket_'[s] = INVALID_SOCKET
    BY <1>1, <2>2 DEF Close, IInv, TypeOK
  <2>3. ASSUME NEW w \in Workers, WorkerStep(w)
        PROVE  \A s \in Slots : socket_'[s] = socket_[s] \/ socket_'[s] = INVALID_SOCKET
    <3>1. CASE DoClose(w)
      <4>1. io[w].slot \in Slots /\ Close(io[w].slot)
        BY <1>1, <3>1 DEF DoClose, IInv, TypeOK, Busy, IoType
      <4>2. QED
        BY <2>2, <4>1
    <3>2. CASE ~DoClose(w)
      BY <2>3, <3>2 DEF WorkerStep, GetCompletion, FailedAccept, CheckConnected, SetConnected,
         BindSocket, FirstRecv, CountClient, OnReceive, BindRecv, CompleteSend
    <3>3. QED
      BY <3>1, <3>2
  <2>4. ASSUME NEW s \in Slots, Visit(s)
        PROVE  \A t \in Slots : socket_[t] # INVALID_SOCKET => socket_'[t] = socket_[t]
    BY <2>1, <2>4 DEF Visit
  <2>5. QED
    BY <1>1, <2>3, <2>4 DEF Next, StartPass, Reply, SendDamage, BroadcastFind, BroadcastSend, Tick
<1>2. QED
  BY <1>1, Invariance, PTL DEF Spec, NoSocketLeak

-----------------------------------------------------------------------------
(* The session core implements SessionLifecycle *)

\* A step that leaves the sockets alone keeps LiveIo if what is new is of a connected slot.
LEMMA KeepsLive ==
  ASSUME LiveIo, UNCHANGED <<is_connect_, socket_>>,
         \A o \in pending' : o.op # "ACCEPT" => o \in pending \/ is_connect_[o.slot],
         \A v \in Workers : pc'[v] \notin {"gqcs", "ACCEPT"} =>
            \/ pc[v] \notin {"gqcs", "ACCEPT"} /\ io'[v] = io[v]
            \/ io'[v] \in pending /\ io'[v].op # "ACCEPT"
  PROVE  LiveIo'
BY DEF LiveIo, Live

\* What WSARecv or WSASend leaves on the port.
LEMMA PostLive ==
  ASSUME IInv, NEW s \in Slots, NEW o, o.slot = s, Post(s, o, pending)
  PROVE  /\ \A p \in pending' : p \in pending \/ is_connect_[p.slot]
         /\ o.op # "ACCEPT" => \A p : p.op = "ACCEPT" => (p \in pending' <=> p \in pending)
<1>1. bound[s] => is_connect_[s]
  BY DEF IInv, Associated
<1>2. QED
  BY <1>1 DEF Post

\* SendMsg posts a WSASend or nothing.
LEMMA SendMsgLive ==
  ASSUME IInv, NEW s \in Slots, SendMsg(s)
  PROVE  /\ \A p \in pending' : p \in pending \/ is_connect_[p.slot]
         /\ \A p : p.op = "ACCEPT" => (p \in pending' <=> p \in pending)
<1>1. PICK b \in FreshBuffers :
         LET q == Append(send_data_queue_[s], b)
         IN  IF Len(q) = 1 THEN SendIO(s, q, pending) ELSE UNCHANGED pending
  BY DEF SendMsg
<1>2. CASE UNCHANGED pending
  BY <1>2
<1>3. ASSUME NEW q, SendIO(s, q, pending)
      PROVE  /\ \A p \in pending' : p \in pending \/ is_connect_[p.slot]
             /\ \A p : p.op = "ACCEPT" => (p \in pending' <=> p \in pending)
  <2> DEFINE o == Send(s, socket_[s], Head(q))
  <2>1. o.slot = s /\ o.op # "ACCEPT"
    BY DEF Send
  <2>2. Post(s, o, pending)
    BY <1>3 DEF SendIO
  <2> HIDE DEF o
  <2>3. QED
    BY <2>1, <2>2, PostLive
<1>4. QED
  BY <1>1, <1>2, <1>3

\* What a worker posts when it has done with a WSARecv or a WSASend.
LEMMA PostedLive ==
  ASSUME IInv, NEW w \in Workers, BindRecv(w) \/ CompleteSend(w)
  PROVE  /\ \A p \in pending' : p \in pending \/ is_connect_[p.slot]
         /\ \A p : p.op = "ACCEPT" => (p \in pending' <=> p \in pending)
<1> DEFINE s == io[w].slot
<1>1. s \in Slots
  BY DEF BindRecv, CompleteSend, IInv, TypeOK, Busy, IoType
<1>2. ASSUME NEW o, o.slot = s, o.op # "ACCEPT", Post(s, o, pending)
      PROVE  /\ \A p \in pending' : p \in pending \/ is_connect_[p.slot]
             /\ \A p : p.op = "ACCEPT" => (p \in pending' <=> p \in pending)
  BY <1>1, <1>2, PostLive
<1> HIDE DEF s
<1>3. CASE BindRecv(w)
  <2>1. Post(s, Recv(s, socket_[s]), pending)
    BY <1>3 DEF BindRecv, s
  <2>2. Recv(s, socket_[s]).slot = s /\ Recv(s, socket_[s]).op # "ACCEPT"
    BY DEF Recv
  <2>3. QED
    BY <1>2, <2>1, <2>2
<1>4. CASE CompleteSend(w)
  <2> DEFINE q == Tail(send_data_queue_[s])
             o == Send(s, socket_[s], Head(q))
  <2>1. UNCHANGED pending \/ Post(s, o, pending)
    BY <1>4 DEF CompleteSend, SendCompleted, SendIO, s
  <2>2. o.slot = s /\ o.op # "ACCEPT"
    BY DEF Send
  <2> HIDE DEF o
  <2>3. QED
    BY <1>2, <2>1, <2>2
<1>5. QED
  BY <1>3, <1>4

\* Whether a slot has an accept, and with it its phase, depends on the AcceptEx alone.
LEMMA PhaseKept ==
  ASSUME UNCHANGED is_connect_,
         \A s \in Slots : closed_ago'[s] = RESERVED <=> closed_ago[s] = RESERVED,
         \A o : o.op = "ACCEPT" => (o \in pending' <=> o \in pending),
         \A v \in Workers : /\ pc'[v] = "ACCEPT" <=> pc[v] = "ACCEPT"
                            /\ pc[v] = "ACCEPT" => io'[v] = io[v]
  PROVE  SlotPhase' = SlotPhase
<1>1. ASSUME NEW s \in Slots
      PROVE  HasAccept(s)' <=> HasAccept(s)
  <2>1. Pending(s, "ACCEPT")' = Pending(s, "ACCEPT")
    BY DEF Pending
  <2>2. Working(s, {"ACCEPT"})' = Working(s, {"ACCEPT"})
    BY DEF Working
  <2>3. QED
    BY <2>1, <2>2 DEF HasAccept
<1>2. \A s \in Slots : PhaseOf(s)' = PhaseOf(s)
  BY <1>1, Zenon DEF PhaseOf
<1>3. QED
  BY <1>2 DEF SlotPhase

\* One slot moves and the others stay.
LEMMA PhaseMoves ==
  ASSUME NEW s \in Slots, NEW to, PhaseOf(s)' = to,
         \A t \in Slots \ {s} : PhaseOf(t)' = PhaseOf(t)
  PROVE  SlotPhase' = [SlotPhase EXCEPT ![s] = to] /\ SlotPhase[s] = PhaseOf(s)
BY DEF SlotPhase

\* Every step keeps LiveIo: I/O is posted on the socket of a connected slot, a close drops
\* the socket of all that was posted on it, and a new socket is nobody's yet.
LEMMA NextLive ==
  ASSUME IInv, LiveIo, [Next]_vars
  PROVE  LiveIo'
<1>1. TypeOK /\ AcceptAlone
  BY DEF IInv
<1>2. ASSUME NEW w \in Workers, WorkerStep(w)
      PROVE  LiveIo'
  <2>1. \A v \in Workers : Busy(v) => io[v] \in IoType /\ io[v].slot \in Slots
    BY <1>1 DEF TypeOK, IoType
  <2>2. \A o \in pending : o \in IoType
    BY <1>1 DEF TypeOK
  <2>3. CASE GetCompletion(w)
    <3>1. PICK o \in pending :
             /\ pending' = pending \ {o} /\ io' = [io EXCEPT ![w] = o]
             /\ \/ pc' = [pc EXCEPT ![w] = o.op]
                \/ o.op # "ACCEPT" /\ pc' = [pc EXCEPT ![w] = "CloseSocket"]
      BY <2>3 DEF GetCompletion
    <3>2. /\ io'[w] = o /\ (pc'[w] = o.op \/ o.op # "ACCEPT")
          /\ \A v \in Workers \ {w} : pc'[v] = pc[v] /\ io'[v] = io[v]
      BY <1>1, <3>1 DEF TypeOK
    <3>3. QED
      BY <2>3, <3>1, <3>2, KeepsLive DEF GetCompletion
  <2>4. CASE FailedAccept(w)
    BY <2>4, KeepsLive DEF FailedAccept
  <2>5. CASE CheckConnected(w)
    <3>1. /\ pc[w] \notin {"gqcs", "ACCEPT"}
          /\ pc'[w] # "gqcs" => io'[w] = io[w]
          /\ \A v \in Workers \ {w} : pc'[v] = pc[v] /\ io'[v] = io[v]
      BY <1>1, <2>5 DEF CheckConnected, Goto, Loop, TypeOK
    <3>2. QED
      BY <2>5, <3>1, KeepsLive DEF CheckConnected
  <2>6. CASE DoClose(w)
    <3> DEFINE s == io[w].slot
    <3>1. /\ s \in Slots /\ pc'[w] = "gqcs"
          /\ \A v \in Workers \ {w} : pc'[v] = pc[v] /\ io'[v] = io[v]
      BY <1>1, <2>1, <2>6 DEF DoClose, Loop, TypeOK, Busy
    <3>2. /\ socket_'[s] = INVALID_SOCKET
          /\ \A t \in Slots \ {s} : socket_'[t] = socket_[t] /\ is_connect_'[t] = is_connect_[t]
      BY <1>1, <2>6, <3>1 DEF DoClose, Close, TypeOK
    <3>3. pending' = pending
      BY <2>6 DEF DoClose
    <3> HIDE DEF s
    <3>4. ASSUME NEW o \in IoType, Live(o)
          PROVE  Live(o)'
      <4>1. o.sock # INVALID_SOCKET /\ o.slot \in Slots
        BY NamesAssumption DEF IoType
      <4>2. QED
        BY <3>2, <3>4, <4>1 DEF Live
    <3>5. QED
      BY <2>1, <2>2, <3>1, <3>3, <3>4 DEF LiveIo, Live, Busy
  <2>7. CASE SetConnected(w)
    <3>1. /\ io'[w] = io[w] /\ io[w].slot \in Slots /\ Accepting(w)
          /\ \A v \in Workers \ {w} : pc'[v] = pc[v] /\ io'[v] = io[v]
      BY <1>1, <2>1, <2>7 DEF SetConnected, Goto, TypeOK, Busy, Accepting
    <3>2. /\ is_connect_'[io[w].slot] = TRUE
          /\ \A t \in Slots : is_connect_[t] => is_connect_'[t]
          /\ UNCHANGED <<socket_, pending>>
      BY <1>1, <2>7, <3>1 DEF SetConnected, TypeOK
    <3>3. QED
      BY <2>1, <2>2, <3>1, <3>2 DEF LiveIo, Live, IoType, Busy
  <2>8. CASE BindSocket(w)
    <3>1. /\ io' = io /\ pc[w] \notin {"gqcs", "ACCEPT"}
          /\ \A v \in Workers \ {w} : pc'[v] = pc[v]
      BY <1>1, <2>8 DEF BindSocket, Goto, TypeOK
    <3>2. QED
      BY <2>8, <3>1, KeepsLive DEF BindSocket
  <2>9. CASE CountClient(w) \/ OnReceive(w)
    <3>1. /\ pc[w] \notin {"gqcs", "ACCEPT"}
          /\ pc'[w] # "gqcs" => io'[w] = io[w]
          /\ \A v \in Workers \ {w} : pc'[v] = pc[v] /\ io'[v] = io[v]
      BY <1>1, <2>9 DEF CountClient, OnReceive, Goto, Loop, TypeOK
    <3>2. QED
      BY <2>9, <3>1, KeepsLive DEF CountClient, OnReceive
  <2>10. CASE BindRecv(w) \/ CompleteSend(w)
    <3>1. /\ io[w].slot \in Slots /\ pc'[w] = "gqcs"
          /\ \A v \in Workers \ {w} : pc'[v] = pc[v] /\ io'[v] = io[v]
          /\ UNCHANGED <<is_connect_, socket_>>
      BY <1>1, <2>1, <2>10 DEF BindRecv, CompleteSend, Loop, TypeOK, Busy
    <3>2. \A p \in pending' : p \in pending \/ is_connect_[p.slot]
      BY <2>10, <3>1, PostedLive
    <3>3. QED
      BY <3>1, <3>2, KeepsLive
  <2>11. CASE FirstRecv(w)
    <3>1. /\ io' = io /\ pc[w] \notin {"gqcs", "ACCEPT"} /\ io[w].slot \in Slots
          /\ \A v \in Workers \ {w} : pc'[v] = pc[v]
      BY <1>1, <2>1, <2>11 DEF FirstRecv, Goto, TypeOK, Busy
    <3>2. \A o \in pending' : o \in pending \/ is_connect_[o.slot]
      <4> DEFINE s == io[w].slot
                 r == Recv(s, socket_[s])
      <4>1. bound[s] => is_connect_[s]
        BY <3>1 DEF IInv, Associated
      <4>2. r.slot = s
        BY DEF Recv
      <4>3. pending' = pending \/ (bound[s] /\ pending' = pending \cup {r})
        BY <2>11 DEF FirstRecv
      <4> HIDE DEF s, r
      <4>4. QED
        BY <4>1, <4>2, <4>3
    <3>3. QED
      BY <2>11, <3>1, <3>2, KeepsLive DEF FirstRecv
  <2>12. QED
    BY <1>2, <2>3, <2>4, <2>5, <2>6, <2>7, <2>8, <2>9, <2>10, <2>11 DEF WorkerStep
<1>3. ASSUME NEW s \in Slots, ReadyAccept(s), UNCHANGED thread
      PROVE  LiveIo'
  <2>1. ASSUME NEW o \in Outstanding, Live(o)
        PROVE  Live(o)'
    <3>1. socket_'[o.slot] = socket_[o.slot] \/ socket_'[o.slot] # o.sock
      BY <1>1, <1>3, <2>1 DEF ReadyAccept, FreshSockets, TypeOK, Outstanding, IoType
    <3>2. QED
      BY <1>3, <2>1, <3>1 DEF Live, ReadyAccept
  <2>2. \A o \in pending' : o \in pending \/ o.op = "ACCEPT"
    BY <1>3 DEF ReadyAccept, Accept
  <2>3. QED
    BY <1>3, <2>1, <2>2 DEF LiveIo, Live, Outstanding, Busy
<1>4. CASE UNCHANGED <<is_connect_, socket_, pending, thread>>
  BY <1>4, KeepsLive
<1>5. ASSUME NEW s \in Slots, SendMsg(s), UNCHANGED <<session, thread>>
      PROVE  LiveIo'
  BY <1>5, SendMsgLive, KeepsLive
<1>6. ASSUME NEW s \in Slots, Visit(s) \/ Reply(s) \/ SendDamage(s) \/ BroadcastFind(s)
      PROVE  LiveIo'
  BY <1>3, <1>4, <1>5, <1>6 DEF Visit, Reply, SendDamage, BroadcastFind
<1>7. CASE BroadcastSend
  BY <1>1, <1>5, <1>7 DEF BroadcastSend, TypeOK
<1>8. QED
  BY <1>2, <1>4, <1>6, <1>7 DEF Next, StartPass, Tick

\* Every step of every thread leaves the slots as they are in SessionLifecycle or takes one
\* of them to its next phase.
LEMMA StepSimulates ==
  ASSUME IInv, LiveIo, [Next]_vars
  PROVE  [Lifecycle!Next]_SlotPhase
<1> USE DEF Lifecycle!Next, Lifecycle!Offer, Lifecycle!Connect, Lifecycle!Leave,
            Lifecycle!Lose, Lifecycle!Move
<1>1. TypeOK /\ AcceptAlone /\ LateIo /\ Stamped /\ Associated
  BY DEF IInv
<1>2. ASSUME UNCHANGED <<is_connect_, closed_ago, thread>>,
             \A o : o.op = "ACCEPT" => (o \in pending' <=> o \in pending)
      PROVE  SlotPhase' = SlotPhase
  BY <1>2, PhaseKept
<1>3. ASSUME NEW w \in Workers, WorkerStep(w)
      PROVE  [Lifecycle!Next]_SlotPhase
  <2>1. Busy(w) => io[w] \in IoType /\ io[w].slot \in Slots
    BY <1>1 DEF TypeOK, IoType
  <2>2. CASE GetCompletion(w)
    <3>1. PICK o \in pending :
             /\ pending' = pending \ {o} /\ io' = [io EXCEPT ![w] = o]
             /\ \/ pc' = [pc EXCEPT ![w] = o.op]
                \/ o.op # "ACCEPT" /\ pc' = [pc EXCEPT ![w] = "CloseSocket"]
      BY <2>2 DEF GetCompletion
    <3>2. /\ io'[w] = o /\ pc[w] = "gqcs" /\ o.op \in {"ACCEPT", "RECV", "SEND"}
          /\ pc'[w] = "ACCEPT" <=> o.op = "ACCEPT"
          /\ \A v \in Workers \ {w} : pc'[v] = pc[v] /\ io'[v] = io[v]
      BY <1>1, <2>2, <3>1 DEF TypeOK, GetCompletion, IoType
    <3>3. ASSUME NEW r \in Slots
          PROVE  HasAccept(r)' <=> HasAccept(r)
      <4>1. HasAccept(r) <=> \/ \E p \in pending : p.op = "ACCEPT" /\ p.slot = r
                             \/ \E v \in Workers : pc[v] = "ACCEPT" /\ io[v].slot = r
        BY DEF HasAccept, Pending, Working
      <4>2. HasAccept(r)' <=> \/ \E p \in pending' : p.op = "ACCEPT" /\ p.slot = r
                              \/ \E v \in Workers : pc'[v] = "ACCEPT" /\ io'[v].slot = r
        BY DEF HasAccept, Pending, Working
      <4>3. QED
        BY <3>1, <3>2, <4>1, <4>2
    <3>4. \A r \in Slots : PhaseOf(r)' = PhaseOf(r)
      <4>1. UNCHANGED <<is_connect_, closed_ago>>
        BY <2>2 DEF GetCompletion
      <4>2. QED
        BY <3>3, <4>1, Zenon DEF PhaseOf
    <3>5. QED
      BY <3>4 DEF SlotPhase
  <2>3. CASE FailedAccept(w)
    <3>1. PICK o \in pending : o.op = "ACCEPT" /\ pending' = pending \ {o}
      BY <2>3 DEF FailedAccept
    <3>2. /\ UNCHANGED <<is_connect_, closed_ago, thread>> /\ AcceptFaults
          /\ o.slot \in Slots
      BY <1>1, <2>3, <3>1 DEF FailedAccept, TypeOK, IoType
    <3>3. /\ ~is_connect_[o.slot] /\ closed_ago[o.slot] = RESERVED
          /\ \A p \in pending : p.slot = o.slot => p = o
          /\ \A v \in Workers : Busy(v) => io[v].slot # o.slot
      BY <1>1, <3>1 DEF AcceptAlone
    <3>4. HasAccept(o.slot) /\ ~HasAccept(o.slot)'
      BY <3>1, <3>2, <3>3 DEF HasAccept, Pending, Working, Busy
    <3>5. \A t \in Slots \ {o.slot} : HasAccept(t)' <=> HasAccept(t)
      BY <3>1, <3>2 DEF HasAccept, Pending, Working
    <3>6. PhaseOf(o.slot) = "offered" /\ PhaseOf(o.slot)' = "lost"
      BY <3>2, <3>3, <3>4 DEF PhaseOf
    <3>7. \A t \in Slots \ {o.slot} : PhaseOf(t)' = PhaseOf(t)
      BY <3>2, <3>5, Zenon DEF PhaseOf
    <3>8. QED
      BY <3>2, <3>6, <3>7, PhaseMoves
  <2>4. CASE CheckConnected(w) \/ CountClient(w) \/ OnReceive(w)
    <3>1. /\ UNCHANGED <<is_connect_, closed_ago, pending>>
          /\ pc[w] # "ACCEPT" /\ pc'[w] # "ACCEPT"
          /\ \A v \in Workers \ {w} : pc'[v] = pc[v] /\ io'[v] = io[v]
      BY <1>1, <2>4 DEF CheckConnected, CountClient, OnReceive, Goto, Loop, TypeOK
    <3>2. QED
      BY <3>1, PhaseKept
  <2>5. CASE BindSocket(w) \/ FirstRecv(w)
    <3>1. /\ UNCHANGED <<is_connect_, closed_ago>>
          /\ pc[w] # "ACCEPT" /\ pc'[w] # "ACCEPT"
          /\ \A v \in Workers \ {w} : pc'[v] = pc[v] /\ io'[v] = io[v]
          /\ \A o : o.op = "ACCEPT" => (o \in pending' <=> o \in pending)
      BY <1>1, <2>5 DEF BindSocket, FirstRecv, Goto, TypeOK, Recv
    <3>2. QED
      BY <3>1, PhaseKept
  <2>6. CASE BindRecv(w) \/ CompleteSend(w)
    <3>1. /\ UNCHANGED <<is_connect_, closed_ago>>
          /\ pc[w] # "ACCEPT" /\ pc'[w] # "ACCEPT"
          /\ \A v \in Workers \ {w} : pc'[v] = pc[v] /\ io'[v] = io[v]
      BY <1>1, <2>6 DEF BindRecv, CompleteSend, Loop, TypeOK
    <3>2. \A o : o.op = "ACCEPT" => (o \in pending' <=> o \in pending)
      BY <2>6, PostedLive
    <3>3. QED
      BY <3>1, <3>2, PhaseKept
  <2>7. CASE SetConnected(w)
    <3> PICK s \in Slots : s = io[w].slot
      BY <2>1, <2>7 DEF SetConnected, Busy
    <3>1. /\ pc[w] = "ACCEPT" /\ pc'[w] = "BindSocket"
          /\ is_connect_' = [is_connect_ EXCEPT ![s] = TRUE]
          /\ UNCHANGED <<closed_ago, pending, io>>
          /\ \A v \in Workers \ {w} : pc'[v] = pc[v]
      BY <1>1, <2>1, <2>7 DEF SetConnected, Goto, TypeOK, Busy
    <3>2. ~is_connect_[s] /\ closed_ago[s] = RESERVED
      BY <1>1, <3>1 DEF AcceptAlone, Accepting
    <3>3. HasAccept(s)
      BY <3>1 DEF HasAccept, Working
    <3>4. PhaseOf(s) = "offered" /\ PhaseOf(s)' = "serving"
      BY <1>1, <3>1, <3>2, <3>3 DEF PhaseOf, TypeOK
    <3>5. \A t \in Slots \ {s} :
            is_connect_'[t] = is_connect_[t] /\ (HasAccept(t)' <=> HasAccept(t))
      BY <1>1, <3>1 DEF HasAccept, Pending, Working, TypeOK
    <3>6. \A t \in Slots \ {s} : PhaseOf(t)' = PhaseOf(t)
      BY <3>1, <3>5, Zenon DEF PhaseOf
    <3>7. QED
      BY <3>1, <3>4, <3>6, PhaseMoves
  <2>8. CASE DoClose(w)
    <3> PICK s \in Slots : s = io[w].slot
      BY <2>1, <2>8 DEF DoClose, Busy
    <3>1. /\ pc[w] = "Close" /\ pc'[w] = "gqcs" /\ Busy(w)
          /\ is_connect_' = [is_connect_ EXCEPT ![s] = FALSE]
          /\ closed_ago' = [closed_ago EXCEPT ![s] = 0]
          /\ UNCHANGED pending
          /\ \A v \in Workers \ {w} : pc'[v] = pc[v] /\ io'[v] = io[v]
      BY <1>1, <2>1, <2>8 DEF DoClose, Close, Loop, TypeOK, Busy
    <3>2. is_connect_[s] \/ closed_ago[s] # RESERVED
      <4>1. CASE io[w].sock = socket_[s]
        BY <3>1, <4>1 DEF LiveIo, Live
      <4>2. CASE io[w].sock # socket_[s]
        BY <1>1, <3>1, <4>2 DEF LateIo, InTime
      <4>3. QED
        BY <4>1, <4>2
    <3>3. ~is_connect_'[s] /\ closed_ago'[s] # RESERVED
      BY <1>1, <3>1, NamesAssumption DEF TypeOK
    <3>4. PhaseOf(s) \in {"serving", "free"} /\ PhaseOf(s)' = "free"
      BY <3>2, <3>3 DEF PhaseOf
    <3>5. \A t \in Slots \ {s} : /\ is_connect_'[t] = is_connect_[t]
                                 /\ closed_ago'[t] = closed_ago[t]
                                 /\ HasAccept(t)' <=> HasAccept(t)
      BY <1>1, <3>1 DEF HasAccept, Pending, Working, TypeOK
    <3>6. \A t \in Slots \ {s} : PhaseOf(t)' = PhaseOf(t)
      BY <3>5, Zenon DEF PhaseOf
    <3>7. CASE PhaseOf(s) = "serving"
      BY <3>1, <3>4, <3>6, <3>7, PhaseMoves
    <3>8. CASE PhaseOf(s) = "free"
      BY <3>4, <3>6, <3>8 DEF SlotPhase
    <3>9. QED
      BY <3>4, <3>7, <3>8
  <2>9. QED
    BY <1>3, <2>2, <2>3, <2>4, <2>5, <2>6, <2>7, <2>8 DEF WorkerStep
<1>4. ASSUME NEW s \in Slots, MayOffer(s), ReadyAccept(s), UNCHANGED thread
      PROVE  Lifecycle!Next
  <2>1. /\ ~is_connect_[s] /\ closed_ago[s] # RESERVED
        /\ UNCHANGED is_connect_
        /\ closed_ago' = [closed_ago EXCEPT ![s] = RESERVED]
        /\ \/ AcceptFaults /\ UNCHANGED pending
           \/ \E k \in Sockets : pending' = pending \cup {Accept(s, k)}
    BY <1>4 DEF MayOffer, ReadyAccept, FreshSockets
  <2>2. ~HasAccept(s)
    BY <1>1, <2>1 DEF HasAccept, Pending, Working, AcceptAlone, Accepting
  <2>3. PhaseOf(s) = "free"
    BY <2>1 DEF PhaseOf
  <2>4. closed_ago'[s] = RESERVED /\ \A t \in Slots \ {s} : closed_ago'[t] = closed_ago[t]
    BY <1>1, <2>1 DEF TypeOK
  <2>5. \A t \in Slots \ {s} : HasAccept(t)' <=> HasAccept(t)
    BY <1>4, <2>1 DEF HasAccept, Pending, Working, Accept
  <2>6. \A t \in Slots \ {s} : PhaseOf(t)' = PhaseOf(t)
    BY <2>1, <2>4, <2>5, Zenon DEF PhaseOf
  <2>7. CASE AcceptFaults /\ UNCHANGED pending
    <3>1. ~HasAccept(s)'
      BY <1>4, <2>2, <2>7 DEF HasAccept, Pending, Working
    <3>2. PhaseOf(s)' = "lost"
      BY <2>1, <2>4, <3>1 DEF PhaseOf
    <3>3. QED
      BY <2>3, <2>6, <2>7, <3>2, PhaseMoves
  <2>8. CASE \E k \in Sockets : pending' = pending \cup {Accept(s, k)}
    <3>1. HasAccept(s)'
      <4>1. PICK k \in Sockets : Accept(s, k) \in pending'
        BY <2>8
      <4>2. Accept(s, k).op = "ACCEPT" /\ Accept(s, k).slot = s
        BY DEF Accept
      <4>3. Pending(s, "ACCEPT")' # {}
        BY <4>1, <4>2 DEF Pending
      <4>4. QED
        BY <4>3 DEF HasAccept
    <3>2. PhaseOf(s)' = "offered"
      BY <2>1, <2>4, <3>1 DEF PhaseOf
    <3>3. QED
      BY <2>3, <2>6, <3>2, PhaseMoves
  <2>9. QED
    BY <2>1, <2>7, <2>8
<1>5. ASSUME NEW s \in Slots, SendMsg(s), UNCHANGED <<session, thread>>
      PROVE  SlotPhase' = SlotPhase
  BY <1>2, <1>5, SendMsgLive
<1>6. CASE Tick
  <2>1. /\ UNCHANGED <<is_connect_, pending, thread>>
        /\ \A s \in Slots : closed_ago'[s] = RESERVED <=> closed_ago[s] = RESERVED
    <3>1. Horizon \in Nat
      BY TimeAssumption DEF Horizon
    <3>2. QED
      BY <1>1, <1>6, <3>1, NamesAssumption DEF Tick, TypeOK
  <2>2. QED
    BY <2>1, PhaseKept
<1>7. ASSUME NEW s \in Slots, Visit(s) \/ Reply(s) \/ SendDamage(s) \/ BroadcastFind(s)
      PROVE  [Lifecycle!Next]_SlotPhase
  BY <1>2, <1>4, <1>5, <1>7 DEF Visit, Reply, SendDamage, BroadcastFind
<1>8. CASE BroadcastSend
  BY <1>1, <1>5, <1>8 DEF BroadcastSend, TypeOK
<1>9. CASE StartPass \/ UNCHANGED vars
  BY <1>2, <1>9 DEF StartPass
<1>10. QED
  BY <1>3, <1>6, <1>7, <1>8, <1>9 DEF Next

\* The threads together implement the life of a slot of SessionLifecycle, for any number
\* of slots, workers, sockets and messages: no interleaving takes an offer back or ends the
\* session of the slot's next client.
THEOREM Refinement == Spec => RefinesLifecycle
<1>1. Init => LiveIo /\ Lifecycle!Init
  <2>1. ASSUME Init
        PROVE  LiveIo /\ \A s \in Slots : PhaseOf(s) = "free"
    <3>1. Horizon \in Int
      BY TimeAssumption DEF Horizon
    <3>2. QED
      BY <2>1, <3>1, NamesAssumption DEF Init, LiveIo, PhaseOf
  <2>2. QED
    BY <2>1 DEF Lifecycle!Init, SlotPhase
<1>2. IInv /\ LiveIo /\ [Next]_vars => LiveIo'
  BY NextLive
<1>3. IInv /\ LiveIo /\ [Next]_vars => [Lifecycle!Next]_SlotPhase
  BY StepSimulates
<1>4. QED
  BY <1>1, <1>2, <1>3, Invariance, PTL DEF Spec, RefinesLifecycle, Lifecycle!Spec

-----------------------------------------------------------------------------
(* What the game may expect of a slot it sends to *)

\* A slot is silent when messages wait in it and no WSASend of it is with the kernel or
\* completed in a worker's hands.
LEMMA SilentIs ==
  ASSUME NEW s \in Slots
  PROVE  /\ Silent(s) <=> /\ send_data_queue_[s] # <<>>
                          /\ \A p \in pending : p.op = "SEND" => p.slot # s
                          /\ \A v \in Workers : pc[v] = "SEND" => io[v].slot # s
         /\ Silent(s)' <=> /\ send_data_queue_'[s] # <<>>
                           /\ \A p \in pending' : p.op = "SEND" => p.slot # s
                           /\ \A v \in Workers : pc'[v] = "SEND" => io'[v].slot # s
BY DEF Silent, Pending, Working

\* A step that touches no queue, no WSASend and no worker at one silences no slot.
LEMMA SilentKept ==
  ASSUME NEW s \in Slots, send_data_queue_'[s] = send_data_queue_[s],
         \A o : o.op = "SEND" => (o \in pending' <=> o \in pending),
         \A v \in Workers : \/ pc'[v] = pc[v] /\ io'[v] = io[v]
                            \/ pc[v] # "SEND" /\ pc'[v] # "SEND"
  PROVE  Silent(s)' <=> Silent(s)
BY SilentIs

\* The refinement mapping as a function, slot by slot.
LEMMA SilentSlotsAre ==
  /\ SilentSlots \in [Slots -> BOOLEAN] /\ \A s \in Slots : SilentSlots[s] <=> Silent(s)
  /\ SilentSlots' \in [Slots -> BOOLEAN] /\ \A s \in Slots : SilentSlots'[s] <=> Silent(s)'
<1>1. \A s \in Slots : Silent(s) \in BOOLEAN /\ Silent(s)' \in BOOLEAN
  BY Zenon DEF Silent
<1>2. QED
  BY <1>1, Zenon DEF SilentSlots

\* The steps of SlotOutput, from what happens to the one slot they are about.
LEMMA SlotFallsSilent ==
  ASSUME TypeOK, NEW s \in Slots, UNCHANGED is_connect_, Silent(s) => Silent(s)',
         \A t \in Slots \ {s} : Silent(t)' <=> Silent(t)
  PROVE  [Output!Next]_<<is_connect_, SilentSlots>>
<1>1. is_connect_' = [is_connect_ EXCEPT ![s] = is_connect_[s]]
  BY DEF TypeOK
<1>2. CASE Silent(s)'
  <2>1. SilentSlots' = [SilentSlots EXCEPT ![s] = TRUE]
    BY <1>2, SilentSlotsAre
  <2>2. QED
    BY <1>1, <2>1 DEF Output!Next, Output!Block, Output!Become
<1>3. CASE ~Silent(s)'
  <2>1. SilentSlots' = SilentSlots
    BY <1>3, SilentSlotsAre
  <2>2. QED
    BY <2>1
<1>4. QED
  BY <1>2, <1>3

\* A client enters a slot and hears as little as its last client did.
LEMMA SlotIsEntered ==
  ASSUME NEW s \in Slots, ~is_connect_[s], is_connect_' = [is_connect_ EXCEPT ![s] = TRUE],
         \A t \in Slots : Silent(t)' <=> Silent(t)
  PROVE  Output!Next
<1>1. SilentSlots' = [SilentSlots EXCEPT ![s] = SilentSlots[s]]
  BY SilentSlotsAre
<1>2. QED
  BY <1>1 DEF Output!Next, Output!Enter, Output!Become

\* Close of a connected slot, or again of a closed one, leaves its queue alone.
LEMMA SlotIsLeft ==
  ASSUME TypeOK, NEW s \in Slots, is_connect_' = [is_connect_ EXCEPT ![s] = FALSE],
         \A t \in Slots : Silent(t)' <=> Silent(t)
  PROVE  [Output!Next]_<<is_connect_, SilentSlots>>
<1>1. CASE is_connect_[s]
  <2>1. SilentSlots' = [SilentSlots EXCEPT ![s] = SilentSlots[s]]
    BY SilentSlotsAre
  <2>2. QED
    BY <1>1, <2>1 DEF Output!Next, Output!Leave, Output!Become
<1>2. CASE ~is_connect_[s]
  <2>1. is_connect_' = is_connect_
    BY <1>2 DEF TypeOK
  <2>2. QED
    BY <2>1, SlotFallsSilent
<1>3. QED
  BY <1>1, <1>2

\* SendMsg on an empty queue posts the message or silences the slot; on any other it
\* leaves the slot as silent as it was.
LEMMA SendMsgOutput ==
  ASSUME IInv, NEW s \in Slots, SendMsg(s), UNCHANGED <<session, thread>>
  PROVE  [Output!Next]_<<is_connect_, SilentSlots>>
<1>1. TypeOK
  BY DEF IInv
<1>2. PICK b \in FreshBuffers :
         LET q == Append(send_data_queue_[s], b)
         IN  /\ send_data_queue_' = [send_data_queue_ EXCEPT ![s] = q]
             /\ IF Len(q) = 1 THEN SendIO(s, q, pending) ELSE UNCHANGED pending
  BY DEF SendMsg
<1> DEFINE q == Append(send_data_queue_[s], b)
           o == Send(s, socket_[s], Head(q))
<1>3. /\ send_data_queue_'[s] = q
      /\ \A t \in Slots \ {s} : send_data_queue_'[t] = send_data_queue_[t]
      /\ q # <<>>
      /\ Len(q) = 1 => send_data_queue_[s] = <<>>
  BY <1>1, <1>2 DEF TypeOK, FreshBuffers
<1>4. o.slot = s
  BY DEF Send
<1>5. \A p \in pending' : p \in pending \/ p = o
  BY <1>2 DEF SendIO, Post
<1>6. pending \subseteq pending' /\ (Len(q) # 1 => pending' = pending)
  BY <1>2 DEF SendIO, Post
<1> HIDE DEF q, o
<1>7. \A t \in Slots \ {s} : Silent(t)' <=> Silent(t)
  BY <1>3, <1>4, <1>5, <1>6, SilentIs
<1>8. Silent(s) => Silent(s)'
  BY <1>3, <1>6, SilentIs
<1>9. QED
  BY <1>1, <1>7, <1>8, SlotFallsSilent

\* SendCompleted: the slot was not silent while the worker held its WSASend.
LEMMA CompleteSendOutput ==
  ASSUME IInv, NEW w \in Workers, CompleteSend(w)
  PROVE  [Output!Next]_<<is_connect_, SilentSlots>>
<1>1. TypeOK
  BY DEF IInv
<1> DEFINE s == io[w].slot
           q == Tail(send_data_queue_[s])
           o == Send(s, socket_[s], Head(q))
<1>2. s \in Slots /\ pc[w] = "SEND"
  BY <1>1 DEF CompleteSend, TypeOK, Busy, IoType
<1>3. ~Silent(s)
  BY <1>2, SilentIs
<1>4. /\ pc'[w] # "SEND"
      /\ \A v \in Workers \ {w} : pc'[v] = pc[v] /\ io'[v] = io[v]
      /\ UNCHANGED is_connect_
  BY <1>1 DEF CompleteSend, Loop, TypeOK
<1>5. \A t \in Slots \ {s} : send_data_queue_'[t] = send_data_queue_[t]
  BY <1>1, <1>2 DEF CompleteSend, SendCompleted, TypeOK
<1>6. /\ o.slot = s
      /\ pending \subseteq pending'
      /\ \A p \in pending' : p \in pending \/ p = o
  BY DEF CompleteSend, SendCompleted, SendIO, Post, Send
<1> HIDE DEF s, q, o
<1>7. ASSUME NEW t \in Slots \ {s}
      PROVE  Silent(t)' <=> Silent(t)
  BY <1>2, <1>4, <1>5, <1>6, SilentIs DEF s
<1>8. QED
  BY <1>1, <1>2, <1>3, <1>4, <1>7, SlotFallsSilent

\* GetQueuedCompletionStatus: a failed WSASend leaves its message at the front of the
\* queue, and nobody sends it again.
LEMMA GetCompletionOutput ==
  ASSUME IInv, NEW w \in Workers, GetCompletion(w)
  PROVE  [Output!Next]_<<is_connect_, SilentSlots>>
<1>1. TypeOK /\ UNCHANGED <<is_connect_, send_data_queue_>> /\ pc[w] = "gqcs"
  BY DEF GetCompletion, IInv
<1>2. PICK o \in pending :
         /\ pending' = pending \ {o} /\ io' = [io EXCEPT ![w] = o]
         /\ \/ pc' = [pc EXCEPT ![w] = o.op]
            \/ o.op # "ACCEPT" /\ pc' = [pc EXCEPT ![w] = "CloseSocket"]
  BY DEF GetCompletion
<1>3. /\ io'[w] = o /\ o.slot \in Slots
      /\ pc'[w] = "SEND" => o.op = "SEND"
      /\ \A v \in Workers \ {w} : pc'[v] = pc[v] /\ io'[v] = io[v]
  BY <1>1, <1>2 DEF TypeOK, IoType
<1>4. ASSUME NEW t \in Slots \ {o.slot}
      PROVE  Silent(t)' <=> Silent(t)
  <2>1. \A p : p.slot = t => (p \in pending' <=> p \in pending)
    BY <1>2
  <2>2. \A v \in Workers : (pc'[v] = "SEND" /\ io'[v].slot = t) <=> (pc[v] = "SEND" /\ io[v].slot = t)
    BY <1>1, <1>3
  <2>3. QED
    BY <1>1, <2>1, <2>2, SilentIs
<1>5. Silent(o.slot) => Silent(o.slot)'
  <2>1. ASSUME Silent(o.slot)
        PROVE  Silent(o.slot)'
    <3>1. o.op # "SEND"
      BY <1>2, <1>3, <2>1, SilentIs
    <3>2. \A v \in Workers : pc'[v] = "SEND" => pc[v] = "SEND" /\ io'[v] = io[v]
      BY <1>3, <3>1
    <3>3. QED
      BY <1>1, <1>2, <1>3, <2>1, <3>2, SilentIs
  <2>2. QED
    BY <2>1
<1>6. QED
  BY <1>1, <1>3, <1>4, <1>5, SlotFallsSilent

\* Every step of every thread lets a client in or out of a slot, silences a slot, or does
\* nothing the game could see of it.
LEMMA StepOutput ==
  ASSUME IInv, [Next]_vars
  PROVE  [Output!Next]_<<is_connect_, SilentSlots>>
<1>1. TypeOK /\ AcceptAlone
  BY DEF IInv
<1>2. ASSUME UNCHANGED is_connect_, \A s \in Slots : Silent(s)' <=> Silent(s)
      PROVE  [Output!Next]_<<is_connect_, SilentSlots>>
  <2>1. SilentSlots' = SilentSlots
    BY <1>2, SilentSlotsAre
  <2>2. QED
    BY <1>2, <2>1
<1>3. ASSUME NEW w \in Workers, WorkerStep(w)
      PROVE  [Output!Next]_<<is_connect_, SilentSlots>>
  <2>1. Busy(w) => io[w].slot \in Slots
    BY <1>1 DEF TypeOK, IoType
  <2>2. CASE FailedAccept(w)
    <3>1. /\ UNCHANGED <<is_connect_, send_data_queue_, thread>>
          /\ \A o : o.op = "SEND" => (o \in pending' <=> o \in pending)
      BY <2>2 DEF FailedAccept
    <3>2. QED
      BY <1>2, <3>1, SilentKept
  <2>3. CASE \/ CheckConnected(w) \/ CountClient(w) \/ OnReceive(w)
             \/ BindSocket(w) \/ FirstRecv(w) \/ BindRecv(w)
    <3>1. /\ UNCHANGED <<is_connect_, send_data_queue_>>
          /\ pc[w] # "SEND" /\ pc'[w] # "SEND"
          /\ \A v \in Workers \ {w} : pc'[v] = pc[v] /\ io'[v] = io[v]
      BY <1>1, <2>3 DEF CheckConnected, CountClient, OnReceive, BindSocket, FirstRecv, BindRecv,
         Goto, Loop, TypeOK
    <3>2. \A o : o.op = "SEND" => (o \in pending' <=> o \in pending)
      BY <2>3 DEF CheckConnected, CountClient, OnReceive, BindSocket, FirstRecv, BindRecv, Post, Recv
    <3>3. QED
      BY <1>2, <3>1, <3>2, SilentKept
  <2>4. CASE SetConnected(w)
    <3>1. /\ pc[w] = "ACCEPT" /\ pc'[w] = "BindSocket" /\ io[w].slot \in Slots
          /\ is_connect_' = [is_connect_ EXCEPT ![io[w].slot] = TRUE]
          /\ UNCHANGED <<send_data_queue_, pending, io>>
          /\ \A v \in Workers \ {w} : pc'[v] = pc[v]
      BY <1>1, <2>1, <2>4 DEF SetConnected, Goto, TypeOK, Busy
    <3>2. ~is_connect_[io[w].slot]
      BY <1>1, <3>1 DEF AcceptAlone, Accepting
    <3>3. \A s \in Slots : Silent(s)' <=> Silent(s)
      BY <3>1, SilentKept
    <3>4. QED
      BY <3>1, <3>2, <3>3, SlotIsEntered
  <2>5. CASE DoClose(w)
    <3>1. /\ pc[w] = "Close" /\ pc'[w] = "gqcs" /\ io[w].slot \in Slots
          /\ is_connect_' = [is_connect_ EXCEPT ![io[w].slot] = FALSE]
          /\ UNCHANGED <<send_data_queue_, pending>>
          /\ \A v \in Workers \ {w} : pc'[v] = pc[v] /\ io'[v] = io[v]
      BY <1>1, <2>1, <2>5 DEF DoClose, Close, Loop, TypeOK, Busy
    <3>2. \A s \in Slots : Silent(s)' <=> Silent(s)
      BY <3>1, SilentKept
    <3>3. QED
      BY <1>1, <3>1, <3>2, SlotIsLeft
  <2>6. QED
    BY <1>3, <2>2, <2>3, <2>4, <2>5, GetCompletionOutput, CompleteSendOutput DEF WorkerStep
<1>4. ASSUME NEW s \in Slots, Visit(s) \/ Reply(s) \/ SendDamage(s) \/ BroadcastFind(s)
      PROVE  [Output!Next]_<<is_connect_, SilentSlots>>
  <2>1. CASE Visit(s) \/ BroadcastFind(s)
    <3>1. /\ UNCHANGED <<is_connect_, send_data_queue_, thread>>
          /\ \A o : o.op = "SEND" => (o \in pending' <=> o \in pending)
      BY <2>1 DEF Visit, ReadyAccept, Accept, BroadcastFind
    <3>2. QED
      BY <1>2, <3>1, SilentKept
  <2>2. CASE Reply(s) \/ SendDamage(s)
    BY <2>2, SendMsgOutput DEF Reply, SendDamage
  <2>3. QED
    BY <1>4, <2>1, <2>2
<1>5. CASE BroadcastSend
  BY <1>1, <1>5, SendMsgOutput DEF BroadcastSend, TypeOK
<1>6. CASE StartPass \/ Tick \/ UNCHANGED vars
  <2>1. UNCHANGED <<is_connect_, send_data_queue_, pending, thread>>
    BY <1>6 DEF StartPass, Tick
  <2>2. QED
    BY <1>2, <2>1, SilentKept
<1>7. QED
  BY <1>3, <1>4, <1>5, <1>6 DEF Next

\* For any number of slots, workers and messages: clients enter and leave a slot in turn,
\* and a slot with messages and no WSASend under way stays silent for every later client.
THEOREM OutputRefinement == Spec => RefinesOutput
<1>1. Init => Output!Init
  <2>1. ASSUME Init
        PROVE  \A s \in Slots : Silent(s) = FALSE
    BY <2>1 DEF Init, Silent
  <2>2. QED
    BY <2>1 DEF Output!Init, SilentSlots, Init
<1>2. IInv /\ [Next]_vars => [Output!Next]_<<is_connect_, SilentSlots>>
  BY StepOutput
<1>3. QED
  BY <1>1, <1>2, Invariance, PTL DEF Spec, RefinesOutput, Output!Spec

==============================================================================
