--------------------------- MODULE GameServer_proofs ---------------------------
(***************************************************************************)
(* Whatever the order of requests, moves, disconnects and slots used       *)
(* again, players that asked for the others know where they are.           *)
(***************************************************************************)
EXTENDS GameServer, FiniteSetTheorems, SequenceTheorems, TLAPS

\* The initial state is of the right types and tells nobody anything.
LEMMA InitViews == Init => TypeOK /\ ViewsAgree
<1> SUFFICES ASSUME Init PROVE TypeOK /\ ViewsAgree
  OBVIOUS
<1>1. TypeOK
  BY ServerAssumption DEF Init, TypeOK
<1>2. ViewsAgree
  BY DEF Init, ViewsAgree, Hears
<1>3. QED
  BY <1>1, <1>2

\* What the fields of a packet are, by the request it makes.
LEMMA PacketFacts ==
  ASSUME NEW p \in Packets
  PROVE  /\ p.op = "MOVE" => p.to \in Positions
         /\ p.op = "DAMAGE" => p.whom \in Slots
BY DEF Packets

\* The types of what a handler may change.
WorldOK ==
    /\ connected \in [Slots -> BOOLEAN]
    /\ blocked \in [Slots -> BOOLEAN]
    /\ client_info_array \in [Slots -> [at : Positions, in_game_connect : BOOLEAN]]
    /\ asked \subseteq Slots
    /\ entered \subseteq Slots
    /\ view \in [Slots -> [Slots -> Positions \cup {Unknown}]]

\* A message that is sent changes no view.
LEMMA AnswerViews ==
  ASSUME WorldOK, ViewsAgree, NEW s \in Slots, Answer(s), UNCHANGED connected
  PROVE  WorldOK' /\ ViewsAgree'
<1>1. /\ blocked' \in [Slots -> BOOLEAN]
      /\ \A c \in Slots : Hears(c)' => Hears(c)
  BY DEF WorldOK, Answer, Sent, Hears
<1>2. WorldOK'
  BY <1>1 DEF WorldOK, Answer, world
<1>3. ViewsAgree'
  BY <1>1 DEF ViewsAgree, Answer, world
<1>4. QED
  BY <1>2, <1>3

\* A player that enters is exempt until it moves.
LEMMA InGameViews ==
  ASSUME WorldOK, ViewsAgree, NEW s \in Slots, ProocessInGame(s), UNCHANGED connected
  PROVE  WorldOK' /\ ViewsAgree'
<1>1. WorldOK'
  BY ServerAssumption DEF WorldOK, ProocessInGame
<1>2. /\ \A c \in Slots : Hears(c)' = Hears(c)
      /\ \A p \in Slots : p \notin entered' => p # s
      /\ \A p \in Slots \ {s} : client_info_array'[p] = client_info_array[p]
  BY DEF WorldOK, ProocessInGame, Hears
<1>3. ViewsAgree'
  BY <1>2 DEF ViewsAgree, ProocessInGame
<1>4. QED
  BY <1>1, <1>3

\* A move is stored and told to everyone else.
LEMMA MoveViews ==
  ASSUME WorldOK, ViewsAgree, NEW s \in Slots, NEW to \in Positions,
         ProocessPlayerMove(s, to), UNCHANGED connected
  PROVE  WorldOK' /\ ViewsAgree'
<1>1. view' \in [Slots -> [Slots -> Positions \cup {Unknown}]]
  BY DEF WorldOK, ProocessPlayerMove, TellPosition
<1>2. WorldOK'
  BY <1>1 DEF WorldOK, ProocessPlayerMove
<1>3. SUFFICES ASSUME NEW c \in Slots, NEW p \in Slots, c # p, Hears(c),
                      c \in asked,
                      client_info_array'[p].in_game_connect, p \notin entered'
               PROVE  client_info_array'[p].at = view'[c][p]
  BY <1>2 DEF ViewsAgree, Hears, ProocessPlayerMove
<1>4. CASE p = s
  BY <1>3, <1>4 DEF WorldOK, ProocessPlayerMove, TellPosition
<1>5. CASE p # s
  <2>1. /\ client_info_array'[p] = client_info_array[p]
        /\ view'[c][p] = view[c][p]
        /\ p \notin entered
    BY <1>3, <1>5 DEF WorldOK, ProocessPlayerMove, TellPosition
  <2>2. QED
    BY <2>1, <1>3 DEF ViewsAgree
<1>6. QED
  BY <1>4, <1>5

\* A player that asks is told of all that are in the game.
LEMMA RemoteViews ==
  ASSUME WorldOK, ViewsAgree, NEW s \in Slots, ProocessRemotePlayerInit(s), UNCHANGED connected
  PROVE  WorldOK' /\ ViewsAgree'
<1>1. blocked' \in [Slots -> BOOLEAN] /\ \A c \in Slots : Hears(c)' => Hears(c)
  BY DEF WorldOK, ProocessRemotePlayerInit, Sent, Hears
<1>2. view' \in [Slots -> [Slots -> Positions \cup {Unknown}]]
  BY DEF WorldOK, ProocessRemotePlayerInit
<1>3. asked' \subseteq Slots
  BY DEF WorldOK, ProocessRemotePlayerInit
<1>4. WorldOK'
  BY <1>1, <1>2, <1>3 DEF WorldOK, ProocessRemotePlayerInit
<1>5. SUFFICES ASSUME NEW c \in Slots, NEW p \in Slots, c # p, Hears(c),
                      c \in asked',
                      client_info_array[p].in_game_connect, p \notin entered
               PROVE  client_info_array[p].at = view'[c][p]
  BY <1>1, <1>4 DEF ViewsAgree, ProocessRemotePlayerInit
<1>6. CASE c = s
  BY <1>5, <1>6 DEF WorldOK, ProocessRemotePlayerInit, Reported
<1>7. CASE c # s
  <2>1. view'[c] = view[c] /\ (c \in asked' => c \in asked)
    BY <1>7 DEF WorldOK, ProocessRemotePlayerInit
  <2>2. QED
    BY <2>1, <1>5 DEF ViewsAgree
<1>8. QED
  BY <1>6, <1>7

\* Every handler keeps the views right (ProcessRecvPacket).
LEMMA HandlerViews ==
  ASSUME WorldOK, ViewsAgree, NEW s \in Slots, NEW p \in Packets,
         ProcessRecvPacket(s, p), UNCHANGED connected
  PROVE  WorldOK' /\ ViewsAgree'
<1>1. CASE ProcessLogin(s)
  BY <1>1, AnswerViews DEF ProcessLogin
<1>2. CASE ProcessSignup(s)
  BY <1>2, AnswerViews DEF ProcessSignup
<1>3. CASE ProcessChatting
  BY <1>3 DEF ProcessChatting, world, WorldOK, ViewsAgree, Hears
<1>4. CASE ProocessPacketTest(s)
  BY <1>4, AnswerViews DEF ProocessPacketTest
<1>5. CASE ProocessInGame(s)
  BY <1>5, InGameViews
<1>6. CASE p.op = "MOVE" /\ ProocessPlayerMove(s, p.to)
  BY <1>6, MoveViews, PacketFacts
<1>7. CASE ProocessRemotePlayerInit(s)
  BY <1>7, RemoteViews
<1>8. CASE p.op = "DAMAGE" /\ ProocessInPlayerDamage(p.whom)
  BY <1>8, AnswerViews, PacketFacts DEF ProocessInPlayerDamage
<1>9. QED
  BY <1>1, <1>2, <1>3, <1>4, <1>5, <1>6, <1>7, <1>8 DEF ProcessRecvPacket

\* A connect forgets what the slot's last client was told, a disconnect is heard
\* by fewer, and so is everything once a WSASend is refused.
LEMMA SessionViews ==
  ASSUME TypeOK, ViewsAgree, NEW s \in Slots,
         Connect(s) \/ Disconnect(s) \/ CloseAgain(s) \/ Refuse(s)
  PROVE  TypeOK' /\ ViewsAgree'
<1> USE DEF Slot!Enter, Slot!Leave, Slot!Block, Slot!Become
<1>1. CASE Connect(s)
  <2>1. system_packet_queue_' \in Seq(SystemPackets)
    BY <1>1 DEF Connect, TypeOK, SystemPackets
  <2>2. sessions' \in 0 .. MaxSessions
    BY <1>1, ServerAssumption DEF Connect, TypeOK
  <2>3. TypeOK'
    BY <1>1, <2>1, <2>2 DEF Connect, TypeOK
  <2>4. \A c \in Slots : c \in asked' =>
            c # s /\ c \in asked /\ view'[c] = view[c] /\ Hears(c)' = Hears(c)
    BY <1>1 DEF Connect, TypeOK, Hears
  <2>5. ViewsAgree'
    BY <1>1, <2>4 DEF Connect, ViewsAgree
  <2>6. QED
    BY <2>3, <2>5
<1>2. CASE Disconnect(s)
  <2>1. system_packet_queue_' \in Seq(SystemPackets)
    BY <1>2 DEF Disconnect, TypeOK, SystemPackets
  <2>2. blocked' \in [Slots -> BOOLEAN] /\ connected' \in [Slots -> BOOLEAN]
    BY <1>2 DEF Disconnect, TypeOK
  <2>3. TypeOK'
    BY <1>2, <2>1, <2>2 DEF Disconnect, TypeOK, world
  <2>4. \A c \in Slots : Hears(c)' => Hears(c)
    BY <1>2 DEF Disconnect, TypeOK, Hears
  <2>5. ViewsAgree'
    BY <1>2, <2>4 DEF Disconnect, ViewsAgree, world
  <2>6. QED
    BY <2>3, <2>5
<1>3. CASE Refuse(s)
  <2>1. blocked' \in [Slots -> BOOLEAN] /\ connected' = connected
    BY <1>3 DEF Refuse, TypeOK
  <2>2. TypeOK'
    BY <1>3, <2>1 DEF Refuse, TypeOK, queues, world
  <2>3. \A c \in Slots : Hears(c)' => Hears(c)
    BY <1>3, <2>1 DEF Refuse, TypeOK, Hears
  <2>4. ViewsAgree'
    BY <1>3, <2>3 DEF Refuse, ViewsAgree, world
  <2>5. QED
    BY <2>2, <2>4
<1>4. CASE CloseAgain(s)
  <2>1. system_packet_queue_' \in Seq(SystemPackets)
    BY <1>4 DEF CloseAgain, TypeOK, SystemPackets
  <2>2. closing' \subseteq Slots
    BY <1>4 DEF CloseAgain, TypeOK
  <2>3. QED
    BY <1>4, <2>1, <2>2 DEF CloseAgain, TypeOK, ViewsAgree, Hears, world
<1>5. QED
  BY <1>1, <1>2, <1>3, <1>4

\* Storing what was received touches no player.
LEMMA ReceiveViews ==
  ASSUME TypeOK, ViewsAgree, NEW s \in Slots, Receive(s)
  PROVE  TypeOK' /\ ViewsAgree'
<1>1. PICK n \in Batches : \E ps \in [1 .. n -> Packets] : Store(s, ps)
  BY DEF Receive
<1>2. PICK ps \in [1 .. n -> Packets] : Store(s, ps)
  BY <1>1
<1>3. n \in Nat
  BY ServerAssumption
<1>4. ps \in Seq(Packets)
  BY <1>2, <1>3, SeqDef
<1>5. unread' \in [Slots -> Seq(Packets)] /\ incoming' \in Seq(Slots)
  BY <1>2, <1>4 DEF Store, TypeOK
<1>6. /\ closing' \subseteq Slots
      /\ UNCHANGED <<connected, blocked, sessions, system_packet_queue_, timer, world>>
  BY DEF Receive, TypeOK
<1>7. TypeOK'
  BY <1>5, <1>6 DEF TypeOK, world
<1>8. ViewsAgree'
  BY <1>6 DEF ViewsAgree, Hears, world
<1>9. QED
  BY <1>7, <1>8

\* A tick of the timer.
LEMMA TimerViews ==
  ASSUME TypeOK, ViewsAgree, TimerProcessPacket
  PROVE  TypeOK' /\ ViewsAgree'
<1>0. WorldOK
  BY DEF TypeOK, WorldOK
<1>1. CASE TakeData
  <2> DEFINE s == Head(incoming)
  <2>1. incoming # <<>> /\ s \in Slots /\ incoming' \in Seq(Slots)
    BY <1>1 DEF TakeData, TypeOK
  <2>2. /\ unread[s] \in Seq(Packets) /\ unread[s] # <<>>
        /\ ProcessRecvPacket(s, Head(unread[s]))
        /\ unread' = [unread EXCEPT ![s] = Tail(@)]
        /\ UNCHANGED <<connected, closing, sessions, system_packet_queue_>>
        /\ timer' = "system"
    BY <1>1, <2>1 DEF TakeData, TypeOK
  <2>3. Head(unread[s]) \in Packets /\ Tail(unread[s]) \in Seq(Packets)
    BY <2>2
  <2>4. unread' \in [Slots -> Seq(Packets)]
    BY <2>1, <2>2, <2>3 DEF TypeOK
  <2>5. WorldOK' /\ ViewsAgree'
    BY <1>0, <2>1, <2>2, <2>3, HandlerViews
  <2>6. TypeOK'
    BY <2>1, <2>2, <2>4, <2>5 DEF TypeOK, WorldOK
  <2>7. QED
    BY <2>5, <2>6
<1>2. CASE TakeNoData
  <2>1. incoming' \in Seq(Slots)
    BY <1>2 DEF TakeNoData, TypeOK
  <2>2. QED
    BY <1>2, <2>1 DEF TakeNoData, TypeOK, ViewsAgree, Hears, session, world
<1>3. CASE TakeSystem
  <2>1. system_packet_queue_' \in Seq(SystemPackets) /\ UNCHANGED unread
    BY <1>3 DEF TakeSystem, ProcessUserDisConnect, TypeOK
  <2>2. QED
    BY <1>3, <2>1 DEF TakeSystem, TypeOK, ViewsAgree, Hears, session, world
<1>4. CASE TakeNoSystem
  BY <1>4 DEF TakeNoSystem, TypeOK, ViewsAgree, Hears, session, queues, world
<1>5. QED
  BY <1>1, <1>2, <1>3, <1>4 DEF TimerProcessPacket

\* Types and views together are inductive: a client's view is wrong only of players
\* that have entered again and not moved yet.
THEOREM ViewsInvariance == Spec => [](TypeOK /\ ViewsAgree)
<1>1. TypeOK /\ ViewsAgree /\ [Next]_vars => (TypeOK /\ ViewsAgree)'
  <2> SUFFICES ASSUME TypeOK, ViewsAgree, [Next]_vars PROVE TypeOK' /\ ViewsAgree'
    OBVIOUS
  <2>1. CASE \E s \in Slots : Connect(s) \/ Disconnect(s) \/ CloseAgain(s) \/ Refuse(s)
    BY <2>1, SessionViews
  <2>2. CASE \E s \in Slots : Receive(s)
    BY <2>2, ReceiveViews
  <2>3. CASE TimerProcessPacket
    BY <2>3, TimerViews
  <2>4. CASE UNCHANGED vars
    BY <2>4 DEF vars, session, queues, world, TypeOK, ViewsAgree, Hears
  <2>5. QED
    BY <2>1, <2>2, <2>3, <2>4 DEF Next
<1>2. QED
  BY InitViews, <1>1, PTL DEF Spec

\* The members of UTeemoGameInstance keep their types: what is taken from a queue
\* is a packet of a slot.
THEOREM ServerTypeCorrect == Spec => []TypeOK
  BY ViewsInvariance, PTL

\* For any slots, positions and bounds: a client that asked for the players in the
\* game knows of each the position the server has stored.
THEOREM ViewsRight == Spec => []ViewsAgree
  BY ViewsInvariance, PTL

-----------------------------------------------------------------------------
(* The inbox of each client *)

\* The entries of a client are finitely many.
LEMMA EntriesFinite ==
  ASSUME incoming \in Seq(Slots), NEW t
  PROVE  IsFiniteSet(EntriesOf(t)) /\ Cardinality(EntriesOf(t)) \in Nat
<1>1. IsFiniteSet(1 .. Len(incoming))
  BY FS_Interval
<1>2. EntriesOf(t) \in SUBSET (1 .. Len(incoming))
  BY DEF EntriesOf
<1>3. IsFiniteSet(EntriesOf(t))
  BY <1>1, <1>2, FS_Subset
<1>4. QED
  BY <1>3, FS_CardinalityType

\* EnqueuePacketData adds one entry, of the client whose data was stored.
LEMMA EntriesPushed ==
  ASSUME incoming \in Seq(Slots), NEW s \in Slots, incoming' = Append(incoming, s)
  PROVE  /\ Cardinality(EntriesOf(s))' = Cardinality(EntriesOf(s)) + 1
         /\ \A t \in Slots \ {s} : Cardinality(EntriesOf(t))' = Cardinality(EntriesOf(t))
<1> DEFINE n == Len(incoming)
<1>1. /\ n \in Nat
      /\ Len(incoming') = n + 1
      /\ incoming'[n + 1] = s
      /\ \A i \in 1 .. n : incoming'[i] = incoming[i]
  OBVIOUS
<1> HIDE DEF n
<1>2. EntriesOf(s)' = EntriesOf(s) \cup {n + 1} /\ n + 1 \notin EntriesOf(s)
  BY <1>1 DEF EntriesOf, n
<1>3. Cardinality(EntriesOf(s)') = Cardinality(EntriesOf(s)) + 1
  BY <1>2, EntriesFinite, FS_AddElement
<1>4. \A t \in Slots \ {s} : EntriesOf(t)' = EntriesOf(t)
  BY <1>1 DEF EntriesOf, n
<1>5. QED
  BY <1>3, <1>4

\* DequePacketData takes the first entry away, and the others move up.
LEMMA EntriesTaken ==
  ASSUME incoming \in Seq(Slots), incoming # <<>>, incoming' = Tail(incoming),
         NEW s \in Slots, s = Head(incoming)
  PROVE  /\ Cardinality(EntriesOf(s)) > 0
         /\ Cardinality(EntriesOf(s))' = Cardinality(EntriesOf(s)) - 1
         /\ \A t \in Slots \ {s} : Cardinality(EntriesOf(t))' = Cardinality(EntriesOf(t))
<1> DEFINE n == Len(incoming)
           Later(t) == EntriesOf(t) \ {1}
<1>1. /\ n \in Nat \ {0}
      /\ s = incoming[1]
      /\ Len(incoming') = n - 1
      /\ \A i \in 1 .. n - 1 : incoming'[i] = incoming[i + 1]
  OBVIOUS
<1> HIDE DEF n
<1>2. ASSUME NEW t
      PROVE  Cardinality(EntriesOf(t)') = Cardinality(Later(t))
  <2> DEFINE up == [i \in Later(t) |-> i - 1]
  <2>1. Later(t) = {i \in 2 .. n : incoming[i] = t}
    BY <1>1 DEF EntriesOf, n
  <2>2. EntriesOf(t)' = {i \in 1 .. n - 1 : incoming[i + 1] = t}
    BY <1>1 DEF EntriesOf, n
  <2>3. /\ \A i \in Later(t) : i \in Int /\ i - 1 \in EntriesOf(t)'
        /\ \A j \in EntriesOf(t)' : j \in Int /\ j + 1 \in Later(t) /\ j = (j + 1) - 1
    BY <1>1, <2>1, <2>2
  <2> HIDE DEF Later
  <2>4. up \in Injection(Later(t), EntriesOf(t)')
    BY <2>3 DEF Injection, IsInjective
  <2>5. up \in Surjection(Later(t), EntriesOf(t)')
    BY <2>3, <2>4 DEF Injection, Surjection
  <2>6. ExistsBijection(Later(t), EntriesOf(t)')
    BY <2>4, <2>5 DEF ExistsBijection, Bijection
  <2>7. IsFiniteSet(Later(t))
    BY EntriesFinite, FS_RemoveElement DEF Later
  <2>8. QED
    BY <2>6, <2>7, FS_Bijection
<1>3. 1 \in EntriesOf(s) /\ \A t \in Slots \ {s} : 1 \notin EntriesOf(t)
  BY <1>1 DEF EntriesOf, n
<1>4. Cardinality(Later(s)) = Cardinality(EntriesOf(s)) - 1 /\ Cardinality(EntriesOf(s)) > 0
  <2>1. IsFiniteSet(EntriesOf(s)) /\ Cardinality(EntriesOf(s)) \in Nat
    BY EntriesFinite
  <2>2. Cardinality(EntriesOf(s)) # 0
    BY <1>3, <2>1, FS_EmptySet
  <2>3. Cardinality(EntriesOf(s) \ {1}) = Cardinality(EntriesOf(s)) - 1
    BY <1>3, <2>1, FS_RemoveElement
  <2>4. QED
    BY <2>1, <2>2, <2>3
<1>5. \A t \in Slots \ {s} : Later(t) = EntriesOf(t)
  BY <1>3
<1> HIDE DEF Later
<1>6. /\ Cardinality(EntriesOf(s)') = Cardinality(EntriesOf(s)) - 1
      /\ \A t \in Slots \ {s} : Cardinality(EntriesOf(t)') = Cardinality(EntriesOf(t))
  BY <1>2, <1>4, <1>5
<1>7. QED
  BY <1>4, <1>6

\* ReceivePacketData: the packets that became complete and one entry, in the inbox of
\* the client they came from and in no other.
LEMMA ReceiveStores ==
  ASSUME TypeOK, NEW s \in Slots, Receive(s), NEW t \in Slots
  PROVE  [Box(t)!Next]_<<Len(unread[t]), Cardinality(EntriesOf(t))>>
<1>1. PICK n \in Batches : \E ps \in [1 .. n -> Packets] : Store(s, ps)
  BY DEF Receive
<1>2. PICK ps \in [1 .. n -> Packets] : Store(s, ps)
  BY <1>1
<1>3. ps \in Seq(Packets) /\ Len(ps) = n /\ n \in Nat
  <2>1. n \in Nat
    BY ServerAssumption
  <2>2. QED
    BY <2>1, LenProperties, SeqDef
<1>4. /\ incoming \in Seq(Slots) /\ incoming' = Append(incoming, s)
      /\ unread[s] \in Seq(Packets)
      /\ unread'[s] = unread[s] \o ps
      /\ t # s => unread'[t] = unread[t]
  BY <1>2 DEF Store, TypeOK
<1>5. CASE t = s
  <2>1. Len(unread'[s]) = Len(unread[s]) + n /\ Len(unread[s]) \in Nat
    BY <1>3, <1>4, ConcatProperties, LenProperties
  <2>2. Cardinality(EntriesOf(s))' = Cardinality(EntriesOf(s)) + 1
    BY <1>4, EntriesPushed
  <2>3. QED
    BY <1>3, <1>5, <2>1, <2>2 DEF Box!Next, Box!Store
<1>6. CASE t # s
  BY <1>4, <1>6, EntriesPushed
<1>7. QED
  BY <1>5, <1>6

\* The timer takes one entry and with it one packet of the entry's client, none if that
\* client has none.
LEMMA TimerTakes ==
  ASSUME TypeOK, TimerProcessPacket, NEW t \in Slots
  PROVE  [Box(t)!Next]_<<Len(unread[t]), Cardinality(EntriesOf(t))>>
<1>1. incoming \in Seq(Slots) /\ unread \in [Slots -> Seq(Packets)]
  BY DEF TypeOK
<1>2. ASSUME UNCHANGED <<unread, incoming>>
      PROVE  [Box(t)!Next]_<<Len(unread[t]), Cardinality(EntriesOf(t))>>
  BY <1>2 DEF EntriesOf
<1>3. ASSUME NEW s \in Slots, incoming # <<>>, s = Head(incoming), incoming' = Tail(incoming),
             \A r \in Slots \ {s} : unread'[r] = unread[r],
             \/ unread[s] # <<>> /\ unread'[s] = Tail(unread[s])
             \/ unread[s] = <<>> /\ unread'[s] = <<>>
      PROVE  [Box(t)!Next]_<<Len(unread[t]), Cardinality(EntriesOf(t))>>
  <2>1. /\ Cardinality(EntriesOf(s)) > 0
        /\ Cardinality(EntriesOf(s))' = Cardinality(EntriesOf(s)) - 1
        /\ t # s => Cardinality(EntriesOf(t))' = Cardinality(EntriesOf(t))
    BY <1>1, <1>3, EntriesTaken
  <2>2. Len(unread'[s]) = IF Len(unread[s]) > 0 THEN Len(unread[s]) - 1 ELSE 0
    <3>1. unread[s] \in Seq(Packets)
      BY <1>1
    <3>2. CASE unread[s] # <<>>
      <4>1. unread'[s] = Tail(unread[s])
        BY <1>3, <3>2
      <4>2. Len(Tail(unread[s])) = Len(unread[s]) - 1 /\ Len(unread[s]) \in Nat \ {0}
        BY <3>1, <3>2, HeadTailProperties, EmptySeq
      <4>3. QED
        BY <4>1, <4>2
    <3>3. CASE unread[s] = <<>>
      BY <1>3, <3>3, EmptySeq
    <3>4. QED
      BY <3>2, <3>3
  <2>3. CASE t = s
    BY <2>1, <2>2, <2>3 DEF Box!Next, Box!Take
  <2>4. CASE t # s
    BY <1>3, <2>1, <2>4
  <2>5. QED
    BY <2>3, <2>4
<1>4. CASE incoming # <<>> /\ (TakeData \/ TakeNoData)
  <2>1. PICK s \in Slots : s = Head(incoming)
    BY <1>1, <1>4
  <2>2. CASE TakeData
    <3>1. /\ incoming' = Tail(incoming)
          /\ unread[s] # <<>> /\ unread' = [unread EXCEPT ![s] = Tail(@)]
      BY <2>1, <2>2 DEF TakeData
    <3>2. unread'[s] = Tail(unread[s]) /\ \A r \in Slots \ {s} : unread'[r] = unread[r]
      BY <1>1, <3>1
    <3>3. QED
      BY <1>3, <1>4, <2>1, <3>1, <3>2
  <2>3. CASE TakeNoData
    BY <1>3, <1>4, <2>1, <2>3 DEF TakeNoData
  <2>4. QED
    BY <1>4, <2>2, <2>3
<1>5. CASE incoming = <<>> /\ (TakeData \/ TakeNoData)
  BY <1>2, <1>5 DEF TakeData, TakeNoData
<1>6. CASE TakeSystem \/ TakeNoSystem
  BY <1>2, <1>6 DEF TakeSystem, TakeNoSystem, ProcessUserDisConnect, queues
<1>7. QED
  BY <1>4, <1>5, <1>6 DEF TimerProcessPacket

\* For any number of clients and any sizes of receives: through the one queue of entries
\* each client gets an inbox of its own, as the buffer of each gives it (PacketBuffer).
THEOREM InboxRefinement == Spec => RefinesInbox
<1>1. Init => \A s \in Slots : Box(s)!Init
  <2>1. ASSUME Init, NEW s \in Slots
        PROVE  Len(unread[s]) = 0 /\ EntriesOf(s) = {}
    BY <2>1 DEF Init, EntriesOf
  <2>2. QED
    BY <2>1, FS_EmptySet DEF Box!Init
<1>2. TypeOK /\ [Next]_vars =>
        [\A s \in Slots : [Box(s)!Next]_<<Len(unread[s]), Cardinality(EntriesOf(s))>>]_<<unread, incoming>>
  <2> SUFFICES ASSUME TypeOK, [Next]_vars, NEW t \in Slots, ~UNCHANGED <<unread, incoming>>
               PROVE  [Box(t)!Next]_<<Len(unread[t]), Cardinality(EntriesOf(t))>>
    OBVIOUS
  <2>1. CASE \E s \in Slots : Receive(s)
    BY <2>1, ReceiveStores
  <2>2. CASE TimerProcessPacket
    BY <2>2, TimerTakes
  <2>3. CASE \E s \in Slots : Connect(s) \/ Disconnect(s) \/ CloseAgain(s) \/ Refuse(s)
    BY <2>3 DEF Connect, Disconnect, CloseAgain, Refuse, queues
  <2>4. QED
    BY <2>1, <2>2, <2>3 DEF Next, vars, queues
<1>3. QED
  BY <1>1, <1>2, ServerTypeCorrect, PTL DEF Spec, RefinesInbox

-----------------------------------------------------------------------------
(* The slots *)

\* What a handler sends blocks a slot or leaves all as they are.
LEMMA HandlerSends ==
  ASSUME TypeOK, NEW s \in Slots, NEW p \in Packets, ProcessRecvPacket(s, p), UNCHANGED connected
  PROVE  [Slot!Next]_<<connected, blocked>>
<1>1. ASSUME NEW r \in Slots, Sent(r)
      PROVE  [Slot!Next]_<<connected, blocked>>
  <2>1. connected' = [connected EXCEPT ![r] = connected[r]]
    BY DEF TypeOK
  <2>2. CASE connected[r]
    BY <1>1, <2>2 DEF Sent, TypeOK
  <2>3. CASE ~connected[r]
    <3>1. blocked' = [blocked EXCEPT ![r] = TRUE]
      BY <1>1, <2>3 DEF Sent, TypeOK
    <3>2. QED
      BY <2>1, <3>1 DEF Slot!Next, Slot!Block, Slot!Become
  <2>4. QED
    BY <2>2, <2>3
<1>2. CASE UNCHANGED blocked
  BY <1>2
<1>3. CASE ProcessLogin(s) \/ ProcessSignup(s) \/ ProocessPacketTest(s)
  BY <1>1, <1>3 DEF ProcessLogin, ProcessSignup, ProocessPacketTest, Answer
<1>4. CASE p.op = "DAMAGE" /\ ProocessInPlayerDamage(p.whom)
  BY <1>1, <1>4, PacketFacts DEF ProocessInPlayerDamage, Answer
<1>5. CASE ProocessRemotePlayerInit(s)
  BY <1>1, <1>2, <1>5 DEF ProocessRemotePlayerInit
<1>6. CASE ProcessChatting \/ ProocessInGame(s) \/ (p.op = "MOVE" /\ ProocessPlayerMove(s, p.to))
  BY <1>2, <1>6 DEF ProcessChatting, ProocessInGame, ProocessPlayerMove
<1>7. QED
  BY <1>3, <1>4, <1>5, <1>6 DEF ProcessRecvPacket

\* The game asks of the slots what the session core does (OutputRefinement of
\* IocpNetServer_proofs), its own sends to connected and to closed slots included.
THEOREM SlotsAsPromised == Spec => Slot!Spec
<1>1. Init => Slot!Init
  BY DEF Init, Slot!Init
<1>2. TypeOK /\ [Next]_vars => [Slot!Next]_<<connected, blocked>>
  <2> SUFFICES ASSUME TypeOK, [Next]_vars
               PROVE  [Slot!Next]_<<connected, blocked>>
    OBVIOUS
  <2>1. CASE \E s \in Slots : Connect(s) \/ Disconnect(s) \/ CloseAgain(s) \/ Refuse(s)
    BY <2>1 DEF Connect, Disconnect, CloseAgain, Refuse, Slot!Next
  <2>2. CASE TakeData
    <3>1. PICK s \in Slots : s = Head(incoming) /\ unread[s] # <<>>
      BY <2>2 DEF TakeData, TypeOK
    <3>2. unread[s] \in Seq(Packets) /\ ProcessRecvPacket(s, Head(unread[s])) /\ UNCHANGED connected
      BY <2>2, <3>1 DEF TakeData, TypeOK
    <3>3. Head(unread[s]) \in Packets
      BY <3>1, <3>2
    <3>4. QED
      BY <3>2, <3>3, HandlerSends
  <2>3. CASE UNCHANGED <<connected, blocked>>
    BY <2>3
  <2>4. QED
    BY <2>1, <2>2, <2>3 DEF Next, Receive, TimerProcessPacket, TakeNoData, TakeSystem,
                            TakeNoSystem, vars, session
<1>3. QED
  BY <1>1, <1>2, ServerTypeCorrect, PTL DEF Spec, Slot!Spec

=============================================================================
