---------------------------- MODULE RelayProofs ----------------------------
(***************************************************************************)
(* What a client receives, for any pieces, clients, connections, lengths   *)
(* of answers and buffer sizes: only what connections made for it have     *)
(* brought, in the order of those connections, and without a gap.          *)
(***************************************************************************)
EXTENDS Relay, SequenceTheorems, TLAPS

(* Where a send stands, it has something to send, and to a record.         *)
Sending ==
    /\ wpc \in {"request", "relay"} => out # <<>>
    /\ epc \in {"restart", "forward"} => msg # <<>>
    /\ map_client # NoClient => map_client.msg # <<>>

(* Responses that may reach the present client.                            *)
Mine == {r \in Response :
            r.from # NoConn => r.from \in DOMAIN opened /\ opened[r.from].client = clients}

(* What is on its way to the client, or was received by it, is its own; a  *)
(* target that may still write is one of its connections.                  *)
Owned ==
    /\ toClient \in Seq(Mine) /\ seen \in Seq(Mine) /\ fromTarget \in Seq(Mine)
    /\ wpc = "relay" => out \in Seq(Mine)
    /\ target => conn > 0 /\ opened[conn].client = clients

(* While the descriptor is closed nothing can reach it; and the worker has *)
(* ended once the teardown is over, unless it was left behind.             *)
Closed ==
    /\ epc = "stop" => fd = 0
    /\ epc = "restart" => fd # 0
    /\ fd = 0 => toClient = <<>>
    /\ fd = 0 /\ epc # "stop" /\ ~overtaken => wpc = "none" /\ fromTarget = <<>> /\ ~target

RelayInv == TypeOK /\ Sending /\ Owned /\ Closed
----------------------------------------------------------------------------
(* What recv returns of a non-empty buffer is a non-empty chunk of pieces, *)
(* and the rest is pieces too.                                             *)
LEMMA ChunkType ==
    ASSUME TypeOK, NEW n \in 1..MaxChunk, Recv(n)
    PROVE  /\ Chunk(n) \in Seq(Piece) /\ Chunk(n) # <<>>
           /\ fromClient' \in Seq(Piece)
<1>1. n \in Nat /\ 1 <= n /\ n <= Len(fromClient) /\ fromClient \in Seq(Piece)
    BY RelayAssumption DEF Recv, TypeOK, ClientSocketType
<1>2. Chunk(n) \in Seq(Piece) /\ Len(Chunk(n)) = n
    BY <1>1 DEF Chunk
<1>3. fromClient' \in Seq(Piece)
    BY <1>1 DEF Recv
<1> QED
    BY <1>1, <1>2, <1>3

(* The name found in a chunk is one that a piece carries.                  *)
LEMMA NameType ==
    ASSUME NEW chunk \in Seq(Piece), chunk # <<>>
    PROVE  Name(chunk) \in TargetNames
<1>1. Head(chunk) \in Piece
    OBVIOUS
<1>2. CASE ~Some(chunk, "host")
    BY <1>1, <1>2 DEF Name, Piece, TargetNames
<1>3. CASE Some(chunk, "host")
    <2> DEFINE k == CHOOSE i \in DOMAIN chunk : IsFirst(chunk, i, "host")
    <2>1. k \in DOMAIN chunk
        BY <1>3 DEF Some
    <2>2. FirstWith(chunk, "host") \in Piece
        BY <2>1 DEF FirstWith
    <2> QED
        BY <1>3, <2>2 DEF Name, Piece, TargetNames
<1> QED
    BY <1>2, <1>3

(* A record is made of the first chunk.                                    *)
LEMMA InsertedRecord ==
    ASSUME TypeOK, NEW n \in 1..MaxChunk, Insert(n)
    PROVE  /\ map_client' \in MapClient /\ map_client' # NoClient
           /\ map_client'.flag = 0 /\ map_client'.msg = Chunk(n)
<1>1. Chunk(n) \in Seq(Piece) /\ Chunk(n) # <<>>
    BY ChunkType DEF Insert
<1>2. map_client' \in MapClient
    BY <1>1, NameType DEF Insert, MapClient, NoConn, Dropped, get_action, TF_GET, TF_POST, TF_CONNECT
<1> QED
    BY <1>2, NoClientAssumption DEF Insert

(* It stays a record when it is marked or gets another message.            *)
LEMMA ChangedRecord ==
    ASSUME TypeOK
    PROVE  /\ Begin =>
                /\ map_client' \in MapClient /\ map_client' # NoClient
                /\ map_client'.flag = MAP_CREATE_THREAD /\ map_client'.msg = map_client.msg
           /\ Connected =>
                /\ map_client' \in MapClient /\ map_client' # NoClient
                /\ map_client'.flag = MAP_CONNECT_SUCCESS /\ map_client'.msg = map_client.msg
           /\ ConnectFails =>
                /\ map_client' \in MapClient /\ map_client' # NoClient
                /\ map_client'.flag = MAP_CONNECT_FAILED /\ map_client'.msg = map_client.msg
           /\ MarkReconnect =>
                /\ map_client' \in MapClient /\ map_client' # NoClient
                /\ map_client'.flag = MAP_RECONNECT /\ map_client'.msg = map_client.msg
           /\ ForgetTarget =>
                /\ map_client' \in MapClient /\ map_client' # NoClient
                /\ map_client'.flag = map_client.flag /\ map_client'.msg = map_client.msg
           /\ Restart =>
                /\ map_client' \in MapClient /\ map_client' # NoClient
                /\ map_client'.flag = MAP_RECONNECT /\ map_client'.msg = msg
<1> USE DEF TypeOK, LoopType
<1>1. ASSUME Connected
      PROVE  /\ map_client' \in MapClient
             /\ map_client'.flag = MAP_CONNECT_SUCCESS /\ map_client'.msg = map_client.msg
    <2>1. map_client \in MapClient /\ conn + 1 \in Nat
        BY <1>1 DEF Connected, RemoteType, conn
    <2>2. map_client' = [map_client EXCEPT !.flag = MAP_CONNECT_SUCCESS, !.connect_fd = conn + 1]
        BY <1>1 DEF Connected
    <2> QED
        BY <2>1, <2>2 DEF MapClient
<1>2. ASSUME ConnectFails
      PROVE  /\ map_client' \in MapClient
             /\ map_client'.flag = MAP_CONNECT_FAILED /\ map_client'.msg = map_client.msg
    BY <1>2 DEF ConnectFails, MapClient
<1>3. ASSUME MarkReconnect
      PROVE  /\ map_client' \in MapClient
             /\ map_client'.flag = MAP_RECONNECT /\ map_client'.msg = map_client.msg
    BY <1>3 DEF MarkReconnect, MapClient
<1>4. ASSUME Restart
      PROVE  /\ map_client' \in MapClient
             /\ map_client'.flag = MAP_RECONNECT /\ map_client'.msg = msg
    <2>1. map_client \in MapClient /\ msg \in Seq(Piece) /\ map_client.flag = MAP_RECONNECT
        BY <1>4 DEF Restart, InTime
    <2>2. map_client' = [map_client EXCEPT !.msg = msg]
        BY <1>4 DEF Restart
    <2> QED
        BY <2>1, <2>2 DEF MapClient
<1>5. ASSUME Begin
      PROVE  /\ map_client' \in MapClient
             /\ map_client'.flag = MAP_CREATE_THREAD /\ map_client'.msg = map_client.msg
    BY <1>5 DEF Begin, MapClient
<1>6. ASSUME ForgetTarget
      PROVE  /\ map_client' \in MapClient
             /\ map_client'.flag = map_client.flag /\ map_client'.msg = map_client.msg
    BY <1>6 DEF ForgetTarget, MapClient, NoConn
<1> QED
    BY <1>1, <1>2, <1>3, <1>4, <1>5, <1>6, NoClientAssumption
----------------------------------------------------------------------------
(* What queues of elements of S are made of and what is taken from them.   *)
LEMMA Queues ==
    ASSUME NEW S
    PROVE  /\ << >> \in Seq(S)
           /\ \A s \in Seq(S), e \in S : Append(s, e) \in Seq(S)
           /\ \A s \in Seq(S) : s # << >> =>
                Head(s) \in S /\ Tail(s) \in Seq(S) /\ (Tail(s) = << >> <=> Len(s) = 1)
<1>1. ASSUME NEW s \in Seq(S), s # << >>
      PROVE  Head(s) \in S /\ Tail(s) \in Seq(S) /\ (Tail(s) = << >> <=> Len(s) = 1)
    <2>1. Head(s) \in S /\ Tail(s) \in Seq(S) /\ Len(Tail(s)) = Len(s) - 1
        BY <1>1, HeadTailProperties
    <2>2. Len(s) \in Nat /\ (Tail(s) = << >> <=> Len(Tail(s)) = 0)
        BY <2>1, EmptySeq, LenProperties
    <2> QED
        BY <2>1, <2>2
<1> QED
    BY <1>1, EmptySeq, AppendProperties

(* So is what recv takes from them, and what it leaves.                    *)
LEMMA Parts ==
    ASSUME NEW S, NEW s \in Seq(S), NEW n \in Nat, 1 <= n, n <= Len(s)
    PROVE  /\ SubSeq(s, 1, n) \in Seq(S) /\ SubSeq(s, 1, n) # << >>
           /\ SubSeq(s, n + 1, Len(s)) \in Seq(S)
<1>1. SubSeq(s, 1, n) \in Seq(S) /\ Len(SubSeq(s, 1, n)) = n
    OBVIOUS
<1>2. SubSeq(s, n + 1, Len(s)) \in Seq(S)
    OBVIOUS
<1> QED
    BY <1>1, <1>2
----------------------------------------------------------------------------
(* What an action leaves alone keeps its type.                             *)
LEMMA SameTypes ==
    ASSUME TypeOK
    PROVE  /\ UNCHANGED client => ClientType'
           /\ UNCHANGED clientSocket => ClientSocketType'
           /\ UNCHANGED loop => LoopType'
           /\ UNCHANGED worker => WorkerType'
           /\ UNCHANGED remote => RemoteType'
<1>1. UNCHANGED client => ClientType'
    BY DEF TypeOK, client, ClientType
<1>2. UNCHANGED clientSocket => ClientSocketType'
    BY DEF TypeOK, clientSocket, ClientSocketType
<1>3. UNCHANGED loop => LoopType'
    BY DEF TypeOK, loop, LoopType, MapClient
<1>4. UNCHANGED worker => WorkerType'
    BY DEF TypeOK, worker, WorkerType, Piece, Response
<1>5. UNCHANGED remote => RemoteType'
    BY DEF TypeOK, remote, RemoteType
<1> QED
    BY <1>1, <1>2, <1>3, <1>4, <1>5

(* The responses of the present client stay the same while no connection   *)
(* is made and no client accepted.                                         *)
LEMMA SameMine ==
    ASSUME UNCHANGED <<opened, clients>>
    PROVE  Mine' = Mine /\ conn' = conn
BY DEF Mine, conn

(* A new connection leaves the responses of the present client its own.    *)
LEMMA OpenKeepsMine ==
    ASSUME RemoteType, Open, UNCHANGED clients
    PROVE  Mine \subseteq Mine' /\ conn' = conn + 1 /\ opened'[conn'].client = clients
<1>1. DOMAIN opened = 1..conn /\ conn \in Nat
    BY DEF RemoteType, conn
<1>2. conn' = conn + 1 /\ DOMAIN opened' = 1..(conn + 1)
    BY <1>1 DEF conn, Open, RemoteType
<1>3. opened'[conn + 1].client = clients
    BY <1>1 DEF conn, Open, RemoteType
<1>4. \A i \in 1..conn : opened'[i] = opened[i]
    BY <1>1 DEF conn, Open, RemoteType
<1>5. \A r \in Mine : r \in Mine'
    BY <1>1, <1>2, <1>4 DEF Mine
<1> QED
    BY <1>2, <1>3, <1>5

(* Established may go to any client.                                       *)
LEMMA EstablishedMine == Established \in Mine
BY DEF Established, Mine, Response, NoConn

(* Nothing has happened yet.                                               *)
LEMMA InitRelay == Init => RelayInv
<1> SUFFICES ASSUME Init PROVE RelayInv
    OBVIOUS
<1>1. ClientType /\ ClientSocketType
    BY Queues DEF Init, ClientType, ClientSocketType
<1>2. LoopType /\ WorkerType
    BY Queues DEF Init, LoopType, WorkerType
<1>3. RemoteType
    BY Queues DEF Init, RemoteType
<1>4. Sending /\ Owned /\ Closed
    BY Queues DEF Init, Sending, Owned, Closed
<1> QED
    BY <1>1, <1>2, <1>3, <1>4 DEF RelayInv, TypeOK, Init

(* Whether the event loop has gone on without its worker is always known.  *)
LEMMA OvertakenType ==
    ASSUME TypeOK, [Next]_vars
    PROVE  overtaken' \in BOOLEAN
<1> USE DEF TypeOK
<1>1. ASSUME NEW n \in 1..MaxChunk,
             \/ Ignore(n) \/ Refuse(n) \/ Insert(n) \/ Process(n)
             \/ DropWhileConnecting(n) \/ Reconnect(n) \/ GiveUp(n)
      PROVE  UNCHANGED overtaken
    BY <1>1
    DEF Ignore, Refuse, Insert, Process, DropWhileConnecting, Reconnect, GiveUp, Recv
<1>2. CASE EventLoop
    BY <1>1, <1>2
    DEF EventLoop, ClientGone, Restart, RestartTooEarly, ReplyEstablished, Forward, CloseClient,
        StopWorker, LeaveWorker
<1>3. CASE Worker
    BY <1>3
    DEF Worker, Begin, Connected, ConnectFails, SendRequest, SendReply, TargetGone, MarkReconnect,
        ForgetTarget, RecvTarget, WGoto
<1>4. CASE Target \/ ClientListens \/ Others \/ UNCHANGED vars
    BY <1>4
    DEF Target, TargetReads, TargetReplies, ClientListens, ClientReads, Others, Accept, ClientWrites,
        ClientCloses, TargetCloses, vars
<1> QED
    BY <1>2, <1>3, <1>4 DEF Next

(* The clients write, read, close and come.                                *)
LEMMA ClientKeeps ==
    ASSUME RelayInv, ~overtaken, overtaken' \in BOOLEAN,
           ClientWrites \/ ClientReads \/ ClientCloses \/ Accept
    PROVE  RelayInv'
<1> USE DEF RelayInv, TypeOK, client, clientSocket, loop, worker, remote
<1>1. CASE ClientWrites
    <2>1. \E p \in Piece : fromClient' = Append(fromClient, p)
        BY <1>1, RelayAssumption DEF ClientWrites, ClientType, Piece, TargetNames
    <2>2. LoopType' /\ WorkerType' /\ RemoteType'
        BY <1>1, SameTypes DEF ClientWrites
    <2>3. ClientType'
        BY <1>1, <2>1 DEF ClientType, ClientWrites, Awaited
    <2>4. ClientSocketType'
        BY <1>1, <2>1 DEF ClientSocketType, ClientWrites
    <2>5. Sending'
        BY <1>1, <2>1 DEF Sending, ClientWrites
    <2>6. Owned'
        BY <1>1, SameMine, <2>1 DEF Owned, ClientWrites
    <2>7. Closed'
        BY <1>1, <2>1 DEF Closed, ClientWrites
    <2> QED
        BY <2>2, <2>3, <2>4, <2>5, <2>6, <2>7
<1>2. CASE ClientReads
    <2>1. LoopType' /\ WorkerType' /\ RemoteType'
        BY <1>2, SameTypes DEF ClientReads
    <2>2. ClientType'
        BY <1>2 DEF ClientType, ClientReads
    <2>3. ClientSocketType'
        BY <1>2 DEF ClientSocketType, ClientReads
    <2>4. Sending'
        BY <1>2 DEF Sending, ClientReads
    <2>5. Owned'
        BY <1>2, SameMine DEF Owned, ClientReads
    <2>6. Closed'
        BY <1>2 DEF Closed, ClientReads
    <2> QED
        BY <2>1, <2>2, <2>3, <2>4, <2>5, <2>6
<1>3. CASE ClientCloses
    <2>1. LoopType' /\ WorkerType' /\ RemoteType'
        BY <1>3, SameTypes DEF ClientCloses
    <2>2. ClientType'
        BY <1>3 DEF ClientType, ClientCloses
    <2>3. ClientSocketType'
        BY <1>3, Queues DEF ClientSocketType, ClientCloses
    <2>4. Sending'
        BY <1>3 DEF Sending, ClientCloses
    <2>5. Owned'
        BY <1>3, SameMine DEF Owned, ClientCloses
    <2>6. Closed'
        BY <1>3 DEF Closed, ClientCloses
    <2> QED
        BY <2>1, <2>2, <2>3, <2>4, <2>5, <2>6
<1>4. CASE Accept
    <2>1. LoopType' /\ WorkerType' /\ RemoteType'
        BY <1>4, SameTypes DEF Accept
    <2>2. ClientType'
        BY <1>4 DEF ClientType, Accept
    <2>3. ClientSocketType'
        BY <1>4 DEF ClientSocketType, Accept
    <2>4. Sending'
        BY <1>4 DEF Sending, Accept
    <2>5. Owned'
        BY <1>4 DEF Accept, Owned, Closed, conn
    <2>6. Closed'
        BY <1>4 DEF Closed, Accept
    <2> QED
        BY <2>1, <2>2, <2>3, <2>4, <2>5, <2>6
<1> QED
    BY <1>1, <1>2, <1>3, <1>4

(* The target reads, replies and closes.                                   *)
LEMMA TargetKeeps ==
    ASSUME RelayInv, ~overtaken, overtaken' \in BOOLEAN,
           TargetReads \/ TargetReplies \/ TargetCloses
    PROVE  RelayInv'
<1> USE DEF RelayInv, TypeOK, client, clientSocket, loop, worker, remote
<1>1. CASE TargetReads
    <2>1. Head(toTarget) \in Piece /\ Tail(toTarget) \in Seq(Piece) /\ conn \in Nat
        BY <1>1 DEF TargetReads, RemoteType, conn
    <2>2. [id |-> Head(toTarget).id, conn |-> conn] \in [id : Nat, conn : Nat]
        BY <2>1 DEF Piece
    <2>3. ClientType' /\ ClientSocketType' /\ LoopType' /\ WorkerType'
        BY <1>1, SameTypes DEF TargetReads
    <2>4. RemoteType'
        BY <1>1, <2>1, <2>2, RelayAssumption DEF RemoteType, TargetReads
    <2>5. Sending'
        BY <1>1, <2>1, <2>2 DEF Sending, TargetReads
    <2>6. Owned'
        BY <1>1, SameMine, <2>1, <2>2 DEF Owned, TargetReads
    <2>7. Closed'
        BY <1>1, <2>1, <2>2 DEF Closed, TargetReads
    <2> QED
        BY <2>3, <2>4, <2>5, <2>6, <2>7
<1>2. CASE TargetReplies
    <2>1. said' \in Nat /\ conn \in DOMAIN opened /\ opened[conn].client = clients
        BY <1>2 DEF TargetReplies, RemoteType, Owned, conn
    <2>2. Reply(conn, said') \in Mine /\ Reply(conn, said') \in Response
        BY <2>1 DEF Reply, Mine, Response, RemoteType
    <2>3. ClientType' /\ ClientSocketType' /\ LoopType' /\ WorkerType'
        BY <1>2, SameTypes DEF TargetReplies
    <2>4. RemoteType'
        BY <1>2, <2>1, <2>2 DEF RemoteType, TargetReplies
    <2>5. Sending'
        BY <1>2, <2>1, <2>2 DEF Sending, TargetReplies
    <2>6. Owned'
        BY <1>2, SameMine, <2>1, <2>2 DEF Owned, TargetReplies
    <2>7. Closed'
        BY <1>2, <2>1, <2>2 DEF Closed, TargetReplies
    <2> QED
        BY <2>3, <2>4, <2>5, <2>6, <2>7
<1>3. CASE TargetCloses
    <2>1. ClientType' /\ ClientSocketType' /\ LoopType' /\ WorkerType'
        BY <1>3, SameTypes DEF TargetCloses
    <2>2. RemoteType'
        BY <1>3, Queues DEF RemoteType, TargetCloses
    <2>3. Sending'
        BY <1>3 DEF Sending, TargetCloses
    <2>4. Owned'
        BY <1>3, SameMine, Queues DEF Owned, TargetCloses
    <2>5. Closed'
        BY <1>3 DEF Closed, TargetCloses
    <2> QED
        BY <2>1, <2>2, <2>3, <2>4, <2>5
<1> QED
    BY <1>1, <1>2, <1>3

(* The event loop takes a chunk from the client.                           *)
LEMMA RecvKeeps ==
    ASSUME RelayInv, ~overtaken, overtaken' \in BOOLEAN, NEW n \in 1..MaxChunk,
           \/ Ignore(n) \/ Refuse(n) \/ Insert(n) \/ Process(n)
           \/ DropWhileConnecting(n) \/ Reconnect(n) \/ GiveUp(n)
    PROVE  RelayInv'
<1> USE DEF RelayInv, TypeOK, client, clientSocket, loop, worker, remote
<1>1. CASE Ignore(n)
    <2>1. Chunk(n) \in Seq(Piece) /\ Chunk(n) # <<>> /\ fromClient' \in Seq(Piece)
        BY <1>1, ChunkType DEF Ignore
    <2>2. ClientType' /\ LoopType' /\ WorkerType' /\ RemoteType'
        BY <1>1, SameTypes DEF Ignore, Recv
    <2>3. ClientSocketType'
        BY <1>1, <2>1 DEF ClientSocketType, Ignore, Recv
    <2>4. Sending'
        BY <1>1, <2>1 DEF Sending, Ignore
    <2>5. Owned'
        BY <1>1, SameMine, <2>1 DEF Owned, Ignore, Recv
    <2>6. Closed'
        BY <1>1, <2>1 DEF Closed, Ignore, Recv
    <2> QED
        BY <2>2, <2>3, <2>4, <2>5, <2>6
<1>2. CASE DropWhileConnecting(n)
    <2>1. Chunk(n) \in Seq(Piece) /\ Chunk(n) # <<>> /\ fromClient' \in Seq(Piece)
        BY <1>2, ChunkType DEF DropWhileConnecting
    <2>2. ClientType' /\ LoopType' /\ WorkerType' /\ RemoteType'
        BY <1>2, SameTypes DEF DropWhileConnecting, Recv
    <2>3. ClientSocketType'
        BY <1>2, <2>1 DEF ClientSocketType, DropWhileConnecting, Recv
    <2>4. Sending'
        BY <1>2, <2>1 DEF Sending, DropWhileConnecting
    <2>5. Owned'
        BY <1>2, SameMine, <2>1 DEF Owned, DropWhileConnecting, Recv
    <2>6. Closed'
        BY <1>2, <2>1 DEF Closed, DropWhileConnecting, Recv
    <2> QED
        BY <2>2, <2>3, <2>4, <2>5, <2>6
<1>3. CASE Refuse(n)
    <2>1. Chunk(n) \in Seq(Piece) /\ Chunk(n) # <<>> /\ fromClient' \in Seq(Piece)
        BY <1>3, ChunkType DEF Refuse
    <2>2. ClientType' /\ WorkerType' /\ RemoteType'
        BY <1>3, SameTypes DEF Refuse, Recv
    <2>3. ClientSocketType'
        BY <1>3, <2>1 DEF ClientSocketType, Refuse, Recv
    <2>4. LoopType'
        BY <1>3, Queues, <2>1 DEF LoopType, MapClient, Refuse, Recv, ELGoto
    <2>5. Sending'
        BY <1>3, Queues, <2>1 DEF Sending, Refuse, Recv, ELGoto
    <2>6. Owned'
        BY <1>3, SameMine, Queues, <2>1 DEF Owned, Refuse, Recv, ELGoto
    <2>7. Closed'
        BY <1>3, <2>1 DEF Closed, Refuse, Recv, ELGoto
    <2> QED
        BY <2>2, <2>3, <2>4, <2>5, <2>6, <2>7
<1>4. CASE GiveUp(n)
    <2>1. Chunk(n) \in Seq(Piece) /\ Chunk(n) # <<>> /\ fromClient' \in Seq(Piece)
        BY <1>4, ChunkType DEF GiveUp
    <2>2. ClientType' /\ WorkerType' /\ RemoteType'
        BY <1>4, SameTypes DEF GiveUp, Recv
    <2>3. ClientSocketType'
        BY <1>4, Queues, <2>1 DEF ClientSocketType, GiveUp, Recv, ELGoto
    <2>4. LoopType'
        BY <1>4, Queues, <2>1 DEF LoopType, MapClient, GiveUp, Recv, ELGoto
    <2>5. Sending'
        BY <1>4, <2>1 DEF Sending, GiveUp, ELGoto
    <2>6. Owned'
        BY <1>4, SameMine, <2>1 DEF Owned, GiveUp, Recv
    <2>7. Closed'
        BY <1>4, <2>1 DEF Closed, GiveUp, Recv, ELGoto
    <2> QED
        BY <2>2, <2>3, <2>4, <2>5, <2>6, <2>7
<1>5. CASE Process(n)
    <2>1. Chunk(n) \in Seq(Piece) /\ Chunk(n) # <<>> /\ fromClient' \in Seq(Piece)
        BY <1>5, ChunkType DEF Process
    <2>2. ClientType' /\ WorkerType' /\ RemoteType'
        BY <1>5, SameTypes DEF Process, Recv
    <2>3. ClientSocketType'
        BY <1>5, <2>1 DEF ClientSocketType, Process, Recv
    <2>4. LoopType'
        BY <1>5, <2>1 DEF LoopType, Process, ELGoto
    <2>5. Sending'
        BY <1>5, <2>1 DEF Sending, Process, ELGoto
    <2>6. Owned'
        BY <1>5, SameMine, <2>1 DEF Owned, Process, Recv
    <2>7. Closed'
        BY <1>5, <2>1 DEF Closed, Process, Recv, ELGoto
    <2> QED
        BY <2>2, <2>3, <2>4, <2>5, <2>6, <2>7
<1>6. CASE Insert(n)
    <2>1. Chunk(n) \in Seq(Piece) /\ Chunk(n) # <<>> /\ fromClient' \in Seq(Piece)
        BY <1>6, ChunkType DEF Insert
    <2>2. map_client' \in MapClient /\ map_client'.msg # <<>>
        BY <1>6, <2>1, InsertedRecord
    <2>3. ClientType' /\ RemoteType'
        BY <1>6, SameTypes DEF Insert, Recv
    <2>4. ClientSocketType'
        BY <1>6, <2>1, <2>2 DEF ClientSocketType, Insert, Recv
    <2>5. LoopType'
        BY <1>6, <2>1, <2>2 DEF LoopType, Insert
    <2>6. WorkerType'
        BY <1>6, <2>1, <2>2 DEF WorkerType, Insert
    <2>7. Sending'
        BY <1>6, <2>1, <2>2 DEF Sending, Insert
    <2>8. Owned'
        BY <1>6, SameMine, <2>1, <2>2 DEF Owned, Insert, Recv
    <2>9. Closed'
        BY <1>6, <2>1, <2>2 DEF Closed, Insert, Recv
    <2> QED
        BY <2>3, <2>4, <2>5, <2>6, <2>7, <2>8, <2>9
<1>7. CASE Reconnect(n)
    <2>1. Chunk(n) \in Seq(Piece) /\ Chunk(n) # <<>> /\ fromClient' \in Seq(Piece)
        BY <1>7, ChunkType DEF Reconnect
    <2>2. ClientType' /\ WorkerType' /\ RemoteType'
        BY <1>7, SameTypes DEF Reconnect, Recv
    <2>3. ClientSocketType'
        BY <1>7, <2>1 DEF ClientSocketType, Reconnect, Recv
    <2>4. LoopType'
        BY <1>7, <2>1 DEF LoopType, Reconnect, ELGoto
    <2>5. Sending'
        BY <1>7, <2>1 DEF Sending, Reconnect, ELGoto
    <2>6. Owned'
        BY <1>7, SameMine, <2>1 DEF Owned, Reconnect, Recv
    <2>7. Closed'
        BY <1>7, <2>1 DEF Closed, Reconnect, Recv, ELGoto
    <2> QED
        BY <2>2, <2>3, <2>4, <2>5, <2>6, <2>7
<1> QED
    BY <1>1, <1>2, <1>3, <1>4, <1>5, <1>6, <1>7

(* The event loop sends, and tears the session down.                       *)
LEMMA LoopKeeps ==
    ASSUME RelayInv, ~overtaken, overtaken' \in BOOLEAN,
           \/ ClientGone \/ Restart \/ RestartTooEarly \/ ReplyEstablished \/ Forward
           \/ CloseClient \/ StopWorker \/ LeaveWorker
    PROVE  RelayInv'
<1> USE DEF RelayInv, TypeOK, client, clientSocket, loop, worker, remote
<1>1. CASE ClientGone
    <2>1. ClientType' /\ ClientSocketType' /\ WorkerType' /\ RemoteType'
        BY <1>1, SameTypes DEF ClientGone
    <2>2. LoopType'
        BY <1>1 DEF LoopType, ClientGone, ELGoto
    <2>3. Sending'
        BY <1>1 DEF Sending, ClientGone, ELGoto
    <2>4. Owned'
        BY <1>1, SameMine DEF Owned, ClientGone
    <2>5. Closed'
        BY <1>1 DEF Closed, ClientGone, ELGoto
    <2> QED
        BY <2>1, <2>2, <2>3, <2>4, <2>5
<1>2. CASE ReplyEstablished
    <2>1. Established \in Response
        BY EstablishedMine DEF Mine
    <2>2. ClientType' /\ WorkerType' /\ RemoteType'
        BY <1>2, SameTypes DEF ReplyEstablished
    <2>3. ClientSocketType'
        BY <1>2, Queues, <2>1 DEF ClientSocketType, ReplyEstablished, SendToClient, tf_send
    <2>4. LoopType'
        BY <1>2, <2>1 DEF LoopType, ReplyEstablished, ELGoto
    <2>5. Sending'
        BY <1>2, <2>1 DEF Sending, ReplyEstablished, ELGoto
    <2>6. Owned'
        BY <1>2, SameMine, Queues, <2>1, EstablishedMine DEF Owned, ReplyEstablished, SendToClient, tf_send
    <2>7. Closed'
        BY <1>2, <2>1 DEF Closed, ReplyEstablished, ELGoto, SendToClient, tf_send
    <2> QED
        BY <2>2, <2>3, <2>4, <2>5, <2>6, <2>7
<1>3. CASE Forward
    <2>1. msg # <<>> /\ Head(msg) \in Piece /\ Tail(msg) \in Seq(Piece) /\ (Tail(msg) = <<>> <=> Len(msg) = 1)
        BY <1>3, Queues DEF Forward, Sending, LoopType
    <2>2. toTarget' = Append(toTarget, Head(msg)) \/ toTarget' = toTarget
        BY <1>3 DEF Forward, SendToTarget, tf_send
    <2>3. toTarget' \in Seq(Piece)
        <3>1. toTarget \in Seq(Piece)
            BY DEF RemoteType
        <3>2. Append(toTarget, Head(msg)) \in Seq(Piece)
            BY <2>1, <3>1, AppendProperties
        <3> QED
            BY <2>2, <3>1, <3>2
    <2>4. ClientType' /\ ClientSocketType' /\ WorkerType'
        BY <1>3, SameTypes DEF Forward
    <2>5. LoopType'
        BY <1>3, <2>1, <2>2, <2>3 DEF LoopType, Forward, ELGoto
    <2>6. RemoteType'
        BY <1>3, <2>3 DEF Forward, RemoteType
    <2>7. Sending'
        BY <1>3, <2>1, <2>2, <2>3 DEF Sending, Forward, ELGoto
    <2>8. Owned'
        BY <1>3, SameMine, <2>1, <2>2, <2>3 DEF Owned, Forward
    <2>9. Closed'
        BY <1>3, <2>1, <2>2, <2>3 DEF Closed, Forward, ELGoto
    <2> QED
        BY <2>4, <2>5, <2>6, <2>7, <2>8, <2>9
<1>4. CASE CloseClient
    <2>1. WorkerType' /\ RemoteType'
        BY <1>4, SameTypes DEF CloseClient
    <2>2. ClientType'
        BY <1>4 DEF ClientType, CloseClient
    <2>3. ClientSocketType'
        BY <1>4 DEF ClientSocketType, CloseClient
    <2>4. LoopType'
        BY <1>4 DEF LoopType, CloseClient, ELGoto
    <2>5. Sending'
        BY <1>4 DEF Sending, CloseClient, ELGoto
    <2>6. Owned'
        BY <1>4, SameMine DEF Owned, CloseClient
    <2>7. Closed'
        BY <1>4 DEF Closed, CloseClient, ELGoto
    <2> QED
        BY <2>1, <2>2, <2>3, <2>4, <2>5, <2>6, <2>7
<1>5. CASE StopWorker
    <2>1. ClientType' /\ ClientSocketType'
        BY <1>5, SameTypes DEF StopWorker
    <2>2. LoopType'
        BY <1>5 DEF LoopType, StopWorker, ELGoto
    <2>3. WorkerType'
        BY <1>5 DEF WorkerType, StopWorker
    <2>4. RemoteType'
        BY <1>5, Queues DEF RemoteType, StopWorker
    <2>5. Sending'
        BY <1>5 DEF Sending, StopWorker, ELGoto
    <2>6. Owned'
        BY <1>5, SameMine DEF Owned, StopWorker
    <2>7. Closed'
        BY <1>5 DEF Closed, StopWorker, ELGoto
    <2> QED
        BY <2>1, <2>2, <2>3, <2>4, <2>5, <2>6, <2>7
<1>6. CASE Restart
    <2>1. map_client' \in MapClient /\ map_client'.msg = msg /\ msg # <<>> /\ wpc' = "begin"
        BY <1>6, ChangedRecord DEF Restart, Sending
    <2>2. ClientType' /\ ClientSocketType' /\ RemoteType'
        BY <1>6, SameTypes DEF Restart
    <2>3. LoopType'
        BY <1>6, <2>1, Queues DEF LoopType, Restart, ELGoto
    <2>4. WorkerType'
        BY <1>6 DEF WorkerType, Restart, InTime
    <2>5. Sending'
        BY <1>6, <2>1 DEF Sending, Restart, ELGoto
    <2>6. Owned'
        BY <1>6, <2>1, SameMine DEF Owned, Restart
    <2>7. Closed'
        BY <1>6 DEF Closed, Restart, ELGoto
    <2> QED
        BY <2>2, <2>3, <2>4, <2>5, <2>6, <2>7
<1>7. CASE RestartTooEarly
    <2>1. ClientType' /\ ClientSocketType' /\ LoopType' /\ WorkerType' /\ RemoteType'
        BY <1>7, SameTypes DEF RestartTooEarly
    <2>2. Sending'
        BY <1>7 DEF Sending, RestartTooEarly
    <2>3. Owned'
        BY <1>7, SameMine DEF Owned, RestartTooEarly
    <2>4. Closed'
        BY <1>7 DEF Closed, RestartTooEarly
    <2> QED
        BY <2>1, <2>2, <2>3, <2>4
<1>8. CASE LeaveWorker
    <2>1. ClientType' /\ ClientSocketType' /\ WorkerType' /\ RemoteType'
        BY <1>8, SameTypes DEF LeaveWorker
    <2>2. LoopType'
        BY <1>8, Queues DEF LoopType, LeaveWorker, ELGoto
    <2>3. Sending'
        BY <1>8 DEF Sending, LeaveWorker, ELGoto
    <2>4. Owned'
        BY <1>8, SameMine DEF Owned, LeaveWorker
    <2>5. Closed'
        BY <1>8 DEF Closed, LeaveWorker, ELGoto
    <2> QED
        BY <2>1, <2>2, <2>3, <2>4, <2>5
<1> QED
    BY <1>1, <1>2, <1>3, <1>4, <1>5, <1>6, <1>7, <1>8

(* The worker connects, relays and ends.                                   *)
LEMMA WorkerKeeps ==
    ASSUME RelayInv, ~overtaken, overtaken' \in BOOLEAN, NEW n \in 1..MaxChunk,
           \/ Begin \/ Connected \/ ConnectFails \/ SendRequest \/ SendReply
           \/ TargetGone \/ MarkReconnect \/ ForgetTarget \/ RecvTarget(n)
    PROVE  RelayInv'
<1> USE DEF RelayInv, TypeOK, client, clientSocket, loop, worker, remote
<1>1. CASE Connected
    <2>1. map_client \in MapClient /\ map_client.msg # <<>> /\ conn \in Nat /\ conn + 1 \in Nat
        BY <1>1 DEF Connected, LoopType, Sending, RemoteType, conn
    <2>2. Open /\ UNCHANGED clients
        BY <1>1 DEF Connected
    <2>3. Mine \subseteq Mine' /\ conn' = conn + 1 /\ opened'[conn'].client = clients
        BY <2>2, OpenKeepsMine
    <2>4. <<Established>> \in Seq(Mine) /\ <<Established>> \in Seq(Response) /\ <<Established>> # <<>>
        BY EstablishedMine DEF Mine
    <2>5. map_client' = [map_client EXCEPT !.flag = MAP_CONNECT_SUCCESS, !.connect_fd = conn + 1]
        BY <1>1 DEF Connected
    <2>6. map_client' \in MapClient /\ map_client'.msg # <<>>
        BY <2>1, <2>5 DEF MapClient, MAP_CONNECT_SUCCESS
    <2>7. toClient \in Seq(Mine') /\ seen \in Seq(Mine') /\ <<Established>> \in Seq(Mine')
        BY <2>3, <2>4, SeqMonotonic DEF Owned
    <2>8. /\ (wpc' = "relay" /\ out' = <<Established>>) \/ (wpc' = "request" /\ out' = map_client.msg)
         /\ UNCHANGED <<fd, clients, toClient, seen, epc, msg>> /\ wpc = "connect"
        BY <1>1 DEF Connected, WGoto, Opening
    <2>9. target' = TRUE /\ fromTarget' = <<>> /\ <<>> \in Seq(Mine')
        BY <1>1 DEF Connected, Open
    <2>10. ClientType' /\ ClientSocketType'
        BY <1>1, SameTypes DEF Connected
    <2>11. LoopType'
        BY <1>1, <2>6 DEF Connected, LoopType
    <2>12. WorkerType'
        BY <2>1, <2>4, <2>8 DEF WorkerType, MapClient
    <2>13. RemoteType'
        BY <1>1, <2>1 DEF Connected, Open, RemoteType, MapClient, ClientType
    <2>14. Sending'
        BY <2>1, <2>4, <2>6, <2>8 DEF Sending
    <2>15. Owned'
        <3>1. toClient' \in Seq(Mine') /\ seen' \in Seq(Mine') /\ fromTarget' \in Seq(Mine')
            BY <2>7, <2>8, <2>9
        <3>2. wpc' = "relay" => out' \in Seq(Mine')
            BY <2>7, <2>8
        <3>3. conn' > 0 /\ opened'[conn'].client = clients'
            BY <2>1, <2>3, <2>8
        <3> QED
            BY <3>1, <3>2, <3>3 DEF Owned
    <2>16. Closed'
        BY <2>8 DEF Closed
    <2> QED
        BY <2>10, <2>11, <2>12, <2>13, <2>14, <2>15, <2>16
<1>2. CASE ConnectFails
    <2>1. map_client' \in MapClient /\ map_client'.msg = map_client.msg
        BY <1>2 DEF ConnectFails, LoopType, MapClient, MAP_CONNECT_FAILED
    <2>2. ClientType' /\ ClientSocketType' /\ RemoteType'
        BY <1>2, SameTypes DEF ConnectFails
    <2>3. LoopType'
        BY <1>2, <2>1 DEF LoopType, ConnectFails
    <2>4. WorkerType'
        BY <1>2, <2>1 DEF WorkerType, ConnectFails, WGoto
    <2>5. Sending'
        BY <1>2, <2>1 DEF Sending, ConnectFails, WGoto
    <2>6. Owned'
        BY <1>2, SameMine, <2>1 DEF Owned, ConnectFails, WGoto
    <2>7. Closed'
        BY <1>2, <2>1 DEF Closed, ConnectFails, WGoto
    <2> QED
        BY <2>2, <2>3, <2>4, <2>5, <2>6, <2>7
<1>3. CASE SendRequest
    <2>1. out # <<>> /\ Head(out) \in Piece /\ Tail(out) \in Seq(Piece) /\ (Tail(out) = <<>> <=> Len(out) = 1)
        BY <1>3, Queues DEF SendRequest, WGoto, Sending, WorkerType
    <2>2. toTarget' = Append(toTarget, Head(out)) \/ toTarget' = toTarget
        BY <1>3 DEF SendRequest, SendToTarget, tf_send
    <2>3. toTarget' \in Seq(Piece)
        <3>1. toTarget \in Seq(Piece)
            BY DEF RemoteType
        <3>2. Append(toTarget, Head(out)) \in Seq(Piece)
            BY <2>1, <3>1, AppendProperties
        <3> QED
            BY <2>2, <3>1, <3>2
    <2>4. ClientType' /\ ClientSocketType' /\ LoopType'
        BY <1>3, SameTypes DEF SendRequest
    <2>5. WorkerType'
        BY <1>3, <2>1, <2>2, <2>3 DEF WorkerType, SendRequest, WGoto
    <2>6. RemoteType'
        BY <1>3, <2>3 DEF SendRequest, RemoteType
    <2>7. Sending'
        BY <1>3, <2>1, <2>2, <2>3 DEF Sending, SendRequest, WGoto
    <2>8. Owned'
        BY <1>3, SameMine, <2>1, <2>2, <2>3 DEF Owned, SendRequest, WGoto
    <2>9. Closed'
        BY <1>3, <2>1, <2>2, <2>3 DEF Closed, SendRequest, WGoto
    <2> QED
        BY <2>4, <2>5, <2>6, <2>7, <2>8, <2>9
<1>4. CASE SendReply
    <2>1. out # <<>> /\ out \in Seq(Mine) /\ out \in Seq(Response)
        BY <1>4 DEF SendReply, WGoto, Sending, WorkerType, Owned
    <2>2. Head(out) \in Mine /\ Tail(out) \in Seq(Mine)
        BY <2>1
    <2>3. Head(out) \in Response /\ Tail(out) \in Seq(Response) /\ (Tail(out) = <<>> <=> Len(out) = 1)
        BY <2>1, Queues
    <2>4. ClientType' /\ LoopType' /\ RemoteType'
        BY <1>4, SameTypes DEF SendReply
    <2>5. ClientSocketType'
        BY <1>4, Queues, <2>1, <2>2, <2>3 DEF ClientSocketType, SendReply, SendToClient, tf_send
    <2>6. WorkerType'
        BY <1>4, Queues, <2>1, <2>2, <2>3 DEF WorkerType, SendReply, WGoto
    <2>7. Sending'
        BY <1>4, <2>1, <2>2, <2>3 DEF Sending, SendReply, WGoto
    <2>8. Owned'
        BY <1>4, SameMine, Queues, <2>1, <2>2, <2>3 DEF Owned, SendReply, WGoto, SendToClient, tf_send
    <2>9. Closed'
        BY <1>4, <2>1, <2>2, <2>3 DEF Closed, SendReply, WGoto, SendToClient, tf_send
    <2> QED
        BY <2>4, <2>5, <2>6, <2>7, <2>8, <2>9
<1>5. CASE TargetGone
    <2>1. ClientType' /\ ClientSocketType' /\ LoopType' /\ RemoteType'
        BY <1>5, SameTypes DEF TargetGone
    <2>2. WorkerType'
        BY <1>5 DEF WorkerType, TargetGone, WGoto
    <2>3. Sending'
        BY <1>5 DEF Sending, TargetGone, WGoto
    <2>4. Owned'
        BY <1>5, SameMine DEF Owned, TargetGone, WGoto
    <2>5. Closed'
        BY <1>5 DEF Closed, TargetGone, WGoto
    <2> QED
        BY <2>1, <2>2, <2>3, <2>4, <2>5
<1>6. CASE MarkReconnect
    <2>1. map_client' \in MapClient /\ map_client'.msg = map_client.msg /\ map_client # NoClient
        BY <1>6, ChangedRecord DEF MarkReconnect
    <2>2. ClientType' /\ ClientSocketType' /\ RemoteType'
        BY <1>6, SameTypes DEF MarkReconnect
    <2>3. LoopType'
        BY <1>6, <2>1 DEF LoopType, MarkReconnect
    <2>4. WorkerType'
        BY <1>6, <2>1 DEF WorkerType, MarkReconnect, WGoto
    <2>5. Sending'
        BY <1>6, <2>1 DEF Sending, MarkReconnect, WGoto
    <2>6. Owned'
        BY <1>6, SameMine DEF Owned, MarkReconnect, WGoto
    <2>7. Closed'
        BY <1>6 DEF Closed, MarkReconnect, WGoto
    <2> QED
        BY <2>2, <2>3, <2>4, <2>5, <2>6, <2>7
<1>7. CASE RecvTarget(n)
    <2>1. n \in Nat /\ 1 <= n /\ n <= Len(fromTarget)
        BY <1>7 DEF RecvTarget
    <2>2. out' \in Seq(Response) /\ out' # <<>> /\ fromTarget' \in Seq(Response)
        BY <1>7, <2>1, Parts DEF RecvTarget, WGoto, RemoteType
    <2>3. out' \in Seq(Mine) /\ fromTarget' \in Seq(Mine)
        BY <1>7, <2>1, Parts DEF RecvTarget, WGoto, Owned
    <2>4. ClientType' /\ ClientSocketType' /\ LoopType'
        BY <1>7, SameTypes DEF RecvTarget
    <2>5. WorkerType'
        BY <1>7, <2>1, <2>2, <2>3 DEF WorkerType, RecvTarget, WGoto
    <2>6. RemoteType'
        BY <1>7, <2>1, <2>2, <2>3 DEF RemoteType, RecvTarget
    <2>7. Sending'
        BY <1>7, <2>1, <2>2, <2>3 DEF Sending, RecvTarget
    <2>8. Owned'
        BY <1>7, SameMine, <2>1, <2>2, <2>3 DEF Owned, RecvTarget
    <2>9. Closed'
        BY <1>7, <2>1, <2>2, <2>3 DEF Closed, RecvTarget
    <2> QED
        BY <2>4, <2>5, <2>6, <2>7, <2>8, <2>9
<1>8. CASE Begin
    <2>1. map_client' \in MapClient /\ map_client'.msg = map_client.msg /\ map_client # NoClient
        BY <1>8, ChangedRecord DEF Begin
    <2>2. ClientType' /\ ClientSocketType' /\ RemoteType'
        BY <1>8, SameTypes DEF Begin
    <2>3. LoopType'
        BY <1>8, <2>1 DEF LoopType, Begin
    <2>4. WorkerType'
        BY <1>8, <2>1 DEF WorkerType, Begin, WGoto
    <2>5. Sending'
        BY <1>8, <2>1 DEF Sending, Begin, WGoto
    <2>6. Owned'
        BY <1>8, SameMine DEF Owned, Begin, WGoto
    <2>7. Closed'
        BY <1>8 DEF Closed, Begin, WGoto
    <2> QED
        BY <2>2, <2>3, <2>4, <2>5, <2>6, <2>7
<1>9. CASE ForgetTarget
    <2>1. map_client' \in MapClient /\ map_client'.msg = map_client.msg /\ map_client # NoClient
        BY <1>9, ChangedRecord DEF ForgetTarget
    <2>2. ClientType' /\ ClientSocketType' /\ RemoteType'
        BY <1>9, SameTypes DEF ForgetTarget
    <2>3. LoopType'
        BY <1>9, <2>1 DEF LoopType, ForgetTarget
    <2>4. WorkerType'
        BY <1>9, <2>1 DEF WorkerType, ForgetTarget, WGoto
    <2>5. Sending'
        BY <1>9, <2>1 DEF Sending, ForgetTarget, WGoto
    <2>6. Owned'
        BY <1>9, SameMine DEF Owned, ForgetTarget, WGoto
    <2>7. Closed'
        BY <1>9 DEF Closed, ForgetTarget, WGoto
    <2> QED
        BY <2>2, <2>3, <2>4, <2>5, <2>6, <2>7
<1> QED
    BY <1>1, <1>2, <1>3, <1>4, <1>5, <1>6, <1>7, <1>8, <1>9

(* Every step keeps the invariant.                                         *)
LEMMA NextRelay == RelayInv /\ [Next]_vars => RelayInv'
<1> SUFFICES ASSUME RelayInv, [Next]_vars PROVE RelayInv'
    OBVIOUS
<1>0. overtaken' \in BOOLEAN
    BY OvertakenType DEF RelayInv
<1>1. CASE EventLoop
    BY <1>0, <1>1, RecvKeeps, LoopKeeps DEF EventLoop
<1>2. CASE Worker
    <2>1. 1 \in 1..MaxChunk
        BY RelayAssumption
    <2> QED
        BY <1>0, <1>2, <2>1, WorkerKeeps DEF Worker
<1>3. CASE Target \/ Others
    BY <1>0, <1>3, TargetKeeps, ClientKeeps DEF Target, Others
<1>4. CASE ClientListens
    BY <1>0, <1>4, ClientKeeps DEF ClientListens
<1>5. CASE UNCHANGED vars
    <2>1. TypeOK'
        BY <1>0, <1>5, SameTypes DEF RelayInv, TypeOK, vars
    <2>2. Sending' /\ Closed'
        BY <1>5 DEF RelayInv, Sending, Closed, vars, client, clientSocket, loop, worker, remote
    <2>3. Owned'
        BY <1>5, SameMine DEF RelayInv, Owned, vars, client, clientSocket, loop, worker, remote
    <2> QED
        BY <2>1, <2>2, <2>3 DEF RelayInv
<1> QED
    BY <1>1, <1>2, <1>3, <1>4, <1>5 DEF Next

LEMMA RelayInvariant == Spec => []RelayInv
BY InitRelay, NextRelay, PTL DEF Spec
----------------------------------------------------------------------------
(* Every variable of the relay keeps its type: what the worker sends is    *)
(* responses exactly when it sends to the client (connect_target, 738 to   *)
(* 789).                                                                   *)
THEOREM RelayTypeCorrect == Spec => []TypeOK
<1>1. RelayInv => TypeOK
    BY DEF RelayInv
<1> QED
    BY RelayInvariant, <1>1, PTL

(* Whatever a client receives from a target came over a connection made    *)
(* for that client, although its descriptor was another client's before:   *)
(* the record is erased only after the worker was joined (del_connect_map, *)
(* 839 to 908).                                                            *)
THEOREM ClientsSeeOwn == Spec => []ClientSeesOwn
<1>1. RelayInv => ClientSeesOwn
    <2> SUFFICES ASSUME RelayInv, NEW i \in DOMAIN seen, seen[i].from # NoConn
                 PROVE  opened[seen[i].from].client = clients
        BY DEF ClientSeesOwn
    <2>1. seen \in Seq(Mine)
        BY DEF RelayInv, Owned
    <2>2. seen[i] \in Mine
        BY <2>1
    <2> QED
        BY <2>2 DEF Mine
<1> QED
    BY RelayInvariant, <1>1, PTL
----------------------------------------------------------------------------
(* Order. The replies of all four places between a target and what the     *)
(* client has received are one sequence of which nothing is missing, as    *)
(* long as the client has its end open; each place holds what comes before *)
(* the next.                                                               *)

Replies(q) == {r \in Range(q) : IsReply(r)}

Relayed == IF wpc = "relay" THEN out ELSE <<>>

(* The replies in each place, from the client back to the target.          *)
Received == Replies(seen)
Sent     == Replies(toClient)
InHand   == Replies(Relayed)
Unread   == Replies(fromTarget)

OnTheWay == Received \cup Sent \cup InHand \cup Unread

AllEarlier(S, T) == \A r \in S, q \in T : Earlier(r, q)

Whole(S) == \A r \in S : r.n = 1 \/ Reply(r.from, r.n - 1) \in S

PlacesOrdered == Ordered(seen) /\ Ordered(toClient) /\ Ordered(Relayed) /\ Ordered(fromTarget)

PlacesFollow ==
    /\ AllEarlier(Received, Sent) /\ AllEarlier(Received, InHand) /\ AllEarlier(Received, Unread)
    /\ AllEarlier(Sent, InHand) /\ AllEarlier(Sent, Unread)
    /\ AllEarlier(InHand, Unread)

(* What a client has left unread when it closed is missing from then on.   *)
NothingMissing ==
    /\ Whole(Received)
    /\ peer => Whole(OnTheWay)

(* The last reply that was written is still there while its target can     *)
(* write the next.                                                         *)
UpToSaid ==
    /\ \A r \in OnTheWay : r.from < conn \/ (r.from = conn /\ r.n <= said)
    /\ peer /\ target => said = 0 \/ Reply(conn, said) \in OnTheWay

WorkerHasRecord == map_client = NoClient => wpc = "none" \/ overtaken

PeerHasSocket == peer => fd # 0

ReplyInv ==
    /\ RelayInv /\ WorkerHasRecord /\ PeerHasSocket
    /\ PlacesOrdered /\ PlacesFollow /\ NothingMissing /\ UpToSaid
----------------------------------------------------------------------------
(* The replies of a queue, when one is appended, taken or cut off.         *)
LEMMA RepliesOfEmpty == Replies(<<>>) = {} /\ Ordered(<<>>)
BY DEF Replies, Range, Ordered

(* They are responses.                                                     *)
LEMMA RepliesType ==
    ASSUME NEW q \in Seq(Response)
    PROVE  /\ Replies(q) \subseteq Response
           /\ \A r \in Replies(q) : \E i \in DOMAIN q : q[i] = r
           /\ \A i \in DOMAIN q : q[i] \in Response /\ (IsReply(q[i]) => q[i] \in Replies(q))
BY DEF Replies, Range

(* Appending one that comes later.                                         *)
LEMMA AppendReply ==
    ASSUME NEW q \in Seq(Response), NEW e \in Response, Ordered(q),
           IsReply(e) => AllEarlier(Replies(q), {e})
    PROVE  /\ Ordered(Append(q, e))
           /\ Replies(Append(q, e)) = Replies(q) \cup Replies(<<e>>)
<1> DEFINE a == Append(q, e)
<1>1. a \in Seq(Response) /\ Len(a) = Len(q) + 1 /\ Len(q) \in Nat /\ DOMAIN q = 1..Len(q)
    BY AppendProperties, LenProperties
<1>2. /\ DOMAIN a = 1..(Len(q) + 1)
      /\ \A i \in 1..Len(q) : a[i] = q[i]
      /\ a[Len(q) + 1] = e
    BY <1>1, AppendProperties, LenProperties
<1>3. Ordered(a)
    <2> SUFFICES ASSUME NEW i \in DOMAIN a, NEW j \in DOMAIN a, i < j, IsReply(a[i]), IsReply(a[j])
                 PROVE  Earlier(a[i], a[j])
        BY DEF Ordered
    <2>1. CASE j \in 1..Len(q)
        BY <1>1, <1>2, <2>1 DEF Ordered
    <2>2. CASE j = Len(q) + 1
        <3>1. i \in 1..Len(q)
            BY <1>1, <1>2, <2>2
        <3>2. a[i] \in Replies(q)
            BY <1>1, <1>2, <3>1 DEF Replies, Range
        <3> QED
            BY <1>2, <2>2, <3>2 DEF AllEarlier
    <2> QED
        BY <1>1, <1>2, <2>1, <2>2
<1>4. Range(a) = Range(q) \cup {e}
    BY <1>1, <1>2 DEF Range
<1>5. Range(<<e>>) = {e}
    BY DEF Range
<1> QED
    BY <1>3, <1>4, <1>5 DEF Replies

(* Taking the first.                                                       *)
LEMMA TakeReply ==
    ASSUME NEW q \in Seq(Response), q # <<>>, Ordered(q)
    PROVE  /\ Ordered(Tail(q))
           /\ Replies(q) = Replies(<<Head(q)>>) \cup Replies(Tail(q))
           /\ AllEarlier(Replies(<<Head(q)>>), Replies(Tail(q)))
<1> DEFINE t == Tail(q)
<1>1. /\ t \in Seq(Response) /\ Len(t) = Len(q) - 1 /\ Len(q) \in Nat /\ DOMAIN q = 1..Len(q)
      /\ Len(q) > 0 /\ DOMAIN t = 1..(Len(q) - 1) /\ Head(q) = q[1]
    BY HeadTailProperties, LenProperties, EmptySeq
<1>2. \A i \in 1..(Len(q) - 1) : t[i] = q[i + 1]
    BY <1>1, HeadTailProperties
<1>3. Ordered(t)
    BY <1>1, <1>2 DEF Ordered
<1>4. Range(q) = {q[1]} \cup Range(t)
    <2>1. \A i \in 1..Len(q) : q[i] = q[1] \/ q[i] \in Range(t)
        <3> SUFFICES ASSUME NEW i \in 1..Len(q), i # 1 PROVE q[i] \in Range(t)
            OBVIOUS
        <3>1. i - 1 \in DOMAIN t /\ t[i - 1] = q[i]
            BY <1>1, <1>2
        <3> QED
            BY <3>1 DEF Range
    <2>2. \A r \in Range(t) : r \in Range(q)
        BY <1>1, <1>2 DEF Range
    <2>3. q[1] \in Range(q)
        BY <1>1 DEF Range
    <2> QED
        BY <1>1, <2>1, <2>2, <2>3 DEF Range
<1>5. Range(<<Head(q)>>) = {q[1]}
    BY <1>1 DEF Range
<1>6. \A r \in Replies(<<Head(q)>>), p \in Replies(t) : Earlier(r, p)
    <2> SUFFICES ASSUME IsReply(q[1]), NEW i \in DOMAIN t, IsReply(t[i])
                 PROVE  Earlier(q[1], t[i])
        BY <1>5 DEF Replies, Range
    <2>1. t[i] = q[i + 1] /\ i + 1 \in DOMAIN q /\ 1 \in DOMAIN q /\ 1 < i + 1
        BY <1>1, <1>2
    <2> QED
        BY <2>1 DEF Ordered
<1> QED
    BY <1>3, <1>4, <1>5, <1>6 DEF Replies, AllEarlier

(* Taking several.                                                         *)
LEMMA CutReplies ==
    ASSUME NEW q \in Seq(Response), Ordered(q), NEW n \in Nat, 1 <= n, n <= Len(q)
    PROVE  LET first == SubSeq(q, 1, n)
               rest  == SubSeq(q, n + 1, Len(q)) IN
           /\ Ordered(first) /\ Ordered(rest)
           /\ Replies(q) = Replies(first) \cup Replies(rest)
           /\ AllEarlier(Replies(first), Replies(rest))
<1> DEFINE first == SubSeq(q, 1, n)
           rest  == SubSeq(q, n + 1, Len(q))
<1>1. Len(q) \in Nat /\ DOMAIN q = 1..Len(q) /\ \A i \in 1..Len(q) : q[i] \in Response
    BY LenProperties
<1>2. first \in Seq(Response) /\ DOMAIN first = 1..n /\ \A i \in 1..n : first[i] = q[i]
    BY <1>1
<1>3. /\ rest \in Seq(Response) /\ DOMAIN rest = 1..(Len(q) - n)
      /\ \A i \in 1..(Len(q) - n) : rest[i] = q[i + n]
    BY <1>1
<1> HIDE DEF first, rest
<1>4. Ordered(first) /\ Ordered(rest)
    <2>1. Ordered(first)
        BY <1>1, <1>2 DEF Ordered
    <2>2. ASSUME NEW i \in DOMAIN rest, NEW j \in DOMAIN rest, i < j, IsReply(rest[i]), IsReply(rest[j])
          PROVE  Earlier(rest[i], rest[j])
        <3>1. /\ rest[i] = q[i + n] /\ rest[j] = q[j + n]
              /\ i + n \in DOMAIN q /\ j + n \in DOMAIN q /\ i + n < j + n
            BY <1>1, <1>3, <2>2
        <3> QED
            BY <2>2, <3>1 DEF Ordered
    <2> QED
        BY <2>1, <2>2 DEF Ordered
<1>5. Range(q) = Range(first) \cup Range(rest)
    <2>1. \A i \in 1..Len(q) : q[i] \in Range(first) \/ q[i] \in Range(rest)
        <3> SUFFICES ASSUME NEW i \in 1..Len(q), i > n PROVE q[i] \in Range(rest)
            BY <1>1, <1>2 DEF Range
        <3>1. i - n \in 1..(Len(q) - n) /\ (i - n) + n = i
            BY <1>1
        <3>2. i - n \in DOMAIN rest /\ rest[i - n] = q[i]
            BY <1>3, <3>1
        <3> QED
            BY <3>2 DEF Range
    <2>2. \A r \in Range(first) : r \in Range(q)
        BY <1>1, <1>2 DEF Range
    <2>3. \A r \in Range(rest) : r \in Range(q)
        <3>1. \A i \in DOMAIN rest : i + n \in DOMAIN q /\ rest[i] = q[i + n]
            BY <1>1, <1>3
        <3> QED
            BY <3>1 DEF Range
    <2> QED
        BY <1>1, <2>1, <2>2, <2>3 DEF Range
<1>6. AllEarlier(Replies(first), Replies(rest))
    <2> SUFFICES ASSUME NEW i \in DOMAIN first, IsReply(first[i]), NEW j \in DOMAIN rest, IsReply(rest[j])
                 PROVE  Earlier(first[i], rest[j])
        BY DEF Replies, Range, AllEarlier
    <2>1. first[i] = q[i] /\ rest[j] = q[j + n] /\ i \in DOMAIN q /\ j + n \in DOMAIN q /\ i < j + n
        BY <1>1, <1>2, <1>3
    <2> QED
        BY <2>1 DEF Ordered
<1> QED
    BY <1>4, <1>5, <1>6 DEF Replies, first, rest

(* What stands before the rest of a whole is whole.                        *)
LEMMA FirstPartWhole ==
    ASSUME NEW A \in SUBSET Response, NEW B \in SUBSET Response,
           Whole(A \cup B), AllEarlier(A, B)
    PROVE  Whole(A)
<1> SUFFICES ASSUME NEW r \in A, r.n # 1
             PROVE  Reply(r.from, r.n - 1) \in A
    BY DEF Whole
<1>1. Reply(r.from, r.n - 1) \in A \cup B
    BY DEF Whole
<1>2. r.from \in Nat /\ r.n \in Nat
    BY DEF Response
<1>3. ~Earlier(r, Reply(r.from, r.n - 1))
    BY <1>2 DEF Earlier, Reply
<1> QED
    BY <1>1, <1>3 DEF AllEarlier
----------------------------------------------------------------------------
(* What the four places hold are responses.                                *)
LEMMA PlacesType ==
    ASSUME RelayInv
    PROVE  /\ seen \in Seq(Response) /\ toClient \in Seq(Response)
           /\ Relayed \in Seq(Response) /\ fromTarget \in Seq(Response)
           /\ Received \subseteq Response /\ Sent \subseteq Response
           /\ InHand \subseteq Response /\ Unread \subseteq Response
           /\ conn \in Nat /\ said \in Nat
<1>1. seen \in Seq(Response) /\ toClient \in Seq(Response) /\ fromTarget \in Seq(Response)
    BY DEF RelayInv, TypeOK, ClientSocketType, RemoteType
<1>2. Relayed \in Seq(Response)
    BY DEF RelayInv, TypeOK, WorkerType, Relayed
<1>3. conn \in Nat /\ said \in Nat
    BY DEF RelayInv, TypeOK, RemoteType, conn
<1> QED
    BY <1>1, <1>2, <1>3, RepliesType DEF Received, Sent, InHand, Unread

(* Nothing is carried.                                                     *)
LEMMA NothingCarried ==
    ASSUME ReplyInv,
           UNCHANGED <<seen, toClient, fromTarget, peer, said, opened, target>>, Relayed' = Relayed
    PROVE  PlacesOrdered' /\ PlacesFollow' /\ NothingMissing' /\ UpToSaid'
<1>1. UNCHANGED <<Received, Sent, InHand, Unread>>
    BY DEF Received, Sent, InHand, Unread, Replies
<1>2. PlacesOrdered'
    BY DEF ReplyInv, PlacesOrdered
<1>3. PlacesFollow'
    BY <1>1 DEF ReplyInv, PlacesFollow
<1>4. NothingMissing'
    BY <1>1 DEF ReplyInv, NothingMissing, OnTheWay
<1>5. UpToSaid'
    BY <1>1 DEF ReplyInv, UpToSaid, OnTheWay, conn
<1> QED
    BY <1>2, <1>3, <1>4, <1>5

(* Places between target and client lose what they hold: the rest of what  *)
(* a client still reads is whole.                                          *)
LEMMA SomeLost ==
    ASSUME ReplyInv, Received' = Received, Sent' \subseteq Sent, InHand' \subseteq InHand,
           Unread' \subseteq Unread, UNCHANGED <<opened, said>>, peer' => peer, target' => target,
           \/ ~peer'
           \/ Sent' = Sent /\ InHand' = InHand /\ Unread' = {} /\ ~target'
           \/ Sent' = Sent /\ InHand' = {} /\ Unread' = {} /\ ~target'
    PROVE  PlacesFollow' /\ NothingMissing' /\ UpToSaid'
<1>1. PlacesFollow'
    BY DEF ReplyInv, PlacesFollow, AllEarlier
<1>2. NothingMissing'
    <2>1. Whole(Received')
        BY DEF ReplyInv, NothingMissing
    <2>2. ASSUME peer' PROVE Whole(OnTheWay')
        <3> DEFINE lost == OnTheWay \ OnTheWay'
        <3>1. Whole(OnTheWay) /\ OnTheWay = OnTheWay' \cup lost
            BY <2>2 DEF ReplyInv, NothingMissing, OnTheWay
        <3>2. OnTheWay' \in SUBSET Response /\ lost \in SUBSET Response
            BY PlacesType DEF ReplyInv, OnTheWay
        <3>3. AllEarlier(OnTheWay', lost)
            BY <2>2 DEF ReplyInv, PlacesFollow, AllEarlier, OnTheWay
        <3> QED
            BY <3>1, <3>2, <3>3, FirstPartWhole
    <2> QED
        BY <2>1, <2>2 DEF NothingMissing
<1>3. UpToSaid'
    BY DEF ReplyInv, UpToSaid, OnTheWay, conn
<1> QED
    BY <1>1, <1>2, <1>3
----------------------------------------------------------------------------
LEMMA InitReply == Init => ReplyInv
<1> SUFFICES ASSUME Init PROVE ReplyInv
    OBVIOUS
<1>1. RelayInv
    BY InitRelay
<1>2. Received = {} /\ Sent = {} /\ InHand = {} /\ Unread = {} /\ OnTheWay = {}
    BY RepliesOfEmpty DEF Init, Received, Sent, InHand, Unread, OnTheWay, Relayed
<1>3. PlacesOrdered
    BY RepliesOfEmpty DEF Init, PlacesOrdered, Relayed
<1>4. PlacesFollow /\ NothingMissing /\ UpToSaid
    BY <1>2 DEF Init, PlacesFollow, NothingMissing, UpToSaid, AllEarlier, Whole
<1>5. WorkerHasRecord /\ PeerHasSocket
    BY DEF Init, WorkerHasRecord, PeerHasSocket
<1> QED
    BY <1>1, <1>3, <1>4, <1>5 DEF ReplyInv

(* A worker is started for a record, and is joined before it is erased, or *)
(* left behind.                                                            *)
LEMMA RecordOfWorker ==
    ASSUME ReplyInv, [Next]_vars
    PROVE  WorkerHasRecord'
<1> USE DEF ReplyInv, WorkerHasRecord, RelayInv, TypeOK
<1>1. ASSUME NEW n \in 1..MaxChunk, Insert(n)
      PROVE  map_client' # NoClient
    BY <1>1, InsertedRecord
<1>2. ASSUME Begin \/ Connected \/ ConnectFails \/ MarkReconnect \/ ForgetTarget \/ Restart
      PROVE  map_client' # NoClient
    BY <1>2, ChangedRecord
<1>3. ASSUME UNCHANGED <<map_client, wpc, overtaken>>
      PROVE  WorkerHasRecord'
    BY <1>3
<1>4. CASE EventLoop
    <2>1. CASE StopWorker \/ LeaveWorker \/ RestartTooEarly \/ Restart
        BY <1>2, <2>1 DEF StopWorker, LeaveWorker, RestartTooEarly
    <2>2. CASE \/ ClientGone \/ ReplyEstablished \/ Forward \/ CloseClient
               \/ \E n \in 1..MaxChunk : \/ Ignore(n) \/ Refuse(n) \/ Process(n) \/ Reconnect(n)
                                         \/ DropWhileConnecting(n) \/ GiveUp(n)
        BY <1>3, <2>2
        DEF Ignore, Refuse, Process, Reconnect, DropWhileConnecting, GiveUp, Recv, ClientGone,
            ReplyEstablished, Forward, CloseClient, loop, worker
    <2> QED
        BY <1>1, <1>4, <2>1, <2>2 DEF EventLoop
<1>5. CASE Worker
    <2>1. ASSUME \/ SendRequest \/ SendReply \/ TargetGone
                 \/ \E n \in 1..MaxChunk : RecvTarget(n)
          PROVE  map_client # NoClient /\ UNCHANGED map_client
        BY <1>5, <2>1
        DEF Worker, SendRequest, SendReply, TargetGone, RecvTarget, WGoto, loop
    <2> QED
        BY <1>2, <1>5, <2>1 DEF Worker
<1>6. CASE Target \/ ClientListens \/ Others \/ UNCHANGED vars
    BY <1>3, <1>6
    DEF Target, TargetReads, TargetReplies, ClientListens, ClientReads, Others, Accept, ClientWrites,
        ClientCloses, TargetCloses, vars, loop, worker
<1> QED
    BY <1>4, <1>5, <1>6 DEF Next
----------------------------------------------------------------------------
(* What the replies keep to in the four places, record and worker aside.   *)
InPlace == PlacesOrdered /\ PlacesFollow /\ NothingMissing /\ UpToSaid

(* The client reads what stands first on its way.                          *)
LEMMA ReadKeepsPlaces ==
    ASSUME ReplyInv, ClientReads
    PROVE  InPlace'
<1> DEFINE first == Replies(<<Head(toClient)>>)
<1>1. /\ seen \in Seq(Response) /\ toClient \in Seq(Response) /\ toClient # <<>>
      /\ Head(toClient) \in Response
    BY PlacesType DEF ReplyInv, ClientReads
<1>2. /\ Ordered(Tail(toClient)) /\ Sent = first \cup Replies(Tail(toClient))
      /\ AllEarlier(first, Replies(Tail(toClient)))
    BY <1>1, TakeReply DEF ReplyInv, PlacesOrdered, Sent
<1>3. IsReply(Head(toClient)) => AllEarlier(Received, {Head(toClient)})
    BY <1>1, RepliesType DEF ReplyInv, PlacesFollow, AllEarlier, Sent
<1>4. Ordered(seen') /\ Received' = Received \cup first
    BY <1>1, <1>3, AppendReply DEF ReplyInv, PlacesOrdered, Received, ClientReads
<1>5. Ordered(toClient') /\ Sent' = Replies(Tail(toClient))
    BY <1>2 DEF Sent, ClientReads
<1>6. /\ Relayed' = Relayed /\ InHand' = InHand /\ Unread' = Unread
      /\ UNCHANGED <<peer, fromTarget, target, said, opened>>
    BY DEF ClientReads, Relayed, InHand, Unread, worker, remote
<1>7. OnTheWay' = OnTheWay
    BY <1>2, <1>4, <1>5, <1>6 DEF OnTheWay
<1>8. PlacesOrdered'
    BY <1>4, <1>5, <1>6 DEF ReplyInv, PlacesOrdered
<1>9. PlacesFollow'
    BY <1>2, <1>4, <1>5, <1>6 DEF ReplyInv, PlacesFollow, AllEarlier
<1>10. NothingMissing'
    <2>1. Whole(OnTheWay)
        BY DEF ReplyInv, NothingMissing, ClientReads
    <2>2. OnTheWay = Received' \cup (Sent' \cup InHand' \cup Unread')
        BY <1>7 DEF OnTheWay
    <2>3. AllEarlier(Received', Sent' \cup InHand' \cup Unread')
        BY <1>9 DEF PlacesFollow, AllEarlier
    <2>4. Received' \in SUBSET Response /\ Sent' \cup InHand' \cup Unread' \in SUBSET Response
        BY <1>2, <1>4, <1>5, <1>6, PlacesType DEF ReplyInv
    <2>5. Whole(Received')
        BY <2>1, <2>2, <2>3, <2>4, FirstPartWhole
    <2> QED
        BY <1>7, <2>1, <2>5 DEF NothingMissing
<1>11. UpToSaid'
    BY <1>6, <1>7 DEF ReplyInv, UpToSaid, conn
<1> QED
    BY <1>8, <1>9, <1>10, <1>11 DEF InPlace

(* The client closes or is closed, and what was on its way to it is lost.  *)
LEMMA CloseKeepsPlaces ==
    ASSUME ReplyInv, ClientCloses \/ CloseClient
    PROVE  InPlace'
<1>1. /\ ~peer' /\ toClient' = <<>> /\ Relayed' = Relayed
      /\ UNCHANGED <<seen, fromTarget, target, said, opened>>
    BY DEF ClientCloses, CloseClient, Relayed, worker, remote
<1>2. Received' = Received /\ Sent' = {} /\ InHand' = InHand /\ Unread' = Unread
    BY <1>1, RepliesOfEmpty DEF Received, Sent, InHand, Unread
<1>3. PlacesOrdered'
    BY <1>1, RepliesOfEmpty DEF ReplyInv, PlacesOrdered
<1> QED
    BY <1>1, <1>2, <1>3, SomeLost DEF InPlace

(* The next client gets the descriptor when nothing is left of the last.   *)
LEMMA AcceptKeepsPlaces ==
    ASSUME ReplyInv, ~overtaken, Accept
    PROVE  InPlace'
<1>1. toClient = <<>> /\ wpc = "none" /\ fromTarget = <<>> /\ ~target
    BY DEF ReplyInv, RelayInv, Closed, Accept
<1>2. /\ seen' = <<>> /\ toClient' = <<>> /\ Relayed' = <<>> /\ fromTarget' = <<>> /\ ~target'
    BY <1>1 DEF Accept, Relayed, worker, remote
<1>3. Received' = {} /\ Sent' = {} /\ InHand' = {} /\ Unread' = {} /\ OnTheWay' = {}
    BY <1>2, RepliesOfEmpty DEF Received, Sent, InHand, Unread, OnTheWay
<1>4. PlacesOrdered'
    BY <1>2, RepliesOfEmpty DEF PlacesOrdered
<1> QED
    BY <1>2, <1>3, <1>4 DEF InPlace, PlacesFollow, NothingMissing, UpToSaid, AllEarlier, Whole

(* "Connection established" is no reply: it may go in between.             *)
LEMMA EstablishedKeepsPlaces ==
    ASSUME ReplyInv, ReplyEstablished
    PROVE  InPlace'
<1>1. toClient \in Seq(Response) /\ Established \in Response /\ ~IsReply(Established)
    BY PlacesType, EstablishedMine DEF ReplyInv, Mine, Established, IsReply
<1>2. Replies(<<Established>>) = {}
    BY <1>1 DEF Replies, Range
<1>3. Ordered(toClient') /\ Sent' = Sent
    <2>1. CASE toClient' = toClient
        BY <2>1 DEF ReplyInv, PlacesOrdered, Sent
    <2>2. CASE toClient' = Append(toClient, Established)
        BY <1>1, <1>2, <2>2, AppendReply DEF ReplyInv, PlacesOrdered, Sent
    <2> QED
        BY <2>1, <2>2 DEF ReplyEstablished, SendToClient, tf_send
<1>4. /\ Relayed' = Relayed /\ UNCHANGED <<seen, fromTarget, peer, target, said, opened>>
    BY DEF ReplyEstablished, Relayed, client, worker, remote
<1>5. UNCHANGED <<Received, InHand, Unread, OnTheWay, conn>>
    BY <1>3, <1>4 DEF Received, InHand, Unread, OnTheWay, conn
<1>6. PlacesOrdered'
    BY <1>3, <1>4 DEF ReplyInv, PlacesOrdered
<1>7. PlacesFollow' /\ NothingMissing' /\ UpToSaid'
    BY <1>3, <1>4, <1>5 DEF ReplyInv, PlacesFollow, NothingMissing, UpToSaid
<1> QED
    BY <1>6, <1>7 DEF InPlace

(* The worker is stopped: what it held, and what it had not read, is lost. *)
LEMMA StopKeepsPlaces ==
    ASSUME ReplyInv, StopWorker
    PROVE  InPlace'
<1>1. /\ UNCHANGED <<seen, toClient, peer, said, opened>>
      /\ Relayed' = <<>> /\ fromTarget' = <<>> /\ ~target'
    BY DEF StopWorker, Relayed, client, clientSocket
<1>2. Received' = Received /\ Sent' = Sent /\ InHand' = {} /\ Unread' = {}
    BY <1>1, RepliesOfEmpty DEF Received, Sent, InHand, Unread
<1>3. PlacesOrdered'
    BY <1>1, RepliesOfEmpty DEF ReplyInv, PlacesOrdered
<1> QED
    BY <1>1, <1>2, <1>3, SomeLost DEF InPlace

(* A reset by the target takes back what the worker has not read.          *)
LEMMA TargetCloseKeepsPlaces ==
    ASSUME ReplyInv, TargetCloses
    PROVE  InPlace'
<1>1. UNCHANGED <<seen, toClient, peer, said, opened>> /\ Relayed' = Relayed /\ target /\ ~target'
    BY DEF TargetCloses, Relayed, client, clientSocket, worker
<1>2. CASE fromTarget' = <<>>
    <2>1. Received' = Received /\ Sent' = Sent /\ InHand' = InHand /\ Unread' = {}
        BY <1>1, <1>2, RepliesOfEmpty DEF Received, Sent, InHand, Unread
    <2>2. PlacesOrdered'
        BY <1>1, <1>2, RepliesOfEmpty DEF ReplyInv, PlacesOrdered
    <2> QED
        BY <1>1, <2>1, <2>2, SomeLost DEF InPlace
<1>3. CASE fromTarget' = fromTarget
    <2>1. UNCHANGED <<Received, Sent, InHand, Unread, OnTheWay, conn>>
        BY <1>1, <1>3 DEF Received, Sent, InHand, Unread, OnTheWay, conn
    <2>2. PlacesOrdered'
        BY <1>1, <1>3 DEF ReplyInv, PlacesOrdered
    <2>3. PlacesFollow' /\ NothingMissing' /\ UpToSaid'
        BY <1>1, <2>1 DEF ReplyInv, PlacesFollow, NothingMissing, UpToSaid
    <2> QED
        BY <2>2, <2>3 DEF InPlace
<1> QED
    BY <1>2, <1>3 DEF TargetCloses

(* The worker takes what stands first in the target's socket.              *)
LEMMA RecvKeepsPlaces ==
    ASSUME ReplyInv, NEW n \in 1..MaxChunk, RecvTarget(n)
    PROVE  InPlace'
<1>1. fromTarget \in Seq(Response) /\ n \in Nat /\ 1 <= n /\ n <= Len(fromTarget)
    BY PlacesType DEF ReplyInv, RecvTarget
<1>2. /\ Relayed = <<>> /\ Relayed' = SubSeq(fromTarget, 1, n)
      /\ fromTarget' = SubSeq(fromTarget, n + 1, Len(fromTarget))
      /\ UNCHANGED <<seen, toClient, peer, target, said, opened>>
    BY DEF RecvTarget, WGoto, Relayed, client, clientSocket
<1>3. /\ Ordered(Relayed') /\ Ordered(fromTarget')
      /\ Unread = InHand' \cup Unread' /\ AllEarlier(InHand', Unread')
    BY <1>1, <1>2, CutReplies DEF ReplyInv, PlacesOrdered, InHand, Unread
<1>4. Received' = Received /\ Sent' = Sent /\ InHand = {}
    BY <1>2, RepliesOfEmpty DEF Received, Sent, InHand
<1>5. OnTheWay' = OnTheWay /\ conn' = conn
    BY <1>2, <1>3, <1>4 DEF OnTheWay, conn
<1>6. PlacesOrdered'
    BY <1>2, <1>3 DEF ReplyInv, PlacesOrdered
<1>7. PlacesFollow'
    BY <1>3, <1>4 DEF ReplyInv, PlacesFollow, AllEarlier
<1>8. NothingMissing' /\ UpToSaid'
    BY <1>2, <1>4, <1>5 DEF ReplyInv, NothingMissing, UpToSaid
<1> QED
    BY <1>6, <1>7, <1>8 DEF InPlace

(* It sends what it holds, one piece after the other; with the client gone *)
(* it goes nowhere.                                                        *)
LEMMA SendKeepsPlaces ==
    ASSUME ReplyInv, SendReply
    PROVE  InPlace'
<1> DEFINE first == Replies(<<Head(out)>>)
<1>1. Relayed = out /\ out \in Seq(Response) /\ out # <<>> /\ Head(out) \in Response
    BY PlacesType DEF ReplyInv, RelayInv, Sending, SendReply, WGoto, Relayed
<1>2. /\ Ordered(Tail(out)) /\ InHand = first \cup Replies(Tail(out))
      /\ AllEarlier(first, Replies(Tail(out)))
    BY <1>1, TakeReply DEF ReplyInv, PlacesOrdered, InHand
<1>3. Relayed' = Tail(out)
    BY <1>1, Queues DEF SendReply, WGoto, Relayed
<1>4. Ordered(Relayed') /\ InHand' = Replies(Tail(out))
    BY <1>2, <1>3 DEF InHand
<1>5. UNCHANGED <<seen, fromTarget, peer, target, said, opened>> /\ Received' = Received /\ Unread' = Unread
    BY DEF SendReply, Received, Unread, client, remote
<1>6. CASE toClient' = toClient /\ ~peer
    <2>1. PlacesOrdered' /\ Sent' = Sent /\ InHand' \subseteq InHand
        BY <1>2, <1>4, <1>5, <1>6 DEF ReplyInv, PlacesOrdered, Sent
    <2> QED
        BY <1>5, <1>6, <2>1, SomeLost DEF InPlace
<1>7. CASE toClient' = Append(toClient, Head(out))
    <2>1. toClient \in Seq(Response) /\ (IsReply(Head(out)) => AllEarlier(Sent, {Head(out)}))
        BY <1>1, RepliesType, PlacesType DEF ReplyInv, PlacesFollow, AllEarlier, InHand
    <2>2. Ordered(toClient') /\ Sent' = Sent \cup first
        BY <1>1, <1>7, <2>1, AppendReply DEF ReplyInv, PlacesOrdered, Sent
    <2>3. OnTheWay' = OnTheWay /\ conn' = conn
        BY <1>2, <1>4, <1>5, <2>2 DEF OnTheWay, conn
    <2>4. PlacesOrdered'
        BY <1>4, <1>5, <2>2 DEF ReplyInv, PlacesOrdered
    <2>5. PlacesFollow'
        BY <1>2, <1>4, <1>5, <2>2 DEF ReplyInv, PlacesFollow, AllEarlier
    <2>6. NothingMissing' /\ UpToSaid'
        BY <1>5, <2>3 DEF ReplyInv, NothingMissing, UpToSaid
    <2> QED
        BY <2>4, <2>5, <2>6 DEF InPlace
<1>8. peer => fd # 0
    BY DEF ReplyInv, PeerHasSocket
<1> QED
    BY <1>6, <1>7, <1>8 DEF SendReply, SendToClient, tf_send

(* A new connection comes after all others; nobody reads the old ones.     *)
LEMMA ConnectKeepsPlaces ==
    ASSUME ReplyInv, Connected
    PROVE  InPlace'
<1>1. conn \in Nat /\ conn' = conn + 1
    BY OpenKeepsMine DEF ReplyInv, RelayInv, TypeOK, RemoteType, Connected, client, conn
<1>2. /\ UNCHANGED <<seen, toClient, peer>> /\ Relayed = <<>> /\ fromTarget' = <<>> /\ said' = 0
      /\ Relayed' \in {<<>>, <<Established>>}
    BY DEF Connected, Open, WGoto, Opening, Relayed, client, clientSocket
<1>3. ~IsReply(Established) /\ Ordered(<<Established>>) /\ Replies(<<Established>>) = {}
    BY DEF Established, IsReply, Ordered, Replies, Range
<1>4. /\ Received' = Received /\ Sent' = Sent /\ Unread' = {}
      /\ InHand = {} /\ InHand' = {}
    BY <1>2, <1>3, RepliesOfEmpty DEF Received, Sent, Unread, InHand
<1>5. PlacesOrdered'
    BY <1>2, <1>3, RepliesOfEmpty DEF ReplyInv, PlacesOrdered
<1>6. PlacesFollow'
    BY <1>4 DEF ReplyInv, PlacesFollow, AllEarlier
<1>7. NothingMissing'
    <2>1. OnTheWay' = Received \cup Sent /\ OnTheWay = OnTheWay' \cup Unread
        BY <1>4 DEF OnTheWay
    <2>2. AllEarlier(OnTheWay', Unread) /\ OnTheWay' \in SUBSET Response /\ Unread \in SUBSET Response
        BY <2>1, PlacesType DEF ReplyInv, PlacesFollow, AllEarlier
    <2> QED
        BY <1>2, <1>4, <2>1, <2>2, FirstPartWhole DEF ReplyInv, NothingMissing
<1>8. UpToSaid'
    <2>1. \A r \in OnTheWay' : r \in OnTheWay /\ r.from \in Nat
        BY <1>4, PlacesType DEF OnTheWay, Response, ReplyInv
    <2>2. \A r \in OnTheWay' : r.from < conn'
        BY <1>1, <2>1 DEF ReplyInv, UpToSaid
    <2> QED
        BY <1>2, <2>2 DEF UpToSaid
<1> QED
    BY <1>5, <1>6, <1>7, <1>8 DEF InPlace

(* The target writes its next reply.                                       *)
LEMMA TargetReplyKeepsPlaces ==
    ASSUME ReplyInv, TargetReplies
    PROVE  InPlace'
<1> DEFINE new == Reply(conn, said + 1)
<1>1. /\ conn \in Nat /\ said \in Nat /\ fromTarget \in Seq(Response) /\ new \in Response
      /\ new.from = conn /\ new.n = said + 1 /\ IsReply(new)
    BY PlacesType DEF ReplyInv, RelayInv, Owned, TargetReplies, Reply, Response, IsReply, NoConn
<1>2. \A r \in OnTheWay : Earlier(r, new)
    BY <1>1, PlacesType DEF ReplyInv, UpToSaid, Earlier, OnTheWay, Response
<1>3. /\ fromTarget' = Append(fromTarget, new) /\ said' = said + 1 /\ conn' = conn
      /\ UNCHANGED <<seen, toClient, peer, target>> /\ Relayed' = Relayed
    BY DEF TargetReplies, client, clientSocket, worker, Relayed, conn
<1>4. Replies(<<new>>) = {new}
    BY <1>1 DEF Replies, Range
<1>5. AllEarlier(Unread, {new})
    BY <1>2 DEF AllEarlier, OnTheWay
<1>6. Ordered(fromTarget') /\ Unread' = Unread \cup {new}
    BY <1>1, <1>3, <1>4, <1>5, AppendReply DEF ReplyInv, PlacesOrdered, Unread
<1>7. /\ Received' = Received /\ Sent' = Sent /\ InHand' = InHand /\ OnTheWay' = OnTheWay \cup {new}
    BY <1>3, <1>6 DEF Received, Sent, InHand, OnTheWay
<1>8. PlacesOrdered'
    BY <1>3, <1>6 DEF ReplyInv, PlacesOrdered
<1>9. PlacesFollow'
    BY <1>2, <1>6, <1>7 DEF ReplyInv, PlacesFollow, AllEarlier, OnTheWay
<1>10. NothingMissing'
    <2>1. ASSUME peer
          PROVE  new.n = 1 \/ Reply(new.from, new.n - 1) \in OnTheWay
        <3>1. said = 0 \/ Reply(conn, said) \in OnTheWay
            BY <2>1 DEF ReplyInv, UpToSaid, TargetReplies
        <3>2. new.n - 1 = said
            BY <1>1
        <3> QED
            BY <1>1, <3>1, <3>2
    <2> QED
        BY <1>3, <1>7, <2>1 DEF ReplyInv, NothingMissing, Whole
<1>11. UpToSaid'
    BY <1>1, <1>3, <1>7, PlacesType DEF ReplyInv, UpToSaid, OnTheWay, Response
<1> QED
    BY <1>8, <1>9, <1>10, <1>11 DEF InPlace

(* Every other step carries no reply.                                      *)
LEMMA OthersKeepPlaces ==
    ASSUME ReplyInv,
           \/ ClientWrites \/ TargetReads
           \/ ClientGone \/ RestartTooEarly \/ Forward \/ LeaveWorker
           \/ \E n \in 1..MaxChunk : \/ Ignore(n) \/ Refuse(n) \/ Process(n) \/ Reconnect(n)
                                     \/ DropWhileConnecting(n) \/ GiveUp(n)
           \/ UNCHANGED vars
    PROVE  InPlace'
<1> USE DEF client, clientSocket, worker, remote
<1>1. ASSUME NEW n \in 1..MaxChunk,
             \/ Ignore(n) \/ Refuse(n) \/ Process(n) \/ Reconnect(n)
             \/ DropWhileConnecting(n) \/ GiveUp(n)
      PROVE  UNCHANGED <<seen, toClient, fromTarget, peer, said, opened, target, wpc, out>>
    BY <1>1 DEF Ignore, Refuse, Process, Reconnect, DropWhileConnecting, GiveUp, Recv
<1>2. UNCHANGED <<seen, toClient, fromTarget, peer, said, opened, target, wpc, out>>
    BY <1>1
    DEF ClientWrites, TargetReads, ClientGone, RestartTooEarly, Forward, LeaveWorker, vars
<1> QED
    BY <1>2, NothingCarried DEF InPlace, Relayed

(* Nor does the worker where it holds none, or is started.                 *)
LEMMA WorkerKeepsPlaces ==
    ASSUME ReplyInv, ~overtaken,
           \/ Begin \/ ConnectFails \/ SendRequest \/ TargetGone \/ MarkReconnect \/ ForgetTarget
           \/ Restart \/ \E n \in 1..MaxChunk : Insert(n)
    PROVE  InPlace'
<1> USE DEF client, clientSocket, worker, remote
<1>1. UNCHANGED <<seen, toClient, fromTarget, peer, said, opened, target>>
    BY DEF Begin, ConnectFails, SendRequest, TargetGone, MarkReconnect, ForgetTarget, Restart,
           Insert, Recv
<1>2. wpc # "relay" /\ wpc' # "relay"
    BY DEF ReplyInv, WorkerHasRecord, Begin, ConnectFails, SendRequest, TargetGone, MarkReconnect,
           ForgetTarget, Restart, InTime, Insert, WGoto
<1> QED
    BY <1>1, <1>2, NothingCarried DEF InPlace, Relayed

(* A client has its end open only as long as the descriptor is open.       *)
LEMMA PeerKeepsSocket ==
    ASSUME ReplyInv, [Next]_vars
    PROVE  PeerHasSocket'
<1> USE DEF ReplyInv, PeerHasSocket
<1>1. CASE Accept
    BY <1>1 DEF Accept, RelayInv, TypeOK, ClientType
<1>2. CASE CloseClient \/ ClientCloses
    BY <1>2 DEF CloseClient, ClientCloses
<1>3. CASE UNCHANGED <<fd, peer>>
    BY <1>3
<1>4. CASE EventLoop
    <2>1. CASE \E n \in 1..MaxChunk : \/ Ignore(n) \/ Refuse(n) \/ Insert(n) \/ Process(n)
                                      \/ DropWhileConnecting(n) \/ Reconnect(n) \/ GiveUp(n)
        BY <1>3, <2>1
        DEF Ignore, Refuse, Insert, Process, DropWhileConnecting, Reconnect, GiveUp, Recv, client
    <2>2. CASE \/ ClientGone \/ Restart \/ RestartTooEarly \/ ReplyEstablished \/ Forward
               \/ StopWorker \/ LeaveWorker
        BY <1>3, <2>2
        DEF ClientGone, Restart, RestartTooEarly, ReplyEstablished, Forward, StopWorker,
            LeaveWorker, client
    <2> QED
        BY <1>2, <1>4, <2>1, <2>2 DEF EventLoop
<1>5. CASE Worker
    BY <1>3, <1>5
    DEF Worker, Begin, Connected, ConnectFails, SendRequest, SendReply, TargetGone, MarkReconnect,
        ForgetTarget, RecvTarget, client
<1>6. CASE Target \/ ClientListens \/ Others \/ UNCHANGED vars
    BY <1>1, <1>2, <1>3, <1>6
    DEF Target, TargetReads, TargetReplies, ClientListens, ClientReads, Others, ClientWrites,
        TargetCloses, vars, client
<1> QED
    BY <1>4, <1>5, <1>6 DEF Next

LEMMA NextReply == ReplyInv /\ [Next]_vars => ReplyInv'
<1> SUFFICES ASSUME ReplyInv, [Next]_vars PROVE ReplyInv'
    OBVIOUS
<1>1. RelayInv' /\ WorkerHasRecord' /\ PeerHasSocket'
    BY NextRelay, RecordOfWorker, PeerKeepsSocket DEF ReplyInv
<1>2. InPlace'
    <2>1. CASE EventLoop
        BY <2>1, EstablishedKeepsPlaces, CloseKeepsPlaces, StopKeepsPlaces, WorkerKeepsPlaces,
           OthersKeepPlaces
        DEF EventLoop
    <2>2. CASE Worker
        BY <2>2, ConnectKeepsPlaces, SendKeepsPlaces, RecvKeepsPlaces, WorkerKeepsPlaces DEF Worker
    <2>3. CASE Target \/ ClientListens
        BY <2>3, TargetReplyKeepsPlaces, ReadKeepsPlaces, OthersKeepPlaces DEF Target, ClientListens
    <2>4. CASE Others
        BY <2>4, AcceptKeepsPlaces, CloseKeepsPlaces, TargetCloseKeepsPlaces, OthersKeepPlaces
        DEF Others
    <2>5. CASE UNCHANGED vars
        BY <2>5, OthersKeepPlaces
    <2> QED
        BY <2>1, <2>2, <2>3, <2>4, <2>5 DEF Next
<1> QED
    BY <1>1, <1>2 DEF ReplyInv, InPlace

LEMMA ReplyInvariant == Spec => []ReplyInv
BY InitReply, NextReply, PTL DEF Spec
----------------------------------------------------------------------------
(* What a client receives is the replies of its connections, one           *)
(* connection after the other, of each all replies from the first on and   *)
(* without a gap, whatever the event loop writes in between: the worker's  *)
(* sends block and are never cut short (connect_target, 764 to 776).       *)
THEOREM ReceivedInOrder == Spec => []RepliesInOrder
<1>1. ReplyInv => RepliesInOrder
    <2> SUFFICES ASSUME ReplyInv PROVE RepliesInOrder
        OBVIOUS
    <2>1. Ordered(seen) /\ Whole(Received)
        BY DEF ReplyInv, PlacesOrdered, NothingMissing
    <2>2. ASSUME NEW j \in DOMAIN seen, IsReply(seen[j]), seen[j].n # 1
          PROVE  \E i \in 1..(j - 1) : seen[i] = Reply(seen[j].from, seen[j].n - 1)
        <3> DEFINE last == Reply(seen[j].from, seen[j].n - 1)
        <3>1. seen \in Seq(Response) /\ seen[j] \in Received /\ DOMAIN seen = 1..Len(seen) /\ Len(seen) \in Nat
            BY <2>2, PlacesType, LenProperties, RepliesType DEF ReplyInv, Received
        <3>2. last \in Received
            BY <2>1, <2>2, <3>1 DEF Whole
        <3>3. PICK i \in DOMAIN seen : seen[i] = last
            BY <3>2 DEF Received, Replies, Range
        <3>4. seen[j].from \in Nat /\ seen[j].n \in Nat /\ IsReply(last)
            BY <2>2, <3>1, PlacesType DEF Response, IsReply, Reply, ReplyInv
        <3>5. ~Earlier(seen[j], last) /\ seen[j] # last
            BY <3>4 DEF Earlier, Reply
        <3>6. i < j
            BY <2>1, <2>2, <3>1, <3>3, <3>4, <3>5 DEF Ordered
        <3> QED
            BY <3>1, <3>3, <3>6
    <2> QED
        BY <2>1, <2>2 DEF RepliesInOrder
<1> QED
    BY ReplyInvariant, <1>1, PTL
=============================================================================
