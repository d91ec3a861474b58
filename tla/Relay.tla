------------------------------- MODULE Relay -------------------------------
(***************************************************************************)
(* The bytes that tfmap carries for the clients of one descriptor: from a  *)
(* client's socket through process_msg to the target, and from the target  *)
(* through the worker's receive loop back to the client.                   *)
(*                                                                         *)
(* A piece is what recv does not divide: a whole request, or a part of one *)
(* that is longer than recv's buffer or that TCP cuts in two. recv returns *)
(* any non-empty prefix of the pieces that have arrived (a chunk), so      *)
(* requests may also arrive glued together. Sockets are blocking and their *)
(* buffers hold Room pieces: send waits for room and returns at once when  *)
(* the peer is gone.                                                       *)
(*                                                                         *)
(* The event loop and the worker run side by side. A worker that is left   *)
(* behind, because it had not marked its record when the record was erased *)
(* (897) or had not ended when the session was restarted (171), makes the  *)
(* behaviour "overtaken" and ends it here; TFMap shows what comes then.    *)
(***************************************************************************)
EXTENDS HttpRequest, Sequences

CONSTANTS
    Kinds,         \* what a piece may be: its name and facts, and whether it ends a request
    NoClient,      \* "no record in g_accept_map"
    MaxPieces,     \* bound: pieces written by all clients together
    MaxClients,    \* bound: clients that get the descriptor, one after another
    MaxConns,      \* bound: connections made to targets
    MaxChunk,      \* bound: pieces that wait in a client's socket, so that one recv returns
    Answer,        \* pieces in which a target answers one piece
    Room           \* pieces that one of the other socket buffers holds

ASSUME RelayAssumption ==
    /\ {MaxPieces, MaxClients, MaxConns, MaxChunk, Answer, Room} \subseteq Nat \ {0}
    /\ \A k \in Kinds : k.facts \in Message /\ k.last \in BOOLEAN

VARIABLES
    fd,          \* the client whose socket the descriptor is; 0: it is closed
    clients,     \* clients accepted so far
    written,     \* pieces written so far
    peer,        \* the client has its own end open
    polite,      \* a request is one piece, and its client waits for the answer
    waiting,     \* what such a client waits for: "200", a "reply", or "nothing"
    fromClient, toClient,      \* the client's socket, each way
    seen,        \* what the present client has received
    map_client,  \* g_accept_map[fd]
    epc, msg,    \* event loop: where it is, what is left of its chunk
    wpc, out,    \* worker: where it is, what is left of what it sends
    opened,      \* every connection made: its client, its target, the stored message
    target,      \* the target of the last connection has its own end open
    toTarget, fromTarget,      \* the socket of the last connection, each way
    said, owed,  \* replies its target has written, and how many it owes
    got,         \* what targets have received, over which connection
    overtaken    \* history: the event loop has gone on without its worker

client == <<fd, clients, written, peer, polite, waiting>>
clientSocket == <<fromClient, toClient, seen>>
loop == <<map_client, epc, msg>>
worker == <<wpc, out>>
remote == <<opened, target, toTarget, fromTarget, said, owed, got>>
vars == <<client, clientSocket, loop, worker, remote, overtaken>>
----------------------------------------------------------------------------
MAP_CONNECT_SUCCESS == 10
MAP_CONNECT_FAILED  == 1
MAP_CREATE_THREAD   == 2
MAP_RECONNECT       == 3

NoConn == 0

(* What process_msg finds by searching a chunk: the verb is that of the    *)
(* first piece, a header that of the first piece that has it.              *)
Has(p, header) == p.facts[header] # "absent"

IsFirst(chunk, i, header) ==
    Has(chunk[i], header) /\ \A j \in 1..(i - 1) : ~Has(chunk[j], header)

Some(chunk, header) == \E i \in DOMAIN chunk : IsFirst(chunk, i, header)

FirstWith(chunk, header) == chunk[CHOOSE i \in DOMAIN chunk : IsFirst(chunk, i, header)]

Facts(chunk) ==
    [verb |-> Head(chunk).facts.verb,
     host |-> IF Some(chunk, "host") THEN FirstWith(chunk, "host").facts.host ELSE "absent",
     http |-> \E i \in DOMAIN chunk : chunk[i].facts.http,
     auth |-> IF Some(chunk, "auth") THEN FirstWith(chunk, "auth").facts.auth ELSE "absent"]

(* connect_name, from the Host header or else the request line.            *)
Name(chunk) ==
    IF Some(chunk, "host") THEN FirstWith(chunk, "host").name ELSE Head(chunk).name

(* "HTTP/1.1 200 Connection established", and a reply of a target.         *)
Established == [from |-> NoConn, n |-> 0]

Reply(c, n) == [from |-> c, n |-> n]

conn == Len(opened)

(* The number in the record or in the worker's local is that of a socket   *)
(* whose peer has not closed it.                                           *)
Reaches(c) == c # NoConn /\ c = conn /\ target

(* One piece of a send: the sockets block, so it waits while the buffer is *)
(* full, never fails with EAGAIN and is never tried again; it goes nowhere *)
(* (EPIPE, EBADF, fd <= 0) when there is no peer.                          *)
tf_send(buffer, hasPeer, m) ==
    IF hasPeer THEN Len(buffer) < Room /\ buffer' = Append(buffer, m) ELSE UNCHANGED buffer

SendToClient(m) == tf_send(toClient, fd # 0 /\ peer, m)

SendToTarget(c, m) == tf_send(toTarget, Reaches(c), m)
----------------------------------------------------------------------------
Init ==
    /\ fd = 0 /\ clients = 0 /\ written = 0 /\ peer = FALSE /\ waiting = "nothing"
    /\ polite \in BOOLEAN
    /\ fromClient = <<>> /\ toClient = <<>> /\ seen = <<>>
    /\ map_client = NoClient /\ epc = "wait" /\ msg = <<>>
    /\ wpc = "none" /\ out = <<>>
    /\ opened = <<>> /\ target = FALSE /\ toTarget = <<>> /\ fromTarget = <<>>
    /\ said = 0 /\ owed = 0 /\ got = <<>>
    /\ overtaken = FALSE
----------------------------------------------------------------------------
(* The clients. A 200 answers a CONNECT, and a target's reply any request. *)

Awaited(k) ==
    CASE ~polite -> "nothing"
      [] polite /\ get_action(k.facts) = TF_CONNECT -> "200"
      [] OTHER -> "reply"

ClientWrites ==
    /\ fd # 0 /\ peer
    /\ written < MaxPieces
    /\ Len(fromClient) < MaxChunk
    /\ \E k \in Kinds :
        /\ polite => waiting = "nothing" /\ k.last
        /\ fromClient' = Append(fromClient, [id |-> written + 1, name |-> k.name,
                                             facts |-> k.facts, last |-> k.last])
        /\ waiting' = Awaited(k)
    /\ written' = written + 1
    /\ UNCHANGED <<fd, clients, peer, polite, toClient, seen, loop, worker, remote, overtaken>>

IsAnswer(response) ==
    IF response = Established THEN waiting = "200" ELSE response.n % Answer = 0

ClientReads ==
    /\ peer /\ toClient # <<>>
    /\ seen' = Append(seen, Head(toClient))
    /\ toClient' = Tail(toClient)
    /\ waiting' = IF IsAnswer(Head(toClient)) THEN "nothing" ELSE waiting
    /\ UNCHANGED <<fd, clients, written, peer, polite, fromClient, loop, worker, remote, overtaken>>

(* The client closes; a reset also takes back what was not read yet.       *)
ClientCloses ==
    /\ fd # 0 /\ peer
    /\ peer' = FALSE
    /\ waiting' = "nothing"
    /\ toClient' = <<>>
    /\ fromClient' \in {fromClient, <<>>}
    /\ UNCHANGED <<fd, clients, written, polite, seen, loop, worker, remote, overtaken>>
----------------------------------------------------------------------------
(* The event loop.                                                         *)

(* accept gives the next client the number that was closed.                *)
Accept ==
    /\ epc = "wait" /\ fd = 0 /\ clients < MaxClients
    /\ clients' = clients + 1
    /\ fd' = clients'
    /\ peer' = TRUE
    /\ seen' = <<>>
    /\ UNCHANGED <<written, polite, waiting, fromClient, toClient, loop, worker, remote,
                   overtaken>>

ELGoto(to, rest) == epc' = to /\ msg' = rest

(* recv returns the first n pieces.                                        *)
Recv(n) ==
    /\ epc = "wait" /\ fd # 0
    /\ n <= Len(fromClient)
    /\ fromClient' = SubSeq(fromClient, n + 1, Len(fromClient))
    /\ UNCHANGED <<client, toClient, seen, remote, overtaken>>

Chunk(n) == SubSeq(fromClient, 1, n)

(* No record: the parser decides.                                          *)
Ignore(n) ==
    /\ Recv(n)
    /\ map_client = NoClient
    /\ Dropped(Facts(Chunk(n)))
    /\ UNCHANGED <<loop, worker>>

Refuse(n) ==
    /\ Recv(n)
    /\ map_client = NoClient
    /\ Rejected(Facts(Chunk(n)))
    /\ ELGoto("close", <<>>)
    /\ UNCHANGED <<map_client, worker>>

(* The first request: a record whose flag nobody has set, and a worker that *)
(* has said that it runs (801), but need not have marked the record.       *)
Insert(n) ==
    /\ Recv(n)
    /\ map_client = NoClient
    /\ ~Dropped(Facts(Chunk(n))) /\ ~Rejected(Facts(Chunk(n)))
    /\ map_client' = [flag |-> 0, connect_fd |-> NoConn, connect_name |-> Name(Chunk(n)),
                      action |-> get_action(Facts(Chunk(n))), msg |-> Chunk(n)]
    /\ wpc' = "begin" /\ out' = <<>>
    /\ UNCHANGED <<epc, msg>>

(* MAP_CONNECT_SUCCESS: a CONNECT is answered, anything else forwarded.    *)
Process(n) ==
    /\ Recv(n)
    /\ map_client # NoClient /\ map_client.flag = MAP_CONNECT_SUCCESS
    /\ ELGoto(IF get_action(Facts(Chunk(n))) = TF_CONNECT THEN "reply" ELSE "forward", Chunk(n))
    /\ UNCHANGED <<map_client, worker>>

(* MAP_CREATE_THREAD and 0: what the client sends is read and dropped.     *)
DropWhileConnecting(n) ==
    /\ Recv(n)
    /\ map_client # NoClient /\ map_client.flag \in {0, MAP_CREATE_THREAD}
    /\ UNCHANGED <<loop, worker>>

(* MAP_RECONNECT: the event loop sleeps for the worker to end.             *)
Reconnect(n) ==
    /\ Recv(n)
    /\ map_client # NoClient /\ map_client.flag = MAP_RECONNECT
    /\ ELGoto("restart", Chunk(n))
    /\ UNCHANGED <<map_client, worker>>

(* MAP_CONNECT_FAILED: return -1.                                          *)
GiveUp(n) ==
    /\ Recv(n)
    /\ map_client # NoClient /\ map_client.flag = MAP_CONNECT_FAILED
    /\ ELGoto("close", <<>>)
    /\ UNCHANGED <<map_client, worker>>

(* recv returned len <= 0, or EPOLLERR.                                    *)
ClientGone ==
    /\ epc = "wait" /\ fd # 0 /\ ~peer /\ fromClient = <<>>
    /\ ELGoto("close", <<>>)
    /\ UNCHANGED <<client, clientSocket, map_client, worker, remote, overtaken>>

(* The sleep was long enough.                                              *)
InTime == wpc = "none" /\ map_client # NoClient /\ map_client.flag = MAP_RECONNECT

(* Mutant: the message that was stored before is kept.                     *)
Restart_OldMessage ==
    /\ epc = "restart"
    /\ InTime
    /\ ELGoto("wait", <<>>)
    /\ wpc' = "begin"
    /\ UNCHANGED <<client, clientSocket, map_client, out, remote, overtaken>>

(* Only len and msg of the record are replaced; the flag stays.            *)
Restart ==
    /\ epc = "restart"
    /\ InTime
    /\ ELGoto("wait", <<>>)
    /\ map_client' = [map_client EXCEPT !.msg = msg]
    /\ wpc' = "begin"
    /\ UNCHANGED <<client, clientSocket, out, remote, overtaken>>

(* The worker that was to end still runs, or another that was started.     *)
RestartTooEarly ==
    /\ epc = "restart"
    /\ ~InTime
    /\ overtaken' = TRUE
    /\ UNCHANGED <<client, clientSocket, loop, worker, remote>>

(* sendto_client(fd, reply_https, ..): one piece, whatever the chunk held. *)
ReplyEstablished ==
    /\ epc = "reply"
    /\ SendToClient(Established)
    /\ ELGoto("wait", <<>>)
    /\ UNCHANGED <<client, fromClient, seen, map_client, worker, remote, overtaken>>

(* sendto_remote(g_accept_map[fd].connect_fd, msg, len).                   *)
Forward ==
    /\ epc = "forward"
    /\ SendToTarget(map_client.connect_fd, Head(msg))
    /\ ELGoto(IF Len(msg) = 1 THEN "wait" ELSE "forward", Tail(msg))
    /\ UNCHANGED <<client, clientSocket, map_client, worker, opened, target, fromTarget, said,
                   owed, got, overtaken>>

(* tf_close(fd): the client has nothing to read from any more.             *)
CloseClient ==
    /\ epc = "close"
    /\ ELGoto("stop", <<>>)
    /\ fd' = 0 /\ peer' = FALSE /\ waiting' = "nothing"
    /\ fromClient' = <<>> /\ toClient' = <<>>
    /\ UNCHANGED <<clients, written, polite, seen, map_client, worker, remote, overtaken>>

(* The flag that del_connect_map looks at before it joins the worker.      *)
Unmarked == map_client # NoClient /\ map_client.flag = 0

(* Mutant: the worker is cancelled but not joined, and goes on for a while. *)
StopWorker_NoJoin ==
    /\ epc = "stop"
    /\ ~Unmarked
    /\ ELGoto("wait", <<>>)
    /\ map_client' = NoClient
    /\ UNCHANGED <<client, clientSocket, worker, remote, overtaken>>

(* del_connect_map closes the connection, cancels and joins the worker,    *)
(* wherever it blocks; then the record is erased.                          *)
StopWorker ==
    /\ epc = "stop"
    /\ ~Unmarked
    /\ ELGoto("wait", <<>>)
    /\ map_client' = NoClient
    /\ wpc' = "none" /\ out' = <<>>
    /\ target' = FALSE /\ owed' = 0 /\ toTarget' = <<>> /\ fromTarget' = <<>>
    /\ UNCHANGED <<client, clientSocket, opened, said, got, overtaken>>

(* A worker that has not marked its record is left to run.                 *)
LeaveWorker ==
    /\ epc = "stop"
    /\ Unmarked
    /\ ELGoto("wait", <<>>)
    /\ map_client' = NoClient
    /\ overtaken' = TRUE
    /\ UNCHANGED <<client, clientSocket, worker, remote>>
----------------------------------------------------------------------------
(* The worker: connect_target from connect() on.                           *)

WGoto(from, to, rest) == wpc = from /\ wpc' = to /\ out' = rest /\ UNCHANGED overtaken

(* thread_process marks the record, for the first time or for a restart.   *)
Begin ==
    /\ map_client # NoClient
    /\ WGoto("begin", "connect", <<>>)
    /\ map_client' = [map_client EXCEPT !.flag = MAP_CREATE_THREAD]
    /\ UNCHANGED <<client, clientSocket, epc, msg, remote>>

(* Mutant: every session is opened as a tunnel.                            *)
Opening_Always200 == <<Established>>

(* What the worker sends first: 200 to the client, or the stored request.  *)
Opening == IF map_client.action = TF_CONNECT THEN <<Established>> ELSE map_client.msg

(* A new connection, whose target has written nothing yet.                 *)
Open ==
    /\ conn < MaxConns
    /\ opened' = Append(opened, [client |-> clients, target |-> map_client.connect_name,
                                 stored |-> map_client.msg])
    /\ target' = TRUE
    /\ toTarget' = <<>> /\ fromTarget' = <<>> /\ said' = 0 /\ owed' = 0
    /\ UNCHANGED got

(* Mutant: the client is told before the record says so.                   *)
Connected_Unmarked ==
    /\ map_client # NoClient
    /\ WGoto("connect", IF map_client.action = TF_CONNECT THEN "relay" ELSE "request", Opening)
    /\ Open
    /\ map_client' = [map_client EXCEPT !.connect_fd = conn + 1]
    /\ UNCHANGED <<client, clientSocket, epc, msg>>

(* The flag is set before anything is sent.                                *)
Connected ==
    /\ map_client # NoClient
    /\ WGoto("connect", IF map_client.action = TF_CONNECT THEN "relay" ELSE "request", Opening)
    /\ Open
    /\ map_client' = [map_client EXCEPT !.flag = MAP_CONNECT_SUCCESS, !.connect_fd = conn + 1]
    /\ UNCHANGED <<client, clientSocket, epc, msg>>

(* No address, no socket or no connection.                                 *)
ConnectFails ==
    /\ WGoto("connect", "none", <<>>)
    /\ map_client # NoClient
    /\ map_client' = [map_client EXCEPT !.flag = MAP_CONNECT_FAILED]
    /\ UNCHANGED <<client, clientSocket, epc, msg, remote>>

SendRequest ==
    /\ WGoto("request", IF Len(out) = 1 THEN "recv" ELSE "request", Tail(out))
    /\ SendToTarget(conn, Head(out))
    /\ UNCHANGED <<client, clientSocket, loop, opened, target, fromTarget, said, owed, got>>


RecvTarget(n) ==
    /\ n <= Len(fromTarget)
    /\ WGoto("recv", "relay", SubSeq(fromTarget, 1, n))
    /\ fromTarget' = SubSeq(fromTarget, n + 1, Len(fromTarget))
    /\ UNCHANGED <<client, clientSocket, loop, opened, target, toTarget, said, owed, got>>

(* Mutant: sockets do not block, and what does not fit is dropped.         *)
SendReply_NonBlocking ==
    /\ WGoto("relay", IF Len(out) = 1 THEN "recv" ELSE "relay", Tail(out))
    /\ IF Len(toClient) < Room THEN SendToClient(Head(out)) ELSE UNCHANGED toClient
    /\ UNCHANGED <<client, fromClient, seen, loop, remote>>

SendReply ==
    /\ WGoto("relay", IF Len(out) = 1 THEN "recv" ELSE "relay", Tail(out))
    /\ SendToClient(Head(out))
    /\ UNCHANGED <<client, fromClient, seen, loop, remote>>

(* recv returned len <= 0: tf_close, then the record.                      *)
TargetGone ==
    /\ fromTarget = <<>> /\ ~target
    /\ WGoto("recv", "closed", <<>>)
    /\ UNCHANGED <<client, clientSocket, loop, remote>>

(* Mutant: the flag stays as it was.                                       *)
MarkReconnect_NoFlag ==
    /\ map_client # NoClient
    /\ WGoto("closed", "marked", <<>>)
    /\ UNCHANGED <<client, clientSocket, loop, remote>>

MarkReconnect ==
    /\ map_client # NoClient
    /\ WGoto("closed", "marked", <<>>)
    /\ map_client' = [map_client EXCEPT !.flag = MAP_RECONNECT]
    /\ UNCHANGED <<client, clientSocket, epc, msg, remote>>

(* The worker's last access to the record.                                 *)
ForgetTarget ==
    /\ map_client # NoClient
    /\ WGoto("marked", "none", <<>>)
    /\ map_client' = [map_client EXCEPT !.connect_fd = NoConn]
    /\ UNCHANGED <<client, clientSocket, epc, msg, remote>>
----------------------------------------------------------------------------
(* The target: it reads a request, answers it, and only then reads on.     *)

TargetReads ==
    /\ target /\ owed = 0 /\ toTarget # <<>>
    /\ got' = Append(got, [id |-> Head(toTarget).id, conn |-> conn])
    /\ toTarget' = Tail(toTarget)
    /\ owed' = IF Head(toTarget).last THEN Answer ELSE 0
    /\ UNCHANGED <<client, clientSocket, loop, worker, opened, target, fromTarget, said,
                   overtaken>>

TargetReplies ==
    /\ target /\ owed > 0 /\ Len(fromTarget) < Room
    /\ said' = said + 1
    /\ fromTarget' = Append(fromTarget, Reply(conn, said'))
    /\ owed' = owed - 1
    /\ UNCHANGED <<client, clientSocket, loop, worker, opened, target, toTarget, got, overtaken>>

(* The target closes; a reset also takes back what was not read yet.       *)
TargetCloses ==
    /\ target
    /\ target' = FALSE /\ owed' = 0 /\ toTarget' = <<>>
    /\ fromTarget' \in {fromTarget, <<>>}
    /\ UNCHANGED <<client, clientSocket, loop, worker, opened, said, got, overtaken>>
----------------------------------------------------------------------------
EventLoop ==
    /\ ~overtaken
    /\ \/ \E n \in 1..MaxChunk :
           \/ Ignore(n) \/ Refuse(n) \/ Insert(n) \/ Process(n)
           \/ DropWhileConnecting(n) \/ Reconnect(n) \/ GiveUp(n)
       \/ ClientGone \/ Restart \/ RestartTooEarly \/ ReplyEstablished \/ Forward
       \/ CloseClient \/ StopWorker \/ LeaveWorker

Worker ==
    /\ ~overtaken
    /\ \/ Begin \/ Connected \/ ConnectFails \/ SendRequest \/ SendReply
       \/ TargetGone \/ MarkReconnect \/ ForgetTarget
       \/ \E n \in 1..MaxChunk : RecvTarget(n)

Target == ~overtaken /\ (TargetReads \/ TargetReplies)

ClientListens == ~overtaken /\ ClientReads

Others == ~overtaken /\ (Accept \/ ClientWrites \/ ClientCloses \/ TargetCloses)

Next == EventLoop \/ Worker \/ Target \/ ClientListens \/ Others

Spec == Init /\ [][Next]_vars

(* The threads run, and both peers read what there is to read.             *)
FairSpec ==
    Spec /\ WF_vars(EventLoop) /\ WF_vars(Worker) /\ WF_vars(Target) /\ WF_vars(ClientListens)
----------------------------------------------------------------------------
TargetNames == {k.name : k \in Kinds}

Piece == [id : Nat, name : TargetNames, facts : Message, last : BOOLEAN]

Response == [from : Nat, n : Nat]

MapClient == [flag : {0, MAP_CONNECT_SUCCESS, MAP_CONNECT_FAILED, MAP_CREATE_THREAD, MAP_RECONNECT},
              connect_fd : Nat, connect_name : TargetNames, action : 1..3, msg : Seq(Piece)]

(* find() tells "no record" from every record.                             *)
ASSUME NoClientAssumption == NoClient \notin MapClient

ClientType ==
    /\ fd \in Nat /\ clients \in Nat /\ written \in Nat
    /\ peer \in BOOLEAN /\ polite \in BOOLEAN /\ waiting \in {"nothing", "200", "reply"}

ClientSocketType ==
    /\ fromClient \in Seq(Piece)
    /\ toClient \in Seq(Response) /\ seen \in Seq(Response)

LoopType ==
    /\ map_client \in MapClient \cup {NoClient}
    /\ epc \in {"wait", "restart", "reply", "forward", "close", "stop"}
    /\ msg \in Seq(Piece)

WorkerType ==
    /\ wpc \in {"none", "begin", "connect", "request", "recv", "relay", "closed", "marked"}
    /\ wpc = "relay" => out \in Seq(Response)
    /\ wpc # "relay" => out \in Seq(Piece)

RemoteType ==
    /\ opened \in Seq([client : Nat, target : TargetNames, stored : Seq(Piece)])
    /\ target \in BOOLEAN
    /\ toTarget \in Seq(Piece) /\ fromTarget \in Seq(Response)
    /\ said \in Nat /\ owed \in Nat
    /\ got \in Seq([id : Nat, conn : Nat])

(* Every variable has its type; what a worker sends is responses exactly   *)
(* when it sends to the client.                                            *)
TypeOK ==
    /\ ClientType /\ ClientSocketType /\ LoopType /\ WorkerType /\ RemoteType
    /\ overtaken \in BOOLEAN

(* Whatever a client receives from a target was sent over a connection     *)
(* made for that client, although the next client gets the same number     *)
(* while old connections are being closed (process_map.cpp, 488 to 863).   *)
ClientSeesOwn ==
    \A i \in DOMAIN seen : seen[i].from # NoConn => opened[seen[i].from].client = clients

IsReply(r) == r.from # NoConn

(* The order in which targets write: one connection after the other, and   *)
(* over each connection one reply after the other.                         *)
Earlier(r, q) == r.from < q.from \/ (r.from = q.from /\ r.n < q.n)

Ordered(q) ==
    \A i, j \in DOMAIN q : i < j /\ IsReply(q[i]) /\ IsReply(q[j]) => Earlier(q[i], q[j])

(* What a client receives is the replies of its connections, one           *)
(* connection after the other, and of each connection all replies from the *)
(* first on, without a gap: only the end can be missing (connect_target,   *)
(* process_map.cpp, 764 to 776).                                           *)
RepliesInOrder ==
    /\ Ordered(seen)
    /\ \A j \in DOMAIN seen : IsReply(seen[j]) =>
        seen[j].n = 1 \/ \E i \in 1..(j - 1) : seen[i] = Reply(seen[j].from, seen[j].n - 1)

Stored(r) == \E i \in DOMAIN opened[r.conn].stored : opened[r.conn].stored[i].id = r.id

(* Targets receive no piece twice, and pieces in the order in which they   *)
(* were written. The exception is the stored message of a connection,      *)
(* which may be overtaken because the flag is set (747) before it is sent  *)
(* (755); never for a client that is polite.                               *)
ForwardedInOrder ==
    \A i, j \in DOMAIN got : i < j =>
        \/ got[i].id < got[j].id
        \/ ~polite /\ got[i].conn = got[j].conn /\ Stored(got[j]) /\ ~Stored(got[i])

(* Nothing that a polite client writes is dropped, or meets a restart that *)
(* has not been marked yet, because its worker is still connecting: the    *)
(* 200 reply and the stored request leave after the flag is set. (The rest *)
(* of a request that recv divides is dropped, at 185.)                     *)
PoliteIsHeard ==
    polite /\ map_client # NoClient /\ (map_client.flag \in {0, MAP_CREATE_THREAD} \/ wpc = "begin")
        => fromClient = <<>>


(* All that leaves a client without an answer for good: no record for a    *)
(* first message that is no request, a connect that failed (the client is  *)
(* not told), a message that met the end of its connection, and a session  *)
(* of a CONNECT restarted by another request, which is stored and then not *)
(* sent: the client gets a second 200 instead (748).                       *)
Unanswered ==
    /\ epc = "wait" /\ fromClient = <<>>
    /\ \/ map_client = NoClient
       \/ map_client.flag \in {MAP_CONNECT_FAILED, MAP_RECONNECT}
       \/ /\ map_client.flag = MAP_CONNECT_SUCCESS /\ map_client.action = TF_CONNECT
          /\ get_action(Facts(map_client.msg)) # TF_CONNECT

(* A polite client is answered, but for these four cases.                  *)
PoliteIsAnswered ==
    (polite /\ waiting # "nothing") ~> (waiting = "nothing" \/ Unanswered \/ overtaken)

(* process_map.cpp, 159: the client that is told "Connection established"  *)
(* asked for the target that the session is connected to.                  *)
EstablishedMeansConnected == epc = "reply" => map_client.connect_name = Head(msg).name
=============================================================================
