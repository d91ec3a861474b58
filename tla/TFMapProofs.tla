---------------------------- MODULE TFMapProofs ----------------------------
(***************************************************************************)
(* Proofs about TFMap, for any number of descriptors, threads and          *)
(* messages: the types; the handshake of add_connect_map with the thread   *)
(* it creates; who owns a record as long as the event loop has overtaken   *)
(* no worker (the worker whose thread_id is in it, and nobody else); and   *)
(* that operator[] makes no record until then.                             *)
(***************************************************************************)
EXTENDS TFMap, TLAPS

(* operator[] yields a MapClient, found or made.                           *)
LEMMA AtIsClient ==
    ASSUME TypeOK, NEW f \in Fds
    PROVE  At(f) \in MapClient
BY DEF TypeOK, At, Found, DefaultClient, MapClient, Flags

(* Writing a member of MapClient through operator[] keeps the map's type.  *)
LEMMA PutType ==
    ASSUME TypeOK, NEW f, NEW client, Put(f, client),
           f \in Fds => client \in MapClient \cup {NoClient}
    PROVE  g_accept_map' \in [Fds -> MapClient \cup {NoClient}]
BY DEF TypeOK, Put

(* Reading through operator[] keeps the type of the map.                   *)
LEMMA PutAtType ==
    ASSUME TypeOK, NEW f, Put(f, At(f))
    PROVE  g_accept_map' \in [Fds -> MapClient \cup {NoClient}]
BY AtIsClient, PutType

(* Assigning a flag keeps it.                                              *)
LEMMA SetFlagType ==
    ASSUME TypeOK, NEW f, NEW v \in Flags, SetFlag(f, v)
    PROVE  g_accept_map' \in [Fds -> MapClient \cup {NoClient}]
<1>1. f \in Fds => [At(f) EXCEPT !.flag = v] \in MapClient
  BY AtIsClient DEF MapClient
<1>2. QED
  BY <1>1, PutType DEF SetFlag

(* close keeps the type of the descriptor table.                           *)
LEMMA CloseType ==
    ASSUME TypeOK, NEW k, Close(k)
    PROVE  files' \in [Fds -> {"free", "client"} \cup Workers]
BY DEF TypeOK, Close

(* A record with another connect_fd.                                       *)
LEMMA ConnectFdType ==
    ASSUME TypeOK, NEW f \in Fds, NEW k \in Fds \cup {NoFd}
    PROVE  [At(f) EXCEPT !.connect_fd = k] \in MapClient
BY AtIsClient DEF MapClient

(* The record that process_msg inserts.                                    *)
Inserted(f, name) == [DefaultClient EXCEPT !.accept_fd = f, !.connect_name = name]

LEMMA InsertedType ==
    ASSUME NEW f \in Fds, NEW name \in {"", "name"}
    PROVE  /\ Inserted(f, name) \in MapClient
           /\ Inserted(f, name).thread_id = Unset
           /\ Inserted(f, name).flag = 0
           /\ Inserted(f, name).accept_fd = f
BY DEF Inserted, DefaultClient, MapClient, Flags

(* The end of a thread keeps the types of its locals.                      *)
LEMMA ExitType ==
    ASSUME TypeOK, NEW w \in Workers, NEW from, Exit(w, from)
    PROVE  /\ pc' \in [Workers -> WorkerPc]
           /\ fd' \in [Workers -> Fds \cup {NoFd}]
           /\ connect_fd' \in [Workers -> Fds \cup {NoFd}]
BY DEF TypeOK, Exit, WGoto, WorkerPc

(* A worker goes from one of its places to another.                        *)
LEMMA WGotoType ==
    ASSUME TypeOK, NEW w \in Workers, NEW from, NEW to \in WorkerPc, WGoto(w, from, to)
    PROVE  pc' \in [Workers -> WorkerPc]
BY DEF TypeOK, WGoto
----------------------------------------------------------------------------
(* The event loop handles an event of some descriptor.                     *)
Handling == epc # "wait" => efd \in Fds

TypeInv == TypeOK /\ Handling

(* The handlers of the event loop keep the types.                          *)
LEMMA EventLoopType ==
    ASSUME TypeInv, EventLoopStep \/ EventLoopSend
    PROVE  TypeInv'
<1> USE DEF TypeInv, Handling, ELGoto, worker, eventLoop, EventLoopPc
<1>1. CASE ForwardRead
  BY <1>1, AtIsClient, PutAtType DEF TypeOK, ForwardRead, MapClient, Found
<1>2. CASE EventLoopSend
  BY <1>2 DEF TypeOK, EventLoopSend, ReplySend, ForwardSend
<1>3. CASE Reconnect
  BY <1>3, PutAtType DEF TypeOK, Reconnect
<1>4. CASE Insert
  <2>1. \A name \in {"", "name"} : Inserted(efd, name) \in MapClient
    BY <1>4, InsertedType DEF Insert
  <2>2. g_accept_map[efd] \in MapClient \cup {NoClient}
    BY <1>4 DEF TypeOK, Insert
  <2>3. g_accept_map' \in [Fds -> MapClient \cup {NoClient}]
    BY <1>4, <2>1, <2>2, PutType DEF Insert, Inserted
  <2>4. QED
    BY <1>4, <2>3 DEF TypeOK, Insert
<1>5. CASE ResetFlag
  BY <1>5 DEF TypeOK, ResetFlag
<1>6. CASE CreateThread
  <2>1. CASE pc' = pc /\ Put(efd, At(efd))
    <3>1. g_accept_map' \in [Fds -> MapClient \cup {NoClient}]
      BY <2>1, PutAtType
    <3>2. QED
      BY <1>6, <2>1, <3>1 DEF TypeOK, CreateThread
  <2>2. ASSUME NEW w \in Workers, pc' = [pc EXCEPT ![w] = "arg"],
               Put(efd, [At(efd) EXCEPT !.thread_id = w])
        PROVE  TypeInv'
    <3>1. [At(efd) EXCEPT !.thread_id = w] \in MapClient
      BY <1>6, AtIsClient DEF MapClient, CreateThread
    <3>2. g_accept_map' \in [Fds -> MapClient \cup {NoClient}]
      BY <2>2, <3>1, PutType
    <3>3. pc' \in [Workers -> WorkerPc]
      BY <2>2 DEF TypeOK, WorkerPc
    <3>4. QED
      BY <1>6, <3>2, <3>3 DEF TypeOK, CreateThread
  <2>3. QED
    BY <1>6, <2>1, <2>2 DEF CreateThread
<1>7. CASE LeaveSpin
  BY <1>7 DEF TypeOK, LeaveSpin
<1>8. CASE CloseClient
  BY <1>8, CloseType DEF TypeOK, CloseClient
<1>9. CASE LookupRecord
  BY <1>9 DEF TypeOK, LookupRecord, MapClient, Found
<1>10. CASE CloseConnectFd
  BY <1>10, CloseType DEF TypeOK, CloseConnectFd
<1>11. CASE QuitThread
  BY <1>11, AtIsClient, PutAtType DEF TypeOK, QuitThread, MapClient, Found
<1>12. CASE NothingToCancel
  BY <1>12 DEF TypeOK, NothingToCancel
<1>13. CASE CancelThread
  <2>1. PICK w \in Workers : etid' = w /\ cancelled' = cancelled \cup {w}
    BY <1>13 DEF CancelThread, Denoted
  <2>2. QED
    BY <1>13, <2>1 DEF TypeOK, CancelThread
<1>14. CASE JoinThread
  <2>1. pc' \in [Workers -> WorkerPc]
    BY <1>14 DEF TypeOK, JoinThread, WorkerPc
  <2>2. QED
    BY <1>14, <2>1 DEF TypeOK, JoinThread
<1>15. CASE EraseRecord
  BY <1>15, PutType DEF TypeOK, EraseRecord
<1>16. QED
  BY <1>1, <1>2, <1>3, <1>4, <1>5, <1>6, <1>7, <1>8, <1>9, <1>10, <1>11, <1>12, <1>13, <1>14, <1>15 DEF EventLoopStep

(* Accepting, receiving and deciding on a message keep the types.          *)
LEMMA EventType ==
    ASSUME TypeInv, Event
    PROVE  TypeInv'
<1> USE DEF TypeInv, Handling, ELGoto, worker, eventLoop, EventLoopPc
<1>1. CASE Accept
  BY <1>1 DEF TypeOK, Accept
<1>2. ASSUME NEW f \in Fds, ClientGone(f)
      PROVE  TypeInv'
  BY <1>2 DEF TypeOK, ClientGone
<1>3. ASSUME NEW f \in Fds, NEW m \in Messages, process_msg(f, m)
      PROVE  TypeInv'
  <2>1. AfterMessage(f, m) \in EventLoopPc
    BY DEF AfterMessage
  <2>2. QED
    BY <1>3, <2>1 DEF TypeOK, process_msg
<1>4. QED
  BY <1>1, <1>2, <1>3 DEF Event

(* The steps of a worker keep the types.                                   *)
LEMMA WorkerType ==
    ASSUME TypeInv, NEW w \in Workers, WorkerStep(w) \/ WorkerWait(w)
    PROVE  TypeInv'
<1> USE DEF TypeInv, Handling, eventLoop, WorkerPc
<1>1. CASE ReadArg(w)
  BY <1>1, WGotoType DEF TypeOK, ReadArg
<1>2. CASE SetFlagThread(w)
  BY <1>2, WGotoType DEF TypeOK, SetFlagThread
<1>3. CASE FindRecord(w)
  BY <1>3, WGotoType, ExitType DEF TypeOK, FindRecord
<1>4. CASE MarkCreated(w)
  BY <1>4, WGotoType, SetFlagType DEF TypeOK, MarkCreated, Flags
<1>5. CASE ReadTarget(w) \/ ReadName(w)
  BY <1>5, WGotoType, PutAtType DEF TypeOK, ReadTarget, ReadName
<1>6. CASE Resolved(w)
  <2>1. fd[w] \in Fds => [At(fd[w]) EXCEPT !.connect_ip = "ip"] \in MapClient
    BY AtIsClient DEF MapClient
  <2>2. g_accept_map' \in [Fds -> MapClient \cup {NoClient}]
    BY <1>6, <2>1, PutType DEF Resolved
  <2>3. QED
    BY <1>6, <2>2, WGotoType DEF TypeOK, Resolved
<1>7. CASE ResolveFails(w)
  BY <1>7, ExitType, SetFlagType DEF TypeOK, ResolveFails, Flags
<1>8. CASE OpenSocket(w)
  BY <1>8, WGotoType DEF TypeOK, OpenSocket
<1>9. CASE SocketFails(w)
  BY <1>9, ExitType, SetFlagType DEF TypeOK, SocketFails, Flags
<1>10. CASE KeepaliveFails(w) \/ CloseUnkept(w)
  BY <1>10, WGotoType, CloseType DEF TypeOK, KeepaliveFails, CloseUnkept
<1>10a. CASE UnsetUnkept(w)
  <2>1. fd[w] \in Fds => [At(fd[w]) EXCEPT !.connect_fd = NoFd] \in MapClient
    BY AtIsClient DEF MapClient
  <2>2. g_accept_map' \in [Fds -> MapClient \cup {NoClient}]
    BY <1>10a, <2>1, PutType DEF UnsetUnkept
  <2>3. QED
    BY <1>10a, <2>2, WGotoType DEF TypeOK, UnsetUnkept
<1>10b. CASE MarkUnkept(w)
  BY <1>10b, ExitType, SetFlagType DEF TypeOK, MarkUnkept, Flags
<1>11. CASE StoreConnectFd(w)
  <2>1. connect_fd[w] \in Fds \cup {NoFd}
    BY DEF TypeOK
  <2>2. fd[w] \in Fds => [At(fd[w]) EXCEPT !.connect_fd = connect_fd[w]] \in MapClient
    BY <2>1, ConnectFdType
  <2>3. g_accept_map' \in [Fds -> MapClient \cup {NoClient}]
    BY <1>11, <2>2, PutType DEF StoreConnectFd
  <2>4. QED
    BY <1>11, <2>3, WGotoType DEF TypeOK, StoreConnectFd
<1>12. CASE Connected(w)
  BY <1>12, WGotoType DEF TypeOK, Connected
<1>13. CASE ConnectFails(w)
  BY <1>13, WGotoType DEF TypeOK, ConnectFails
<1>14. CASE CloseFailed(w)
  BY <1>14, WGotoType, CloseType DEF TypeOK, CloseFailed
<1>15. CASE MarkFailed(w)
  BY <1>15, WGotoType, ExitType, SetFlagType DEF TypeOK, MarkFailed, Flags
<1>16. CASE UnsetConnectFd(w)
  <2>1. fd[w] \in Fds => [At(fd[w]) EXCEPT !.connect_fd = NoFd] \in MapClient
    BY AtIsClient DEF MapClient
  <2>2. g_accept_map' \in [Fds -> MapClient \cup {NoClient}]
    BY <1>16, <2>1, PutType DEF UnsetConnectFd
  <2>3. QED
    BY <1>16, <2>2, ExitType DEF TypeOK, UnsetConnectFd
<1>17. CASE MarkSuccess(w)
  BY <1>17, WGotoType, SetFlagType DEF TypeOK, MarkSuccess, Flags
<1>18. CASE RecordGone(w)
  BY <1>18, ExitType, CloseType DEF TypeOK, RecordGone
<1>19. CASE FirstSend(w)
  BY <1>19, WGotoType DEF TypeOK, FirstSend
<1>20. CASE TargetGone(w)
  BY <1>20, WGotoType DEF TypeOK, TargetGone
<1>21. CASE CloseLost(w)
  BY <1>21, WGotoType, CloseType DEF TypeOK, CloseLost
<1>22. CASE MarkReconnect(w)
  BY <1>22, WGotoType, ExitType, SetFlagType DEF TypeOK, MarkReconnect, Flags
<1>23. CASE DieCancelled(w)
  BY <1>23, ExitType DEF TypeOK, DieCancelled
<1>24. QED
  BY <1>1, <1>2, <1>3, <1>4, <1>5, <1>6, <1>7, <1>8, <1>9, <1>10, <1>11, <1>12, <1>13, <1>14, <1>15, <1>16, <1>17, <1>18, <1>19, <1>20, <1>21, <1>22, <1>23, <1>10a, <1>10b
  DEF WorkerStep, WorkerWait

(* Every variable keeps its type, for any parameters.                      *)
THEOREM TypeCorrect == Spec => []TypeOK
<1>1. Init => TypeInv
  BY DEF Init, TypeInv, TypeOK, Handling, EventLoopPc, WorkerPc
<1>2. TypeInv /\ [Next]_vars => TypeInv'
  <2>1. TypeInv /\ UNCHANGED vars => TypeInv'
    BY DEF TypeInv, TypeOK, Handling, vars, eventLoop, worker
  <2>2. TypeInv /\ Next => TypeInv'
    BY EventLoopType, EventType, WorkerType DEF Next
  <2>3. QED
    BY <2>1, <2>2
<1>3. TypeInv => TypeOK
  BY DEF TypeInv
<1>4. QED
  BY <1>1, <1>2, <1>3, PTL DEF Spec

----------------------------------------------------------------------------
(* The handshake.                                                          *)

Tid(f) == g_accept_map[f].thread_id

(* The record under f is overwritten by one with the same accept_fd and    *)
(* thread_id and with the same flag or one that is not 0.                  *)
Rewrites(f) ==
    /\ f \in Fds
    /\ \E client \in MapClient :
           /\ Put(f, client)
           /\ client.accept_fd = At(f).accept_fd
           /\ client.thread_id = At(f).thread_id
           /\ client.flag # 0 \/ client.flag = At(f).flag

(* Reading a record through operator[] rewrites it as it is.               *)
LEMMA PutAtRewrites ==
    ASSUME TypeOK, NEW f, Put(f, At(f))
    PROVE  Rewrites(f) \/ UNCHANGED g_accept_map
BY AtIsClient DEF Rewrites, Put, TypeOK

(* Assigning a flag other than 0 keeps the rest.                           *)
LEMMA SetFlagRewrites ==
    ASSUME TypeOK, NEW f, NEW v \in Flags \ {0}, SetFlag(f, v)
    PROVE  Rewrites(f) \/ UNCHANGED g_accept_map
<1>1. CASE f \in Fds
  <2> DEFINE client == [At(f) EXCEPT !.flag = v]
  <2>1. /\ client \in MapClient
        /\ client.accept_fd = At(f).accept_fd
        /\ client.thread_id = At(f).thread_id
        /\ client.flag = v
    BY <1>1, AtIsClient DEF MapClient
  <2>2. QED
    BY <1>1, <2>1 DEF Rewrites, SetFlag
<1>2. CASE f \notin Fds
  BY <1>2 DEF SetFlag, Put, TypeOK
<1>3. QED
  BY <1>1, <1>2

(* Assigning connect_fd keeps the rest.                                    *)
LEMMA SetConnectFdRewrites ==
    ASSUME TypeOK, NEW f, NEW k \in Fds \cup {NoFd}, Put(f, [At(f) EXCEPT !.connect_fd = k])
    PROVE  Rewrites(f) \/ UNCHANGED g_accept_map
<1>1. CASE f \in Fds
  <2> DEFINE client == [At(f) EXCEPT !.connect_fd = k]
  <2>1. /\ client \in MapClient
        /\ client.accept_fd = At(f).accept_fd
        /\ client.thread_id = At(f).thread_id
        /\ client.flag = At(f).flag
    BY <1>1, AtIsClient DEF MapClient
  <2>2. QED
    BY <1>1, <2>1 DEF Rewrites
<1>2. CASE f \notin Fds
  BY <1>2 DEF Put, TypeOK
<1>3. QED
  BY <1>1, <1>2

(* All a worker ever does to g_accept_map: it rewrites the record under    *)
(* its key, never removes one, changes a thread_id or clears a flag.       *)
LEMMA WorkerRewrites ==
    ASSUME TypeInv, NEW w \in Workers, WorkerStep(w) \/ WorkerWait(w)
    PROVE  Rewrites(fd[w]) \/ UNCHANGED g_accept_map
<1> USE DEF TypeInv
<1>0. {MAP_CONNECT_FAILED, MAP_CREATE_THREAD, MAP_CONNECT_SUCCESS, MAP_RECONNECT} = Flags \ {0}
  BY DEF Flags, MAP_CONNECT_FAILED, MAP_CREATE_THREAD, MAP_CONNECT_SUCCESS, MAP_RECONNECT
<1>1. CASE ReadTarget(w) \/ ReadName(w)
  BY <1>1, PutAtRewrites DEF ReadTarget, ReadName
<1>2. CASE MarkCreated(w) \/ ResolveFails(w) \/ SocketFails(w) \/ MarkUnkept(w) \/ MarkSuccess(w)
  BY <1>0, <1>2, SetFlagRewrites DEF MarkCreated, ResolveFails, SocketFails, MarkUnkept, MarkSuccess
<1>3. CASE MarkFailed(w) \/ MarkReconnect(w)
  BY <1>0, <1>3, SetFlagRewrites DEF MarkFailed, MarkReconnect
<1>4. CASE Resolved(w)
  <2> DEFINE client == [At(fd[w]) EXCEPT !.connect_ip = "ip"]
  <2>1. Put(fd[w], client)
    BY <1>4 DEF Resolved
  <2>2. fd[w] \in Fds => /\ client \in MapClient
                         /\ client.accept_fd = At(fd[w]).accept_fd
                         /\ client.thread_id = At(fd[w]).thread_id
                         /\ client.flag = At(fd[w]).flag
    BY AtIsClient DEF MapClient
  <2>3. fd[w] \notin Fds => UNCHANGED g_accept_map
    BY <2>1 DEF Put, TypeOK
  <2>4. QED
    BY <2>1, <2>2, <2>3 DEF Rewrites
<1>6. CASE StoreConnectFd(w) \/ UnsetConnectFd(w) \/ UnsetUnkept(w)
  BY <1>6, SetConnectFdRewrites DEF StoreConnectFd, UnsetConnectFd, UnsetUnkept, TypeOK
<1>7. CASE ReadArg(w) \/ SetFlagThread(w) \/ FindRecord(w) \/ OpenSocket(w)
           \/ KeepaliveFails(w) \/ CloseUnkept(w) \/ Connected(w) \/ ConnectFails(w)
  BY <1>7 DEF ReadArg, SetFlagThread, FindRecord, OpenSocket, KeepaliveFails, CloseUnkept,
              Connected, ConnectFails
<1>8. CASE CloseFailed(w) \/ RecordGone(w) \/ FirstSend(w) \/ TargetGone(w) \/ CloseLost(w)
           \/ DieCancelled(w)
  BY <1>8 DEF CloseFailed, RecordGone, FirstSend, TargetGone, CloseLost, DieCancelled
<1>9. QED
  BY <1>1, <1>2, <1>3, <1>4, <1>6, <1>7, <1>8 DEF WorkerStep, WorkerWait

(* No worker removes a record or changes whose thread it names.            *)
LEMMA WorkerKeepsRecords ==
    ASSUME TypeInv, NEW w \in Workers, WorkerStep(w) \/ WorkerWait(w),
           NEW g \in Fds, Found(g)
    PROVE  Found(g)' /\ Tid(g)' = Tid(g)
BY WorkerRewrites, NoClientAssumption DEF TypeInv, TypeOK, Rewrites, Put, Found, At, Tid

(* What a worker's step leaves alone, and the two steps that matter to the *)
(* handshake.                                                              *)
LEMMA WorkerFrame ==
    ASSUME TypeInv, NEW w \in Workers, WorkerStep(w) \/ WorkerWait(w)
    PROVE  /\ UNCHANGED eventLoop
           /\ \A v \in Workers \ {w} : pc'[v] = pc[v] /\ fd'[v] = fd[v]
           /\ pc'[w] \in {"arg", "setflag"} => ReadArg(w)
           /\ SetFlagThread(w) \/ UNCHANGED g_flag_thread
<1> USE DEF TypeInv, TypeOK, WGoto, Exit
<1>1. CASE ReadArg(w) \/ SetFlagThread(w) \/ FindRecord(w) \/ MarkCreated(w) \/ ReadTarget(w)
           \/ ReadName(w)
  BY <1>1 DEF ReadArg, SetFlagThread, FindRecord, MarkCreated, ReadTarget, ReadName
<1>2. CASE Resolved(w) \/ ResolveFails(w) \/ OpenSocket(w) \/ SocketFails(w) \/ StoreConnectFd(w)
  BY <1>2 DEF Resolved, ResolveFails, OpenSocket, SocketFails, StoreConnectFd
<1>2a. CASE KeepaliveFails(w) \/ CloseUnkept(w) \/ UnsetUnkept(w) \/ MarkUnkept(w)
  BY <1>2a DEF KeepaliveFails, CloseUnkept, UnsetUnkept, MarkUnkept
<1>3. CASE Connected(w) \/ ConnectFails(w) \/ CloseFailed(w) \/ MarkFailed(w)
           \/ UnsetConnectFd(w) \/ MarkSuccess(w)
  BY <1>3 DEF Connected, ConnectFails, CloseFailed, MarkFailed, UnsetConnectFd, MarkSuccess
<1>4. CASE RecordGone(w) \/ FirstSend(w) \/ TargetGone(w) \/ CloseLost(w) \/ MarkReconnect(w)
           \/ DieCancelled(w)
  BY <1>4 DEF RecordGone, FirstSend, TargetGone, CloseLost, MarkReconnect, DieCancelled
<1>5. QED
  BY <1>1, <1>2, <1>2a, <1>3, <1>4 DEF WorkerStep, WorkerWait
----------------------------------------------------------------------------
Starting(w) == pc[w] \in {"arg", "setflag"}

(* HandshakeSafe is not inductive: that the argument slot stays untouched  *)
(* until the worker has copied it rests on g_flag_thread being 0 from the  *)
(* reset until that very worker sets it.                                   *)
HandshakeInv ==
    /\ TypeInv
    /\ epc \in {"create", "spin"} => arg = efd
    /\ epc = "create" => g_flag_thread = 0 /\ \A w \in Workers : ~Starting(w)
    /\ \A w \in Workers : Starting(w) =>
           epc = "spin" /\ g_flag_thread = 0 /\ Found(efd) /\ Tid(efd) = w
    /\ \A w \in Workers : pc[w] = "setflag" => fd[w] = efd

(* connect_target and thread_process keep the handshake: only the worker   *)
(* being started reads the argument slot or sets g_flag_thread.            *)
LEMMA HandshakeByWorker ==
    ASSUME HandshakeInv, NEW w \in Workers, WorkerStep(w) \/ WorkerWait(w)
    PROVE  HandshakeInv'
<1>1. TypeInv'
  BY WorkerType DEF HandshakeInv
<1>2. UNCHANGED <<epc, efd, arg>>
  BY WorkerFrame DEF HandshakeInv, eventLoop
<1>3. epc = "create" => ~ReadArg(w) /\ ~SetFlagThread(w)
  BY DEF HandshakeInv, Starting, ReadArg, SetFlagThread, WGoto
<1>4. \A v \in Workers : Starting(v)' => Starting(v)
  BY WorkerFrame DEF HandshakeInv, Starting, ReadArg, WGoto
<1>5. SetFlagThread(w) => \A v \in Workers : ~Starting(v)'
  BY WorkerFrame DEF HandshakeInv, Starting, SetFlagThread, ReadArg, WGoto
<1>6. ASSUME NEW v \in Workers, Starting(v)'
      PROVE  epc' = "spin" /\ g_flag_thread' = 0 /\ Found(efd)' /\ Tid(efd)' = v
  <2>1. efd \in Fds /\ Found(efd) /\ Tid(efd) = v /\ epc = "spin" /\ g_flag_thread = 0
    BY <1>4, <1>6 DEF HandshakeInv, TypeInv, Handling
  <2>2. Found(efd)' /\ Tid(efd)' = v
    BY <1>2, <2>1, WorkerKeepsRecords DEF HandshakeInv, Found, Tid
  <2>3. g_flag_thread' = 0
    BY <1>5, <1>6, <2>1, WorkerFrame DEF HandshakeInv
  <2>4. QED
    BY <1>2, <2>1, <2>2, <2>3
<1>7. ASSUME NEW v \in Workers, pc'[v] = "setflag"
      PROVE  fd'[v] = efd'
  <2>1. CASE v = w
    <3>1. ReadArg(w)
      BY <1>7, <2>1, WorkerFrame DEF HandshakeInv
    <3>2. arg = efd
      BY <3>1 DEF HandshakeInv, Starting, ReadArg, WGoto
    <3>3. QED
      BY <1>2, <2>1, <3>1, <3>2 DEF ReadArg, HandshakeInv, TypeInv, TypeOK
  <2>2. CASE v # w
    BY <1>2, <1>7, <2>2, WorkerFrame DEF HandshakeInv
  <2>3. QED
    BY <2>1, <2>2
<1>8. epc' = "create" => g_flag_thread' = 0
  BY <1>2, <1>3, WorkerFrame DEF HandshakeInv
<1>9. QED
  BY <1>1, <1>2, <1>4, <1>6, <1>7, <1>8 DEF HandshakeInv

(* The event loop keeps it: add_connect_map stays in its spin while the    *)
(* flag is 0, and changes the slot only before a thread is created.        *)
LEMMA HandshakeByEventLoop ==
    ASSUME HandshakeInv, EventLoopStep \/ EventLoopSend \/ Event
    PROVE  HandshakeInv'
<1> USE DEF ELGoto, worker, eventLoop
<1>1. TypeInv'
  BY EventLoopType, EventType DEF HandshakeInv
<1>2. CASE CreateThread
  <2>1. arg' = efd' /\ epc' = "spin" /\ g_flag_thread' = 0 /\ efd \in Fds /\ UNCHANGED <<efd, fd>>
    BY <1>2 DEF CreateThread, HandshakeInv, TypeInv, Handling
  <2>2. ASSUME NEW w \in Workers, Starting(w)'
        PROVE  Found(efd)' /\ Tid(efd)' = w /\ pc'[w] = "arg"
    <3>1. ~Starting(w)
      BY <1>2 DEF CreateThread, HandshakeInv
    <3>2. PICK v \in Workers : /\ pc' = [pc EXCEPT ![v] = "arg"]
                               /\ Put(efd, [At(efd) EXCEPT !.thread_id = v])
      BY <1>2, <2>2, <3>1 DEF CreateThread, Starting
    <3>3. v = w
      BY <2>2, <3>1, <3>2 DEF Starting, HandshakeInv, TypeInv, TypeOK
    <3>4. [At(efd) EXCEPT !.thread_id = w] \in MapClient
      BY <2>1, AtIsClient DEF MapClient, HandshakeInv, TypeInv
    <3>5. g_accept_map'[efd] = [At(efd) EXCEPT !.thread_id = w]
      BY <2>1, <3>2, <3>3 DEF Put, HandshakeInv, TypeInv, TypeOK
    <3>6. pc'[w] = "arg"
      BY <3>2, <3>3 DEF HandshakeInv, TypeInv, TypeOK
    <3>7. QED
      BY <2>1, <3>4, <3>5, <3>6, AtIsClient, NoClientAssumption
      DEF Found, Tid, MapClient, HandshakeInv, TypeInv
  <2>3. QED
    BY <1>1, <2>1, <2>2 DEF HandshakeInv, Starting
<1>3. CASE (EventLoopStep \/ EventLoopSend) /\ ~CreateThread
  <2>1. epc # "spin" => \A w \in Workers : ~Starting(w)
    BY DEF HandshakeInv
  <2>2. CASE ForwardRead \/ EventLoopSend \/ Reconnect \/ Insert
    BY <1>1, <2>1, <2>2
    DEF ForwardRead, EventLoopSend, ReplySend, ForwardSend, Reconnect, Insert, HandshakeInv, Starting
  <2>3. CASE ResetFlag
    BY <1>1, <2>1, <2>3 DEF ResetFlag, HandshakeInv, Starting
  <2>4. CASE LeaveSpin
    BY <1>1, <2>4 DEF LeaveSpin, HandshakeInv, Starting
  <2>5. CASE CloseClient \/ LookupRecord \/ CloseConnectFd \/ QuitThread
    BY <1>1, <2>1, <2>5
    DEF CloseClient, LookupRecord, CloseConnectFd, QuitThread, HandshakeInv, Starting
  <2>6. CASE NothingToCancel \/ CancelThread \/ EraseRecord
    BY <1>1, <2>1, <2>6 DEF NothingToCancel, CancelThread, EraseRecord, HandshakeInv, Starting
  <2>7. CASE JoinThread
    <3>1. \A w \in Workers : ~Starting(w)'
      BY <2>1, <2>7 DEF JoinThread, HandshakeInv, TypeInv, TypeOK, Starting
    <3>2. QED
      BY <1>1, <2>7, <3>1 DEF JoinThread, HandshakeInv, Starting
  <2>8. QED
    BY <1>3, <2>2, <2>3, <2>4, <2>5, <2>6, <2>7 DEF EventLoopStep
<1>4. CASE Event
  <2>1. epc = "wait" /\ UNCHANGED <<pc, arg, g_accept_map>>
    BY <1>4 DEF Event, Accept, ClientGone, process_msg
  <2>2. epc' \notin {"create", "spin"}
    BY <1>4 DEF Event, Accept, ClientGone, process_msg, AfterMessage
  <2>3. QED
    BY <1>1, <2>1, <2>2 DEF HandshakeInv, Starting
<1>5. QED
  BY <1>2, <1>3, <1>4

(* The argument a new thread reads is the descriptor of the session it was *)
(* created for: add_connect_map does not return before the thread has      *)
(* copied it, whatever the timing of either.                               *)
THEOREM HandshakeIsSafe == Spec => []HandshakeSafe
<1>1. Init => HandshakeInv
  BY DEF Init, HandshakeInv, TypeInv, TypeOK, Handling, EventLoopPc, WorkerPc, Starting
<1>2. HandshakeInv /\ [Next]_vars => HandshakeInv'
  <2>1. HandshakeInv /\ UNCHANGED vars => HandshakeInv'
    BY DEF HandshakeInv, TypeInv, TypeOK, Handling, Starting, Found, Tid, vars, eventLoop, worker
  <2>2. HandshakeInv /\ Next => HandshakeInv'
    BY HandshakeByEventLoop, HandshakeByWorker DEF Next
  <2>3. QED
    BY <2>1, <2>2
<1>3. HandshakeInv => HandshakeSafe
  BY DEF HandshakeInv, HandshakeSafe, TypeInv, Handling, Starting, Tid
<1>4. QED
  BY <1>1, <1>2, <1>3, PTL DEF Spec

----------------------------------------------------------------------------
(* Ownership.                                                              *)

(* The event loop is busy with a record.                                   *)
WithRecord == {"forward", "send", "reconnect", "reset", "create", "spin", "closefd", "quit",
               "kill", "join"}

(* The rest holds until the event loop overtakes a worker.                 *)

(* Every live worker past its argument owns the record under its key.      *)
Ownership ==
    \A w \in Workers : Live(w) /\ pc[w] # "arg" =>
        fd[w] \in Fds /\ Found(fd[w]) /\ Tid(fd[w]) = w

UniqueThread ==
    \A f, g \in Fds : Found(f) /\ Found(g) /\ Tid(f) = Tid(g) => f = g

(* add_connect_map works on f, and no worker has answered it yet.          *)
BeingStarted(f) ==
    efd = f /\ epc \in {"reset", "create", "spin"} /\ (epc = "spin" => g_flag_thread = 0)

(* Only a record being started may have no thread; only one about to be    *)
(* erased may name a thread that has been joined; flag 0 means that the    *)
(* record is being started or that its worker is about to mark it.         *)
RecordInv(f) ==
    /\ Tid(f) \notin Workers => BeingStarted(f)
    /\ Tid(f) \in Workers /\ pc[Tid(f)] = "free" => efd = f /\ epc = "erase"
    /\ g_accept_map[f].flag = 0 =>
           BeingStarted(f) \/ (Tid(f) \in Workers /\ pc[Tid(f)] \in Beginning)

OwnInv ==
    /\ HandshakeInv
    /\ Ownership
    /\ UniqueThread
    /\ \A f \in Fds : Found(f) => RecordInv(f)
    /\ epc \in WithRecord => Found(efd)
    /\ epc = "insert" => ~Found(efd)
    /\ epc \in {"reset", "create", "erase"} => \A w \in Workers : Live(w) => fd[w] # efd
    /\ epc \in {"kill", "join"} => etid = Tid(efd)
----------------------------------------------------------------------------
(* A record that is there is a MapClient.                                  *)
LEMMA TidType ==
    ASSUME TypeOK, NEW f \in Fds, Found(f)
    PROVE  g_accept_map[f] \in MapClient /\ Tid(f) \in Workers \cup {Unset}
BY DEF TypeOK, Found, Tid, MapClient

(* A worker past its argument rewrites only the record it owns.            *)
LEMMA OwnerRewrites ==
    ASSUME OwnInv, NEW w \in Workers, WorkerStep(w) \/ WorkerWait(w), NEW f \in Fds
    PROVE  /\ Found(f)' <=> Found(f)
           /\ Found(f) => /\ Tid(f)' = Tid(f)
                          /\ g_accept_map'[f].accept_fd = g_accept_map[f].accept_fd
                          /\ g_accept_map'[f].flag = 0 => g_accept_map[f].flag = 0
                          /\ Tid(f) # w => g_accept_map'[f] = g_accept_map[f]
<1> USE DEF OwnInv, HandshakeInv, TypeInv
<1>1. CASE UNCHANGED g_accept_map
  BY <1>1 DEF Found, Tid
<1>2. CASE Rewrites(fd[w]) /\ ~UNCHANGED g_accept_map
  <2>1. pc[w] \notin {"free", "exited", "arg"}
    BY <1>2 DEF WorkerStep, WorkerWait, TargetGone, ReadArg, SetFlagThread, FindRecord, MarkCreated, ReadTarget,
                ReadName, Resolved, ResolveFails, OpenSocket, SocketFails, KeepaliveFails,
                CloseUnkept, UnsetUnkept, MarkUnkept, StoreConnectFd, Connected, ConnectFails, CloseFailed, MarkFailed, UnsetConnectFd, MarkSuccess,
                RecordGone, FirstSend, CloseLost, MarkReconnect, DieCancelled, WGoto, Exit,
                CancelPoint
  <2>2. fd[w] \in Fds /\ Found(fd[w]) /\ Tid(fd[w]) = w
    BY <2>1 DEF Ownership, Live
  <2>3. PICK client \in MapClient :
            /\ Put(fd[w], client)
            /\ client.accept_fd = At(fd[w]).accept_fd
            /\ client.thread_id = At(fd[w]).thread_id
            /\ client.flag # 0 \/ client.flag = At(fd[w]).flag
    BY <1>2 DEF Rewrites
  <2>4. g_accept_map' = [g_accept_map EXCEPT ![fd[w]] = client]
    BY <2>3 DEF Put
  <2>5. CASE f = fd[w]
    BY <2>2, <2>3, <2>4, <2>5, NoClientAssumption DEF TypeOK, Found, At, Tid
  <2>6. CASE f # fd[w]
    BY <2>2, <2>4, <2>6 DEF TypeOK, Found, Tid
  <2>7. QED
    BY <2>5, <2>6
<1>3. QED
  BY <1>1, <1>2, WorkerRewrites

(* How a worker's program counter and descriptor may change.               *)
LEMMA WorkerMoves ==
    ASSUME OwnInv, NEW w \in Workers, WorkerStep(w) \/ WorkerWait(w)
    PROVE  /\ pc[w] \notin {"free", "exited"} /\ pc'[w] # "free"
           /\ Live(w)' => fd'[w] = (IF pc[w] = "arg" THEN arg ELSE fd[w])
           /\ pc'[w] # "arg"
           /\ pc[w] = "find" => pc'[w] = "mark"
           /\ pc[w] = "mark" => g_accept_map'[fd[w]].flag # 0
<1> USE DEF OwnInv, HandshakeInv, TypeInv, TypeOK, WGoto, Exit, Live
<1>1. CASE ReadArg(w) \/ SetFlagThread(w) \/ ReadTarget(w) \/ ReadName(w)
  BY <1>1 DEF ReadArg, SetFlagThread, ReadTarget, ReadName
<1>2. CASE FindRecord(w)
  BY <1>2 DEF FindRecord, Ownership
<1>3. CASE MarkCreated(w)
  <2>1. pc[w] = "mark" /\ pc' = [pc EXCEPT ![w] = "target"] /\ UNCHANGED fd
    BY <1>3 DEF MarkCreated
  <2>2. fd[w] \in Fds
    BY <2>1 DEF Ownership
  <2>3. g_accept_map'[fd[w]] = [At(fd[w]) EXCEPT !.flag = MAP_CREATE_THREAD]
    BY <1>3, <2>2 DEF MarkCreated, SetFlag, Put
  <2>4. g_accept_map'[fd[w]].flag = MAP_CREATE_THREAD
    BY <2>2, <2>3, AtIsClient DEF MapClient
  <2>5. QED
    BY <2>1, <2>4 DEF MAP_CREATE_THREAD
<1>4. CASE Resolved(w) \/ ResolveFails(w) \/ OpenSocket(w) \/ SocketFails(w) \/ StoreConnectFd(w)
  BY <1>4 DEF Resolved, ResolveFails, OpenSocket, SocketFails, StoreConnectFd
<1>4a. CASE KeepaliveFails(w) \/ CloseUnkept(w) \/ UnsetUnkept(w) \/ MarkUnkept(w)
  BY <1>4a DEF KeepaliveFails, CloseUnkept, UnsetUnkept, MarkUnkept
<1>5. CASE Connected(w) \/ ConnectFails(w) \/ CloseFailed(w) \/ MarkFailed(w)
           \/ UnsetConnectFd(w) \/ MarkSuccess(w)
  BY <1>5 DEF Connected, ConnectFails, CloseFailed, MarkFailed, UnsetConnectFd, MarkSuccess
<1>6. CASE RecordGone(w) \/ FirstSend(w) \/ TargetGone(w) \/ CloseLost(w) \/ MarkReconnect(w)
           \/ DieCancelled(w)
  BY <1>6 DEF RecordGone, FirstSend, TargetGone, CloseLost, MarkReconnect, DieCancelled, CancelPoint
<1>7. QED
  BY <1>1, <1>2, <1>3, <1>4, <1>4a, <1>5, <1>6 DEF WorkerStep, WorkerWait

(* A worker stays on its own record until it has exited.                   *)
LEMMA OwnershipByWorker ==
    ASSUME OwnInv, NEW w \in Workers, WorkerStep(w) \/ WorkerWait(w)
    PROVE  OwnInv'
<1>1. HandshakeInv'
  BY HandshakeByWorker DEF OwnInv
<1>2. UNCHANGED <<epc, efd, etid>> /\ \A v \in Workers \ {w} : pc'[v] = pc[v] /\ fd'[v] = fd[v]
  BY WorkerFrame DEF OwnInv, HandshakeInv, eventLoop
<1>3. efd \in Fds \/ epc = "wait"
  BY DEF OwnInv, HandshakeInv, TypeInv, Handling
<1>4. ASSUME NEW v \in Workers, Live(v)', pc'[v] # "arg"
      PROVE  fd'[v] \in Fds /\ Found(fd[v])' /\ Tid(fd[v])' = v
  <2>1. CASE v # w
    <3>1. fd[v] \in Fds /\ Found(fd[v]) /\ Tid(fd[v]) = v /\ fd'[v] = fd[v]
      BY <1>2, <1>4, <2>1 DEF OwnInv, Ownership, Live
    <3>2. QED
      BY <3>1, OwnerRewrites DEF Found, Tid
  <2>2. CASE v = w
    <3>1. CASE pc[w] = "arg"
      <4>1. arg = efd /\ efd \in Fds /\ Found(efd) /\ Tid(efd) = w
        BY <3>1 DEF OwnInv, HandshakeInv, TypeInv, Handling, Starting
      <4>2. fd'[w] = efd
        BY <1>4, <2>2, <3>1, <4>1, WorkerMoves
      <4>3. QED
        BY <2>2, <4>1, <4>2, OwnerRewrites DEF Found, Tid
    <3>2. CASE pc[w] # "arg"
      <4>1. fd[w] \in Fds /\ Found(fd[w]) /\ Tid(fd[w]) = w
        BY <3>2, WorkerMoves DEF OwnInv, Ownership, Live
      <4>2. fd'[w] = fd[w]
        BY <1>4, <2>2, <3>2, WorkerMoves
      <4>3. QED
        BY <2>2, <4>1, <4>2, OwnerRewrites DEF Found, Tid
    <3>3. QED
      BY <3>1, <3>2
  <2>3. QED
    BY <2>1, <2>2
<1>5. Ownership'
  BY <1>4 DEF Ownership, Found, Tid
<1>6. UniqueThread'
  BY OwnerRewrites DEF OwnInv, UniqueThread
<1>7. ASSUME NEW f \in Fds, Found(f)'
      PROVE  RecordInv(f)'
  <2>1. Found(f) /\ RecordInv(f) /\ Tid(f)' = Tid(f)
    BY <1>7, OwnerRewrites DEF OwnInv
  <2>2. BeingStarted(f) => BeingStarted(f)' \/ (SetFlagThread(w) /\ Tid(f) = w)
    <3>1. SetFlagThread(w) => epc = "spin" /\ Tid(efd) = w
      BY DEF SetFlagThread, WGoto, OwnInv, HandshakeInv, Starting
    <3>2. QED
      BY <1>2, <3>1, WorkerFrame DEF BeingStarted, OwnInv, HandshakeInv
  <2>3. Tid(f) \in Workers /\ pc'[Tid(f)] = "free" => pc[Tid(f)] = "free"
    BY <1>2, WorkerMoves
  <2>4. ASSUME g_accept_map'[f].flag = 0
        PROVE  BeingStarted(f)' \/ (Tid(f) \in Workers /\ pc'[Tid(f)] \in Beginning)
    <3>1. BeingStarted(f) \/ (Tid(f) \in Workers /\ pc[Tid(f)] \in Beginning)
      BY <2>1, <2>4, OwnerRewrites DEF RecordInv
    <3>2. SetFlagThread(w) => pc'[w] = "find"
      BY DEF SetFlagThread, WGoto, OwnInv, HandshakeInv, TypeInv, TypeOK
    <3>3. CASE BeingStarted(f)
      BY <2>2, <3>2, <3>3 DEF Beginning
    <3>4. CASE Tid(f) \in Workers /\ pc[Tid(f)] \in Beginning /\ Tid(f) = w
      <4>1. fd[w] \in Fds /\ Found(fd[w]) /\ Tid(fd[w]) = w
        BY <3>4 DEF OwnInv, Ownership, Live, Beginning
      <4>2. fd[w] = f
        BY <2>1, <3>4, <4>1 DEF OwnInv, UniqueThread
      <4>3. pc[w] # "mark"
        BY <2>4, <4>2, WorkerMoves
      <4>4. QED
        BY <3>4, <4>3, WorkerMoves DEF Beginning
    <3>5. CASE Tid(f) \in Workers /\ pc[Tid(f)] \in Beginning /\ Tid(f) # w
      BY <1>2, <3>5
    <3>6. QED
      BY <3>1, <3>3, <3>4, <3>5
  <2>5. QED
    BY <1>2, <2>1, <2>2, <2>3, <2>4 DEF RecordInv
<1>8. ASSUME epc \in {"reset", "create", "erase"}, NEW v \in Workers, Live(v)'
      PROVE  fd'[v] # efd
  <2>1. ~Starting(v) /\ ~Starting(w)
    BY <1>8 DEF OwnInv, HandshakeInv
  <2>2. CASE v # w
    BY <1>2, <1>8, <2>2 DEF OwnInv, Live
  <2>3. CASE v = w
    BY <1>8, <2>1, <2>3, WorkerMoves DEF OwnInv, Live, Starting
  <2>4. QED
    BY <2>2, <2>3
<1>9. epc \in WithRecord => Found(efd)' /\ Tid(efd)' = Tid(efd)
  BY <1>2, <1>3, OwnerRewrites DEF OwnInv, WithRecord, Found, Tid
<1>10. epc = "insert" => ~Found(efd)'
  BY <1>2, <1>3, OwnerRewrites DEF OwnInv, Found
<1>11. QED
  BY <1>1, <1>2, <1>5, <1>6, <1>7, <1>8, <1>9, <1>10 DEF OwnInv, WithRecord, Found, Tid
----------------------------------------------------------------------------
(* A step of the event loop that leaves the records, their threads and     *)
(* the workers alone.                                                      *)
LEMMA OwnershipFrame ==
    ASSUME OwnInv, HandshakeInv', UNCHANGED <<g_accept_map, pc, fd>>,
           \A f \in Fds : Found(f) => RecordInv(f)',
           epc' \in WithRecord => Found(efd)',
           epc' = "insert" => ~Found(efd)',
           epc' \in {"reset", "create", "erase"} => \A w \in Workers : Live(w) => fd[w] # efd',
           epc' \in {"kill", "join"} => etid' = Tid(efd)'
    PROVE  OwnInv'
<1>1. \A f \in Fds : Found(f)' <=> Found(f)
  BY DEF Found
<1>2. Ownership' /\ UniqueThread'
  BY DEF OwnInv, Ownership, UniqueThread, Found, Tid, Live
<1>3. QED
  BY <1>1, <1>2 DEF OwnInv, Live

(* Put(f, At(f)) changes nothing when the record is there.                 *)
LEMMA PutAtFound ==
    ASSUME TypeOK, NEW f \in Fds, Found(f), Put(f, At(f))
    PROVE  g_accept_map' = g_accept_map
BY DEF Put, At, TypeOK

(* The event loop starts a worker only on a record without one, and takes  *)
(* a record or its thread away only from a worker that has exited, unless  *)
(* it overtakes a worker in Reconnect or QuitThread.                       *)
LEMMA OwnershipByEventLoop ==
    ASSUME OwnInv, EventLoopStep \/ EventLoopSend, ~overtaken'
    PROVE  OwnInv'
<1> USE DEF ELGoto, worker, eventLoop
<1>1. HandshakeInv'
  BY HandshakeByEventLoop DEF OwnInv
<1>2. TypeOK /\ (epc # "wait" => efd \in Fds)
  BY DEF OwnInv, HandshakeInv, TypeInv, Handling
<1>3. CASE ForwardRead \/ EventLoopSend
  <2>1. UNCHANGED <<g_accept_map, pc, fd, g_flag_thread>>
    BY <1>2, <1>3, PutAtFound
    DEF ForwardRead, EventLoopSend, ReplySend, ForwardSend, OwnInv, WithRecord
  <2>2. epc \in {"reply", "forward", "send"} /\ epc' \in {"send", "wait"}
    BY <1>3 DEF ForwardRead, EventLoopSend, ReplySend, ForwardSend
  <2>3. epc' \in WithRecord => Found(efd)'
    BY <1>3, <2>1
    DEF ForwardRead, EventLoopSend, ReplySend, ForwardSend, OwnInv, WithRecord, Found
  <2>4. \A f \in Fds : Found(f) => RecordInv(f)'
    BY <2>1, <2>2 DEF OwnInv, RecordInv, BeingStarted, Tid
  <2>5. QED
    BY <1>1, <2>1, <2>2, <2>3, <2>4, OwnershipFrame
<1>4. CASE Reconnect
  <2>1. UNCHANGED <<g_accept_map, pc, fd, g_flag_thread, efd>> /\ epc = "reconnect" /\ epc' = "reset"
    BY <1>2, <1>4, PutAtFound DEF Reconnect, OwnInv, WithRecord
  <2>2. ASSUME NEW w \in Workers, Live(w) PROVE fd[w] # efd
    BY <1>4, <2>2 DEF Reconnect, Unfinished
  <2>3. \A f \in Fds : Found(f) => RecordInv(f)'
    BY <2>1 DEF OwnInv, RecordInv, BeingStarted, Tid
  <2>4. QED
    BY <1>1, <2>1, <2>2, <2>3, OwnershipFrame DEF OwnInv, WithRecord, Found
<1>5. CASE Insert
  <2>1. epc = "insert" /\ epc' = "reset" /\ efd \in Fds /\ ~Found(efd)
        /\ UNCHANGED <<efd, pc, fd, g_flag_thread>>
    BY <1>2, <1>5 DEF Insert, OwnInv
  <2>2. PICK name \in {"", "name"} : Put(efd, Inserted(efd, name))
    BY <1>5, <2>1 DEF Insert, Inserted
  <2>3. g_accept_map' = [g_accept_map EXCEPT ![efd] = Inserted(efd, name)]
    BY <2>2 DEF Put
  <2>4. Found(efd)' /\ Tid(efd)' = Unset
    <3>1. Inserted(efd, name) \in MapClient /\ Inserted(efd, name).thread_id = Unset
      BY <2>1, InsertedType
    <3>2. QED
      BY <1>2, <2>1, <2>3, <3>1, NoClientAssumption DEF Found, Tid, TypeOK
  <2>5. \A f \in Fds \ {efd} : g_accept_map'[f] = g_accept_map[f]
    BY <1>2, <2>3 DEF TypeOK
  <2>6. \A w \in Workers : Live(w) => pc[w] # "arg" /\ fd[w] # efd
    BY <2>1 DEF OwnInv, Ownership, HandshakeInv, Starting
  <2>7. Ownership'
    BY <2>1, <2>5, <2>6 DEF OwnInv, Ownership, Live, Found, Tid
  <2>8. \A f \in Fds \ {efd} : Found(f) => RecordInv(f) /\ Tid(f) \in Workers
    <3>1. \A f \in Fds \ {efd} : Found(f) => RecordInv(f)
      BY DEF OwnInv
    <3>2. QED
      BY <3>1 DEF RecordInv, BeingStarted
  <2>9. UniqueThread'
    <3>1. \A f \in Fds \ {efd} : /\ Found(f)' <=> Found(f)
                                 /\ Found(f) => Tid(f)' = Tid(f) /\ Tid(f)' # Tid(efd)'
      BY <2>4, <2>5, <2>8, UnsetAssumption DEF Found, Tid
    <3>2. QED
      BY <2>1, <3>1 DEF OwnInv, UniqueThread, Found, Tid
  <2>10. ASSUME NEW f \in Fds, Found(f)' PROVE RecordInv(f)'
    <3>1. CASE f = efd
      BY <2>1, <2>4, <3>1, UnsetAssumption DEF RecordInv, BeingStarted
    <3>2. CASE f # efd
      BY <1>2, <2>1, <2>5, <2>8, <2>10, <3>2 DEF RecordInv, BeingStarted, Found, Tid
    <3>3. QED
      BY <3>1, <3>2
  <2>11. QED
    BY <1>1, <2>1, <2>4, <2>6, <2>7, <2>9, <2>10 DEF OwnInv, Live, Found, WithRecord
<1>6. CASE ResetFlag
  <2>1. UNCHANGED <<g_accept_map, pc, fd, efd>> /\ epc = "reset" /\ epc' = "create"
    BY <1>6 DEF ResetFlag
  <2>2. \A f \in Fds : Found(f) => RecordInv(f)'
    BY <2>1 DEF OwnInv, RecordInv, BeingStarted, Tid
  <2>3. QED
    BY <1>1, <2>1, <2>2, OwnershipFrame DEF OwnInv, WithRecord, Found
<1>7. CASE LeaveSpin
  <2>1. UNCHANGED <<g_accept_map, pc, fd>> /\ epc = "spin" /\ epc' = "wait"
        /\ g_flag_thread = 1 /\ efd \in Fds /\ Found(efd)
    BY <1>2, <1>7 DEF LeaveSpin, OwnInv, WithRecord
  <2>2. ASSUME NEW f \in Fds, Found(f) PROVE RecordInv(f)'
    <3>1. RecordInv(f) /\ ~BeingStarted(f)
      BY <2>1, <2>2 DEF OwnInv, BeingStarted
    <3>2. QED
      BY <2>1, <3>1 DEF RecordInv, BeingStarted, Tid
  <2>3. QED
    BY <1>1, <2>1, <2>2, OwnershipFrame DEF WithRecord
<1>8. CASE CreateThread
  <2>1. epc = "create" /\ epc' = "spin" /\ efd \in Fds /\ Found(efd) /\ g_flag_thread = 0
        /\ UNCHANGED <<efd, fd, g_flag_thread>>
    BY <1>2, <1>8 DEF CreateThread, OwnInv, WithRecord, HandshakeInv
  <2>2. CASE pc' = pc /\ Put(efd, At(efd))
    <3>1. UNCHANGED <<g_accept_map, pc, fd>>
      BY <1>2, <2>1, <2>2, PutAtFound
    <3>2. \A f \in Fds : Found(f) => RecordInv(f)'
      BY <2>1, <3>1 DEF OwnInv, RecordInv, BeingStarted, Tid
    <3>3. QED
      BY <1>1, <2>1, <3>1, <3>2, OwnershipFrame DEF Found
  <2>3. ASSUME NEW w \in Workers, pc[w] = "free", pc' = [pc EXCEPT ![w] = "arg"],
               Put(efd, [At(efd) EXCEPT !.thread_id = w])
        PROVE  OwnInv'
    <3> DEFINE new == [At(efd) EXCEPT !.thread_id = w]
    <3>1. new \in MapClient /\ new.thread_id = w /\ new.flag = g_accept_map[efd].flag
      BY <1>2, <2>1, AtIsClient DEF At, MapClient
    <3>2. g_accept_map' = [g_accept_map EXCEPT ![efd] = new]
      BY <2>3 DEF Put
    <3>3. Found(efd)' /\ Tid(efd)' = w /\ g_accept_map'[efd].flag = g_accept_map[efd].flag
      BY <1>2, <2>1, <3>1, <3>2, NoClientAssumption DEF Found, Tid, TypeOK
    <3>4. \A f \in Fds \ {efd} : g_accept_map'[f] = g_accept_map[f]
      BY <1>2, <3>2 DEF TypeOK
    <3>5. pc'[w] = "arg" /\ \A v \in Workers \ {w} : pc'[v] = pc[v]
      BY <1>2, <2>3 DEF TypeOK
    <3>6. ASSUME NEW v \in Workers, Live(v)', pc'[v] # "arg"
          PROVE  fd[v] \in Fds \ {efd} /\ Found(fd[v]) /\ Tid(fd[v]) = v
      <4>1. v # w /\ Live(v) /\ pc[v] # "arg"
        BY <3>5, <3>6 DEF Live
      <4>2. QED
        BY <2>1, <4>1 DEF OwnInv, Ownership
    <3>7. Ownership'
      BY <2>1, <3>4, <3>6 DEF Ownership, Found, Tid
    <3>8. ASSUME NEW f \in Fds \ {efd}, Found(f)
          PROVE  Tid(f) \in Workers /\ Tid(f) # w /\ pc[Tid(f)] # "free"
                 /\ (g_accept_map[f].flag = 0 => pc[Tid(f)] \in Beginning)
      <4>1. RecordInv(f) /\ ~BeingStarted(f)
        BY <2>1, <3>8 DEF OwnInv, BeingStarted
      <4>2. /\ Tid(f) \in Workers /\ pc[Tid(f)] # "free"
            /\ g_accept_map[f].flag = 0 => pc[Tid(f)] \in Beginning
        BY <2>1, <3>8, <4>1 DEF RecordInv, BeingStarted
      <4>3. QED
        BY <2>3, <4>2
    <3>9. UniqueThread'
      <4>1. \A f \in Fds \ {efd} : /\ Found(f)' <=> Found(f)
                                   /\ Found(f) => Tid(f)' = Tid(f) /\ Tid(f)' # Tid(efd)'
        BY <3>3, <3>4, <3>8 DEF Found, Tid
      <4>2. QED
        BY <2>1, <4>1 DEF OwnInv, UniqueThread, Found, Tid
    <3>10. ASSUME NEW f \in Fds, Found(f)' PROVE RecordInv(f)'
      <4>1. CASE f = efd
        BY <2>1, <3>3, <3>5, <4>1 DEF RecordInv, BeingStarted
      <4>2. CASE f # efd
        BY <3>4, <3>5, <3>8, <3>10, <4>2 DEF RecordInv, BeingStarted, Found, Tid
      <4>3. QED
        BY <4>1, <4>2
    <3>11. QED
      BY <1>1, <2>1, <3>3, <3>7, <3>9, <3>10 DEF OwnInv, Found
  <2>4. QED
    BY <1>8, <2>2, <2>3 DEF CreateThread
<1>9. CASE CloseClient
  <2>1. UNCHANGED <<g_accept_map, pc, fd, efd, g_flag_thread>> /\ epc = "close" /\ epc' = "lookup"
    BY <1>9 DEF CloseClient
  <2>2. \A f \in Fds : Found(f) => RecordInv(f)'
    BY <2>1 DEF OwnInv, RecordInv, BeingStarted, Tid
  <2>3. QED
    BY <1>1, <2>1, <2>2, OwnershipFrame DEF WithRecord
<1>10. CASE LookupRecord
  <2>1. UNCHANGED <<g_accept_map, pc, fd, efd, g_flag_thread>> /\ epc = "lookup" /\ efd \in Fds
        /\ epc' = IF Found(efd) THEN "closefd" ELSE "erase"
    BY <1>2, <1>10 DEF LookupRecord
  <2>2. \A f \in Fds : Found(f) => RecordInv(f)'
    BY <2>1 DEF OwnInv, RecordInv, BeingStarted, Tid
  <2>3. ~Found(efd) => \A w \in Workers : Live(w) => fd[w] # efd
    BY <2>1 DEF OwnInv, Ownership, HandshakeInv, Starting
  <2>4. QED
    BY <1>1, <2>1, <2>2, <2>3, OwnershipFrame DEF WithRecord, Found
<1>11. CASE CloseConnectFd
  <2>1. UNCHANGED <<g_accept_map, pc, fd, efd, g_flag_thread>> /\ epc = "closefd" /\ epc' = "quit"
    BY <1>11 DEF CloseConnectFd
  <2>2. \A f \in Fds : Found(f) => RecordInv(f)'
    BY <2>1 DEF OwnInv, RecordInv, BeingStarted, Tid
  <2>3. QED
    BY <1>1, <2>1, <2>2, OwnershipFrame DEF OwnInv, WithRecord, Found
<1>12. CASE QuitThread
  <2>1. epc = "quit" /\ efd \in Fds /\ Found(efd)
    BY <1>2, <1>12 DEF QuitThread, OwnInv, WithRecord
  <2>2. UNCHANGED <<g_accept_map, pc, fd, efd, g_flag_thread>>
    BY <1>2, <1>12, <2>1, PutAtFound DEF QuitThread
  <2>3. \/ epc' = "kill" /\ etid' = Tid(efd)
        \/ epc' = "erase" /\ \A w \in Workers : Live(w) => fd[w] # efd
    BY <1>12, <2>1 DEF QuitThread, At, Tid, Unfinished
  <2>4. \A f \in Fds : Found(f) => RecordInv(f)'
    BY <2>1, <2>2, <2>3 DEF OwnInv, RecordInv, BeingStarted, Tid
  <2>5. QED
    BY <1>1, <2>1, <2>2, <2>3, <2>4, OwnershipFrame DEF WithRecord, Found, Tid
<1>13. CASE NothingToCancel \/ CancelThread
  <2>1. epc = "kill" /\ efd \in Fds /\ Found(efd) /\ etid = Tid(efd)
        /\ Tid(efd) \in Workers /\ UNCHANGED <<g_accept_map, pc, fd, efd, g_flag_thread>>
    BY <1>2, <1>13 DEF NothingToCancel, CancelThread, OwnInv, WithRecord, RecordInv, BeingStarted
  <2>2. CASE NothingToCancel
    <3>1. epc' = "erase" /\ ~Live(Tid(efd))
      BY <2>1, <2>2 DEF NothingToCancel
    <3>2. \A w \in Workers : Live(w) => fd[w] # efd
      BY <2>1, <3>1 DEF OwnInv, Ownership, HandshakeInv, Starting
    <3>3. \A f \in Fds : Found(f) => RecordInv(f)'
      BY <2>1, <3>1 DEF OwnInv, RecordInv, BeingStarted, Tid
    <3>4. QED
      BY <1>1, <2>1, <3>1, <3>2, <3>3, OwnershipFrame DEF WithRecord
  <2>3. CASE CancelThread
    <3>1. epc' = "join" /\ etid' = Tid(efd)
      BY <2>1, <2>3 DEF CancelThread, Denoted
    <3>2. \A f \in Fds : Found(f) => RecordInv(f)'
      BY <2>1, <3>1 DEF OwnInv, RecordInv, BeingStarted, Tid
    <3>3. QED
      BY <1>1, <2>1, <3>1, <3>2, OwnershipFrame DEF Found, Tid
  <2>4. QED
    BY <1>13, <2>2, <2>3
<1>14. CASE JoinThread
  <2>1. epc = "join" /\ epc' = "erase" /\ efd \in Fds /\ Found(efd) /\ etid = Tid(efd)
        /\ Tid(efd) \in Workers /\ pc[etid] = "exited" /\ pc' = [pc EXCEPT ![etid] = "free"]
        /\ UNCHANGED <<g_accept_map, fd, efd, g_flag_thread>>
    BY <1>2, <1>14 DEF JoinThread, OwnInv, WithRecord, RecordInv, BeingStarted
  <2>2. /\ pc'[etid] = "free"
        /\ \A v \in Workers \ {etid} : pc'[v] = pc[v]
        /\ \A v \in Workers : Live(v)' => Live(v) /\ v # etid /\ pc'[v] = pc[v]
    BY <1>2, <2>1 DEF TypeOK, Live
  <2>3. Ownership' /\ UniqueThread'
    BY <2>1, <2>2 DEF OwnInv, Ownership, UniqueThread, Found, Tid
  <2>4. ASSUME NEW f \in Fds, Found(f) PROVE RecordInv(f)'
    <3>1. RecordInv(f) /\ (Tid(f) = etid => f = efd)
      BY <2>1, <2>4 DEF OwnInv, UniqueThread
    <3>2. QED
      BY <2>1, <2>2, <3>1 DEF RecordInv, BeingStarted, Tid, Beginning
  <2>5. \A v \in Workers : Live(v)' => fd[v] # efd
    BY <2>1, <2>2 DEF OwnInv, Ownership, HandshakeInv, Starting
  <2>6. QED
    BY <1>1, <2>1, <2>3, <2>4, <2>5 DEF OwnInv, WithRecord, Found
<1>15. CASE EraseRecord
  <2>1. epc = "erase" /\ epc' = "wait" /\ efd \in Fds /\ UNCHANGED <<pc, fd, g_flag_thread>>
        /\ g_accept_map' = [g_accept_map EXCEPT ![efd] = NoClient]
    BY <1>2, <1>15 DEF EraseRecord, Put
  <2>2. /\ g_accept_map'[efd] = NoClient
        /\ \A f \in Fds \ {efd} : g_accept_map'[f] = g_accept_map[f]
    BY <1>2, <2>1 DEF TypeOK
  <2>3. \A w \in Workers : Live(w) => pc[w] # "arg" /\ fd[w] # efd
    BY <2>1 DEF OwnInv, HandshakeInv, Starting
  <2>4. Ownership'
    BY <2>1, <2>2, <2>3 DEF OwnInv, Ownership, Live, Found, Tid
  <2>5. UniqueThread'
    BY <2>2 DEF OwnInv, UniqueThread, Found, Tid
  <2>6. ASSUME NEW f \in Fds, Found(f)' PROVE RecordInv(f)'
    <3>1. f # efd /\ Found(f) /\ RecordInv(f) /\ g_accept_map'[f] = g_accept_map[f]
      BY <2>2, <2>6 DEF OwnInv, Found
    <3>2. QED
      BY <2>1, <3>1 DEF RecordInv, BeingStarted, Tid
  <2>7. QED
    BY <1>1, <2>1, <2>4, <2>5, <2>6 DEF OwnInv, WithRecord
<1>16. QED
  BY <1>3, <1>4, <1>5, <1>6, <1>7, <1>8, <1>9, <1>10, <1>11, <1>12, <1>13, <1>14, <1>15
  DEF EventLoopStep

(* Accepting, receiving and deciding on a message change no ownership.     *)
LEMMA OwnershipByEvent ==
    ASSUME OwnInv, Event
    PROVE  OwnInv'
<1>1. HandshakeInv'
  BY HandshakeByEventLoop DEF OwnInv
<1>2. epc = "wait" /\ UNCHANGED <<g_accept_map, pc, fd, g_flag_thread>>
  BY DEF Event, Accept, ClientGone, process_msg, ELGoto, worker
<1>3. \A f \in Fds : Found(f) => RecordInv(f)'
  BY <1>2 DEF OwnInv, RecordInv, BeingStarted, Tid
<1> DEFINE Chosen == \/ epc' \in {"wait", "reply", "close"}
                     \/ epc' \in {"forward", "reconnect"} /\ Found(efd')
                     \/ epc' = "insert" /\ ~Found(efd')
<1>4. Chosen
  <2>1. CASE Accept \/ \E f \in Fds : ClientGone(f)
    BY <1>2, <2>1 DEF Accept, ClientGone, ELGoto, eventLoop
  <2>2. ASSUME NEW f \in Fds, NEW m \in Messages, process_msg(f, m)
        PROVE  Chosen
    BY <2>2 DEF process_msg, AfterMessage, ELGoto
  <2>3. QED
    BY <2>1, <2>2 DEF Event
<1>5. QED
  BY <1>1, <1>2, <1>3, <1>4, OwnershipFrame DEF WithRecord, Found

(* OwnInv is an invariant until the event loop overtakes a worker; the     *)
(* handshake holds even then.                                              *)
OwnedUntilOvertaken == HandshakeInv /\ (overtaken \/ OwnInv)

(* overtaken is never reset.                                               *)
LEMMA OvertakenStays ==
    ASSUME HandshakeInv, Next, overtaken
    PROVE  overtaken'
<1>1. CASE EventLoopStep \/ EventLoopSend
  BY <1>1 DEF EventLoopStep, EventLoopSend, ReplySend, ForwardRead, ForwardSend, Reconnect, Insert,
       ResetFlag, CreateThread, LeaveSpin, CloseClient, LookupRecord, CloseConnectFd, QuitThread,
       NothingToCancel, CancelThread, JoinThread, EraseRecord
<1>2. CASE Event
  BY <1>2 DEF Event, Accept, ClientGone, process_msg, eventLoop
<1>3. CASE \E w \in Workers : WorkerStep(w) \/ WorkerWait(w)
  BY <1>3, WorkerFrame DEF HandshakeInv, eventLoop
<1>4. QED
  BY <1>1, <1>2, <1>3 DEF Next

LEMMA OwnInvariant == Spec => []OwnedUntilOvertaken
<1>1. Init => OwnedUntilOvertaken
  BY DEF Init, OwnedUntilOvertaken, OwnInv, HandshakeInv, TypeInv, TypeOK, Handling, EventLoopPc,
         WorkerPc, Starting, Ownership, UniqueThread, Live, Found, WithRecord
<1>2. OwnedUntilOvertaken /\ [Next]_vars => OwnedUntilOvertaken'
  <2>1. HandshakeInv /\ UNCHANGED vars => HandshakeInv'
    BY DEF HandshakeInv, TypeInv, TypeOK, Handling, Starting, Found, Tid, vars, eventLoop, worker
  <2>2. OwnInv /\ UNCHANGED vars => OwnInv'
    BY <2>1 DEF OwnInv, Ownership, UniqueThread, RecordInv, BeingStarted, Live, Found, Tid, vars,
                eventLoop, worker
  <2>3. HandshakeInv /\ Next => HandshakeInv'
    BY HandshakeByEventLoop, HandshakeByWorker DEF Next
  <2>4. OwnInv /\ Next => overtaken' \/ OwnInv'
    BY OwnershipByEventLoop, OwnershipByEvent, OwnershipByWorker DEF Next
  <2>5. OwnedUntilOvertaken /\ Next /\ overtaken => overtaken'
    BY OvertakenStays DEF OwnedUntilOvertaken
  <2>6. UNCHANGED vars => overtaken' = overtaken
    BY DEF vars, eventLoop
  <2>7. QED
    BY <2>1, <2>2, <2>3, <2>4, <2>5, <2>6 DEF OwnedUntilOvertaken
<1>3. QED
  BY <1>1, <1>2, PTL DEF Spec

(* Until the event loop overtakes a worker, by tearing down a session with *)
(* flag 0 or restarting one too early, a worker never touches a record     *)
(* that is not its own: teardown joins it before the record goes.          *)
THEOREM WorkersOwnRecords == Spec => []LiveWorkerOwnsRecord
<1>1. OwnedUntilOvertaken => LiveWorkerOwnsRecord
  BY DEF OwnedUntilOvertaken, OwnInv, Ownership, LiveWorkerOwnsRecord, Tid
<1>2. QED
  BY <1>1, OwnInvariant, PTL

----------------------------------------------------------------------------
(* Records.                                                                *)

(* Every record was inserted under the key that it holds itself.           *)
RecordsInserted == \A f \in Fds : Found(f) => g_accept_map[f].accept_fd = f

(* A live worker rewrites the record it owns.                              *)
LEMMA RecordsByWorker ==
    ASSUME OwnInv, RecordsInserted, NEW w \in Workers, WorkerStep(w) \/ WorkerWait(w)
    PROVE  RecordsInserted'
BY OwnerRewrites DEF RecordsInserted, Found

(* The event loop reads records that are there, inserts one under its key  *)
(* or erases one.                                                          *)
LEMMA RecordsByEventLoop ==
    ASSUME OwnInv, RecordsInserted, EventLoopStep \/ EventLoopSend
    PROVE  RecordsInserted'
<1>1. TypeOK /\ (epc # "wait" => efd \in Fds)
  BY DEF OwnInv, HandshakeInv, TypeInv, Handling
<1>2. CASE UNCHANGED g_accept_map
  BY <1>2 DEF RecordsInserted, Found
<1>3. CASE ForwardRead \/ Reconnect \/ QuitThread
  <2>1. efd \in Fds /\ Found(efd) /\ Put(efd, At(efd))
    BY <1>1, <1>3 DEF ForwardRead, Reconnect, QuitThread, ELGoto, OwnInv, WithRecord
  <2>2. QED
    BY <1>1, <1>2, <2>1, PutAtFound
<1>4. CASE CreateThread
  <2>1. efd \in Fds /\ Found(efd)
    BY <1>1, <1>4 DEF CreateThread, ELGoto, OwnInv, WithRecord
  <2>2. PICK client : Put(efd, client) /\ client.accept_fd = At(efd).accept_fd
    <3>1. \A w : [At(efd) EXCEPT !.thread_id = w].accept_fd = At(efd).accept_fd
      BY <1>1, <2>1, AtIsClient DEF MapClient
    <3>2. QED
      BY <1>4, <3>1 DEF CreateThread
  <2>3. QED
    BY <1>1, <2>1, <2>2 DEF RecordsInserted, TypeOK, Put, Found, At
<1>5. CASE Insert
  <2>1. efd \in Fds /\ ~Found(efd)
    BY <1>1, <1>5 DEF Insert, ELGoto, OwnInv
  <2>2. PICK name \in {"", "name"} : Put(efd, Inserted(efd, name))
    BY <1>5, <2>1 DEF Insert, Inserted
  <2>3. QED
    BY <1>1, <2>1, <2>2, InsertedType DEF RecordsInserted, TypeOK, Put, Found
<1>6. CASE EraseRecord
  BY <1>1, <1>6 DEF EraseRecord, RecordsInserted, TypeOK, Put, Found
<1>7. QED
  BY <1>2, <1>3, <1>4, <1>5, <1>6
  DEF EventLoopStep, EventLoopSend, ReplySend, ForwardSend, ResetFlag, LeaveSpin, CloseClient,
      LookupRecord, CloseConnectFd, NothingToCancel, CancelThread, JoinThread

(* Until the event loop overtakes a worker, every record is one that       *)
(* process_msg inserted: no client's descriptor finds a record without a   *)
(* target that an old worker or the teardown left behind.                  *)
THEOREM NoRecordResurrected == Spec => []NoDefaultRecord
<1> DEFINE Inv == overtaken \/ RecordsInserted
<1>1. Init => Inv
  BY DEF Init, RecordsInserted, Found
<1>2. OwnedUntilOvertaken /\ Inv /\ [Next]_vars => Inv'
  <2>1. UNCHANGED vars /\ Inv => Inv'
    BY DEF vars, eventLoop, RecordsInserted, Found
  <2>2. OwnedUntilOvertaken /\ Next /\ overtaken => overtaken'
    BY OvertakenStays DEF OwnedUntilOvertaken
  <2>3. RecordsInserted /\ Event => RecordsInserted'
    BY DEF Event, Accept, ClientGone, process_msg, RecordsInserted, Found
  <2>4. OwnInv /\ RecordsInserted /\ Next => RecordsInserted'
    BY <2>3, RecordsByEventLoop, RecordsByWorker DEF Next
  <2>5. QED
    BY <2>1, <2>2, <2>4 DEF OwnedUntilOvertaken
<1>3. Inv => NoDefaultRecord
  BY DEF NoDefaultRecord, RecordsInserted
<1>4. QED
  BY <1>1, <1>2, <1>3, OwnInvariant, PTL DEF Spec
----------------------------------------------------------------------------
(* Teardown.                                                               *)

(* Only the thread that the event loop is about to join has been cancelled.*)
CancelInv == cancelled = IF epc = "join" THEN {etid} ELSE {}

(* CancelThread adds the thread it goes on to join, JoinThread removes it; *)
(* workers leave cancelled alone.                                          *)
LEMMA CancelInvPreserved ==
    ASSUME TypeInv, CancelInv, Next
    PROVE  CancelInv'
<1>1. CASE CancelThread
  BY <1>1 DEF CancelThread, CancelInv, ELGoto
<1>2. CASE JoinThread
  BY <1>2 DEF JoinThread, CancelInv, ELGoto
<1>3. CASE \E w \in Workers : WorkerStep(w) \/ WorkerWait(w)
  <2>1. UNCHANGED cancelled
    BY <1>3 DEF WorkerStep, WorkerWait, TargetGone, ReadArg, SetFlagThread, FindRecord, MarkCreated, ReadTarget,
       ReadName, Resolved, ResolveFails, OpenSocket, SocketFails, KeepaliveFails, CloseUnkept,
       UnsetUnkept, MarkUnkept, StoreConnectFd, Connected,
       ConnectFails, CloseFailed, MarkFailed, UnsetConnectFd, MarkSuccess, RecordGone, FirstSend,
       CloseLost, MarkReconnect, DieCancelled
  <2>2. UNCHANGED <<epc, etid>>
    BY <1>3, WorkerFrame DEF eventLoop
  <2>3. QED
    BY <2>1, <2>2 DEF CancelInv
<1>4. CASE Event
  <2>1. epc = "wait" /\ UNCHANGED cancelled
    BY <1>4 DEF Event, Accept, ClientGone, process_msg, ELGoto, worker
  <2>2. epc' # "join"
    BY <1>4 DEF Event, Accept, ClientGone, process_msg, AfterMessage, ELGoto, eventLoop
  <2>3. QED
    BY <2>1, <2>2 DEF CancelInv
<1>5. CASE (EventLoopStep \/ EventLoopSend) /\ ~CancelThread /\ ~JoinThread
  <2>1. UNCHANGED cancelled
    BY <1>5 DEF EventLoopStep, EventLoopSend, ReplySend, ForwardRead, ForwardSend, Reconnect, Insert, ResetFlag, CreateThread,
       LeaveSpin, CloseClient, LookupRecord, CloseConnectFd, QuitThread, NothingToCancel,
       EraseRecord, worker
  <2>2. epc # "join" /\ epc' # "join"
    BY <1>5 DEF EventLoopStep, EventLoopSend, ReplySend, ForwardRead, ForwardSend, Reconnect, Insert, ResetFlag, CreateThread,
       LeaveSpin, CloseClient, LookupRecord, CloseConnectFd, QuitThread, NothingToCancel,
       EraseRecord, ELGoto
  <2>3. QED
    BY <2>1, <2>2 DEF CancelInv
<1>6. QED
  BY <1>1, <1>2, <1>3, <1>4, <1>5 DEF Next

(* While a session is torn down, the thread it names is the only one that  *)
(* serves it, serves nothing else, and has not been joined.                *)
LEMMA NamedThreadServes ==
    ASSUME OwnInv, epc \in {"kill", "join"}
    PROVE  /\ etid \in Workers /\ pc[etid] # "free"
           /\ ServersOf(efd) \subseteq {etid}
           /\ \A f \in Fds \ {efd} : /\ etid \notin ServersOf(f)
                                     /\ Found(f) => Tid(f) # etid
<1>1. efd \in Fds /\ Found(efd) /\ etid = Tid(efd) /\ RecordInv(efd)
  BY DEF OwnInv, HandshakeInv, TypeInv, Handling, WithRecord
<1>2. etid \in Workers /\ pc[etid] # "free"
  BY <1>1 DEF RecordInv, BeingStarted
<1>3. \A w \in Workers : pc[w] # "arg"
  BY DEF OwnInv, HandshakeInv, Starting
<1>4. ASSUME NEW f \in Fds, NEW w \in ServersOf(f)
      PROVE  Found(f) /\ Tid(f) = w
  BY <1>3 DEF ServersOf, OwnInv, Ownership
<1>5. \A f \in Fds : Found(f) /\ Tid(f) = etid => f = efd
  BY <1>1 DEF OwnInv, UniqueThread
<1>6. QED
  BY <1>1, <1>2, <1>4, <1>5

(* Until the event loop overtakes a worker, the thread_id that             *)
(* del_connect_map gives to thread_quit is that of its own session's       *)
(* thread, never joined before: pthread_cancel and pthread_join hit no     *)
(* other session.                                                          *)
THEOREM TeardownQuitsOwnThread == Spec => []QuitsOwnThread
<1>1. Init => CancelInv
  BY DEF Init, CancelInv
<1>2. OwnedUntilOvertaken /\ CancelInv /\ [Next]_vars => CancelInv'
  <2>1. CancelInv /\ UNCHANGED vars => CancelInv'
    BY DEF CancelInv, vars, eventLoop, worker
  <2>2. QED
    BY <2>1, CancelInvPreserved DEF OwnedUntilOvertaken, HandshakeInv
<1>3. OwnedUntilOvertaken /\ CancelInv => QuitsOwnThread
  BY NamedThreadServes DEF OwnedUntilOvertaken, CancelInv, QuitsOwnThread, Tid
<1>4. QED
  BY <1>1, <1>2, <1>3, OwnInvariant, PTL DEF Spec
=============================================================================
