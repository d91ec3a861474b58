------------------------ MODULE TFMapSessionProofs ------------------------
(***************************************************************************)
(* The flag of a record says what its worker does, until the event loop    *)
(* overtakes a worker; and so event loop and workers implement Session.    *)
(***************************************************************************)
EXTENDS TFMapProofs

(* A thread that has not marked its record.                                *)
Young == {"arg", "setflag", "find", "mark"}

(* A worker at this place is what a record with this flag promises.        *)
Tells(flag, place) ==
    \/ flag \in {0, MAP_RECONNECT} /\ place \in Young
    \/ flag = MAP_CREATE_THREAD   /\ place \in Connecting
    \/ flag = MAP_CONNECT_SUCCESS /\ place \in Relaying
    \/ flag = MAP_CONNECT_FAILED  /\ place \in {"unset", "exited"}
    \/ flag = MAP_RECONNECT       /\ place \in {"clear", "exited"}

(* A worker that was cancelled may have ended anywhere.                    *)
Dead(w) == w \in cancelled /\ pc[w] = "exited"

(* FlagTracksWorker is not inductive: the event loop's work on a record    *)
(* ends, and its flag must tell then. So it tells at all times, but for a  *)
(* thread that has been joined or died cancelled, whose record is erased   *)
(* before the work ends; and it says of a record without a thread, or      *)
(* whose thread is to be replaced, that it is new or has lost its target.  *)
FlagInv ==
    /\ \A f \in Fds :
           Found(f) /\ Tid(f) \in Workers /\ pc[Tid(f)] # "free" /\ ~Dead(Tid(f)) =>
               Tells(g_accept_map[f].flag, pc[Tid(f)])
    /\ \A w \in cancelled : epc = "join" /\ etid = w
    /\ epc \in {"reset", "create"} => g_accept_map[efd].flag \in {0, MAP_RECONNECT}
----------------------------------------------------------------------------
(* No worker cancels another.                                              *)
LEMMA WorkerCancelsNone ==
    ASSUME NEW w \in Workers, WorkerStep(w) \/ WorkerWait(w)
    PROVE  cancelled' = cancelled
BY DEF WorkerStep, WorkerWait, TargetGone, ReadArg, SetFlagThread, FindRecord, MarkCreated,
       ReadTarget, ReadName, Resolved, ResolveFails, OpenSocket, SocketFails, KeepaliveFails,
       CloseUnkept, UnsetUnkept, MarkUnkept, StoreConnectFd, Connected, ConnectFails, CloseFailed,
       MarkFailed, UnsetConnectFd, MarkSuccess, RecordGone, FirstSend, CloseLost, MarkReconnect,
       DieCancelled

(* The flag in the record under f after an assignment to its members.      *)
LEMMA PutFlag ==
    ASSUME TypeOK, NEW f \in Fds, Found(f)
    PROVE  /\ \A v : SetFlag(f, v) => g_accept_map'[f].flag = v
           /\ Put(f, At(f)) => g_accept_map'[f].flag = g_accept_map[f].flag
           /\ \A k : Put(f, [At(f) EXCEPT !.connect_fd = k])
                        => g_accept_map'[f].flag = g_accept_map[f].flag
           /\ \A ip : Put(f, [At(f) EXCEPT !.connect_ip = ip])
                        => g_accept_map'[f].flag = g_accept_map[f].flag
<1>1. At(f) \in MapClient /\ At(f) = g_accept_map[f]
  BY DEF TypeOK, At, Found
<1>2. \A client : Put(f, client) => g_accept_map'[f] = client
  BY DEF Put, TypeOK
<1>3. QED
  BY <1>1, <1>2 DEF SetFlag, MapClient

(* Every step of a worker, but its death by cancellation, leaves the flag  *)
(* of its record telling where it is.                                      *)
LEMMA WorkerTells ==
    ASSUME OwnInv, NEW w \in Workers, WorkerStep(w) \/ WorkerWait(w), ~Dead(w)',
           pc[w] # "arg", Tells(g_accept_map[fd[w]].flag, pc[w])
    PROVE  Tells(g_accept_map'[fd[w]].flag, pc'[w])
<1> USE DEF OwnInv, HandshakeInv, TypeInv, WGoto, Exit, Young, Tells, Connecting, Relaying
<1> USE DEF MAP_CREATE_THREAD, MAP_CONNECT_SUCCESS, MAP_CONNECT_FAILED, MAP_RECONNECT
<1>0. pc \in [Workers -> WorkerPc] /\ TypeOK
  BY DEF TypeOK
<1>1. fd[w] \in Fds /\ Found(fd[w])
  BY WorkerMoves DEF Ownership, Live
<1>2. CASE ReadArg(w) \/ SetFlagThread(w) \/ FindRecord(w)
  BY <1>0, <1>1, <1>2 DEF ReadArg, SetFlagThread, FindRecord
<1>3. CASE MarkCreated(w)
  BY <1>0, <1>1, <1>3, PutFlag DEF MarkCreated
<1>4. CASE ReadTarget(w) \/ ReadName(w)
  BY <1>0, <1>1, <1>4, PutFlag DEF ReadTarget, ReadName
<1>5. CASE Resolved(w) \/ StoreConnectFd(w) \/ UnsetUnkept(w)
  BY <1>0, <1>1, <1>5, PutFlag DEF Resolved, StoreConnectFd, UnsetUnkept
<1>6. CASE ResolveFails(w) \/ SocketFails(w) \/ MarkUnkept(w)
  BY <1>0, <1>1, <1>6, PutFlag DEF ResolveFails, SocketFails, MarkUnkept
<1>7. CASE KeepaliveFails(w) \/ CloseUnkept(w)
  BY <1>0, <1>1, <1>7 DEF KeepaliveFails, CloseUnkept
<1>8. CASE OpenSocket(w) \/ Connected(w) \/ ConnectFails(w) \/ CloseFailed(w)
  BY <1>0, <1>1, <1>8 DEF OpenSocket, Connected, ConnectFails, CloseFailed
<1>9. CASE MarkFailed(w) \/ MarkReconnect(w)
  BY <1>0, <1>1, <1>9, PutFlag DEF MarkFailed, MarkReconnect
<1>10. CASE UnsetConnectFd(w)
  <2>1. g_accept_map'[fd[w]].flag = g_accept_map[fd[w]].flag
    BY <1>0, <1>1, <1>10, PutFlag DEF UnsetConnectFd
  <2>2. pc[w] \in {"unset", "clear"} /\ pc'[w] = "exited"
    BY <1>0, <1>10 DEF UnsetConnectFd
  <2>3. QED
    BY <2>1, <2>2
<1>11. CASE MarkSuccess(w)
  BY <1>0, <1>1, <1>11, PutFlag DEF MarkSuccess
<1>12. CASE RecordGone(w) \/ FirstSend(w) \/ TargetGone(w) \/ CloseLost(w)
  BY <1>0, <1>1, <1>12 DEF RecordGone, FirstSend, TargetGone, CloseLost
<1>13. ~DieCancelled(w)
  BY <1>0 DEF DieCancelled, Dead
<1>14. QED
  BY <1>2, <1>3, <1>4, <1>5, <1>6, <1>7, <1>8, <1>9, <1>10, <1>11, <1>12, <1>13
  DEF WorkerStep, WorkerWait

(* A thread that works on a record other than its own does not exist.      *)
LEMMA OwnKey ==
    ASSUME OwnInv, NEW w \in Workers, Live(w), pc[w] # "arg",
           NEW f \in Fds, Found(f), Tid(f) = w
    PROVE  fd[w] = f
BY DEF OwnInv, Ownership, UniqueThread

(* The first step of a thread copies its argument.                         *)
LEMMA FirstStep ==
    ASSUME NEW w \in Workers, WorkerStep(w) \/ WorkerWait(w), pc[w] = "arg"
    PROVE  ReadArg(w)
BY DEF WorkerStep, WorkerWait, TargetGone, SetFlagThread, FindRecord, MarkCreated, ReadTarget,
       ReadName, Resolved, ResolveFails, OpenSocket, SocketFails, KeepaliveFails, CloseUnkept,
       UnsetUnkept, MarkUnkept, StoreConnectFd, Connected, ConnectFails, CloseFailed, MarkFailed,
       UnsetConnectFd, MarkSuccess, RecordGone, FirstSend, CloseLost, MarkReconnect, DieCancelled,
       CancelPoint, WGoto, Exit

(* A worker moves the flag of its own record only.                         *)
LEMMA FlagByWorker ==
    ASSUME OwnInv, FlagInv, NEW w \in Workers, WorkerStep(w) \/ WorkerWait(w)
    PROVE  FlagInv'
<1>1. UNCHANGED <<epc, efd, etid, cancelled>> /\ \A v \in Workers \ {w} : pc'[v] = pc[v]
  BY WorkerFrame, WorkerCancelsNone DEF OwnInv, HandshakeInv, eventLoop
<1>2. Live(w)
  BY WorkerMoves DEF Live
<1>3. ASSUME NEW f \in Fds, Found(f)', Tid(f)' \in Workers, pc'[Tid(f)'] # "free",
             ~Dead(Tid(f))'
      PROVE  Tells(g_accept_map'[f].flag, pc'[Tid(f)'])
  <2>1. Found(f) /\ Tid(f)' = Tid(f) /\ Tid(f) \in Workers
    BY <1>3, OwnerRewrites
  <2>2. CASE Tid(f) # w
    <3>1. g_accept_map'[f] = g_accept_map[f] /\ pc'[Tid(f)] = pc[Tid(f)]
      BY <1>1, <2>1, <2>2, OwnerRewrites
    <3>2. QED
      BY <1>1, <1>3, <2>1, <3>1 DEF FlagInv, Dead
  <2>3. CASE Tid(f) = w
    <3>1. Tells(g_accept_map[f].flag, pc[w])
      BY <1>2, <2>1, <2>3 DEF FlagInv, Dead, Live
    <3>2. CASE pc[w] = "arg"
      <4>1. UNCHANGED g_accept_map /\ pc'[w] = "setflag"
        BY <3>2, FirstStep DEF ReadArg, WGoto, OwnInv, HandshakeInv, TypeInv, TypeOK
      <4>2. QED
        BY <2>1, <2>3, <3>1, <3>2, <4>1 DEF Tells, Young, Connecting, Relaying
    <3>3. CASE pc[w] # "arg"
      <4>1. fd[w] = f
        BY <1>2, <2>1, <2>3, <3>3, OwnKey
      <4>2. QED
        BY <1>3, <2>1, <2>3, <3>1, <3>3, <4>1, WorkerTells
    <3>4. QED
      BY <3>2, <3>3
  <2>4. QED
    BY <2>2, <2>3
<1>4. epc \in {"reset", "create"} => g_accept_map'[efd].flag \in {0, MAP_RECONNECT}
  <2> SUFFICES ASSUME epc \in {"reset", "create"}
               PROVE  g_accept_map'[efd] = g_accept_map[efd]
    BY DEF FlagInv
  <2>1. efd \in Fds /\ Found(efd)
    BY DEF OwnInv, WithRecord, HandshakeInv, TypeInv, Handling
  <2>2. fd[w] # efd /\ pc[w] # "arg"
    BY <1>2 DEF OwnInv, HandshakeInv, Starting
  <2>3. Tid(efd) # w
    BY <1>2, <2>1, <2>2, OwnKey
  <2>4. QED
    BY <2>1, <2>3, OwnerRewrites
<1>5. QED
  BY <1>1, <1>3, <1>4 DEF FlagInv, Dead, Found, Tid
----------------------------------------------------------------------------
(* A step of the event loop that leaves the records as they are, starts no *)
(* thread and cancels none.                                                *)
LEMMA FlagFrame ==
    ASSUME FlagInv, UNCHANGED <<g_accept_map, pc, cancelled>>, epc # "join",
           epc' \in {"reset", "create"} =>
               g_accept_map[efd'].flag \in {0, MAP_RECONNECT}
    PROVE  FlagInv'
BY DEF FlagInv, Dead, Found, Tid

(* The event loop leaves flags alone: it inserts a record without a        *)
(* thread, starts a thread that has to mark it, and cancels only the       *)
(* thread whose record it goes on to erase.                                *)
LEMMA FlagByEventLoop ==
    ASSUME OwnInv, FlagInv, EventLoopStep \/ EventLoopSend, ~overtaken'
    PROVE  FlagInv'
<1> USE DEF ELGoto, worker, eventLoop
<1>1. TypeOK /\ (epc # "wait" => efd \in Fds)
  BY DEF OwnInv, HandshakeInv, TypeInv, Handling
<1>2. CASE ForwardRead \/ QuitThread
  <2>1. epc \in {"forward", "quit"} /\ epc' \notin {"reset", "create"}
        /\ UNCHANGED <<pc, cancelled>>
    BY <1>2 DEF ForwardRead, QuitThread
  <2>2. UNCHANGED g_accept_map
    BY <1>1, <1>2, <2>1, PutAtFound DEF ForwardRead, QuitThread, OwnInv, WithRecord
  <2>3. QED
    BY <2>1, <2>2, FlagFrame
<1>3. CASE EventLoopSend \/ LeaveSpin \/ CloseClient \/ LookupRecord \/ CloseConnectFd
           \/ NothingToCancel
  <2>1. UNCHANGED <<g_accept_map, pc, cancelled>> /\ epc # "join"
        /\ epc' \notin {"reset", "create"}
    BY <1>3 DEF EventLoopSend, ReplySend, ForwardSend, LeaveSpin, CloseClient, LookupRecord,
                CloseConnectFd, NothingToCancel
  <2>2. QED
    BY <2>1, FlagFrame
<1>4. CASE Reconnect
  <2>1. epc = "reconnect" /\ Found(efd) /\ Put(efd, At(efd))
        /\ UNCHANGED <<efd, pc, cancelled>> /\ At(efd).flag = MAP_RECONNECT
    BY <1>4 DEF Reconnect, OwnInv, WithRecord
  <2>2. UNCHANGED g_accept_map
    BY <1>1, <2>1, PutAtFound
  <2>3. QED
    BY <2>1, <2>2, FlagFrame DEF At
<1>5. CASE ResetFlag
  <2>1. epc = "reset" /\ UNCHANGED <<efd, g_accept_map, pc, cancelled>>
    BY <1>5 DEF ResetFlag
  <2>2. QED
    BY <2>1, FlagFrame DEF FlagInv
<1>6. CASE Insert
  <2>1. epc = "insert" /\ epc' = "reset" /\ efd \in Fds /\ ~Found(efd)
        /\ UNCHANGED <<efd, pc, cancelled>>
    BY <1>1, <1>6 DEF Insert, OwnInv
  <2>2. PICK name \in {"", "name"} : Put(efd, Inserted(efd, name))
    BY <1>6, <2>1 DEF Insert, Inserted
  <2>3. g_accept_map' = [g_accept_map EXCEPT ![efd] = Inserted(efd, name)]
    BY <2>2 DEF Put
  <2>4. g_accept_map'[efd].thread_id = Unset /\ g_accept_map'[efd].flag = 0
    BY <1>1, <2>1, <2>3, InsertedType DEF TypeOK
  <2>5. \A f \in Fds \ {efd} : g_accept_map'[f] = g_accept_map[f]
    BY <1>1, <2>3 DEF TypeOK
  <2>6. \A f \in Fds : Found(f)' /\ Tid(f)' \in Workers =>
            Found(f) /\ g_accept_map'[f] = g_accept_map[f] /\ Tid(f)' = Tid(f)
    BY <2>4, <2>5, UnsetAssumption DEF Found, Tid
  <2>7. QED
    BY <2>1, <2>4, <2>6 DEF FlagInv, Dead, TypeOK
<1>7. CASE CreateThread
  <2>1. epc = "create" /\ epc' = "spin" /\ UNCHANGED <<efd, etid, cancelled>> /\ Found(efd)
    BY <1>7 DEF CreateThread, OwnInv, WithRecord
  <2>2. g_accept_map[efd].flag \in {0, MAP_RECONNECT} /\ \A w \in Workers : w \notin cancelled
    BY <2>1 DEF FlagInv
  <2>3. ASSUME NEW w \in Workers, pc[w] = "free", pc' = [pc EXCEPT ![w] = "arg"],
               Put(efd, [At(efd) EXCEPT !.thread_id = w])
        PROVE  FlagInv'
    <3>1. g_accept_map'[efd].thread_id = w /\ g_accept_map'[efd].flag = g_accept_map[efd].flag
      BY <1>1, <2>1, <2>3 DEF Put, At, TypeOK, MapClient, Found
    <3>2. \A f \in Fds \ {efd} : g_accept_map'[f] = g_accept_map[f]
      BY <1>1, <2>3 DEF Put, TypeOK
    <3>3. pc'[w] = "arg" /\ \A v \in Workers \ {w} : pc'[v] = pc[v]
      BY <1>1, <2>3 DEF TypeOK
    <3>4. Tells(g_accept_map'[efd].flag, "arg")
      BY <2>2, <3>1 DEF Tells, Young
    <3>5. \A f \in Fds \ {efd} : Found(f) /\ Tid(f) \in Workers => Tid(f) # w
      BY <2>1, <2>3 DEF OwnInv, RecordInv, BeingStarted
    <3>6. QED
      BY <2>1, <2>2, <3>1, <3>2, <3>3, <3>4, <3>5 DEF FlagInv, Dead, Found, Tid
  <2>4. CASE pc' = pc /\ Put(efd, At(efd))
    <3>1. UNCHANGED g_accept_map
      BY <1>1, <2>1, <2>4, PutAtFound
    <3>2. QED
      BY <2>1, <2>4, <3>1, FlagFrame
  <2>5. QED
    BY <1>7, <2>3, <2>4 DEF CreateThread
<1>8. CASE CancelThread
  <2>1. epc = "kill" /\ epc' = "join" /\ UNCHANGED <<g_accept_map, pc>>
    BY <1>8 DEF CancelThread
  <2>2. cancelled' = cancelled \cup {etid'}
    BY <1>8 DEF CancelThread
  <2>3. QED
    BY <2>1, <2>2 DEF FlagInv, Dead, Found, Tid
<1>9. CASE JoinThread
  <2>1. epc = "join" /\ epc' = "erase" /\ UNCHANGED g_accept_map
        /\ cancelled' = cancelled \ {etid} /\ pc' = [pc EXCEPT ![etid] = "free"]
    BY <1>9 DEF JoinThread
  <2>2. \A v \in Workers : pc'[v] = pc[v] \/ (pc'[v] = "free" /\ v = etid)
    BY <1>1, <2>1 DEF TypeOK
  <2>3. cancelled' = {} /\ \A v \in Workers : v # etid => v \notin cancelled
    BY <2>1 DEF FlagInv
  <2>4. \A v \in Workers : pc'[v] # "free" => pc'[v] = pc[v] /\ v \notin cancelled
    BY <1>1, <2>1, <2>3 DEF TypeOK
  <2>5. QED
    BY <2>1, <2>3, <2>4 DEF FlagInv, Dead, Found, Tid
<1>10. CASE EraseRecord
  <2>1. epc = "erase" /\ epc' = "wait" /\ UNCHANGED <<pc, cancelled>>
    BY <1>10 DEF EraseRecord
  <2>2. \A f \in Fds : Found(f)' => Found(f) /\ g_accept_map'[f] = g_accept_map[f]
    BY <1>1, <1>10, <2>1 DEF EraseRecord, Put, Found, TypeOK
  <2>3. QED
    BY <2>1, <2>2 DEF FlagInv, Dead, Tid
<1>11. QED
  BY <1>2, <1>3, <1>4, <1>5, <1>6, <1>7, <1>8, <1>9, <1>10 DEF EventLoopStep

(* An event only chooses what the event loop does next.                    *)
LEMMA FlagByEvent == FlagInv /\ Event => FlagInv'
<1> SUFFICES ASSUME FlagInv, Event PROVE FlagInv'
  OBVIOUS
<1>1. epc = "wait" /\ UNCHANGED <<g_accept_map, pc, cancelled>>
  BY DEF Event, Accept, ClientGone, process_msg, ELGoto, worker
<1>2. epc' \notin {"reset", "create"}
  BY DEF Event, Accept, ClientGone, process_msg, AfterMessage, ELGoto, eventLoop
<1>3. QED
  BY <1>1, <1>2, FlagFrame

(* It holds until the event loop overtakes a worker.                       *)
LEMMA FlagInvariant == Spec => [](overtaken \/ FlagInv)
<1>1. Init => FlagInv
  BY DEF Init, FlagInv, Found
<1>2. OwnedUntilOvertaken /\ (overtaken \/ FlagInv) /\ [Next]_vars => overtaken' \/ FlagInv'
  <2>1. UNCHANGED vars /\ FlagInv => FlagInv'
    BY DEF vars, eventLoop, worker, FlagInv, Dead, Found, Tid
  <2>2. UNCHANGED vars => overtaken' = overtaken
    BY DEF vars, eventLoop
  <2>3. OwnedUntilOvertaken /\ Next /\ overtaken => overtaken'
    BY OvertakenStays DEF OwnedUntilOvertaken
  <2>4. OwnInv /\ FlagInv /\ Next => overtaken' \/ FlagInv'
    BY FlagByWorker, FlagByEventLoop, FlagByEvent DEF Next
  <2>5. QED
    BY <2>1, <2>2, <2>3, <2>4 DEF OwnedUntilOvertaken
<1>3. QED
  BY <1>1, <1>2, OwnInvariant, PTL DEF Spec
----------------------------------------------------------------------------
(* Until the event loop overtakes a worker, a record that it is not        *)
(* working on has a flag that says what its worker does: nobody waits for  *)
(* a connection no worker is making, and no worker works on behind a flag  *)
(* that says it has ended.                                                 *)
THEOREM FlagsTellTheTruth == Spec => []FlagTracksWorker
<1>1. OwnInv /\ FlagInv => FlagTracksWorker
  <2> SUFFICES ASSUME OwnInv, FlagInv, NEW f \in Fds, Found(f), efd # f
               PROVE  /\ Tid(f) \in Workers
                      /\ Tells(g_accept_map[f].flag, pc[Tid(f)])
                      /\ pc[Tid(f)] \notin {"arg", "setflag"}
                      /\ g_accept_map[f].flag = 0 => pc[Tid(f)] \in Beginning
    <3>1. ASSUME NEW flag, NEW place, Tells(flag, place), place \notin {"arg", "setflag"},
                 flag = 0 => place \in Beginning
          PROVE  CASE flag = 0                   -> place \in Beginning
                   [] flag = MAP_CREATE_THREAD   -> place \in Connecting
                   [] flag = MAP_CONNECT_SUCCESS -> place \in Relaying
                   [] flag = MAP_CONNECT_FAILED  -> place \in {"unset", "exited"}
                   [] flag = MAP_RECONNECT       -> place \in Beginning \cup {"clear", "exited"}
      <4> USE <3>1 DEF Tells, MAP_CREATE_THREAD, MAP_CONNECT_SUCCESS, MAP_CONNECT_FAILED,
                       MAP_RECONNECT
      <4>1. CASE flag = 0
        BY <4>1
      <4>2. CASE flag = MAP_CREATE_THREAD
        BY <4>2
      <4>3. CASE flag = MAP_CONNECT_SUCCESS
        BY <4>3
      <4>4. CASE flag = MAP_CONNECT_FAILED
        BY <4>4
      <4>5. CASE flag = MAP_RECONNECT
        BY <4>5 DEF Young, Beginning
      <4>6. QED
        BY <4>1, <4>2, <4>3, <4>4, <4>5
    <3>2. QED
      BY <3>1 DEF FlagTracksWorker, Tid
  <2>1. /\ Tid(f) \in Workers /\ pc[Tid(f)] # "free"
        /\ g_accept_map[f].flag = 0 => pc[Tid(f)] \in Beginning
    BY DEF OwnInv, RecordInv, BeingStarted
  <2>2. epc \in WithRecord => efd \in Fds /\ Found(efd) /\ Tid(efd) # Tid(f)
    BY DEF OwnInv, UniqueThread, WithRecord, HandshakeInv, TypeInv, Handling
  <2>3. pc[Tid(f)] \notin {"arg", "setflag"}
    BY <2>1, <2>2 DEF OwnInv, HandshakeInv, Starting, WithRecord
  <2>4. Tid(f) \notin cancelled
    BY <2>1, <2>2 DEF FlagInv, OwnInv, WithRecord
  <2>5. QED
    BY <2>1, <2>3, <2>4 DEF FlagInv, Dead
<1>2. OwnedUntilOvertaken /\ (overtaken \/ FlagInv) => FlagTracksWorker
  BY <1>1 DEF OwnedUntilOvertaken, FlagTracksWorker
<1>3. QED
  BY <1>2, OwnInvariant, FlagInvariant, PTL
----------------------------------------------------------------------------
(* What a worker past its argument may do to the flag of its record, and   *)
(* where it is then.                                                       *)
Reports(w) ==
    LET old == g_accept_map[fd[w]].flag
        new == g_accept_map'[fd[w]].flag
        ends == pc'[w] = "exited"
    IN  \/ ~ends /\ new = old
        \/ ~ends /\ pc[w] = "mark" /\ new = MAP_CREATE_THREAD
        \/ pc[w] \in Connecting /\ new = MAP_CONNECT_FAILED
        \/ ~ends /\ pc[w] \in Connecting /\ new = MAP_CONNECT_SUCCESS
        \/ ~ends /\ pc[w] = "lost" /\ new = MAP_RECONNECT
        \/ ends /\ pc[w] \notin Young /\ new = old

LEMMA WorkerReports ==
    ASSUME OwnInv, NEW w \in Workers, WorkerStep(w) \/ WorkerWait(w), pc[w] # "arg"
    PROVE  Reports(w)
<1> USE DEF Reports, WGoto, Exit, Young, Connecting
<1>1. /\ pc \in [Workers -> WorkerPc] /\ TypeOK
      /\ fd[w] \in Fds /\ Found(fd[w])
  BY WorkerMoves DEF OwnInv, Ownership, Live, HandshakeInv, TypeInv, TypeOK
<1>2. CASE ReadArg(w) \/ SetFlagThread(w) \/ FindRecord(w)
  BY <1>1, <1>2 DEF ReadArg, SetFlagThread, FindRecord
<1>3. CASE MarkCreated(w) \/ ReadTarget(w) \/ ReadName(w)
  BY <1>1, <1>3, PutFlag DEF MarkCreated, ReadTarget, ReadName
<1>4. CASE Resolved(w) \/ StoreConnectFd(w) \/ UnsetUnkept(w)
  BY <1>1, <1>4, PutFlag DEF Resolved, StoreConnectFd, UnsetUnkept
<1>5. CASE ResolveFails(w) \/ SocketFails(w) \/ MarkUnkept(w)
  BY <1>1, <1>5, PutFlag DEF ResolveFails, SocketFails, MarkUnkept
<1>6. CASE KeepaliveFails(w) \/ CloseUnkept(w)
  BY <1>1, <1>6 DEF KeepaliveFails, CloseUnkept
<1>7. CASE OpenSocket(w) \/ Connected(w) \/ ConnectFails(w) \/ CloseFailed(w)
  BY <1>1, <1>7 DEF OpenSocket, Connected, ConnectFails, CloseFailed
<1>8. CASE MarkFailed(w) \/ MarkReconnect(w)
  BY <1>1, <1>8, PutFlag DEF MarkFailed, MarkReconnect
<1>9. CASE UnsetConnectFd(w)
  <2>1. g_accept_map'[fd[w]].flag = g_accept_map[fd[w]].flag
    BY <1>1, <1>9, PutFlag DEF UnsetConnectFd
  <2>2. pc[w] \in {"unset", "clear"} /\ pc'[w] = "exited"
    BY <1>1, <1>9 DEF UnsetConnectFd
  <2>3. QED
    BY <2>1, <2>2
<1>10. CASE MarkSuccess(w)
  BY <1>1, <1>10, PutFlag DEF MarkSuccess
<1>11. CASE RecordGone(w) \/ FirstSend(w) \/ TargetGone(w) \/ CloseLost(w)
  BY <1>1, <1>11 DEF RecordGone, FirstSend, TargetGone, CloseLost
<1>12. CASE DieCancelled(w)
  BY <1>1, <1>12 DEF DieCancelled, CancelPoint
<1>13. QED
  BY <1>2, <1>3, <1>4, <1>5, <1>6, <1>7, <1>8, <1>9, <1>10, <1>11, <1>12
  DEF WorkerStep, WorkerWait
----------------------------------------------------------------------------
(* The threads that serve a session: the one its record names, if it lives.*)
Serving(f) == {w \in Workers : Live(w) /\ Found(f) /\ Tid(f) = w}

ServersKnown == \A f \in Fds : ServersOf(f) = Serving(f)

LEMMA ServersAreKnown == OwnInv => ServersKnown
<1> SUFFICES ASSUME OwnInv, NEW f \in Fds PROVE ServersOf(f) = Serving(f)
  BY DEF ServersKnown
<1>1. ASSUME NEW w \in Workers, pc[w] = "arg"
      PROVE  Found(efd) /\ Tid(efd) = w /\ arg = efd /\ efd \in Fds
  BY <1>1 DEF OwnInv, HandshakeInv, Starting, WithRecord, TypeInv, Handling
<1>2. ASSUME NEW w \in Workers, Live(w), f = IF pc[w] = "arg" THEN arg ELSE fd[w]
      PROVE  Found(f) /\ Tid(f) = w
  BY <1>1, <1>2 DEF OwnInv, Ownership
<1>3. ASSUME NEW w \in Workers, Live(w), Found(f), Tid(f) = w
      PROVE  f = IF pc[w] = "arg" THEN arg ELSE fd[w]
  <2>1. CASE pc[w] = "arg"
    BY <1>1, <1>3, <2>1 DEF OwnInv, UniqueThread
  <2>2. CASE pc[w] # "arg"
    BY <1>3, <2>2, OwnKey
  <2>3. QED
    BY <2>1, <2>2
<1>4. QED
  BY <1>2, <1>3 DEF ServersOf, Serving

(* A session moves only when its record or its thread does.                *)
Still(f) == ServersOf(f)' = ServersOf(f) /\ SessionOf(f)' = SessionOf(f)

LEMMA SameSession ==
    ASSUME ServersKnown, ServersKnown', NEW f \in Fds,
           g_accept_map'[f] = g_accept_map[f],
           \A w \in Workers : Found(f) /\ Tid(f) = w => (Live(w)' <=> Live(w))
    PROVE  Still(f)
<1>1. (Found(f)' <=> Found(f)) /\ Tid(f)' = Tid(f)
  BY DEF Found, Tid
<1>2. Serving(f)' = Serving(f)
  BY <1>1 DEF Serving
<1>3. ServersOf(f)' = ServersOf(f)
  BY <1>2 DEF ServersKnown
<1>4. SessionOf(f)' = SessionOf(f)
  BY DEF SessionOf, Found
<1>5. QED
  BY <1>3, <1>4 DEF Still

(* The moves of Session for one descriptor, in terms of the program.       *)
MovesAlike(k) ==
    LET state == SessionOf(k)
        next == SessionOf(k)'
        served == ServersOf(k)
        after == ServersOf(k)'
    IN  \/ Still(k)
        \/ served = {} /\ state = "none" /\ next = "starting" /\ after = {}
        \/ /\ state \in {"starting", "lost"} /\ next = state /\ served = {}
           /\ \E w \in Workers : after = {w} /\ \A g \in Fds : w \notin ServersOf(g)
        \/ /\ served # {} /\ after = served
           /\ \/ state \in {"starting", "lost"} /\ next = "connecting"
              \/ state = "connecting" /\ next \in {"up", "failed"}
              \/ state = "up" /\ next = "lost"
        \/ served # {} /\ after = {} /\ state = "connecting" /\ next = "failed"
        \/ served # {} /\ after = {} /\ next = state /\ state \notin {"none", "starting"}
        \/ served = {} /\ after = {} /\ next = "none" /\ state \notin {"none", "starting"}

(* Such a move of one session, the others being still, is a step of        *)
(* Session, as long as none is abandoned.                                  *)
LEMMA MoveMaps ==
    ASSUME NEW k \in Fds, \A f \in Fds \ {k} : Still(f), MovesAlike(k), ~overtaken, ~overtaken',
           overtaken \in BOOLEAN, overtaken' \in BOOLEAN
    PROVE  [Sessions!Next]_(Sessions!vars)
<1> DEFINE session == [f \in Fds |-> SessionOf(f)]
           servers == [f \in Fds |-> ServersOf(f)]
<1>1. /\ session' = [session EXCEPT ![k] = SessionOf(k)']
      /\ servers' = [servers EXCEPT ![k] = ServersOf(k)']
      /\ SessionOf(k)' = SessionOf(k) => session' = session
      /\ ServersOf(k)' = ServersOf(k) => servers' = servers
  BY DEF Still
<1>2. \A f \in Fds : session[f] = SessionOf(f) /\ servers[f] = ServersOf(f)
  OBVIOUS
<1>3. /\ Sessions!vars = <<session, servers, overtaken>>
      /\ Sessions!vars' = <<session', servers', overtaken'>>
      /\ overtaken' = overtaken
  BY DEF Sessions!vars
<1>4. /\ Sessions!Open(k) <=> /\ servers[k] = {} /\ servers' = servers
                             /\ session[k] = "none"
                             /\ session' = [session EXCEPT ![k] = "starting"]
      /\ Sessions!Begin(k) <=> /\ servers[k] # {} /\ servers' = servers
                              /\ session[k] \in {"starting", "lost"}
                              /\ session' = [session EXCEPT ![k] = "connecting"]
      /\ Sessions!Establish(k) <=> /\ servers[k] # {} /\ servers' = servers
                                  /\ session[k] = "connecting"
                                  /\ session' = [session EXCEPT ![k] = "up"]
      /\ Sessions!Fail(k) <=> /\ servers[k] # {}
                             /\ servers' \in {servers, [servers EXCEPT ![k] = {}]}
                             /\ session[k] = "connecting"
                             /\ session' = [session EXCEPT ![k] = "failed"]
      /\ Sessions!Lose(k) <=> /\ servers[k] # {} /\ servers' = servers
                             /\ session[k] = "up"
                             /\ session' = [session EXCEPT ![k] = "lost"]
      /\ Sessions!Retire(k) <=> /\ session[k] \notin {"none", "starting"} /\ servers[k] # {}
                               /\ servers' = [servers EXCEPT ![k] = {}] /\ session' = session
      /\ Sessions!Close(k) <=> /\ session[k] \notin {"none", "starting"} /\ servers[k] = {}
                              /\ session' = [session EXCEPT ![k] = "none"]
                              /\ servers' = servers
      /\ \A w \in Workers :
             Sessions!Serve(k, w) <=> /\ session[k] \in {"starting", "lost"} /\ servers[k] = {}
                                      /\ \A g \in Fds : w \notin servers[g]
                                      /\ servers' = [servers EXCEPT ![k] = {w}]
                                      /\ session' = session
  BY DEF Sessions!Open, Sessions!Begin, Sessions!Establish, Sessions!Fail, Sessions!Lose,
         Sessions!Retire, Sessions!Close, Sessions!Serve, Sessions!Move
<1>5. /\ Sessions!vars' # Sessions!vars
      /\ \/ Sessions!Open(k) \/ Sessions!Begin(k) \/ Sessions!Establish(k) \/ Sessions!Fail(k)
         \/ Sessions!Lose(k) \/ Sessions!Retire(k) \/ Sessions!Close(k)
         \/ \E w \in Workers : Sessions!Serve(k, w)
      => Sessions!Next
  BY <1>3 DEF Sessions!Next, Sessions!Kept
<1> HIDE DEF session, servers
<1>6. \/ UNCHANGED <<session, servers>>
      \/ Sessions!Open(k) \/ Sessions!Begin(k) \/ Sessions!Establish(k) \/ Sessions!Fail(k)
      \/ Sessions!Lose(k) \/ Sessions!Retire(k) \/ Sessions!Close(k)
      \/ \E w \in Workers : Sessions!Serve(k, w)
  <2>1. CASE Still(k)
    BY <1>1, <2>1 DEF Still
  <2>2. CASE /\ ServersOf(k) = {} /\ ServersOf(k)' = {}
             /\ SessionOf(k) = "none" /\ SessionOf(k)' = "starting"
    BY <1>1, <1>2, <1>4, <2>2
  <2>3. ASSUME NEW w \in Workers, SessionOf(k) \in {"starting", "lost"},
               SessionOf(k)' = SessionOf(k), ServersOf(k) = {}, ServersOf(k)' = {w},
               \A g \in Fds : w \notin ServersOf(g)
        PROVE  Sessions!Serve(k, w)
    <3>1. session' = session /\ servers' = [servers EXCEPT ![k] = {w}]
      BY <1>1, <2>3
    <3>2. /\ session[k] \in {"starting", "lost"} /\ servers[k] = {}
          /\ \A g \in Fds : w \notin servers[g]
      BY <1>2, <2>3
    <3>3. QED
      BY <1>4, <3>1, <3>2
  <2>4. CASE /\ ServersOf(k) # {} /\ ServersOf(k)' = ServersOf(k)
             /\ \/ SessionOf(k) \in {"starting", "lost"} /\ SessionOf(k)' = "connecting"
                \/ SessionOf(k) = "connecting" /\ SessionOf(k)' \in {"up", "failed"}
                \/ SessionOf(k) = "up" /\ SessionOf(k)' = "lost"
    BY <1>1, <1>2, <1>4, <2>4
  <2>5. CASE /\ ServersOf(k) # {} /\ ServersOf(k)' = {}
             /\ SessionOf(k) = "connecting" /\ SessionOf(k)' = "failed"
    BY <1>1, <1>2, <1>4, <2>5
  <2>6. CASE /\ ServersOf(k) # {} /\ ServersOf(k)' = {} /\ SessionOf(k)' = SessionOf(k)
             /\ SessionOf(k) \notin {"none", "starting"}
    BY <1>1, <1>2, <1>4, <2>6
  <2>7. CASE /\ ServersOf(k) = {} /\ ServersOf(k)' = {} /\ SessionOf(k)' = "none"
             /\ SessionOf(k) \notin {"none", "starting"}
    BY <1>1, <1>2, <1>4, <2>7
  <2>8. QED
    BY <2>1, <2>2, <2>3, <2>4, <2>5, <2>6, <2>7 DEF MovesAlike
<1>7. QED
  BY <1>3, <1>5, <1>6

(* The state of a session says no more and no less than the record's flag. *)
StatesKnown ==
    \A f \in Fds : Found(f) =>
        /\ g_accept_map[f].flag = 0 <=> SessionOf(f) = "starting"
        /\ g_accept_map[f].flag = MAP_CREATE_THREAD <=> SessionOf(f) = "connecting"
        /\ g_accept_map[f].flag = MAP_CONNECT_SUCCESS <=> SessionOf(f) = "up"
        /\ g_accept_map[f].flag = MAP_CONNECT_FAILED <=> SessionOf(f) = "failed"
        /\ g_accept_map[f].flag = MAP_RECONNECT <=> SessionOf(f) = "lost"
        /\ SessionOf(f) # "none"

LEMMA StatesAreKnown == OwnInv => StatesKnown
<1> SUFFICES ASSUME OwnInv PROVE StatesKnown
  OBVIOUS
<1>1. \A f \in Fds : Found(f) => g_accept_map[f].flag \in Flags
  BY TidType DEF MapClient, OwnInv, HandshakeInv, TypeInv
<1>2. QED
  BY <1>1 DEF StatesKnown, SessionOf, Flags, MAP_CREATE_THREAD, MAP_CONNECT_SUCCESS,
              MAP_CONNECT_FAILED, MAP_RECONNECT

(* A worker's step moves the session it serves, from the state its record  *)
(* is in, or none.                                                         *)
LEMMA SessionByWorker ==
    ASSUME OwnInv, OwnInv', FlagInv, ServersKnown, ServersKnown', StatesKnown, StatesKnown',
           ~overtaken, ~overtaken', NEW w \in Workers, WorkerStep(w) \/ WorkerWait(w)
    PROVE  [Sessions!Next]_(Sessions!vars)
<1>1. TypeInv /\ TypeOK /\ overtaken \in BOOLEAN /\ overtaken' \in BOOLEAN
  BY DEF OwnInv, HandshakeInv, TypeInv, TypeOK
<1>2. PICK k \in Fds : (pc[w] # "arg" => k = fd[w]) /\ Found(k) /\ Tid(k) = w /\ Live(w)
  <2>1. CASE pc[w] = "arg"
    BY <2>1 DEF OwnInv, HandshakeInv, Starting, TypeInv, Handling, Live
  <2>2. CASE pc[w] # "arg"
    BY <2>2, WorkerMoves DEF OwnInv, Ownership, Live
  <2>3. QED
    BY <2>1, <2>2
<1>3. Found(k)' /\ Tid(k)' = w
  BY <1>2, OwnerRewrites DEF Found, Tid
<1>4. ASSUME NEW f \in Fds \ {k}
      PROVE  Still(f)
  <2>1. Found(f) => Tid(f) # w
    BY <1>2 DEF OwnInv, UniqueThread
  <2>2. g_accept_map'[f] = g_accept_map[f]
    BY <2>1, OwnerRewrites DEF Found
  <2>3. \A v \in Workers : Found(f) /\ Tid(f) = v => (Live(v)' <=> Live(v))
    BY <1>1, <2>1, WorkerFrame DEF Live
  <2>4. QED
    BY <2>2, <2>3, SameSession
<1>5. CASE pc[w] = "arg"
  <2>1. ReadArg(w)
    BY <1>5, FirstStep
  <2>2. UNCHANGED g_accept_map /\ Live(w)'
    BY <1>1, <2>1 DEF ReadArg, WGoto, TypeOK, Live
  <2>3. Still(k)
    BY <1>2, <2>2, SameSession
  <2>4. QED
    BY <1>1, <1>2, <1>4, <2>3, MoveMaps DEF MovesAlike
<1>6. CASE pc[w] # "arg"
  <2>1. k = fd[w] /\ Reports(w)
    BY <1>2, <1>6, WorkerReports
  <2>2. Tells(g_accept_map[k].flag, pc[w])
    BY <1>2 DEF FlagInv, Dead, Live
  <2>4. ServersOf(k) = {w} /\ ServersOf(k)' = IF pc'[w] = "exited" THEN {} ELSE {w}
    <3>1. Live(w)' <=> pc'[w] # "exited"
      BY <1>1, WorkerMoves DEF Live
    <3>2. Serving(k) = {w}
      BY <1>2 DEF Serving
    <3>3. Serving(k)' = IF pc'[w] = "exited" THEN {} ELSE {w}
      BY <1>3, <3>1 DEF Serving
    <3>4. QED
      BY <1>2, <2>1, <3>2, <3>3 DEF ServersKnown
  <2>5. MovesAlike(k)
    <3>1. /\ pc[w] \in Young => SessionOf(k) \in {"starting", "lost"}
          /\ pc[w] \in Connecting => SessionOf(k) = "connecting"
          /\ pc[w] = "lost" => SessionOf(k) = "up"
          /\ pc[w] \notin Young => SessionOf(k) # "starting"
          /\ SessionOf(k) # "none"
      BY <1>2, <2>2 DEF StatesKnown, Tells, Young, Connecting, Relaying
    <3>2. \/ pc'[w] # "exited" /\ SessionOf(k)' = SessionOf(k)
          \/ pc'[w] # "exited" /\ pc[w] = "mark" /\ SessionOf(k)' = "connecting"
          \/ pc[w] \in Connecting /\ SessionOf(k)' = "failed"
          \/ pc'[w] # "exited" /\ pc[w] \in Connecting /\ SessionOf(k)' = "up"
          \/ pc'[w] # "exited" /\ pc[w] = "lost" /\ SessionOf(k)' = "lost"
          \/ pc'[w] = "exited" /\ pc[w] \notin Young /\ SessionOf(k)' = SessionOf(k)
      <4>1. g_accept_map'[k].flag = g_accept_map[k].flag => SessionOf(k)' = SessionOf(k)
        BY <1>2, <1>3 DEF SessionOf
      <4>2. QED
        BY <1>3, <2>1, <4>1 DEF Reports, StatesKnown
    <3>3. "mark" \in Young
      BY DEF Young
    <3>4. QED
      BY <2>4, <3>1, <3>2, <3>3 DEF MovesAlike, Still
  <2>6. QED
    BY <1>1, <1>2, <1>4, <2>5, MoveMaps
<1>7. QED
  BY <1>5, <1>6

(* Where no record changes and no thread starts or ends, no session moves. *)
LEMMA StillMaps ==
    ASSUME ServersKnown, ServersKnown', UNCHANGED <<g_accept_map, overtaken>>,
           \A w \in Workers : Live(w)' <=> Live(w)
    PROVE  [Sessions!Next]_(Sessions!vars)
<1>1. \A f \in Fds : Still(f)
  BY SameSession
<1>2. QED
  BY <1>1 DEF Still, Sessions!vars

(* The event loop opens, serves and closes sessions: nothing else it does  *)
(* shows in them.                                                          *)
LEMMA SessionByEventLoop ==
    ASSUME OwnInv, OwnInv', FlagInv, ServersKnown, ServersKnown', StatesKnown, StatesKnown',
           ~overtaken, ~overtaken', EventLoopStep \/ EventLoopSend \/ Event
    PROVE  [Sessions!Next]_(Sessions!vars)
<1> USE DEF ELGoto, worker, eventLoop
<1>1. TypeOK /\ (epc # "wait" => efd \in Fds)
      /\ overtaken \in BOOLEAN /\ overtaken' \in BOOLEAN /\ overtaken' = overtaken
  BY DEF OwnInv, HandshakeInv, TypeInv, Handling, TypeOK
<1>2. CASE \/ Event \/ EventLoopSend \/ ResetFlag \/ LeaveSpin \/ CloseClient \/ LookupRecord
           \/ CloseConnectFd \/ NothingToCancel \/ CancelThread
  <2>1. UNCHANGED <<g_accept_map, pc>>
    BY <1>2 DEF Event, Accept, ClientGone, process_msg, EventLoopSend, ReplySend, ForwardSend,
                ResetFlag, LeaveSpin, CloseClient, LookupRecord, CloseConnectFd, NothingToCancel,
                CancelThread
  <2>2. QED
    BY <1>1, <2>1, StillMaps DEF Live
<1>3. CASE ForwardRead \/ Reconnect \/ QuitThread
  <2>1. UNCHANGED <<g_accept_map, pc>>
    BY <1>1, <1>3, PutAtFound DEF ForwardRead, Reconnect, QuitThread, OwnInv, WithRecord
  <2>2. QED
    BY <1>1, <2>1, StillMaps DEF Live
<1>4. CASE JoinThread
  <2>1. UNCHANGED g_accept_map /\ pc[etid] = "exited" /\ pc' = [pc EXCEPT ![etid] = "free"]
    BY <1>4 DEF JoinThread
  <2>2. \A w \in Workers : Live(w)' <=> Live(w)
    BY <1>1, <2>1 DEF Live, TypeOK
  <2>3. QED
    BY <1>1, <2>1, <2>2, StillMaps
<1>5. CASE Insert
  <2>1. PICK k \in Fds : k = efd /\ ~Found(k)
    BY <1>1, <1>5 DEF Insert, OwnInv
  <2>2. PICK name \in {"", "name"} : UNCHANGED pc /\ Put(k, Inserted(k, name))
    BY <1>5, <2>1 DEF Insert, Inserted
  <2>3. Found(k)' /\ Tid(k)' = Unset /\ g_accept_map'[k].flag = 0
    BY <1>1, <2>2, InsertedType, NoClientAssumption DEF Found, Tid, TypeOK, Put
  <2>4. ASSUME NEW f \in Fds \ {k}
        PROVE  Still(f)
    <3>1. g_accept_map'[f] = g_accept_map[f]
      BY <1>1, <2>2 DEF TypeOK, Put
    <3>2. QED
      BY <2>2, <3>1, SameSession DEF Live
  <2>5. Serving(k) = {} /\ Serving(k)' = {}
    BY <2>1, <2>3, UnsetAssumption DEF Serving
  <2>6. SessionOf(k) = "none" /\ SessionOf(k)' = "starting"
    BY <2>1, <2>3 DEF SessionOf, StatesKnown
  <2>7. MovesAlike(k)
    BY <2>5, <2>6 DEF MovesAlike, ServersKnown
  <2>8. QED
    BY <1>1, <2>4, <2>7, MoveMaps
<1>6. CASE CreateThread
  <2>1. PICK k \in Fds : k = efd /\ Found(k)
    BY <1>1, <1>6 DEF CreateThread, OwnInv, WithRecord
  <2>2. g_accept_map[k].flag \in {0, MAP_RECONNECT}
    BY <1>6, <2>1 DEF CreateThread, FlagInv
  <2>3. CASE pc' = pc /\ Put(efd, At(efd))
    <3>1. UNCHANGED g_accept_map
      BY <1>1, <2>1, <2>3, PutAtFound
    <3>2. QED
      BY <1>1, <2>3, <3>1, StillMaps DEF Live
  <2>4. ASSUME NEW w \in Workers, pc[w] = "free", pc' = [pc EXCEPT ![w] = "arg"],
               Put(efd, [At(efd) EXCEPT !.thread_id = w])
        PROVE  [Sessions!Next]_(Sessions!vars)
    <3>1. At(k) = g_accept_map[k] /\ g_accept_map[k] \in MapClient
      BY <1>1, <2>1 DEF At, TypeOK, Found
    <3> DEFINE new == [At(k) EXCEPT !.thread_id = w]
    <3>2. g_accept_map' = [g_accept_map EXCEPT ![k] = new]
      BY <2>1, <2>4 DEF Put
    <3>2a. new \in MapClient /\ new.thread_id = w /\ new.flag = g_accept_map[k].flag
      BY <3>1 DEF MapClient
    <3>3. Tid(k)' = w /\ g_accept_map'[k].flag = g_accept_map[k].flag
      BY <1>1, <3>2, <3>2a DEF Tid, TypeOK
    <3>4. Found(k)'
      BY <1>1, <3>2, <3>2a, NoClientAssumption DEF Found, TypeOK
    <3>5. Live(w)' /\ ~Live(w) /\ \A v \in Workers \ {w} : Live(v)' <=> Live(v)
      BY <1>1, <2>4 DEF Live, TypeOK
    <3>6. ASSUME NEW f \in Fds \ {k}
          PROVE  Still(f)
      <4>1. g_accept_map'[f] = g_accept_map[f]
        BY <1>1, <3>2 DEF TypeOK
      <4>2. Found(f) => Tid(f) # w
        BY <2>1, <3>3, <3>4, <4>1 DEF OwnInv, UniqueThread, Found, Tid
      <4>3. QED
        BY <3>5, <4>1, <4>2, SameSession
    <3>7. Serving(k) = {} /\ Serving(k)' = {w} /\ \A g \in Fds : w \notin Serving(g)
      <4>1. \A v \in Workers : Live(v) => fd[v] # k /\ pc[v] # "arg"
        BY <1>6, <2>1 DEF CreateThread, OwnInv, HandshakeInv, Starting
      <4>2. \A v \in Workers : Live(v) => Tid(k) # v
        BY <2>1, <4>1, OwnKey
      <4>3. QED
        BY <3>3, <3>4, <3>5, <4>2 DEF Serving
    <3>8. SessionOf(k) \in {"starting", "lost"} /\ SessionOf(k)' = SessionOf(k)
      BY <2>1, <2>2, <3>3, <3>4 DEF SessionOf, StatesKnown
    <3>9. MovesAlike(k)
      BY <3>7, <3>8 DEF MovesAlike, ServersKnown
    <3>10. QED
      BY <1>1, <3>6, <3>9, MoveMaps
  <2>5. QED
    BY <1>6, <2>3, <2>4 DEF CreateThread
<1>7. CASE EraseRecord
  <2>1. PICK k \in Fds : k = efd
    BY <1>1, <1>7 DEF EraseRecord
  <2>2. UNCHANGED pc /\ g_accept_map' = [g_accept_map EXCEPT ![k] = NoClient]
    BY <1>7, <2>1 DEF EraseRecord, Put
  <2>3. \A f \in Fds \ {k} : Still(f)
    <3>1. \A f \in Fds \ {k} : g_accept_map'[f] = g_accept_map[f]
      BY <1>1, <2>2 DEF TypeOK
    <3>2. QED
      BY <2>2, <3>1, SameSession DEF Live
  <2>4. CASE ~Found(k)
    <3>1. UNCHANGED g_accept_map
      BY <1>1, <2>2, <2>4 DEF Found, TypeOK
    <3>2. QED
      BY <1>1, <2>2, <3>1, StillMaps DEF Live
  <2>5. CASE Found(k)
    <3>1. ~Found(k)'
      BY <1>1, <2>2 DEF Found, TypeOK
    <3>2. \A v \in Workers : Live(v) => Tid(k) # v
      <4>1. \A v \in Workers : Live(v) => fd[v] # k /\ pc[v] # "arg"
        BY <1>7, <2>1 DEF EraseRecord, OwnInv, HandshakeInv, Starting
      <4>2. QED
        BY <2>5, <4>1, OwnKey
    <3>2a. Serving(k) = {} /\ Serving(k)' = {}
      BY <3>1, <3>2 DEF Serving
    <3>3. g_accept_map[k].flag # 0
      BY <1>7, <2>1, <2>5, <3>2 DEF EraseRecord, OwnInv, RecordInv, BeingStarted, Beginning, Live
    <3>4. SessionOf(k) \notin {"none", "starting"} /\ SessionOf(k)' = "none"
      BY <2>5, <3>1, <3>3 DEF SessionOf, StatesKnown
    <3>5. MovesAlike(k)
      BY <3>2a, <3>4 DEF MovesAlike, ServersKnown
    <3>6. QED
      BY <1>1, <2>3, <3>5, MoveMaps
  <2>6. QED
    BY <2>4, <2>5
<1>8. QED
  BY <1>2, <1>3, <1>4, <1>5, <1>6, <1>7 DEF EventLoopStep

(* Where the event loop overtakes a worker, it abandons a session: one     *)
(* that is served, or one that failed since process_msg found it lost.     *)
LEMMA Abandons ==
    ASSUME OwnInv, FlagInv, StatesKnown, ServersKnown, Next, ~overtaken, overtaken'
    PROVE  [Sessions!Next]_(Sessions!vars)
<1> USE DEF ELGoto, eventLoop
<1>1. TypeOK /\ (epc # "wait" => efd \in Fds) /\ overtaken \in BOOLEAN /\ overtaken' \in BOOLEAN
  BY DEF OwnInv, HandshakeInv, TypeInv, Handling, TypeOK
<1>2. Reconnect \/ QuitThread
  <2>1. ~Event
    BY DEF Event, Accept, ClientGone, process_msg
  <2>2. \A w \in Workers : ~(WorkerStep(w) \/ WorkerWait(w))
    BY WorkerFrame DEF OwnInv, HandshakeInv
  <2>3. QED
    BY <2>1, <2>2 DEF Next, EventLoopStep, EventLoopSend, ReplySend, ForwardRead, ForwardSend,
       Insert, ResetFlag, CreateThread, LeaveSpin, CloseClient, LookupRecord, CloseConnectFd,
       NothingToCancel, CancelThread, JoinThread, EraseRecord
<1>3. /\ efd \in Fds /\ Found(efd) /\ epc \in {"reconnect", "quit"}
      /\ UNCHANGED <<g_accept_map, pc, fd, arg>>
  BY <1>1, <1>2, PutAtFound DEF Reconnect, QuitThread, OwnInv, WithRecord, worker
<1>4. Unfinished(efd) \/ (epc = "reconnect" /\ g_accept_map[efd].flag # MAP_RECONNECT)
  BY <1>2, <1>3 DEF Reconnect, QuitThread, At
<1>5. SessionOf(efd) # "none"
  BY <1>3 DEF StatesKnown
<1>6. Unfinished(efd) => ServersOf(efd) # {}
  BY <1>3 DEF Unfinished, ServersOf, OwnInv, HandshakeInv, Starting
<1>7. ~Unfinished(efd) => SessionOf(efd) = "failed"
  <2> SUFFICES ASSUME ~Unfinished(efd) PROVE SessionOf(efd) = "failed"
    OBVIOUS
  <2>1. Tid(efd) \in Workers /\ pc[Tid(efd)] # "free"
    BY <1>3 DEF OwnInv, RecordInv, BeingStarted
  <2>2. pc[Tid(efd)] = "exited"
    <3>1. \A w \in Workers : pc[w] # "arg"
      BY <1>3 DEF OwnInv, HandshakeInv, Starting
    <3>2. QED
      BY <1>3, <2>1, <3>1, OwnKey DEF Unfinished, Live
  <2>3. Tells(g_accept_map[efd].flag, "exited")
    BY <1>3, <2>1, <2>2 DEF FlagInv, Dead
  <2>4. g_accept_map[efd].flag = MAP_CONNECT_FAILED
    BY <1>4, <2>3 DEF Tells, Young, Connecting, Relaying
  <2>5. QED
    BY <1>3, <2>4 DEF StatesKnown
<1> DEFINE session == [f \in Fds |-> SessionOf(f)]
           servers == [f \in Fds |-> ServersOf(f)]
<1>8. UNCHANGED <<session, servers>>
  BY <1>3 DEF SessionOf, ServersOf, Live, Found
<1>9. Sessions!Abandon(efd)
  BY <1>1, <1>3, <1>5, <1>6, <1>7, <1>8 DEF Sessions!Abandon
<1>10. Sessions!vars' # Sessions!vars
  BY <1>1 DEF Sessions!vars
<1>11. QED
  BY <1>3, <1>9, <1>10 DEF Sessions!Next

(* After that anything may happen.                                         *)
LEMMA AfterAbandon ==
    ASSUME overtaken, overtaken'
    PROVE  [Sessions!Next]_(Sessions!vars)
BY DEF Sessions!Next

(* Event loop and workers implement the session of every client: until one *)
(* is abandoned, it goes only through the states Session allows, at most   *)
(* one thread serves it, and none outlives it; and none is abandoned but   *)
(* in the way Session says.                                                *)
THEOREM SessionsImplemented == Spec => ImplementsSession
<1>1. Init => Sessions!Init
  BY DEF Init, Sessions!Init, SessionOf, ServersOf, Live, Found
<1>2. OwnInv => ServersKnown /\ StatesKnown
  BY ServersAreKnown, StatesAreKnown
<1> DEFINE Known == overtaken \/ (OwnInv /\ ServersKnown /\ StatesKnown)
<1>3. OwnedUntilOvertaken => Known
  BY <1>2 DEF OwnedUntilOvertaken
<1>4. /\ OwnedUntilOvertaken /\ Known /\ (overtaken \/ FlagInv)
      /\ Known' /\ [Next]_vars
      => [Sessions!Next]_(Sessions!vars)
  <2> SUFFICES ASSUME OwnedUntilOvertaken, Known, overtaken \/ FlagInv, Known', [Next]_vars
               PROVE  [Sessions!Next]_(Sessions!vars)
    OBVIOUS
  <2>1. CASE overtaken
    <3>1. overtaken'
      BY <2>1, OvertakenStays DEF OwnedUntilOvertaken, vars, eventLoop
    <3>2. QED
      BY <2>1, <3>1, AfterAbandon
  <2>2. CASE ~overtaken /\ overtaken'
    BY <2>2, Abandons DEF vars, eventLoop
  <2>3. CASE ~overtaken /\ ~overtaken'
    <3>1. UNCHANGED vars => UNCHANGED <<g_accept_map, overtaken, pc>>
      BY DEF vars, eventLoop, worker
    <3>2. UNCHANGED vars => [Sessions!Next]_(Sessions!vars)
      BY <2>3, <3>1, StillMaps DEF Live
    <3>3. QED
      BY <2>3, <3>2, SessionByWorker, SessionByEventLoop DEF Next
  <2>4. QED
    BY <2>1, <2>2, <2>3
<1>5. QED
  BY <1>1, <1>3, <1>4, OwnInvariant, FlagInvariant, PTL DEF Spec, ImplementsSession, Sessions!Spec
=============================================================================
