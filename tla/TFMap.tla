------------------------------- MODULE TFMap -------------------------------
(***************************************************************************)
(* The event loop of TFMap::start, the worker threads it creates with      *)
(* add_connect_map, the session records in g_accept_map and the process's  *)
(* descriptor table, which the two kinds of thread share.                  *)
(*                                                                         *)
(* There is one event loop thread. It accepts clients, reads their         *)
(* messages, keeps one MapClient per client descriptor, creates one worker *)
(* per session and tears the session down again. A worker connects to the  *)
(* target, then copies what the target sends to the client until the       *)
(* target closes. Workers take no lock: every access to g_accept_map or to *)
(* the descriptor table is a step of its own, at the granularity at which  *)
(* the two sides can interleave.                                           *)
(***************************************************************************)
EXTENDS HttpRequest

CONSTANTS
    Fds,          \* descriptor numbers left for sockets (the process's limit)
    Workers,      \* thread slots: how many threads may exist and not be joined
    Messages,     \* the client messages considered
    NoClient,     \* "no record under this key in g_accept_map"
    Unset         \* the value of a thread_id nobody has written

ASSUME FdsAssumption == Fds \subseteq Nat \ {0}
ASSUME MessagesAssumption == Messages \subseteq Message
ASSUME UnsetAssumption == Unset \notin Workers

VARIABLES
    epc,            \* event loop: where it is
    efd,            \* event loop: evs[i].data.fd of the event being handled
    esock,          \* event loop: the connect_fd it has read
    etid,           \* event loop: thread_id given to thread_quit
    arg,            \* the parameter fd of add_connect_map, &fd is the thread's arg
    g_flag_thread,
    g_map_lock,     \* held (only the event loop ever takes it)
    overtaken,      \* history, read by no step: the event loop went on past a
                    \* worker it should have waited for
    g_accept_map,
    files,          \* descriptor number -> "free", "client" or the worker that opened it
    pc,             \* worker: where it is; "free" is a slot without a thread
    fd,             \* worker: fd, its copy of the argument
    connect_fd,     \* worker: connect_fd
    cancelled       \* workers with a pthread_cancel pending

eventLoop == <<epc, efd, esock, etid, arg, g_map_lock, overtaken>>
worker == <<pc, fd, connect_fd, cancelled>>
vars == <<eventLoop, g_flag_thread, g_accept_map, files, worker>>
----------------------------------------------------------------------------
(* process_map.h *)
MAP_CONNECT_SUCCESS == 10
MAP_CONNECT_FAILED  == 1
MAP_CREATE_THREAD   == 2
MAP_RECONNECT       == 3

NoFd == -1

Flags == {0, MAP_CONNECT_SUCCESS, MAP_CONNECT_FAILED, MAP_CREATE_THREAD, MAP_RECONNECT}

(* Of connect_name and connect_ip only whether they are empty matters.     *)
MapClient == [accept_fd : Fds \cup {NoFd},
              connect_fd : Fds \cup {NoFd},
              flag : Flags,
              connect_name : {"", "name"},
              connect_ip : {"", "ip"},
              thread_id : Workers \cup {Unset}]

(* Mutant: the constructor forgets flag too.                               *)
DefaultClient_NoFlag ==
    [accept_fd |-> NoFd, connect_fd |-> NoFd, flag |-> Unset,
     connect_name |-> "", connect_ip |-> "", thread_id |-> Unset]

(* The constructor leaves thread_id, action, msg and len unwritten.        *)
DefaultClient ==
    [accept_fd |-> NoFd, connect_fd |-> NoFd, flag |-> 0,
     connect_name |-> "", connect_ip |-> "", thread_id |-> Unset]

(* An absent record is not a record.                                       *)
ASSUME NoClientAssumption == NoClient \notin MapClient

EventLoopPc == {"wait", "reply", "forward", "send", "reconnect", "insert", "reset", "create",
                "spin", "close", "lookup", "closefd", "quit", "kill", "join", "erase"}

WorkerPc == {"free", "arg", "setflag", "find", "mark", "target", "name", "noname",
             "resolve", "socket", "store", "kclose", "kunset", "kfailed", "connect",
             "cfail", "failed", "unset", "check", "reply", "recv", "rclose", "lost",
             "clear", "exited"}

(* g_accept_map.find(f) != end()                                           *)
Found(f) == g_accept_map[f] # NoClient

(* g_accept_map[f]: std::map::operator[] inserts a default record under a  *)
(* key that is absent. Put is an assignment to members through it.         *)
At(f) == IF Found(f) THEN g_accept_map[f] ELSE DefaultClient

Put(f, client) == g_accept_map' = [g_accept_map EXCEPT ![f] = client]

SetFlag(f, v) == Put(f, [At(f) EXCEPT !.flag = v])

(* The kernel hands out the lowest free number; close frees whatever the   *)
(* number stands for now, and fails harmlessly on -1 and on a free number. *)
Lowest(k) == files[k] = "free" /\ \A j \in Fds : files[j] = "free" => k <= j

Close(k) == files' = [j \in Fds |-> IF j = k THEN "free" ELSE files[j]]

Live(w) == pc[w] \notin {"free", "exited"}

(* A worker that has read the number f still runs.                         *)
Unfinished(f) == \E w \in Workers : Live(w) /\ fd[w] = f
----------------------------------------------------------------------------
Init ==
    /\ epc = "wait" /\ efd = NoFd /\ esock = NoFd /\ etid = Unset /\ arg = NoFd
    /\ g_flag_thread = 0
    /\ g_map_lock = FALSE
    /\ overtaken = FALSE
    /\ g_accept_map = [f \in Fds |-> NoClient]
    /\ files = [f \in Fds |-> "free"]
    /\ pc = [w \in Workers |-> "free"]
    /\ fd = [w \in Workers |-> NoFd]
    /\ connect_fd = [w \in Workers |-> NoFd]
    /\ cancelled = {}

----------------------------------------------------------------------------
(* The event loop.                                                         *)

ELGoto(from, to) == epc = from /\ epc' = to

(* listen_fd is readable: accept, socket_keepalive, add_epoll_fd. When     *)
(* either of the first two fails nothing is left behind (continue).        *)
Accept ==
    /\ epc = "wait"
    /\ \E k \in Fds : /\ Lowest(k)
                      /\ files' = [files EXCEPT ![k] = "client"]
    /\ UNCHANGED <<eventLoop, g_flag_thread, g_accept_map, worker>>

(* recv returned len <= 0, or the event was EPOLLERR: disconnect.          *)
ClientGone(f) ==
    /\ files[f] = "client"
    /\ ELGoto("wait", "close")
    /\ efd' = f
    /\ UNCHANGED <<esock, etid, arg, g_map_lock, overtaken, g_flag_thread, g_accept_map, files, worker>>

(* process_msg up to its first write: the record's flag, or the parser,    *)
(* decides. "wait" is return 0, "close" return -1.                         *)
AfterMessage(f, m) ==
    IF Found(f)
    THEN CASE g_accept_map[f].flag = MAP_CONNECT_SUCCESS ->
                IF get_action(m) = TF_CONNECT THEN "reply" ELSE "forward"
           [] g_accept_map[f].flag = MAP_RECONNECT       -> "reconnect"
           [] g_accept_map[f].flag = MAP_CONNECT_FAILED  -> "close"
           [] OTHER                                      -> "wait"
    ELSE CASE Dropped(m)  -> "wait"
           [] Rejected(m) -> "close"
           [] OTHER       -> "insert"

process_msg(f, m) ==
    /\ files[f] = "client"
    /\ ELGoto("wait", AfterMessage(f, m))
    /\ efd' = IF epc' = "wait" THEN NoFd ELSE f
    /\ UNCHANGED <<esock, etid, arg, g_map_lock, overtaken, g_flag_thread, g_accept_map, files, worker>>

(* sendto_client with the 200: send() blocks while the client does not     *)
(* read, so this step may never come.                                      *)
ReplySend ==
    /\ ELGoto("reply", "wait")
    /\ efd' = NoFd
    /\ UNCHANGED <<esock, etid, arg, g_map_lock, overtaken, g_flag_thread, g_accept_map, files, worker>>

(* sendto_remote(g_accept_map[fd].connect_fd, msg, len): the record is read *)
(* once for the flag, again for connect_fd, and the socket is used later.  *)
ForwardRead ==
    /\ ELGoto("forward", "send")
    /\ esock' = At(efd).connect_fd
    /\ Put(efd, At(efd))
    /\ UNCHANGED <<efd, etid, arg, g_map_lock, overtaken, g_flag_thread, files, worker>>

(* The send blocks while the target does not read.                         *)
ForwardSend ==
    /\ ELGoto("send", "wait")
    /\ efd' = NoFd /\ esock' = NoFd
    /\ UNCHANGED <<etid, arg, g_map_lock, overtaken, g_flag_thread, g_accept_map, files, worker>>

(* usleep(1000) "wait thread exit", then the record gets the new message.  *)
(* Nothing but the 1 ms holds the event loop back; meanwhile a worker that *)
(* was restarted and had not marked its record may do all of its work.     *)
Reconnect ==
    /\ ELGoto("reconnect", "reset")
    /\ overtaken' = (overtaken \/ Unfinished(efd) \/ At(efd).flag # MAP_RECONNECT)
    /\ Put(efd, At(efd))
    /\ UNCHANGED <<efd, esock, etid, arg, g_map_lock, g_flag_thread, files, worker>>

(* map::insert: no effect when a record is already there. A Host header    *)
(* may name nothing.                                                       *)
Insert ==
    /\ ELGoto("insert", "reset")
    /\ \E name \in {"", "name"} :
          Put(efd, IF Found(efd) THEN g_accept_map[efd]
                   ELSE [DefaultClient EXCEPT !.accept_fd = efd, !.connect_name = name])
    /\ UNCHANGED <<efd, esock, etid, arg, g_map_lock, overtaken, g_flag_thread, files, worker>>

(* Mutant: g_flag_thread is not reset for the next thread.                 *)
ResetFlag_Kept ==
    /\ ELGoto("reset", "create")
    /\ arg' = efd
    /\ UNCHANGED <<efd, esock, etid, g_map_lock, overtaken, g_flag_thread, g_accept_map, files, worker>>

(* add_connect_map: the call puts fd in its stack slot, g_flag_thread = 0. *)
ResetFlag ==
    /\ ELGoto("reset", "create")
    /\ arg' = efd
    /\ g_flag_thread' = 0
    /\ UNCHANGED <<efd, esock, etid, g_map_lock, overtaken, g_accept_map, files, worker>>

(* pthread_create under g_map_lock; it fails when no thread slot is left,  *)
(* which the code only logs.                                               *)
CreateThread ==
    /\ ELGoto("create", "spin")
    /\ ~g_map_lock
    /\ \/ \E w \in Workers : /\ pc[w] = "free"
                             /\ pc' = [pc EXCEPT ![w] = "arg"]
                             /\ Put(efd, [At(efd) EXCEPT !.thread_id = w])
       \/ /\ \A w \in Workers : pc[w] # "free"
          /\ pc' = pc
          /\ Put(efd, At(efd))
    /\ UNCHANGED <<efd, esock, etid, arg, g_map_lock, overtaken, g_flag_thread, files, fd, connect_fd,
                   cancelled>>

(* while (0 == g_flag_thread) usleep(1000): left as soon as the flag is    *)
(* seen, wherever the worker is by then. Leaving the function ends the     *)
(* life of the slot the thread's argument points to.                       *)
LeaveSpin ==
    /\ ELGoto("spin", "wait")
    /\ g_flag_thread = 1
    /\ efd' = NoFd /\ arg' = NoFd
    /\ UNCHANGED <<esock, etid, g_map_lock, overtaken, g_flag_thread, g_accept_map, files, worker>>
----------------------------------------------------------------------------
(* Teardown: close the client, del_connect_map, thread_quit, erase.        *)

CloseClient ==
    /\ ELGoto("close", "lookup")
    /\ Close(efd)
    /\ UNCHANGED <<efd, esock, etid, arg, g_map_lock, overtaken, g_flag_thread, g_accept_map, worker>>

LookupRecord ==
    /\ epc = "lookup"
    /\ ~g_map_lock
    /\ \/ /\ ~Found(efd)
          /\ epc' = "erase"
          /\ UNCHANGED <<esock, g_map_lock>>
       \/ /\ Found(efd)
          /\ epc' = "closefd"
          /\ g_map_lock' = TRUE
          /\ esock' = g_accept_map[efd].connect_fd
    /\ UNCHANGED <<efd, etid, arg, overtaken, g_flag_thread, g_accept_map, files, worker>>

CloseConnectFd ==
    /\ ELGoto("closefd", "quit")
    /\ Close(esock)
    /\ esock' = NoFd
    /\ UNCHANGED <<efd, etid, arg, g_map_lock, overtaken, g_flag_thread, g_accept_map, worker>>

(* Mutant: only the thread of a connected session is stopped.              *)
QuitThread_IfConnected ==
    /\ epc = "quit"
    /\ Put(efd, At(efd))
    /\ IF At(efd).flag = MAP_CONNECT_SUCCESS
       THEN epc' = "kill" /\ etid' = At(efd).thread_id /\ UNCHANGED g_map_lock
       ELSE epc' = "erase" /\ g_map_lock' = FALSE /\ UNCHANGED etid
    /\ overtaken' = (overtaken \/ (At(efd).flag = 0 /\ Unfinished(efd)))
    /\ UNCHANGED <<efd, esock, arg, g_flag_thread, files, worker>>

(* 0 != flag: thread_quit(thread_id), else the thread is left alone, even  *)
(* if it is there and has not yet marked the record.                       *)
QuitThread ==
    /\ epc = "quit"
    /\ Put(efd, At(efd))
    /\ IF At(efd).flag # 0
       THEN epc' = "kill" /\ etid' = At(efd).thread_id /\ UNCHANGED <<g_map_lock, overtaken>>
       ELSE /\ epc' = "erase" /\ g_map_lock' = FALSE /\ UNCHANGED etid
            /\ overtaken' = (overtaken \/ Unfinished(efd))
    /\ UNCHANGED <<efd, esock, arg, g_flag_thread, files, worker>>

(* The threads an id can mean: an unwritten one may hold any bits.         *)
Denoted(t) == IF t \in Workers THEN {t} ELSE Workers

(* pthread_kill(id, 0) or pthread_cancel says the thread is gone. Whether  *)
(* an exited thread that was not joined counts as gone depends on libc.    *)
NothingToCancel ==
    /\ ELGoto("kill", "erase")
    /\ etid \in Workers => ~Live(etid)
    /\ etid' = Unset
    /\ g_map_lock' = FALSE
    /\ UNCHANGED <<efd, esock, arg, overtaken, g_flag_thread, g_accept_map, files, worker>>

(* Mutant: pthread_cancel without pthread_join.                            *)
CancelThread_NoJoin ==
    /\ ELGoto("kill", "erase")
    /\ \E w \in Denoted(etid) : pc[w] # "free" /\ cancelled' = cancelled \cup {w}
    /\ etid' = Unset
    /\ g_map_lock' = FALSE
    /\ UNCHANGED <<efd, esock, arg, overtaken, g_flag_thread, g_accept_map, files, pc, fd, connect_fd>>

(* Mutant: the thread is joined without being cancelled.                   *)
CancelThread_OnlyJoin ==
    /\ ELGoto("kill", "join")
    /\ \E w \in Denoted(etid) : pc[w] # "free" /\ etid' = w
    /\ g_map_lock' = FALSE
    /\ UNCHANGED <<efd, esock, arg, overtaken, g_flag_thread, g_accept_map, files, worker>>

CancelThread ==
    /\ ELGoto("kill", "join")
    /\ \E w \in Denoted(etid) : /\ pc[w] # "free"
                                /\ etid' = w
                                /\ cancelled' = cancelled \cup {w}
    /\ g_map_lock' = FALSE
    /\ UNCHANGED <<efd, esock, arg, overtaken, g_flag_thread, g_accept_map, files, pc, fd, connect_fd>>

(* Mutant: pthread_join compiled out, as it is where __linux__ is not set. *)
JoinThread_NoWait ==
    /\ ELGoto("join", "erase")
    /\ etid' = Unset
    /\ UNCHANGED <<efd, esock, arg, g_map_lock, overtaken, g_flag_thread, g_accept_map, files, worker>>

(* pthread_join returns once the thread has exited, and frees its slot;    *)
(* the lock is taken again and released.                                   *)
JoinThread ==
    /\ ELGoto("join", "erase")
    /\ pc[etid] = "exited"
    /\ pc' = [pc EXCEPT ![etid] = "free"]
    /\ cancelled' = cancelled \ {etid}
    /\ etid' = Unset
    /\ UNCHANGED <<efd, esock, arg, g_map_lock, overtaken, g_flag_thread, g_accept_map, files, fd,
                   connect_fd>>

EraseRecord ==
    /\ ELGoto("erase", "wait")
    /\ Put(efd, NoClient)
    /\ efd' = NoFd
    /\ UNCHANGED <<esock, etid, arg, g_map_lock, overtaken, g_flag_thread, files, worker>>
----------------------------------------------------------------------------
(* A worker: thread_process, then connect_target(fd, 0).                   *)

WGoto(w, from, to) == pc[w] = from /\ pc' = [pc EXCEPT ![w] = to]

(* Mutant: threads are detached, so an exited one's id may be given again. *)
Exit_Detached(w, from) ==
    /\ WGoto(w, from, "free")
    /\ fd' = [fd EXCEPT ![w] = NoFd]
    /\ connect_fd' = [connect_fd EXCEPT ![w] = NoFd]

(* The thread function returns or is cancelled: its locals are gone.       *)
Exit(w, from) ==
    /\ WGoto(w, from, "exited")
    /\ fd' = [fd EXCEPT ![w] = NoFd]
    /\ connect_fd' = [connect_fd EXCEPT ![w] = NoFd]

(* connect, send, recv and close act on a pending cancel when called.      *)
Uncancelled(w) == w \notin cancelled

ReadArg(w) ==
    /\ WGoto(w, "arg", "setflag")
    /\ fd' = [fd EXCEPT ![w] = arg]
    /\ UNCHANGED <<eventLoop, g_flag_thread, g_accept_map, files, connect_fd, cancelled>>

SetFlagThread(w) ==
    /\ WGoto(w, "setflag", "find")
    /\ g_flag_thread' = 1
    /\ UNCHANGED <<eventLoop, g_accept_map, files, fd, connect_fd, cancelled>>

FindRecord(w) ==
    /\ pc[w] = "find"
    /\ IF Found(fd[w]) THEN WGoto(w, "find", "mark") /\ UNCHANGED <<fd, connect_fd>>
                       ELSE Exit(w, "find")
    /\ UNCHANGED <<eventLoop, g_flag_thread, g_accept_map, files, cancelled>>

MarkCreated(w) ==
    /\ WGoto(w, "mark", "target")
    /\ SetFlag(fd[w], MAP_CREATE_THREAD)
    /\ UNCHANGED <<eventLoop, g_flag_thread, files, fd, connect_fd, cancelled>>

(* connect_port and connect_ip are read; a known address is used as it is. *)
ReadTarget(w) ==
    /\ WGoto(w, "target", IF At(fd[w]).connect_ip = "" THEN "name" ELSE "socket")
    /\ Put(fd[w], At(fd[w]))
    /\ UNCHANGED <<eventLoop, g_flag_thread, files, fd, connect_fd, cancelled>>

(* The name goes to get_ip_addr, which does not look at the record again.  *)
ReadName(w) ==
    /\ WGoto(w, "name", IF At(fd[w]).connect_name = "" THEN "noname" ELSE "resolve")
    /\ Put(fd[w], At(fd[w]))
    /\ UNCHANGED <<eventLoop, g_flag_thread, files, fd, connect_fd, cancelled>>

(* The address goes into whatever record is under the key by now.          *)
Resolved(w) ==
    /\ WGoto(w, "resolve", "socket")
    /\ Put(fd[w], [At(fd[w]) EXCEPT !.connect_ip = "ip"])
    /\ UNCHANGED <<eventLoop, g_flag_thread, files, fd, connect_fd, cancelled>>

(* An empty name never resolves.                                           *)
ResolveFails(w) ==
    /\ \E from \in {"resolve", "noname"} : Exit(w, from)
    /\ SetFlag(fd[w], MAP_CONNECT_FAILED)
    /\ UNCHANGED <<eventLoop, g_flag_thread, files, cancelled>>

OpenSocket(w) ==
    /\ WGoto(w, "socket", "store")
    /\ \E k \in Fds : /\ Lowest(k)
                      /\ files' = [files EXCEPT ![k] = w]
                      /\ connect_fd' = [connect_fd EXCEPT ![w] = k]
    /\ UNCHANGED <<eventLoop, g_flag_thread, g_accept_map, fd, cancelled>>

(* tf_socket returns -1: the record keeps its connect_fd.                  *)
SocketFails(w) ==
    /\ Exit(w, "socket")
    /\ SetFlag(fd[w], MAP_CONNECT_FAILED)
    /\ UNCHANGED <<eventLoop, g_flag_thread, files, cancelled>>

(* socket_keepalive fails: the new socket is closed, the record gets       *)
(* connect_fd = -1 and then the flag.                                      *)
KeepaliveFails(w) ==
    /\ WGoto(w, "store", "kclose")
    /\ UNCHANGED <<eventLoop, g_flag_thread, g_accept_map, files, fd, connect_fd, cancelled>>

CloseUnkept(w) ==
    /\ WGoto(w, "kclose", "kunset")
    /\ Uncancelled(w)
    /\ Close(connect_fd[w])
    /\ connect_fd' = [connect_fd EXCEPT ![w] = NoFd]
    /\ UNCHANGED <<eventLoop, g_flag_thread, g_accept_map, fd, cancelled>>

UnsetUnkept(w) ==
    /\ WGoto(w, "kunset", "kfailed")
    /\ Put(fd[w], [At(fd[w]) EXCEPT !.connect_fd = NoFd])
    /\ UNCHANGED <<eventLoop, g_flag_thread, files, fd, connect_fd, cancelled>>

MarkUnkept(w) ==
    /\ Exit(w, "kfailed")
    /\ SetFlag(fd[w], MAP_CONNECT_FAILED)
    /\ UNCHANGED <<eventLoop, g_flag_thread, files, cancelled>>

StoreConnectFd(w) ==
    /\ WGoto(w, "store", "connect")
    /\ Put(fd[w], [At(fd[w]) EXCEPT !.connect_fd = connect_fd[w]])
    /\ UNCHANGED <<eventLoop, g_flag_thread, files, fd, connect_fd, cancelled>>

(* Mutant: the session is never marked connected.                          *)
Connected_Unmarked(w) ==
    /\ WGoto(w, "connect", "reply")
    /\ Uncancelled(w)
    /\ UNCHANGED <<eventLoop, g_flag_thread, g_accept_map, files, fd, connect_fd, cancelled>>

Connected(w) ==
    /\ WGoto(w, "connect", "check")
    /\ Uncancelled(w)
    /\ UNCHANGED <<eventLoop, g_flag_thread, g_accept_map, files, fd, connect_fd, cancelled>>

ConnectFails(w) ==
    /\ WGoto(w, "connect", "cfail")
    /\ Uncancelled(w)
    /\ UNCHANGED <<eventLoop, g_flag_thread, g_accept_map, files, fd, connect_fd, cancelled>>

CloseFailed(w) ==
    /\ WGoto(w, "cfail", "failed")
    /\ Uncancelled(w)
    /\ Close(connect_fd[w])
    /\ connect_fd' = [connect_fd EXCEPT ![w] = NoFd]
    /\ UNCHANGED <<eventLoop, g_flag_thread, g_accept_map, fd, cancelled>>

(* Mutant: a failed connect leaves the flag as it is.                      *)
MarkFailed_Silent(w) ==
    /\ pc[w] = "failed"
    /\ IF Found(fd[w]) THEN WGoto(w, "failed", "unset") /\ UNCHANGED <<fd, connect_fd>>
                       ELSE Exit(w, "failed")
    /\ UNCHANGED <<eventLoop, g_flag_thread, g_accept_map, files, cancelled>>

MarkFailed(w) ==
    /\ pc[w] = "failed"
    /\ IF Found(fd[w])
       THEN WGoto(w, "failed", "unset") /\ SetFlag(fd[w], MAP_CONNECT_FAILED)
                                     /\ UNCHANGED <<fd, connect_fd>>
       ELSE Exit(w, "failed") /\ UNCHANGED g_accept_map
    /\ UNCHANGED <<eventLoop, g_flag_thread, files, cancelled>>

(* connect_fd = -1, after the flag and in a step of its own.               *)
UnsetConnectFd(w) ==
    /\ \E from \in {"unset", "clear"} : Exit(w, from)
    /\ Put(fd[w], [At(fd[w]) EXCEPT !.connect_fd = NoFd])
    /\ UNCHANGED <<eventLoop, g_flag_thread, files, cancelled>>

MarkSuccess(w) ==
    /\ WGoto(w, "check", "reply")
    /\ Found(fd[w])
    /\ SetFlag(fd[w], MAP_CONNECT_SUCCESS)
    /\ UNCHANGED <<eventLoop, g_flag_thread, files, fd, connect_fd, cancelled>>

(* connected, but the record is gone                                       *)
RecordGone(w) ==
    /\ Exit(w, "check")
    /\ ~Found(fd[w])
    /\ Uncancelled(w)
    /\ Close(connect_fd[w])
    /\ UNCHANGED <<eventLoop, g_flag_thread, g_accept_map, cancelled>>

(* The 200 reply to the client or the stored request to the target; it     *)
(* blocks while the peer does not read.                                    *)
FirstSend(w) ==
    /\ WGoto(w, "reply", "recv")
    /\ Uncancelled(w)
    /\ UNCHANGED <<eventLoop, g_flag_thread, g_accept_map, files, fd, connect_fd, cancelled>>

(* recv returned len <= 0. What it returns before that goes to the client  *)
(* and changes nothing here.                                               *)
TargetGone(w) ==
    /\ WGoto(w, "recv", "rclose")
    /\ Uncancelled(w)
    /\ UNCHANGED <<eventLoop, g_flag_thread, g_accept_map, files, fd, connect_fd, cancelled>>

CloseLost(w) ==
    /\ WGoto(w, "rclose", "lost")
    /\ Uncancelled(w)
    /\ Close(connect_fd[w])
    /\ connect_fd' = [connect_fd EXCEPT ![w] = NoFd]
    /\ UNCHANGED <<eventLoop, g_flag_thread, g_accept_map, fd, cancelled>>

MarkReconnect(w) ==
    /\ pc[w] = "lost"
    /\ IF Found(fd[w])
       THEN WGoto(w, "lost", "clear") /\ SetFlag(fd[w], MAP_RECONNECT)
                                     /\ UNCHANGED <<fd, connect_fd>>
       ELSE Exit(w, "lost") /\ UNCHANGED g_accept_map
    /\ UNCHANGED <<eventLoop, g_flag_thread, files, cancelled>>

(* Where a pending cancel takes effect: the blocking calls, close, and the *)
(* log writes before them. There is none between socket() and the store,   *)
(* unless socket_keepalive fails.                                          *)
CancelPoint == {"noname", "resolve", "socket", "kclose", "connect", "cfail", "check",
                "reply", "recv", "rclose"}

DieCancelled(w) ==
    /\ w \in cancelled
    /\ \E from \in CancelPoint : Exit(w, from)
    /\ UNCHANGED <<eventLoop, g_flag_thread, g_accept_map, files, cancelled>>
----------------------------------------------------------------------------
(* The steps of the event loop that end by themselves.                     *)
EventLoopStep ==
    \/ ForwardRead \/ Reconnect \/ Insert
    \/ ResetFlag \/ CreateThread \/ LeaveSpin
    \/ CloseClient \/ LookupRecord \/ CloseConnectFd \/ QuitThread
    \/ NothingToCancel \/ CancelThread \/ JoinThread \/ EraseRecord

Event ==
    \/ Accept
    \/ \E f \in Fds : ClientGone(f)
    \/ \E f \in Fds, m \in Messages : process_msg(f, m)

(* Its sends to peers that may never read again.                           *)
EventLoopSend == ReplySend \/ ForwardSend

(* The steps of a worker that the scheduler or the kernel is bound to      *)
(* finish: connect times out, a resolver gives up, a cancel is acted on.   *)
WorkerStep(w) ==
    \/ ReadArg(w) \/ SetFlagThread(w) \/ FindRecord(w) \/ MarkCreated(w) \/ ReadTarget(w)
    \/ ReadName(w) \/ Resolved(w) \/ ResolveFails(w) \/ OpenSocket(w) \/ SocketFails(w)
    \/ KeepaliveFails(w) \/ CloseUnkept(w) \/ UnsetUnkept(w) \/ MarkUnkept(w)
    \/ StoreConnectFd(w) \/ Connected(w) \/ ConnectFails(w)
    \/ CloseFailed(w) \/ MarkFailed(w) \/ UnsetConnectFd(w) \/ MarkSuccess(w)
    \/ RecordGone(w) \/ CloseLost(w) \/ MarkReconnect(w) \/ DieCancelled(w)

(* What waits for a peer: a client or a target that does not read, a       *)
(* target that stays connected and silent.                                 *)
WorkerWait(w) == FirstSend(w) \/ TargetGone(w)

Next ==
    \/ EventLoopStep \/ EventLoopSend
    \/ Event
    \/ \E w \in Workers : WorkerStep(w) \/ WorkerWait(w)

Spec == Init /\ [][Next]_vars

FairSpec == Spec /\ WF_vars(EventLoopStep) /\ \A w \in Workers : WF_vars(WorkerStep(w))
----------------------------------------------------------------------------
(* Every variable has its type.                                            *)
TypeOK ==
    /\ epc \in EventLoopPc
    /\ efd \in Fds \cup {NoFd}
    /\ esock \in Fds \cup {NoFd}
    /\ etid \in Workers \cup {Unset}
    /\ arg \in Fds \cup {NoFd}
    /\ g_flag_thread \in {0, 1}
    /\ g_map_lock \in BOOLEAN
    /\ overtaken \in BOOLEAN
    /\ g_accept_map \in [Fds -> MapClient \cup {NoClient}]
    /\ files \in [Fds -> {"free", "client"} \cup Workers]
    /\ pc \in [Workers -> WorkerPc]
    /\ fd \in [Workers -> Fds \cup {NoFd}]
    /\ connect_fd \in [Workers -> Fds \cup {NoFd}]
    /\ cancelled \subseteq Workers

(* While a worker has not yet copied its argument, add_connect_map has not *)
(* returned: the stack slot &fd points to still holds the descriptor of    *)
(* the session the worker was created for, and that session's record       *)
(* exists and names this thread.                                           *)
HandshakeSafe ==
    \A w \in Workers : pc[w] = "arg" =>
        /\ epc = "spin" /\ arg \in Fds
        /\ Found(arg) /\ g_accept_map[arg].thread_id = w
----------------------------------------------------------------------------
(* The event loop overtakes a worker in two places: it tears a session     *)
(* down whose flag is still 0 without stopping the worker (897), and it    *)
(* restarts a session 1 ms after its worker announced its end (171). Until *)
(* it has done one of the two, the following holds of every behaviour.     *)

(* A worker that has read its argument works on a record that exists and   *)
(* names it as its thread: teardown waits for the worker, so operator[]    *)
(* never finds the record gone and the join never hits another thread.     *)
LiveWorkerOwnsRecord ==
    ~overtaken =>
        \A w \in Workers : Live(w) /\ pc[w] # "arg" =>
            Found(fd[w]) /\ g_accept_map[fd[w]].thread_id = w

(* The worker has said that it runs and has not yet marked its record.     *)
Beginning == {"find", "mark"}

Connecting == {"target", "name", "noname", "resolve", "socket", "store", "kclose", "kunset",
               "kfailed", "connect", "cfail", "failed", "check"}

Relaying == {"reply", "recv", "rclose", "lost"}

(* Outside the event loop's work on it, a record's flag says what its      *)
(* worker does: no session waits for a worker that is gone (0, 2), relays  *)
(* without one (10), or ends beside one that still works (1, 3). A session *)
(* just started (0) or restarted (3) has a worker that will mark it.       *)
FlagTracksWorker ==
    ~overtaken =>
        \A f \in Fds : Found(f) /\ efd # f =>
            LET client == g_accept_map[f]
                at == pc[client.thread_id]
            IN
            /\ client.thread_id \in Workers
            /\ CASE client.flag = 0                   -> at \in Beginning
                 [] client.flag = MAP_CREATE_THREAD   -> at \in Connecting
                 [] client.flag = MAP_CONNECT_SUCCESS -> at \in Relaying
                 [] client.flag = MAP_CONNECT_FAILED  -> at \in {"unset", "exited"}
                 [] client.flag = MAP_RECONNECT       -> at \in Beginning \cup {"clear", "exited"}

(* No record was ever made by operator[] under a key that had been erased. *)
NoDefaultRecord ==
    ~overtaken => \A f \in Fds : Found(f) => g_accept_map[f].accept_fd = f

(* The session a record stands for, and the threads that serve it: those   *)
(* that work on its key, the one being started included.                   *)
SessionOf(f) ==
    IF ~Found(f) THEN "none"
    ELSE CASE g_accept_map[f].flag = 0                   -> "starting"
           [] g_accept_map[f].flag = MAP_CREATE_THREAD   -> "connecting"
           [] g_accept_map[f].flag = MAP_CONNECT_SUCCESS -> "up"
           [] g_accept_map[f].flag = MAP_CONNECT_FAILED  -> "failed"
           [] g_accept_map[f].flag = MAP_RECONNECT       -> "lost"

ServersOf(f) == {w \in Workers : Live(w) /\ f = IF pc[w] = "arg" THEN arg ELSE fd[w]}

(* thread_quit is given the thread of the session that is torn down, whose *)
(* id is still good because nobody has joined it: no other session's       *)
(* thread is cancelled or waited for, a thread that is cancelled is joined *)
(* next, and only one that is cancelled is waited for.                     *)
QuitsOwnThread ==
    ~overtaken =>
        /\ epc \in {"kill", "join"} =>
            /\ etid \in Workers /\ pc[etid] # "free"
            /\ ServersOf(efd) \subseteq {etid}
            /\ \A f \in Fds \ {efd} :
                /\ etid \notin ServersOf(f)
                /\ Found(f) => g_accept_map[f].thread_id # etid
        /\ cancelled = IF epc = "join" THEN {etid} ELSE {}

Sessions == INSTANCE Session
    WITH session <- [f \in Fds |-> SessionOf(f)],
         servers <- [f \in Fds |-> ServersOf(f)],
         abandoned <- overtaken

(* Event loop and workers together implement the session of each client.   *)
ImplementsSession == Sessions!Spec

(* add_connect_map spins for ever once pthread_create has failed.          *)
CreateFailed ==
    epc = "spin" /\ g_flag_thread = 0 /\ \A w \in Workers : pc[w] \notin {"arg", "setflag"}

(* Whatever the event loop does for one client, it returns to epoll_wait   *)
(* for the others, or waits in a send to a peer that does not read: a join *)
(* (863) never waits for a silent target, nor a creation for the worker.   *)
HandlerReturns == (epc # "wait") ~> (epc \in {"wait", "reply", "send"} \/ CreateFailed)

(* A session does not stay connecting: it comes up, fails or is closed.    *)
ConnectingEnds ==
    \A f \in Fds :
        (SessionOf(f) = "connecting") ~> (SessionOf(f) # "connecting" \/ overtaken)
----------------------------------------------------------------------------
(* What the comments say and the code does not do.                         *)

(* process_map.cpp, usleep(1000) "wait thread exit": when a lost session   *)
(* is restarted, its old worker has exited.                                *)
OldWorkerExited ==
    epc = "reset" /\ At(efd).flag = MAP_RECONNECT => ~Unfinished(efd)

(* process_map.h, flag "0 - unuse": a session that is torn down with flag  *)
(* 0, whose thread del_connect_map leaves alone, is used by none.          *)
UnusedHasNoWorker == epc = "quit" /\ At(efd).flag = 0 => ~Unfinished(efd)

(* process_map.h, connect_fd "map --- remote fd": the number in a record   *)
(* is never that of a client's socket.                                     *)
ConnectFdIsRemote ==
    \A f \in Fds : Found(f) /\ g_accept_map[f].connect_fd # NoFd
                  => files[g_accept_map[f].connect_fd] # "client"
=============================================================================
