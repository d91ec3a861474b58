------------------------------ MODULE Startup ------------------------------
(***************************************************************************)
(* Programs starting on one machine: main of tfmap.cpp from the single     *)
(* instance check to the listening socket of TFMap::start.                 *)
(*                                                                         *)
(* Process numbers are 1..MaxPid. A number is given to a program when it   *)
(* starts, to the child that daemon() forks, and is free again afterwards; *)
(* a child's number is greater than its parent's (the kernel's counter     *)
(* does not wrap during one start), and /proc is read in ascending order.  *)
(* Newer kernels list thread-self before the numbers: the program that     *)
(* reads it, under a name that is not skipped (87 and 88).                 *)
(***************************************************************************)
EXTENDS Naturals

CONSTANTS
    MaxPid,
    Names,      \* the argv[0] that programs are started with
    Confs       \* what GetStr returns for the keys main asks for

Conf == [switch : {"", "on", "off"},       \* [module] tfmap
         listen_ip : {"", "ip"},
         listen_port : {"", "number", "text"},
         username : {"", "user"},
         password : {"", "secret"}]

ASSUME MaxPidAssumption == MaxPid \in Nat
ASSUME ConfsAssumption == Confs \subseteq Conf

Pids == 1..MaxPid

VARIABLES
    thread_self, \* the kernel has /proc/thread-self; never changes
    spc,         \* process -> where main is, "none" when there is no process
    argv0,       \* process -> what /proc/<pid>/cmdline begins with
    flag_daemon, \* process -> started with -d and not forked yet
    looked,      \* process -> how far is_prog_run has read /proc
    tf_map_config,
    listener     \* the process whose socket is bound to the address, or 0

startVars == <<thread_self, spc, argv0, flag_daemon, looked, tf_map_config, listener>>

PROC_NAME == "tfmap"

NoConf == [switch |-> "", listen_ip |-> "", listen_port |-> "", username |-> "", password |-> ""]

StartPc == {"none", "scan", "refused", "daemon", "parent", "config", "limit", "thread", "listen",
            "idle", "serving"}

Init ==
    /\ thread_self \in BOOLEAN
    /\ spc = [p \in Pids |-> "none"]
    /\ argv0 = [p \in Pids |-> PROC_NAME]
    /\ flag_daemon = [p \in Pids |-> FALSE]
    /\ looked = [p \in Pids |-> 0]
    /\ tf_map_config = [p \in Pids |-> NoConf]
    /\ listener = 0

SGoto(p, from, to) ==
    spc[p] = from /\ spc' = [spc EXCEPT ![p] = to] /\ UNCHANGED thread_self

(* The process ends, and the kernel closes its sockets.                    *)
Gone(p) ==
    /\ spc' = [spc EXCEPT ![p] = "none"]
    /\ tf_map_config' = [tf_map_config EXCEPT ![p] = NoConf]
    /\ listener' = IF listener = p THEN 0 ELSE listener
    /\ argv0' = [argv0 EXCEPT ![p] = PROC_NAME]
    /\ flag_daemon' = [flag_daemon EXCEPT ![p] = FALSE]
    /\ looked' = [looked EXCEPT ![p] = 0]
    /\ UNCHANGED thread_self

Run(p) ==
    /\ SGoto(p, "none", "scan")
    /\ \E n \in Names : argv0' = [argv0 EXCEPT ![p] = n]
    /\ \E d \in BOOLEAN : flag_daemon' = [flag_daemon EXCEPT ![p] = d]
    /\ UNCHANGED <<looked, tf_map_config, listener>>

(* Killed, or stopped by the user.                                         *)
Killed(p) == spc[p] # "none" /\ Gone(p)
----------------------------------------------------------------------------
(* is_prog_run: one entry of /proc at a time, other processes come and go  *)
(* between two entries.                                                    *)

IsProg(k) == spc[k] # "none" /\ argv0[k] = PROC_NAME

Entry(p) == looked[p] + 1

(* Mutant: processes younger than the program itself are skipped too.      *)
Refuses_OlderOnly(p) == Entry(p) < p /\ IsProg(Entry(p))

(* /proc/thread-self comes first.                                          *)
SeesItself(p) == thread_self /\ looked[p] = 0 /\ IsProg(p)

Refuses(p) == SeesItself(p) \/ (Entry(p) # p /\ IsProg(Entry(p)))

FoundRunning(p) ==
    /\ SGoto(p, "scan", "refused")
    /\ Entry(p) \in Pids
    /\ Refuses(p)
    /\ looked' = [looked EXCEPT ![p] = 0]
    /\ UNCHANGED <<argv0, flag_daemon, tf_map_config, listener>>

Refused(p) == spc[p] = "refused" /\ Gone(p)

LookFurther(p) ==
    /\ spc[p] = "scan" /\ Entry(p) \in Pids
    /\ ~Refuses(p)
    /\ looked' = [looked EXCEPT ![p] = Entry(p)]
    /\ UNCHANGED <<thread_self, spc, argv0, flag_daemon, tf_map_config, listener>>

NotRunning(p) ==
    /\ SGoto(p, "scan", IF flag_daemon[p] THEN "daemon" ELSE "config")
    /\ looked[p] = MaxPid
    /\ looked' = [looked EXCEPT ![p] = 0]
    /\ UNCHANGED <<argv0, flag_daemon, tf_map_config, listener>>

(* daemon(0, 1): the child goes on, the parent is about to exit. When fork *)
(* fails the program goes on in the foreground: nobody looks at the result.*)
daemon(p) ==
    /\ spc[p] = "daemon"
    /\ \/ \E c \in Pids :
              /\ c > p /\ spc[c] = "none"
              /\ spc' = [spc EXCEPT ![p] = "parent", ![c] = "config"]
              /\ argv0' = [argv0 EXCEPT ![c] = argv0[p]]
       \/ /\ spc' = [spc EXCEPT ![p] = "config"]
          /\ UNCHANGED argv0
    /\ flag_daemon' = [flag_daemon EXCEPT ![p] = FALSE]
    /\ UNCHANGED <<thread_self, looked, tf_map_config, listener>>

ParentExits(p) == spc[p] = "parent" /\ Gone(p)
----------------------------------------------------------------------------
(* The switch, the address, and both credentials or neither.               *)
Complete(c) ==
    /\ c.switch = "on"
    /\ c.listen_ip # "" /\ c.listen_port # ""
    /\ ~(c.username = "" /\ c.password # "")
    /\ ~(c.username # "" /\ c.password = "")

(* CIni reads the file; NoConf is a file it could not open.                *)
LoadConf(p) ==
    \E c \in Confs \cup {NoConf} :
        /\ Complete(c)
        /\ SGoto(p, "config", "limit")
        /\ tf_map_config' = [tf_map_config EXCEPT ![p] = c]
        /\ UNCHANGED <<argv0, flag_daemon, looked, listener>>

(* No config file, one that is not complete, or one that OpenFile throws   *)
(* on: the program ends.                                                   *)
BadConf(p) ==
    /\ spc[p] = "config"
    /\ \E c \in Confs \cup {NoConf} : ~Complete(c)
    /\ Gone(p)

(* setrlimit(RLIMIT_NOFILE)                                                *)
SetLimit(p) ==
    /\ SGoto(p, "limit", "thread")
    /\ UNCHANGED <<argv0, flag_daemon, looked, tf_map_config, listener>>

LimitFails(p) == spc[p] = "limit" /\ Gone(p)

(* pthread_create(map_thread_process); main then sleeps for ever.          *)
CreateMapThread(p) ==
    /\ SGoto(p, "thread", "listen")
    /\ UNCHANGED <<argv0, flag_daemon, looked, tf_map_config, listener>>

MapThreadFails(p) == spc[p] = "thread" /\ Gone(p)

(* listen_for_client and the start of TFMap::start. stoi throws when the   *)
(* port is no number, which ends the process.                              *)
ListenThrows(p) ==
    /\ spc[p] = "listen"
    /\ tf_map_config[p].listen_port = "text"
    /\ Gone(p)

Listen(p) ==
    /\ SGoto(p, "listen", "serving")
    /\ tf_map_config[p].listen_port # "text"
    /\ listener = 0
    /\ listener' = p
    /\ UNCHANGED <<argv0, flag_daemon, looked, tf_map_config>>

(* socket, bind, listen, epoll_create or the timer thread failed: start    *)
(* returns, map_thread_process drops the result, main goes on sleeping.    *)
ListenFails(p) ==
    /\ SGoto(p, "listen", "idle")
    /\ UNCHANGED <<argv0, flag_daemon, looked, tf_map_config, listener>>
----------------------------------------------------------------------------
Next ==
    \E p \in Pids :
        \/ Run(p) \/ Killed(p)
        \/ FoundRunning(p) \/ Refused(p) \/ LookFurther(p) \/ NotRunning(p)
        \/ daemon(p) \/ ParentExits(p)
        \/ LoadConf(p) \/ BadConf(p) \/ SetLimit(p) \/ LimitFails(p)
        \/ CreateMapThread(p) \/ MapThreadFails(p)
        \/ ListenThrows(p) \/ Listen(p) \/ ListenFails(p)

Spec == Init /\ [][Next]_startVars
----------------------------------------------------------------------------
StartTypeOK ==
    /\ thread_self \in BOOLEAN
    /\ spc \in [Pids -> StartPc]
    /\ argv0 \in [Pids -> Names \cup {PROC_NAME}]
    /\ flag_daemon \in [Pids -> BOOLEAN]
    /\ looked \in [Pids -> 0..MaxPid]
    /\ tf_map_config \in [Pids -> Conf]
    /\ listener \in Pids \cup {0}

(* main is past the check and has not handed over to a child.              *)
PastCheck(p) == spc[p] \notin {"none", "scan", "refused", "parent"}

(* is_prog_run: of the programs whose argv[0] is "tfmap", at most one is   *)
(* past the check, whatever comes, goes and forks while others look.       *)
OneProgram ==
    \A p, q \in Pids : PastCheck(p) /\ PastCheck(q) /\ IsProg(p) /\ IsProg(q) => p = q
=============================================================================
