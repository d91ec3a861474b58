------------------------------ MODULE DnsCache ------------------------------
(***************************************************************************)
(* How workers find the address of their target: connect_ip of the         *)
(* session's record first, then g_dns_map, which all workers share without *)
(* a lock, then the resolver (get_ip_addr and hostname_to_ip). A resolver  *)
(* may answer differently each time it is asked.                           *)
(*                                                                         *)
(* A client may leave at any time: its worker is cancelled, joined and the *)
(* record erased. Two things leave a worker running that nobody joins: the *)
(* client leaves before the worker has marked the record (897), or writes  *)
(* again before a restarted worker has marked it (169). From there on two  *)
(* workers may use one record, and the name that get_ip_addr was called    *)
(* with may be gone; the behaviour is then "overtaken" and ends here.      *)
(***************************************************************************)
EXTENDS Integers, Sequences

CONSTANTS
    Workers,    \* sessions, each with the one worker it has
    Names,      \* names of targets
    Literals,   \* those that are IPv4 addresses, for which is_ip returns 0
    V4, Other,  \* addresses getnameinfo writes as IPv4, and the rest (cut to 16 bytes)
    Lists,      \* the address lists that getaddrinfo may return
    Unnamed,    \* an entry of such a list that getnameinfo fails on
    NoEntry     \* "no entry in g_dns_map"

ASSUME DnsAssumption ==
    /\ Literals \subseteq Names \cap V4
    /\ Lists \subseteq Seq(V4 \cup Other \cup {Unnamed})
    /\ NoEntry \notin V4 \cup Other \cup {""}

VARIABLES
    pc,           \* where the worker is in connect_target; "idle": no session
    connect_name, \* of the session's record
    connect_ip,   \* of the session's record
    ip,           \* the worker's target_ip, which get_ip_addr and hostname_to_ip fill
    g_dns_map,
    known,        \* the address there was for the session when it last began to look
    answered,     \* every address that a resolver gave for a name
    overtaken     \* history: a worker has been left behind

vars == <<pc, connect_name, connect_ip, ip, g_dns_map, known, answered, overtaken>>
----------------------------------------------------------------------------
(* Where a worker's record has a flag, so that closing joins the worker.   *)
Marked == {"again", "target", "find", "copy", "resolve", "insert", "store", "connect",
           "up", "failed"}

(* What a record, a buffer or the cache can hold; "" is no address.         *)
Address == V4 \cup Other \cup {""}

Goto(w, from, to) == pc[w] = from /\ pc' = [pc EXCEPT ![w] = to] /\ UNCHANGED overtaken

(* Mutant: the first address is taken, written or not.                     *)
IsFirst_Unwritten(list, i) == i = 1

(* The first address in the list that getnameinfo can write.               *)
IsFirst(list, i) == list[i] # Unnamed /\ \A j \in 1..(i - 1) : list[j] = Unnamed

(* hostname_to_ip copies it to ip, and returns 0 whether there was one or  *)
(* not: what is in ip then is the "" it came with.                         *)
hostname_to_ip(list) ==
    IF \E i \in DOMAIN list : IsFirst(list, i)
    THEN list[CHOOSE i \in DOMAIN list : IsFirst(list, i)]
    ELSE ""

Init ==
    /\ pc = [w \in Workers |-> "idle"]
    /\ connect_name \in [Workers -> Names]
    /\ connect_ip = [w \in Workers |-> ""]
    /\ ip = [w \in Workers |-> ""]
    /\ g_dns_map = [n \in Names |-> NoEntry]
    /\ known = [w \in Workers |-> NoEntry]
    /\ answered = [n \in Names |-> {}]
    /\ overtaken = FALSE
----------------------------------------------------------------------------
(* A client's first request: a record with connect_ip = "" and flag 0.     *)
Open(w, n) ==
    /\ Goto(w, "idle", "begin")
    /\ connect_name' = [connect_name EXCEPT ![w] = n]
    /\ connect_ip' = [connect_ip EXCEPT ![w] = ""]
    /\ UNCHANGED <<ip, g_dns_map, known, answered>>

(* thread_process sets the flag; "again": the worker of a restart.         *)
Begin(w) ==
    /\ \E from \in {"begin", "again"} : Goto(w, from, "target")
    /\ UNCHANGED <<connect_name, connect_ip, ip, g_dns_map, known, answered>>

Known(w) == IF connect_ip[w] # "" THEN connect_ip[w] ELSE g_dns_map[connect_name[w]]

(* A session that has connected before goes to the same address again.     *)
ReadTarget(w) ==
    /\ Goto(w, "target", IF connect_ip[w] = "" THEN "find" ELSE "connect")
    /\ known' = [known EXCEPT ![w] = Known(w)]
    /\ ip' = [ip EXCEPT ![w] = connect_ip[w]]
    /\ UNCHANGED <<connect_name, connect_ip, g_dns_map, answered>>

(* is_ip: the name is the address.                                         *)
Literal(w) ==
    /\ Goto(w, "find", "store")
    /\ connect_name[w] \in Literals
    /\ ip' = [ip EXCEPT ![w] = connect_name[w]]
    /\ UNCHANGED <<connect_name, connect_ip, g_dns_map, known, answered>>

Found(w) == g_dns_map[connect_name[w]] # NoEntry

Find(w) ==
    /\ Goto(w, "find", IF Found(w) THEN "copy" ELSE "resolve")
    /\ connect_name[w] \notin Literals
    /\ UNCHANGED <<connect_name, connect_ip, ip, g_dns_map, known, answered>>

(* strcpy(ip, g_dns_map[name].ip.c_str()): entries are never removed.      *)
Copy(w) ==
    /\ Goto(w, "copy", "store")
    /\ ip' = [ip EXCEPT ![w] = g_dns_map[connect_name[w]]]
    /\ UNCHANGED <<connect_name, connect_ip, g_dns_map, known, answered>>

(* Mutant: the address goes to a buffer that all workers share.            *)
Resolve_Static(w, list) ==
    /\ Goto(w, "resolve", "insert")
    /\ ip' = [v \in Workers |-> IF v = w \/ pc[v] = "insert" THEN hostname_to_ip(list) ELSE ip[v]]
    /\ answered' = [answered EXCEPT ![connect_name[w]] = @ \cup {hostname_to_ip(list)}]
    /\ UNCHANGED <<connect_name, connect_ip, g_dns_map, known>>

Resolve(w, list) ==
    /\ Goto(w, "resolve", "insert")
    /\ ip' = [ip EXCEPT ![w] = hostname_to_ip(list)]
    /\ answered' = [answered EXCEPT ![connect_name[w]] = @ \cup {hostname_to_ip(list)}]
    /\ UNCHANGED <<connect_name, connect_ip, g_dns_map, known>>

(* getaddrinfo fails: nothing is cached, and the session is marked failed. *)
ResolveFails(w) ==
    /\ Goto(w, "resolve", "failed")
    /\ UNCHANGED <<connect_name, connect_ip, ip, g_dns_map, known, answered>>

(* Mutant: g_dns_map[name] = domain_info.                                  *)
Insert_Overwrites(w) ==
    /\ Goto(w, "insert", "store")
    /\ g_dns_map' = [g_dns_map EXCEPT ![connect_name[w]] = ip[w]]
    /\ UNCHANGED <<connect_name, connect_ip, ip, known, answered>>

(* map::insert keeps an entry that another worker made in the meantime.    *)
Insert(w) ==
    /\ Goto(w, "insert", "store")
    /\ g_dns_map' = IF Found(w) THEN g_dns_map
                    ELSE [g_dns_map EXCEPT ![connect_name[w]] = ip[w]]
    /\ UNCHANGED <<connect_name, connect_ip, ip, known, answered>>

Store(w) ==
    /\ Goto(w, "store", "connect")
    /\ connect_ip' = [connect_ip EXCEPT ![w] = ip[w]]
    /\ UNCHANGED <<connect_name, ip, g_dns_map, known, answered>>

(* inet_addr understands IPv4 only; for anything else connect fails.       *)
Connect(w) ==
    /\ \/ Goto(w, "connect", "up") /\ ip[w] \in V4
       \/ Goto(w, "connect", "failed")
    /\ UNCHANGED <<connect_name, connect_ip, ip, g_dns_map, known, answered>>

(* The target closed, and the client's next message connects again.        *)
Reconnect(w) ==
    /\ Goto(w, "up", "again")
    /\ UNCHANGED <<connect_name, connect_ip, ip, g_dns_map, known, answered>>

(* The client leaves: the worker is cancelled and joined wherever it is,   *)
(* and the record is erased.                                               *)
Close(w) ==
    /\ \E from \in Marked : Goto(w, from, "idle")
    /\ connect_ip' = [connect_ip EXCEPT ![w] = ""]
    /\ ip' = [ip EXCEPT ![w] = ""]
    /\ known' = [known EXCEPT ![w] = NoEntry]
    /\ UNCHANGED <<connect_name, g_dns_map, answered>>

(* The flag is still 0, so the worker is not joined when the client leaves; *)
(* or it is still MAP_RECONNECT, so a second worker is started.            *)
LeaveBehind(w) ==
    /\ pc[w] \in {"begin", "again"}
    /\ overtaken' = TRUE
    /\ UNCHANGED <<pc, connect_name, connect_ip, ip, g_dns_map, known, answered>>
----------------------------------------------------------------------------
LookUp(w) ==
    \/ Begin(w) \/ ReadTarget(w) \/ Literal(w) \/ Find(w) \/ Copy(w)
    \/ ResolveFails(w) \/ Insert(w) \/ Store(w) \/ Connect(w)
    \/ \E list \in Lists : Resolve(w, list)

Next == \E w \in Workers :
    /\ ~overtaken
    /\ \/ LookUp(w) \/ Reconnect(w) \/ Close(w) \/ LeaveBehind(w)
       \/ \E n \in Names : Open(w, n)

Spec == Init /\ [][Next]_vars
----------------------------------------------------------------------------
(* Every variable has its type.                                            *)
TypeOK ==
    /\ pc \in [Workers -> Marked \cup {"idle", "begin"}]
    /\ connect_name \in [Workers -> Names]
    /\ connect_ip \in [Workers -> Address]
    /\ ip \in [Workers -> Address]
    /\ g_dns_map \in [Names -> Address \cup {NoEntry}]
    /\ known \in [Workers -> Address \cup {NoEntry}]
    /\ answered \in [Names -> SUBSET Address]
    /\ overtaken \in BOOLEAN

OwnAddress(n) == IF n \in Literals THEN {n} ELSE answered[n]

(* A worker connects only to an address that is, or that a resolver gave   *)
(* for, the name in its own session's record, and g_dns_map holds only     *)
(* such addresses, whatever other workers resolve and insert meanwhile, as *)
(* long as no worker has been left behind.                                 *)
AddressOfItsName ==
    /\ \A n \in Names : g_dns_map[n] # NoEntry => g_dns_map[n] \in answered[n]
    /\ \A w \in Workers : pc[w] \in {"connect", "up"} => ip[w] \in OwnAddress(connect_name[w])

(* A session keeps its first address however often it connects; and when   *)
(* it begins to look up a name that is in g_dns_map, it gets the address   *)
(* that was there then, even if others who missed it insert theirs later.  *)
FirstAnswerStays ==
    \A w \in Workers :
        pc[w] \in {"connect", "up"} /\ known[w] # NoEntry => ip[w] = known[w]
=============================================================================
