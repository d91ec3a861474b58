--------------------------- MODULE DnsCacheProofs ---------------------------
(***************************************************************************)
(* That sessions connect to addresses of their own names, and keep them,   *)
(* for any number of workers, names and lists.                             *)
(***************************************************************************)
EXTENDS DnsCache, TLAPS

Done == {"connect", "up"}

(* What a worker's buffer and record hold at each place of the look-up.    *)
Holds(w) ==
    /\ pc[w] \in {"copy", "resolve", "insert"} => connect_name[w] \notin Literals
    /\ pc[w] = "copy" => g_dns_map[connect_name[w]] # NoEntry
    /\ pc[w] = "insert" => ip[w] \in answered[connect_name[w]]
    /\ pc[w] \in Done \cup {"store"} => ip[w] \in OwnAddress(connect_name[w])
    /\ connect_ip[w] # "" => connect_ip[w] \in OwnAddress(connect_name[w])

(* An address known when the look-up began is found, and not lost again.   *)
Keeps(w) ==
    known[w] # NoEntry =>
        /\ pc[w] \notin {"resolve", "insert"}
        /\ pc[w] \in {"find", "copy"} => g_dns_map[connect_name[w]] = known[w]
        /\ pc[w] \in Done \cup {"store"} => ip[w] = known[w]

Cached ==
    \A n \in Names : g_dns_map[n] # NoEntry => n \notin Literals /\ g_dns_map[n] \in answered[n]

CacheInv ==
    /\ TypeOK
    /\ Cached
    /\ \A w \in Workers : Holds(w)
    /\ \A w \in Workers : Keeps(w)

(* The resolver leaves an address, or nothing, in the buffer.              *)
LEMMA ResolverAddress ==
    ASSUME NEW list \in Lists PROVE hostname_to_ip(list) \in Address
<1>1. list \in Seq(V4 \cup Other \cup {Unnamed})
    BY DnsAssumption
<1>2. CASE \E i \in DOMAIN list : IsFirst(list, i)
    <2> DEFINE k == CHOOSE i \in DOMAIN list : IsFirst(list, i)
    <2>1. k \in DOMAIN list /\ IsFirst(list, k)
        BY <1>2
    <2>2. list[k] \in V4 \cup Other
        BY <1>1, <2>1 DEF IsFirst
    <2> QED
        BY <1>2, <2>2 DEF hostname_to_ip, Address
<1>3. CASE ~ \E i \in DOMAIN list : IsFirst(list, i)
    BY <1>3 DEF hostname_to_ip, Address
<1> QED
    BY <1>2, <1>3

(* Nothing is cached and nobody has looked yet.                            *)
LEMMA InitCache == Init => CacheInv
<1> SUFFICES ASSUME Init PROVE CacheInv
    OBVIOUS
<1>1. TypeOK
    BY DEF Init, TypeOK, Marked, Address
<1>2. Cached
    BY DEF Init, Cached
<1>3. ASSUME NEW w \in Workers PROVE Holds(w) /\ Keeps(w)
    BY DEF Init, Holds, Keeps, Done
<1> QED
    BY <1>1, <1>2, <1>3 DEF CacheInv

(* Every step of every worker preserves the invariant.                     *)
LEMMA NextCache == CacheInv /\ [Next]_vars => CacheInv'
<1> SUFFICES ASSUME CacheInv, [Next]_vars PROVE CacheInv'
    OBVIOUS
<1> USE DnsAssumption DEF CacheInv, TypeOK, Marked, Cached, Holds, Keeps, Done, OwnAddress, Goto, Address
<1>1. ASSUME NEW w \in Workers, NEW n \in Names, Open(w, n) PROVE CacheInv'
    <2>1. TypeOK' /\ Cached'
        BY <1>1 DEF Open
    <2>2. ASSUME NEW v \in Workers PROVE Holds(v)'
        BY <1>1 DEF Open
    <2>3. ASSUME NEW v \in Workers PROVE Keeps(v)'
        BY <1>1 DEF Open
    <2> QED
        BY <2>1, <2>2, <2>3
<1>2. ASSUME NEW w \in Workers, ReadTarget(w) PROVE CacheInv'
    <2>1. TypeOK' /\ Cached'
        BY <1>2 DEF ReadTarget, Known
    <2>2. ASSUME NEW v \in Workers PROVE Holds(v)'
        BY <1>2 DEF ReadTarget, Known
    <2>3. ASSUME NEW v \in Workers PROVE Keeps(v)'
        BY <1>2 DEF ReadTarget, Known
    <2> QED
        BY <2>1, <2>2, <2>3
<1>3. ASSUME NEW w \in Workers, Literal(w) PROVE CacheInv'
    <2>1. TypeOK' /\ Cached'
        BY <1>3 DEF Literal
    <2>2. ASSUME NEW v \in Workers PROVE Holds(v)'
        BY <1>3 DEF Literal
    <2>3. ASSUME NEW v \in Workers PROVE Keeps(v)'
        BY <1>3 DEF Literal
    <2> QED
        BY <2>1, <2>2, <2>3
<1>4. ASSUME NEW w \in Workers, Find(w) PROVE CacheInv'
    <2>1. TypeOK' /\ Cached'
        BY <1>4 DEF Find, Found
    <2>2. ASSUME NEW v \in Workers PROVE Holds(v)'
        BY <1>4 DEF Find, Found
    <2>3. ASSUME NEW v \in Workers PROVE Keeps(v)'
        BY <1>4 DEF Find, Found
    <2> QED
        BY <2>1, <2>2, <2>3
<1>5. ASSUME NEW w \in Workers, Copy(w) PROVE CacheInv'
    <2>1. TypeOK' /\ Cached'
        BY <1>5 DEF Copy
    <2>2. ASSUME NEW v \in Workers PROVE Holds(v)'
        BY <1>5 DEF Copy
    <2>3. ASSUME NEW v \in Workers PROVE Keeps(v)'
        BY <1>5 DEF Copy
    <2> QED
        BY <2>1, <2>2, <2>3
<1>6. ASSUME NEW w \in Workers, NEW list \in Lists, Resolve(w, list) PROVE CacheInv'
    <2>1. TypeOK' /\ Cached'
        BY <1>6, ResolverAddress DEF Resolve
    <2>2. ASSUME NEW v \in Workers PROVE Holds(v)'
        BY <1>6 DEF Resolve
    <2>3. ASSUME NEW v \in Workers PROVE Keeps(v)'
        BY <1>6 DEF Resolve
    <2> QED
        BY <2>1, <2>2, <2>3
<1>7. ASSUME NEW w \in Workers, ResolveFails(w) PROVE CacheInv'
    BY <1>7 DEF ResolveFails
<1>8. ASSUME NEW w \in Workers, Insert(w) PROVE CacheInv'
    <2>1. g_dns_map' \in [Names -> Address \cup {NoEntry}] /\ TypeOK'
        BY <1>8 DEF Insert, Found
    <2>2. Cached'
        BY <1>8 DEF Insert, Found
    <2>3. ASSUME NEW v \in Workers PROVE Holds(v)'
        BY <1>8 DEF Insert, Found
    <2>4. ASSUME NEW v \in Workers PROVE Keeps(v)'
        BY <1>8 DEF Insert, Found
    <2> QED
        BY <2>1, <2>2, <2>3, <2>4
<1>9. ASSUME NEW w \in Workers, Store(w) PROVE CacheInv'
    <2>1. TypeOK' /\ Cached'
        BY <1>9 DEF Store
    <2>2. ASSUME NEW v \in Workers PROVE Holds(v)'
        BY <1>9 DEF Store
    <2>3. ASSUME NEW v \in Workers PROVE Keeps(v)'
        BY <1>9 DEF Store
    <2> QED
        BY <2>1, <2>2, <2>3
<1>10. ASSUME NEW w \in Workers, Connect(w) PROVE CacheInv'
    <2>1. TypeOK' /\ Cached'
        BY <1>10 DEF Connect
    <2>2. ASSUME NEW v \in Workers PROVE Holds(v)'
        BY <1>10 DEF Connect
    <2>3. ASSUME NEW v \in Workers PROVE Keeps(v)'
        BY <1>10 DEF Connect
    <2> QED
        BY <2>1, <2>2, <2>3
<1>11. ASSUME NEW w \in Workers, Reconnect(w) PROVE CacheInv'
    BY <1>11 DEF Reconnect
<1>12. ASSUME NEW w \in Workers, Close(w) PROVE CacheInv'
    <2>1. TypeOK' /\ Cached'
        BY <1>12 DEF Close
    <2>2. ASSUME NEW v \in Workers PROVE Holds(v)'
        BY <1>12 DEF Close
    <2>3. ASSUME NEW v \in Workers PROVE Keeps(v)'
        BY <1>12 DEF Close
    <2> QED
        BY <2>1, <2>2, <2>3
<1>13. ASSUME NEW w \in Workers, Begin(w) PROVE CacheInv'
    <2>1. TypeOK' /\ Cached'
        BY <1>13 DEF Begin
    <2>2. ASSUME NEW v \in Workers PROVE Holds(v)'
        BY <1>13 DEF Begin
    <2>3. ASSUME NEW v \in Workers PROVE Keeps(v)'
        BY <1>13 DEF Begin
    <2> QED
        BY <2>1, <2>2, <2>3
<1>14. ASSUME NEW w \in Workers, LeaveBehind(w) PROVE CacheInv'
    BY <1>14 DEF LeaveBehind
<1>15. ASSUME UNCHANGED vars PROVE CacheInv'
    BY <1>15 DEF vars
<1> QED
    BY <1>1, <1>2, <1>3, <1>4, <1>5, <1>6, <1>7, <1>8, <1>9, <1>10, <1>11, <1>12, <1>13,
       <1>14, <1>15
    DEF Next, LookUp

(* The invariant holds in every reachable state.                           *)
LEMMA CacheInvariant == Spec => []CacheInv
<1> QED
    BY InitCache, NextCache, PTL DEF Spec
----------------------------------------------------------------------------
(* connect_target: every variable of the look-up keeps its type.           *)
THEOREM CacheTypeCorrect == Spec => []TypeOK
<1>1. CacheInv => TypeOK
    BY DEF CacheInv
<1> QED
    BY <1>1, CacheInvariant, PTL

(* get_ip_addr: a worker connects only to an address of its own session's  *)
(* name, and the cache holds only addresses that a resolver gave for the   *)
(* name they stand under, as long as no worker has been left behind.       *)
THEOREM AddressesAreOwn == Spec => []AddressOfItsName
<1>1. CacheInv => AddressOfItsName
    BY DEF CacheInv, Cached, Holds, Done, AddressOfItsName
<1> QED
    BY <1>1, CacheInvariant, PTL

(* get_ip_addr: an address that a session had, or that the cache had when  *)
(* the session began to look, is the one the session connects to.          *)
THEOREM FirstAnswerKept == Spec => []FirstAnswerStays
<1>1. CacheInv => FirstAnswerStays
    BY DEF CacheInv, Keeps, Done, FirstAnswerStays
<1> QED
    BY <1>1, CacheInvariant, PTL
=============================================================================
