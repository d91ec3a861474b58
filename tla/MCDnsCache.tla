----------------------------- MODULE MCDnsCache -----------------------------
(* TLC instances of DnsCache.                                              *)
EXTENDS DnsCache, TLC

(* Lists that begin with a usable address, reach one after an entry that   *)
(* cannot be written, begin with an IPv6 address, or hold nothing usable.  *)
MCLists == {<<"1.1.1.1">>, <<Unnamed, "2.2.2.2">>, <<"v6", "1.1.1.1">>, <<Unnamed>>}

MCWorkerSymmetry == Permutations(Workers)
=============================================================================
