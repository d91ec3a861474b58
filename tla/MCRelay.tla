------------------------------ MODULE MCRelay ------------------------------
(* TLC instances of Relay.                                                 *)
EXTENDS Relay

MCKind(name, verb, host, auth, last) ==
    [name |-> name, last |-> last,
     facts |-> [verb |-> verb, host |-> host, http |-> verb # "other", auth |-> auth]]

(* A request with a Host header, one for a tunnel to another target with   *)
(* the name on its first line, one that is not authorised, the bytes of a  *)
(* tunnel or the rest of a request, and a request of which only a part     *)
(* has arrived.                                                            *)
MCKinds ==
    {MCKind("t1", "GET", "complete", "match", TRUE),
     MCKind("t2", "CONNECT", "absent", "match", TRUE),
     MCKind("t1", "GET", "complete", "mismatch", TRUE),
     MCKind("none", "other", "absent", "absent", TRUE),
     MCKind("t1", "GET", "complete", "match", FALSE)}

(* Bound on the states that are expanded: one client writes three pieces,  *)
(* two clients that have the number after one another two in all.          *)
MCOnePieceEach == clients = 2 => written <= 2
=============================================================================
