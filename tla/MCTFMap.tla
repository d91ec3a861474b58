------------------------------ MODULE MCTFMap ------------------------------
(* TLC instances of TFMap.                                                 *)
EXTENDS TFMap, TLC

(* The messages process_msg tells apart when a record exists (a CONNECT or *)
(* not) and when none does (accepted, ignored, refused).                   *)
MCMessages ==
    {[verb |-> "GET", host |-> "complete", http |-> TRUE, auth |-> "match"],
     [verb |-> "CONNECT", host |-> "absent", http |-> TRUE, auth |-> "match"],
     [verb |-> "other", host |-> "absent", http |-> FALSE, auth |-> "absent"],
     [verb |-> "POST", host |-> "complete", http |-> TRUE, auth |-> "mismatch"]}

(* Bounds on the states that are expanded. One client at a time; a record  *)
(* made by operator[]; a worker with a socket is the only live one.        *)
MCOneClient == \A f, g \in Fds : files[f] = "client" /\ files[g] = "client" => f = g

MCDefaultRecord == \E f \in Fds : Found(f) /\ g_accept_map[f].accept_fd # f

MCOneConnection == \A v, w \in Workers : connect_fd[v] # NoFd /\ Live(w) => v = w

MCUntimed == MCOneClient /\ (MCDefaultRecord => MCOneConnection)

MCLive == overtaken => MCOneClient /\ ~MCDefaultRecord /\ MCOneConnection

(* What is said of behaviours in which no worker is overtaken needs only    *)
(* these states; the first overtaken ones are looked at and left there.    *)
MCNotOvertaken == ~overtaken

MCWorkerSymmetry == Permutations(Workers)
=============================================================================
