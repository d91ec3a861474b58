------------------------------ MODULE Session ------------------------------
(***************************************************************************)
(* What TFMap promises for the session of each client descriptor: the      *)
(* states the flag of a MapClient goes through, and that at most one       *)
(* worker thread serves a session, is started only when there is none, and *)
(* is gone before the session is. The promise ends when a session is       *)
(* abandoned: given up before its worker has reported, or begun again      *)
(* before its worker has ended, or after it has failed.                    *)
(***************************************************************************)
CONSTANTS Fds, Workers

VARIABLES
    session,   \* descriptor -> state of its session
    servers,   \* descriptor -> the live worker threads that serve it
    abandoned  \* a session was given up or begun again too early, or too late

vars == <<session, servers, abandoned>>

(* none        no MapClient                                                *)
(* starting    flag 0: recorded, its worker has not reported yet           *)
(* connecting  flag MAP_CREATE_THREAD                                      *)
(* up          flag MAP_CONNECT_SUCCESS                                    *)
(* failed      flag MAP_CONNECT_FAILED: the next message disconnects       *)
(* lost        flag MAP_RECONNECT: the next message connects again         *)
State == {"none", "starting", "connecting", "up", "failed", "lost"}

Init ==
    /\ session = [f \in Fds |-> "none"]
    /\ servers = [f \in Fds |-> {}]
    /\ abandoned = FALSE

Move(f, from, to) == session[f] = from /\ session' = [session EXCEPT ![f] = to]

Open(f) == servers[f] = {} /\ Move(f, "none", "starting") /\ UNCHANGED servers

Serve(f, w) ==
    /\ session[f] \in {"starting", "lost"}
    /\ servers[f] = {}
    /\ \A g \in Fds : w \notin servers[g]
    /\ servers' = [servers EXCEPT ![f] = {w}]
    /\ UNCHANGED session

Begin(f) ==
    /\ servers[f] # {}
    /\ Move(f, "starting", "connecting") \/ Move(f, "lost", "connecting")
    /\ UNCHANGED servers

Establish(f) == servers[f] # {} /\ Move(f, "connecting", "up") /\ UNCHANGED servers

(* A worker reports a failure with its last act, or just before it.        *)
Fail(f) ==
    /\ servers[f] # {}
    /\ Move(f, "connecting", "failed")
    /\ servers' \in {servers, [servers EXCEPT ![f] = {}]}

Lose(f) == servers[f] # {} /\ Move(f, "up", "lost") /\ UNCHANGED servers

(* A worker ends, by itself or cancelled; never before it has reported.    *)
Retire(f) ==
    /\ session[f] \notin {"none", "starting"}
    /\ servers[f] # {}
    /\ servers' = [servers EXCEPT ![f] = {}]
    /\ UNCHANGED session

Close(f) ==
    /\ session[f] \notin {"none", "starting"}
    /\ servers[f] = {}
    /\ session' = [session EXCEPT ![f] = "none"]
    /\ UNCHANGED servers

(* A session is given up beside its worker, or begun again beside it or    *)
(* when that worker has failed already.                                    *)
Abandon(f) ==
    /\ ~abandoned
    /\ session[f] = "failed" \/ (session[f] # "none" /\ servers[f] # {})
    /\ abandoned' = TRUE
    /\ UNCHANGED <<session, servers>>

Kept(f) ==
    /\ ~abandoned /\ UNCHANGED abandoned
    /\ \/ Open(f) \/ Begin(f) \/ Establish(f) \/ Fail(f) \/ Lose(f) \/ Retire(f) \/ Close(f)
       \/ \E w \in Workers : Serve(f, w)

(* Every move changes something; said first, it lets TLC skip the steps of *)
(* an implementation that leave the sessions alone.                        *)
Next ==
    /\ vars' # vars
    /\ \/ \E f \in Fds : Kept(f) \/ Abandon(f)
       \/ abandoned /\ abandoned'

Spec == Init /\ [][Next]_vars
=============================================================================
