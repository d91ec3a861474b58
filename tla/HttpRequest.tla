---------------------------- MODULE HttpRequest ----------------------------
(***************************************************************************)
(* What TFMap::process_msg decides from the bytes of a client's message.   *)
(* A message is a record of the facts the code looks for in those bytes:   *)
(*   verb  which of the words compared by get_action starts the message    *)
(*   host  "Host:" is absent, present with no CRLF after it, or complete   *)
(*   http  the word "HTTP" occurs (the end of a CONNECT request line)      *)
(*   auth  the Proxy-Authorization header is absent, has no CRLF after it, *)
(*         or carries a credential that differs from / equals the          *)
(*         configured one on the encoded length                            *)
(***************************************************************************)
EXTENDS Integers

CONSTANT AuthRequired   \* username != "" || password != ""

ASSUME AuthAssumption == AuthRequired \in BOOLEAN

(* common.h *)
TF_GET     == 1
TF_POST    == 2
TF_CONNECT == 3

Message == [verb : {"GET", "POST", "CONNECT", "other"},
            host : {"absent", "unterminated", "complete"},
            http : BOOLEAN,
            auth : {"absent", "unterminated", "mismatch", "match"}]

get_action(m) ==
    CASE m.verb = "GET"     -> TF_GET
      [] m.verb = "POST"    -> TF_POST
      [] m.verb = "CONNECT" -> TF_CONNECT
      [] OTHER              -> 0

(* A target name is found in a complete Host header or, only when there is *)
(* no Host header at all, between CONNECT and HTTP on the request line.    *)
FindsTarget(m) ==
    \/ m.host = "complete"
    \/ m.host = "absent" /\ get_action(m) = TF_CONNECT /\ m.http

Authorised(m) == AuthRequired => m.auth = "match"

(* How process_msg ends for a descriptor it has no record of: it ignores   *)
(* the message and returns 0, it returns -1 and the event loop disconnects *)
(* the client, or else it inserts a record and starts a thread.            *)
Dropped(m) == get_action(m) = 0 \/ ~FindsTarget(m)
Rejected(m) == ~Dropped(m) /\ ~Authorised(m)
=============================================================================
