----------------------------- MODULE MCStartup -----------------------------
(* TLC instances of Startup: every configuration that GetStr can return.   *)
EXTENDS Startup

MCConfs == Conf
=============================================================================
