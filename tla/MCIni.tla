------------------------------- MODULE MCIni -------------------------------
(* TLC instances of Ini: every file of up to MCLength lines.               *)
EXTENDS Ini

MCLength == 4

MCFiles == UNION {[1..n -> Line] : n \in 0..MCLength}
=============================================================================
