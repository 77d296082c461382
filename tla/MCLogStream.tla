----------------------------- MODULE MCLogStream -----------------------------
(* LogStream for TLC: a reader beside the runner, two clients, a replay limit that a        *)
(* late client exceeds, one failing write.                                   *)
EXTENDS LogStream, TLC

CONSTANTS o, c1, c2
MCReaders == {o}
MCClients == {c1, c2}
=============================================================================
