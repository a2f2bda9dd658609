----------------------------- MODULE MCLogStream -----------------------------
(* Instances of LogStream for TLC.  The clients are model values.           *)
EXTENDS LogStream

CONSTANTS c1, c2

TwoClients == {c1, c2}
==============================================================================
