----------------------------- MODULE MCWebSocket -----------------------------
(* Instances of WebSocket for TLC: two clients that gave the same id, one of *)
(* them a dashboard.                                                        *)
EXTENDS WebSocket

CONSTANTS c1, c2

TwoClients == {c1, c2}
SameID == [c \in TwoClients |-> "id"]
==============================================================================
