------------------------------ MODULE WebSocket ------------------------------
(***************************************************************************)
(* pkg/websocket/manager.go: the manager and the two pumps of each client.  *)
(*                                                                          *)
(* The goroutine run owns the clients map and serves three channels; it     *)
(* takes mu for writing to add or remove a client, and for reading to pass  *)
(* a broadcast on, client by client.  BroadcastToDashboards and SendToClient*)
(* read the map in the goroutine of their caller, so that their sends and   *)
(* run's are interleaved; none of these waits for a client.  A client's     *)
(* reader answers pings by a send that does wait.                           *)
(***************************************************************************)
EXTENDS Integers, Sequences, FiniteSets, Functions

CONSTANTS
    Clients,        \* connections, each accepted once
    Dashboards,     \* those whose request said type=dashboard
    Pinging,        \* those that send ping messages
    IDs,            \* the id that each client's request names; need not be unique
    MaxBroadcasts,  \* bound: messages broadcast
    SendCap,        \* the 256 messages a client's Send channel holds
    RequestCap,     \* the 100 requests register and unregister hold
    BroadcastCap    \* the 500 messages the broadcast channel holds

ASSUME WebSocketAssumption ==
    /\ Dashboards \subseteq Clients /\ Pinging \subseteq Clients /\ Clients \subseteq DOMAIN IDs
    /\ MaxBroadcasts \in Nat
    /\ SendCap \in Nat \ {0} /\ RequestCap \in Nat \ {0} /\ BroadcastCap \in Nat \ {0}

VARIABLES
    reader,         \* readPump of each client: none, reading, replying, leaving or left
    writer,         \* writePump of each client: none, running or left
    gone,           \* connections that were lost, fell silent or take nothing any more
    register, unregister, broadcast,    \* the manager's channels
    clients,        \* keys of the clients map
    send,           \* how many messages each client's Send channel holds
    closed,         \* Send channels that were closed
    serving,        \* the broadcast run is passing on, and to whom it still must
    direct,         \* whom BroadcastToDashboards still must serve
    published,      \* history: number of the last broadcast
    latest,         \* history: the last broadcast put into each Send channel
    ignored,        \* history: unregistrations that were served before the registration
    panicked        \* somebody sent on a closed channel or closed one twice

vars == <<reader, writer, gone, register, unregister, broadcast, clients, send, closed,
          serving, direct, published, latest, ignored, panicked>>

pumps == <<reader, writer, gone>>
requests == <<register, unregister, broadcast, published>>

\* Broadcasts are numbered from 1; this is any other message.
Other == 0

Idle == [msg |-> Other, to |-> {}]

Init ==
    /\ reader = [c \in Clients |-> "none"] /\ writer = [c \in Clients |-> "none"]
    /\ gone = {} /\ clients = {} /\ closed = {} /\ direct = {} /\ ignored = {}
    /\ register = <<>> /\ unregister = <<>> /\ broadcast = <<>>
    /\ send = [c \in Clients |-> 0] /\ latest = [c \in Clients |-> 0]
    /\ serving = Idle
    /\ published = 0
    /\ panicked = FALSE

\* mu can be taken for writing: nobody is going through the map.
MapFree == serving.to = {} /\ direct = {}

\* The channel keeps the order; latest notes which broadcast it was given.
Put(c, m) ==
    /\ send' = [send EXCEPT ![c] = @ + 1]
    /\ latest' = IF m = Other THEN latest ELSE [latest EXCEPT ![c] = m]

\* Mutant of TrySend: a full channel makes the sender wait.
WaitToSend(c, m) ==
    /\ c \in closed \/ send[c] < SendCap
    /\ panicked' = (panicked \/ c \in closed)
    /\ IF c \in closed THEN UNCHANGED <<send, latest>> ELSE Put(c, m)

\* A send that does not wait: a full channel misses the message.
TrySend(c, m) ==
    /\ panicked' = (panicked \/ c \in closed)
    /\ IF c \in closed \/ send[c] >= SendCap
       THEN UNCHANGED <<send, latest>> ELSE Put(c, m)

------------------------------------------------------------------------------
(* One client: HandleWebSocket, readPump and writePump.                    *)

\* HandleWebSocket waits until register takes the client, then starts the pumps.
HandleWebSocket(c) ==
    /\ reader[c] = "none"
    /\ Len(register) < RequestCap
    /\ register' = Append(register, c)
    /\ reader' = [reader EXCEPT ![c] = "reading"]
    /\ writer' = [writer EXCEPT ![c] = "running"]
    /\ UNCHANGED <<gone, unregister, broadcast, clients, send, closed, serving, direct,
                   published, latest, ignored, panicked>>

ConnectionLost(c) ==
    /\ reader[c] # "none"
    /\ gone' = gone \cup {c}
    /\ UNCHANGED <<reader, writer, requests, clients, send, closed, serving, direct,
                   latest, ignored, panicked>>

\* A ping was read, while the connection was good; any other message is ignored.
ReadPing(c) ==
    /\ c \in Pinging \ gone
    /\ reader[c] = "reading"
    /\ reader' = [reader EXCEPT ![c] = "replying"]
    /\ UNCHANGED <<writer, gone, requests, clients, send, closed, serving, direct,
                   latest, ignored, panicked>>

\* The reply waits for room in the channel, and looks at no mutex.
Reply(c) ==
    /\ reader[c] = "replying"
    /\ c \in closed \/ send[c] < SendCap
    /\ TrySend(c, Other)
    /\ reader' = [reader EXCEPT ![c] = "reading"]
    /\ UNCHANGED <<writer, gone, requests, clients, closed, serving, direct, ignored>>

\* The connection is lost, or the deadline of a minute or the size limit is passed.
ReadFails(c) ==
    /\ c \in gone
    /\ reader[c] = "reading"
    /\ reader' = [reader EXCEPT ![c] = "leaving"]
    /\ UNCHANGED <<writer, gone, requests, clients, send, closed, serving, direct,
                   latest, ignored, panicked>>

\* Mutant of Unregister: it does not wait for room.
UnregisterOrDrop(c) ==
    /\ reader[c] = "leaving"
    /\ unregister' = IF Len(unregister) < RequestCap THEN Append(unregister, c) ELSE unregister
    /\ reader' = [reader EXCEPT ![c] = "left"]
    /\ UNCHANGED <<writer, gone, register, broadcast, published, clients, send, closed,
                   serving, direct, latest, ignored, panicked>>

\* The deferred end of readPump: unregister, then close the connection.
Unregister(c) ==
    /\ reader[c] = "leaving"
    /\ Len(unregister) < RequestCap
    /\ unregister' = Append(unregister, c)
    /\ reader' = [reader EXCEPT ![c] = "left"]
    /\ UNCHANGED <<writer, gone, register, broadcast, published, clients, send, closed,
                   serving, direct, latest, ignored, panicked>>

\* The writer takes a message; if it cannot be written, WriteFails comes next.
Write(c) ==
    /\ writer[c] = "running"
    /\ send[c] > 0
    /\ send' = [send EXCEPT ![c] = @ - 1]
    /\ UNCHANGED <<pumps, requests, clients, closed, serving, direct, latest, ignored,
                   panicked>>

WriterLeaves(c) ==
    /\ writer[c] = "running"
    /\ writer' = [writer EXCEPT ![c] = "left"]
    /\ UNCHANGED <<reader, gone, requests, clients, send, closed, serving, direct, latest,
                   ignored, panicked>>

\* A message or a ping of the ticker could not be written.
WriteFails(c) == c \in gone /\ WriterLeaves(c)

\* Send was closed and is empty.
WriterEnds(c) == c \in closed /\ send[c] = 0 /\ WriterLeaves(c)

Client(c) ==
    \/ HandleWebSocket(c) \/ ConnectionLost(c)
    \/ ReadPing(c) \/ Reply(c) \/ ReadFails(c) \/ Unregister(c)
    \/ Write(c) \/ WriteFails(c) \/ WriterEnds(c)

------------------------------------------------------------------------------
(* The goroutine run: its select is not reached while it passes a message on. *)

RunRegister ==
    /\ MapFree
    /\ register # <<>>
    /\ register' = Tail(register)
    /\ clients' = clients \cup {Head(register)}
    /\ UNCHANGED <<pumps, unregister, broadcast, published, send, closed, serving, direct,
                   latest, ignored, panicked>>

\* Mutants of RunUnregister: the map is not consulted before the channel is closed;
\* mu is not taken.
RunUnregisterAll ==
    /\ MapFree
    /\ unregister # <<>>
    /\ unregister' = Tail(unregister)
    /\ clients' = clients \ {Head(unregister)}
    /\ closed' = closed \cup {Head(unregister)}
    /\ panicked' = (panicked \/ Head(unregister) \in closed)
    /\ UNCHANGED <<pumps, register, broadcast, published, send, serving, direct, latest,
                   ignored>>

RunUnregisterUnlocked ==
    /\ serving.to = {}
    /\ unregister # <<>>
    /\ unregister' = Tail(unregister)
    /\ clients' = clients \ {Head(unregister)}
    /\ closed' = closed \cup ({Head(unregister)} \cap clients)
    /\ UNCHANGED <<pumps, register, broadcast, published, send, serving, direct, latest,
                   ignored, panicked>>

\* Only a client in the map is removed and its channel closed.
RunUnregister ==
    /\ MapFree
    /\ unregister # <<>>
    /\ unregister' = Tail(unregister)
    /\ clients' = clients \ {Head(unregister)}
    /\ closed' = closed \cup ({Head(unregister)} \cap clients)
    /\ panicked' = (panicked \/ Head(unregister) \in clients \cap closed)
    /\ ignored' = ignored \cup ({Head(unregister)} \cap Range(register))
    /\ UNCHANGED <<pumps, register, broadcast, published, send, serving, direct, latest>>

RunBroadcast ==
    /\ serving.to = {}
    /\ broadcast # <<>>
    /\ broadcast' = Tail(broadcast)
    /\ serving' = [msg |-> Head(broadcast), to |-> clients]
    /\ UNCHANGED <<pumps, register, unregister, published, clients, send, closed, direct,
                   latest, ignored, panicked>>

RunSend(c) ==
    /\ c \in serving.to
    /\ TrySend(c, serving.msg)
    /\ serving' = IF serving.to = {c} THEN Idle ELSE [serving EXCEPT !.to = @ \ {c}]
    /\ UNCHANGED <<pumps, requests, clients, closed, direct, ignored>>

Run == \/ RunRegister \/ RunUnregister \/ RunBroadcast
       \/ \E c \in Clients : RunSend(c)

------------------------------------------------------------------------------
(* The callers.  BroadcastToDashboards is called by one goroutine at a time. *)

\* Broadcast never waits: when the channel is full the message is dropped.
Broadcast ==
    /\ published < MaxBroadcasts
    /\ published' = published + 1
    /\ broadcast' = IF Len(broadcast) < BroadcastCap
                    THEN Append(broadcast, published') ELSE broadcast
    /\ UNCHANGED <<pumps, register, unregister, clients, send, closed, serving, direct,
                   latest, ignored, panicked>>

BroadcastToDashboards ==
    /\ direct = {}
    /\ direct' = clients \cap Dashboards
    /\ UNCHANGED <<pumps, requests, clients, send, closed, serving, latest, ignored, panicked>>

DirectSend(c) ==
    /\ c \in direct
    /\ TrySend(c, Other)
    /\ direct' = direct \ {c}
    /\ UNCHANGED <<pumps, requests, clients, closed, serving, ignored>>

\* The first client with that id in the map's order; there may be several.
SendToClient(id) ==
    /\ \E c \in clients : IDs[c] = id /\ TrySend(c, Other)
    /\ UNCHANGED <<pumps, requests, clients, closed, serving, direct, ignored>>

Callers == \/ Broadcast \/ BroadcastToDashboards
           \/ \E id \in Range(IDs) : SendToClient(id)
           \/ \E c \in Clients : DirectSend(c)

Next == Run \/ Callers \/ \E c \in Clients : Client(c)

Spec == Init /\ [][Next]_vars

\* Goroutines run; select takes any ready case at random and Go's locks and channels
\* are fair, so nobody is passed over for ever.  The reader of a dead connection
\* fails, and its writer at the next message or ping (25 s).
Fairness ==
    /\ SF_vars(RunRegister) /\ SF_vars(RunUnregister) /\ SF_vars(RunBroadcast)
    /\ WF_vars(\E c \in Clients : RunSend(c)) /\ WF_vars(\E c \in Clients : DirectSend(c))
    /\ \A c \in Clients :
          /\ SF_vars(Reply(c) \/ ReadFails(c) \/ Unregister(c))
          /\ WF_vars(Write(c) \/ WriteFails(c) \/ WriterEnds(c))
FairSpec == Spec /\ Fairness

------------------------------------------------------------------------------
(* What the manager promises.                                              *)

\* Nobody ever sends on a closed Send channel or closes one twice, although three
\* goroutines send on it and only two of them hold mu: the reader, which holds none,
\* is the one that asks for the closing, after its last reply.
NeverPanics == ~panicked

\* A client gets broadcasts in the order in which they were made, none twice, and only
\* while it is registered; one that was removed is never registered again.
Topic == INSTANCE PubSub WITH
             Subscribers <- Clients, members <- clients, left <- closed
ImplementsPubSub == Topic!Spec

\* However slow or dead the clients are, run comes back for the next broadcast.
BroadcastGoesOn == (Len(broadcast) = BroadcastCap) ~> (Len(broadcast) < BroadcastCap)

\* The client's unregistration was served before its registration, and ignored.
Overtaken(c) == c \in ignored

\* The reader waits to answer a ping, and the writer no longer takes anything.
StuckReply(c) == reader[c] = "replying" /\ writer[c] = "left" /\ send[c] = SendCap

\* A client whose connection has gone is removed and both its pumps end; there are
\* exactly two ways in which it may stay registered for ever.
GoneIsRemoved ==
    \A c \in Clients :
        (c \in gone) ~> \/ c \in closed \ clients /\ reader[c] = "left" /\ writer[c] = "left"
                        \/ Overtaken(c)
                        \/ StuckReply(c)
==============================================================================
