------------------------------ MODULE SSEManager ------------------------------
(***************************************************************************)
(* pkg/sse/sse.go and the handler of GET /api/tasks/stream that uses it.    *)
(*                                                                          *)
(* One goroutine, run, owns the set of clients and serves three channels;   *)
(* its select takes any of those that are ready.  A handler registers a     *)
(* channel of its own, reads it until its client has gone, and unregisters  *)
(* it.  Events are numbered in the order in which they are broadcast; event *)
(* 0 is the "connected" that a client is greeted with.                      *)
(***************************************************************************)
EXTENDS Naturals, Sequences, FiniteSets, Functions

CONSTANTS
    Clients,        \* channels that handlers register
    MaxEvents,      \* bound: events broadcast
    ClientCap,      \* the 64 events a client's channel holds
    RequestCap,     \* the 64 requests each of register and unregister hold
    BroadcastCap    \* the 256 events the broadcast channel holds

VARIABLES
    handler,        \* where each handler is: none, open, leaving or left
    register, unregister, broadcast,    \* the manager's channels
    clients,        \* keys of the clients map
    channel,        \* the events in each client's channel
    closed,         \* channels that were closed
    got,            \* history: the events each handler has read
    crashed         \* run sent on a closed channel: the process is gone

vars == <<handler, register, unregister, broadcast, clients, channel, closed, got, crashed>>

Events == 1..MaxEvents
Connected == 0

Init ==
    /\ handler = [c \in Clients |-> "none"]
    /\ register = <<>> /\ unregister = <<>> /\ broadcast = <<>>
    /\ clients = {} /\ closed = {}
    /\ channel = [c \in Clients |-> <<>>]
    /\ got = [c \in Clients |-> <<>>]
    /\ crashed = FALSE

------------------------------------------------------------------------------
(* The handler of one client.                                              *)

\* Register makes the channel and waits until the request is taken in.
Register(c) ==
    /\ ~crashed
    /\ handler[c] = "none"
    /\ Len(register) < RequestCap
    /\ register' = Append(register, c)
    /\ handler' = [handler EXCEPT ![c] = "open"]
    /\ UNCHANGED <<unregister, broadcast, clients, channel, closed, got, crashed>>

Receive(c) ==
    /\ ~crashed
    /\ handler[c] = "open"
    /\ channel[c] # <<>>
    /\ got' = [got EXCEPT ![c] = Append(@, Head(channel[c]))]
    /\ channel' = [channel EXCEPT ![c] = Tail(@)]
    /\ UNCHANGED <<handler, register, unregister, broadcast, clients, closed, crashed>>

ClientGone(c) ==
    /\ ~crashed
    /\ handler[c] = "open"
    /\ handler' = [handler EXCEPT ![c] = "leaving"]
    /\ UNCHANGED <<register, unregister, broadcast, clients, channel, closed, got, crashed>>

Unregister(c) ==
    /\ ~crashed
    /\ handler[c] = "leaving"
    /\ Len(unregister) < RequestCap
    /\ unregister' = Append(unregister, c)
    /\ handler' = [handler EXCEPT ![c] = "left"]
    /\ UNCHANGED <<register, broadcast, clients, channel, closed, got, crashed>>

(* Broadcast never waits: when the channel is full the event is dropped.   *)
Broadcast(e) ==
    /\ ~crashed
    /\ broadcast' = IF Len(broadcast) < BroadcastCap THEN Append(broadcast, e) ELSE broadcast
    /\ UNCHANGED <<handler, register, unregister, clients, channel, closed, got, crashed>>

------------------------------------------------------------------------------
(* The three cases of run.                                                 *)

\* Puts e into the channels of the clients in C that have room.
Send(C, e) == [c \in Clients |-> IF c \in C /\ Len(channel[c]) < ClientCap
                                 THEN Append(channel[c], e) ELSE channel[c]]

\* Adds the client and greets it; greeting a channel that is already closed panics.
RunRegister ==
    /\ ~crashed
    /\ register # <<>>
    /\ LET c == Head(register) IN
       /\ register' = Tail(register)
       /\ clients' = clients \cup {c}
       /\ IF c \in closed
          THEN crashed' = TRUE /\ UNCHANGED channel
          ELSE channel' = Send({c}, Connected) /\ UNCHANGED crashed
    /\ UNCHANGED <<handler, unregister, broadcast, closed, got>>

\* Mutants of RunUnregister: the client is not deleted; one that is not registered
\* yet is ignored.
RunUnregisterKeeps ==
    /\ ~crashed
    /\ unregister # <<>>
    /\ unregister' = Tail(unregister)
    /\ closed' = closed \cup {Head(unregister)}
    /\ UNCHANGED <<handler, register, broadcast, clients, channel, got, crashed>>

RunUnregisterMembers ==
    /\ ~crashed
    /\ unregister # <<>>
    /\ unregister' = Tail(unregister)
    /\ clients' = clients \ {Head(unregister)}
    /\ closed' = closed \cup ({Head(unregister)} \cap clients)
    /\ UNCHANGED <<handler, register, broadcast, channel, got, crashed>>

RunUnregister ==
    /\ ~crashed
    /\ unregister # <<>>
    /\ unregister' = Tail(unregister)
    /\ clients' = clients \ {Head(unregister)}
    /\ closed' = closed \cup {Head(unregister)}
    /\ UNCHANGED <<handler, register, broadcast, channel, got, crashed>>

\* Mutant of RunBroadcast: the event is tried again while some client has no room.
RunBroadcastRetries ==
    /\ ~crashed
    /\ broadcast # <<>>
    /\ channel' = Send(clients, Head(broadcast))
    /\ broadcast' = IF \A c \in clients : Len(channel[c]) < ClientCap
                    THEN Tail(broadcast) ELSE broadcast
    /\ UNCHANGED <<handler, register, unregister, clients, closed, got, crashed>>

\* Sends the event to every client that has room; a slow one misses it.
RunBroadcast ==
    /\ ~crashed
    /\ broadcast # <<>>
    /\ broadcast' = Tail(broadcast)
    /\ IF clients \cap closed = {}
       THEN channel' = Send(clients, Head(broadcast)) /\ UNCHANGED crashed
       ELSE crashed' = TRUE /\ UNCHANGED channel
    /\ UNCHANGED <<handler, register, unregister, clients, closed, got>>

Handler(c) == Register(c) \/ Receive(c) \/ ClientGone(c) \/ Unregister(c)
Run == RunRegister \/ RunUnregister \/ RunBroadcast

Next == \/ \E c \in Clients : Handler(c)
        \/ \E e \in Events : Broadcast(e)
        \/ Run

Spec == Init /\ [][Next]_vars

------------------------------------------------------------------------------
(* What the manager promises, as long as events are broadcast in order.    *)

\* A client is greeted first, and then gets events in the order in which they were
\* broadcast, none of them twice, whatever it misses for being slow.
DeliveredInOrder ==
    \A c \in Clients : LET s == got[c] \o channel[c] IN
        /\ s # <<>> => s[1] = Connected
        /\ \A i, j \in DOMAIN s : i < j => s[i] < s[j]

\* run never has a closed channel among its clients, so no broadcast panics: a
\* channel is closed in the step that removes it, and one that was closed before
\* it was registered brings the process down at once.
RegisteredAreOpen == crashed \/ clients \cap closed = {}

\* A client that has gone is removed and its channel closed in the end, also when
\* select serves the requests in the wrong order, unless that crashes the process.
GoneIsRemoved ==
    \A c \in Clients : (handler[c] = "left") ~> (crashed \/ c \in closed \ clients)
==============================================================================
