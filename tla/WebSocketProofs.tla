--------------------------- MODULE WebSocketProofs ---------------------------
(***************************************************************************)
(* Proofs about module WebSocket, for any clients and channel capacities.   *)
(***************************************************************************)
EXTENDS WebSocket, DataLemmas

Readers == {"none", "reading", "replying", "leaving", "left"}

TypeInv ==
    /\ reader \in [Clients -> Readers]
    /\ register \in Seq(Clients) /\ unregister \in Seq(Clients)
    /\ broadcast \in Seq(Int)
    /\ clients \subseteq Clients /\ closed \subseteq Clients
    /\ serving \in [msg : Int, to : SUBSET Clients] /\ direct \subseteq Clients
    /\ published \in Nat
    /\ latest \in [Clients -> Int]
    /\ panicked \in BOOLEAN

\* A client is registered once, and is in one place on its way: not yet accepted, in the
\* register channel, in the map, or closed.
OnePlace ==
    /\ Distinct(register)
    /\ \A c \in Clients :
          /\ reader[c] = "none" => c \notin Range(register) \cup clients \cup closed
          /\ c \in Range(register) => c \notin clients \cup closed
          /\ c \in clients => c \notin closed

\* Who asked to be removed answers no more pings, and nobody is closed who did not ask.
AskedIsDone == \A c \in Range(unregister) \cup closed : reader[c] = "left"

\* Whoever goes through the map does so over clients that stay in it.
MapHeld == serving.to \subseteq clients /\ direct \subseteq clients

SafeInv == TypeInv /\ OnePlace /\ AskedIsDone /\ MapHeld /\ ~panicked

LEMMA InitSafe == Init => SafeInv
<1> SUFFICES ASSUME Init PROVE SafeInv
  OBVIOUS
<1>1. Range(<<>>) = {} /\ Distinct(<<>>)
  BY DEF Range, Distinct
<1>2. TypeInv
  <2>1. Idle \in [msg : Int, to : SUBSET Clients]
    BY DEF Idle, Other
  <2>2. <<>> \in Seq(Clients) /\ <<>> \in Seq(Int)
    OBVIOUS
  <2>3. /\ reader \in [Clients -> Readers] /\ latest \in [Clients -> Int]
    BY DEF Init, Readers
  <2>4. panicked \in BOOLEAN
    BY DEF Init
  <2> QED BY <2>1, <2>2, <2>3, <2>4 DEF Init, TypeInv
<1>3. OnePlace /\ AskedIsDone /\ MapHeld
  BY <1>1 DEF Init, Idle, OnePlace, AskedIsDone, MapHeld
<1> QED BY <1>2, <1>3 DEF Init, SafeInv

\* A send on a channel that is open harms nobody.
LEMMA SendIsSafe ==
    ASSUME SafeInv, NEW c \in Clients \ closed, NEW m \in Int, TrySend(c, m)
    PROVE  /\ panicked' = panicked
           /\ latest' \in [Clients -> Int]
           /\ \/ UNCHANGED latest
              \/ m # Other /\ latest' = [latest EXCEPT ![c] = m]
BY DEF TrySend, Put, SafeInv, TypeInv

LEMMA ClientSafe == ASSUME SafeInv, NEW c \in Clients, Client(c) PROVE SafeInv'
<1> USE DEF SafeInv, TypeInv, Readers, pumps, requests
<1>1. CASE HandleWebSocket(c)
  <2>1. /\ reader[c] = "none" /\ register' = Append(register, c)
        /\ reader' = [reader EXCEPT ![c] = "reading"]
        /\ UNCHANGED <<unregister, broadcast, clients, closed, serving, direct, published,
                       latest, panicked>>
    BY <1>1 DEF HandleWebSocket
  <2>2. c \notin Range(register) \cup clients \cup closed
    BY <2>1 DEF OnePlace
  <2>3. register' \in Seq(Clients) /\ Range(register') = Range(register) \cup {c}
    BY <2>1, AppendRange
  <2>4. Distinct(register')
    BY <2>1, <2>2, AppendDistinct DEF OnePlace
  <2>5. OnePlace'
    BY <2>1, <2>2, <2>3, <2>4 DEF OnePlace
  <2>6. AskedIsDone'
    BY <2>1 DEF AskedIsDone
  <2> QED BY <2>1, <2>3, <2>5, <2>6 DEF MapHeld
<1>2. CASE ConnectionLost(c) \/ Write(c) \/ WriteFails(c) \/ WriterEnds(c)
  BY <1>2 DEF ConnectionLost, Write, WriteFails, WriterEnds, WriterLeaves, OnePlace, AskedIsDone,
              MapHeld
<1>3. CASE Reply(c)
  <2>1. /\ reader[c] = "replying" /\ TrySend(c, Other)
        /\ reader' = [reader EXCEPT ![c] = "reading"]
        /\ UNCHANGED <<register, unregister, broadcast, published, clients, closed, serving,
                       direct>>
    BY <1>3 DEF Reply
  <2>2. c \notin closed /\ Other \in Int
    BY <2>1 DEF AskedIsDone, Other
  <2>3. panicked' = panicked /\ latest' \in [Clients -> Int]
    BY <2>1, <2>2, SendIsSafe
  <2>4. OnePlace'
    BY <2>1 DEF OnePlace
  <2>5. AskedIsDone'
    BY <2>1, <2>2 DEF AskedIsDone
  <2>6. TypeInv' /\ MapHeld'
    BY <2>1, <2>3 DEF MapHeld
  <2> QED BY <2>3, <2>4, <2>5, <2>6
<1>4. CASE ReadPing(c) \/ ReadFails(c)
  <2>1. /\ reader[c] = "reading"
        /\ \E r \in {"replying", "leaving"} : reader' = [reader EXCEPT ![c] = r]
        /\ UNCHANGED <<register, unregister, broadcast, published, clients, closed, serving,
                       direct, latest, panicked>>
    BY <1>4 DEF ReadPing, ReadFails
  <2> QED BY <2>1 DEF OnePlace, AskedIsDone, MapHeld
<1>5. CASE Unregister(c)
  <2>1. /\ reader[c] = "leaving" /\ unregister' = Append(unregister, c)
        /\ reader' = [reader EXCEPT ![c] = "left"]
        /\ UNCHANGED <<register, broadcast, published, clients, closed, serving, direct,
                       latest, panicked>>
    BY <1>5 DEF Unregister
  <2>2. unregister' \in Seq(Clients) /\ Range(unregister') = Range(unregister) \cup {c}
    BY <2>1, AppendRange
  <2> QED BY <2>1, <2>2 DEF OnePlace, AskedIsDone, MapHeld
<1> QED BY <1>1, <1>2, <1>3, <1>4, <1>5 DEF Client

LEMMA RunSafe == ASSUME SafeInv, Run PROVE SafeInv'
<1> USE DEF SafeInv, TypeInv, Readers, pumps, requests
<1>1. CASE RunRegister
  <2> DEFINE c == Head(register)
  <2>1. /\ register # <<>> /\ register' = Tail(register) /\ clients' = clients \cup {c}
        /\ UNCHANGED <<reader, unregister, broadcast, published, closed, serving, direct,
                       latest, panicked>>
    BY <1>1 DEF RunRegister
  <2>2. c \in Range(register) /\ Range(register) = {c} \cup Range(register') /\ c \in Clients
        /\ register' \in Seq(Clients)
    BY <2>1, HeadTailRange, HeadTailProperties
  <2>3. Distinct(register') /\ c \notin Range(register')
    BY <2>1, HeadTailDistinct DEF OnePlace
  <2> HIDE DEF c
  <2> QED BY <2>1, <2>2, <2>3 DEF OnePlace, AskedIsDone, MapHeld
<1>2. CASE RunUnregister
  <2> DEFINE c == Head(unregister)
  <2>1. /\ unregister # <<>> /\ unregister' = Tail(unregister)
        /\ clients' = clients \ {c} /\ closed' = closed \cup ({c} \cap clients)
        /\ panicked' = (panicked \/ c \in clients \cap closed)
        /\ serving.to = {} /\ direct = {}
        /\ UNCHANGED <<reader, register, broadcast, published, serving, direct, latest>>
    BY <1>2 DEF RunUnregister, MapFree
  <2>2. c \in Range(unregister) /\ Range(unregister) = {c} \cup Range(unregister')
        /\ c \in Clients /\ unregister' \in Seq(Clients)
    BY <2>1, HeadTailRange, HeadTailProperties
  <2> HIDE DEF c
  <2>3. c \notin clients \cap closed
    BY <2>2 DEF OnePlace
  <2>4. panicked' = FALSE
    BY <2>1, <2>3
  <2>5. OnePlace'
    BY <2>1, <2>2 DEF OnePlace
  <2> QED BY <2>1, <2>2, <2>4, <2>5 DEF AskedIsDone, MapHeld
<1>3. CASE RunBroadcast
  <2>1. /\ broadcast # <<>> /\ broadcast' = Tail(broadcast)
        /\ serving' = [msg |-> Head(broadcast), to |-> clients]
        /\ UNCHANGED <<reader, register, unregister, published, clients, closed, direct,
                       latest, panicked>>
    BY <1>3 DEF RunBroadcast
  <2>2. Head(broadcast) \in Int /\ broadcast' \in Seq(Int)
    BY <2>1, HeadTailProperties
  <2> QED BY <2>1, <2>2 DEF OnePlace, AskedIsDone, MapHeld
<1>4. ASSUME NEW c \in Clients, RunSend(c) PROVE SafeInv'
  <2>1. /\ c \in serving.to /\ TrySend(c, serving.msg)
        /\ serving' \in [msg : Int, to : SUBSET Clients] /\ serving'.to \subseteq serving.to
        /\ UNCHANGED <<reader, register, unregister, broadcast, published, clients, closed,
                       direct>>
    <3>1. serving' = Idle \/ serving' = [serving EXCEPT !.to = serving.to \ {c}]
      BY <1>4 DEF RunSend
    <3>2. Idle \in [msg : Int, to : SUBSET Clients] /\ Idle.to = {}
      BY DEF Idle, Other
    <3>3. /\ serving' \in [msg : Int, to : SUBSET Clients]
          /\ serving'.to \subseteq serving.to
      BY <3>1, <3>2
    <3> QED BY <1>4, <3>3 DEF RunSend
  <2>2. c \notin closed /\ serving.msg \in Int
    BY <2>1 DEF OnePlace, MapHeld
  <2>3. panicked' = panicked /\ latest' \in [Clients -> Int]
    BY <2>1, <2>2, SendIsSafe
  <2> QED BY <2>1, <2>3 DEF OnePlace, AskedIsDone, MapHeld
<1> QED BY <1>1, <1>2, <1>3, <1>4 DEF Run

LEMMA CallersSafe == ASSUME SafeInv, Callers PROVE SafeInv'
<1> USE DEF SafeInv, TypeInv, Readers, pumps, requests
<1>1. CASE Broadcast
  <2>1. /\ published' = published + 1
        /\ broadcast' = broadcast \/ broadcast' = Append(broadcast, published')
        /\ UNCHANGED <<reader, register, unregister, clients, closed, serving, direct,
                       latest, panicked>>
    BY <1>1 DEF Broadcast
  <2>2. broadcast' \in Seq(Int) /\ published' \in Nat
    <3>1. published' \in Nat /\ published' \in Int
      BY <2>1
    <3> HIDE DEF TypeInv
    <3>2. broadcast \in Seq(Int)
      BY DEF TypeInv
    <3> QED BY <2>1, <3>1, <3>2, AppendProperties
  <2> QED BY <2>1, <2>2 DEF OnePlace, AskedIsDone, MapHeld
<1>2. CASE BroadcastToDashboards
  BY <1>2 DEF BroadcastToDashboards, OnePlace, AskedIsDone, MapHeld
<1>3. ASSUME NEW c \in Clients, c \in clients, TrySend(c, Other), direct' \subseteq direct,
             UNCHANGED <<pumps, requests, clients, closed, serving>>
      PROVE  SafeInv'
  <2>1. c \notin closed /\ Other \in Int
    BY <1>3 DEF OnePlace, Other
  <2>2. panicked' = panicked /\ latest' \in [Clients -> Int]
    BY <1>3, <2>1, SendIsSafe
  <2> QED BY <1>3, <2>2 DEF OnePlace, AskedIsDone, MapHeld
<1>4. ASSUME NEW c \in Clients, DirectSend(c) PROVE SafeInv'
  BY <1>3, <1>4 DEF DirectSend, MapHeld
<1>5. ASSUME NEW id, SendToClient(id) PROVE SafeInv'
  <2>1. PICK c \in clients : TrySend(c, Other)
    BY <1>5 DEF SendToClient
  <2> QED BY <1>3, <1>5, <2>1 DEF SendToClient
<1> QED BY <1>1, <1>2, <1>4, <1>5 DEF Callers

LEMMA StepSafe == SafeInv /\ [Next]_vars => SafeInv'
<1> SUFFICES ASSUME SafeInv, [Next]_vars PROVE SafeInv'
  OBVIOUS
<1>1. CASE UNCHANGED vars
  BY <1>1 DEF vars, pumps, requests, SafeInv, TypeInv, OnePlace, AskedIsDone, MapHeld
<1> QED BY <1>1, ClientSafe, RunSafe, CallersSafe DEF Next

\* Nobody ever sends on a closed Send channel or closes one twice, for any number of
\* clients: the reader that asks for the closing has answered its last ping.
THEOREM NobodyPanics == Spec => []NeverPanics
<1>1. SafeInv => NeverPanics
  BY DEF SafeInv, NeverPanics
<1> QED BY <1>1, InitSafe, StepSafe, PTL DEF Spec

------------------------------------------------------------------------------
(* WebSocket implements PubSub.                                             *)

\* The broadcasts that wait are in order and above all that anyone was given; the one
\* being passed on is between the two for those who still are to get it.
InOrder ==
    /\ Ascending(broadcast)
    /\ \A m \in Range(broadcast) : m \in 1..published
    /\ \A c \in Clients : latest[c] <= published
    /\ \A c \in Clients, m \in Range(broadcast) : latest[c] < m
    /\ serving.to # {} => /\ serving.msg \in 1..published
                          /\ \A m \in Range(broadcast) : serving.msg < m
    /\ \A c \in serving.to : latest[c] < serving.msg

OrderInv == SafeInv /\ InOrder

LEMMA InitOrder == Init => OrderInv /\ Topic!Init
<1> SUFFICES ASSUME Init PROVE OrderInv /\ Topic!Init
  OBVIOUS
<1>1. Range(<<>>) = {} /\ Ascending(<<>>)
  BY DEF Range, Ascending
<1> QED BY <1>1, InitSafe DEF Init, Idle, Other, OrderInv, InOrder, Topic!Init

\* What InOrder and PubSub speak of.
Passed == <<published, clients, closed, latest, broadcast, serving>>

\* The steps that touch it.
LEMMA TopicSteps ==
    ASSUME SafeInv, [Next]_vars
    PROVE  \/ UNCHANGED Passed
           \/ RunRegister \/ RunUnregister \/ RunBroadcast \/ Broadcast
           \/ \E c \in Clients : RunSend(c)
<1> USE DEF SafeInv, TypeInv, Passed, requests, pumps
<1>1. ASSUME NEW c \in Clients, Client(c) PROVE UNCHANGED Passed
  BY <1>1 DEF Client, HandleWebSocket, ConnectionLost, ReadPing, Reply, ReadFails, Unregister,
              Write, WriteFails, WriterEnds, WriterLeaves, TrySend, Put
<1>2. CASE Callers
  BY <1>2 DEF Callers, BroadcastToDashboards, SendToClient, DirectSend, TrySend, Put
<1>3. CASE UNCHANGED vars
  BY <1>3 DEF vars
<1> QED BY <1>1, <1>2, <1>3 DEF Next, Run

LEMMA StepOrder == OrderInv /\ [Next]_vars => OrderInv' /\ [Topic!Next]_Topic!vars
<1> SUFFICES ASSUME OrderInv, [Next]_vars
             PROVE  InOrder' /\ (Topic!Next \/ UNCHANGED Topic!vars)
  BY StepSafe DEF OrderInv
<1> USE DEF OrderInv, SafeInv, TypeInv, pumps, requests
<1>1. CASE UNCHANGED Passed
  BY <1>1 DEF Passed, InOrder, Topic!vars
<1>2. CASE RunRegister
  <2>1. UNCHANGED <<published, closed, latest, broadcast, serving>>
        /\ clients' = clients \cup {Head(register)}
    BY <1>2 DEF RunRegister
  <2>2. Head(register) \in Range(register) /\ Head(register) \in Clients
    BY <1>2, HeadTailRange, HeadTailProperties DEF RunRegister
  <2>3. Topic!Join(Head(register))
    BY <2>1, <2>2 DEF OnePlace, Topic!Join
  <2> QED BY <2>1, <2>2, <2>3 DEF InOrder, Topic!Next
<1>3. CASE RunUnregister
  <2> DEFINE c == Head(unregister)
  <2>1. /\ UNCHANGED <<published, latest, broadcast, serving>>
        /\ clients' = clients \ {c} /\ closed' = closed \cup ({c} \cap clients)
    BY <1>3 DEF RunUnregister
  <2> HIDE DEF c
  <2>2. CASE c \in clients
    <3>1. Topic!Leave(c) /\ c \in Clients
      BY <2>1, <2>2 DEF Topic!Leave
    <3> QED BY <2>1, <3>1 DEF InOrder, Topic!Next
  <2>3. CASE c \notin clients
    <3>1. UNCHANGED <<clients, closed>>
      BY <2>1, <2>3
    <3> QED BY <2>1, <3>1 DEF InOrder, Topic!vars
  <2> QED BY <2>2, <2>3
<1>4. CASE RunBroadcast
  <2> DEFINE m == Head(broadcast)
  <2>1. /\ broadcast # <<>> /\ broadcast' = Tail(broadcast)
        /\ serving' = [msg |-> m, to |-> clients]
        /\ UNCHANGED <<published, clients, closed, latest>>
    BY <1>4 DEF RunBroadcast
  <2>2. m \in Range(broadcast) /\ Range(broadcast) = {m} \cup Range(broadcast')
    BY <2>1, HeadTailRange
  <2>3. Ascending(broadcast') /\ \A n \in Range(broadcast') : m < n
    BY <2>1, HeadTailAscending DEF InOrder
  <2> HIDE DEF m
  <2>4. serving'.msg = m /\ serving'.to = clients
    BY <2>1
  <2>5. InOrder'
    BY <2>1, <2>2, <2>3, <2>4 DEF InOrder
  <2> QED BY <2>1, <2>5 DEF Topic!vars
<1>5. CASE Broadcast
  <2> DEFINE n == published + 1
  <2>1. /\ published' = n
        /\ broadcast' = broadcast \/ broadcast' = Append(broadcast, n)
        /\ UNCHANGED <<clients, closed, latest, serving>>
    BY <1>5 DEF Broadcast
  <2>2. n \in Int /\ (\A m \in Range(broadcast) : m \in Int /\ m < n) /\ 1..published \subseteq 1..n
        /\ n \in 1..n /\ (\A k \in Int : k <= published => k < n /\ k <= n)
    BY DEF InOrder
  <2> HIDE DEF n
  <2>3. Ascending(broadcast') /\ Range(broadcast') \subseteq Range(broadcast) \cup {n}
    <3>1. broadcast \in Seq(Int) /\ Ascending(broadcast)
      BY DEF InOrder
    <3>2. CASE broadcast' = broadcast
      BY <3>1, <3>2
    <3>3. CASE broadcast' = Append(broadcast, n)
      <4>1. Ascending(Append(broadcast, n))
        BY <2>2, <3>1, AppendAscending
      <4>2. Range(Append(broadcast, n)) = Range(broadcast) \cup {n}
        BY <2>2, <3>1, AppendRange
      <4> QED BY <3>3, <4>1, <4>2
    <3> QED BY <2>1, <3>2, <3>3
  <2>4. \A c \in Clients : latest[c] \in Int /\ latest[c] < n /\ latest[c] <= n
    BY <2>2 DEF InOrder
  <2>5. serving.to # {} => serving.msg \in Int /\ serving.msg < n
    <3>1. \A k \in 1..published : k \in Int /\ k <= published
      OBVIOUS
    <3>2. serving.to # {} => serving.msg \in 1..published
      BY DEF InOrder
    <3> QED BY <2>2, <3>1, <3>2
  <2>6. InOrder'
    BY <2>1, <2>2, <2>3, <2>4, <2>5 DEF InOrder
  <2>7. Topic!Publish
    BY <2>1 DEF Topic!Publish, n
  <2> QED BY <2>6, <2>7 DEF Topic!Next
<1>6. ASSUME NEW c \in Clients, RunSend(c)
      PROVE  InOrder' /\ (Topic!Next \/ UNCHANGED Topic!vars)
  <2> DEFINE m == serving.msg
  <2>1. /\ c \in serving.to /\ TrySend(c, m)
        /\ serving' = IF serving.to = {c} THEN Idle ELSE [serving EXCEPT !.to = @ \ {c}]
        /\ UNCHANGED <<published, clients, closed, broadcast>>
    BY <1>6 DEF RunSend
  <2>2. c \in clients /\ c \notin closed /\ m \in 1..published /\ latest[c] < m /\ m # Other
        /\ m \in Int /\ \A k \in Range(broadcast) : m < k
    BY <2>1 DEF OnePlace, MapHeld, InOrder, Other
  <2>3. serving'.to = serving.to \ {c} /\ (serving'.to # {} => serving'.msg = m)
    BY <2>1 DEF Idle
  <2> HIDE DEF m
  <2>4. UNCHANGED latest \/ latest' = [latest EXCEPT ![c] = m]
    BY <2>1, <2>2, SendIsSafe
  <2>5. \A d \in Clients : latest'[d] = latest[d] \/ (d = c /\ latest'[d] = m)
    BY <2>4
  <2>6. InOrder'
    <3>1. serving.to # {} /\ m <= published /\ \A d \in serving.to : latest[d] < m
      BY <2>1, <2>2 DEF InOrder, m
    <3>2. \A d \in Clients : latest'[d] <= published
      BY <2>2, <2>5, <3>1 DEF InOrder
    <3>3. \A d \in Clients, k \in Range(broadcast) : latest'[d] < k
      BY <2>2, <2>5 DEF InOrder
    <3>4. \A d \in serving'.to : latest'[d] < serving'.msg
      BY <2>3, <2>5, <3>1
    <3> QED BY <2>1, <2>2, <2>3, <3>2, <3>3, <3>4 DEF InOrder
  <2>7. CASE UNCHANGED latest
    BY <2>1, <2>6, <2>7 DEF Topic!vars
  <2>8. CASE latest' = [latest EXCEPT ![c] = m]
    <3>1. Topic!Deliver(c, m)
      BY <2>1, <2>2, <2>8 DEF Topic!Deliver
    <3> QED BY <2>2, <2>6, <3>1 DEF Topic!Next
  <2> QED BY <2>4, <2>7, <2>8
<1> QED BY <1>1, <1>2, <1>3, <1>4, <1>5, <1>6, TopicSteps

\* A client gets broadcasts in the order in which they were made, none twice, only while
\* it is registered, and is not registered again after it was removed.
THEOREM PubSubImplemented == Spec => ImplementsPubSub
BY InitOrder, StepOrder, PTL DEF Spec, ImplementsPubSub, Topic!Spec
==============================================================================
