--------------------------- MODULE LogStreamProofs ---------------------------
(***************************************************************************)
(* Proofs about module LogStream, for any clients, lines and channel        *)
(* capacities.                                                              *)
(***************************************************************************)
EXTENDS LogStream, DataLemmas

------------------------------------------------------------------------------
(* The writer: what cmd.Wait reports.                                       *)

Kinds == {"line", "too long", "partial"}

\* The copier finishes only after the process, when nothing is left to copy; cmd.Wait
\* reports success only after that, and no line was taken that is too long.
WaitInv ==
    /\ output \in Seq(Kinds) /\ copied \in 0..W!written
    /\ \A n \in 1..copied : ~W!TooLong(n)
    /\ copier \in {"copying", "done", "failed"}
    /\ copier = "done" => process # "alive" /\ copied = W!written
    /\ wait = "ok" => copier = "done"

LEMMA WaitStep == WaitInv /\ [Next]_vars => WaitInv'
<1> SUFFICES ASSUME WaitInv, [Next]_vars PROVE WaitInv'
  OBVIOUS
<1>1. /\ output \in Seq(Kinds) /\ copied \in 0..Len(output) /\ Len(output) \in Nat
  BY DEF WaitInv, W!written
<1>2. ASSUME copied' \in 0..Len(output'), output' \in Seq(Kinds),
             \A n \in 1..copied' : output'[n] # "too long",
             copier' \in {"copying", "done", "failed"},
             copier' = "done" => process' # "alive" /\ copied' = Len(output'),
             wait' = "ok" => copier' = "done"
      PROVE  WaitInv'
  BY <1>2 DEF WaitInv, W!written, W!TooLong
<1>3. \A n \in 1..copied : output[n] # "too long"
  BY DEF WaitInv, W!TooLong
<1>4. /\ copier \in {"copying", "done", "failed"}
      /\ copier = "done" => process # "alive" /\ copied = Len(output)
      /\ wait = "ok" => copier = "done"
  BY DEF WaitInv, W!written
<1>5. CASE UNCHANGED <<process, output, copied, copier, wait>>
  BY <1>1, <1>2, <1>3, <1>4, <1>5
<1>6. CASE TaskProcess
  <2>1. ASSUME NEW code \in {"ok", "error"}, W!ProcessExits(code) PROVE WaitInv'
    BY <1>1, <1>2, <1>3, <1>4, <2>1 DEF W!ProcessExits
  <2>2. ASSUME NEW kind \in Kinds, W!WriteLine(kind) PROVE WaitInv'
    <3>1. /\ output' = Append(output, kind) /\ copier = "copying"
          /\ UNCHANGED <<process, copied, copier, wait>>
      BY <2>2 DEF W!WriteLine
    <3>2. /\ output' \in Seq(Kinds) /\ Len(output') = Len(output) + 1
          /\ \A n \in 1..Len(output) : output'[n] = output[n]
      BY <1>1, <3>1, AppendProperties
    <3>3. copied \in 0..Len(output') /\ \A n \in 1..copied : output'[n] # "too long"
      <4>1. \A n \in 1..copied : n \in 1..Len(output)
        BY <1>1
      <4>2. copied \in 0..Len(output) + 1
        BY <1>1
      <4> QED BY <1>3, <3>2, <4>1, <4>2
    <3> QED BY <1>2, <1>4, <3>1, <3>2, <3>3
  <2> QED BY <1>6, <2>1, <2>2 DEF TaskProcess, Kinds
<1>7. CASE Copies
  <2>1. CASE W!Write
    <3>1. PICK m \in copied + 1 .. Len(output) : /\ copied' = m
                                                 /\ \A l \in copied + 1 .. m : ~W!TooLong(l)
      BY <2>1 DEF W!Write, W!written
    <3>2. m \in 0..Len(output) /\ \A n \in 1..m : n \in 1..copied \/ n \in copied + 1 .. m
      BY <1>1, <3>1
    <3>3. UNCHANGED <<output, process, copier, wait>> /\ copier = "copying"
      BY <2>1 DEF W!Write
    <3>4. \A n \in 1..m : output[n] # "too long"
      BY <1>3, <3>1, <3>2 DEF W!TooLong
    <3> QED BY <1>1, <1>2, <1>4, <3>1, <3>2, <3>3, <3>4
  <2>2. CASE W!WriteTooLong \/ W!CopierDone
    <3>1. /\ UNCHANGED <<output, process, copied, wait>> /\ copier = "copying"
          /\ \/ copier' = "failed"
             \/ copier' = "done" /\ process # "alive" /\ copied = Len(output)
      BY <2>2 DEF W!WriteTooLong, W!CopierDone, W!written
    <3> QED BY <1>1, <1>2, <1>3, <1>4, <3>1
  <2> QED BY <1>7, <2>1, <2>2 DEF Copies, W!Copier
<1>8. CASE Waits
  <2>1. /\ UNCHANGED <<output, process, copied, copier>> /\ copier # "copying"
        /\ wait' = "ok" => copier # "failed"
    BY <1>8 DEF Waits, W!WaitReturns
  <2> QED BY <1>1, <1>2, <1>3, <1>4, <2>1
<1> QED BY <1>5, <1>6, <1>7, <1>8 DEF Next, Streams, vars, wvars, Announces, W!Announce, Logs,
          W!LogLine

\* No line is lost in silence: if cmd.Wait reports success, the scanner has every line that
\* the process ended with a newline, and none of them was too long for it.
THEOREM NoLineLostSilently == Spec => []LineLossReported
<1>1. Init => WaitInv
  BY DEF Init, W!Init, WaitInv, W!written, W!TooLong
<1>2. WaitInv => LineLossReported
  <2>1. SUFFICES ASSUME WaitInv, wait = "ok" PROVE W!LineLossReported
    BY DEF LineLossReported, W!LineLossReported
  <2>2. copied = Len(output) /\ Len(output) \in Nat /\ \A n \in 1..copied : ~W!TooLong(n)
    BY <2>1 DEF WaitInv, W!written
  <2> QED BY <2>2 DEF W!LineLossReported, W!written
<1> QED BY <1>1, <1>2, WaitStep, PTL DEF Spec

------------------------------------------------------------------------------
(* The manager: the order of delivery.                                      *)

\* Everything that ever went into the channel of c.
Stream(c) == got[c] \o channel[c]

TypeInv ==
    /\ handler \in [Clients -> {"none", "open", "leaving", "left"}]
    /\ register \in Seq(Clients) /\ broadcast \in Seq(Int)
    /\ clients \subseteq Clients
    /\ channel \in [Clients -> Seq(Int)] /\ got \in [Clients -> Seq(Int)]
    /\ crashed \in BOOLEAN
    /\ announced \in Nat

\* Before its request is served a client has been sent nothing, and it makes only one;
\* once it is registered it has been greeted, unless that has crashed the process.
Greeted ==
    /\ Distinct(register)
    /\ \A c \in Clients :
          /\ handler[c] = "none" => c \notin Range(register) /\ c \notin clients
                                     /\ Stream(c) = <<>>
          /\ c \in Range(register) => c \notin clients /\ Stream(c) = <<>>
          /\ c \in clients => crashed \/ Stream(c) # <<>>

\* The lines that wait to be broadcast come after all that any client was sent.
InOrder ==
    /\ Ascending(broadcast)
    /\ \A e \in Range(broadcast) : 1 <= e /\ e <= announced
    /\ \A c \in Clients :
          /\ Stream(c) # <<>> => Stream(c)[1] = M!Connected
          /\ Ascending(Stream(c))
          /\ \A x \in Range(Stream(c)) : x <= announced /\ \A e \in Range(broadcast) : x < e

StreamInv == TypeInv /\ Greeted /\ InOrder

\* A client that is sent what comes after all it had has still an ordered stream.
LEMMA SendKeepsOrder ==
    ASSUME NEW s \in Seq(Int), NEW e \in Int, Ascending(s),
           s # <<>> => s[1] = M!Connected, s = <<>> => e = M!Connected,
           \A x \in Range(s) : x < e
    PROVE  /\ Append(s, e) \in Seq(Int) /\ Append(s, e) # <<>>
           /\ Append(s, e)[1] = M!Connected
           /\ Ascending(Append(s, e))
           /\ Range(Append(s, e)) = Range(s) \cup {e}
<1>1. Append(s, e) \in Seq(Int) /\ Append(s, e) # <<>>
  BY AppendProperties
<1>2. Append(s, e)[1] = M!Connected
  <2>1. CASE s = <<>>
    BY <2>1
  <2>2. CASE s # <<>>
    <3>1. Len(s) \in Nat \ {0} /\ 1 \in 1..Len(s)
      BY <2>2, EmptySeq
    <3> QED BY <2>2, <3>1, AppendProperties
  <2> QED BY <2>1, <2>2
<1>3. Ascending(Append(s, e))
  BY AppendAscending
<1> QED BY <1>1, <1>2, <1>3, AppendRange

\* What a stream becomes when e is put into some of the channels that have room.
LEMMA SentStreams ==
    ASSUME TypeInv, NEW C \in SUBSET Clients, NEW e \in Int, channel' = M!Send(C, e), got' = got
    PROVE  /\ channel' \in [Clients -> Seq(Int)]
           /\ \A c \in Clients :
                 \/ Stream(c)' = Stream(c) /\ (c \notin C \/ Len(channel[c]) >= ClientCap)
                 \/ Stream(c)' = Append(Stream(c), e) /\ c \in C
<1> USE DEF TypeInv
<1>1. \A c \in Clients : channel'[c] = IF c \in C /\ Len(channel[c]) < ClientCap
                                       THEN Append(channel[c], e) ELSE channel[c]
  BY DEF M!Send
<1>2. \A c \in Clients : channel[c] \in Seq(Int) /\ got[c] \in Seq(Int)
  OBVIOUS
<1>3. \A c \in Clients : Append(channel[c], e) \in Seq(Int)
  BY <1>2, AppendProperties
<1>4. channel' \in [Clients -> Seq(Int)]
  BY <1>2, <1>3 DEF M!Send
<1>5. ASSUME NEW c \in Clients
      PROVE  \/ Stream(c)' = Stream(c) /\ (c \notin C \/ Len(channel[c]) >= ClientCap)
             \/ Stream(c)' = Append(Stream(c), e) /\ c \in C
  <2>1. CASE c \in C /\ Len(channel[c]) < ClientCap
    <3>1. got[c] \o Append(channel[c], e) = Append(got[c] \o channel[c], e)
      BY <1>2, AppendConcat
    <3> QED BY <1>1, <2>1, <3>1 DEF Stream
  <2>2. CASE ~(c \in C /\ Len(channel[c]) < ClientCap)
    <3>1. Len(channel[c]) \in Nat /\ ClientCap \in Nat
      BY <1>2, LogStreamAssumption
    <3>2. channel'[c] = channel[c] /\ (c \notin C \/ Len(channel[c]) >= ClientCap)
      BY <1>1, <2>2, <3>1
    <3>3. Stream(c)' = Stream(c)
      BY <3>2 DEF Stream
    <3> QED BY <3>2, <3>3
  <2> QED BY <2>1, <2>2
<1> QED BY <1>4, <1>5

\* Every stream is a sequence.
LEMMA StreamType == ASSUME TypeInv PROVE \A c \in Clients : Stream(c) \in Seq(Int)
BY ConcatProperties DEF TypeInv, Stream

LEMMA HandlerKeeps ==
    ASSUME StreamInv, NEW c \in Clients, M!Handler(c), UNCHANGED wvars
    PROVE  StreamInv'
<1> USE DEF StreamInv, TypeInv, wvars
<1>1. CASE M!Register(c)
  <2>1. /\ handler[c] = "none" /\ register' = Append(register, c)
        /\ handler' = [handler EXCEPT ![c] = "open"]
        /\ UNCHANGED <<broadcast, clients, channel, got, crashed, announced>>
    BY <1>1 DEF M!Register
  <2>2. c \notin Range(register) /\ c \notin clients /\ Stream(c) = <<>>
    BY <2>1 DEF Greeted
  <2>3. register' \in Seq(Clients) /\ Range(register') = Range(register) \cup {c}
    BY <2>1, AppendRange
  <2>4. Distinct(register')
    BY <2>1, <2>2, AppendDistinct DEF Greeted
  <2>5. \A d \in Clients : Stream(d)' = Stream(d)
    BY <2>1 DEF Stream
  <2>6. Greeted'
    BY <2>1, <2>2, <2>3, <2>4, <2>5 DEF Greeted
  <2>7. InOrder'
    BY <2>1, <2>5 DEF InOrder
  <2> QED BY <2>1, <2>3, <2>6, <2>7
<1>2. CASE M!Receive(c)
  <2>1. /\ channel[c] # <<>>
        /\ got' = [got EXCEPT ![c] = Append(got[c], Head(channel[c]))]
        /\ channel' = [channel EXCEPT ![c] = Tail(channel[c])]
        /\ UNCHANGED <<handler, register, broadcast, clients, crashed, announced>>
    BY <1>2 DEF M!Receive
  <2>2. /\ channel[c] \in Seq(Int) /\ got[c] \in Seq(Int)
        /\ Head(channel[c]) \in Int /\ Tail(channel[c]) \in Seq(Int)
        /\ Append(got[c], Head(channel[c])) \in Seq(Int)
    BY <2>1, HeadTailProperties, AppendProperties
  <2>3. channel' \in [Clients -> Seq(Int)] /\ got' \in [Clients -> Seq(Int)]
    BY <2>1, <2>2
  <2>4. Append(got[c], Head(channel[c])) \o Tail(channel[c]) = got[c] \o channel[c]
    BY <2>1, <2>2, HandOver
  <2>5. \A d \in Clients : Stream(d)' = Stream(d)
    BY <2>1, <2>4 DEF Stream
  <2>6. Greeted' /\ InOrder'
    BY <2>1, <2>5 DEF Greeted, InOrder
  <2> QED BY <2>1, <2>3, <2>6
<1>3. CASE M!ClientGone(c) \/ M!Unregister(c)
  <2>1. /\ \E h \in {"leaving", "left"} : handler' = [handler EXCEPT ![c] = h]
        /\ UNCHANGED <<register, broadcast, clients, channel, got, crashed, announced>>
    BY <1>3 DEF M!ClientGone, M!Unregister
  <2>2. \A d \in Clients : Stream(d)' = Stream(d)
    BY <2>1 DEF Stream
  <2>3. Greeted' /\ InOrder'
    BY <2>1, <2>2 DEF Greeted, InOrder
  <2> QED BY <2>1, <2>3
<1> QED BY <1>1, <1>2, <1>3 DEF M!Handler

LEMMA RegisterKeeps ==
    ASSUME StreamInv, M!RunRegister, UNCHANGED wvars
    PROVE  StreamInv'
<1> USE DEF StreamInv, TypeInv, wvars
<1>0. register # <<>> /\ Head(register) \in Clients
  BY HeadTailProperties DEF M!RunRegister
<1> PICK c \in Clients : c = Head(register)
  BY <1>0
<1>1. /\ register # <<>> /\ register' = Tail(register) /\ clients' = clients \cup {c}
      /\ \/ crashed' = TRUE /\ UNCHANGED channel
         \/ channel' = M!Send({c}, M!Connected) /\ UNCHANGED crashed
      /\ UNCHANGED <<handler, broadcast, got, announced>>
  BY DEF M!RunRegister
<1>2. c \in Range(register) /\ Range(register) = {c} \cup Range(register') /\ c \in Clients
      /\ register' \in Seq(Clients)
  BY <1>1, HeadTailRange, HeadTailProperties
<1>3. Distinct(register') /\ c \notin Range(register')
  BY <1>1, HeadTailDistinct DEF Greeted
<1>4. c \notin clients /\ Stream(c) = <<>> /\ handler[c] # "none"
  BY <1>2 DEF Greeted
<1>5. CASE crashed' = TRUE /\ UNCHANGED channel
  <2>1. \A d \in Clients : Stream(d)' = Stream(d)
    BY <1>1, <1>5 DEF Stream
  <2>2. Greeted'
    BY <1>1, <1>2, <1>3, <1>4, <1>5, <2>1 DEF Greeted
  <2>3. InOrder'
    BY <1>1, <2>1 DEF InOrder
  <2> QED BY <1>1, <1>2, <1>5, <2>2, <2>3
<1>6. CASE channel' = M!Send({c}, M!Connected) /\ UNCHANGED crashed
  <2>1. channel[c] \in Seq(Int) /\ got[c] \in Seq(Int) /\ M!Connected \in Int /\ M!Connected = 0
    BY <1>2 DEF M!Connected
  <2>2. channel[c] = <<>>
    BY <1>4, <2>1, ConcatEqualIffEmpty, ConcatSimplifications DEF Stream
  <2>3. Len(channel[c]) < ClientCap /\ ~(Len(channel[c]) >= ClientCap)
    BY <2>2, LogStreamAssumption
  <2>4. channel' \in [Clients -> Seq(Int)] /\ Stream(c)' = Append(Stream(c), M!Connected)
        /\ \A d \in Clients \ {c} : Stream(d)' = Stream(d)
    <3>1. {c} \in SUBSET Clients /\ got' = got /\ c \in {c}
      BY <1>1, <1>2
    <3>2. /\ channel' \in [Clients -> Seq(Int)]
          /\ \A d \in Clients :
                \/ Stream(d)' = Stream(d) /\ (d \notin {c} \/ Len(channel[d]) >= ClientCap)
                \/ Stream(d)' = Append(Stream(d), M!Connected) /\ d \in {c}
      BY <1>6, <2>1, <3>1, SentStreams
    <3> QED BY <1>2, <2>3, <3>2
  <2>5. /\ Stream(c)' # <<>> /\ Stream(c)'[1] = M!Connected /\ Ascending(Stream(c)')
        /\ Range(Stream(c)') = {M!Connected}
    <3> DEFINE s == Stream(c)
    <3>1. s \in Seq(Int) /\ s = <<>> /\ Ascending(s) /\ Range(s) = {}
      <4>1. s = <<>>
        BY <1>4
      <4> HIDE DEF s
      <4> QED BY <4>1 DEF Ascending, Range
    <3> HIDE DEF s
    <3>2. /\ Append(s, M!Connected) # <<>> /\ Append(s, M!Connected)[1] = M!Connected
          /\ Ascending(Append(s, M!Connected))
          /\ Range(Append(s, M!Connected)) = Range(s) \cup {M!Connected}
      BY <2>1, <3>1, SendKeepsOrder
    <3> QED BY <2>4, <3>1, <3>2 DEF s
  <2>6. Greeted'
    BY <1>1, <1>2, <1>3, <1>4, <1>6, <2>4, <2>5 DEF Greeted
  <2>7. InOrder'
    <3>1. M!Connected <= announced /\ \A e \in Range(broadcast) : e \in Int /\ 1 <= e
      BY <2>1 DEF InOrder, Range
    <3>2. \A e \in Range(broadcast) : M!Connected < e
      BY <2>1, <3>1
    <3> QED BY <1>1, <1>2, <2>4, <2>5, <3>1, <3>2 DEF InOrder
  <2> QED BY <1>1, <1>2, <1>6, <2>4, <2>6, <2>7
<1> QED BY <1>1, <1>5, <1>6

LEMMA BroadcastKeeps ==
    ASSUME StreamInv, M!RunBroadcast, UNCHANGED wvars
    PROVE  StreamInv'
<1> USE DEF StreamInv, TypeInv, wvars
<1> DEFINE e == Head(broadcast)
<1>1. /\ broadcast # <<>> /\ broadcast' = Tail(broadcast) /\ ~crashed
      /\ \/ crashed' = TRUE /\ UNCHANGED channel
         \/ channel' = M!Send(clients, e) /\ UNCHANGED crashed
      /\ UNCHANGED <<handler, register, clients, got, announced>>
  BY DEF M!RunBroadcast
<1>2. /\ e \in Range(broadcast) /\ Range(broadcast) = {e} \cup Range(broadcast') /\ e \in Int
      /\ broadcast' \in Seq(Int)
  BY <1>1, HeadTailRange, HeadTailProperties
<1>3. Ascending(broadcast') /\ \A f \in Range(broadcast') : e < f
  BY <1>1, HeadTailAscending DEF InOrder
<1> HIDE DEF e
<1>4. CASE crashed' = TRUE /\ UNCHANGED channel
  <2>1. \A d \in Clients : Stream(d)' = Stream(d)
    BY <1>1, <1>4 DEF Stream
  <2>2. Greeted' /\ InOrder'
    BY <1>1, <1>2, <1>3, <1>4, <2>1 DEF Greeted, InOrder
  <2> QED BY <1>1, <1>2, <1>4, <2>2
<1>5. CASE channel' = M!Send(clients, e) /\ UNCHANGED crashed
  <2>1. /\ channel' \in [Clients -> Seq(Int)]
        /\ \A d \in Clients : \/ Stream(d)' = Stream(d)
                              \/ Stream(d)' = Append(Stream(d), e) /\ d \in clients
    BY <1>1, <1>2, <1>5, SentStreams
  <2>2. \A d \in clients : Stream(d) # <<>>
    BY <1>1 DEF Greeted
  <2>3. ASSUME NEW d \in clients
        PROVE  /\ Append(Stream(d), e) # <<>> /\ Append(Stream(d), e)[1] = M!Connected
               /\ Ascending(Append(Stream(d), e))
               /\ Range(Append(Stream(d), e)) = Range(Stream(d)) \cup {e}
    <3>1. Stream(d) \in Seq(Int)
      BY StreamType
    <3>2. /\ Ascending(Stream(d)) /\ Stream(d)[1] = M!Connected
          /\ \A x \in Range(Stream(d)) : x < e
      BY <1>2, <2>2 DEF InOrder
    <3> QED BY <1>2, <2>2, <3>1, <3>2, SendKeepsOrder
  <2>4. Greeted'
    BY <1>1, <1>5, <2>1, <2>2, <2>3 DEF Greeted
  <2>5. e <= announced
    BY <1>2 DEF InOrder
  <2>6. InOrder'
    BY <1>1, <1>2, <1>3, <2>1, <2>3, <2>5 DEF InOrder
  <2> QED BY <1>1, <1>2, <1>5, <2>1, <2>4, <2>6
<1> QED BY <1>1, <1>4, <1>5

LEMMA AnnounceKeeps == ASSUME StreamInv, Announces PROVE StreamInv'
<1> USE DEF StreamInv, TypeInv
<1> DEFINE n == announced + 1
<1>1. /\ announced' = n
      /\ broadcast' = broadcast \/ broadcast' = Append(broadcast, n)
      /\ UNCHANGED <<handler, register, clients, channel, got, crashed>>
  BY DEF Announces, W!Announce, M!Broadcast
<1>2. /\ n \in Nat /\ n \in Int /\ 1 <= n /\ announced < n
      /\ \A x \in Int : x <= announced => x < n /\ x <= n
  OBVIOUS
<1> HIDE DEF n
<1>3. \A c \in Clients : Stream(c)' = Stream(c) /\ Stream(c) \in Seq(Int)
  BY <1>1, StreamType DEF Stream
<1>4. \A c \in Clients : \A x \in Range(Stream(c)) : x \in Int
  BY <1>3 DEF Range
<1>5. \A e \in Range(broadcast) : e \in Int /\ e < n /\ e <= n
  <2>1. \A e \in Range(broadcast) : e \in Int
    BY DEF Range
  <2> QED BY <1>2, <2>1 DEF InOrder
<1>6. broadcast' \in Seq(Int) /\ Ascending(broadcast')
      /\ Range(broadcast') \subseteq Range(broadcast) \cup {n}
  <2>0. broadcast \in Seq(Int) /\ n \in Int
    BY <1>2
  <2>1. CASE broadcast' = broadcast
    BY <2>1 DEF InOrder
  <2>2. CASE broadcast' = Append(broadcast, n)
    <3>1. Append(broadcast, n) \in Seq(Int)
      BY <1>2, AppendProperties
    <3>2. Ascending(Append(broadcast, n))
      BY <1>2, <1>5, AppendAscending DEF InOrder
    <3>3. Range(Append(broadcast, n)) = Range(broadcast) \cup {n}
      BY <2>0, AppendRange
    <3> QED BY <2>2, <3>1, <3>2, <3>3
  <2> QED BY <1>1, <2>1, <2>2
<1>7. Greeted'
  BY <1>1, <1>3 DEF Greeted
<1>8. InOrder'
  BY <1>1, <1>2, <1>3, <1>4, <1>5, <1>6 DEF InOrder
<1> QED BY <1>1, <1>2, <1>6, <1>7, <1>8

LEMMA StreamStep == StreamInv /\ [Next]_vars => StreamInv'
<1> SUFFICES ASSUME StreamInv, [Next]_vars PROVE StreamInv'
  OBVIOUS
<1>1. ASSUME UNCHANGED <<handler, register, broadcast, clients, channel, got, crashed, announced>>
      PROVE  StreamInv'
  BY <1>1 DEF StreamInv, TypeInv, Greeted, InOrder, Stream
<1>2. CASE ManagerStep /\ UNCHANGED wvars
  <2>1. CASE M!RunUnregister
    <3>1. /\ clients' \subseteq clients
          /\ UNCHANGED <<handler, register, broadcast, channel, got, crashed, announced>>
      BY <1>2, <2>1 DEF M!RunUnregister, wvars
    <3> QED BY <3>1 DEF StreamInv, TypeInv, Greeted, InOrder, Stream
  <2> QED BY <1>2, <2>1, HandlerKeeps, RegisterKeeps, BroadcastKeeps DEF ManagerStep, M!Run
<1>3. CASE TaskProcess \/ Copies \/ Logs \/ Waits \/ UNCHANGED vars
  BY <1>1, <1>3 DEF TaskProcess, Copies, Logs, Waits, W!WriteLine, W!ProcessExits, W!Copier,
        W!Write, W!WriteTooLong, W!CopierDone, W!LogLine, W!WaitReturns, vars, mvars, wvars
<1> QED BY <1>2, <1>3, AnnounceKeeps DEF Next, Streams

LEMMA InitStream == Init => StreamInv
<1> SUFFICES ASSUME Init PROVE StreamInv
  OBVIOUS
<1>1. Range(<<>>) = {} /\ Ascending(<<>>) /\ Distinct(<<>>) /\ <<>> \o <<>> = <<>>
  BY ConcatEmptySeq DEF Range, Ascending, Distinct
<1>2. \A c \in Clients : Stream(c) = <<>>
  BY <1>1 DEF Init, M!Init, Stream
<1>3. TypeInv
  <2>1. <<>> \in Seq(Clients) /\ <<>> \in Seq(Int)
    OBVIOUS
  <2>2. crashed \in BOOLEAN /\ announced \in Nat
    BY DEF Init, M!Init, W!Init
  <2>3. channel \in [Clients -> Seq(Int)] /\ got \in [Clients -> Seq(Int)]
    BY <2>1 DEF Init, M!Init
  <2> QED BY <2>1, <2>2, <2>3 DEF Init, M!Init, TypeInv
<1> QED BY <1>1, <1>2, <1>3 DEF Init, M!Init, StreamInv, Greeted, InOrder

\* A client is greeted first and then gets the lines of the log in their order, each at
\* most once, whatever it misses for being slow.
THEOREM LinesInOrder == Spec => []DeliveredInOrder
<1>1. StreamInv => DeliveredInOrder
  BY DEF StreamInv, InOrder, Stream, Ascending, DeliveredInOrder, M!DeliveredInOrder
<1> QED BY <1>1, InitStream, StreamStep, PTL DEF Spec

------------------------------------------------------------------------------
(* The manager: closed channels.                                            *)

\* run never has a closed channel among its clients while the process lives, so that no
\* broadcast meets one: what was closed too early crashes it when it is registered.
THEOREM BroadcastMeetsOpen == Spec => []RegisteredAreOpen
<1> USE DEF RegisteredAreOpen, M!RegisteredAreOpen
<1>1. Init => RegisteredAreOpen
  BY DEF Init, M!Init
<1>2. RegisteredAreOpen /\ [Next]_vars => RegisteredAreOpen'
  <2> SUFFICES ASSUME RegisteredAreOpen, [Next]_vars PROVE RegisteredAreOpen'
    OBVIOUS
  <2>1. CASE UNCHANGED <<clients, closed, crashed>>
    BY <2>1
  <2>2. CASE M!RunRegister
    BY <2>2 DEF M!RunRegister
  <2>3. CASE M!RunUnregister
    BY <2>3 DEF M!RunUnregister
  <2>4. CASE M!RunBroadcast
    BY <2>4 DEF M!RunBroadcast
  <2>5. ASSUME NEW c \in Clients, M!Handler(c) PROVE UNCHANGED <<clients, closed, crashed>>
    BY <2>5 DEF M!Handler, M!Register, M!Receive, M!ClientGone, M!Unregister
  <2>6. CASE TaskProcess \/ Copies \/ Announces \/ Logs \/ Waits \/ UNCHANGED vars
    BY <2>6 DEF TaskProcess, Copies, Announces, Logs, Waits, M!Broadcast, vars, mvars
  <2> QED BY <2>1, <2>2, <2>3, <2>4, <2>5, <2>6 DEF Next, Streams, ManagerStep, M!Run
<1> QED BY <1>1, <1>2, PTL DEF Spec
==============================================================================
