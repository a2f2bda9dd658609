------------------------------ MODULE DataLemmas ------------------------------
(***************************************************************************)
(* Facts about data that the proofs of the other modules share: what is in  *)
(* a sequence, in what order and how often, after it was appended to, taken *)
(* from, cut short, or lost one of its entries; and what the sum of a       *)
(* function's values is when its domain gains an element.                   *)
(***************************************************************************)
EXTENDS Integers, Sequences, Functions, SequenceTheorems, FiniteSetTheorems,
        WellFoundedInduction, TLAPS

\* No entry is there twice.
Distinct(s) == \A i, j \in DOMAIN s : s[i] = s[j] => i = j

\* Every entry is below those after it.
Ascending(s) == \A i, j \in DOMAIN s : i < j => s[i] < s[j]

\* The sequence without its entry i.
Drop(s, i) == SubSeq(s, 1, i - 1) \o SubSeq(s, i + 1, Len(s))

\* The last n entries.
LastOf(s, n) == IF Len(s) > n THEN SubSeq(s, Len(s) - n + 1, Len(s)) ELSE s

\* Ascending entries are distinct.
LEMMA AscendingDistinct ==
    ASSUME NEW s \in Seq(Int), Ascending(s)
    PROVE  Distinct(s)
<1> SUFFICES ASSUME NEW i \in DOMAIN s, NEW j \in DOMAIN s, s[i] = s[j], i # j PROVE FALSE
  BY DEF Distinct
<1>1. i \in Int /\ j \in Int /\ s[i] \in Int /\ s[j] \in Int
  OBVIOUS
<1>2. i < j \/ j < i
  BY <1>1
<1> QED BY <1>1, <1>2 DEF Ascending

------------------------------------------------------------------------------
(* Append.                                                                  *)

\* An appended entry joins the others.
LEMMA AppendRange ==
    ASSUME NEW S, NEW s \in Seq(S), NEW x \in S
    PROVE  Range(Append(s, x)) = Range(s) \cup {x}
<1>1. DOMAIN s = 1..Len(s) /\ DOMAIN Append(s, x) = 1..(Len(s) + 1) /\ Len(s) \in Nat
  BY AppendProperties
<1>2. \A i \in 1..Len(s) : Append(s, x)[i] = s[i]
  BY AppendProperties
<1>3. Append(s, x)[Len(s) + 1] = x
  BY AppendProperties
<1> QED BY <1>1, <1>2, <1>3 DEF Range

\* Appending what is not there keeps the entries distinct.
LEMMA AppendDistinct ==
    ASSUME NEW S, NEW s \in Seq(S), NEW x \in S, Distinct(s), x \notin Range(s)
    PROVE  Distinct(Append(s, x))
<1>1. DOMAIN s = 1..Len(s) /\ DOMAIN Append(s, x) = 1..(Len(s) + 1) /\ Len(s) \in Nat
  BY AppendProperties
<1>2. /\ \A i \in 1..Len(s) : Append(s, x)[i] = s[i] /\ s[i] # x
      /\ Append(s, x)[Len(s) + 1] = x
  BY <1>1, AppendProperties DEF Range
<1> QED BY <1>1, <1>2 DEF Distinct

\* Appending what is above all entries keeps them ascending.
LEMMA AppendAscending ==
    ASSUME NEW s \in Seq(Int), NEW x \in Int, Ascending(s), \A y \in Range(s) : y < x
    PROVE  Ascending(Append(s, x))
<1>1. DOMAIN s = 1..Len(s) /\ DOMAIN Append(s, x) = 1..(Len(s) + 1) /\ Len(s) \in Nat
  BY AppendProperties
<1>2. /\ \A i \in 1..Len(s) : Append(s, x)[i] = s[i] /\ s[i] < x
      /\ Append(s, x)[Len(s) + 1] = x
  BY <1>1, AppendProperties DEF Range
<1> QED BY <1>1, <1>2 DEF Ascending

------------------------------------------------------------------------------
(* Head and Tail.                                                           *)

\* What is in a queue is its head or in its tail.
LEMMA HeadTailRange ==
    ASSUME NEW S, NEW s \in Seq(S), s # <<>>
    PROVE  /\ Head(s) \in Range(s)
           /\ Range(s) = {Head(s)} \cup Range(Tail(s))
<1>1. /\ DOMAIN s = 1..Len(s) /\ Len(s) \in Nat \ {0} /\ Head(s) = s[1]
      /\ DOMAIN Tail(s) = 1..(Len(s) - 1)
  BY HeadTailProperties, EmptySeq
<1>2. \A i \in 1..(Len(s) - 1) : Tail(s)[i] = s[i + 1]
  BY <1>1, HeadTailProperties
<1>3. \A i \in 1..Len(s) : i = 1 \/ (i - 1 \in 1..(Len(s) - 1) /\ s[i] = Tail(s)[i - 1])
  BY <1>1, <1>2
<1>4. Head(s) \in Range(s)
  BY <1>1 DEF Range
<1>5. \A y \in Range(s) : y = Head(s) \/ y \in Range(Tail(s))
  <2> TAKE y \in Range(s)
  <2>1. PICK i \in 1..Len(s) : y = s[i]
    BY <1>1 DEF Range
  <2>2. i = 1 \/ (i - 1 \in DOMAIN Tail(s) /\ y = Tail(s)[i - 1])
    BY <1>1, <1>3, <2>1
  <2> QED BY <1>1, <2>1, <2>2 DEF Range
<1>6. \A y \in Range(Tail(s)) : y \in Range(s)
  BY <1>1, <1>2 DEF Range
<1> QED BY <1>4, <1>5, <1>6

\* The head of distinct entries is not in the tail, which is distinct again.
LEMMA HeadTailDistinct ==
    ASSUME NEW S, NEW s \in Seq(S), s # <<>>, Distinct(s)
    PROVE  Distinct(Tail(s)) /\ Head(s) \notin Range(Tail(s))
<1>1. /\ DOMAIN s = 1..Len(s) /\ Len(s) \in Nat \ {0} /\ Head(s) = s[1]
      /\ DOMAIN Tail(s) = 1..(Len(s) - 1)
  BY HeadTailProperties, EmptySeq
<1>2. \A i \in 1..(Len(s) - 1) : Tail(s)[i] = s[i + 1] /\ i + 1 \in DOMAIN s /\ i + 1 # 1
  BY <1>1, HeadTailProperties
<1>3. Distinct(Tail(s))
  BY <1>1, <1>2 DEF Distinct
<1>4. Head(s) \notin Range(Tail(s))
  BY <1>1, <1>2 DEF Distinct, Range
<1> QED BY <1>3, <1>4

\* The head of ascending entries is below the tail, which is ascending again.
LEMMA HeadTailAscending ==
    ASSUME NEW s \in Seq(Int), s # <<>>, Ascending(s)
    PROVE  Ascending(Tail(s)) /\ \A y \in Range(Tail(s)) : Head(s) < y
<1>1. /\ DOMAIN s = 1..Len(s) /\ Len(s) \in Nat \ {0} /\ Head(s) = s[1]
      /\ DOMAIN Tail(s) = 1..(Len(s) - 1)
  BY HeadTailProperties, EmptySeq
<1>2. \A i \in 1..(Len(s) - 1) : Tail(s)[i] = s[i + 1] /\ i + 1 \in DOMAIN s /\ 1 < i + 1
  BY <1>1, HeadTailProperties
<1>3. Ascending(Tail(s))
  BY <1>1, <1>2 DEF Ascending
<1>4. \A y \in Range(Tail(s)) : Head(s) < y
  BY <1>1, <1>2 DEF Ascending, Range
<1> QED BY <1>3, <1>4

------------------------------------------------------------------------------
(* Drop and LastOf.                                                         *)

\* Where the entries of the shortened sequence come from.
LEMMA DropEntries ==
    ASSUME NEW S, NEW s \in Seq(S), NEW i \in DOMAIN s
    PROVE  /\ Drop(s, i) \in Seq(S) /\ Len(Drop(s, i)) = Len(s) - 1
           /\ DOMAIN Drop(s, i) = 1..(Len(s) - 1)
           /\ \A k \in 1..(Len(s) - 1) :
                 Drop(s, i)[k] = IF k < i THEN s[k] ELSE s[k + 1]
<1> DEFINE a == SubSeq(s, 1, i - 1)
           b == SubSeq(s, i + 1, Len(s))
<1>1. i \in 1..Len(s) /\ Len(s) \in Nat
  OBVIOUS
<1>2. a \in Seq(S) /\ Len(a) = i - 1 /\ \A k \in 1..(i - 1) : a[k] = s[k]
  <2>1. \A k \in 1..(i - 1) : s[k] \in S
    BY <1>1
  <2>2. /\ a \in Seq(S) /\ Len(a) = IF 1 <= i - 1 THEN (i - 1) - 1 + 1 ELSE 0
        /\ \A k \in 1..((i - 1) - 1 + 1) : a[k] = s[1 + k - 1]
    BY <1>1, <2>1, SubSeqProperties
  <2> QED BY <1>1, <2>2
<1>3. b \in Seq(S) /\ Len(b) = Len(s) - i /\ \A k \in 1..(Len(s) - i) : b[k] = s[i + k]
  <2>1. \A k \in (i + 1)..Len(s) : s[k] \in S
    BY <1>1
  <2>2. /\ b \in Seq(S) /\ Len(b) = IF i + 1 <= Len(s) THEN Len(s) - (i + 1) + 1 ELSE 0
        /\ \A k \in 1..(Len(s) - (i + 1) + 1) : b[k] = s[i + 1 + k - 1]
    BY <1>1, <2>1, SubSeqProperties
  <2> QED BY <1>1, <2>2
<1> HIDE DEF a, b
<1>4. /\ a \o b \in Seq(S) /\ Len(a \o b) = Len(s) - 1
      /\ \A k \in 1..(Len(s) - 1) :
            (a \o b)[k] = IF k <= i - 1 THEN a[k] ELSE b[k - (i - 1)]
  <2> DEFINE c == a \o b
  <2>1. /\ c \in Seq(S) /\ Len(c) = Len(a) + Len(b)
        /\ \A k \in 1..(Len(a) + Len(b)) : c[k] = IF k <= Len(a) THEN a[k] ELSE b[k - Len(a)]
    BY <1>2, <1>3, ConcatProperties
  <2> HIDE DEF c
  <2>2. Len(a) + Len(b) = Len(s) - 1
    BY <1>1, <1>2, <1>3
  <2>3. /\ c \in Seq(S) /\ Len(c) = Len(s) - 1
        /\ \A k \in 1..(Len(s) - 1) : c[k] = IF k <= i - 1 THEN a[k] ELSE b[k - (i - 1)]
    BY <1>2, <2>1, <2>2
  <2> QED BY <2>3 DEF c
<1> DEFINE c == a \o b
<1>5. /\ c \in Seq(S) /\ Len(c) = Len(s) - 1 /\ DOMAIN c = 1..Len(c)
      /\ \A k \in 1..(Len(s) - 1) : c[k] = IF k <= i - 1 THEN a[k] ELSE b[k - (i - 1)]
  BY <1>4
<1>6. Drop(s, i) = c
  BY DEF Drop, a, b
<1> HIDE DEF c
<1>7. \A k \in 1..(Len(s) - 1) : c[k] = IF k < i THEN s[k] ELSE s[k + 1]
  <2> TAKE k \in 1..(Len(s) - 1)
  <2>1. CASE k < i
    <3>1. k \in 1..(i - 1)
      BY <1>1, <2>1
    <3> QED BY <1>1, <1>2, <1>5, <2>1, <3>1
  <2>2. CASE ~(k < i)
    <3>1. k - (i - 1) \in 1..(Len(s) - i) /\ i + (k - (i - 1)) = k + 1
      BY <1>1, <2>2
    <3>2. b[k - (i - 1)] = s[i + (k - (i - 1))]
      BY <1>3, <3>1
    <3>3. c[k] = b[k - (i - 1)]
      BY <1>1, <1>5, <2>2
    <3> QED BY <2>2, <3>1, <3>2, <3>3
  <2> QED BY <2>1, <2>2
<1> QED BY <1>5, <1>6, <1>7

\* Nothing new comes in; of distinct entries exactly the dropped one is gone.
LEMMA DropRange ==
    ASSUME NEW S, NEW s \in Seq(S), NEW i \in DOMAIN s
    PROVE  /\ Range(Drop(s, i)) \subseteq Range(s)
           /\ Distinct(s) => s[i] \notin Range(Drop(s, i))
<1>1. i \in 1..Len(s) /\ Len(s) \in Nat /\ DOMAIN s = 1..Len(s)
  OBVIOUS
<1>2. \A k \in 1..(Len(s) - 1) : \E l \in DOMAIN s : l # i /\ Drop(s, i)[k] = s[l]
  <2> TAKE k \in 1..(Len(s) - 1)
  <2>1. k \in DOMAIN s /\ k + 1 \in DOMAIN s
    BY <1>1
  <2>2. Drop(s, i)[k] = IF k < i THEN s[k] ELSE s[k + 1]
    BY DropEntries
  <2>3. CASE k < i
    BY <1>1, <2>1, <2>2, <2>3
  <2>4. CASE ~(k < i)
    <3>1. k + 1 # i
      BY <1>1, <2>4
    <3> QED BY <2>1, <2>2, <2>4, <3>1
  <2> QED BY <2>3, <2>4
<1>3. DOMAIN Drop(s, i) = 1..(Len(s) - 1)
  BY DropEntries
<1>4. \A y \in Range(Drop(s, i)) : \E l \in DOMAIN s : l # i /\ y = s[l]
  BY <1>2, <1>3 DEF Range
<1> QED BY <1>4 DEF Range, Distinct

\* The order of the others is kept.
LEMMA DropAscending ==
    ASSUME NEW s \in Seq(Int), NEW i \in DOMAIN s, Ascending(s)
    PROVE  Ascending(Drop(s, i))
<1>1. i \in 1..Len(s) /\ Len(s) \in Nat /\ DOMAIN s = 1..Len(s)
  OBVIOUS
<1> SUFFICES ASSUME NEW k \in 1..(Len(s) - 1), NEW l \in 1..(Len(s) - 1), k < l
             PROVE  Drop(s, i)[k] < Drop(s, i)[l]
  <2>1. DOMAIN Drop(s, i) = 1..(Len(s) - 1)
    BY DropEntries
  <2> QED BY <2>1 DEF Ascending
<1>2. /\ Drop(s, i)[k] = IF k < i THEN s[k] ELSE s[k + 1]
      /\ Drop(s, i)[l] = IF l < i THEN s[l] ELSE s[l + 1]
  BY DropEntries
<1>3. k \in DOMAIN s /\ k + 1 \in DOMAIN s /\ l \in DOMAIN s /\ l + 1 \in DOMAIN s
  BY <1>1
<1> QED BY <1>1, <1>2, <1>3 DEF Ascending

\* Cutting a sequence short brings nothing in and nothing twice.
LEMMA LastOfRange ==
    ASSUME NEW S, NEW s \in Seq(S), NEW n \in Nat
    PROVE  /\ LastOf(s, n) \in Seq(S)
           /\ Range(LastOf(s, n)) \subseteq Range(s)
           /\ Distinct(s) => Distinct(LastOf(s, n))
<1>1. CASE Len(s) > n
  <2> DEFINE m == Len(s) - n + 1
             r == SubSeq(s, m, Len(s))
  <2>1. Len(s) \in Nat /\ m \in 1..(Len(s) + 1) /\ DOMAIN s = 1..Len(s)
    BY <1>1
  <2>2. \A k \in m..Len(s) : s[k] \in S
    BY <2>1
  <2>3. /\ r \in Seq(S) /\ Len(r) = IF m <= Len(s) THEN Len(s) - m + 1 ELSE 0
        /\ \A k \in 1..(Len(s) - m + 1) : r[k] = s[m + k - 1]
    BY <2>1, <2>2, SubSeqProperties
  <2>4. DOMAIN r = 1..Len(r) /\ Len(r) = Len(s) - m + 1
    BY <2>1, <2>3
  <2> HIDE DEF r, m
  <2>5. \A k \in 1..(Len(s) - m + 1) : m + k - 1 \in DOMAIN s
    BY <2>1
  <2>6. Range(r) \subseteq Range(s)
    BY <2>3, <2>4, <2>5 DEF Range
  <2>7. ASSUME Distinct(s) PROVE Distinct(r)
    <3> SUFFICES ASSUME NEW k \in DOMAIN r, NEW l \in DOMAIN r, r[k] = r[l] PROVE k = l
      BY DEF Distinct
    <3>1. s[m + k - 1] = s[m + l - 1]
      BY <2>3, <2>4
    <3>2. m + k - 1 = m + l - 1
      BY <2>4, <2>5, <2>7, <3>1 DEF Distinct
    <3> QED BY <2>1, <2>4, <3>2
  <2>8. LastOf(s, n) = r
    BY <1>1 DEF LastOf, r, m
  <2> QED BY <2>3, <2>6, <2>7, <2>8
<1>2. CASE ~(Len(s) > n)
  BY <1>2 DEF LastOf
<1> QED BY <1>1, <1>2

------------------------------------------------------------------------------
(* Two queues, one behind the other.                                        *)

\* An entry that is moved from the head of one to the end of the other keeps its place.
LEMMA HandOver ==
    ASSUME NEW S, NEW k \in Seq(S), NEW s \in Seq(S), s # <<>>
    PROVE  Append(k, Head(s)) \o Tail(s) = k \o s
<1> DEFINE h == Head(s)
           t == Tail(s)
<1>1. h \in S /\ t \in Seq(S) /\ <<h>> \in Seq(S) /\ <<h>> \o t = s
  <2>1. Len(s) \in Nat \ {0} /\ SubSeq(s, 1, Len(s)) = s /\ Tail(s) = SubSeq(s, 2, Len(s))
        /\ Head(s) = s[1]
    BY EmptySeq, SubSeqFull, TailIsSubSeq
  <2>2. SubSeq(s, 1, Len(s)) = <<s[1]>> \o SubSeq(s, 1 + 1, Len(s))
    <3>1. 1 \in 1..Len(s) /\ Len(s) \in 1..Len(s)
      BY <2>1
    <3> QED BY <3>1, SubSeqRecursiveFirst
  <2>3. Head(s) \in S /\ Tail(s) \in Seq(S)
    BY HeadTailProperties
  <2> QED BY <2>1, <2>2, <2>3
<1> HIDE DEF h, t
<1>2. Append(k, h) = k \o <<h>>
  BY <1>1, AppendIsConcat
<1>3. (k \o <<h>>) \o t = k \o (<<h>> \o t)
  BY <1>1, ConcatAssociative
<1>4. Append(k, h) \o t = k \o s
  BY <1>1, <1>2, <1>3
<1> QED BY <1>4 DEF h, t

\* An entry that is taken from the head of the second leaves a gap behind the first.
LEMMA DropMiddle ==
    ASSUME NEW S, NEW k \in Seq(S), NEW s \in Seq(S), s # <<>>
    PROVE  LET w == k \o s
               i == Len(k) + 1
           IN  /\ i \in DOMAIN w /\ w[i] = Head(s)
               /\ k \o Tail(s) = Drop(w, i)
<1> DEFINE w == k \o s
           i == Len(k) + 1
<1>1. k \in Seq(S) /\ s \in Seq(S) /\ s # <<>>
  OBVIOUS
<1>2. /\ Len(k) \in Nat /\ Len(s) \in Nat \ {0} /\ Head(s) = s[1] /\ Head(s) \in S
      /\ Tail(s) \in Seq(S) /\ Len(Tail(s)) = Len(s) - 1
      /\ \A n \in 1..(Len(s) - 1) : Tail(s)[n] = s[n + 1]
  BY <1>1, EmptySeq, HeadTailProperties
<1>3. /\ w \in Seq(S) /\ Len(w) = Len(k) + Len(s) /\ DOMAIN w = 1..(Len(k) + Len(s))
      /\ \A n \in 1..(Len(k) + Len(s)) : w[n] = IF n <= Len(k) THEN k[n] ELSE s[n - Len(k)]
  BY <1>1, ConcatProperties
<1> HIDE DEF w
<1>4. i \in DOMAIN w /\ w[i] = Head(s)
  <2>1. i \in 1..(Len(k) + Len(s)) /\ ~(i <= Len(k)) /\ i - Len(k) = 1
    BY <1>2
  <2> QED BY <1>2, <1>3, <2>1
<1>5. k \o Tail(s) = Drop(w, i)
  <2> DEFINE v == k \o Tail(s)
             d == Drop(w, i)
  <2>1. /\ v \in Seq(S) /\ Len(v) = Len(k) + Len(Tail(s))
        /\ \A n \in 1..(Len(k) + Len(Tail(s))) :
              v[n] = IF n <= Len(k) THEN k[n] ELSE Tail(s)[n - Len(k)]
    BY <1>1, <1>2, ConcatProperties
  <2> HIDE DEF v
  <2>2. /\ d \in Seq(S) /\ Len(d) = Len(w) - 1
        /\ \A n \in 1..(Len(w) - 1) : d[n] = IF n < i THEN w[n] ELSE w[n + 1]
    BY <1>3, <1>4, DropEntries
  <2> HIDE DEF d
  <2>3. Len(v) = Len(d)
    BY <1>2, <1>3, <2>1, <2>2
  <2>4. \A n \in 1..Len(v) : v[n] = d[n]
    <3> TAKE n \in 1..Len(v)
    <3>1. n \in 1..(Len(w) - 1) /\ n \in 1..(Len(k) + Len(Tail(s)))
          /\ n \in 1..(Len(k) + Len(s)) /\ n + 1 \in 1..(Len(k) + Len(s))
      BY <1>2, <1>3, <2>1
    <3>2. CASE n < i
      <4>1. n <= Len(k)
        BY <1>2, <3>1, <3>2
      <4> QED BY <1>3, <2>1, <2>2, <3>1, <3>2, <4>1
    <3>3. CASE ~(n < i)
      <4>1. /\ ~(n <= Len(k)) /\ ~(n + 1 <= Len(k)) /\ n - Len(k) \in 1..(Len(s) - 1)
            /\ n - Len(k) + 1 = n + 1 - Len(k)
        BY <1>2, <1>3, <3>1, <3>3
      <4>2. v[n] = Tail(s)[n - Len(k)] /\ w[n + 1] = s[n + 1 - Len(k)] /\ d[n] = w[n + 1]
        BY <1>3, <2>1, <2>2, <3>1, <3>3, <4>1
      <4> QED BY <1>2, <4>1, <4>2
    <3> QED BY <3>2, <3>3
  <2>5. v = d
    BY <2>1, <2>2, <2>3, <2>4, SeqEqual
  <2> QED BY <2>5 DEF v, d
<1> QED BY <1>4, <1>5 DEF w

\* What is appended to the second is appended to both.
LEMMA AppendConcat ==
    ASSUME NEW S, NEW k \in Seq(S), NEW s \in Seq(S), NEW x \in S
    PROVE  k \o Append(s, x) = Append(k \o s, x)
<1>1. Append(s, x) = s \o <<x>> /\ <<x>> \in Seq(S)
  BY AppendIsConcat
<1>2. k \o (s \o <<x>>) = (k \o s) \o <<x>>
  BY <1>1, ConcatAssociative
<1>3. k \o s \in Seq(S)
  BY ConcatProperties
<1>4. Append(k \o s, x) = (k \o s) \o <<x>>
  BY <1>3, AppendIsConcat
<1> QED BY <1>1, <1>2, <1>4

\* What is in two sequences that are joined.
LEMMA ConcatRange ==
    ASSUME NEW X, NEW r \in Seq(X), NEW s \in Seq(X)
    PROVE  Range(r \o s) = Range(r) \cup Range(s)
<1> DEFINE q == r \o s
<1>1. /\ DOMAIN q = 1..(Len(r) + Len(s)) /\ Len(r) \in Nat /\ Len(s) \in Nat
      /\ DOMAIN r = 1..Len(r) /\ DOMAIN s = 1..Len(s)
  BY ConcatProperties
<1>2. /\ \A i \in 1..Len(r) : q[i] = r[i] /\ i \in DOMAIN q
      /\ \A i \in 1..Len(s) : q[Len(r) + i] = s[i] /\ Len(r) + i \in DOMAIN q
  BY <1>1, ConcatProperties
<1>3. \A i \in DOMAIN q : i \in 1..Len(r) \/ \E j \in 1..Len(s) : i = Len(r) + j
  <2> SUFFICES ASSUME NEW i \in DOMAIN q, i \notin 1..Len(r)
               PROVE  \E j \in 1..Len(s) : i = Len(r) + j
    OBVIOUS
  <2>1. i - Len(r) \in 1..Len(s) /\ i = Len(r) + (i - Len(r))
    BY <1>1
  <2> QED BY <2>1
<1> HIDE DEF q
<1>4. Range(q) = {q[i] : i \in DOMAIN q}
  BY DEF Range
<1>5. Range(r) \cup Range(s) \subseteq Range(q)
  BY <1>1, <1>2, <1>4 DEF Range
<1>6. \A i \in DOMAIN q : q[i] \in Range(r) \cup Range(s)
  <2> TAKE i \in DOMAIN q
  <2>1. CASE i \in 1..Len(r)
    BY <1>1, <1>2, <2>1 DEF Range
  <2>2. CASE \E j \in 1..Len(s) : i = Len(r) + j
    BY <1>1, <1>2, <2>2 DEF Range
  <2> QED BY <1>3, <2>1, <2>2
<1> QED BY <1>4, <1>5, <1>6 DEF q

------------------------------------------------------------------------------
(* Sums.  A set of sizes that has no least member is empty: that is the     *)
(* induction of the proofs below.                                           *)

\* A set of natural numbers has a least member: with it induction needs no operator.
LEMMA LeastNumber ==
    ASSUME NEW T \in SUBSET Nat, T # {}
    PROVE  \E n \in T : \A m \in T : n <= m
<1>1. \E n \in T : \A m \in T : ~(<<m, n>> \in OpToRel(<, Nat))
  BY NatLessThanWellFounded, WFMin
<1>2. PICK n \in T : \A m \in T : ~(<<m, n>> \in OpToRel(<, Nat))
  BY <1>1
<1>3. \A m \in T : ~(m < n)
  BY <1>2 DEF OpToRel
<1> QED BY <1>3

\* The member of a set that the folds of module Functions take next.
Chosen(s) == CHOOSE x \in s : TRUE

\* g gives the sum of f over each subset of S, counted in the order of that choice.
Totals(g, f, S) ==
    g = [s \in SUBSET S |-> IF s = {} THEN 0 ELSE f[Chosen(s)] + g[s \ {Chosen(s)}]]

LEMMA ChosenMember == ASSUME NEW s, s # {} PROVE Chosen(s) \in s
BY DEF Chosen

\* A smaller set.
LEMMA WithoutChosen ==
    ASSUME NEW S, IsFiniteSet(S), NEW s \in SUBSET S, s # {}
    PROVE  /\ IsFiniteSet(s) /\ Chosen(s) \in S /\ s \ {Chosen(s)} \in SUBSET S
           /\ Cardinality(s) \in Nat /\ Cardinality(s) > 0
           /\ Cardinality(s \ {Chosen(s)}) = Cardinality(s) - 1
<1>1. IsFiniteSet(s) /\ Chosen(s) \in s
  BY FS_Subset, ChosenMember
<1>2. Cardinality(s \ {Chosen(s)}) = Cardinality(s) - 1 /\ IsFiniteSet(s \ {Chosen(s)})
  BY <1>1, FS_RemoveElement
<1>3. Cardinality(s) \in Nat /\ Cardinality(s) # 0
  BY <1>1, FS_CardinalityType, FS_EmptySet
<1> QED BY <1>1, <1>2, <1>3

\* The sums exist: what is right for the sets up to a size can be made right for the next.
LEMMA TotalsExist ==
    ASSUME NEW S, IsFiniteSet(S), NEW f \in [S -> Int]
    PROVE  \E g \in [SUBSET S -> Int] : Totals(g, f, S)
<1> DEFINE By(g, s) == IF s = {} THEN 0 ELSE f[Chosen(s)] + g[s \ {Chosen(s)}]
           UpTo(n) == \E g \in [SUBSET S -> Int] :
                         \A s \in SUBSET S : Cardinality(s) <= n => g[s] = By(g, s)
           Fails == {n \in Nat : ~UpTo(n)}
<1>1. Fails = {}
  <2> SUFFICES ASSUME Fails # {} PROVE FALSE
    OBVIOUS
  <2>1. PICK n \in Fails : \A m \in Fails : n <= m
    BY LeastNumber
  <2>2. n \in Nat /\ ~UpTo(n)
    OBVIOUS
  <2>3. CASE n = 0
    <3> DEFINE g == [s \in SUBSET S |-> 0]
    <3>1. ASSUME NEW s \in SUBSET S, Cardinality(s) <= n PROVE s = {}
      <4> HIDE DEF Fails
      <4>1. s # {} => Cardinality(s) \in Nat /\ Cardinality(s) > 0
        BY WithoutChosen
      <4> QED BY <2>3, <3>1, <4>1
    <3>2. \A s \in SUBSET S : Cardinality(s) <= n => g[s] = By(g, s)
      BY <3>1
    <3>3. g \in [SUBSET S -> Int]
      OBVIOUS
    <3> QED BY <2>2, <3>2, <3>3
  <2>4. CASE n > 0
    <3>1. n - 1 \in Nat /\ n - 1 \notin Fails
      <4> HIDE DEF Fails
      <4>1. n - 1 \in Nat /\ ~(n <= n - 1)
        BY <2>2, <2>4
      <4> QED BY <2>1, <4>1
    <3>2. UpTo(n - 1)
      BY <3>1
    <3>3. PICK g \in [SUBSET S -> Int] :
             \A s \in SUBSET S : Cardinality(s) <= n - 1 => g[s] = By(g, s)
      BY <3>2
    <3> DEFINE h == [s \in SUBSET S |-> By(g, s)]
    <3>4. \A s \in SUBSET S : s # {} => By(g, s) \in Int
      BY WithoutChosen
    <3>5. h \in [SUBSET S -> Int]
      BY <3>4
    <3>6. ASSUME NEW s \in SUBSET S, Cardinality(s) <= n PROVE h[s] = By(h, s)
      <4>1. CASE s = {}
        BY <4>1
      <4>2. CASE s # {}
        <5>1. /\ s \ {Chosen(s)} \in SUBSET S /\ Cardinality(s \ {Chosen(s)}) <= n - 1
          <6> HIDE DEF Fails
          <6>1. /\ s \ {Chosen(s)} \in SUBSET S /\ Cardinality(s) \in Nat
                /\ Cardinality(s \ {Chosen(s)}) = Cardinality(s) - 1
            BY <4>2, WithoutChosen
          <6> QED BY <2>2, <3>6, <6>1
        <5>2. h[s \ {Chosen(s)}] = g[s \ {Chosen(s)}]
          BY <3>3, <5>1
        <5>3. h[s] = f[Chosen(s)] + g[s \ {Chosen(s)}]
          BY <4>2
        <5> HIDE DEF h
        <5> QED BY <4>2, <5>2, <5>3
      <4> QED BY <4>1, <4>2
    <3> HIDE DEF h
    <3> QED BY <2>2, <3>5, <3>6
  <2> QED BY <2>2, <2>3, <2>4
<1>2. Cardinality(S) \in Nat
  BY FS_CardinalityType
<1>3. UpTo(Cardinality(S))
  BY <1>1, <1>2
<1>4. PICK g \in [SUBSET S -> Int] :
         \A s \in SUBSET S : Cardinality(s) <= Cardinality(S) => g[s] = By(g, s)
  BY <1>3
<1>5. \A s \in SUBSET S : g[s] = By(g, s)
  BY <1>4, FS_Subset
<1>6. g = [s \in SUBSET S |-> By(g, s)]
  BY <1>5
<1> QED BY <1>6 DEF Totals

\* What is a sum is a number.
LEMMA TotalsAt ==
    ASSUME NEW S, NEW f, NEW g, Totals(g, f, S), NEW s \in SUBSET S
    PROVE  g[s] = IF s = {} THEN 0 ELSE f[Chosen(s)] + g[s \ {Chosen(s)}]
<1> DEFINE By(t) == IF t = {} THEN 0 ELSE f[Chosen(t)] + g[t \ {Chosen(t)}]
<1>1. g = [t \in SUBSET S |-> By(t)]
  BY DEF Totals
<1> HIDE DEF By
<1>2. g[s] = By(s)
  BY <1>1
<1> QED BY <1>2 DEF By

Counted(g, f, S) ==
    \A s \in SUBSET S : g[s] = IF s = {} THEN 0 ELSE f[Chosen(s)] + g[s \ {Chosen(s)}]

LEMMA TotalsCounted == \A S, f, g : Totals(g, f, S) => Counted(g, f, S)
BY TotalsAt DEF Counted

LEMMA TotalsType ==
    ASSUME NEW S, IsFiniteSet(S), NEW f \in [S -> Int], NEW g, Totals(g, f, S)
    PROVE  g \in [SUBSET S -> Int]
<1> DEFINE Fails == {n \in Nat : \E s \in SUBSET S : Cardinality(s) = n /\ g[s] \notin Int}
<1>1. Fails = {}
  <2> SUFFICES ASSUME Fails # {} PROVE FALSE
    OBVIOUS
  <2>1. PICK n \in Fails : \A m \in Fails : n <= m
    BY LeastNumber
  <2>2. PICK s \in SUBSET S : Cardinality(s) = n /\ g[s] \notin Int
    OBVIOUS
  <2>3. s # {} /\ g[s] = f[Chosen(s)] + g[s \ {Chosen(s)}]
    BY <2>2, TotalsAt
  <2>4. /\ Chosen(s) \in S /\ s \ {Chosen(s)} \in SUBSET S
        /\ Cardinality(s \ {Chosen(s)}) = n - 1 /\ n - 1 \in Nat /\ ~(n <= n - 1)
    <3>1. /\ Chosen(s) \in S /\ s \ {Chosen(s)} \in SUBSET S
          /\ Cardinality(s) \in Nat /\ Cardinality(s) > 0
          /\ Cardinality(s \ {Chosen(s)}) = Cardinality(s) - 1
      BY <2>3, WithoutChosen
    <3> HIDE DEF Fails
    <3> QED BY <2>2, <3>1
  <2>5. n - 1 \notin Fails
    BY <2>1, <2>4
  <2>6. g[s \ {Chosen(s)}] \in Int
    BY <2>4, <2>5
  <2> QED BY <2>2, <2>3, <2>4, <2>6
<1>2. \A s \in SUBSET S : Cardinality(s) \in Nat
  BY FS_Subset, FS_CardinalityType
<1>3. \A s \in SUBSET S : g[s] \in Int
  BY <1>1, <1>2
<1> QED BY <1>3 DEF Totals

\* The order does not matter: any member may be added last.
LEMMA TotalsAny ==
    ASSUME NEW S, IsFiniteSet(S), NEW f \in [S -> Int], NEW g, Totals(g, f, S),
           NEW r \in SUBSET S, NEW x \in S \ r
    PROVE  g[r \cup {x}] = f[x] + g[r]
<1> DEFINE Holds(s, y) == g[s \cup {y}] = f[y] + g[s]
           Fails == {n \in Nat : \E s \in SUBSET S : \E y \in S \ s :
                                    Cardinality(s) = n /\ ~Holds(s, y)}
<1>0. g \in [SUBSET S -> Int]
  BY TotalsType
<1>1. Fails = {}
  <2> SUFFICES ASSUME Fails # {} PROVE FALSE
    OBVIOUS
  <2>1. PICK n \in Fails : \A m \in Fails : n <= m
    BY LeastNumber
  <2>2. PICK s \in SUBSET S : \E y \in S \ s : Cardinality(s) = n /\ ~Holds(s, y)
    OBVIOUS
  <2>3. PICK y \in S \ s : Cardinality(s) = n /\ ~Holds(s, y)
    BY <2>2
  <2> DEFINE t == s \cup {y}
             z == Chosen(t)
  <2>4. t \in SUBSET S /\ t # {} /\ y \notin s
    OBVIOUS
  <2>5. z \in t /\ g[t] = f[z] + g[t \ {z}]
    <3>1. z \in t
      BY <2>4, ChosenMember
    <3> HIDE DEF t
    <3>2. g[t] = IF t = {} THEN 0 ELSE f[Chosen(t)] + g[t \ {Chosen(t)}]
      BY <2>4, TotalsAt
    <3> QED BY <2>4, <3>1, <3>2
  <2> HIDE DEF z
  <2>6. CASE z = y
    <3>1. t \ {z} = s
      BY <2>4, <2>6
    <3> QED BY <2>3, <2>5, <2>6, <3>1
  <2>7. CASE z # y
    <3> DEFINE u == s \ {z}
    <3>1. z \in s /\ t \ {z} = u \cup {y} /\ s = u \cup {z} /\ u \in SUBSET S
          /\ y \in S \ u /\ z \in S \ u /\ z \in S /\ y \in S
      BY <2>4, <2>5, <2>7
    <3>2. IsFiniteSet(s) /\ Cardinality(s) \in Nat
      BY FS_Subset, FS_CardinalityType
    <3>3. Cardinality(u) = Cardinality(s) - 1 /\ IsFiniteSet(u)
      BY <3>1, <3>2, FS_RemoveElement
    <3>4. Cardinality(u) \in Nat
      BY <3>3, FS_CardinalityType
    <3>5. Cardinality(u) \notin Fails
      <4> HIDE DEF Fails, u
      <4>1. ~(n <= Cardinality(u))
        BY <2>3, <3>2, <3>3, <3>4
      <4> QED BY <2>1, <4>1
    <3>6. Holds(u, y) /\ Holds(u, z)
      BY <3>1, <3>4, <3>5
    <3>7. g[t] = f[z] + (f[y] + g[u]) /\ g[s] = f[z] + g[u]
      BY <2>5, <3>1, <3>6
    <3>8. f[z] \in Int /\ f[y] \in Int /\ g[u] \in Int
      BY <1>0, <3>1
    <3>9. g[t] = f[y] + g[s]
      <4> HIDE DEF t, u
      <4> QED BY <3>7, <3>8
    <3> QED BY <2>3, <3>9
  <2> QED BY <2>6, <2>7
<1>2. Cardinality(r) \in Nat
  BY FS_Subset, FS_CardinalityType
<1> QED BY <1>1, <1>2

\* Only the members of a set count for its sum.
LEMMA TotalsAgree ==
    ASSUME NEW S, IsFiniteSet(S), NEW f \in [S -> Int], NEW g, Totals(g, f, S),
           NEW T, IsFiniteSet(T), NEW e \in [T -> Int], NEW h, Totals(h, e, T),
           NEW r, r \subseteq S, r \subseteq T, \A x \in r : f[x] = e[x]
    PROVE  g[r] = h[r]
<1>0. Counted(g, f, S) /\ Counted(h, e, T)
  BY TotalsCounted
<1> DEFINE Fails == {n \in Nat : \E s \in SUBSET r : Cardinality(s) = n /\ g[s] # h[s]}
<1>1. Fails = {}
  <2> SUFFICES ASSUME Fails # {} PROVE FALSE
    OBVIOUS
  <2>1. PICK n \in Fails : \A m \in Fails : n <= m
    BY LeastNumber
  <2>2. PICK s \in SUBSET r : Cardinality(s) = n /\ g[s] # h[s]
    OBVIOUS
  <2>3. s \in SUBSET S /\ s \in SUBSET T
    OBVIOUS
  <2>4. /\ g[s] = IF s = {} THEN 0 ELSE f[Chosen(s)] + g[s \ {Chosen(s)}]
        /\ h[s] = IF s = {} THEN 0 ELSE e[Chosen(s)] + h[s \ {Chosen(s)}]
    BY <1>0, <2>3 DEF Counted
  <2>5. s # {}
    BY <2>2, <2>4
  <2>6. /\ Chosen(s) \in s /\ Cardinality(s) \in Nat /\ Cardinality(s) > 0
        /\ Cardinality(s \ {Chosen(s)}) = Cardinality(s) - 1
    BY <2>3, <2>5, WithoutChosen, ChosenMember
  <2>7. n - 1 \in Nat /\ n - 1 \notin Fails /\ Cardinality(s \ {Chosen(s)}) = n - 1
    <3> HIDE DEF Fails
    <3>1. n - 1 \in Nat /\ ~(n <= n - 1) /\ Cardinality(s \ {Chosen(s)}) = n - 1
      BY <2>2, <2>6
    <3> QED BY <2>1, <3>1
  <2>8. s \ {Chosen(s)} \in SUBSET r
    OBVIOUS
  <2>9. g[s \ {Chosen(s)}] = h[s \ {Chosen(s)}]
    BY <2>7, <2>8
  <2>10. f[Chosen(s)] = e[Chosen(s)]
    BY <2>6
  <2> QED BY <2>2, <2>4, <2>9, <2>10
<1>2. Cardinality(r) \in Nat
  BY FS_Subset, FS_CardinalityType
<1> QED BY <1>1, <1>2

\* SumFunction of module Functions is such a sum.
LEMMA SumIsTotal ==
    ASSUME NEW S, IsFiniteSet(S), NEW f \in [S -> Int]
    PROVE  \E g : Totals(g, f, S) /\ SumFunction(f) = g[S]
<1>1. SumFunction(f)
        = (CHOOSE g : g = [s \in SUBSET (DOMAIN f) |->
                             IF s = {} THEN 0
                             ELSE f[CHOOSE x \in s : TRUE] + g[s \ {CHOOSE x \in s : TRUE}]])
          [DOMAIN f]
  BY DEF SumFunction, SumFunctionOnSet, FoldFunctionOnSet, MapThenFoldSet
<1>2. SumFunction(f) = (CHOOSE g : Totals(g, f, S))[S]
  BY <1>1, DOMAIN f = S DEF Totals, Chosen
<1>3. Totals(CHOOSE g : Totals(g, f, S), f, S)
  BY TotalsExist
<1> QED BY <1>2, <1>3

\* The sum of nothing, and of one value more.
LEMMA SumEmpty == ASSUME NEW f, DOMAIN f = {}, f \in [{} -> Int] PROVE SumFunction(f) = 0
<1>1. IsFiniteSet({})
  BY FS_EmptySet
<1>2. PICK g : Totals(g, f, {}) /\ SumFunction(f) = g[{}]
  BY <1>1, SumIsTotal
<1> QED BY <1>2, TotalsAt

LEMMA SumType ==
    ASSUME NEW S, IsFiniteSet(S), NEW f \in [S -> Int]
    PROVE  SumFunction(f) \in Int
<1>1. PICK g : Totals(g, f, S) /\ SumFunction(f) = g[S]
  BY SumIsTotal
<1>2. g \in [SUBSET S -> Int] /\ S \in SUBSET S
  BY <1>1, TotalsType
<1> QED BY <1>1, <1>2

LEMMA SumInsert ==
    ASSUME NEW S, IsFiniteSet(S), NEW x, x \notin S,
           NEW f \in [S \cup {x} -> Int], NEW e \in [S -> Int], \A y \in S : e[y] = f[y]
    PROVE  SumFunction(f) = SumFunction(e) + f[x]
<1> DEFINE T == S \cup {x}
<1>1. IsFiniteSet(T) /\ f \in [T -> Int] /\ S \in SUBSET T /\ x \in T \ S
  BY FS_AddElement
<1> HIDE DEF T
<1>2. PICK g : Totals(g, f, T) /\ SumFunction(f) = g[T]
  BY <1>1, SumIsTotal
<1>3. PICK h : Totals(h, e, S) /\ SumFunction(e) = h[S]
  BY SumIsTotal
<1>4. g[S \cup {x}] = f[x] + g[S]
  BY <1>1, <1>2, TotalsAny
<1>5. g[S] = h[S]
  BY <1>1, <1>2, <1>3, TotalsAgree
<1>6. g \in [SUBSET T -> Int] /\ f[x] \in Int
  BY <1>1, <1>2, TotalsType
<1>7. g[S] \in Int
  BY <1>1, <1>6
<1> QED BY <1>2, <1>3, <1>4, <1>5, <1>6, <1>7 DEF T

\* Terms that are not negative have such a sum.
LEMMA SumNotNegative ==
    ASSUME NEW S, IsFiniteSet(S), NEW f \in [S -> Nat]
    PROVE  SumFunction(f) \in Nat
<1>1. f \in [S -> Int]
  OBVIOUS
<1>2. PICK g : Totals(g, f, S) /\ SumFunction(f) = g[S]
  BY <1>1, SumIsTotal
<1>3. g \in [SUBSET S -> Int]
  BY <1>1, <1>2, TotalsType
<1> DEFINE Fails == {n \in Nat : \E s \in SUBSET S : Cardinality(s) = n /\ g[s] < 0}
<1>4. Fails = {}
  <2> SUFFICES ASSUME Fails # {} PROVE FALSE
    OBVIOUS
  <2>1. PICK n \in Fails : \A m \in Fails : n <= m
    BY LeastNumber
  <2>2. PICK s \in SUBSET S : Cardinality(s) = n /\ g[s] < 0
    OBVIOUS
  <2>3. g[s] = IF s = {} THEN 0 ELSE f[Chosen(s)] + g[s \ {Chosen(s)}]
    BY <1>2, TotalsAt
  <2>4. s # {}
    BY <2>2, <2>3
  <2>5. /\ Chosen(s) \in S /\ s \ {Chosen(s)} \in SUBSET S
        /\ Cardinality(s) \in Nat /\ Cardinality(s) > 0
        /\ Cardinality(s \ {Chosen(s)}) = Cardinality(s) - 1
    BY <2>4, WithoutChosen
  <2>6. n - 1 \in Nat /\ n - 1 \notin Fails /\ Cardinality(s \ {Chosen(s)}) = n - 1
    <3> HIDE DEF Fails
    <3>1. n - 1 \in Nat /\ ~(n <= n - 1) /\ Cardinality(s \ {Chosen(s)}) = n - 1
      BY <2>2, <2>5
    <3> QED BY <2>1, <3>1
  <2>7. ~(g[s \ {Chosen(s)}] < 0)
    BY <2>5, <2>6
  <2>8. f[Chosen(s)] \in Nat /\ g[s \ {Chosen(s)}] \in Int
    BY <1>3, <2>5
  <2> QED BY <2>2, <2>3, <2>4, <2>7, <2>8
<1>5. Cardinality(S) \in Nat /\ S \in SUBSET S
  BY FS_CardinalityType
<1>6. ~(g[S] < 0) /\ g[S] \in Int
  BY <1>3, <1>4, <1>5
<1> QED BY <1>2, <1>6
==============================================================================
