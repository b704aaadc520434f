---------------------------- MODULE PtyIoProofs -----------------------------
(***************************************************************************)
(* Proofs about PtyIo, for any maxlen of the deques, any keys and any      *)
(* amount of input and output.                                             *)
(***************************************************************************)
EXTENDS PtyIo, SequenceTheorems, TLAPS

\* Everything in a comes before everything in b.
Before(a, b) == \A i \in 1..Len(a) : \A j \in 1..Len(b) : a[i].last < b[j].first

\* The items of q are in order.
InOrder(q) == \A i, j \in 1..Len(q) : i < j => q[i].last < q[j].first

\* Nothing in q is beyond byte n.
UpTo(q, n) == \A i \in 1..Len(q) : q[i].last <= n

CtlOK ==
    /\ ui \in {"frame", "rx", "key", "left"}
    /\ stopped \in BOOLEAN
    /\ channel \in {"open", "closed", "none"}
    /\ shell \in {"started", "refused", "none"}

\* On the way to the server: the order of the three places a key can be in.
TxOK ==
    /\ typed \in Nat /\ tx_queue \in Seq(Chunks) /\ wire \in Seq(Chunks)
    /\ writer \in {"test", "drain", "write", "close", "ended"}
    /\ hand \in Seq(Chunks) /\ Len(hand) = IF writer = "write" THEN 1 ELSE 0
    /\ Consecutive(tx_queue, typed) /\ InOrder(tx_queue)
    /\ Before(wire, hand) /\ Before(wire, tx_queue) /\ Before(hand, tx_queue)
    /\ UpTo(wire, typed) /\ UpTo(hand, typed) /\ UpTo(tx_queue, typed)

\* On the way to the screen: what has not been put yet is beyond byte Put.
RxOK ==
    /\ produced \in Nat /\ taken \in 0..produced
    /\ rx_queue \in Seq(Chunks) /\ fed \in Seq(Chunks)
    /\ reader \in {"test", "read", "put", "ended"}
    /\ data \in Seq(Chunks) /\ Len(data) = IF reader = "put" THEN 1 ELSE 0
    /\ data # <<>> => data[1].last = taken
    /\ Consecutive(rx_queue, Put) /\ InOrder(rx_queue)
    /\ Before(fed, rx_queue) /\ UpTo(fed, Put) /\ UpTo(rx_queue, Put)
    /\ rx_queue = <<>> /\ data = <<>> /\ taken > 0 =>
           fed # <<>> /\ fed[Len(fed)].last = taken

IndInv == CtlOK /\ TxOK /\ RxOK

-----------------------------------------------------------------------------
(* Deques and sequences.                                                   *)

\* The last n items of a sequence.
LEMMA LastItems ==
    ASSUME NEW S, NEW s \in Seq(S), NEW l \in Nat, Len(s) = l, NEW n \in Nat, n <= l,
           NEW m \in Int, m = l - n + 1
    PROVE  /\ SubSeq(s, m, l) \in Seq(S) /\ Len(SubSeq(s, m, l)) = n
           /\ \A i \in 1..n : SubSeq(s, m, l)[i] = s[i + (l - n)]
<1>1. \A i \in m..l : s[i] \in S
  <2> SUFFICES ASSUME NEW i \in m..l PROVE s[i] \in S
    OBVIOUS
  <2>1. i \in 1..Len(s)
    OBVIOUS
  <2> QED BY <2>1, ElementOfSeq
<1>2. /\ SubSeq(s, m, l) \in Seq(S)
      /\ Len(SubSeq(s, m, l)) = IF m <= l THEN l - m + 1 ELSE 0
      /\ \A i \in 1..(l - m + 1) : SubSeq(s, m, l)[i] = s[m + i - 1]
  BY <1>1, SubSeqProperties
<1> QED BY <1>2

\* p is q without its first d items and with c at the end; it has n items.
Shifted(q, c, p, n, d) ==
    /\ Len(p) = n /\ n + d = Len(q) + 1 /\ p[n] = c
    /\ \A i \in 1..n - 1 : i + d \in 1..Len(q) /\ p[i] = q[i + d]

\* Appending one item to a deque: the item comes last, and what was there is
\* shifted by the number d of items that were dropped.
LEMMA PushOne ==
    ASSUME NEW q \in Seq(Chunks), NEW c \in Chunks, NEW cap \in Nat \ {0}
    PROVE  \E p \in Seq(Chunks), n \in Nat \ {0}, d \in Nat :
             p = PushAll(q, <<c>>, cap) /\ Shifted(q, c, p, n, d)
<1>0. q \o <<c>> \in Seq(Chunks) /\ Len(q) \in Nat /\ Len(q) + 1 \in Nat
  BY LenProperties
<1>1. PICK s \in Seq(Chunks) : s = q \o <<c>>
  BY <1>0
<1>2. PICK l \in Nat : l = Len(q) + 1
  BY <1>0
<1>3. /\ Len(s) = l /\ Len(q) \in Nat
      /\ s[l] = c /\ \A i \in 1..Len(q) : s[i] = q[i]
  BY <1>1, <1>2, LenProperties
<1>4. PushAll(q, <<c>>, cap) = IF l <= cap THEN s ELSE SubSeq(s, l - cap + 1, l)
  BY <1>1, <1>2, <1>3 DEF PushAll
<1>5. CASE l <= cap
  <2>1. PushAll(q, <<c>>, cap) = s
    BY <1>4, <1>5
  <2>2. /\ s \in Seq(Chunks) /\ l \in Nat \ {0} /\ 0 \in Nat
        /\ Len(s) = l /\ l + 0 = Len(q) + 1 /\ s[l] = c
        /\ \A i \in 1..l - 1 : i + 0 \in 1..Len(q) /\ s[i] = q[i + 0]
    BY <1>2, <1>3
  <2>3. Shifted(q, c, s, l, 0)
    BY ONLY <2>2 DEF Shifted
  <2> QED BY ONLY <2>1, <2>2, <2>3
<1>6. CASE ~(l <= cap)
  <2>1. l - cap \in Nat /\ l - cap + 1 \in Int /\ cap <= l
    BY <1>6
  <2>2. PICK m \in Int : m = l - cap + 1
    BY <2>1
  <2>3. /\ SubSeq(s, m, l) \in Seq(Chunks) /\ Len(SubSeq(s, m, l)) = cap
        /\ \A i \in 1..cap : SubSeq(s, m, l)[i] = s[i + (l - cap)]
    BY ONLY <1>3, <2>1, <2>2, cap \in Nat, LastItems
  <2>4. PICK p \in Seq(Chunks) : /\ p = SubSeq(s, m, l) /\ Len(p) = cap
                           /\ \A i \in 1..cap : p[i] = s[i + (l - cap)]
    BY ONLY <2>3
  <2>5. /\ cap \in Nat \ {0} /\ cap + (l - cap) = Len(q) + 1 /\ p[cap] = c
    <3>1. cap \in 1..cap /\ cap + (l - cap) = l
      OBVIOUS
    <3>2. p[cap] = s[l]
      BY ONLY <2>4, <3>1
    <3> QED BY ONLY <1>2, <1>3, <3>1, <3>2, cap \in Nat \ {0}
  <2>6. \A i \in 1..cap - 1 : i + (l - cap) \in 1..Len(q) /\ p[i] = q[i + (l - cap)]
    <3> TAKE i \in 1..cap - 1
    <3>1. i \in 1..cap /\ i + (l - cap) \in 1..Len(q)
      BY <1>2, <1>3, <2>1
    <3>2. p[i] = s[i + (l - cap)]
      BY ONLY <2>4, <3>1
    <3> QED BY ONLY <1>3, <3>1, <3>2
  <2>7. PushAll(q, <<c>>, cap) = p
    BY <1>4, <1>6, <2>2, <2>4
  <2>8. Shifted(q, c, p, cap, l - cap)
    BY ONLY <2>4, <2>5, <2>6 DEF Shifted
  <2> QED BY ONLY <2>1, <2>4, <2>5, <2>7, <2>8
<1> QED BY <1>5, <1>6

\* popleft.
LEMMA PopLeft ==
    ASSUME NEW S, NEW q \in Seq(S), q # <<>>
    PROVE  /\ Len(q) \in Nat \ {0} /\ Head(q) = q[1] /\ Head(q) \in S
           /\ Tail(q) \in Seq(S) /\ Len(Tail(q)) = Len(q) - 1
           /\ \A i \in 1..Len(q) - 1 : Tail(q)[i] = q[i + 1]
<1>1. Len(q) \in Nat \ {0}
  BY LenProperties, EmptySeq
<1> QED BY <1>1, HeadTailProperties

\* The run of the bytes f to l is a chunk.
LEMMA RunIsChunk ==
    ASSUME NEW f \in Nat \ {0}, NEW l \in Nat, f <= l
    PROVE  Run(f, l) \in Chunks /\ Run(f, l).first = f /\ Run(f, l).last = l
BY DEF Run, Chunks

-----------------------------------------------------------------------------
(* What the order facts say of them.                                       *)

\* Appending the bytes that follow keeps the order and the newest data.
LEMMA PushKeeps ==
    ASSUME NEW q \in Seq(Chunks), NEW c \in Chunks, NEW cap \in Nat \ {0}, NEW n \in Nat,
           Consecutive(q, n), InOrder(q), UpTo(q, n), c.first = n + 1
    PROVE  LET p == PushAll(q, <<c>>, cap)
           IN  /\ p \in Seq(Chunks) /\ p # <<>>
               /\ Consecutive(p, c.last) /\ InOrder(p) /\ UpTo(p, c.last)
               /\ \A a \in Seq(Chunks) : Before(a, q) /\ UpTo(a, n) => Before(a, p)
<1>0. PICK p \in Seq(Chunks), k \in Nat \ {0}, d \in Nat :
         p = PushAll(q, <<c>>, cap) /\ Shifted(q, c, p, k, d)
  BY PushOne
<1>1. /\ Len(p) = k /\ k + d = Len(q) + 1 /\ p[k] = c
      /\ \A i \in 1..k - 1 : i + d \in 1..Len(q) /\ p[i] = q[i + d]
  BY <1>0 DEF Shifted
<1>2. c.first \in Nat /\ c.last \in Nat /\ c.first <= c.last /\ Len(q) \in Nat
  BY LenProperties DEF Chunks
<1>3. \A i \in 1..Len(q) : q[i].first \in Nat /\ q[i].last \in Nat
  BY ElementOfSeq DEF Chunks
<1>4. p # <<>>
  BY <1>1, EmptySeq
<1>5. Consecutive(p, c.last)
  <2>1. ASSUME NEW i \in 1..k - 1 PROVE p[i + 1].first = p[i].last + 1
    <3>1. CASE i = k - 1
      <4>1. i + d = Len(q) /\ p[i] = q[Len(q)] /\ q # <<>> /\ p[i + 1] = c
        BY <1>1, <1>2, <3>1, EmptySeq
      <4> QED BY <4>1 DEF Consecutive
    <3>2. CASE i # k - 1
      <4>1. i + 1 \in 1..k - 1 /\ (i + 1) + d = (i + d) + 1
        BY <3>2
      <4>2. p[i] = q[i + d] /\ p[i + 1] = q[(i + d) + 1]
        BY ONLY <1>1, <4>1, i \in 1..k - 1
      <4>3. i + d \in 1..Len(q) - 1
        BY ONLY <1>1, <1>2, <4>1, i \in 1..k - 1
      <4> QED BY <4>2, <4>3 DEF Consecutive
    <3> QED BY <3>1, <3>2
  <2> QED BY <1>1, <2>1 DEF Consecutive
<1>6. UpTo(p, c.last)
  <2> SUFFICES ASSUME NEW i \in 1..k PROVE p[i].last <= c.last
    BY <1>1 DEF UpTo
  <2>1. CASE i = k
    BY <1>1, <1>2, <2>1
  <2>2. CASE i # k
    <3>1. i + d \in 1..Len(q) /\ p[i] = q[i + d]
      BY <1>1, <2>2
    <3> QED BY <1>2, <1>3, <3>1 DEF UpTo
  <2> QED BY <2>1, <2>2
<1>7. InOrder(p)
  <2> SUFFICES ASSUME NEW i \in 1..k, NEW j \in 1..k, i < j PROVE p[i].last < p[j].first
    BY <1>1 DEF InOrder
  <2>1. i \in 1..k - 1
    OBVIOUS
  <2>2. i + d \in 1..Len(q) /\ p[i] = q[i + d]
    BY ONLY <1>1, <2>1
  <2>3. CASE j = k
    BY <1>1, <1>2, <1>3, <2>2, <2>3 DEF UpTo
  <2>4. CASE j # k
    <3>1. j \in 1..k - 1
      BY <2>4
    <3>2. j + d \in 1..Len(q) /\ p[j] = q[j + d] /\ i + d < j + d
      BY ONLY <1>1, <3>1, <2>1, i < j, i \in 1..k, j \in 1..k
    <3> QED BY <2>2, <3>2 DEF InOrder
  <2> QED BY <2>3, <2>4
<1>8. ASSUME NEW a \in Seq(Chunks), Before(a, q), UpTo(a, n)
      PROVE  Before(a, p)
  <2> SUFFICES ASSUME NEW i \in 1..Len(a), NEW j \in 1..k PROVE a[i].last < p[j].first
    BY <1>1 DEF Before
  <2>1. CASE j = k
    <3>1. a[i].last <= n /\ a[i].last \in Nat
      BY <1>8, ElementOfSeq DEF UpTo, Chunks
    <3> QED BY <1>1, <2>1, <3>1
  <2>2. CASE j # k
    <3>1. j + d \in 1..Len(q) /\ p[j] = q[j + d]
      BY <1>1, <2>2
    <3> QED BY <1>8, <3>1 DEF Before
  <2> QED BY <2>1, <2>2
<1> QED BY <1>0, <1>1, <1>4, <1>5, <1>6, <1>7, <1>8

\* So does taking the oldest item.
LEMMA PopKeeps ==
    ASSUME NEW q \in Seq(Chunks), q # <<>>, NEW n \in Nat,
           Consecutive(q, n), InOrder(q), UpTo(q, n)
    PROVE  /\ Head(q) \in Chunks /\ Tail(q) \in Seq(Chunks)
           /\ Consecutive(Tail(q), n) /\ InOrder(Tail(q)) /\ UpTo(Tail(q), n)
           /\ Head(q).last <= n
           /\ Tail(q) = <<>> => Head(q).last = n
           /\ Before(<<Head(q)>>, Tail(q))
           /\ \A a : Before(a, q) => Before(a, Tail(q)) /\ Before(a, <<Head(q)>>)
<1>1. PICK l \in Nat \ {0}, t \in Seq(Chunks) :
         /\ t = Tail(q) /\ Len(q) = l /\ Len(t) = l - 1
         /\ Head(q) = q[1] /\ Head(q) \in Chunks
         /\ \A i \in 1..l - 1 : t[i] = q[i + 1]
  <2>1. /\ Len(q) \in Nat \ {0} /\ Head(q) = q[1] /\ Head(q) \in Chunks
        /\ Tail(q) \in Seq(Chunks) /\ Len(Tail(q)) = Len(q) - 1
        /\ \A i \in 1..Len(q) - 1 : Tail(q)[i] = q[i + 1]
    BY ONLY PopLeft, q \in Seq(Chunks), q # <<>>
  <2> QED BY ONLY <2>1
<1>2. \A i \in 1..l - 1 : i + 1 \in 1..l
  OBVIOUS
<1>3. Consecutive(t, n)
  <2>1. \A i \in 1..Len(t) - 1 : t[i + 1].first = t[i].last + 1
    <3> SUFFICES ASSUME NEW i \in 1..Len(t) - 1 PROVE t[i + 1].first = t[i].last + 1
      OBVIOUS
    <3>1. i \in 1..l - 1 /\ i + 1 \in 1..l - 1
      BY <1>1
    <3>2. t[i] = q[i + 1] /\ t[i + 1] = q[(i + 1) + 1]
      BY <1>1, <3>1
    <3> QED BY <1>1, <3>1, <3>2 DEF Consecutive
  <2>2. ASSUME t # <<>> PROVE t[Len(t)].last = n
    <3>1. l - 1 \in 1..l - 1
      BY <1>1, <2>2, EmptySeq
    <3>2. t[l - 1] = q[l]
      BY <1>1, <3>1
    <3> QED BY <1>1, <3>2 DEF Consecutive
  <2> QED BY <2>1, <2>2 DEF Consecutive
<1>4. InOrder(t) /\ UpTo(t, n)
  BY <1>1, <1>2 DEF InOrder, UpTo
<1>5. Head(q).last <= n
  BY <1>1 DEF UpTo
<1>6. ASSUME t = <<>> PROVE Head(q).last = n
  <2>1. Len(t) = l - 1 /\ l \in Nat
    BY ONLY <1>1
  <2>2. l = 1
    BY ONLY <2>1, <1>6
  <2>3. q[Len(q)].last = n
    BY DEF Consecutive
  <2> QED BY ONLY <1>1, <2>2, <2>3
<1>7. Before(<<Head(q)>>, t)
  <2> SUFFICES ASSUME NEW j \in 1..l - 1 PROVE q[1].last < t[j].first
    BY <1>1 DEF Before
  <2>1. t[j] = q[j + 1] /\ j + 1 \in 1..l /\ 1 \in 1..l /\ 1 < j + 1
    BY <1>1
  <2> QED BY <1>1, <2>1 DEF InOrder
<1>8. ASSUME NEW a, Before(a, q)
      PROVE  Before(a, t) /\ Before(a, <<Head(q)>>)
  <2>1. 1 \in 1..l
    OBVIOUS
  <2> QED BY <1>1, <1>2, <1>8, <2>1 DEF Before
<1> QED BY <1>1, <1>3, <1>4, <1>5, <1>6, <1>7, <1>8

\* What arrived, with one more run that follows it.
LEMMA AppendKeeps ==
    ASSUME NEW a \in Seq(Chunks), NEW c \in Chunks, NEW n, UpTo(a, n), c.last <= n
    PROVE  /\ Append(a, c) \in Seq(Chunks) /\ Append(a, c) # <<>>
           /\ Append(a, c)[Len(Append(a, c))] = c
           /\ UpTo(Append(a, c), n)
           /\ \A q : Before(a, q) /\ Before(<<c>>, q) => Before(Append(a, c), q)
<1>1. PICK b \in Seq(Chunks), l \in Nat :
         /\ b = Append(a, c) /\ Len(a) = l /\ Len(b) = l + 1
         /\ b[l + 1] = c /\ \A i \in 1..l : b[i] = a[i]
  <2>1. /\ Append(a, c) \in Seq(Chunks) /\ Len(a) \in Nat
        /\ Len(Append(a, c)) = Len(a) + 1 /\ Append(a, c)[Len(a) + 1] = c
        /\ \A i \in 1..Len(a) : Append(a, c)[i] = a[i]
    BY ONLY AppendProperties, LenProperties, a \in Seq(Chunks), c \in Chunks
  <2> QED BY ONLY <2>1
<1>2. b # <<>> /\ UpTo(b, n)
  BY <1>1, EmptySeq DEF UpTo
<1>3. ASSUME NEW q, Before(a, q), Before(<<c>>, q) PROVE Before(b, q)
  <2> SUFFICES ASSUME NEW i \in 1..l + 1, NEW j \in 1..Len(q) PROVE b[i].last < q[j].first
    BY <1>1 DEF Before
  <2>1. CASE i = l + 1
    BY <1>1, <1>3, <2>1 DEF Before
  <2>2. CASE i # l + 1
    <3>1. i \in 1..l
      BY <2>2
    <3> QED BY <1>1, <1>3, <3>1 DEF Before
  <2> QED BY <2>1, <2>2
<1> QED BY <1>1, <1>2, <1>3

\* A sequence of one item.
LEMMA OneItem ==
    ASSUME NEW S, NEW s \in Seq(S), Len(s) = 1
    PROVE  s[1] \in S /\ s = <<s[1]>>
<1>1. 1 \in 1..Len(s) /\ s[1] \in S
  BY ElementOfSeq
<1>2. <<s[1]>> \in Seq(S) /\ Len(<<s[1]>>) = 1 /\ \A i \in 1..1 : s[i] = <<s[1]>>[i]
  BY <1>1
<1> QED BY <1>1, <1>2, SeqEqual

\* An empty deque is in order.
LEMMA Nothing ==
    /\ <<>> \in Seq(Chunks) /\ Len(<<>>) = 0 /\ InOrder(<<>>)
    /\ \A n : Consecutive(<<>>, n) /\ UpTo(<<>>, n)
    /\ \A q : Before(<<>>, q) /\ Before(q, <<>>)
BY EmptySeq DEF InOrder, Consecutive, UpTo, Before

\* What is up to a byte is up to a later one.
LEMMA UpToMore ==
    ASSUME NEW q \in Seq(Chunks), NEW m \in Nat, NEW n \in Nat, UpTo(q, m), m <= n
    PROVE  UpTo(q, n)
<1> SUFFICES ASSUME NEW i \in 1..Len(q) PROVE q[i].last <= n
  BY DEF UpTo
<1>1. q[i].last \in Nat
  BY ElementOfSeq DEF Chunks
<1> QED BY <1>1 DEF UpTo

\* Where the output that was put ends.
LEMMA PutInRange == ASSUME RxOK PROVE Put \in Nat /\ Put <= taken
<1>1. CASE data = <<>>
  BY <1>1 DEF RxOK, Put
<1>2. CASE data # <<>>
  <2>1. Len(data) \in Nat /\ Len(data) # 0
    BY <1>2, LenProperties, EmptySeq DEF RxOK
  <2>2. data[1] \in Chunks /\ data[1].last = taken
    BY <1>2, <2>1, ElementOfSeq DEF RxOK
  <2> QED BY <1>2, <2>2 DEF Put, Chunks, RxOK
<1> QED BY <1>1, <1>2

-----------------------------------------------------------------------------
(* The invariant, one lemma per action that moves data.                    *)

LEMMA InitInv == ASSUME Init PROVE IndInv
<1>1. CtlOK
  BY DEF Init, CtlOK
<1>2. TxOK
  BY Nothing DEF Init, TxOK
<1>3. RxOK
  <2>1. Put = 0
    BY DEF Init, Put
  <2> QED BY <2>1, Nothing DEF Init, RxOK
<1> QED BY <1>1, <1>2, <1>3 DEF IndInv

LEMMA TxSame == TxOK /\ UNCHANGED txVars => TxOK'
BY DEF TxOK, txVars, Consecutive, InOrder, Before, UpTo

LEMMA RxSame == ASSUME RxOK, UNCHANGED rxVars PROVE RxOK'
<1>1. Put' = Put
  BY DEF rxVars, Put
<1> QED BY <1>1 DEF RxOK, rxVars, Consecutive, InOrder, Before, UpTo

LEMMA TypeKeyKeeps == ASSUME TxOK, TypeKey PROVE TxOK'
<1>1. PICK n \in KeyLens :
         /\ typed' = typed + n
         /\ tx_queue' = PushAll(tx_queue, <<Run(typed + 1, typed + n)>>, TxCap)
  BY DEF TypeKey
<1>2. n \in Nat \ {0} /\ typed \in Nat
  BY PtyAssumption DEF TxOK
<1>3. PICK c \in Chunks :
         c = Run(typed + 1, typed + n) /\ c.first = typed + 1 /\ c.last = typed + n
  BY <1>2, RunIsChunk
<1>4. /\ tx_queue' \in Seq(Chunks)
      /\ Consecutive(tx_queue', typed') /\ InOrder(tx_queue') /\ UpTo(tx_queue', typed')
      /\ \A a \in Seq(Chunks) : Before(a, tx_queue) /\ UpTo(a, typed) => Before(a, tx_queue')
  <2>1. /\ tx_queue \in Seq(Chunks) /\ TxCap \in Nat \ {0} /\ typed \in Nat
        /\ Consecutive(tx_queue, typed) /\ InOrder(tx_queue) /\ UpTo(tx_queue, typed)
    BY PtyAssumption DEF TxOK
  <2> QED BY ONLY <1>1, <1>3, <2>1, PushKeeps
<1>5. UpTo(wire, typed') /\ UpTo(hand, typed') /\ typed' \in Nat
  <2>1. typed' \in Nat /\ typed <= typed'
    BY <1>1, <1>2
  <2> QED BY <1>2, <2>1, UpToMore DEF TxOK
<1>6. UNCHANGED <<writer, hand, wire>>
  BY DEF TypeKey
<1> QED BY <1>4, <1>5, <1>6 DEF TxOK

LEMMA WriterTakeKeeps == ASSUME TxOK, WriterTake PROVE TxOK'
<1>1. /\ tx_queue \in Seq(Chunks) /\ tx_queue # <<>> /\ typed \in Nat
      /\ Consecutive(tx_queue, typed) /\ InOrder(tx_queue) /\ UpTo(tx_queue, typed)
  BY DEF TxOK, WriterTake
<1>2. PICK c \in Chunks, t \in Seq(Chunks) :
         /\ c = Head(tx_queue) /\ t = Tail(tx_queue)
         /\ Consecutive(t, typed) /\ InOrder(t) /\ UpTo(t, typed)
         /\ c.last <= typed /\ Before(<<c>>, t)
         /\ \A a : Before(a, tx_queue) => Before(a, t) /\ Before(a, <<c>>)
  BY ONLY <1>1, PopKeeps
<1>3. tx_queue' = t /\ hand' = <<c>> /\ writer' = "write" /\ UNCHANGED <<typed, wire>>
  BY <1>2 DEF WriterTake
<1>4. <<c>> \in Seq(Chunks) /\ Len(<<c>>) = 1 /\ UpTo(<<c>>, typed)
  BY <1>2 DEF UpTo
<1> QED BY <1>2, <1>3, <1>4 DEF TxOK

\* What the native module takes of a chunk.
LEMMA Taken ==
    ASSUME TxOK, writer = "write", NEW n \in Accepted(hand[1]), n # 0
    PROVE  \E r \in Chunks :
             /\ r = Run(hand[1].first, hand[1].first + n - 1)
             /\ r.first = hand[1].first /\ r.last <= typed
             /\ Before(wire, <<r>>) /\ Before(<<r>>, tx_queue)
<1>1. PICK c \in Chunks : c = hand[1] /\ hand = <<c>>
  BY OneItem DEF TxOK
<1>2. /\ c.first \in Nat \ {0} /\ c.last \in Nat
      /\ n \in Nat \ {0} /\ c.first + n - 1 <= c.last /\ c.first + n - 1 \in Nat
  BY <1>1 DEF Accepted, Chunks
<1>3. PICK r \in Chunks : /\ r = Run(c.first, c.first + n - 1)
                         /\ r.first = c.first /\ r.last <= c.last
  BY <1>2, RunIsChunk
<1>4. c.last <= typed
  BY <1>1 DEF TxOK, UpTo
<1>5. r.last <= typed
  BY <1>2, <1>3, <1>4 DEF TxOK, Chunks
<1>6. Before(wire, <<r>>)
  BY <1>1, <1>3 DEF TxOK, Before
<1>7. Before(<<r>>, tx_queue)
  <2> SUFFICES ASSUME NEW j \in 1..Len(tx_queue) PROVE r.last < tx_queue[j].first
    BY DEF Before
  <2>1. c.last < tx_queue[j].first /\ tx_queue[j].first \in Nat
    BY <1>1, ElementOfSeq DEF TxOK, Before, Chunks
  <2> QED BY <1>2, <1>3, <2>1 DEF Chunks
<1> QED BY <1>1, <1>3, <1>5, <1>6, <1>7

LEMMA NativeWriteKeeps == ASSUME TxOK, NativeWrite PROVE TxOK'
<1>1. PICK n \in Accepted(hand[1]) :
         wire' = IF n = 0 THEN wire
                 ELSE Append(wire, Run(hand[1].first, hand[1].first + n - 1))
  BY DEF NativeWrite
<1>2. writer = "write" /\ writer' = "drain" /\ hand' = <<>> /\ UNCHANGED <<typed, tx_queue>>
  BY DEF NativeWrite
<1>3. wire' \in Seq(Chunks) /\ UpTo(wire', typed) /\ Before(wire', tx_queue)
  <2>1. CASE n = 0
    BY <1>1, <2>1 DEF TxOK
  <2>2. CASE n # 0
    <3>1. PICK r \in Chunks :
             /\ wire' = Append(wire, r) /\ r.last <= typed /\ Before(<<r>>, tx_queue)
      BY <1>1, <1>2, <2>2, Taken
    <3>2. wire \in Seq(Chunks) /\ UpTo(wire, typed) /\ Before(wire, tx_queue)
      BY DEF TxOK
    <3> QED BY ONLY <3>1, <3>2, AppendKeeps
  <2> QED BY <2>1, <2>2
<1> QED BY <1>2, <1>3, Nothing DEF TxOK

LEMMA FeedTerminalKeeps == ASSUME RxOK, FeedTerminal PROVE RxOK'
<1>1. Put \in Nat /\ Put <= taken /\ taken \in Nat
  BY PutInRange DEF RxOK
<1>2. /\ rx_queue \in Seq(Chunks) /\ rx_queue # <<>>
      /\ Consecutive(rx_queue, Put) /\ InOrder(rx_queue) /\ UpTo(rx_queue, Put)
  BY DEF RxOK, FeedTerminal
<1>3. PICK c \in Chunks, t \in Seq(Chunks) :
         /\ c = Head(rx_queue) /\ t = Tail(rx_queue)
         /\ Consecutive(t, Put) /\ InOrder(t) /\ UpTo(t, Put)
         /\ c.last <= Put /\ (t = <<>> => c.last = Put)
         /\ Before(<<c>>, t)
         /\ \A a : Before(a, rx_queue) => Before(a, t) /\ Before(a, <<c>>)
  BY ONLY <1>1, <1>2, PopKeeps
<1>4. PICK f \in Seq(Chunks) :
         /\ f = Append(fed, c) /\ f # <<>> /\ f[Len(f)] = c /\ UpTo(f, Put)
         /\ \A q : Before(fed, q) /\ Before(<<c>>, q) => Before(f, q)
  <2>1. fed \in Seq(Chunks) /\ UpTo(fed, Put)
    BY DEF RxOK
  <2> QED BY ONLY <1>3, <2>1, AppendKeeps
<1>5. Before(f, t)
  BY <1>3, <1>4 DEF RxOK
<1>6. rx_queue' = t /\ fed' = f /\ UNCHANGED <<produced, taken, reader, data>>
  BY <1>3, <1>4 DEF FeedTerminal
<1>7. Put' = Put /\ (data = <<>> => Put = taken)
  BY <1>6 DEF Put
<1> QED BY <1>3, <1>4, <1>5, <1>6, <1>7 DEF RxOK

LEMMA NativeReadKeeps == ASSUME RxOK, NativeRead PROVE RxOK'
<1>1. PICK n \in Readable :
         /\ taken' = taken + n
         /\ data' = IF n = 0 THEN <<>> ELSE <<Run(taken + 1, taken + n)>>
         /\ reader' = IF n = 0 THEN "test" ELSE "put"
  BY DEF NativeRead
<1>2. data = <<>>
  BY EmptySeq DEF NativeRead, RxOK
<1>3. n \in Nat /\ taken \in Nat /\ produced \in Nat /\ taken + n <= produced
  BY PtyAssumption DEF Readable, RxOK
<1>4. UNCHANGED <<produced, rx_queue, fed>>
  BY DEF NativeRead
<1>5. CASE n = 0
  <2>1. taken' = taken /\ data' = data /\ reader' = "test" /\ Put' = Put
    BY <1>1, <1>2, <1>3, <1>5 DEF Put
  <2> QED BY <1>2, <1>4, <2>1, Nothing DEF RxOK
<1>6. CASE n # 0
  <2>1. PICK c \in Chunks :
           c = Run(taken + 1, taken + n) /\ c.first = taken + 1 /\ c.last = taken + n
    BY <1>3, <1>6, RunIsChunk
  <2>2. taken' = taken + n /\ data' = <<c>> /\ reader' = "put"
    BY <1>1, <1>6, <2>1
  <2>3. Put' = Put
    BY <1>2, <1>3, <2>1, <2>2 DEF Put
  <2>4. taken' \in 0..produced
    BY <1>3, <2>2
  <2>5. data' \in Seq(Chunks) /\ Len(data') = 1 /\ data' # <<>> /\ data'[1].last = taken'
    BY <2>1, <2>2
  <2> QED BY <1>4, <2>2, <2>3, <2>4, <2>5 DEF RxOK
<1> QED BY <1>5, <1>6

LEMMA ReaderPutKeeps == ASSUME RxOK, ReaderPut PROVE RxOK'
<1>1. Put \in Nat /\ Put <= taken /\ taken \in Nat
  BY PutInRange DEF RxOK
<1>2. PICK c \in Chunks : c = data[1] /\ data = <<c>>
  BY OneItem DEF RxOK, ReaderPut
<1>3. data # <<>> /\ c.first = Put + 1 /\ c.last = taken
  <2>1. data # <<>>
    BY <1>2
  <2> QED BY <1>2, <2>1 DEF Put, RxOK, Chunks
<1>4. PICK p \in Seq(Chunks) :
         /\ p = PushAll(rx_queue, <<c>>, RxCap) /\ p # <<>>
         /\ Consecutive(p, taken) /\ InOrder(p) /\ UpTo(p, taken)
         /\ \A a \in Seq(Chunks) : Before(a, rx_queue) /\ UpTo(a, Put) => Before(a, p)
  <2>1. /\ rx_queue \in Seq(Chunks) /\ RxCap \in Nat \ {0}
        /\ Consecutive(rx_queue, Put) /\ InOrder(rx_queue) /\ UpTo(rx_queue, Put)
    BY PtyAssumption DEF RxOK
  <2> QED BY ONLY <1>1, <1>3, <2>1, PushKeeps
<1>5. rx_queue' = p /\ data' = <<>> /\ reader' = "test" /\ UNCHANGED <<produced, taken, fed>>
  BY <1>2, <1>4 DEF ReaderPut
<1>6. Put' = taken
  BY <1>5 DEF Put
<1>7. Before(fed, p) /\ UpTo(fed, taken)
  BY <1>1, <1>4, UpToMore DEF RxOK
<1> QED BY <1>4, <1>5, <1>6, <1>7, Nothing DEF RxOK

LEMMA ProduceKeeps == ASSUME RxOK, Produce PROVE RxOK'
<1>1. produced' = produced + 1 /\ UNCHANGED <<taken, reader, data, rx_queue, fed>>
  BY DEF Produce
<1>2. Put' = Put
  BY <1>1 DEF Put
<1>3. produced' \in Nat /\ taken' \in 0..produced'
  BY <1>1 DEF RxOK
<1> QED BY <1>1, <1>2, <1>3 DEF RxOK

LEMMA StepInv == ASSUME IndInv, [Next]_vars PROVE IndInv'
<1>1. CtlOK /\ TxOK /\ RxOK
  BY DEF IndInv
<1>2. CASE RunForeground
  <2>1. CASE StartFrame \/ Disconnect \/ RxDrained \/ NoKey
    <3>1. UNCHANGED <<txVars, rxVars>> /\ CtlOK'
      BY <1>1, <2>1 DEF StartFrame, Disconnect, RxDrained, NoKey, CtlOK
    <3> QED BY <1>1, <3>1, TxSame, RxSame DEF IndInv
  <2>2. CASE FeedTerminal
    <3>1. UNCHANGED txVars /\ CtlOK'
      BY <1>1, <2>2 DEF FeedTerminal, CtlOK
    <3> QED BY <1>1, <2>2, <3>1, TxSame, FeedTerminalKeeps DEF IndInv
  <2>3. CASE TypeKey
    <3>1. UNCHANGED rxVars /\ CtlOK'
      BY <1>1, <2>3 DEF TypeKey, CtlOK
    <3> QED BY <1>1, <2>3, <3>1, RxSame, TypeKeyKeeps DEF IndInv
  <2> QED BY <1>2, <2>1, <2>2, <2>3 DEF RunForeground
<1>3. CASE Writer
  <2>1. UNCHANGED rxVars /\ CtlOK'
    BY <1>1, <1>3 DEF Writer, WriterTest, WriterTake, WriterIdle, NativeWrite, CloseChannel,
                      CtlOK
  <2>2. CASE WriterTest \/ WriterIdle \/ CloseChannel
    <3>1. /\ writer # "write" /\ writer' \in {"test", "drain", "close", "ended"}
          /\ UNCHANGED <<typed, tx_queue, hand, wire>>
      BY <2>2 DEF WriterTest, WriterIdle, CloseChannel
    <3>2. TxOK'
      BY <1>1, <3>1 DEF TxOK
    <3> QED BY <1>1, <2>1, <3>2, RxSame DEF IndInv
  <2>3. CASE WriterTake
    BY <1>1, <2>1, <2>3, RxSame, WriterTakeKeeps DEF IndInv
  <2>4. CASE NativeWrite
    BY <1>1, <2>1, <2>4, RxSame, NativeWriteKeeps DEF IndInv
  <2> QED BY <1>3, <2>2, <2>3, <2>4 DEF Writer
<1>4. CASE Reader
  <2>1. UNCHANGED txVars /\ CtlOK'
    BY <1>1, <1>4 DEF Reader, ReaderTest, NativeRead, ReaderPut, CtlOK
  <2>2. CASE ReaderTest
    <3>1. /\ reader # "put" /\ reader' \in {"read", "ended"}
          /\ UNCHANGED <<produced, taken, data, rx_queue, fed>>
      BY <2>2 DEF ReaderTest
    <3>2. Put' = Put
      BY <3>1 DEF Put
    <3>3. RxOK'
      BY <1>1, <3>1, <3>2 DEF RxOK
    <3> QED BY <1>1, <2>1, <3>3, TxSame DEF IndInv
  <2>3. CASE NativeRead
    BY <1>1, <2>1, <2>3, TxSame, NativeReadKeeps DEF IndInv
  <2>4. CASE ReaderPut
    BY <1>1, <2>1, <2>4, TxSame, ReaderPutKeeps DEF IndInv
  <2> QED BY <1>4, <2>2, <2>3, <2>4 DEF Reader
<1>5. CASE Produce
  <2>1. UNCHANGED txVars /\ CtlOK'
    BY <1>1, <1>5 DEF Produce, CtlOK
  <2> QED BY <1>1, <1>5, <2>1, TxSame, ProduceKeeps DEF IndInv
<1>6. CASE HangUp
  <2>1. UNCHANGED <<txVars, rxVars>> /\ CtlOK'
    BY <1>1, <1>6 DEF HangUp, CtlOK
  <2> QED BY <1>1, <2>1, TxSame, RxSame DEF IndInv
<1>7. CASE UNCHANGED vars
  <2>1. UNCHANGED <<txVars, rxVars>> /\ CtlOK'
    BY <1>1, <1>7 DEF vars, CtlOK
  <2> QED BY <1>1, <2>1, TxSame, RxSame DEF IndInv
<1> QED BY <1>2, <1>3, <1>4, <1>5, <1>6, <1>7 DEF Next

LEMMA Invariant == Spec => []IndInv
<1>1. Init => IndInv
  BY InitInv
<1>2. IndInv /\ [Next]_vars => IndInv'
  BY StepInv
<1> QED BY <1>1, <1>2, PTL DEF Spec

-----------------------------------------------------------------------------
(* The theorems.                                                           *)

\* Every variable keeps its type; in particular no empty chunk is ever
\* queued, so the UI never feeds one.
THEOREM PtyTypes == Spec => []TypeOK
<1>1. IndInv => TypeOK
  BY DEF IndInv, CtlOK, TxOK, RxOK, TypeOK
<1> QED BY <1>1, Invariant, PTL

\* Whatever the maxlen of the two deques, a full one costs the oldest data
\* only (app.py 46-47).
THEOREM NewestIsKept == Spec => []NewestKept
<1>1. IndInv => NewestKept
  BY DEF IndInv, TxOK, RxOK, NewestKept
<1> QED BY <1>1, Invariant, PTL

\* Keys reach the server in the order they were typed, each byte at most
\* once, whatever is dropped or accepted in part (worker.py 66-68).
THEOREM KeysArePiped == Spec => KeysPiped
<1>1. Init => TxPipe!Init
  BY DEF Init, TxPipe!Init
<1>2. ASSUME IndInv, [Next]_vars PROVE [TxPipe!Next]_<<typed, wire>>
  <2>1. CASE TypeKey
    <3>1. PICK n \in KeyLens : typed' = typed + n
      BY <2>1 DEF TypeKey
    <3>2. typed' \in Nat /\ typed' > typed /\ wire' = wire
      BY <1>2, <2>1, <3>1, PtyAssumption DEF IndInv, TxOK, TypeKey
    <3> QED BY <3>2 DEF TxPipe!Next, TxPipe!Send
  <2>2. CASE NativeWrite
    <3>1. PICK n \in Accepted(hand[1]) :
             wire' = IF n = 0 THEN wire
                     ELSE Append(wire, Run(hand[1].first, hand[1].first + n - 1))
      BY <2>2 DEF NativeWrite
    <3>2. writer = "write" /\ typed' = typed /\ TxOK
      BY <1>2, <2>2 DEF NativeWrite, IndInv
    <3>3. CASE n = 0
      BY <3>1, <3>2, <3>3
    <3>4. CASE n # 0
      <4>1. PICK r \in Chunks :
               /\ r = Run(hand[1].first, hand[1].first + n - 1)
               /\ r.last <= typed /\ Before(wire, <<r>>)
        BY <3>2, <3>4, Taken
      <4>2. r.first \in 1..typed /\ r.last \in r.first..typed
            /\ r = [first |-> r.first, last |-> r.last]
        BY <3>2, <4>1 DEF Chunks, TxOK
      <4>3. \A i \in 1..Len(wire) : wire[i].last < r.first
        BY <4>1 DEF Before
      <4>4. wire' = Append(wire, [first |-> r.first, last |-> r.last])
        BY <3>1, <3>4, <4>1, <4>2
      <4>5. TxPipe!Deliver
        BY <3>2, <4>2, <4>3, <4>4 DEF TxPipe!Deliver
      <4> QED BY <4>5 DEF TxPipe!Next
    <3> QED BY <3>3, <3>4
  <2>3. CASE ~TypeKey /\ ~NativeWrite
    <3>1. UNCHANGED <<typed, wire>>
      BY <1>2, <2>3 DEF Next, RunForeground, Writer, Reader, vars, txVars, StartFrame,
         Disconnect, FeedTerminal, RxDrained, NoKey, WriterTest, WriterTake, WriterIdle,
         CloseChannel, ReaderTest, NativeRead, ReaderPut, Produce, HangUp
    <3> QED BY <3>1
  <2> QED BY <2>1, <2>2, <2>3
<1> QED BY <1>1, <1>2, Invariant, PTL DEF Spec, KeysPiped, TxPipe!Spec

\* The terminal is fed the server's output in order, each byte at most once
\* (worker.py 53-57, app.py 387-388).
THEOREM OutputIsPiped == Spec => OutputPiped
<1>1. Init => RxPipe!Init
  BY DEF Init, RxPipe!Init
<1>2. ASSUME IndInv, [Next]_vars PROVE [RxPipe!Next]_<<produced, fed>>
  <2>1. CASE Produce
    <3>1. produced' \in Nat /\ produced' > produced /\ fed' = fed
      BY <1>2, <2>1 DEF IndInv, RxOK, Produce
    <3> QED BY <3>1 DEF RxPipe!Next, RxPipe!Send
  <2>2. CASE FeedTerminal
    <3>1. RxOK /\ fed' = Append(fed, Head(rx_queue)) /\ produced' = produced
      BY <1>2, <2>2 DEF FeedTerminal, IndInv
    <3>2. PICK c \in Chunks : /\ c = Head(rx_queue) /\ c = rx_queue[1]
                             /\ 1 \in 1..Len(rx_queue)
      <4>1. rx_queue \in Seq(Chunks) /\ rx_queue # <<>>
        BY <2>2, <3>1 DEF FeedTerminal, RxOK
      <4>2. /\ Head(rx_queue) \in Chunks /\ Head(rx_queue) = rx_queue[1]
            /\ Len(rx_queue) \in Nat \ {0}
        BY ONLY <4>1, PopLeft
      <4> QED BY <4>2
    <3>3. c.last <= produced
      <4>1. c.last <= Put
        BY <3>1, <3>2 DEF RxOK, UpTo
      <4>2. Put \in Nat /\ Put <= taken /\ taken <= produced
        BY <3>1, PutInRange DEF RxOK
      <4>3. c.last \in Nat /\ taken \in Nat /\ produced \in Nat
        BY <3>1 DEF Chunks, RxOK
      <4> QED BY ONLY <4>1, <4>2, <4>3
    <3>4. c.first \in 1..produced /\ c.last \in c.first..produced
          /\ c = [first |-> c.first, last |-> c.last]
      <4>1. produced \in Nat
        BY <3>1 DEF RxOK
      <4> QED BY ONLY <3>3, <4>1, c \in Chunks DEF Chunks
    <3>5. \A i \in 1..Len(fed) : fed[i].last < c.first
      BY <3>1, <3>2 DEF Before, RxOK
    <3>6. fed' = Append(fed, [first |-> c.first, last |-> c.last])
      BY <3>1, <3>2, <3>4
    <3>7. RxPipe!Deliver
      BY <3>1, <3>4, <3>5, <3>6 DEF RxPipe!Deliver
    <3> QED BY <3>7 DEF RxPipe!Next
  <2>3. CASE ~Produce /\ ~FeedTerminal
    <3>1. UNCHANGED <<produced, fed>>
      BY <1>2, <2>3 DEF Next, RunForeground, Writer, Reader, vars, rxVars, StartFrame,
         Disconnect, TypeKey, RxDrained, NoKey, WriterTest, WriterTake, WriterIdle,
         NativeWrite, CloseChannel, ReaderTest, NativeRead, ReaderPut, HangUp
    <3> QED BY <3>1
  <2> QED BY <2>1, <2>2, <2>3
<1> QED BY <1>1, <1>2, Invariant, PTL DEF Spec, OutputPiped, RxPipe!Spec

=============================================================================
