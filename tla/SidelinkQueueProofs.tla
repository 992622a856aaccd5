-------------------------- MODULE SidelinkQueueProofs --------------------------
(***************************************************************************)
(* Theorems about SidelinkQueue, for every set of SDUs and sizes, every      *)
(* size of the queue and every set of shares its assumptions allow.         *)
(***************************************************************************)
EXTENDS SidelinkQueue, NaturalLemmas, SequenceTheorems

(* Bytes *)

Sizes(s) == [i \in 1..Len(s) |-> s[i].size]
SumOf(f, s) == RunsOver(f, 0, Sizes(s), Len(s))

\* Bytes is the last value of the running sum of the sizes, and there is one.
LEMMA BytesIs ==
  ASSUME NEW s \in Seq(Segment)
  PROVE  /\ \E f : SumOf(f, s)
         /\ \A f : SumOf(f, s) => Bytes(s) = f[Len(s)]
<1> DEFINE n == Len(s)
           IsSum(h) == h = [i \in 0..n |-> IF i = 0 THEN 0 ELSE h[i-1] + s[i].size]
<1>1. n \in Nat /\ 0 \in Int
  OBVIOUS
<1>2. ASSUME NEW i \in 1..n PROVE Sizes(s)[i] = s[i].size /\ s[i].size \in Int
  <2>1. s[i] \in Segment
    OBVIOUS
  <2> QED BY <2>1 DEF Sizes, Segment
<1>3. \E f : SumOf(f, s)
  <2> HIDE DEF n
  <2>1. \E f : RunsOver(f, 0, Sizes(s), n)
    BY <1>1, <1>2, RunningSumExists
  <2> QED BY <2>1 DEF SumOf, n
<1>4. ASSUME NEW k PROVE SumOf(k, s) <=> IsSum(k)
  <2>1. ASSUME SumOf(k, s) PROVE IsSum(k)
    <3>1. \A i \in 0..n : k[i] = IF i = 0 THEN 0 ELSE k[i-1] + s[i].size
      BY <1>2, <2>1 DEF SumOf, RunsOver
    <3>2. k = [i \in 0..n |-> k[i]]
      BY <2>1 DEF SumOf, RunsOver
    <3> QED BY <3>1, <3>2
  <2>2. ASSUME IsSum(k) PROVE SumOf(k, s)
    <3>1. \A i \in 0..n : k[i] = IF i = 0 THEN 0 ELSE k[i-1] + s[i].size
      BY <2>2
    <3>2. PICK R : k \in [0..n -> R]
      <4>1. k \in [0..n -> {k[i] : i \in 0..n}]
        BY <2>2
      <4> QED BY <4>1
    <3>3. \A i \in 0..n : k[i] = IF i = 0 THEN 0 ELSE k[i-1] + Sizes(s)[i]
      BY <1>2, <3>1
    <3> HIDE DEF n
    <3>4. RunsOver(k, 0, Sizes(s), n)
      BY <1>1, <1>2, <3>2, <3>3, RunningSumRecursion
    <3> QED BY <3>4 DEF SumOf, n
  <2> QED BY <2>1, <2>2
<1>5. Bytes(s) = (CHOOSE k : IsSum(k))[n]
  BY DEF Bytes
<1>6. SumOf(CHOOSE k : IsSum(k), s)
  <2>1. IsSum(CHOOSE k : IsSum(k))
    BY <1>3, <1>4
  <2> QED BY <1>4, <2>1
<1>7. ASSUME NEW f, SumOf(f, s) PROVE Bytes(s) = f[n]
  <2>1. f = CHOOSE k : IsSum(k)
    BY <1>1, <1>6, <1>7, RunningSumUnique DEF SumOf
  <2> QED BY <1>5, <2>1
<1> QED BY <1>3, <1>7

\* A queue has a natural number of bytes.
LEMMA BytesNat ==
  ASSUME NEW s \in Seq(Segment)
  PROVE  Bytes(s) \in Nat
<1>1. PICK f : SumOf(f, s)
  BY BytesIs
<1> DEFINE P == {i \in 0..Len(s) : f[i] \in Nat}
<1>2. 0 \in P
  BY <1>1 DEF SumOf, RunsOver
<1>3. ASSUME NEW i \in 1..Len(s), i - 1 \in P PROVE i \in P
  <2>1. s[i] \in Segment
    OBVIOUS
  <2>2. f[i] = f[i-1] + s[i].size /\ s[i].size \in Nat
    BY <1>1, <2>1 DEF SumOf, RunsOver, Sizes, Segment
  <2> QED BY <1>3, <2>2
<1>4. 0..Len(s) \subseteq P
  <2>1. Len(s) \in Nat
    OBVIOUS
  <2> HIDE DEF P
  <2> QED BY <1>2, <1>3, <2>1, InductionUpTo
<1>5. Len(s) \in P
  <2>1. Len(s) \in 0..Len(s)
    OBVIOUS
  <2> HIDE DEF P
  <2> QED BY <1>4, <2>1
<1>6. Bytes(s) = f[Len(s)]
  BY <1>1, BytesIs
<1> QED BY <1>5, <1>6

\* The empty queue has none.
LEMMA BytesEmpty == Bytes(<<>>) = 0
<1> DEFINE s == <<>>
<1>1. s \in Seq(Segment) /\ Len(s) = 0
  OBVIOUS
<1> HIDE DEF s
<1>2. PICK f : SumOf(f, s)
  BY <1>1, BytesIs
<1>3. Bytes(s) = f[0] /\ f[0] = 0
  BY <1>1, <1>2, BytesIs DEF SumOf, RunsOver
<1> QED BY <1>3 DEF s

\* A queue of one segment has the bytes of that segment.
LEMMA BytesSingle ==
  ASSUME NEW e \in Segment
  PROVE  Bytes(<<e>>) = e.size
<1> DEFINE s == <<e>>
<1>1. s \in Seq(Segment) /\ Len(s) = 1 /\ s[1] = e
  OBVIOUS
<1> HIDE DEF s
<1>2. PICK f : SumOf(f, s)
  BY <1>1, BytesIs
<1>3. Bytes(s) = f[1]
  BY <1>1, <1>2, BytesIs
<1>4. f[0] = 0 /\ f[1] = f[0] + e.size /\ e.size \in Nat
  BY <1>1, <1>2 DEF SumOf, RunsOver, Sizes, Segment
<1> QED BY <1>3, <1>4 DEF s

\* The running sum of the second part goes on where that of the first ends.
LEMMA BytesConcat ==
  ASSUME NEW s \in Seq(Segment), NEW t \in Seq(Segment)
  PROVE  Bytes(s \o t) = Bytes(s) + Bytes(t)
<1>1. PICK f : SumOf(f, s)
  BY BytesIs
<1>2. PICK g : SumOf(g, t)
  BY BytesIs
<1> DEFINE u == s \o t
           m == Len(s)
           n == Len(t)
           h == [i \in 0..m+n |-> IF i <= m THEN f[i] ELSE f[m] + g[i-m]]
<1>3. /\ m \in Nat /\ n \in Nat /\ u \in Seq(Segment) /\ Len(u) = m + n
      /\ \A i \in 1..m+n : u[i] = IF i <= m THEN s[i] ELSE t[i-m]
  BY ConcatProperties
<1>4. /\ f \in [0..m -> Int] /\ f[0] = 0 /\ \A i \in 1..m : f[i] = f[i-1] + s[i].size
      /\ g \in [0..n -> Int] /\ g[0] = 0 /\ \A i \in 1..n : g[i] = g[i-1] + t[i].size
  BY <1>1, <1>2 DEF SumOf, RunsOver, Sizes
<1>8. /\ \A i \in 0..m : f[i] \in Int
      /\ \A i \in 0..n : g[i] \in Int
      /\ m \in 0..m /\ f[m] \in Int
  <2>1. (\A i \in 0..m : f[i] \in Int) /\ (\A i \in 0..n : g[i] \in Int)
    BY <1>4
  <2>2. m \in 0..m
    BY <1>3
  <2> QED BY <2>1, <2>2
<1>5. SumOf(h, u)
  <2>1. h \in [0..m+n -> Int]
    <3>2. ASSUME NEW i \in 0..m+n PROVE (IF i <= m THEN f[i] ELSE f[m] + g[i-m]) \in Int
      <4>1. CASE i <= m
        <5>1. i \in 0..m
          BY <1>3, <4>1
        <5> QED BY <1>8, <4>1, <5>1
      <4>2. CASE i > m
        <5>1. i - m \in 0..n
          BY <1>3, <4>2
        <5>2. g[i-m] \in Int
          BY <1>8, <5>1
        <5> QED BY <1>3, <1>8, <4>2, <5>2
      <4> QED BY <1>3, <4>1, <4>2
    <3> QED BY <3>2
  <2>2. h[0] = 0
    BY <1>3, <1>4
  <2>3. ASSUME NEW i \in 1..m+n PROVE h[i] = h[i-1] + u[i].size
    <3>1. CASE i <= m
      <4>1. u[i] = s[i] /\ h[i] = f[i] /\ h[i-1] = f[i-1] /\ f[i] = f[i-1] + s[i].size
        BY <1>3, <1>4, <3>1
      <4> QED BY <4>1
    <3>2. CASE i > m
      <4>1. u[i] = t[i-m] /\ h[i] = f[m] + g[i-m]
        BY <1>3, <3>2
      <4>2. i - m \in 1..n /\ (i - m) - 1 = (i - 1) - m
        BY <1>3, <3>2
      <4>3. g[i-m] = g[(i-1)-m] + t[i-m].size
        BY <1>4, <4>2
      <4>4. h[i-1] = f[m] + g[(i-1)-m]
        <5>1. CASE i - 1 = m
          BY <1>3, <1>4, <3>2, <5>1
        <5>2. CASE i - 1 > m
          BY <1>3, <3>2, <5>2
        <5> QED BY <1>3, <3>2, <5>1, <5>2
      <4>5. f[m] \in Int /\ g[(i-1)-m] \in Int /\ t[i-m].size \in Int
        <5>1. t[i-m] \in Segment
          BY <4>2
        <5>2. (i-1)-m \in 0..n
          BY <1>3, <4>2
        <5> QED BY <1>8, <5>1, <5>2 DEF Segment
      <4> QED BY <4>1, <4>3, <4>4, <4>5
    <3> QED BY <1>3, <3>1, <3>2
  <2> HIDE DEF h
  <2>4. Len(u) = m + n /\ \A i \in 1..m+n : Sizes(u)[i] = u[i].size
    BY <1>3 DEF Sizes
  <2> HIDE DEF u, m, n
  <2> QED BY <2>1, <2>2, <2>3, <2>4 DEF SumOf, RunsOver
<1>6. Bytes(u) = h[m+n] /\ Bytes(s) = f[m] /\ Bytes(t) = g[n]
  <2>1. Bytes(u) = h[Len(u)]
    <3> HIDE DEF u, h
    <3> QED BY <1>3, <1>5, BytesIs
  <2> QED BY <1>1, <1>2, <1>3, <2>1, BytesIs
<1>7. h[m+n] = f[m] + g[n]
  <2>1. CASE n = 0
    BY <1>3, <1>4, <2>1
  <2>2. CASE n # 0
    BY <1>3, <2>2
  <2> QED BY <2>1, <2>2
<1> QED BY <1>6, <1>7

\* A queue cut in two.
LEMMA BytesSplit ==
  ASSUME NEW s \in Seq(Segment), NEW k \in 0..Len(s)
  PROVE  /\ SubSeq(s, 1, k) \in Seq(Segment) /\ SubSeq(s, k+1, Len(s)) \in Seq(Segment)
         /\ Bytes(s) = Bytes(SubSeq(s, 1, k)) + Bytes(SubSeq(s, k+1, Len(s)))
<1> DEFINE a == SubSeq(s, 1, k)
           b == SubSeq(s, k+1, Len(s))
<1>1. a \in Seq(Segment) /\ b \in Seq(Segment)
  OBVIOUS
<1>2. a \o b = s
  <2>1. 1 \in 1..Len(s)+1 /\ k \in 1-1..Len(s) /\ Len(s) \in k..Len(s)
    OBVIOUS
  <2>2. a \o b = SubSeq(s, 1, Len(s))
    BY <2>1, ConcatAdjacentSubSeq
  <2>3. SubSeq(s, 1, Len(s)) = s
    BY SubSeqFull
  <2> QED BY <2>2, <2>3
<1>3. Bytes(a \o b) = Bytes(a) + Bytes(b)
  <2> HIDE DEF a, b
  <2> QED BY <1>1, BytesConcat
<1> QED BY <1>1, <1>2, <1>3

\* One segment more.
LEMMA BytesPrefix ==
  ASSUME NEW s \in Seq(Segment), NEW k \in 1..Len(s)
  PROVE  Bytes(SubSeq(s, 1, k)) = Bytes(SubSeq(s, 1, k-1)) + s[k].size
<1>1. SubSeq(s, 1, k) = SubSeq(s, 1, k-1) \o <<s[k]>>
  <2>1. 1 \in 1..Len(s) /\ k \in 1..Len(s)
    OBVIOUS
  <2> QED BY <2>1, SubSeqRecursiveSecond
<1>2. SubSeq(s, 1, k-1) \in Seq(Segment) /\ s[k] \in Segment /\ <<s[k]>> \in Seq(Segment)
  OBVIOUS
<1> QED BY <1>1, <1>2, BytesConcat, BytesSingle

------------------------------------------------------------------------------
(* The space left for a segment of an LteRlcUm PDU *)

\* SpaceFor satisfies its recursion.
LEMMA SpaceForIs ==
  ASSUME txBuffer \in Seq(Segment), NEW bytes \in Int, NEW space, space = SpaceFor(bytes)
  PROVE  /\ \A j \in 1..Len(txBuffer) : space[j] \in Int
         /\ Len(txBuffer) > 0 => space[1] = bytes - 2
         /\ \A j \in 2..Len(txBuffer) :
              space[j] = space[j-1] - txBuffer[j-1].size - LiBytes(j-1)
<1> DEFINE n == Len(txBuffer)
           Rec(k, j) == IF j = 1 THEN bytes - 2
                        ELSE k[j-1] - txBuffer[j-1].size - LiBytes(j-1)
           IsSpace(k) == k = [j \in 1..n |-> Rec(k, j)]
           g == [i \in 1..n |-> - (txBuffer[i].size + LiBytes(i))]
<1>1. n \in Nat /\ bytes - 2 \in Int
  OBVIOUS
<1>2. ASSUME NEW i \in 1..n
      PROVE  /\ txBuffer[i].size \in Int /\ LiBytes(i) \in Int
             /\ g[i] = - (txBuffer[i].size + LiBytes(i)) /\ g[i] \in Int
  <2>1. txBuffer[i] \in Segment
    OBVIOUS
  <2>2. txBuffer[i].size \in Int /\ LiBytes(i) \in Int
    BY <2>1 DEF Segment, LiBytes
  <2> QED BY <2>2
<1>3. PICK f : RunsOver(f, bytes - 2, g, n)
  <2> HIDE DEF g, n
  <2> QED BY <1>1, <1>2, RunningSumExists
<1>4. IsSpace([j \in 1..n |-> f[j-1]])
  <2> DEFINE k == [j \in 1..n |-> f[j-1]]
  <2>1. ASSUME NEW j \in 1..n PROVE k[j] = Rec(k, j)
    <3>1. CASE j = 1
      BY <1>3, <3>1 DEF RunsOver
    <3>2. CASE j # 1
      <4>1. j - 1 \in 1..n /\ j - 1 \in 0..n /\ k[j-1] = f[(j-1)-1] /\ k[j] = f[j-1]
        BY <1>1, <3>2
      <4>2. f[j-1] = f[(j-1)-1] + g[j-1] /\ f[(j-1)-1] \in Int
        BY <1>3, <4>1 DEF RunsOver
      <4> HIDE DEF k, g
      <4>3. k[j] = k[j-1] + (- (txBuffer[j-1].size + LiBytes(j-1)))
        BY <1>2, <4>1, <4>2
      <4>4. k[j-1] \in Int /\ txBuffer[j-1].size \in Int /\ LiBytes(j-1) \in Int
        BY <1>2, <4>1, <4>2
      <4> QED BY <3>2, <4>3, <4>4
    <3> QED BY <3>1, <3>2
  <2> HIDE DEF Rec
  <2> QED BY <2>1
<1>5. SpaceFor(bytes) = CHOOSE k : IsSpace(k)
  BY DEF SpaceFor
<1>6. IsSpace(SpaceFor(bytes))
  <2> HIDE DEF IsSpace
  <2> QED BY <1>4, <1>5
<1>8. IsSpace(space)
  BY <1>6
<1>9. \A j \in 1..n : space[j] = Rec(space, j)
  <2> HIDE DEF Rec
  <2> QED BY <1>8
<1>10. /\ n > 0 => space[1] = bytes - 2
       /\ \A j \in 2..n : space[j] = space[j-1] - txBuffer[j-1].size - LiBytes(j-1)
  BY <1>1, <1>9
<1>11. \A j \in 1..n : space[j] \in Int
  <2> DEFINE P == {i \in 0..n : i > 0 => space[i] \in Int}
  <2>1. 0 \in P
    BY <1>1
  <2>2. ASSUME NEW i \in 1..n, i - 1 \in P PROVE i \in P
    <3>1. CASE i = 1
      BY <1>1, <1>10, <3>1
    <3>2. CASE i # 1
      <4>1. i \in 2..n /\ i - 1 \in 1..n /\ space[i-1] \in Int
        BY <1>1, <2>2, <3>2
      <4>2. txBuffer[i-1].size \in Int /\ LiBytes(i-1) \in Int
        BY <1>2, <4>1
      <4>3. space[i] = space[i-1] - txBuffer[i-1].size - LiBytes(i-1)
        BY <1>10, <4>1
      <4>4. space[i] \in Int
        BY <4>1, <4>2, <4>3
      <4> QED BY <4>4
    <3> QED BY <3>1, <3>2
  <2>3. 0..n \subseteq P
    <3> HIDE DEF P, n
    <3> QED BY <1>1, <2>1, <2>2, InductionUpTo
  <2>4. ASSUME NEW j \in 1..n PROVE space[j] \in Int
    <3>1. j \in P /\ j > 0
      BY <2>3
    <3> QED BY <3>1
  <2> QED BY <2>4
<1> QED BY <1>10, <1>11

\* One length indicator more makes the header longer by its bytes.
LEMMA HeaderStep ==
  ASSUME NEW j \in Nat \ {0}
  PROVE  /\ HeaderBytes(j) \in Nat /\ HeaderBytes(1) = 2
         /\ HeaderBytes(j + 1) = HeaderBytes(j) + LiBytes(j)
<1>1. CASE j % 2 = 1
  <2>1. PICK k \in Nat : j = 2 * k + 1
    BY <1>1
  <2>2. (3 * (j - 1) + 1) \div 2 = 3 * k /\ (3 * ((j + 1) - 1) + 1) \div 2 = 3 * k + 2
    BY <2>1
  <2> QED BY <1>1, <2>1, <2>2 DEF HeaderBytes, LiBytes
<1>2. CASE j % 2 # 1
  <2>1. PICK k \in Nat \ {0} : j = 2 * k
    BY <1>2
  <2>2. (3 * (j - 1) + 1) \div 2 = 3 * k - 1 /\ (3 * ((j + 1) - 1) + 1) \div 2 = 3 * k
    BY <2>1
  <2> QED BY <1>2, <2>1, <2>2 DEF HeaderBytes, LiBytes
<1> QED BY <1>1, <1>2

\* The space left is what header and mapped segments leave of the opportunity.
LEMMA SpaceClosed ==
  ASSUME txBuffer \in Seq(Segment), NEW bytes \in Int, NEW j \in 1..Len(txBuffer)
  PROVE  SpaceFor(bytes)[j] = bytes - HeaderBytes(j) - Bytes(SubSeq(txBuffer, 1, j - 1))
<1> DEFINE n == Len(txBuffer)
           pre(k) == Bytes(SubSeq(txBuffer, 1, k))
<1>1. PICK space : space = SpaceFor(bytes)
  OBVIOUS
<1>2. /\ \A k \in 1..n : space[k] \in Int
      /\ space[1] = bytes - 2
      /\ \A k \in 2..n : space[k] = space[k-1] - txBuffer[k-1].size - LiBytes(k-1)
  <2>1. bytes \in Int /\ Len(txBuffer) > 0
    OBVIOUS
  <2>2. /\ \A i \in 1..Len(txBuffer) : space[i] \in Int
        /\ Len(txBuffer) > 0 => space[1] = bytes - 2
        /\ \A i \in 2..Len(txBuffer) :
             space[i] = space[i-1] - txBuffer[i-1].size - LiBytes(i-1)
    BY <1>1, <2>1, SpaceForIs
  <2> QED BY <2>1, <2>2
<1> DEFINE P == {k \in 0..n : k > 0 => space[k] = bytes - HeaderBytes(k) - pre(k-1)}
<1>3. n \in Nat /\ 0 \in P
  OBVIOUS
<1>4. ASSUME NEW k \in 1..n, k - 1 \in P PROVE k \in P
  <2>1. CASE k = 1
    <3>1. pre(0) = 0
      <4>1. SubSeq(txBuffer, 1, 0) = <<>>
        OBVIOUS
      <4> QED BY <4>1, BytesEmpty
    <3>2. HeaderBytes(1) = 2
      BY HeaderStep
    <3> QED BY <1>2, <2>1, <3>1, <3>2
  <2>2. CASE k # 1
    <3>1. k \in 2..n /\ k - 1 \in 1..n /\ k - 1 \in Nat \ {0}
      BY <2>2
    <3>2. space[k-1] = bytes - HeaderBytes(k-1) - pre((k-1)-1)
      BY <1>4, <3>1
    <3>3. pre(k-1) = pre((k-1)-1) + txBuffer[k-1].size
      BY <3>1, BytesPrefix
    <3>4. HeaderBytes((k-1) + 1) = HeaderBytes(k-1) + LiBytes(k-1) /\ HeaderBytes(k-1) \in Nat
      BY <3>1, HeaderStep
    <3>5. space[k] = space[k-1] - txBuffer[k-1].size - LiBytes(k-1)
      BY <1>2, <3>1
    <3>6. pre((k-1)-1) \in Nat /\ txBuffer[k-1].size \in Int /\ LiBytes(k-1) \in Int
      <4>1. SubSeq(txBuffer, 1, (k-1)-1) \in Seq(Segment) /\ txBuffer[k-1] \in Segment
        BY <3>1
      <4>2. pre((k-1)-1) \in Nat
        <5> HIDE DEF pre
        <5> QED BY <4>1, BytesNat DEF pre
      <4> QED BY <4>1, <4>2 DEF Segment, LiBytes
    <3>7. (k-1) + 1 = k
      BY <3>1
    <3> HIDE DEF pre
    <3>8. space[k] = bytes - HeaderBytes(k) - pre(k-1)
      BY <3>2, <3>3, <3>4, <3>5, <3>6, <3>7
    <3> QED BY <3>8
  <2> QED BY <2>1, <2>2
<1>5. 0..n \subseteq P
  <2> HIDE DEF P, n
  <2> QED BY <1>3, <1>4, InductionUpTo
<1>6. j \in P
  <2> HIDE DEF P
  <2> QED BY <1>5
<1> QED BY <1>1, <1>6

------------------------------------------------------------------------------
(* What becomes of the queue *)

\* A segment is its three fields.
LEMMA SegmentParts ==
  ASSUME NEW seg \in Segment
  PROVE  seg = [sdu |-> seg.sdu, size |-> seg.size, status |-> seg.status]
BY DEF Segment

\* A queue as the entity keeps it: every SDU once, what is left of it at least a byte and
\* at most the SDU, only the first one perhaps begun, and tagged for what it is.
WellFormed(queue) ==
  /\ queue \in Seq(Segment)
  /\ \A i \in 1..Len(queue) :
       /\ queue[i].size \in 1..SduSize[queue[i].sdu]
       /\ queue[i].status = IF queue[i].size = SduSize[queue[i].sdu] THEN "FULL" ELSE "LAST"
       /\ i > 1 => queue[i].status = "FULL"
  /\ \A i, j \in 1..Len(queue) : queue[i].sdu = queue[j].sdu => i = j

\* The first n segments of the queue go into a PDU, of the last of them only as many
\* bytes as are taken.
Taken(n, taken) ==
  [sdu |-> txBuffer[n].sdu, size |-> taken,
   status |-> StatusOfTaken(txBuffer[n].status, txBuffer[n].size - taken)]
Left(n, taken) ==
  [sdu |-> txBuffer[n].sdu, size |-> txBuffer[n].size - taken, status |-> "LAST"]
After(n) == SubSeq(txBuffer, n + 1, Len(txBuffer))

IsMapped(mapped, n, taken) ==
  /\ n \in 1..Len(txBuffer) /\ taken \in 1..txBuffer[n].size
  /\ mapped.n = n /\ mapped.left = txBuffer[n].size - taken
  /\ mapped.data = Append(SubSeq(txBuffer, 1, n - 1), Taken(n, taken))
  /\ mapped.rest = IF taken = txBuffer[n].size THEN After(n) ELSE <<Left(n, taken)>> \o After(n)

\* The loop of DoNotifyTxOpportunity takes at least one byte, never a segment without
\* space for it, and leaves room for the header.
LEMMA UmMappedIs ==
  ASSUME WellFormed(txBuffer), txBuffer # <<>>, NEW bytes \in Nat, bytes > 2
  PROVE  \E n, taken :
           /\ IsMapped(UmMapped(bytes), n, taken)
           /\ HeaderBytes(n) + Bytes(SubSeq(txBuffer, 1, n - 1)) + taken <= bytes
           /\ \A j \in 1..n-1 : txBuffer[j].size <= MaxLi
<1> DEFINE len == Len(txBuffer)
<1>1. PICK space : space = SpaceFor(bytes)
  OBVIOUS
<1>2. PICK n : n = MinOf({j \in 1..len : IsLast(j, space)})
  OBVIOUS
<1>3. txBuffer \in Seq(Segment) /\ len \in Nat /\ len > 0
  BY DEF WellFormed
<1>4. /\ \A j \in 1..len : space[j] \in Int
      /\ space[1] = bytes - 2
      /\ \A j \in 2..len : space[j] = space[j-1] - txBuffer[j-1].size - LiBytes(j-1)
  <2>1. bytes \in Int /\ Len(txBuffer) > 0
    BY <1>3
  <2>2. /\ \A j \in 1..Len(txBuffer) : space[j] \in Int
        /\ Len(txBuffer) > 0 => space[1] = bytes - 2
        /\ \A j \in 2..Len(txBuffer) :
             space[j] = space[j-1] - txBuffer[j-1].size - LiBytes(j-1)
    BY <1>1, <1>3, <2>1, SpaceForIs
  <2> QED BY <2>1, <2>2
<1>5. n \in 1..len /\ IsLast(n, space) /\ \A j \in 1..len : j < n => ~ IsLast(j, space)
  <2> DEFINE C == {j \in 1..len : IsLast(j, space)}
  <2>1. len \in C
    BY <1>3 DEF IsLast
  <2>2. C \in SUBSET Nat /\ C # {}
    BY <2>1
  <2>3. \E x \in C : \A y \in C : x <= y
    <3> HIDE DEF C
    <3> QED BY <2>2, LeastExists
  <2>4. n \in C /\ \A y \in C : n <= y
    <3>1. n = MinOf(C)
      BY <1>2
    <3> HIDE DEF C
    <3> QED BY <2>3, <3>1 DEF MinOf
  <2> QED BY <2>4
<1> DEFINE seg   == txBuffer[n]
           taken == IF IsCut(n, space) THEN Min2(seg.size, space[n]) ELSE seg.size
<1>6. seg \in Segment /\ seg.size \in Nat \ {0}
  <2>1. seg \in Segment
    BY <1>3, <1>5
  <2> QED BY <1>5, <2>1 DEF WellFormed, Segment
<1>7. space[n] \in Int /\ space[n] > 0
  <2>1. CASE n = 1
    BY <1>4, <2>1
  <2>2. CASE n # 1
    <3>1. n \in 2..len /\ n - 1 \in 1..len /\ n - 1 < n
      BY <1>3, <1>5, <2>2
    <3>2. ~ IsLast(n - 1, space)
      BY <1>5, <3>1
    <3>3. space[n-1] - txBuffer[n-1].size > 2
      <4>1. space[n-1] \in Int /\ txBuffer[n-1].size \in Nat
        <5>1. txBuffer[n-1] \in Segment
          BY <1>3, <3>1
        <5> QED BY <1>4, <3>1, <5>1 DEF Segment
      <4> QED BY <3>2, <4>1 DEF IsLast
    <3>4. space[n] = space[n-1] - txBuffer[n-1].size - LiBytes(n-1) /\ LiBytes(n-1) \in {1, 2}
      BY <1>4, <3>1 DEF LiBytes
    <3>5. space[n-1] \in Int /\ txBuffer[n-1].size \in Int /\ space[n] \in Int
      <4>1. txBuffer[n-1] \in Segment
        BY <1>3, <3>1
      <4> QED BY <1>4, <1>5, <3>1, <4>1 DEF Segment
    <3> QED BY <3>3, <3>4, <3>5
  <2> QED BY <1>4, <1>5, <2>1, <2>2
<1>8. taken \in 1..seg.size /\ taken <= space[n]
  <2>1. CASE IsCut(n, space)
    BY <1>6, <1>7, <2>1 DEF Min2
  <2>2. CASE ~ IsCut(n, space)
    BY <1>6, <1>7, <2>2 DEF IsCut
  <2> QED BY <2>1, <2>2
<1>9. IsMapped(UmMapped(bytes), n, taken)
  <2> DEFINE left == seg.size - taken
  <2>1. ~ (space[n] <= 0)
    BY <1>7
  <2>2. left = 0 <=> taken = seg.size
    BY <1>6, <1>8
  <2>3. UmMapped(bytes) =
          [data |-> Append(SubSeq(txBuffer, 1, n - 1), Taken(n, taken)),
           rest |-> IF left = 0 THEN After(n) ELSE <<Left(n, taken)>> \o After(n),
           n |-> n, left |-> left]
    <3> HIDE DEF taken
    <3> QED BY <1>1, <1>2, <2>1 DEF UmMapped, After, Taken, Left, taken
  <2>5. PICK mapped : mapped = UmMapped(bytes)
    OBVIOUS
  <2>6. /\ mapped.data = Append(SubSeq(txBuffer, 1, n - 1), Taken(n, taken))
        /\ mapped.rest = IF left = 0 THEN After(n) ELSE <<Left(n, taken)>> \o After(n)
        /\ mapped.n = n /\ mapped.left = left
    <3>1. PICK data, rest, l :
            /\ data = Append(SubSeq(txBuffer, 1, n - 1), Taken(n, taken))
            /\ rest = IF left = 0 THEN After(n) ELSE <<Left(n, taken)>> \o After(n)
            /\ l = left
      OBVIOUS
    <3>2. mapped = [data |-> data, rest |-> rest, n |-> n, left |-> l]
      BY <2>3, <2>5, <3>1
    <3> QED BY <3>1, <3>2
  <2> HIDE DEF taken
  <2> QED BY <1>5, <1>8, <2>2, <2>5, <2>6 DEF IsMapped
<1>10. HeaderBytes(n) + Bytes(SubSeq(txBuffer, 1, n - 1)) + taken <= bytes
  <2>1. space[n] = bytes - HeaderBytes(n) - Bytes(SubSeq(txBuffer, 1, n - 1))
    BY <1>1, <1>3, <1>5, SpaceClosed
  <2>2. HeaderBytes(n) \in Nat
    <3>1. n \in Nat \ {0}
      BY <1>3, <1>5
    <3> QED BY <3>1, HeaderStep
  <2>3. Bytes(SubSeq(txBuffer, 1, n - 1)) \in Nat
    <3>1. SubSeq(txBuffer, 1, n - 1) \in Seq(Segment)
      BY <1>3, <1>5
    <3> QED BY <3>1, BytesNat
  <2> HIDE DEF taken
  <2> QED BY <1>6, <1>8, <2>1, <2>2, <2>3
<1>11. ASSUME NEW j \in 1..n-1 PROVE txBuffer[j].size <= MaxLi
  <2>1. j \in 1..len /\ j < n
    BY <1>3, <1>5
  <2>2. ~ (txBuffer[j].size > MaxLi)
    BY <1>5, <2>1 DEF IsLast, IsCut
  <2>3. txBuffer[j].size \in Nat /\ MaxLi \in Nat
    <3>1. txBuffer[j] \in Segment
      BY <1>3, <2>1
    <3> QED BY <3>1, SduAssumption DEF Segment
  <2> QED BY <2>2, <2>3
<1> HIDE DEF taken
<1> QED BY <1>9, <1>10, <1>11

\* LteRlcTm takes the whole head of its queue.
LEMMA TmMappedIs ==
  ASSUME WellFormed(txBuffer), txBuffer # <<>>, kind = "TM", NEW bytes
  PROVE  IsMapped(Mapped(bytes), 1, txBuffer[1].size)
<1> DEFINE seg == txBuffer[1]
           size == seg.size
<1>1. txBuffer \in Seq(Segment) /\ Len(txBuffer) \in Nat \ {0}
  BY DEF WellFormed
<1>2. 1 \in 1..Len(txBuffer) /\ seg \in Segment
  BY <1>1
<1>3. size \in Nat /\ size > 0 /\ size - size = 0
  <2>1. size \in 1..SduSize[seg.sdu] /\ seg.sdu \in Sdu
    BY <1>2 DEF WellFormed, Segment
  <2> QED BY <2>1, SduAssumption
<1>4. Mapped(bytes) = [data |-> <<Head(txBuffer)>>, rest |-> Tail(txBuffer), n |-> 1, left |-> 0]
  BY DEF Mapped
<1>5. SubSeq(txBuffer, 1, 0) = <<>> /\ Head(txBuffer) = seg
  BY <1>1
<1>6. Taken(1, size) = seg
  <2>1. StatusOfTaken(seg.status, size - size) = seg.status
    BY <1>3 DEF StatusOfTaken
  <2>2. Taken(1, size) = [sdu |-> seg.sdu, size |-> size, status |-> seg.status]
    BY <2>1 DEF Taken
  <2>3. PICK e \in Segment : e = seg
    BY <1>2
  <2> QED BY <2>2, <2>3, SegmentParts
<1>7. Append(SubSeq(txBuffer, 1, 1 - 1), Taken(1, size)) = <<Head(txBuffer)>>
  <2>1. SubSeq(txBuffer, 1, 1 - 1) = <<>>
    BY <1>1
  <2>2. Append(<<>>, seg) = <<seg>>
    OBVIOUS
  <2> HIDE DEF size, seg
  <2> QED BY <1>5, <1>6, <2>1, <2>2
<1>8. Tail(txBuffer) = After(1)
  BY <1>1, TailIsSubSeq DEF After
<1>9. PICK mapped : mapped = Mapped(bytes)
  OBVIOUS
<1>10. /\ mapped.n = 1 /\ mapped.left = size - size
       /\ mapped.data = Append(SubSeq(txBuffer, 1, 1 - 1), Taken(1, size))
       /\ mapped.rest = After(1)
  <2>1. mapped = [data |-> <<Head(txBuffer)>>, rest |-> Tail(txBuffer), n |-> 1, left |-> 0]
    BY <1>4, <1>9
  <2> HIDE DEF size
  <2> QED BY <1>3, <1>7, <1>8, <2>1
<1>11. 1 \in 1..Len(txBuffer) /\ size \in 1..size
  BY <1>1, <1>3
<1> QED BY <1>9, <1>10, <1>11 DEF IsMapped

\* What stays in the queue, segment by segment.
LEMMA RestIs ==
  ASSUME WellFormed(txBuffer), NEW mapped, NEW n, NEW taken, IsMapped(mapped, n, taken)
  PROVE  LET rest == mapped.rest
             len  == Len(txBuffer)
         IN
           /\ rest \in Seq(Segment)
           /\ taken = txBuffer[n].size =>
                Len(rest) = len - n /\ \A i \in 1..Len(rest) : rest[i] = txBuffer[n + i]
           /\ taken # txBuffer[n].size =>
                /\ Len(rest) = len - n + 1 /\ rest[1] = Left(n, taken)
                /\ \A i \in 2..Len(rest) : rest[i] = txBuffer[n + i - 1]
<1> DEFINE len == Len(txBuffer)
           after == After(n)
<1>1. txBuffer \in Seq(Segment) /\ len \in Nat /\ n \in 1..len /\ taken \in 1..txBuffer[n].size
  BY DEF WellFormed, IsMapped
<1>2. /\ after \in Seq(Segment) /\ Len(after) = len - n
      /\ \A i \in 1..len - n : after[i] = txBuffer[n + i]
  <2>1. \A i \in n + 1..len : txBuffer[i] \in Segment
    BY <1>1
  <2>2. n + 1 \in Int /\ len \in Int
    BY <1>1
  <2>3. /\ after \in Seq(Segment)
        /\ Len(after) = IF n + 1 <= len THEN len - (n + 1) + 1 ELSE 0
        /\ \A i \in 1..len - (n + 1) + 1 : after[i] = txBuffer[(n + 1) + i - 1]
    <3> HIDE DEF len
    <3> QED BY <2>1, <2>2, SubSeqProperties DEF After, len
  <2> HIDE DEF after, len
  <2>4. len - (n + 1) + 1 = len - n /\ (n + 1 <= len \/ len - n = 0)
    BY <1>1
  <2>5. ASSUME NEW i \in 1..len - n PROVE (n + 1) + i - 1 = n + i
    BY <1>1
  <2> QED BY <1>1, <2>3, <2>4, <2>5
<1>3. Left(n, taken) \in Segment
  <2>1. txBuffer[n] \in Segment
    BY <1>1
  <2>2. txBuffer[n].size - taken \in Nat
    BY <1>1, <2>1 DEF Segment
  <2> QED BY <2>1, <2>2 DEF Left, Segment
<1>4. CASE taken = txBuffer[n].size
  <2>1. mapped.rest = after
    BY <1>4 DEF IsMapped
  <2> HIDE DEF after
  <2> QED BY <1>2, <1>4, <2>1
<1>5. CASE taken # txBuffer[n].size
  <2> DEFINE head == <<Left(n, taken)>>
  <2>1. mapped.rest = head \o after
    BY <1>5 DEF IsMapped
  <2>2. head \in Seq(Segment) /\ Len(head) = 1 /\ head[1] = Left(n, taken)
    BY <1>3
  <2> HIDE DEF after, head
  <2>3. /\ mapped.rest \in Seq(Segment)
        /\ Len(mapped.rest) = 1 + (len - n)
        /\ \A i \in 1..1 + (len - n) :
             mapped.rest[i] = IF i <= 1 THEN head[i] ELSE after[i - 1]
    <3>1. /\ head \o after \in Seq(Segment)
          /\ Len(head \o after) = Len(head) + Len(after)
          /\ \A i \in 1..Len(head) + Len(after) :
               (head \o after)[i] = IF i <= Len(head) THEN head[i] ELSE after[i - Len(head)]
      BY <1>2, <2>2, ConcatProperties
    <3> QED BY <1>2, <2>1, <2>2, <3>1
  <2>4. Len(mapped.rest) = len - n + 1 /\ mapped.rest[1] = Left(n, taken)
    BY <1>1, <2>2, <2>3
  <2>5. ASSUME NEW i \in 2..Len(mapped.rest) PROVE mapped.rest[i] = txBuffer[n + i - 1]
    <3>1. i \in 1..1 + (len - n) /\ ~ (i <= 1) /\ i - 1 \in 1..len - n /\ n + (i - 1) = n + i - 1
      BY <1>1, <2>4
    <3> QED BY <1>2, <2>3, <3>1
  <2> QED BY <1>5, <2>3, <2>4, <2>5
<1> QED BY <1>4, <1>5

\* The queue stays well formed.
LEMMA RestWellFormed ==
  ASSUME WellFormed(txBuffer), NEW mapped, NEW n, NEW taken, IsMapped(mapped, n, taken)
  PROVE  WellFormed(mapped.rest)
<1> DEFINE len == Len(txBuffer)
           seg == txBuffer[n]
<1>1. PICK rest : rest = mapped.rest
  OBVIOUS
<1>2. /\ txBuffer \in Seq(Segment) /\ len \in Nat /\ n \in 1..len
      /\ seg \in Segment /\ taken \in 1..seg.size
  BY DEF WellFormed, IsMapped
<1>3. rest \in Seq(Segment)
  BY <1>1, RestIs
<1>4. CASE taken = seg.size
  <2>1. Len(rest) = len - n /\ \A i \in 1..Len(rest) : rest[i] = txBuffer[n + i]
    BY <1>1, <1>4, RestIs
  <2>2. \A i \in 1..Len(rest) : n + i \in 1..len /\ n + i > 1
    BY <1>2, <2>1
  <2>3. ASSUME NEW i \in 1..Len(rest)
        PROVE  /\ rest[i].size \in 1..SduSize[rest[i].sdu]
               /\ rest[i].status = IF rest[i].size = SduSize[rest[i].sdu] THEN "FULL" ELSE "LAST"
               /\ i > 1 => rest[i].status = "FULL"
    <3>1. PICK a \in 1..len : a = n + i /\ a > 1
      BY <2>2
    <3>2. rest[i] = txBuffer[a]
      BY <2>1, <3>1
    <3> QED BY <3>1, <3>2 DEF WellFormed
  <2>4. ASSUME NEW i \in 1..Len(rest), NEW j \in 1..Len(rest), rest[i].sdu = rest[j].sdu
        PROVE  i = j
    <3>1. PICK a \in 1..len : a = n + i
      BY <2>2
    <3>2. PICK b \in 1..len : b = n + j
      BY <2>2
    <3>3. txBuffer[a].sdu = txBuffer[b].sdu
      BY <2>1, <2>4, <3>1, <3>2
    <3>4. a = b
      BY <3>3 DEF WellFormed
    <3> QED BY <1>2, <3>1, <3>2, <3>4
  <2> QED BY <1>1, <1>3, <2>3, <2>4 DEF WellFormed
<1>5. CASE taken # seg.size
  <2>1. /\ Len(rest) = len - n + 1 /\ rest[1] = Left(n, taken)
        /\ \A i \in 2..Len(rest) : rest[i] = txBuffer[n + i - 1]
    BY <1>1, <1>5, RestIs
  <2>2. /\ rest[1].sdu = seg.sdu /\ rest[1].size = seg.size - taken /\ rest[1].status = "LAST"
    BY <1>2, <2>1 DEF Left, Segment
  <2>3. rest[1].size \in 1..SduSize[seg.sdu] /\ rest[1].size # SduSize[seg.sdu]
    <3>1. seg.size \in 1..SduSize[seg.sdu] /\ SduSize[seg.sdu] \in Nat /\ seg.size \in Nat
      BY <1>2, SduAssumption DEF WellFormed, Segment
    <3> QED BY <1>2, <1>5, <2>2, <3>1
  <2>4. ASSUME NEW i \in 1..Len(rest), i # 1
        PROVE  i \in 2..Len(rest) /\ n + i - 1 \in 1..len /\ n + i - 1 > n /\ n + i - 1 > 1
    BY <1>2, <2>1, <2>4
  <2>5. ASSUME NEW i \in 1..Len(rest)
        PROVE  /\ rest[i].size \in 1..SduSize[rest[i].sdu]
               /\ rest[i].status = IF rest[i].size = SduSize[rest[i].sdu] THEN "FULL" ELSE "LAST"
               /\ i > 1 => rest[i].status = "FULL"
    <3>1. CASE i = 1
      BY <2>2, <2>3, <3>1
    <3>2. CASE i # 1
      <4>1. rest[i] = txBuffer[n + i - 1] /\ n + i - 1 \in 1..len /\ n + i - 1 > 1
        BY <2>1, <2>4, <3>2
      <4> QED BY <4>1 DEF WellFormed
    <3> QED BY <3>1, <3>2
  <2>6. ASSUME NEW i \in 1..Len(rest), NEW j \in 1..Len(rest), rest[i].sdu = rest[j].sdu
        PROVE  i = j
    <3>1. ASSUME NEW k \in 1..Len(rest)
          PROVE  rest[k].sdu = txBuffer[n + k - 1].sdu /\ n + k - 1 \in 1..len
      <4>1. CASE k = 1
        <5>1. n + k - 1 = n
          BY <1>2, <4>1
        <5> QED BY <1>2, <2>2, <4>1, <5>1
      <4>2. CASE k # 1
        BY <2>1, <2>4, <4>2
      <4> QED BY <4>1, <4>2
    <3>2. PICK a \in 1..len : a = n + i - 1
      BY <3>1
    <3>3. PICK b \in 1..len : b = n + j - 1
      BY <3>1
    <3>4. txBuffer[a].sdu = txBuffer[b].sdu
      BY <2>6, <3>1, <3>2, <3>3
    <3>5. a = b
      BY <3>4 DEF WellFormed
    <3> QED BY <1>2, <3>2, <3>3, <3>5
  <2> QED BY <1>1, <1>3, <2>5, <2>6 DEF WellFormed
<1> QED BY <1>4, <1>5

\* The bytes of the PDU and of the queue that is left.
LEMMA MappedBytes ==
  ASSUME WellFormed(txBuffer), NEW mapped, NEW n, NEW taken, IsMapped(mapped, n, taken)
  PROVE  /\ mapped.data \in Seq(Segment) /\ Len(mapped.data) = n /\ mapped.data # <<>>
         /\ \A j \in 1..n-1 : mapped.data[j] = txBuffer[j]
         /\ mapped.data[n] = Taken(n, taken)
         /\ Bytes(mapped.data) = Bytes(SubSeq(txBuffer, 1, n - 1)) + taken
         /\ Bytes(mapped.rest)
              = Bytes(txBuffer) - Bytes(SubSeq(txBuffer, 1, n)) + mapped.left
<1> DEFINE seg == txBuffer[n]
           pre == SubSeq(txBuffer, 1, n - 1)
           last == Taken(n, taken)
<1>1. /\ txBuffer \in Seq(Segment) /\ Len(txBuffer) \in Nat /\ n \in 1..Len(txBuffer)
      /\ seg \in Segment /\ taken \in 1..seg.size /\ seg.size \in Nat
  <2>1. txBuffer \in Seq(Segment) /\ n \in 1..Len(txBuffer) /\ taken \in 1..seg.size
    BY DEF WellFormed, IsMapped
  <2>2. Len(txBuffer) \in Nat /\ seg \in Segment
    BY <2>1
  <2> QED BY <2>1, <2>2 DEF Segment
<1>2. last \in Segment /\ last.size = taken
  <2>1. StatusOfTaken(seg.status, seg.size - taken) \in {"FULL", "FIRST", "MIDDLE", "LAST"}
    BY <1>1 DEF StatusOfTaken, Segment
  <2>2. seg.sdu \in Sdu /\ taken \in Nat
    BY <1>1 DEF Segment
  <2> QED BY <2>1, <2>2 DEF Taken, Segment
<1>3. /\ pre \in Seq(Segment) /\ Len(pre) = n - 1
      /\ \A j \in 1..n-1 : pre[j] = txBuffer[j]
  BY <1>1
<1>4. mapped.data = Append(pre, last)
  BY DEF IsMapped
<1>5. Bytes(mapped.data) = Bytes(pre) + taken
  <2>1. Append(pre, last) = pre \o <<last>> /\ <<last>> \in Seq(Segment)
    <3> HIDE DEF pre, last
    <3> QED BY <1>2, <1>3, AppendIsConcat
  <2> HIDE DEF pre, last
  <2> QED BY <1>2, <1>3, <1>4, <2>1, BytesConcat, BytesSingle
<1>6. /\ mapped.data \in Seq(Segment) /\ Len(mapped.data) = n /\ mapped.data # <<>>
      /\ \A j \in 1..n-1 : mapped.data[j] = txBuffer[j]
      /\ mapped.data[n] = last
  <2> HIDE DEF pre, last
  <2>1. /\ mapped.data \in Seq(Segment) /\ mapped.data # <<>>
        /\ Len(mapped.data) = Len(pre) + 1
        /\ \A j \in 1..Len(pre) : mapped.data[j] = pre[j]
        /\ mapped.data[Len(pre) + 1] = last
    BY <1>2, <1>3, <1>4, AppendProperties
  <2>2. Len(pre) = n - 1 /\ (n - 1) + 1 = n
    BY <1>1, <1>3
  <2> QED BY <1>3, <2>1, <2>2
<1>7. Bytes(mapped.rest) = Bytes(txBuffer) - Bytes(SubSeq(txBuffer, 1, n)) + mapped.left
  <2>1. n \in 0..Len(txBuffer)
    BY <1>1
  <2>2. /\ SubSeq(txBuffer, 1, n) \in Seq(Segment) /\ After(n) \in Seq(Segment)
        /\ Bytes(txBuffer) = Bytes(SubSeq(txBuffer, 1, n)) + Bytes(After(n))
    BY <1>1, <2>1, BytesSplit DEF After
  <2>3. /\ Bytes(txBuffer) \in Nat /\ Bytes(SubSeq(txBuffer, 1, n)) \in Nat
        /\ Bytes(After(n)) \in Nat
    BY <1>1, <2>2, BytesNat
  <2>4. mapped.left = seg.size - taken
    BY DEF IsMapped
  <2>5. CASE taken = seg.size
    <3>1. mapped.rest = After(n)
      BY <2>5 DEF IsMapped
    <3> QED BY <1>1, <2>2, <2>3, <2>4, <2>5, <3>1
  <2>6. CASE taken # seg.size
    <3>1. mapped.rest = <<Left(n, taken)>> \o After(n)
      BY <2>6 DEF IsMapped
    <3>2. Left(n, taken) \in Segment /\ Left(n, taken).size = seg.size - taken
      <4>1. seg.size - taken \in Nat
        BY <1>1
      <4> QED BY <1>1, <4>1 DEF Left, Segment
    <3>3. <<Left(n, taken)>> \in Seq(Segment)
      BY <3>2
    <3>4. Bytes(mapped.rest) = Bytes(<<Left(n, taken)>>) + Bytes(After(n))
      BY <2>2, <3>1, <3>3, BytesConcat
    <3>5. Bytes(<<Left(n, taken)>>) = seg.size - taken
      BY <3>2, BytesSingle
    <3> QED BY <1>1, <2>2, <2>3, <2>4, <3>4, <3>5
  <2> QED BY <2>5, <2>6
<1> QED BY <1>5, <1>6, <1>7

------------------------------------------------------------------------------
(* The inductive invariant *)

\* The types, with what the queue looks like; the wakeup; in a slot a queue whose head fits
\* every full share has its timer running, for the first opportunity is refused only when
\* it runs and a PDU starts it; an entity that has refused refuses the last opportunity still,
\* so that every smaller one is refused too; and the PDU of a slot is forgotten with it.
QueueInv ==
  /\ kind \in {"TM", "UM"} /\ rbsTimer \in BOOLEAN /\ refused \in BOOLEAN
  /\ entry \in Nat /\ share \in Nat /\ pdu \in Seq(Segment)
  /\ WellFormed(txBuffer) /\ txBufferSize = Bytes(txBuffer)
  /\ NoLostWakeup
  /\ share > 0 /\ HeadFits => rbsTimer
  /\ refused => share > 0 /\ Refuses(Min2(entry, share))
  /\ pdu # <<>> => share > 0
  /\ StatusTruthful

\* The size of a segment is a positive number of bytes, at most those of its queue.
LEMMA HeadSize ==
  ASSUME NEW s, WellFormed(s), s # <<>>
  PROVE  /\ s[1] \in Segment /\ s[1].size \in Nat \ {0} /\ Len(s) \in Nat \ {0}
         /\ s[1].size <= SduSize[s[1].sdu] /\ SduSize[s[1].sdu] \in Nat /\ s[1].sdu \in Sdu
         /\ s[1].size <= Bytes(s)
<1>1. s \in Seq(Segment) /\ Len(s) \in Nat \ {0}
  BY DEF WellFormed
<1>2. s[1] \in Segment /\ s[1].sdu \in Sdu /\ 1 \in 1..Len(s)
  <2>1. 1 \in 1..Len(s)
    BY <1>1
  <2>2. s[1] \in Segment
    BY <1>1, <2>1
  <2> QED BY <2>1, <2>2 DEF Segment
<1>3. s[1].size \in 1..SduSize[s[1].sdu] /\ SduSize[s[1].sdu] \in Nat
  BY <1>2, SduAssumption DEF WellFormed
<1>4. s[1].size <= Bytes(s)
  <2>1. 1 \in 0..Len(s)
    BY <1>1
  <2>2. /\ SubSeq(s, 1, 1) \in Seq(Segment) /\ SubSeq(s, 1+1, Len(s)) \in Seq(Segment)
        /\ Bytes(s) = Bytes(SubSeq(s, 1, 1)) + Bytes(SubSeq(s, 1+1, Len(s)))
    BY <1>1, <2>1, BytesSplit
  <2>3. SubSeq(s, 1, 1) = <<s[1]>>
    <3> DEFINE t == SubSeq(s, 1, 1)
    <3>1. t \in Seq(Segment) /\ Len(t) = 1 /\ t[1] = s[1]
      BY <1>1
    <3> HIDE DEF t
    <3>2. t = <<t[1]>>
      BY <3>1
    <3> QED BY <3>1, <3>2 DEF t
  <2>5. Bytes(SubSeq(s, 1, 1)) = s[1].size
    BY <1>2, <2>3, BytesSingle
  <2>6. Bytes(SubSeq(s, 1+1, Len(s))) \in Nat
    BY <2>2, BytesNat
  <2> QED BY <1>3, <2>2, <2>5, <2>6
<1> QED BY <1>1, <1>2, <1>3, <1>4

\* What a report of a queue says is enough for its head.
LEMMA ReportIsEnough ==
  ASSUME NEW s, WellFormed(s), s # <<>>, NEW k \in {"TM", "UM"},
         NEW size, k = "TM" => size = Bytes(s), k = "UM" => size = Bytes(s) + 2 * Len(s)
  PROVE  /\ size \in Nat \ {0}
         /\ ~ (k = "TM" /\ size < s[1].size) /\ ~ (k = "UM" /\ size <= 2)
<1>1. /\ s[1].size \in Nat \ {0} /\ Len(s) \in Nat \ {0}
      /\ s[1].size <= Bytes(s)
  BY HeadSize
<1>2. Bytes(s) \in Nat
  BY BytesNat DEF WellFormed
<1> QED BY <1>1, <1>2

\* An SDU behind the others, none of which it is.
LEMMA AppendWellFormed ==
  ASSUME NEW s, WellFormed(s), NEW p \in Sdu, \A i \in 1..Len(s) : s[i].sdu # p,
         NEW e, e = [sdu |-> p, size |-> SduSize[p], status |-> "FULL"]
  PROVE  /\ WellFormed(Append(s, e)) /\ Append(s, e) # <<>>
         /\ Bytes(Append(s, e)) = Bytes(s) + SduSize[p]
<1>1. s \in Seq(Segment) /\ Len(s) \in Nat
  BY DEF WellFormed
<1>2. SduSize[p] \in Nat \ {0}
  BY SduAssumption
<1>3. e \in Segment /\ e.sdu = p /\ e.size = SduSize[p] /\ e.status = "FULL"
  BY <1>2 DEF Segment
<1>4. PICK t : t = Append(s, e)
  OBVIOUS
<1>5. /\ t \in Seq(Segment) /\ t # <<>> /\ Len(t) = Len(s) + 1
      /\ \A i \in 1..Len(s) : t[i] = s[i]
      /\ t[Len(s) + 1] = e
  BY <1>1, <1>3, <1>4, AppendProperties
<1>6. ASSUME NEW i \in 1..Len(t)
      PROVE  /\ t[i].size \in 1..SduSize[t[i].sdu]
             /\ t[i].status = IF t[i].size = SduSize[t[i].sdu] THEN "FULL" ELSE "LAST"
             /\ i > 1 => t[i].status = "FULL"
  <2>1. CASE i \in 1..Len(s)
    BY <1>5, <2>1 DEF WellFormed
  <2>2. CASE i = Len(s) + 1
    BY <1>2, <1>3, <1>5, <2>2
  <2> QED BY <1>1, <1>5, <2>1, <2>2
<1>7. ASSUME NEW i \in 1..Len(t), NEW j \in 1..Len(t), t[i].sdu = t[j].sdu PROVE i = j
  <2>1. (i \in 1..Len(s) \/ i = Len(s) + 1) /\ (j \in 1..Len(s) \/ j = Len(s) + 1)
    BY <1>1, <1>5
  <2>2. CASE i \in 1..Len(s) /\ j \in 1..Len(s)
    BY <1>5, <1>7, <2>2 DEF WellFormed
  <2>3. CASE i \in 1..Len(s) /\ j = Len(s) + 1
    BY <1>3, <1>5, <1>7, <2>3
  <2>4. CASE i = Len(s) + 1 /\ j \in 1..Len(s)
    BY <1>3, <1>5, <1>7, <2>4
  <2> QED BY <2>1, <2>2, <2>3, <2>4
<1>8. Bytes(t) = Bytes(s) + SduSize[p]
  <2>1. t = s \o <<e>> /\ <<e>> \in Seq(Segment)
    BY <1>1, <1>3, <1>4, AppendIsConcat
  <2> QED BY <1>1, <1>3, <2>1, BytesConcat, BytesSingle
<1> QED BY <1>4, <1>5, <1>6, <1>7, <1>8 DEF WellFormed

-------------------------------------------------------------------------------
(* The steps *)

\* Outside a slot, a queue that is well formed and has been reported keeps the invariant.
LEMMA BetweenSlots ==
  ASSUME kind' \in {"TM", "UM"}, rbsTimer' \in BOOLEAN, refused' = FALSE,
         share' = 0, pdu' = <<>>,
         WellFormed(txBuffer'), txBufferSize' = Bytes(txBuffer'),
         entry' \in Nat, NoLostWakeup'
  PROVE  QueueInv'
<1>1. pdu' \in Seq(Segment)
  OBVIOUS
<1>2. WellFormed(txBuffer)' /\ (txBufferSize = Bytes(txBuffer))'
  BY DEF WellFormed, Bytes
<1>3. StatusTruthful'
  BY DEF StatusTruthful, WellFormed
<1>4. ~ (share' > 0) /\ share' \in Nat
  OBVIOUS
<1>5. ~ (pdu' # <<>>)
  OBVIOUS
<1>6. refused' \in BOOLEAN /\ ~ refused'
  OBVIOUS
<1> QED BY <1>1, <1>2, <1>3, <1>4, <1>5, <1>6 DEF QueueInv

\* The empty queue needs neither timer nor report.
LEMMA QueueInvInit == Init => QueueInv
<1> SUFFICES ASSUME Init PROVE QueueInv
  OBVIOUS
<1>1. txBuffer = <<>> /\ pdu = <<>> /\ share = 0 /\ entry = 0
  BY DEF Init
<1>2. WellFormed(txBuffer)
  BY <1>1 DEF WellFormed
<1>3. StatusTruthful
  BY <1>1 DEF StatusTruthful
<1>4. NoLostWakeup
  BY <1>1 DEF NoLostWakeup, Awake
<1>5. pdu \in Seq(Segment)
  BY <1>1
<1>6. ~ (share > 0) /\ ~ (pdu # <<>>) /\ ~ refused /\ entry \in Nat /\ share \in Nat
  BY <1>1 DEF Init
<1>7. /\ kind \in {"TM", "UM"} /\ rbsTimer \in BOOLEAN /\ refused \in BOOLEAN
      /\ txBufferSize = Bytes(txBuffer)
  BY <1>1, BytesEmpty DEF Init
<1> QED BY <1>2, <1>3, <1>4, <1>5, <1>6, <1>7 DEF QueueInv

\* An SDU from PDCP cancels the timer, but reports the whole queue.
LEMMA TransmitStep ==
  ASSUME QueueInv, NEW p \in Sdu, TransmitPdcpPdu(p)
  PROVE  QueueInv' /\ Awake'
<1> DEFINE e == [sdu |-> p, size |-> SduSize[p], status |-> "FULL"]
<1>1. /\ share = 0 /\ share' = 0 /\ pdu = <<>> /\ pdu' = <<>> /\ kind' = kind
      /\ refused = FALSE /\ refused' = FALSE /\ rbsTimer' = FALSE
      /\ entry' = QueueSize(txBuffer', txBufferSize')
      /\ kind \in {"TM", "UM"}
  BY DEF QueueInv, TransmitPdcpPdu
<1>2. WellFormed(txBuffer') /\ txBufferSize' = Bytes(txBuffer')
  <2>1. CASE Fits(p)
    <3>1. txBuffer' = Append(txBuffer, e) /\ txBufferSize' = txBufferSize + SduSize[p]
      BY <2>1 DEF TransmitPdcpPdu
    <3>2. \A i \in 1..Len(txBuffer) : txBuffer[i].sdu # p
      BY DEF TransmitPdcpPdu, Queued, QueueInv, WellFormed
    <3>3. WellFormed(txBuffer)
      BY DEF QueueInv
    <3> HIDE DEF e
    <3>4. WellFormed(Append(txBuffer, e)) /\ Bytes(Append(txBuffer, e)) = Bytes(txBuffer) + SduSize[p]
      BY <3>2, <3>3, AppendWellFormed DEF e
    <3> QED BY <3>1, <3>4 DEF QueueInv
  <2>2. CASE ~ Fits(p)
    BY <2>2 DEF TransmitPdcpPdu, QueueInv
  <2> QED BY <2>1, <2>2
<1>3. CASE txBuffer' = <<>>
  <2>1. entry' = 0
    BY <1>1, <1>3 DEF QueueSize
  <2>2. Awake' /\ NoLostWakeup'
    BY <1>3 DEF Awake, NoLostWakeup
  <2>3. rbsTimer' \in BOOLEAN /\ kind' \in {"TM", "UM"}
    BY <1>1, Zenon
  <2>4. entry' \in Nat
    BY <2>1
  <2> QED BY <1>1, <1>2, <2>2, <2>3, <2>4, BetweenSlots
<1>4. CASE txBuffer' # <<>>
  <2>1. /\ kind = "TM" => entry' = Bytes(txBuffer')
        /\ kind = "UM" => entry' = Bytes(txBuffer') + 2 * Len(txBuffer')
    BY <1>1, <1>2, <1>4 DEF QueueSize
  <2>2. /\ entry' \in Nat \ {0}
        /\ ~ (kind = "TM" /\ entry' < txBuffer'[1].size) /\ ~ (kind = "UM" /\ entry' <= 2)
    BY <1>1, <1>2, <1>4, <2>1, ReportIsEnough
  <2>3. Awake' /\ NoLostWakeup'
    BY <1>1, <1>4, <2>2 DEF Awake, NoLostWakeup, Refuses
  <2>4. rbsTimer' \in BOOLEAN /\ kind' \in {"TM", "UM"} /\ entry' \in Nat
    BY <1>1, <2>2, Zenon
  <2> QED BY <1>1, <1>2, <2>3, <2>4, BetweenSlots
<1> QED BY <1>3, <1>4

\* The timer that expires reports the whole queue and starts again.
LEMMA ExpireStep ==
  ASSUME QueueInv, ExpireRbsTimer
  PROVE  QueueInv' /\ Awake'
<1>1. /\ share = 0 /\ share' = 0 /\ pdu = <<>> /\ pdu' = <<>> /\ kind' = kind
      /\ refused = FALSE /\ refused' = FALSE
      /\ rbsTimer' = (txBuffer # <<>>)
      /\ txBuffer' = txBuffer /\ txBufferSize' = txBufferSize
      /\ entry' = IF txBuffer # <<>> THEN QueueSize(txBuffer, txBufferSize) ELSE entry
      /\ kind \in {"TM", "UM"} /\ entry \in Nat
      /\ WellFormed(txBuffer) /\ txBufferSize = Bytes(txBuffer)
  BY DEF QueueInv, ExpireRbsTimer
<1>2. WellFormed(txBuffer') /\ txBufferSize' = Bytes(txBuffer')
  BY <1>1
<1>3. entry' \in Nat
  <2>1. CASE txBuffer # <<>>
    <3>1. /\ kind = "TM" => entry' = Bytes(txBuffer)
          /\ kind = "UM" => entry' = Bytes(txBuffer) + 2 * Len(txBuffer)
      BY <1>1, <2>1 DEF QueueSize
    <3> QED BY <1>1, <2>1, <3>1, ReportIsEnough
  <2> QED BY <1>1, <2>1
<1>4. Awake' /\ NoLostWakeup'
  BY <1>1 DEF Awake, NoLostWakeup
<1>5. rbsTimer' \in BOOLEAN /\ kind' \in {"TM", "UM"}
  BY <1>1, Zenon
<1> QED BY <1>1, <1>2, <1>3, <1>4, <1>5, BetweenSlots

\* A slot leaves the timer running, unless the head is too large for some full share.
LEMMA EndSlotStep ==
  ASSUME QueueInv, EndSlot
  PROVE  QueueInv'
<1>1. /\ share > 0 /\ share' = 0 /\ pdu' = <<>> /\ refused' = FALSE
      /\ kind' = kind /\ txBuffer' = txBuffer /\ txBufferSize' = txBufferSize
      /\ rbsTimer' = rbsTimer /\ entry' = entry
      /\ kind \in {"TM", "UM"} /\ entry \in Nat /\ rbsTimer \in BOOLEAN
      /\ WellFormed(txBuffer) /\ txBufferSize = Bytes(txBuffer)
      /\ HeadFits => rbsTimer
  BY DEF QueueInv, EndSlot
<1>2. WellFormed(txBuffer') /\ txBufferSize' = Bytes(txBuffer')
  BY <1>1
<1>3. NoLostWakeup'
  BY <1>1 DEF NoLostWakeup, Awake, HeadFits, Refuses
<1> QED BY <1>1, <1>2, <1>3, BetweenSlots

\* An opportunity of bytes in a slot, and what the one before it left of the report.
LEMMA OfferedBytes ==
  ASSUME QueueInv, NEW s \in Shares, Offer(s)
  PROVE  /\ s \in Nat \ {0} /\ Min2(entry, s) \in Nat \ {0} /\ entry \in Nat \ {0}
         /\ share = 0 => s \in FirstShares
         /\ share > 0 => s <= share
         /\ share' = s /\ entry' = entry - Min2(entry, s) /\ entry' \in Nat /\ kind' = kind
         /\ Min2(entry', s) <= Min2(entry, s)
<1>1. entry \in Nat /\ entry > 0 /\ share \in Nat
  BY DEF QueueInv, Offer
<1>2. /\ s \in Nat \ {0} /\ (share = 0 => s \in FirstShares) /\ (share > 0 => s <= share)
  <2>1. CASE share = 0
    BY <1>1, <2>1, ShareAssumption DEF Shares
  <2>2. CASE share # 0
    BY <1>1, <2>2 DEF Shares
  <2> QED BY <1>1, <2>1, <2>2
<1>3. share' = s /\ entry' = entry - Min2(entry, s) /\ kind' = kind
  BY DEF Offer
<1> QED BY <1>1, <1>2, <1>3 DEF Min2

\* A PDU is the beginning of the queue, and LteRlcUm's fits the opportunity.
LEMMA MappedIs ==
  ASSUME WellFormed(txBuffer), kind \in {"TM", "UM"}, NEW bytes \in Nat, ~ Refuses(bytes)
  PROVE  \E n, taken :
           /\ IsMapped(Mapped(bytes), n, taken)
           /\ kind = "UM" =>
                /\ HeaderBytes(n) + Bytes(SubSeq(txBuffer, 1, n - 1)) + taken <= bytes
                /\ \A j \in 1..n-1 : txBuffer[j].size <= MaxLi
<1>1. txBuffer # <<>>
  BY DEF Refuses
<1>2. CASE kind = "TM"
  <2>1. IsMapped(Mapped(bytes), 1, txBuffer[1].size)
    BY <1>1, <1>2, TmMappedIs
  <2> QED BY <1>2, <2>1
<1>3. CASE kind = "UM"
  <2>1. bytes > 2
    BY <1>3 DEF Refuses
  <2>2. Mapped(bytes) = UmMapped(bytes)
    BY <1>3 DEF Mapped
  <2> QED BY <1>1, <2>1, <2>2, UmMappedIs
<1> QED BY <1>2, <1>3

\* An opportunity is refused and changes nothing, or brings a PDU out.
Refusal ==
  /\ pdu' = <<>> /\ refused' = TRUE
  /\ UNCHANGED <<txBuffer, txBufferSize, rbsTimer>>

Built(mapped, n, taken) ==
  /\ IsMapped(mapped, n, taken)
  /\ pdu' = mapped.data /\ txBuffer' = mapped.rest
  /\ txBufferSize' = SizeAfter(n, mapped.left)
  /\ rbsTimer' = Rearm(mapped.rest) /\ refused' = refused

\* An opportunity is refused, or a PDU is built in it.
LEMMA OfferCases ==
  ASSUME QueueInv, NEW s \in Shares, Offer(s)
  PROVE  \/ Refuses(Min2(entry, s)) /\ Refusal
         \/ /\ ~ Refuses(Min2(entry, s))
            /\ \E mapped, n, taken :
                 /\ Built(mapped, n, taken)
                 /\ kind = "UM" =>
                      /\ HeaderBytes(n) + Bytes(SubSeq(txBuffer, 1, n - 1)) + taken
                           <= Min2(entry, s)
                      /\ \A j \in 1..n-1 : txBuffer[j].size <= MaxLi
<1>1. Min2(entry, s) \in Nat
  BY OfferedBytes
<1>2. PICK b \in Nat : b = Min2(entry, s)
  BY <1>1
<1>3. NotifyTxOpportunity(b)
  BY <1>2 DEF Offer
<1>4. CASE Refuses(b)
  BY <1>2, <1>3, <1>4 DEF NotifyTxOpportunity, Refusal
<1>5. CASE ~ Refuses(b)
  <2>1. PICK mapped : mapped = Mapped(b)
    OBVIOUS
  <2>2. /\ pdu' = mapped.data /\ txBuffer' = mapped.rest
        /\ txBufferSize' = SizeAfter(mapped.n, mapped.left)
        /\ rbsTimer' = Rearm(mapped.rest) /\ refused' = refused
    BY <1>3, <1>5, <2>1 DEF NotifyTxOpportunity
  <2>3. PICK n, taken :
          /\ IsMapped(mapped, n, taken)
          /\ kind = "UM" =>
               /\ HeaderBytes(n) + Bytes(SubSeq(txBuffer, 1, n - 1)) + taken <= b
               /\ \A j \in 1..n-1 : txBuffer[j].size <= MaxLi
    <3>1. WellFormed(txBuffer) /\ kind \in {"TM", "UM"}
      BY DEF QueueInv
    <3> QED BY <1>5, <2>1, <3>1, MappedIs
  <2>4. mapped.n = n
    BY <2>3 DEF IsMapped
  <2>5. Built(mapped, n, taken)
    BY <2>2, <2>3, <2>4 DEF Built
  <2> QED BY <1>2, <1>5, <2>3, <2>5
<1> QED BY <1>4, <1>5

\* After a refusal.
LEMMA RefusedStep ==
  ASSUME QueueInv, NEW s \in Shares, Offer(s), Refuses(Min2(entry, s)), Refusal
  PROVE  QueueInv'
<1>1. /\ s \in Nat \ {0} /\ entry \in Nat \ {0} /\ Min2(entry, s) \in Nat
      /\ share = 0 => s \in FirstShares
      /\ share' = s /\ entry' \in Nat /\ kind' = kind
      /\ Min2(entry', s) <= Min2(entry, s)
  BY OfferedBytes
<1>2. /\ pdu' = <<>> /\ refused' = TRUE /\ txBuffer' = txBuffer
      /\ txBufferSize' = txBufferSize /\ rbsTimer' = rbsTimer
      /\ WellFormed(txBuffer) /\ txBufferSize = Bytes(txBuffer)
      /\ kind \in {"TM", "UM"} /\ rbsTimer \in BOOLEAN /\ share \in Nat
  BY DEF Refusal, QueueInv
<1>3. WellFormed(txBuffer)' /\ (txBufferSize = Bytes(txBuffer))'
  BY <1>2 DEF WellFormed, Bytes
<1>4. HeadFits => rbsTimer
  <2>1. CASE share > 0
    BY <2>1 DEF QueueInv
  <2>2. ASSUME share = 0, HeadFits PROVE rbsTimer
    <3>1. ~ Refuses(s) /\ Awake
      BY <1>1, <2>2 DEF HeadFits, QueueInv, NoLostWakeup
    <3>2. Min2(entry, s) = entry \/ Min2(entry, s) = s
      BY DEF Min2
    <3>3. Refuses(entry) /\ txBuffer # <<>>
      BY <3>1, <3>2 DEF Refuses
    <3> QED BY <3>1, <3>3 DEF Awake
  <2> QED BY <1>2, <2>1, <2>2
<1>5. (HeadFits => rbsTimer)' /\ NoLostWakeup'
  BY <1>1, <1>2, <1>4 DEF HeadFits, Refuses, NoLostWakeup, Awake
<1>6. Refuses(Min2(entry, share))'
  <2>1. Min2(entry', s) \in Nat
    BY <1>1 DEF Min2
  <2>2. \/ txBuffer = <<>>
        \/ kind = "TM" /\ Min2(entry', s) < txBuffer[1].size
        \/ kind = "UM" /\ Min2(entry', s) <= 2
    <3>1. txBuffer # <<>> => txBuffer[1].size \in Nat
      BY <1>2, HeadSize
    <3> QED BY <1>1, <2>1, <3>1 DEF Refuses
  <2>3. Min2(entry, share)' = Min2(entry', s)
    BY <1>1 DEF Min2
  <2> QED BY <1>1, <1>2, <2>2, <2>3 DEF Refuses
<1>7. StatusTruthful'
  BY <1>1, <1>2 DEF StatusTruthful, WellFormed
<1> QED BY <1>1, <1>2, <1>3, <1>4, <1>5, <1>6, <1>7 DEF QueueInv

\* Of the SDUs of a PDU only the last may still be in the queue, then at its head, and
\* it is unless all of it was taken.
LEMMA QueuedAfter ==
  ASSUME WellFormed(txBuffer), NEW mapped, NEW n, NEW taken, IsMapped(mapped, n, taken),
         NEW rest, rest = mapped.rest
  PROVE  /\ \A j \in 1..n-1 : \A i \in 1..Len(rest) : rest[i].sdu # txBuffer[j].sdu
         /\ taken = txBuffer[n].size =>
              \A i \in 1..Len(rest) : rest[i].sdu # txBuffer[n].sdu
         /\ taken # txBuffer[n].size =>
              /\ 1 \in 1..Len(rest) /\ rest[1].sdu = txBuffer[n].sdu
              /\ rest[1].size = txBuffer[n].size - taken
<1> DEFINE len == Len(txBuffer)
<1>1. /\ txBuffer \in Seq(Segment) /\ len \in Nat /\ n \in 1..len
      /\ rest \in Seq(Segment)
  <2>1. txBuffer \in Seq(Segment) /\ n \in 1..len
    BY DEF WellFormed, IsMapped
  <2>2. rest \in Seq(Segment)
    BY RestIs
  <2> QED BY <2>1, <2>2
<1>2. ASSUME NEW i \in 1..len, NEW j \in 1..len, i # j
      PROVE  txBuffer[i].sdu # txBuffer[j].sdu
  BY <1>2 DEF WellFormed
<1>3. CASE taken = txBuffer[n].size
  <2>1. Len(rest) = len - n /\ \A i \in 1..Len(rest) : rest[i] = txBuffer[n + i]
    BY <1>3, RestIs
  <2>2. ASSUME NEW i \in 1..Len(rest), NEW j \in 1..n PROVE rest[i].sdu # txBuffer[j].sdu
    <3>1. n + i \in 1..len /\ j \in 1..len /\ n + i # j
      BY <1>1, <2>1
    <3> QED BY <1>2, <2>1, <3>1
  <2>3. n \in 1..n /\ \A j \in 1..n-1 : j \in 1..n
    BY <1>1
  <2> QED BY <1>3, <2>2, <2>3
<1>4. CASE taken # txBuffer[n].size
  <2>1. /\ Len(rest) = len - n + 1 /\ rest[1] = Left(n, taken)
        /\ \A i \in 2..Len(rest) : rest[i] = txBuffer[n + i - 1]
    BY <1>4, RestIs
  <2>2. 1 \in 1..Len(rest) /\ rest[1].sdu = txBuffer[n].sdu
        /\ rest[1].size = txBuffer[n].size - taken
    BY <1>1, <2>1 DEF Left
  <2>3. ASSUME NEW i \in 1..Len(rest), NEW j \in 1..n-1 PROVE rest[i].sdu # txBuffer[j].sdu
    <3>1. CASE i = 1
      <4>1. j \in 1..len /\ n # j
        BY <1>1
      <4> QED BY <1>1, <1>2, <2>2, <3>1, <4>1
    <3>2. CASE i # 1
      <4>1. i \in 2..Len(rest) /\ n + i - 1 \in 1..len /\ j \in 1..len /\ n + i - 1 # j
        BY <1>1, <2>1, <3>2
      <4> QED BY <1>2, <2>1, <4>1
    <3> QED BY <3>1, <3>2
  <2> QED BY <1>4, <2>2, <2>3
<1> QED BY <1>3, <1>4

\* The tags of a PDU tell the truth about what has been sent and what is left.
AreSdusOf(queued, rest) == \A x : x \in queued <=> \E i \in DOMAIN rest : x = rest[i].sdu

TagsAgree(data, queued, left) ==
  /\ data[1].status \in {"FULL", "FIRST"} <=> data[1].size + left = SduSize[data[1].sdu]
  /\ data[Len(data)].status \in {"FULL", "LAST"} <=> data[Len(data)].sdu \notin queued
  /\ Len(data) > 1 => data[Len(data)].status \in {"FULL", "FIRST"}

\* The tags of the PDU just built agree with the queue that is left.
LEMMA PduTruthful ==
  ASSUME WellFormed(txBuffer), NEW mapped, NEW n, NEW taken, IsMapped(mapped, n, taken),
         NEW data, data = mapped.data, NEW rest, rest = mapped.rest,
         NEW queued, AreSdusOf(queued, rest),
         NEW left, data[1].sdu \in queued => left = rest[1].size,
         data[1].sdu \notin queued => left = 0
  PROVE  TagsAgree(data, queued, left)
<1> DEFINE seg == txBuffer[n]
           status == StatusOfTaken(seg.status, seg.size - taken)
<1>1. /\ n \in 1..Len(txBuffer) /\ Len(txBuffer) \in Nat /\ taken \in 1..seg.size
      /\ seg \in Segment /\ seg.size \in Nat
  <2>1. txBuffer \in Seq(Segment) /\ n \in 1..Len(txBuffer) /\ taken \in 1..seg.size
    BY DEF WellFormed, IsMapped
  <2>2. Len(txBuffer) \in Nat /\ seg \in Segment
    BY <2>1
  <2> QED BY <2>1, <2>2 DEF Segment
<1>2. /\ data \in Seq(Segment) /\ Len(data) = n
      /\ \A j \in 1..n-1 : data[j] = txBuffer[j]
      /\ data[n] = Taken(n, taken)
  BY MappedBytes
<1>3. data[n].sdu = seg.sdu /\ data[n].size = taken /\ data[n].status = status
  BY <1>2 DEF Taken
<1>4. \A i \in 1..Len(txBuffer) :
        /\ txBuffer[i].status = IF txBuffer[i].size = SduSize[txBuffer[i].sdu]
                                THEN "FULL" ELSE "LAST"
        /\ i > 1 => txBuffer[i].status = "FULL"
        /\ txBuffer[i].size \in 1..SduSize[txBuffer[i].sdu]
  BY DEF WellFormed
<1>5. /\ \A j \in 1..n-1 : \A i \in 1..Len(rest) : rest[i].sdu # txBuffer[j].sdu
      /\ taken = seg.size => \A i \in 1..Len(rest) : rest[i].sdu # seg.sdu
      /\ taken # seg.size =>
           1 \in 1..Len(rest) /\ rest[1].sdu = seg.sdu /\ rest[1].size = seg.size - taken
  BY QueuedAfter
<1>6. DOMAIN rest = 1..Len(rest)
  <2>1. rest \in Seq(Segment)
    BY RestIs
  <2> QED BY <2>1
<1>7. seg.sdu \in queued <=> taken # seg.size
  BY <1>5, <1>6 DEF AreSdusOf
<1>8. \A j \in 1..n-1 : txBuffer[j].sdu \notin queued
  BY <1>5, <1>6 DEF AreSdusOf
<1>9. /\ taken = seg.size => status = seg.status
      /\ taken # seg.size => status = IF seg.status = "FULL" THEN "FIRST" ELSE "MIDDLE"
  BY <1>1 DEF StatusOfTaken
<1>10. /\ seg.status = IF seg.size = SduSize[seg.sdu] THEN "FULL" ELSE "LAST"
       /\ n > 1 => seg.status = "FULL"
  BY <1>1, <1>4
<1>11. data[1].status \in {"FULL", "FIRST"} <=> data[1].size + left = SduSize[data[1].sdu]
  <2>1. CASE n = 1
    <3>1. CASE taken = seg.size
      <4>1. left = 0 /\ data[1].size + left = seg.size
        BY <1>1, <1>3, <1>7, <2>1, <3>1
      <4> QED BY <1>3, <1>9, <1>10, <2>1, <3>1, <4>1
    <3>2. CASE taken # seg.size
      <4>1. left = seg.size - taken
        BY <1>3, <1>5, <1>7, <2>1, <3>2
      <4>2. data[1].size + left = seg.size
        BY <1>1, <1>3, <2>1, <4>1
      <4> QED BY <1>3, <1>9, <1>10, <2>1, <3>2, <4>2
    <3> QED BY <3>1, <3>2
  <2>2. CASE n > 1
    <3>1. 1 \in 1..n-1 /\ 1 \in 1..Len(txBuffer)
      BY <1>1, <2>2
    <3>2. data[1] = txBuffer[1] /\ left = 0
      BY <1>2, <1>8, <3>1
    <3>3. txBuffer[1].size \in Int
      <4>1. txBuffer[1] \in Segment
        BY <3>1 DEF WellFormed
      <4> QED BY <4>1 DEF Segment
    <3>4. data[1].size + left = txBuffer[1].size
      BY <3>2, <3>3
    <3> QED BY <1>4, <3>1, <3>2, <3>4
  <2> QED BY <1>1, <2>1, <2>2
<1>12. data[n].status \in {"FULL", "LAST"} <=> data[n].sdu \notin queued
  BY <1>3, <1>7, <1>9, <1>10
<1>13. n > 1 => data[n].status \in {"FULL", "FIRST"}
  BY <1>3, <1>9, <1>10
<1> QED BY <1>2, <1>11, <1>12, <1>13 DEF TagsAgree

\* Later opportunities of a slot are not larger, neither in share nor in report: what
\* was refused is refused again.
LEMMA RefusalStands ==
  ASSUME QueueInv, NEW s \in Shares, Offer(s), refused
  PROVE  Refuses(Min2(entry, s))
<1>1. /\ s \in Nat \ {0} /\ entry \in Nat \ {0} /\ (share > 0 => s <= share)
      /\ WellFormed(txBuffer) /\ share \in Nat
  BY OfferedBytes DEF QueueInv
<1>2. share > 0 /\ Refuses(Min2(entry, share))
  BY DEF QueueInv
<1>3. Min2(entry, s) <= Min2(entry, share) /\ Min2(entry, share) \in Nat /\ Min2(entry, s) \in Nat
  BY <1>1, <1>2 DEF Min2
<1>4. txBuffer # <<>> => txBuffer[1].size \in Nat
  BY <1>1, HeadSize
<1> QED BY <1>2, <1>3, <1>4 DEF Refuses

\* After a PDU.
LEMMA BuiltStep ==
  ASSUME QueueInv, NEW s \in Shares, Offer(s), ~ Refuses(Min2(entry, s)),
         NEW mapped, NEW n, NEW taken, Built(mapped, n, taken)
  PROVE  QueueInv'
<1>1. /\ s \in Nat \ {0} /\ entry' \in Nat /\ kind' = kind /\ share' = s
      /\ share > 0 => s <= share
      /\ Min2(entry, s) \in Nat
      /\ entry \in Nat \ {0}
  BY OfferedBytes
<1>2. /\ WellFormed(txBuffer) /\ IsMapped(mapped, n, taken)
      /\ pdu' = mapped.data /\ txBuffer' = mapped.rest
      /\ txBufferSize' = txBufferSize - Bytes(SubSeq(txBuffer, 1, n)) + mapped.left
      /\ txBufferSize = Bytes(txBuffer) /\ refused' = refused
      /\ kind \in {"TM", "UM"} /\ refused \in BOOLEAN /\ share \in Nat
  BY DEF QueueInv, Built, SizeAfter
<1>3. WellFormed(txBuffer') /\ txBufferSize' = Bytes(txBuffer')
  BY <1>2, RestWellFormed, MappedBytes
<1>4. WellFormed(txBuffer)' /\ (txBufferSize = Bytes(txBuffer))'
  BY <1>3 DEF WellFormed, Bytes
<1>5. pdu' \in Seq(Segment)
  BY <1>2, MappedBytes
<1>6. rbsTimer' \in BOOLEAN /\ (txBuffer' # <<>> => rbsTimer')
  <2>1. rbsTimer' = (mapped.rest # <<>> \/ rbsTimer) /\ rbsTimer \in BOOLEAN
    BY DEF Built, Rearm, QueueInv
  <2> QED BY <1>2, <2>1, Zenon
<1>7. NoLostWakeup' /\ (HeadFits => rbsTimer)'
  <2>1. Awake'
    BY <1>6 DEF Awake
  <2>2. HeadFits' => txBuffer' # <<>>
    BY ShareAssumption DEF HeadFits, Refuses
  <2> QED BY <1>6, <2>1, <2>2 DEF NoLostWakeup
<1>8. ~ refused
  BY RefusalStands
<1>9. StatusTruthful'
  <2>1. \A i \in DOMAIN txBuffer' :
          txBuffer'[i].status
            = IF txBuffer'[i].size = SduSize[txBuffer'[i].sdu] THEN "FULL" ELSE "LAST"
    BY <1>3 DEF WellFormed
  <2>2. PICK queued : queued = {txBuffer'[i].sdu : i \in DOMAIN txBuffer'}
    OBVIOUS
  <2>3. PICK left : left = IF pdu'[1].sdu \in queued THEN txBuffer'[1].size ELSE 0
    OBVIOUS
  <2>4. /\ pdu'[1].sdu \in queued => left = txBuffer'[1].size
        /\ pdu'[1].sdu \notin queued => left = 0
    BY <2>3
  <2>5. /\ pdu'[1].status \in {"FULL", "FIRST"}
             <=> pdu'[1].size + left = SduSize[pdu'[1].sdu]
        /\ pdu'[Len(pdu')].status \in {"FULL", "LAST"} <=> pdu'[Len(pdu')].sdu \notin queued
        /\ Len(pdu') > 1 => pdu'[Len(pdu')].status \in {"FULL", "FIRST"}
    <3>1. PICK data, rest : data = pdu' /\ rest = txBuffer'
      OBVIOUS
    <3>2. /\ WellFormed(txBuffer) /\ IsMapped(mapped, n, taken)
          /\ data = mapped.data /\ rest = mapped.rest
          /\ AreSdusOf(queued, rest)
          /\ data[1].sdu \in queued => left = rest[1].size
          /\ data[1].sdu \notin queued => left = 0
      BY <1>2, <2>2, <2>4, <3>1 DEF AreSdusOf
    <3>3. TagsAgree(data, queued, left)
      BY <3>2, PduTruthful
    <3> QED BY <3>1, <3>3 DEF TagsAgree
  <2> QED BY <2>1, <2>2, <2>3, <2>5 DEF StatusTruthful, Queued
<1> QED BY <1>1, <1>2, <1>4, <1>5, <1>6, <1>7, <1>8, <1>9 DEF QueueInv

\* Every operation keeps the invariant.
LEMMA QueueInvStep ==
  ASSUME QueueInv, [Next]_vars
  PROVE  QueueInv'
<1>1. ASSUME NEW p \in Sdu, TransmitPdcpPdu(p) PROVE QueueInv'
  BY <1>1, TransmitStep
<1>2. CASE ExpireRbsTimer
  BY <1>2, ExpireStep
<1>3. ASSUME NEW s \in Shares, Offer(s) PROVE QueueInv'
  BY <1>3, OfferCases, RefusedStep, BuiltStep
<1>4. CASE EndSlot
  BY <1>4, EndSlotStep
<1>5. CASE UNCHANGED vars
  BY <1>5 DEF vars, QueueInv, WellFormed, Bytes, NoLostWakeup, Awake, HeadFits, Refuses, Min2, StatusTruthful, Queued
<1> QED BY <1>1, <1>2, <1>3, <1>4, <1>5 DEF Next, Slot

------------------------------------------------------------------------------
(* Theorems *)

\* The invariant holds in every state the entity and its MAC can reach.
THEOREM QueueInvariance == Spec => []QueueInv
<1>1. QueueInv /\ [Next]_vars => QueueInv'
  BY QueueInvStep
<1> QED BY <1>1, QueueInvInit, PTL DEF Spec

\* m_txBufferSize, kept by additions and subtractions, is the number of bytes in
\* m_txBuffer whatever sequence of SDUs, opportunities and timers came before.
THEOREM TypeCorrect == Spec => []TypeOK
<1>1. QueueInv => TypeOK
  BY DEF QueueInv, TypeOK, WellFormed
<1> QED BY <1>1, QueueInvariance, PTL

\* A queue that neither timer nor report will wake has a head that some full share cannot
\* take: no SDU, timer or opportunity that came before has made the entity forget it.
THEOREM WakeupIsKept == Spec => []NoLostWakeup
<1>1. QueueInv => NoLostWakeup
  BY DEF QueueInv
<1> QED BY <1>1, QueueInvariance, PTL

\* An entity that is awake falls silent in one way only, by an opportunity whose share is
\* smaller than the head of the queue (or the header of an LteRlcUm PDU), for every set of
\* shares; whatever it missed, the next SDU wakes it.
THEOREM OnlySmallShares == Spec => OnlySmallSharesSilence
<1>1. QueueInv /\ [Next]_vars =>
        [ /\ Awake /\ ~Awake' => share' > 0 /\ Refuses(share')
          /\ (\E p \in Sdu : TransmitPdcpPdu(p)) => Awake' ]_vars
  <2> SUFFICES ASSUME QueueInv, Next
               PROVE  /\ Awake /\ ~Awake' => share' > 0 /\ Refuses(share')
                      /\ (\E p \in Sdu : TransmitPdcpPdu(p)) => Awake'
    BY DEF vars
  <2>1. ASSUME NEW p \in Sdu, TransmitPdcpPdu(p) PROVE Awake'
    BY <2>1, TransmitStep
  <2>2. CASE ExpireRbsTimer
    BY <2>1, <2>2, ExpireStep
  <2>3. ASSUME NEW s \in Shares, Offer(s), Awake, ~Awake'
        PROVE  share' > 0 /\ Refuses(share')
    <3>1. share' = s /\ s \in Nat \ {0} /\ kind' = kind
      BY <2>3, OfferedBytes
    <3>2. ASSUME NEW mapped, NEW n, NEW taken, Built(mapped, n, taken) PROVE FALSE
      <4>1. rbsTimer' = (mapped.rest # <<>> \/ rbsTimer) /\ txBuffer' = mapped.rest
        BY <3>2 DEF Built, Rearm
      <4> QED BY <2>3, <4>1, Zenon DEF Awake
    <3>3. Refuses(Min2(entry, s)) /\ Refusal
      BY <2>3, <3>2, OfferCases
    <3>4. txBuffer' = txBuffer /\ rbsTimer' = rbsTimer
      BY <3>3 DEF Refusal
    <3>5. txBuffer # <<>> /\ ~ rbsTimer /\ ~ Refuses(entry)
      <4>1. txBuffer # <<>> /\ ~ rbsTimer
        BY <2>3, <3>4, Zenon DEF Awake
      <4> QED BY <2>3, <4>1 DEF Awake
    <3>6. Refuses(s)
      BY <3>3, <3>5 DEF Min2
    <3> QED BY <3>1, <3>6
  <2>4. CASE EndSlot
    BY <2>1, <2>4 DEF EndSlot, Awake, Refuses
  <2> QED BY <2>1, <2>2, <2>3, <2>4 DEF Next, Slot
<1> QED BY <1>1, QueueInvariance, PTL DEF Spec, OnlySmallSharesSilence

\* The framing information of LteRlcUm's PDUs is the truth about the SDUs.
THEOREM TagsAreTrue == Spec => []StatusTruthful
<1>1. QueueInv => StatusTruthful
  BY DEF QueueInv
<1> QED BY <1>1, QueueInvariance, PTL

\* An entity that has refused an opportunity builds no PDU in the rest of the slot, the
\* assumption of SidelinkMac.
THEOREM RefusalIsKept == Spec => RefusalIsFinal
<1>1. QueueInv /\ [Next]_vars => [refused /\ share' > 0 => pdu' = <<>>]_vars
  <2> SUFFICES ASSUME QueueInv, Next, refused, share' > 0
               PROVE  pdu' = <<>>
    BY DEF vars
  <2>1. share > 0
    BY DEF QueueInv
  <2>2. PICK s \in Shares : Offer(s)
    <3>1. ~ (share = 0) /\ ~ (share' = 0)
      BY <2>1
    <3>2. /\ \A p \in Sdu : ~ TransmitPdcpPdu(p)
          /\ ~ ExpireRbsTimer /\ ~ EndSlot
      BY <3>1, Zenon DEF TransmitPdcpPdu, ExpireRbsTimer, EndSlot
    <3> QED BY <3>2 DEF Next, Slot
  <2>3. Refuses(Min2(entry, s))
    BY <2>2, RefusalStands
  <2> QED BY <2>2, <2>3, OfferCases DEF Refusal
<1> QED BY <1>1, QueueInvariance, PTL DEF Spec, RefusalIsFinal

\* Every PDU of LteRlcUm fits its opportunity with its header, and so does every length
\* indicator its field.
THEOREM PduFits == Spec => PduFitsOpportunity
<1> DEFINE Fit(s) ==
      Offer(s) /\ pdu' # <<>> /\ kind = "UM" =>
        /\ HeaderBytes(Len(pdu')) + Bytes(pdu') <= Min2(entry, s)
        /\ \A j \in 1..Len(pdu') - 1 : pdu'[j].size <= MaxLi
<1>1. ASSUME QueueInv, NEW s \in Shares PROVE Fit(s)
  <2> SUFFICES ASSUME Offer(s), pdu' # <<>>, kind = "UM"
               PROVE  /\ HeaderBytes(Len(pdu')) + Bytes(pdu') <= Min2(entry, s)
                      /\ \A j \in 1..Len(pdu') - 1 : pdu'[j].size <= MaxLi
    OBVIOUS
  <2>1. PICK mapped, n, taken :
          /\ Built(mapped, n, taken)
          /\ HeaderBytes(n) + Bytes(SubSeq(txBuffer, 1, n - 1)) + taken <= Min2(entry, s)
          /\ \A j \in 1..n-1 : txBuffer[j].size <= MaxLi
    BY <1>1, OfferCases DEF Refusal
  <2>2. IsMapped(mapped, n, taken) /\ pdu' = mapped.data /\ WellFormed(txBuffer)
    BY <1>1, <2>1 DEF Built, QueueInv
  <2>3. PICK data : data = pdu'
    OBVIOUS
  <2>4. /\ Len(data) = n
        /\ \A j \in 1..n-1 : data[j] = txBuffer[j]
        /\ Bytes(data) = Bytes(SubSeq(txBuffer, 1, n - 1)) + taken
    BY <2>2, <2>3, MappedBytes
  <2>5. /\ HeaderBytes(n) \in Nat /\ Bytes(SubSeq(txBuffer, 1, n - 1)) \in Nat /\ taken \in Nat
    <3>1. /\ txBuffer \in Seq(Segment) /\ n \in 1..Len(txBuffer)
          /\ taken \in 1..txBuffer[n].size
      BY <2>2 DEF WellFormed, IsMapped
    <3>2. n \in Nat \ {0} /\ SubSeq(txBuffer, 1, n - 1) \in Seq(Segment)
      BY <3>1
    <3>3. HeaderBytes(n) \in Nat
      BY <3>2, HeaderStep
    <3>4. Bytes(SubSeq(txBuffer, 1, n - 1)) \in Nat
      BY <3>2, BytesNat
    <3> QED BY <3>1, <3>3, <3>4
  <2>6. HeaderBytes(Len(data)) + Bytes(data) <= Min2(entry, s)
    <3>1. Min2(entry, s) \in Nat
      BY <1>1, OfferedBytes
    <3> QED BY <2>1, <2>4, <2>5, <3>1
  <2>7. \A j \in 1..Len(data) - 1 : data[j].size <= MaxLi
    BY <2>1, <2>4
  <2> QED BY <2>3, <2>6, <2>7
<1>2. QueueInv /\ [Next]_vars => [\A s \in Shares : Fit(s)]_vars
  BY <1>1
<1> QED BY <1>2, QueueInvariance, PTL DEF Spec, PduFitsOpportunity


------------------------------------------------------------------------------
(* The bytes of the queue, one by one *)

ByteSeq == Seq(Sdu)

\* The bytes of the first segments, then of one more, and so on.
FlatOver(f, s, n) ==
  /\ f \in [0..n -> ByteSeq]
  /\ f[0] = <<>>
  /\ \A i \in 1..n : f[i] = f[i-1] \o BytesOf(s[i])

\* A segment has as many bytes as its size says.
LEMMA BytesOfType ==
  ASSUME NEW e \in Segment
  PROVE  BytesOf(e) \in ByteSeq /\ Len(BytesOf(e)) = e.size
BY DEF Segment, BytesOf, ByteSeq

\* There is such a function for every queue.
LEMMA FlatExists ==
  ASSUME NEW s \in Seq(Segment)
  PROVE  \E f : FlatOver(f, s, Len(s))
<1> DEFINE n == Len(s)
           P == {m \in 0..n : \E f : FlatOver(f, s, m)}
<1>1. n \in Nat
  OBVIOUS
<1>2. 0 \in P
  <2> DEFINE f == [i \in 0..0 |-> <<>>]
  <2>1. FlatOver(f, s, 0)
    <3>1. f[0] = <<>> /\ f \in [0..0 -> ByteSeq]
      BY DEF ByteSeq
    <3> QED BY <3>1 DEF FlatOver
  <2> HIDE DEF f
  <2> QED BY <1>1, <2>1
<1>3. ASSUME NEW i \in 1..n, i - 1 \in P PROVE i \in P
  <2>1. PICK f : FlatOver(f, s, i - 1)
    BY <1>3
  <2> DEFINE h == [k \in 0..i |-> IF k = i THEN f[i-1] \o BytesOf(s[i]) ELSE f[k]]
  <2>2. f[i-1] \in ByteSeq /\ BytesOf(s[i]) \in ByteSeq
    <3>1. s[i] \in Segment
      BY <1>1
    <3> QED BY <2>1, <3>1, BytesOfType DEF FlatOver
  <2>3. f[i-1] \o BytesOf(s[i]) \in ByteSeq
    BY <2>2 DEF ByteSeq
  <2>4. FlatOver(h, s, i)
    <3>1. h[0] = <<>>
      BY <2>1 DEF FlatOver
    <3>2. ASSUME NEW k \in 0..i
          PROVE  (IF k = i THEN f[i-1] \o BytesOf(s[i]) ELSE f[k]) \in ByteSeq
      BY <2>1, <2>3 DEF FlatOver
    <3>3. h \in [0..i -> ByteSeq]
      BY <3>2
    <3>4. ASSUME NEW k \in 1..i PROVE h[k] = h[k-1] \o BytesOf(s[k])
      <4>1. CASE k = i
        BY <4>1
      <4>2. CASE k # i
        <5>1. k \in 1..i-1 /\ k - 1 \in 0..i /\ k - 1 # i /\ k \in 0..i
          BY <1>1, <4>2
        <5>2. h[k] = f[k] /\ h[k-1] = f[k-1]
          BY <4>2, <5>1
        <5>3. f[k] = f[k-1] \o BytesOf(s[k])
          BY <2>1, <5>1 DEF FlatOver
        <5> HIDE DEF h
        <5> QED BY <5>2, <5>3
      <4> QED BY <4>1, <4>2
    <3> HIDE DEF h
    <3> QED BY <3>1, <3>3, <3>4 DEF FlatOver
  <2> HIDE DEF h
  <2> QED BY <2>4
<1>4. 0..n \subseteq P
  <2> HIDE DEF P, n
  <2> QED BY <1>1, <1>2, <1>3, InductionUpTo
<1>5. n \in P
  <2> HIDE DEF P
  <2> QED BY <1>1, <1>4
<1> QED BY <1>5

\* The recursion of Flatten, whatever it starts from.
Appends(f, s, n) == \A i \in 1..n : f[i] = f[i-1] \o BytesOf(s[i])

\* Two functions that append the same bytes to the same start are the same.
LEMMA FlatUnique ==
  ASSUME NEW n \in Nat, NEW s, NEW f, NEW h,
         f[0] = h[0], Appends(f, s, n), Appends(h, s, n)
  PROVE  \A i \in 0..n : f[i] = h[i]
<1> DEFINE P == {i \in 0..n : f[i] = h[i]}
<1>1. 0 \in P
  OBVIOUS
<1>2. ASSUME NEW i \in 1..n, i - 1 \in P PROVE i \in P
  <2>1. f[i-1] = h[i-1]
    BY <1>2
  <2>2. f[i] = h[i]
    BY <2>1 DEF Appends
  <2> QED BY <2>2
<1>3. 0..n \subseteq P
  <2> HIDE DEF P
  <2> QED BY <1>1, <1>2, InductionUpTo
<1> QED BY <1>3

\* Flatten is the last of them.
LEMMA FlattenIs ==
  ASSUME NEW s \in Seq(Segment), NEW f, FlatOver(f, s, Len(s))
  PROVE  Flatten(s) = f[Len(s)] /\ Flatten(s) \in ByteSeq
<1> DEFINE n == Len(s)
           IsFlat(h) == h = [i \in 0..n |-> IF i = 0 THEN <<>> ELSE h[i-1] \o BytesOf(s[i])]
<1>1. n \in Nat /\ n \in 0..n
  OBVIOUS
<1>2. IsFlat(f)
  <2>1. \A i \in 0..n : f[i] = IF i = 0 THEN <<>> ELSE f[i-1] \o BytesOf(s[i])
    BY DEF FlatOver
  <2>2. f = [i \in 0..n |-> f[i]]
    BY DEF FlatOver
  <2> QED BY <2>1, <2>2
<1>3. ASSUME NEW k, IsFlat(k) PROVE k[n] = f[n]
  <2>1. \A i \in 0..n : k[i] = IF i = 0 THEN <<>> ELSE k[i-1] \o BytesOf(s[i])
    BY <1>3
  <2>2. k[0] = <<>>
    BY <1>1, <2>1
  <2>4. ASSUME NEW i \in 1..n PROVE k[i] = k[i-1] \o BytesOf(s[i])
    <3>1. i \in 0..n /\ i # 0
      BY <1>1
    <3> HIDE DEF n, IsFlat
    <3> QED BY <2>1, <3>1
  <2>3. f[0] = <<>> /\ \A i \in 1..n : f[i] = f[i-1] \o BytesOf(s[i])
    BY DEF FlatOver
  <2> HIDE DEF IsFlat, n
  <2>5. \A i \in 0..n : k[i] = f[i]
    <3>1. k[0] = f[0]
      BY <2>2, <2>3
    <3>2. Appends(k, s, n) /\ Appends(f, s, n)
      BY <2>3, <2>4 DEF Appends
    <3> QED BY <1>1, <3>1, <3>2, FlatUnique
  <2> QED BY <1>1, <2>5
<1>4. Flatten(s) = (CHOOSE k : IsFlat(k))[n]
  BY DEF Flatten
<1>5. Flatten(s) = f[n]
  <2>1. IsFlat(CHOOSE k : IsFlat(k))
    <3> HIDE DEF IsFlat
    <3> QED BY <1>2
  <2> HIDE DEF IsFlat
  <2> QED BY <1>3, <1>4, <2>1
<1>6. f[n] \in ByteSeq
  BY <1>1 DEF FlatOver
<1> QED BY <1>5, <1>6

\* Flatten gives a sequence of bytes.
LEMMA FlattenType ==
  ASSUME NEW s \in Seq(Segment)
  PROVE  Flatten(s) \in ByteSeq
BY FlatExists, FlattenIs

\* The empty queue has no bytes.
LEMMA FlattenEmpty == Flatten(<<>>) = <<>>
<1> DEFINE s == <<>>
<1>1. s \in Seq(Segment) /\ Len(s) = 0
  OBVIOUS
<1> HIDE DEF s
<1>2. PICK f : FlatOver(f, s, Len(s))
  BY <1>1, FlatExists
<1>3. Flatten(s) = f[0] /\ f[0] = <<>>
  BY <1>1, <1>2, FlattenIs DEF FlatOver
<1> QED BY <1>3 DEF s

\* A queue of one segment has its bytes.
LEMMA FlattenSingle ==
  ASSUME NEW e \in Segment
  PROVE  Flatten(<<e>>) = BytesOf(e)
<1> DEFINE s == <<e>>
<1>1. s \in Seq(Segment) /\ Len(s) = 1 /\ s[1] = e
  OBVIOUS
<1> HIDE DEF s
<1>2. PICK f : FlatOver(f, s, Len(s))
  BY <1>1, FlatExists
<1>3. Flatten(s) = f[1]
  BY <1>1, <1>2, FlattenIs
<1>4. /\ \A i \in 1..1 : f[i] = f[i-1] \o BytesOf(s[i])
      /\ f[0] = <<>>
  BY <1>1, <1>2 DEF FlatOver
<1>5. BytesOf(e) \in ByteSeq
  BY BytesOfType
<1>6. <<>> \o BytesOf(e) = BytesOf(e)
  BY <1>5, ConcatEmptySeq DEF ByteSeq
<1>7. f[1] = f[0] \o BytesOf(e)
  <2>1. PICK i \in 1..1 : i = 1 /\ i - 1 = 0
    OBVIOUS
  <2>2. f[i] = f[i-1] \o BytesOf(s[i])
    BY <1>4
  <2>3. s[i] = e /\ f[i-1] = f[0] /\ f[i] = f[1]
    BY <1>1, <2>1
  <2> QED BY <2>2, <2>3
<1> QED BY <1>3, <1>4, <1>6, <1>7 DEF s

\* ConcatAssociative, for bytes.
LEMMA ByteSeqAssociative ==
  ASSUME NEW a \in ByteSeq, NEW b \in ByteSeq, NEW c \in ByteSeq
  PROVE  (a \o b) \o c = a \o (b \o c)
BY ConcatAssociative DEF ByteSeq

\* The bytes of a concatenation are those of its parts, one after the other.
LEMMA FlattenConcat ==
  ASSUME NEW s \in Seq(Segment), NEW t \in Seq(Segment)
  PROVE  Flatten(s \o t) = Flatten(s) \o Flatten(t)
<1>1. PICK f : FlatOver(f, s, Len(s))
  BY FlatExists
<1>2. PICK g : FlatOver(g, t, Len(t))
  BY FlatExists
<1> DEFINE u == s \o t
<1>3. u \in Seq(Segment)
  OBVIOUS
<1>4. PICK h : FlatOver(h, u, Len(u))
  BY <1>3, FlatExists
<1> DEFINE m == Len(s)
           n == Len(t)
<1>5. /\ m \in Nat /\ n \in Nat /\ Len(u) = m + n
      /\ \A i \in 1..m : u[i] = s[i]
      /\ \A i \in 1..n : u[m + i] = t[i]
  BY ConcatProperties
<1>6. /\ f[0] = <<>> /\ \A i \in 1..m : f[i] = f[i-1] \o BytesOf(s[i])
      /\ g[0] = <<>> /\ \A i \in 1..n : g[i] = g[i-1] \o BytesOf(t[i])
      /\ h[0] = <<>> /\ \A i \in 1..m+n : h[i] = h[i-1] \o BytesOf(u[i])
      /\ f[m] \in ByteSeq /\ \A i \in 0..n : g[i] \in ByteSeq
  <2>1. m \in 0..m
    BY <1>5
  <2> HIDE DEF u
  <2> QED BY <1>1, <1>2, <1>4, <1>5, <2>1 DEF FlatOver
<1>7. h[m] = f[m]
  <2>1. \A i \in 1..m : h[i] = h[i-1] \o BytesOf(s[i])
    <3>1. \A i \in 1..m : i \in 1..m+n
      BY <1>5
    <3> QED BY <1>5, <1>6, <3>1
  <2>2. \A i \in 0..m : h[i] = f[i]
    <3>1. h[0] = f[0] /\ m \in Nat
      BY <1>5, <1>6
    <3>2. Appends(f, s, m) /\ Appends(h, s, m)
      BY <1>6, <2>1 DEF Appends
    <3> HIDE DEF m, u
    <3> QED BY <3>1, <3>2, FlatUnique
  <2> QED BY <1>5, <2>2
<1> DEFINE P == {i \in 0..n : h[m + i] = f[m] \o g[i]}
<1>8. 0 \in P
  <2>1. f[m] \o <<>> = f[m]
    BY <1>6, ConcatEmptySeq DEF ByteSeq
  <2>2. m + 0 = m /\ 0 \in 0..n
    BY <1>5
  <2> QED BY <1>6, <1>7, <2>1, <2>2
<1>9. ASSUME NEW i \in 1..n, i - 1 \in P PROVE i \in P
  <2>1. h[m + (i - 1)] = f[m] \o g[i - 1] /\ i - 1 \in 0..n
    BY <1>9
  <2>2. m + i \in 1..m+n /\ (m + i) - 1 = m + (i - 1)
    BY <1>5
  <2>3. h[m + i] = h[m + (i - 1)] \o BytesOf(t[i])
    BY <1>5, <1>6, <2>2
  <2>4. g[i] = g[i - 1] \o BytesOf(t[i])
    BY <1>6
  <2>5. f[m] \in ByteSeq /\ g[i - 1] \in ByteSeq /\ BytesOf(t[i]) \in ByteSeq
    <3>1. t[i] \in Segment
      BY <1>5
    <3> QED BY <1>6, <2>1, <3>1, BytesOfType
  <2>6. (f[m] \o g[i - 1]) \o BytesOf(t[i]) = f[m] \o (g[i - 1] \o BytesOf(t[i]))
    BY <2>5, ByteSeqAssociative
  <2>7. h[m + i] = f[m] \o g[i]
    BY <2>1, <2>3, <2>4, <2>6
  <2>8. i \in 0..n
    BY <1>5
  <2> HIDE DEF n, m
  <2> QED BY <2>7, <2>8
<1>10. 0..n \subseteq P
  <2> HIDE DEF P, n
  <2> QED BY <1>5, <1>8, <1>9, InductionUpTo
<1>11. n \in P
  <2> HIDE DEF P
  <2> QED BY <1>5, <1>10
<1>12. h[m + n] = f[m] \o g[n]
  BY <1>11
<1>13. Flatten(u) = h[m + n] /\ Flatten(s) = f[m] /\ Flatten(t) = g[n]
  <2>1. Flatten(u) = h[Len(u)]
    <3> HIDE DEF u
    <3> QED BY <1>3, <1>4, FlattenIs
  <2> QED BY <1>1, <1>2, <1>5, <2>1, FlattenIs
<1> QED BY <1>12, <1>13

\* A segment cut in two.
LEMMA BytesOfCut ==
  ASSUME NEW seg \in Segment, NEW a \in Segment, NEW b \in Segment,
         a.sdu = seg.sdu, b.sdu = seg.sdu, a.size + b.size = seg.size
  PROVE  BytesOf(a) \o BytesOf(b) = BytesOf(seg)
<1> DEFINE s == BytesOf(a)
           t == BytesOf(b)
           w == BytesOf(seg)
<1>1. /\ s \in Seq(Sdu) /\ Len(s) = a.size /\ t \in Seq(Sdu) /\ Len(t) = b.size
      /\ w \in Seq(Sdu) /\ Len(w) = seg.size
      /\ a.size \in Nat /\ b.size \in Nat
  BY BytesOfType DEF ByteSeq, Segment
<1>2. /\ \A i \in 1..a.size : s[i] = seg.sdu
      /\ \A i \in 1..b.size : t[i] = seg.sdu
      /\ \A i \in 1..seg.size : w[i] = seg.sdu
  BY DEF BytesOf
<1> HIDE DEF s, t, w
<1>3. /\ s \o t \in Seq(Sdu) /\ Len(s \o t) = a.size + b.size
      /\ \A i \in 1..a.size + b.size :
           (s \o t)[i] = IF i <= a.size THEN s[i] ELSE t[i - a.size]
  BY <1>1, ConcatProperties
<1>4. ASSUME NEW i \in 1..Len(s \o t) PROVE (s \o t)[i] = w[i]
  <2>1. i <= a.size \/ i - a.size \in 1..b.size
    BY <1>1, <1>3
  <2> QED BY <1>1, <1>2, <1>3, <2>1
<1>5. s \o t = w
  BY <1>1, <1>3, <1>4, SeqEqual
<1> QED BY <1>5 DEF s, t, w

\* What is taken and what is left are, byte by byte, the queue.
LEMMA MappedFlattens ==
  ASSUME WellFormed(txBuffer), NEW mapped, NEW n, NEW taken, IsMapped(mapped, n, taken)
  PROVE  Flatten(mapped.data) \o Flatten(mapped.rest) = Flatten(txBuffer)
<1> DEFINE seg == txBuffer[n]
           pre == SubSeq(txBuffer, 1, n - 1)
           after == After(n)
           last == Taken(n, taken)
           left == Left(n, taken)
<1>1. /\ txBuffer \in Seq(Segment) /\ n \in 1..Len(txBuffer)
      /\ seg \in Segment /\ taken \in 1..seg.size /\ seg.size \in Nat
  <2>1. txBuffer \in Seq(Segment) /\ n \in 1..Len(txBuffer) /\ taken \in 1..seg.size
    BY DEF WellFormed, IsMapped
  <2>2. seg \in Segment
    BY <2>1
  <2> QED BY <2>1, <2>2 DEF Segment
<1>2. last \in Segment /\ last.size = taken /\ last.sdu = seg.sdu
  <2>1. StatusOfTaken(seg.status, seg.size - taken) \in {"FULL", "FIRST", "MIDDLE", "LAST"}
    BY <1>1 DEF StatusOfTaken, Segment
  <2>2. seg.sdu \in Sdu /\ taken \in Nat
    BY <1>1 DEF Segment
  <2> QED BY <2>1, <2>2 DEF Taken, Segment
<1>3. left \in Segment /\ left.size = seg.size - taken /\ left.sdu = seg.sdu
  <2>1. seg.size - taken \in Nat /\ seg.sdu \in Sdu
    BY <1>1 DEF Segment
  <2> QED BY <2>1 DEF Left, Segment
<1>4. pre \in Seq(Segment) /\ after \in Seq(Segment)
  BY <1>1 DEF After
<1>5. Flatten(txBuffer) = (Flatten(pre) \o BytesOf(seg)) \o Flatten(after)
  <2> DEFINE upto == SubSeq(txBuffer, 1, n)
  <2>1. upto = pre \o <<seg>> /\ <<seg>> \in Seq(Segment)
    <3>1. 1 \in 1..Len(txBuffer)
      BY <1>1
    <3> QED BY <1>1, <3>1, SubSeqRecursiveSecond
  <2>2. upto \o after = txBuffer /\ upto \in Seq(Segment)
    <3>1. 1 \in 1..Len(txBuffer)+1 /\ n \in 1-1..Len(txBuffer) /\ Len(txBuffer) \in n..Len(txBuffer)
      BY <1>1
    <3>2. upto \o after = SubSeq(txBuffer, 1, Len(txBuffer))
      BY <1>1, <3>1, ConcatAdjacentSubSeq DEF After
    <3>3. SubSeq(txBuffer, 1, Len(txBuffer)) = txBuffer
      BY <1>1, SubSeqFull
    <3>4. upto \in Seq(Segment)
      BY <1>1
    <3> QED BY <3>2, <3>3, <3>4
  <2> HIDE DEF upto, pre, after, seg
  <2>3. Flatten(txBuffer) = Flatten(upto) \o Flatten(after)
    BY <1>4, <2>2, FlattenConcat
  <2>4. Flatten(upto) = Flatten(pre) \o Flatten(<<seg>>)
    BY <1>4, <2>1, FlattenConcat
  <2>5. Flatten(<<seg>>) = BytesOf(seg)
    BY <1>1, FlattenSingle
  <2> QED BY <2>3, <2>4, <2>5
<1>6. Flatten(mapped.data) = Flatten(pre) \o BytesOf(last)
  <2>1. mapped.data = Append(pre, last)
    BY DEF IsMapped
  <2> HIDE DEF pre, last
  <2>2. Append(pre, last) = pre \o <<last>> /\ <<last>> \in Seq(Segment)
    BY <1>2, <1>4, AppendIsConcat
  <2>3. Flatten(pre \o <<last>>) = Flatten(pre) \o Flatten(<<last>>)
    BY <1>4, <2>2, FlattenConcat
  <2>4. Flatten(<<last>>) = BytesOf(last)
    BY <1>2, FlattenSingle
  <2> QED BY <2>1, <2>2, <2>3, <2>4
<1>7. /\ Flatten(pre) \in Seq(Sdu) /\ Flatten(after) \in Seq(Sdu)
      /\ BytesOf(last) \in Seq(Sdu) /\ BytesOf(left) \in Seq(Sdu) /\ BytesOf(seg) \in Seq(Sdu)
  <2> HIDE DEF pre, after, last, left, seg
  <2> QED BY <1>1, <1>2, <1>3, <1>4, FlattenType, BytesOfType DEF ByteSeq
<1>8. CASE taken = seg.size
  <2>1. mapped.rest = after
    BY <1>8 DEF IsMapped
  <2>2. BytesOf(last) = BytesOf(seg)
    BY <1>2, <1>8 DEF BytesOf
  <2> HIDE DEF pre, after, last, left, seg
  <2> QED BY <1>5, <1>6, <2>1, <2>2
<1>9. CASE taken # seg.size
  <2>1. mapped.rest = <<left>> \o after
    BY <1>9 DEF IsMapped
  <2>2. Flatten(mapped.rest) = BytesOf(left) \o Flatten(after)
    <3>1. <<left>> \in Seq(Segment)
      BY <1>3
    <3> HIDE DEF after, left
    <3>2. Flatten(<<left>> \o after) = Flatten(<<left>>) \o Flatten(after)
      BY <1>4, <3>1, FlattenConcat
    <3>3. Flatten(<<left>>) = BytesOf(left)
      BY <1>3, FlattenSingle
    <3> QED BY <2>1, <3>2, <3>3
  <2>3. BytesOf(last) \o BytesOf(left) = BytesOf(seg)
    <3>1. last.size + left.size = seg.size
      BY <1>1, <1>2, <1>3
    <3> HIDE DEF last, left, seg
    <3> QED BY <1>1, <1>2, <1>3, <3>1, BytesOfCut
  <2> HIDE DEF pre, after, last, left, seg
  <2>4. PICK p, a, b, c : /\ p = Flatten(pre) /\ a = BytesOf(last)
                          /\ b = BytesOf(left) /\ c = Flatten(after)
    OBVIOUS
  <2>5. p \in Seq(Sdu) /\ a \in Seq(Sdu) /\ b \in Seq(Sdu) /\ c \in Seq(Sdu)
    BY <1>7, <2>4
  <2>6. (p \o a) \o (b \o c) = (p \o (a \o b)) \o c
    <3>1. a \o b \in Seq(Sdu) /\ b \o c \in Seq(Sdu)
      BY <2>5
    <3>2. (p \o a) \o (b \o c) = p \o (a \o (b \o c))
      BY <2>5, <3>1, ConcatAssociative
    <3>3. a \o (b \o c) = (a \o b) \o c
      BY <2>5, ConcatAssociative
    <3>4. p \o ((a \o b) \o c) = (p \o (a \o b)) \o c
      BY <2>5, <3>1, ConcatAssociative
    <3> QED BY <3>2, <3>3, <3>4
  <2> QED BY <1>5, <1>6, <2>2, <2>3, <2>4, <2>6
<1> QED BY <1>8, <1>9

\* Segmentation loses, repeats and swaps no byte of the queue.
THEOREM SegmentationConserves == Spec => BytesConserved
<1>1. QueueInv /\ [Next]_vars
        => [pdu' # <<>> => Flatten(pdu') \o Flatten(txBuffer') = Flatten(txBuffer)]_vars
  <2> SUFFICES ASSUME QueueInv, Next, pdu' # <<>>
               PROVE  Flatten(pdu') \o Flatten(txBuffer') = Flatten(txBuffer)
    BY DEF vars
  <2>1. PICK s \in Shares : Offer(s)
    <3>1. /\ \A p \in Sdu : ~ TransmitPdcpPdu(p)
          /\ ~ ExpireRbsTimer
      <4>1. share = 0 => pdu = <<>>
        BY DEF QueueInv
      <4> QED BY <4>1, Zenon DEF TransmitPdcpPdu, ExpireRbsTimer
    <3>2. ~ EndSlot
      BY DEF EndSlot
    <3> QED BY <3>1, <3>2 DEF Next, Slot
  <2>2. PICK mapped, n, taken : Built(mapped, n, taken)
    BY <2>1, OfferCases DEF Refusal
  <2>3. /\ WellFormed(txBuffer) /\ IsMapped(mapped, n, taken)
        /\ pdu' = mapped.data /\ txBuffer' = mapped.rest
    BY <2>2 DEF Built, QueueInv
  <2> QED BY <2>3, MappedFlattens
<1> QED BY <1>1, QueueInvariance, PTL DEF Spec, BytesConserved

===============================================================================
