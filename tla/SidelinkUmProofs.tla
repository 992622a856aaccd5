------------------------- MODULE SidelinkUmProofs -------------------------
(***************************************************************************)
(* Proofs about SidelinkUm.  Sequence numbers are told as the numbers they  *)
(* stand for: U, X and H are those of VR(UR), VR(UX) and VR(UH), E is the   *)
(* one that the reassembly expects next, and pos says where in the stream   *)
(* of parts every PDU begins.  IInv relates them to the state; it holds as  *)
(* long as the window never passes more than a half of itself while         *)
(* t-Reordering runs, or the numbers do not wrap (SlowEnough).              *)
(***************************************************************************)
EXTENDS SidelinkUm, NaturalLemmas, SequenceTheorems

\* A quotient of at least one makes a multiple of at least the divisor.
LEMMA MultipleBound ==
  ASSUME NEW m \in Nat \ {0}, NEW q \in Int, NEW p \in Int
  PROVE  /\ q >= 1 => m * q >= m
         /\ q <= -1 => m * q <= -m
         /\ m * (q - p) = m * q - m * p
         /\ m * (q + p) = m * q + m * p
<1>1. q >= 1 => m * q >= m
  OBVIOUS
<1>2. q <= -1 => m * q <= -m
  OBVIOUS
<1>3. m * (q - p) = m * q - m * p /\ m * (q + p) = m * q + m * p
  OBVIOUS
<1> QED BY <1>1, <1>2, <1>3

\* Integer division.
LEMMA DivMod ==
  ASSUME NEW m \in Nat \ {0}, NEW a \in Int
  PROVE  /\ a % m \in 0..m-1
         /\ a \div m \in Int
         /\ a = (m * (a \div m)) + (a % m)
OBVIOUS

\* The remainder is the only one.
LEMMA ModIs ==
  ASSUME NEW m \in Nat \ {0}, NEW a \in Int, NEW q \in Int, NEW r \in 0..m-1,
         a = (m * q) + r
  PROVE  a % m = r
<1> DEFINE d == a \div m
<1> DEFINE s == a % m
<1> DEFINE mq == m * q
<1> DEFINE md == m * d
<1> DEFINE mx == m * (q - d)
<1>1. s \in 0..m-1 /\ d \in Int /\ a = md + s
  BY DivMod
<1>2. q - d \in Int
  BY <1>1
<1>3. /\ q - d >= 1 => mx >= m
      /\ q - d <= -1 => mx <= -m
  <2> HIDE DEF d
  <2> QED BY <1>2, MultipleBound
<1>4. mx = mq - md
  <2> HIDE DEF d
  <2> QED BY <1>1, MultipleBound
<1>5. mq \in Int /\ md \in Int /\ mx \in Int
  <2>1. mq \in Int
    OBVIOUS
  <2>2. md \in Int
    <3> HIDE DEF d
    <3> QED BY <1>1
  <2> QED BY <2>1, <2>2, <1>4
<1>6. a = mq + r
  OBVIOUS
<1>7. s = r
  <2> HIDE DEF d, s, mq, md, mx
  <2>1. ~ (q - d >= 1)
    BY <1>1, <1>3, <1>4, <1>5, <1>6
  <2>2. ~ (q - d <= -1)
    BY <1>1, <1>3, <1>4, <1>5, <1>6
  <2>3. q = d
    BY <1>1, <2>1, <2>2
  <2> QED BY <1>1, <1>6, <2>3 DEF mq, md
<1> QED BY <1>7

\* The modulus is even and at least four.
LEMMA ModulusType == Modulus \in Nat \ {0} /\ Window \in Nat /\ Window > 1 /\ Modulus = 2 * Window
BY UmAssumption

\* A sequence number is the number of a PDU less a multiple of the modulus.
LEMMA SnType ==
  ASSUME NEW n \in Int
  PROVE  /\ Sn(n) \in 0..Modulus-1
         /\ \E q \in Int : n = (Modulus * q) + Sn(n)
BY ModulusType, DivMod DEF Sn

\* Numbers below the modulus are their own sequence numbers.
LEMMA SnSmall == \A n \in 0..Modulus-1 : Sn(n) = n
<1> SUFFICES ASSUME NEW n \in 0..Modulus-1 PROVE Sn(n) = n
  OBVIOUS
<1>1. n \in Int /\ 0 \in Int /\ n = (Modulus * 0) + n
  BY ModulusType
<1>2. n % Modulus = n
  BY <1>1, ModIs, ModulusType
<1> QED BY <1>2 DEF Sn

\* Differences of sequence numbers are differences of numbers less a multiple.
LEMMA SnPlus ==
  ASSUME NEW n \in Int, NEW c \in Int
  PROVE  Sn(Sn(n) + c) = Sn(n + c)
<1>1. PICK q \in Int : n = (Modulus * q) + Sn(n)
  BY SnType
<1>2. PICK p \in Int : Sn(n) + c = (Modulus * p) + Sn(Sn(n) + c)
  <2>1. Sn(n) + c \in Int
    BY SnType
  <2> QED BY <2>1, SnType
<1>3. Sn(Sn(n) + c) \in 0..Modulus-1 /\ Sn(n) \in Int
  <2>1. Sn(n) + c \in Int
    BY SnType
  <2> QED BY <2>1, SnType
<1> DEFINE mp == Modulus * p
<1> DEFINE mq == Modulus * q
<1> DEFINE mk == Modulus * (p + q)
<1>4. mp \in Int /\ mq \in Int /\ mk = mp + mq /\ n + c \in Int /\ p + q \in Int
  BY ModulusType, MultipleBound
<1>5. n + c = mk + Sn(Sn(n) + c)
  <2>1. Sn(n) + c = mp + Sn(Sn(n) + c) /\ n = mq + Sn(n)
    BY <1>1, <1>2
  <2> HIDE DEF mp, mq, mk
  <2> QED BY <1>3, <1>4, <2>1, ModulusType
<1>6. n + c = (Modulus * (p + q)) + Sn(Sn(n) + c)
  BY <1>5
<1>8. (n + c) % Modulus = Sn(Sn(n) + c)
  BY <1>3, <1>4, <1>6, ModIs, ModulusType
<1> QED BY <1>8 DEF Sn

\* The base of the window that ends before a number.
LEMMA BaseIs ==
  ASSUME NEW h \in Int
  PROVE  Base(Sn(h)) = Sn(h - Window)
<1>1. Base(Sn(h)) = Sn(Sn(h) + (-Window))
  <2>1. Sn(h) \in Int
    BY SnType
  <2>2. Sn(h) - Window = Sn(h) + (-Window)
    BY <2>1, ModulusType
  <2> QED BY <2>2 DEF Base
<1>2. Sn(Sn(h) + (-Window)) = Sn(h + (-Window))
  BY SnPlus, ModulusType
<1>3. h + (-Window) = h - Window
  BY ModulusType
<1> QED BY <1>1, <1>2, <1>3

\* SequenceNumber10 compares the numbers themselves while they lie within a modulus from
\* the base.
LEMMA OffIs ==
  ASSUME NEW n \in Int, NEW b \in Int, b <= n, n < b + Modulus
  PROVE  Off(Sn(n), Sn(b)) = n - b
<1>1. PICK q \in Int : n = (Modulus * q) + Sn(n)
  BY SnType
<1>2. PICK p \in Int : b = (Modulus * p) + Sn(b)
  BY SnType
<1>3. Sn(n) \in Int /\ Sn(b) \in Int
  BY SnType
<1>4. Modulus * (p - q) = Modulus * p - Modulus * q
  BY MultipleBound, ModulusType
<1>5. Sn(n) - Sn(b) = (Modulus * (p - q)) + (n - b)
  <2> DEFINE mp == Modulus * p
  <2> DEFINE mq == Modulus * q
  <2>1. mp \in Int /\ mq \in Int
    BY ModulusType
  <2>2. n = mq + Sn(n) /\ b = mp + Sn(b) /\ Modulus * (p - q) = mp - mq
    BY <1>1, <1>2, <1>4
  <2> HIDE DEF mp, mq
  <2> QED BY <1>3, <2>1, <2>2
<1>6. n - b \in 0..Modulus-1 /\ Sn(n) - Sn(b) \in Int /\ p - q \in Int
  BY <1>3, ModulusType
<1>7. (Sn(n) - Sn(b)) % Modulus = n - b
  BY <1>5, <1>6, ModIs, ModulusType
<1> QED BY <1>7 DEF Off

\* Two numbers within a modulus have different sequence numbers.
LEMMA SnUnique ==
  ASSUME NEW n \in Int, NEW b \in Int, b - Modulus < n, n < b + Modulus, Sn(n) = Sn(b)
  PROVE  n = b
<1>1. CASE b <= n
  <2>1. Off(Sn(n), Sn(b)) = n - b /\ Off(Sn(b), Sn(b)) = b - b
    BY <1>1, OffIs, ModulusType
  <2> QED BY <2>1
<1>2. CASE n < b
  <2>1. Off(Sn(b), Sn(n)) = b - n /\ Off(Sn(n), Sn(n)) = n - n
    BY <1>2, OffIs, ModulusType
  <2> QED BY <2>1
<1> QED BY <1>1, <1>2

\* Whether a number less than a window away from VR(UH) is inside the window.
LEMMA InsideIs ==
  ASSUME NEW n \in Int, NEW h \in Int, h - Window <= n, n < h + Window
  PROVE  Inside(Sn(n), Sn(h)) <=> n < h
<1>1. Base(Sn(h)) = Sn(h - Window)
  BY BaseIs
<1>2. Off(Sn(n), Sn(h - Window)) = n - (h - Window)
  BY OffIs, ModulusType
<1> QED BY <1>1, <1>2, ModulusType DEF Inside

------------------------------------------------------------------------------
(* The reception buffer *)

\* Every PDU is filed under its sequence number, and its number lies in an interval.
Buffered(f, lo, hi) ==
  \A sn \in DOMAIN f :
    /\ f[sn].sn = sn /\ f[sn].num \in Int /\ sn = Sn(f[sn].num)
    /\ lo <= f[sn].num /\ f[sn].num < hi

\* The PDU of a number is there.
Has(f, n) == Sn(n) \in DOMAIN f /\ f[Sn(n)].num = n

\* Within a modulus of all of the interval a sequence number tells which PDU it is.
LEMMA HasIs ==
  ASSUME NEW f, NEW lo \in Int, NEW hi \in Int, Buffered(f, lo, hi),
         NEW n \in Int, hi - Modulus <= n, n < lo + Modulus, Sn(n) \in DOMAIN f
  PROVE  Has(f, n) /\ n < hi
<1> DEFINE b == f[Sn(n)].num
<1>1. b \in Int /\ Sn(n) = Sn(b) /\ lo <= b /\ b < hi
  BY DEF Buffered
<1>2. n = b
  <2> HIDE DEF b
  <2>1. b - Modulus < n /\ n < b + Modulus
    BY <1>1, ModulusType
  <2> QED BY <1>1, <2>1, SnUnique
<1> QED BY <1>1, <1>2 DEF Has

\* The least of a set of numbers.
LEMMA MinOfIs ==
  ASSUME NEW S \in SUBSET Nat, S # {}
  PROVE  MinOf(S) \in S /\ \A y \in S : MinOf(S) <= y
BY LeastExists DEF MinOf

\* The number at which the search in DoReceivePdu stops: all from where it starts up to
\* it are there.
StopsAt(f, L, K) == \A m \in L..K-1 : Has(f, m)

\* The search that counts in a uint16_t.
LEMMA NextMissingIs ==
  ASSUME NEW f, NEW lo \in Int, NEW hi \in Int, Buffered(f, lo, hi), hi - lo < Modulus,
         NEW L \in Int, lo <= L, L < hi, Sn(L) \in DOMAIN f
  PROVE  \E K \in Int : /\ L < K /\ K <= hi
                        /\ NextMissing(f, Sn(L)) = Sn(K)
                        /\ StopsAt(f, L, K)
<1> DEFINE u == Sn(L)
<1> DEFINE S == {n \in u + 1 .. Modulus : n \notin DOMAIN f}
<1> DEFINE h == MinOf(S)
<1> DEFINE K == L + (h - u)
<1>1. u \in 0..Modulus-1
  BY SnType
<1>2. Modulus \in S
  <2>1. ASSUME NEW sn \in DOMAIN f PROVE sn # Modulus
    <3> DEFINE m == f[sn].num
    <3>1. m \in Int /\ sn = Sn(m)
      BY DEF Buffered
    <3> HIDE DEF m
    <3>2. Sn(m) \in 0..Modulus-1
      BY <3>1, SnType
    <3> QED BY <3>1, <3>2, ModulusType
  <2> QED BY <1>1, <2>1, ModulusType
<1>3. h \in S /\ \A y \in S : h <= y
  <2>1. S \in SUBSET Nat
    BY <1>1, ModulusType
  <2> HIDE DEF S
  <2> QED BY <1>2, <2>1, MinOfIs
<1>4. h \in u + 1 .. Modulus /\ h \in Int
  BY <1>3, <1>1, ModulusType
<1>5. ASSUME NEW m \in L..K-1 PROVE Sn(m) \in DOMAIN f
  <2>1. m \in Int /\ m - L \in Int /\ L + (m - L) = m
    BY <1>4, <1>1
  <2>2. Sn(m) = Sn(u + (m - L))
    BY <2>1, SnPlus
  <2>3. u + (m - L) \in u..h-1 /\ u + (m - L) \in 0..Modulus-1
    BY <1>1, <1>4, ModulusType
  <2>4. Sn(m) = u + (m - L)
    BY <2>2, <2>3, SnSmall
  <2>5. u + (m - L) \in DOMAIN f
    <3>1. CASE m = L
      BY <3>1, <1>1
    <3>2. CASE m # L
      <4>1. u + (m - L) \in u + 1 .. Modulus /\ ~ (h <= u + (m - L))
        BY <3>2, <2>3, <1>1, <1>4, ModulusType
      <4> QED BY <4>1, <1>3
    <3> QED BY <3>1, <3>2
  <2> QED BY <2>4, <2>5
<1>6. K \in Int /\ L < K
  BY <1>1, <1>4
<1>7. K <= hi
  <2>1. SUFFICES ASSUME hi < K PROVE FALSE
    BY <1>6
  <2>2. hi \in L..K-1
    BY <1>6, <2>1
  <2>3. Sn(hi) \in DOMAIN f
    BY <1>5, <2>2
  <2>4. hi - Modulus <= hi /\ hi < lo + Modulus
    BY ModulusType
  <2> QED BY <2>3, <2>4, HasIs
<1>8. NextMissing(f, Sn(L)) = Sn(K)
  <2>1. NextMissing(f, Sn(L)) = Sn(h)
    BY DEF NextMissing
  <2>2. Sn(K) = Sn(u + (h - u))
    BY <1>1, <1>4, SnPlus
  <2>3. u + (h - u) = h
    BY <1>1, <1>4
  <2> QED BY <2>1, <2>2, <2>3
<1>9. StopsAt(f, L, K)
  <2> SUFFICES ASSUME NEW m \in L..K-1 PROVE Has(f, m)
    BY DEF StopsAt
  <2>1. m \in Int /\ hi - Modulus <= m /\ m < lo + Modulus
    BY <1>6, <1>7, ModulusType
  <2> QED BY <1>5, <2>1, HasIs
<1> HIDE DEF K
<1> QED BY <1>6, <1>7, <1>8, <1>9

\* The search after t-Reordering.
LEMMA NextMissingWrappedIs ==
  ASSUME NEW f, NEW lo \in Int, NEW hi \in Int, Buffered(f, lo, hi), hi - lo < Modulus,
         NEW X \in Int, lo <= X, X <= hi
  PROVE  \E K \in Int : /\ X <= K /\ K <= hi
                        /\ NextMissingWrapped(f, Sn(X)) = Sn(K)
<1> DEFINE S == {k \in 0..Modulus : Sn(Sn(X) + k) \notin DOMAIN f}
<1> DEFINE k == MinOf(S)
<1>1. hi - X \in S
  <2>1. hi - X \in 0..Modulus /\ X + (hi - X) = hi /\ hi < lo + Modulus /\ hi - Modulus <= hi
    BY ModulusType
  <2>2. Sn(Sn(X) + (hi - X)) = Sn(hi)
    BY <2>1, SnPlus
  <2>3. Sn(hi) \notin DOMAIN f
    BY <2>1, HasIs
  <2> QED BY <2>1, <2>2, <2>3
<1>2. k \in S /\ \A y \in S : k <= y
  <2>1. S \in SUBSET Nat
    BY ModulusType
  <2> HIDE DEF S
  <2> QED BY <1>1, <2>1, MinOfIs
<1>3. k \in Nat /\ k <= hi - X
  BY <1>1, <1>2, ModulusType
<1>4. NextMissingWrapped(f, Sn(X)) = Sn(X + k)
  <2>1. NextMissingWrapped(f, Sn(X)) = Sn(Sn(X) + k)
    BY DEF NextMissingWrapped
  <2> HIDE DEF k
  <2> QED BY <1>3, <2>1, SnPlus
<1> HIDE DEF k
<1>5. X + k \in Int /\ X <= X + k /\ X + k <= hi
  BY <1>3
<1> QED BY <1>4, <1>5

\* ReassembleSnInterval takes the PDUs between two numbers.
LEMMA SnIntervalIs ==
  ASSUME NEW f, NEW lo \in Int, NEW hi \in Int, Buffered(f, lo, hi),
         NEW B \in Int, B <= lo, hi <= B + Modulus,
         NEW L \in Int, NEW K \in Int, B <= L, L <= K, K < B + Modulus
  PROVE  SnInterval(f, Sn(L), Sn(K), Sn(B)) =
           {sn \in DOMAIN f : L <= f[sn].num /\ f[sn].num < K}
<1>1. Off(Sn(L), Sn(B)) = L - B /\ Off(Sn(K), Sn(B)) = K - B
  BY OffIs, ModulusType
<1>2. ASSUME NEW sn \in DOMAIN f PROVE Off(sn, Sn(B)) = f[sn].num - B /\ f[sn].num \in Int
  <2> DEFINE n == f[sn].num
  <2>1. n \in Int /\ sn = Sn(n) /\ lo <= n /\ n < hi
    BY DEF Buffered
  <2> HIDE DEF n
  <2>2. B <= n /\ n < B + Modulus
    BY <2>1, ModulusType
  <2>3. Off(Sn(n), Sn(B)) = n - B
    BY <2>1, <2>2, OffIs
  <2> QED BY <2>1, <2>3 DEF n
<1>3. ASSUME NEW sn \in DOMAIN f
      PROVE  (Off(Sn(L), Sn(B)) <= Off(sn, Sn(B)) /\ Off(sn, Sn(B)) < Off(Sn(K), Sn(B)))
               <=> (L <= f[sn].num /\ f[sn].num < K)
  BY <1>1, <1>2
<1> QED BY <1>3 DEF SnInterval

\* Numbers a modulus apart have the same sequence number.
LEMMA SnShift ==
  ASSUME NEW n \in Int
  PROVE  Sn(n + Modulus) = Sn(n)
<1>1. PICK q \in Int : n = (Modulus * q) + Sn(n)
  BY SnType
<1> DEFINE mq == Modulus * q
<1>2. Modulus * (q + 1) = mq + Modulus * 1 /\ mq \in Int /\ q + 1 \in Int /\ Modulus * 1 = Modulus
  BY ModulusType, MultipleBound
<1>3. n + Modulus = (Modulus * (q + 1)) + Sn(n)
  <2> DEFINE mk == Modulus * (q + 1)
  <2>1. n = mq + Sn(n) /\ Sn(n) \in Int /\ mk = mq + Modulus
    BY <1>1, <1>2, SnType
  <2> HIDE DEF mk, mq
  <2>2. n + Modulus = mk + Sn(n)
    BY <1>2, <2>1, ModulusType
  <2> QED BY <2>2 DEF mk
<1>4. n + Modulus \in Int /\ Sn(n) \in 0..Modulus-1
  BY SnType, ModulusType
<1>5. (n + Modulus) % Modulus = Sn(n)
  BY <1>2, <1>3, <1>4, ModIs, ModulusType
<1> QED BY <1>5 DEF Sn

\* Whether a number at most two windows behind VR(UH) is inside the window.
LEMMA BehindIs ==
  ASSUME NEW n \in Int, NEW h \in Int, h - Modulus <= n, n < h
  PROVE  Inside(Sn(n), Sn(h)) <=> h - Window <= n
<1>1. CASE h - Window <= n
  BY <1>1, InsideIs, ModulusType
<1>2. CASE n < h - Window
  <2>1. Base(Sn(h)) = Sn(h - Window) /\ Sn(n + Modulus) = Sn(n)
    BY BaseIs, SnShift
  <2>2. n + Modulus \in Int /\ h - Window \in Int /\ h - Window <= n + Modulus
        /\ n + Modulus < h - Window + Modulus
    BY <1>2, ModulusType
  <2>3. Off(Sn(n + Modulus), Sn(h - Window)) = (n + Modulus) - (h - Window)
    <3> DEFINE a == n + Modulus
    <3> DEFINE b == h - Window
    <3>1. a \in Int /\ b \in Int /\ b <= a /\ a < b + Modulus
      BY <2>2
    <3> HIDE DEF a, b
    <3>2. Off(Sn(a), Sn(b)) = a - b
      BY <3>1, OffIs
    <3> QED BY <3>2 DEF a, b
  <2>4. (n + Modulus) - (h - Window) >= Window /\ n + Modulus - (h - Window) \in Int
    BY <2>2, ModulusType
  <2>5. Off(Sn(n), Base(Sn(h))) = (n + Modulus) - (h - Window)
    BY <2>1, <2>3
  <2>6. ~ Inside(Sn(n), Sn(h))
    BY <2>4, <2>5, ModulusType DEF Inside
  <2>7. ~ (h - Window <= n)
    BY <1>2, ModulusType
  <2> QED BY <2>6, <2>7
<1> QED BY <1>1, <1>2, ModulusType

\* The PDUs of a buffer before a number.
Below(f, k) == {sn \in DOMAIN f : f[sn].num < k}

\* Where the numbers have not wrapped, or none of the PDUs has left the window, the walk of
\* ReassembleOutsideWindow finds those that have.
LEMMA OutsideIs ==
  ASSUME NEW f, NEW lo \in Int, NEW h \in Int, Buffered(f, lo, h), h - Modulus <= lo,
         \/ \A sn \in DOMAIN f : h - Window <= f[sn].num
         \/ \A sn \in DOMAIN f : f[sn].num \in 0..Modulus-1
  PROVE  Outside(f, Sn(h)) = Below(f, h - Window)
<1>1. ASSUME NEW sn \in DOMAIN f
      PROVE  f[sn].num \in Int /\ (Inside(sn, Sn(h)) <=> h - Window <= f[sn].num)
  <2> DEFINE n == f[sn].num
  <2>1. n \in Int /\ sn = Sn(n) /\ lo <= n /\ n < h
    BY DEF Buffered
  <2> HIDE DEF n
  <2>2. h - Modulus <= n
    BY <2>1, ModulusType
  <2>3. Inside(Sn(n), Sn(h)) <=> h - Window <= n
    BY <2>1, <2>2, BehindIs
  <2> QED BY <2>1, <2>3 DEF n
<1>2. ASSUME NEW sn \in DOMAIN f PROVE sn \in Int
  <2>1. f[sn].num \in Int /\ sn = Sn(f[sn].num)
    BY DEF Buffered
  <2>2. Sn(f[sn].num) \in Int
    BY <2>1, SnType, ModulusType
  <2> QED BY <2>1, <2>2
<1>3. CASE \A sn \in DOMAIN f : h - Window <= f[sn].num
  <2>1. ASSUME NEW sn \in DOMAIN f PROVE Inside(sn, Sn(h)) /\ ~ (f[sn].num < h - Window) /\ sn <= sn
    BY <1>1, <1>2, <1>3, ModulusType
  <2> QED BY <2>1 DEF Outside, Below
<1>4. CASE \A sn \in DOMAIN f : f[sn].num \in 0..Modulus-1
  <2>1. ASSUME NEW sn \in DOMAIN f PROVE f[sn].num = sn
    BY <1>4, SnSmall DEF Buffered
  <2>2. ASSUME NEW sn \in DOMAIN f
        PROVE  (\A low \in DOMAIN f : low <= sn => ~Inside(low, Sn(h))) <=> f[sn].num < h - Window
    <3>1. sn <= sn /\ (Inside(sn, Sn(h)) <=> h - Window <= sn) /\ f[sn].num = sn /\ sn \in Int
      BY <1>1, <1>2, <2>1
    <3>2. ASSUME NEW low \in DOMAIN f, low <= sn, sn < h - Window PROVE ~Inside(low, Sn(h))
      <4>1. low \in Int /\ (Inside(low, Sn(h)) <=> h - Window <= low)
        BY <1>1, <1>2, <2>1
      <4> QED BY <3>1, <3>2, <4>1, ModulusType
    <3> QED BY <3>1, <3>2, ModulusType
  <2> QED BY <2>2 DEF Outside, Below
<1> QED BY <1>3, <1>4

\* The timer stops when what it waited for is before VR(UR).
LEMMA StopsTimerIs ==
  ASSUME NEW X \in Int, NEW U \in Int, NEW H \in Int,
         H - Modulus < X, X <= H, H - Window <= U, U <= H
  PROVE  StopsTimer(Sn(X), Sn(U), Sn(H)) <=> X <= U
<1> DEFINE B == H - Window
<1>1. B \in Int /\ B = H - Window
  BY ModulusType
<1>2. Base(Sn(H)) = Sn(B)
  BY BaseIs
<1> HIDE DEF B
<1>3. Off(Sn(U), Sn(B)) = U - B
  <2>1. B <= U /\ U < B + Modulus
    BY <1>1, ModulusType
  <2> QED BY <1>1, <2>1, OffIs
<1>4. CASE B <= X
  <2>1. Off(Sn(X), Sn(B)) = X - B
    <3>1. B <= X /\ X < B + Modulus
      BY <1>1, <1>4, ModulusType
    <3> QED BY <1>1, <3>1, OffIs
  <2>2. (X - B <= U - B) <=> X <= U
    BY <1>1
  <2>3. X # H => Inside(Sn(X), Sn(H))
    <3>1. X # H => H - Modulus <= X /\ X < H /\ H - Window <= X
      BY <1>1, <1>4, ModulusType
    <3> QED BY <3>1, BehindIs
  <2> QED BY <1>2, <1>3, <2>1, <2>2, <2>3 DEF StopsTimer
<1>5. CASE X < B
  <2>1. X < H /\ X <= U /\ ~ (H - Window <= X) /\ H - Modulus <= X
    BY <1>1, <1>5, ModulusType
  <2>2. ~ Inside(Sn(X), Sn(H))
    BY <2>1, BehindIs
  <2>3. Sn(X) # Sn(H)
    <3>1. X # H /\ H - Modulus < X /\ X < H + Modulus
      BY <2>1, ModulusType
    <3> QED BY <3>1, SnUnique
  <2> QED BY <2>1, <2>2, <2>3 DEF StopsTimer
<1> QED BY <1>1, <1>4, <1>5

\* The buffer with a PDU placed in it.
Filed(f, p) == [sn \in DOMAIN f \union {p.sn} |-> IF sn = p.sn THEN p ELSE f[sn]]

\* VR(UH) after a PDU.
Advanced(n, H) == IF n < H THEN H ELSE n + 1

\* The PDU takes no other one's place.
LEMMA FiledIs ==
  ASSUME NEW f, NEW U \in Int, NEW H \in Int, Buffered(f, U, H), H - Window <= U, U <= H,
         NEW p, p.num \in Int, p.sn = Sn(p.num), U <= p.num, p.num < H + Window
  PROVE  /\ Buffered(Filed(f, p), U, Advanced(p.num, H))
         /\ DOMAIN Filed(f, p) = DOMAIN f \union {p.sn}
         /\ Filed(f, p)[p.sn] = p
         /\ \A sn \in DOMAIN f : /\ sn \in DOMAIN Filed(f, p)
                                 /\ Filed(f, p)[sn].num = f[sn].num
                                 /\ Filed(f, p)[sn] \in {f[sn], p}
<1> DEFINE n == p.num
<1> DEFINE b == Filed(f, p)
<1>1. n \in Int /\ p.sn = Sn(n) /\ U <= n /\ n < H + Window
  OBVIOUS
<1>2. DOMAIN b = DOMAIN f \union {p.sn} /\ b[p.sn] = p /\ \A sn \in DOMAIN f : sn # p.sn => b[sn] = f[sn]
  BY DEF Filed
<1>3. p.sn \in DOMAIN f => f[p.sn].num = n
  <2>1. H - Modulus <= n /\ n < U + Modulus
    BY <1>1, ModulusType
  <2> HIDE DEF n
  <2>2. Sn(n) \in DOMAIN f => Has(f, n)
    BY <1>1, <2>1, HasIs
  <2> QED BY <1>1, <2>2 DEF Has
<1>4. n < Advanced(n, H) /\ H <= Advanced(n, H) /\ Advanced(n, H) \in Int
  BY <1>1 DEF Advanced
<1>5. Buffered(b, U, Advanced(n, H))
  <2> SUFFICES ASSUME NEW sn \in DOMAIN b
               PROVE  /\ b[sn].sn = sn /\ b[sn].num \in Int /\ sn = Sn(b[sn].num)
                      /\ U <= b[sn].num /\ b[sn].num < Advanced(n, H)
    BY DEF Buffered
  <2>1. CASE sn = p.sn
    <3>1. b[sn] = p
      BY <1>2, <2>1
    <3> QED BY <1>1, <1>4, <2>1, <3>1
  <2>2. CASE sn # p.sn
    <3>1. b[sn] = f[sn] /\ sn \in DOMAIN f
      BY <1>2, <2>2
    <3>2. /\ f[sn].sn = sn /\ f[sn].num \in Int /\ sn = Sn(f[sn].num)
          /\ U <= f[sn].num /\ f[sn].num < H
      BY <3>1 DEF Buffered
    <3> HIDE DEF b, n
    <3> QED BY <1>4, <3>1, <3>2
  <2> QED BY <2>1, <2>2
<1>6. ASSUME NEW sn \in DOMAIN f
      PROVE  sn \in DOMAIN b /\ b[sn].num = f[sn].num /\ b[sn] \in {f[sn], p}
  BY <1>2, <1>3
<1> QED BY <1>2, <1>5, <1>6

\* A buffer without the PDUs before a number.
From(f, k) == Without(f, Below(f, k))

\* The others stay as they are.
LEMMA FromIs ==
  ASSUME NEW f, NEW lo \in Int, NEW hi \in Int, Buffered(f, lo, hi), NEW k \in Int
  PROVE  /\ DOMAIN From(f, k) \subseteq DOMAIN f
         /\ \A sn \in DOMAIN f : sn \in DOMAIN From(f, k) <=> k <= f[sn].num
         /\ \A sn \in DOMAIN From(f, k) : From(f, k)[sn] = f[sn]
         /\ Buffered(From(f, k), k, hi)
         /\ k <= lo => Buffered(From(f, k), lo, hi)
<1>1. \A sn \in DOMAIN f : /\ f[sn].num \in Int /\ lo <= f[sn].num /\ f[sn].num < hi
                           /\ f[sn].sn = sn /\ sn = Sn(f[sn].num)
  BY DEF Buffered
<1>2. /\ DOMAIN From(f, k) \subseteq DOMAIN f
      /\ \A sn \in DOMAIN f : sn \in DOMAIN From(f, k) <=> k <= f[sn].num
  <2>1. DOMAIN From(f, k) = DOMAIN f \ {sn \in DOMAIN f : f[sn].num < k}
    BY DEF From, Without, Below
  <2>2. \A sn \in DOMAIN f : ~ (f[sn].num < k) <=> k <= f[sn].num
    BY <1>1
  <2> QED BY <2>1, <2>2
<1>3. \A sn \in DOMAIN From(f, k) : From(f, k)[sn] = f[sn]
  BY DEF From, Without
<1>4. Buffered(From(f, k), k, hi)
  BY <1>1, <1>2, <1>3 DEF Buffered
<1>5. k <= lo => Buffered(From(f, k), lo, hi)
  BY <1>1, <1>2, <1>3 DEF Buffered
<1> QED BY <1>2, <1>3, <1>4, <1>5

------------------------------------------------------------------------------
(* The window *)

\* VR(UR), VR(UX) and VR(UH) are the sequence numbers of U, X and H; the timer runs exactly
\* while there is a number to wait for, and the buffer lies between U and H.
WindowInv(U, X, H) ==
  /\ vrUr = Sn(U) /\ vrUx = Sn(X) /\ vrUh = Sn(H)
  /\ H - Window <= U /\ U <= H
  /\ timer \in BOOLEAN
  /\ timer => U < X /\ X <= H
  /\ ~timer => U = H
  /\ Buffered(rxBuffer, U, H)

\* The PDUs that are in the buffer when the window has moved up to h.
Kept(p, h) == From(Filed(rxBuffer, p), h - Window)

\* What has come of the window when the reassembly has been called for the PDUs that left
\* it and for those in order, and who set t-Reordering.
Moved(p, U, X, H, L, U2, X2, H2) ==
  /\ vrUr' = Sn(U2) /\ vrUx' = Sn(X2) /\ vrUh' = Sn(H2)
  /\ U <= L /\ H2 - Window <= L /\ L <= U2 /\ U2 <= H2
  /\ timer' \in BOOLEAN
  /\ timer' => U2 < X2 /\ X2 <= H2
  /\ ~timer' => U2 = H2
  /\ timer' => (timer /\ X2 = X) \/ (X2 = H2 /\ (timer => X <= U2))
  /\ Buffered(Kept(p, H2), L, H2)
  /\ rxBuffer' = From(Kept(p, H2), U2)
  /\ reasm' = ReassembleAll(
                ReassembleAll(reasm, Filed(rxBuffer, p), Below(Filed(rxBuffer, p), H2 - Window), 0),
                Kept(p, H2), Below(Kept(p, H2), U2), Sn(L))

\* The walk of ReassembleOutsideWindow is right: see OutsideIs.
WalkIsRight(p, h) ==
  \/ \A sn \in DOMAIN Filed(rxBuffer, p) : h - Window <= Filed(rxBuffer, p)[sn].num
  \/ \A sn \in DOMAIN Filed(rxBuffer, p) : Filed(rxBuffer, p)[sn].num \in 0..Modulus-1

\* The number after another.
LEMMA SnNext == \A n \in Int : Sn(Sn(n) + 1) = Sn(n + 1)
<1> SUFFICES ASSUME NEW n \in Int PROVE Sn(Sn(n) + 1) = Sn(n + 1)
  OBVIOUS
<1>1. 1 \in Int
  OBVIOUS
<1> QED BY <1>1, SnPlus

\* A PDU that is not discarded is not before VR(UR).
LEMMA NotDiscarded ==
  ASSUME NEW U \in Int, NEW X \in Int, NEW H \in Int, WindowInv(U, X, H),
         NEW n \in Int, H - Window <= n, n < H + Window, ~ Discarded(Sn(n))
  PROVE  U <= n
<1> DEFINE B == H - Window
<1>1. B \in Int /\ B = H - Window
  BY ModulusType
<1>2. Base(vrUh) = Sn(B) /\ vrUr = Sn(U)
  BY BaseIs DEF WindowInv
<1>3. B <= U /\ U < B + Modulus /\ B <= n /\ n < B + Modulus
  BY <1>1, ModulusType DEF WindowInv
<1> HIDE DEF B
<1>4. Off(Sn(U), Sn(B)) = U - B /\ Off(Sn(n), Sn(B)) = n - B
  BY <1>1, <1>3, OffIs
<1>5. ~ (Off(Sn(n), Sn(B)) < Off(Sn(U), Sn(B)))
  BY <1>2 DEF Discarded
<1> QED BY <1>1, <1>4, <1>5

\* DoReceivePdu, its sequence numbers told as numbers.
LEMMA PlacedIs ==
  ASSUME NEW U \in Int, NEW X \in Int, NEW H \in Int, WindowInv(U, X, H),
         NEW p, p.num \in Int, p.sn = Sn(p.num), U <= p.num, p.num < H + Window,
         WalkIsRight(p, Advanced(p.num, H)), Placed(p)
  PROVE  \E L, U2, X2 \in Int : Moved(p, U, X, H, L, U2, X2, Advanced(p.num, H))
<1> DEFINE n == p.num
<1> DEFINE H2 == Advanced(n, H)
<1> DEFINE buffer == Filed(rxBuffer, p)
<1> DEFINE moves == ~Inside(p.sn, vrUh)
<1> DEFINE uh == IF moves THEN Sn(p.sn + 1) ELSE vrUh
<1> DEFINE old == IF moves THEN Outside(buffer, uh) ELSE {}
<1> DEFINE left == Without(buffer, old)
<1> DEFINE pulled == moves /\ ~Inside(vrUr, uh)
<1> DEFINE low == IF pulled THEN Base(uh) ELSE vrUr
<1> DEFINE ready == low \in DOMAIN left
<1> DEFINE high == IF ready THEN NextMissing(left, low) ELSE low
<1> DEFINE base == Base(IF pulled THEN uh ELSE vrUh)
<1> DEFINE run == SnInterval(left, low, high, base)
<1> DEFINE running == timer /\ ~StopsTimer(vrUx, high, uh)
<1> DEFINE all == ReassembleAll(ReassembleAll(reasm, buffer, old, 0), left, run, low)
<1>1. /\ vrUh' = uh /\ vrUr' = high /\ rxBuffer' = Without(left, run)
      /\ reasm' = all /\ RearmTimer(running, high, uh)
  BY DEF Placed, Filed
<1>2. /\ vrUr = Sn(U) /\ vrUx = Sn(X) /\ vrUh = Sn(H)
      /\ H - Window <= U /\ U <= H /\ timer \in BOOLEAN
      /\ timer => U < X /\ X <= H
      /\ ~timer => U = H
      /\ Buffered(rxBuffer, U, H)
  BY DEF WindowInv
<1>3. n \in Int /\ p.sn = Sn(n) /\ U <= n /\ n < H + Window
  OBVIOUS
<1>4. H2 \in Int /\ H <= H2 /\ n < H2 /\ H2 <= H + Window /\ (n < H => H2 = H) /\ (~ (n < H) => H2 = n + 1)
  BY <1>2, <1>3, ModulusType DEF Advanced
<1>5. /\ Buffered(buffer, U, H2)
      /\ DOMAIN buffer = DOMAIN rxBuffer \union {p.sn} /\ buffer[p.sn] = p
      /\ \A sn \in DOMAIN rxBuffer : buffer[sn].num = rxBuffer[sn].num
  BY <1>2, <1>3, FiledIs
<1>6. moves <=> ~ (n < H)
  <2>1. H - Window <= n
    BY <1>2, <1>3, ModulusType
  <2> HIDE DEF n
  <2> QED BY <1>2, <1>3, <2>1, InsideIs
<1>7. uh = Sn(H2)
  <2>1. CASE n < H
    BY <1>2, <1>4, <1>6, <2>1
  <2>2. CASE ~ (n < H)
    <3>1. Sn(Sn(n) + 1) = Sn(n + 1)
      BY <1>3, SnNext
    <3> QED BY <1>3, <1>4, <1>6, <2>2, <3>1
  <2> QED BY <2>1, <2>2
<1>8. old = Below(buffer, H2 - Window)
  <2>1. CASE n < H
    <3>1. \A sn \in DOMAIN buffer : buffer[sn].num \in Int /\ U <= buffer[sn].num
      BY <1>5 DEF Buffered
    <3>2. \A sn \in DOMAIN buffer : ~ (buffer[sn].num < H2 - Window)
      <4> HIDE DEF buffer, H2, n
      <4> QED BY <1>2, <1>4, <2>1, <3>1, ModulusType
    <3> QED BY <1>6, <2>1, <3>2 DEF Below
  <2>2. CASE ~ (n < H)
    <3>1. H2 - Modulus <= U
      BY <1>2, <1>4, ModulusType
    <3>2. \/ \A sn \in DOMAIN buffer : H2 - Window <= buffer[sn].num
          \/ \A sn \in DOMAIN buffer : buffer[sn].num \in 0..Modulus-1
      BY DEF WalkIsRight
    <3> HIDE DEF buffer, H2, n
    <3>3. Outside(buffer, Sn(H2)) = Below(buffer, H2 - Window)
      BY <1>4, <1>5, <3>1, <3>2, OutsideIs
    <3> QED BY <1>6, <1>7, <2>2, <3>3
  <2> QED BY <2>1, <2>2
<1>9. left = Kept(p, H2)
  BY <1>8 DEF Kept, From
<1>10. PICK L \in Int : /\ low = Sn(L) /\ U <= L /\ H2 - Window <= L /\ L <= H2
                        /\ (pulled /\ L = H2 - Window /\ U < L) \/ (~pulled /\ L = U)
  <2>1. CASE ~ (n < H) /\ U < H2 - Window
    <3>1. ~ Inside(Sn(U), Sn(H2))
      <4>1. H2 - Modulus <= U /\ U < H2 /\ ~ (H2 - Window <= U)
        BY <1>2, <1>4, <2>1, ModulusType
      <4> HIDE DEF H2, n
      <4> QED BY <1>4, <4>1, BehindIs
    <3>2. pulled
      BY <1>2, <1>6, <1>7, <2>1, <3>1
    <3>3. Base(Sn(H2)) = Sn(H2 - Window)
      BY <1>4, BaseIs
    <3>4. low = Sn(H2 - Window)
      BY <1>7, <3>2, <3>3
    <3>5. H2 - Window \in Int /\ H2 - Window <= H2
      BY <1>4, ModulusType
    <3> HIDE DEF pulled, low, H2, n
    <3> QED BY <2>1, <3>2, <3>4, <3>5, ModulusType
  <2>2. CASE n < H
    <3>1. ~pulled
      BY <1>6, <2>2
    <3> HIDE DEF pulled
    <3>2. low = Sn(U)
      BY <1>2, <3>1
    <3> HIDE DEF low, H2, n
    <3> QED BY <1>2, <1>4, <2>2, <3>1, <3>2
  <2>3. CASE ~ (n < H) /\ ~ (U < H2 - Window)
    <3>1. Inside(Sn(U), Sn(H2))
      <4>1. H2 - Modulus <= U /\ U < H2 /\ H2 - Window <= U
        BY <1>2, <1>4, <2>3, ModulusType
      <4> HIDE DEF H2, n
      <4> QED BY <1>4, <4>1, BehindIs
    <3>2. ~pulled
      BY <1>2, <1>7, <3>1
    <3> HIDE DEF pulled
    <3>3. low = Sn(U)
      BY <1>2, <3>2
    <3> HIDE DEF low, H2, n
    <3> QED BY <1>2, <1>4, <2>3, <3>2, <3>3, ModulusType
  <2> QED BY <2>1, <2>2, <2>3
<1>11. Buffered(left, L, H2)
  <2>2. CASE pulled /\ L = H2 - Window
    <3>1. Buffered(From(buffer, H2 - Window), H2 - Window, H2)
      <4> HIDE DEF H2, buffer
      <4>1. H2 - Window \in Int
        BY <1>4, ModulusType
      <4> QED BY <1>4, <1>5, <4>1, FromIs
    <3> QED BY <1>9, <2>2, <3>1 DEF Kept
  <2>3. CASE L = U
    <3>1. Buffered(From(buffer, H2 - Window), U, H2)
      <4> HIDE DEF H2, buffer
      <4>1. H2 - Window \in Int /\ H2 - Window <= U
        BY <1>4, <1>10, <2>3, ModulusType
      <4> QED BY <1>4, <1>5, <4>1, FromIs
    <3> QED BY <1>9, <2>3, <3>1 DEF Kept
  <2> QED BY <1>10, <2>2, <2>3
<1>12. PICK U2 \in Int : /\ high = Sn(U2) /\ L <= U2 /\ U2 <= H2 /\ StopsAt(left, L, U2)
  <2>1. CASE ready
    <3>1. Sn(L) \in DOMAIN left
      BY <1>10, <2>1
    <3>2. high = NextMissing(left, Sn(L))
      BY <1>10, <2>1
    <3> HIDE DEF high, left, H2, n
    <3>3. H2 - Modulus <= L /\ L < L + Modulus /\ H2 - L < Modulus
      BY <1>4, <1>10, ModulusType
    <3>4. L < H2
      BY <1>4, <1>11, <3>1, <3>3, HasIs
    <3>5. \E K \in Int : /\ L < K /\ K <= H2 /\ NextMissing(left, Sn(L)) = Sn(K)
                         /\ StopsAt(left, L, K)
      BY <1>4, <1>11, <3>1, <3>3, <3>4, NextMissingIs
    <3> QED BY <3>2, <3>5
  <2>2. CASE ~ready
    <3>1. high = Sn(L)
      BY <1>10, <2>2
    <3>2. StopsAt(left, L, L)
      BY DEF StopsAt
    <3> HIDE DEF high, left, H2, n
    <3> QED BY <1>4, <1>10, <3>1, <3>2
  <2> QED BY <2>1, <2>2
<1>13. U2 < H + Window
  <2>1. SUFFICES ASSUME ~ (U2 < H + Window) PROVE FALSE
    OBVIOUS
  <2>2. U2 = H + Window /\ H2 = H + Window /\ ~ (n < H) /\ n = (H + Window) - 1
    <3> HIDE DEF H2, n
    <3> QED BY <1>2, <1>3, <1>4, <1>12, <2>1, ModulusType
  <2>3. L <= H /\ H \in L..U2-1
    <3> HIDE DEF H2, n
    <3>1. H2 - Window = H
      BY <2>2, ModulusType
    <3>2. L <= H
      BY <1>2, <1>10, <3>1
    <3> QED BY <2>2, <3>2, ModulusType
  <2>4. Has(left, H)
    BY <1>12, <2>3 DEF StopsAt
  <2>5. Sn(H) \in DOMAIN left /\ left[Sn(H)] = buffer[Sn(H)]
    BY <2>4 DEF Has, Without
  <2>6. Sn(H) \in DOMAIN buffer
    BY <2>5 DEF Without
  <2>7. buffer[Sn(H)].num = H
    BY <2>4, <2>5 DEF Has
  <2>8. CASE Sn(H) \in DOMAIN rxBuffer
    <3>1. rxBuffer[Sn(H)].num = H
      BY <1>5, <2>7, <2>8
    <3>2. rxBuffer[Sn(H)].num < H
      BY <1>2, <2>8 DEF Buffered
    <3> QED BY <3>1, <3>2
  <2>9. CASE Sn(H) = p.sn
    <3>1. n = H
      BY <1>5, <2>7, <2>9
    <3> HIDE DEF n
    <3> QED BY <2>2, <3>1, ModulusType
  <2> QED BY <1>5, <2>6, <2>8, <2>9
<1>14. run = Below(Kept(p, H2), U2)
  <2> DEFINE B == IF pulled THEN H2 - Window ELSE H - Window
  <2>1. B \in Int /\ base = Sn(B)
    <3>1. CASE pulled
      <4>1. Base(Sn(H2)) = Sn(H2 - Window) /\ H2 - Window \in Int
        BY <1>4, BaseIs, ModulusType
      <4> QED BY <1>7, <3>1, <4>1
    <3>2. CASE ~pulled
      <4>1. Base(Sn(H)) = Sn(H - Window) /\ H - Window \in Int
        BY BaseIs, ModulusType
      <4> QED BY <1>2, <3>2, <4>1
    <3> QED BY <3>1, <3>2
  <2>2. B <= L /\ H2 <= B + Modulus /\ U2 < B + Modulus
    <3>1. (pulled /\ B = H2 - Window) \/ (~pulled /\ B = H - Window)
      OBVIOUS
    <3> HIDE DEF B, pulled, H2, n
    <3>2. CASE pulled
      BY <1>4, <1>10, <1>12, <3>1, <3>2, ModulusType
    <3>3. CASE ~pulled
      BY <1>2, <1>4, <1>10, <1>12, <1>13, <3>1, <3>3, ModulusType
    <3> QED BY <3>2, <3>3
  <2> HIDE DEF B, H2, n, left, base, low, high
  <2>3. SnInterval(left, Sn(L), Sn(U2), Sn(B)) =
          {sn \in DOMAIN left : L <= left[sn].num /\ left[sn].num < U2}
    BY <1>4, <1>11, <1>12, <2>1, <2>2, SnIntervalIs
  <2>4. \A sn \in DOMAIN left : L <= left[sn].num
    BY <1>11 DEF Buffered
  <2>5. run = {sn \in DOMAIN left : left[sn].num < U2}
    BY <1>10, <1>12, <2>1, <2>3, <2>4
  <2> QED BY <1>9, <2>5 DEF Below
<1>15. running <=> timer /\ U2 < X
  <2>1. CASE timer
    <3> HIDE DEF high, H2, n, uh
    <3>1. H2 - Modulus < X /\ X <= H2 /\ H2 - Window <= U2 /\ U2 <= H2
      BY <1>2, <1>4, <1>10, <1>12, <2>1, ModulusType
    <3>2. StopsTimer(Sn(X), Sn(U2), Sn(H2)) <=> X <= U2
      BY <1>4, <3>1, StopsTimerIs
    <3>3. (~ (X <= U2)) <=> U2 < X
      OBVIOUS
    <3> QED BY <1>2, <1>7, <1>12, <2>1, <3>2, <3>3
  <2>2. CASE ~timer
    BY <2>2
  <2> QED BY <2>1, <2>2
<1>16. Off(high, Base(uh)) < Window <=> U2 < H2
  <2> HIDE DEF high, H2, n, uh
  <2> DEFINE B == H2 - Window
  <2>1. B \in Int /\ Base(Sn(H2)) = Sn(B) /\ B <= U2 /\ U2 < B + Modulus
    BY <1>4, <1>10, <1>12, BaseIs, ModulusType
  <2>2. U2 - B < Window <=> U2 < H2
    BY <1>4, ModulusType
  <2> HIDE DEF B
  <2>3. Off(Sn(U2), Sn(B)) = U2 - B
    BY <2>1, OffIs
  <2> QED BY <1>7, <1>12, <2>1, <2>2, <2>3
<1> DEFINE start == ~running /\ Off(high, Base(uh)) < Window
<1>17. timer' = (running \/ start) /\ vrUx' = IF start THEN uh ELSE vrUx
  BY <1>1 DEF RearmTimer
<1>18. start <=> ~ (timer /\ U2 < X) /\ U2 < H2
  BY <1>15, <1>16
<1> DEFINE X2 == IF start THEN H2 ELSE X
<1>19. X2 \in Int /\ vrUx' = Sn(X2)
  BY <1>2, <1>4, <1>7, <1>17
<1>20. timer' \in BOOLEAN /\ (timer' <=> (timer /\ U2 < X) \/ U2 < H2)
  <2> HIDE DEF running, start
  <2>1. timer' \in BOOLEAN
    BY <1>15, <1>17, <1>18
  <2>2. timer' <=> (running \/ start)
    BY <1>17
  <2> QED BY <1>15, <1>18, <2>1, <2>2
<1>21. timer' => U2 < X2 /\ X2 <= H2 /\ ((timer /\ X2 = X) \/ (X2 = H2 /\ (timer => X <= U2)))
  <2> SUFFICES ASSUME timer' PROVE U2 < X2 /\ X2 <= H2 /\ ((timer /\ X2 = X) \/ (X2 = H2 /\ (timer => X <= U2)))
    OBVIOUS
  <2>1. CASE timer /\ U2 < X
    <3>1. X2 = X
      BY <1>18, <2>1
    <3> HIDE DEF X2, H2, n
    <3> QED BY <1>2, <1>4, <2>1, <3>1
  <2>2. CASE ~ (timer /\ U2 < X)
    <3>1. U2 < H2
      BY <1>20, <2>2
    <3>2. X2 = H2
      BY <1>18, <2>2, <3>1
    <3> HIDE DEF X2, H2, n
    <3>3. timer => X <= U2
      BY <2>2
    <3> QED BY <1>4, <3>1, <3>2, <3>3
  <2> QED BY <2>1, <2>2
<1>22. ~timer' => U2 = H2
  <2> HIDE DEF H2, n
  <2> QED BY <1>4, <1>12, <1>20
<1>23. Moved(p, U, X, H, L, U2, X2, H2)
  <2>1. vrUr' = Sn(U2) /\ vrUh' = Sn(H2)
    BY <1>1, <1>7, <1>12
  <2>2. rxBuffer' = From(Kept(p, H2), U2)
    BY <1>1, <1>9, <1>14 DEF From
  <2>3. Buffered(Kept(p, H2), L, H2)
    BY <1>9, <1>11
  <2>4. reasm' = ReassembleAll(
                ReassembleAll(reasm, buffer, Below(buffer, H2 - Window), 0),
                Kept(p, H2), Below(Kept(p, H2), U2), Sn(L))
    BY <1>1, <1>8, <1>9, <1>10, <1>14
  <2> HIDE DEF X2, H2, left, running, start, run, high, uh
  <2> QED BY <1>10, <1>12, <1>19, <1>20, <1>21, <1>22, <2>1, <2>2, <2>3, <2>4 DEF Moved
<1> HIDE DEF X2
<1> QED BY <1>19, <1>23

\* What has come of the window when t-Reordering has expired.
Expired(U, X, H, U2, X2) ==
  /\ vrUr' = Sn(U2) /\ vrUx' = Sn(X2) /\ vrUh' = vrUh
  /\ X <= U2 /\ U2 <= H
  /\ timer' \in BOOLEAN
  /\ timer' => U2 < X2 /\ X2 = H
  /\ ~timer' => U2 = H
  /\ rxBuffer' = From(rxBuffer, U2)
  /\ reasm' = ReassembleAll(reasm, rxBuffer, Below(rxBuffer, U2), Sn(U))

\* The expiry of t-Reordering, its sequence numbers told as numbers.
LEMMA ExpiredIs ==
  ASSUME NEW U \in Int, NEW X \in Int, NEW H \in Int, WindowInv(U, X, H),
         ExpireReorderingTimer
  PROVE  \E U2, X2 \in Int : Expired(U, X, H, U2, X2)
<1> DEFINE base == Base(vrUh)
<1> DEFINE high == NextMissingWrapped(rxBuffer, vrUx)
<1> DEFINE run == SnInterval(rxBuffer, vrUr, high, base)
<1>1. /\ timer /\ vrUr' = high /\ rxBuffer' = Without(rxBuffer, run)
      /\ reasm' = ReassembleAll(reasm, rxBuffer, run, vrUr)
      /\ RearmTimer(FALSE, high, vrUh) /\ vrUh' = vrUh
  BY DEF ExpireReorderingTimer
<1>2. /\ vrUr = Sn(U) /\ vrUx = Sn(X) /\ vrUh = Sn(H)
      /\ H - Window <= U /\ U <= H /\ U < X /\ X <= H
      /\ Buffered(rxBuffer, U, H)
  BY <1>1 DEF WindowInv
<1> DEFINE B == H - Window
<1>3. B \in Int /\ base = Sn(B) /\ B <= U /\ H < B + Modulus /\ H - U < Modulus /\ B = H - Window
  BY <1>2, BaseIs, ModulusType
<1>4. PICK U2 \in Int : high = Sn(U2) /\ X <= U2 /\ U2 <= H
  <2>1. U <= X
    BY <1>2
  <2>2. \E K \in Int : /\ X <= K /\ K <= H /\ NextMissingWrapped(rxBuffer, Sn(X)) = Sn(K)
    BY <1>2, <1>3, <2>1, NextMissingWrappedIs
  <2> QED BY <1>2, <2>2
<1> HIDE DEF B, high, base
<1>5. run = Below(rxBuffer, U2)
  <2>1. B <= U /\ U <= U2 /\ U2 < B + Modulus /\ H <= B + Modulus
    BY <1>2, <1>3, <1>4, ModulusType
  <2>2. SnInterval(rxBuffer, Sn(U), Sn(U2), Sn(B)) =
          {sn \in DOMAIN rxBuffer : U <= rxBuffer[sn].num /\ rxBuffer[sn].num < U2}
    BY <1>2, <1>3, <2>1, SnIntervalIs
  <2>3. \A sn \in DOMAIN rxBuffer : U <= rxBuffer[sn].num
    BY <1>2 DEF Buffered
  <2> QED BY <1>2, <1>3, <1>4, <2>2, <2>3 DEF Below
<1>6. Off(high, base) < Window <=> U2 < H
  <2>1. B <= U2 /\ U2 < B + Modulus /\ (U2 - B < Window <=> U2 < H)
    BY <1>2, <1>3, <1>4, ModulusType
  <2>2. Off(Sn(U2), Sn(B)) = U2 - B
    BY <1>3, <2>1, OffIs
  <2> QED BY <1>3, <1>4, <2>1, <2>2
<1>7. /\ timer' \in BOOLEAN /\ (timer' <=> U2 < H)
      /\ vrUx' = IF U2 < H THEN Sn(H) ELSE Sn(X)
  BY <1>1, <1>2, <1>6 DEF RearmTimer, base
<1> DEFINE X2 == IF U2 < H THEN H ELSE X
<1>8. X2 \in Int /\ vrUx' = Sn(X2) /\ (timer' => U2 < X2 /\ X2 = H) /\ (~timer' => U2 = H)
  BY <1>4, <1>7
<1>9. rxBuffer' = From(rxBuffer, U2)
  BY <1>1, <1>5 DEF From
<1> HIDE DEF X2, run
<1>10. Expired(U, X, H, U2, X2)
  BY <1>1, <1>2, <1>4, <1>5, <1>7, <1>8, <1>9 DEF Expired
<1> QED BY <1>8, <1>10

------------------------------------------------------------------------------
(* The stream of parts *)

\* SduEnd adds up the parts.
LEMMA SduEndRuns == RunsOver(SduEnd, 0, Parts, NumSdu)
<1> DEFINE IsSum(h) == h = [d \in 0..NumSdu |-> IF d = 0 THEN 0 ELSE h[d-1] + Parts[d]]
<1>1. NumSdu \in Nat /\ (\A i \in 1..NumSdu : Parts[i] \in Int) /\ 0 \in Int
  BY UmAssumption
<1>2. PICK f : RunsOver(f, 0, Parts, NumSdu)
  BY <1>1, RunningSumExists
<1>3. IsSum(f)
  BY <1>2 DEF RunsOver
<1>4. SduEnd = CHOOSE h : IsSum(h)
  BY DEF SduEnd
<1>5. IsSum(SduEnd)
  <2> HIDE DEF IsSum
  <2> QED BY <1>3, <1>4
<1>6. \A i \in 0..NumSdu : SduEnd[i] = IF i = 0 THEN 0 ELSE SduEnd[i-1] + Parts[i]
  <2> SUFFICES ASSUME NEW i \in 0..NumSdu
               PROVE  SduEnd[i] = IF i = 0 THEN 0 ELSE SduEnd[i-1] + Parts[i]
    OBVIOUS
  <2> QED BY <1>5
<1>7. PICK R : SduEnd \in [0..NumSdu -> R]
  <2>1. SduEnd \in [0..NumSdu -> {SduEnd[i] : i \in 0..NumSdu}]
    BY <1>5
  <2> QED BY <2>1
<1> QED BY <1>1, <1>6, <1>7, RunningSumRecursion

\* Where SDUs end: each adds at least one part.
LEMMA SduEndIs ==
  /\ NumSdu \in Nat /\ SduEnd[0] = 0
  /\ \A d \in 0..NumSdu : SduEnd[d] \in Int
  /\ \A d \in 1..NumSdu : /\ Parts[d] \in Nat /\ Parts[d] > 0
                          /\ SduEnd[d] = SduEnd[d-1] + Parts[d]
<1>1. NumSdu \in Nat /\ \A d \in 1..NumSdu : Parts[d] \in Nat /\ Parts[d] > 0
  BY UmAssumption
<1> QED BY <1>1, SduEndRuns DEF RunsOver

\* Later SDUs end later.
LEMMA SduEndGrows ==
  ASSUME NEW c \in 0..NumSdu, NEW d \in 0..NumSdu, c <= d
  PROVE  /\ SduEnd[c] \in Nat
         /\ SduEnd[c] <= SduEnd[d]
         /\ c < d => SduEnd[c] < SduEnd[d]
<1> DEFINE P == {i \in 0..NumSdu : \A j \in 0..i : /\ SduEnd[j] <= SduEnd[i]
                                                   /\ j < i => SduEnd[j] < SduEnd[i]}
<1>1. 0 \in P
  BY SduEndIs
<1>2. ASSUME NEW i \in 1..NumSdu, i - 1 \in P PROVE i \in P
  <2>1. SduEnd[i] = SduEnd[i-1] + Parts[i] /\ Parts[i] > 0 /\ Parts[i] \in Nat
        /\ SduEnd[i-1] \in Int /\ SduEnd[i] \in Int /\ NumSdu \in Nat
    <3>1. i - 1 \in 0..NumSdu /\ i \in 0..NumSdu
      BY SduEndIs
    <3> QED BY <3>1, SduEndIs
  <2> SUFFICES ASSUME NEW j \in 0..i
               PROVE  SduEnd[j] <= SduEnd[i] /\ (j < i => SduEnd[j] < SduEnd[i])
    BY <2>1
  <2>2. CASE j = i
    BY <2>1, <2>2
  <2>3. CASE j # i
    <3>1. j \in 0..i-1 /\ j \in 0..NumSdu
      BY <2>1, <2>3
    <3>2. SduEnd[j] <= SduEnd[i-1] /\ SduEnd[j] \in Int
      BY <1>2, <3>1, SduEndIs
    <3> QED BY <2>1, <3>2
  <2> QED BY <2>2, <2>3
<1>3. 0..NumSdu \subseteq P
  <2> HIDE DEF P
  <2> QED BY <1>1, <1>2, SduEndIs, InductionUpTo
<1>4. c \in 0..d /\ 0 \in 0..c
  BY SduEndIs
<1>5. SduEnd[c] <= SduEnd[d] /\ (c < d => SduEnd[c] < SduEnd[d])
  BY <1>3, <1>4
<1>6. SduEnd[0] <= SduEnd[c]
  BY <1>3, <1>4
<1>7. SduEnd[c] \in Nat
  BY <1>6, SduEndIs
<1> QED BY <1>5, <1>7

\* The parts of all SDUs.
Total == SduEnd[NumSdu]

\* The position of an SDU's part.
Within(i, d) == d \in 1..NumSdu /\ SduEnd[d-1] < i /\ i <= SduEnd[d]

\* Every position belongs to an SDU.
LEMMA SduOfIs ==
  ASSUME NEW i \in 1..Total
  PROVE  Within(i, SduOf(i))
<1> DEFINE S == {d \in 0..NumSdu : i <= SduEnd[d]}
<1>1. NumSdu \in S /\ i \in Int /\ i > 0
  <2>1. NumSdu \in 0..NumSdu /\ Total \in Int
    BY SduEndIs DEF Total
  <2> QED BY <2>1 DEF Total
<1>2. PICK d \in S : \A y \in S : d <= y
  <2>1. S \in SUBSET Nat
    BY SduEndIs
  <2> HIDE DEF S
  <2> QED BY <1>1, <2>1, LeastExists
<1>3. d # 0
  BY <1>1, <1>2, SduEndIs
<1>4. d \in 1..NumSdu /\ d - 1 \in 0..NumSdu /\ d - 1 \notin S
  BY <1>2, <1>3, SduEndIs
<1>5. SduEnd[d-1] < i
  BY <1>1, <1>4, SduEndIs
<1>6. \E e \in 1..NumSdu : SduEnd[e-1] < i /\ i <= SduEnd[e]
  BY <1>2, <1>4, <1>5
<1> QED BY <1>6 DEF SduOf, Within

\* To no other.
LEMMA WithinUnique ==
  ASSUME NEW i \in Int, NEW j \in Int, i <= j, NEW c, NEW d, Within(i, c), Within(j, d)
  PROVE  c <= d
<1>1. SUFFICES ASSUME d < c PROVE FALSE
  BY SduEndIs DEF Within
<1>2. d \in 0..NumSdu /\ c - 1 \in 0..NumSdu /\ d <= c - 1
  BY <1>1, SduEndIs DEF Within
<1>3. SduEnd[d] <= SduEnd[c-1] /\ SduEnd[d] \in Int /\ SduEnd[c-1] \in Int
  BY <1>2, SduEndGrows, SduEndIs
<1> QED BY <1>3 DEF Within

\* A position within an SDU belongs to it.
LEMMA SduOfWithin ==
  ASSUME NEW i \in Int, NEW d, Within(i, d)
  PROVE  i \in 1..Total /\ SduOf(i) = d
<1>1. d \in 1..NumSdu /\ d \in 0..NumSdu /\ d - 1 \in 0..NumSdu /\ NumSdu \in 0..NumSdu
  BY SduEndIs DEF Within
<1>2. SduEnd[d-1] \in Nat /\ SduEnd[d] <= SduEnd[NumSdu] /\ SduEnd[d] \in Int /\ SduEnd[NumSdu] \in Int
  BY <1>1, SduEndGrows, SduEndIs
<1>3. i \in 1..Total
  BY <1>2 DEF Total, Within
<1>4. Within(i, SduOf(i))
  BY <1>3, SduOfIs
<1>5. SduOf(i) <= d /\ d <= SduOf(i)
  BY <1>4, WithinUnique
<1>6. SduOf(i) \in Int /\ d \in Int
  BY <1>1, <1>4 DEF Within
<1> QED BY <1>3, <1>5, <1>6

\* The stream, and what its parts tell about their positions.
LEMMA StreamIs ==
  /\ Len(Stream) = Total /\ Total \in Nat
  /\ \A i \in 1..Total :
       /\ Stream[i][1] = SduOf(i) /\ Stream[i][2] = i - SduEnd[SduOf(i)-1]
       /\ IsFirst(Stream[i]) <=> i = SduEnd[SduOf(i)-1] + 1
       /\ IsLast(Stream[i]) <=> i = SduEnd[SduOf(i)]
<1>1. Total \in Nat
  <2>1. NumSdu \in 0..NumSdu
    BY SduEndIs
  <2> QED BY <2>1, SduEndGrows DEF Total
<1>2. Len(Stream) = Total
  BY <1>1 DEF Stream, Total
<1>3. ASSUME NEW i \in 1..Total
      PROVE  /\ Stream[i][1] = SduOf(i) /\ Stream[i][2] = i - SduEnd[SduOf(i)-1]
             /\ IsFirst(Stream[i]) <=> i = SduEnd[SduOf(i)-1] + 1
             /\ IsLast(Stream[i]) <=> i = SduEnd[SduOf(i)]
  <2> DEFINE d == SduOf(i)
  <2>1. Stream[i] = <<d, i - SduEnd[d-1]>>
    BY DEF Stream, Total
  <2>2. d \in 1..NumSdu
    BY SduOfIs DEF Within
  <2> HIDE DEF d
  <2>3. d - 1 \in 0..NumSdu /\ SduEnd[d-1] \in Int /\ SduEnd[d] = SduEnd[d-1] + Parts[d] /\ Parts[d] \in Int
    BY <2>2, SduEndIs
  <2>4. i - SduEnd[d-1] = 1 <=> i = SduEnd[d-1] + 1
    BY <1>1, <2>3
  <2>5. i - SduEnd[d-1] = Parts[d] <=> i = SduEnd[d]
    BY <1>1, <2>3
  <2> QED BY <2>1, <2>4, <2>5 DEF IsFirst, IsLast, d
<1> QED BY <1>1, <1>2, <1>3

------------------------------------------------------------------------------
(* The data field of a PDU *)

\* Parts of SDUs.
Part == (1..NumSdu) \X Nat

\* An SDU is the sequence of its parts.
LEMMA SduPartsIs ==
  ASSUME NEW d \in 1..NumSdu
  PROVE  /\ SduParts(d) \in Seq(Part) /\ Len(SduParts(d)) = Parts[d]
         /\ \A k \in 1..Parts[d] : SduParts(d)[k] = <<d, k>>
<1>1. Parts[d] \in Nat
  BY SduEndIs
<1>2. \A k \in 1..Parts[d] : <<d, k>> \in Part
  BY <1>1 DEF Part
<1>3. Len(SduParts(d)) = Parts[d] /\ \A k \in 1..Parts[d] : SduParts(d)[k] = <<d, k>>
  BY <1>1 DEF SduParts
<1>4. SduParts(d) \in [1..Parts[d] -> Part]
  BY <1>2 DEF SduParts
<1>5. SduParts(d) \in Seq(Part)
  BY <1>1, <1>4, SeqDef
<1> QED BY <1>3, <1>5

\* The parts of an SDU up to a position of the stream.
UpTo(d, b) == SubSeq(SduParts(d), 1, IF b >= SduEnd[d] THEN Parts[d] ELSE b - SduEnd[d-1])

\* All of them at its end.
LEMMA UpToEnd ==
  ASSUME NEW d \in 1..NumSdu, NEW b \in Int, b >= SduEnd[d]
  PROVE  UpTo(d, b) = SduParts(d)
<1>1. SduParts(d) \in Seq(Part) /\ Len(SduParts(d)) = Parts[d]
  BY SduPartsIs
<1>2. SubSeq(SduParts(d), 1, Len(SduParts(d))) = SduParts(d)
  BY <1>1, SubSeqFull
<1> QED BY <1>1, <1>2 DEF UpTo

\* A segment that starts with its SDU holds what there is of it; one that does not
\* continues what went before; and none is empty.
LEMMA PieceIs ==
  ASSUME NEW d \in 1..NumSdu, NEW a \in Nat, NEW b \in Int, a < b, a < SduEnd[d], SduEnd[d-1] < b
  PROVE  /\ Piece(d, a, b) \in Seq(Part) /\ UpTo(d, b) \in Seq(Part)
         /\ a <= SduEnd[d-1] => Piece(d, a, b) = UpTo(d, b)
         /\ SduEnd[d-1] < a => UpTo(d, a) \o Piece(d, a, b) = UpTo(d, b)
         /\ Piece(d, a, b)[1][1] = d
<1>1. /\ d - 1 \in 0..NumSdu /\ SduEnd[d-1] \in Int /\ SduEnd[d] = SduEnd[d-1] + Parts[d]
      /\ Parts[d] \in Nat /\ Parts[d] > 0 /\ SduEnd[d] \in Int
  <2>1. d - 1 \in 0..NumSdu /\ d \in 0..NumSdu
    BY SduEndIs
  <2> QED BY <2>1, SduEndIs
<1> DEFINE s == SduParts(d)
<1> DEFINE i == IF a <= SduEnd[d-1] THEN 1 ELSE a - SduEnd[d-1] + 1
<1> DEFINE j == IF b >= SduEnd[d] THEN Parts[d] ELSE b - SduEnd[d-1]
<1>2. i \in Int /\ j \in Int /\ 1 <= i /\ i <= j /\ j <= Parts[d]
  BY <1>1
<1>3. s \in Seq(Part) /\ Len(s) = Parts[d] /\ \A k \in 1..Parts[d] : s[k] = <<d, k>> /\ s[k] \in Part
  <2>1. \A k \in 1..Parts[d] : <<d, k>> \in Part
    BY <1>1 DEF Part
  <2> QED BY <2>1, SduPartsIs
<1>4. Piece(d, a, b) = SubSeq(s, i, j) /\ UpTo(d, b) = SubSeq(s, 1, j)
  BY DEF Piece, UpTo
<1>5. SduEnd[d-1] < a => UpTo(d, a) = SubSeq(s, 1, i - 1)
  <2>1. SduEnd[d-1] < a => ~ (a >= SduEnd[d]) /\ ~ (a <= SduEnd[d-1]) /\ i - 1 = a - SduEnd[d-1]
    BY <1>1
  <2> QED BY <2>1 DEF UpTo
<1>6. a <= SduEnd[d-1] => i = 1
  OBVIOUS
<1> HIDE DEF s, i, j
<1>7. SubSeq(s, i, j) \in Seq(Part) /\ SubSeq(s, i, j)[1] = s[i] /\ s[i][1] = d
  <2>1. \A k \in i..j : s[k] \in Part
    BY <1>1, <1>2, <1>3
  <2>2. SubSeq(s, i, j) \in Seq(Part) /\ \A k \in 1 .. j-i+1 : SubSeq(s, i, j)[k] = s[i+k-1]
    BY <1>2, <2>1, SubSeqProperties
  <2>3. 1 \in 1 .. j-i+1 /\ i+1-1 = i /\ i \in 1..Parts[d]
    BY <1>1, <1>2
  <2>4. SubSeq(s, i, j)[1] = s[i]
    BY <2>2, <2>3
  <2>5. s[i] = <<d, i>>
    BY <1>3, <2>3
  <2> QED BY <2>2, <2>4, <2>5
<1>8. SubSeq(s, 1, j) \in Seq(Part)
  <2>1. \A k \in 1..j : s[k] \in Part
    BY <1>1, <1>2, <1>3
  <2> QED BY <1>2, <2>1, SubSeqProperties
<1>9. SubSeq(s, 1, i - 1) \o SubSeq(s, i, j) = SubSeq(s, 1, j)
  <2> DEFINE k == i - 1
  <2>1. /\ 1 \in 1 .. Len(s)+1 /\ k \in 1-1 .. Len(s) /\ j \in k .. Len(s) /\ k + 1 = i
    BY <1>1, <1>2, <1>3
  <2> HIDE DEF k
  <2>2. SubSeq(s, 1, k) \o SubSeq(s, k+1, j) = SubSeq(s, 1, j)
    BY <1>3, <2>1, ConcatAdjacentSubSeq
  <2> QED BY <2>1, <2>2 DEF k
<1> QED BY <1>4, <1>5, <1>6, <1>7, <1>8, <1>9

\* What there is, at a position, of the SDUs from one on.
ItemsFrom(items, e, b) ==
  /\ items \in Seq(Seq(Part)) /\ Len(items) = SduOf(b) - e + 1
  /\ \A j \in 1..Len(items) : items[j] = UpTo(e + j - 1, b)

\* The data field of a PDU that carries the parts after a, up to b.
SegmentsIn(s, a, b) ==
  /\ s \in Seq(Seq(Part)) /\ Len(s) = SduOf(b) - SduOf(a+1) + 1 /\ Len(s) > 0
  /\ \A j \in 1..Len(s) : /\ s[j][1][1] = SduOf(a+1) + j - 1
                          /\ s[j][1][1] \in 1..NumSdu
  /\ \A j \in 2..Len(s) : s[j] = UpTo(SduOf(a+1) + j - 1, b)
  /\ s[1] = Piece(SduOf(a+1), a, b)

\* Segments is one.
LEMMA SegmentsIs ==
  ASSUME NEW a \in Nat, NEW b \in Int, a < b, b <= Total
  PROVE  SegmentsIn(Segments(a, b), a, b)
<1> DEFINE e == SduOf(a+1)
<1> DEFINE f == SduOf(b)
<1> DEFINE s == Segments(a, b)
<1>1. a + 1 \in 1..Total /\ b \in 1..Total /\ a + 1 <= b
  BY StreamIs
<1>2. Within(a + 1, e) /\ Within(b, f)
  BY <1>1, SduOfIs
<1>3. e \in 1..NumSdu /\ f \in 1..NumSdu
  BY <1>2 DEF Within
<1>4. e <= f
  <2> HIDE DEF e, f
  <2> QED BY <1>1, <1>2, WithinUnique
<1>5. s = [j \in 1 .. f - e + 1 |-> Piece(e + j - 1, a, b)]
  BY DEF Segments
<1> HIDE DEF e, f, s
<1>6. ASSUME NEW j \in 1 .. f - e + 1
      PROVE  /\ Piece(e + j - 1, a, b) \in Seq(Part)
             /\ Piece(e + j - 1, a, b)[1][1] = e + j - 1 /\ e + j - 1 \in 1..NumSdu
             /\ j > 1 => Piece(e + j - 1, a, b) = UpTo(e + j - 1, b)
  <2> DEFINE d == e + j - 1
  <2>1. d \in 1..NumSdu /\ e <= d /\ d <= f /\ e - 1 \in 0..NumSdu /\ d - 1 \in 0..NumSdu
        /\ f - 1 \in 0..NumSdu /\ d \in 0..NumSdu /\ e \in 0..NumSdu /\ d - 1 <= f - 1 /\ (j > 1 => e <= d - 1)
    BY <1>3, <1>4, SduEndIs
  <2> HIDE DEF d
  <2>2. SduEnd[e] <= SduEnd[d] /\ SduEnd[d-1] <= SduEnd[f-1] /\ (j > 1 => SduEnd[e] <= SduEnd[d-1])
    BY <2>1, SduEndGrows
  <2>3. SduEnd[e] \in Int /\ SduEnd[d] \in Int /\ SduEnd[d-1] \in Int /\ SduEnd[f-1] \in Int
    BY <2>1, SduEndIs
  <2>4. a < SduEnd[d] /\ SduEnd[d-1] < b /\ (j > 1 => a <= SduEnd[d-1])
    BY <1>2, <2>2, <2>3 DEF Within
  <2>5. /\ Piece(d, a, b) \in Seq(Part) /\ Piece(d, a, b)[1][1] = d
        /\ (a <= SduEnd[d-1] => Piece(d, a, b) = UpTo(d, b))
    BY <2>1, <2>4, PieceIs
  <2> QED BY <2>1, <2>4, <2>5 DEF d
<1>7. f - e + 1 \in Nat /\ f - e + 1 > 0
  BY <1>3, <1>4
<1>8. s \in Seq(Seq(Part)) /\ Len(s) = f - e + 1
  <2>1. s \in [1 .. f - e + 1 -> Seq(Part)]
    BY <1>5, <1>6
  <2>2. s \in Seq(Seq(Part))
    BY <1>7, <2>1, SeqDef
  <2>3. Len(s) = f - e + 1
    BY <1>5, <1>7
  <2> QED BY <2>2, <2>3
<1>9. s[1] = Piece(e, a, b)
  <2>1. 1 \in 1 .. f - e + 1 /\ e + 1 - 1 = e
    BY <1>3, <1>7
  <2>2. s[1] = Piece(e + 1 - 1, a, b)
    BY <1>5, <2>1
  <2> QED BY <2>1, <2>2
<1>10. \A j \in 1..Len(s) : s[j][1][1] = e + j - 1 /\ s[j][1][1] \in 1..NumSdu
  BY <1>5, <1>6, <1>8
<1>11. \A j \in 2..Len(s) : s[j] = UpTo(e + j - 1, b)
  <2> SUFFICES ASSUME NEW j \in 2..Len(s) PROVE s[j] = UpTo(e + j - 1, b)
    OBVIOUS
  <2>1. j \in 1 .. f - e + 1 /\ j > 1
    BY <1>7, <1>8
  <2> QED BY <1>5, <1>6, <2>1
<1> QED BY <1>7, <1>8, <1>9, <1>10, <1>11 DEF SegmentsIn, e, f, s

\* An open SDU is continued by the first segment.
LEMMA ItemsContinued ==
  ASSUME NEW a \in Nat, NEW b \in Int, a < b, b <= Total,
         NEW s, SegmentsIn(s, a, b), SduEnd[SduOf(a+1)-1] < a
  PROVE  ItemsFrom(<<UpTo(SduOf(a+1), a) \o Head(s)>> \o Tail(s), SduOf(a+1), b)
<1> DEFINE e == SduOf(a+1)
<1> DEFINE first == UpTo(e, a) \o Head(s)
<1>1. a + 1 \in 1..Total /\ b \in 1..Total
  BY StreamIs
<1>2. Within(a + 1, e)
  BY <1>1, SduOfIs
<1>3. /\ s \in Seq(Seq(Part)) /\ Len(s) = SduOf(b) - e + 1 /\ Len(s) > 0
      /\ \A j \in 2..Len(s) : s[j] = UpTo(e + j - 1, b)
      /\ s[1] = Piece(e, a, b)
  BY DEF SegmentsIn
<1>4. e \in 1..NumSdu /\ SduEnd[e] \in Int /\ SduEnd[e-1] \in Int
  <2>1. e \in 1..NumSdu /\ e \in 0..NumSdu /\ e - 1 \in 0..NumSdu
    BY <1>2, SduEndIs DEF Within
  <2> QED BY <2>1, SduEndIs
<1>5. UpTo(e, a) \o Piece(e, a, b) = UpTo(e, b) /\ UpTo(e, b) \in Seq(Part)
  <2>1. a < SduEnd[e] /\ SduEnd[e-1] < b /\ SduEnd[e-1] < a
    BY <1>2, <1>4 DEF Within
  <2> HIDE DEF e
  <2> QED BY <1>4, <2>1, PieceIs
<1> HIDE DEF e
<1>6. s # <<>> /\ Head(s) = s[1]
  BY <1>3
<1>7. first = UpTo(e, b)
  BY <1>3, <1>5, <1>6
<1> HIDE DEF first
<1>8. /\ Tail(s) \in Seq(Seq(Part)) /\ Len(Tail(s)) = Len(s) - 1
      /\ \A j \in 1..Len(Tail(s)) : Tail(s)[j] = s[j+1]
  BY <1>3, <1>6, HeadTailProperties
<1>9. <<first>> \in Seq(Seq(Part)) /\ Len(<<first>>) = 1 /\ <<first>>[1] = first
  BY <1>5, <1>7
<1> DEFINE t == <<first>> \o Tail(s)
<1> DEFINE h == <<first>>
<1> DEFINE u == Tail(s)
<1> HIDE DEF h, u
<1>10. /\ h \o u \in Seq(Seq(Part)) /\ Len(h \o u) = Len(h) + Len(u)
       /\ \A i \in 1 .. Len(h) + Len(u) : (h \o u)[i] = IF i <= Len(h) THEN h[i] ELSE u[i - Len(h)]
  BY <1>8, <1>9, ConcatProperties DEF h, u
<1>11. Len(h \o u) = Len(s) /\ Len(s) \in Int
  BY <1>3, <1>8, <1>9, <1>10 DEF h, u
<1>12. ASSUME NEW j \in 1..Len(s) PROVE (h \o u)[j] = UpTo(e + j - 1, b)
  <2>1. CASE j = 1
    <3>1. e + 1 - 1 = e
      BY <1>4
    <3>2. (h \o u)[1] = h[1]
      BY <1>9, <1>10, <1>11, <2>1 DEF h
    <3> QED BY <1>7, <1>9, <2>1, <3>1, <3>2 DEF h
  <2>2. CASE j # 1
    <3>1. j \in Int /\ j > 1 /\ j - 1 \in 1..Len(u) /\ (j - 1) + 1 = j /\ j \in 2..Len(s)
      BY <1>8, <1>11, <2>2 DEF u
    <3>2. (h \o u)[j] = u[j - 1]
      BY <1>9, <1>10, <1>11, <3>1 DEF h
    <3>3. u[j - 1] = s[j]
      BY <1>8, <3>1 DEF u
    <3> QED BY <1>3, <3>1, <3>2, <3>3
  <2> QED BY <2>1, <2>2
<1>13. ItemsFrom(h \o u, e, b)
  BY <1>3, <1>10, <1>11, <1>12 DEF ItemsFrom
<1> QED BY <1>13 DEF h, u, first, e

\* A PDU that starts with an SDU is read as a whole.
LEMMA ItemsAligned ==
  ASSUME NEW a \in Nat, NEW b \in Int, a < b, b <= Total,
         NEW s, SegmentsIn(s, a, b), a = SduEnd[SduOf(a+1)-1]
  PROVE  ItemsFrom(s, SduOf(a+1), b)
<1> DEFINE e == SduOf(a+1)
<1>1. a + 1 \in 1..Total /\ b \in 1..Total
  BY StreamIs
<1>2. Within(a + 1, e)
  BY <1>1, SduOfIs
<1>3. /\ s \in Seq(Seq(Part)) /\ Len(s) = SduOf(b) - e + 1 /\ Len(s) > 0
      /\ \A j \in 2..Len(s) : s[j] = UpTo(e + j - 1, b)
      /\ s[1] = Piece(e, a, b)
  BY DEF SegmentsIn
<1>4. e \in 1..NumSdu /\ SduEnd[e] \in Int /\ SduEnd[e-1] \in Int
  <2>1. e \in 1..NumSdu /\ e \in 0..NumSdu /\ e - 1 \in 0..NumSdu
    BY <1>2, SduEndIs DEF Within
  <2> QED BY <2>1, SduEndIs
<1>5. Piece(e, a, b) = UpTo(e, b)
  <2>1. a < SduEnd[e] /\ SduEnd[e-1] < b /\ a <= SduEnd[e-1]
    BY <1>2, <1>4 DEF Within
  <2> HIDE DEF e
  <2> QED BY <1>4, <2>1, PieceIs
<1> HIDE DEF e
<1>6. ASSUME NEW j \in 1..Len(s) PROVE s[j] = UpTo(e + j - 1, b)
  <2>1. CASE j = 1
    <3>1. e + 1 - 1 = e
      BY <1>4
    <3> QED BY <1>3, <1>5, <2>1, <3>1
  <2>2. CASE j # 1
    <3>1. j \in 2..Len(s)
      BY <1>3, <2>2, LenProperties
    <3> QED BY <1>3, <3>1
  <2> QED BY <2>1, <2>2
<1>7. ItemsFrom(s, e, b)
  BY <1>3, <1>6 DEF ItemsFrom
<1> QED BY <1>7 DEF e

\* Without its first segment a PDU is read from the next SDU.
LEMMA ItemsSkipped ==
  ASSUME NEW a \in Nat, NEW b \in Int, a < b, b <= Total,
         NEW s, SegmentsIn(s, a, b)
  PROVE  ItemsFrom(Tail(s), SduOf(a+1) + 1, b)
<1> DEFINE e == SduOf(a+1)
<1>1. a + 1 \in 1..Total /\ b \in 1..Total
  BY StreamIs
<1>2. e \in 1..NumSdu /\ SduOf(b) \in 1..NumSdu
  BY <1>1, SduOfIs DEF Within
<1>3. /\ s \in Seq(Seq(Part)) /\ Len(s) = SduOf(b) - e + 1 /\ Len(s) > 0
      /\ \A j \in 2..Len(s) : s[j] = UpTo(e + j - 1, b)
  BY DEF SegmentsIn
<1> HIDE DEF e
<1>4. s # <<>>
  BY <1>3
<1>5. /\ Tail(s) \in Seq(Seq(Part)) /\ Len(Tail(s)) = Len(s) - 1
      /\ \A j \in 1..Len(Tail(s)) : Tail(s)[j] = s[j+1]
  BY <1>3, <1>4, HeadTailProperties
<1>6. Len(Tail(s)) = SduOf(b) - (e + 1) + 1
  BY <1>2, <1>3, <1>5
<1>7. ASSUME NEW j \in 1..Len(Tail(s)) PROVE Tail(s)[j] = UpTo((e + 1) + j - 1, b)
  <2>1. j + 1 \in 2..Len(s) /\ e + (j + 1) - 1 = (e + 1) + j - 1
    BY <1>2, <1>3, <1>5
  <2> QED BY <1>3, <1>5, <2>1
<1>8. ItemsFrom(Tail(s), e + 1, b)
  BY <1>5, <1>6, <1>7 DEF ItemsFrom
<1> QED BY <1>8 DEF e

------------------------------------------------------------------------------
(* Reassembly *)

\* The number of the SDU an item is a part or the whole of.
Id(item) == item[1][1]

\* Whole SDUs, in order, of those that end before a position.
Delivers(dl, q) ==
  /\ dl \in Seq(Seq(Part))
  /\ \A i \in 1..Len(dl) : /\ Id(dl[i]) \in 1..NumSdu /\ dl[i] = SduParts(Id(dl[i]))
                           /\ SduEnd[Id(dl[i])] <= q
                           /\ i > 1 => Id(dl[i-1]) < Id(dl[i])

\* What has been delivered stays.
Extends(s, t) == Len(s) <= Len(t) /\ \A i \in 1..Len(s) : t[i] = s[i]

\* Consecutive SDUs, the first of which ends later, and the last not after b.
Wholes(w, e, q, b) ==
  /\ w \in Seq(Seq(Part))
  /\ Len(w) > 0 => q < SduEnd[e]
  /\ \A j \in 1..Len(w) : /\ e + j - 1 \in 1..NumSdu /\ w[j] = SduParts(e + j - 1)
                          /\ SduEnd[e + j - 1] <= b

\* They can be delivered.
LEMMA DeliversMore ==
  ASSUME NEW q \in Nat, NEW b \in Nat, q <= b, NEW dl, Delivers(dl, q), NEW e \in Int,
         NEW w, Wholes(w, e, q, b)
  PROVE  Delivers(dl \o w, b) /\ Extends(dl, dl \o w)
<1> DEFINE t == dl \o w
<1>1. dl \in Seq(Seq(Part)) /\ w \in Seq(Seq(Part)) /\ Len(dl) \in Nat /\ Len(w) \in Nat
  BY LenProperties DEF Delivers, Wholes
<1>2. /\ t \in Seq(Seq(Part)) /\ Len(t) = Len(dl) + Len(w)
      /\ \A i \in 1 .. Len(dl) + Len(w) : t[i] = IF i <= Len(dl) THEN dl[i] ELSE w[i - Len(dl)]
  BY <1>1, ConcatProperties
<1> HIDE DEF t
<1>3. ASSUME NEW j \in 1..Len(w)
      PROVE  /\ Id(w[j]) = e + j - 1 /\ e + j - 1 \in 1..NumSdu /\ w[j] = SduParts(e + j - 1)
             /\ SduEnd[e + j - 1] <= b
  <2> DEFINE d == e + j - 1
  <2>1. d \in 1..NumSdu /\ w[j] = SduParts(d) /\ SduEnd[d] <= b
    BY DEF Wholes
  <2> HIDE DEF d
  <2>2. SduParts(d)[1] = <<d, 1>>
    <3>1. 1 \in 1..Parts[d]
      BY <2>1, SduEndIs
    <3> QED BY <2>1, <3>1, SduPartsIs
  <2>3. Id(w[j]) = d
    BY <2>1, <2>2 DEF Id
  <2> QED BY <2>1, <2>3 DEF d
<1>4. ASSUME NEW i \in 1..Len(dl)
      PROVE  /\ Id(dl[i]) \in 1..NumSdu /\ dl[i] = SduParts(Id(dl[i])) /\ SduEnd[Id(dl[i])] <= q
             /\ i > 1 => Id(dl[i-1]) < Id(dl[i])
             /\ SduEnd[Id(dl[i])] \in Int
  <2>1. Id(dl[i]) \in 1..NumSdu /\ Id(dl[i]) \in 0..NumSdu
    BY SduEndIs DEF Delivers
  <2> QED BY <2>1, SduEndIs DEF Delivers
<1>5. ASSUME NEW i \in 1..Len(t)
      PROVE  /\ Id(t[i]) \in 1..NumSdu /\ t[i] = SduParts(Id(t[i])) /\ SduEnd[Id(t[i])] <= b
             /\ i > 1 => Id(t[i-1]) < Id(t[i])
  <2>1. i \in 1 .. Len(dl) + Len(w)
    BY <1>2
  <2>2. CASE i <= Len(dl)
    <3>1. i \in 1..Len(dl) /\ t[i] = dl[i]
      BY <1>1, <1>2, <2>1, <2>2
    <3>2. i > 1 => t[i-1] = dl[i-1]
      <4>1. i > 1 => i - 1 \in 1 .. Len(dl) + Len(w) /\ i - 1 <= Len(dl)
        BY <1>1, <2>1, <2>2
      <4> QED BY <1>2, <4>1
    <3> QED BY <1>4, <3>1, <3>2
  <2>3. CASE ~ (i <= Len(dl))
    <3> DEFINE j == i - Len(dl)
    <3>1. j \in 1..Len(w) /\ t[i] = w[j]
      BY <1>1, <1>2, <2>1, <2>3
    <3>2. Id(t[i]) = e + j - 1 /\ e + j - 1 \in 1..NumSdu /\ t[i] = SduParts(e + j - 1)
          /\ SduEnd[e + j - 1] <= b
      BY <1>3, <3>1
    <3>3. ASSUME i > 1, j > 1 PROVE Id(t[i-1]) < Id(t[i])
      <4>1. i - 1 \in 1 .. Len(dl) + Len(w) /\ ~ (i - 1 <= Len(dl)) /\ (i - 1) - Len(dl) = j - 1
            /\ j - 1 \in 1..Len(w)
        BY <1>1, <2>1, <3>1, <3>3
      <4>2. t[i-1] = w[j-1]
        BY <1>2, <4>1
      <4>3. Id(w[j-1]) = e + (j - 1) - 1
        BY <1>3, <4>1
      <4> HIDE DEF j
      <4>4. e + (j - 1) - 1 < e + j - 1
        BY <3>1
      <4> QED BY <3>2, <4>2, <4>3, <4>4
    <3>4. ASSUME i > 1, ~ (j > 1) PROVE Id(t[i-1]) < Id(t[i])
      <4>1. j = 1 /\ i - 1 = Len(dl) /\ i - 1 \in 1..Len(dl) /\ i - 1 \in 1 .. Len(dl) + Len(w)
        BY <1>1, <2>1, <3>1, <3>4
      <4>2. t[i-1] = dl[i-1]
        BY <1>2, <4>1
      <4> DEFINE c == Id(dl[i-1])
      <4>3. c \in 1..NumSdu /\ SduEnd[c] <= q /\ SduEnd[c] \in Int
        BY <1>4, <4>1
      <4> HIDE DEF j
      <4>4. e + j - 1 = e /\ e \in 1..NumSdu
        BY <3>2, <4>1
      <4>5. q < SduEnd[e] /\ SduEnd[e] \in Int
        <5>1. Len(w) > 0 /\ e \in 0..NumSdu
          BY <1>1, <3>1, <4>4, SduEndIs
        <5> QED BY <5>1, SduEndIs DEF Wholes
      <4> HIDE DEF c
      <4>6. c < e
        <5>1. SUFFICES ASSUME e <= c PROVE FALSE
          BY <4>3, <4>4
        <5>2. e \in 0..NumSdu /\ c \in 0..NumSdu
          BY <4>3, <4>4
        <5>3. SduEnd[e] <= SduEnd[c]
          BY <5>1, <5>2, SduEndGrows
        <5> QED BY <4>3, <4>5, <5>3
      <4> QED BY <3>2, <4>2, <4>4, <4>6 DEF c
    <3> HIDE DEF j
    <3> QED BY <3>2, <3>3, <3>4
  <2> QED BY <2>2, <2>3
<1>6. Delivers(t, b)
  BY <1>2, <1>5 DEF Delivers
<1>7. Extends(dl, t)
  <2>1. Len(dl) <= Len(t) /\ Len(t) \in Nat
    BY <1>1, <1>2
  <2>2. ASSUME NEW i \in 1..Len(dl) PROVE t[i] = dl[i]
    <3>1. i \in 1 .. Len(dl) + Len(w) /\ i <= Len(dl)
      BY <1>1
    <3> QED BY <1>2, <3>1
  <2> QED BY <2>1, <2>2 DEF Extends
<1> QED BY <1>6, <1>7 DEF t

\* All that was read is delivered, except an SDU that goes on in the next PDU: that is
\* what the items end with.
LEMMA ItemsWholes ==
  ASSUME NEW q \in Nat, NEW b \in 1..Total, q <= b, NEW e \in Int, e >= 1,
         e <= NumSdu => q < SduEnd[e],
         NEW items, ItemsFrom(items, e, b)
  PROVE  /\ b = SduEnd[SduOf(b)] => Wholes(items, e, q, b)
         /\ items = <<>> => Wholes(items, e, q, b)
         /\ items # <<>> => /\ Wholes(Front(items), e, q, b)
                            /\ Last(items) = UpTo(SduOf(b), b)
                            /\ Last(items) \in Seq(Part)
<1> DEFINE f == SduOf(b)
<1> DEFINE n == Len(items)
<1>1. f \in 1..NumSdu /\ SduEnd[f-1] < b /\ b <= SduEnd[f]
  BY SduOfIs DEF Within
<1>2. items \in Seq(Seq(Part)) /\ n = f - e + 1 /\ n \in Nat
      /\ \A j \in 1..n : items[j] = UpTo(e + j - 1, b)
  BY LenProperties DEF ItemsFrom
<1> HIDE DEF f, n
<1>3. NumSdu \in Nat /\ b \in Int /\ SduEnd[f-1] \in Int
  <2>1. f - 1 \in 0..NumSdu
    BY <1>1, SduEndIs
  <2> QED BY <2>1, SduEndIs
<1>4. ASSUME NEW j \in 1..n, j < n \/ b = SduEnd[f]
      PROVE  /\ e + j - 1 \in 1..NumSdu /\ items[j] = SduParts(e + j - 1)
             /\ SduEnd[e + j - 1] <= b
  <2> DEFINE d == e + j - 1
  <2>1. d \in 1..NumSdu /\ (j < n => d <= f - 1) /\ d <= f /\ items[j] = UpTo(d, b)
    BY <1>1, <1>2, <1>3
  <2> HIDE DEF d
  <2>2. SduEnd[d] <= b /\ SduEnd[d] \in Int
    <3>1. d \in 0..NumSdu /\ f - 1 \in 0..NumSdu /\ f \in 0..NumSdu
      BY <1>1, <1>3, <2>1
    <3>2. CASE j < n
      <4>1. SduEnd[d] <= SduEnd[f-1]
        BY <2>1, <3>1, <3>2, SduEndGrows
      <4> QED BY <1>1, <1>3, <3>1, <4>1, SduEndIs
    <3>3. CASE b = SduEnd[f]
      <4>1. SduEnd[d] <= SduEnd[f]
        BY <2>1, <3>1, SduEndGrows
      <4> QED BY <3>1, <3>3, <4>1, SduEndIs
    <3> QED BY <1>4, <3>2, <3>3
  <2>3. UpTo(d, b) = SduParts(d)
    BY <1>3, <2>1, <2>2, UpToEnd
  <2> QED BY <2>1, <2>2, <2>3 DEF d
<1>5. n > 0 => e <= NumSdu
  BY <1>1, <1>2, <1>3
<1>6. b = SduEnd[f] => Wholes(items, e, q, b)
  BY <1>2, <1>4, <1>5 DEF Wholes, n
<1>7. items = <<>> => Wholes(items, e, q, b)
  BY <1>2 DEF Wholes, n
<1>8. ASSUME items # <<>>
      PROVE  /\ Wholes(Front(items), e, q, b) /\ Last(items) = UpTo(f, b) /\ Last(items) \in Seq(Part)
  <2>1. n > 0
    <3>1. n # 0
      BY <1>2, <1>8, EmptySeq DEF n
    <3> QED BY <1>2, <3>1
  <2>2. \A i \in 1..n-1 : items[i] \in Seq(Part)
    BY <1>2, <2>1, ElementOfSeq DEF n
  <2> DEFINE w == Front(items)
  <2>3. w = SubSeq(items, 1, n - 1)
    BY DEF Front, n
  <2>4. w \in Seq(Seq(Part)) /\ Len(w) = n - 1 /\ \A i \in 1..n-1 : w[i] = items[i]
    <3> HIDE DEF w
    <3> DEFINE m == n - 1
    <3>1. m \in Int /\ m >= 0 /\ 1 \in Int /\ \A i \in 1..m : items[i] \in Seq(Part)
      BY <1>2, <2>1, <2>2
    <3> HIDE DEF m
    <3>2. /\ SubSeq(items,1,m) \in Seq(Seq(Part))
          /\ Len(SubSeq(items,1,m)) = IF 1<=m THEN m-1+1 ELSE 0
          /\ \A i \in 1 .. m-1+1 : SubSeq(items,1,m)[i] = items[1+i-1]
      BY <3>1, SubSeqProperties
    <3>3. Len(SubSeq(items,1,m)) = m /\ \A i \in 1..m : SubSeq(items,1,m)[i] = items[i]
      BY <3>1, <3>2
    <3> QED BY <2>3, <3>2, <3>3 DEF m
  <2> HIDE DEF w
  <2>5. \A j \in 1..Len(w) : /\ e + j - 1 \in 1..NumSdu /\ w[j] = SduParts(e + j - 1)
                             /\ SduEnd[e + j - 1] <= b
    <3> SUFFICES ASSUME NEW j \in 1..Len(w)
                 PROVE  /\ e + j - 1 \in 1..NumSdu /\ w[j] = SduParts(e + j - 1)
                        /\ SduEnd[e + j - 1] <= b
      OBVIOUS
    <3>1. j \in 1..n /\ j < n /\ j \in 1..n-1
      BY <1>2, <2>4
    <3> QED BY <1>4, <2>4, <3>1
  <2>6. Wholes(w, e, q, b)
    BY <1>5, <2>1, <2>4, <2>5 DEF Wholes
  <2>7. Last(items) = UpTo(f, b)
    <3>1. n \in 1..n /\ e + n - 1 = f
      BY <1>1, <1>2, <2>1
    <3> QED BY <1>2, <3>1 DEF Last, n
  <2>8. Last(items) \in Seq(Part)
    <3>1. n \in 1..n
      BY <1>2, <2>1
    <3> QED BY <1>2, <3>1, ElementOfSeq DEF Last, n
  <2> QED BY <2>6, <2>7, <2>8 DEF w
<1> QED BY <1>6, <1>7, <1>8 DEF f

\* The state of the reassembly when all has been read of the PDUs before E, whose parts
\* end at position q of the stream.
Reads(r, E, q) ==
  /\ r \in [expected : 0..Modulus-1, open : BOOLEAN, keepS0 : Seq(Part),
            sdus : Seq(Seq(Part)), delivered : Seq(Seq(Part))]
  /\ r.expected = Sn(E) /\ r.sdus = <<>>
  /\ Delivers(r.delivered, q)
  /\ r.open => /\ q \in 1..Total /\ q # SduEnd[SduOf(q)]
               /\ r.keepS0 = UpTo(SduOf(q), q)

\* The PDU that carries the parts after a, up to b.
Carries(p, a, b) ==
  /\ p.sdus = Segments(a, b)
  /\ p.first = IsFirst(Stream[a+1]) /\ p.last = IsLast(Stream[b])

\* The SDUs a PDU is read as: the open one is continued by the PDU that follows, and
\* otherwise reading starts with the first SDU that starts in the PDU.
LEMMA ItemsRead ==
  ASSUME NEW r, NEW E \in Int, NEW q \in Nat, Reads(r, E, q),
         NEW n \in Int, E <= n, n < E + Modulus, NEW p, p.sn = Sn(n),
         NEW a \in Nat, NEW b \in Int, a < b, b <= Total, q <= a, n = E => q = a,
         Carries(p, a, b)
  PROVE  /\ ~Resync(r, p) => ~p.first
         /\ \E e \in Int :
              /\ e >= 1 /\ (e <= NumSdu => q < SduEnd[e])
              /\ ItemsFrom(IF ~Resync(r, p)
                           THEN <<r.keepS0 \o Head(r.sdus \o p.sdus)>> \o Tail(r.sdus \o p.sdus)
                           ELSE IF p.first THEN r.sdus \o p.sdus ELSE Tail(r.sdus \o p.sdus), e, b)
<1> DEFINE s == Segments(a, b)
<1> DEFINE e == SduOf(a+1)
<1>1. SegmentsIn(s, a, b) /\ s \in Seq(Seq(Part))
  BY SegmentsIs DEF SegmentsIn
<1>2. a + 1 \in 1..Total /\ b \in 1..Total /\ Total \in Nat
  BY StreamIs
<1>3. Within(a + 1, e)
  BY <1>2, SduOfIs
<1>4. /\ e \in 1..NumSdu /\ SduEnd[e] \in Int /\ SduEnd[e-1] \in Int
      /\ SduEnd[e-1] <= a /\ a < SduEnd[e]
  <2>1. e \in 1..NumSdu /\ e \in 0..NumSdu /\ e - 1 \in 0..NumSdu
    BY <1>3, SduEndIs DEF Within
  <2>2. SduEnd[e] \in Int /\ SduEnd[e-1] \in Int
    BY <2>1, SduEndIs
  <2> QED BY <1>3, <2>1, <2>2 DEF Within
<1>5. p.first <=> a = SduEnd[e-1]
  <2>1. IsFirst(Stream[a+1]) <=> a + 1 = SduEnd[e-1] + 1
    BY <1>2, StreamIs
  <2>2. a + 1 = SduEnd[e-1] + 1 <=> a = SduEnd[e-1]
    BY <1>4
  <2> QED BY <2>1, <2>2 DEF Carries
<1>6. r.sdus \o p.sdus = s
  <2>1. r.sdus = <<>> /\ p.sdus = s
    BY DEF Reads, Carries
  <2>2. <<>> \o s = s
    BY <1>1, ConcatEmptySeq
  <2> QED BY <2>1, <2>2
<1> HIDE DEF s
<1>7. CASE ~Resync(r, p)
  <2>1. r.open /\ Sn(n) = Sn(E)
    BY <1>7 DEF Resync, Reads
  <2>2. n = E
    <3>1. E - Modulus < n
      BY ModulusType
    <3> QED BY <2>1, <3>1, SnUnique
  <2>3. q = a /\ a \in 1..Total /\ a # SduEnd[SduOf(a)] /\ r.keepS0 = UpTo(SduOf(a), a)
    BY <2>1, <2>2 DEF Reads
  <2>4. Within(a, SduOf(a))
    BY <2>3, SduOfIs
  <2>5. SduOf(a) = e
    <3>1. SduOf(a) \in 0..NumSdu /\ SduOf(a) - 1 \in 0..NumSdu
      BY <2>4, SduEndIs DEF Within
    <3>2. SduEnd[SduOf(a)] \in Int /\ SduEnd[SduOf(a)-1] \in Int
      BY <3>1, SduEndIs
    <3>3. Within(a + 1, SduOf(a))
      BY <2>3, <2>4, <3>2 DEF Within
    <3> QED BY <3>3, SduOfWithin
  <2>6. SduEnd[e-1] < a
    BY <2>4, <2>5 DEF Within
  <2>7. ~p.first
    BY <1>4, <1>5, <2>6
  <2>8. ItemsFrom(<<UpTo(e, a) \o Head(s)>> \o Tail(s), e, b)
    <3>1. SduEnd[SduOf(a+1)-1] < a
      BY <2>6
    <3> QED BY <1>1, <3>1, ItemsContinued
  <2>9. q < SduEnd[e] /\ e >= 1 /\ e \in Int
    BY <1>4, <2>3
  <2>10. r.keepS0 = UpTo(e, a)
    BY <2>3, <2>5
  <2> HIDE DEF e
  <2> QED BY <1>6, <1>7, <2>7, <2>8, <2>9, <2>10
<1>8. CASE Resync(r, p) /\ p.first
  <2>1. ItemsFrom(s, e, b)
    <3>1. a = SduEnd[SduOf(a+1)-1]
      BY <1>5, <1>8
    <3> QED BY <1>1, <3>1, ItemsAligned
  <2>2. q < SduEnd[e] /\ e >= 1 /\ e \in Int
    BY <1>4
  <2> HIDE DEF e
  <2> QED BY <1>6, <1>8, <2>1, <2>2
<1>9. CASE Resync(r, p) /\ ~p.first
  <2>1. ItemsFrom(Tail(s), e + 1, b)
    BY <1>1, ItemsSkipped
  <2>2. e + 1 <= NumSdu => q < SduEnd[e+1]
    <3>1. e + 1 <= NumSdu => e + 1 \in 0..NumSdu /\ e \in 0..NumSdu
      BY <1>4, SduEndIs
    <3>2. e + 1 <= NumSdu => SduEnd[e] <= SduEnd[e+1] /\ SduEnd[e+1] \in Int
      BY <1>4, <3>1, SduEndGrows, SduEndIs
    <3> QED BY <1>4, <3>2
  <2>3. e + 1 \in Int /\ e + 1 >= 1
    BY <1>4
  <2> DEFINE e1 == e + 1
  <2> HIDE DEF e1
  <2>4. e1 \in Int /\ e1 >= 1 /\ (e1 <= NumSdu => q < SduEnd[e1]) /\ ItemsFrom(Tail(s), e1, b)
    BY <2>1, <2>2, <2>3 DEF e1
  <2> QED BY <1>6, <1>9, <2>4
<1> QED BY <1>7, <1>8, <1>9

\* ReassembleAndDeliver.
LEMMA ReassembleIs ==
  ASSUME NEW r, NEW E \in Int, NEW q \in Nat, Reads(r, E, q),
         NEW n \in Int, E <= n, n < E + Modulus, NEW p, p.sn = Sn(n),
         NEW a \in Nat, NEW b \in Int, a < b, b <= Total, q <= a, n = E => q = a,
         Carries(p, a, b)
  PROVE  /\ Reads(Reassemble(r, p), n + 1, b)
         /\ Extends(r.delivered, Reassemble(r, p).delivered)
<1> DEFINE sdus == r.sdus \o p.sdus
<1> DEFINE items == IF ~Resync(r, p) THEN <<r.keepS0 \o Head(sdus)>> \o Tail(sdus)
                    ELSE IF p.first THEN sdus ELSE Tail(sdus)
<1> DEFINE next == [r EXCEPT !.expected = Sn(p.sn + 1)]
<1> DEFINE R == Reassemble(r, p)
<1>1. /\ ~Resync(r, p) => ~p.first
      /\ \E e \in Int : /\ e >= 1 /\ (e <= NumSdu => q < SduEnd[e])
                        /\ ItemsFrom(items, e, b)
  BY ItemsRead
<1>2. R = IF p.last \/ items = <<>>
          THEN [next EXCEPT !.open = FALSE, !.sdus = <<>>, !.delivered = @ \o items]
          ELSE [next EXCEPT !.open = TRUE, !.sdus = <<>>, !.keepS0 = Last(items),
                            !.delivered = @ \o Front(items)]
  BY <1>1 DEF Reassemble
<1> HIDE DEF sdus, items
<1>3. PICK e \in Int : e >= 1 /\ (e <= NumSdu => q < SduEnd[e]) /\ ItemsFrom(items, e, b)
  BY <1>1
<1>4. b \in 1..Total /\ q <= b /\ b \in Nat /\ a + 1 \in 1..Total
  BY StreamIs
<1>5. p.last <=> b = SduEnd[SduOf(b)]
  BY <1>4, StreamIs DEF Carries
<1>6. /\ b = SduEnd[SduOf(b)] => Wholes(items, e, q, b)
      /\ items = <<>> => Wholes(items, e, q, b)
      /\ items # <<>> => /\ Wholes(Front(items), e, q, b)
                         /\ Last(items) = UpTo(SduOf(b), b)
                         /\ Last(items) \in Seq(Part)
  BY <1>3, <1>4, ItemsWholes
<1>7. Sn(p.sn + 1) = Sn(n + 1) /\ Sn(n + 1) \in 0..Modulus-1
  <2>1. n + 1 \in Int
    OBVIOUS
  <2> QED BY <2>1, SnNext, SnType
<1>8. /\ r \in [expected : 0..Modulus-1, open : BOOLEAN, keepS0 : Seq(Part),
                sdus : Seq(Seq(Part)), delivered : Seq(Seq(Part))]
      /\ Delivers(r.delivered, q)
  BY DEF Reads
<1>9. <<>> \in Seq(Seq(Part))
  BY EmptySeq
<1>10. CASE p.last \/ items = <<>>
  <2> DEFINE dl == r.delivered \o items
  <2>1. Delivers(dl, b) /\ Extends(r.delivered, dl)
    BY <1>3, <1>4, <1>5, <1>6, <1>8, <1>10, DeliversMore
  <2>2. dl \in Seq(Seq(Part))
    BY <2>1 DEF Delivers
  <2>3. R = [next EXCEPT !.open = FALSE, !.sdus = <<>>, !.delivered = @ \o items]
    BY <1>2, <1>10
  <2>4. /\ R.expected = Sn(n + 1) /\ R.open = FALSE /\ R.sdus = <<>> /\ R.delivered = dl
        /\ R \in [expected : 0..Modulus-1, open : BOOLEAN, keepS0 : Seq(Part),
                  sdus : Seq(Seq(Part)), delivered : Seq(Seq(Part))]
    <3> HIDE DEF R
    <3> QED BY <1>7, <1>8, <1>9, <2>2, <2>3
  <2> HIDE DEF R, dl
  <2> QED BY <2>1, <2>4 DEF Reads, R
<1>11. CASE ~ (p.last \/ items = <<>>)
  <2> DEFINE dl == r.delivered \o Front(items)
  <2>1. Delivers(dl, b) /\ Extends(r.delivered, dl)
    BY <1>3, <1>4, <1>6, <1>8, <1>11, DeliversMore
  <2>2. dl \in Seq(Seq(Part))
    BY <2>1 DEF Delivers
  <2>3. R = [next EXCEPT !.open = TRUE, !.sdus = <<>>, !.keepS0 = Last(items),
                            !.delivered = @ \o Front(items)]
    BY <1>2, <1>11
  <2>4. Last(items) = UpTo(SduOf(b), b) /\ Last(items) \in Seq(Part)
    BY <1>6, <1>11
  <2>5. /\ R.expected = Sn(n + 1) /\ R.open = TRUE /\ R.sdus = <<>> /\ R.delivered = dl
        /\ R.keepS0 = Last(items)
        /\ R \in [expected : 0..Modulus-1, open : BOOLEAN, keepS0 : Seq(Part),
                  sdus : Seq(Seq(Part)), delivered : Seq(Seq(Part))]
    <3> HIDE DEF R
    <3> QED BY <1>7, <1>8, <1>9, <2>2, <2>3, <2>4
  <2> HIDE DEF R, dl
  <2> QED BY <1>4, <1>5, <1>11, <2>1, <2>4, <2>5 DEF Reads, R
<1> QED BY <1>10, <1>11

\* What has been delivered stays, step after step.
LEMMA ExtendsIs ==
  /\ \A s : Len(s) \in Nat => Extends(s, s)
  /\ \A s, t, u : Len(s) \in Nat /\ Len(t) \in Nat /\ Len(u) \in Nat
                  /\ Extends(s, t) /\ Extends(t, u) => Extends(s, u)
BY DEF Extends

\* One step of the walk over the sequence numbers.
Walked(x, buffer, sns, sn) == IF sn \in sns THEN Reassemble(x, buffer[sn]) ELSE x

\* ReassembleAll is the last of the states of the reassembly along the walk.
LEMMA WalkExists ==
  ASSUME NEW r, NEW buffer, NEW sns, NEW from
  PROVE  \E after : /\ ReassembleAll(r, buffer, sns, from) = after[Modulus]
                    /\ after[0] = r
                    /\ \A k \in 1..Modulus :
                         after[k] = Walked(after[k-1], buffer, sns, Sn(from + k - 1))
<1> DEFINE Is(after, m) ==
             after = [k \in 0..m |->
               IF k = 0 THEN r
               ELSE IF Sn(from + k - 1) \in sns THEN Reassemble(after[k-1], buffer[Sn(from + k - 1)])
               ELSE after[k-1]]
           Step(x, k) == Walked(x, buffer, sns, Sn(from + k - 1))
           P == {m \in 0..Modulus : \E after : Is(after, m)}
<1>1. \A after, m : Is(after, m) <=> after = [k \in 0..m |-> IF k = 0 THEN r ELSE Step(after[k-1], k)]
  BY DEF Walked
<1> HIDE DEF Is, Step
<1>2. 0 \in P
  <2> DEFINE after == [k \in 0..0 |-> r]
  <2>1. after = [k \in 0..0 |-> IF k = 0 THEN r ELSE Step(after[k-1], k)]
    <3>1. \A k \in 0..0 : k = 0
      OBVIOUS
    <3> QED BY <3>1
  <2> HIDE DEF after
  <2>2. Is(after, 0)
    BY <1>1, <2>1
  <2> QED BY <2>2, ModulusType
<1>3. ASSUME NEW m \in 1..Modulus, m - 1 \in P PROVE m \in P
  <2>1. PICK before : Is(before, m - 1)
    BY <1>3
  <2>2. before = [k \in 0..m-1 |-> IF k = 0 THEN r ELSE Step(before[k-1], k)]
    BY <1>1, <2>1
  <2>3. \A k \in 0..m-1 : before[k] = IF k = 0 THEN r ELSE Step(before[k-1], k)
    BY <2>2
  <2> DEFINE after == [k \in 0..m |-> IF k = m THEN Step(before[m-1], m) ELSE before[k]]
  <2>4. ASSUME NEW k \in 0..m
        PROVE  after[k] = IF k = 0 THEN r ELSE Step(after[k-1], k)
    <3>1. CASE k = m
      <4>1. m # 0 /\ m - 1 \in 0..m /\ m - 1 # m
        BY ModulusType
      <4>2. after[m] = Step(before[m-1], m) /\ after[m-1] = before[m-1]
        BY <4>1
      <4> HIDE DEF after
      <4> QED BY <3>1, <4>1, <4>2
    <3>2. CASE k # m
      <4>1. k \in 0..m-1 /\ (k # 0 => k - 1 \in 0..m /\ k - 1 # m)
        BY <3>2, ModulusType
      <4>2. after[k] = before[k] /\ (k # 0 => after[k-1] = before[k-1])
        BY <3>2, <4>1
      <4> HIDE DEF after
      <4> QED BY <2>3, <4>1, <4>2
    <3> QED BY <3>1, <3>2
  <2>5. after = [k \in 0..m |-> IF k = 0 THEN r ELSE Step(after[k-1], k)]
    <3>1. after = [k \in 0..m |-> after[k]]
      OBVIOUS
    <3> HIDE DEF after
    <3> QED BY <2>4, <3>1
  <2> HIDE DEF after
  <2>6. Is(after, m)
    BY <1>1, <2>5
  <2> QED BY <2>6, ModulusType
<1>4. Modulus \in P
  <2> HIDE DEF P
  <2>1. 0..Modulus \subseteq P
    BY <1>2, <1>3, ModulusType, InductionUpTo
  <2> QED BY <2>1, ModulusType
<1>5. PICK after : after = CHOOSE g : Is(g, Modulus)
  OBVIOUS
<1>6. Is(after, Modulus)
  BY <1>4, <1>5
<1>7. ReassembleAll(r, buffer, sns, from) = after[Modulus]
  BY <1>5 DEF ReassembleAll, Is
<1>8. after = [k \in 0..Modulus |-> IF k = 0 THEN r ELSE Step(after[k-1], k)]
  BY <1>1, <1>6
<1>9. after[0] = r
  BY <1>8, ModulusType
<1>10. \A k \in 1..Modulus : after[k] = Step(after[k-1], k)
  <2> SUFFICES ASSUME NEW k \in 1..Modulus PROVE after[k] = Step(after[k-1], k)
    OBVIOUS
  <2>1. k \in 0..Modulus /\ k # 0
    BY ModulusType
  <2> QED BY <1>8, <2>1
<1> QED BY <1>7, <1>9, <1>10 DEF Step

\* The positions of the stream at which the PDUs begin, by number: before the first
\* 0, from the next to be sent on what has been sent.
Marks(pos) ==
  /\ pos \in [Int -> Nat]
  /\ \A m, n \in Int : m <= n => pos[m] <= pos[n]

\* A PDU carries what lies between its mark and the next.
PduOk(p, pos) ==
  /\ p.num \in Int /\ p.sn = Sn(p.num)
  /\ pos[p.num] < pos[p.num + 1] /\ pos[p.num + 1] <= Total
  /\ Carries(p, pos[p.num], pos[p.num + 1])

\* A set of sequence numbers whose PDUs lie in the modulus from F, none before E.
Readable(buffer, S, F, E, pos) ==
  /\ S \subseteq DOMAIN buffer
  /\ \A sn \in S : /\ PduOk(buffer[sn], pos) /\ sn = Sn(buffer[sn].num)
                   /\ F <= buffer[sn].num /\ buffer[sn].num < F + Modulus /\ E <= buffer[sn].num
  /\ S # {} => \E sn \in S : buffer[sn].num < E + Modulus

\* Nothing is read of no PDUs; otherwise the last is.
ReadTo(buffer, S, E, E2) ==
  \/ S = {} /\ E2 = E
  \/ \E sn \in S : E2 = buffer[sn].num + 1 /\ \A s \in S : buffer[s].num <= buffer[sn].num

\* ReassembleAll reads the PDUs in the order of their numbers.
LEMMA ReassembleAllIs ==
  ASSUME NEW pos, Marks(pos), NEW r, NEW E \in Int, Reads(r, E, pos[E]), NEW buffer,
         NEW S, NEW F \in Int, Readable(buffer, S, F, E, pos),
         NEW from, \A k \in 1..Modulus : Sn(from + k - 1) = Sn(F + k - 1)
  PROVE  \E E2 \in Int : /\ Reads(ReassembleAll(r, buffer, S, from), E2, pos[E2])
                         /\ Extends(r.delivered, ReassembleAll(r, buffer, S, from).delivered)
                         /\ ReadTo(buffer, S, E, E2)
<1> DEFINE num(sn) == buffer[sn].num
<1>1. PICK after : /\ ReassembleAll(r, buffer, S, from) = after[Modulus]
                   /\ after[0] = r
                   /\ \A k \in 1..Modulus :
                        after[k] = Walked(after[k-1], buffer, S, Sn(from + k - 1))
  BY WalkExists
<1>2. \A sn \in S : /\ PduOk(buffer[sn], pos) /\ sn = Sn(num(sn)) /\ num(sn) \in Int
                    /\ F <= num(sn) /\ num(sn) < F + Modulus /\ E <= num(sn)
  BY DEF Readable, PduOk
<1>3. S # {} => \E sn \in S : num(sn) < E + Modulus
  BY DEF Readable
<1> HIDE DEF num
<1> DEFINE Upto(E2, k) ==
             \/ E2 = E /\ \A s \in S : ~ (num(s) < F + k)
             \/ \E sn \in S : /\ num(sn) < F + k /\ E2 = num(sn) + 1
                              /\ \A s \in S : num(s) < F + k => num(s) <= num(sn)
           Good(x, E2) == Reads(x, E2, pos[E2]) /\ Extends(r.delivered, x.delivered)
           P == {k \in 0..Modulus : \E E2 \in Int : Good(after[k], E2) /\ Upto(E2, k)}
<1>4. 0 \in P
  <2>1. Extends(r.delivered, r.delivered)
    <3>1. r.delivered \in Seq(Seq(Part))
      BY DEF Reads
    <3>2. Len(r.delivered) \in Nat
      BY <3>1, LenProperties
    <3> QED BY <3>2, ExtendsIs
  <2>2. Good(after[0], E)
    BY <1>1, <2>1
  <2>3. Upto(E, 0)
    BY <1>2
  <2> HIDE DEF Good, Upto
  <2> QED BY <2>2, <2>3, ModulusType
<1>5. ASSUME NEW k \in 1..Modulus, k - 1 \in P PROVE k \in P
  <2>1. PICK E1 \in Int : Good(after[k-1], E1) /\ Upto(E1, k - 1)
    BY <1>5
  <2> DEFINE n == F + k - 1
  <2>2. n \in Int /\ F + (k - 1) = n /\ F + k = n + 1 /\ F <= n /\ n < F + Modulus
    BY ModulusType
  <2>3. Sn(from + k - 1) = Sn(n)
    OBVIOUS
  <2>4. after[k] = Walked(after[k-1], buffer, S, Sn(n))
    BY <1>1, <2>3
  <2> HIDE DEF n
  <2>5. CASE Sn(n) \in S
    <3> DEFINE p == buffer[Sn(n)]
    <3>1. p.num = n
      <4>1. num(Sn(n)) \in Int /\ Sn(n) = Sn(num(Sn(n))) /\ F <= num(Sn(n)) /\ num(Sn(n)) < F + Modulus
        BY <1>2, <2>5
      <4>2. num(Sn(n)) - Modulus < n /\ n < num(Sn(n)) + Modulus
        BY <2>2, <4>1, ModulusType
      <4>3. n = num(Sn(n))
        BY <2>2, <4>1, <4>2, SnUnique
      <4> QED BY <4>3 DEF num
    <3>2. num(Sn(n)) = n
      BY <3>1 DEF num
    <3>3. PduOk(p, pos) /\ E <= n
      BY <1>2, <2>5, <3>2
    <3>4. E1 <= n /\ n < E1 + Modulus
      <4>1. CASE E1 = E /\ \A s \in S : ~ (num(s) < F + (k - 1))
        <5>1. PICK y \in S : num(y) < E + Modulus
          BY <1>3, <2>5
        <5>2. ~ (num(y) < n) /\ num(y) \in Int
          BY <1>2, <2>2, <4>1, <5>1
        <5> QED BY <2>2, <3>3, <4>1, <5>1, <5>2, ModulusType
      <4>2. CASE \E sn \in S : num(sn) < F + (k - 1) /\ E1 = num(sn) + 1
        <5>1. PICK y \in S : num(y) < n /\ E1 = num(y) + 1
          BY <2>2, <4>2
        <5>2. F <= num(y) /\ num(y) \in Int
          BY <1>2, <5>1
        <5> QED BY <2>2, <5>1, <5>2, ModulusType
      <4> QED BY <2>1, <4>1, <4>2
    <3> DEFINE a == pos[n]
    <3> DEFINE b == pos[n+1]
    <3> DEFINE q == pos[E1]
    <3>5. /\ a \in Nat /\ b \in Nat /\ q \in Nat /\ q <= a /\ a < b /\ b <= Total
          /\ (n = E1 => q = a) /\ Carries(p, a, b) /\ p.sn = Sn(n)
      <4>1. n + 1 \in Int
        BY <2>2
      <4>2. a \in Nat /\ b \in Nat /\ q \in Nat /\ q <= a
        BY <2>2, <3>4, <4>1 DEF Marks
      <4> QED BY <3>1, <3>3, <4>2 DEF PduOk
    <3>6. Reads(after[k-1], E1, q)
      BY <2>1
    <3> HIDE DEF a, b, q, p
    <3>7. /\ Reads(Reassemble(after[k-1], p), n + 1, b)
          /\ Extends(after[k-1].delivered, Reassemble(after[k-1], p).delivered)
      BY <2>2, <3>4, <3>5, <3>6, ReassembleIs
    <3>8. after[k] = Reassemble(after[k-1], p)
      BY <2>4, <2>5 DEF Walked, p
    <3>9. Extends(r.delivered, after[k].delivered)
      <4>1. r.delivered \in Seq(Seq(Part)) /\ after[k-1].delivered \in Seq(Seq(Part))
            /\ after[k].delivered \in Seq(Seq(Part))
        BY <3>6, <3>7, <3>8 DEF Reads
      <4>2. Len(r.delivered) \in Nat /\ Len(after[k-1].delivered) \in Nat
            /\ Len(after[k].delivered) \in Nat
        BY <4>1, LenProperties
      <4> QED BY <2>1, <3>7, <3>8, <4>2, ExtendsIs
    <3>10. Good(after[k], n + 1)
      BY <3>7, <3>8, <3>9 DEF b
    <3>11. Upto(n + 1, k)
      <4>1. num(Sn(n)) < F + k /\ \A s \in S : num(s) < F + k => num(s) <= n
        BY <1>2, <2>2, <3>2
      <4> QED BY <2>5, <3>2, <4>1
    <3> HIDE DEF Good, Upto
    <3> QED BY <2>2, <3>10, <3>11
  <2>6. CASE Sn(n) \notin S
    <3>1. after[k] = after[k-1]
      BY <2>4, <2>6 DEF Walked
    <3>2. \A s \in S : num(s) < F + k <=> num(s) < F + (k - 1)
      <4> SUFFICES ASSUME NEW s \in S PROVE num(s) < F + k <=> num(s) < F + (k - 1)
        OBVIOUS
      <4>1. num(s) # n /\ num(s) \in Int
        BY <1>2, <2>6
      <4> QED BY <2>2, <4>1
    <3>3. Upto(E1, k)
      BY <2>1, <3>2
    <3> HIDE DEF Upto
    <3> QED BY <2>1, <3>1, <3>3
  <2> QED BY <2>5, <2>6
<1>6. Modulus \in P
  <2> HIDE DEF P
  <2>1. 0..Modulus \subseteq P
    BY <1>4, <1>5, ModulusType, InductionUpTo
  <2> QED BY <2>1, ModulusType
<1>7. PICK E2 \in Int : Good(after[Modulus], E2) /\ Upto(E2, Modulus)
  BY <1>6
<1>8. ReadTo(buffer, S, E, E2)
  <2>1. CASE E2 = E /\ \A s \in S : ~ (num(s) < F + Modulus)
    BY <1>2, <2>1 DEF ReadTo
  <2>2. CASE \E sn \in S : /\ num(sn) < F + Modulus /\ E2 = num(sn) + 1
                           /\ \A s \in S : num(s) < F + Modulus => num(s) <= num(sn)
    BY <1>2, <2>2 DEF ReadTo, num
  <2> QED BY <1>7, <2>1, <2>2
<1> QED BY <1>1, <1>7, <1>8

------------------------------------------------------------------------------
(* The inductive invariant *)

\* PDUs.
Pdu == [num : Int, sn : Int, sdus : Seq(Seq(Part)), first : BOOLEAN, last : BOOLEAN]

\* PDUs are on their way for as long as Overtake others are sent; of those that were sent
\* since VR(UH) all but a burst are.
LinkInv(H, pos) ==
  /\ seqNo \in Int /\ H <= seqNo /\ perTimer \in Nat
  /\ inFlight \in Seq(Pdu)
  /\ \A i \in DOMAIN inFlight :
       /\ PduOk(inFlight[i], pos)
       /\ seqNo - 1 <= inFlight[i].num + Overtake /\ inFlight[i].num < seqNo
  /\ \A m \in H + MaxBurst .. seqNo - 1 : \E i \in DOMAIN inFlight : inFlight[i].num = m

\* Every PDU sent has its part of the stream.
StreamInv(pos) ==
  /\ Marks(pos) /\ sent \in 0..Total
  /\ \A n \in Int : seqNo <= n => pos[n] = sent

\* Those of a buffer carry their parts of the stream.
PdusOk(f, pos) == \A sn \in DOMAIN f : PduOk(f[sn], pos)

\* All has been read up to the last PDU received, or that one waits in the buffer, and the
\* PDU that is read next is within a modulus.
Waits(f, H, E) == E = H \/ (Has(f, H - 1) /\ \E sn \in DOMAIN f : f[sn].num < E + Modulus)

\* The reassembly has read the PDUs before E; the others are to come.
ReadInv(U, H, E, pos) == E <= U /\ Reads(reasm, E, pos[E]) /\ Waits(rxBuffer, H, E)

\* Half of the window.
HalfWindow == Window \div 2

\* While t-Reordering runs so few PDUs are sent that the window passes none that waits.
SlowInv(X) ==
  /\ perTimer <= HalfWindow /\ Overtake + 1 <= HalfWindow
  /\ timer => /\ seqNo <= X + HalfWindow
              /\ \A sn \in DOMAIN rxBuffer : X - HalfWindow <= rxBuffer[sn].num

\* Or so few are sent in all that the numbers do not wrap.
ShortInv(U) == 0 <= U /\ seqNo + (Total - sent) <= Modulus

\* What is counted of losses.
BoundsInv == losses \in 0..MaxLost /\ damaged \subseteq 1..NumSdu

\* All of it.
Inv(U, X, H, E, pos) ==
  /\ WindowInv(U, X, H) /\ LinkInv(H, pos) /\ StreamInv(pos) /\ PdusOk(rxBuffer, pos)
  /\ ReadInv(U, H, E, pos) /\ (SlowInv(X) \/ ShortInv(U)) /\ BoundsInv

\* For some numbers and marks.
IInv == \E U, X, H, E \in Int : \E pos : Inv(U, X, H, E, pos)

------------------------------------------------------------------------------
(* The link *)

\* Half a window.
LEMMA HalfWindowIs == HalfWindow \in Nat /\ 2 * HalfWindow <= Window
<1>1. Window \in Int /\ 2 \in Nat \ {0}
  BY ModulusType
<1>2. Window % 2 \in 0..1 /\ Window \div 2 \in Int /\ Window = (2 * (Window \div 2)) + (Window % 2)
  BY <1>1, DivMod
<1> DEFINE h == Window \div 2
<1> DEFINE s == Window % 2
<1>3. s \in 0..1 /\ h \in Int /\ Window = (2 * h) + s
  BY <1>2
<1> HIDE DEF h, s
<1>4. h \in Nat /\ 2 * h <= Window
  BY <1>3, ModulusType
<1> QED BY <1>4 DEF HalfWindow, h

\* A sequence without one of its elements.
LEMMA RemoveAtIs ==
  ASSUME NEW S, NEW s \in Seq(S), NEW i \in DOMAIN s
  PROVE  /\ RemoveAt(s, i) \in Seq(S)
         /\ \A j \in DOMAIN RemoveAt(s, i) : \E k \in DOMAIN s : k # i /\ RemoveAt(s, i)[j] = s[k]
         /\ \A k \in DOMAIN s : k # i => \E j \in DOMAIN RemoveAt(s, i) : RemoveAt(s, i)[j] = s[k]
<1> DEFINE n == Len(s)
<1> DEFINE u == SubSeq(s, 1, i - 1)
<1> DEFINE v == SubSeq(s, i + 1, n)
<1> DEFINE t == u \o v
<1>1. n \in Nat /\ DOMAIN s = 1..n /\ i \in 1..n /\ \A k \in 1..n : s[k] \in S
  BY LenProperties, ElementOfSeq
<1>2. u \in Seq(S) /\ Len(u) = i - 1 /\ \A k \in 1..i-1 : u[k] = s[k]
  <2> DEFINE m == i - 1
  <2>1. m \in Int /\ m >= 0 /\ 1 \in Int /\ \A k \in 1..m : s[k] \in S
    BY <1>1
  <2> HIDE DEF m
  <2>2. /\ SubSeq(s,1,m) \in Seq(S) /\ Len(SubSeq(s,1,m)) = IF 1<=m THEN m-1+1 ELSE 0
        /\ \A k \in 1 .. m-1+1 : SubSeq(s,1,m)[k] = s[1+k-1]
    BY <2>1, SubSeqProperties
  <2>3. Len(SubSeq(s,1,m)) = m /\ \A k \in 1..m : SubSeq(s,1,m)[k] = s[k]
    BY <2>1, <2>2
  <2> QED BY <2>2, <2>3 DEF m
<1>3. v \in Seq(S) /\ Len(v) = n - i /\ \A k \in 1..n-i : v[k] = s[i+k]
  <2> DEFINE m == i + 1
  <2>1. m \in Int /\ n \in Int /\ m = i + 1 /\ i \in Int /\ i <= n /\ \A k \in m..n : s[k] \in S
    BY <1>1
  <2> HIDE DEF m, n
  <2>2. /\ SubSeq(s,m,n) \in Seq(S) /\ Len(SubSeq(s,m,n)) = IF m<=n THEN n-m+1 ELSE 0
        /\ \A k \in 1 .. n-m+1 : SubSeq(s,m,n)[k] = s[m+k-1]
    BY <2>1, SubSeqProperties
  <2>3. Len(SubSeq(s,m,n)) = n - i
    BY <2>1, <2>2
  <2>4. ASSUME NEW k \in 1..n-i PROVE SubSeq(s,m,n)[k] = s[i+k]
    <3>1. n-m+1 = n-i
      BY <2>1
    <3>2. k \in 1 .. n-m+1 /\ k \in Int
      BY <2>1, <3>1
    <3>3. m+k-1 = i+k
      BY <2>1, <3>2
    <3> QED BY <2>2, <3>2, <3>3
  <2> QED BY <2>2, <2>3, <2>4 DEF m
<1> HIDE DEF u, v, n
<1>4. /\ t \in Seq(S) /\ Len(t) = Len(u) + Len(v)
      /\ \A j \in 1 .. Len(u) + Len(v) : t[j] = IF j <= Len(u) THEN u[j] ELSE v[j - Len(u)]
  BY <1>2, <1>3, ConcatProperties
<1> HIDE DEF t
<1>5. Len(t) = n - 1 /\ DOMAIN t = 1..n-1 /\ i \in Int
  <2>1. Len(t) = n - 1
    BY <1>1, <1>2, <1>3, <1>4
  <2> QED BY <1>1, <1>4, <2>1, LenProperties
<1>6. \A j \in 1..n-1 : /\ j < i => t[j] = s[j]
                        /\ i <= j => t[j] = s[j+1]
  <2> SUFFICES ASSUME NEW j \in 1..n-1
               PROVE  (j < i => t[j] = s[j]) /\ (i <= j => t[j] = s[j+1])
    OBVIOUS
  <2>1. j \in 1 .. Len(u) + Len(v)
    BY <1>1, <1>2, <1>3
  <2>2. j < i => j <= Len(u) /\ j \in 1..i-1
    BY <1>1, <1>2
  <2>3. i <= j => ~ (j <= Len(u)) /\ j - Len(u) \in 1..n-i /\ i + (j - Len(u)) = j + 1
    BY <1>1, <1>2
  <2> QED BY <1>2, <1>3, <1>4, <2>1, <2>2, <2>3
<1>7. \A j \in DOMAIN t : \E k \in DOMAIN s : k # i /\ t[j] = s[k]
  <2> SUFFICES ASSUME NEW j \in 1..n-1 PROVE \E k \in 1..n : k # i /\ t[j] = s[k]
    BY <1>1, <1>5
  <2>1. CASE j < i
    BY <1>1, <1>6, <2>1
  <2>2. CASE i <= j
    <3>1. j + 1 \in 1..n /\ j + 1 # i
      BY <1>1, <2>2
    <3> QED BY <1>6, <2>2, <3>1
  <2> QED BY <1>5, <2>1, <2>2
<1>8. \A k \in DOMAIN s : k # i => \E j \in DOMAIN t : t[j] = s[k]
  <2> SUFFICES ASSUME NEW k \in 1..n, k # i PROVE \E j \in 1..n-1 : t[j] = s[k]
    BY <1>1, <1>5
  <2>1. CASE k < i
    <3>1. k \in 1..n-1
      BY <1>1, <2>1
    <3> QED BY <1>6, <2>1, <3>1
  <2>2. CASE i < k
    <3>1. k - 1 \in 1..n-1 /\ i <= k - 1 /\ (k - 1) + 1 = k
      BY <1>1, <1>5, <2>2
    <3> QED BY <1>6, <3>1
  <2> QED BY <1>1, <1>5, <2>1, <2>2
<1> QED BY <1>4, <1>7, <1>8 DEF t, u, v, n, RemoveAt

\* The SDUs of PDUs are SDUs.
LEMMA SdusOfIs ==
  ASSUME NEW pos, Marks(pos), NEW I, \A i \in I : PduOk(inFlight[i], pos)
  PROVE  SdusOf(I) \subseteq 1..NumSdu
<1>1. ASSUME NEW i \in I, NEW s \in Range(inFlight[i].sdus) PROVE s[1][1] \in 1..NumSdu
  <2> DEFINE p == inFlight[i]
  <2> DEFINE a == pos[p.num]
  <2> DEFINE b == pos[p.num + 1]
  <2>1. p.num \in Int /\ p.num + 1 \in Int /\ a < b /\ b <= Total /\ p.sdus = Segments(a, b)
    BY DEF PduOk, Carries
  <2>2. a \in Nat /\ b \in Int
    BY <2>1 DEF Marks
  <2> HIDE DEF a, b
  <2>3. SegmentsIn(p.sdus, a, b)
    BY <2>1, <2>2, SegmentsIs
  <2>4. PICK j \in DOMAIN p.sdus : s = p.sdus[j]
    BY DEF Range
  <2>5. j \in 1..Len(p.sdus)
    BY <2>3, <2>4, LenProperties DEF SegmentsIn
  <2> QED BY <2>3, <2>4, <2>5 DEF SegmentsIn
<1> QED BY <1>1 DEF SdusOf

\* Where a PDU on its way lies from VR(UH): BurstAssumption.
LEMMA OnItsWay ==
  ASSUME NEW H \in Int, NEW pos, LinkInv(H, pos), NEW i \in DOMAIN inFlight
  PROVE  /\ inFlight[i].num \in Int /\ inFlight[i].sn = Sn(inFlight[i].num)
         /\ H - Window <= inFlight[i].num /\ inFlight[i].num < H + Window
         /\ seqNo - 1 <= inFlight[i].num + Overtake /\ inFlight[i].num < seqNo
         /\ seqNo <= H + Window
<1>1. /\ MaxBurst \in Nat /\ Overtake \in Nat /\ Window \in Nat /\ MaxBurst + Overtake < Window
  BY UmAssumption, BurstAssumption
<1>2. /\ seqNo \in Int /\ H <= seqNo
      /\ \A j \in DOMAIN inFlight : /\ inFlight[j].num \in Int /\ inFlight[j].sn = Sn(inFlight[j].num)
                                    /\ seqNo - 1 <= inFlight[j].num + Overtake
                                    /\ inFlight[j].num < seqNo
  BY DEF LinkInv, PduOk
<1>3. seqNo <= H + MaxBurst + Overtake + 1
  <2>1. SUFFICES ASSUME ~ (seqNo <= H + MaxBurst + Overtake + 1) PROVE FALSE
    OBVIOUS
  <2> DEFINE m == H + MaxBurst
  <2>2. m \in m .. seqNo - 1 /\ m + Overtake < seqNo - 1
    BY <1>1, <1>2, <2>1
  <2>3. \E j \in DOMAIN inFlight : inFlight[j].num = m
    BY <2>2 DEF LinkInv
  <2> HIDE DEF m
  <2>4. PICK j \in DOMAIN inFlight : inFlight[j].num = m
    BY <2>3
  <2>5. seqNo - 1 <= m + Overtake
    BY <1>2, <2>4
  <2> QED BY <1>1, <1>2, <2>2, <2>4, <2>5
<1>4. seqNo <= H + Window
  BY <1>1, <1>2, <1>3
<1> QED BY <1>1, <1>2, <1>4

\* The reassembly, the window and the buffer do not change when the link does.
LEMMA SendStep ==
  ASSUME NEW U \in Int, NEW X \in Int, NEW H \in Int, NEW E \in Int, NEW pos,
         Inv(U, X, H, E, pos), NEW n \in 1..MaxTake, Send(n)
  PROVE  \E pos2 : Inv(U, X, H, E, pos2)'
<1> DEFINE p == [num |-> seqNo, sn |-> Sn(seqNo), sdus |-> Segments(sent, sent + n),
                 first |-> IsFirst(Stream[sent+1]), last |-> IsLast(Stream[sent+n])]
<1>0. PICK pos2 : pos2 = [m \in Int |-> IF m <= seqNo THEN pos[m] ELSE sent + n]
  OBVIOUS
<1>1. /\ n <= Len(Stream) - sent
      /\ \A i \in DOMAIN inFlight : seqNo - inFlight[i].num <= Overtake
      /\ timer => Off(Sn(seqNo), vrUx) < perTimer
      /\ inFlight' = Append(inFlight, p) /\ sent' = sent + n /\ seqNo' = seqNo + 1
      /\ perTimer' = perTimer /\ losses' = losses /\ damaged' = damaged /\ reasm' = reasm
      /\ vrUr' = vrUr /\ vrUx' = vrUx /\ vrUh' = vrUh /\ rxBuffer' = rxBuffer /\ timer' = timer
  BY DEF Send, window
<1>2. /\ WindowInv(U, X, H) /\ LinkInv(H, pos) /\ StreamInv(pos) /\ PdusOk(rxBuffer, pos)
      /\ ReadInv(U, H, E, pos) /\ (SlowInv(X) \/ ShortInv(U)) /\ BoundsInv
  BY DEF Inv
<1>3. /\ seqNo \in Int /\ H <= seqNo /\ perTimer \in Nat /\ inFlight \in Seq(Pdu)
      /\ Overtake \in Nat /\ MaxBurst \in Nat /\ n \in Nat /\ n > 0
  BY <1>2, UmAssumption DEF LinkInv
<1>4. /\ sent \in Nat /\ sent + n <= Total /\ Total \in Nat /\ sent + n \in Nat
      /\ Marks(pos) /\ pos \in [Int -> Nat] /\ \A m \in Int : seqNo <= m => pos[m] = sent
  <2>1. Len(Stream) = Total /\ Total \in Nat
    BY StreamIs, <1>3
  <2>2. /\ sent \in 0..Total /\ Marks(pos) /\ pos \in [Int -> Nat]
        /\ \A m \in Int : seqNo <= m => pos[m] = sent
    BY <1>2 DEF StreamInv, Marks
  <2>3. n <= Total - sent
    BY <1>1, <2>1
  <2>4. sent \in Nat /\ sent + n <= Total /\ sent + n \in Nat
    BY <1>3, <2>1, <2>2, <2>3
  <2> QED BY <2>1, <2>2, <2>4
<1>5. \A m \in Int : /\ m <= seqNo => pos2[m] = pos[m]
                     /\ ~ (m <= seqNo) => pos2[m] = sent + n
  <2> SUFFICES ASSUME NEW m \in Int
               PROVE  (m <= seqNo => pos2[m] = pos[m]) /\ (~ (m <= seqNo) => pos2[m] = sent + n)
    OBVIOUS
  <2>1. pos2[m] = IF m <= seqNo THEN pos[m] ELSE sent + n
    BY <1>0
  <2> QED BY <2>1
<1>6. Marks(pos2)
  <2>1. pos2 \in [Int -> Nat]
    BY <1>0, <1>4
  <2>2. ASSUME NEW m \in Int, NEW k \in Int, m <= k PROVE pos2[m] <= pos2[k]
    <3>1. pos[m] <= pos[k] /\ pos[m] \in Nat /\ pos[k] \in Nat
      BY <1>4, <2>2 DEF Marks
    <3>2. CASE k <= seqNo
      BY <1>3, <1>5, <2>2, <3>1, <3>2
    <3>3. CASE m <= seqNo /\ ~ (k <= seqNo)
      <4>1. pos[k] = sent
        BY <1>3, <1>4, <3>3
      <4>2. pos2[m] = pos[m] /\ pos2[k] = sent + n
        BY <1>5, <3>3
      <4> QED BY <1>3, <1>4, <3>1, <4>1, <4>2
    <3>4. CASE ~ (m <= seqNo) /\ ~ (k <= seqNo)
      <4>1. pos2[m] = sent + n /\ pos2[k] = sent + n
        BY <1>5, <3>4
      <4> QED BY <1>4, <4>1
    <3> QED BY <1>3, <2>2, <3>2, <3>3, <3>4
  <2> QED BY <2>1, <2>2 DEF Marks
<1>7. ASSUME NEW f, PduOk(f, pos), f.num < seqNo PROVE PduOk(f, pos2)
  <2>1. f.num \in Int /\ f.num + 1 \in Int /\ f.num <= seqNo /\ f.num + 1 <= seqNo
    BY <1>3, <1>7 DEF PduOk
  <2>2. pos2[f.num] = pos[f.num] /\ pos2[f.num + 1] = pos[f.num + 1]
    BY <1>5, <2>1
  <2> QED BY <1>7, <2>2 DEF PduOk
<1>8. PduOk(p, pos2) /\ p \in Pdu /\ p.num = seqNo
  <2>1. pos2[seqNo] = sent /\ pos2[seqNo + 1] = sent + n
    <3>1. seqNo + 1 \in Int /\ ~ (seqNo + 1 <= seqNo) /\ seqNo <= seqNo
      BY <1>3
    <3> QED BY <1>3, <1>4, <1>5, <3>1
  <2>2. Sn(seqNo) \in Int
    BY <1>3, SnType, ModulusType
  <2>3. Segments(sent, sent + n) \in Seq(Seq(Part))
    <3>1. sent < sent + n
      BY <1>3, <1>4
    <3> QED BY <1>4, <3>1, SegmentsIs DEF SegmentsIn
  <2>4. IsFirst(Stream[sent+1]) \in BOOLEAN /\ IsLast(Stream[sent+n]) \in BOOLEAN
    BY DEF IsFirst, IsLast
  <2>5. p \in Pdu /\ p.num = seqNo /\ p.sn = Sn(seqNo)
    BY <1>3, <2>2, <2>3, <2>4 DEF Pdu
  <2>6. Carries(p, sent, sent + n)
    BY DEF Carries
  <2>7. sent < sent + n
    BY <1>3, <1>4
  <2> HIDE DEF p
  <2> QED BY <1>3, <1>4, <2>1, <2>5, <2>6, <2>7 DEF PduOk
<1> HIDE DEF p
<1>9. /\ inFlight' \in Seq(Pdu) /\ DOMAIN inFlight = 1..Len(inFlight) /\ Len(inFlight) \in Nat
      /\ DOMAIN inFlight' = 1..Len(inFlight) + 1
      /\ \A i \in 1..Len(inFlight) : inFlight'[i] = inFlight[i]
      /\ inFlight'[Len(inFlight) + 1] = p
  <2>1. /\ inFlight' \in Seq(Pdu) /\ Len(inFlight') = Len(inFlight) + 1
        /\ \A i \in 1..Len(inFlight) : inFlight'[i] = inFlight[i]
        /\ inFlight'[Len(inFlight) + 1] = p
    BY <1>1, <1>3, <1>8, AppendProperties
  <2> QED BY <1>3, <2>1, LenProperties
<1>10. LinkInv(H, pos2)'
  <2>1. H <= seqNo + 1 /\ seqNo + 1 \in Int
    BY <1>3
  <2>2. ASSUME NEW i \in DOMAIN inFlight'
        PROVE  /\ PduOk(inFlight'[i], pos2)
               /\ seqNo' - 1 <= inFlight'[i].num + Overtake /\ inFlight'[i].num < seqNo'
    <3>1. CASE i \in 1..Len(inFlight)
      <4> DEFINE k == inFlight[i].num
      <4>1. PduOk(inFlight[i], pos) /\ k < seqNo /\ seqNo - k <= Overtake /\ k \in Int
        BY <1>1, <1>2, <1>9, <3>1 DEF LinkInv, PduOk
      <4>2. PduOk(inFlight[i], pos2)
        BY <1>7, <4>1
      <4>3. inFlight'[i] = inFlight[i]
        BY <1>9, <3>1
      <4>4. seqNo' - 1 <= k + Overtake /\ k < seqNo'
        <5> HIDE DEF k
        <5> QED BY <1>1, <1>3, <4>1
      <4> QED BY <4>2, <4>3, <4>4
    <3>2. CASE i = Len(inFlight) + 1
      <4>1. inFlight'[i] = p
        BY <1>9, <3>2
      <4>2. seqNo' - 1 <= seqNo + Overtake /\ seqNo < seqNo'
        BY <1>1, <1>3
      <4> QED BY <1>8, <4>1, <4>2
    <3> QED BY <1>9, <3>1, <3>2
  <2>3. ASSUME NEW m \in H + MaxBurst .. seqNo' - 1
        PROVE  \E i \in DOMAIN inFlight' : inFlight'[i].num = m
    <3>1. CASE m = seqNo
      <4>1. Len(inFlight) + 1 \in DOMAIN inFlight'
        BY <1>9
      <4> QED BY <1>8, <1>9, <3>1, <4>1
    <3>2. CASE m # seqNo
      <4>1. m \in H + MaxBurst .. seqNo - 1
        BY <1>1, <1>3, <3>2
      <4>2. PICK i \in DOMAIN inFlight : inFlight[i].num = m
        BY <1>2, <4>1 DEF LinkInv
      <4>3. i \in DOMAIN inFlight' /\ inFlight'[i] = inFlight[i]
        BY <1>9
      <4> QED BY <4>2, <4>3
    <3> QED BY <3>1, <3>2
  <2> QED BY <1>1, <1>3, <1>9, <2>1, <2>2, <2>3 DEF LinkInv
<1>11. StreamInv(pos2)'
  <2>1. \A m \in Int : seqNo + 1 <= m => pos2[m] = sent + n
    <3>1. \A m \in Int : seqNo + 1 <= m => ~ (m <= seqNo)
      BY <1>3
    <3> QED BY <1>5, <3>1
  <2>2. sent + n \in 0..Total
    BY <1>4
  <2> QED BY <1>1, <1>6, <2>1, <2>2 DEF StreamInv
<1>12. PdusOk(rxBuffer, pos2)'
  <2>1. ASSUME NEW sn \in DOMAIN rxBuffer PROVE PduOk(rxBuffer[sn], pos2)
    <3>1. rxBuffer[sn].num < H /\ rxBuffer[sn].num \in Int
      BY <1>2 DEF WindowInv, Buffered
    <3>2. rxBuffer[sn].num < seqNo
      BY <1>3, <3>1
    <3> QED BY <1>2, <1>7, <3>2 DEF PdusOk
  <2> QED BY <1>1, <2>1 DEF PdusOk
<1>13. ReadInv(U, H, E, pos2)'
  <2>1. E <= seqNo
    BY <1>2, <1>3 DEF ReadInv, WindowInv
  <2>2. pos2[E] = pos[E]
    BY <1>5, <2>1
  <2> QED BY <1>1, <1>2, <2>2 DEF ReadInv, Waits, Has
<1>14. WindowInv(U, X, H)' /\ BoundsInv'
  BY <1>1, <1>2 DEF WindowInv, BoundsInv
<1>15. CASE SlowInv(X)
  <2>1. timer => seqNo + 1 <= X + HalfWindow
    <3>1. SUFFICES ASSUME timer PROVE seqNo + 1 <= X + HalfWindow
      OBVIOUS
    <3>2. X <= H /\ vrUx = Sn(X) /\ seqNo <= X + HalfWindow /\ perTimer <= HalfWindow
      BY <1>2, <1>15, <3>1 DEF WindowInv, SlowInv
    <3>3. X <= seqNo /\ seqNo < X + Modulus
      BY <1>3, <3>2, HalfWindowIs, ModulusType
    <3>4. Off(Sn(seqNo), Sn(X)) = seqNo - X
      BY <1>3, <3>3, OffIs
    <3>5. seqNo - X < perTimer
      BY <1>1, <3>1, <3>2, <3>4
    <3> QED BY <1>3, <3>2, <3>5, HalfWindowIs
  <2>2. SlowInv(X)'
    BY <1>1, <1>15, <2>1 DEF SlowInv
  <2> QED BY <1>6, <1>10, <1>11, <1>12, <1>13, <1>14, <2>2 DEF Inv
<1>16. CASE ShortInv(U)
  <2>1. seqNo + 1 + (Total - (sent + n)) <= Modulus
    <3>1. seqNo + (Total - sent) <= Modulus
      BY <1>16 DEF ShortInv
    <3> QED BY <1>3, <1>4, <3>1, ModulusType
  <2>2. ShortInv(U)'
    BY <1>1, <1>16, <2>1 DEF ShortInv
  <2> QED BY <1>6, <1>10, <1>11, <1>12, <1>13, <1>14, <2>2 DEF Inv
<1> QED BY <1>2, <1>15, <1>16

\* A PDU less, that is none of those after a burst.
LEMMA LinkLess ==
  ASSUME NEW H \in Int, NEW H2 \in Int, H <= H2, H2 <= seqNo, NEW pos, LinkInv(H, pos),
         NEW i \in DOMAIN inFlight, inFlight[i].num < H2 + MaxBurst,
         inFlight' = RemoveAt(inFlight, i), seqNo' = seqNo, perTimer' = perTimer
  PROVE  LinkInv(H2, pos)'
<1>1. /\ seqNo \in Int /\ perTimer \in Nat /\ inFlight \in Seq(Pdu)
      /\ \A k \in DOMAIN inFlight :
           /\ PduOk(inFlight[k], pos) /\ inFlight[k].num \in Int
           /\ seqNo - 1 <= inFlight[k].num + Overtake /\ inFlight[k].num < seqNo
      /\ \A m \in H + MaxBurst .. seqNo - 1 : \E k \in DOMAIN inFlight : inFlight[k].num = m
  BY DEF LinkInv, PduOk
<1>2. /\ inFlight' \in Seq(Pdu)
      /\ \A j \in DOMAIN inFlight' : \E k \in DOMAIN inFlight : k # i /\ inFlight'[j] = inFlight[k]
      /\ \A k \in DOMAIN inFlight : k # i => \E j \in DOMAIN inFlight' : inFlight'[j] = inFlight[k]
  BY <1>1, RemoveAtIs
<1>3. ASSUME NEW m \in H2 + MaxBurst .. seqNo - 1
      PROVE  \E j \in DOMAIN inFlight' : inFlight'[j].num = m
  <2> DEFINE n == inFlight[i].num
  <2>1. m \in H + MaxBurst .. seqNo - 1 /\ n # m
    <3>1. n \in Int /\ n < H2 + MaxBurst /\ MaxBurst \in Nat
      BY <1>1, UmAssumption
    <3> HIDE DEF n
    <3> QED BY <1>1, <3>1
  <2>2. PICK k \in DOMAIN inFlight : inFlight[k].num = m
    BY <1>1, <2>1
  <2>3. k # i
    BY <2>1, <2>2
  <2> QED BY <1>2, <2>2, <2>3
<1>4. \A j \in DOMAIN inFlight' :
        /\ PduOk(inFlight'[j], pos)
        /\ seqNo - 1 <= inFlight'[j].num + Overtake /\ inFlight'[j].num < seqNo
  BY <1>1, <1>2
<1> QED BY <1>1, <1>2, <1>3, <1>4 DEF LinkInv

\* A lost PDU.
LEMMA LoseStep ==
  ASSUME NEW U \in Int, NEW X \in Int, NEW H \in Int, NEW E \in Int, NEW pos,
         Inv(U, X, H, E, pos), NEW i \in DOMAIN inFlight, Lose(i)
  PROVE  Inv(U, X, H, E, pos)'
<1>1. /\ losses < MaxLost /\ Off(inFlight[i].sn, Base(vrUh)) < Window + MaxBurst
      /\ inFlight' = RemoveAt(inFlight, i) /\ losses' = losses + 1
      /\ damaged' = damaged \union SdusOf({i})
      /\ perTimer' = perTimer /\ sent' = sent /\ seqNo' = seqNo /\ reasm' = reasm
      /\ vrUr' = vrUr /\ vrUx' = vrUx /\ vrUh' = vrUh /\ rxBuffer' = rxBuffer /\ timer' = timer
  BY DEF Lose, window
<1>2. /\ WindowInv(U, X, H) /\ LinkInv(H, pos) /\ StreamInv(pos) /\ PdusOk(rxBuffer, pos)
      /\ ReadInv(U, H, E, pos) /\ (SlowInv(X) \/ ShortInv(U)) /\ BoundsInv
  BY DEF Inv
<1> DEFINE n == inFlight[i].num
<1>3. n \in Int /\ inFlight[i].sn = Sn(n) /\ H - Window <= n /\ n < H + Window
  BY <1>2, OnItsWay
<1>4. n < H + MaxBurst
  <2> DEFINE B == H - Window
  <2>1. B \in Int /\ B <= n /\ n < B + Modulus
    BY <1>3, ModulusType
  <2>2. Base(vrUh) = Sn(B)
    BY <1>2, BaseIs DEF WindowInv
  <2> HIDE DEF n, B
  <2>3. Off(Sn(n), Sn(B)) = n - B
    BY <1>3, <2>1, OffIs
  <2>4. n - B < Window + MaxBurst
    BY <1>1, <1>3, <2>2, <2>3 DEF n
  <2> QED BY <1>3, <2>4, ModulusType, UmAssumption DEF B
<1>5. LinkInv(H, pos)'
  <2>1. H <= H /\ H <= seqNo
    BY <1>2 DEF LinkInv
  <2> QED BY <1>1, <1>2, <1>4, <2>1, LinkLess
<1>6. BoundsInv'
  <2>1. SdusOf({i}) \subseteq 1..NumSdu
    <3>1. Marks(pos) /\ \A k \in {i} : PduOk(inFlight[k], pos)
      BY <1>2 DEF StreamInv, LinkInv
    <3> QED BY <3>1, SdusOfIs
  <2>2. losses + 1 \in 0..MaxLost
    BY <1>1, <1>2, UmAssumption DEF BoundsInv
  <2> QED BY <1>1, <1>2, <2>1, <2>2 DEF BoundsInv
<1>7. WindowInv(U, X, H)' /\ StreamInv(pos)' /\ PdusOk(rxBuffer, pos)' /\ ReadInv(U, H, E, pos)'
  BY <1>1, <1>2 DEF WindowInv, StreamInv, PdusOk, ReadInv, Waits, Has
<1>8. SlowInv(X)' \/ ShortInv(U)'
  BY <1>1, <1>2 DEF SlowInv, ShortInv
<1> QED BY <1>5, <1>6, <1>7, <1>8 DEF Inv

------------------------------------------------------------------------------
(* What is read of the PDUs when one arrives *)

\* A buffer of PDUs all read up to E, or waiting behind it.
Unread(f, U, H, E, pos) ==
  /\ Buffered(f, U, H) /\ H - Window <= U /\ U <= H /\ PdusOk(f, pos) /\ E <= U /\ Waits(f, H, E)

\* A PDU that is placed in it.
Comes(p, U, H, pos) == PduOk(p, pos) /\ U <= p.num /\ p.num < H + Window

\* The buffer that has come of it.
Merged(b, U, H, H2, E, pos) ==
  /\ H2 \in Int /\ H <= H2 /\ H2 <= H + Window
  /\ \A sn \in DOMAIN b : /\ PduOk(b[sn], pos) /\ b[sn].num \in Int /\ sn = Sn(b[sn].num)
                          /\ U <= b[sn].num /\ b[sn].num < H2
  /\ Has(b, H2 - 1)
  /\ E = H => \A sn \in DOMAIN b : b[sn].num = H2 - 1
  /\ E # H => \E sn \in DOMAIN b : b[sn].num < E + Modulus

\* A PDU that comes makes it one of these.
LEMMA MergedIs ==
  ASSUME NEW pos, Marks(pos), NEW U \in Int, NEW H \in Int, NEW E \in Int,
         NEW f, Unread(f, U, H, E, pos), NEW p, Comes(p, U, H, pos)
  PROVE  Merged(Filed(f, p), U, H, Advanced(p.num, H), E, pos)
<1> DEFINE n == p.num
<1> DEFINE H2 == Advanced(n, H)
<1>1. n \in Int /\ p.sn = Sn(n) /\ U <= n /\ n < H + Window /\ PduOk(p, pos)
  BY DEF Comes, PduOk
<1>2. /\ Buffered(f, U, H) /\ H - Window <= U /\ U <= H /\ PdusOk(f, pos) /\ E <= U /\ Waits(f, H, E)
  BY DEF Unread
<1>3. PICK b : b = Filed(f, p)
  OBVIOUS
<1>4. /\ Buffered(b, U, H2) /\ DOMAIN b = DOMAIN f \union {p.sn} /\ b[p.sn] = p
      /\ \A sn \in DOMAIN f : sn \in DOMAIN b /\ b[sn].num = f[sn].num /\ b[sn] \in {f[sn], p}
  <2>1. /\ Buffered(Filed(f, p), U, Advanced(p.num, H))
        /\ DOMAIN Filed(f, p) = DOMAIN f \union {p.sn} /\ Filed(f, p)[p.sn] = p
        /\ \A sn \in DOMAIN f : /\ sn \in DOMAIN Filed(f, p)
                                /\ Filed(f, p)[sn].num = f[sn].num
                                /\ Filed(f, p)[sn] \in {f[sn], p}
    BY <1>1, <1>2, FiledIs
  <2> QED BY <1>3, <2>1
<1>5. /\ H2 \in Int /\ H <= H2 /\ H2 <= H + Window
      /\ (n < H /\ H2 = H) \/ (H <= n /\ n = H2 - 1)
  BY <1>1, ModulusType DEF Advanced
<1> HIDE DEF H2, n
<1>6. ASSUME NEW sn \in DOMAIN b
      PROVE  /\ PduOk(b[sn], pos) /\ b[sn].num \in Int /\ sn = Sn(b[sn].num)
             /\ U <= b[sn].num /\ b[sn].num < H2
  <2>1. b[sn].num \in Int /\ sn = Sn(b[sn].num) /\ U <= b[sn].num /\ b[sn].num < H2
    BY <1>4 DEF Buffered
  <2>2. PduOk(b[sn], pos)
    <3>1. CASE sn = p.sn
      BY <1>1, <1>4, <3>1
    <3>2. CASE sn \in DOMAIN f
      BY <1>1, <1>2, <1>4, <3>2 DEF PdusOk
    <3> QED BY <1>4, <3>1, <3>2
  <2> QED BY <2>1, <2>2
<1>7. CASE E = H
  <2>1. U = H /\ H <= n /\ n = H2 - 1
    BY <1>1, <1>2, <1>5, <1>7
  <2>2. \A sn \in DOMAIN f : FALSE
    BY <1>2, <2>1 DEF Buffered
  <2>3. \A sn \in DOMAIN b : b[sn].num = H2 - 1
    BY <1>4, <2>1, <2>2 DEF n
  <2>4. Has(b, H2 - 1)
    BY <1>1, <1>4, <2>1 DEF Has, n
  <2> QED BY <1>3, <1>5, <1>6, <1>7, <2>3, <2>4 DEF Merged, H2, n
<1>8. CASE E # H
  <2>1. Has(f, H - 1) /\ \E sn \in DOMAIN f : f[sn].num < E + Modulus
    BY <1>2, <1>8 DEF Waits
  <2>2. \E sn \in DOMAIN b : b[sn].num < E + Modulus
    BY <1>4, <2>1
  <2>3. Has(b, H2 - 1)
    <3>1. CASE n < H /\ H2 = H
      BY <1>4, <2>1, <3>1 DEF Has
    <3>2. CASE n = H2 - 1
      BY <1>1, <1>4, <3>2 DEF Has, n
    <3> QED BY <1>5, <3>1, <3>2
  <2> QED BY <1>3, <1>5, <1>6, <1>8, <2>2, <2>3 DEF Merged, H2, n
<1> QED BY <1>7, <1>8

\* ReassembleOutsideWindow.
LEMMA FirstRead ==
  ASSUME NEW pos, Marks(pos), NEW U \in Int, NEW H \in Int, NEW E \in Int, E <= U, E <= H,
         NEW b, NEW H2 \in Int, Merged(b, U, H, H2, E, pos),
         NEW S, S = Below(b, H2 - Window),
         S = {} \/ \A sn \in DOMAIN b : b[sn].num \in 0..Modulus-1,
         NEW r, Reads(r, E, pos[E])
  PROVE  \E E1 \in Int : /\ Reads(ReassembleAll(r, b, S, 0), E1, pos[E1])
                         /\ Extends(r.delivered, ReassembleAll(r, b, S, 0).delivered)
                         /\ ReadTo(b, S, E, E1)
<1>1. /\ \A sn \in DOMAIN b : /\ PduOk(b[sn], pos) /\ b[sn].num \in Int /\ sn = Sn(b[sn].num)
                              /\ U <= b[sn].num /\ b[sn].num < H2
      /\ E = H => \A sn \in DOMAIN b : b[sn].num = H2 - 1
      /\ E # H => \E sn \in DOMAIN b : b[sn].num < E + Modulus
  BY DEF Merged
<1>2. S \subseteq DOMAIN b /\ \A sn \in DOMAIN b : sn \in S <=> b[sn].num < H2 - Window
  BY DEF Below
<1>3. ASSUME NEW z \in S PROVE \E sn \in S : b[sn].num < E + Modulus
  <2> DEFINE m == b[z].num
  <2>1. m \in Int /\ m < H2 - Window /\ z \in DOMAIN b
    BY <1>1, <1>2
  <2>2. E # H
    <3>1. E = H => m = H2 - 1
      BY <1>1, <2>1
    <3> HIDE DEF m
    <3> QED BY <2>1, <3>1, ModulusType
  <2>3. PICK y \in DOMAIN b : b[y].num < E + Modulus
    BY <1>1, <2>2
  <2>4. CASE y \in S
    BY <2>3, <2>4
  <2>5. CASE y \notin S
    <3> DEFINE k == b[y].num
    <3>1. k \in Int /\ ~ (k < H2 - Window) /\ k < E + Modulus
      BY <1>1, <1>2, <2>3, <2>5
    <3> HIDE DEF k, m
    <3>2. m < E + Modulus
      BY <2>1, <3>1, ModulusType
    <3> QED BY <3>2 DEF m
  <2> QED BY <2>4, <2>5
<1>4. ASSUME NEW sn \in S
      PROVE  /\ PduOk(b[sn], pos) /\ sn = Sn(b[sn].num)
             /\ 0 <= b[sn].num /\ b[sn].num < 0 + Modulus /\ E <= b[sn].num
  <2> DEFINE m == b[sn].num
  <2>1. PduOk(b[sn], pos) /\ sn = Sn(m) /\ m \in Int /\ U <= m
    BY <1>1, <1>2
  <2>2. m \in 0..Modulus-1
    BY <1>2
  <2> HIDE DEF m
  <2>3. 0 <= m /\ m < 0 + Modulus /\ E <= m
    BY <2>1, <2>2, ModulusType
  <2> QED BY <2>1, <2>3 DEF m
<1>5. Readable(b, S, 0, E, pos)
  <2>1. S # {} => \E sn \in S : b[sn].num < E + Modulus
    BY <1>3
  <2> QED BY <1>2, <1>4, <2>1 DEF Readable
<1>6. \A k \in 1..Modulus : Sn(0 + k - 1) = Sn(0 + k - 1)
  OBVIOUS
<1> QED BY <1>5, <1>6, ReassembleAllIs

\* A buffer of which those before a number are gone.
Rest(K, b, k) ==
  /\ DOMAIN K \subseteq DOMAIN b
  /\ \A sn \in DOMAIN b : sn \in DOMAIN K <=> k <= b[sn].num
  /\ \A sn \in DOMAIN K : K[sn] = b[sn]

\* ReassembleSnInterval: what is in order.
LEMMA SecondRead ==
  ASSUME NEW pos, Marks(pos), NEW U \in Int, NEW H \in Int, NEW E \in Int,
         E <= U, H - Window <= U, U <= H,
         NEW b, NEW H2 \in Int, Merged(b, U, H, H2, E, pos),
         NEW S, S = Below(b, H2 - Window), NEW E1 \in Int, ReadTo(b, S, E, E1),
         NEW L \in Int, NEW U2 \in Int, U <= L, H2 - Window <= L, L <= U2, U2 <= H2,
         NEW K, Rest(K, b, H2 - Window), Buffered(K, L, H2),
         NEW r, Reads(r, E1, pos[E1])
  PROVE  /\ \E E2 \in Int :
              /\ Reads(ReassembleAll(r, K, Below(K, U2), Sn(L)), E2, pos[E2])
              /\ Extends(r.delivered, ReassembleAll(r, K, Below(K, U2), Sn(L)).delivered)
              /\ E2 <= U2 /\ Waits(From(K, U2), H2, E2)
         /\ PdusOk(From(K, U2), pos)
<1>1. /\ H <= H2 /\ H2 <= H + Window
      /\ \A sn \in DOMAIN b : /\ PduOk(b[sn], pos) /\ b[sn].num \in Int /\ sn = Sn(b[sn].num)
                              /\ U <= b[sn].num /\ b[sn].num < H2
      /\ Has(b, H2 - 1)
      /\ E = H => \A sn \in DOMAIN b : b[sn].num = H2 - 1
      /\ E # H => \E sn \in DOMAIN b : b[sn].num < E + Modulus
  BY DEF Merged
<1>2. /\ S \subseteq DOMAIN b /\ \A sn \in S : b[sn].num < H2 - Window
      /\ \A sn \in DOMAIN b : b[sn].num < H2 - Window => sn \in S
  BY DEF Below
<1>3. /\ DOMAIN K \subseteq DOMAIN b
      /\ \A sn \in DOMAIN b : sn \in DOMAIN K <=> H2 - Window <= b[sn].num
      /\ \A sn \in DOMAIN K : K[sn] = b[sn]
  BY DEF Rest
<1>4. \A sn \in DOMAIN K : L <= K[sn].num /\ K[sn].num < H2 /\ K[sn].num \in Int
  BY DEF Buffered
<1> DEFINE g == From(K, U2)
<1> DEFINE T == Below(K, U2)
<1>5. /\ DOMAIN g \subseteq DOMAIN K
      /\ \A sn \in DOMAIN K : sn \in DOMAIN g <=> U2 <= K[sn].num
      /\ \A sn \in DOMAIN g : g[sn] = K[sn]
  <2>1. Buffered(K, L, H2) /\ L \in Int /\ H2 \in Int /\ U2 \in Int
    OBVIOUS
  <2> QED BY ONLY <2>1, FromIs
<1>6. T \subseteq DOMAIN K /\ \A sn \in DOMAIN K : sn \in T <=> K[sn].num < U2
  BY DEF Below
<1> HIDE DEF g, T
<1>7. E1 <= L
  <2>1. CASE E1 = E
    BY <2>1
  <2>2. CASE \E sn \in S : E1 = b[sn].num + 1
    <3>1. PICK sn \in S : E1 = b[sn].num + 1
      BY <2>2
    <3> DEFINE m == b[sn].num
    <3>2. m \in Int /\ m < H2 - Window /\ E1 = m + 1
      BY <1>1, <1>2, <3>1
    <3> HIDE DEF m
    <3> QED BY <3>2, ModulusType
  <2> QED BY <2>1, <2>2 DEF ReadTo
\* The PDU to read first is near.
<1>8. \/ \A m \in Int : m < H2 => m < E1 + Modulus
      \/ E1 = E /\ \E y \in DOMAIN K : K[y].num < E1 + Modulus
  <2>1. CASE \E sn \in S : E1 = b[sn].num + 1
    <3>1. PICK sn \in S : E1 = b[sn].num + 1
      BY <2>1
    <3> DEFINE k == b[sn].num
    <3>2. k \in Int /\ U <= k /\ E1 = k + 1
      BY <1>1, <1>2, <3>1
    <3> HIDE DEF k
    <3>3. H2 <= E1 + Modulus
      BY <1>1, <3>2, ModulusType
    <3> QED BY <3>3, ModulusType
  <2>2. CASE S = {} /\ E1 = E /\ E = H
    <3>1. H2 <= E1 + Modulus
      BY <1>1, <2>2, ModulusType
    <3> QED BY <3>1, ModulusType
  <2>3. CASE S = {} /\ E1 = E /\ E # H
    <3>1. PICK y \in DOMAIN b : b[y].num < E + Modulus
      BY <1>1, <2>3
    <3> DEFINE k == b[y].num
    <3>2. k \in Int /\ ~ (k < H2 - Window)
      BY <1>1, <1>2, <2>3
    <3>3. H2 - Window <= k
      <4> HIDE DEF k
      <4> QED BY <3>2, ModulusType
    <3>4. y \in DOMAIN K /\ K[y] = b[y]
      BY <1>3, <3>3
    <3> QED BY <2>3, <3>1, <3>4
  <2> QED BY <2>1, <2>2, <2>3 DEF ReadTo
<1>9. Readable(K, T, L, E1, pos)
  <2>1. ASSUME NEW sn \in T
        PROVE  /\ PduOk(K[sn], pos) /\ sn = Sn(K[sn].num)
               /\ L <= K[sn].num /\ K[sn].num < L + Modulus /\ E1 <= K[sn].num
    <3> DEFINE m == K[sn].num
    <3>1. sn \in DOMAIN K /\ sn \in DOMAIN b /\ K[sn] = b[sn]
      BY <1>3, <1>6
    <3>2. PduOk(K[sn], pos) /\ sn = Sn(m) /\ m \in Int /\ L <= m /\ m < H2
      BY <1>1, <1>4, <3>1
    <3> HIDE DEF m
    <3>3. L <= m /\ m < L + Modulus /\ E1 <= m
      BY <1>7, <3>2, ModulusType
    <3> QED BY <3>2, <3>3 DEF m
  <2>2. ASSUME NEW z \in T PROVE \E sn \in T : K[sn].num < E1 + Modulus
    <3> DEFINE m == K[z].num
    <3>1. z \in DOMAIN K /\ m \in Int /\ m < H2 /\ m < U2
      BY <1>4, <1>6
    <3>2. CASE \A k \in Int : k < H2 => k < E1 + Modulus
      BY <3>1, <3>2
    <3>3. CASE \E y \in DOMAIN K : K[y].num < E1 + Modulus
      <4>1. PICK y \in DOMAIN K : K[y].num < E1 + Modulus
        BY <3>3
      <4>2. CASE y \in T
        BY <4>1, <4>2
      <4>3. CASE y \notin T
        <5> DEFINE k == K[y].num
        <5>1. k \in Int /\ ~ (k < U2) /\ k < E1 + Modulus
          BY <1>4, <1>6, <4>1, <4>3
        <5> HIDE DEF k, m
        <5>2. m < E1 + Modulus
          BY <3>1, <5>1, ModulusType
        <5> QED BY <5>2 DEF m
      <4> QED BY <4>2, <4>3
    <3> QED BY <1>8, <3>2, <3>3
  <2>3. T # {} => \E sn \in T : K[sn].num < E1 + Modulus
    BY <2>2
  <2> QED BY <1>6, <2>1, <2>3 DEF Readable
<1>10. ASSUME NEW k \in 1..Modulus PROVE Sn(Sn(L) + k - 1) = Sn(L + k - 1)
  <2> DEFINE c == k - 1
  <2>1. c \in Int /\ Sn(L) \in Int
    BY SnType, ModulusType
  <2>2. Sn(Sn(L) + c) = Sn(L + c)
    <3> HIDE DEF c
    <3> QED BY <2>1, SnPlus
  <2>3. Sn(L) + k - 1 = Sn(L) + c /\ L + k - 1 = L + c
    BY <2>1, ModulusType
  <2> QED BY <2>2, <2>3
<1>11. PICK E2 \in Int : /\ Reads(ReassembleAll(r, K, T, Sn(L)), E2, pos[E2])
                         /\ Extends(r.delivered, ReassembleAll(r, K, T, Sn(L)).delivered)
                         /\ ReadTo(K, T, E1, E2)
  BY <1>9, <1>10, ReassembleAllIs
<1>12. E2 <= U2
  <2>1. CASE E2 = E1
    BY <1>7, <2>1
  <2>2. CASE \E sn \in T : E2 = K[sn].num + 1
    <3>1. PICK sn \in T : E2 = K[sn].num + 1
      BY <2>2
    <3> DEFINE m == K[sn].num
    <3>2. m \in Int /\ m < U2 /\ E2 = m + 1
      BY <1>4, <1>6, <3>1
    <3> HIDE DEF m
    <3> QED BY <3>2
  <2> QED BY <1>11, <2>1, <2>2 DEF ReadTo
<1> DEFINE t == Sn(H2 - 1)
<1>13. t \in DOMAIN K /\ K[t].num = H2 - 1
  <2>1. t \in DOMAIN b /\ b[t].num = H2 - 1
    BY <1>1 DEF Has
  <2>2. H2 - Window <= H2 - 1
    BY ModulusType
  <2> QED BY <1>3, <2>1, <2>2
<1> HIDE DEF t
<1>14. ASSUME U2 = H2 PROVE Waits(g, H2, E2)
  <2>1. t \in T
    BY <1>6, <1>13, <1>14
  <2>2. PICK sn \in T : E2 = K[sn].num + 1 /\ \A s \in T : K[s].num <= K[sn].num
    BY <1>11, <2>1 DEF ReadTo
  <2> DEFINE m == K[sn].num
  <2>3. m \in Int /\ m < H2 /\ H2 - 1 <= m /\ E2 = m + 1
    BY <1>4, <1>6, <1>13, <2>1, <2>2
  <2> HIDE DEF m
  <2>4. E2 = H2
    BY <2>3
  <2> QED BY <2>4 DEF Waits
<1>15. ASSUME U2 < H2 PROVE Waits(g, H2, E2)
  <2>1. U2 <= H2 - 1
    BY <1>15
  <2>2. t \in DOMAIN g /\ g[t].num = H2 - 1
    BY <1>5, <1>13, <2>1
  <2>3. Has(g, H2 - 1)
    BY <2>2 DEF Has, t
  <2>4. CASE H2 - 1 < E2 + Modulus
    BY <2>2, <2>3, <2>4 DEF Waits
  <2>5. CASE ~ (H2 - 1 < E2 + Modulus)
    <3>1. E2 = E1 /\ T = {}
      <4>1. SUFFICES ASSUME NEW sn \in T, E2 = K[sn].num + 1 PROVE FALSE
        BY <1>11 DEF ReadTo
      <4> DEFINE m == K[sn].num
      <4>2. m \in Int /\ L <= m /\ E2 = m + 1
        BY <1>4, <1>6, <4>1
      <4> HIDE DEF m
      <4> QED BY <2>5, <4>2, ModulusType
    <3>2. PICK y \in DOMAIN K : K[y].num < E1 + Modulus
      BY <1>8, <2>5, <3>1
    <3> DEFINE k == K[y].num
    <3>3. k \in Int /\ ~ (k < U2)
      BY <1>4, <1>6, <3>1
    <3>4. U2 <= k
      <4> HIDE DEF k
      <4> QED BY <3>3
    <3>5. y \in DOMAIN g /\ g[y].num < E2 + Modulus
      BY <1>5, <3>1, <3>2, <3>4
    <3> QED BY <2>3, <3>5 DEF Waits
  <2> QED BY <2>4, <2>5
<1>16. Waits(g, H2, E2)
  BY <1>14, <1>15
<1>17. PdusOk(g, pos)
  <2>1. \A sn \in DOMAIN g : sn \in DOMAIN b /\ g[sn] = b[sn]
    BY <1>3, <1>5
  <2> QED BY <1>1, <2>1 DEF PdusOk
<1> QED BY <1>11, <1>12, <1>16, <1>17 DEF g, T

------------------------------------------------------------------------------
(* A PDU arrives *)

\* The reassembly and the buffer after DoReceivePdu.
LEMMA ArriveReads ==
  ASSUME NEW U \in Int, NEW X \in Int, NEW H \in Int, NEW E \in Int, NEW pos, Marks(pos),
         Unread(rxBuffer, U, H, E, pos), Reads(reasm, E, pos[E]), NEW p, Comes(p, U, H, pos),
         NEW H2, H2 = Advanced(p.num, H), WalkIsRight(p, H2),
         NEW L \in Int, NEW U2 \in Int, NEW X2 \in Int, Moved(p, U, X, H, L, U2, X2, H2)
  PROVE  /\ \E E2 \in Int : ReadInv(U2, H2, E2, pos)'
         /\ Extends(reasm.delivered, reasm'.delivered)
         /\ PdusOk(rxBuffer, pos)'
         /\ Buffered(rxBuffer, U2, H2)'
         /\ \A sn \in DOMAIN rxBuffer' :
              /\ U2 <= rxBuffer'[sn].num /\ rxBuffer'[sn].num \in Int
              /\ \/ rxBuffer'[sn].num = p.num
                 \/ \E s \in DOMAIN rxBuffer : rxBuffer'[sn].num = rxBuffer[s].num
<1>1. PICK b : b = Filed(rxBuffer, p)
  OBVIOUS
<1>2. PICK K : K = From(b, H2 - Window)
  OBVIOUS
<1>3. PICK S : S = Below(b, H2 - Window)
  OBVIOUS
<1>4. /\ Buffered(rxBuffer, U, H) /\ H - Window <= U /\ U <= H /\ E <= U /\ E <= H
  BY DEF Unread
<1>5. Merged(b, U, H, H2, E, pos)
  BY <1>1, MergedIs
<1>6. /\ H2 \in Int
      /\ \A sn \in DOMAIN b : /\ b[sn].num \in Int /\ sn = Sn(b[sn].num)
                              /\ U <= b[sn].num /\ b[sn].num < H2
  BY <1>5 DEF Merged
<1>7. p.num \in Int /\ p.sn = Sn(p.num) /\ U <= p.num /\ p.num < H + Window
  BY DEF Comes, PduOk
<1>8. Buffered(b, U, H2)
  BY <1>1, <1>4, <1>7, FiledIs
<1>9. /\ U <= L /\ H2 - Window <= L /\ L <= U2 /\ U2 <= H2
      /\ Buffered(K, L, H2) /\ rxBuffer' = From(K, U2)
      /\ reasm' = ReassembleAll(ReassembleAll(reasm, b, S, 0), K, Below(K, U2), Sn(L))
  BY <1>1, <1>2, <1>3 DEF Moved, Kept
<1>10. S = {} \/ \A sn \in DOMAIN b : b[sn].num \in 0..Modulus-1
  <2>1. CASE \A sn \in DOMAIN b : H2 - Window <= b[sn].num
    <3> DEFINE B == H2 - Window
    <3>1. B \in Int
      BY <1>6, ModulusType
    <3>2. \A sn \in DOMAIN b : B <= b[sn].num /\ b[sn].num \in Int
      BY <1>6, <2>1
    <3> HIDE DEF B
    <3>3. \A sn \in DOMAIN b : ~ (b[sn].num < B)
      BY <3>1, <3>2
    <3> QED BY <1>3, <3>3 DEF Below, B
  <2> QED BY <1>1, <2>1 DEF WalkIsRight
<1>11. PICK r : r = ReassembleAll(reasm, b, S, 0)
  OBVIOUS
<1>12. PICK E1 \in Int : Reads(r, E1, pos[E1]) /\ Extends(reasm.delivered, r.delivered) /\ ReadTo(b, S, E, E1)
  BY <1>3, <1>4, <1>5, <1>6, <1>10, <1>11, FirstRead
<1>13. PICK r2 : r2 = ReassembleAll(r, K, Below(K, U2), Sn(L))
  OBVIOUS
<1>14. PICK g : g = From(K, U2)
  OBVIOUS
<1>15. Rest(K, b, H2 - Window)
  <2> DEFINE B == H2 - Window
  <2>1. B \in Int /\ K = From(b, B)
    BY <1>2, <1>6, ModulusType
  <2> HIDE DEF B
  <2>2. /\ DOMAIN From(b, B) \subseteq DOMAIN b
        /\ \A sn \in DOMAIN b : sn \in DOMAIN From(b, B) <=> B <= b[sn].num
        /\ \A sn \in DOMAIN From(b, B) : From(b, B)[sn] = b[sn]
    BY <1>6, <1>8, <2>1, FromIs
  <2> QED BY <2>1, <2>2 DEF Rest, B
<1>16. /\ \E E2 \in Int : /\ Reads(r2, E2, pos[E2]) /\ Extends(r.delivered, r2.delivered)
                          /\ E2 <= U2 /\ Waits(g, H2, E2)
       /\ PdusOk(g, pos)
  BY <1>3, <1>4, <1>5, <1>6, <1>9, <1>12, <1>13, <1>14, <1>15, SecondRead
<1>17. PICK E2 \in Int : /\ Reads(r2, E2, pos[E2]) /\ Extends(r.delivered, r2.delivered)
                         /\ E2 <= U2 /\ Waits(g, H2, E2)
  BY <1>16
<1>18. reasm' = r2 /\ rxBuffer' = g
  BY <1>9, <1>11, <1>13, <1>14
<1>19. ReadInv(U2, H2, E2, pos)' /\ PdusOk(rxBuffer, pos)'
  BY <1>16, <1>17, <1>18 DEF ReadInv, Waits, Has, PdusOk
<1>20. Extends(reasm.delivered, r2.delivered)
  <2>1. reasm.delivered \in Seq(Seq(Part)) /\ r.delivered \in Seq(Seq(Part)) /\ r2.delivered \in Seq(Seq(Part))
    BY <1>12, <1>17 DEF Reads
  <2>2. Len(reasm.delivered) \in Nat /\ Len(r.delivered) \in Nat /\ Len(r2.delivered) \in Nat
    BY <2>1, LenProperties
  <2> QED BY <1>12, <1>17, <2>2, ExtendsIs
<1>21. /\ DOMAIN g \subseteq DOMAIN K /\ \A sn \in DOMAIN g : g[sn] = K[sn]
       /\ Buffered(g, U2, H2)
  <2>1. /\ DOMAIN From(K, U2) \subseteq DOMAIN K
        /\ \A sn \in DOMAIN From(K, U2) : From(K, U2)[sn] = K[sn]
        /\ Buffered(From(K, U2), U2, H2)
    BY <1>6, <1>9, FromIs
  <2> QED BY <1>14, <2>1
<1>22. ASSUME NEW sn \in DOMAIN g
       PROVE  /\ U2 <= g[sn].num /\ g[sn].num \in Int
              /\ \/ g[sn].num = p.num
                 \/ \E s \in DOMAIN rxBuffer : g[sn].num = rxBuffer[s].num
  <2>1. U2 <= g[sn].num /\ g[sn].num \in Int
    BY <1>21 DEF Buffered
  <2>2. sn \in DOMAIN b /\ g[sn] = b[sn]
    BY <1>21, <1>15 DEF Rest
  <2>3. b[sn] = IF sn = p.sn THEN p ELSE rxBuffer[sn]
    BY <1>1, <2>2 DEF Filed
  <2>4. sn = p.sn \/ sn \in DOMAIN rxBuffer
    BY <1>1, <2>2 DEF Filed
  <2> QED BY <2>1, <2>2, <2>3, <2>4
<1>23. Buffered(rxBuffer, U2, H2)'
  BY <1>18, <1>21 DEF Buffered
<1> QED BY <1>18, <1>19, <1>20, <1>22, <1>23

\* Which PDUs the walk of ReassembleOutsideWindow meets.
LEMMA ArriveWalks ==
  ASSUME NEW U \in Int, NEW X \in Int, NEW H \in Int, NEW E \in Int, NEW pos,
         Inv(U, X, H, E, pos), NEW p, p.num \in Int, U <= p.num, p.num < seqNo,
         seqNo - 1 <= p.num + Overtake
  PROVE  WalkIsRight(p, Advanced(p.num, H))
<1> DEFINE n == p.num
<1> DEFINE H2 == Advanced(n, H)
<1>1. /\ WindowInv(U, X, H) /\ LinkInv(H, pos) /\ StreamInv(pos) /\ (SlowInv(X) \/ ShortInv(U))
  BY DEF Inv
<1>2. /\ n \in Int /\ U <= n /\ n < seqNo /\ seqNo - 1 <= n + Overtake
      /\ seqNo \in Int /\ H <= seqNo /\ Overtake \in Nat
  BY <1>1, UmAssumption DEF LinkInv
<1>3. \A sn \in DOMAIN rxBuffer : /\ rxBuffer[sn].num \in Int
                                  /\ U <= rxBuffer[sn].num /\ rxBuffer[sn].num < H
  BY <1>1 DEF WindowInv, Buffered
<1>4. H2 \in Int /\ H2 <= seqNo /\ n < H2
  BY <1>2 DEF Advanced
<1>5. ASSUME NEW sn \in DOMAIN Filed(rxBuffer, p)
      PROVE  \/ Filed(rxBuffer, p)[sn].num = n
             \/ \E s \in DOMAIN rxBuffer : Filed(rxBuffer, p)[sn].num = rxBuffer[s].num
  <2>1. Filed(rxBuffer, p)[sn] = IF sn = p.sn THEN p ELSE rxBuffer[sn]
    BY DEF Filed
  <2>2. sn = p.sn \/ sn \in DOMAIN rxBuffer
    BY DEF Filed
  <2> QED BY <2>1, <2>2
<1> HIDE DEF n, H2
<1>6. CASE SlowInv(X)
  <2>1. H2 - Window <= n
    <3>1. Overtake + 1 <= HalfWindow
      BY <1>6 DEF SlowInv
    <3> QED BY <1>2, <1>4, <3>1, HalfWindowIs, ModulusType
  <2>2. ASSUME NEW s \in DOMAIN rxBuffer PROVE H2 - Window <= rxBuffer[s].num
    <3> DEFINE m == rxBuffer[s].num
    <3>1. m \in Int /\ U <= m /\ m < H
      BY <1>3
    <3>2. timer
      <4> HIDE DEF m
      <4> QED BY <1>1, <3>1 DEF WindowInv
    <3>3. seqNo <= X + HalfWindow /\ X - HalfWindow <= m
      BY <1>6, <3>2 DEF SlowInv
    <3> HIDE DEF m
    <3>4. H2 - Window <= m
      BY <1>2, <1>4, <3>1, <3>3, HalfWindowIs, ModulusType
    <3> QED BY <3>4 DEF m
  <2>3. \A sn \in DOMAIN Filed(rxBuffer, p) : H2 - Window <= Filed(rxBuffer, p)[sn].num
    BY <1>5, <2>1, <2>2
  <2> QED BY <2>3 DEF WalkIsRight, H2, n
<1>7. CASE ShortInv(U)
  <2>1. 0 <= U /\ seqNo <= Modulus
    <3>1. sent \in Int /\ Total \in Int /\ sent <= Total
      BY <1>1, StreamIs DEF StreamInv
    <3>2. 0 <= U /\ seqNo + (Total - sent) <= Modulus
      BY <1>7 DEF ShortInv
    <3> QED BY <1>2, <3>1, <3>2, ModulusType
  <2>2. n \in 0..Modulus-1
    BY <1>2, <2>1, ModulusType
  <2>3. ASSUME NEW s \in DOMAIN rxBuffer PROVE rxBuffer[s].num \in 0..Modulus-1
    <3> DEFINE m == rxBuffer[s].num
    <3>1. m \in Int /\ U <= m /\ m < H
      BY <1>3
    <3> HIDE DEF m
    <3>2. m \in 0..Modulus-1
      BY <1>2, <2>1, <3>1, ModulusType
    <3> QED BY <3>2 DEF m
  <2>4. \A sn \in DOMAIN Filed(rxBuffer, p) : Filed(rxBuffer, p)[sn].num \in 0..Modulus-1
    BY <1>5, <2>2, <2>3
  <2> QED BY <2>4 DEF WalkIsRight
<1> QED BY <1>1, <1>6, <1>7

\* DoReceivePdu.
LEMMA ArriveStep ==
  ASSUME NEW U \in Int, NEW X \in Int, NEW H \in Int, NEW E \in Int, NEW pos,
         Inv(U, X, H, E, pos), NEW i \in DOMAIN inFlight, Arrive(i)
  PROVE  /\ \E U2, X2, H2, E2 \in Int : Inv(U2, X2, H2, E2, pos)'
         /\ Extends(reasm.delivered, reasm'.delivered)
<1>1. PICK p : p = inFlight[i]
  OBVIOUS
<1>2. /\ inFlight' = RemoveAt(inFlight, i)
      /\ IF Discarded(p.sn) THEN UNCHANGED <<window, reasm>> ELSE Placed(p)
      /\ perTimer' = perTimer /\ sent' = sent /\ seqNo' = seqNo
      /\ losses' = losses /\ damaged' = damaged
  BY <1>1 DEF Arrive
<1>3. /\ WindowInv(U, X, H) /\ LinkInv(H, pos) /\ StreamInv(pos) /\ PdusOk(rxBuffer, pos)
      /\ ReadInv(U, H, E, pos) /\ (SlowInv(X) \/ ShortInv(U)) /\ BoundsInv
  BY DEF Inv
<1> DEFINE n == p.num
<1>4. /\ n \in Int /\ p.sn = Sn(n) /\ H - Window <= n /\ n < H + Window
      /\ seqNo - 1 <= n + Overtake /\ n < seqNo
  BY <1>1, <1>3, OnItsWay
<1>5. /\ seqNo \in Int /\ H <= seqNo /\ Overtake \in Nat /\ MaxBurst \in Nat /\ PduOk(p, pos)
  BY <1>1, <1>3, UmAssumption DEF LinkInv
<1>6. StreamInv(pos)' /\ BoundsInv'
  BY <1>2, <1>3 DEF StreamInv, BoundsInv
<1>7. ASSUME NEW H2 \in Int, H <= H2, H2 <= seqNo, n < H2 PROVE LinkInv(H2, pos)'
  <2>1. inFlight[i].num < H2 + MaxBurst
    <3> HIDE DEF n
    <3>1. n < H2 + MaxBurst
      BY <1>4, <1>5, <1>7
    <3> QED BY <1>1, <3>1 DEF n
  <2> QED BY <1>2, <1>3, <1>7, <2>1, LinkLess
<1>8. CASE Discarded(p.sn)
  <2>1. /\ vrUr' = vrUr /\ vrUx' = vrUx /\ vrUh' = vrUh /\ rxBuffer' = rxBuffer /\ timer' = timer
        /\ reasm' = reasm
    BY <1>2, <1>8 DEF window
  <2>2. n < H
    <3> DEFINE B == H - Window
    <3>1. /\ B \in Int /\ B <= n /\ n < B + Modulus /\ B <= U /\ U < B + Modulus
          /\ B <= H /\ H < B + Modulus
      BY <1>3, <1>4, ModulusType DEF WindowInv
    <3>2. Base(vrUh) = Sn(B) /\ vrUr = Sn(U) /\ vrUh = Sn(H) /\ U <= H
      BY <1>3, BaseIs DEF WindowInv
    <3> HIDE DEF n, B
    <3>3. Off(Sn(n), Sn(B)) = n - B /\ Off(Sn(U), Sn(B)) = U - B /\ Off(Sn(H), Sn(B)) = H - B
      BY <1>4, <3>1, OffIs
    <3>4. Off(p.sn, Sn(B)) < Off(Sn(H), Sn(B)) \/ Off(p.sn, Sn(B)) < Off(Sn(U), Sn(B))
      BY <1>8, <3>2 DEF Discarded
    <3>5. n - B < H - B \/ n - B < U - B
      BY <1>4, <3>3, <3>4
    <3> QED BY <1>4, <3>1, <3>2, <3>5
  <2>3. LinkInv(H, pos)'
    BY <1>5, <1>7, <2>2
  <2>4. WindowInv(U, X, H)' /\ PdusOk(rxBuffer, pos)' /\ ReadInv(U, H, E, pos)'
    BY <1>3, <2>1 DEF WindowInv, PdusOk, ReadInv, Waits, Has
  <2>5. SlowInv(X)' \/ ShortInv(U)'
    BY <1>2, <1>3, <2>1 DEF SlowInv, ShortInv
  <2>6. Inv(U, X, H, E, pos)'
    BY <1>6, <2>3, <2>4, <2>5 DEF Inv
  <2>7. Extends(reasm.delivered, reasm.delivered)
    <3>1. reasm.delivered \in Seq(Seq(Part))
      BY <1>3 DEF ReadInv, Reads
    <3> QED BY <3>1, LenProperties, ExtendsIs
  <2> QED BY <2>1, <2>6, <2>7
<1>9. CASE ~ Discarded(p.sn)
  <2>1. Placed(p)
    BY <1>2, <1>9
  <2>2. U <= n
    BY <1>3, <1>4, <1>9, NotDiscarded
  <2>3. PICK H2 : H2 = Advanced(n, H)
    OBVIOUS
  <2>4. H2 \in Int /\ H <= H2 /\ H2 <= seqNo /\ n < H2
    <3> HIDE DEF n
    <3> QED BY <1>4, <1>5, <2>3 DEF Advanced
  <2>5. WalkIsRight(p, H2)
    BY <1>4, <2>2, <2>3, ArriveWalks
  <2>6. PICK L \in Int, U2 \in Int, X2 \in Int : Moved(p, U, X, H, L, U2, X2, H2)
    BY <1>3, <1>4, <2>1, <2>2, <2>3, <2>5, PlacedIs
  <2>7. Marks(pos) /\ Unread(rxBuffer, U, H, E, pos) /\ Reads(reasm, E, pos[E]) /\ Comes(p, U, H, pos)
    BY <1>3, <1>4, <1>5, <2>2 DEF StreamInv, WindowInv, ReadInv, Unread, Comes
  <2>8. /\ \E E2 \in Int : ReadInv(U2, H2, E2, pos)'
        /\ Extends(reasm.delivered, reasm'.delivered)
        /\ PdusOk(rxBuffer, pos)' /\ Buffered(rxBuffer, U2, H2)'
        /\ \A sn \in DOMAIN rxBuffer' :
             /\ U2 <= rxBuffer'[sn].num /\ rxBuffer'[sn].num \in Int
             /\ \/ rxBuffer'[sn].num = p.num
                \/ \E s \in DOMAIN rxBuffer : rxBuffer'[sn].num = rxBuffer[s].num
    BY <2>3, <2>5, <2>6, <2>7, ArriveReads
  <2>9. /\ vrUr' = Sn(U2) /\ vrUx' = Sn(X2) /\ vrUh' = Sn(H2)
        /\ U <= L /\ H2 - Window <= L /\ L <= U2 /\ U2 <= H2
        /\ timer' \in BOOLEAN /\ (timer' => U2 < X2 /\ X2 <= H2) /\ (~timer' => U2 = H2)
        /\ timer' => (timer /\ X2 = X) \/ (X2 = H2 /\ (timer => X <= U2))
    BY <2>6 DEF Moved
  <2>10. H2 - Window <= U2 /\ U <= U2
    BY <2>4, <2>9, ModulusType
  <2>11. WindowInv(U2, X2, H2)'
    BY <2>8, <2>9, <2>10 DEF WindowInv
  <2>12. LinkInv(H2, pos)'
    BY <1>7, <2>4
  <2>13. ASSUME SlowInv(X) PROVE SlowInv(X2)'
    <3>1. SUFFICES ASSUME timer'
                   PROVE  /\ seqNo <= X2 + HalfWindow
                          /\ \A sn \in DOMAIN rxBuffer' : X2 - HalfWindow <= rxBuffer'[sn].num
      BY <1>2, <2>13 DEF SlowInv
    <3> HIDE DEF n
    <3>2. Overtake + 1 <= HalfWindow /\ HalfWindow \in Nat
      BY <2>13, HalfWindowIs DEF SlowInv
    <3>3. timer => /\ X <= H /\ seqNo <= X + HalfWindow
                   /\ \A s \in DOMAIN rxBuffer : X - HalfWindow <= rxBuffer[s].num
      BY <1>3, <2>13 DEF SlowInv, WindowInv
    <3>4. ~timer => \A s \in DOMAIN rxBuffer : FALSE
      BY <1>3 DEF WindowInv, Buffered
    <3>5. seqNo <= X2 + HalfWindow /\ X2 - HalfWindow <= n
      <4>1. CASE timer /\ X2 = X
        BY <1>4, <1>5, <3>2, <3>3, <4>1
      <4>2. CASE X2 = H2
        BY <1>4, <1>5, <2>4, <3>2, <4>2
      <4> QED BY <2>9, <3>1, <4>1, <4>2
    <3>6. ASSUME NEW sn \in DOMAIN rxBuffer' PROVE X2 - HalfWindow <= rxBuffer'[sn].num
      <4> DEFINE m == rxBuffer'[sn].num
      <4>1. CASE m = n
        BY <3>5, <4>1
      <4>2. CASE \E s \in DOMAIN rxBuffer : m = rxBuffer[s].num
        <5>1. PICK s \in DOMAIN rxBuffer : m = rxBuffer[s].num
          BY <4>2
        <5>2. timer
          BY <3>4, <5>1
        <5>3. m \in Int /\ U2 <= m /\ X - HalfWindow <= m
          BY <2>8, <3>3, <5>1, <5>2
        <5> HIDE DEF m
        <5>4. X2 - HalfWindow <= m
          <6>1. CASE X2 = X
            BY <5>3, <6>1
          <6>2. CASE X2 = H2 /\ X <= U2
            <7>1. H2 <= X + HalfWindow
              BY <1>5, <2>4, <3>2, <3>3, <5>2
            <7> QED BY <2>4, <3>2, <5>3, <6>2, <7>1
          <6> QED BY <2>9, <3>1, <5>2, <6>1, <6>2
        <5> QED BY <5>4 DEF m
      <4> QED BY <2>8, <4>1, <4>2 DEF n
    <3> QED BY <3>5, <3>6
  <2>14. ASSUME ShortInv(U) PROVE ShortInv(U2)'
    BY <1>2, <2>10, <2>14 DEF ShortInv
  <2>15. SlowInv(X2)' \/ ShortInv(U2)'
    BY <1>3, <2>13, <2>14
  <2>16. PICK E2 \in Int : ReadInv(U2, H2, E2, pos)'
    BY <2>8
  <2>17. Inv(U2, X2, H2, E2, pos)'
    BY <1>6, <2>8, <2>11, <2>12, <2>15, <2>16 DEF Inv
  <2> QED BY <2>4, <2>8, <2>17
<1> QED BY <1>8, <1>9

------------------------------------------------------------------------------
(* t-Reordering expires *)

\* The reassembly and the buffer when a PDU is given up.
LEMMA ExpireReads ==
  ASSUME NEW U \in Int, NEW H \in Int, NEW E \in Int, NEW pos, Marks(pos),
         Unread(rxBuffer, U, H, E, pos), Reads(reasm, E, pos[E]),
         NEW U2 \in Int, U < H, U <= U2, U2 <= H, rxBuffer' = From(rxBuffer, U2),
         reasm' = ReassembleAll(reasm, rxBuffer, Below(rxBuffer, U2), Sn(U))
  PROVE  /\ \E E2 \in Int : ReadInv(U2, H, E2, pos)'
         /\ Extends(reasm.delivered, reasm'.delivered)
         /\ PdusOk(rxBuffer, pos)'
         /\ Buffered(rxBuffer, U2, H)'
<1>1. PICK b : b = rxBuffer
  OBVIOUS
<1>2. PICK r : r = reasm
  OBVIOUS
<1>3. PICK r2 : r2 = ReassembleAll(r, b, Below(b, U2), Sn(U))
  OBVIOUS
<1>4. PICK g : g = From(b, U2)
  OBVIOUS
<1>5. PICK S : S = Below(b, H - Window)
  OBVIOUS
<1>6. /\ Buffered(b, U, H) /\ H - Window <= U /\ U <= H /\ E <= U /\ PdusOk(b, pos) /\ Waits(b, H, E)
  BY <1>1 DEF Unread
<1>7. E # H
  BY <1>6
<1>8. \A sn \in DOMAIN b : /\ PduOk(b[sn], pos) /\ b[sn].num \in Int /\ sn = Sn(b[sn].num)
                           /\ U <= b[sn].num /\ b[sn].num < H
  BY <1>6 DEF PdusOk, Buffered
<1>9. \A sn \in DOMAIN b : H - Window <= b[sn].num /\ ~ (b[sn].num < H - Window)
  <2> DEFINE B == H - Window
  <2>1. B \in Int /\ B <= U
    BY <1>6, ModulusType
  <2> HIDE DEF B
  <2>2. \A sn \in DOMAIN b : B <= b[sn].num /\ ~ (b[sn].num < B)
    BY <1>8, <2>1
  <2> QED BY <2>2 DEF B
<1>10. Merged(b, U, H, H, E, pos)
  <2>1. H <= H /\ H <= H + Window
    BY ModulusType
  <2> QED BY <1>6, <1>7, <1>8, <2>1 DEF Merged, Waits
<1>11. Rest(b, b, H - Window) /\ ReadTo(b, S, E, E)
  BY <1>5, <1>9 DEF Rest, ReadTo, Below
<1>12. /\ \E E2 \in Int : /\ Reads(r2, E2, pos[E2]) /\ Extends(r.delivered, r2.delivered)
                          /\ E2 <= U2 /\ Waits(g, H, E2)
       /\ PdusOk(g, pos)
  <2>1. U <= U /\ Reads(r, E, pos[E])
    BY <1>2
  <2> QED BY <1>3, <1>4, <1>5, <1>6, <1>10, <1>11, <2>1, SecondRead
<1>13. PICK E2 \in Int : /\ Reads(r2, E2, pos[E2]) /\ Extends(r.delivered, r2.delivered)
                         /\ E2 <= U2 /\ Waits(g, H, E2)
  BY <1>12
<1>14. reasm' = r2 /\ rxBuffer' = g
  BY <1>1, <1>2, <1>3, <1>4
<1>15. Buffered(g, U2, H)
  <2>1. Buffered(From(b, U2), U2, H)
    BY <1>6, FromIs
  <2> QED BY <1>4, <2>1
<1>16. ReadInv(U2, H, E2, pos)' /\ PdusOk(rxBuffer, pos)' /\ Buffered(rxBuffer, U2, H)'
  BY <1>12, <1>13, <1>14, <1>15 DEF ReadInv, Waits, Has, PdusOk, Buffered
<1> QED BY <1>2, <1>13, <1>14, <1>16

\* ExpireReorderingTimer.
LEMMA ExpireStep ==
  ASSUME NEW U \in Int, NEW X \in Int, NEW H \in Int, NEW E \in Int, NEW pos,
         Inv(U, X, H, E, pos), ExpireReorderingTimer
  PROVE  /\ \E U2, X2, E2 \in Int : Inv(U2, X2, H, E2, pos)'
         /\ Extends(reasm.delivered, reasm'.delivered)
<1>1. /\ timer /\ perTimer' = perTimer /\ sent' = sent /\ seqNo' = seqNo
      /\ inFlight' = inFlight /\ losses' = losses /\ vrUh' = vrUh
      /\ \E I \in SUBSET DOMAIN inFlight : damaged' = damaged \union SdusOf(I)
  <2>1. PICK I : /\ I = {i \in DOMAIN inFlight : Off(inFlight[i].sn, Base(vrUh))
                                < Off(NextMissingWrapped(rxBuffer, vrUx), Base(vrUh))}
                 /\ damaged' = damaged \union SdusOf(I)
    BY DEF ExpireReorderingTimer
  <2>2. I \in SUBSET DOMAIN inFlight
    BY <2>1
  <2> QED BY <2>1, <2>2 DEF ExpireReorderingTimer
<1>2. /\ WindowInv(U, X, H) /\ LinkInv(H, pos) /\ StreamInv(pos) /\ PdusOk(rxBuffer, pos)
      /\ ReadInv(U, H, E, pos) /\ (SlowInv(X) \/ ShortInv(U)) /\ BoundsInv
  BY DEF Inv
<1>3. PICK U2 \in Int, X2 \in Int : Expired(U, X, H, U2, X2)
  BY <1>2, ExpiredIs
<1>4. /\ vrUr' = Sn(U2) /\ vrUx' = Sn(X2) /\ vrUh' = Sn(H)
      /\ X <= U2 /\ U2 <= H /\ timer' \in BOOLEAN
      /\ (timer' => U2 < X2 /\ X2 = H) /\ (~timer' => U2 = H)
      /\ rxBuffer' = From(rxBuffer, U2)
      /\ reasm' = ReassembleAll(reasm, rxBuffer, Below(rxBuffer, U2), Sn(U))
  BY <1>1, <1>2, <1>3 DEF Expired, WindowInv
<1>5. /\ U < X /\ X <= H /\ H - Window <= U /\ U <= U2 /\ U < H /\ H - Window <= U2
  <2>1. U < X /\ X <= H /\ H - Window <= U
    BY <1>1, <1>2 DEF WindowInv
  <2> QED BY <1>4, <2>1, ModulusType
<1>6. Marks(pos) /\ Unread(rxBuffer, U, H, E, pos) /\ Reads(reasm, E, pos[E])
  BY <1>2 DEF StreamInv, WindowInv, ReadInv, Unread
<1>7. /\ \E E2 \in Int : ReadInv(U2, H, E2, pos)'
      /\ Extends(reasm.delivered, reasm'.delivered)
      /\ PdusOk(rxBuffer, pos)' /\ Buffered(rxBuffer, U2, H)'
  BY <1>4, <1>5, <1>6, ExpireReads
<1>8. WindowInv(U2, X2, H)'
  BY <1>4, <1>5, <1>7 DEF WindowInv
<1>9. LinkInv(H, pos)' /\ StreamInv(pos)'
  BY <1>1, <1>2 DEF LinkInv, StreamInv
<1>10. BoundsInv'
  <2>1. PICK I \in SUBSET DOMAIN inFlight : damaged' = damaged \union SdusOf(I)
    BY <1>1
  <2>2. \A i \in I : PduOk(inFlight[i], pos)
    BY <1>2 DEF LinkInv
  <2>3. SdusOf(I) \subseteq 1..NumSdu
    BY <1>6, <2>2, SdusOfIs
  <2> QED BY <1>1, <1>2, <2>1, <2>3 DEF BoundsInv
<1>11. ASSUME SlowInv(X) PROVE SlowInv(X2)'
  <2>1. SUFFICES ASSUME timer'
                 PROVE  /\ seqNo <= X2 + HalfWindow
                        /\ \A sn \in DOMAIN rxBuffer' : X2 - HalfWindow <= rxBuffer'[sn].num
    BY <1>1, <1>11 DEF SlowInv
  <2>2. seqNo <= X + HalfWindow /\ seqNo \in Int /\ H <= seqNo /\ HalfWindow \in Nat
    BY <1>1, <1>2, <1>11, HalfWindowIs DEF SlowInv, LinkInv
  <2>3. X2 = H /\ seqNo <= X2 + HalfWindow /\ X2 - HalfWindow <= U2 /\ X2 - HalfWindow \in Int
    BY <1>4, <1>5, <2>1, <2>2
  <2>4. \A sn \in DOMAIN rxBuffer' : U2 <= rxBuffer'[sn].num /\ rxBuffer'[sn].num \in Int
    BY <1>7 DEF Buffered
  <2> DEFINE B == X2 - HalfWindow
  <2>5. B <= U2 /\ B \in Int
    BY <2>3
  <2> HIDE DEF B
  <2>6. \A sn \in DOMAIN rxBuffer' : B <= rxBuffer'[sn].num
    BY <2>4, <2>5
  <2> QED BY <2>3, <2>6 DEF B
<1>12. ASSUME ShortInv(U) PROVE ShortInv(U2)'
  BY <1>1, <1>5, <1>12 DEF ShortInv
<1>13. SlowInv(X2)' \/ ShortInv(U2)'
  BY <1>2, <1>11, <1>12
<1>14. PICK E2 \in Int : ReadInv(U2, H, E2, pos)'
  BY <1>7
<1>15. Inv(U2, X2, H, E2, pos)'
  BY <1>7, <1>8, <1>9, <1>10, <1>13, <1>14 DEF Inv
<1> QED BY <1>7, <1>15

------------------------------------------------------------------------------
(* The inductive invariant holds *)

\* So few PDUs are sent while t-Reordering runs, and so few overtake one, that they fill
\* half of the window at most; or so few are sent in all that the numbers do not wrap.
SlowEnough ==
  \A start \in Starts : \/ start[2] <= HalfWindow /\ Overtake + 1 <= HalfWindow
                        \/ start[1] + Total <= Modulus

\* Initially all numbers are the first.
LEMMA InvInit ==
  ASSUME SlowEnough, Init
  PROVE  IInv
<1>1. PICK start \in Starts :
        /\ perTimer = start[2]
        /\ seqNo = start[1] /\ vrUr = start[1] /\ vrUx = start[1] /\ vrUh = start[1]
        /\ reasm = [expected |-> start[1], open |-> FALSE, keepS0 |-> <<>>,
                    sdus |-> <<>>, delivered |-> <<>>]
  BY DEF Init
<1>2. /\ sent = 0 /\ inFlight = <<>> /\ losses = 0 /\ damaged = {}
      /\ rxBuffer = <<>> /\ timer = FALSE
  BY DEF Init
<1>3. PICK n : n = start[1]
  OBVIOUS
<1>4. n \in 0..Modulus-1 /\ n \in Int /\ perTimer \in Nat /\ start[2] \in Nat
  BY <1>1, <1>3, UmAssumption, ModulusType
<1>5. Sn(n) = n
  BY <1>4, SnSmall
<1>6. PICK pos : pos = [m \in Int |-> 0]
  OBVIOUS
<1>7. Marks(pos) /\ \A m \in Int : pos[m] = 0
  BY <1>6 DEF Marks
<1>8. rxBuffer = <<>> /\ DOMAIN rxBuffer = {}
  BY <1>2
<1>9. WindowInv(n, n, n)
  <2>1. n - Window <= n
    BY <1>4, ModulusType
  <2>2. Buffered(rxBuffer, n, n)
    BY <1>8 DEF Buffered
  <2>3. vrUr = Sn(n) /\ vrUx = Sn(n) /\ vrUh = Sn(n) /\ timer = FALSE /\ n <= n
    BY <1>1, <1>2, <1>3, <1>4, <1>5
  <2> QED BY <2>1, <2>2, <2>3 DEF WindowInv
<1>10. LinkInv(n, pos)
  <2>1. inFlight \in Seq(Pdu) /\ DOMAIN inFlight = {}
    BY <1>2
  <2>2. \A m \in n + MaxBurst .. n - 1 : FALSE
    BY <1>4, UmAssumption
  <2> QED BY <1>1, <1>3, <1>4, <2>1, <2>2 DEF LinkInv
<1>11. StreamInv(pos) /\ Total \in Nat
  BY <1>1, <1>2, <1>3, <1>4, <1>7, StreamIs DEF StreamInv
<1>12. PdusOk(rxBuffer, pos)
  BY <1>8 DEF PdusOk
<1>13. ReadInv(n, n, n, pos)
  <2>1. reasm.delivered = <<>> /\ reasm.sdus = <<>> /\ reasm.open = FALSE /\ reasm.expected = n
    BY <1>1, <1>3
  <2>2. reasm \in [expected : 0..Modulus-1, open : BOOLEAN, keepS0 : Seq(Part),
                   sdus : Seq(Seq(Part)), delivered : Seq(Seq(Part))]
    <3>1. <<>> \in Seq(Part) /\ <<>> \in Seq(Seq(Part))
      OBVIOUS
    <3> QED BY <1>1, <1>3, <1>4, <3>1
  <2>3. Delivers(reasm.delivered, 0)
    <3>1. <<>> \in Seq(Seq(Part)) /\ Len(<<>>) = 0
      OBVIOUS
    <3>2. \A i \in 1..0 : FALSE
      OBVIOUS
    <3> QED BY <2>1, <3>1, <3>2 DEF Delivers
  <2>4. Reads(reasm, n, pos[n])
    BY <1>4, <1>5, <1>7, <2>1, <2>2, <2>3 DEF Reads
  <2> QED BY <1>4, <2>4 DEF ReadInv, Waits
<1>14. SlowInv(n) \/ ShortInv(n)
  <2>1. CASE start[2] <= HalfWindow /\ Overtake + 1 <= HalfWindow
    BY <1>1, <1>2, <2>1 DEF SlowInv
  <2>2. CASE start[1] + Total <= Modulus
    BY <1>1, <1>2, <1>3, <1>4, <1>11, <2>2 DEF ShortInv
  <2> QED BY <2>1, <2>2 DEF SlowEnough
<1>15. BoundsInv
  BY <1>2, UmAssumption DEF BoundsInv
<1>16. Inv(n, n, n, n, pos)
  BY <1>9, <1>10, <1>11, <1>12, <1>13, <1>14, <1>15 DEF Inv
<1> QED BY <1>4, <1>16 DEF IInv

\* Every step keeps it, and what has been delivered; only Send changes what is sent.
LEMMA InvNext ==
  ASSUME IInv, [Next]_vars
  PROVE  /\ IInv'
         /\ \/ Extends(reasm.delivered, reasm'.delivered) /\ sent' = sent
            \/ \E n \in 1..MaxTake : reasm' = reasm /\ sent' = sent + n
<1>1. PICK U \in Int, X \in Int, H \in Int, E \in Int : \E pos : Inv(U, X, H, E, pos)
  BY DEF IInv
<1>2. PICK pos : Inv(U, X, H, E, pos)
  BY <1>1
<1>3. Extends(reasm.delivered, reasm.delivered)
  <2>1. reasm.delivered \in Seq(Seq(Part))
    BY <1>2 DEF Inv, ReadInv, Reads
  <2> QED BY <2>1, LenProperties, ExtendsIs
<1>4. ASSUME NEW n \in 1..MaxTake, Send(n)
      PROVE  IInv' /\ reasm' = reasm /\ sent' = sent + n
  <2>1. PICK pos2 : Inv(U, X, H, E, pos2)'
    BY <1>2, <1>4, SendStep
  <2> QED BY <1>4, <2>1 DEF IInv, Send
<1>5. ASSUME NEW i \in DOMAIN inFlight, Lose(i)
      PROVE  IInv' /\ Extends(reasm.delivered, reasm'.delivered) /\ sent' = sent
  <2>1. Inv(U, X, H, E, pos)'
    BY <1>2, <1>5, LoseStep
  <2> QED BY <1>3, <1>5, <2>1 DEF IInv, Lose
<1>6. ASSUME NEW i \in DOMAIN inFlight, Arrive(i)
      PROVE  IInv' /\ Extends(reasm.delivered, reasm'.delivered) /\ sent' = sent
  <2>1. PICK U2 \in Int, X2 \in Int, H2 \in Int, E2 \in Int : Inv(U2, X2, H2, E2, pos)'
    BY <1>2, <1>6, ArriveStep
  <2>2. Extends(reasm.delivered, reasm'.delivered)
    BY <1>2, <1>6, ArriveStep
  <2> QED BY <1>6, <2>1, <2>2 DEF IInv, Arrive
<1>7. ASSUME ExpireReorderingTimer
      PROVE  IInv' /\ Extends(reasm.delivered, reasm'.delivered) /\ sent' = sent
  <2>1. PICK U2 \in Int, X2 \in Int, E2 \in Int : Inv(U2, X2, H, E2, pos)'
    BY <1>2, <1>7, ExpireStep
  <2>2. Extends(reasm.delivered, reasm'.delivered)
    BY <1>2, <1>7, ExpireStep
  <2> QED BY <1>7, <2>1, <2>2 DEF IInv, ExpireReorderingTimer
<1>8. ASSUME UNCHANGED vars
      PROVE  IInv' /\ Extends(reasm.delivered, reasm'.delivered) /\ sent' = sent
  <2>1. /\ vrUr' = vrUr /\ vrUx' = vrUx /\ vrUh' = vrUh /\ rxBuffer' = rxBuffer /\ timer' = timer
        /\ perTimer' = perTimer /\ sent' = sent /\ seqNo' = seqNo /\ inFlight' = inFlight
        /\ losses' = losses /\ damaged' = damaged /\ reasm' = reasm
    BY <1>8 DEF vars, link, window
  <2>2. Inv(U, X, H, E, pos)'
    BY <1>2, <2>1 DEF Inv, WindowInv, LinkInv, StreamInv, PdusOk, ReadInv, Waits, Has,
                      SlowInv, ShortInv, BoundsInv, Buffered
  <2> QED BY <1>3, <2>1, <2>2 DEF IInv
<1> QED BY <1>4, <1>5, <1>6, <1>7, <1>8 DEF Next, Transport

\* The invariant of the receiver.
THEOREM ReceiverInvariance ==
  ASSUME SlowEnough
  PROVE  Spec => []IInv
<1>1. Init => IInv
  BY InvInit
<1>2. IInv /\ [Next]_vars => IInv'
  BY InvNext
<1> QED BY <1>1, <1>2, PTL DEF Spec

------------------------------------------------------------------------------
(* What follows from it *)

\* Types.
LEMMA InvTypes ==
  ASSUME IInv
  PROVE  TypeOK
<1>1. PICK U \in Int, X \in Int, H \in Int, E \in Int : \E pos : Inv(U, X, H, E, pos)
  BY DEF IInv
<1>2. PICK pos : Inv(U, X, H, E, pos)
  BY <1>1
<1>3. /\ WindowInv(U, X, H) /\ StreamInv(pos) /\ ReadInv(U, H, E, pos) /\ BoundsInv
  BY <1>2 DEF Inv
<1>4. vrUr \in 0..Modulus-1 /\ vrUx \in 0..Modulus-1 /\ vrUh \in 0..Modulus-1
  BY <1>3, SnType DEF WindowInv
<1>5. ASSUME NEW sn \in DOMAIN rxBuffer PROVE sn \in 0..Modulus-1 /\ rxBuffer[sn].sn = sn
  <2> DEFINE m == rxBuffer[sn].num
  <2>1. m \in Int /\ sn = Sn(m) /\ rxBuffer[sn].sn = sn
    BY <1>3 DEF WindowInv, Buffered
  <2> HIDE DEF m
  <2>2. Sn(m) \in 0..Modulus-1
    BY <2>1, SnType
  <2> QED BY <2>1, <2>2
<1>6. timer \in BOOLEAN /\ reasm.open \in BOOLEAN /\ reasm.expected \in 0..Modulus-1
  BY <1>3 DEF WindowInv, ReadInv, Reads
<1>7. sent \in 0..Len(Stream)
  BY <1>3, StreamIs DEF StreamInv
<1> QED BY <1>3, <1>4, <1>5, <1>6, <1>7 DEF TypeOK, BoundsInv

\* The reception buffer.
LEMMA InvCovers ==
  ASSUME IInv
  PROVE  BufferIsCovered
<1>1. PICK U \in Int, X \in Int, H \in Int : WindowInv(U, X, H)
  BY DEF IInv, Inv
<1>2. ASSUME NEW sn \in DOMAIN rxBuffer
      PROVE  timer /\ Inside(sn, vrUh) /\ Off(vrUr, Base(vrUh)) <= Off(sn, Base(vrUh))
  <2> DEFINE m == rxBuffer[sn].num
  <2> DEFINE B == H - Window
  <2>1. m \in Int /\ sn = Sn(m) /\ U <= m /\ m < H
    BY <1>1, <1>2 DEF WindowInv, Buffered
  <2>2. Base(vrUh) = Sn(B) /\ vrUr = Sn(U) /\ B \in Int /\ B <= U /\ U <= H /\ H = B + Window
    BY <1>1, BaseIs, ModulusType DEF WindowInv
  <2>3. timer
    <3> HIDE DEF m, B
    <3> QED BY <1>1, <2>1 DEF WindowInv
  <2> HIDE DEF m, B
  <2>4. B <= m /\ m < B + Modulus /\ U < B + Modulus
    BY <2>1, <2>2, ModulusType
  <2>5. Off(Sn(m), Sn(B)) = m - B /\ Off(Sn(U), Sn(B)) = U - B
    BY <2>1, <2>2, <2>4, OffIs
  <2>6. m - B < Window /\ U - B <= m - B
    BY <2>1, <2>2, ModulusType
  <2> QED BY <2>1, <2>2, <2>3, <2>5, <2>6 DEF Inside
<1> QED BY <1>2 DEF BufferIsCovered

\* No PDU is read whose first segment does not continue the open SDU.
LEMMA InvFraming ==
  ASSUME IInv
  PROVE  NoFramingError
BY DEF IInv, Inv, ReadInv, Reads, NoFramingError

\* The variables keep their types.
THEOREM TypeCorrect ==
  ASSUME SlowEnough
  PROVE  Spec => []TypeOK
BY ReceiverInvariance, InvTypes, PTL

\* Whatever waits in the reception buffer waits for t-Reordering, between VR(UR) and VR(UH).
THEOREM BufferAlwaysCovered ==
  ASSUME SlowEnough
  PROVE  Spec => []BufferIsCovered
BY ReceiverInvariance, InvCovers, PTL

\* The internal errors of ReassembleAndDeliver do not occur.
THEOREM FramingNeverFails ==
  ASSUME SlowEnough
  PROVE  Spec => []NoFramingError
BY ReceiverInvariance, InvFraming, PTL

------------------------------------------------------------------------------
(* What PDCP is promised *)

\* The numbers of the SDUs delivered.
Ids(dl) == [i \in DOMAIN dl |-> Identity(dl[i])]

\* They are those of whole SDUs, ascending.
LEMMA IdsIs ==
  ASSUME NEW q, NEW dl, Delivers(dl, q)
  PROVE  /\ Len(dl) \in Nat /\ Len(Ids(dl)) = Len(dl) /\ DOMAIN Ids(dl) = 1..Len(dl)
         /\ \A i \in 1..Len(dl) : /\ Ids(dl)[i] = Id(dl[i]) /\ Ids(dl)[i] \in 1..NumSdu
                                  /\ SduEnd[Ids(dl)[i]] <= q
                                  /\ i > 1 => Ids(dl)[i-1] < Ids(dl)[i]
<1>1. dl \in Seq(Seq(Part))
  BY DEF Delivers
<1>2. Len(dl) \in Nat /\ DOMAIN dl = 1..Len(dl)
  BY <1>1, LenProperties
<1>3. ASSUME NEW i \in 1..Len(dl) PROVE Ids(dl)[i] = Id(dl[i])
  <2>1. Id(dl[i]) \in 1..NumSdu /\ dl[i] = SduParts(Id(dl[i]))
    BY <1>3 DEF Delivers
  <2>2. Identity(dl[i]) = Id(dl[i])
    BY <2>1 DEF Identity, Id
  <2> QED BY <1>2, <2>2 DEF Ids
<1>4. DOMAIN Ids(dl) = 1..Len(dl) /\ Len(Ids(dl)) = Len(dl)
  BY <1>2 DEF Ids
<1>5. ASSUME NEW i \in 1..Len(dl)
      PROVE  /\ Ids(dl)[i] \in 1..NumSdu /\ SduEnd[Ids(dl)[i]] <= q
             /\ i > 1 => Ids(dl)[i-1] < Ids(dl)[i]
  <2>1. /\ Id(dl[i]) \in 1..NumSdu /\ SduEnd[Id(dl[i])] <= q
        /\ i > 1 => Id(dl[i-1]) < Id(dl[i])
    BY <1>5 DEF Delivers
  <2>2. i > 1 => i - 1 \in 1..Len(dl)
    BY <1>2
  <2> QED BY <1>3, <2>1, <2>2
<1> QED BY <1>2, <1>3, <1>4, <1>5

\* They only become more.
LEMMA IdsExtend ==
  ASSUME NEW q, NEW r, NEW s, NEW t, Delivers(s, q), Delivers(t, r), Extends(s, t)
  PROVE  Len(Ids(s)) <= Len(Ids(t)) /\ Ids(s) = SubSeq(Ids(t), 1, Len(Ids(s)))
<1>1. PICK u : u = Ids(s)
  OBVIOUS
<1>2. PICK v : v = Ids(t)
  OBVIOUS
<1>3. PICK n : n = Len(s)
  OBVIOUS
<1>4. /\ n \in Nat /\ Len(u) = n /\ DOMAIN u = 1..n
      /\ \A i \in 1..n : u[i] = Id(s[i]) /\ u[i] \in 1..NumSdu
  BY <1>1, <1>3, IdsIs
<1>5. /\ Len(t) \in Nat /\ Len(v) = Len(t) /\ DOMAIN v = 1..Len(t)
      /\ \A i \in 1..Len(t) : v[i] = Id(t[i]) /\ v[i] \in 1..NumSdu
  BY <1>2, IdsIs
<1>6. n <= Len(t) /\ \A i \in 1..n : t[i] = s[i]
  BY <1>3 DEF Extends
<1>7. \A i \in 1..n : v[i] = u[i]
  <2>1. \A i \in 1..n : i \in 1..Len(t)
    BY <1>4, <1>5, <1>6
  <2> QED BY <1>4, <1>5, <1>6, <2>1
<1>8. v \in Seq(Int) /\ u \in Seq(Int)
  <2>1. v = [i \in 1..Len(t) |-> v[i]] /\ u = [i \in 1..n |-> u[i]]
    BY <1>1, <1>2, <1>4, <1>5 DEF Ids
  <2>2. \A i \in 1..Len(t) : v[i] \in Int
    BY <1>5, SduEndIs
  <2>3. \A i \in 1..n : u[i] \in Int
    BY <1>4, SduEndIs
  <2> QED BY <1>4, <1>5, <2>1, <2>2, <2>3
<1>9. u = SubSeq(v, 1, n)
  <2>1. 1 \in Int /\ n \in Int /\ n - 1 + 1 = n /\ \A k \in 1..n : v[k] \in Int
    BY <1>4, <1>7, SduEndIs
  <2>2. /\ SubSeq(v,1,n) \in Seq(Int) /\ Len(SubSeq(v,1,n)) = IF 1<=n THEN n-1+1 ELSE 0
        /\ \A k \in 1 .. n-1+1 : SubSeq(v,1,n)[k] = v[1+k-1]
    BY <2>1, SubSeqProperties
  <2>3. Len(SubSeq(v,1,n)) = n
    BY <1>4, <2>1, <2>2
  <2>4. \A k \in 1..n : SubSeq(v,1,n)[k] = v[k]
    <3>1. \A k \in 1..n : 1 + k - 1 = k
      OBVIOUS
    <3> QED BY <2>1, <2>2, <3>1
  <2>5. \A k \in 1..n : SubSeq(v,1,n)[k] = u[k]
    BY <1>7, <2>4
  <2> QED BY <1>4, <1>8, <2>2, <2>3, <2>5, SeqEqual
<1> QED BY <1>1, <1>2, <1>4, <1>5, <1>6, <1>9

\* The last SDU of which a part has been sent.
Handed(n) == IF n = 0 THEN 0 ELSE Stream[n][1]

\* It is never an earlier one.
LEMMA HandedIs ==
  /\ \A n \in 0..Total : Handed(n) \in 0..NumSdu
  /\ \A m, n \in 0..Total : m <= n => Handed(m) <= Handed(n)
  /\ \A n \in 0..Total : \A d \in 1..NumSdu : SduEnd[d] <= n => d <= Handed(n)
<1>1. ASSUME NEW n \in 0..Total, n # 0
      PROVE  Handed(n) \in 1..NumSdu /\ Within(n, Handed(n))
  <2>1. n \in 1..Total
    BY <1>1, StreamIs
  <2>2. Handed(n) = SduOf(n)
    BY <1>1, <2>1, StreamIs DEF Handed
  <2> QED BY <2>1, <2>2, SduOfIs DEF Within
<1>2. Handed(0) = 0 /\ NumSdu \in Nat /\ Total \in Nat
  BY SduEndIs, StreamIs DEF Handed
<1>3. ASSUME NEW m \in 0..Total, NEW n \in 0..Total, m <= n PROVE Handed(m) <= Handed(n)
  <2>1. CASE m = 0 /\ n = 0
    BY <1>2, <2>1
  <2>2. CASE m = 0 /\ n # 0
    BY <1>1, <1>2, <2>2
  <2>3. CASE m # 0
    <3>1. n # 0 /\ m \in Int /\ n \in Int
      BY <1>2, <1>3, <2>3
    <3> QED BY <1>1, <1>3, <2>3, <3>1, WithinUnique
  <2> QED BY <2>1, <2>2, <2>3
<1>4. ASSUME NEW n \in 0..Total, NEW d \in 1..NumSdu, SduEnd[d] <= n PROVE d <= Handed(n)
  <2>1. d \in 0..NumSdu /\ d - 1 \in 0..NumSdu /\ 0 \in 0..NumSdu
    BY <1>2
  <2>2. SduEnd[d-1] < SduEnd[d] /\ SduEnd[d] \in Int /\ SduEnd[d-1] \in Nat
    BY <2>1, SduEndGrows, SduEndIs
  <2>3. Within(SduEnd[d], d) /\ n # 0 /\ n \in Int
    BY <1>2, <1>4, <2>2 DEF Within
  <2>4. Within(n, Handed(n))
    BY <1>1, <2>3
  <2> QED BY <1>4, <2>2, <2>3, <2>4, WithinUnique
<1>5. \A n \in 0..Total : Handed(n) \in 0..NumSdu
  BY <1>1, <1>2
<1> QED BY <1>3, <1>4, <1>5

\* What has been delivered was sent whole.
LEMMA InvDelivers ==
  ASSUME IInv
  PROVE  Delivers(reasm.delivered, sent) /\ sent \in 0..Total
<1>1. PICK U \in Int, X \in Int, H \in Int, E \in Int : \E pos : Inv(U, X, H, E, pos)
  BY DEF IInv
<1>2. PICK pos : Inv(U, X, H, E, pos)
  BY <1>1
<1>3. /\ E <= U /\ U <= H /\ H <= seqNo /\ seqNo \in Int /\ Marks(pos) /\ sent \in 0..Total
      /\ \A n \in Int : seqNo <= n => pos[n] = sent
      /\ Delivers(reasm.delivered, pos[E])
  BY <1>2 DEF Inv, ReadInv, WindowInv, LinkInv, StreamInv, Reads
<1>4. pos[E] <= sent /\ pos[E] \in Nat /\ sent \in Int
  <2>1. E <= seqNo /\ seqNo <= seqNo
    BY <1>3
  <2>2. pos[E] <= pos[seqNo] /\ pos[seqNo] = sent /\ pos[E] \in Nat /\ pos[seqNo] \in Nat
    BY <1>3, <2>1 DEF Marks
  <2> QED BY <2>2
<1>5. PICK dl : dl = reasm.delivered
  OBVIOUS
<1>6. ASSUME NEW i \in 1..Len(dl)
      PROVE  /\ Id(dl[i]) \in 1..NumSdu /\ dl[i] = SduParts(Id(dl[i]))
             /\ SduEnd[Id(dl[i])] <= sent
             /\ i > 1 => Id(dl[i-1]) < Id(dl[i])
  <2> DEFINE d == Id(dl[i])
  <2>1. /\ d \in 1..NumSdu /\ dl[i] = SduParts(d) /\ SduEnd[d] <= pos[E]
        /\ i > 1 => Id(dl[i-1]) < d
    BY <1>3, <1>5 DEF Delivers
  <2> HIDE DEF d
  <2>2. SduEnd[d] \in Int
    BY <2>1, SduEndIs
  <2>3. SduEnd[d] <= sent
    BY <1>4, <2>1, <2>2
  <2> QED BY <2>1, <2>3 DEF d
<1>7. dl \in Seq(Seq(Part))
  BY <1>3, <1>5 DEF Delivers
<1> QED BY <1>3, <1>5, <1>6, <1>7 DEF Delivers

\* The entity delivers whole SDUs, each at most once and in the order in which they were
\* sent.
THEOREM DeliveryInOrder ==
  ASSUME SlowEnough
  PROVE  Spec => DeliversInOrder
<1>1. Init => InOrder!Init
  <2>1. SUFFICES ASSUME Init PROVE InOrder!Init
    OBVIOUS
  <2>2. sent = 0 /\ reasm.delivered = <<>>
    BY <2>1 DEF Init
  <2>3. Delivered = <<>>
    BY <2>2 DEF Delivered
  <2> QED BY <2>2, <2>3 DEF InOrder!Init
<1>2. IInv /\ [Next]_vars => [InOrder!Hand \/ InOrder!Deliver]_<<Handed(sent), Delivered>>
  <2>1. SUFFICES ASSUME IInv, [Next]_vars
                 PROVE  \/ InOrder!Hand \/ InOrder!Deliver
                        \/ Handed(sent)' = Handed(sent) /\ Delivered' = Delivered
    OBVIOUS
  <2>2. Delivers(reasm.delivered, sent) /\ sent \in 0..Total
    BY <2>1, InvDelivers
  <2>3. Delivers(reasm'.delivered, sent') /\ sent' \in 0..Total
    <3>1. IInv'
      BY <2>1, InvNext
    <3>2. IInv' => Delivers(reasm.delivered, sent)' /\ (sent \in 0..Total)'
      BY InvDelivers, PTL
    <3> QED BY <3>1, <3>2 DEF Delivers
  <2>4. CASE Extends(reasm.delivered, reasm'.delivered) /\ sent' = sent
    <3>1. PICK u : u = Ids(reasm.delivered)
      OBVIOUS
    <3>2. PICK v : v = Ids(reasm'.delivered)
      OBVIOUS
    <3>3. Len(u) <= Len(v) /\ u = SubSeq(v, 1, Len(u))
      BY <2>2, <2>3, <2>4, <3>1, <3>2, IdsExtend
    <3>4. /\ DOMAIN v = 1..Len(v) /\ Len(v) \in Nat
          /\ \A i \in DOMAIN v : /\ v[i] \in 1..NumSdu /\ SduEnd[v[i]] <= sent
                                 /\ i > 1 => v[i-1] < v[i]
      BY <2>3, <2>4, <3>2, IdsIs
    <3>5. \A i \in DOMAIN v : v[i] \in 1..Handed(sent)
      BY <2>2, <3>4, HandedIs
    <3>6. Delivered = u /\ Delivered' = v
      BY <3>1, <3>2 DEF Delivered, Ids
    <3>7. Handed(sent)' = Handed(sent)
      BY <2>4
    <3>8. InOrder!Deliver
      BY <3>3, <3>4, <3>5, <3>6, <3>7 DEF InOrder!Deliver, Handed
    <3> QED BY <3>8
  <2>5. CASE \E n \in 1..MaxTake : reasm' = reasm /\ sent' = sent + n
    <3>1. Delivered' = Delivered
      BY <2>5 DEF Delivered
    <3>2. Handed(sent) <= Handed(sent)' /\ Handed(sent) \in 0..NumSdu /\ Handed(sent)' \in 0..NumSdu
      BY <2>2, <2>3, <2>5, HandedIs, UmAssumption
    <3>3. CASE Handed(sent)' = Handed(sent)
      BY <3>1, <3>3
    <3>4. CASE Handed(sent)' # Handed(sent)
      <4>1. Handed(sent)' \in Handed(sent) + 1 .. NumSdu
        BY <3>2, <3>4
      <4>2. InOrder!Hand
        BY <3>1, <4>1 DEF InOrder!Hand, Handed
      <4> QED BY <4>2
    <3> QED BY <3>3, <3>4
  <2> QED BY <2>1, <2>4, <2>5, InvNext
<1>3. <<Handed(sent), Delivered>> = <<IF sent = 0 THEN 0 ELSE Stream[sent][1], Delivered>>
  BY DEF Handed
<1>4. IInv /\ [Next]_vars
      => [InOrder!Hand \/ InOrder!Deliver]_<<IF sent = 0 THEN 0 ELSE Stream[sent][1], Delivered>>
  BY <1>2 DEF Handed
<1> QED BY <1>1, <1>4, ReceiverInvariance, PTL DEF Spec, DeliversInOrder, InOrder!Spec

=============================================================================
