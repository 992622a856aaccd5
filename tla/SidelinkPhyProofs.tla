--------------------------- MODULE SidelinkPhyProofs ---------------------------
(***************************************************************************)
(* Theorems about SidelinkPhy, for every number of devices, groups, slots   *)
(* and symbols and every pattern, on a channel without propagation delay.   *)
(***************************************************************************)
EXTENDS SidelinkPhy, NaturalLemmas, SequenceTheorems

\* The default channel of the helper.
NoDelay == \A d, e \in Device : Delay[d][e] = 0

(* The invariant, over a list of events L and the state of the radios.  It is told by   *)
(* r, the time from the event being executed to the next start of a slot, s, the slot   *)
(* that runs, and old, the devices whose reception may have begun in the slot before.   *)

Owns(d, s) == SfAllocInfo[d][s] = d

\* A device that has not executed its StartSlot of the slot that runs.
Stale(e, r) == e.kind = "StartSlot" /\ e.at # r

\* What an event says about the slot in which it is found and about its radio.
Good(e, r, s, old, st, rx) ==
  /\ e.kind = "StartSlot" =>
       \/ e.at = r /\ e.slot = NextSlot(s)
       \/ e.at = 0 /\ r = SlotPeriod /\ e.slot = s
  /\ e.kind = "SendDataChannels" =>
       e.tb \in BlocksOf(e.dev) /\ Owns(e.dev, s) /\ e.at + Duration(e.tb) <= r
  /\ e.kind = "StartRx" =>
       /\ e.tb \in BlocksOf(e.tb.src) /\ Owns(e.tb.src, s) /\ e.dev # e.tb.src
       /\ e.at = 0 /\ Duration(e.tb) <= r
       /\ e.tb.dest = e.dev => e.aligned
  /\ e.kind = "EndTx" =>
       st[e.dev] = "TX" /\ Owns(e.dev, s) /\ e.at + 1 <= r
  /\ e.kind = "EndRxData" =>
       /\ st[e.dev] = "RX_DATA" /\ e.at <= r
       /\ e.dev \in old => e.at = 0
       /\ e.dev \notin old => Owns(rx[e.dev][1].src, s)

\* What two events, e before f in the list, say about each other.
Ok(e, f, r, old, rx) ==
  /\ e.at <= f.at
  /\ Stale(f, r) =>
       /\ e.kind \notin {"SendDataChannels", "StartRx", "EndTx"}
       /\ e.kind = "EndRxData" => e.dev \in old
  /\ Stale(e, r) =>
       /\ f.kind \notin {"StartRx", "EndTx"}
       /\ f.kind = "EndRxData" => f.dev \in old
       /\ f.kind = "SendDataChannels" => f.dev # e.dev
  /\ e.kind = "SendDataChannels" /\ f.kind = "SendDataChannels" /\ e.dev = f.dev =>
       e.at + Duration(e.tb) <= f.at
  /\ e.kind = "SendDataChannels" /\ f.kind = "EndTx" => e.dev # f.dev
  /\ e.kind = "SendDataChannels" /\ f.kind = "StartRx" => e.dev # f.tb.src
  /\ e.kind = "SendDataChannels" /\ f.kind = "EndRxData" =>
       f.dev \notin old /\ (e.dev = rx[f.dev][1].src => f.at <= e.at)
  /\ e.kind = "StartRx" /\ f.kind = "SendDataChannels" /\ e.tb.src = f.dev =>
       Duration(e.tb) <= f.at
  /\ e.kind = "StartRx" /\ f.kind = "StartRx" =>
       ~ (e.dev = f.dev /\ e.tb.dest = e.dev /\ f.tb.dest = f.dev)
  /\ e.kind = "StartRx" /\ f.kind = "EndRxData" =>
       f.dev \notin old /\ (e.dev = f.dev => e.tb.dest # e.dev)
  /\ e.kind \in {"StartSlot", "EndTx", "EndRxData"} /\ f.kind = e.kind => e.dev # f.dev

\* The events of a list.
Elems(L) == {L[i] : i \in 1..Len(L)}

\* A list in which each event is right on its own and next to each later one.
ListOk(L, r, s, old, st, rx) ==
  /\ L \in Seq(Event)
  /\ \A e \in Elems(L) : Good(e, r, s, old, st, rx)
  /\ \A i, j \in 1..Len(L) : i < j => Ok(L[i], L[j], r, old, rx)

\* An event of this kind waits for device d.
Has(S, kind, d) == \E e \in S : e.kind = kind /\ e.dev = d

\* In a set of events, every busy radio has the one that ends what it does, every device
\* a next slot, and one that has begun the slot that runs points at its owner, if that is
\* another.
RadioOk(S, r, s, st, rx, bm) ==
  \A d \in Device :
    /\ st[d] = "TX" => Has(S, "EndTx", d)
    /\ st[d] = "RX_DATA" => Has(S, "EndRxData", d)
    /\ Has(S, "StartSlot", d)
    /\ st[d] = "RX_DATA" =>
         Len(rx[d]) = 1 /\ rx[d][1].dest = d /\ rx[d][1] \in BlocksOf(rx[d][1].src)
    /\ st[d] # "RX_DATA" => rx[d] = <<>>
    /\ \/ \E e \in S : Stale(e, r) /\ e.dev = d
       \/ SfAllocInfo[d][s] \in {d, 0}
       \/ bm[d] = SfAllocInfo[d][s]

\* The variables of the radios have their types.
RadioTypes(st, rx, bm) ==
  /\ st \in [Device -> {"IDLE", "TX", "RX_DATA"}]
  /\ rx \in [Device -> Seq(Tb)]
  /\ bm \in [Device -> Device \cup {0}]

\* List and radios are as slot s, with r left of it, may leave them.
InSlot(L, r, s, old, st, rx, bm) ==
  /\ RadioTypes(st, rx, bm)
  /\ r \in 0..SlotPeriod /\ s \in 0..SlotsPerSubframe-1 /\ old \in SUBSET Device
  /\ ListOk(L, r, s, old, st, rx)
  /\ RadioOk(Elems(L), r, s, st, rx, bm)

\* No radio has failed and no block has missed its destination.
HistoryOk ==
  /\ fatal = FALSE /\ lost = {}
  /\ up \in [Device -> SUBSET Tb] /\ pending \subseteq Tb

\* The inductive invariant: some slot explains the list and the radios.
PhyInv ==
  /\ HistoryOk
  /\ \E r \in 0..SlotPeriod, s \in 0..SlotsPerSubframe-1, old \in SUBSET Device :
      InSlot(events, r, s, old, state, rxTb, beam)

------------------------------------------------------------------------------
(* Blocks, events and their times *)

\* A slot and a block last longer than nothing, and a block ends inside its slot.
LEMMA BlockTimes ==
  ASSUME NEW d \in Device
  PROVE  /\ SlotPeriod \in Nat \ {0}
         /\ \A tb \in BlocksOf(d) :
              /\ tb \in Tb /\ tb.src = d /\ tb.dest \in Peer[d] /\ tb.dest # d
              /\ tb.dest \in Device
              /\ Duration(tb) \in Nat /\ Duration(tb) > 1
              /\ tb.symStart * SymbolPeriod \in Nat
              /\ tb.symStart * SymbolPeriod + Duration(tb) <= SlotPeriod
<1>1. \A a, b \in Nat : a * b \in Nat
  OBVIOUS
<1>2. \A a, b \in Nat : a > 0 => a * b >= b
  OBVIOUS
<1>3. \A a, b, c, p \in Nat : a + b <= c => a * p + b * p <= c * p
  OBVIOUS
<1>4. SlotPeriod \in Nat \ {0}
  BY <1>1, <1>2, RadioAssumption DEF SlotPeriod
<1>5. ASSUME NEW tb \in BlocksOf(d)
      PROVE  /\ tb \in Tb /\ tb.src = d /\ tb.dest \in Peer[d] /\ tb.dest # d
             /\ tb.dest \in Device
             /\ tb.symStart \in Nat /\ tb.numSym \in Nat \ {0}
             /\ tb.symStart + tb.numSym <= SymbPerSlot
  BY RadioAssumption DEF BlocksOf, Tb, TbEnd
<1>6. ASSUME NEW tb \in BlocksOf(d)
      PROVE  /\ Duration(tb) \in Nat /\ Duration(tb) > 1
             /\ tb.symStart * SymbolPeriod \in Nat
             /\ tb.symStart * SymbolPeriod + Duration(tb) <= SlotPeriod
  <2>1. PICK a, b, c, p \in Nat : /\ a = tb.symStart /\ b = tb.numSym
                                  /\ c = SymbPerSlot /\ p = SymbolPeriod
    BY <1>5, RadioAssumption
  <2>2. a + b <= c /\ b > 0 /\ p > 1
    BY <1>5, <2>1, RadioAssumption
  <2>3. b * p \in Nat /\ b * p > 1 /\ a * p \in Nat /\ a * p + b * p <= c * p
    <3>1. b * p >= p
      BY <1>2, <2>2
    <3> QED BY <1>1, <1>3, <2>2, <3>1
  <2> QED BY <2>1, <2>3 DEF Duration, SlotPeriod
<1> QED BY <1>4, <1>5, <1>6

\* Blocks side by side: the first one has ended when the second one starts.
LEMMA BlocksApart ==
  ASSUME NEW a \in Tb, NEW b \in Tb, TbEnd(a) <= b.symStart
  PROVE  a.symStart * SymbolPeriod + Duration(a) <= b.symStart * SymbolPeriod
<1>1. \A x, y, z, p \in Nat : x + y <= z => x * p + y * p <= z * p
  OBVIOUS
<1>2. PICK x, y, z, p \in Nat : /\ x = a.symStart /\ y = a.numSym
                                /\ z = b.symStart /\ p = SymbolPeriod
  <2>1. a.symStart \in Nat /\ a.numSym \in Nat /\ b.symStart \in Nat
    BY RadioAssumption DEF Tb
  <2> QED BY <2>1, RadioAssumption
<1>3. x + y <= z
  BY <1>2 DEF TbEnd
<1> QED BY <1>1, <1>2, <1>3 DEF Duration

\* The fields of an event.
LEMMA EventFields ==
  ASSUME NEW e \in Event
  PROVE  /\ e.at \in Nat /\ e.dev \in Device
         /\ e.kind \in {"StartSlot", "SendDataChannels", "StartRx", "EndTx", "EndRxData"}
         /\ e.kind \in {"SendDataChannels", "StartRx"} => e.tb \in Tb
         /\ e.kind = "StartSlot" => e.slot \in 0..SlotsPerSubframe-1
BY DEF Event

\* An event seen from a later time.
Shift(e, a) == [e EXCEPT !.at = @ - a]

\* Only its time changes, and it stays an event.
LEMMA ShiftIs ==
  ASSUME NEW e \in Event, NEW a \in Nat, a <= e.at
  PROVE  /\ Shift(e, a) \in Event /\ Shift(e, a).at = e.at - a
         /\ Shift(e, a).kind = e.kind /\ Shift(e, a).dev = e.dev
         /\ Shift(e, a).tb = e.tb /\ Shift(e, a).slot = e.slot
         /\ Shift(e, a).aligned = e.aligned
BY DEF Event, Shift

------------------------------------------------------------------------------
(* The event list *)

\* A list in the order of its times.
Sorted(L) == \A i, j \in 1..Len(L) : i < j => L[i].at <= L[j].at

\* In a sorted list there is a place behind the events of the same time.
LEMMA PlaceExists ==
  ASSUME NEW L \in Seq(Event), Sorted(L), NEW at \in Nat
  PROVE  \E n \in 0..Len(L) : IsPlace(L, at, n)
<1> DEFINE S == {n \in Nat : n = Len(L) \/ (n < Len(L) /\ L[n+1].at > at)}
<1>1. Len(L) \in S /\ S \in SUBSET Nat
  OBVIOUS
<1>2. PICK n \in S : \A k \in S : n <= k
  <2> HIDE DEF S
  <2> QED BY <1>1, LeastExists
<1>3. n \in 0..Len(L)
  BY <1>1, <1>2
<1>4. ASSUME NEW i \in 1..n PROVE L[i].at <= at
  <2>1. i - 1 \notin S /\ i - 1 \in Nat /\ i - 1 < Len(L) /\ (i - 1) + 1 = i
    BY <1>2, <1>3
  <2>2. i \in 1..Len(L) /\ L[i] \in Event
    BY <1>3
  <2> QED BY <2>1, <2>2, EventFields
<1>5. ASSUME NEW i \in n+1..Len(L) PROVE L[i].at > at
  <2>1. n < Len(L) /\ L[n+1].at > at
    BY <1>2, <1>3
  <2>2. i \in 1..Len(L) /\ n+1 \in 1..Len(L)
    BY <1>3, <2>1
  <2>3. L[i].at \in Nat /\ L[n+1].at \in Nat
    BY <2>2, EventFields
  <2>4. L[n+1].at <= L[i].at
    BY <2>2, <2>3 DEF Sorted
  <2> QED BY <2>1, <2>3, <2>4
<1> QED BY <1>3, <1>4, <1>5 DEF IsPlace

\* M is the list L with the event e put behind the first n.
IsInserted(M, L, e, n) ==
  /\ M \in Seq(Event) /\ Len(M) = Len(L) + 1
  /\ \A i \in 1..n : M[i] = L[i]
  /\ M[n+1] = e
  /\ \A i \in n+1..Len(L) : M[i+1] = L[i]

\* A concatenation, part by part.
LEMMA ConcatParts ==
  ASSUME NEW a \in Seq(Event), NEW b \in Seq(Event)
  PROVE  /\ a \o b \in Seq(Event) /\ Len(a \o b) = Len(a) + Len(b)
         /\ \A i \in 1..Len(a) : (a \o b)[i] = a[i]
         /\ \A i \in 1..Len(b) : (a \o b)[Len(a) + i] = b[i]
BY ConcatProperties

\* Schedule puts the event behind those of the same time.
LEMMA ScheduleIs ==
  ASSUME NEW L \in Seq(Event), Sorted(L), NEW e \in Event
  PROVE  \E n \in 0..Len(L) : IsPlace(L, e.at, n) /\ IsInserted(Schedule(e)[L], L, e, n)
<1> DEFINE n == CHOOSE n \in 0..Len(L) : IsPlace(L, e.at, n)
<1>1. n \in 0..Len(L) /\ IsPlace(L, e.at, n)
  <2>1. e.at \in Nat
    BY EventFields
  <2> QED BY <2>1, PlaceExists
<1>2. Schedule(e)[L] = SubSeq(L, 1, n) \o <<e>> \o SubSeq(L, n + 1, Len(L))
  BY DEF Schedule
<1> HIDE DEF n
<1>3. PICK a, b, c : /\ a = SubSeq(L, 1, n) /\ b = <<e>> /\ c = SubSeq(L, n + 1, Len(L))
  OBVIOUS
<1>4. /\ a \in Seq(Event) /\ Len(a) = n /\ \A i \in 1..n : a[i] = L[i]
      /\ b \in Seq(Event) /\ Len(b) = 1 /\ b[1] = e
      /\ c \in Seq(Event) /\ Len(c) = Len(L) - n /\ \A i \in 1..Len(L)-n : c[i] = L[n+i]
  BY <1>1, <1>3
<1>5. PICK ab : ab = a \o b
  OBVIOUS
<1>6. PICK M : M = ab \o c
  OBVIOUS
<1> HIDE DEF IsPlace, Sorted
<1>7. /\ ab \in Seq(Event) /\ Len(ab) = n + 1
      /\ \A i \in 1..n : ab[i] = a[i]
      /\ ab[n+1] = e
  <2>1. /\ a \o b \in Seq(Event) /\ Len(a \o b) = Len(a) + Len(b)
        /\ \A i \in 1..Len(a) : (a \o b)[i] = a[i]
        /\ \A i \in 1..Len(b) : (a \o b)[Len(a) + i] = b[i]
    BY <1>4, ConcatParts
  <2> QED BY <1>4, <1>5, <2>1
<1>8. /\ M \in Seq(Event) /\ Len(M) = Len(L) + 1
      /\ \A i \in 1..n+1 : M[i] = ab[i]
      /\ \A i \in 1..Len(L)-n : M[(n+1) + i] = c[i]
  <2>1. /\ ab \o c \in Seq(Event) /\ Len(ab \o c) = Len(ab) + Len(c)
        /\ \A i \in 1..Len(ab) : (ab \o c)[i] = ab[i]
        /\ \A i \in 1..Len(c) : (ab \o c)[Len(ab) + i] = c[i]
    BY <1>4, <1>7, ConcatParts
  <2>2. Len(ab) + Len(c) = Len(L) + 1
    BY <1>1, <1>4, <1>7
  <2> QED BY <1>4, <1>6, <1>7, <2>1, <2>2
<1>9. ASSUME NEW i \in 1..n PROVE M[i] = L[i]
  <2>1. i \in 1..n+1
    BY <1>1
  <2> QED BY <1>4, <1>7, <1>8, <2>1
<1>10. M[n+1] = e
  <2>1. n + 1 \in 1..n+1
    BY <1>1
  <2> QED BY <1>7, <1>8, <2>1
<1>11. ASSUME NEW i \in n+1..Len(L) PROVE M[i+1] = L[i]
  <2>1. PICK k \in 1..Len(L)-n : n + k = i /\ (n + 1) + k = i + 1
    <3>1. i - n \in 1..Len(L)-n
      BY <1>1
    <3> QED BY <1>1, <3>1
  <2>2. M[(n + 1) + k] = c[k] /\ c[k] = L[n + k]
    BY <1>4, <1>8
  <2> QED BY <2>1, <2>2
<1>12. Schedule(e)[L] = M
  BY <1>2, <1>3, <1>5, <1>6
<1>13. IsInserted(M, L, e, n)
  BY <1>8, <1>9, <1>10, <1>11 DEF IsInserted
<1> QED BY <1>1, <1>12, <1>13

\* An event more in the list.
LEMMA InsertedElems ==
  ASSUME NEW L \in Seq(Event), NEW e, NEW n \in 0..Len(L), NEW M, IsInserted(M, L, e, n)
  PROVE  Elems(M) = Elems(L) \union {e}
<1>1. /\ Len(M) = Len(L) + 1 /\ M[n+1] = e
      /\ \A i \in 1..n : M[i] = L[i]
      /\ \A i \in n+1..Len(L) : M[i+1] = L[i]
  BY DEF IsInserted
<1>2. ASSUME NEW i \in 1..Len(M) PROVE M[i] \in Elems(L) \union {e}
  <2>1. CASE i <= n
    <3>1. i \in 1..Len(L) /\ M[i] = L[i]
      BY <1>1, <2>1
    <3> QED BY <3>1 DEF Elems
  <2>2. CASE i = n + 1
    BY <1>1, <2>2
  <2>3. CASE i > n + 1
    <3>1. i - 1 \in n+1..Len(L) /\ i - 1 \in 1..Len(L) /\ (i - 1) + 1 = i
      BY <1>1, <2>3
    <3>2. M[i] = L[i-1]
      BY <1>1, <3>1
    <3> QED BY <3>1, <3>2 DEF Elems
  <2> QED BY <2>1, <2>2, <2>3
<1>3. ASSUME NEW i \in 1..Len(L) PROVE L[i] \in Elems(M)
  <2>1. CASE i <= n
    <3>1. i \in 1..Len(M) /\ M[i] = L[i]
      BY <1>1, <2>1
    <3> QED BY <3>1 DEF Elems
  <2>2. CASE i > n
    <3>1. i + 1 \in 1..Len(M) /\ M[i+1] = L[i]
      BY <1>1, <2>2
    <3> QED BY <3>1 DEF Elems
  <2> QED BY <2>1, <2>2
<1>4. e \in Elems(M)
  <2>1. n + 1 \in 1..Len(M) /\ M[n+1] = e
    BY <1>1
  <2> QED BY <2>1 DEF Elems
<1>5. Elems(M) \subseteq Elems(L) \union {e}
  BY <1>2 DEF Elems
<1>6. Elems(L) \subseteq Elems(M)
  BY <1>3 DEF Elems
<1> QED BY <1>4, <1>5, <1>6

\* The event e agrees with the events of the list that it will come behind and before.
Fits(e, L, r, old, rx) ==
  \A f \in Elems(L) :
    /\ f.at <= e.at => Ok(f, e, r, old, rx)
    /\ f.at > e.at => Ok(e, f, r, old, rx)

\* What has to be shown of a new event: it is as it should be, and it agrees with the
\* earlier events before and the later events behind it.
LEMMA ScheduleOk ==
  ASSUME NEW L, NEW r, NEW s, NEW old, NEW st, NEW rx, ListOk(L, r, s, old, st, rx),
         NEW e \in Event, Good(e, r, s, old, st, rx), Fits(e, L, r, old, rx)
  PROVE  /\ ListOk(Schedule(e)[L], r, s, old, st, rx)
         /\ Elems(Schedule(e)[L]) = Elems(L) \union {e}
<1>1. L \in Seq(Event) /\ Sorted(L)
  BY DEF ListOk, Ok, Sorted
<1>2. PICK M : M = Schedule(e)[L]
  OBVIOUS
<1>3. PICK n \in 0..Len(L) : IsPlace(L, e.at, n) /\ IsInserted(M, L, e, n)
  BY <1>1, <1>2, ScheduleIs
<1>4. /\ M \in Seq(Event) /\ Len(M) = Len(L) + 1 /\ M[n+1] = e
      /\ \A i \in 1..n : M[i] = L[i]
      /\ \A i \in n+1..Len(L) : M[i+1] = L[i]
  BY <1>3 DEF IsInserted
<1>8. Elems(M) = Elems(L) \union {e}
  BY <1>1, <1>3, InsertedElems
<1>5. \A f \in Elems(M) : Good(f, r, s, old, st, rx)
  BY <1>8 DEF ListOk
<1>6. ASSUME NEW i \in 1..Len(M), NEW j \in 1..Len(M), i < j
      PROVE  Ok(M[i], M[j], r, old, rx)
  <2>1. CASE j = n + 1
    <3>1. i \in 1..n /\ i \in 1..Len(L) /\ M[i] = L[i] /\ M[j] = e
      BY <1>4, <1>6, <2>1
    <3>2. L[i] \in Elems(L) /\ L[i].at <= e.at
      BY <1>3, <3>1 DEF Elems, IsPlace
    <3> QED BY <3>1, <3>2 DEF Fits
  <2>2. CASE i = n + 1
    <3>1. j - 1 \in n+1..Len(L) /\ j - 1 \in 1..Len(L) /\ (j - 1) + 1 = j
      BY <1>4, <1>6, <2>2
    <3>2. M[j] = L[j-1] /\ M[i] = e
      BY <1>4, <2>2, <3>1
    <3>3. L[j-1] \in Elems(L) /\ L[j-1].at > e.at
      BY <1>3, <3>1 DEF Elems, IsPlace
    <3> QED BY <3>2, <3>3 DEF Fits
  <2>3. CASE i # n + 1 /\ j # n + 1
    <3>1. \E k, l \in 1..Len(L) : k < l /\ M[i] = L[k] /\ M[j] = L[l]
      <4>1. CASE j <= n
        <5>1. i \in 1..Len(L) /\ j \in 1..Len(L) /\ M[i] = L[i] /\ M[j] = L[j]
          BY <1>4, <1>6, <4>1
        <5> QED BY <1>6, <5>1
      <4>2. CASE i <= n /\ j > n + 1
        <5>1. i \in 1..Len(L) /\ j - 1 \in n+1..Len(L) /\ j - 1 \in 1..Len(L)
              /\ i < j - 1 /\ i \in 1..n /\ (j - 1) + 1 = j
          BY <1>4, <1>6, <4>2
        <5>2. M[i] = L[i] /\ M[j] = L[j-1]
          BY <1>4, <5>1
        <5> QED BY <5>1, <5>2
      <4>3. CASE i > n + 1
        <5>1. /\ i - 1 \in n+1..Len(L) /\ i - 1 \in 1..Len(L) /\ (i - 1) + 1 = i
              /\ j - 1 \in n+1..Len(L) /\ j - 1 \in 1..Len(L) /\ (j - 1) + 1 = j
              /\ i - 1 < j - 1
          BY <1>4, <1>6, <4>3
        <5>2. M[i] = L[i-1] /\ M[j] = L[j-1]
          BY <1>4, <5>1
        <5> QED BY <5>1, <5>2
      <4> QED BY <1>4, <1>6, <2>3, <4>1, <4>2, <4>3
    <3> QED BY <3>1 DEF ListOk
  <2> QED BY <2>1, <2>2, <2>3
<1>7. ListOk(M, r, s, old, st, rx)
  BY <1>4, <1>5, <1>6 DEF ListOk
<1> QED BY <1>2, <1>7, <1>8

\* The list without its head, seen from the time of the head.
LEMMA RestIs ==
  ASSUME events \in Seq(Event), Sorted(events), events # <<>>
  PROVE  /\ Now \in Event /\ Now \in Elems(events) /\ Now = events[1] /\ Len(events) \in Nat \ {0}
         /\ Rest \in Seq(Event) /\ Len(Rest) = Len(events) - 1
         /\ \A i \in 1..Len(events)-1 :
              /\ Rest[i] = Shift(events[i+1], Now.at)
              /\ events[i+1] \in Event /\ Now.at <= events[i+1].at
<1>1. Len(events) \in Nat \ {0} /\ Now = events[1] /\ Now \in Event
  BY DEF Now
<1>2. Now \in Elems(events)
  BY <1>1 DEF Elems
<1>3. ASSUME NEW i \in 1..Len(events)-1
      PROVE  /\ events[i+1] \in Event /\ Now.at <= events[i+1].at
             /\ Shift(events[i+1], Now.at) \in Event
  <2>1. i + 1 \in 1..Len(events) /\ 1 \in 1..Len(events) /\ 1 < i + 1
    BY <1>1
  <2>2. events[i+1] \in Event /\ events[1].at <= events[i+1].at
    BY <2>1 DEF Sorted
  <2>3. Now.at \in Nat
    BY <1>1, EventFields
  <2> QED BY <1>1, <2>2, <2>3, ShiftIs
<1>4. Rest = [i \in 1..Len(events)-1 |-> Shift(events[i+1], Now.at)]
  BY DEF Rest, Shift
<1>5. Len(events) - 1 \in Nat
  BY <1>1
<1>6. Rest \in Seq(Event) /\ Len(Rest) = Len(events) - 1
  <2> DEFINE F(i) == Shift(events[i+1], Now.at)
  <2>1. \A i \in 1..Len(events)-1 : F(i) \in Event
    BY <1>3
  <2> HIDE DEF F
  <2>2. [i \in 1..Len(events)-1 |-> F(i)] \in Seq(Event)
    BY <1>5, <2>1
  <2>3. Len([i \in 1..Len(events)-1 |-> F(i)]) = Len(events) - 1
    BY <1>5
  <2> QED BY <1>4, <2>2, <2>3 DEF F
<1> QED BY <1>1, <1>2, <1>3, <1>4, <1>6

\* The events left, one by one.
LEMMA RestElems ==
  ASSUME events \in Seq(Event), Sorted(events), events # <<>>
  PROVE  /\ \A e \in Elems(events) :
              e = Now \/ (e \in Event /\ Now.at <= e.at /\ Shift(e, Now.at) \in Elems(Rest))
         /\ \A f \in Elems(Rest) :
              \E e \in Elems(events) : e \in Event /\ Now.at <= e.at /\ f = Shift(e, Now.at)
<1>1. /\ Now = events[1] /\ Len(events) \in Nat \ {0}
      /\ Len(Rest) = Len(events) - 1
      /\ \A i \in 1..Len(events)-1 :
           /\ Rest[i] = Shift(events[i+1], Now.at)
           /\ events[i+1] \in Event /\ Now.at <= events[i+1].at
  BY RestIs
<1>2. ASSUME NEW e \in Elems(events)
      PROVE  e = Now \/ (e \in Event /\ Now.at <= e.at /\ Shift(e, Now.at) \in Elems(Rest))
  <2>1. PICK i \in 1..Len(events) : e = events[i]
    BY DEF Elems
  <2>2. CASE i = 1
    BY <1>1, <2>1, <2>2
  <2>3. CASE i # 1
    <3>1. i - 1 \in 1..Len(events)-1 /\ (i - 1) + 1 = i
      BY <1>1, <2>3
    <3>2. Rest[i-1] = Shift(e, Now.at) /\ e \in Event /\ Now.at <= e.at
      BY <1>1, <2>1, <3>1
    <3>3. Rest[i-1] \in Elems(Rest)
      BY <1>1, <3>1 DEF Elems
    <3> QED BY <3>2, <3>3
  <2> QED BY <2>2, <2>3
<1>3. ASSUME NEW f \in Elems(Rest)
      PROVE  \E e \in Elems(events) : e \in Event /\ Now.at <= e.at /\ f = Shift(e, Now.at)
  <2>1. PICK i \in 1..Len(events)-1 : f = Rest[i]
    BY <1>1 DEF Elems
  <2>2. i + 1 \in 1..Len(events)
    BY <1>1
  <2>3. events[i+1] \in Elems(events)
    BY <2>2 DEF Elems
  <2> QED BY <1>1, <2>1, <2>3
<1> QED BY <1>2, <1>3

\* The lists that come about when the events es are scheduled, one after the other.
Grows(after, L, es, n) ==
  /\ after[0] = L
  /\ \A i \in 1..n : after[i] = Schedule(es[i])[after[i-1]]

\* ScheduleAll is the last of the lists that grow by one event each.
LEMMA ScheduleAllIs ==
  ASSUME NEW L \in Seq(Event), NEW es, NEW n \in Nat, Len(es) = n
  PROVE  \E after : ScheduleAll(L, es) = after[n] /\ Grows(after, L, es, n)
<1> DEFINE Is(after, m) ==
             after = [i \in 0..m |-> IF i = 0 THEN L ELSE Schedule(es[i])[after[i-1]]]
           P == {m \in 0..n : \E after : Is(after, m)}
<1>1. 0 \in P
  <2> DEFINE after == [i \in 0..0 |-> L]
  <2>1. Is(after, 0)
    <3>1. \A i \in 0..0 : i = 0
      OBVIOUS
    <3> QED BY <3>1
  <2> HIDE DEF Is, after
  <2> QED BY <2>1
<1>2. ASSUME NEW m \in 1..n, m - 1 \in P PROVE m \in P
  <2>1. PICK before : Is(before, m - 1)
    BY <1>2
  <2>2. \A i \in 0..m-1 : before[i] = IF i = 0 THEN L ELSE Schedule(es[i])[before[i-1]]
    BY <2>1
  <2> DEFINE after == [i \in 0..m |-> IF i = m THEN Schedule(es[m])[before[m-1]] ELSE before[i]]
  <2>3. ASSUME NEW i \in 0..m
        PROVE  after[i] = IF i = 0 THEN L ELSE Schedule(es[i])[after[i-1]]
    <3>1. CASE i = m
      <4>1. m # 0 /\ m - 1 \in 0..m /\ m - 1 # m
        OBVIOUS
      <4>2. after[m] = Schedule(es[m])[before[m-1]] /\ after[m-1] = before[m-1]
        BY <4>1
      <4> HIDE DEF after
      <4> QED BY <3>1, <4>1, <4>2
    <3>2. CASE i # m
      <4>1. i \in 0..m-1 /\ (i # 0 => i - 1 \in 0..m /\ i - 1 # m)
        BY <3>2
      <4>2. after[i] = before[i] /\ (i # 0 => after[i-1] = before[i-1])
        BY <3>2, <4>1
      <4> HIDE DEF after
      <4> QED BY <2>2, <4>1, <4>2
    <3> QED BY <3>1, <3>2
  <2>4. Is(after, m)
    <3>1. after = [i \in 0..m |-> after[i]]
      OBVIOUS
    <3> HIDE DEF after
    <3> QED BY <2>3, <3>1
  <2> HIDE DEF Is, after
  <2> QED BY <2>4
<1>3. n \in P
  <2> HIDE DEF P
  <2>1. 0..n \subseteq P
    BY <1>1, <1>2, InductionUpTo
  <2> QED BY <2>1
<1>4. PICK after : after = CHOOSE g : Is(g, n)
  OBVIOUS
<1>5. Is(after, n)
  <2> HIDE DEF Is
  <2> QED BY <1>3, <1>4
<1>6. ScheduleAll(L, es) = after[n]
  BY <1>4 DEF ScheduleAll
<1>7. after[0] = L
  BY <1>5
<1>8. ASSUME NEW i \in 1..n PROVE after[i] = Schedule(es[i])[after[i-1]]
  <2>1. i \in 0..n /\ i # 0
    OBVIOUS
  <2>2. \A j \in 0..n : after[j] = IF j = 0 THEN L ELSE Schedule(es[j])[after[j-1]]
    BY <1>5
  <2> HIDE DEF Is
  <2> QED BY <2>1, <2>2
<1> QED BY <1>6, <1>7, <1>8 DEF Grows

------------------------------------------------------------------------------
(* Time goes on to the event being executed *)

\* No event of the slot that runs is later than the start of the next slot.
LEMMA NoLaterThanSlot ==
  ASSUME NEW e \in Event, NEW r \in 0..SlotPeriod, NEW s, NEW old, NEW st, NEW rx,
         Good(e, r, s, old, st, rx)
  PROVE  e.at <= r
<1>1. e.at \in Nat /\ e.dev \in Device /\ r \in Nat
  BY EventFields, BlockTimes
<1>2. CASE e.kind = "SendDataChannels"
  <2>1. e.tb \in BlocksOf(e.dev) /\ e.at + Duration(e.tb) <= r
    BY <1>2 DEF Good
  <2>2. Duration(e.tb) \in Nat
    BY <1>1, <2>1, BlockTimes
  <2> QED BY <1>1, <2>1, <2>2
<1>3. CASE e.kind # "SendDataChannels"
  BY <1>1, <1>3, EventFields DEF Good
<1> QED BY <1>2, <1>3

\* What an event says of its slot is also true when it is seen from a later time.
LEMMA ShiftGood ==
  ASSUME NEW e \in Event, NEW r \in 0..SlotPeriod, NEW s, NEW old, NEW st, NEW rx,
         Good(e, r, s, old, st, rx), NEW a \in Nat, a <= e.at
  PROVE  Good(Shift(e, a), r - a, s, old, st, rx)
<1>1. e.at \in Nat /\ e.dev \in Device /\ r \in Nat /\ SlotPeriod \in Nat
  BY EventFields, BlockTimes
<1>2. PICK x : x = Shift(e, a)
  OBVIOUS
<1>3. /\ x.at = e.at - a /\ x.kind = e.kind /\ x.dev = e.dev /\ x.tb = e.tb /\ x.slot = e.slot
      /\ x.aligned = e.aligned
  BY <1>2, ShiftIs
<1>4. e.kind = "SendDataChannels" => Duration(e.tb) \in Nat
  BY <1>1, BlockTimes DEF Good
<1>5. e.kind = "StartRx" => Duration(e.tb) \in Nat
  BY EventFields, BlockTimes DEF Good, Tb
<1>6. Good(x, r - a, s, old, st, rx)
  <2>1. CASE e.kind = "StartSlot"
    BY <1>1, <1>3, <2>1 DEF Good
  <2>2. CASE e.kind = "SendDataChannels"
    BY <1>1, <1>3, <1>4, <2>2 DEF Good
  <2>3. CASE e.kind = "StartRx"
    BY <1>1, <1>3, <1>5, <2>3 DEF Good
  <2>4. CASE e.kind = "EndTx"
    BY <1>1, <1>3, <2>4 DEF Good
  <2>5. CASE e.kind = "EndRxData"
    BY <1>1, <1>3, <2>5 DEF Good
  <2> QED BY <2>1, <2>2, <2>3, <2>4, <2>5, EventFields
<1> QED BY <1>2, <1>6

\* And what two events say of each other is.
LEMMA ShiftOk ==
  ASSUME NEW e \in Event, NEW f \in Event, NEW r \in 0..SlotPeriod, NEW s, NEW old, NEW st, NEW rx,
         Good(e, r, s, old, st, rx), Good(f, r, s, old, st, rx),
         Ok(e, f, r, old, rx), NEW a \in Nat, a <= e.at, a <= f.at
  PROVE  Ok(Shift(e, a), Shift(f, a), r - a, old, rx)
<1>1. e.at \in Nat /\ f.at \in Nat /\ e.dev \in Device /\ r \in Nat
  BY EventFields, BlockTimes
<1>2. PICK x, y : x = Shift(e, a) /\ y = Shift(f, a)
  OBVIOUS
<1>3. /\ x.at = e.at - a /\ x.kind = e.kind /\ x.dev = e.dev /\ x.tb = e.tb
      /\ y.at = f.at - a /\ y.kind = f.kind /\ y.dev = f.dev /\ y.tb = f.tb
  BY <1>2, ShiftIs
<1>4. (Stale(x, r - a) <=> Stale(e, r)) /\ (Stale(y, r - a) <=> Stale(f, r))
  BY <1>1, <1>3 DEF Stale
<1>5. e.kind = "SendDataChannels" => Duration(e.tb) \in Nat
  BY <1>1, BlockTimes DEF Good
<1>6. e.kind = "StartRx" => Duration(e.tb) \in Nat /\ e.at = 0
  BY EventFields, BlockTimes DEF Good, Tb
<1>7. Ok(x, y, r - a, old, rx)
  BY <1>1, <1>3, <1>4, <1>5, <1>6 DEF Ok
<1> QED BY <1>2, <1>7

\* The events left, seen from the time of the head, still are as they should be.
LEMMA RestOk ==
  ASSUME NEW r \in 0..SlotPeriod, NEW s, NEW old, NEW st, NEW rx,
         ListOk(events, r, s, old, st, rx), events # <<>>
  PROVE  ListOk(Rest, r - Now.at, s, old, st, rx)
<1>1. events \in Seq(Event) /\ Sorted(events)
  BY DEF ListOk, Ok, Sorted
<1>2. /\ Now \in Event /\ Len(events) \in Nat \ {0}
      /\ Rest \in Seq(Event) /\ Len(Rest) = Len(events) - 1
      /\ \A i \in 1..Len(events)-1 :
           /\ Rest[i] = Shift(events[i+1], Now.at)
           /\ events[i+1] \in Event /\ Now.at <= events[i+1].at
  BY <1>1, RestIs
<1>3. Now.at \in Nat
  BY <1>2, EventFields
<1>4. ASSUME NEW i \in 1..Len(Rest)
      PROVE  /\ Good(events[i+1], r, s, old, st, rx)
             /\ Rest[i] = Shift(events[i+1], Now.at) /\ events[i+1] \in Event
             /\ Now.at <= events[i+1].at
  <2>1. i + 1 \in 1..Len(events) /\ i \in 1..Len(events)-1
    BY <1>2
  <2>2. events[i+1] \in Elems(events)
    BY <2>1 DEF Elems
  <2> QED BY <1>2, <2>1, <2>2 DEF ListOk
<1>5. ASSUME NEW f \in Elems(Rest) PROVE Good(f, r - Now.at, s, old, st, rx)
  <2>1. PICK i \in 1..Len(Rest) : f = Rest[i]
    BY DEF Elems
  <2> QED BY <1>3, <1>4, <2>1, ShiftGood
<1>6. ASSUME NEW i \in 1..Len(Rest), NEW j \in 1..Len(Rest), i < j
      PROVE  Ok(Rest[i], Rest[j], r - Now.at, old, rx)
  <2>1. i + 1 \in 1..Len(events) /\ j + 1 \in 1..Len(events) /\ i + 1 < j + 1
    BY <1>2, <1>6
  <2>2. Ok(events[i+1], events[j+1], r, old, rx)
    BY <2>1 DEF ListOk
  <2>3. /\ Good(events[i+1], r, s, old, st, rx) /\ events[i+1] \in Event
        /\ Now.at <= events[i+1].at /\ Rest[i] = Shift(events[i+1], Now.at)
    BY <1>4
  <2>4. /\ Good(events[j+1], r, s, old, st, rx) /\ events[j+1] \in Event
        /\ Now.at <= events[j+1].at /\ Rest[j] = Shift(events[j+1], Now.at)
    BY <1>4
  <2>5. Ok(Shift(events[i+1], Now.at), Shift(events[j+1], Now.at), r - Now.at, old, rx)
    BY <1>3, <2>2, <2>3, <2>4, ShiftOk
  <2> QED BY <2>3, <2>4, <2>5
<1> QED BY <1>2, <1>5, <1>6 DEF ListOk

\* The head h of the list, now at 0, the rest L of the list and the radios, when h is
\* executed.
Executes(h, L, r, s, old, st, rx, bm) ==
  /\ RadioTypes(st, rx, bm)
  /\ r \in 0..SlotPeriod /\ s \in 0..SlotsPerSubframe-1 /\ old \in SUBSET Device
  /\ ListOk(L, r, s, old, st, rx)
  /\ h \in Event /\ h.at = 0 /\ Good(h, r, s, old, st, rx)
  /\ \A f \in Elems(L) : f \in Event /\ Ok(h, f, r, old, rx)
  /\ RadioOk(Elems(L) \union {h}, r, s, st, rx, bm)

\* The time of the head is reached.
LEMMA Advance ==
  ASSUME NEW r, NEW s, NEW old, InSlot(events, r, s, old, state, rxTb, beam), events # <<>>
  PROVE  \E h : /\ Executes(h, Rest, r - Now.at, s, old, state, rxTb, beam)
                /\ h.kind = Now.kind /\ h.dev = Now.dev /\ h.tb = Now.tb /\ h.slot = Now.slot
<1> DEFINE a == Now.at
           h == Shift(Now, a)
<1>1. /\ RadioTypes(state, rxTb, beam)
      /\ r \in 0..SlotPeriod /\ s \in 0..SlotsPerSubframe-1 /\ old \in SUBSET Device
      /\ ListOk(events, r, s, old, state, rxTb)
      /\ RadioOk(Elems(events), r, s, state, rxTb, beam)
  BY DEF InSlot
<1>2. events \in Seq(Event) /\ Sorted(events)
  BY <1>1 DEF ListOk, Ok, Sorted
<1>3. /\ Now \in Event /\ Now \in Elems(events) /\ Good(Now, r, s, old, state, rxTb)
      /\ a \in Nat /\ a <= r
  <2>1. Now \in Event /\ Now \in Elems(events)
    BY <1>2, RestIs
  <2>2. Good(Now, r, s, old, state, rxTb)
    BY <1>1, <2>1 DEF ListOk
  <2>3. a \in Nat
    BY <2>1, EventFields
  <2> QED BY <1>1, <2>1, <2>2, <2>3, NoLaterThanSlot
<1>4. r - a \in 0..SlotPeriod
  BY <1>1, <1>3, RadioAssumption DEF SlotPeriod
<1>5. /\ h \in Event /\ h.at = 0 /\ h.kind = Now.kind /\ h.dev = Now.dev /\ h.tb = Now.tb
      /\ h.slot = Now.slot /\ h.aligned = Now.aligned
  BY <1>3, ShiftIs
<1>6. Good(h, r - a, s, old, state, rxTb)
  BY <1>1, <1>3, ShiftGood
<1>7. ListOk(Rest, r - a, s, old, state, rxTb)
  BY <1>1, RestOk
<1>8. ASSUME NEW f \in Elems(Rest) PROVE f \in Event /\ Ok(h, f, r - a, old, rxTb)
  <2>1. PICK i \in 1..Len(events)-1 : f = Shift(events[i+1], a)
    <3>1. PICK i \in 1..Len(Rest) : f = Rest[i]
      BY DEF Elems
    <3> QED BY <1>2, <3>1, RestIs
  <2>2. /\ i + 1 \in 1..Len(events) /\ 1 \in 1..Len(events) /\ 1 < i + 1 /\ Now = events[1]
        /\ events[i+1] \in Event /\ a <= events[i+1].at
    <3>1. Len(events) \in Nat
      BY <1>2
    <3>2. i + 1 \in 1..Len(events) /\ 1 \in 1..Len(events) /\ 1 < i + 1
      BY <3>1
    <3>3. Now = events[1] /\ events[i+1] \in Event /\ Now.at <= events[i+1].at
      BY <1>2, RestIs
    <3> QED BY <3>2, <3>3
  <2>3. Ok(Now, events[i+1], r, old, rxTb) /\ Good(events[i+1], r, s, old, state, rxTb)
    <3>1. events[i+1] \in Elems(events)
      BY <2>2 DEF Elems
    <3> QED BY <1>1, <2>2, <3>1 DEF ListOk
  <2>4. Ok(h, f, r - a, old, rxTb)
    BY <1>1, <1>3, <2>1, <2>2, <2>3, ShiftOk
  <2>5. f \in Event
    BY <1>3, <2>1, <2>2, ShiftIs
  <2> QED BY <2>4, <2>5
<1>9. RadioOk(Elems(Rest) \union {h}, r - a, s, state, rxTb, beam)
  <2>1. ASSUME NEW e \in Elems(events)
        PROVE  \E x \in Elems(Rest) \union {h} :
                 x.kind = e.kind /\ x.dev = e.dev /\ (Stale(e, r) => Stale(x, r - a))
    <3>1. CASE e = Now
      <4>1. Stale(Now, r) => Stale(h, r - a)
        BY <1>1, <1>3, <1>5, BlockTimes DEF Stale
      <4> QED BY <1>5, <3>1, <4>1
    <3>2. CASE e # Now
      <4>1. e \in Event /\ a <= e.at /\ Shift(e, a) \in Elems(Rest)
        BY <1>2, <3>2, RestElems
      <4>2. /\ Shift(e, a).at = e.at - a /\ Shift(e, a).kind = e.kind
            /\ Shift(e, a).dev = e.dev /\ e.at \in Nat
        BY <1>3, <4>1, ShiftIs, EventFields
      <4>3. Stale(e, r) => Stale(Shift(e, a), r - a)
        BY <1>1, <1>3, <4>2, BlockTimes DEF Stale
      <4> QED BY <4>1, <4>2, <4>3
    <3> QED BY <3>1, <3>2
  <2> HIDE DEF h, a
  <2>2. \A k, d : Has(Elems(events), k, d) => Has(Elems(Rest) \union {h}, k, d)
    BY <2>1 DEF Has
  <2>3. ASSUME NEW d, \E e \in Elems(events) : Stale(e, r) /\ e.dev = d
        PROVE  \E e \in Elems(Rest) \union {h} : Stale(e, r - a) /\ e.dev = d
    BY <2>1, <2>3
  <2> QED BY <1>1, <2>2, <2>3 DEF RadioOk
<1> QED BY <1>1, <1>4, <1>5, <1>6, <1>7, <1>8, <1>9 DEF Executes

------------------------------------------------------------------------------
(* The steps, over the list L that is left when the head h has been taken *)

\* The devices of a block share a pattern.
LEMMA OneOwner ==
  ASSUME NEW a \in Device, NEW tb \in BlocksOf(a)
  PROVE  /\ tb.dest \in Device /\ tb.dest # a /\ tb.src = a
         /\ SfAllocInfo[tb.dest] = SfAllocInfo[a]
BY RadioAssumption, PatternAssumption DEF BlocksOf, Tb

\* Executing an event takes none of another kind or device away.
LEMMA Left ==
  ASSUME NEW S, NEW h, NEW kind, NEW d, Has(S \union {h}, kind, d), h.kind # kind \/ h.dev # d
  PROVE  Has(S, kind, d)
BY DEF Has

\* What Executes says of the head and of the other events.
LEMMA ExecutesMeans ==
  ASSUME NEW h, NEW L, NEW r, NEW s, NEW old, NEW st, NEW rx, NEW bm,
         Executes(h, L, r, s, old, st, rx, bm)
  PROVE  /\ st \in [Device -> {"IDLE", "TX", "RX_DATA"}]
         /\ rx \in [Device -> Seq(Tb)]
         /\ bm \in [Device -> Device \cup {0}]
         /\ r \in 0..SlotPeriod /\ r \in Nat /\ SlotPeriod \in Nat \ {0}
         /\ s \in 0..SlotsPerSubframe-1 /\ old \in SUBSET Device
         /\ h \in Event /\ h.at = 0 /\ h.dev \in Device
         /\ Good(h, r, s, old, st, rx)
         /\ ListOk(L, r, s, old, st, rx) /\ L \in Seq(Event)
         /\ RadioOk(Elems(L) \union {h}, r, s, st, rx, bm)
         /\ \A f \in Elems(L) :
              /\ f \in Event /\ f.at \in Nat /\ f.at <= r /\ f.dev \in Device
              /\ Good(f, r, s, old, st, rx) /\ Ok(h, f, r, old, rx)
<1>1. /\ RadioTypes(st, rx, bm)
      /\ r \in 0..SlotPeriod /\ s \in 0..SlotsPerSubframe-1 /\ old \in SUBSET Device
      /\ ListOk(L, r, s, old, st, rx)
      /\ h \in Event /\ h.at = 0 /\ Good(h, r, s, old, st, rx)
      /\ \A f \in Elems(L) : f \in Event /\ Ok(h, f, r, old, rx)
      /\ RadioOk(Elems(L) \union {h}, r, s, st, rx, bm)
  BY DEF Executes
<1>2. h.dev \in Device /\ SlotPeriod \in Nat \ {0}
  BY <1>1, EventFields, BlockTimes
<1>3. ASSUME NEW f \in Elems(L)
      PROVE  f.at \in Nat /\ f.at <= r /\ f.dev \in Device /\ Good(f, r, s, old, st, rx)
  <2>1. Good(f, r, s, old, st, rx)
    BY <1>1 DEF ListOk
  <2> QED BY <1>1, <2>1, EventFields, NoLaterThanSlot
<1>4. L \in Seq(Event)
  BY <1>1 DEF ListOk
<1> QED BY <1>1, <1>2, <1>3, <1>4 DEF RadioTypes

\* EndTx.
LEMMA EndTxOk ==
  ASSUME NEW h, NEW L, NEW r, NEW s, NEW old, NEW st, NEW rx, NEW bm,
         Executes(h, L, r, s, old, st, rx, bm), h.kind = "EndTx"
  PROVE  /\ st[h.dev] = "TX"
         /\ InSlot(L, r, s, old, [st EXCEPT ![h.dev] = "IDLE"], rx, bm)
<1>1. PICK d, st2 : d = h.dev /\ st2 = [st EXCEPT ![h.dev] = "IDLE"]
  OBVIOUS
<1>2. d \in Device /\ st[d] = "TX"
  <2>1. h.dev \in Device /\ Good(h, r, s, old, st, rx)
    BY ExecutesMeans
  <2> QED BY <1>1, <2>1 DEF Good
<1>3. /\ st2 \in [Device -> {"IDLE", "TX", "RX_DATA"}] /\ st2[d] = "IDLE"
      /\ \A x \in Device : x # d => st2[x] = st[x]
  BY <1>1, <1>2, ExecutesMeans
<1>4. ASSUME NEW f \in Elems(L) PROVE Good(f, r, s, old, st2, rx)
  <2>1. Good(f, r, s, old, st, rx) /\ Ok(h, f, r, old, rx) /\ f.dev \in Device
    BY ExecutesMeans
  <2>2. f.kind = "EndTx" => f.dev # d
    BY <1>1, <2>1 DEF Ok
  <2>3. f.kind = "EndRxData" => f.dev # d
    BY <1>2, <2>1 DEF Good
  <2> QED BY <1>3, <2>1, <2>2, <2>3 DEF Good
<1>5. ListOk(L, r, s, old, st2, rx)
  BY <1>4, ExecutesMeans DEF ListOk
<1>6. RadioOk(Elems(L), r, s, st2, rx, bm)
  <2>1. RadioOk(Elems(L) \union {h}, r, s, st, rx, bm)
    BY ExecutesMeans
  <2>2. ~ Stale(h, r)
    BY DEF Stale
  <2>3. ASSUME NEW x \in Device
        PROVE  /\ st2[x] = "TX" => Has(Elems(L), "EndTx", x)
               /\ st2[x] = "RX_DATA" => Has(Elems(L), "EndRxData", x)
               /\ Has(Elems(L), "StartSlot", x)
    BY <1>1, <1>3, <2>1, Left DEF RadioOk
  <2> QED BY <1>2, <1>3, <2>1, <2>2, <2>3 DEF RadioOk
<1> QED BY <1>1, <1>2, <1>3, <1>5, <1>6, ExecutesMeans DEF InSlot, RadioTypes

\* EndRxData.
LEMMA EndRxOk ==
  ASSUME NEW h, NEW L, NEW r, NEW s, NEW old, NEW st, NEW rx, NEW bm,
         Executes(h, L, r, s, old, st, rx, bm), h.kind = "EndRxData"
  PROVE  InSlot(L, r, s, old, [st EXCEPT ![h.dev] = "IDLE"], [rx EXCEPT ![h.dev] = <<>>], bm)
<1>1. PICK d, st2, rx2 : /\ d = h.dev /\ st2 = [st EXCEPT ![h.dev] = "IDLE"]
                         /\ rx2 = [rx EXCEPT ![h.dev] = <<>>]
  OBVIOUS
<1>2. d \in Device /\ st[d] = "RX_DATA"
  <2>1. h.dev \in Device /\ Good(h, r, s, old, st, rx)
    BY ExecutesMeans
  <2> QED BY <1>1, <2>1 DEF Good
<1>3. /\ st2 \in [Device -> {"IDLE", "TX", "RX_DATA"}] /\ st2[d] = "IDLE"
      /\ rx2 \in [Device -> Seq(Tb)] /\ rx2[d] = <<>>
      /\ \A x \in Device : x # d => st2[x] = st[x] /\ rx2[x] = rx[x]
  <2>1. st \in [Device -> {"IDLE", "TX", "RX_DATA"}] /\ rx \in [Device -> Seq(Tb)]
    BY ExecutesMeans
  <2>2. <<>> \in Seq(Tb)
    OBVIOUS
  <2> QED BY <1>1, <1>2, <2>1, <2>2
<1>4. ASSUME NEW f \in Elems(L)
      PROVE  f.dev \in Device /\ (f.kind \in {"EndTx", "EndRxData"} => f.dev # d)
  <2>1. Good(f, r, s, old, st, rx) /\ Ok(h, f, r, old, rx) /\ f.dev \in Device
    BY ExecutesMeans
  <2>2. f.kind = "EndTx" => f.dev # d
    BY <1>2, <2>1 DEF Good
  <2>3. f.kind = "EndRxData" => f.dev # d
    BY <1>1, <2>1 DEF Ok
  <2> QED BY <2>1, <2>2, <2>3
<1>5. ASSUME NEW f \in Elems(L) PROVE Good(f, r, s, old, st2, rx2)
  <2>1. Good(f, r, s, old, st, rx)
    BY ExecutesMeans
  <2> QED BY <1>3, <1>4, <2>1 DEF Good
<1>6. ASSUME NEW i \in 1..Len(L), NEW j \in 1..Len(L), i < j
      PROVE  Ok(L[i], L[j], r, old, rx2)
  <2>1. Ok(L[i], L[j], r, old, rx)
    BY <1>6, ExecutesMeans DEF ListOk
  <2>2. L[j] \in Elems(L)
    BY DEF Elems
  <2>3. L[j].kind = "EndRxData" => rx2[L[j].dev] = rx[L[j].dev]
    BY <1>3, <1>4, <2>2
  <2> QED BY <2>1, <2>3 DEF Ok
<1>7. ListOk(L, r, s, old, st2, rx2)
  BY <1>5, <1>6, ExecutesMeans DEF ListOk
<1>8. RadioOk(Elems(L), r, s, st2, rx2, bm)
  <2>1. RadioOk(Elems(L) \union {h}, r, s, st, rx, bm)
    BY ExecutesMeans
  <2>2. ~ Stale(h, r)
    BY DEF Stale
  <2>3. ASSUME NEW x \in Device
        PROVE  /\ st2[x] = "TX" => Has(Elems(L), "EndTx", x)
               /\ st2[x] = "RX_DATA" => Has(Elems(L), "EndRxData", x)
               /\ Has(Elems(L), "StartSlot", x)
    BY <1>1, <1>3, <2>1, Left DEF RadioOk
  <2> QED BY <1>2, <1>3, <2>1, <2>2, <2>3 DEF RadioOk
<1> QED BY <1>1, <1>2, <1>3, <1>7, <1>8, ExecutesMeans DEF InSlot, RadioTypes

\* StartRxData, when the block is for another device.
LEMMA InterferenceOk ==
  ASSUME NEW h, NEW L, NEW r, NEW s, NEW old, NEW st, NEW rx, NEW bm,
         Executes(h, L, r, s, old, st, rx, bm), h.kind = "StartRx"
  PROVE  InSlot(L, r, s, old, st, rx, bm)
<1>1. RadioOk(Elems(L), r, s, st, rx, bm)
  <2>1. RadioOk(Elems(L) \union {h}, r, s, st, rx, bm)
    BY ExecutesMeans
  <2>2. ~ Stale(h, r)
    BY DEF Stale
  <2>3. ASSUME NEW x \in Device
        PROVE  /\ st[x] = "TX" => Has(Elems(L), "EndTx", x)
               /\ st[x] = "RX_DATA" => Has(Elems(L), "EndRxData", x)
               /\ Has(Elems(L), "StartSlot", x)
    BY <2>1, Left DEF RadioOk
  <2> QED BY <2>1, <2>2, <2>3 DEF RadioOk
<1> QED BY <1>1 DEF Executes, InSlot

\* StartRxData, when the block is for the device itself: the radio is idle.
LEMMA DestinationIsIdle ==
  ASSUME NEW h, NEW L, NEW r, NEW s, NEW old, NEW st, NEW rx, NEW bm,
         Executes(h, L, r, s, old, st, rx, bm), h.kind = "StartRx", h.tb.dest = h.dev
  PROVE  st[h.dev] = "IDLE"
<1>1. PICK d, src : d = h.dev /\ src = h.tb.src
  OBVIOUS
<1>2. /\ d \in Device /\ h.tb \in BlocksOf(src) /\ Owns(src, s) /\ d # src
      /\ src \in Device /\ SfAllocInfo[d] = SfAllocInfo[src]
      /\ st[d] \in {"IDLE", "TX", "RX_DATA"}
  <2>1. h.dev \in Device /\ Good(h, r, s, old, st, rx) /\ h \in Event
        /\ st \in [Device -> {"IDLE", "TX", "RX_DATA"}]
    BY ExecutesMeans
  <2>2. h.tb \in BlocksOf(src) /\ Owns(src, s) /\ d # src
    BY <1>1, <2>1 DEF Good
  <2>3. src \in Device
    BY <1>1, <2>1, EventFields DEF Tb
  <2> QED BY <1>1, <2>1, <2>2, <2>3, OneOwner
<1>3. RadioOk(Elems(L) \union {h}, r, s, st, rx, bm)
  BY ExecutesMeans
<1>4. ASSUME st[d] = "TX" PROVE FALSE
  <2>1. Has(Elems(L), "EndTx", d)
    BY <1>2, <1>3, <1>4, Left DEF RadioOk
  <2>2. PICK f \in Elems(L) : f.kind = "EndTx" /\ f.dev = d
    BY <2>1 DEF Has
  <2>3. Good(f, r, s, old, st, rx)
    BY ExecutesMeans
  <2>4. Owns(d, s)
    BY <2>2, <2>3 DEF Good
  <2> QED BY <1>2, <2>4 DEF Owns
<1>5. ASSUME st[d] = "RX_DATA" PROVE FALSE
  <2>1. Has(Elems(L), "EndRxData", d)
    BY <1>2, <1>3, <1>5, Left DEF RadioOk
  <2>2. PICK f \in Elems(L) : f.kind = "EndRxData" /\ f.dev = d
    BY <2>1 DEF Has
  <2>3. Ok(h, f, r, old, rx)
    BY ExecutesMeans
  <2> QED BY <1>1, <2>2, <2>3 DEF Ok
<1> QED BY <1>1, <1>2, <1>4, <1>5

\* StartRxData, when it locks onto the block: the end of the reception is scheduled.
LEMMA LockOk ==
  ASSUME NEW h, NEW L, NEW r, NEW s, NEW old, NEW st, NEW rx, NEW bm,
         Executes(h, L, r, s, old, st, rx, bm), h.kind = "StartRx", h.tb.dest = h.dev
  PROVE  InSlot(Schedule(EndRxEv(Duration(h.tb), h.dev))[L], r, s, old \ {h.dev},
                [st EXCEPT ![h.dev] = "RX_DATA"], [rx EXCEPT ![h.dev] = Append(@, h.tb)], bm)
<1>1. PICK d, tb, old2, st2, rx2, n :
        /\ d = h.dev /\ tb = h.tb /\ old2 = old \ {h.dev}
        /\ st2 = [st EXCEPT ![h.dev] = "RX_DATA"]
        /\ rx2 = [rx EXCEPT ![h.dev] = Append(@, h.tb)]
        /\ n = EndRxEv(Duration(h.tb), h.dev)
  OBVIOUS
<1>2. /\ d \in Device /\ tb \in BlocksOf(tb.src) /\ Owns(tb.src, s) /\ tb.src \in Device
      /\ tb \in Tb /\ tb.dest = d /\ st[d] = "IDLE" /\ r \in Nat
      /\ Duration(tb) \in Nat /\ Duration(tb) > 1 /\ Duration(tb) <= r
  <2>1. h.dev \in Device /\ Good(h, r, s, old, st, rx) /\ h \in Event /\ r \in Nat
    BY ExecutesMeans
  <2>2. tb \in BlocksOf(tb.src) /\ Owns(tb.src, s) /\ Duration(tb) <= r
    BY <1>1, <2>1 DEF Good
  <2>3. tb.src \in Device
    BY <1>1, <2>1, EventFields DEF Tb
  <2>4. tb \in Tb /\ Duration(tb) \in Nat /\ Duration(tb) > 1
    BY <2>2, <2>3, BlockTimes
  <2> QED BY <1>1, <2>1, <2>2, <2>3, <2>4, DestinationIsIdle
<1>3. RadioOk(Elems(L) \union {h}, r, s, st, rx, bm)
  BY ExecutesMeans
<1>4. rx[d] = <<>>
  BY <1>2, <1>3 DEF RadioOk
<1>5. /\ st2 \in [Device -> {"IDLE", "TX", "RX_DATA"}] /\ st2[d] = "RX_DATA"
      /\ rx2 \in [Device -> Seq(Tb)] /\ Len(rx2[d]) = 1 /\ rx2[d][1] = tb
      /\ \A x \in Device : x # d => st2[x] = st[x] /\ rx2[x] = rx[x]
  <2>1. st \in [Device -> {"IDLE", "TX", "RX_DATA"}] /\ rx \in [Device -> Seq(Tb)]
    BY ExecutesMeans
  <2>2. PICK one : one = Append(<<>>, tb)
    OBVIOUS
  <2>3. one \in Seq(Tb) /\ Len(one) = 1 /\ one[1] = tb
    BY <1>2, <2>2
  <2>4. rx2 = [rx EXCEPT ![d] = one]
    BY <1>1, <1>4, <2>2
  <2>5. /\ rx2 \in [Device -> Seq(Tb)] /\ rx2[d] = one
        /\ \A x \in Device : x # d => rx2[x] = rx[x]
    BY <1>2, <2>1, <2>3, <2>4
  <2>6. /\ st2 \in [Device -> {"IDLE", "TX", "RX_DATA"}] /\ st2[d] = "RX_DATA"
        /\ \A x \in Device : x # d => st2[x] = st[x]
    BY <1>1, <1>2, <2>1
  <2> QED BY <2>3, <2>5, <2>6
<1>6. ASSUME NEW f \in Elems(L)
      PROVE  f.dev \in Device /\ (f.kind \in {"EndTx", "EndRxData"} => f.dev # d)
  <2>1. Good(f, r, s, old, st, rx) /\ f.dev \in Device
    BY ExecutesMeans
  <2> QED BY <1>2, <2>1 DEF Good
<1>7. ListOk(L, r, s, old2, st2, rx2)
  <2>1. ASSUME NEW f \in Elems(L) PROVE Good(f, r, s, old2, st2, rx2)
    <3>1. Good(f, r, s, old, st, rx)
      BY ExecutesMeans
    <3> QED BY <1>1, <1>5, <1>6, <3>1 DEF Good
  <2>2. ASSUME NEW i \in 1..Len(L), NEW j \in 1..Len(L), i < j
        PROVE  Ok(L[i], L[j], r, old2, rx2)
    <3>1. Ok(L[i], L[j], r, old, rx)
      BY <2>2, ExecutesMeans DEF ListOk
    <3>2. L[i] \in Elems(L) /\ L[j] \in Elems(L)
      BY DEF Elems
    <3>3. L[j].kind = "EndRxData" => rx2[L[j].dev] = rx[L[j].dev]
      BY <1>5, <1>6, <3>2
    <3>4. /\ L[i].kind = "EndRxData" => (L[i].dev \in old2 <=> L[i].dev \in old)
          /\ L[j].kind = "EndRxData" => (L[j].dev \in old2 <=> L[j].dev \in old)
      BY <1>1, <1>6, <3>2
    <3> QED BY <3>1, <3>3, <3>4 DEF Ok
  <2> QED BY <2>1, <2>2, ExecutesMeans DEF ListOk
<1>8. /\ n \in Event /\ n.at = Duration(tb) /\ n.kind = "EndRxData" /\ n.dev = d
  BY <1>1, <1>2 DEF Event, EndRxEv
<1>9. Good(n, r, s, old2, st2, rx2)
  BY <1>1, <1>2, <1>5, <1>8 DEF Good
<1>10. ASSUME NEW f \in Elems(L)
       PROVE  /\ f.at <= n.at => Ok(f, n, r, old2, rx2)
              /\ f.at > n.at => Ok(n, f, r, old2, rx2)
  <2>1. Ok(h, f, r, old, rx) /\ f.at \in Nat
    BY ExecutesMeans
  <2>2. /\ ~ Stale(f, r) /\ ~ Stale(n, r)
        /\ f.kind = "SendDataChannels" /\ f.dev = tb.src => Duration(tb) <= f.at
        /\ f.kind = "StartRx" /\ f.dev = d => f.tb.dest # d
    BY <1>1, <1>2, <1>8, <2>1 DEF Ok, Stale
  <2>3. f.kind = "EndRxData" => f.dev # d
    BY <1>6
  <2>4. d \notin old2 /\ rx2[d][1].src = tb.src
    BY <1>1, <1>5
  <2>5. ASSUME f.at <= n.at PROVE Ok(f, n, r, old2, rx2)
    BY <1>8, <2>2, <2>3, <2>4, <2>5 DEF Ok
  <2>6. ASSUME f.at > n.at PROVE Ok(n, f, r, old2, rx2)
    <3>1. n.at <= f.at
      BY <1>2, <1>8, <2>1, <2>6
    <3> QED BY <1>8, <2>2, <2>3, <3>1 DEF Ok
  <2> QED BY <2>5, <2>6
<1>11. PICK M : M = Schedule(n)[L]
  OBVIOUS
<1>12. ListOk(M, r, s, old2, st2, rx2) /\ Elems(M) = Elems(L) \union {n}
  <2>1. Fits(n, L, r, old2, rx2)
    BY <1>10 DEF Fits
  <2> QED BY <1>7, <1>8, <1>9, <1>11, <2>1, ScheduleOk
<1>13. RadioOk(Elems(M), r, s, st2, rx2, bm)
  <2>1. ~ Stale(h, r)
    BY DEF Stale
  <2>2. ASSUME NEW x \in Device
        PROVE  /\ st2[x] = "TX" => Has(Elems(L), "EndTx", x)
               /\ st2[x] = "RX_DATA" /\ x # d => Has(Elems(L), "EndRxData", x)
               /\ Has(Elems(L), "StartSlot", x)
    BY <1>2, <1>3, <1>5, Left DEF RadioOk
  <2>3. ASSUME NEW x \in Device
        PROVE  /\ st2[x] = "TX" => Has(Elems(M), "EndTx", x)
               /\ st2[x] = "RX_DATA" => Has(Elems(M), "EndRxData", x)
               /\ Has(Elems(M), "StartSlot", x)
    BY <1>8, <1>12, <2>2 DEF Has
  <2>4. ASSUME NEW x \in Device
        PROVE  /\ st2[x] = "RX_DATA" => /\ Len(rx2[x]) = 1 /\ rx2[x][1].dest = x
                                        /\ rx2[x][1] \in BlocksOf(rx2[x][1].src)
               /\ st2[x] # "RX_DATA" => rx2[x] = <<>>
    BY <1>2, <1>3, <1>5 DEF RadioOk
  <2>5. ASSUME NEW x \in Device
        PROVE  \/ \E e \in Elems(M) : Stale(e, r) /\ e.dev = x
               \/ SfAllocInfo[x][s] \in {x, 0}
               \/ bm[x] = SfAllocInfo[x][s]
    BY <1>3, <1>12, <2>1 DEF RadioOk
  <2> QED BY <2>3, <2>4, <2>5 DEF RadioOk
<1>14. /\ bm \in [Device -> Device \cup {0}] /\ r \in 0..SlotPeriod
       /\ s \in 0..SlotsPerSubframe-1 /\ old2 \in SUBSET Device
  BY <1>1, ExecutesMeans
<1>15. InSlot(M, r, s, old2, st2, rx2, bm)
  BY <1>5, <1>12, <1>13, <1>14 DEF InSlot, RadioTypes
<1> QED BY <1>1, <1>11, <1>15

\* The first event of a new slot closes the slot before: what is left of it are receptions
\* that end now.  The head is then the start of the slot that runs.
LEMMA NewSlot ==
  ASSUME NEW h, NEW L, NEW r, NEW s, NEW old, NEW st, NEW rx, NEW bm,
         Executes(h, L, r, s, old, st, rx, bm), h.kind = "StartSlot"
  PROVE  \E s2, old2 : Executes(h, L, SlotPeriod, s2, old2, st, rx, bm) /\ h.slot = s2
<1>1. /\ Good(h, r, s, old, st, rx) /\ h.at = 0 /\ h \in Event
      /\ r \in Nat /\ SlotPeriod \in Nat \ {0}
      /\ RadioOk(Elems(L) \union {h}, r, s, st, rx, bm)
  BY ExecutesMeans
<1>2. CASE h.slot = s /\ r = SlotPeriod
  BY <1>2
<1>3. CASE r = 0
  <2>1. h.slot = NextSlot(s) /\ h.slot \in 0..SlotsPerSubframe-1
    BY <1>1, <1>3, EventFields DEF Good
  <2>2. ASSUME NEW f \in Elems(L)
        PROVE  /\ f \in Event /\ f.at = 0 /\ f.dev \in Device
               /\ f.kind \in {"StartSlot", "EndRxData"}
               /\ f.kind = "StartSlot" => f.slot = h.slot
               /\ f.kind = "EndRxData" => st[f.dev] = "RX_DATA"
               /\ f.kind = h.kind => f.dev # h.dev
    <3>1. /\ f \in Event /\ f.at \in Nat /\ f.at <= r /\ f.dev \in Device
          /\ Good(f, r, s, old, st, rx) /\ Ok(h, f, r, old, rx)
      BY ExecutesMeans
    <3>2. f.at = 0
      BY <1>3, <3>1
    <3>3. f.kind # "SendDataChannels"
      <4>1. ASSUME f.kind = "SendDataChannels" PROVE FALSE
        <5>1. f.tb \in BlocksOf(f.dev) /\ f.at + Duration(f.tb) <= r
          BY <3>1, <4>1 DEF Good
        <5>2. Duration(f.tb) \in Nat /\ Duration(f.tb) > 1
          BY <3>1, <5>1, BlockTimes
        <5> QED BY <1>3, <3>2, <5>1, <5>2
      <4> QED BY <4>1
    <3>4. f.kind # "StartRx"
      <4>1. ASSUME f.kind = "StartRx" PROVE FALSE
        <5>1. f.tb \in BlocksOf(f.tb.src) /\ Duration(f.tb) <= r /\ f.tb.src \in Device
          BY <3>1, <4>1, EventFields DEF Good, Tb
        <5>2. Duration(f.tb) \in Nat /\ Duration(f.tb) > 1
          BY <5>1, BlockTimes
        <5> QED BY <1>3, <5>1, <5>2
      <4> QED BY <4>1
    <3>5. f.kind # "EndTx"
      BY <1>3, <3>2, <3>1 DEF Good
    <3>6. f.kind \in {"StartSlot", "EndRxData"}
      BY <3>1, <3>3, <3>4, <3>5, EventFields
    <3>7. /\ f.kind = "StartSlot" => f.slot = h.slot
          /\ f.kind = "EndRxData" => st[f.dev] = "RX_DATA"
      BY <1>1, <1>3, <2>1, <3>1 DEF Good
    <3>8. f.kind = h.kind => f.dev # h.dev
      BY <3>1 DEF Ok
    <3> QED BY <3>1, <3>2, <3>6, <3>7, <3>8
  <2>3. ASSUME NEW f, f.at = 0, f.dev \in Device, f.kind \in {"StartSlot", "EndRxData"},
               f.kind = "StartSlot" => f.slot = h.slot,
               f.kind = "EndRxData" => st[f.dev] = "RX_DATA"
        PROVE  Good(f, SlotPeriod, h.slot, Device, st, rx)
    BY <1>1, <2>3 DEF Good
  <2>4. Good(h, SlotPeriod, h.slot, Device, st, rx)
    BY <1>1, <2>3, EventFields
  <2>5. ASSUME NEW e, NEW f, e.at = 0, f.at = 0, f.dev \in Device, e.dev \in Device,
               e.kind \in {"StartSlot", "EndRxData"}, f.kind \in {"StartSlot", "EndRxData"},
               f.kind = e.kind => e.dev # f.dev
        PROVE  Ok(e, f, SlotPeriod, Device, rx)
    BY <2>5 DEF Ok
  <2>6. ListOk(L, SlotPeriod, h.slot, Device, st, rx)
    <3>1. ASSUME NEW f \in Elems(L) PROVE Good(f, SlotPeriod, h.slot, Device, st, rx)
      BY <2>2, <2>3
    <3>2. ASSUME NEW i \in 1..Len(L), NEW j \in 1..Len(L), i < j
          PROVE  Ok(L[i], L[j], SlotPeriod, Device, rx)
      <4>1. Ok(L[i], L[j], r, old, rx)
        BY <3>2, ExecutesMeans DEF ListOk
      <4>2. L[i] \in Elems(L) /\ L[j] \in Elems(L)
        BY DEF Elems
      <4>3. /\ L[i].at = 0 /\ L[i].dev \in Device /\ L[i].kind \in {"StartSlot", "EndRxData"}
            /\ L[j].at = 0 /\ L[j].dev \in Device /\ L[j].kind \in {"StartSlot", "EndRxData"}
        BY <2>2, <4>2
      <4>4. L[j].kind = L[i].kind => L[i].dev # L[j].dev
        BY <4>1, <4>3 DEF Ok
      <4> QED BY <2>5, <4>3, <4>4
    <3> QED BY <3>1, <3>2, ExecutesMeans DEF ListOk
  <2>7. ASSUME NEW f \in Elems(L) PROVE f \in Event /\ Ok(h, f, SlotPeriod, Device, rx)
    <3>1. h.dev \in Device
      BY <1>1, EventFields
    <3> QED BY <1>1, <2>2, <2>5, <3>1
  <2>8. RadioOk(Elems(L) \union {h}, SlotPeriod, h.slot, st, rx, bm)
    <3>1. ASSUME NEW x \in Device
          PROVE  \E e \in Elems(L) \union {h} : Stale(e, SlotPeriod) /\ e.dev = x
      <4>1. PICK e \in Elems(L) \union {h} : e.kind = "StartSlot" /\ e.dev = x
        BY <1>1 DEF RadioOk, Has
      <4>2. e.at = 0
        BY <1>1, <2>2
      <4> QED BY <1>1, <4>1, <4>2 DEF Stale
    <3> QED BY <1>1, <3>1 DEF RadioOk
  <2>9. RadioTypes(st, rx, bm) /\ SlotPeriod \in 0..SlotPeriod
    BY <1>1 DEF Executes
  <2>10. Executes(h, L, SlotPeriod, h.slot, Device, st, rx, bm)
    BY <1>1, <2>1, <2>4, <2>6, <2>7, <2>8, <2>9 DEF Executes
  <2> QED BY <2>10
<1> QED BY <1>1, <1>2, <1>3 DEF Good

\* The first n events of es.
Firsts(es, n) == {es[i] : i \in 1..n}

\* Several new events, in the order of their times, that agree with those in the list and
\* with each other.
Join(es, n, L, r, s, old, st, rx) ==
  /\ \A i \in 1..n : es[i] \in Event /\ Good(es[i], r, s, old, st, rx)
  /\ \A i \in 1..n : Fits(es[i], L, r, old, rx)
  /\ \A i \in 1..n : \A j \in 1..n : j < i => Ok(es[j], es[i], r, old, rx)

\* Schedule puts such events into the list one after the other, and the list stays as it
\* should be.
LEMMA ScheduleAllOk ==
  ASSUME NEW L, NEW r, NEW s, NEW old, NEW st, NEW rx, ListOk(L, r, s, old, st, rx),
         NEW es, NEW n \in Nat, Len(es) = n, Join(es, n, L, r, s, old, st, rx)
  PROVE  /\ ListOk(ScheduleAll(L, es), r, s, old, st, rx)
         /\ Elems(ScheduleAll(L, es)) = Elems(L) \union Firsts(es, n)
<1>1. L \in Seq(Event)
  BY DEF ListOk
<1>2. PICK after : ScheduleAll(L, es) = after[n] /\ Grows(after, L, es, n)
  BY <1>1, ScheduleAllIs
<1> DEFINE P == {m \in 0..n : /\ ListOk(after[m], r, s, old, st, rx)
                              /\ Elems(after[m]) = Elems(L) \union Firsts(es, m)}
<1>3. 0 \in P
  <2>1. Firsts(es, 0) = {}
    BY DEF Firsts
  <2> QED BY <1>2, <2>1 DEF Grows
<1>4. ASSUME NEW m \in 1..n, m - 1 \in P PROVE m \in P
  <2>1. PICK K : K = after[m-1]
    OBVIOUS
  <2>2. ListOk(K, r, s, old, st, rx) /\ Elems(K) = Elems(L) \union Firsts(es, m-1)
    BY <1>4, <2>1
  <2>3. es[m] \in Event /\ Good(es[m], r, s, old, st, rx)
    BY DEF Join
  <2>4. ASSUME NEW f \in Elems(K)
        PROVE  /\ f.at <= es[m].at => Ok(f, es[m], r, old, rx)
               /\ f.at > es[m].at => Ok(es[m], f, r, old, rx)
    <3>1. CASE f \in Elems(L)
      BY <3>1 DEF Join, Fits
    <3>2. CASE f \in Firsts(es, m-1)
      <4>1. PICK i \in 1..m-1 : f = es[i]
        BY <3>2 DEF Firsts
      <4>2. i \in 1..n /\ i < m
        OBVIOUS
      <4>3. Ok(f, es[m], r, old, rx)
        BY <4>1, <4>2 DEF Join
      <4>4. f.at <= es[m].at /\ f.at \in Nat /\ es[m].at \in Nat
        BY <4>1, <4>2, <4>3, EventFields DEF Ok, Join
      <4> QED BY <4>3, <4>4
    <3> QED BY <2>2, <3>1, <3>2
  <2>5. /\ ListOk(Schedule(es[m])[K], r, s, old, st, rx)
        /\ Elems(Schedule(es[m])[K]) = Elems(K) \union {es[m]}
    <3>1. PICK e : e = es[m]
      OBVIOUS
    <3>2. Fits(e, K, r, old, rx)
      BY <2>4, <3>1 DEF Fits
    <3>3. e \in Event /\ Good(e, r, s, old, st, rx)
      BY <2>3, <3>1
    <3>4. /\ ListOk(Schedule(e)[K], r, s, old, st, rx)
          /\ Elems(Schedule(e)[K]) = Elems(K) \union {e}
      BY <2>2, <3>2, <3>3, ScheduleOk
    <3> QED BY <3>1, <3>4
  <2>6. after[m] = Schedule(es[m])[K]
    BY <1>2, <2>1 DEF Grows
  <2>7. Firsts(es, m) = Firsts(es, m-1) \union {es[m]}
    <3>1. \A i \in 1..m : i = m \/ i \in 1..m-1
      OBVIOUS
    <3>2. m \in 1..m /\ \A i \in 1..m-1 : i \in 1..m
      OBVIOUS
    <3> QED BY <3>1, <3>2 DEF Firsts
  <2> QED BY <2>2, <2>5, <2>6, <2>7
<1>5. n \in P
  <2> HIDE DEF P
  <2>1. 0..n \subseteq P
    BY <1>3, <1>4, InductionUpTo
  <2> QED BY <2>1
<1> QED BY <1>2, <1>5

\* The start of the next slot, scheduled by a device that starts a slot.
LEMMA NextStartOk ==
  ASSUME NEW h, NEW L, NEW s, NEW old, NEW st, NEW rx, NEW bm,
         Executes(h, L, SlotPeriod, s, old, st, rx, bm), h.kind = "StartSlot",
         NEW n, n = StartSlotEv(SlotPeriod, h.dev, NextSlot(s))
  PROVE  /\ n \in Event /\ n.at = SlotPeriod /\ n.kind = "StartSlot" /\ n.dev = h.dev
         /\ Good(n, SlotPeriod, s, old, st, rx)
         /\ \A f \in Elems(L) : Ok(f, n, SlotPeriod, old, rx) /\ ~ (f.at > n.at)
<1>1. h.dev \in Device /\ SlotPeriod \in Nat \ {0} /\ s \in 0..SlotsPerSubframe-1
  BY ExecutesMeans
<1>2. NextSlot(s) \in 0..SlotsPerSubframe-1
  <2>1. s + 1 \in Nat /\ SlotsPerSubframe \in Nat \ {0}
    BY <1>1, RadioAssumption
  <2>2. \A x \in Nat, y \in Nat \ {0} : x % y \in 0..y-1
    OBVIOUS
  <2> QED BY <2>1, <2>2 DEF NextSlot
<1>3. /\ n \in Event /\ n.at = SlotPeriod /\ n.kind = "StartSlot" /\ n.dev = h.dev
      /\ n.slot = NextSlot(s)
  BY <1>1, <1>2 DEF StartSlotEv, Event
<1>4. Good(n, SlotPeriod, s, old, st, rx)
  BY <1>3 DEF Good
<1>5. ASSUME NEW f \in Elems(L) PROVE Ok(f, n, SlotPeriod, old, rx) /\ ~ (f.at > n.at)
  <2>1. f.at \in Nat /\ f.at <= SlotPeriod /\ Ok(h, f, SlotPeriod, old, rx)
    BY ExecutesMeans
  <2>2. ~ Stale(n, SlotPeriod)
    BY <1>3 DEF Stale
  <2>3. f.kind = "StartSlot" => f.dev # h.dev
    BY <2>1 DEF Ok
  <2> QED BY <1>1, <1>3, <2>1, <2>2, <2>3 DEF Ok
<1> QED BY <1>3, <1>4, <1>5

\* A device that has started the slot, and points at its owner if that is another.
LEMMA StartedOk ==
  ASSUME NEW h, NEW L, NEW s, NEW old, NEW st, NEW rx, NEW bm,
         Executes(h, L, SlotPeriod, s, old, st, rx, bm), h.kind = "StartSlot",
         NEW M, ListOk(M, SlotPeriod, s, old, st, rx),
         Elems(L) \subseteq Elems(M), Has(Elems(M), "StartSlot", h.dev),
         NEW bm2 \in [Device -> Device \cup {0}],
         \A x \in Device : x # h.dev => bm2[x] = bm[x],
         SfAllocInfo[h.dev][s] \in {h.dev, 0} \/ bm2[h.dev] = SfAllocInfo[h.dev][s]
  PROVE  InSlot(M, SlotPeriod, s, old, st, rx, bm2)
<1>1. RadioOk(Elems(L) \union {h}, SlotPeriod, s, st, rx, bm)
  BY ExecutesMeans
<1>2. ASSUME NEW x \in Device
      PROVE  /\ st[x] = "TX" => Has(Elems(L), "EndTx", x)
             /\ st[x] = "RX_DATA" => Has(Elems(L), "EndRxData", x)
             /\ x # h.dev => Has(Elems(L), "StartSlot", x)
  BY <1>1, Left DEF RadioOk
<1>3. ASSUME NEW x \in Device
      PROVE  /\ st[x] = "TX" => Has(Elems(M), "EndTx", x)
             /\ st[x] = "RX_DATA" => Has(Elems(M), "EndRxData", x)
             /\ Has(Elems(M), "StartSlot", x)
  BY <1>2 DEF Has
<1>4. ASSUME NEW x \in Device
      PROVE  \/ \E e \in Elems(M) : Stale(e, SlotPeriod) /\ e.dev = x
             \/ SfAllocInfo[x][s] \in {x, 0}
             \/ bm2[x] = SfAllocInfo[x][s]
  BY <1>1 DEF RadioOk
<1>5. RadioOk(Elems(M), SlotPeriod, s, st, rx, bm2)
  BY <1>1, <1>3, <1>4 DEF RadioOk
<1> QED BY <1>5, ExecutesMeans DEF InSlot, RadioTypes

\* StartSlot of a device that does not transmit in the slot.
LEMMA StartSlotIdleOk ==
  ASSUME NEW h, NEW L, NEW s, NEW old, NEW st, NEW rx, NEW bm,
         Executes(h, L, SlotPeriod, s, old, st, rx, bm), h.kind = "StartSlot",
         NEW bm2 \in [Device -> Device \cup {0}],
         \A x \in Device : x # h.dev => bm2[x] = bm[x],
         SfAllocInfo[h.dev][s] \in {h.dev, 0} \/ bm2[h.dev] = SfAllocInfo[h.dev][s]
  PROVE  InSlot(Schedule(StartSlotEv(SlotPeriod, h.dev, NextSlot(s)))[L],
                SlotPeriod, s, old, st, rx, bm2)
<1>1. PICK n, M : n = StartSlotEv(SlotPeriod, h.dev, NextSlot(s)) /\ M = Schedule(n)[L]
  OBVIOUS
<1>2. /\ n \in Event /\ n.at = SlotPeriod /\ n.kind = "StartSlot" /\ n.dev = h.dev
      /\ Good(n, SlotPeriod, s, old, st, rx)
      /\ \A f \in Elems(L) : Ok(f, n, SlotPeriod, old, rx) /\ ~ (f.at > n.at)
  BY <1>1, NextStartOk
<1>3. ListOk(L, SlotPeriod, s, old, st, rx)
  BY ExecutesMeans
<1>4. ListOk(M, SlotPeriod, s, old, st, rx) /\ Elems(M) = Elems(L) \union {n}
  <2>1. Fits(n, L, SlotPeriod, old, rx)
    BY <1>2 DEF Fits
  <2> QED BY <1>1, <1>2, <1>3, <2>1, ScheduleOk
<1>5. Has(Elems(M), "StartSlot", h.dev)
  BY <1>2, <1>4 DEF Has
<1> QED BY <1>1, <1>4, <1>5, StartedOk

\* The blocks of a layout, one by one.
LEMMA LayoutIs ==
  ASSUME NEW d \in Device, NEW tbs \in Layouts[d]
  PROVE  /\ Len(tbs) \in Nat /\ Blocks(tbs) \subseteq Tb
         /\ \A i \in 1..Len(tbs) : tbs[i] \in BlocksOf(d)
         /\ \A i, j \in 1..Len(tbs) : i < j => TbEnd(tbs[i]) <= tbs[j].symStart
<1>1. /\ tbs \in UNION {[1..n -> BlocksOf(d)] : n \in 0..SymbPerSlot}
      /\ \A i, j \in DOMAIN tbs : i < j => TbEnd(tbs[i]) <= tbs[j].symStart
  BY DEF Layouts
<1>2. PICK n \in 0..SymbPerSlot : tbs \in [1..n -> BlocksOf(d)]
  BY <1>1
<1>3. n \in Nat /\ Len(tbs) = n
  BY <1>2, RadioAssumption
<1>4. DOMAIN tbs = 1..n /\ \A i \in 1..n : tbs[i] \in BlocksOf(d)
  BY <1>2
<1>5. BlocksOf(d) \subseteq Tb
  BY DEF BlocksOf
<1> QED BY <1>1, <1>3, <1>4, <1>5 DEF Blocks

\* An event behind some others.
LEMMA AppendedIs ==
  ASSUME NEW k \in Nat, NEW g \in [1..k -> Event], NEW e \in Event
  PROVE  /\ Len(Append(g, e)) = k + 1
         /\ Append(g, e)[k+1] = e
         /\ \A i \in 1..k : Append(g, e)[i] = g[i]
<1>1. g \in Seq(Event) /\ Len(g) = k
  OBVIOUS
<1> QED BY <1>1, AppendProperties

\* StartSlot of the device that owns the slot: it schedules its blocks one behind the
\* other inside the slot, and nobody has transmitted in the slot yet.
LEMMA StartSlotTxOk ==
  ASSUME NEW h, NEW L, NEW s, NEW old, NEW st, NEW rx, NEW bm,
         Executes(h, L, SlotPeriod, s, old, st, rx, bm), h.kind = "StartSlot", h.slot = s,
         Owns(h.dev, s), NEW tbs \in Layouts[h.dev],
         NEW es, es = SlotEvents(h.dev, s, tbs)
  PROVE  InSlot(ScheduleAll(L, es), SlotPeriod, s, old, st, rx, bm)
<1>1. PICK d, k, n : d = h.dev /\ k = Len(tbs) /\ n = StartSlotEv(SlotPeriod, h.dev, NextSlot(s))
  OBVIOUS
<1>2. d \in Device /\ h.at = 0 /\ SlotPeriod \in Nat \ {0}
  BY <1>1, ExecutesMeans
<1>3. /\ k \in Nat
      /\ \A i \in 1..k : tbs[i] \in BlocksOf(d)
      /\ \A i, j \in 1..k : i < j => TbEnd(tbs[i]) <= tbs[j].symStart
  BY <1>1, <1>2, LayoutIs
<1>4. /\ n \in Event /\ n.at = SlotPeriod /\ n.kind = "StartSlot" /\ n.dev = d
      /\ Good(n, SlotPeriod, s, old, st, rx)
      /\ \A f \in Elems(L) : Ok(f, n, SlotPeriod, old, rx) /\ ~ (f.at > n.at)
  BY <1>1, NextStartOk
<1> DEFINE At(i) == tbs[i].symStart * SymbolPeriod
<1>5. ASSUME NEW i \in 1..k
      PROVE  /\ SendEv(At(i), tbs[i]) \in Event
             /\ tbs[i] \in Tb /\ tbs[i].src = d
             /\ Duration(tbs[i]) \in Nat /\ Duration(tbs[i]) > 1
             /\ At(i) \in Nat
             /\ At(i) + Duration(tbs[i]) <= SlotPeriod
  <2>1. /\ tbs[i] \in Tb /\ tbs[i].src = d
        /\ Duration(tbs[i]) \in Nat /\ Duration(tbs[i]) > 1
        /\ At(i) \in Nat
        /\ At(i) + Duration(tbs[i]) <= SlotPeriod
    BY <1>2, <1>3, BlockTimes
  <2>2. SendEv(At(i), tbs[i]) \in Event
    BY <1>2, <2>1 DEF SendEv, Event
  <2> QED BY <2>1, <2>2
<1>14. ASSUME NEW i \in 1..k, NEW j \in 1..k, j < i
       PROVE  At(j) + Duration(tbs[j]) <= At(i)
  <2>1. TbEnd(tbs[j]) <= tbs[i].symStart
    BY <1>3, <1>14
  <2> QED BY <1>5, <2>1, BlocksApart
<1>6. /\ Len(es) = k + 1 /\ es[k+1] = n
      /\ \A i \in 1..k : es[i] = SendEv(At(i), tbs[i])
  <2>1. PICK g : g = [i \in 1..k |-> SendEv(tbs[i].symStart * SymbolPeriod, tbs[i])]
    OBVIOUS
  <2>2. g \in [1..k -> Event]
    BY <1>5, <2>1
  <2>3. es = Append(g, n)
    BY <1>1, <2>1 DEF SlotEvents
  <2>4. \A i \in 1..k : g[i] = SendEv(At(i), tbs[i])
    BY <2>1
  <2> QED BY <1>3, <1>4, <2>2, <2>3, <2>4, AppendedIs
<1> HIDE DEF At
<1>7. ASSUME NEW i \in 1..k
      PROVE  /\ es[i] \in Event /\ es[i].kind = "SendDataChannels" /\ es[i].dev = d
             /\ es[i].at \in Nat /\ es[i].tb = tbs[i] /\ Duration(es[i].tb) \in Nat
             /\ Duration(es[i].tb) > 1 /\ es[i].at = At(i)
             /\ es[i].at + Duration(es[i].tb) <= SlotPeriod
             /\ Good(es[i], SlotPeriod, s, old, st, rx)
  <2>1. /\ es[i] \in Event /\ es[i].kind = "SendDataChannels" /\ es[i].dev = d
        /\ es[i].at \in Nat /\ es[i].tb = tbs[i] /\ Duration(es[i].tb) \in Nat
        /\ Duration(es[i].tb) > 1 /\ es[i].at = At(i)
        /\ es[i].at + Duration(es[i].tb) <= SlotPeriod
    <3>1. PICK e : e = es[i]
      OBVIOUS
    <3>2. e = SendEv(At(i), tbs[i])
      BY <1>6, <3>1
    <3>3. e.kind = "SendDataChannels" /\ e.at = At(i) /\ e.tb = tbs[i] /\ e.dev = tbs[i].src
      BY <3>2 DEF SendEv
    <3>4. SendEv(At(i), tbs[i]) \in Event
      BY <1>5
    <3> QED BY <1>5, <3>1, <3>2, <3>3, <3>4
  <2>2. Good(es[i], SlotPeriod, s, old, st, rx)
    BY <1>1, <1>3, <2>1 DEF Good
  <2> QED BY <2>1, <2>2
<1>8. ASSUME NEW i \in 1..k+1
      PROVE  es[i] \in Event /\ Good(es[i], SlotPeriod, s, old, st, rx)
  <2>1. i \in 1..k \/ i = k + 1
    BY <1>3
  <2> QED BY <1>4, <1>6, <1>7, <2>1
<1>9. ASSUME NEW i \in 1..k+1, NEW f \in Elems(L)
      PROVE  /\ f.at <= es[i].at => Ok(f, es[i], SlotPeriod, old, rx)
             /\ f.at > es[i].at => Ok(es[i], f, SlotPeriod, old, rx)
  <2>1. CASE i \in 1..k
    <3>1. /\ f.at \in Nat /\ f.at <= SlotPeriod /\ Ok(h, f, SlotPeriod, old, rx)
          /\ Good(f, SlotPeriod, s, old, st, rx) /\ f \in Event
      BY ExecutesMeans
    <3>2. /\ Stale(h, SlotPeriod) /\ ~ Stale(es[i], SlotPeriod)
          /\ Stale(f, SlotPeriod) => f.kind = "StartSlot"
      BY <1>2, <1>7, <2>1 DEF Stale
    <3>3. /\ f.kind \notin {"StartRx", "EndTx"}
          /\ f.kind = "EndRxData" => f.dev \in old
          /\ f.kind = "SendDataChannels" => f.dev # d
          /\ f.kind = "StartSlot" => f.dev # d
      BY <1>1, <3>1, <3>2 DEF Ok
    <3>4. ASSUME f.at <= es[i].at PROVE Ok(f, es[i], SlotPeriod, old, rx)
      BY <1>7, <2>1, <3>2, <3>3, <3>4 DEF Ok
    <3>5. ASSUME f.at > es[i].at PROVE Ok(es[i], f, SlotPeriod, old, rx)
      <4>1. f.at # 0 /\ es[i].at <= f.at /\ es[i].at \in Nat
        BY <1>7, <2>1, <3>1, <3>5
      <4>2. f.kind # "EndRxData"
        BY <3>1, <3>3, <4>1 DEF Good
      <4>3. ~ Stale(f, SlotPeriod)
        BY <3>1, <4>1 DEF Good, Stale
      <4> QED BY <1>7, <2>1, <3>2, <3>3, <4>1, <4>2, <4>3 DEF Ok
    <3> QED BY <3>4, <3>5
  <2>2. CASE i = k + 1
    BY <1>4, <1>6, <2>2
  <2> QED BY <1>3, <2>1, <2>2
<1>10. ASSUME NEW i \in 1..k+1, NEW j \in 1..k+1, j < i
       PROVE  Ok(es[j], es[i], SlotPeriod, old, rx)
  <2>1. j \in 1..k
    BY <1>3, <1>10
  <2>2. ~ Stale(es[j], SlotPeriod)
    BY <1>7, <2>1 DEF Stale
  <2>3. CASE i = k + 1
    <3>1. ~ Stale(n, SlotPeriod)
      BY <1>4 DEF Stale
    <3>2. es[j].at <= SlotPeriod
      BY <1>2, <1>7, <2>1
    <3> QED BY <1>4, <1>6, <1>7, <2>1, <2>2, <2>3, <3>1, <3>2 DEF Ok
  <2>4. CASE i \in 1..k
    <3>2. At(j) + Duration(tbs[j]) <= At(i)
      BY <1>14, <1>10, <2>1, <2>4
    <3>3. es[j].at + Duration(es[j].tb) <= es[i].at
      BY <1>7, <2>1, <2>4, <3>2
    <3>4. es[j].at <= es[i].at
      BY <1>7, <2>1, <2>4, <3>3
    <3>5. ~ Stale(es[i], SlotPeriod)
      BY <1>7, <2>4 DEF Stale
    <3> QED BY <1>7, <2>1, <2>2, <2>4, <3>3, <3>4, <3>5 DEF Ok
  <2> QED BY <1>3, <2>3, <2>4
<1>11. PICK M, m : M = ScheduleAll(L, es) /\ m = k + 1
  OBVIOUS
<1>12. ListOk(M, SlotPeriod, s, old, st, rx) /\ Elems(M) = Elems(L) \union Firsts(es, m)
  <2>1. ListOk(L, SlotPeriod, s, old, st, rx)
    BY ExecutesMeans
  <2>2. \A i \in 1..m : es[i] \in Event /\ Good(es[i], SlotPeriod, s, old, st, rx)
    BY <1>8, <1>11
  <2>3. \A i \in 1..m : \A f \in Elems(L) :
          /\ f.at <= es[i].at => Ok(f, es[i], SlotPeriod, old, rx)
          /\ f.at > es[i].at => Ok(es[i], f, SlotPeriod, old, rx)
    BY <1>9, <1>11
  <2>4. \A i \in 1..m : \A j \in 1..m : j < i => Ok(es[j], es[i], SlotPeriod, old, rx)
    BY <1>10, <1>11
  <2>5. Len(es) = m /\ m \in Nat
    BY <1>3, <1>6, <1>11
  <2>6. Join(es, m, L, SlotPeriod, s, old, st, rx)
    BY <2>2, <2>3, <2>4 DEF Join, Fits
  <2> QED BY <1>11, <2>1, <2>5, <2>6, ScheduleAllOk
<1>13. Elems(L) \subseteq Elems(M) /\ Has(Elems(M), "StartSlot", h.dev)
  <2>1. k + 1 \in 1..m
    BY <1>3, <1>11
  <2>2. n \in Elems(M)
    BY <1>6, <1>12, <2>1 DEF Firsts
  <2> QED BY <1>1, <1>4, <1>12, <2>2 DEF Has
<1>15. bm \in [Device -> Device \cup {0}] /\ SfAllocInfo[h.dev][s] \in {h.dev, 0}
  BY ExecutesMeans DEF Owns
<1> QED BY <1>11, <1>12, <1>13, <1>15, StartedOk

\* SendDataChannels: the radio is idle.
LEMMA SenderIsIdle ==
  ASSUME NEW h, NEW L, NEW r, NEW s, NEW old, NEW st, NEW rx, NEW bm,
         Executes(h, L, r, s, old, st, rx, bm), h.kind = "SendDataChannels"
  PROVE  st[h.dev] = "IDLE"
<1>1. PICK d : d = h.dev
  OBVIOUS
<1>2. /\ d \in Device /\ h.tb \in BlocksOf(d) /\ Owns(d, s) /\ h.at = 0
      /\ st[d] \in {"IDLE", "TX", "RX_DATA"}
  <2>1. h.dev \in Device /\ Good(h, r, s, old, st, rx) /\ h.at = 0
        /\ st \in [Device -> {"IDLE", "TX", "RX_DATA"}]
    BY ExecutesMeans
  <2> QED BY <1>1, <2>1 DEF Good
<1>3. RadioOk(Elems(L) \union {h}, r, s, st, rx, bm)
  BY ExecutesMeans
<1>4. ASSUME st[d] = "TX" PROVE FALSE
  <2>1. Has(Elems(L), "EndTx", d)
    BY <1>2, <1>3, <1>4, Left DEF RadioOk
  <2>2. PICK f \in Elems(L) : f.kind = "EndTx" /\ f.dev = d
    BY <2>1 DEF Has
  <2>3. Ok(h, f, r, old, rx)
    BY ExecutesMeans
  <2> QED BY <1>1, <2>2, <2>3 DEF Ok
<1>5. ASSUME st[d] = "RX_DATA" PROVE FALSE
  <2>1. Has(Elems(L), "EndRxData", d)
    BY <1>2, <1>3, <1>5, Left DEF RadioOk
  <2>2. PICK f \in Elems(L) : f.kind = "EndRxData" /\ f.dev = d
    BY <2>1 DEF Has
  <2>3. Ok(h, f, r, old, rx) /\ Good(f, r, s, old, st, rx)
    BY ExecutesMeans
  <2>4. d \notin old
    BY <2>2, <2>3 DEF Ok
  <2>5. PICK src : src = rx[d][1].src
    OBVIOUS
  <2>6. Owns(src, s)
    BY <2>2, <2>3, <2>4, <2>5 DEF Good
  <2>7. rx[d][1].dest = d /\ rx[d][1] \in BlocksOf(src)
    BY <1>2, <1>3, <1>5, <2>5 DEF RadioOk
  <2>8. src \in Device
    BY <2>5, <2>7 DEF BlocksOf, Tb
  <2>9. SfAllocInfo[d] = SfAllocInfo[src] /\ d # src
    BY <2>7, <2>8, OneOwner
  <2> QED BY <1>2, <2>6, <2>9 DEF Owns
<1> QED BY <1>1, <1>2, <1>4, <1>5

\* What StartTx schedules: the signal of device d reaches c others, to[1] to to[c], at once.
Signals(f, c, to, d, tb, b) ==
  /\ f \in [1..c -> Event]
  /\ \A i \in 1..c :
       /\ to[i] \in Device /\ to[i] # d
       /\ f[i] = StartRxEv(0, to[i], tb, b[d] = to[i] /\ b[to[i]] = d)
  /\ \A i, j \in 1..c : i < j => to[i] # to[j]

\* The signal reaches every other device, at once.
LEMMA SignalsAre ==
  ASSUME NoDelay, NEW d \in Device, NEW tb \in BlocksOf(d), NEW b
  PROVE  \E c, to : c \in Nat /\ Signals(StartRxEvents(tb, b), c, to, d, tb, b)
<1>1. PICK n : n = Cardinality(Device)
  OBVIOUS
<1>2. n \in Nat /\ Device = 1..n
  BY <1>1, RadioAssumption, FS_CardinalityType
<1>3. tb.src = d /\ d \in 1..n /\ tb \in Tb
  BY <1>2 DEF BlocksOf
<1>4. PICK c, to : c = n - 1 /\ to = [i \in 1..c |-> IF i < d THEN i ELSE i + 1]
  OBVIOUS
<1>5. c \in Nat
  BY <1>2, <1>3, <1>4
<1>6. ASSUME NEW i \in 1..c
      PROVE  /\ to[i] = (IF i < d THEN i ELSE i + 1)
             /\ to[i] \in Device /\ to[i] # d /\ Delay[d][to[i]] = 0
  <2>1. to[i] = (IF i < d THEN i ELSE i + 1)
    BY <1>4
  <2>2. to[i] \in Device /\ to[i] # d
    BY <1>2, <1>3, <1>4, <2>1
  <2> QED BY <2>1, <2>2 DEF NoDelay
<1>7. \A i, j \in 1..c : i < j => to[i] # to[j]
  BY <1>3, <1>5, <1>6
<1>8. ASSUME NEW i \in 1..c
      PROVE  /\ StartRxEvents(tb, b)[i] = StartRxEv(0, to[i], tb, b[d] = to[i] /\ b[to[i]] = d)
             /\ StartRxEvents(tb, b)[i] \in Event
  <2>1. StartRxEvents(tb, b)[i] =
          StartRxEv(Delay[d][to[i]], to[i], tb, b[d] = to[i] /\ b[to[i]] = d)
    BY <1>1, <1>3, <1>4, <1>6 DEF StartRxEvents
  <2>2. PICK al \in BOOLEAN : al = (b[d] = to[i] /\ b[to[i]] = d)
    OBVIOUS
  <2>3. StartRxEv(0, to[i], tb, al) \in Event
    BY <1>3, <1>6 DEF StartRxEv, Event
  <2> QED BY <1>6, <2>1, <2>2, <2>3
<1>9. StartRxEvents(tb, b) \in [1..c -> Event]
  <2>1. StartRxEvents(tb, b) = [i \in 1..c |-> StartRxEvents(tb, b)[i]]
    BY <1>1, <1>4 DEF StartRxEvents
  <2> QED BY <1>8, <2>1
<1>10. Signals(StartRxEvents(tb, b), c, to, d, tb, b)
  BY <1>6, <1>7, <1>8, <1>9 DEF Signals
<1> QED BY <1>5, <1>10

\* The events of a transmission, and the antenna of its sender.
SignalEvents(d, tb, b) == Append(StartRxEvents(tb, b), EndTxEv(EndTxTime(tb), d))
IsPointedAt(bm2, bm, d, x) == bm2 = [bm EXCEPT ![d] = x]

\* SendDataChannels: the transmission starts, and its signal reaches a destination that
\* points back.
LEMMA SendOk ==
  ASSUME NoDelay,
         NEW h, NEW L, NEW r, NEW s, NEW old, NEW st, NEW rx, NEW bm,
         Executes(h, L, r, s, old, st, rx, bm), h.kind = "SendDataChannels",
         NEW bm2, IsPointedAt(bm2, bm, h.dev, h.tb.dest)
  PROVE  InSlot(ScheduleAll(L, SignalEvents(h.dev, h.tb, bm2)),
                r, s, old, [st EXCEPT ![h.dev] = "TX"], rx, bm2)
<1>1. PICK d, tb, st2, es, n :
        /\ d = h.dev /\ tb = h.tb /\ st2 = [st EXCEPT ![h.dev] = "TX"]
        /\ es = SignalEvents(h.dev, h.tb, bm2)
        /\ n = EndTxEv(EndTxTime(h.tb), h.dev)
  OBVIOUS
<1>2. /\ d \in Device /\ tb \in BlocksOf(d) /\ Owns(d, s) /\ h.at = 0 /\ r \in Nat
      /\ tb \in Tb /\ tb.src = d /\ tb.dest \in Device /\ tb.dest # d
      /\ SfAllocInfo[tb.dest] = SfAllocInfo[d] /\ st[d] = "IDLE"
      /\ Duration(tb) \in Nat /\ Duration(tb) > 1 /\ Duration(tb) <= r
  <2>1. h.dev \in Device /\ Good(h, r, s, old, st, rx) /\ h.at = 0 /\ r \in Nat
    BY ExecutesMeans
  <2>2. tb \in BlocksOf(d) /\ Owns(d, s) /\ h.at + Duration(tb) <= r
    BY <1>1, <2>1 DEF Good
  <2>3. tb \in Tb /\ tb.src = d /\ Duration(tb) \in Nat /\ Duration(tb) > 1
    BY <1>1, <2>1, <2>2, BlockTimes
  <2>4. tb.dest \in Device /\ tb.dest # d /\ SfAllocInfo[tb.dest] = SfAllocInfo[d]
    BY <1>1, <2>1, <2>2, OneOwner
  <2> QED BY <1>1, <2>1, <2>2, <2>3, <2>4, SenderIsIdle
<1>3. /\ st2 \in [Device -> {"IDLE", "TX", "RX_DATA"}] /\ st2[d] = "TX"
      /\ \A x \in Device : x # d => st2[x] = st[x]
  <2>1. st \in [Device -> {"IDLE", "TX", "RX_DATA"}]
    BY ExecutesMeans
  <2> QED BY <1>1, <1>2, <2>1
<1>4. /\ bm2 \in [Device -> Device \cup {0}] /\ bm2[d] = tb.dest
      /\ \A x \in Device : x # d => bm2[x] = bm[x]
  <2>1. bm \in [Device -> Device \cup {0}]
    BY ExecutesMeans
  <2> QED BY <1>1, <1>2, <2>1 DEF IsPointedAt
<1>5. ASSUME NEW f \in Elems(L)
      PROVE  /\ f \in Event /\ f.at \in Nat /\ f.dev \in Device
             /\ Good(f, r, s, old, st, rx) /\ Ok(h, f, r, old, rx) /\ ~ Stale(f, r)
             /\ f.kind \in {"EndTx", "EndRxData"} => f.dev # d
  <2>1. /\ f \in Event /\ f.at \in Nat /\ f.dev \in Device
        /\ Good(f, r, s, old, st, rx) /\ Ok(h, f, r, old, rx)
    BY ExecutesMeans
  <2>2. ~ Stale(f, r)
    BY <2>1 DEF Ok
  <2>3. f.kind \in {"EndTx", "EndRxData"} => f.dev # d
    BY <1>2, <2>1 DEF Good
  <2> QED BY <2>1, <2>2, <2>3
<1>6. RadioOk(Elems(L) \union {h}, r, s, st, rx, bm) /\ ~ Stale(h, r)
  BY ExecutesMeans DEF Stale
<1>7. bm2[tb.dest] = d
  <2>1. \/ \E e \in Elems(L) \union {h} : Stale(e, r) /\ e.dev = tb.dest
        \/ SfAllocInfo[tb.dest][s] \in {tb.dest, 0}
        \/ bm[tb.dest] = SfAllocInfo[tb.dest][s]
    BY <1>2, <1>6 DEF RadioOk
  <2>2. SfAllocInfo[tb.dest][s] = d
    BY <1>2 DEF Owns
  <2>3. d # 0
    <3>1. PICK k : k = Cardinality(Device)
      OBVIOUS
    <3>2. k \in Nat /\ Device = 1..k
      BY <3>1, RadioAssumption, FS_CardinalityType
    <3> QED BY <1>2, <3>2
  <2> QED BY <1>2, <1>4, <1>5, <1>6, <2>1, <2>2, <2>3
<1>8. ListOk(L, r, s, old, st2, rx)
  <2>1. ASSUME NEW f \in Elems(L) PROVE Good(f, r, s, old, st2, rx)
    BY <1>3, <1>5 DEF Good
  <2> QED BY <2>1, ExecutesMeans DEF ListOk
<1>9. PICK c \in Nat : \E to : Signals(StartRxEvents(tb, bm2), c, to, d, tb, bm2)
  BY <1>2, SignalsAre
<1>10. PICK g, to : g = StartRxEvents(tb, bm2) /\ Signals(g, c, to, d, tb, bm2)
  BY <1>9
<1>11. n \in Event /\ n.at = Duration(tb) - 1 /\ n.kind = "EndTx" /\ n.dev = d /\ n.at \in Nat
  <2>1. EndTxTime(tb) \in Nat /\ EndTxTime(tb) = Duration(tb) - 1
    BY <1>2 DEF EndTxTime
  <2> QED BY <1>1, <1>2, <2>1 DEF EndTxEv, Event
<1>12. Len(es) = c + 1 /\ es[c+1] = n /\ \A i \in 1..c : es[i] = g[i]
  <2>1. es = Append(g, n)
    BY <1>1, <1>10 DEF SignalEvents
  <2>2. g \in [1..c -> Event]
    BY <1>10 DEF Signals
  <2>3. c \in Nat /\ n \in Event
    BY <1>11
  <2>4. /\ Len(Append(g, n)) = c + 1
        /\ Append(g, n)[c+1] = n
        /\ \A i \in 1..c : Append(g, n)[i] = g[i]
    BY <2>2, <2>3, AppendedIs
  <2> QED BY <2>1, <2>4
<1>13. ASSUME NEW i \in 1..c
       PROVE  /\ es[i] \in Event /\ es[i].kind = "StartRx" /\ es[i].at = 0
              /\ es[i].dev = to[i] /\ es[i].dev # d /\ es[i].tb = tb
              /\ Good(es[i], r, s, old, st2, rx)
  <2>1. PICK e, al : e = es[i] /\ al = (bm2[d] = to[i] /\ bm2[to[i]] = d)
    OBVIOUS
  <2>2. e \in Event /\ e = StartRxEv(0, to[i], tb, al) /\ to[i] \in Device /\ to[i] # d
    BY <1>10, <1>12, <2>1 DEF Signals
  <2>3. /\ e.kind = "StartRx" /\ e.at = 0 /\ e.dev = to[i] /\ e.tb = tb /\ e.aligned = al
    BY <2>2 DEF StartRxEv
  <2>4. e.tb.dest = e.dev => al
    BY <1>4, <1>7, <2>1, <2>3
  <2>5. Good(e, r, s, old, st2, rx)
    BY <1>2, <2>2, <2>3, <2>4 DEF Good
  <2> QED BY <2>1, <2>2, <2>3, <2>5
<1>14. Good(n, r, s, old, st2, rx)
  BY <1>2, <1>3, <1>11 DEF Good
<1>15. ASSUME NEW i \in 1..c, NEW f \in Elems(L)
       PROVE  /\ f.at <= es[i].at => Ok(f, es[i], r, old, rx)
              /\ f.at > es[i].at => Ok(es[i], f, r, old, rx)
  <2>1. PICK e : e = es[i]
    OBVIOUS
  <2>2. /\ e.kind = "StartRx" /\ e.at = 0 /\ e.dev \in Device /\ e.tb = tb /\ ~ Stale(e, r)
    BY <1>10, <1>13, <2>1 DEF Stale, Signals
  <2>3. f.kind = "SendDataChannels" /\ f.dev = d => Duration(tb) <= f.at
    BY <1>1, <1>2, <1>5 DEF Ok
  <2>4. f.kind = "StartRx" => f.tb.src # d
    BY <1>1, <1>2, <1>5 DEF Ok
  <2>5. f.kind = "StartRx" /\ f.tb.dest = f.dev => f.dev # tb.dest
    <3>1. ASSUME f.kind = "StartRx", f.tb.dest = f.dev, f.dev = tb.dest PROVE FALSE
      <4>1. f.tb \in BlocksOf(f.tb.src) /\ Owns(f.tb.src, s) /\ f.tb \in Tb
        BY <1>5, <3>1, EventFields DEF Good
      <4>2. f.tb.src \in Device
        BY <4>1 DEF Tb
      <4>3. SfAllocInfo[f.tb.dest] = SfAllocInfo[f.tb.src]
        BY <4>1, <4>2, OneOwner
      <4> QED BY <1>2, <2>4, <3>1, <4>1, <4>3 DEF Owns
    <3> QED BY <3>1
  <2>6. f.kind = "EndRxData" =>
          f.dev \notin old /\ (f.dev = tb.dest => f.at = 0)
    <3>1. ASSUME f.kind = "EndRxData" PROVE f.dev \notin old
      BY <1>1, <1>5, <3>1 DEF Ok
    <3>2. ASSUME f.kind = "EndRxData", f.dev = tb.dest PROVE f.at = 0
      <4>1. PICK x, src : x = f.dev /\ src = rx[f.dev][1].src
        OBVIOUS
      <4>2. x \in Device /\ st[x] = "RX_DATA" /\ Owns(src, s)
        BY <1>5, <3>1, <3>2, <4>1 DEF Good
      <4>3. rx[x][1].dest = x /\ rx[x][1] \in BlocksOf(src)
        BY <1>6, <4>1, <4>2 DEF RadioOk
      <4>4. src \in Device
        BY <4>1, <4>3 DEF BlocksOf, Tb
      <4>5. SfAllocInfo[x] = SfAllocInfo[src]
        BY <4>3, <4>4, OneOwner
      <4>6. src = d
        BY <1>2, <3>2, <4>1, <4>2, <4>5 DEF Owns
      <4>7. f.at <= 0
        BY <1>1, <1>2, <1>5, <3>2, <4>1, <4>6 DEF Ok
      <4> QED BY <1>5, <4>7
    <3> QED BY <3>1, <3>2
  <2>7. ~ Stale(f, r) /\ f.at \in Nat
    BY <1>5
  <2>8. ASSUME f.at <= e.at PROVE Ok(f, e, r, old, rx)
    <3>1. f.kind = "SendDataChannels" => f.dev # d
      BY <1>2, <2>2, <2>3, <2>7, <2>8
    <3> QED BY <1>2, <2>2, <2>5, <2>7, <2>8, <3>1 DEF Ok
  <2>9. ASSUME f.at > e.at PROVE Ok(e, f, r, old, rx)
    <3>1. e.at <= f.at /\ f.at # 0
      BY <2>2, <2>7, <2>9
    <3> QED BY <1>2, <2>2, <2>3, <2>5, <2>6, <2>7, <3>1 DEF Ok
  <2> QED BY <2>1, <2>8, <2>9
<1>16. ASSUME NEW f \in Elems(L)
       PROVE  /\ f.at <= n.at => Ok(f, n, r, old, rx)
              /\ f.at > n.at => Ok(n, f, r, old, rx)
  <2>1. ~ Stale(n, r) /\ ~ Stale(f, r) /\ f.at \in Nat
    BY <1>5, <1>11 DEF Stale
  <2>2. f.kind = "EndTx" => f.dev # d
    BY <1>5
  <2>3. f.kind = "SendDataChannels" /\ f.dev = d => Duration(tb) <= f.at
    BY <1>1, <1>2, <1>5 DEF Ok
  <2>4. ASSUME f.at <= n.at PROVE Ok(f, n, r, old, rx)
    <3>1. f.kind = "SendDataChannels" => f.dev # d
      BY <1>2, <1>11, <2>1, <2>3, <2>4
    <3> QED BY <1>11, <2>1, <2>2, <2>4, <3>1 DEF Ok
  <2>5. ASSUME f.at > n.at PROVE Ok(n, f, r, old, rx)
    <3>1. n.at <= f.at
      BY <1>11, <2>1, <2>5
    <3> QED BY <1>11, <2>1, <2>2, <3>1 DEF Ok
  <2> QED BY <2>4, <2>5
<1>17. ASSUME NEW i \in 1..c+1, NEW j \in 1..c+1, j < i
       PROVE  Ok(es[j], es[i], r, old, rx)
  <2>1. j \in 1..c
    BY <1>17
  <2>2. PICK e : e = es[j]
    OBVIOUS
  <2>3. /\ e.kind = "StartRx" /\ e.at = 0 /\ e.dev = to[j] /\ e.tb = tb /\ ~ Stale(e, r)
    BY <1>13, <2>1, <2>2 DEF Stale
  <2>4. CASE i = c + 1
    <3>1. ~ Stale(n, r)
      BY <1>11 DEF Stale
    <3>2. Ok(e, n, r, old, rx)
      BY <1>11, <2>3, <3>1 DEF Ok
    <3> QED BY <1>12, <2>2, <2>4, <3>2
  <2>5. CASE i \in 1..c
    <3>1. PICK f : f = es[i]
      OBVIOUS
    <3>2. /\ f.kind = "StartRx" /\ f.at = 0 /\ f.dev = to[i] /\ f.tb = tb /\ ~ Stale(f, r)
      BY <1>13, <2>5, <3>1 DEF Stale
    <3>3. to[j] # to[i]
      BY <1>10, <1>17, <2>1, <2>5 DEF Signals
    <3>4. Ok(e, f, r, old, rx)
      BY <2>3, <3>2, <3>3 DEF Ok
    <3> QED BY <2>2, <3>1, <3>4
  <2> QED BY <2>4, <2>5
<1>18. PICK M, m : M = ScheduleAll(L, es) /\ m = c + 1
  OBVIOUS
<1>19. ListOk(M, r, s, old, st2, rx) /\ Elems(M) = Elems(L) \union Firsts(es, m)
  <2>1. \A i \in 1..m : i \in 1..c \/ i = c + 1
    BY <1>18
  <2>2. \A i \in 1..m : es[i] \in Event /\ Good(es[i], r, s, old, st2, rx)
    BY <1>11, <1>12, <1>13, <1>14, <2>1
  <2>3. \A i \in 1..m : \A f \in Elems(L) :
          /\ f.at <= es[i].at => Ok(f, es[i], r, old, rx)
          /\ f.at > es[i].at => Ok(es[i], f, r, old, rx)
    BY <1>12, <1>15, <1>16, <2>1
  <2>4. \A i \in 1..m : \A j \in 1..m : j < i => Ok(es[j], es[i], r, old, rx)
    BY <1>17, <1>18
  <2>5. Len(es) = m /\ m \in Nat
    BY <1>12, <1>18
  <2>6. /\ ListOk(ScheduleAll(L, es), r, s, old, st2, rx)
        /\ Elems(ScheduleAll(L, es)) = Elems(L) \union Firsts(es, m)
    <3>1. Join(es, m, L, r, s, old, st2, rx)
      BY <2>2, <2>3, <2>4 DEF Join, Fits
    <3>2. Len(es) = m
      BY <2>5
    <3>3. m \in Nat
      BY <2>5
    <3>4. ListOk(L, r, s, old, st2, rx)
      BY <1>8
    <3> QED BY <3>1, <3>2, <3>3, <3>4, ScheduleAllOk
  <2> QED BY <1>18, <2>6
<1>20. n \in Elems(M) /\ Elems(L) \subseteq Elems(M)
  <2>1. c + 1 \in 1..m
    BY <1>18
  <2> QED BY <1>12, <1>19, <2>1 DEF Firsts
<1>21. RadioOk(Elems(M), r, s, st2, rx, bm2)
  <2>1. ASSUME NEW x \in Device
        PROVE  /\ st2[x] = "TX" /\ x # d => Has(Elems(L), "EndTx", x)
               /\ st2[x] = "RX_DATA" => Has(Elems(L), "EndRxData", x)
               /\ Has(Elems(L), "StartSlot", x)
    BY <1>2, <1>3, <1>6, Left DEF RadioOk
  <2>2. ASSUME NEW x \in Device
        PROVE  /\ st2[x] = "TX" => Has(Elems(M), "EndTx", x)
               /\ st2[x] = "RX_DATA" => Has(Elems(M), "EndRxData", x)
               /\ Has(Elems(M), "StartSlot", x)
    BY <1>11, <1>20, <2>1 DEF Has
  <2>3. ASSUME NEW x \in Device
        PROVE  \/ \E e \in Elems(M) : Stale(e, r) /\ e.dev = x
               \/ SfAllocInfo[x][s] \in {x, 0}
               \/ bm2[x] = SfAllocInfo[x][s]
    BY <1>2, <1>4, <1>6, <1>20 DEF RadioOk, Owns
  <2>4. ASSUME NEW x \in Device
        PROVE  /\ st2[x] = "RX_DATA" => /\ Len(rx[x]) = 1 /\ rx[x][1].dest = x
                                        /\ rx[x][1] \in BlocksOf(rx[x][1].src)
               /\ st2[x] # "RX_DATA" => rx[x] = <<>>
    BY <1>2, <1>3, <1>6 DEF RadioOk
  <2> QED BY <2>2, <2>3, <2>4 DEF RadioOk
<1>22. /\ rx \in [Device -> Seq(Tb)] /\ r \in 0..SlotPeriod
       /\ s \in 0..SlotsPerSubframe-1 /\ old \in SUBSET Device
  BY ExecutesMeans
<1>23. InSlot(M, r, s, old, st2, rx, bm2)
  BY <1>3, <1>4, <1>19, <1>21, <1>22 DEF InSlot, RadioTypes
<1> QED BY <1>1, <1>18, <1>23

------------------------------------------------------------------------------
(* The invariant *)

\* At the start all devices are about to start slot 0.
LEMMA InitInv ==
  ASSUME Init
  PROVE  PhyInv
<1>1. PICK n : n = Cardinality(Device)
  OBVIOUS
<1>2. /\ n \in Nat /\ Device = 1..n
      /\ SlotPeriod \in Nat \ {0} /\ 0 \in 0..SlotsPerSubframe-1
  <2>1. n \in Nat /\ Device = 1..n
    BY <1>1, RadioAssumption, FS_CardinalityType
  <2>2. 0 \in 0..SlotsPerSubframe-1
    BY RadioAssumption
  <2>3. SlotPeriod \in Nat \ {0}
    <3>1. \A a, b \in Nat : a > 0 /\ b > 0 => a * b \in Nat /\ a * b > 0
      OBVIOUS
    <3> QED BY <3>1, RadioAssumption DEF SlotPeriod
  <2> QED BY <2>1, <2>2, <2>3
<1>3. PICK L, st, rx, bm :
        /\ L = [d \in 1..n |-> StartSlotEv(0, d, 0)] /\ L = events
        /\ st = state /\ rx = rxTb /\ bm = beam
  BY <1>1 DEF Init
<1>4. /\ \A d \in Device : st[d] = "IDLE" /\ rx[d] = <<>>
      /\ RadioTypes(st, rx, bm)
  BY <1>3 DEF Init, RadioTypes
<1>5. ASSUME NEW d \in 1..n
      PROVE  /\ L[d] \in Event /\ L[d].at = 0 /\ L[d].kind = "StartSlot" /\ L[d].dev = d
             /\ L[d].slot = 0 /\ Stale(L[d], SlotPeriod)
  <2>1. PICK e : e = L[d]
    OBVIOUS
  <2>2. e = StartSlotEv(0, d, 0)
    BY <1>3, <2>1
  <2>3. e \in Event /\ e.at = 0 /\ e.kind = "StartSlot" /\ e.dev = d /\ e.slot = 0
    BY <1>2, <2>2 DEF StartSlotEv, Event
  <2>4. Stale(e, SlotPeriod)
    BY <1>2, <2>3 DEF Stale
  <2> QED BY <2>1, <2>3, <2>4
<1>6. L \in Seq(Event) /\ Len(L) = n
  <2>1. L \in [1..n -> Event]
    <3>1. L = [d \in 1..n |-> L[d]]
      BY <1>3
    <3> QED BY <1>5, <3>1
  <2> QED BY <1>2, <2>1
<1>7. ListOk(L, SlotPeriod, 0, {}, st, rx)
  <2>1. ASSUME NEW e \in Elems(L) PROVE Good(e, SlotPeriod, 0, {}, st, rx)
    <3>1. PICK d \in 1..n : e = L[d]
      BY <1>6 DEF Elems
    <3> QED BY <1>5, <3>1 DEF Good
  <2>2. ASSUME NEW i \in 1..Len(L), NEW j \in 1..Len(L), i < j
        PROVE  Ok(L[i], L[j], SlotPeriod, {}, rx)
    <3>1. i \in 1..n /\ j \in 1..n /\ i # j
      BY <1>2, <1>6, <2>2
    <3> QED BY <1>5, <3>1 DEF Ok
  <2> QED BY <1>6, <2>1, <2>2 DEF ListOk
<1>8. RadioOk(Elems(L), SlotPeriod, 0, st, rx, bm)
  <2>1. ASSUME NEW d \in Device
        PROVE  /\ Has(Elems(L), "StartSlot", d)
               /\ \E e \in Elems(L) : Stale(e, SlotPeriod) /\ e.dev = d
    <3>1. L[d] \in Elems(L)
      BY <1>2, <1>6 DEF Elems
    <3> QED BY <1>2, <1>5, <3>1 DEF Has
  <2> QED BY <1>4, <2>1 DEF RadioOk
<1>9. InSlot(L, SlotPeriod, 0, {}, st, rx, bm)
  BY <1>2, <1>4, <1>7, <1>8 DEF InSlot
<1>10. HistoryOk
  BY DEF Init, HistoryOk
<1> QED BY <1>2, <1>3, <1>9, <1>10 DEF PhyInv

\* Every step keeps it.
LEMMA NextInv ==
  ASSUME NoDelay, PhyInv, [Next]_vars
  PROVE  PhyInv'
<1>1. PICK r \in 0..SlotPeriod, s \in 0..SlotsPerSubframe-1, old \in SUBSET Device :
        InSlot(events, r, s, old, state, rxTb, beam)
  BY DEF PhyInv
<1>2. HistoryOk
  BY DEF PhyInv
<1>3. ASSUME NEW r2, NEW s2, NEW old2, InSlot(events', r2, s2, old2, state', rxTb', beam'),
             HistoryOk'
      PROVE  PhyInv'
  BY <1>3 DEF PhyInv, InSlot
<1>4. ASSUME NEW kind, Executing(kind)
      PROVE  \E h, r2 : /\ Executes(h, Rest, r2, s, old, state, rxTb, beam)
                        /\ h.kind = kind /\ h.dev = Now.dev /\ h.tb = Now.tb /\ h.slot = Now.slot
  BY <1>1, <1>4, Advance DEF Executing
<1>5. ASSUME Executing("StartSlot")
      PROVE  \E h, s2, old2 :
               /\ Executes(h, Rest, SlotPeriod, s2, old2, state, rxTb, beam)
               /\ h.kind = "StartSlot" /\ h.dev = Now.dev /\ h.slot = s2 /\ Now.slot = s2
  BY <1>4, <1>5, NewSlot
<1>6. CASE UNCHANGED vars
  BY <1>1, <1>2, <1>3, <1>6 DEF vars, HistoryOk
<1>7. ASSUME NEW d \in Device, StartSlotTx(d) PROVE PhyInv'
  <2>1. /\ Executing("StartSlot") /\ Now.dev = d /\ SfAllocInfo[d][Now.slot] = d
        /\ up' = [up EXCEPT ![d] = {}]
        /\ UNCHANGED <<state, rxTb, beam, fatal, lost>>
    BY <1>7 DEF StartSlotTx
  <2>2. PICK tbs \in Layouts[d] :
          /\ events' = ScheduleAll(Rest, SlotEvents(d, Now.slot, tbs))
          /\ pending' = pending \cup Blocks(tbs)
    BY <1>7 DEF StartSlotTx
  <2>3. PICK h, s2, old2 :
          /\ Executes(h, Rest, SlotPeriod, s2, old2, state, rxTb, beam)
          /\ h.kind = "StartSlot" /\ h.dev = Now.dev /\ h.slot = s2 /\ Now.slot = s2
    BY <1>5, <2>1
  <2>4. Owns(h.dev, s2) /\ h.dev = d
    BY <2>1, <2>3 DEF Owns
  <2>5. PICK es : es = SlotEvents(h.dev, s2, tbs)
    OBVIOUS
  <2>6. InSlot(ScheduleAll(Rest, es), SlotPeriod, s2, old2, state, rxTb, beam)
    BY <2>2, <2>3, <2>4, <2>5, StartSlotTxOk
  <2>7. InSlot(events', SlotPeriod, s2, old2, state', rxTb', beam')
    BY <2>1, <2>2, <2>3, <2>4, <2>5, <2>6
  <2>8. HistoryOk'
    <3>1. Blocks(tbs) \subseteq Tb
      BY LayoutIs
    <3> QED BY <1>2, <2>1, <2>2, <3>1 DEF HistoryOk
  <2> QED BY <1>3, <2>7, <2>8
<1>8. ASSUME NEW d \in Device, StartSlotRx(d) PROVE PhyInv'
  <2>1. /\ Executing("StartSlot") /\ Now.dev = d /\ SfAllocInfo[d][Now.slot] \notin {d, 0}
        /\ beam' = [beam EXCEPT ![d] = SfAllocInfo[d][Now.slot]]
        /\ events' = Schedule(StartSlotEv(SlotPeriod, d, NextSlot(Now.slot)))[Rest]
        /\ up' = [up EXCEPT ![d] = {}]
        /\ UNCHANGED <<state, rxTb, fatal, lost, pending>>
    BY <1>8 DEF StartSlotRx, PrepareForReceptionFrom
  <2>2. PICK h, s2, old2 :
          /\ Executes(h, Rest, SlotPeriod, s2, old2, state, rxTb, beam)
          /\ h.kind = "StartSlot" /\ h.dev = Now.dev /\ h.slot = s2 /\ Now.slot = s2
    BY <1>5, <2>1
  <2>3. s2 \in 0..SlotsPerSubframe-1 /\ beam \in [Device -> Device \cup {0}]
    BY <2>2, ExecutesMeans
  <2>4. /\ beam' \in [Device -> Device \cup {0}] /\ beam'[d] = SfAllocInfo[d][s2]
        /\ \A x \in Device : x # d => beam'[x] = beam[x]
    BY <2>1, <2>2, <2>3, RadioAssumption
  <2>5. PICK b : b = beam'
    OBVIOUS
  <2>6. InSlot(Schedule(StartSlotEv(SlotPeriod, h.dev, NextSlot(s2)))[Rest],
               SlotPeriod, s2, old2, state, rxTb, b)
    <3>1. /\ b \in [Device -> Device \cup {0}] /\ \A x \in Device : x # h.dev => b[x] = beam[x]
          /\ SfAllocInfo[h.dev][s2] \in {h.dev, 0} \/ b[h.dev] = SfAllocInfo[h.dev][s2]
      BY <2>1, <2>2, <2>4, <2>5
    <3> QED BY <2>2, <3>1, StartSlotIdleOk
  <2>7. InSlot(events', SlotPeriod, s2, old2, state', rxTb', beam')
    BY <2>1, <2>2, <2>5, <2>6
  <2>8. HistoryOk'
    BY <1>2, <2>1 DEF HistoryOk
  <2> QED BY <1>3, <2>7, <2>8
<1>9. ASSUME NEW d \in Device, StartSlotEmpty(d) PROVE PhyInv'
  <2>1. /\ Executing("StartSlot") /\ Now.dev = d /\ SfAllocInfo[d][Now.slot] = 0
        /\ events' = Schedule(StartSlotEv(SlotPeriod, d, NextSlot(Now.slot)))[Rest]
        /\ up' = [up EXCEPT ![d] = {}]
        /\ UNCHANGED <<state, rxTb, beam, fatal, lost, pending>>
    BY <1>9 DEF StartSlotEmpty
  <2>2. PICK h, s2, old2 :
          /\ Executes(h, Rest, SlotPeriod, s2, old2, state, rxTb, beam)
          /\ h.kind = "StartSlot" /\ h.dev = Now.dev /\ h.slot = s2 /\ Now.slot = s2
    BY <1>5, <2>1
  <2>3. InSlot(Schedule(StartSlotEv(SlotPeriod, h.dev, NextSlot(s2)))[Rest],
               SlotPeriod, s2, old2, state, rxTb, beam)
    <3>1. beam \in [Device -> Device \cup {0}] /\ SfAllocInfo[h.dev][s2] \in {h.dev, 0}
      BY <2>1, <2>2, ExecutesMeans
    <3> QED BY <2>2, <3>1, StartSlotIdleOk
  <2>4. InSlot(events', SlotPeriod, s2, old2, state', rxTb', beam')
    BY <2>1, <2>2, <2>3
  <2>5. HistoryOk'
    BY <1>2, <2>1 DEF HistoryOk
  <2> QED BY <1>3, <2>4, <2>5
<1>10. ASSUME NEW d \in Device, SendDataChannels(d) PROVE PhyInv'
  <2>1. Executing("SendDataChannels") /\ Now.dev = d
    BY <1>10 DEF SendDataChannels
  <2>2. PICK h, r2 :
          /\ Executes(h, Rest, r2, s, old, state, rxTb, beam)
          /\ h.kind = "SendDataChannels" /\ h.dev = d /\ h.tb = Now.tb
    BY <1>4, <2>1
  <2>3. state[d] = "IDLE"
    BY <2>2, SenderIsIdle
  <2>4. /\ beam' = [beam EXCEPT ![d] = h.tb.dest]
        /\ state' = [state EXCEPT ![d] = "TX"]
        /\ events' = ScheduleAll(Rest, SignalEvents(d, h.tb, beam'))
        /\ UNCHANGED <<fatal, rxTb, up, lost, pending>>
    BY <1>10, <2>2, <2>3 DEF SendDataChannels, SignalEvents
  <2>5. PICK b : b = beam'
    OBVIOUS
  <2>6. InSlot(ScheduleAll(Rest, SignalEvents(h.dev, h.tb, b)),
               r2, s, old, [state EXCEPT ![h.dev] = "TX"], rxTb, b)
    <3>1. IsPointedAt(b, beam, h.dev, h.tb.dest)
      BY <2>2, <2>4, <2>5 DEF IsPointedAt
    <3> QED BY <2>2, <3>1, SendOk
  <2>7. InSlot(events', r2, s, old, state', rxTb', beam')
    BY <2>2, <2>4, <2>5, <2>6
  <2>8. HistoryOk'
    BY <1>2, <2>4 DEF HistoryOk
  <2> QED BY <1>3, <2>7, <2>8
<1>11. ASSUME NEW d \in Device, EndTx(d) PROVE PhyInv'
  <2>1. /\ Executing("EndTx") /\ Now.dev = d /\ fatal' = (state[d] # "TX")
        /\ state' = [state EXCEPT ![d] = "IDLE"] /\ events' = Rest
        /\ UNCHANGED <<rxTb, beam, up, lost, pending>>
    BY <1>11 DEF EndTx
  <2>2. PICK h, r2 :
          /\ Executes(h, Rest, r2, s, old, state, rxTb, beam)
          /\ h.kind = "EndTx" /\ h.dev = d
    BY <1>4, <2>1
  <2>3. state[d] = "TX" /\ InSlot(Rest, r2, s, old, [state EXCEPT ![h.dev] = "IDLE"], rxTb, beam)
    BY <2>2, EndTxOk
  <2>4. InSlot(events', r2, s, old, state', rxTb', beam')
    BY <2>1, <2>2, <2>3
  <2>5. HistoryOk'
    BY <1>2, <2>1, <2>3 DEF HistoryOk
  <2> QED BY <1>3, <2>4, <2>5
<1>12. ASSUME NEW d \in Device, StartRxData(d) PROVE PhyInv'
  <2>1. /\ Executing("StartRx") /\ Now.dev = d
        /\ UNCHANGED <<beam, fatal, up, pending>>
    BY <1>12 DEF StartRxData
  <2>2. PICK h, r2 :
          /\ Executes(h, Rest, r2, s, old, state, rxTb, beam)
          /\ h.kind = "StartRx" /\ h.dev = d /\ h.tb = Now.tb
    BY <1>4, <2>1
  <2>3. CASE h.tb.dest = d
    <3>1. state[d] = "IDLE"
      BY <2>2, <2>3, DestinationIsIdle
    <3>2. /\ state' = [state EXCEPT ![d] = "RX_DATA"]
          /\ rxTb' = [rxTb EXCEPT ![d] = Append(@, h.tb)]
          /\ events' = Schedule(EndRxEv(Duration(h.tb), d))[Rest]
          /\ UNCHANGED lost
      BY <1>12, <2>2, <2>3, <3>1 DEF StartRxData, Locks
    <3>3. InSlot(Schedule(EndRxEv(Duration(h.tb), h.dev))[Rest], r2, s, old \ {h.dev},
                 [state EXCEPT ![h.dev] = "RX_DATA"],
                 [rxTb EXCEPT ![h.dev] = Append(@, h.tb)], beam)
      BY <2>2, <2>3, LockOk
    <3>4. InSlot(events', r2, s, old \ {d}, state', rxTb', beam')
      BY <2>1, <2>2, <3>2, <3>3
    <3>5. HistoryOk'
      BY <1>2, <2>1, <3>2 DEF HistoryOk
    <3> QED BY <1>3, <3>4, <3>5
  <2>4. CASE h.tb.dest # d
    <3>1. UNCHANGED <<state, rxTb, lost>> /\ events' = Rest
      BY <1>12, <2>2, <2>4 DEF StartRxData, Locks
    <3>2. InSlot(Rest, r2, s, old, state, rxTb, beam)
      BY <2>2, InterferenceOk
    <3>3. InSlot(events', r2, s, old, state', rxTb', beam')
      BY <2>1, <3>1, <3>2
    <3>4. HistoryOk'
      BY <1>2, <2>1, <3>1 DEF HistoryOk
    <3> QED BY <1>3, <3>3, <3>4
  <2> QED BY <2>3, <2>4
<1>13. ASSUME NEW d \in Device, EndRxData(d) PROVE PhyInv'
  <2>1. /\ Executing("EndRxData") /\ Now.dev = d
        /\ pending' = (IF DataErrorModelEnabled THEN pending \ Blocks(rxTb[d]) ELSE pending)
        /\ state' = [state EXCEPT ![d] = "IDLE"] /\ rxTb' = [rxTb EXCEPT ![d] = <<>>]
        /\ events' = Rest
        /\ UNCHANGED <<beam, fatal, lost>>
    BY <1>13 DEF EndRxData
  <2>2. PICK good \in SUBSET Blocks(rxTb[d]) :
          up' = [up EXCEPT ![d] = IF DataErrorModelEnabled THEN good ELSE {}]
    BY <1>13 DEF EndRxData
  <2>3. PICK h, r2 :
          /\ Executes(h, Rest, r2, s, old, state, rxTb, beam)
          /\ h.kind = "EndRxData" /\ h.dev = d
    BY <1>4, <2>1
  <2>4. InSlot(Rest, r2, s, old,
               [state EXCEPT ![h.dev] = "IDLE"], [rxTb EXCEPT ![h.dev] = <<>>], beam)
    BY <2>3, EndRxOk
  <2>5. InSlot(events', r2, s, old, state', rxTb', beam')
    BY <2>1, <2>3, <2>4
  <2>6. Blocks(rxTb[d]) \subseteq Tb
    <3>1. rxTb[d] \in Seq(Tb)
      BY <1>1 DEF InSlot, RadioTypes
    <3> QED BY <3>1 DEF Blocks
  <2>7. HistoryOk'
    BY <1>2, <2>1, <2>2, <2>6 DEF HistoryOk
  <2> QED BY <1>3, <2>5, <2>7
<1> QED BY <1>6, <1>7, <1>8, <1>9, <1>10, <1>11, <1>12, <1>13 DEF Next

\* The invariant holds in every state of every behaviour.
LEMMA Invariance ==
  ASSUME NoDelay
  PROVE  Spec => []PhyInv
<1>1. Init => PhyInv
  BY InitInv
<1>2. PhyInv /\ [Next]_vars => PhyInv'
  BY NextInv
<1> QED BY <1>1, <1>2, PTL DEF Spec

------------------------------------------------------------------------------
(* What follows from the invariant *)

\* PhyInv, part by part.
LEMMA PhyInvMeans ==
  ASSUME PhyInv
  PROVE  /\ HistoryOk /\ RadioTypes(state, rxTb, beam)
         /\ \E r \in 0..SlotPeriod, s \in 0..SlotsPerSubframe-1, old \in SUBSET Device :
              /\ ListOk(events, r, s, old, state, rxTb)
              /\ RadioOk(Elems(events), r, s, state, rxTb, beam)
BY DEF PhyInv, InSlot

\* The types, and the order of the list, are part of the invariant.
LEMMA InvTypes ==
  ASSUME PhyInv
  PROVE  TypeOK
<1>1. PICK r \in 0..SlotPeriod, s \in 0..SlotsPerSubframe-1, old \in SUBSET Device :
        ListOk(events, r, s, old, state, rxTb)
  BY PhyInvMeans
<1>2. events \in Seq(Event)
  BY <1>1 DEF ListOk
<1>3. ASSUME NEW i \in 1..Len(events)-1 PROVE events[i].at <= events[i+1].at
  <2>1. i \in 1..Len(events) /\ i + 1 \in 1..Len(events) /\ i < i + 1
    BY <1>2
  <2>2. Ok(events[i], events[i+1], r, old, rxTb)
    BY <1>1, <2>1 DEF ListOk
  <2> QED BY <2>2 DEF Ok
<1>4. HistoryOk /\ RadioTypes(state, rxTb, beam)
  BY PhyInvMeans
<1>5. \A d \in Device : rxTb[d] \in Seq(Tb) /\ up[d] \subseteq Tb
  BY <1>4 DEF HistoryOk, RadioTypes
<1> QED BY <1>2, <1>3, <1>4, <1>5 DEF TypeOK, HistoryOk, RadioTypes

\* The number of the events that end what a radio does.
LEMMA CountIs ==
  ASSUME NEW r, NEW s, NEW old, ListOk(events, r, s, old, state, rxTb),
         NEW kind \in {"EndTx", "EndRxData"}, NEW d \in Device
  PROVE  /\ Has(Elems(events), kind, d) => Count(kind, d) = 1
         /\ ~ Has(Elems(events), kind, d) => Count(kind, d) = 0
<1> DEFINE X == {i \in 1..Len(events) : events[i].kind = kind /\ events[i].dev = d}
<1>1. events \in Seq(Event) /\ Len(events) \in Nat
  BY DEF ListOk
<1>2. ASSUME NEW i \in X, NEW j \in X PROVE i = j
  <2>1. ASSUME NEW a \in X, NEW b \in X, a < b PROVE FALSE
    <3>1. Ok(events[a], events[b], r, old, rxTb)
      BY <2>1 DEF ListOk
    <3> QED BY <3>1 DEF Ok
  <2>2. i \in Int /\ j \in Int
    BY <1>1
  <2> QED BY <2>1, <2>2
<1>3. Count(kind, d) = Cardinality(X)
  BY DEF Count
<1>4. ASSUME Has(Elems(events), kind, d) PROVE Cardinality(X) = 1
  <2>1. PICK e \in Elems(events) : e.kind = kind /\ e.dev = d
    BY <1>4 DEF Has
  <2>2. PICK i \in 1..Len(events) : e = events[i]
    BY DEF Elems
  <2>3. i \in X
    BY <2>1, <2>2
  <2>4. X = {i}
    BY <1>2, <2>3
  <2> HIDE DEF X
  <2> QED BY <2>4, FS_Singleton
<1>5. ASSUME ~ Has(Elems(events), kind, d) PROVE Cardinality(X) = 0
  <2>1. X = {}
    BY <1>5 DEF Has, Elems
  <2> HIDE DEF X
  <2> QED BY <2>1, FS_EmptySet
<1> QED BY <1>3, <1>4, <1>5

\* A busy radio has its end event by RadioOk, a radio with an end event is busy by Good,
\* and by Ok no radio has two.
LEMMA InvMatches ==
  ASSUME PhyInv
  PROVE  RadioMatchesEvents
<1>1. PICK r \in 0..SlotPeriod, s \in 0..SlotsPerSubframe-1, old \in SUBSET Device :
        /\ ListOk(events, r, s, old, state, rxTb)
        /\ RadioOk(Elems(events), r, s, state, rxTb, beam)
  BY PhyInvMeans
<1>2. ASSUME NEW d \in Device
      PROVE  /\ Count("EndTx", d) = (IF state[d] = "TX" THEN 1 ELSE 0)
             /\ Count("EndRxData", d) = (IF state[d] = "RX_DATA" THEN 1 ELSE 0)
             /\ Len(rxTb[d]) = (IF state[d] = "RX_DATA" THEN 1 ELSE 0)
  <2>1. /\ state[d] = "TX" => Has(Elems(events), "EndTx", d)
        /\ state[d] = "RX_DATA" => Has(Elems(events), "EndRxData", d)
        /\ state[d] = "RX_DATA" => Len(rxTb[d]) = 1
        /\ state[d] # "RX_DATA" => rxTb[d] = <<>>
    BY <1>1 DEF RadioOk
  <2>2. /\ state[d] # "TX" => ~ Has(Elems(events), "EndTx", d)
        /\ state[d] # "RX_DATA" => ~ Has(Elems(events), "EndRxData", d)
    BY <1>1 DEF ListOk, Good, Has
  <2>3. /\ Has(Elems(events), "EndTx", d) => Count("EndTx", d) = 1
        /\ ~ Has(Elems(events), "EndTx", d) => Count("EndTx", d) = 0
    BY <1>1, CountIs
  <2>4. /\ Has(Elems(events), "EndRxData", d) => Count("EndRxData", d) = 1
        /\ ~ Has(Elems(events), "EndRxData", d) => Count("EndRxData", d) = 0
    BY <1>1, CountIs
  <2>5. Len(<<>>) = 0
    OBVIOUS
  <2> QED BY <2>1, <2>2, <2>3, <2>4, <2>5
<1> QED BY <1>2 DEF RadioMatchesEvents

\* Good says that the copy of a signal for its destination has the beams on it.
LEMMA InvFaces ==
  ASSUME PhyInv
  PROVE  BeamsFaceEachOther
<1>1. PICK r \in 0..SlotPeriod, s \in 0..SlotsPerSubframe-1, old \in SUBSET Device :
        ListOk(events, r, s, old, state, rxTb)
  BY PhyInvMeans
<1>2. ASSUME NEW i \in 1..Len(events), events[i].kind = "StartRx", events[i].tb.dest = events[i].dev
      PROVE  events[i].aligned
  <2>1. events[i] \in Elems(events)
    BY DEF Elems
  <2>2. Good(events[i], r, s, old, state, rxTb)
    BY <1>1, <2>1 DEF ListOk
  <2> QED BY <1>2, <2>2 DEF Good
<1> QED BY <1>2 DEF BeamsFaceEachOther

\* A radio that transmits owns the slot, and paired devices agree on the owner.
LEMMA InvOneTransmitter ==
  ASSUME PhyInv
  PROVE  OneTransmitterInGroup
<1>1. PICK r \in 0..SlotPeriod, s \in 0..SlotsPerSubframe-1, old \in SUBSET Device :
        /\ ListOk(events, r, s, old, state, rxTb)
        /\ RadioOk(Elems(events), r, s, state, rxTb, beam)
  BY PhyInvMeans
<1>2. ASSUME NEW d \in Device, state[d] = "TX" PROVE SfAllocInfo[d][s] = d
  <2>1. PICK e \in Elems(events) : e.kind = "EndTx" /\ e.dev = d
    BY <1>1, <1>2 DEF RadioOk, Has
  <2>2. Good(e, r, s, old, state, rxTb)
    BY <1>1 DEF ListOk
  <2> QED BY <2>1, <2>2 DEF Good, Owns
<1>3. ASSUME NEW d \in Device, NEW e \in Peer[d], state[d] = "TX", state[e] = "TX" PROVE FALSE
  <2>1. e \in Device /\ e # d /\ SfAllocInfo[e] = SfAllocInfo[d]
    BY RadioAssumption, PatternAssumption
  <2> QED BY <1>2, <1>3, <2>1
<1> QED BY <1>3 DEF OneTransmitterInGroup

------------------------------------------------------------------------------
(* The theorems *)

\* Without propagation delay the variables keep their types and the event list of the
\* simulator stays sorted, whatever is scheduled.
THEOREM TypeCorrect ==
  ASSUME NoDelay
  PROVE  Spec => []TypeOK
BY Invariance, InvTypes, PTL

\* The NS_FATAL_ERROR of StartTxDataFrames for a radio that is not idle and the assertion
\* of EndTx are never reached.
THEOREM RadiosNeverCollide ==
  ASSUME NoDelay
  PROVE  Spec => []NeverFatal
<1>1. PhyInv => NeverFatal
  BY PhyInvMeans DEF HistoryOk, NeverFatal
<1> QED BY <1>1, Invariance, PTL

\* The destination of a block is idle when the block arrives.
THEOREM DestinationsListen ==
  ASSUME NoDelay
  PROVE  Spec => []NothingLost
<1>1. PhyInv => NothingLost
  BY PhyInvMeans DEF HistoryOk, NothingLost
<1> QED BY <1>1, Invariance, PTL

\* The state of a radio, its buffer and the event that ends what it does agree.
THEOREM RadiosMatchTheirEvents ==
  ASSUME NoDelay
  PROVE  Spec => []RadioMatchesEvents
BY Invariance, InvMatches, PTL

\* The antennas of the sender and of the destination of a block point at each other when
\* the block arrives.
THEOREM AntennasFaceEachOther ==
  ASSUME NoDelay
  PROVE  Spec => []BeamsFaceEachOther
BY Invariance, InvFaces, PTL

\* Of the devices that share a pattern one transmits at a time.
THEOREM OneTransmitterAtATime ==
  ASSUME NoDelay
  PROVE  Spec => []OneTransmitterInGroup
BY Invariance, InvOneTransmitter, PTL

===============================================================================
