-------------------------- MODULE SidelinkMacProofs --------------------------
(***************************************************************************)
(* Theorems about SidelinkMac, for every number of channels, every block   *)
(* size table and every set of reports its assumptions allow.              *)
(***************************************************************************)
EXTENDS SidelinkMac, TLAPS, FiniteSetTheorems, WellFoundedInduction

\* A non-empty set of natural numbers has a least element, which MinOf chooses: the
\* intervals 0..x for x in the set are finite, so one of them contains no other.
LEMMA MinOfExists ==
  ASSUME NEW S \in SUBSET Nat, S # {}
  PROVE  MinOf(S) \in S /\ \A y \in S : MinOf(S) <= y
<1> DEFINE T == {0..x : x \in S}
<1>1. T \subseteq FiniteSubsetsOf(Nat)
  <2>1. ASSUME NEW x \in S PROVE 0..x \in SUBSET Nat /\ IsFiniteSet(0..x)
    <3>1. x \in Int /\ 0 \in Int
      OBVIOUS
    <3> QED BY <3>1, FS_Interval
  <2> QED BY <2>1 DEF FiniteSubsetsOf
<1>2. IsWellFoundedOn(StrictSubsetOrdering(Nat), FiniteSubsetsOf(Nat))
  BY FS_StrictSubsetOrderingWellFounded
<1>3. PICK I \in T : \A J \in T : ~ (<<J, I>> \in StrictSubsetOrdering(Nat))
  <2>1. T # {}
    OBVIOUS
  <2> HIDE DEF T
  <2> QED BY <1>1, <1>2, <2>1, WFMin
<1>4. PICK x \in S : I = 0..x
  OBVIOUS
<1>5. ASSUME NEW y \in S, y < x PROVE FALSE
  <2>1. 0..y \in T /\ 0..y \in SUBSET Nat /\ 0..x \in SUBSET Nat
    OBVIOUS
  <2>2. x \in 0..x /\ x \notin 0..y /\ 0..y \subseteq 0..x
    BY <1>5
  <2> QED BY <1>3, <1>4, <2>1, <2>2 DEF StrictSubsetOrdering
<1>6. \A y \in S : x <= y
  BY <1>5
<1> QED
  BY <1>6 DEF MinOf

\* The elements of a sequence after Append.
LEMMA AppendElements ==
  ASSUME NEW S, NEW s \in Seq(S), NEW e \in S
  PROVE  /\ Append(s, e) \in Seq(S) /\ Append(s, e) # <<>>
         /\ Len(s) \in Nat /\ Len(Append(s, e)) = Len(s) + 1
         /\ Append(s, e)[Len(s) + 1] = e
         /\ \A i \in 1..Len(s) : i \in 1..Len(Append(s, e)) /\ Append(s, e)[i] = s[i]
  OBVIOUS

------------------------------------------------------------------------------
(* The helpers of ScheduleResources *)

\* The loop of GetMinNumSymForTbSize finds a number of symbols that carries the
\* block, no more than any number known to carry it.
LEMMA GetMinNumSymBound ==
  ASSUME NEW m \in Mcs, NEW k \in 0..SymbPerSlot, NEW b \in Nat, b <= TbSize[m][k]
  PROVE  /\ GetMinNumSymForTbSize(b, m) \in 0..k
         /\ b <= TbSize[m][GetMinNumSymForTbSize(b, m)]
<1> DEFINE C == {n \in 1..SymbPerSlot : TbSize[m][n] >= b}
<1>1. CASE b = 0
  BY <1>1, SlotAssumption, AmcAssumption DEF GetMinNumSymForTbSize
<1>2. CASE b # 0
  <2>1. k \in C
    BY <1>2, SlotAssumption, AmcAssumption
  <2>2. MinOf(C) \in C /\ MinOf(C) <= k
    <3>1. C \in SUBSET Nat /\ C # {}
      BY <2>1
    <3> HIDE DEF C
    <3> QED BY <2>1, <3>1, MinOfExists
  <2>3. GetMinNumSymForTbSize(b, m) = MinOf(C)
    BY <1>2 DEF GetMinNumSymForTbSize
  <2> QED BY <2>2, <2>3
<1> QED BY <1>1, <1>2

\* UpdateBufferStatusReport takes exactly the granted bytes off the sum of the three
\* counters, and erases the entry when that sum is used up.
LEMMA UpdateBsrExact ==
  ASSUME NEW r \in Bsr, NEW b \in Nat, b <= RequiredBytes(r)
  PROVE  LET u == UpdateBufferStatusReport(r, b) IN
           /\ RequiredBytes(r) = b => u = NoBsr
           /\ RequiredBytes(r) # b => u \in Bsr /\ RequiredBytes(u) = RequiredBytes(r) - b
<1> DEFINE s == Min2(r.status, b)
           x == Min2(r.retx, b - s)
           t == Min2(r.tx, b - s - x)
           left == [status |-> r.status - s, retx |-> r.retx - x, tx |-> r.tx - t]
<1>1. s \in Nat /\ x \in Nat /\ t \in Nat /\ s <= r.status /\ x <= r.retx /\ t <= r.tx
      /\ s + x + t = b
  <2>1. /\ r.status \in Nat /\ r.retx \in Nat /\ r.tx \in Nat
        /\ b <= r.tx + r.retx + r.status
    BY DEF Bsr, RequiredBytes
  <2>2. s \in Nat /\ s <= r.status /\ s <= b /\ (s = r.status \/ s = b)
    BY <2>1 DEF Min2
  <2> HIDE DEF s
  <2>3. x \in Nat /\ x <= r.retx /\ x <= b - s /\ (x = r.retx \/ x = b - s)
    BY <2>1, <2>2 DEF Min2
  <2> HIDE DEF x
  <2>4. t \in Nat /\ t <= r.tx /\ t <= b - s - x /\ (t = r.tx \/ t = b - s - x)
    BY <2>1, <2>2, <2>3 DEF Min2
  <2> HIDE DEF t
  <2> QED BY <2>1, <2>2, <2>3, <2>4
<1>2. left \in Bsr /\ RequiredBytes(left) = RequiredBytes(r) - b /\ RequiredBytes(r) \in Nat
  <2> HIDE DEF s, x, t
  <2> QED BY <1>1 DEF Bsr, RequiredBytes
<1>3. UpdateBufferStatusReport(r, b) = IF RequiredBytes(left) = 0 THEN NoBsr ELSE left
  BY DEF UpdateBufferStatusReport
<1> HIDE DEF left
<1> DEFINE u == UpdateBufferStatusReport(r, b)
<1>4. RequiredBytes(r) = b => u = NoBsr
  BY <1>2, <1>3
<1>5. RequiredBytes(r) # b => u \in Bsr /\ RequiredBytes(u) = RequiredBytes(r) - b
  <2>1. RequiredBytes(r) # b => RequiredBytes(left) # 0
    BY <1>2
  <2> QED BY <2>1, <1>2, <1>3
<1> QED BY <1>4, <1>5

\* The next iterator points at an entry as long as there is one.
LEMMA NextBsrValid ==
  ASSUME NEW l \in Lcid, NEW A \in SUBSET Lcid
  PROVE  IF A = {} THEN NextBsr(l, A) = End ELSE NextBsr(l, A) \in A
<1> DEFINE after == {k \in A : k > l}
<1>1. A \in SUBSET Nat /\ after \in SUBSET Nat
  BY LcidAssumption
<1>2. A # {} => MinOf(A) \in A
  BY <1>1, MinOfExists
<1>3. after # {} => MinOf(after) \in after
  <2> HIDE DEF after
  <2> QED BY <1>1, MinOfExists
<1> QED BY <1>2, <1>3 DEF NextBsr

------------------------------------------------------------------------------
(* Types, the iterator and the symbols of a slot *)

\* What TypeOK, IteratorValid and SlotBudget need beside themselves: the share of a
\* channel never exceeds the symbols still free, every block goes to a peer, and
\* LteRlcSm never reports less than what the MAC still remembers of its last report.
ShareInv ==
  /\ pc = "idle" => alloc = <<>> /\ it = 1 /\ phyBuffer = <<>>
  /\ pc = "schedule" =>
       /\ it = 1 /\ phyBuffer = <<>>
       /\ availableSymbolsPerLc <= availableSymbols
       /\ alloc = <<>> => symStart = 0
  /\ \A i \in 1..Len(alloc) : alloc[i].rnti \in Dests
  /\ \A l \in Saturated :
       bsr[l] # NoBsr => RequiredBytes(bsr[l]) <= RequiredBytes(SatReport)

SlotInv == TypeOK /\ IteratorValid /\ SlotBudget /\ ShareInv

\* What one iteration grants: at most the report, at most the share of the channel.
LEMMA GrantBounds ==
  ASSUME TypeOK, IteratorValid, pc = "schedule", Active(bsr) # {}
  PROVE  /\ bsrIt \in Lcid /\ bsr[bsrIt] \in Bsr
         /\ Dest \in Dests /\ Dest \in Nat /\ GetMcs(Dest) \in Mcs
         /\ AssignedBytes \in Nat /\ AssignedBytes <= RequiredBytes(bsr[bsrIt])
         /\ AssignedBytes <= TbSize[GetMcs(Dest)][availableSymbolsPerLc]
         /\ AssignedSymbols \in 0..availableSymbolsPerLc
         /\ AssignedBytes <= TbSize[GetMcs(Dest)][AssignedSymbols]
<1>1. bsrIt \in Lcid /\ bsr[bsrIt] \in Bsr
  BY DEF IteratorValid, Active, TypeOK
<1>2. Dest \in Dests /\ Dest \in Nat
  BY <1>1, DestAssumption DEF Dest, Dests
<1>3. GetMcs(Dest) \in Mcs
  BY <1>2, AmcAssumption DEF GetMcs, TypeOK
<1>4. /\ TbSize[GetMcs(Dest)][availableSymbolsPerLc] \in Nat
      /\ availableSymbolsPerLc \in 0..SymbPerSlot
  BY <1>3, AmcAssumption DEF TypeOK
<1>5. RequiredBytes(bsr[bsrIt]) \in Nat
  BY <1>1 DEF RequiredBytes, Bsr
<1>6. /\ AssignedBytes \in Nat /\ AssignedBytes <= RequiredBytes(bsr[bsrIt])
      /\ AssignedBytes <= TbSize[GetMcs(Dest)][availableSymbolsPerLc]
  BY <1>4, <1>5 DEF AssignedBytes, Min2
<1>7. /\ AssignedSymbols \in 0..availableSymbolsPerLc
      /\ AssignedBytes <= TbSize[GetMcs(Dest)][AssignedSymbols]
  BY <1>3, <1>4, <1>6, GetMinNumSymBound DEF AssignedSymbols
<1> QED BY <1>1, <1>2, <1>3, <1>6, <1>7

\* The entry after the grant: exactly the rest of the report r.
LEMMA GrantRest ==
  ASSUME TypeOK, IteratorValid, NEW r \in Bsr, Grant(r),
         RequiredBytes(r) >= RequiredBytes(bsr[bsrIt])
  PROVE  /\ bsr' \in [Lcid -> Bsr \cup {NoBsr}]
         /\ \A l \in Lcid : l # bsrIt => bsr'[l] = bsr[l]
         /\ RequiredBytes(r) = AssignedBytes => bsr'[bsrIt] = NoBsr
         /\ RequiredBytes(r) # AssignedBytes =>
              /\ bsr'[bsrIt] \in Bsr
              /\ RequiredBytes(bsr'[bsrIt]) = RequiredBytes(r) - AssignedBytes
<1>1. pc = "schedule" /\ Active(bsr) # {}
  BY DEF Grant
<1>2. /\ bsrIt \in Lcid /\ bsr[bsrIt] \in Bsr /\ AssignedBytes \in Nat
      /\ AssignedBytes <= RequiredBytes(bsr[bsrIt])
  BY <1>1, GrantBounds
<1>3. RequiredBytes(r) \in Nat /\ RequiredBytes(bsr[bsrIt]) \in Nat
  BY <1>2 DEF RequiredBytes, Bsr
<1>4. AssignedBytes <= RequiredBytes(r)
  BY <1>2, <1>3
<1> DEFINE u == UpdateBufferStatusReport(r, AssignedBytes)
<1>5. /\ RequiredBytes(r) = AssignedBytes => u = NoBsr
      /\ RequiredBytes(r) # AssignedBytes =>
           u \in Bsr /\ RequiredBytes(u) = RequiredBytes(r) - AssignedBytes
  BY <1>2, <1>4, UpdateBsrExact
<1>6. bsr' = [bsr EXCEPT ![bsrIt] = u] /\ bsr \in [Lcid -> Bsr \cup {NoBsr}]
  BY DEF Grant, TypeOK
<1> HIDE DEF u
<1> QED BY <1>2, <1>5, <1>6

\* What channel l will be offered next.
Offer(l) == Min2(RequiredBytes(bsr[l]), TbSize[GetMcs(DestRnti[l])][availableSymbolsPerLc])

\* What an iteration of ScheduleResources leaves alone and what it appends.
LEMMA GrantAppends ==
  ASSUME SlotInv, NEW r, Grant(r)
  PROVE  /\ pc = "schedule" /\ pc' = pc /\ it = 1 /\ it' = 1
         /\ phyBuffer = <<>> /\ phyBuffer' = <<>> /\ mcsOf' = mcsOf
         /\ bsrIt \in Lcid /\ bsr[bsrIt] \in Bsr /\ Dest \in Dests
         /\ AssignedBytes \in Nat /\ AssignedBytes = Offer(bsrIt)
         /\ alloc \in Seq(Tti)
         /\ \E t \in Tti : /\ alloc' = Append(alloc, t)
                          /\ t.rnti = Dest /\ t.tbSize = AssignedBytes
                          /\ t.tbSize <= TbSize[t.mcs][t.numSym]
         /\ \A l \in Lcid : l # bsrIt => bsr'[l] = bsr[l]
         /\ availableSymbolsPerLc' <= availableSymbolsPerLc
<1>1. /\ pc = "schedule" /\ Active(bsr) # {} /\ pc' = pc /\ it' = it /\ phyBuffer' = phyBuffer
      /\ mcsOf' = mcsOf
      /\ availableSymbols' = availableSymbols - AssignedSymbols
      /\ availableSymbolsPerLc' = Min2(availableSymbolsPerLc, availableSymbols')
      /\ bsr' = [bsr EXCEPT ![bsrIt] = UpdateBufferStatusReport(r, AssignedBytes)]
  BY DEF Grant
<1>2. /\ bsrIt \in Lcid /\ bsr[bsrIt] \in Bsr /\ Dest \in Dests /\ Dest \in Nat
      /\ GetMcs(Dest) \in Mcs /\ AssignedBytes \in Nat
      /\ AssignedSymbols \in 0..availableSymbolsPerLc
      /\ AssignedBytes <= TbSize[GetMcs(Dest)][AssignedSymbols]
  BY <1>1, GrantBounds DEF SlotInv
<1>3. it = 1 /\ phyBuffer = <<>>
  BY <1>1 DEF SlotInv, ShareInv
<1>4. /\ availableSymbolsPerLc \in 0..SymbPerSlot /\ availableSymbols \in 0..SymbPerSlot
      /\ SymbPerSlot \in Nat /\ symStart \in Nat
      /\ alloc \in Seq(Tti) /\ bsr \in [Lcid -> Bsr \cup {NoBsr}]
  BY SlotAssumption DEF SlotInv, TypeOK
<1>5. availableSymbolsPerLc' <= availableSymbolsPerLc
  BY <1>1, <1>2, <1>4 DEF Min2
<1>6. AssignedBytes = Offer(bsrIt)
  BY DEF AssignedBytes, Offer, Dest
<1> DEFINE t == [rnti |-> Dest, numSym |-> AssignedSymbols, symStart |-> symStart,
                 tbSize |-> AssignedBytes, mcs |-> GetMcs(Dest)]
<1>7. t \in Tti
  BY <1>2, <1>4 DEF Tti
<1>8. t.rnti = Dest /\ t.tbSize = AssignedBytes /\ t.tbSize <= TbSize[t.mcs][t.numSym]
  BY <1>2
<1>9. alloc' = Append(alloc, t)
  BY DEF Grant
<1>10. \A l \in Lcid : l # bsrIt => bsr'[l] = bsr[l]
  BY <1>1, <1>4
<1> HIDE DEF t
<1> QED BY <1>1, <1>2, <1>3, <1>4, <1>5, <1>6, <1>7, <1>8, <1>9, <1>10

\* An iteration of ScheduleResources keeps the invariant: the block it places has at
\* least the symbol its iterator needs and at most the symbols still free.
LEMMA GrantKeepsSlotInv ==
  ASSUME SlotInv, NEW r \in Bsr, Grant(r),
         RequiredBytes(r) >= RequiredBytes(bsr[bsrIt]),
         bsrIt \in Saturated => r = SatReport,
         txBuf' \in [Dests -> Seq(Pdu)], refused' \in [Lcid -> Nat]
  PROVE  SlotInv'
<1> USE DEF SlotInv
<1> DEFINE tti == [rnti |-> Dest, numSym |-> AssignedSymbols, symStart |-> symStart,
                   tbSize |-> AssignedBytes, mcs |-> GetMcs(Dest)]
<1>1. /\ pc = "schedule" /\ Active(bsr) # {} /\ availableSymbols > 0
      /\ alloc' = Append(alloc, tti)
      /\ availableSymbols' = availableSymbols - AssignedSymbols
      /\ availableSymbolsPerLc' = Min2(availableSymbolsPerLc, availableSymbols')
      /\ symStart' = symStart + AssignedSymbols
      /\ bsrIt' = NextBsr(bsrIt, Active(bsr'))
      /\ UNCHANGED <<slot, pc, mcsOf, it, phyBuffer, bsr0>>
  BY DEF Grant
<1>2. /\ bsrIt \in Lcid /\ bsr[bsrIt] \in Bsr /\ Dest \in Nat /\ GetMcs(Dest) \in Mcs
      /\ AssignedBytes \in Nat /\ AssignedSymbols \in 0..availableSymbolsPerLc
  BY <1>1, GrantBounds
<1>3. /\ bsr' \in [Lcid -> Bsr \cup {NoBsr}]
      /\ \A l \in Lcid : l # bsrIt => bsr'[l] = bsr[l]
      /\ RequiredBytes(r) = AssignedBytes => bsr'[bsrIt] = NoBsr
      /\ RequiredBytes(r) # AssignedBytes =>
           RequiredBytes(bsr'[bsrIt]) = RequiredBytes(r) - AssignedBytes
  BY GrantRest
<1>4. /\ availableSymbols \in 0..SymbPerSlot /\ availableSymbolsPerLc \in 0..SymbPerSlot
      /\ availableSymbolsPerLc <= availableSymbols /\ symStart \in Nat
      /\ SymbPerSlot \in Nat /\ AssignedSymbols \in Nat
  BY <1>1, <1>2, SlotAssumption DEF TypeOK, ShareInv
<1>5. /\ availableSymbols' \in 0..SymbPerSlot /\ availableSymbolsPerLc' \in 0..SymbPerSlot
      /\ availableSymbolsPerLc' <= availableSymbols' /\ symStart' \in Nat
  BY <1>1, <1>2, <1>4 DEF Min2
<1>6. tti \in Tti
  BY <1>2, <1>4 DEF Tti
<1>7. /\ alloc' \in Seq(Tti) /\ alloc \in Seq(Tti) /\ alloc' # <<>>
      /\ Len(alloc') = Len(alloc) + 1 /\ Len(alloc) \in Nat
      /\ \A i \in 1..Len(alloc) : alloc'[i] = alloc[i]
      /\ alloc'[Len(alloc')] = tti
  <2> HIDE DEF tti
  <2>1. alloc \in Seq(Tti)
    BY DEF TypeOK
  <2> QED BY <1>1, <1>6, <2>1, AppendElements
<1>8. IF Active(bsr') = {} THEN bsrIt' = End ELSE bsrIt' \in Active(bsr')
  BY <1>1, <1>2, NextBsrValid DEF Active
<1>9. TypeOK'
  <2>1. bsrIt' \in Lcid \cup {End}
    BY <1>8 DEF Active
  <2>2. it' \in 1..Len(alloc')+1
    BY <1>1, <1>7 DEF TypeOK
  <2> QED BY <1>1, <1>3, <1>5, <1>7, <2>1, <2>2 DEF TypeOK
<1>10. IteratorValid'
  BY <1>8 DEF IteratorValid
<1>11. SlotBudget'
  <2>1. \A i \in 1..Len(alloc') :
          alloc'[i].symStart = IF i = 1 THEN 0 ELSE alloc'[i-1].symStart + alloc'[i-1].numSym
    <3>1. SUFFICES ASSUME NEW i \in 1..Len(alloc')
                   PROVE  alloc'[i].symStart =
                            IF i = 1 THEN 0 ELSE alloc'[i-1].symStart + alloc'[i-1].numSym
      OBVIOUS
    <3>2. CASE i \in 1..Len(alloc)
      <4>1. alloc'[i] = alloc[i] /\ (i # 1 => alloc'[i-1] = alloc[i-1])
        <5>1. i # 1 => i - 1 \in 1..Len(alloc)
          BY <1>7, <3>2
        <5> QED BY <1>7, <3>2, <5>1
      <4>2. alloc[i].symStart = IF i = 1 THEN 0 ELSE alloc[i-1].symStart + alloc[i-1].numSym
        BY <1>1, <3>2 DEF SlotBudget
      <4> QED BY <4>1, <4>2
    <3>3. CASE i = Len(alloc) + 1 /\ alloc = <<>>
      BY <1>1, <1>7, <3>3 DEF ShareInv
    <3>4. CASE i = Len(alloc) + 1 /\ alloc # <<>>
      <4>1. Len(alloc) \in 1..Len(alloc) /\ i # 1 /\ i - 1 = Len(alloc)
        BY <1>7, <3>4
      <4>2. symStart = alloc[Len(alloc)].symStart + alloc[Len(alloc)].numSym
        BY <1>1, <3>4 DEF SlotBudget
      <4> QED BY <1>7, <3>4, <4>1, <4>2
    <3> QED BY <1>7, <3>2, <3>3, <3>4
  <2>2. symStart' = alloc'[Len(alloc')].symStart + alloc'[Len(alloc')].numSym
    BY <1>1, <1>7
  <2>3. symStart' + availableSymbols' = SymbPerSlot /\ symStart' <= SymbPerSlot
    <3>1. symStart + availableSymbols = SymbPerSlot
      BY <1>1 DEF SlotBudget
    <3> QED BY <1>1, <1>4, <1>5, <3>1
  <2> QED BY <2>1, <2>2, <2>3 DEF SlotBudget
<1>12. ShareInv'
  <2>1. ASSUME NEW l \in Saturated, bsr'[l] # NoBsr
        PROVE  RequiredBytes(bsr'[l]) <= RequiredBytes(SatReport)
    <3>1. l \in Lcid
      BY LcidAssumption
    <3>2. CASE l = bsrIt
      <4>1. RequiredBytes(SatReport) \in Nat
        BY ReportAssumption DEF RequiredBytes, Bsr
      <4> QED BY <1>2, <1>3, <2>1, <3>2, <4>1
    <3>3. CASE l # bsrIt
      BY <1>3, <2>1, <3>1, <3>3 DEF ShareInv
    <3> QED BY <3>2, <3>3
  <2>2. ASSUME NEW i \in 1..Len(alloc') PROVE alloc'[i].rnti \in Dests
    <3>1. Dest \in Dests
      BY <1>1, GrantBounds
    <3>2. i \in 1..Len(alloc) \/ i = Len(alloc')
      BY <1>7
    <3>3. CASE i \in 1..Len(alloc)
      BY <1>7, <3>3 DEF ShareInv
    <3>4. CASE i = Len(alloc')
      <4>1. tti.rnti = Dest
        OBVIOUS
      <4> QED BY <1>7, <3>1, <3>4, <4>1
    <3> QED BY <3>2, <3>3, <3>4
  <2> QED BY <1>1, <1>5, <1>7, <2>1, <2>2 DEF ShareInv
<1> QED BY <1>9, <1>10, <1>11, <1>12

\* The other loop: SlotInv says little about it, and it changes no symbol.
LEMMA AssociateKeepsSlotInv ==
  ASSUME SlotInv, Associate
  PROVE  SlotInv'
<1> USE DEF SlotInv
<1> DEFINE d == alloc[it].rnti
<1>1. /\ pc = "associate" /\ it <= Len(alloc) /\ it' = it + 1
      /\ UNCHANGED <<slot, pc, bsr, mcsOf, alloc, loopVars, refused, bsr0>>
  BY DEF Associate
<1>2. it \in 1..Len(alloc) /\ alloc[it] \in Tti /\ Len(alloc) \in Nat
  BY <1>1 DEF TypeOK
<1>3. it' \in 1..Len(alloc')+1
  BY <1>1, <1>2
<1>4. txBuf' \in [Dests -> Seq(Pdu)] /\ phyBuffer' \in Seq([pdu : Pdu, info : Tti])
  <2>1. CASE UNCHANGED <<txBuf, phyBuffer>>
    BY <2>1 DEF TypeOK
  <2>2. CASE /\ txBuf[d] # <<>>
             /\ phyBuffer' = Append(phyBuffer, [pdu |-> Head(txBuf[d]), info |-> alloc[it]])
             /\ txBuf' = [txBuf EXCEPT ![d] = Tail(@)]
    <3>1. d \in Dests
      BY <1>2 DEF ShareInv
    <3>2. Head(txBuf[d]) \in Pdu /\ Tail(txBuf[d]) \in Seq(Pdu)
      BY <2>2, <3>1 DEF TypeOK
    <3>3. [pdu |-> Head(txBuf[d]), info |-> alloc[it]] \in [pdu : Pdu, info : Tti]
      BY <3>2, <1>2
    <3> QED BY <2>2, <3>1, <3>2, <3>3 DEF TypeOK
  <2> QED BY <2>1, <2>2 DEF Associate
<1>5. TypeOK'
  BY <1>1, <1>3, <1>4 DEF TypeOK, loopVars
<1>6. IteratorValid' /\ SlotBudget' /\ ShareInv'
  BY <1>1 DEF IteratorValid, SlotBudget, ShareInv, loopVars, Active
<1> QED BY <1>5, <1>6

\* Every step keeps the invariant; outside the two loops only types are at stake.
LEMMA StepKeepsSlotInv ==
  ASSUME SlotInv, [Next]_vars
  PROVE  SlotInv'
<1> USE DEF SlotInv
<1>1. ASSUME NEW l \in Lcid, NEW r \in Report \cup {SatReport}, ReportBufferStatus(l, r)
      PROVE  SlotInv'
  <2>1. r \in Bsr /\ bsr' = [bsr EXCEPT ![l] = r] /\ (l \in Saturated => r = SatReport)
        /\ pc = "idle"
        /\ UNCHANGED <<slot, pc, txBuf, mcsOf, alloc, loopVars, it, phyBuffer, refused, bsr0>>
    BY <1>1, ReportAssumption DEF ReportBufferStatus
  <2>2. TypeOK'
    BY <2>1 DEF TypeOK, loopVars
  <2>3. ASSUME NEW k \in Saturated, bsr'[k] # NoBsr
        PROVE  RequiredBytes(bsr'[k]) <= RequiredBytes(SatReport)
    <3>1. k \in Lcid /\ RequiredBytes(SatReport) \in Nat
      BY LcidAssumption, ReportAssumption DEF RequiredBytes, Bsr
    <3>2. CASE k = l
      BY <2>1, <3>1, <3>2 DEF TypeOK
    <3>3. CASE k # l
      BY <2>1, <2>3, <3>1, <3>3 DEF TypeOK, ShareInv
    <3> QED BY <3>2, <3>3
  <2> QED BY <2>1, <2>2, <2>3 DEF IteratorValid, SlotBudget, ShareInv, loopVars
<1>2. ASSUME NEW d \in Dests, NEW m \in Mcs, SlSinrReport(d, m)
      PROVE  SlotInv'
  BY <1>2 DEF SlSinrReport, TypeOK, IteratorValid, SlotBudget, ShareInv, loopVars, Active
<1>3. NextSlot => slot' \in 0..SlotsPerSubframe-1
  BY SlotAssumption DEF NextSlot, TypeOK
<1>4. CASE OtherSlot
  BY <1>3, <1>4 DEF OtherSlot, TypeOK, IteratorValid, SlotBudget, ShareInv, loopVars, Active
<1>5. CASE StartOwnSlot
  <2>1. Active(bsr) # {} /\ Active(bsr) \in SUBSET Lcid
    BY <1>5 DEF StartOwnSlot, Active
  <2>2. PerLcShare(Active(bsr)) \in 0..SymbPerSlot
    <3>1. IsFiniteSet(Active(bsr))
      BY <2>1, LcidAssumption, FS_Subset
    <3>2. Cardinality(Active(bsr)) \in Nat /\ Cardinality(Active(bsr)) # 0
      BY <2>1, <3>1, FS_CardinalityType, FS_EmptySet
    <3>3. \A n \in Nat \ {0} : SymbPerSlot \div n \in 0..SymbPerSlot
      BY SlotAssumption
    <3> QED BY <3>2, <3>3 DEF PerLcShare
  <2>3. MinOf(Active(bsr)) \in Active(bsr)
    <3>1. Active(bsr) \in SUBSET Nat
      BY <2>1, LcidAssumption
    <3> QED BY <2>1, <3>1, MinOfExists
  <2>4. /\ pc = "idle" /\ pc' = "schedule" /\ availableSymbols' = SymbPerSlot
        /\ availableSymbolsPerLc' = PerLcShare(Active(bsr))
        /\ bsrIt' = MinOf(Active(bsr)) /\ symStart' = 0 /\ bsr0' = bsr
        /\ UNCHANGED <<slot, bsr, txBuf, mcsOf, alloc, it, phyBuffer, refused>>
    BY <1>5 DEF StartOwnSlot
  <2>5. bsrIt' \in Active(bsr') /\ bsrIt' \in Lcid
    BY <2>1, <2>3, <2>4 DEF Active
  <2>6. TypeOK'
    BY <2>2, <2>4, <2>5, SlotAssumption DEF TypeOK
  <2>7. ShareInv'
    BY <2>2, <2>4, SlotAssumption DEF ShareInv
  <2>8. SlotBudget'
    <3>1. alloc = <<>>
      BY <2>4 DEF ShareInv
    <3> QED BY <2>4, <3>1, SlotAssumption DEF SlotBudget
  <2>9. IteratorValid'
    BY <2>5 DEF IteratorValid
  <2> QED BY <2>6, <2>7, <2>8, <2>9
<1>6. CASE StartIdleSlot
  <2>1. alloc = <<>>
    BY <1>6 DEF StartIdleSlot, ShareInv
  <2> QED BY <1>6, <2>1
          DEF StartIdleSlot, TypeOK, IteratorValid, SlotBudget, ShareInv, loopVars, Active
<1>7. ASSUME pc = "schedule", Active(bsr) # {}, bsrIt \in Lcid,
             NEW size \in PduSize \cup {AssignedBytes}, TransmitPdu(size)
      PROVE  txBuf' \in [Dests -> Seq(Pdu)]
  <2>1. AssignedBytes \in Nat /\ Dest \in Dests
    BY <1>7, GrantBounds
  <2>2. size \in Nat
    BY <2>1, ReportAssumption
  <2>3. [lcid |-> bsrIt, size |-> size, tti |-> Len(alloc) + 1] \in Pdu
    BY <1>7, <2>2 DEF Pdu, TypeOK
  <2> QED BY <1>7, <2>1, <2>3 DEF TransmitPdu, TypeOK
<1>8. CASE NotifySaturated
  <2>1. Grant(SatReport) /\ bsrIt \in Saturated /\ TransmitPdu(AssignedBytes)
        /\ refused' = refused
    BY <1>8 DEF NotifySaturated
  <2>2. pc = "schedule" /\ Active(bsr) # {} /\ bsrIt \in Lcid /\ bsr[bsrIt] # NoBsr
    BY <2>1, GrantBounds, LcidAssumption DEF Grant, IteratorValid, Active
  <2>3. txBuf' \in [Dests -> Seq(Pdu)]
    BY <1>7, <2>1, <2>2
  <2>4. RequiredBytes(SatReport) >= RequiredBytes(bsr[bsrIt])
    <3>1. RequiredBytes(SatReport) \in Nat /\ RequiredBytes(bsr[bsrIt]) \in Nat
      <4>1. SatReport \in Bsr /\ bsr[bsrIt] \in Bsr
        BY <2>2, ReportAssumption DEF TypeOK
      <4> QED BY <4>1 DEF RequiredBytes, Bsr
    <3> QED BY <2>1, <2>2, <3>1 DEF ShareInv
  <2>5. refused' \in [Lcid -> Nat] /\ SatReport \in Bsr
    BY <2>1, ReportAssumption DEF TypeOK
  <2> QED BY <2>1, <2>3, <2>4, <2>5, GrantKeepsSlotInv
<1>9. ASSUME Grant(bsr[bsrIt]), bsrIt \notin Saturated,
             txBuf' \in [Dests -> Seq(Pdu)], refused' \in [Lcid -> Nat]
      PROVE  SlotInv'
  <2>1. pc = "schedule" /\ Active(bsr) # {}
    BY <1>9 DEF Grant
  <2>2. bsr[bsrIt] \in Bsr
    BY <2>1, GrantBounds
  <2>3. RequiredBytes(bsr[bsrIt]) >= RequiredBytes(bsr[bsrIt])
    BY <2>2 DEF RequiredBytes, Bsr
  <2> QED BY <1>9, <2>2, <2>3, GrantKeepsSlotInv
<1>10. ASSUME NEW size \in PduSize, NotifyQueued(size)
       PROVE  SlotInv'
  <2>1. Grant(bsr[bsrIt]) /\ bsrIt \notin Saturated /\ TransmitPdu(size) /\ refused' = refused
    BY <1>10 DEF NotifyQueued
  <2>2. pc = "schedule" /\ Active(bsr) # {}
    BY <2>1 DEF Grant
  <2>3. bsrIt \in Lcid
    BY <2>2, GrantBounds
  <2>4. txBuf' \in [Dests -> Seq(Pdu)]
    BY <1>7, <2>1, <2>2, <2>3
  <2>5. refused' \in [Lcid -> Nat]
    BY <2>1 DEF TypeOK
  <2> QED BY <1>9, <2>1, <2>4, <2>5
<1>11. CASE NotifyRefused
  <2>1. Grant(bsr[bsrIt]) /\ bsrIt \notin Saturated /\ txBuf' = txBuf
        /\ refused' = [refused EXCEPT ![bsrIt] = IF AssignedBytes > @ THEN AssignedBytes ELSE @]
    BY <1>11 DEF NotifyRefused
  <2>2. AssignedBytes \in Nat
    BY <2>1, GrantBounds DEF Grant
  <2>3. txBuf' \in [Dests -> Seq(Pdu)] /\ refused' \in [Lcid -> Nat]
    BY <2>1, <2>2 DEF TypeOK
  <2> QED BY <1>9, <2>1, <2>3
<1>12. CASE EndSchedule
  BY <1>12 DEF EndSchedule, TypeOK, IteratorValid, SlotBudget, ShareInv, loopVars, Active
<1>13. CASE Associate
  BY <1>13, AssociateKeepsSlotInv
<1>14. CASE EndSlot
  <2>1. Len(<<>>) = 0 /\ <<>> \in Seq(Tti) /\ <<>> \in Seq([pdu : Pdu, info : Tti])
    OBVIOUS
  <2>2. TypeOK'
    BY <1>3, <1>14, <2>1, SlotAssumption DEF EndSlot, TypeOK
  <2>3. IteratorValid' /\ SlotBudget'
    BY <1>14 DEF EndSlot, IteratorValid, SlotBudget
  <2>4. ShareInv'
    BY <1>14, <2>1 DEF EndSlot, ShareInv
  <2> QED BY <2>2, <2>3, <2>4
<1>15. CASE UNCHANGED vars
  BY <1>15 DEF vars, TypeOK, IteratorValid, SlotBudget, ShareInv, loopVars, Active
<1> QED BY <1>1, <1>2, <1>4, <1>5, <1>6, <1>8, <1>10, <1>11, <1>12, <1>13, <1>14, <1>15
        DEF Next, Handler

\* The first StartSlot finds an empty MAC.
LEMMA InitSlotInv == Init => SlotInv
<1> SUFFICES ASSUME Init PROVE SlotInv
  OBVIOUS
<1>1. Len(<<>>) = 0 /\ <<>> \in Seq(Tti) /\ <<>> \in Seq(Pdu)
      /\ <<>> \in Seq([pdu : Pdu, info : Tti])
  OBVIOUS
<1>2. TypeOK
  BY <1>1, SlotAssumption, AmcAssumption DEF Init, TypeOK
<1>3. IteratorValid /\ SlotBudget
  BY DEF Init, IteratorValid, SlotBudget
<1>4. ShareInv
  <2>1. \A l \in Saturated : bsr[l] = NoBsr
    BY LcidAssumption DEF Init
  <2> QED BY <1>1, <2>1 DEF Init, ShareInv
<1> QED BY <1>2, <1>3, <1>4 DEF SlotInv

\* The induction over the steps of a behavior.
LEMMA SlotInvHolds == Spec => []SlotInv
  BY InitSlotInv, StepKeepsSlotInv, PTL DEF Spec

\* Every variable of ScheduleResources keeps its range: the unsigned counter of free
\* symbols is never decremented below zero, for any block sizes, reports and MCSs.
THEOREM TypeCorrect == Spec => []TypeOK
  BY SlotInvHolds, PTL DEF SlotInv

\* The loop of ScheduleResources always has a live iterator when it dereferences it.
THEOREM IteratorAlwaysValid == Spec => []IteratorValid
  BY SlotInvHolds, PTL DEF SlotInv

\* The blocks of a slot never overlap and never pass its end, however many channels
\* share it and whatever their RLC entities report.
THEOREM SlotNeverOverbooked == Spec => []SlotBudget
  BY SlotInvHolds, PTL DEF SlotInv
==============================================================================
