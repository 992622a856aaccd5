------------------------- MODULE SidelinkMacService -------------------------
(***************************************************************************)
(* Why no channel is starved although ScheduleResources always starts from *)
(* the lowest LCID: until every channel has been served once, the symbols  *)
(* still free are at least one share for each channel still to be served,  *)
(* so the share does not shrink and the iterator has not wrapped.          *)
(* And what the channels are granted: exactly what their reports shrink by. *)
(***************************************************************************)
EXTENDS SidelinkMacProofs, NaturalLemmas

\* The channels of the slot that have had no opportunity yet.
Unserved == {l \in Active(bsr0) : \A i \in 1..Len(alloc) : alloc[i].rnti # DestRnti[l]}

ServeInv ==
  /\ pc = "schedule" /\ Unserved # {} =>
       /\ bsrIt \in Unserved
       /\ Unserved = {l \in Active(bsr) : l >= bsrIt}
       /\ availableSymbolsPerLc = PerLcShare(Active(bsr0))
       /\ availableSymbols >= PerLcShare(Active(bsr0)) * Cardinality(Unserved)
  /\ pc = "associate" => Unserved = {}

\* The shares of all the channels fit the slot, and none is empty.
LEMMA SharesFit ==
  ASSUME NEW A \in SUBSET Lcid, A # {}
  PROVE  /\ PerLcShare(A) \in 1..SymbPerSlot
         /\ PerLcShare(A) * Cardinality(A) <= SymbPerSlot
<1>1. IsFiniteSet(A) /\ Cardinality(A) \in Nat /\ Cardinality(A) <= Cardinality(Lcid)
      /\ Cardinality(Lcid) \in Nat
  BY LcidAssumption, FS_Subset, FS_CardinalityType
<1>2. Cardinality(A) # 0
  BY <1>1, FS_EmptySet
<1>3. Cardinality(A) \in 1..SymbPerSlot /\ SymbPerSlot \in Nat
  BY <1>1, <1>2, LcidAssumption, SlotAssumption
<1>4. \A n, s \in Nat : n \in 1..s => s \div n \in 1..s
  OBVIOUS
<1>5. \A n, s \in Nat : n # 0 => (s \div n) * n <= s
  OBVIOUS
<1> DEFINE n == Cardinality(A)
<1> HIDE DEF n
<1>6. n \in Nat /\ n # 0 /\ n \in 1..SymbPerSlot /\ PerLcShare(A) = SymbPerSlot \div n
  BY <1>3 DEF n, PerLcShare
<1>7. SymbPerSlot \div n \in 1..SymbPerSlot /\ (SymbPerSlot \div n) * n <= SymbPerSlot
  BY <1>3, <1>4, <1>5, <1>6
<1> QED BY <1>6, <1>7 DEF n

\* One iteration serves the lowest of the channels still to be served.
LEMMA GrantKeepsServeInv ==
  ASSUME SlotInv, SlotInv', ServeInv, NEW r, Grant(r)
  PROVE  ServeInv'
<1>1. /\ pc = "schedule" /\ pc' = pc /\ Active(bsr) # {} /\ bsr0' = bsr0
      /\ availableSymbols' = availableSymbols - AssignedSymbols
      /\ availableSymbolsPerLc' = Min2(availableSymbolsPerLc, availableSymbols')
      /\ bsr' = [bsr EXCEPT ![bsrIt] = UpdateBufferStatusReport(r, AssignedBytes)]
      /\ bsrIt' = NextBsr(bsrIt, Active(bsr'))
  BY DEF Grant
<1>2. bsrIt \in Lcid /\ AssignedSymbols \in 0..availableSymbolsPerLc
  BY <1>1, GrantBounds DEF SlotInv
<1>3. /\ availableSymbols \in Nat /\ availableSymbolsPerLc \in Nat /\ availableSymbols' \in Nat
      /\ alloc \in Seq(Tti) /\ Lcid \subseteq Nat /\ bsr \in [Lcid -> Bsr \cup {NoBsr}]
  <2>1. \A n \in 0..SymbPerSlot : n \in Nat
    BY SlotAssumption
  <2>2. availableSymbols \in 0..SymbPerSlot /\ availableSymbolsPerLc \in 0..SymbPerSlot
    BY DEF SlotInv, TypeOK
  <2>3. availableSymbols' \in 0..SymbPerSlot
    BY DEF SlotInv, TypeOK
  <2>4. alloc \in Seq(Tti) /\ bsr \in [Lcid -> Bsr \cup {NoBsr}]
    BY DEF SlotInv, TypeOK
  <2> QED BY <2>1, <2>2, <2>3, <2>4, LcidAssumption
<1>4. PICK t \in Tti : alloc' = Append(alloc, t) /\ t.rnti = Dest
  BY GrantAppends
<1>5. Unserved' = Unserved \ {bsrIt}
  <2>1. ASSUME NEW l \in Lcid
        PROVE  (\A i \in 1..Len(alloc') : alloc'[i].rnti # DestRnti[l])
                 <=> l # bsrIt /\ \A i \in 1..Len(alloc) : alloc[i].rnti # DestRnti[l]
    <3>1. /\ Len(alloc') = Len(alloc) + 1 /\ Len(alloc) \in Nat
          /\ alloc'[Len(alloc) + 1] = t
          /\ \A i \in 1..Len(alloc) : alloc'[i] = alloc[i]
      BY <1>3, <1>4, AppendElements
    <3>2. l = bsrIt <=> t.rnti = DestRnti[l]
      BY <1>2, <1>4, DestAssumption DEF Dest
    <3>3. (\A i \in 1..Len(alloc') : alloc'[i].rnti # DestRnti[l])
            <=> /\ t.rnti # DestRnti[l]
                /\ \A i \in 1..Len(alloc) : alloc[i].rnti # DestRnti[l]
      <4>1. \A i : i \in 1..Len(alloc') <=> i \in 1..Len(alloc) \/ i = Len(alloc) + 1
        BY <3>1
      <4> QED BY <3>1, <4>1
    <3> QED BY <3>2, <3>3
  <2> QED BY <1>1, <2>1 DEF Unserved, Active
<1> SUFFICES ASSUME Unserved' # {}
             PROVE  /\ bsrIt' \in Unserved'
                    /\ Unserved' = {l \in Active(bsr') : l >= bsrIt'}
                    /\ availableSymbolsPerLc' = PerLcShare(Active(bsr0))
                    /\ availableSymbols' >= PerLcShare(Active(bsr0)) * Cardinality(Unserved')
  BY <1>1 DEF ServeInv
<1>6. /\ bsrIt \in Unserved /\ Unserved = {l \in Active(bsr) : l >= bsrIt}
      /\ availableSymbolsPerLc = PerLcShare(Active(bsr0))
      /\ availableSymbols >= PerLcShare(Active(bsr0)) * Cardinality(Unserved)
  BY <1>1, <1>5 DEF ServeInv
<1> DEFINE after == {l \in Active(bsr') : l > bsrIt}
<1>7. Unserved' = after
  <2>1. \A l \in Lcid : l # bsrIt => bsr'[l] = bsr[l]
    BY <1>1, <1>2, <1>3
  <2>2. \A l \in Lcid : l > bsrIt <=> l >= bsrIt /\ l # bsrIt
    BY <1>2, <1>3
  <2> QED BY <1>5, <1>6, <2>1, <2>2 DEF Active
<1>8. bsrIt' = MinOf(after) /\ Active(bsr') # {}
  BY <1>1, <1>7 DEF NextBsr
<1>9. bsrIt' \in after /\ \A l \in after : bsrIt' <= l
  <2>1. after \in SUBSET Nat /\ after # {}
    BY <1>3, <1>7 DEF Active
  <2> HIDE DEF after
  <2> QED BY <1>8, <2>1, MinOfExists
<1>10. after = {l \in Active(bsr') : l >= bsrIt'}
  <2>1. \A l \in Active(bsr') : l \in Nat
    BY <1>3 DEF Active
  <2>2. bsrIt \in Nat /\ bsrIt' \in Nat /\ bsrIt' > bsrIt
    BY <1>2, <1>3, <1>9 DEF Active
  <2>3. \A l \in Active(bsr') : l >= bsrIt' => l > bsrIt
    BY <2>1, <2>2
  <2>4. \A l \in after : l \in Active(bsr') /\ l >= bsrIt'
    BY <1>9, <2>1, <2>2
  <2> QED BY <2>3, <2>4
<1>11. /\ PerLcShare(Active(bsr0)) \in Nat
       /\ Cardinality(Unserved) \in Nat /\ Cardinality(Unserved') = Cardinality(Unserved) - 1
       /\ Cardinality(Unserved') \in Nat /\ Cardinality(Unserved') # 0
  <2>1. Active(bsr0) \in SUBSET Lcid /\ Active(bsr0) # {} /\ Unserved \in SUBSET Lcid
    BY <1>6 DEF Unserved, Active
  <2>2. PerLcShare(Active(bsr0)) \in Nat
    BY <2>1, SharesFit, SlotAssumption
  <2>3. IsFiniteSet(Unserved)
    BY <2>1, LcidAssumption, FS_Subset
  <2>4. /\ IsFiniteSet(Unserved \ {bsrIt})
        /\ Cardinality(Unserved \ {bsrIt}) = Cardinality(Unserved) - 1
    BY <1>6, <2>3, FS_RemoveElement
  <2>5. Cardinality(Unserved) \in Nat /\ Cardinality(Unserved \ {bsrIt}) \in Nat
    BY <2>3, <2>4, FS_CardinalityType
  <2>6. Cardinality(Unserved \ {bsrIt}) # 0
    BY <1>5, <2>4, FS_EmptySet
  <2> QED BY <1>5, <2>2, <2>4, <2>5, <2>6
<1>12. availableSymbols' >= PerLcShare(Active(bsr0)) * Cardinality(Unserved')
       /\ availableSymbols' >= PerLcShare(Active(bsr0))
  <2>1. \A p, k, a, s \in Nat :
          k > 1 /\ a >= p * k /\ s <= p => a - s >= p * (k - 1) /\ a - s >= p
    <3>1. \A p, k \in Nat : p * (k - 1) = p * k - p
      OBVIOUS
    <3>2. \A p, k \in Nat : k > 1 => p * (k - 1) >= p
      OBVIOUS
    <3> TAKE p, k, a, s \in Nat
    <3> HAVE k > 1 /\ a >= p * k /\ s <= p
    <3>3. p * k \in Nat /\ p * (k - 1) \in Int
      OBVIOUS
    <3>4. p * (k - 1) = p * k - p /\ p * (k - 1) >= p
      BY <3>1, <3>2
    <3> QED BY <3>3, <3>4
  <2>2. Cardinality(Unserved) > 1 /\ AssignedSymbols \in Nat
        /\ AssignedSymbols <= PerLcShare(Active(bsr0))
    BY <1>2, <1>3, <1>6, <1>11
  <2> QED BY <1>1, <1>3, <1>6, <1>11, <2>1, <2>2
<1>13. availableSymbolsPerLc' = PerLcShare(Active(bsr0))
  BY <1>1, <1>3, <1>6, <1>11, <1>12 DEF Min2
<1> QED BY <1>7, <1>9, <1>10, <1>12, <1>13

\* Every step keeps ServeInv: StartOwnSlot makes all active channels unserved, with a
\* share of the slot for each; only Grant serves one.
LEMMA StepKeepsServeInv ==
  ASSUME SlotInv, ServeInv, [Next]_vars
  PROVE  ServeInv'
<1>1. SlotInv'
  BY StepKeepsSlotInv
<1>2. ASSUME pc' = "idle" PROVE ServeInv'
  BY <1>2 DEF ServeInv
<1>3. ASSUME NEW l \in Lcid, NEW r \in Report \cup {SatReport}, ReportBufferStatus(l, r)
      PROVE  ServeInv'
  BY <1>2, <1>3 DEF ReportBufferStatus
<1>4. ASSUME NEW d \in Dests, NEW m \in Mcs, SlSinrReport(d, m)
      PROVE  ServeInv'
  BY <1>2, <1>4 DEF SlSinrReport
<1>5. CASE OtherSlot \/ EndSlot
  BY <1>2, <1>5 DEF OtherSlot, EndSlot
<1>6. CASE StartIdleSlot
  BY <1>6 DEF StartIdleSlot, ServeInv, Unserved
<1>7. CASE StartOwnSlot
  <2>1. /\ Active(bsr) # {} /\ Active(bsr) \in SUBSET Lcid /\ Active(bsr) \in SUBSET Nat
        /\ pc' = "schedule" /\ availableSymbols' = SymbPerSlot
        /\ availableSymbolsPerLc' = PerLcShare(Active(bsr))
        /\ bsrIt' = MinOf(Active(bsr)) /\ bsr0' = bsr /\ bsr' = bsr /\ alloc' = <<>>
    BY <1>7, LcidAssumption DEF StartOwnSlot, SlotInv, ShareInv, Active
  <2>2. MinOf(Active(bsr)) \in Active(bsr) /\ \A l \in Active(bsr) : MinOf(Active(bsr)) <= l
    BY <2>1, MinOfExists
  <2>3. Active(bsr)' = Active(bsr) /\ Active(bsr0)' = Active(bsr)
    BY <2>1
  <2>4. Unserved' = Active(bsr)
    BY <2>1, <2>3 DEF Unserved
  <2>5. {l \in Active(bsr) : l >= bsrIt'} = Active(bsr)
    BY <2>1, <2>2
  <2>6. SymbPerSlot >= PerLcShare(Active(bsr)) * Cardinality(Active(bsr))
    <3>1. /\ PerLcShare(Active(bsr)) \in 1..SymbPerSlot
          /\ PerLcShare(Active(bsr)) * Cardinality(Active(bsr)) <= SymbPerSlot
      BY <2>1, SharesFit
    <3>2. IsFiniteSet(Active(bsr))
      BY <2>1, LcidAssumption, FS_Subset
    <3>3. Cardinality(Active(bsr)) \in Nat
      BY <3>2, FS_CardinalityType
    <3>4. PerLcShare(Active(bsr)) * Cardinality(Active(bsr)) \in Int
      BY <3>1, <3>3, SlotAssumption
    <3> QED BY <3>1, <3>4, SlotAssumption
  <2> QED BY <2>1, <2>2, <2>3, <2>4, <2>5, <2>6 DEF ServeInv
<1>8. CASE NotifySaturated
  BY <1>1, <1>8, GrantKeepsServeInv DEF NotifySaturated
<1>9. ASSUME NEW size \in PduSize, NotifyQueued(size)
      PROVE  ServeInv'
  BY <1>1, <1>9, GrantKeepsServeInv DEF NotifyQueued
<1>10. CASE NotifyRefused
  BY <1>1, <1>10, GrantKeepsServeInv DEF NotifyRefused
<1>11. CASE EndSchedule
  <2>1. /\ pc = "schedule"
        /\ availableSymbols = 0 \/ Active(bsr) = {}
        /\ pc' = "associate" /\ bsr0' = bsr0 /\ alloc' = alloc
    BY <1>11 DEF EndSchedule
  <2>2. ASSUME Unserved # {} PROVE FALSE
    <3>1. /\ bsrIt \in Active(bsr)
          /\ availableSymbols >= PerLcShare(Active(bsr0)) * Cardinality(Unserved)
      BY <2>1, <2>2 DEF ServeInv
    <3>2. Active(bsr0) \in SUBSET Lcid /\ Active(bsr0) # {} /\ Unserved \in SUBSET Lcid
      BY <2>2 DEF Unserved, Active
    <3>3. PerLcShare(Active(bsr0)) \in 1..SymbPerSlot
      BY <3>2, SharesFit
    <3>4. IsFiniteSet(Unserved)
      BY <3>2, LcidAssumption, FS_Subset
    <3>5. Cardinality(Unserved) \in Nat /\ Cardinality(Unserved) # 0
      BY <2>2, <3>4, FS_CardinalityType, FS_EmptySet
    <3>6. \A p, k \in Nat : p # 0 /\ k # 0 => p * k > 0
      OBVIOUS
    <3>7. PerLcShare(Active(bsr0)) * Cardinality(Unserved) > 0
      BY <3>3, <3>5, <3>6, SlotAssumption
    <3>8. availableSymbols # 0
      <4>1. PerLcShare(Active(bsr0)) * Cardinality(Unserved) \in Int
        BY <3>3, <3>5, SlotAssumption
      <4> QED BY <3>1, <3>7, <4>1
    <3> QED BY <2>1, <3>1, <3>8
  <2> QED BY <2>1, <2>2 DEF ServeInv, Unserved
<1>12. CASE Associate
  BY <1>12 DEF Associate, ServeInv, Unserved
<1>13. CASE UNCHANGED vars
  BY <1>13 DEF vars, loopVars, ServeInv, Unserved, Active
<1> QED BY <1>3, <1>4, <1>5, <1>6, <1>7, <1>8, <1>9, <1>10, <1>11, <1>12, <1>13 DEF Next, Handler

\* Every channel with a report at the start of its device's slot gets an opportunity in
\* that slot, for any number of channels up to the number of symbols.
THEOREM EveryActiveAlwaysServed == Spec => []EveryActiveServed
<1>1. Init => ServeInv
  BY DEF Init, ServeInv
<1>2. ServeInv => EveryActiveServed
  BY DEF ServeInv, Unserved, EveryActiveServed
<1> QED BY <1>1, <1>2, InitSlotInv, StepKeepsSlotInv, StepKeepsServeInv, PTL DEF Spec

------------------------------------------------------------------------------
(* Grants and reports *)

\* The grants to a channel are the total of its blocks.
LEMMA GrantedIs ==
  ASSUME NEW l \in Lcid, NEW blocks \in Seq(Tti)
  PROVE  /\ Granted(l, blocks) = TotalOf(GrantsTo(l, blocks), Len(blocks))
         /\ \A i \in 1..Len(blocks) :
              /\ GrantsTo(l, blocks)[i] \in Nat
              /\ blocks[i].rnti = DestRnti[l] => GrantsTo(l, blocks)[i] = blocks[i].tbSize
              /\ blocks[i].rnti # DestRnti[l] => GrantsTo(l, blocks)[i] = 0
<1>1. Granted(l, blocks) = TotalOf(GrantsTo(l, blocks), Len(blocks))
  BY DEF Granted, TotalOf
<1>2. ASSUME NEW i \in 1..Len(blocks)
      PROVE  /\ GrantsTo(l, blocks)[i] \in Nat
             /\ blocks[i].rnti = DestRnti[l] => GrantsTo(l, blocks)[i] = blocks[i].tbSize
             /\ blocks[i].rnti # DestRnti[l] => GrantsTo(l, blocks)[i] = 0
  <2>1. blocks[i] \in Tti
    OBVIOUS
  <2> QED BY <2>1 DEF GrantsTo, Tti
<1> QED BY <1>1, <1>2

\* A block more grants its bytes to its channel and nothing to any other.
LEMMA GrantedStep ==
  ASSUME NEW l \in Lcid, NEW blocks \in Seq(Tti), NEW t \in Tti,
         NEW longer, longer = Append(blocks, t)
  PROVE  /\ Granted(l, blocks) \in Int
         /\ t.rnti = DestRnti[l] => Granted(l, longer) = Granted(l, blocks) + t.tbSize
         /\ t.rnti # DestRnti[l] => Granted(l, longer) = Granted(l, blocks)
<1> DEFINE n == Len(blocks)
           g == GrantsTo(l, blocks)
           h == GrantsTo(l, longer)
<1>1. /\ n \in Nat /\ longer \in Seq(Tti) /\ Len(longer) = n + 1 /\ longer[n + 1] = t
      /\ \A i \in 1..n : longer[i] = blocks[i]
  BY AppendElements
<1>2. /\ Granted(l, blocks) = TotalOf(g, n) /\ Granted(l, longer) = TotalOf(h, n + 1)
      /\ \A i \in 1..n : g[i] \in Int
      /\ \A i \in 1..n+1 : h[i] \in Int
      /\ t.rnti = DestRnti[l] => h[n + 1] = t.tbSize
      /\ t.rnti # DestRnti[l] => h[n + 1] = 0
  <2>1. n + 1 \in 1..n+1
    BY <1>1
  <2>2. /\ Granted(l, blocks) = TotalOf(g, n)
        /\ \A i \in 1..n : g[i] \in Nat
    BY GrantedIs
  <2>3. /\ Granted(l, longer) = TotalOf(h, n + 1)
        /\ \A i \in 1..n+1 : /\ h[i] \in Nat
                             /\ longer[i].rnti = DestRnti[l] => h[i] = longer[i].tbSize
                             /\ longer[i].rnti # DestRnti[l] => h[i] = 0
    <3> HIDE DEF n
    <3> QED BY <1>1, GrantedIs
  <2> HIDE DEF g, h, n
  <2> QED BY <1>1, <2>1, <2>2, <2>3
<1>3. \A i \in 1..n : h[i] = g[i]
  <2>1. ASSUME NEW i \in 1..n PROVE i \in 1..Len(longer) /\ i \in 1..Len(blocks)
    BY <1>1
  <2> QED BY <1>1, <2>1 DEF GrantsTo
<1>4. TotalOf(g, n) \in Int
  <2> HIDE DEF g, n
  <2> QED BY <1>1, <1>2, TotalType
<1>5. TotalOf(h, n + 1) = TotalOf(g, n) + h[n + 1]
  <2> HIDE DEF g, h, n
  <2> QED BY <1>1, <1>2, <1>3, TotalStep
<1> HIDE DEF g, h, n
<1> QED BY <1>2, <1>4, <1>5

\* One iteration moves bytes from the report of its channel to its grants.
LEMMA GrantKeepsGrants ==
  ASSUME SlotInv, GrantsWithinReport, NEW r \in Bsr, Grant(r),
         RequiredBytes(r) >= RequiredBytes(bsr[bsrIt]),
         bsrIt \notin Saturated => r = bsr[bsrIt]
  PROVE  GrantsWithinReport'
<1>1. /\ pc = "schedule" /\ bsrIt \in Lcid /\ bsr[bsrIt] \in Bsr /\ AssignedBytes \in Nat
      /\ alloc \in Seq(Tti)
      /\ \A l \in Lcid : l # bsrIt => bsr'[l] = bsr[l]
      /\ bsr0' = bsr0
  BY GrantAppends DEF Grant
<1>2. PICK t \in Tti : alloc' = Append(alloc, t) /\ t.rnti = Dest /\ t.tbSize = AssignedBytes
  BY GrantAppends
<1> SUFFICES ASSUME NEW l \in Active(bsr0) \ Saturated
             PROVE  Granted(l, alloc') + Reported(bsr'[l]) = RequiredBytes(bsr0[l])
  BY <1>1 DEF GrantsWithinReport, Active
<1>3. /\ l \in Lcid /\ l \notin Saturated
      /\ Granted(l, alloc) + Reported(bsr[l]) = RequiredBytes(bsr0[l])
  BY <1>1 DEF GrantsWithinReport, Active
<1>4. /\ Granted(l, alloc) \in Int
      /\ t.rnti = DestRnti[l] => Granted(l, alloc') = Granted(l, alloc) + t.tbSize
      /\ t.rnti # DestRnti[l] => Granted(l, alloc') = Granted(l, alloc)
  BY <1>1, <1>2, <1>3, GrantedStep
<1>5. CASE l = bsrIt
  <2>1. RequiredBytes(r) \in Nat /\ r = bsr[l] /\ r # NoBsr
    BY <1>1, <1>3, <1>5, ReportAssumption DEF RequiredBytes, Bsr
  <2>2. /\ RequiredBytes(r) = AssignedBytes => bsr'[l] = NoBsr
        /\ RequiredBytes(r) # AssignedBytes =>
             bsr'[l] \in Bsr /\ RequiredBytes(bsr'[l]) = RequiredBytes(r) - AssignedBytes
    BY <1>5, GrantRest DEF SlotInv
  <2>3. Reported(bsr'[l]) = RequiredBytes(r) - AssignedBytes
    BY <1>1, <2>1, <2>2, ReportAssumption DEF Reported
  <2>4. Reported(bsr[l]) = RequiredBytes(r)
    BY <2>1 DEF Reported
  <2>5. t.rnti = DestRnti[l]
    BY <1>2, <1>5 DEF Dest
  <2> QED BY <1>1, <1>2, <1>3, <1>4, <2>1, <2>3, <2>4, <2>5
<1>6. CASE l # bsrIt
  <2>1. t.rnti # DestRnti[l]
    BY <1>1, <1>2, <1>3, <1>6, DestAssumption DEF Dest
  <2> QED BY <1>1, <1>3, <1>4, <1>6, <2>1
<1> QED BY <1>5, <1>6

\* A slot starts without grants; only Grant touches reports and grants in it.
LEMMA StepKeepsGrants ==
  ASSUME SlotInv, GrantsWithinReport, [Next]_vars
  PROVE  GrantsWithinReport'
<1>1. ASSUME pc' = "idle" PROVE GrantsWithinReport'
  BY <1>1 DEF GrantsWithinReport
<1>2. ASSUME pc = "idle", bsr' = bsr, bsr0' = bsr, alloc' = alloc PROVE GrantsWithinReport'
  <2>1. alloc' = <<>>
    BY <1>2 DEF SlotInv, ShareInv
  <2>2. ASSUME NEW l \in Active(bsr) PROVE Granted(l, <<>>) + Reported(bsr[l]) = RequiredBytes(bsr[l])
    <3>1. l \in Lcid /\ bsr[l] \in Bsr /\ bsr[l] # NoBsr
      BY <2>2 DEF Active, SlotInv, TypeOK
    <3>2. Granted(l, <<>>) = 0
      <4>1. <<>> \in Seq(Tti) /\ Len(<<>>) = 0
        OBVIOUS
      <4> QED BY <3>1, <4>1, GrantedIs, TotalOfNone
    <3>3. RequiredBytes(bsr[l]) \in Nat
      BY <3>1 DEF RequiredBytes, Bsr
    <3> QED BY <3>1, <3>2, <3>3 DEF Reported
  <2> QED BY <1>2, <2>1, <2>2 DEF GrantsWithinReport, Active
<1>3. ASSUME pc # "idle", bsr' = bsr, bsr0' = bsr0, alloc' = alloc PROVE GrantsWithinReport'
  BY <1>3 DEF GrantsWithinReport, Active
<1>4. ASSUME NEW l \in Lcid, NEW r \in Report \cup {SatReport}, ReportBufferStatus(l, r)
      PROVE  GrantsWithinReport'
  BY <1>1, <1>4 DEF ReportBufferStatus
<1>5. ASSUME NEW d \in Dests, NEW m \in Mcs, SlSinrReport(d, m)
      PROVE  GrantsWithinReport'
  BY <1>1, <1>5 DEF SlSinrReport
<1>6. CASE OtherSlot \/ EndSlot
  BY <1>1, <1>6 DEF OtherSlot, EndSlot
<1>7. CASE StartIdleSlot \/ StartOwnSlot
  BY <1>2, <1>7 DEF StartIdleSlot, StartOwnSlot
<1>8. CASE EndSchedule \/ Associate
  BY <1>3, <1>8 DEF EndSchedule, Associate
<1>9. CASE NotifySaturated
  <2>1. Grant(SatReport) /\ bsrIt \in Saturated /\ SatReport \in Bsr
    BY <1>9, ReportAssumption DEF NotifySaturated
  <2>2. bsr[bsrIt] \in Bsr
    BY <2>1, GrantAppends
  <2>3. RequiredBytes(SatReport) >= RequiredBytes(bsr[bsrIt])
    BY <2>1, <2>2, ReportAssumption DEF SlotInv, ShareInv, RequiredBytes, Bsr
  <2> QED BY <2>1, <2>3, GrantKeepsGrants
<1>10. ASSUME Grant(bsr[bsrIt]) PROVE GrantsWithinReport'
  <2>1. bsr[bsrIt] \in Bsr
    BY <1>10, GrantAppends
  <2>2. RequiredBytes(bsr[bsrIt]) >= RequiredBytes(bsr[bsrIt])
    BY <2>1 DEF RequiredBytes, Bsr
  <2> QED BY <1>10, <2>1, <2>2, GrantKeepsGrants
<1>11. ASSUME NEW size \in PduSize, NotifyQueued(size) PROVE GrantsWithinReport'
  BY <1>10, <1>11 DEF NotifyQueued
<1>12. CASE NotifyRefused
  BY <1>10, <1>12 DEF NotifyRefused
<1>13. CASE UNCHANGED vars
  BY <1>1, <1>3, <1>13 DEF vars
<1> QED BY <1>4, <1>5, <1>6, <1>7, <1>8, <1>9, <1>11, <1>12, <1>13 DEF Next, Handler

\* What a queueing RLC entity is granted in a slot and what the MAC still remembers of its
\* report make up the report of the start of the slot, for any reports and block sizes.
THEOREM GrantsNeverExceedReport == Spec => []GrantsWithinReport
<1>1. Init => GrantsWithinReport
  BY DEF Init, GrantsWithinReport
<1> QED BY <1>1, InitSlotInv, StepKeepsSlotInv, StepKeepsGrants, PTL DEF Spec
==============================================================================
