------------------------- MODULE SidelinkMacPairing -------------------------
(***************************************************************************)
(* Why the PDU that leaves in a transport block is the one built for it.   *)
(* DoSlotIndication takes, for each block, the oldest PDU queued for its   *)
(* destination.  That is right only if the opportunities a destination     *)
(* leaves unused all come after the ones it uses.  They do: an RLC refuses *)
(* an opportunity because it is too small for what it has to send, its     *)
(* queue cannot change before the handler returns, and the opportunities   *)
(* of a channel only shrink from one iteration of the slot to the next.    *)
(***************************************************************************)
EXTENDS SidelinkMacProofs

\* The opportunities the PDUs of q were built for.
Taken(q) == {q[k].tti : k \in 1..Len(q)}

\* q holds, in order, PDUs for the first of the opportunities of destination d in a
\* from index first on.
QueueOk(q, d, first, a) ==
  \A k \in 1..Len(q) :
    /\ q[k].tti \in first..Len(a) /\ a[q[k].tti].rnti = d
    /\ DestRnti[q[k].lcid] = d /\ q[k].size <= a[q[k].tti].tbSize
    /\ \A j \in 1..Len(q) : k < j => q[k].tti < q[j].tti
    /\ \A i \in first..q[k].tti : a[i].rnti = d => i \in Taken(q)

\* Every opportunity of destination d in a has a PDU in q.
AllTaken(q, d, a) == \A i \in 1..Len(a) : a[i].rnti = d => i \in Taken(q)

QueueInv == \A d \in Dests : QueueOk(txBuf[d], d, it, alloc)

\* A channel that left an opportunity unused will refuse all its others in this slot.
RefusalInv ==
  pc = "schedule" =>
    \A l \in Lcid :
      \/ AllTaken(txBuf[DestRnti[l]], DestRnti[l], alloc)
      \/ l \notin Saturated /\ (bsr[l] = NoBsr \/ Offer(l) <= refused[l])

\* A transport block has room for the bytes it is declared to carry.
TbInv == \A i \in 1..Len(alloc) : alloc[i].tbSize <= TbSize[alloc[i].mcs][alloc[i].numSym]

PairInv == QueueInv /\ RefusalInv /\ TbInv /\ PduInItsOwnTb

------------------------------------------------------------------------------
(* The queue of one destination *)

\* An opportunity that the destination refuses, or that is not its own, changes nothing.
LEMMA QueueIgnores ==
  ASSUME NEW q \in Seq(Pdu), NEW d, NEW first \in Nat \ {0}, NEW a \in Seq(Tti), NEW t \in Tti,
         QueueOk(q, d, first, a)
  PROVE  QueueOk(q, d, first, Append(a, t))
<1> DEFINE b == Append(a, t)
<1>1. Len(b) = Len(a) + 1 /\ Len(a) \in Nat /\ \A i \in 1..Len(a) : b[i] = a[i]
  BY AppendElements
<1>2. ASSUME NEW k \in 1..Len(q)
      PROVE  /\ q[k].tti \in first..Len(b) /\ b[q[k].tti].rnti = d
             /\ DestRnti[q[k].lcid] = d /\ q[k].size <= b[q[k].tti].tbSize
             /\ \A j \in 1..Len(q) : k < j => q[k].tti < q[j].tti
             /\ \A i \in first..q[k].tti : b[i].rnti = d => i \in Taken(q)
  <2>1. /\ q[k].tti \in first..Len(a) /\ a[q[k].tti].rnti = d
        /\ DestRnti[q[k].lcid] = d /\ q[k].size <= a[q[k].tti].tbSize
        /\ \A j \in 1..Len(q) : k < j => q[k].tti < q[j].tti
        /\ \A i \in first..q[k].tti : a[i].rnti = d => i \in Taken(q)
    BY DEF QueueOk
  <2>2. \A i \in first..q[k].tti : b[i] = a[i]
    BY <1>1, <2>1
  <2>3. b[q[k].tti] = a[q[k].tti] /\ q[k].tti \in first..Len(b)
    BY <1>1, <2>1
  <2> HIDE DEF b
  <2> QED BY <2>1, <2>2, <2>3
<1> QED BY <1>2 DEF QueueOk

\* An opportunity the destination takes, after having taken all of them so far.
LEMMA QueueTakes ==
  ASSUME NEW q \in Seq(Pdu), NEW d, NEW a \in Seq(Tti), NEW t \in Tti, NEW e \in Pdu,
         QueueOk(q, d, 1, a), AllTaken(q, d, a), t.rnti = d,
         e.tti = Len(a) + 1, DestRnti[e.lcid] = d, e.size <= t.tbSize
  PROVE  /\ QueueOk(Append(q, e), d, 1, Append(a, t))
         /\ AllTaken(Append(q, e), d, Append(a, t))
<1> DEFINE b == Append(a, t)
           r == Append(q, e)
<1>1. /\ Len(b) = Len(a) + 1 /\ Len(a) \in Nat /\ b[Len(a) + 1] = t
      /\ \A i \in 1..Len(a) : b[i] = a[i]
  BY AppendElements
<1>2. /\ Len(r) = Len(q) + 1 /\ Len(q) \in Nat /\ r[Len(q) + 1] = e
      /\ \A i \in 1..Len(q) : r[i] = q[i]
  BY AppendElements
<1> HIDE DEF b, r
<1>3. \A i \in Taken(q) \cup {Len(b)} : i \in Taken(r)
  <2>1. \A k \in 1..Len(q) : k \in 1..Len(r) /\ r[k].tti = q[k].tti
    BY <1>2
  <2>2. Len(r) \in 1..Len(r) /\ r[Len(r)].tti = Len(b)
    BY <1>1, <1>2
  <2> QED BY <2>1, <2>2 DEF Taken
<1>4. AllTaken(r, d, b)
  <2>1. ASSUME NEW i \in 1..Len(b), b[i].rnti = d PROVE i \in Taken(r)
    <3>1. CASE i \in 1..Len(a)
      BY <1>1, <1>3, <2>1, <3>1 DEF AllTaken
    <3>2. CASE i = Len(b)
      BY <1>3, <3>2
    <3> QED BY <1>1, <3>1, <3>2
  <2> QED BY <2>1 DEF AllTaken
<1>5. ASSUME NEW k \in 1..Len(r)
      PROVE  /\ r[k].tti \in 1..Len(b) /\ b[r[k].tti].rnti = d
             /\ DestRnti[r[k].lcid] = d /\ r[k].size <= b[r[k].tti].tbSize
             /\ \A j \in 1..Len(r) : k < j => r[k].tti < r[j].tti
             /\ \A i \in 1..r[k].tti : b[i].rnti = d => i \in Taken(r)
  <2>1. CASE k \in 1..Len(q)
    <3>1. /\ q[k].tti \in 1..Len(a) /\ a[q[k].tti].rnti = d
          /\ DestRnti[q[k].lcid] = d /\ q[k].size <= a[q[k].tti].tbSize
          /\ \A j \in 1..Len(q) : k < j => q[k].tti < q[j].tti
      BY <2>1 DEF QueueOk
    <3>2. r[k] = q[k] /\ b[q[k].tti] = a[q[k].tti] /\ q[k].tti < Len(a) + 1
      BY <1>1, <1>2, <2>1, <3>1
    <3>3. \A j \in 1..Len(r) : k < j => r[k].tti < r[j].tti
      <4>1. TAKE j \in 1..Len(r)
      <4>2. CASE j \in 1..Len(q)
        BY <1>2, <3>1, <3>2, <4>2
      <4>3. CASE j = Len(q) + 1
        BY <1>2, <3>2, <4>3
      <4> QED BY <1>2, <4>2, <4>3
    <3>4. r[k].tti \in 1..Len(b)
      BY <1>1, <3>1, <3>2
    <3>5. \A i \in 1..r[k].tti : b[i].rnti = d => i \in Taken(r)
      BY <1>4, <3>4, <1>1 DEF AllTaken
    <3> QED BY <3>1, <3>2, <3>3, <3>4, <3>5
  <2>2. CASE k = Len(q) + 1
    <3>1. r[k] = e /\ r[k].tti = Len(b) /\ b[r[k].tti] = t /\ r[k].tti \in 1..Len(b)
      BY <1>1, <1>2, <2>2
    <3>2. \A j \in 1..Len(r) : ~ (k < j)
      BY <1>2, <2>2
    <3>3. \A i \in 1..r[k].tti : b[i].rnti = d => i \in Taken(r)
      BY <1>4, <3>1 DEF AllTaken
    <3> QED BY <3>1, <3>2, <3>3
  <2> QED BY <1>2, <2>1, <2>2
<1>6. QueueOk(r, d, 1, b)
  BY <1>5 DEF QueueOk
<1> QED BY <1>4, <1>6 DEF b, r

\* The loop of DoSlotIndication meets a block of the destination with a PDU queued: the
\* head of the queue was built for this block.
LEMMA QueuePops ==
  ASSUME NEW q \in Seq(Pdu), NEW d, NEW a \in Seq(Tti), NEW first \in 1..Len(a),
         QueueOk(q, d, first, a), q # <<>>, a[first].rnti = d
  PROVE  /\ Head(q) \in Pdu /\ Head(q).tti = first /\ Tail(q) \in Seq(Pdu)
         /\ DestRnti[Head(q).lcid] = d /\ Head(q).size <= a[first].tbSize
         /\ QueueOk(Tail(q), d, first + 1, a)
<1> DEFINE h == Head(q)
           r == Tail(q)
<1>1. /\ Len(q) \in Nat /\ 1 \in 1..Len(q) /\ h = q[1] /\ h \in Pdu
      /\ r \in Seq(Pdu) /\ Len(r) = Len(q) - 1 /\ Len(a) \in Nat
  OBVIOUS
<1>2. \A i \in 1..Len(r) : i + 1 \in 1..Len(q) /\ r[i] = q[i + 1]
  OBVIOUS
<1>3. h.tti = first
  <2>1. h.tti \in first..Len(a) /\ first \in first..h.tti
    <3>1. h.tti \in first..Len(a)
      BY <1>1 DEF QueueOk
    <3> QED BY <3>1, <1>1
  <2>2. first \in Taken(q)
    BY <1>1, <2>1 DEF QueueOk
  <2>3. PICK k \in 1..Len(q) : q[k].tti = first
    BY <2>2 DEF Taken
  <2>4. 1 < k => h.tti < first
    BY <1>1, <2>3 DEF QueueOk
  <2> QED BY <1>1, <2>1, <2>3, <2>4
<1> HIDE DEF h, r
<1>4. ASSUME NEW k \in 1..Len(r)
      PROVE  /\ r[k].tti \in first+1..Len(a) /\ a[r[k].tti].rnti = d
             /\ DestRnti[r[k].lcid] = d /\ r[k].size <= a[r[k].tti].tbSize
             /\ \A j \in 1..Len(r) : k < j => r[k].tti < r[j].tti
             /\ \A i \in first+1..r[k].tti : a[i].rnti = d => i \in Taken(r)
  <2>1. k + 1 \in 1..Len(q) /\ r[k] = q[k + 1] /\ 1 < k + 1
    BY <1>1, <1>2
  <2>2. /\ q[k+1].tti \in first..Len(a) /\ a[q[k+1].tti].rnti = d
        /\ DestRnti[q[k+1].lcid] = d /\ q[k+1].size <= a[q[k+1].tti].tbSize
        /\ \A j \in 1..Len(q) : k + 1 < j => q[k+1].tti < q[j].tti
        /\ \A i \in first..q[k+1].tti : a[i].rnti = d => i \in Taken(q)
    BY <2>1 DEF QueueOk
  <2>3. first < q[k+1].tti
    BY <1>1, <1>3, <2>1 DEF QueueOk
  <2>4. \A j \in 1..Len(r) : k < j => r[k].tti < r[j].tti
    <3>1. TAKE j \in 1..Len(r)
    <3>2. j + 1 \in 1..Len(q) /\ r[j] = q[j + 1] /\ (k < j => k + 1 < j + 1)
      BY <1>2
    <3> QED BY <2>1, <2>2, <3>2
  <2>5. \A i \in first+1..r[k].tti : a[i].rnti = d => i \in Taken(r)
    <3>1. TAKE i \in first+1..r[k].tti
    <3>2. HAVE a[i].rnti = d
    <3>3. i \in first..q[k+1].tti /\ i # first
      BY <2>1, <2>2
    <3>4. PICK m \in 1..Len(q) : q[m].tti = i
      BY <2>2, <3>2, <3>3 DEF Taken
    <3>5. m # 1
      BY <1>1, <1>3, <3>3, <3>4
    <3>6. m - 1 \in 1..Len(r) /\ (m - 1) + 1 = m
      BY <1>1, <3>4, <3>5
    <3>7. r[m - 1].tti = i
      BY <1>2, <3>4, <3>6
    <3> QED BY <3>6, <3>7 DEF Taken
  <2>6. r[k].tti \in first+1..Len(a)
    BY <2>1, <2>2, <2>3
  <2> QED BY <2>1, <2>2, <2>4, <2>5, <2>6
<1>5. QueueOk(r, d, first + 1, a)
  BY <1>4 DEF QueueOk
<1>6. DestRnti[h.lcid] = d /\ h.size <= a[first].tbSize
  BY <1>1, <1>3 DEF QueueOk
<1> QED BY <1>1, <1>3, <1>5, <1>6 DEF h, r

\* The loop meets a block of another destination.
LEMMA QueueSkips ==
  ASSUME NEW q \in Seq(Pdu), NEW d, NEW a \in Seq(Tti), NEW first \in 1..Len(a),
         QueueOk(q, d, first, a), a[first].rnti # d
  PROVE  QueueOk(q, d, first + 1, a)
<1>1. ASSUME NEW k \in 1..Len(q)
      PROVE  /\ q[k].tti \in first+1..Len(a) /\ a[q[k].tti].rnti = d
             /\ DestRnti[q[k].lcid] = d /\ q[k].size <= a[q[k].tti].tbSize
             /\ \A j \in 1..Len(q) : k < j => q[k].tti < q[j].tti
             /\ \A i \in first+1..q[k].tti : a[i].rnti = d => i \in Taken(q)
  <2>1. /\ q[k].tti \in first..Len(a) /\ a[q[k].tti].rnti = d
        /\ DestRnti[q[k].lcid] = d /\ q[k].size <= a[q[k].tti].tbSize
        /\ \A j \in 1..Len(q) : k < j => q[k].tti < q[j].tti
        /\ \A i \in first..q[k].tti : a[i].rnti = d => i \in Taken(q)
    BY DEF QueueOk
  <2>2. q[k].tti # first /\ Len(a) \in Nat
    BY <2>1
  <2>3. q[k].tti \in first+1..Len(a) /\ first+1..q[k].tti \subseteq first..q[k].tti
    BY <2>1, <2>2
  <2> QED BY <2>1, <2>3
<1> QED BY <1>1 DEF QueueOk

------------------------------------------------------------------------------
(* The steps *)

\* The offer to a channel never grows while the slot is being scheduled.
LEMMA OfferShrinks ==
  ASSUME TypeOK, TypeOK', NEW l \in Lcid, bsr[l] \in Bsr, bsr'[l] \in Bsr,
         RequiredBytes(bsr'[l]) <= RequiredBytes(bsr[l]),
         availableSymbolsPerLc' <= availableSymbolsPerLc, mcsOf' = mcsOf
  PROVE  Offer(l)' <= Offer(l) /\ Offer(l) \in Nat /\ Offer(l)' \in Nat
<1>1. RequiredBytes(bsr'[l]) \in Nat /\ RequiredBytes(bsr[l]) \in Nat
  BY DEF RequiredBytes, Bsr
<1>2. GetMcs(DestRnti[l]) \in Mcs /\ GetMcs(DestRnti[l])' = GetMcs(DestRnti[l])
  BY AmcAssumption DEF GetMcs, TypeOK, Dests
<1> DEFINE tb(n) == TbSize[GetMcs(DestRnti[l])][n]
<1>3. /\ availableSymbolsPerLc \in 0..SymbPerSlot /\ availableSymbolsPerLc' \in 0..SymbPerSlot
  BY DEF TypeOK
<1>4. /\ tb(availableSymbolsPerLc') \in Nat /\ tb(availableSymbolsPerLc) \in Nat
      /\ tb(availableSymbolsPerLc') <= tb(availableSymbolsPerLc)
  BY <1>2, <1>3, AmcAssumption
<1>5. /\ Offer(l) = Min2(RequiredBytes(bsr[l]), tb(availableSymbolsPerLc))
      /\ Offer(l)' = Min2(RequiredBytes(bsr'[l]), tb(availableSymbolsPerLc'))
  BY <1>2 DEF Offer
<1> HIDE DEF tb, Offer
<1> QED BY <1>1, <1>4, <1>5 DEF Min2

\* RefusalInv for the channels other than the one being served.
LEMMA OthersKeepRefusing ==
  ASSUME SlotInv, TypeOK', NEW r, Grant(r), RefusalInv,
         NEW l \in Lcid, l # bsrIt,
         txBuf'[DestRnti[l]] = txBuf[DestRnti[l]], refused'[l] = refused[l]
  PROVE  \/ AllTaken(txBuf'[DestRnti[l]], DestRnti[l], alloc')
         \/ l \notin Saturated /\ (bsr'[l] = NoBsr \/ Offer(l)' <= refused'[l])
<1>1. PICK t \in Tti : alloc' = Append(alloc, t) /\ t.rnti = Dest
  BY GrantAppends
<1>2. pc = "schedule" /\ bsrIt \in Lcid /\ alloc \in Seq(Tti) /\ bsr'[l] = bsr[l]
      /\ mcsOf' = mcsOf /\ availableSymbolsPerLc' <= availableSymbolsPerLc
  BY GrantAppends
<1>3. Dest # DestRnti[l]
  BY <1>2, DestAssumption DEF Dest
<1>4. CASE AllTaken(txBuf[DestRnti[l]], DestRnti[l], alloc)
  <2>1. ASSUME NEW i \in 1..Len(alloc'), alloc'[i].rnti = DestRnti[l]
        PROVE  i \in Taken(txBuf[DestRnti[l]])
    <3>1. i \in 1..Len(alloc) \/ i = Len(alloc) + 1
      BY <1>1, <1>2, AppendElements
    <3>2. i # Len(alloc) + 1
      BY <1>1, <1>2, <1>3, <2>1, AppendElements
    <3>3. alloc'[i] = alloc[i]
      BY <1>1, <1>2, <3>1, <3>2, AppendElements
    <3> QED BY <1>4, <2>1, <3>1, <3>2, <3>3 DEF AllTaken
  <2> QED BY <2>1 DEF AllTaken
<1>5. CASE l \notin Saturated /\ (bsr[l] = NoBsr \/ Offer(l) <= refused[l])
  <2>1. CASE bsr[l] = NoBsr
    BY <1>2, <1>5, <2>1
  <2>2. CASE bsr[l] # NoBsr
    <3>1. bsr[l] \in Bsr /\ bsr'[l] \in Bsr /\ refused[l] \in Nat
      BY <1>2, <2>2 DEF SlotInv, TypeOK
    <3>2. RequiredBytes(bsr'[l]) <= RequiredBytes(bsr[l])
      BY <1>2, <3>1 DEF RequiredBytes, Bsr
    <3>3. Offer(l)' <= Offer(l) /\ Offer(l) \in Nat /\ Offer(l)' \in Nat
      BY <1>2, <3>1, <3>2, OfferShrinks DEF SlotInv
    <3> QED BY <1>5, <2>2, <3>1, <3>3
  <2> QED BY <2>1, <2>2
<1> QED BY <1>2, <1>4, <1>5 DEF RefusalInv

\* An iteration in which the RLC hands a PDU back.
LEMMA TakenKeepsPairInv ==
  ASSUME SlotInv, SlotInv', PairInv, NEW r, Grant(r), NEW size \in Nat, TransmitPdu(size),
         size <= AssignedBytes, refused' = refused,
         AllTaken(txBuf[Dest], Dest, alloc)
  PROVE  PairInv'
<1>1. PICK t \in Tti : /\ alloc' = Append(alloc, t) /\ t.rnti = Dest
                      /\ t.tbSize = AssignedBytes /\ t.tbSize <= TbSize[t.mcs][t.numSym]
  BY GrantAppends
<1>2. /\ pc' = "schedule" /\ it = 1 /\ it' = 1 /\ phyBuffer' = <<>> /\ bsrIt \in Lcid
      /\ Dest \in Dests /\ alloc \in Seq(Tti)
  BY GrantAppends
<1> DEFINE e == [lcid |-> bsrIt, size |-> size, tti |-> Len(alloc) + 1]
<1>3. /\ e \in Pdu /\ e.tti = Len(alloc) + 1 /\ DestRnti[e.lcid] = Dest /\ e.size <= t.tbSize
  BY <1>1, <1>2 DEF Pdu, Dest
<1>4. /\ txBuf \in [Dests -> Seq(Pdu)]
      /\ txBuf' = [txBuf EXCEPT ![Dest] = Append(@, e)]
  BY DEF SlotInv, TypeOK, TransmitPdu
<1> HIDE DEF e
<1>5. /\ QueueOk(txBuf'[Dest], Dest, 1, alloc')
      /\ AllTaken(txBuf'[Dest], Dest, alloc')
  <2>1. txBuf[Dest] \in Seq(Pdu) /\ txBuf'[Dest] = Append(txBuf[Dest], e)
    BY <1>2, <1>4
  <2>2. QueueOk(txBuf[Dest], Dest, 1, alloc)
    BY <1>2 DEF PairInv, QueueInv
  <2> QED BY <1>1, <1>2, <1>3, <2>1, <2>2, QueueTakes
<1>6. QueueInv'
  <2>1. ASSUME NEW d \in Dests, d # Dest PROVE QueueOk(txBuf'[d], d, 1, alloc')
    <3>1. txBuf'[d] = txBuf[d] /\ txBuf[d] \in Seq(Pdu)
      BY <1>4, <2>1
    <3>2. QueueOk(txBuf[d], d, 1, alloc)
      BY <1>2 DEF PairInv, QueueInv
    <3> QED BY <1>1, <1>2, <3>1, <3>2, QueueIgnores
  <2> QED BY <1>2, <1>5, <2>1 DEF QueueInv
<1>7. RefusalInv'
  <2>1. ASSUME NEW l \in Lcid, l # bsrIt
        PROVE  \/ AllTaken(txBuf'[DestRnti[l]], DestRnti[l], alloc')
               \/ l \notin Saturated /\ (bsr'[l] = NoBsr \/ Offer(l)' <= refused'[l])
    <3>1. DestRnti[l] \in Dests /\ DestRnti[l] # Dest
      BY <1>2, <2>1, DestAssumption DEF Dest, Dests
    <3>2. txBuf'[DestRnti[l]] = txBuf[DestRnti[l]]
      BY <1>4, <3>1
    <3> QED BY <2>1, <3>2, OthersKeepRefusing DEF PairInv, SlotInv
  <2>2. AllTaken(txBuf'[DestRnti[bsrIt]], DestRnti[bsrIt], alloc')
    BY <1>5 DEF Dest
  <2> QED BY <2>1, <2>2 DEF RefusalInv
<1>8. TbInv'
  <2>1. ASSUME NEW i \in 1..Len(alloc')
        PROVE  alloc'[i].tbSize <= TbSize[alloc'[i].mcs][alloc'[i].numSym]
    <3>1. (i \in 1..Len(alloc) /\ alloc'[i] = alloc[i]) \/ alloc'[i] = t
      BY <1>1, <1>2, AppendElements
    <3> QED BY <1>1, <3>1 DEF PairInv, TbInv
  <2> QED BY <2>1 DEF TbInv
<1>9. PduInItsOwnTb'
  BY <1>2 DEF PduInItsOwnTb
<1> QED BY <1>6, <1>7, <1>8, <1>9 DEF PairInv

\* An iteration in which the RLC refuses the opportunity.
LEMMA RefusedKeepsPairInv ==
  ASSUME SlotInv, SlotInv', PairInv, NotifyRefused
  PROVE  PairInv'
<1>1. /\ Grant(bsr[bsrIt]) /\ bsrIt \notin Saturated /\ txBuf' = txBuf
      /\ refused' = [refused EXCEPT ![bsrIt] = IF AssignedBytes > @ THEN AssignedBytes ELSE @]
  BY DEF NotifyRefused
<1>2. PICK t \in Tti : /\ alloc' = Append(alloc, t) /\ t.rnti = Dest
                      /\ t.tbSize = AssignedBytes /\ t.tbSize <= TbSize[t.mcs][t.numSym]
  BY <1>1, GrantAppends
<1>3. /\ pc' = "schedule" /\ it = 1 /\ it' = 1 /\ phyBuffer' = <<>> /\ bsrIt \in Lcid
      /\ bsr[bsrIt] \in Bsr /\ Dest \in Dests /\ alloc \in Seq(Tti) /\ mcsOf' = mcsOf
      /\ AssignedBytes \in Nat /\ AssignedBytes = Offer(bsrIt)
      /\ availableSymbolsPerLc' <= availableSymbolsPerLc
  BY <1>1, GrantAppends
<1>4. QueueInv'
  <2>1. ASSUME NEW d \in Dests PROVE QueueOk(txBuf[d], d, 1, alloc')
    <3>1. txBuf[d] \in Seq(Pdu)
      BY DEF SlotInv, TypeOK
    <3>2. QueueOk(txBuf[d], d, 1, alloc)
      BY <1>3 DEF PairInv, QueueInv
    <3> QED BY <1>2, <1>3, <3>1, <3>2, QueueIgnores
  <2> QED BY <1>1, <1>3, <2>1 DEF QueueInv
<1>5. RefusalInv'
  <2>1. refused \in [Lcid -> Nat]
    BY DEF SlotInv, TypeOK
  <2>2. ASSUME NEW l \in Lcid, l # bsrIt
        PROVE  \/ AllTaken(txBuf'[DestRnti[l]], DestRnti[l], alloc')
               \/ l \notin Saturated /\ (bsr'[l] = NoBsr \/ Offer(l)' <= refused'[l])
    <3>1. refused'[l] = refused[l] /\ txBuf'[DestRnti[l]] = txBuf[DestRnti[l]]
      BY <1>1, <2>1, <2>2
    <3> QED BY <1>1, <2>2, <3>1, OthersKeepRefusing DEF PairInv, SlotInv
  <2>3. ASSUME NEW l \in Lcid, l = bsrIt, bsr'[l] # NoBsr
        PROVE  Offer(l)' <= refused'[l]
    <3>1. RequiredBytes(bsr[l]) \in Nat /\ bsr[l] \in Bsr
      BY <1>3, <2>3 DEF RequiredBytes, Bsr
    <3>2. bsr'[l] \in Bsr /\ RequiredBytes(bsr'[l]) = RequiredBytes(bsr[l]) - AssignedBytes
      BY <1>1, <1>3, <2>3, <3>1, GrantRest DEF SlotInv
    <3>3. RequiredBytes(bsr'[l]) <= RequiredBytes(bsr[l])
      BY <1>3, <3>1, <3>2
    <3>4. Offer(l)' <= Offer(l) /\ Offer(l) \in Nat /\ Offer(l)' \in Nat
      BY <1>3, <3>1, <3>2, <3>3, OfferShrinks DEF SlotInv
    <3>5. refused'[l] \in Nat /\ Offer(l) <= refused'[l]
      BY <1>1, <1>3, <2>1, <2>3
    <3> QED BY <3>4, <3>5
  <2> QED BY <1>1, <2>2, <2>3 DEF RefusalInv
<1>6. TbInv'
  <2>1. ASSUME NEW i \in 1..Len(alloc')
        PROVE  alloc'[i].tbSize <= TbSize[alloc'[i].mcs][alloc'[i].numSym]
    <3>1. (i \in 1..Len(alloc) /\ alloc'[i] = alloc[i]) \/ alloc'[i] = t
      BY <1>2, <1>3, AppendElements
    <3> QED BY <1>2, <3>1 DEF PairInv, TbInv
  <2> QED BY <2>1 DEF TbInv
<1>7. PduInItsOwnTb'
  BY <1>3 DEF PduInItsOwnTb
<1> QED BY <1>4, <1>5, <1>6, <1>7 DEF PairInv

\* The other loop takes the head of the queue of the destination of the block.
LEMMA AssociateKeepsPairInv ==
  ASSUME SlotInv, PairInv, Associate
  PROVE  PairInv'
<1> DEFINE d == alloc[it].rnti
<1>1. /\ pc = "associate" /\ it' = it + 1 /\ pc' = pc /\ alloc' = alloc
      /\ it \in 1..Len(alloc) /\ alloc \in Seq(Tti) /\ alloc[it] \in Tti
      /\ txBuf \in [Dests -> Seq(Pdu)] /\ phyBuffer \in Seq([pdu : Pdu, info : Tti])
  BY DEF Associate, SlotInv, TypeOK
<1>2. d \in Dests
  BY <1>1 DEF SlotInv, ShareInv
<1>3. RefusalInv' /\ TbInv'
  BY <1>1 DEF RefusalInv, PairInv, TbInv
<1>4. ASSUME NEW c \in Dests, c # d
      PROVE  QueueOk(txBuf[c], c, it + 1, alloc)
  BY <1>1, <1>4, QueueSkips DEF PairInv, QueueInv
<1>5. CASE txBuf[d] = <<>> /\ UNCHANGED <<txBuf, phyBuffer>>
  <2>1. QueueOk(txBuf[d], d, it + 1, alloc)
    BY <1>5 DEF QueueOk
  <2>2. QueueInv'
    BY <1>1, <1>4, <1>5, <2>1 DEF QueueInv
  <2>3. PduInItsOwnTb'
    BY <1>1, <1>5 DEF PairInv, PduInItsOwnTb
  <2> QED BY <1>3, <2>2, <2>3 DEF PairInv
<1>6. CASE /\ txBuf[d] # <<>>
           /\ phyBuffer' = Append(phyBuffer, [pdu |-> Head(txBuf[d]), info |-> alloc[it]])
           /\ txBuf' = [txBuf EXCEPT ![d] = Tail(@)]
  <2>1. txBuf[d] \in Seq(Pdu) /\ QueueOk(txBuf[d], d, it, alloc)
    BY <1>1, <1>2 DEF PairInv, QueueInv
  <2>2. /\ Head(txBuf[d]) \in Pdu /\ Head(txBuf[d]).tti = it
        /\ DestRnti[Head(txBuf[d]).lcid] = d /\ Head(txBuf[d]).size <= alloc[it].tbSize
        /\ QueueOk(Tail(txBuf[d]), d, it + 1, alloc)
    BY <1>1, <1>6, <2>1, QueuePops
  <2>3. QueueInv'
    <3>1. ASSUME NEW c \in Dests PROVE QueueOk(txBuf'[c], c, it + 1, alloc)
      <4>1. CASE c = d
        BY <1>1, <1>2, <1>6, <2>2, <4>1
      <4>2. CASE c # d
        BY <1>1, <1>4, <1>6, <4>2
      <4> QED BY <4>1, <4>2
    <3> QED BY <1>1, <3>1 DEF QueueInv
  <2>4. PduInItsOwnTb'
    <3> DEFINE new == [pdu |-> Head(txBuf[d]), info |-> alloc[it]]
    <3>1. new \in [pdu : Pdu, info : Tti]
      BY <1>1, <2>2
    <3>2. new.pdu.tti = it /\ new.info = alloc[it] /\ DestRnti[new.pdu.lcid] = new.info.rnti
          /\ new.pdu.size <= new.info.tbSize
          /\ new.info.tbSize <= TbSize[new.info.mcs][new.info.numSym]
      BY <1>1, <2>2 DEF PairInv, TbInv
    <3>3. phyBuffer' = Append(phyBuffer, new)
      BY <1>6
    <3> HIDE DEF new
    <3>4. ASSUME NEW i \in 1..Len(phyBuffer')
          PROVE  LET e == phyBuffer'[i] IN
                   /\ e.pdu.tti \in 1..Len(alloc) /\ alloc[e.pdu.tti] = e.info
                   /\ DestRnti[e.pdu.lcid] = e.info.rnti
                   /\ e.pdu.size <= e.info.tbSize
                   /\ e.info.tbSize <= TbSize[e.info.mcs][e.info.numSym]
      <4>1. (i \in 1..Len(phyBuffer) /\ phyBuffer'[i] = phyBuffer[i]) \/ phyBuffer'[i] = new
        BY <1>1, <3>1, <3>3, AppendElements
      <4>2. CASE phyBuffer'[i] = new
        BY <1>1, <3>2, <4>2
      <4>3. CASE i \in 1..Len(phyBuffer) /\ phyBuffer'[i] = phyBuffer[i]
        BY <4>3 DEF PairInv, PduInItsOwnTb
      <4> QED BY <4>1, <4>2, <4>3
    <3> QED BY <1>1, <3>4 DEF PduInItsOwnTb
  <2> QED BY <1>3, <2>3, <2>4 DEF PairInv
<1> QED BY <1>5, <1>6 DEF Associate

\* When the slot has no allocation there is nothing queued either.
LEMMA NoAllocNoPdu ==
  ASSUME SlotInv, QueueInv, it > Len(alloc)
  PROVE  \A d \in Dests : txBuf[d] = <<>>
<1>1. alloc \in Seq(Tti) /\ txBuf \in [Dests -> Seq(Pdu)] /\ it \in 1..Len(alloc)+1
  BY DEF SlotInv, TypeOK
<1>2. ASSUME NEW d \in Dests, txBuf[d] # <<>> PROVE FALSE
  <2>1. 1 \in 1..Len(txBuf[d])
    BY <1>1, <1>2
  <2>2. txBuf[d][1].tti \in it..Len(alloc)
    BY <2>1 DEF QueueInv, QueueOk
  <2> QED BY <1>1, <2>2
<1> QED BY <1>2

\* Every step keeps PairInv: the iterations are the lemmas above, and the steps around
\* the loops start from, or leave, empty queues.
LEMMA StepKeepsPairInv ==
  ASSUME SlotInv, PairInv, [Next]_vars
  PROVE  PairInv'
<1>1. SlotInv'
  BY StepKeepsSlotInv
<1>2. ASSUME pc' # "schedule", UNCHANGED <<txBuf, alloc, it, phyBuffer>>
      PROVE  PairInv'
  BY <1>2 DEF PairInv, QueueInv, RefusalInv, TbInv, PduInItsOwnTb
<1>3. ASSUME NEW l \in Lcid, NEW r \in Report \cup {SatReport}, ReportBufferStatus(l, r)
      PROVE  PairInv'
  BY <1>2, <1>3 DEF ReportBufferStatus
<1>4. ASSUME NEW d \in Dests, NEW m \in Mcs, SlSinrReport(d, m)
      PROVE  PairInv'
  BY <1>2, <1>4 DEF SlSinrReport
<1>5. CASE OtherSlot \/ StartIdleSlot \/ EndSchedule
  BY <1>2, <1>5 DEF OtherSlot, StartIdleSlot, EndSchedule
<1>6. CASE StartOwnSlot
  <2>1. /\ alloc = <<>> /\ UNCHANGED <<txBuf, alloc, it, phyBuffer>>
    BY <1>6 DEF StartOwnSlot, SlotInv, ShareInv
  <2>2. Len(alloc) = 0
    BY <2>1
  <2>3. RefusalInv'
    BY <2>1, <2>2 DEF RefusalInv, AllTaken
  <2> QED BY <2>1, <2>3 DEF PairInv, QueueInv, TbInv, PduInItsOwnTb
<1>7. CASE NotifySaturated
  <2>1. /\ Grant(SatReport) /\ bsrIt \in Saturated /\ TransmitPdu(AssignedBytes)
        /\ refused' = refused
    BY <1>7 DEF NotifySaturated
  <2>2. pc = "schedule" /\ bsrIt \in Lcid /\ AssignedBytes \in Nat
    BY <2>1, GrantAppends
  <2>3. AllTaken(txBuf[Dest], Dest, alloc)
    BY <2>1, <2>2 DEF PairInv, RefusalInv, Dest
  <2>4. AssignedBytes <= AssignedBytes
    BY <2>2
  <2> QED BY <1>1, <2>1, <2>2, <2>3, <2>4, TakenKeepsPairInv
<1>8. ASSUME NEW size \in PduSize, NotifyQueued(size)
      PROVE  PairInv'
  <2>1. /\ Grant(bsr[bsrIt]) /\ TransmitPdu(size) /\ refused' = refused
        /\ size <= AssignedBytes /\ AssignedBytes > refused[bsrIt] /\ size \in Nat
    BY <1>8, ReportAssumption DEF NotifyQueued
  <2>2. /\ pc = "schedule" /\ bsrIt \in Lcid /\ bsr[bsrIt] \in Bsr
        /\ AssignedBytes \in Nat /\ AssignedBytes = Offer(bsrIt)
    BY <2>1, GrantAppends
  <2>3. refused[bsrIt] \in Nat /\ bsr[bsrIt] # NoBsr
    BY <2>2, ReportAssumption DEF SlotInv, TypeOK
  <2>4. AllTaken(txBuf[Dest], Dest, alloc)
    BY <2>1, <2>2, <2>3 DEF PairInv, RefusalInv, Dest
  <2> QED BY <1>1, <2>1, <2>4, TakenKeepsPairInv
<1>9. CASE NotifyRefused
  BY <1>1, <1>9, RefusedKeepsPairInv
<1>10. CASE Associate
  BY <1>10, AssociateKeepsPairInv
<1>11. CASE EndSlot
  <2>1. /\ it > Len(alloc) /\ txBuf' = txBuf /\ pc' = "idle" /\ alloc' = <<>> /\ phyBuffer' = <<>>
    BY <1>11 DEF EndSlot
  <2>2. \A d \in Dests : txBuf'[d] = <<>>
    BY <2>1, NoAllocNoPdu DEF PairInv
  <2> QED BY <2>1, <2>2 DEF PairInv, QueueInv, QueueOk, RefusalInv, TbInv, PduInItsOwnTb
<1>12. CASE UNCHANGED vars
  BY <1>12 DEF vars, loopVars, PairInv, QueueInv, RefusalInv, Offer, GetMcs, TbInv, PduInItsOwnTb
<1> QED BY <1>3, <1>4, <1>5, <1>6, <1>7, <1>8, <1>9, <1>10, <1>11, <1>12 DEF Next, Handler

\* The induction, on top of the invariant about the slot.
LEMMA PairInvHolds == Spec => [](SlotInv /\ PairInv)
<1>1. Init => PairInv
  BY DEF Init, PairInv, QueueInv, QueueOk, RefusalInv, TbInv, PduInItsOwnTb
<1> QED BY <1>1, InitSlotInv, StepKeepsSlotInv, StepKeepsPairInv, PTL DEF Spec

\* A PDU always leaves in the transport block its RLC entity built it for, whatever
\* opportunities the RLC entities leave unused and however many channels share the slot.
THEOREM PduAlwaysInItsOwnTb == Spec => []PduInItsOwnTb
  BY PairInvHolds, PTL DEF PairInv

\* The slot handler never leaves a PDU behind in m_txBufferMap.
THEOREM NoPduLeftBehind == Spec => []NoStrandedPdu
<1>1. SlotInv /\ PairInv => NoStrandedPdu
  <2> SUFFICES ASSUME SlotInv, PairInv, pc = "idle" PROVE \A d \in Dests : txBuf[d] = <<>>
    BY DEF NoStrandedPdu
  <2>1. it > Len(alloc)
    BY DEF SlotInv, ShareInv
  <2> QED BY <2>1, NoAllocNoPdu DEF PairInv
<1> QED BY <1>1, PairInvHolds, PTL
==============================================================================
