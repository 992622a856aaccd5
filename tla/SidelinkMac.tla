----------------------------- MODULE SidelinkMac -----------------------------
(***************************************************************************)
(* The MAC entity of one vehicle (MmWaveSidelinkMac) and the part of its   *)
(* PHY (MmWaveSidelinkPhy::StartSlot) that drives it, slot after slot.     *)
(*                                                                         *)
(* In its own slots the MAC runs two loops inside one simulator event:     *)
(* ScheduleResources shares the OFDM symbols of the slot among the logical *)
(* channels that have a buffer status report and calls the RLC entity of   *)
(* each, which hands PDUs back through TransmitPdu; DoSlotIndication then  *)
(* pairs the transport blocks with the PDUs by destination, in order.      *)
(* Every loop iteration is a step here; pc says which loop is running and  *)
(* keeps every other event out until the handler has returned.             *)
(*                                                                         *)
(* The RLC entities are the environment.  A channel in Saturated is served *)
(* by LteRlcSm, any other one by LteRlcTm or LteRlcUm (see NotifyQueued).  *)
(***************************************************************************)
EXTENDS Integers, FiniteSets, Sequences

CONSTANTS
  Lcid,            (* logical channels activated on this device            *)
  Saturated,       (* the ones whose RLC entity is LteRlcSm                *)
  DestRnti,        (* RNTI of the peer at the other end of each channel    *)
  Rnti,            (* m_rnti                                               *)
  SlotsPerSubframe,
  SfAllocInfo,     (* m_sfAllocInfo: owner of each slot, 0 if unused       *)
  SymbPerSlot,     (* GetSymbPerSlot (), 14 in the code                    *)
  Mcs,             (* modulation and coding schemes                        *)
  UseAmc, FixedMcs,(* attributes UseAmc and Mcs                            *)
  TbSize,          (* MmWaveAmc::CalculateTbSize                           *)
  Report,          (* buffer status reports the queueing RLCs may send     *)
  SatReport,       (* the report of LteRlcSm                               *)
  PduSize,         (* sizes of the PDUs the queueing RLCs may build        *)
  NoBsr            (* no entry in m_bufferStatusReportMap                  *)

Bsr == [status : Nat, retx : Nat, tx : Nat]

ASSUME LcidAssumption ==
  /\ Lcid \subseteq Nat \ {0} /\ Lcid # {} /\ IsFiniteSet(Lcid)
  /\ Saturated \subseteq Lcid
  /\ Cardinality(Lcid) <= SymbPerSlot

(* PairDevices activates one bearer for each peer. *)
ASSUME DestAssumption ==
  /\ DestRnti \in [Lcid -> Nat \ {0}]
  /\ \A l1, l2 \in Lcid : DestRnti[l1] = DestRnti[l2] => l1 = l2

ASSUME SlotAssumption ==
  /\ SymbPerSlot \in Nat \ {0}
  /\ SlotsPerSubframe \in Nat \ {0}
  /\ SfAllocInfo \in [0..SlotsPerSubframe-1 -> Nat]
  /\ Rnti \in Nat \ {0}

(* CalculateTbSize grows with the number of symbols and is only 0 for none *)
(* of them, as soon as the bandwidth holds a few resource blocks.          *)
ASSUME AmcAssumption ==
  /\ 0 \in Mcs /\ Mcs \subseteq Nat /\ FixedMcs \in Mcs /\ UseAmc \in BOOLEAN
  /\ TbSize \in [Mcs -> [0..SymbPerSlot -> Nat]]
  /\ \A m \in Mcs :
       /\ TbSize[m][0] = 0
       /\ \A n \in 1..SymbPerSlot : TbSize[m][n] > 0
       /\ \A n1, n2 \in 0..SymbPerSlot : n1 <= n2 => TbSize[m][n1] <= TbSize[m][n2]

ASSUME ReportAssumption ==
  /\ Report \subseteq Bsr /\ SatReport \in Bsr /\ NoBsr \notin Bsr
  /\ PduSize \subseteq Nat \ {0}

VARIABLES
  slot,             (* timingInfo.m_slotNum of the next StartSlot          *)
  pc,               (* the loop the slot handler is in                     *)
  bsr,              (* m_bufferStatusReportMap                             *)
  txBuf,            (* m_txBufferMap, by destination                       *)
  mcsOf,            (* the MCS of the last CQI in m_slCqiReported          *)
  alloc,            (* allocationInfo.m_ttiAllocInfo                       *)
  availableSymbols, availableSymbolsPerLc, symStart, bsrIt,
  it,               (* index of the loop over alloc in DoSlotIndication    *)
  phyBuffer,        (* m_phyBuffer of the PHY                              *)
  refused,          (* RLC: largest opportunity refused in this slot       *)
  bsr0              (* history: bsr when the slot handler started          *)

loopVars == <<availableSymbols, availableSymbolsPerLc, symStart, bsrIt>>
vars == <<slot, pc, bsr, txBuf, mcsOf, alloc, loopVars, it, phyBuffer, refused, bsr0>>

Dests == {DestRnti[l] : l \in Lcid}
Active(b) == {l \in Lcid : b[l] # NoBsr}
End == 0                  \* m_bufferStatusReportMap.end ()
Min2(a, b) == IF a <= b THEN a ELSE b
MinOf(S) == CHOOSE x \in S : \A y \in S : x <= y

\* A PDU in m_txBufferMap; tti is a history field, the index in alloc of the
\* transmission opportunity it was built for.
Pdu == [lcid : Lcid, size : Nat, tti : Nat]
Tti == [rnti : Nat, numSym : Nat, symStart : Nat, tbSize : Nat, mcs : Mcs]

------------------------------------------------------------------------------
(* Helpers of ScheduleResources *)

GetMcs(rnti) == IF UseAmc THEN mcsOf[rnti] ELSE FixedMcs

\* The loop of MmWaveAmc::GetMinNumSymForTbSize: it counts up to the first
\* number of symbols that carries tbSize bytes.
GetMinNumSymTight(tbSize, mcs) ==
  IF tbSize = 0 THEN 0
  ELSE Min2(SymbPerSlot, 1 + MinOf({n \in 1..SymbPerSlot : TbSize[mcs][n] >= tbSize}))
GetMinNumSymForTbSize(tbSize, mcs) ==
  IF tbSize = 0 THEN 0
  ELSE MinOf({n \in 1..SymbPerSlot : TbSize[mcs][n] >= tbSize})

RequiredBytes(r) == r.tx + r.retx + r.status

\* UpdateBufferStatusReport subtracts the grant from the STATUS PDUs first, then
\* from the retransmissions, then from the new data, and erases the entry when
\* nothing is left of it.
UpdateBsrKeepsAll(r, assignedBytes) == r
UpdateBufferStatusReport(r, assignedBytes) ==
  LET s == Min2(r.status, assignedBytes)
      x == Min2(r.retx, assignedBytes - s)
      t == Min2(r.tx, assignedBytes - s - x)
      left == [status |-> r.status - s, retx |-> r.retx - x, tx |-> r.tx - t]
  IN  IF RequiredBytes(left) = 0 THEN NoBsr ELSE left

\* The iterator after UpdateBufferStatusReport and the wrap at the end of the map.
NextBsrNoWrap(l, active) ==
  LET after == {k \in active : k > l} IN IF after # {} THEN MinOf(after) ELSE End
NextBsr(l, active) ==
  LET after == {k \in active : k > l} IN
  IF active = {} THEN End
  ELSE IF after # {} THEN MinOf(after) ELSE MinOf(active)

\* The grant of one iteration, for the channel under bsrIt.
Dest == DestRnti[bsrIt]
AssignedBytes ==
  Min2(RequiredBytes(bsr[bsrIt]), TbSize[GetMcs(Dest)][availableSymbolsPerLc])
AssignedSymbols == GetMinNumSymForTbSize(AssignedBytes, GetMcs(Dest))

------------------------------------------------------------------------------
Init ==
  /\ slot = 0 /\ pc = "idle"
  /\ bsr = [l \in Lcid |-> NoBsr]
  /\ txBuf = [d \in Dests |-> <<>>]
  /\ mcsOf = [d \in Dests |-> 0]
  /\ alloc = <<>>
  /\ availableSymbols = 0 /\ availableSymbolsPerLc = 0 /\ symStart = 0 /\ bsrIt = End
  /\ it = 1 /\ phyBuffer = <<>>
  /\ refused = [l \in Lcid |-> 0]
  /\ bsr0 = [l \in Lcid |-> NoBsr]

(* Events between two slots *)

\* DoReportBufferStatus: insert or overwrite the entry of the channel.  LteRlcSm
\* reports from its DoInitialize, the other RLCs when an SDU comes or a timer ends.
ReportBufferStatus(l, r) ==
  /\ pc = "idle"
  /\ IF l \in Saturated THEN r = SatReport ELSE r \in Report
  /\ bsr' = [bsr EXCEPT ![l] = r]
  /\ UNCHANGED <<slot, pc, txBuf, mcsOf, alloc, loopVars, it, phyBuffer, refused, bsr0>>

\* DoSlSinrReport: the CQI of a received transport block joins the history of its
\* sender, of which only the last element is ever used.
SlSinrReport(d, m) ==
  /\ pc = "idle"
  /\ mcsOf' = [mcsOf EXCEPT ![d] = m]
  /\ UNCHANGED <<slot, pc, bsr, txBuf, alloc, loopVars, it, phyBuffer, refused, bsr0>>

(* The slot handler *)

NextSlot == slot' = (slot + 1) % SlotsPerSubframe

\* DoSlotIndication in a slot of another device, or of nobody.
OtherSlot ==
  /\ pc = "idle" /\ SfAllocInfo[slot] # Rnti
  /\ NextSlot
  /\ UNCHANGED <<pc, bsr, txBuf, mcsOf, alloc, loopVars, it, phyBuffer, refused, bsr0>>

\* Its own slot: ScheduleResources up to its loop.
WholeSlotShare(active) == SymbPerSlot
PerLcShare(active) == SymbPerSlot \div Cardinality(active)

StartOwnSlot ==
  /\ pc = "idle" /\ SfAllocInfo[slot] = Rnti
  /\ Active(bsr) # {}
  /\ pc' = "schedule"
  /\ availableSymbols' = SymbPerSlot
  /\ availableSymbolsPerLc' = PerLcShare(Active(bsr))
  /\ bsrIt' = MinOf(Active(bsr))
  /\ symStart' = 0
  /\ bsr0' = bsr
  /\ UNCHANGED <<slot, bsr, txBuf, mcsOf, alloc, it, phyBuffer, refused>>

\* Its own slot, no active channel: ScheduleResources returns an empty allocation.
StartIdleSlot ==
  /\ pc = "idle" /\ SfAllocInfo[slot] = Rnti
  /\ Active(bsr) = {}
  /\ pc' = "associate"
  /\ bsr0' = bsr
  /\ UNCHANGED <<slot, bsr, txBuf, mcsOf, alloc, loopVars, it, phyBuffer, refused>>

\* One iteration of the loop of ScheduleResources; r is the report of the channel
\* after NotifyTxOpportunity has returned.
GrantUncapped(r) ==
  /\ pc = "schedule" /\ availableSymbols > 0 /\ Active(bsr) # {}
  /\ alloc' = Append(alloc, [rnti |-> Dest, numSym |-> AssignedSymbols, symStart |-> symStart,
                             tbSize |-> AssignedBytes, mcs |-> GetMcs(Dest)])
  /\ bsr' = [bsr EXCEPT ![bsrIt] = UpdateBufferStatusReport(r, AssignedBytes)]
  /\ availableSymbols' = availableSymbols - AssignedSymbols
  /\ availableSymbolsPerLc' = availableSymbolsPerLc
  /\ symStart' = symStart + AssignedSymbols
  /\ bsrIt' = NextBsr(bsrIt, Active(bsr'))
  /\ UNCHANGED <<slot, pc, mcsOf, it, phyBuffer, bsr0>>
Grant(r) ==
  /\ pc = "schedule" /\ availableSymbols > 0 /\ Active(bsr) # {}
  /\ alloc' = Append(alloc, [rnti |-> Dest, numSym |-> AssignedSymbols, symStart |-> symStart,
                             tbSize |-> AssignedBytes, mcs |-> GetMcs(Dest)])
  /\ bsr' = [bsr EXCEPT ![bsrIt] = UpdateBufferStatusReport(r, AssignedBytes)]
  /\ availableSymbols' = availableSymbols - AssignedSymbols
  /\ availableSymbolsPerLc' = Min2(availableSymbolsPerLc, availableSymbols')
  /\ symStart' = symStart + AssignedSymbols
  /\ bsrIt' = NextBsr(bsrIt, Active(bsr'))
  /\ UNCHANGED <<slot, pc, mcsOf, it, phyBuffer, bsr0>>

\* DoTransmitPdu, called by the RLC from inside NotifyTxOpportunity.
TransmitPdu(size) ==
  txBuf' = [txBuf EXCEPT ![Dest] =
              Append(@, [lcid |-> bsrIt, size |-> size, tti |-> Len(alloc) + 1])]

\* LteRlcSm::DoNotifyTxOpportunity: a PDU of exactly the granted size, and a new
\* report, which the caller then decrements.
NotifySaturated ==
  /\ Grant(SatReport)
  /\ bsrIt \in Saturated
  /\ TransmitPdu(AssignedBytes)
  /\ UNCHANGED refused

\* LteRlcTm and LteRlcUm: at most one PDU, no larger than the opportunity.  They
\* refuse an opportunity when their queue is empty, when the head of the queue
\* (TM) or a header (UM) does not fit it; the queue cannot change before the
\* handler returns, so what was too small once stays too small in this slot.
NotifyQueued(size) ==
  /\ Grant(bsr[bsrIt])
  /\ bsrIt \notin Saturated
  /\ size <= AssignedBytes /\ AssignedBytes > refused[bsrIt]
  /\ TransmitPdu(size)
  /\ UNCHANGED refused

NotifyRefused ==
  /\ Grant(bsr[bsrIt])
  /\ bsrIt \notin Saturated
  /\ refused' = [refused EXCEPT ![bsrIt] = IF AssignedBytes > @ THEN AssignedBytes ELSE @]
  /\ UNCHANGED txBuf

\* The loop of ScheduleResources ends.
EndSchedule ==
  /\ pc = "schedule"
  /\ availableSymbols = 0 \/ Active(bsr) = {}
  /\ pc' = "associate"
  /\ UNCHANGED <<slot, bsr, txBuf, mcsOf, alloc, loopVars, it, phyBuffer, refused, bsr0>>

\* One iteration of the loop of DoSlotIndication over the allocation.
AssociateKeepsPdu ==
  /\ pc = "associate" /\ it <= Len(alloc)
  /\ LET d == alloc[it].rnti IN
       phyBuffer' = IF txBuf[d] = <<>> THEN phyBuffer
                    ELSE Append(phyBuffer, [pdu |-> Head(txBuf[d]), info |-> alloc[it]])
  /\ it' = it + 1
  /\ UNCHANGED <<slot, pc, bsr, txBuf, mcsOf, alloc, loopVars, refused, bsr0>>
AssociateWaitsForPdu ==
  /\ pc = "associate" /\ it <= Len(alloc)
  /\ LET d == alloc[it].rnti IN
       \/ txBuf[d] = <<>> /\ UNCHANGED <<txBuf, phyBuffer, it>>
       \/ /\ txBuf[d] # <<>>
          /\ phyBuffer' = Append(phyBuffer, [pdu |-> Head(txBuf[d]), info |-> alloc[it]])
          /\ txBuf' = [txBuf EXCEPT ![d] = Tail(@)]
          /\ it' = it + 1
  /\ UNCHANGED <<slot, pc, bsr, mcsOf, alloc, loopVars, refused, bsr0>>
Associate ==
  /\ pc = "associate" /\ it <= Len(alloc)
  /\ LET d == alloc[it].rnti IN
       \/ txBuf[d] = <<>> /\ UNCHANGED <<txBuf, phyBuffer>>
       \/ /\ txBuf[d] # <<>>
          /\ phyBuffer' = Append(phyBuffer, [pdu |-> Head(txBuf[d]), info |-> alloc[it]])
          /\ txBuf' = [txBuf EXCEPT ![d] = Tail(@)]
  /\ it' = it + 1
  /\ UNCHANGED <<slot, pc, bsr, mcsOf, alloc, loopVars, refused, bsr0>>

\* Back in StartSlot: SlData for every entry of the PHY buffer, then the next slot.
EndSlot ==
  /\ pc = "associate" /\ it > Len(alloc)
  /\ pc' = "idle"
  /\ phyBuffer' = <<>> /\ alloc' = <<>> /\ it' = 1
  /\ refused' = [l \in Lcid |-> 0]
  /\ availableSymbols' = 0 /\ availableSymbolsPerLc' = 0 /\ symStart' = 0 /\ bsrIt' = End
  /\ bsr0' = [l \in Lcid |-> NoBsr]
  /\ NextSlot
  /\ UNCHANGED <<bsr, txBuf, mcsOf>>

Handler ==
  \/ OtherSlot \/ StartOwnSlot \/ StartIdleSlot
  \/ NotifySaturated
  \/ \E size \in PduSize : NotifyQueued(size)
  \/ NotifyRefused
  \/ EndSchedule \/ Associate \/ EndSlot

Next ==
  \/ \E l \in Lcid : \E r \in Report \cup {SatReport} : ReportBufferStatus(l, r)
  \/ \E d \in Dests, m \in Mcs : SlSinrReport(d, m)
  \/ Handler

\* StartSlot reschedules itself for ever and the simulator runs each event to its end.
Spec == Init /\ [][Next]_vars /\ WF_vars(Handler)
------------------------------------------------------------------------------
(* Properties *)

\* Types.  In particular the number of free symbols, an unsigned integer in
\* ScheduleResources, never passes below zero.
TypeOK ==
  /\ slot \in 0..SlotsPerSubframe-1
  /\ pc \in {"idle", "schedule", "associate"}
  /\ bsr \in [Lcid -> Bsr \cup {NoBsr}] /\ bsr0 \in [Lcid -> Bsr \cup {NoBsr}]
  /\ txBuf \in [Dests -> Seq(Pdu)]
  /\ mcsOf \in [Dests -> Mcs]
  /\ alloc \in Seq(Tti)
  /\ availableSymbols \in 0..SymbPerSlot /\ availableSymbolsPerLc \in 0..SymbPerSlot
  /\ symStart \in Nat /\ bsrIt \in Lcid \cup {End}
  /\ it \in 1..Len(alloc)+1
  /\ phyBuffer \in Seq([pdu : Pdu, info : Tti])
  /\ refused \in [Lcid -> Nat]

\* The loop of ScheduleResources never dereferences the end iterator nor one of an
\* erased entry: UpdateBufferStatusReport may erase the entry under the iterator.
IteratorValid ==
  pc = "schedule" /\ Active(bsr) # {} => bsrIt \in Active(bsr)

\* The transport blocks of a slot lie side by side from symbol 0 on, and those
\* placed and the symbols still free make up the slot: no two overlap and none
\* passes the end, which the assertion in StartSlot tests for each block alone.
SlotBudget ==
  pc # "idle" =>
    /\ \A i \in 1..Len(alloc) :
         alloc[i].symStart = IF i = 1 THEN 0 ELSE alloc[i-1].symStart + alloc[i-1].numSym
    /\ alloc # <<>> =>
         symStart = alloc[Len(alloc)].symStart + alloc[Len(alloc)].numSym
    /\ pc = "schedule" \/ alloc # <<>> =>
         symStart <= SymbPerSlot /\ symStart + availableSymbols = SymbPerSlot

\* A PDU leaves in the transport block of the very opportunity its RLC built it
\* for, and fits it, although DoSlotIndication pairs the two by destination only
\* and an RLC may leave opportunities unused.
PduInItsOwnTb ==
  \A i \in 1..Len(phyBuffer) :
    LET e == phyBuffer[i] IN
      /\ e.pdu.tti \in 1..Len(alloc) /\ alloc[e.pdu.tti] = e.info
      /\ DestRnti[e.pdu.lcid] = e.info.rnti
      /\ e.pdu.size <= e.info.tbSize
      /\ e.info.tbSize <= TbSize[e.info.mcs][e.info.numSym]

\* No PDU stays in m_txBufferMap when the handler returns: the next slot would
\* send it in a block of a later opportunity.
NoStrandedPdu ==
  pc = "idle" => \A d \in Dests : txBuf[d] = <<>>

\* Every channel that has a report when the slot starts gets an opportunity in the
\* slot, although the loop always starts from the lowest LCID.
EveryActiveServed ==
  pc = "associate" =>
    \A l \in Active(bsr0) : \E i \in 1..Len(alloc) : alloc[i].rnti = DestRnti[l]

\* The bytes that the blocks of an allocation grant to a channel.
GrantsTo(l, blocks) ==
  [i \in 1..Len(blocks) |-> IF blocks[i].rnti = DestRnti[l] THEN blocks[i].tbSize ELSE 0]
Granted(l, blocks) ==
  LET sum[i \in 0..Len(blocks)] == IF i = 0 THEN 0 ELSE sum[i-1] + GrantsTo(l, blocks)[i]
  IN  sum[Len(blocks)]

Reported(r) == IF r = NoBsr THEN 0 ELSE RequiredBytes(r)

\* The grants of a slot never exceed what the RLC had reported when the slot began,
\* and what the MAC still holds is the exact rest: it neither forgets nor invents
\* bytes of a queueing RLC.
GrantsWithinReport ==
  pc # "idle" =>
    \A l \in Active(bsr0) \ Saturated :
      Granted(l, alloc) + Reported(bsr[l]) = RequiredBytes(bsr0[l])

\* The slot handler returns: the loop of ScheduleResources ends, also with an
\* empty report in the map.
HandlerReturns == pc # "idle" ~> pc = "idle"

\* A reported channel is granted an opportunity, or a new report overwrites the
\* old one with an empty one; a saturated channel starves nobody.
ReportLeadsToGrant ==
  \A l \in Lcid :
    bsr[l] # NoBsr ~> \E i \in 1..Len(alloc) : alloc[i].rnti = DestRnti[l]
==============================================================================
