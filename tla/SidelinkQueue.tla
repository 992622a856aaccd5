---------------------------- MODULE SidelinkQueue ----------------------------
(***************************************************************************)
(* The transmitting side of the RLC entity of one logical channel, LteRlcTm *)
(* (the default of MmWaveVehicularNetDevice) or LteRlcUm, together with the *)
(* only thing its MAC knows of it: the entry of the channel in              *)
(* m_bufferStatusReportMap.                                                 *)
(*                                                                         *)
(* Three things happen to an entity: an SDU comes from PDCP, the MAC offers *)
(* it opportunities inside a slot of its own, and its report timer expires. *)
(* The first and the last are events between slots.  SidelinkMac takes this *)
(* entity for its environment; what it assumes of it is RefusalIsFinal.     *)
(***************************************************************************)
EXTENDS Integers, Sequences

CONSTANTS
  Sdu,              (* SDUs that may wait in the queue, each of them once    *)
  SduSize,          (* their sizes in bytes                                  *)
  MaxTxBufferSize,  (* attribute of the entity                               *)
  FirstShares,      (* what a channel can be offered first in a slot, bytes  *)
  MaxLi             (* largest length an indicator of LteRlcHeader holds,
                       2047 in the code                                      *)

ASSUME SduAssumption ==
  /\ SduSize \in [Sdu -> Nat \ {0}]
  /\ MaxTxBufferSize \in Nat /\ MaxLi \in Nat \ {0}

\* The share of a channel follows from its MCS.  It may be too small for an SDU.
ASSUME ShareAssumption == FirstShares \subseteq Nat \ {0} /\ FirstShares # {}

VARIABLES
  kind,             (* "TM" or "UM": the type of the entity, never changes   *)
  txBuffer,         (* m_txBuffer: whole SDUs, at its head perhaps the rest
                       of one                                                *)
  txBufferSize,     (* m_txBufferSize                                        *)
  rbsTimer,         (* m_rbsTimer is running                                 *)
  entry,            (* MAC: txQueueSize of the entry, 0 if there is none     *)
  share,            (* MAC: share last offered in this slot, 0 between slots *)
  refused,          (* the entity refused an opportunity in this slot        *)
  pdu               (* data field of the PDU built in the last opportunity   *)

vars == <<kind, txBuffer, txBufferSize, rbsTimer, entry, share, refused, pdu>>

Segment == [sdu : Sdu, size : Nat, status : {"FULL", "FIRST", "MIDDLE", "LAST"}]
Min2(a, b) == IF a <= b THEN a ELSE b
MinOf(S) == CHOOSE x \in S : \A y \in S : x <= y
Queued == {txBuffer[i].sdu : i \in DOMAIN txBuffer}
Bytes(segments) ==
  LET sum[i \in 0..Len(segments)] == IF i = 0 THEN 0 ELSE sum[i-1] + segments[i].size
  IN  sum[Len(segments)]

------------------------------------------------------------------------------
(* Reports *)

QueueSizeWithoutHeaders(buffer, size) == size

\* DoReportBufferStatus: LteRlcUm adds an estimate of its headers.
QueueSize(buffer, size) ==
  IF buffer = <<>> THEN 0
  ELSE IF kind = "TM" THEN size ELSE size + 2 * Len(buffer)

Init ==
  /\ kind \in {"TM", "UM"}
  /\ txBuffer = <<>> /\ txBufferSize = 0 /\ rbsTimer = FALSE
  /\ entry = 0 /\ share = 0 /\ refused = FALSE /\ pdu = <<>>

Fits(p) == txBufferSize + SduSize[p] <= MaxTxBufferSize

\* DoTransmitPdcpPdu: queue the SDU if it fits, report in any case, then cancel
\* the report timer.
TransmitPdcpPdu(p) ==
  /\ share = 0 /\ p \notin Queued
  /\ IF Fits(p)
     THEN /\ txBuffer' = Append(txBuffer, [sdu |-> p, size |-> SduSize[p], status |-> "FULL"])
          /\ txBufferSize' = txBufferSize + SduSize[p]
     ELSE UNCHANGED <<txBuffer, txBufferSize>>
  /\ entry' = QueueSize(txBuffer', txBufferSize')
  /\ rbsTimer' = FALSE
  /\ UNCHANGED <<kind, share, refused, pdu>>

\* ExpireRbsTimer: report and start again, unless the queue is empty.
ExpireRbsTimer ==
  /\ share = 0 /\ rbsTimer
  /\ rbsTimer' = (txBuffer # <<>>)
  /\ entry' = IF txBuffer # <<>> THEN QueueSize(txBuffer, txBufferSize) ELSE entry
  /\ UNCHANGED <<kind, txBuffer, txBufferSize, share, refused, pdu>>

------------------------------------------------------------------------------
(* The data field of an LteRlcUm PDU *)

\* Bytes the j-th length indicator adds to the header.
OneByteLi(j) == 1
LiBytes(j) == IF j % 2 = 1 THEN 2 ELSE 1

\* nextSegmentSize when the loop of DoNotifyTxOpportunity comes to the j-th segment
\* of the queue, having mapped all those before it.
SpaceFor(bytes) ==
  LET space[j \in 1..Len(txBuffer)] ==
        IF j = 1 THEN bytes - 2
        ELSE space[j-1] - txBuffer[j-1].size - LiBytes(j-1)
  IN  space

IsCut(j, space) == txBuffer[j].size > space[j] \/ txBuffer[j].size > MaxLi

\* The loop maps no segment after the j-th.
IsLastOneByteLate(j, space) ==
  IsCut(j, space) \/ space[j] - txBuffer[j].size <= 1 \/ j = Len(txBuffer)
IsLast(j, space) ==
  IsCut(j, space) \/ space[j] - txBuffer[j].size <= 2 \/ j = Len(txBuffer)

\* What is taken of the last segment, with its new status, and what is given back.
TakenIsFirst(status, left) == IF left = 0 THEN status ELSE "FIRST"
StatusOfTaken(status, left) ==
  IF left = 0 THEN status ELSE IF status = "FULL" THEN "FIRST" ELSE "MIDDLE"

\* The segments of the PDU, the queue without them, the number of segments taken from
\* the queue and the bytes given back to it.  A segment is taken from
\* the queue before the loop tests that there is space for it.
UmMapped(bytes) ==
  LET space == SpaceFor(bytes)
      n     == MinOf({j \in 1..Len(txBuffer) : IsLast(j, space)})
      seg   == txBuffer[n]
      taken == IF IsCut(n, space) THEN Min2(seg.size, space[n]) ELSE seg.size
      left  == seg.size - taken
      whole == SubSeq(txBuffer, 1, n - 1)
      after == SubSeq(txBuffer, n + 1, Len(txBuffer))
  IN  IF space[n] <= 0 THEN [data |-> whole, rest |-> after, n |-> n, left |-> 0]
      ELSE [data |-> Append(whole, [sdu |-> seg.sdu, size |-> taken,
                                    status |-> StatusOfTaken(seg.status, left)]),
            rest |-> IF left = 0 THEN after
                     ELSE <<[sdu |-> seg.sdu, size |-> left, status |-> "LAST"]>> \o after,
            n |-> n, left |-> left]

------------------------------------------------------------------------------
(* A slot of the MAC *)

\* DoNotifyTxOpportunity up to its early returns.
Refuses(bytes) ==
  \/ txBuffer = <<>>
  \/ kind = "TM" /\ bytes < txBuffer[1].size
  \/ kind = "UM" /\ bytes <= 2

Mapped(bytes) ==
  IF kind = "TM" THEN [data |-> <<Head(txBuffer)>>, rest |-> Tail(txBuffer), n |-> 1, left |-> 0]
  ELSE UmMapped(bytes)

SizeWithoutRest(n, left) == txBufferSize - Bytes(SubSeq(txBuffer, 1, n))
SizeAfter(n, left) == txBufferSize - Bytes(SubSeq(txBuffer, 1, n)) + left

\* The timer after a PDU: running while there is something left to send.
RearmNothing(rest) == rbsTimer
Rearm(rest) == rest # <<>> \/ rbsTimer

NotifyTxOpportunity(bytes) ==
  \/ /\ Refuses(bytes)
     /\ pdu' = <<>> /\ refused' = TRUE
     /\ UNCHANGED <<txBuffer, txBufferSize, rbsTimer>>
  \/ /\ ~Refuses(bytes)
     /\ LET mapped == Mapped(bytes) IN
          /\ pdu' = mapped.data
          /\ txBuffer' = mapped.rest
          /\ txBufferSize' = SizeAfter(mapped.n, mapped.left)
          /\ rbsTimer' = Rearm(mapped.rest)
     /\ UNCHANGED refused

\* The first share of a channel in a slot is a full one, the later ones never grow.
SharesAnyTime == IF share = 0 THEN FirstShares ELSE UNION {1..s : s \in FirstShares}
Shares == IF share = 0 THEN FirstShares ELSE 1..share

\* One iteration of ScheduleResources for this channel.
Offer(s) ==
  /\ entry > 0 /\ s \in Shares
  /\ share' = s
  /\ NotifyTxOpportunity(Min2(entry, s))
  /\ entry' = entry - Min2(entry, s)
  /\ UNCHANGED kind

EndSlot ==
  /\ share > 0
  /\ share' = 0 /\ refused' = FALSE /\ pdu' = <<>>
  /\ UNCHANGED <<kind, txBuffer, txBufferSize, rbsTimer, entry>>

Slot == (\E s \in Shares : Offer(s)) \/ EndSlot

Next == (\E p \in Sdu : TransmitPdcpPdu(p)) \/ ExpireRbsTimer \/ Slot

\* Slots come for ever, and so does a timer that is running.
Spec == Init /\ [][Next]_vars /\ WF_vars(Slot) /\ WF_vars(ExpireRbsTimer)
------------------------------------------------------------------------------
(* Properties *)

\* Types; m_txBufferSize, kept by additions and subtractions of unsigned numbers, is
\* the number of bytes in the queue.
TypeOK ==
  /\ kind \in {"TM", "UM"}
  /\ txBuffer \in Seq(Segment)
  /\ txBufferSize = Bytes(txBuffer)
  /\ rbsTimer \in BOOLEAN /\ refused \in BOOLEAN
  /\ entry \in Nat /\ share \in Nat
  /\ pdu \in Seq(Segment)

\* The entity is bound to send again: its report timer runs, or the entry that the MAC
\* holds suffices for the head of the queue.
Awake == txBuffer = <<>> \/ rbsTimer \/ ~Refuses(entry)

\* Every full share can take the head of the queue.
HeadFits == \A s \in FirstShares : ~Refuses(s)

\* A waiting SDU is never forgotten, although every new SDU cancels the timer and every
\* refused opportunity uses up the report: an entity that neither timer nor report will
\* wake has at its head an SDU too large for some full share.
NoLostWakeup == HeadFits => Awake

\* How a wakeup gets lost, whatever the shares: only an opportunity whose share is itself
\* too small for the head, of which DoNotifyTxOpportunity returns early while the MAC
\* charges it to the report, leaves an entity without both, and the next SDU from
\* PDCP, discarded or not, wakes it.
OnlySmallSharesSilence ==
  [][ /\ Awake /\ ~Awake' => share' > 0 /\ Refuses(share')
      /\ (\E p \in Sdu : TransmitPdcpPdu(p)) => Awake' ]_vars

\* Header of a PDU of n segments: two bytes, and twelve bits for each indicator.
HeaderBytes(n) == 2 + (3 * (n - 1) + 1) \div 2

\* An LteRlcUm PDU with its header fits the opportunity, and every length indicator
\* its field, whatever the sizes of the SDUs it concatenates.
PduFitsOpportunity ==
  [][ \A s \in Shares :
        Offer(s) /\ pdu' # <<>> /\ kind = "UM" =>
          /\ HeaderBytes(Len(pdu')) + Bytes(pdu') <= Min2(entry, s)
          /\ \A j \in 1..Len(pdu') - 1 : pdu'[j].size <= MaxLi ]_vars

\* The bytes of a queue, one by one.
BytesOf(segment) == [k \in 1..segment.size |-> segment.sdu]
Flatten(segments) ==
  LET flat[i \in 0..Len(segments)] ==
        IF i = 0 THEN <<>> ELSE flat[i-1] \o BytesOf(segments[i])
  IN  flat[Len(segments)]

\* Segmentation neither loses, repeats nor swaps a byte: the PDU followed by the
\* queue that is left is the queue there was.
BytesConserved ==
  [][ pdu' # <<>> => Flatten(pdu') \o Flatten(txBuffer') = Flatten(txBuffer) ]_vars

\* The status tags tell the receiver the truth: the PDU starts with the first byte of
\* an SDU exactly when nothing of it has been sent, and ends with the last one
\* exactly when nothing of it is left.
StatusTruthful ==
  kind = "UM" =>
    /\ \A i \in DOMAIN txBuffer :
         txBuffer[i].status = IF txBuffer[i].size = SduSize[txBuffer[i].sdu] THEN "FULL" ELSE "LAST"
    /\ pdu # <<>> =>
         LET first == pdu[1]
             last  == pdu[Len(pdu)]
             left  == IF first.sdu \in Queued THEN txBuffer[1].size ELSE 0
         IN
           /\ first.status \in {"FULL", "FIRST"} <=> first.size + left = SduSize[first.sdu]
           /\ last.status \in {"FULL", "LAST"} <=> last.sdu \notin Queued
           /\ Len(pdu) > 1 => last.status \in {"FULL", "FIRST"}

\* What SidelinkMac assumes of its RLC entities: one that has refused an opportunity
\* builds no PDU in the rest of the slot.
RefusalIsFinal == [][ refused /\ share' > 0 => pdu' = <<>> ]_vars

\* Every SDU that was queued leaves the queue, by report, timer and opportunities, unless
\* one too large for some full share comes to the head.
EverySduLeaves == \A p \in Sdu : p \in Queued ~> (p \notin Queued \/ ~HeadFits)
==============================================================================
