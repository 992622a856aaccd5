--------------------------- MODULE SidelinkRlcLink ---------------------------
(***************************************************************************)
(* Two LteRlcUm entities and the sidelink between them: the queue of        *)
(* SidelinkQueue cuts and concatenates SDUs into the opportunities of its   *)
(* MAC, and the receiver of SidelinkUm puts them together again from what   *)
(* the link has not lost.  Framing bits come from the status tags of the    *)
(* first and the last segment, nothing else tells the receiver where an SDU *)
(* begins.                                                                  *)
(***************************************************************************)
EXTENDS Integers, Sequences

LOCAL INSTANCE SequencesExt
LOCAL INSTANCE Functions

CONSTANTS
  NumSdu, SduSize, MaxTxBufferSize, FirstShares, MaxLi,   (* see SidelinkQueue *)
  Modulus, Window, Starts, Overtake, MaxBurst, MaxLost     (* see SidelinkUm    *)

\* A full share is more than the header of a PDU: one symbol at MCS 0 carries tens of bytes
\* in the default configuration.
ASSUME LinkShareAssumption == \A s \in FirstShares : s \in Nat /\ s > 2

VARIABLES
  kind, txBuffer, txBufferSize, rbsTimer, entry, share, refused, pdu,
  perTimer, seqNo, inFlight, losses, damaged, vrUr, vrUx, vrUh, rxBuffer, timer, reasm,
  handed,      (* SDUs that came from PDCP: 1..handed                       *)
  discarded    (* those the full queue refused                              *)

\* A byte of an SDU is a part of it.
Tx == INSTANCE SidelinkQueue WITH Sdu <- 1..NumSdu
Rx == INSTANCE SidelinkUm WITH Parts <- SduSize, MaxTake <- 1, sent <- 0

sender == <<kind, txBuffer, txBufferSize, rbsTimer, entry, share, refused, pdu>>
receiver == <<vrUr, vrUx, vrUh, rxBuffer, timer, reasm>>
link == <<perTimer, seqNo, inFlight, losses, damaged>>
pdcp == <<handed, discarded>>
vars == <<sender, link, receiver, pdcp>>

Init ==
  /\ Tx!Init /\ kind = "UM"
  /\ Rx!Init
  /\ handed = 0 /\ discarded = {}

\* PDCP hands over the next SDU.
Hand ==
  /\ handed < NumSdu
  /\ handed' = handed + 1
  /\ Tx!TransmitPdcpPdu(handed')
  /\ discarded' = IF Tx!Fits(handed') THEN discarded ELSE discarded \union {handed'}
  /\ UNCHANGED <<link, receiver>>

Wait ==
  /\ Tx!ExpireRbsTimer \/ Tx!EndSlot
  /\ UNCHANGED <<link, receiver, pdcp>>

\* The bytes of the PDU just built: those at the head of the queue it was taken from.
SduBytes(segment) ==
  [k \in 1..segment.size |-> <<segment.sdu, SduSize[segment.sdu] - segment.size + k>>]
DataField(segments, queue) ==
  [i \in DOMAIN segments |-> SubSeq(SduBytes(queue[i]), 1, segments[i].size)]

\* DoNotifyTxOpportunity from "Build RLC header": sequence number and framing info.
LastFromFirst(segments) == segments[1].status \in {"FULL", "LAST"}
LastByte(segments) == segments[Len(segments)].status \in {"FULL", "LAST"}

Pdu(segments, queue) ==
  [num |-> seqNo, sn |-> Rx!Sn(seqNo), sdus |-> DataField(segments, queue),
   first |-> segments[1].status \in {"FULL", "FIRST"}, last |-> LastByte(segments)]

\* An opportunity: a PDU goes to the link, unless it is refused.
Transmit ==
  /\ \A i \in DOMAIN inFlight : seqNo - inFlight[i].num <= Overtake
  /\ timer => Rx!Off(Rx!Sn(seqNo), vrUx) < perTimer
  /\ \E s \in Tx!Shares : Tx!Offer(s)
  /\ IF pdu' = <<>> THEN UNCHANGED <<inFlight, seqNo>>
     ELSE /\ inFlight' = Append(inFlight, Pdu(pdu', txBuffer))
          /\ seqNo' = seqNo + 1
  /\ UNCHANGED <<perTimer, losses, damaged, receiver, pdcp>>

Receive ==
  /\ Rx!Transport \/ Rx!ExpireReorderingTimer
  /\ UNCHANGED <<sender, pdcp>>

Next == Hand \/ Wait \/ Transmit \/ Receive

\* Slots come and timers expire, at both ends; see SidelinkQueue and SidelinkUm.
Spec ==
  /\ Init /\ [][Next]_vars
  /\ WF_vars(Transmit \/ Wait)
  /\ WF_inFlight(Rx!Lands) /\ WF_vrUr(Rx!Expires)
------------------------------------------------------------------------------
(* Properties *)

\* Types, of both entities.
TypeOK == Tx!TypeOK /\ Rx!TypeOK /\ handed \in 0..NumSdu /\ discarded \subseteq 1..handed

InOrder == INSTANCE InOrderDelivery WITH delivered <- Rx!Delivered

\* PDCP at one end receives whole SDUs of the other, each at most once and in order,
\* however they were cut, concatenated, lost and overtaken.
EndToEnd == InOrder!Spec

\* The framing bits of a PDU received after its predecessor agree with what the receiver
\* has open: it never comes to the internal errors of ReassembleAndDeliver.
FramingAgrees == Rx!NoFramingError

\* An SDU that the queue accepts, and of which the link loses nothing, reaches PDCP at
\* the other end.
AcceptedArrive ==
  \A d \in 1..NumSdu :
    handed >= d ~> d \in discarded \union damaged \union Range(Rx!Delivered)
==============================================================================
