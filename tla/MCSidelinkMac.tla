---------------------------- MODULE MCSidelinkMac ----------------------------
(***************************************************************************)
(* Small instances of SidelinkMac for TLC.  The values keep the ratios of  *)
(* the code: a saturated report exceeds a slot, a large report exceeds the *)
(* share of a channel, a small one does not, and the block sizes are not   *)
(* proportional to the symbols because of the CRC.                         *)
(***************************************************************************)
EXTENDS SidelinkMac

CONSTANT ReportSizes     \* the values of txQueueSize that are reported

MCDestRnti == [l \in Lcid |-> l + 1]
MCSfAllocInfo == [s \in 0..SlotsPerSubframe-1 |-> IF s = 0 THEN 1 ELSE 0]
MCTbSize == [m \in Mcs |-> [n \in 0..SymbPerSlot |->
               IF n = 0 THEN 0 ELSE ((m + 3) * n) \div 2]]
\* Neither LteRlcTm, LteRlcUm nor LteRlcSm reports retransmissions or STATUS PDUs.
TxReport(n) == [status |-> 0, retx |-> 0, tx |-> n]
MCReport == {TxReport(n) : n \in ReportSizes}
MCSatReport == TxReport(12)
==============================================================================
