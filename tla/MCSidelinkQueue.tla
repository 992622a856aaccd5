--------------------------- MODULE MCSidelinkQueue ---------------------------
(***************************************************************************)
(* An instance of SidelinkQueue: SDUs of one and two bytes, which an       *)
(* LteRlcUm PDU can concatenate with the next one, and one of four bytes,  *)
(* more than a length indicator can tell; seven bytes of queue, so that    *)
(* SDUs are discarded; shares of 3 bytes, of which an LteRlcUm PDU leaves  *)
(* one for data and which an LteRlcTm cannot use for the largest SDU, of 4 *)
(* bytes, and of 9.                                                        *)
(***************************************************************************)
EXTENDS SidelinkQueue

MCSdu == 1..4
MCSduSize == [p \in MCSdu |-> IF p = 4 THEN 4 ELSE IF p = 3 THEN 2 ELSE 1]
MCFirstShares == {3, 4, 9}
==============================================================================
