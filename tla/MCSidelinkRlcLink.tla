-------------------------- MODULE MCSidelinkRlcLink --------------------------
(***************************************************************************)
(* An instance of SidelinkRlcLink: SDUs of one, four and two bytes, six     *)
(* bytes of queue, so that SDUs are discarded; shares of 4 bytes, of which  *)
(* two are data, and of 6; numbers from zero and across the modulus; two    *)
(* PDUs may be lost and one overtakes another.                              *)
(***************************************************************************)
EXTENDS SidelinkRlcLink

MCSduSize == [d \in 1..NumSdu |-> IF d = 1 THEN 1 ELSE IF d = 2 THEN 4 ELSE 2]
MCFirstShares == {4, 6}
MCStarts == {<<0, 8>>, <<6, 2>>}
==============================================================================
