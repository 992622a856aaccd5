---------------------------- MODULE MCSidelinkUm ----------------------------
(***************************************************************************)
(* Instances of SidelinkUm.  Sequence numbers modulo 8 and a window of 4;   *)
(* SDUs of one and of two parts, PDUs of one or two parts.                  *)
(***************************************************************************)
EXTENDS SidelinkUm

MCParts == [d \in 1..NumSdu |-> IF d % 3 = 2 THEN 2 ELSE 1]

\* At most two PDUs during a t-Reordering, from any number; or any number of them, from
\* zero, which do not reach the modulus.
MCStarts == {<<sn, 2>> : sn \in 0..7} \union {<<0, 8>>}
\* Two PDUs before the modulus; at most two, and any number, during a t-Reordering.
MCSlowWrapStart == {<<6, 2>>}
MCFastWrapStart == {<<6, 8>>}
=============================================================================
