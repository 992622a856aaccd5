--------------------------- MODULE InOrderDelivery ---------------------------
(***************************************************************************)
(* What an unacknowledged RLC connection promises to PDCP: whatever becomes *)
(* of its PDUs, the SDUs it delivers are whole ones that were handed to it, *)
(* each at most once and in the order in which they were handed over.  SDUs *)
(* are numbered in that order; a delivery may bring several at once.        *)
(***************************************************************************)
EXTENDS Integers, Sequences

CONSTANT NumSdu

VARIABLES
  handed,      (* SDUs 1..handed have been given to the sending entity      *)
  delivered    (* the SDUs the receiving entity has passed up, in order     *)

Init == handed = 0 /\ delivered = <<>>

Hand ==
  /\ handed' \in handed + 1 .. NumSdu
  /\ UNCHANGED delivered

Deliver ==
  /\ Len(delivered) <= Len(delivered') /\ delivered = SubSeq(delivered', 1, Len(delivered))
  /\ \A i \in DOMAIN delivered' :
       /\ delivered'[i] \in 1..handed
       /\ i > 1 => delivered'[i-1] < delivered'[i]
  /\ UNCHANGED handed

Spec == Init /\ [][Hand \/ Deliver]_<<handed, delivered>>
==============================================================================
