---------------------------- MODULE SidelinkGroup ----------------------------
(***************************************************************************)
(* What MmWaveVehicularHelper::PairDevices sets up: the scheduling pattern *)
(* of a group of vehicles, given as the sequence of their RNTIs.           *)
(***************************************************************************)
EXTENDS Integers, Sequences

\* CreateSchedulingPattern, option DEFAULT: one slot of the subframe for each device, the
\* others unused.
DefaultPattern(devs, slots) ==
  [s \in 0..slots-1 |-> IF s < Len(devs) THEN devs[s+1] ELSE 0]

\* Option OPTIMIZED: the same number of consecutive slots for each device, then one more
\* for the first ones until none is left.
OptimizedPattern(devs, slots) ==
  LET slotPerDev == slots \div Len(devs)
      shared == slotPerDev * Len(devs)
  IN  [s \in 0..slots-1 |->
         IF s < shared THEN devs[(s \div slotPerDev) + 1] ELSE devs[s - shared + 1]]
==============================================================================
