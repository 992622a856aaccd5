---------------------------- MODULE MCSidelinkPhy ----------------------------
(***************************************************************************)
(* Instances of SidelinkPhy for TLC.  A slot has few symbols, and a symbol *)
(* few ns: enough for the 1 ns by which EndTx comes early.                 *)
(***************************************************************************)
EXTENDS SidelinkPhy, SidelinkGroup, SequencesExt

CONSTANTS Groups,      \* the groups that were paired, each a sequence of RNTIs
          Optimized,   \* SchedulingPatternOption
          Distance     \* propagation delay between any two devices

GroupOf(d) == CHOOSE g \in Groups : d \in ToSet(g)
MCGroups1 == {<<1, 2, 3>>}
MCGroups2 == {<<1, 2>>, <<3, 4>>}
MCGroupsPair == {<<1, 2>>}
MCPeer == [d \in Device |-> ToSet(GroupOf(d)) \ {d}]
MCSfAllocInfo == [d \in Device |->
  IF Optimized THEN OptimizedPattern(GroupOf(d), SlotsPerSubframe)
               ELSE DefaultPattern(GroupOf(d), SlotsPerSubframe)]
MCDelay == [d \in Device |-> [e \in Device |-> Distance]]
==============================================================================
