----------------------------- MODULE SidelinkPhy -----------------------------
(***************************************************************************)
(* The radios of several vehicles on one channel: MmWaveSidelinkPhy and    *)
(* MmWaveSidelinkSpectrumPhy of every device, the spectrum channel between *)
(* them, and the event list of the simulator that drives them all.         *)
(*                                                                         *)
(* Each step executes the first event of the list.  Times are relative to  *)
(* the event being executed, so the model needs no absolute clock; events  *)
(* of the same time run in the order in which they were scheduled.  What   *)
(* the MAC puts in a slot is any list of blocks SidelinkMac may leave in   *)
(* the PHY buffer: disjoint, in order, inside the slot.                    *)
(***************************************************************************)
EXTENDS Integers, Sequences, FiniteSets

CONSTANTS
  Device,            (* RNTIs, 1 to the number of devices, in order of creation *)
  Peer,              (* m_deviceMap of each device: the devices it is paired to *)
  SfAllocInfo,       (* m_sfAllocInfo of the MAC of each device                 *)
  SlotsPerSubframe, SymbPerSlot,
  SymbolPeriod,      (* in ns                                                   *)
  Delay,             (* propagation delay between two devices, in ns            *)
  DataErrorModelEnabled

ASSUME RadioAssumption ==
  /\ IsFiniteSet(Device) /\ Device = 1..Cardinality(Device)
  /\ Peer \in [Device -> SUBSET Device]
  /\ \A d \in Device : d \notin Peer[d] /\ \A e \in Peer[d] : d \in Peer[e]
  /\ SlotsPerSubframe \in Nat \ {0} /\ SymbPerSlot \in Nat \ {0}
  /\ SymbolPeriod \in Nat /\ SymbolPeriod > 1
  /\ SfAllocInfo \in [Device -> [0..SlotsPerSubframe-1 -> Device \cup {0}]]
  /\ \A d \in Device, s \in 0..SlotsPerSubframe-1 : SfAllocInfo[d][s] \in Peer[d] \cup {d, 0}
  /\ Delay \in [Device -> [Device -> Nat]]
  /\ DataErrorModelEnabled \in BOOLEAN

\* PairDevices gives all devices of a group the pattern of the group.
ASSUME PatternAssumption ==
  \A d \in Device : \A e \in Peer[d] : SfAllocInfo[e] = SfAllocInfo[d]

VARIABLES
  events,   (* the simulator's event list                                    *)
  state,    (* m_state of the spectrum PHY                                   *)
  rxTb,     (* m_rxTransportBlock                                            *)
  beam,     (* the device the antenna points at, 0 before the first time     *)
  fatal,    (* an NS_FATAL_ERROR or a failed NS_ASSERT has ended the program *)
  up,       (* history: blocks passed up by the last EndRxData in this slot  *)
  lost,     (* history: blocks whose own destination did not listen to them  *)
  pending   (* history: blocks scheduled for transmission, not yet received  *)

vars == <<events, state, rxTb, beam, fatal, up, lost, pending>>

\* A transport block with the fields of its TtiAllocInfo that matter here.
Tb == [src : Device, dest : Device, symStart : 0..SymbPerSlot-1, numSym : 1..SymbPerSlot]
TbEnd(tb) == tb.symStart + tb.numSym

\* The PHY buffers that the MAC of device d may leave at the end of SlotIndication: blocks
\* side by side, the first one first.
BlocksOf(d) == {tb \in Tb : tb.src = d /\ tb.dest \in Peer[d] /\ TbEnd(tb) <= SymbPerSlot}
Layouts == [d \in Device |->
  {tbs \in UNION {[1..n -> BlocksOf(d)] : n \in 0..SymbPerSlot} :
     \A i, j \in DOMAIN tbs : i < j => TbEnd(tbs[i]) <= tbs[j].symStart}]

Blocks(tbs) == {tbs[i] : i \in DOMAIN tbs}

------------------------------------------------------------------------------
(* The event list *)

StartSlotEv(at, d, slot) == [at |-> at, kind |-> "StartSlot", dev |-> d, slot |-> slot]
SendEv(at, tb) == [at |-> at, kind |-> "SendDataChannels", dev |-> tb.src, tb |-> tb]
StartRxEv(at, r, tb, aligned) ==
  [at |-> at, kind |-> "StartRx", dev |-> r, tb |-> tb, aligned |-> aligned]
EndTxEv(at, d) == [at |-> at, kind |-> "EndTx", dev |-> d]
EndRxEv(at, d) == [at |-> at, kind |-> "EndRxData", dev |-> d]

Event ==
  [at : Nat, kind : {"StartSlot"}, dev : Device, slot : 0..SlotsPerSubframe-1]
    \union [at : Nat, kind : {"SendDataChannels"}, dev : Device, tb : Tb]
    \union [at : Nat, kind : {"StartRx"}, dev : Device, tb : Tb, aligned : BOOLEAN]
    \union [at : Nat, kind : {"EndTx", "EndRxData"}, dev : Device]

\* Simulator::Schedule: behind the events of the same time.
IsPlaceBehindAll(list, at, n) == n = Len(list)
IsPlace(list, at, n) ==
  /\ \A i \in 1..n : list[i].at <= at
  /\ \A i \in n+1..Len(list) : list[i].at > at
Schedule(e) == [list \in Seq(Event) |->
  LET n == CHOOSE n \in 0..Len(list) : IsPlace(list, e.at, n)
  IN  SubSeq(list, 1, n) \o <<e>> \o SubSeq(list, n + 1, Len(list))]
ScheduleAll(list, es) ==
  LET after[i \in 0..Len(es)] == IF i = 0 THEN list ELSE Schedule(es[i])[after[i-1]]
  IN  after[Len(es)]

Now == Head(events)
\* The rest of the list, seen from the time of the event being executed.
Rest == [i \in 1..Len(events)-1 |-> [events[i+1] EXCEPT !.at = @ - Now.at]]
Executing(kind) == ~fatal /\ events # <<>> /\ Now.kind = kind

------------------------------------------------------------------------------
(* MmWaveSidelinkPhy *)

SlotPeriodWithoutControl == (SymbPerSlot - 1) * SymbolPeriod
SlotPeriod == SymbPerSlot * SymbolPeriod

\* DoPrepareForReceptionFrom, called by the MAC in a slot of another device.
KeepBeam(d, owner) == beam
PrepareForReceptionFrom(d, owner) == [beam EXCEPT ![d] = owner]

\* UpdateTimingInfo, as far as the pattern goes: the slot number wraps.
NextSlot(slot) == (slot + 1) % SlotsPerSubframe

\* The constructor of every PHY schedules its first slot.
Init ==
  /\ events = [d \in 1..Cardinality(Device) |-> StartSlotEv(0, d, 0)]
  /\ state = [d \in Device |-> "IDLE"]
  /\ rxTb = [d \in Device |-> <<>>]
  /\ beam = [d \in Device |-> 0]
  /\ fatal = FALSE
  /\ up = [d \in Device |-> {}]
  /\ lost = {} /\ pending = {}

\* StartSlot: the MAC fills the buffer, every block is scheduled at its first symbol,
\* then the next slot is scheduled.
SlotEvents(d, slot, tbs) ==
  Append([i \in 1..Len(tbs) |-> SendEv(tbs[i].symStart * SymbolPeriod, tbs[i])],
         StartSlotEv(SlotPeriod, d, NextSlot(slot)))
StartSlotTx(d) ==
  /\ Executing("StartSlot") /\ Now.dev = d /\ SfAllocInfo[d][Now.slot] = d
  /\ \E tbs \in Layouts[d] :
       /\ events' = ScheduleAll(Rest, SlotEvents(d, Now.slot, tbs))
       /\ pending' = pending \cup Blocks(tbs)
  /\ up' = [up EXCEPT ![d] = {}]
  /\ UNCHANGED <<state, rxTb, beam, fatal, lost>>

StartSlotRx(d) ==
  /\ Executing("StartSlot") /\ Now.dev = d /\ SfAllocInfo[d][Now.slot] \notin {d, 0}
  /\ beam' = PrepareForReceptionFrom(d, SfAllocInfo[d][Now.slot])
  /\ events' = Schedule(StartSlotEv(SlotPeriod, d, NextSlot(Now.slot)))[Rest]
  /\ up' = [up EXCEPT ![d] = {}]
  /\ UNCHANGED <<state, rxTb, fatal, lost, pending>>

StartSlotEmpty(d) ==
  /\ Executing("StartSlot") /\ Now.dev = d /\ SfAllocInfo[d][Now.slot] = 0
  /\ events' = Schedule(StartSlotEv(SlotPeriod, d, NextSlot(Now.slot)))[Rest]
  /\ up' = [up EXCEPT ![d] = {}]
  /\ UNCHANGED <<state, rxTb, beam, fatal, lost, pending>>

------------------------------------------------------------------------------
(* MmWaveSidelinkSpectrumPhy and the channel *)

Duration(tb) == tb.numSym * SymbolPeriod

\* The end of the transmission, one ns early.
EndTxAtBoundary(tb) == Duration(tb)
EndTxTime(tb) == Duration(tb) - 1

\* SingleModelSpectrumChannel::StartTx: a copy of the signal to every other PHY, in the
\* order of creation.  The antenna gains are computed here, with the beams of now.
StartRxEvents(tb, b) ==
  [i \in 1..Cardinality(Device)-1 |->
     LET r == IF i < tb.src THEN i ELSE i + 1
     IN  StartRxEv(Delay[tb.src][r], r, tb, b[tb.src] = r /\ b[r] = tb.src)]

\* SendDataChannels points the antenna at the destination and calls StartTxDataFrames,
\* which is fatal unless the radio is idle.
SendDataChannels(d) ==
  /\ Executing("SendDataChannels") /\ Now.dev = d
  /\ LET tb == Now.tb IN
       /\ beam' = [beam EXCEPT ![d] = tb.dest]
       /\ IF state[d] = "IDLE"
          THEN /\ state' = [state EXCEPT ![d] = "TX"]
               /\ events' = ScheduleAll(Rest, Append(StartRxEvents(tb, beam'),
                                                     EndTxEv(EndTxTime(tb), d)))
               /\ UNCHANGED fatal
          ELSE /\ fatal' = TRUE
               /\ events' = Rest
               /\ UNCHANGED state
  /\ UNCHANGED <<rxTb, up, lost, pending>>

\* EndTx asserts that the radio is transmitting.
EndTx(d) ==
  /\ Executing("EndTx") /\ Now.dev = d
  /\ fatal' = (state[d] # "TX")
  /\ state' = [state EXCEPT ![d] = "IDLE"]
  /\ events' = Rest
  /\ UNCHANGED <<rxTb, beam, up, lost, pending>>

\* StartRxData: an idle radio locks onto a signal addressed to it; any other signal is
\* interference for an idle or receiving radio, and nothing for a transmitting one.
LocksOnAnySignal(d, tb) == state[d] = "IDLE"
Locks(d, tb) == state[d] = "IDLE" /\ tb.dest = d

StartRxData(d) ==
  /\ Executing("StartRx") /\ Now.dev = d
  /\ LET tb == Now.tb IN
       IF Locks(d, tb)
       THEN /\ state' = [state EXCEPT ![d] = "RX_DATA"]
            /\ rxTb' = [rxTb EXCEPT ![d] = Append(@, tb)]
            /\ events' = Schedule(EndRxEv(Duration(tb), d))[Rest]
            /\ UNCHANGED lost
       ELSE /\ events' = Rest
            /\ lost' = IF tb.dest = d THEN lost \cup {tb} ELSE lost
            /\ UNCHANGED <<state, rxTb>>
  /\ UNCHANGED <<beam, fatal, up, pending>>

\* EndRxData: with the error model enabled, each block gets a SINR report and is passed
\* up unless it is found corrupt (any subset is); otherwise neither happens.  Its
\* NS_ASSERT (m_state = RX_DATA) assigns, so it cannot fail.
EndRxDataKeepsBlocks(d) ==
  /\ Executing("EndRxData") /\ Now.dev = d
  /\ \E good \in SUBSET Blocks(rxTb[d]) :
       up' = [up EXCEPT ![d] = IF DataErrorModelEnabled THEN good ELSE {}]
  /\ pending' = IF DataErrorModelEnabled THEN pending \ Blocks(rxTb[d]) ELSE pending
  /\ state' = [state EXCEPT ![d] = "IDLE"]
  /\ events' = Rest
  /\ UNCHANGED <<rxTb, beam, fatal, lost>>
EndRxData(d) ==
  /\ Executing("EndRxData") /\ Now.dev = d
  /\ \E good \in SUBSET Blocks(rxTb[d]) :
       up' = [up EXCEPT ![d] = IF DataErrorModelEnabled THEN good ELSE {}]
  /\ pending' = IF DataErrorModelEnabled THEN pending \ Blocks(rxTb[d]) ELSE pending
  /\ state' = [state EXCEPT ![d] = "IDLE"]
  /\ rxTb' = [rxTb EXCEPT ![d] = <<>>]
  /\ events' = Rest
  /\ UNCHANGED <<beam, fatal, lost>>

Next ==
  \E d \in Device :
    \/ StartSlotTx(d) \/ StartSlotRx(d) \/ StartSlotEmpty(d)
    \/ SendDataChannels(d) \/ EndTx(d) \/ StartRxData(d) \/ EndRxData(d)

\* Simulator::Run executes events until the list is empty, which it never is.
Spec == Init /\ [][Next]_vars /\ WF_vars(Next)
------------------------------------------------------------------------------
(* Properties *)

Count(kind, d) == Cardinality({i \in 1..Len(events) : events[i].kind = kind /\ events[i].dev = d})

\* Types, and the event list is sorted by time.
TypeOK ==
  /\ events \in Seq(Event)
  /\ \A i \in 1..Len(events)-1 : events[i].at <= events[i+1].at
  /\ state \in [Device -> {"IDLE", "TX", "RX_DATA"}]
  /\ \A d \in Device : rxTb[d] \in Seq(Tb) /\ up[d] \subseteq Tb
  /\ beam \in [Device -> Device \cup {0}]
  /\ fatal \in BOOLEAN
  /\ lost \subseteq Tb /\ pending \subseteq Tb

\* The radio never has to transmit while it receives or still transmits, and no
\* assertion fails, although consecutive blocks and slots touch each other.
NeverFatal == ~fatal

\* A radio is transmitting or receiving exactly while the event that ends it is
\* scheduled, once, and holds one block exactly while it receives: the branch for a
\* second block in StartRxData, with its sanity check, is never needed.
RadioMatchesEvents ==
  ~fatal => \A d \in Device :
    /\ Count("EndTx", d) = (IF state[d] = "TX" THEN 1 ELSE 0)
    /\ Count("EndRxData", d) = (IF state[d] = "RX_DATA" THEN 1 ELSE 0)
    /\ Len(rxTb[d]) = (IF state[d] = "RX_DATA" THEN 1 ELSE 0)

\* No block reaches its destination while that is busy, whatever the other devices and
\* the other groups on the channel transmit.
NothingLost == lost = {}

\* When a block is transmitted its sender and its destination point at each other: the
\* destination has executed its own slot handler before the first block leaves.
BeamsFaceEachOther ==
  \A i \in 1..Len(events) :
    events[i].kind = "StartRx" /\ events[i].tb.dest = events[i].dev => events[i].aligned

\* Two paired devices never transmit at the same time.
OneTransmitterInGroup ==
  \A d \in Device : \A e \in Peer[d] : ~ (state[d] = "TX" /\ state[e] = "TX")

\* Every block the MAC hands to the PHY is eventually received by its destination,
\* which then reports its SINR and passes it up or finds it corrupt.
EveryBlockReceived ==
  \A d \in Device : \A tb \in BlocksOf(d) : tb \in pending ~> tb \notin pending

\* With its error model deactivated, a receiver passes up every block it receives.
NoErrorsWhenModelOff ==
  [][\A d \in Device :
       ~DataErrorModelEnabled /\ rxTb[d] # <<>> /\ rxTb'[d] = <<>> => up'[d] = Blocks(rxTb[d])]_vars
==============================================================================
