# A verification project for the NR V2X sidelink of ns3-V2I-V2V

The repository is ns-3 with two additions: the `mmwave` module and `millicar`
(`src/src/millicar`), a simulation model of vehicles that talk to each other over
millimetre-wave sidelink. This project models millicar and what it uses of the rest:
the RLC entities at both ends of a bearer, the MAC of a vehicle with its scheduler, the
half-duplex radios of several vehicles on one channel, and the event list that orders
what they do. It also models `test.py`, the multi-threaded program that runs the
repository's tests. All paths below are relative to `src/src/`, except `src/test.py`;
`mac.cc`, `phy.cc` and `spectrum-phy.cc` stand for `millicar/model/mmwave-sidelink-*.cc`,
`helper.cc` for `millicar/helper/mmwave-vehicular-helper.cc`, `um.cc` and `tm.cc` for
`lte/model/lte-rlc-*.cc`.

## Inventory

A simulation runs in one thread: the simulator takes the earliest event from its list and
calls a handler, which runs to its end. Concurrency is the interleaving of the events of
several devices; events of the same time run in the order in which they were scheduled.
`test.py` is really concurrent: threads, blocking queues and a signal handler.

| Component | State | Operations | Hard behaviours | What makes it correct |
|---|---|---|---|---|
| `MmWaveSidelinkMac` | `m_bufferStatusReportMap`, `m_txBufferMap`, `m_slCqiReported`, `m_sfAllocInfo` | `SlotIndication`, `ScheduleResources`, `ReportBufferStatus`, `TransmitPdu`, `SlSinrReport`, `ReceivePhyPdu` | a loop that calls the RLC back while it iterates over a map; unsigned symbol counts; pairing of PDUs and transport blocks by position | the slot is shared without overlap, a PDU goes out in its own block, every channel is served, the loop ends |
| `MmWaveAmc` | none | transport block size, number of symbols, MCS | rounding | the symbols granted carry the block |
| `MmWaveSidelinkPhy` | `m_phyBuffer`, `m_deviceMap`, slot counter in the events | `StartSlot`, `SlData`, `SendDataChannels`, `PrepareForReceptionFrom` | periodic events of all devices at the same times | blocks start at their symbols, beams face each other |
| `MmWaveSidelinkSpectrumPhy` | `m_state`, `m_rxTransportBlock`, end events | `StartTxDataFrames`, `EndTx`, `StartRx`, `EndRxData` | a fatal error when it must transmit while busy; signals of other groups; the error model | never fatal, every block received by its destination |
| `SingleModelSpectrumChannel` | list of radios | `StartTx`, `StartRx` | propagation delay, order of delivery | each other radio gets each signal once |
| Simulator event list | events by time and uid | `Schedule`, `ProcessOneEvent` | equal times | time and scheduling order are kept |
| `MmWaveVehicularHelper` | RNTI counter, pattern option | install devices, `PairDevices`, `CreateSchedulingPattern` | groups that share a channel, a device paired twice | slots of a group are exclusive |
| `LteRlcTm`, `LteRlcUm`, sending | `m_txBuffer`, `m_txBufferSize`, `m_rbsTimer`, `m_sequenceNumber` | `TransmitPdcpPdu`, `NotifyTxOpportunity`, `ReportBufferStatus`, `ExpireRbsTimer` | new packets cancel the timer, refused opportunities use up the report; cutting, concatenating and tagging of SDUs | no queue is forgotten, no byte lost, a PDU fits its opportunity |
| `LteRlcUm`, receiving | `m_vrUr`, `m_vrUx`, `m_vrUh`, `m_rxBuffer`, `m_reorderingTimer`, `m_expectedSeqNumber`, `m_reassemblingState`, `m_keepS0` | `ReceivePdu`, `ExpireReorderingTimer`, `ReassembleAndDeliver` | lost, late and overtaken PDUs, numbers that wrap, a timer that is re-armed | whole SDUs, in order, at most once; nothing waits without a timer |
| `LteRlcSm` | none | `NotifyTxOpportunity` | reports from inside the scheduler's loop | see the MAC |
| `MmWaveVehicularNetDevice` | bearer maps, classifier | `ActivateBearer`, `Send`, `Receive` | identifiers that collide | a packet uses the bearer of its destination |
| `test.py` | input and output queue, `thread_exit`, counters | dispatch, collect, `join`; `worker_thread.run`; `sigint_hook` | blocking queues, Control-C at any moment, processes that crash | every job is accounted for, success is earned, the threads end |
| Visualizer | lock, samples of the last period | `update_view_timeout`, simulation thread | two threads that take turns | a sample is shown once |

How they interact: `StartSlot` (PHY) calls `SlotIndication` (MAC). In a slot of its own
the MAC calls `NotifyTxOpportunity` of each RLC, which calls back `TransmitPdu` and, for
`LteRlcSm`, `ReportBufferStatus`. The MAC puts blocks into the PHY buffer; the PHY
schedules one `SendDataChannels` for each and the next `StartSlot`. `SendDataChannels`
makes the radio transmit; the channel schedules a `StartRx` at every other radio; the one
addressed locks onto it and schedules its `EndRxData`, which reports the SINR to its MAC
and passes the packets up. In a slot of another device the MAC only has the PHY turn its
antenna. A received PDU goes from the MAC to the RLC entity of its LCID, which delivers SDUs
to PDCP.

Out of the inventory's reach: the propagation, spectrum propagation and antenna models
and the error models are floating-point code without control worth checking; the traces
helper writes files; the cellular part of `mmwave` and `lte` is not used by millicar.
PROJECT.json lists these as not modelled, and the hazards of the code at their lines.

## Modules

* `SidelinkMac` - one MAC and the PHY code that drives it. The slot handler is cut into
  one step for each iteration of its two loops; `pc` says which loop runs and keeps other
  events out, as the simulator does. `bsr` is `m_bufferStatusReportMap` (`NoBsr` where
  the map has no entry), `bsrIt` its iterator, `txBuf` is `m_txBufferMap`, `mcsOf` the MCS
  that follows from the last element of the history in `m_slCqiReported` - the only one
  `GetMcs` reads. `alloc`, `availableSymbols`, `availableSymbolsPerLc` and `symStart` are
  the locals of the handler; they are reset when it returns. The RLC entities are the
  environment: `NotifySaturated` is `LteRlcSm`, which always answers with a PDU of the
  full size and a new report, *before* the scheduler decrements the entry;
  `NotifyQueued`/`NotifyRefused` cover `LteRlcTm` and `LteRlcUm`, which send at most one
  PDU or refuse. Their queue cannot grow inside the handler, so an opportunity as small
  as one that was refused is refused as well: `refused` records it.
* `SidelinkMacProofs`, `SidelinkMacPairing`, `SidelinkMacService` - theorems about it.
* `MCSidelinkMac` - its instances for TLC.
* `SidelinkQueue` - the sending side of one RLC entity, `LteRlcTm` or `LteRlcUm` (`kind`),
  with the entry its MAC holds of it (`entry`). `txBuffer` is `m_txBuffer`, each segment
  with its SDU, size and status tag; `rbsTimer` tells that the report timer runs. The
  actions are `TransmitPdcpPdu`, `ExpireRbsTimer` and, inside a slot (`share > 0`), `Offer`,
  one iteration of `ScheduleResources` for this channel with the `NotifyTxOpportunity` it
  calls. The shares of a slot start with a full one and never grow, as `PerLcShare` and
  `availableSymbolsPerLc` in `SidelinkMac` do. `UmMapped` is the loop that cuts and
  concatenates.
* `SidelinkQueueProofs` - theorems about it.
* `InOrderDelivery` - what an unacknowledged connection promises: the SDUs delivered are
  whole ones that were handed over, each at most once and in order.
* `SidelinkUm` - the receiving side of `LteRlcUm`, fed by a sender that cuts a stream of
  SDU parts anywhere and a link that loses PDUs and may let later ones overtake.
  `SequenceNumber10` is `Off`, the distance from the modulus base; `reasm` holds what
  `ReassembleAndDeliver` keeps from PDU to PDU. A PDU is cut out of the stream by two
  positions (`Segments`), and `SduEnd` says where the SDUs end in it. `MaxBurst` bounds the
  PDUs lost one after the other, `MaxLost` those lost in all. `num`, `damaged`, `losses` and
  `sent` are history and bounds.
* `SidelinkUmProofs` - theorems about it.
* `SidelinkRlcLink` - both ends: the PDUs that `SidelinkQueue` builds, with sequence number
  and framing bits, go through the link to `SidelinkUm`. It instantiates both modules and
  replaces only the free sender of `SidelinkUm`.
* `TestRunner` - `test.py`: `pc` is the main thread (its loops over suites and examples,
  the pills, the loop over the output queue, `join`, the report), `running` says what each
  worker does, `ending` how each process ended. `Sigint` may come at any time.
* `TestRunnerProofs` - theorems about it.
* `MCSidelinkQueue`, `MCSidelinkUm`, `MCSidelinkRlcLink`, `MCTestRunner` - their instances.
* `SidelinkPhy` - all devices, their radios, the channel and the event list. A step
  executes the head of `events`; times are relative to it, so the state space is finite
  without a bound on time. `Schedule` puts an event behind those of its time, which is
  the order of `EventKey` (time, then uid). `StartSlotTx` puts *any* list of disjoint blocks
  inside the slot: that is the guarantee `SlotBudget` proves for the MAC.
  `PatternAssumption` says that paired devices have one pattern, as `PairDevices` hands out
  one to a whole group. `up`, `lost` and `pending` are history variables.
* `SidelinkPhyProofs` - theorems about it.
* `SidelinkGroup` - the scheduling patterns of `CreateSchedulingPattern`.
* `MCSidelinkPhy` - instances: groups, pattern, delay.
* `NaturalLemmas` - induction up to a bound and recursive sums, for the proofs.

## Runs

| Run | Configuration | Question | Bounds |
|---|---|---|---|
| `mac_slot` | `MCSidelinkMac.cfg` | safety of the slot handler | 3 channels (1 saturated), 5 symbols, 2 slots, 2 MCSs, reports of 0, 1, 5 and 12 bytes, PDUs of 1 and 2 bytes |
| `mac_liveness` | `MCSidelinkMacLive.cfg` | its loops end; every report is followed by a grant | 3 channels, 3 symbols (one each), one MCS, reports of 0, 4 and 12 |
| `phy_group` | `MCSidelinkPhyGroup.cfg` | a group of three, OPTIMIZED pattern | 4 slots (one device has two in a row), 3 symbols, symbol of 2 ns |
| `phy_groups` | `MCSidelinkPhyGroups.cfg` | two pairs that transmit at the same time, DEFAULT pattern, an unused slot | 3 slots, 2 symbols |
| `phy_delay` | `MCSidelinkPhyDelay.cfg` | propagation delay of 1 ns | violation expected |
| `phy_no_error_model` | `MCSidelinkPhyNoErrorModel.cfg` | error model deactivated | violation expected |
| `rlc_queue` | `MCSidelinkQueue.cfg` | is a queue ever forgotten, is a byte ever lost, is a refusal final | 4 SDUs of 1, 1, 2 and 4 bytes, 7 bytes of queue, full shares of 3, 4 and 9 bytes, length indicators up to 3 |
| `um_inorder` | `MCSidelinkUm.cfg` | does the receiver deliver in order, and everything it can | 5 SDUs of 1 or 2 parts, PDUs of 1 or 2, numbers modulo 8 from any start, window 4, 2 PDUs lost, also in a row, 1 overtakes |
| `um_wrap` | `MCSidelinkUmWrap.cfg` | the next PDU when the numbers wrap | violation expected |
| `um_window` | `MCSidelinkUmWindow.cfg` | the window when the numbers wrap | violation expected |
| `rlc_link` | `MCSidelinkRlcLink.cfg` | both ends together | 3 SDUs of 1, 4 and 2 bytes, 6 bytes of queue, full shares of 4 and 6 bytes, numbers modulo 8, 2 PDUs lost, 1 overtakes |
| `test_runner` | `MCTestRunner.cfg` | threads, queues and Control-C | 2 workers, 4 jobs: 3 suites, one of them skipped, and an example |

Why the bounds are enough. In `mac_slot`, five symbols for three channels leave a
remainder after the equal shares, so a second round over the map happens, with shares cut
to what is left; a report of 5 exceeds a share and is split over several opportunities,
one of 1 does not fill a symbol, one of 0 is erased without using any, 12 exceeds a slot.
Two slots in the subframe, one not its own, cover both branches of `DoSlotIndication`. The
proofs below remove the bounds of `mac_slot`, `phy_group`, `phy_groups`, `rlc_queue`,
`um_inorder` and `test_runner` for everything but liveness. In `phy_group`, three devices are the fewest in which a bystander of the own group exists;
three symbols allow blocks that touch, that leave a gap and that fill the slot, and a
device with two slots in a row is the case in which its own consecutive transmissions
touch at a slot boundary. The symbol of 2 ns is the shortest for which the 1 ns of `EndTx`
is not the whole symbol; only the order of events depends on it.

In `rlc_queue` shares of 3 and 4 leave an `LteRlcUm` PDU one or two bytes of data, so that
SDUs are cut, more than once even; the share of 3 is too small for the largest SDU of an
`LteRlcTm`, the others are not, so that a refused head may be taken later; one of 9 lets it concatenate up to three of them, with indicators of both
sizes; the SDU of 4 bytes is larger than an indicator can tell, which the code treats
apart; the queue is too small for all four. `um_inorder` keeps the relation of the code,
modulus twice the window; every start lets the numbers wrap at every position. Two losses
in a row and one overtaking are the most a window of 4 tells apart (`BurstAssumption`). PDUs sent
while t-Reordering runs are bounded (`perTimer`), since with the numbers of the code
hundreds of them do not fit 10 ms, or unbounded where the numbers do not wrap; `um_window`
takes the bound away at the modulus. `rlc_link` has an SDU that needs two PDUs or more
between two that may be concatenated with its ends. Two workers are the fewest that can
take each other's pill, and four jobs give each two while others wait.

Assumptions that exclude cases. `ShareAssumption` only says that there are shares and that
none is empty: SDUs may be larger than a full share, as with `LteRlcTm`, an MTU of 30000 and
MCS 0. What then happens is part of the properties. `LinkShareAssumption`, for `rlc_link`
only: a full share holds more than the two bytes of an `LteRlcUm` header, where one symbol
at MCS 0 holds tens of bytes; SDUs larger than a share are cut.
`BurstAssumption`: the PDUs lost in a row, and those that overtake, are fewer than the window
is long; after more of them no receiver can tell new numbers from old. It bounds a burst
(`MaxBurst`), not the losses of a run. In `Lose` the burst is counted from VR(UH): what is
beyond it has been lost, or is on its way, since a PDU got through.

Deadlock is checked in the runs of the MAC, of the PHY and of the queue: these systems
never stop. `um_*`, `rlc_link` and `test_runner` say `CHECK_DEADLOCK FALSE`, because a finite
stream of SDUs ends and so does the test program; that they end where they should is what
their liveness properties say.

Fairness. `SidelinkMac` has weak fairness of the slot handler: `StartSlot` reschedules
itself without condition and the simulator runs each event to its end. No fairness is
assumed of the RLC entities. `SidelinkPhy` has weak fairness of the next event: the
simulator takes one event after the other. `ReportLeadsToGrant` and `EveryBlockReceived`
need it, since without it the simulation may just stop. `SidelinkQueue` has weak fairness
of slots and of a running report timer: both are scheduled events. `SidelinkUm` has it of
the link (a PDU is on its way for a bounded time: it arrives or is lost) and of a running
t-Reordering; `SidelinkRlcLink` of all of these. Both are stated over the variables they
change (`Lands`, `Expires`), which is the same and cheaper to evaluate. No fairness is
assumed of packets from PDCP. `TestRunner` has weak fairness of the main thread and of each
worker: the operating system schedules threads, and every process ends. None is assumed of
Control-C.

### What the runs show about the code

* Under the default channel (no propagation delay) the radios never run into one of their
  fatal errors, in spite of blocks and slots that touch. The reason is the order of
  events of the same time: the `EndRxData` of a block that ends with the slot is in the
  list before the `SendDataChannels` of the next slot is.
* The two views of an RLC queue, its own and the MAC's, diverge all the time (refused
  opportunities are charged, header estimates are wrong), and still no SDU that fits the
  shares is forgotten (`NoLostWakeup`): every PDU that leaves something behind arms the
  timer, and a report made when the timer is cancelled is of the whole queue, so its first
  opportunity brings a PDU out.
* A head that does not fit is another matter. `LteRlcTm` refuses an opportunity smaller than
  its head without starting the timer (`tm.cc:142-146`), and the MAC charges it to the
  report; once the report is used up nothing wakes the entity before the next SDU comes from
  PDCP, also if the channel has become better in the meantime. `OnlySmallSharesSilence` says
  that this is the only way in which an entity falls silent, and that the next SDU, even one
  that is discarded, ends it; `EverySduLeaves` has it as its exception.
* `RefusalIsFinal` is the assumption on which the proof of `PduInItsOwnTb` rests; it is
  itself proved of the entity.
* `LteRlcUm` at both ends implements `InOrderDelivery` (`DeliversInOrder`, `EndToEnd`) and
  loses no SDU of which every part arrives in time (`IntactAreDelivered`, `AcceptedArrive`),
  in spite of disagreements 3 and 4 below: t-Reordering repairs what the receive path
  leaves behind.
* The attribute `ReportBufferStatusTimer` is described as the time "since the last time a new
  SDU was received" (`um.cc:73-74`). The code cancels the timer when an SDU comes and starts
  it when an opportunity leaves something in the queue. `NoLostWakeup` shows that this
  suffices for a head that fits the shares; no run states the description.
* `test.py` reports success only for jobs that really ran, whenever Control-C comes, removes
  its files only after all threads have ended, and ends if all processes do.
* Four disagreements with the documentation or with comments, as expected violations:
  1. `PropagationDelayModel` may be any delay model (`helper.cc:71-74`), but there is no
     guard time. With any positive delay a block that reaches the end of the slot is still
     being received when its receiver starts to transmit in its own slot: `NS_FATAL_ERROR`
     "Cannot transmit while receiving" (`spectrum-phy.cc:490`).
  2. `DataErrorModelEnabled` "Activate/Deactivate the error model"
     (`spectrum-phy.cc:100-101`): with it deactivated `EndRxData` passes nothing up and
     reports no SINR, since the whole loop is under the condition (`spectrum-phy.cc:391`).
  3. VR(UR) is to move "to the SN of the first UMD PDU ... that has not been received"
     (`um.cc:540`); the search counts in a `uint16_t` beyond 1023 (`um.cc:555`) and stops at
     the modulus, so that PDU 0, received and next in order, waits in the buffer for the
     next PDU or for t-Reordering.
  4. PDUs outside the window are to be reassembled "in ascending order" when it moves
     (`um.cc:516-518`); the loop takes them by value and stops at the first inside
     (`um.cc:1123`), so that those before the modulus stay behind when the window has passed
     it. In `um_window` this needs a gap followed by a whole window of PDUs during one
     t-Reordering; `um_inorder`, where only few PDUs come in that time at the modulus, has no
     such state (`BufferIsCovered`).

## Proofs

All theorems hold for every value of the constants that the named assumptions allow; TLC
evaluates the assumptions on every instance.

### The MAC

Assumptions: `LcidAssumption` (no more channels than symbols; with the eight devices that
the pattern allows at most, a device has seven channels, a slot fourteen symbols),
`DestAssumption` (one bearer per peer, as `PairDevices` activates them),
`SlotAssumption`, `AmcAssumption` (block sizes grow with the number of symbols and are
positive for a positive number, which `CalculateTbSize` satisfies once the bandwidth holds
more than a CRC) and `ReportAssumption`.

* `SidelinkMacProofs`: `TypeCorrect`, `IteratorAlwaysValid`, `SlotNeverOverbooked`. The
  inductive invariant is `SlotInv == TypeOK /\ IteratorValid /\ SlotBudget /\ ShareInv`.
  `ShareInv` is the missing part: the share of a channel never exceeds the symbols still
  free. It bounds the symbols of a grant, because a grant is no larger than what its share
  carries and `GetMinNumSymForTbSize` returns the *least* number of symbols that carry
  it (`GetMinNumSymBound`). This is the reason why the guard that the code has commented
  out (`mac.cc:243`) is not needed.
* `SidelinkMacPairing`: `PduAlwaysInItsOwnTb`, `NoPduLeftBehind`. The pairing by position
  is right because a destination takes a *prefix* of its opportunities: `QueueInv` says
  that what is queued for it was built for the next opportunities to be paired, without a
  gap, and then for none; `RefusalInv` says that a channel that refused once will refuse
  the rest, because its offers never grow (`OfferShrinks`) and one at most as large as a
  refused one is refused; `TbInv` that a block has room for its bytes.
* `SidelinkMacService`: `EveryActiveAlwaysServed`. `ServeInv`: as long as somebody has not
  been served, the ones not served are those from the iterator on, every share is still
  the initial one and the free symbols suffice for one share each. `GrantsNeverExceedReport`:
  what a channel has been granted and what is left of its entry add up to the report it
  came with, for any number of rounds over the map. The grants of a channel are summed by
  a recursive function (`TotalOf`), and one more grant adds its bytes to the sum of its
  channel only (`TotalStep`).

### The queue of an RLC entity

Assumptions: `SduAssumption` (sizes are positive) and `ShareAssumption` (above); neither
relates the sizes of SDUs to the shares.

`SidelinkQueueProofs`: `TypeCorrect`, `WakeupIsKept`, `OnlySmallShares`, `TagsAreTrue`,
`RefusalIsKept`, `PduFits` and `SegmentationConserves`. `QueueInv` adds to the types and to `NoLostWakeup`:

* the queue is well formed (`WellFormed`): each SDU is in it once, only the first is perhaps
  begun, and sizes and tags fit. `StatusTruthful` and the segmentation depend on it;
* inside a slot a queue whose head fits every full share (`HeadFits`) has its timer running.
  The first opportunity of a slot is full, so either it is refused - and then the entry was
  too small for the head, which happens only when the timer runs - or it brings a PDU out,
  and what that leaves arms the timer. Without this part a smaller share later in the slot
  could use up the report and lose the wakeup;
* an entity that has refused refuses the smaller of its entry and its share, and both only
  shrink in the slot. This is `RefusalIsFinal`, which `SidelinkMac` assumes of its
  environment and on which `SidelinkMacPairing` rests: the assumption is discharged, for
  `LteRlcTm` and `LteRlcUm`.

`PduFits` and `SegmentationConserves` are about the segmentation loop of `LteRlcUm`, for
queues of any length and opportunities of any size. The loop is described by the position
at which it stops (`UmMappedIs`), the space it has left by a recursive sum (`SpaceForIs`,
`SpaceClosed`), and the bytes of a queue by concatenation (`FlattenConcat`).

### The receiving LteRlcUm

Assumptions: `UmAssumption` (SDUs are not empty, the modulus is twice the window, as in the
code, and the window is longer than 1), `BurstAssumption` (above), and in each theorem the
hypothesis `SlowEnough`: for each start that the constants name, either so few PDUs are sent
while t-Reordering runs, and so few overtake one, that they fill half of the window at most
(256 PDUs within 10 ms, for a sender that builds one or two in a slot), or so few are sent in
all that the numbers do not wrap. All starts of `um_inorder` are of one of these kinds. The
hypothesis is needed: the run `um_window` has a start that is of neither, and there
`ReassembleOutsideWindow` leaves PDUs behind the window (disagreement 4), which
`BufferIsCovered` excludes.

`SidelinkUmProofs`: `TypeCorrect`, `BufferAlwaysCovered`, `FramingNeverFails` and
`DeliveryInOrder`, the refinement of `InOrderDelivery`. They hold for every window and modulus,
every stream of SDUs and every way to cut it into PDUs, and any losses.

* *Numbers instead of sequence numbers.* Every comparison of the code is one of distances
  from the base of the window. `OffIs` says that this is the difference of the numbers, as
  long as both lie within a modulus from the base. On it rest the lemmas that say what the
  operations find: `NextMissingIs` and `NextMissingWrappedIs` (the two searches, in a `uint16_t`
  and in a `SequenceNumber10`), `SnIntervalIs`, `StopsTimerIs`, and `OutsideIs`, which
  needs that no PDU has left the window or that the numbers have not wrapped. `PlacedIs` and
  `ExpiredIs` put them together to the effect of a whole handler on U, X and H, the numbers
  that VR(UR), VR(UX) and VR(UH) stand for. `NextMissingIs` states both outcomes of the
  search, the one that stops at the modulus included (disagreement 3): all that is proved
  holds in spite of it.
* *What reassembly makes of a PDU.* `Reads(r, E, q)` says that all PDUs before number E, which
  end at position q of the stream, have been read: the SDUs delivered are whole, ascending
  and end before q, and an open one is kept up to q exactly (`UpTo`). `ReassembleIs` is the
  step: reading a PDU that is the next, or any later one within a modulus, keeps it.
  `Resync` is right because inside a modulus the expected number tells whether the PDU is
  the next. `ReassembleAllIs` repeats the step along the walk over the buffer.
* *The inductive invariant.* `IInv` says that there are U, X, H, E and marks `pos`, the
  positions at which the PDUs begin, with: `WindowInv` (the buffer lies between U and H, and
  t-Reordering runs exactly while U is before H); `LinkInv` (each PDU on its way carries its
  part of the stream and is at most `Overtake` behind, and at most `MaxBurst` beyond H are
  gone); `ReadInv` (all before E has been read, E is not after U, and unless E is H the PDU
  before H waits in the buffer); and `SlowInv` or `ShortInv`, what `SlowEnough` has become.
  The parts need each other: that the PDU read next is within a modulus of E, which
  `ReassembleIs` requires, follows from a PDU near E waiting in the buffer; and that the walk
  of `ReassembleOutsideWindow` finds exactly the PDUs that have left the window (`OutsideIs`)
  follows from `SlowInv` (none has) or `ShortInv` (the numbers have not wrapped). TLC checked `IInv` on an instance
  with `pos` as a history variable before it was proved.
* *The steps.* `SendStep`, `LoseStep`, `ArriveStep` and `ExpireStep` preserve it. For an arrival
  the buffer is read twice, as in `DoReceivePdu`: what has left the window (`FirstRead`) and
  what is in order (`SecondRead`). Each step only extends what has been delivered
  (`Extends`), so that it is a `Deliver` of `InOrderDelivery`, while `Send` is a `Hand` when
  it begins an SDU and a stutter otherwise. `HandedIs` says that an SDU whose last part has
  been sent has been handed over.

### The radios, the channel and the event list

Assumptions: `RadioAssumption` (devices, symbols of at least 2 ns, patterns that name paired
devices), `PatternAssumption`, and in each theorem the hypothesis `NoDelay`: the helper
installs a channel without propagation delay by default (`helper.cc:131-134` sets a delay
model only when the attribute names one). The run `phy_delay` shows that the theorems are
false without it.

`SidelinkPhyProofs`: `TypeCorrect`, `RadiosNeverCollide`, `DestinationsListen`,
`RadiosMatchTheirEvents`, `AntennasFaceEachOther` and `OneTransmitterAtATime`, for any
number of devices, groups, slots and symbols, any pattern and any layout of blocks. None of
these is inductive: whether a radio will be idle when its event comes depends on the other
events in the list and on their order. `PhyInv` says that some slot `s`, of which `r` is
left, and a set `old` of devices that still receive from the slot before, explain the list
and the radios:

* each event alone (`Good`): blocks to be sent belong to devices that own the slot and end
  before it does, copies of a signal arrive now, the end of a transmission or reception
  comes while its radio is busy, 1 ns before the end of the slot or at its end, and the
  next start of a slot is `r` away, or now for a device that has not begun this one;
* each pair of events, in the order of the list (`Ok`): while some device has not begun the
  slot, nothing has been sent in it; the blocks of a device follow each other, an end of
  transmission is ahead of its next block, an end of reception ahead of the next block of
  the same sender even when both come at the same time, and a device is the destination of
  one signal at a time;
* the radios (`RadioOk`): a busy radio has its end event, every device a next slot, and
  one that has begun a slot of another device points its antenna at it.

The first event of a new slot closes the one before (`NewSlot`): at that time the only
events left of it are receptions that end now, and these become `old`. Each handler then
preserves the invariant (`EndTxOk`, `EndRxOk`, `LockOk`, `InterferenceOk`, `StartSlotTxOk`,
`StartSlotIdleOk`, `SendOk`). `DestinationIsIdle` and `SenderIsIdle` are the two facts that
matter: the first gives `NothingLost`, the second `NeverFatal`.

### test.py

Assumption: `RunnerAssumption` (workers, suites and examples, the values that stand for a
pill and for nothing). `TestRunnerProofs`: `TypeCorrect`, `JobsAreConserved`,
`SuccessMeansPassed` and `ShutdownIsClean`. `RunnerInv` adds to these properties that no pill
is out before the dispatching loops end and all of them after, that a job noted as passed
has a process that returned 0 with readable output, and one noted as skipped was to be
skipped. Jobs are conserved because each is at one *place*: the two queues and the workers;
an action moves it from one place to another, which the `Occurrences` lemmas (about what
`Append`, `Tail` and concatenation do to the number of times a value occurs) and
`HoldersStep` make precise.

### What is only model-checked

Every leaf is checked by the SMT, Zenon or PTL backends of TLAPS. Sums, the segmentation
loop and the insertion of several events are defined by recursive functions; what these
compute is proved from their recursion by the least counterexample (`LeastExists`,
`InductionUpTo` in `NaturalLemmas`), since the induction theorems of the library take an
operator as a parameter. Out of reach is liveness: `HandlerReturns`, `ReportLeadsToGrant`,
`EveryBlockReceived`, `EverySduLeaves`, `IntactAreDelivered`, `AcceptedArrive` and
`Terminates`. `SidelinkRlcLink` has no proofs: its `TypeOK`, `FramingAgrees` and `EndToEnd` are
checked by TLC on the instance above. What is proved of its two halves does not add up to
them by itself, since the receiver is proved for a sender that cuts a stream whose parts
are numbered, and the queue that it loses none of its bytes; that the framing bits built from
status tags are those of the positions in the stream is what `FramingAgrees` adds. `SlowEnough`
is a hypothesis on the starts; whether a scheduler meets it is not modelled.

## What is not modelled

* Signal powers, SINR, beam patterns, mobility and block error rates. Any received block
  may be corrupt, any SINR report may choose any MCS.
* PDCP, IP and the classification of packets in `MmWaveVehicularNetDevice`, which keep no
  state that another event could disturb. `LteRlcAm`, which millicar cannot be configured
  to use.
* In `SidelinkUm` and `SidelinkRlcLink`: several bearers of one device (their entities share
  nothing but the scheduler, which `SidelinkMac` models), and the content of packets.
* In `TestRunner`: a process that cannot be started (the worker would end without its job,
  and the main thread wait for ever) and one that never ends (nothing would stop it); both
  are hazards without a property, since the code does not handle them.
* The visualizer, the cellular stacks and the bindings (`bindings/modulegen__*.py`), which
  are generated and make up most of the Python in the tree.
* A device that is paired in several groups, and the collisions of bearer ids it causes.
* Width of the counters that never come near it: `uint8_t` symbol indices stay within a
  slot (`SlotBudget`), `uint32_t` byte counts within 1 MB per channel.

## Plan

Modelled as planned: the MAC, the radios, the RLC queue and its report timer, the receiving
side of `LteRlcUm`, their composition, and the test runner. Proved as planned: the safety of
the MAC, of the queue, of the receiver with its refinement of `InOrderDelivery`, of the radios
and of the test runner. What is left, in this order:

1. Proofs about `SidelinkRlcLink`: `FramingAgrees` from `TagsAreTrue`, and with it `EndToEnd` from
   `DeliveryInOrder`.
2. Proofs about `SidelinkGroup`: every slot of OPTIMIZED has an owner in the group, and shares
   differ by one at most.
3. `SidelinkPairing`: the set-up calls as actions - RNTIs, bearers, patterns, a device in
   two groups (`helper.cc:273`). Abstract specifications of the slot, which `SidelinkMac`
   implements, and of the medium, which `SidelinkPhy` implements.
