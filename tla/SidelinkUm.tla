------------------------------ MODULE SidelinkUm ------------------------------
(***************************************************************************)
(* The receiving side of LteRlcUm: the reordering window, the t-Reordering  *)
(* timer and the reassembly of SDUs, fed through a link that loses PDUs and *)
(* may let later ones overtake.  The sidelink itself has no retransmission  *)
(* and keeps the order (Overtake = 0); the cellular stacks that use the     *)
(* same entity retransmit by HARQ (Overtake = 1).                           *)
(*                                                                         *)
(* An SDU is a sequence of parts <<sdu, k>>.  The sending entity cuts the   *)
(* stream of parts anywhere (SidelinkQueue says how) and numbers the PDUs.  *)
(***************************************************************************)
EXTENDS Integers, Sequences, SequencesExt

CONSTANTS
  NumSdu,      (* bound: SDUs sent                                          *)
  Parts,       (* parts of each                                             *)
  MaxTake,     (* bound: parts in a PDU                                     *)
  Modulus,     (* of the sequence numbers, 1024 in the code                 *)
  Window,      (* m_windowSize, 512 in the code                             *)
  Starts,      (* pairs: the first sequence number, and how many PDUs may be
                  sent while t-Reordering runs                              *)
  Overtake,    (* PDUs that may overtake one                                *)
  MaxBurst,    (* PDUs the link may lose one after the other                *)
  MaxLost      (* bound: PDUs the link loses in all                         *)

ASSUME UmAssumption ==
  /\ NumSdu \in Nat /\ Parts \in [1..NumSdu -> Nat \ {0}] /\ MaxTake \in Nat \ {0}
  /\ Window \in Nat \ {0, 1} /\ Modulus = 2 * Window
  /\ Starts \subseteq (0..Modulus-1) \X (Nat \ {0})
  /\ Overtake \in Nat /\ MaxBurst \in Nat /\ MaxLost \in Nat

\* The link is never silent for a window: the receiver takes a PDU that comes after
\* more losses for one it has delivered already.
ASSUME BurstAssumption == MaxBurst + Overtake < Window

VARIABLES
  perTimer,    (* bound: PDUs sent while t-Reordering runs                  *)
  sent,        (* parts of the stream sent                                  *)
  seqNo,       (* number of the next PDU, without modulus                   *)
  inFlight,    (* PDUs on their way, oldest first                           *)
  losses,      (* PDUs lost                                                 *)
  damaged,     (* SDUs of which a part was lost or given up                 *)
  vrUr, vrUx, vrUh,   (* m_vrUr, m_vrUx, m_vrUh                             *)
  rxBuffer,    (* m_rxBuffer, by sequence number                            *)
  timer,       (* m_reorderingTimer is running                              *)
  reasm        (* reassembly: m_expectedSeqNumber, m_reassemblingState,
                  m_keepS0, m_sdusBuffer, and the SDUs passed to PDCP        *)

link == <<perTimer, sent, seqNo, inFlight, losses, damaged>>
window == <<vrUr, vrUx, vrUh, rxBuffer, timer>>
vars == <<link, window, reasm>>

SduParts(d) == [k \in 1..Parts[d] |-> <<d, k>>]
\* Where each SDU ends in the stream of parts, and which one a position belongs to.
SduEnd[d \in 0..NumSdu] == IF d = 0 THEN 0 ELSE SduEnd[d-1] + Parts[d]
SduOf(i) == CHOOSE d \in 1..NumSdu : SduEnd[d-1] < i /\ i <= SduEnd[d]
Stream == [i \in 1..SduEnd[NumSdu] |-> <<SduOf(i), i - SduEnd[SduOf(i)-1]>>]

IsFirst(part) == part[2] = 1
IsLast(part) == part[2] = Parts[part[1]]

SnUnbounded(n) == n
Sn(n) == n % Modulus
\* SequenceNumber10 compares numbers by their distance from the modulus base.
Off(sn, base) == (sn - base) % Modulus
\* Lowest sequence number of the window that ends before uh.
Base(uh) == Sn(uh - Window)
Inside(sn, uh) == Off(sn, Base(uh)) < Window
Without(f, S) == [x \in DOMAIN f \ S |-> f[x]]
MinOf(S) == CHOOSE x \in S : \A y \in S : x <= y

------------------------------------------------------------------------------
(* Sender and link *)

\* The parts of an SDU that lie between two positions of the stream.
Piece(d, a, b) ==
  SubSeq(SduParts(d), IF a <= SduEnd[d-1] THEN 1 ELSE a - SduEnd[d-1] + 1,
                      IF b >= SduEnd[d] THEN Parts[d] ELSE b - SduEnd[d-1])
\* Those of all SDUs: the data field, split at the length indicators.
Segments(a, b) ==
  [j \in 1 .. SduOf(b) - SduOf(a+1) + 1 |-> Piece(SduOf(a+1) + j - 1, a, b)]

Send(n) ==
  /\ n <= Len(Stream) - sent
  /\ \A i \in DOMAIN inFlight : seqNo - inFlight[i].num <= Overtake
  /\ timer => Off(Sn(seqNo), vrUx) < perTimer
  /\ inFlight' = Append(inFlight,
       [num |-> seqNo, sn |-> Sn(seqNo), sdus |-> Segments(sent, sent + n),
        first |-> IsFirst(Stream[sent+1]), last |-> IsLast(Stream[sent+n])])
  /\ sent' = sent + n /\ seqNo' = seqNo + 1
  /\ UNCHANGED <<perTimer, losses, damaged, window, reasm>>

\* SDUs of the PDUs in a set of positions of the link.
SdusOf(positions) ==
  UNION {{s[1][1] : s \in Range(inFlight[i].sdus)} : i \in positions}

\* Those beyond VR(UH) are all that is lost since a PDU got through.
Lose(i) ==
  /\ losses < MaxLost
  /\ Off(inFlight[i].sn, Base(vrUh)) < Window + MaxBurst
  /\ inFlight' = RemoveAt(inFlight, i)
  /\ losses' = losses + 1
  /\ damaged' = damaged \union SdusOf({i})
  /\ UNCHANGED <<perTimer, sent, seqNo, window, reasm>>

------------------------------------------------------------------------------
(* Reassembly *)

\* The PDU does not continue the SDU that is being reassembled.
ResyncIfIdle(r, pdu) == ~r.open
Resync(r, pdu) == ~r.open \/ pdu.sn # r.expected

\* ReassembleAndDeliver: after a loss, or when no SDU is open, the PDU is read from its
\* first SDU that starts in it; otherwise its first segment continues the open one.  In
\* order and with an SDU open, a PDU that starts with a new SDU is an internal error and
\* its SDUs stay in m_sdusBuffer.
Reassemble(r, pdu) ==
  LET sdus   == r.sdus \o pdu.sdus
      items  == IF ~Resync(r, pdu) THEN <<r.keepS0 \o Head(sdus)>> \o Tail(sdus)
                ELSE IF pdu.first THEN sdus ELSE Tail(sdus)
      next   == [r EXCEPT !.expected = Sn(pdu.sn + 1)]
  IN  IF ~Resync(r, pdu) /\ pdu.first THEN [next EXCEPT !.sdus = sdus]
      ELSE IF pdu.last \/ items = <<>>
      THEN [next EXCEPT !.open = FALSE, !.sdus = <<>>, !.delivered = @ \o items]
      ELSE [next EXCEPT !.open = TRUE, !.sdus = <<>>, !.keepS0 = Last(items),
                        !.delivered = @ \o Front(items)]

\* The buffered PDUs of a set of sequence numbers, ascending from one of them.
ReassembleAll(r, buffer, sns, from) ==
  LET after[k \in 0..Modulus] ==
        IF k = 0 THEN r
        ELSE IF Sn(from + k - 1) \in sns THEN Reassemble(after[k-1], buffer[Sn(from + k - 1)])
        ELSE after[k-1]
  IN  after[Modulus]

\* ReassembleSnInterval: all that is buffered from low up to, but not with, high, compared
\* from base.
SnInterval(buffer, low, high, base) ==
  {sn \in DOMAIN buffer : Off(low, base) <= Off(sn, base) /\ Off(sn, base) < Off(high, base)}

\* ReassembleOutsideWindow walks the map from its lowest key and stops at the first that
\* is inside the window.
OutsideAll(buffer, uh) == {}
Outside(buffer, uh) ==
  {sn \in DOMAIN buffer : \A low \in DOMAIN buffer : low <= sn => ~Inside(low, uh)}

------------------------------------------------------------------------------
(* Receiver *)

\* The search for the first number above VR(UR) that is not buffered counts in a
\* uint16_t, so that it ends at the modulus.
NextMissing(buffer, ur) ==
  Sn(MinOf({n \in ur + 1 .. Modulus : n \notin DOMAIN buffer}))
\* After t-Reordering it counts in a SequenceNumber10.
NextMissingWrapped(buffer, ux) ==
  Sn(ux + MinOf({k \in 0 .. Modulus : Sn(ux + k) \notin DOMAIN buffer}))

DiscardedIfBuffered(sn) == sn \in DOMAIN rxBuffer
Discarded(sn) ==
  LET base == Base(vrUh) IN
    \/ /\ Off(vrUr, base) < Off(sn, base) /\ Off(sn, base) < Off(vrUh, base)
       /\ sn \in DOMAIN rxBuffer
    \/ Off(sn, base) < Off(vrUr, base)

\* t-Reordering has done its work: what it waited for has come or left the window.
StopsTimer(ux, ur, uh) ==
  \/ Off(ux, Base(uh)) <= Off(ur, Base(uh))
  \/ ~Inside(ux, uh) /\ ux # uh

RearmTimerNever(running, ur, uh) ==
  /\ timer' = running
  /\ vrUx' = vrUx
RearmTimer(running, ur, uh) ==
  LET start == ~running /\ Off(ur, Base(uh)) < Window
  IN  /\ timer' = (running \/ start)
      /\ vrUx' = IF start THEN uh ELSE vrUx

\* DoReceivePdu once the PDU is placed in the reception buffer.
Placed(pdu) ==
  LET buffer  == [sn \in DOMAIN rxBuffer \union {pdu.sn} |->
                    IF sn = pdu.sn THEN pdu ELSE rxBuffer[sn]]
      moves   == ~Inside(pdu.sn, vrUh)
      uh      == IF moves THEN Sn(pdu.sn + 1) ELSE vrUh
      old     == IF moves THEN Outside(buffer, uh) ELSE {}
      left    == Without(buffer, old)
      pulled  == moves /\ ~Inside(vrUr, uh)
      low     == IF pulled THEN Base(uh) ELSE vrUr
      ready   == low \in DOMAIN left
      high    == IF ready THEN NextMissing(left, low) ELSE low
      base    == Base(IF pulled THEN uh ELSE vrUh)
      run     == SnInterval(left, low, high, base)
      running == timer /\ ~StopsTimer(vrUx, high, uh)
  IN  /\ vrUh' = uh
      /\ vrUr' = high
      /\ rxBuffer' = Without(left, run)
      /\ reasm' = ReassembleAll(ReassembleAll(reasm, buffer, old, 0), left, run, low)
      /\ RearmTimer(running, high, uh)

\* DoReceivePdu.
Arrive(i) ==
  /\ inFlight' = RemoveAt(inFlight, i)
  /\ IF Discarded(inFlight[i].sn) THEN UNCHANGED <<window, reasm>> ELSE Placed(inFlight[i])
  /\ UNCHANGED <<perTimer, sent, seqNo, losses, damaged>>

\* t-Reordering may be too short for a PDU that is still on its way: it is given up.
ExpireReorderingTimer ==
  /\ timer
  /\ LET base == Base(vrUh)
         high == NextMissingWrapped(rxBuffer, vrUx)
         run  == SnInterval(rxBuffer, vrUr, high, base)
     IN  /\ vrUr' = high
         /\ rxBuffer' = Without(rxBuffer, run)
         /\ reasm' = ReassembleAll(reasm, rxBuffer, run, vrUr)
         /\ RearmTimer(FALSE, high, vrUh)
         /\ damaged' = damaged \union
              SdusOf({i \in DOMAIN inFlight : Off(inFlight[i].sn, base) < Off(high, base)})
  /\ UNCHANGED <<perTimer, sent, seqNo, inFlight, losses, vrUh>>

------------------------------------------------------------------------------
\* Everything before the first number has been sent and received.
Init ==
  /\ \E start \in Starts :
       /\ perTimer = start[2]
       /\ seqNo = start[1] /\ vrUr = start[1] /\ vrUx = start[1] /\ vrUh = start[1]
       /\ reasm = [expected |-> start[1], open |-> FALSE, keepS0 |-> <<>>,
                   sdus |-> <<>>, delivered |-> <<>>]
  /\ sent = 0 /\ inFlight = <<>> /\ losses = 0 /\ damaged = {}
  /\ rxBuffer = <<>> /\ timer = FALSE

Transport == \E i \in DOMAIN inFlight : Lose(i) \/ Arrive(i)

Next == (\E n \in 1..MaxTake : Send(n)) \/ Transport \/ ExpireReorderingTimer

\* A PDU is on its way for a bounded time, and a running timer expires: Transport and
\* ExpireReorderingTimer, told by the variables that no other action changes so.
Lands == \E i \in DOMAIN inFlight : inFlight' = RemoveAt(inFlight, i)
Expires == timer /\ inFlight' = inFlight /\ vrUr' \in 0..Modulus-1

Spec == Init /\ [][Next]_vars /\ WF_inFlight(Lands) /\ WF_vrUr(Expires)
------------------------------------------------------------------------------
(* Properties *)

\* Types.
TypeOK ==
  /\ {vrUr, vrUx, vrUh} \subseteq 0..Modulus-1
  /\ DOMAIN rxBuffer \subseteq 0..Modulus-1
  /\ \A sn \in DOMAIN rxBuffer : rxBuffer[sn].sn = sn
  /\ timer \in BOOLEAN /\ reasm.open \in BOOLEAN /\ reasm.expected \in 0..Modulus-1
  /\ sent \in 0..Len(Stream) /\ losses \in 0..MaxLost /\ damaged \subseteq 1..NumSdu

\* The number of the SDU whose parts these are, all of them and in their order.
Identity(item) ==
  IF \E d \in 1..NumSdu : item = SduParts(d) THEN item[1][1] ELSE 0

Delivered == [i \in DOMAIN reasm.delivered |-> Identity(reasm.delivered[i])]

InOrder == INSTANCE InOrderDelivery
             WITH handed <- IF sent = 0 THEN 0 ELSE Stream[sent][1], delivered <- Delivered

\* What the entity delivers, through losses, overtaking, wrapped sequence numbers and
\* a moving window, are whole SDUs, each at most once and in the order sent.
DeliversInOrder == InOrder!Spec

\* Between two events no PDU waits in the reception buffer without t-Reordering
\* running, and none that is older than VR(UR) or newer than VR(UH).
BufferIsCovered ==
  \A sn \in DOMAIN rxBuffer :
    /\ timer
    /\ Inside(sn, vrUh) /\ Off(vrUr, Base(vrUh)) <= Off(sn, Base(vrUh))

\* No m_sdusBuffer is carried over to the next PDU: the internal errors of
\* ReassembleAndDeliver do not occur.
NoFramingError == reasm.sdus = <<>>

\* When the buffer contains VR(UR), DoReceivePdu moves it to the first number that has
\* not been received: the next PDU to deliver is not left in the reception buffer.
\* Violated where the numbers wrap.
ReadyDelivered == vrUr \notin DOMAIN rxBuffer

\* When the window moves, all PDUs outside it are reassembled and removed.  Violated when
\* the window passes PDUs on both sides of the modulus: the older of them stay.
WindowFlushed == \A sn \in DOMAIN rxBuffer : Inside(sn, vrUh)

SentWhole(d) == sent > 0 /\ (Stream[sent][1] > d \/ Stream[sent] = <<d, Parts[d]>>)

\* Every SDU of which no part was lost, or overtaken for longer than t-Reordering, is
\* delivered in the end.
IntactAreDelivered ==
  \A d \in 1..NumSdu : SentWhole(d) ~> (d \in damaged \/ d \in Range(Delivered))
==============================================================================
