--------------------------- MODULE TestRunnerProofs ---------------------------
(***************************************************************************)
(* Theorems about TestRunner, for every set of workers, every number of     *)
(* jobs and every choice of suites and skipped jobs.                        *)
(***************************************************************************)
EXTENDS TestRunner, TLAPS, FiniteSetTheorems, SequenceTheorems

(* How often a value occurs in a queue *)

\* The places of a value in a queue are finitely many, none only if it is absent.
LEMMA OccurrencesFinite ==
  ASSUME NEW S, NEW s \in Seq(S), NEW x
  PROVE  /\ IsFiniteSet({i \in DOMAIN s : s[i] = x})
         /\ Occurrences(s, x) \in Nat
         /\ Occurrences(s, x) = 0 => \A i \in 1..Len(s) : s[i] # x
<1> DEFINE places == {i \in DOMAIN s : s[i] = x}
<1>1. places \in SUBSET (1..Len(s)) /\ Len(s) \in Nat
  OBVIOUS
<1>2. IsFiniteSet(1..Len(s))
  BY <1>1, FS_Interval
<1>3. IsFiniteSet(places)
  <2> HIDE DEF places
  <2> QED BY <1>1, <1>2, FS_Subset
<1>4. Cardinality(places) \in Nat /\ (Cardinality(places) = 0 => places = {})
  <2> HIDE DEF places
  <2> QED BY <1>3, FS_CardinalityType, FS_EmptySet
<1>5. places = {} => \A i \in 1..Len(s) : s[i] # x
  OBVIOUS
<1> QED BY <1>3, <1>4, <1>5 DEF Occurrences

\* The places in a concatenation are those of the first queue and, shifted, those of
\* the second.
LEMMA OccurrencesConcat ==
  ASSUME NEW S, NEW s \in Seq(S), NEW t \in Seq(S), NEW x
  PROVE  Occurrences(s \o t, x) = Occurrences(s, x) + Occurrences(t, x)
<1> DEFINE P == {i \in DOMAIN s : s[i] = x}
           Q == {i \in DOMAIN t : t[i] = x}
           R == {i \in Len(s)+1 .. Len(s)+Len(t) : t[i - Len(s)] = x}
           shift == [i \in Q |-> i + Len(s)]
<1>1. Len(s) \in Nat /\ Len(t) \in Nat /\ DOMAIN s = 1..Len(s) /\ DOMAIN t = 1..Len(t)
  OBVIOUS
<1>2. {i \in DOMAIN (s \o t) : (s \o t)[i] = x} = P \union R
  <2>1. DOMAIN (s \o t) = 1..Len(s) + Len(t)
    BY <1>1, ConcatProperties
  <2>2. \A i \in 1..Len(s) + Len(t) :
           (s \o t)[i] = IF i <= Len(s) THEN s[i] ELSE t[i - Len(s)]
    BY ConcatProperties
  <2> QED BY <1>1, <2>1, <2>2
<1>3. P \intersect R = {}
  BY <1>1
<1>4. ExistsBijection(Q, R)
  <2>1. shift \in [Q -> R]
    BY <1>1
  <2>2. \A a, b \in Q : shift[a] = shift[b] => a = b
    BY <1>1
  <2>3. \A r \in R : \E q \in Q : shift[q] = r
    <3>1. SUFFICES ASSUME NEW r \in R PROVE \E q \in Q : shift[q] = r
      OBVIOUS
    <3>2. r - Len(s) \in Q /\ shift[r - Len(s)] = r
      BY <1>1
    <3> QED BY <3>2
  <2> HIDE DEF shift, Q, R
  <2> QED BY <2>1, <2>2, <2>3
       DEF ExistsBijection, Bijection, Injection, IsInjective, Surjection
<1>5. IsFiniteSet(P) /\ IsFiniteSet(Q)
  BY OccurrencesFinite
<1>6. Cardinality(P \union R) = Cardinality(P) + Cardinality(Q)
  <2> HIDE DEF P, Q, R
  <2>1. IsFiniteSet(R) /\ Cardinality(R) = Cardinality(Q)
    BY <1>4, <1>5, FS_Bijection
  <2>2. Cardinality(P \union R)
          = Cardinality(P) + Cardinality(R) - Cardinality(P \intersect R)
    BY <1>5, <2>1, FS_Union
  <2>3. Cardinality(P \intersect R) = 0
    BY <1>3, FS_EmptySet
  <2>4. Cardinality(P) \in Nat /\ Cardinality(Q) \in Nat
    BY <1>5, FS_CardinalityType
  <2> QED BY <2>1, <2>2, <2>3, <2>4
<1> QED BY <1>2, <1>6 DEF Occurrences

\* A queue that holds nothing else, like the pills of Poison, and one that does not
\* hold the value at all.
LEMMA OccurrencesConstant ==
  ASSUME NEW n \in Nat, NEW c, DOMAIN c = 1..n, NEW x
  PROVE  /\ (\A i \in 1..n : c[i] = x) => Occurrences(c, x) = n
         /\ (\A i \in 1..n : c[i] # x) => Occurrences(c, x) = 0
<1>1. Cardinality(1..n) = n /\ Cardinality({}) = 0
  BY FS_Interval, FS_EmptySet
<1>2. ASSUME \A i \in 1..n : c[i] = x PROVE {i \in DOMAIN c : c[i] = x} = 1..n
  BY <1>2
<1>3. ASSUME \A i \in 1..n : c[i] # x PROVE {i \in DOMAIN c : c[i] = x} = {}
  BY <1>3
<1> QED BY <1>1, <1>2, <1>3 DEF Occurrences

\* A queue of one value.
LEMMA OccurrencesSingle ==
  ASSUME NEW e, NEW x
  PROVE  /\ e = x => Occurrences(<<e>>, x) = 1
         /\ e # x => Occurrences(<<e>>, x) = 0
<1>1. ASSUME e = x PROVE {i \in DOMAIN <<e>> : <<e>>[i] = x} = {1}
  BY <1>1
<1>2. ASSUME e # x PROVE {i \in DOMAIN <<e>> : <<e>>[i] = x} = {}
  BY <1>2
<1> QED BY <1>1, <1>2, FS_Singleton, FS_EmptySet DEF Occurrences

\* An Append adds one occurrence of the value appended.
LEMMA OccurrencesAppend ==
  ASSUME NEW S, NEW s \in Seq(S), NEW e \in S, NEW x
  PROVE  /\ Append(s, e) \in Seq(S)
         /\ e = x => Occurrences(Append(s, e), x) = Occurrences(s, x) + 1
         /\ e # x => Occurrences(Append(s, e), x) = Occurrences(s, x)
<1>1. Append(s, e) = s \o <<e>> /\ <<e>> \in Seq(S) /\ Append(s, e) \in Seq(S)
  BY AppendIsConcat
<1>2. Occurrences(s \o <<e>>, x) = Occurrences(s, x) + Occurrences(<<e>>, x)
  BY <1>1, OccurrencesConcat
<1>3. Occurrences(s, x) \in Nat
  BY OccurrencesFinite
<1> QED BY <1>1, <1>2, <1>3, OccurrencesSingle

\* Taking the head removes one occurrence of it.
LEMMA OccurrencesTail ==
  ASSUME NEW S, NEW s \in Seq(S), s # <<>>, NEW x
  PROVE  /\ Head(s) \in S /\ Tail(s) \in Seq(S)
         /\ Head(s) = x => Occurrences(s, x) = Occurrences(Tail(s), x) + 1
         /\ Head(s) # x => Occurrences(s, x) = Occurrences(Tail(s), x)
<1> DEFINE h == Head(s)
           t == Tail(s)
<1>1. h \in S /\ t \in Seq(S)
  BY HeadTailProperties
<1>2. s = <<h>> \o t /\ <<h>> \in Seq(S)
  BY <1>1
<1> HIDE DEF h, t
<1>3. Occurrences(s, x) = Occurrences(<<h>>, x) + Occurrences(t, x)
  <2>1. Occurrences(<<h>> \o t, x) = Occurrences(<<h>>, x) + Occurrences(t, x)
    BY <1>1, <1>2, OccurrencesConcat
  <2> QED BY <1>2, <2>1
<1>4. Occurrences(t, x) \in Nat
  BY <1>1, OccurrencesFinite
<1>5. /\ h = x => Occurrences(s, x) = Occurrences(t, x) + 1
      /\ h # x => Occurrences(s, x) = Occurrences(t, x)
  BY <1>3, <1>4, OccurrencesSingle
<1> QED BY <1>1, <1>5 DEF h, t

------------------------------------------------------------------------------
(* What the workers hold *)

Holders(r, x) == {w \in Workers : r[w] = x}

\* A worker that goes from one value to another leaves the holders of the first and
\* joins those of the second.
LEMMA HoldersStep ==
  ASSUME NEW V, NEW r \in [Workers -> V], NEW w \in Workers, NEW v \in V,
         NEW q \in [Workers -> V], q[w] = v, \A u \in Workers \ {w} : q[u] = r[u], NEW x
  PROVE  /\ Cardinality(Holders(r, x)) \in Nat
         /\ r[w] # x /\ v # x => Cardinality(Holders(q, x)) = Cardinality(Holders(r, x))
         /\ r[w] # x /\ v = x => Cardinality(Holders(q, x)) = Cardinality(Holders(r, x)) + 1
         /\ r[w] = x /\ v # x => Cardinality(Holders(r, x)) = Cardinality(Holders(q, x)) + 1
         /\ r[w] = x /\ v = x => Cardinality(Holders(q, x)) = Cardinality(Holders(r, x))
<1> DEFINE H == Holders(r, x)
           G == Holders(q, x)
<1>1. H \in SUBSET Workers
  BY DEF Holders
<1>2. w \in H <=> r[w] = x
  BY DEF Holders
<1>3. (v = x => G = H \union {w}) /\ (v # x => G = H \ {w})
  BY DEF Holders
<1> HIDE DEF G, H
<1>4. IsFiniteSet(H) /\ Cardinality(H) \in Nat
  BY <1>1, RunnerAssumption, FS_Subset, FS_CardinalityType
<1>5. /\ w \in H => Cardinality(H \union {w}) = Cardinality(H)
      /\ w \notin H => Cardinality(H \union {w}) = Cardinality(H) + 1
      /\ w \in H => Cardinality(H \ {w}) = Cardinality(H) - 1
      /\ w \notin H => Cardinality(H \ {w}) = Cardinality(H)
  BY <1>4, FS_AddElement, FS_RemoveElement
<1>6. /\ r[w] # x /\ v # x => Cardinality(G) = Cardinality(H)
      /\ r[w] # x /\ v = x => Cardinality(G) = Cardinality(H) + 1
      /\ r[w] = x /\ v # x => Cardinality(H) = Cardinality(G) + 1
      /\ r[w] = x /\ v = x => Cardinality(G) = Cardinality(H)
  BY <1>2, <1>3, <1>4, <1>5
<1> QED BY <1>4, <1>6 DEF G, H

------------------------------------------------------------------------------
(* The inductive invariant *)

\* What the workers hold and the queues contain accounts for every job and pill;
\* what the main thread has noted of a job is what became of it; and it has given
\* out no pill before, and all of them after, its dispatching loops.
RunnerInv ==
  /\ TypeOK
  /\ ending \in [Jobs -> Endings \union {Unsettled}]
  /\ JobsConserved
  /\ CleanShutdown
  /\ pills = IF pc = "dispatch" THEN 0 ELSE NumPills
  /\ \A j \in Jobs :
       /\ status[j] = "PASS" => ending[j].code = 0 /\ ending[j].decodable
       /\ status[j] = "SKIP" => j \in Skipped
  /\ exitCode = 0 => pc = "done" /\ \A j \in Jobs : status[j] \in {"PASS", "SKIP"}

\* What the assumptions on jobs, suites and workers say about their numbers.
LEMMA Constants ==
  /\ Pill \notin Jobs /\ None \notin Jobs /\ Pill # None /\ NumPills \in Nat
  /\ Jobs \subseteq Nat /\ IsFiniteSet(Jobs) /\ Cardinality(Jobs) = NumJobs
<1>1. IsFiniteSet(1..NumJobs) /\ Cardinality(1..NumJobs) = NumJobs
  BY FS_Interval, RunnerAssumption
<1>2. NumPills \in Nat
  BY FS_CardinalityType, RunnerAssumption DEF NumPills
<1> QED BY <1>1, <1>2 DEF Pill, None, Jobs

\* The collector's verdict on a job, and when it calls the job passed or skipped.
LEMMA StatusOfType ==
  ASSUME NEW j \in Jobs
  PROVE  /\ StatusOf(j) \in {"BREAK", "SKIP", "PASS", "FAIL", "VALGR", "CRASH"}
         /\ StatusOf(j) = "PASS" => ending[j].code = 0 /\ ending[j].decodable
         /\ StatusOf(j) = "SKIP" => j \in Skipped
<1>1. CASE j \in isBreak
  BY <1>1 DEF StatusOf
<1>2. CASE j \notin isBreak /\ j \in Skipped
  BY <1>2 DEF StatusOf
<1>3. CASE j \notin isBreak /\ j \notin Skipped
  <2>1. StatusOf(j) = CASE ReturnCode(j) = 0 -> "PASS"
                        [] ReturnCode(j) = 1 -> "FAIL"
                        [] ReturnCode(j) = 2 -> "VALGR"
                        [] OTHER -> "CRASH"
    BY <1>3 DEF StatusOf
  <2>2. /\ StatusOf(j) \in {"PASS", "FAIL", "VALGR", "CRASH"}
        /\ StatusOf(j) = "PASS" => ReturnCode(j) = 0
    BY <2>1
  <2> QED BY <2>2 DEF ReturnCode
<1> QED BY <1>1, <1>2, <1>3

\* Every operation keeps the types.
LEMMA TypeStep ==
  ASSUME TypeOK, ending \in [Jobs -> Endings \union {Unsettled}], [Next]_vars
  PROVE  TypeOK' /\ (ending \in [Jobs -> Endings \union {Unsettled}])'
<1> USE Constants, RunnerAssumption
<1>1. CASE Dispatch
  <2>1. dispatched' \in 0..NumJobs /\ dispatched' \in Jobs
    BY <1>1 DEF Dispatch, MoreJobs, TypeOK, Jobs
  <2>2. inputQueue' \in Seq(Jobs \union {Pill})
    BY <1>1, <2>1 DEF Dispatch, TypeOK
  <2> QED BY <1>1, <2>1, <2>2 DEF Dispatch, TypeOK
<1>2. CASE Poison
  <2> DEFINE P == [i \in 1..NumPills |-> Pill]
  <2>1. P \in Seq(Jobs \union {Pill})
    OBVIOUS
  <2>2. inputQueue' \in Seq(Jobs \union {Pill})
    <3>1. inputQueue' = inputQueue \o P
      BY <1>2 DEF Poison
    <3> HIDE DEF P
    <3> QED BY <2>1, <3>1, ConcatProperties DEF TypeOK
  <2> QED BY <1>2, <2>2 DEF Poison, TypeOK
<1>3. CASE Collect
  <2>1. Head(outputQueue) \in Jobs /\ outputQueue' \in Seq(Jobs)
    BY <1>3, HeadTailProperties DEF Collect, TypeOK
  <2>2. StatusOf(Head(outputQueue)) \in {"BREAK", "SKIP", "PASS", "FAIL", "VALGR", "CRASH"}
    BY <2>1, StatusOfType
  <2>3. status' \in [Jobs -> {"NONE", "BREAK", "SKIP", "PASS", "FAIL", "VALGR", "CRASH"}]
    BY <1>3, <2>1, <2>2 DEF Collect, TypeOK
  <2> QED BY <1>3, <2>1, <2>3 DEF Collect, TypeOK
<1>4. CASE Join
  BY <1>4 DEF Join, TypeOK
<1>5. CASE Report
  BY <1>5 DEF Report, TypeOK
<1>6. CASE Sigint
  BY <1>6 DEF Sigint, TypeOK
<1>7. ASSUME NEW w \in Workers, Take(w) PROVE TypeOK' /\ UNCHANGED ending
  <2> DEFINE h == Head(inputQueue)
  <2>1. h \in Jobs \union {Pill} /\ inputQueue' \in Seq(Jobs \union {Pill})
    BY <1>7, HeadTailProperties DEF Take, TypeOK
  <2>2. outputQueue' \in Seq(Jobs)
    BY <1>7, <2>1 DEF Take, TypeOK
  <2>3. running' \in [Workers -> Jobs \union {Pill, None}] /\ isBreak' \subseteq Jobs
    BY <1>7, <2>1 DEF Take, TypeOK
  <2> QED BY <1>7, <2>1, <2>2, <2>3 DEF Take, TypeOK
<1>8. ASSUME NEW w \in Workers, Finish(w)
      PROVE  TypeOK' /\ (ending \in [Jobs -> Endings \union {Unsettled}])'
  <2>1. PICK e \in Endings : ending' = [ending EXCEPT ![running[w]] = e]
    BY <1>8 DEF Finish
  <2>2. ending' \in [Jobs -> Endings \union {Unsettled}]
    BY <2>1
  <2> QED BY <1>8, <2>2 DEF Finish, TypeOK
<1>9. CASE UNCHANGED vars
  BY <1>9 DEF vars, TypeOK
<1>10. Dispatch \/ Poison \/ Collect \/ Join \/ Report => UNCHANGED ending
  BY DEF Dispatch, Poison, Collect, Join, Report
<1>11. Sigint => UNCHANGED ending
  BY DEF Sigint
<1>12. UNCHANGED vars => UNCHANGED ending
  BY DEF vars
<1>13. UNCHANGED ending => (ending \in [Jobs -> Endings \union {Unsettled}])'
  OBVIOUS
<1> QED BY <1>1, <1>2, <1>3, <1>4, <1>5, <1>6, <1>7, <1>8, <1>9, <1>10, <1>11, <1>12, <1>13
        DEF Next, Main, Worker

\* The sums of JobsConserved, in the terms of the lemmas above.
Seen(j) == IF status[j] # "NONE" THEN 1 ELSE 0
Sent(j) == IF j <= dispatched THEN 1 ELSE 0
JobPlaced(j) ==
  Occurrences(inputQueue, j) + Occurrences(outputQueue, j)
    + Cardinality(Holders(running, j)) + Seen(j) = Sent(j)
PillsPlaced == pills = Occurrences(inputQueue, Pill) + Cardinality(Holders(running, Pill))

\* The parts of JobsConserved, one for the jobs and one for the pills.
LEMMA ConservedParts ==
  /\ JobsConserved <=> (\A j \in Jobs : JobPlaced(j)) /\ PillsPlaced
  /\ JobsConserved' <=> (\A j \in Jobs : JobPlaced(j)') /\ PillsPlaced'
BY DEF JobsConserved, JobPlaced, PillsPlaced, Seen, Sent, Holders

\* The number of places where a job is, and each of its summands, is a number.
LEMMA PlacesType ==
  ASSUME TypeOK, NEW x
  PROVE  /\ Occurrences(inputQueue, x) \in Nat /\ Occurrences(outputQueue, x) \in Nat
         /\ Cardinality(Holders(running, x)) \in Nat
         /\ Seen(x) \in {0, 1} /\ Sent(x) \in {0, 1}
<1>1. Occurrences(inputQueue, x) \in Nat /\ Occurrences(outputQueue, x) \in Nat
  BY OccurrencesFinite DEF TypeOK
<1>2. Holders(running, x) \in SUBSET Workers
  BY DEF Holders
<1>3. Cardinality(Holders(running, x)) \in Nat
  BY <1>2, RunnerAssumption, FS_Subset, FS_CardinalityType
<1> QED BY <1>1, <1>3 DEF Seen, Sent

\* A job that waits in a queue or runs is nowhere else, and not yet collected.
LEMMA PlacedOnce ==
  ASSUME TypeOK, JobsConserved, NEW j \in Jobs
  PROVE  /\ outputQueue # <<>> /\ j = Head(outputQueue) => status[j] = "NONE"
         /\ \A w \in Workers : running[w] = j => status[j] = "NONE"
         /\ status[j] # "NONE" =>
              Occurrences(inputQueue, j) = 0 /\ Occurrences(outputQueue, j) = 0
<1>1. JobPlaced(j)
  BY ConservedParts
<1>2. ASSUME outputQueue # <<>>, j = Head(outputQueue) PROVE Occurrences(outputQueue, j) # 0
  <2>1. outputQueue \in Seq(Jobs)
    BY DEF TypeOK
  <2>2. 1 \in 1..Len(outputQueue) /\ outputQueue[1] = j
    BY <1>2, <2>1
  <2> QED BY <2>1, <2>2, OccurrencesFinite
<1>3. ASSUME NEW w \in Workers, running[w] = j PROVE Cardinality(Holders(running, j)) # 0
  <2>1. w \in Holders(running, j) /\ Holders(running, j) \in SUBSET Workers
    BY <1>3 DEF Holders
  <2>2. IsFiniteSet(Holders(running, j))
    BY <2>1, RunnerAssumption, FS_Subset
  <2> QED BY <2>1, <2>2, FS_EmptySet
<1>4. status[j] # "NONE" => Seen(j) = 1
  BY DEF Seen
<1>5. status[j] # "NONE" =>
        /\ Occurrences(inputQueue, j) = 0 /\ Occurrences(outputQueue, j) = 0
        /\ Cardinality(Holders(running, j)) = 0
  BY <1>1, <1>4, PlacesType DEF JobPlaced
<1> QED BY <1>2, <1>3, <1>5

\* Every operation moves a job from one place to one other, and a pill to one worker.
LEMMA ConservedStep ==
  ASSUME TypeOK, JobsConserved, pills = IF pc = "dispatch" THEN 0 ELSE NumPills, [Next]_vars
  PROVE  JobsConserved'
<1> USE Constants
<1> DEFINE In(x)  == Occurrences(inputQueue, x)
           Out(x) == Occurrences(outputQueue, x)
           Run(x) == Cardinality(Holders(running, x))
<1>1. ASSUME UNCHANGED inputQueue PROVE \A x : In(x)' = In(x)
  BY <1>1
<1>2. ASSUME UNCHANGED outputQueue PROVE \A x : Out(x)' = Out(x)
  BY <1>2
<1>3. ASSUME UNCHANGED running PROVE \A x : Run(x)' = Run(x)
  BY <1>3 DEF Holders
<1>4. ASSUME UNCHANGED status PROVE \A x : Seen(x)' = Seen(x)
  BY <1>4 DEF Seen
<1>5. ASSUME UNCHANGED dispatched PROVE \A x : Sent(x)' = Sent(x)
  BY <1>5 DEF Sent
<1>6. /\ JobsConserved <=> /\ \A j \in Jobs : In(j) + Out(j) + Run(j) + Seen(j) = Sent(j)
                           /\ pills = In(Pill) + Run(Pill)
      /\ JobsConserved' <=>
           /\ \A j \in Jobs : In(j)' + Out(j)' + Run(j)' + Seen(j)' = Sent(j)'
           /\ pills' = In(Pill)' + Run(Pill)'
  BY ConservedParts DEF JobPlaced, PillsPlaced
<1>7. \A x : /\ In(x) \in Nat /\ Out(x) \in Nat /\ Run(x) \in Nat
             /\ Seen(x) \in {0, 1} /\ Sent(x) \in {0, 1}
  BY PlacesType
<1>8. /\ inputQueue \in Seq(Jobs \union {Pill}) /\ outputQueue \in Seq(Jobs)
      /\ running \in [Workers -> Jobs \union {Pill, None}]
  BY DEF TypeOK
<1>11. CASE Dispatch
  <2> DEFINE d == dispatched + 1
  <2>1. /\ inputQueue' = Append(inputQueue, d) /\ dispatched' = d /\ d \in Jobs
        /\ UNCHANGED <<pills, outputQueue, running, status>>
    BY <1>11, RunnerAssumption DEF Dispatch, MoreJobs, TypeOK, Jobs
  <2>2. \A x : (x = d => In(x)' = In(x) + 1) /\ (x # d => In(x)' = In(x))
    <3> SUFFICES ASSUME NEW x
                 PROVE  (x = d => In(x)' = In(x) + 1) /\ (x # d => In(x)' = In(x))
      OBVIOUS
    <3> HIDE DEF d
    <3> QED BY <1>8, <2>1, OccurrencesAppend
  <2>3. \A j \in Jobs : (j = d => Sent(j) = 0 /\ Sent(j)' = 1) /\ (j # d => Sent(j)' = Sent(j))
    BY <2>1 DEF Sent, TypeOK
  <2>4. Pill # d
    BY <2>1
  <2> HIDE DEF d, In, Out, Run
  <2>5. \A x : Out(x)' = Out(x) /\ Run(x)' = Run(x) /\ Seen(x)' = Seen(x)
    BY <1>2, <1>3, <1>4, <2>1
  <2>6. pills' = In(Pill)' + Run(Pill)'
    BY <1>6, <2>1, <2>2, <2>4, <2>5
  <2>7. ASSUME NEW j \in Jobs PROVE In(j)' + Out(j)' + Run(j)' + Seen(j)' = Sent(j)'
    <3>1. In(j) + Out(j) + Run(j) + Seen(j) = Sent(j)
      BY <1>6
    <3> QED BY <1>7, <2>2, <2>3, <2>5, <3>1
  <2> QED BY <1>6, <2>6, <2>7
<1>12. CASE Poison
  <2> DEFINE P == [i \in 1..NumPills |-> Pill]
  <2>1. /\ inputQueue' = inputQueue \o P /\ pills' = NumPills /\ pills = 0
        /\ UNCHANGED <<dispatched, outputQueue, running, status>>
    BY <1>12 DEF Poison
  <2>2. P \in Seq(Jobs \union {Pill}) /\ DOMAIN P = 1..NumPills /\ \A i \in 1..NumPills : P[i] = Pill
    OBVIOUS
  <2> HIDE DEF P
  <2>3. \A x : In(x)' = In(x) + Occurrences(P, x)
    BY <1>8, <2>1, <2>2, OccurrencesConcat
  <2>4. Occurrences(P, Pill) = NumPills /\ \A j \in Jobs : Occurrences(P, j) = 0
    <3>1. Occurrences(P, Pill) = NumPills
      BY <2>2, OccurrencesConstant
    <3>2. ASSUME NEW j \in Jobs PROVE Occurrences(P, j) = 0
      <4>1. \A i \in 1..NumPills : P[i] # j
        BY <2>2
      <4> QED BY <2>2, <4>1, OccurrencesConstant
    <3> QED BY <3>1, <3>2
  <2> HIDE DEF In, Out, Run
  <2>5. \A x : Out(x)' = Out(x) /\ Run(x)' = Run(x) /\ Seen(x)' = Seen(x) /\ Sent(x)' = Sent(x)
    BY <1>2, <1>3, <1>4, <1>5, <2>1
  <2>6. pills' = In(Pill)' + Run(Pill)'
    <3>1. 0 = In(Pill) + Run(Pill)
      BY <1>6, <2>1
    <3>2. In(Pill)' = In(Pill) + NumPills
      BY <2>3, <2>4
    <3> QED BY <1>7, <2>1, <2>5, <3>1, <3>2
  <2>7. ASSUME NEW j \in Jobs PROVE In(j)' + Out(j)' + Run(j)' + Seen(j)' = Sent(j)'
    <3>1. In(j)' = In(j) + 0
      BY <2>3, <2>4
    <3> QED BY <1>6, <1>7, <2>5, <3>1
  <2> QED BY <1>6, <2>6, <2>7
<1>13. CASE Collect
  <2> PICK h : h = Head(outputQueue)
    OBVIOUS
  <2>1. /\ outputQueue # <<>> /\ outputQueue' = Tail(outputQueue)
        /\ status' = [status EXCEPT ![h] = StatusOf(h)]
        /\ UNCHANGED <<dispatched, pills, inputQueue, running>>
    BY <1>13 DEF Collect
  <2>2. h \in Jobs
    BY <1>8, <2>1
  <2>3. \A x : (x = h => Out(x) = Out(x)' + 1) /\ (x # h => Out(x)' = Out(x))
    BY <1>8, <2>1, OccurrencesTail
  <2>4. \A j \in Jobs : (j = h => Seen(j) = 0 /\ Seen(j)' = 1) /\ (j # h => Seen(j)' = Seen(j))
    <3>1. status[h] = "NONE"
      BY <2>1, <2>2, PlacedOnce
    <3>2. StatusOf(h) # "NONE"
      BY <2>2, StatusOfType
    <3>3. status'[h] # "NONE" /\ \A j \in Jobs : j # h => status'[j] = status[j]
      BY <2>1, <2>2, <3>2 DEF TypeOK
    <3> QED BY <2>2, <3>1, <3>3 DEF Seen
  <2>5. Out(h)' \in Nat
    BY <1>8, <2>1, OccurrencesTail, OccurrencesFinite
  <2> HIDE DEF In, Out, Run
  <2>6. \A x : In(x)' = In(x) /\ Run(x)' = Run(x) /\ Sent(x)' = Sent(x)
    BY <1>1, <1>3, <1>5, <2>1
  <2>7. pills' = In(Pill)' + Run(Pill)'
    BY <1>6, <2>1, <2>6
  <2>8. ASSUME NEW j \in Jobs PROVE In(j)' + Out(j)' + Run(j)' + Seen(j)' = Sent(j)'
    <3>1. In(j) + Out(j) + Run(j) + Seen(j) = Sent(j)
      BY <1>6
    <3> QED BY <1>7, <2>3, <2>4, <2>5, <2>6, <3>1
  <2> QED BY <1>6, <2>7, <2>8
<1>14. ASSUME UNCHANGED <<dispatched, pills, inputQueue, outputQueue, running, status>>
       PROVE  JobsConserved'
  <2>1. \A x : /\ In(x)' = In(x) /\ Out(x)' = Out(x) /\ Run(x)' = Run(x)
               /\ Seen(x)' = Seen(x) /\ Sent(x)' = Sent(x)
    BY <1>1, <1>2, <1>3, <1>4, <1>5, <1>14
  <2> HIDE DEF In, Out, Run
  <2> QED BY <1>6, <1>14, <2>1
<1>15. ASSUME NEW w \in Workers, Take(w) PROVE JobsConserved'
  <2> PICK h : h = Head(inputQueue)
    OBVIOUS
  <2> PICK v : v = IF h = Pill THEN Pill ELSE IF Launches(h) THEN h ELSE None
    OBVIOUS
  <2>1. /\ running[w] = None /\ inputQueue # <<>> /\ inputQueue' = Tail(inputQueue)
        /\ running' = [running EXCEPT ![w] = v]
        /\ outputQueue' = IF h # Pill /\ Returned(h) THEN Append(outputQueue, h) ELSE outputQueue
        /\ UNCHANGED <<dispatched, pills, status>>
    BY <1>15 DEF Take
  <2>2. h \in Jobs \union {Pill} /\ v \in Jobs \union {Pill, None}
    BY <1>8, <2>1
  <2>3. \A x : (x = h => In(x) = In(x)' + 1) /\ (x # h => In(x)' = In(x))
    BY <1>8, <2>1, OccurrencesTail
  <2>4. In(h)' \in Nat
    BY <1>8, <2>1, OccurrencesTail, OccurrencesFinite
  <2>5. v = Pill \/ v = None \/ v = h
    OBVIOUS
  <2>6. v = Pill => h = Pill
    BY <2>2
  <2>7. v # h => h # Pill /\ Returned(h)
    BY DEF Launches
  <2>8. v = h => h = Pill \/ ~ Returned(h)
    BY <2>2 DEF Launches
  <2>9. \A x : Run(x)' \in Nat /\ (x # None /\ x = v => Run(x)' = Run(x) + 1) /\ (x # None /\ x # v => Run(x)' = Run(x))
    <3> DEFINE V == Jobs \union {Pill, None}
    <3> SUFFICES ASSUME NEW x
                 PROVE  Run(x)' \in Nat /\ (x # None /\ x = v => Run(x)' = Run(x) + 1)
                                      /\ (x # None /\ x # v => Run(x)' = Run(x))
      OBVIOUS
    <3>1. /\ running \in [Workers -> V] /\ v \in V /\ running' \in [Workers -> V]
          /\ running'[w] = v /\ \A u \in Workers \ {w} : running'[u] = running[u]
      BY <1>8, <2>1, <2>2
    <3> HIDE DEF V
    <3>2. Cardinality(Holders(running', x)) \in Nat
      BY <3>1, HoldersStep
    <3>3. running[w] = None
      BY <2>1
    <3> QED BY <3>1, <3>2, <3>3, HoldersStep
  <2>10. CASE v = h
    <3>1. \A x : Out(x)' = Out(x)
      BY <1>2, <2>1, <2>8, <2>10
    <3> HIDE DEF In, Out, Run
    <3>2. \A x : Seen(x)' = Seen(x) /\ Sent(x)' = Sent(x)
      BY <1>4, <1>5, <2>1
    <3>3. ASSUME NEW x, x # None PROVE In(x)' + Run(x)' = In(x) + Run(x)
      BY <1>7, <2>3, <2>4, <2>9, <2>10, <3>3
    <3>4. \A x : x # None => In(x)' \in Nat /\ Run(x)' \in Nat
      BY <1>7, <2>3, <2>4, <2>9
    <3>5. ASSUME NEW j \in Jobs PROVE In(j)' + Out(j)' + Run(j)' + Seen(j)' = Sent(j)'
      <4>1. In(j)' + Run(j)' = In(j) + Run(j) /\ In(j)' \in Nat /\ Run(j)' \in Nat
        BY <3>3, <3>4
      <4>2. In(j) + Out(j) + Run(j) + Seen(j) = Sent(j)
        BY <1>6
      <4>3. /\ Out(j)' = Out(j) /\ Seen(j)' = Seen(j) /\ Sent(j)' = Sent(j)
            /\ Out(j) \in Nat /\ Seen(j) \in Nat /\ In(j) \in Nat /\ Run(j) \in Nat
        BY <1>7, <3>1, <3>2
      <4> QED BY <4>1, <4>2, <4>3
    <3>6. pills' = In(Pill)' + Run(Pill)'
      BY <1>6, <2>1, <3>3
    <3> QED BY <1>6, <3>5, <3>6
  <2>11. CASE v # h
    <3>1. outputQueue' = Append(outputQueue, h) /\ h \in Jobs /\ v = None
      BY <2>1, <2>2, <2>5, <2>6, <2>7, <2>11
    <3>2. \A x : (x = h => Out(x)' = Out(x) + 1) /\ (x # h => Out(x)' = Out(x))
      BY <1>8, <3>1, OccurrencesAppend
    <3> HIDE DEF In, Out, Run
    <3>3. \A x : Seen(x)' = Seen(x) /\ Sent(x)' = Sent(x)
      BY <1>4, <1>5, <2>1
    <3>4. ASSUME NEW j \in Jobs PROVE In(j)' + Out(j)' + Run(j)' + Seen(j)' = Sent(j)'
      <4>1. In(j)' + Out(j)' = In(j) + Out(j) /\ In(j)' \in Nat /\ Out(j)' \in Nat
        BY <1>7, <2>3, <2>4, <3>2
      <4>2. Run(j)' = Run(j)
        BY <2>9, <3>1
      <4> QED BY <1>6, <1>7, <3>3, <4>1, <4>2
    <3>5. pills' = In(Pill)' + Run(Pill)'
      BY <1>6, <2>1, <2>3, <2>9, <3>1
    <3> QED BY <1>6, <3>4, <3>5
  <2> QED BY <2>10, <2>11
<1>16. ASSUME NEW w \in Workers, Finish(w) PROVE JobsConserved'
  <2> PICK r : r = running[w]
    OBVIOUS
  <2>1. /\ r \in Jobs /\ outputQueue' = Append(outputQueue, r)
        /\ running' = [running EXCEPT ![w] = None]
        /\ UNCHANGED <<dispatched, pills, inputQueue, status>>
    BY <1>16 DEF Finish
  <2>2. \A x : (x = r => Out(x)' = Out(x) + 1) /\ (x # r => Out(x)' = Out(x))
    BY <1>8, <2>1, OccurrencesAppend
  <2>3. \A x : /\ x # None /\ x = r => Run(x) = Run(x)' + 1
               /\ x # None /\ x # r => Run(x)' = Run(x)
    <3> DEFINE V == Jobs \union {Pill, None}
    <3> SUFFICES ASSUME NEW x, x # None
                 PROVE  (x = r => Run(x) = Run(x)' + 1) /\ (x # r => Run(x)' = Run(x))
      OBVIOUS
    <3>1. /\ running \in [Workers -> V] /\ None \in V /\ running' \in [Workers -> V]
          /\ running'[w] = None /\ \A u \in Workers \ {w} : running'[u] = running[u]
      BY <1>8, <2>1
    <3> HIDE DEF V
    <3> QED BY <3>1, HoldersStep
  <2>4. \A x : Run(x)' \in Nat
    <3> DEFINE V == Jobs \union {Pill, None}
    <3>1. /\ running \in [Workers -> V] /\ None \in V /\ running' \in [Workers -> V]
          /\ running'[w] = None /\ \A u \in Workers \ {w} : running'[u] = running[u]
      BY <1>8, <2>1
    <3> HIDE DEF V
    <3> QED BY <3>1, HoldersStep
  <2> HIDE DEF In, Out, Run
  <2>5. \A x : In(x)' = In(x) /\ Seen(x)' = Seen(x) /\ Sent(x)' = Sent(x)
    BY <1>1, <1>4, <1>5, <2>1
  <2>6. pills' = In(Pill)' + Run(Pill)'
    BY <1>6, <2>1, <2>3, <2>5
  <2>7. ASSUME NEW j \in Jobs PROVE In(j)' + Out(j)' + Run(j)' + Seen(j)' = Sent(j)'
    <3>1. Out(j)' + Run(j)' = Out(j) + Run(j) /\ Out(j)' \in Nat
      BY <1>7, <2>2, <2>3, <2>4
    <3> QED BY <1>6, <1>7, <2>4, <2>5, <3>1
  <2> QED BY <1>6, <2>6, <2>7
<1>17. Join \/ Report \/ Sigint \/ UNCHANGED vars
         => UNCHANGED <<dispatched, pills, inputQueue, outputQueue, running, status>>
  BY DEF Join, Report, Sigint, vars
<1> QED BY <1>11, <1>12, <1>13, <1>14, <1>15, <1>16, <1>17 DEF Next, Main, Worker

\* The loops over suites and examples are left with as many pills as there are workers.
LEMMA PillsStep ==
  ASSUME pills = IF pc = "dispatch" THEN 0 ELSE NumPills, [Next]_vars
  PROVE  pills' = IF pc' = "dispatch" THEN 0 ELSE NumPills
<1>1. Dispatch \/ Sigint \/ UNCHANGED vars => UNCHANGED <<pc, pills>>
  BY DEF Dispatch, Sigint, vars
<1>2. Poison => pc' = "collect" /\ pills' = NumPills
  BY DEF Poison
<1>3. Collect \/ Join \/ Report => pc # "dispatch" /\ pc' # "dispatch" /\ UNCHANGED pills
  BY DEF Collect, Join, Report
<1>4. ASSUME NEW w \in Workers, Worker(w) PROVE UNCHANGED <<pc, pills>>
  BY <1>4 DEF Worker, Take, Finish
<1> QED BY <1>1, <1>2, <1>3, <1>4 DEF Next, Main

\* When the last worker is joined, all pills are used up and every job is collected:
\* nothing can be left in either queue.
LEMMA JoinClean ==
  ASSUME TypeOK, JobsConserved, Join, pills = IF pc = "dispatch" THEN 0 ELSE NumPills
  PROVE  /\ inputQueue = <<>> /\ outputQueue = <<>>
         /\ \A j \in Jobs : status[j] # "NONE"
<1>1. \A j \in Jobs : status[j] # "NONE"
  <2>1. Collected \in SUBSET Jobs
    BY DEF Collected
  <2>2. Cardinality(Collected) = NumJobs
    BY DEF Join
  <2>3. Collected = Jobs
    BY <2>1, <2>2, Constants, FS_Subset
  <2> QED BY <2>3 DEF Collected
<1>2. Occurrences(inputQueue, Pill) = 0
  <2>1. Holders(running, Pill) = Workers
    BY DEF Join, WorkersJoined, Holders
  <2>2. pills = NumPills
    BY DEF Join
  <2>3. pills = Occurrences(inputQueue, Pill) + Cardinality(Workers)
    BY <2>1, ConservedParts DEF PillsPlaced
  <2> QED BY <2>2, <2>3, PlacesType, Constants DEF NumPills
<1>3. ASSUME NEW j \in Jobs
      PROVE  Occurrences(inputQueue, j) = 0 /\ Occurrences(outputQueue, j) = 0
  BY <1>1, PlacedOnce
<1>4. inputQueue \in Seq(Jobs \union {Pill}) /\ outputQueue \in Seq(Jobs)
  BY DEF TypeOK
<1>5. ASSUME inputQueue # <<>> PROVE FALSE
  <2>1. 1 \in 1..Len(inputQueue) /\ inputQueue[1] \in Jobs \union {Pill}
    BY <1>4, <1>5
  <2>2. Occurrences(inputQueue, inputQueue[1]) = 0
    BY <1>2, <1>3, <2>1
  <2> QED BY <1>4, <2>1, <2>2, OccurrencesFinite
<1>6. ASSUME outputQueue # <<>> PROVE FALSE
  <2>1. 1 \in 1..Len(outputQueue) /\ outputQueue[1] \in Jobs
    BY <1>4, <1>6
  <2>2. Occurrences(outputQueue, outputQueue[1]) = 0
    BY <1>3, <2>1
  <2> QED BY <1>4, <2>1, <2>2, OccurrencesFinite
<1> QED BY <1>1, <1>5, <1>6

\* Once every worker has its pill nothing can move any more.
LEMMA CleanStep ==
  ASSUME RunnerInv, [Next]_vars
  PROVE  CleanShutdown'
<1> USE DEF RunnerInv
<1>1. CASE Join
  <2>1. WorkersJoined /\ UNCHANGED <<inputQueue, outputQueue, running, status>>
    BY <1>1 DEF Join
  <2> QED BY <1>1, <2>1, JoinClean DEF WorkersJoined, CleanShutdown
<1>2. CASE Dispatch \/ Poison \/ Collect
  BY <1>2 DEF Dispatch, Poison, Collect, CleanShutdown
<1>3. CASE Report
  BY <1>3 DEF Report, CleanShutdown
<1>4. CASE Sigint \/ UNCHANGED vars
  BY <1>4 DEF Sigint, vars, CleanShutdown
<1>5. ASSUME NEW w \in Workers, Worker(w) PROVE CleanShutdown'
  <2>1. running[w] # Pill /\ UNCHANGED pc
    BY <1>5, Constants DEF Worker, Take, Finish
  <2> QED BY <2>1 DEF CleanShutdown
<1> QED BY <1>1, <1>2, <1>3, <1>4, <1>5 DEF Next, Main

\* The main thread judges a job after its process has ended for good: no later step
\* changes how it ended.
LEMMA StatusStep ==
  ASSUME RunnerInv, [Next]_vars, NEW j \in Jobs
  PROVE  /\ status'[j] = "PASS" => ending'[j].code = 0 /\ ending'[j].decodable
         /\ status'[j] = "SKIP" => j \in Skipped
<1> USE DEF RunnerInv
<1>1. CASE Collect
  <2> PICK h : h = Head(outputQueue)
    OBVIOUS
  <2>1. h \in Jobs /\ status' = [status EXCEPT ![h] = StatusOf(h)] /\ UNCHANGED ending
    BY <1>1 DEF Collect, TypeOK
  <2>2. CASE j = h
    <3>1. status'[j] = StatusOf(j)
      BY <2>1, <2>2 DEF TypeOK
    <3> QED BY <2>1, <3>1, StatusOfType
  <2>3. CASE j # h
    BY <2>1, <2>3
  <2> QED BY <2>2, <2>3
<1>2. ASSUME NEW w \in Workers, Finish(w)
      PROVE  /\ status'[j] = "PASS" => ending'[j].code = 0 /\ ending'[j].decodable
             /\ status'[j] = "SKIP" => j \in Skipped
  <2>1. PICK e \in Endings : ending' = [ending EXCEPT ![running[w]] = e]
    BY <1>2 DEF Finish
  <2>2. UNCHANGED status
    BY <1>2 DEF Finish
  <2>3. CASE running[w] = j
    <3>1. status[j] = "NONE"
      BY <2>3, PlacedOnce
    <3> QED BY <2>2, <3>1
  <2>4. CASE running[w] # j
    BY <2>1, <2>2, <2>4
  <2> QED BY <2>3, <2>4
<1>3. ASSUME UNCHANGED <<status, ending>>
      PROVE  /\ status'[j] = "PASS" => ending'[j].code = 0 /\ ending'[j].decodable
             /\ status'[j] = "SKIP" => j \in Skipped
  BY <1>3
<1>4. Dispatch \/ Poison \/ Join \/ Report \/ Sigint \/ UNCHANGED vars
        => UNCHANGED <<status, ending>>
  BY DEF Dispatch, Poison, Join, Report, Sigint, vars
<1>5. \A w \in Workers : Take(w) => UNCHANGED <<status, ending>>
  BY DEF Take
<1> QED BY <1>1, <1>2, <1>3, <1>4, <1>5 DEF Next, Main, Worker

\* As many jobs that passed or were skipped as there are jobs: there is no other.
LEMMA SuccessIsAll ==
  ASSUME Success
  PROVE  \A j \in Jobs : status[j] \in {"PASS", "SKIP"}
<1> DEFINE P == {j \in Jobs : status[j] = "PASS"}
           K == {j \in Jobs : status[j] = "SKIP"}
<1>1. P \in SUBSET Jobs /\ K \in SUBSET Jobs /\ P \intersect K = {}
  OBVIOUS
<1>2. Cardinality(P) + Cardinality(K) = NumJobs
  BY DEF Success, Count
<1> HIDE DEF P, K
<1>3. IsFiniteSet(P) /\ IsFiniteSet(K) /\ Cardinality(P) \in Nat /\ Cardinality(K) \in Nat
  BY <1>1, Constants, FS_Subset, FS_CardinalityType
<1>4. Cardinality(P \union K) = Cardinality(P) + Cardinality(K) - Cardinality(P \intersect K)
  BY <1>3, FS_Union
<1>5. Cardinality(P \intersect K) = 0
  BY <1>1, FS_EmptySet
<1>6. P \union K = Jobs
  <2>1. P \union K \in SUBSET Jobs
    BY <1>1
  <2>2. Cardinality(P \union K) = Cardinality(Jobs)
    BY <1>2, <1>3, <1>4, <1>5, Constants
  <2> QED BY <2>1, <2>2, Constants, FS_Subset
<1> QED BY <1>6 DEF P, K

\* The exit code is 0 only at the end, and of a run without a bad job.
LEMMA ExitStep ==
  ASSUME RunnerInv, [Next]_vars
  PROVE  exitCode' = 0 => pc' = "done" /\ \A j \in Jobs : status'[j] \in {"PASS", "SKIP"}
<1> USE DEF RunnerInv
<1>1. CASE Report
  BY <1>1, SuccessIsAll DEF Report
<1>2. CASE Collect
  BY <1>2 DEF Collect
<1>3. Dispatch \/ Poison \/ Join => pc # "done" /\ UNCHANGED exitCode
  BY DEF Dispatch, Poison, Join
<1>4. Sigint \/ UNCHANGED vars => UNCHANGED <<exitCode, pc, status>>
  BY DEF Sigint, vars
<1>5. \A w \in Workers : Worker(w) => UNCHANGED <<exitCode, pc, status>>
  BY DEF Worker, Take, Finish
<1> QED BY <1>1, <1>2, <1>3, <1>4, <1>5 DEF Next, Main

------------------------------------------------------------------------------
(* The theorems *)

\* Before the first dispatch nothing is queued, running or counted.
LEMMA RunnerInvInit == Init => RunnerInv
<1> SUFFICES ASSUME Init PROVE RunnerInv
  OBVIOUS
<1>1. TypeOK /\ ending \in [Jobs -> Endings \union {Unsettled}]
  <2>1. inputQueue \in Seq(Jobs \union {Pill}) /\ outputQueue \in Seq(Jobs)
    BY DEF Init
  <2>2. /\ running \in [Workers -> Jobs \union {Pill, None}]
        /\ ending \in [Jobs -> Endings \union {Unsettled}]
        /\ status \in [Jobs -> {"NONE", "BREAK", "SKIP", "PASS", "FAIL", "VALGR", "CRASH"}]
    BY DEF Init
  <2>3. dispatched \in 0..NumJobs /\ pills \in {0, NumPills} /\ exitCode \in {None, 0, 1}
    BY RunnerAssumption DEF Init
  <2> QED BY <2>1, <2>2, <2>3 DEF Init, TypeOK
<1>2. JobsConserved
  <2>1. \A x : Occurrences(inputQueue, x) = 0 /\ Occurrences(outputQueue, x) = 0
    <3>1. \A x : {i \in DOMAIN <<>> : <<>>[i] = x} = {}
      OBVIOUS
    <3> QED BY <3>1, FS_EmptySet DEF Init, Occurrences
  <2>2. \A x : x # None => Cardinality(Holders(running, x)) = 0
    <3>1. \A x : x # None => Holders(running, x) = {}
      BY DEF Init, Holders
    <3> QED BY <3>1, FS_EmptySet
  <2>3. ASSUME NEW j \in Jobs PROVE JobPlaced(j)
    <3>1. Seen(j) = 0 /\ Sent(j) = 0
      BY DEF Init, Seen, Sent, Jobs
    <3> QED BY <2>1, <2>2, <3>1, Constants DEF JobPlaced
  <2>4. PillsPlaced
    BY <2>1, <2>2, Constants DEF Init, PillsPlaced
  <2> QED BY <2>3, <2>4, ConservedParts
<1> QED BY <1>1, <1>2 DEF Init, RunnerInv, CleanShutdown, None

\* Every step of the main thread, of a worker and of Control-C keeps the invariant.
LEMMA RunnerInvStep == RunnerInv /\ [Next]_vars => RunnerInv'
<1> SUFFICES ASSUME RunnerInv, [Next]_vars PROVE RunnerInv'
  OBVIOUS
<1>1. TypeOK' /\ (ending \in [Jobs -> Endings \union {Unsettled}])'
  BY TypeStep DEF RunnerInv
<1>2. JobsConserved'
  BY ConservedStep DEF RunnerInv
<1>3. pills' = IF pc' = "dispatch" THEN 0 ELSE NumPills
  BY PillsStep DEF RunnerInv
<1> QED BY <1>1, <1>2, <1>3, CleanStep, StatusStep, ExitStep DEF RunnerInv

\* The invariant holds in every state test.py can reach.
THEOREM RunnerInvariance == Spec => []RunnerInv
BY RunnerInvInit, RunnerInvStep, PTL DEF Spec

\* Every variable of test.py's main thread and workers keeps its type.
THEOREM TypeCorrect == Spec => []TypeOK
<1>1. RunnerInv => TypeOK
  BY DEF RunnerInv
<1> QED BY <1>1, RunnerInvariance, PTL

\* However the threads interleave, and whenever Control-C comes, no job that was put
\* into the input queue is lost or handled twice, and no pill is missing.
THEOREM JobsAreConserved == Spec => []JobsConserved
<1>1. RunnerInv => JobsConserved
  BY DEF RunnerInv
<1> QED BY <1>1, RunnerInvariance, PTL

\* Exit code 0 means that every process was run to its end and passed.
THEOREM SuccessMeansPassed == Spec => []SuccessIsEarned
<1>1. RunnerInv => SuccessIsEarned
  BY DEF RunnerInv, SuccessIsEarned
<1> QED BY <1>1, RunnerInvariance, PTL

\* The temporary files are removed when nothing is left that could use them.
THEOREM ShutdownIsClean == Spec => []CleanShutdown
<1>1. RunnerInv => CleanShutdown
  BY DEF RunnerInv
<1> QED BY <1>1, RunnerInvariance, PTL

===============================================================================
