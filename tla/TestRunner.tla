------------------------------ MODULE TestRunner ------------------------------
(***************************************************************************)
(* test.py, which runs the test suites and examples of the repository: a    *)
(* main thread that dispatches jobs, worker threads that run one process at *)
(* a time, the two queues between them, and Control-C.                      *)
(***************************************************************************)
EXTENDS Integers, Sequences, FiniteSets

CONSTANTS
  Workers,     (* worker threads, one per processor                         *)
  NumJobs,     (* jobs dispatched: suites, examples, Python examples        *)
  Suites,      (* those that are test suites and write an XML file          *)
  Skipped      (* those dispatched only to be reported as skipped           *)

Jobs == 1..NumJobs

ASSUME RunnerAssumption ==
  /\ IsFiniteSet(Workers) /\ Workers # {} /\ NumJobs \in Nat
  /\ Suites \subseteq Jobs /\ Skipped \subseteq Jobs

Pill == 0      (* a job with is_break set by the main thread *)
None == -1
Crash == 139   (* any return code but 0, 1 and 2 *)

\* How a process ends: its code, whether its output can be decoded, and whether it
\* left its XML file, perhaps an unfinished one.
Endings ==
  { e \in [code : {0, 1, 2, Crash}, decodable : BOOLEAN, xml : BOOLEAN] :
      e.code # Crash => e.xml }

VARIABLES
  pc,            (* main thread: what it does next                          *)
  dispatched,    (* jobs put into the input queue so far                    *)
  pills,         (* pills put into it                                       *)
  inputQueue, outputQueue,
  running,       (* [Workers -> the job whose process runs; None; Pill for a
                    worker that has ended]                                  *)
  isBreak,       (* jobs that came back with is_break set                   *)
  ending,        (* how the process of each job ended; its job.returncode
                    and its temporary file follow                           *)
  status,        (* what the main thread has made of each job               *)
  threadExit,    (* thread_exit, set by sigint_hook                         *)
  exitCode

vars == <<pc, dispatched, pills, inputQueue, outputQueue, running, isBreak, ending,
          status, threadExit, exitCode>>

Unsettled == [code |-> None, decodable |-> TRUE, xml |-> FALSE]

Init ==
  /\ pc = "dispatch" /\ dispatched = 0 /\ pills = 0
  /\ inputQueue = <<>> /\ outputQueue = <<>>
  /\ running = [w \in Workers |-> None]
  /\ isBreak = {} /\ ending = [j \in Jobs |-> Unsettled]
  /\ status = [j \in Jobs |-> "NONE"]
  /\ threadExit = FALSE /\ exitCode = None

------------------------------------------------------------------------------
(* Main thread *)

\* The loops over suites and examples: put the next job.
MoreJobsOneTooMany == dispatched <= NumJobs
MoreJobs == dispatched < NumJobs

Dispatch ==
  /\ pc = "dispatch" /\ MoreJobs
  /\ dispatched' = dispatched + 1
  /\ inputQueue' = Append(inputQueue, dispatched')
  /\ UNCHANGED <<pc, pills, outputQueue, running, isBreak, ending, status, threadExit, exitCode>>

\* One pill for each worker.
NumPillsTooFew == Cardinality(Workers) - 1
NumPills == Cardinality(Workers)

Poison ==
  /\ pc = "dispatch" /\ ~MoreJobs
  /\ inputQueue' = inputQueue \o [i \in 1..NumPills |-> Pill]
  /\ pills' = NumPills /\ pc' = "collect"
  /\ UNCHANGED <<dispatched, outputQueue, running, isBreak, ending, status, threadExit, exitCode>>

\* run_job_synchronously gives 1 for a process whose output it cannot decode.
ReturnCode(j) == IF ending[j].decodable THEN ending[j].code ELSE 1

StatusOf(j) ==
  IF j \in isBreak THEN "BREAK"
  ELSE IF j \in Skipped THEN "SKIP"
  ELSE CASE ReturnCode(j) = 0 -> "PASS"
         [] ReturnCode(j) = 1 -> "FAIL"
         [] ReturnCode(j) = 2 -> "VALGR"
         [] OTHER -> "CRASH"

Collected == {j \in Jobs : status[j] # "NONE"}

\* The XML file of a suite that did not crash is appended to the results; opening it
\* raises an exception when there is none.
Raises(j) ==
  /\ j \in Suites /\ StatusOf(j) \in {"PASS", "FAIL", "VALGR"}
  /\ ~ending[j].xml

Collect ==
  /\ pc = "collect" /\ outputQueue # <<>>
  /\ LET j == Head(outputQueue) IN
       /\ status' = [status EXCEPT ![j] = StatusOf(j)]
       /\ pc' = IF Raises(j) THEN "raised" ELSE pc
       /\ exitCode' = IF Raises(j) THEN 1 ELSE exitCode
  /\ outputQueue' = Tail(outputQueue)
  /\ UNCHANGED <<dispatched, pills, inputQueue, running, isBreak, ending, threadExit>>

\* thread.join of every worker, once the loop has collected as many jobs as there are.
WorkersIdle == \A w \in Workers : running[w] \in {Pill, None}
WorkersJoined == \A w \in Workers : running[w] = Pill

Join ==
  /\ pc = "collect" /\ Cardinality(Collected) = NumJobs
  /\ WorkersJoined
  /\ pc' = "report"
  /\ UNCHANGED <<dispatched, pills, inputQueue, outputQueue, running, isBreak, ending,
                 status, threadExit, exitCode>>

Count(s) == Cardinality({j \in Jobs : status[j] = s})
SuccessUnlessBad == Count("FAIL") + Count("CRASH") + Count("VALGR") = 0
Success == Count("PASS") + Count("SKIP") = NumJobs

\* Summary, removal of the temporary files, exit.
Report ==
  /\ pc = "report"
  /\ exitCode' = (IF Success THEN 0 ELSE 1)
  /\ pc' = "done"
  /\ UNCHANGED <<dispatched, pills, inputQueue, outputQueue, running, isBreak, ending,
                 status, threadExit>>

\* sigint_hook: at any time until the program ends.
Sigint ==
  /\ ~threadExit /\ pc # "done"
  /\ threadExit' = TRUE
  /\ UNCHANGED <<pc, dispatched, pills, inputQueue, outputQueue, running, isBreak, ending,
                 status, exitCode>>

Main == Dispatch \/ Poison \/ Collect \/ Join \/ Report

------------------------------------------------------------------------------
(* Worker threads *)

\* The loop of run takes a job: a pill ends it; after Control-C, or to be skipped, the job
\* goes straight back; otherwise its process is launched.
Returned(j) == threadExit \/ j \in Skipped
LaunchesNotSkipped(j) == j \notin Skipped
Launches(j) == ~Returned(j)

Take(w) ==
  /\ running[w] = None /\ inputQueue # <<>>
  /\ LET j == Head(inputQueue) IN
       /\ running' = [running EXCEPT ![w] =
                        IF j = Pill THEN Pill ELSE IF Launches(j) THEN j ELSE None]
       /\ isBreak' = IF j # Pill /\ threadExit THEN isBreak \union {j} ELSE isBreak
       /\ outputQueue' = IF j # Pill /\ Returned(j) THEN Append(outputQueue, j) ELSE outputQueue
  /\ inputQueue' = Tail(inputQueue)
  /\ UNCHANGED <<pc, dispatched, pills, ending, status, threadExit, exitCode>>

\* The process ends and its job goes to the output queue.
Finish(w) ==
  /\ running[w] \in Jobs
  /\ \E e \in Endings : ending' = [ending EXCEPT ![running[w]] = e]
  /\ outputQueue' = Append(outputQueue, running[w])
  /\ running' = [running EXCEPT ![w] = None]
  /\ UNCHANGED <<pc, dispatched, pills, inputQueue, isBreak, status, threadExit, exitCode>>

Worker(w) == Take(w) \/ Finish(w)

Next == Main \/ Sigint \/ \E w \in Workers : Worker(w)

\* Threads are scheduled and processes end.
Spec == Init /\ [][Next]_vars /\ WF_vars(Main) /\ \A w \in Workers : WF_vars(Worker(w))
------------------------------------------------------------------------------
(* Properties *)

\* Types.
TypeOK ==
  /\ pc \in {"dispatch", "collect", "raised", "report", "done"}
  /\ dispatched \in 0..NumJobs /\ pills \in {0, NumPills}
  /\ inputQueue \in Seq(Jobs \union {Pill}) /\ outputQueue \in Seq(Jobs)
  /\ running \in [Workers -> Jobs \union {Pill, None}]
  /\ isBreak \subseteq Jobs /\ threadExit \in BOOLEAN /\ exitCode \in {None, 0, 1}
  /\ status \in [Jobs -> {"NONE", "BREAK", "SKIP", "PASS", "FAIL", "VALGR", "CRASH"}]

Occurrences(queue, j) == Cardinality({i \in DOMAIN queue : queue[i] = j})

\* A dispatched job is in one place, once: in the input queue, with a worker, in the output
\* queue, or collected; and each worker has had its pill or one waits for it.
JobsConserved ==
  /\ \A j \in Jobs :
       Occurrences(inputQueue, j) + Occurrences(outputQueue, j)
         + Cardinality({w \in Workers : running[w] = j})
         + (IF status[j] # "NONE" THEN 1 ELSE 0) = (IF j <= dispatched THEN 1 ELSE 0)
  /\ pills = Occurrences(inputQueue, Pill) + Cardinality({w \in Workers : running[w] = Pill})

\* The program reports success only if every process was run, to the end, and ended
\* with 0 and readable output; one job thrown back after Control-C is enough to fail.
SuccessIsEarned ==
  exitCode = 0 =>
    \A j \in Jobs \ Skipped : ending[j].code = 0 /\ ending[j].decodable

\* When the temporary files are removed, no process runs that could still write there,
\* no worker is left, and no result waits to be collected.
CleanShutdown ==
  pc \in {"report", "done"} =>
    /\ inputQueue = <<>> /\ outputQueue = <<>>
    /\ \A w \in Workers : running[w] = Pill
    /\ \A j \in Jobs : status[j] # "NONE"

\* The program ends, Control-C or not, exceptions in the main thread included: every
\* worker comes to its pill and the main thread leaves its loops.
Terminates == <>(pc \in {"done", "raised"} /\ \A w \in Workers : running[w] = Pill)
==============================================================================
