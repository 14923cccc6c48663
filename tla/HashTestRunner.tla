--------------------------- MODULE HashTestRunner ---------------------------
(***************************************************************************)
(* fuzzer/hashtest/hashtest_runner{,_main}.cc: TestMain, which runs tests  *)
(* on all CPUs at once to find those that compute wrongly, on top of the   *)
(* worker pool, one worker bound to each CPU.                              *)
(*                                                                         *)
(* For each corpus the director hands out three jobs: synthesize the tests,*)
(* compute the end states, run the tests. End states are computed three    *)
(* times, on CPUs as different as possible, because any CPU may be the bad *)
(* one. A bad CPU computes any hash it likes, every time; the others       *)
(* compute the right one. Time limits pass at any moment, and so does a    *)
(* signal; between two looks at the clock a worker may run any number of   *)
(* tests, as its estimate says.                                            *)
(***************************************************************************)
EXTENDS WorkerPool, Integers, Sequences, FiniteSetsExt

CONSTANTS
  NumTests, NumInputs, NumRepeat, BatchSize,  \* flags of the runner
  kMaxTestBytes,   \* room for the code of one test
  TestSizes,       \* what synthesis may need of it
  WrongHashes,     \* what a bad CPU may compute
  BadChoices,      \* sets of CPUs that may be bad
  MaxCorpora       \* corpora run before the time is up, at most

Right == "right"
CouldNotBeComputed == "none"   \* a hash of zero

ASSUME HashTestAssumption ==
  /\ Workers = 0 .. Cardinality(Workers) - 1 /\ Workers # {}
  /\ {NumTests, NumInputs, NumRepeat, BatchSize} \subseteq Nat \ {0}
  /\ kMaxTestBytes \in Nat /\ TestSizes \subseteq 1 .. kMaxTestBytes
  /\ CouldNotBeComputed \notin WrongHashes   \* "astronomically unlikely"
  /\ BadChoices \subseteq SUBSET Workers
  /\ MaxJobs = 1 + 3 * MaxCorpora

VARIABLES
  bad,          \* the CPUs that compute wrongly
  phase,        \* what the director is doing, see Phases
  code,         \* where the code of each test lies: [at, size]
  copies,       \* end_states, compare1 and compare2
  pos,          \* where each worker is in RunTests
  ready,        \* workers whose callback may return
  hits,         \* the CPUs in ResultReporter::hits
  failed,       \* workers with num_failed > 0 in this corpus
  hit_corpora,  \* a corpus counted test_instance_hit > 0
  corpus_over,  \* the time limit of this corpus has passed
  time_over,    \* the time limit of the test has passed
  stop_running,
  exit_code
hvars == <<bad, phase, code, copies, pos, ready, hits, failed, hit_corpora,
           corpus_over, time_over, stop_running, exit_code>>

Phases == {"bind", "main", "synthesize", "end_states", "run", "report"}
Tests == 0 .. NumTests - 1
Inputs == 0 .. NumInputs - 1
NoCode == [at |-> -1, size |-> 0]
NoEndStates == [t \in Tests |-> [i \in Inputs |-> CouldNotBeComputed]]

HashTestInit ==
  /\ Init
  /\ bad \in BadChoices
  /\ phase = "bind"
  /\ code = [t \in Tests |-> NoCode]
  /\ copies = [c \in 0 .. 2 |-> NoEndStates]
  /\ pos = [w \in Workers |-> 0]
  /\ ready = {} /\ hits = {} /\ failed = {} /\ hit_corpora = FALSE
  /\ corpus_over = FALSE /\ time_over = FALSE /\ stop_running = FALSE
  /\ exit_code = "none"

------------------------------------------------------------------------------
(* Partitions of the tests. *)

GetParition(index, num_tests, num_workers) ==
  LET remainder == num_tests % num_workers
      tests_in_chunk == num_tests \div num_workers
  IN IF index < remainder
     THEN [offset |-> index * (tests_in_chunk + 1), size |-> tests_in_chunk + 1]
     ELSE [offset |-> index * tests_in_chunk + remainder, size |-> tests_in_chunk]

PartitionOf(index) == GetParition(index, NumTests, Cardinality(Workers))
TestsOf(index) ==
  PartitionOf(index).offset .. PartitionOf(index).offset + PartitionOf(index).size - 1

\* Mutant: all copies of an end state are computed on one CPU.
Subtask_SameWorker(w, c) == TestsOf(w + 0 * c)

\* MakeSubtask: the tests whose copy c worker w computes.
Subtask(w, c) == TestsOf((w + c) % Cardinality(Workers))

\* The test and the input at a position of RunTests' sweep: batches, repeated,
\* inputs, tests of the batch.
Sweep == NumTests * NumInputs * NumRepeat
Position(p) ==
  LET per_batch == BatchSize * NumInputs * NumRepeat
      g == (p \div per_batch) * BatchSize
      batch == Min({BatchSize, NumTests - g})
      q == p % per_batch
  IN [test |-> g + (q % batch), input |-> (q \div batch) % NumInputs]

\* What a run of a test may compute on a CPU.
HashOn(w) == IF w \in bad THEN WrongHashes \cup {Right} ELSE {Right}

\* ReconcileEndState, for copies a, b, c.
ReconcileEndState(a, b, c) ==
  IF a = b \/ a = c THEN a ELSE IF b = c THEN b ELSE CouldNotBeComputed

ReconcileEndStates ==
  [t \in Tests |-> [i \in Inputs |->
     ReconcileEndState(copies[0][t][i], copies[1][t][i], copies[2][t][i])]]

------------------------------------------------------------------------------
(* The director. Each call of DoWork is a step of the pool. *)

BindWorkers ==
  /\ phase = "bind" /\ jobs = 0
  /\ DoWork
  /\ UNCHANGED hvars

\* DoWork has returned.
Returned == director = "idle"

MainLoopEnters ==
  /\ phase = "bind" /\ jobs = 1 /\ Returned
  /\ phase' = "main"
  /\ UNCHANGED <<vars, bad, code, copies, pos, ready, hits, failed, hit_corpora,
                 corpus_over, time_over, stop_running, exit_code>>

\* RunTestCorpus up to its first DoWork.
StartCorpus ==
  /\ phase = "main" /\ ~stop_running /\ ~time_over
  /\ phase' = "synthesize"
  /\ code' = [t \in Tests |-> NoCode]
  /\ ready' = {} /\ corpus_over' = FALSE
  /\ DoWork
  /\ UNCHANGED <<bad, copies, pos, hits, failed, hit_corpora, time_over,
                 stop_running, exit_code>>

DetermineEndStates ==
  /\ phase = "synthesize" /\ Returned
  /\ phase' = "end_states"
  /\ copies' = [c \in 0 .. 2 |-> NoEndStates]
  /\ ready' = {}
  /\ DoWork
  /\ UNCHANGED <<bad, code, pos, hits, failed, hit_corpora, corpus_over,
                 time_over, stop_running, exit_code>>

RunCorpus ==
  /\ phase = "end_states" /\ Returned
  /\ phase' = "run"
  /\ copies' = [c \in 0 .. 2 |-> IF c = 0 THEN ReconcileEndStates ELSE NoEndStates]
  /\ pos' = [w \in Workers |-> 0]
  /\ failed' = {} /\ ready' = {}
  /\ DoWork
  /\ UNCHANGED <<bad, code, hits, hit_corpora, corpus_over, time_over,
                 stop_running, exit_code>>

AggregateStats ==
  /\ phase = "run" /\ Returned
  /\ phase' = "main"
  /\ hit_corpora' = (hit_corpora \/ failed # {})
  /\ copies' = [c \in 0 .. 2 |-> NoEndStates]
  /\ UNCHANGED <<vars, bad, code, pos, ready, hits, failed, corpus_over,
                 time_over, stop_running, exit_code>>

\* The loop ends; results are printed.
Report ==
  /\ phase = "main" /\ (stop_running \/ time_over)
  /\ phase' = "report"
  /\ exit_code' = IF hit_corpora THEN "EXIT_FAILURE" ELSE "EXIT_SUCCESS"
  /\ UNCHANGED <<vars, bad, code, copies, pos, ready, hits, failed, hit_corpora,
                 corpus_over, time_over, stop_running>>

\* The pool goes out of scope.
LeaveTestMain ==
  /\ phase = "report"
  /\ Destroy
  /\ UNCHANGED hvars

------------------------------------------------------------------------------
(* The callbacks. *)

In(w, p) == phase = p /\ worker[w] = "busy" /\ w \notin ready

\* The bytes of the tests of w that were synthesized before t.
BytesBefore(w, size, t) ==
  {x \in TestsOf(w) \X (1 .. kMaxTestBytes) : x[1] < t /\ x[2] <= size[x[1]]}

Synthesize(w) ==
  /\ In(w, "synthesize")
  /\ \E size \in [TestsOf(w) -> TestSizes] :
       code' = [t \in Tests |->
                  IF t \in TestsOf(w)
                  THEN [at |-> PartitionOf(w).offset * kMaxTestBytes
                               + Cardinality(BytesBefore(w, size, t)),
                        size |-> size[t]]
                  ELSE code[t]]
  /\ ready' = ready \cup {w}
  /\ UNCHANGED <<vars, bad, phase, copies, pos, hits, failed, hit_corpora,
                 corpus_over, time_over, stop_running, exit_code>>

ComputeEndStates(w) ==
  /\ In(w, "end_states")
  /\ LET mine == {x \in (0 .. 2) \X Tests : x[2] \in Subtask(w, x[1])}
     IN \E hash \in [mine -> [Inputs -> HashOn(w)]] :
          copies' = [c \in 0 .. 2 |-> [t \in Tests |->
                       IF <<c, t>> \in mine THEN hash[<<c, t>>] ELSE copies[c][t]]]
  /\ ready' = ready \cup {w}
  /\ UNCHANGED <<vars, bad, phase, code, pos, hits, failed, hit_corpora,
                 corpus_over, time_over, stop_running, exit_code>>

\* The next test of the sweep, and the look at the clock and at the flag, if
\* it is time for one.
RunTest(w, look) ==
  LET at == Position(pos[w])
      expected == copies[0][at.test][at.input]
  IN /\ In(w, "run")
     /\ expected # CouldNotBeComputed
     /\ \E hash \in HashOn(w) :
          /\ hits' = IF hash = expected THEN hits ELSE hits \cup {w}
          /\ failed' = IF hash = expected THEN failed ELSE failed \cup {w}
     /\ LET over == look /\ (stop_running \/ corpus_over)
        IN /\ pos' = [pos EXCEPT ![w] = IF over THEN 0 ELSE (@ + 1) % Sweep]
           /\ ready' = IF over THEN ready \cup {w} ELSE ready
     /\ UNCHANGED <<vars, bad, phase, code, copies, hit_corpora, corpus_over,
                    time_over, stop_running, exit_code>>

\* A test without a known end state: neither run nor a reason to look.
SkipTest(w) ==
  LET at == Position(pos[w])
  IN /\ In(w, "run")
     /\ copies[0][at.test][at.input] = CouldNotBeComputed
     /\ pos' = [pos EXCEPT ![w] = (@ + 1) % Sweep]
     /\ UNCHANGED <<vars, bad, phase, code, copies, ready, hits, failed,
                    hit_corpora, corpus_over, time_over, stop_running, exit_code>>

\* The callback returns; SetCPUAffinity has nothing else to do.
CallbackReturns(w) ==
  /\ phase = "bind" \/ w \in ready
  /\ EndCallback(w)
  /\ UNCHANGED hvars

------------------------------------------------------------------------------
(* The environment. *)

\* The time of a corpus, never longer than what is left of the test's, may have
\* passed when the tests begin; nobody looks before.
CorpusTimePasses ==
  /\ phase = "run" /\ ~corpus_over
  /\ corpus_over' = TRUE
  /\ UNCHANGED <<vars, bad, phase, code, copies, pos, ready, hits, failed,
                 hit_corpora, time_over, stop_running, exit_code>>

\* Bound: the time is over after MaxCorpora corpora.
TimePasses ==
  /\ phase = "main" /\ ~time_over /\ (jobs > 1 \/ MaxCorpora = 0)
  /\ time_over' = TRUE
  /\ UNCHANGED <<vars, bad, phase, code, copies, pos, ready, hits, failed,
                 hit_corpora, corpus_over, stop_running, exit_code>>

\* SIGINT or SIGTERM.
StopRunning ==
  /\ phase \notin {"bind", "report"} /\ ~stop_running
  /\ stop_running' = TRUE
  /\ UNCHANGED <<vars, bad, phase, code, copies, pos, ready, hits, failed,
                 hit_corpora, corpus_over, time_over, exit_code>>

------------------------------------------------------------------------------
PoolDirectorStep == DirectorStep /\ UNCHANGED hvars
MainStep ==
  \/ BindWorkers \/ MainLoopEnters \/ StartCorpus \/ DetermineEndStates
  \/ RunCorpus \/ AggregateStats \/ Report \/ LeaveTestMain

PoolWorkerStep(w) ==
  (CheckIn(w) \/ WorkerSleeps(w) \/ NewEpoch(w) \/ StartCallback(w)) /\ UNCHANGED hvars
TestStep(w) ==
  \/ Synthesize(w) \/ ComputeEndStates(w) \/ RunTest(w, TRUE) \/ SkipTest(w)
  \/ CallbackReturns(w)

SpuriousWakeup ==
  (DirectorWakesUp \/ \E w \in Workers : WorkerWakesUp(w)) /\ UNCHANGED hvars

HashTestNext ==
  \/ PoolDirectorStep \/ MainStep
  \/ \E w \in Workers : PoolWorkerStep(w) \/ TestStep(w) \/ RunTest(w, FALSE)
  \/ SpuriousWakeup
  \/ CorpusTimePasses \/ TimePasses \/ StopRunning

HashTestSpec == HashTestInit /\ [][HashTestNext]_<<vars, hvars>>

\* Every thread that can go on does, a worker looks at the clock again and
\* again as long as it runs tests, and time passes.
HashTestFairSpec ==
  /\ HashTestSpec
  /\ WF_<<vars, hvars>>(PoolDirectorStep) /\ WF_<<vars, hvars>>(MainStep)
  /\ \A w \in Workers : WF_<<vars, hvars>>(PoolWorkerStep(w))
                        /\ WF_<<vars, hvars>>(TestStep(w))
                        /\ SF_<<vars, hvars>>(RunTest(w, TRUE))
  /\ WF_<<vars, hvars>>(CorpusTimePasses) /\ WF_<<vars, hvars>>(TimePasses)

------------------------------------------------------------------------------
(* Properties. *)

\* Each job finds what the one before it made: when the end states are
\* computed every test has its code, in memory no other test uses; when the
\* tests are run, all copies of all end states have been computed.
JobsFindTheirInput ==
  /\ phase = "end_states" =>
       \A t, u \in Tests :
         /\ code[t] # NoCode
         /\ code[t].at + code[t].size <= NumTests * kMaxTestBytes
         /\ t < u => code[t].at + code[t].size <= code[u].at
  /\ phase = "end_states" /\ director = "clear" =>
       \A c \in 0 .. 2, t \in Tests, i \in Inputs :
         copies[c][t][i] # CouldNotBeComputed

\* If at most one CPU computes wrongly and there are three or more, no other
\* CPU is ever suspected, however its results fall into the redundant
\* computation of the end states; and a failure is reported exactly if a CPU
\* is suspected.
OnlyBadCpusSuspected ==
  /\ Cardinality(bad) <= 1 /\ Cardinality(Workers) >= 3 =>
       hits \subseteq bad
  /\ exit_code # "none" => (exit_code = "EXIT_FAILURE" <=> hits # {})

\* No test has an end state to compare with.
NothingToRun ==
  phase = "run" /\ \A t \in Tests, i \in Inputs : copies[0][t][i] = CouldNotBeComputed

\* The runner ends once it was told to stop or its time is up, unless no end
\* state could be computed at all: then RunTests skips every test, never
\* looks at the clock or at the flag, and goes on for ever.
RunnerEnds == (stop_running \/ time_over) ~> (director = "gone" \/ NothingToRun)

------------------------------------------------------------------------------
(* Why no good CPU is suspected: the inductive invariant. *)

JobPhases == {"synthesize", "end_states", "run"}

\* Each call of DoWork ends with all workers done with the job.
BarrierInv ==
  /\ \A w \in Workers : current[w] <= jobs
  /\ director = "idle" /\ jobs > 0 =>
       \A w \in Workers : worker[w] = "wait" /\ current[w] = jobs

\* A worker that has done the job of a corpus has done its part of it.
SyncInv ==
  /\ phase = "main" => director = "idle" /\ jobs > 0
  /\ phase \in JobPhases =>
       /\ jobs > 0
       /\ \A w \in Workers : current[w] = jobs /\ worker[w] # "busy" => w \in ready

\* The code of a worker's tests, one test after the other in its own memory.
LaidOut(w) ==
  \A t \in TestsOf(w) :
    /\ code[t].at \in Nat /\ code[t].size \in Nat
    /\ PartitionOf(w).offset * kMaxTestBytes <= code[t].at
    /\ code[t].at + code[t].size <= (t + 1) * kMaxTestBytes
    /\ \A u \in TestsOf(w) : t < u => code[t].at + code[t].size <= code[u].at

CodeInv ==
  /\ phase = "synthesize" => \A w \in ready : LaidOut(w)
  /\ phase = "end_states" => \A w \in Workers : LaidOut(w)

\* The case in which the majority of three copies is right.
Reliable == Cardinality(bad) <= 1 /\ Cardinality(Workers) >= 3

CopiesInv ==
  /\ phase = "end_states" =>
       \A w \in ready, c \in 0 .. 2 : \A t \in Subtask(w, c), i \in Inputs :
         copies[c][t][i] \in HashOn(w)
  /\ phase = "run" /\ Reliable =>
       \A t \in Tests, i \in Inputs : copies[0][t][i] = Right

HitsInv ==
  /\ Reliable => hits \subseteq bad
  /\ hits # {} <=> hit_corpora \/ (phase = "run" /\ failed # {})
  /\ exit_code # "none" =>
       phase = "report" /\ (exit_code = "EXIT_FAILURE" <=> hits # {})

HashTestTypeOK ==
  /\ bad \in SUBSET Workers
  /\ phase \in Phases
  /\ ready \in SUBSET Workers
  /\ hit_corpora \in BOOLEAN
  /\ pos \in [Workers -> 0 .. Sweep - 1]

HashTestInv ==
  /\ PoolInv /\ HashTestTypeOK /\ BarrierInv /\ SyncInv /\ CodeInv /\ CopiesInv
  /\ HitsInv
=============================================================================
