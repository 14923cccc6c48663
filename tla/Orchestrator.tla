---------------------------- MODULE Orchestrator ----------------------------
(***************************************************************************)
(* orchestrator/silifuzz_orchestrator.{h,cc} and OrchestratorMain: worker  *)
(* threads that run runner processes, a bounded queue of results guarded   *)
(* by one mutex, the event loop of the main thread that feeds the results  *)
(* to the ResultCollector, and the shutdown: a stop flag, a deadline, a    *)
(* signal, an optional watchdog.                                           *)
(*                                                                         *)
(* A step is one critical section of mu_ or one read or write of the       *)
(* atomic stop flag or of the clock.  Time is the predicate "the deadline  *)
(* has passed", which becomes true at any moment or never.                 *)
(***************************************************************************)
EXTENDS ResultCollector, SpanUtil, FiniteSets

CONSTANTS
    NumThreads,     \* num_threads, after the cap to the CPUs and to 1 if Sequential
    NumCpus,        \* CPUs in the affinity mask
    NumShards,      \* shards of the loaded corpus
    Sequential,     \* --sequential_mode
    HasWatchdog,    \* --watchdog_allowed_overrun > 0
    MaxRuns         \* bound: runner processes started in a session

ASSUME OrchestratorAssumption ==
    /\ NumThreads \in Nat \ {0}
    /\ NumCpus \in Nat /\ NumCpus >= NumThreads
    /\ NumShards \in Nat \ {0}
    /\ Sequential \in BOOLEAN
    /\ Sequential => NumThreads = 1
    /\ HasWatchdog \in BOOLEAN
    /\ MaxRuns \in Nat

Threads == 0..(NumThreads - 1)
Shards == 0..(NumShards - 1)
kEndOfStream == -1

VARIABLES
    mpc,        \* where the main thread is
    spawned,    \* number of worker threads created
    tpc,        \* where each worker thread is
    iteration,  \* RunnerThread: iteration
    next_index, \* NextCorpusGenerator::next_index_ of the thread
    result,     \* the result a thread is about to offer, "ok" elsewhere
    stop_execution,
    expired,    \* absl::Now() > deadline_
    notified,   \* a release of mu_ found ShouldWakeUp() true while main waits
    queue,      \* invocation_results_
    batch,      \* current_results of EventLoop
    session_logging, \* SessionLoggingEnabled(), sampled once
    exit_code   \* "none" while running; "success" and "failure" are the two
                \* last returns of OrchestratorMain, "error" is EXIT_FAILURE of
                \* an earlier one, "watchdog" is its _exit(EXIT_SUCCESS)

\* History: what the properties compare the state with.
VARIABLES
    accepted,   \* every result OfferRunResult enqueued, in order
    dropped,    \* number of results it rejected
    played,     \* shards a runner was started with
    late,       \* runs each thread started after ShouldStop() became true
    interrupted \* SIGINT or SIGALRM was delivered

mainVars == <<mpc, spawned, session_logging, exit_code>>
threadVars == <<tpc, iteration, next_index, result>>
stopVars == <<stop_execution, expired, interrupted>>
queueVars == <<queue, batch, notified, accepted, dropped>>
runVars == <<played, late>>
vars == <<mainVars, threadVars, stopVars, queueVars, runVars, collectorVars>>

MainStates == {"setup", "session_start", "spawn", "loop", "lock", "wait",
               "process", "join", "drain", "summary", "return", "exited"}
ThreadStates == {"unborn", "check", "budget", "running", "offer", "stopping",
                 "done"}

-----------------------------------------------------------------------------
(* Helpers of the code                                                       *)

Alive == mpc # "exited"

\* ExecutionContext::ShouldStop
ShouldStop == stop_execution \/ expired

\* ExecutionContext::ShouldWakeUp
ShouldWakeUp == queue # <<>> \/ ShouldStop

\* The CPU of the thread's current iteration: cpus[iteration % cpus.size()].
TargetCpu(t) ==
    SpanBegin(NumCpus, NumThreads)[t]
      + (iteration[t] % SpanSize(NumCpus, NumThreads, t))

\* Mutant: the last shard is never returned.
NextCorpus_SkipsLast(t) ==
    IF Sequential
    THEN {IF next_index[t] < NumShards - 1 THEN next_index[t] ELSE kEndOfStream}
    ELSE Shards

\* NextCorpusGenerator::operator(): the values it may return.
NextCorpus(t) ==
    IF Sequential
    THEN {IF next_index[t] < NumShards THEN next_index[t] ELSE kEndOfStream}
    ELSE Shards

-----------------------------------------------------------------------------
Init ==
    /\ CollectorInit
    /\ session_logging \in BOOLEAN
    /\ session_logging => producer # "null"
    /\ mpc = "setup"
    /\ spawned = 0
    /\ tpc = [t \in Threads |-> "unborn"]
    /\ iteration = [t \in Threads |-> 0]
    /\ next_index = [t \in Threads |-> 0]
    /\ result = [t \in Threads |-> "ok"]
    /\ stop_execution = FALSE
    /\ expired = FALSE
    /\ notified = FALSE
    /\ queue = <<>>
    /\ batch = <<>>
    /\ exit_code = "none"
    /\ accepted = <<>>
    /\ dropped = 0
    /\ played = {}
    /\ late = [t \in Threads |-> 0]
    /\ interrupted = FALSE

-----------------------------------------------------------------------------
(* OrchestratorMain                                                          *)

\* LoadRuntimeMetadata, LoadCorpora or ValidateCorpus fails.
SetupFails ==
    /\ mpc = "setup"
    /\ mpc' = "exited"
    /\ exit_code' = "error"
    /\ UNCHANGED <<spawned, session_logging, threadVars, stopVars, queueVars,
                   runVars, collectorVars>>

SetupSucceeds ==
    /\ mpc = "setup"
    /\ mpc' = "session_start"
    /\ UNCHANGED <<spawned, session_logging, exit_code, threadVars, stopVars,
                   queueVars, runVars, collectorVars>>

\* A failure to write the session start ends the process.
StartSession ==
    /\ mpc = "session_start"
    /\ IF session_logging
       THEN /\ LogSessionStart
            /\ mpc' = IF producer = "open" THEN "spawn" ELSE "exited"
            /\ exit_code' = IF producer = "open" THEN "none" ELSE "error"
       ELSE /\ mpc' = "spawn"
            /\ UNCHANGED <<exit_code, collectorVars>>
    /\ UNCHANGED <<spawned, session_logging, threadVars, stopVars, queueVars,
                   runVars>>

\* The loop over thread_args.
SpawnThread ==
    /\ mpc = "spawn"
    /\ IF ShouldStop \/ spawned = NumThreads
       THEN /\ mpc' = "loop"
            /\ UNCHANGED <<spawned, tpc>>
       ELSE /\ spawned' = spawned + 1
            /\ tpc' = [tpc EXCEPT ![spawned] = "check"]
            /\ UNCHANGED mpc
    /\ UNCHANGED <<session_logging, exit_code, iteration, next_index, result,
                   stopVars, queueVars, runVars, collectorVars>>

\* Mutant: no ProcessResultQueue after the join.
JoinThreads_NoDrain ==
    /\ mpc = "join"
    /\ \A t \in Threads : t < spawned => tpc[t] = "done"
    /\ mpc' = "summary"
    /\ UNCHANGED <<spawned, session_logging, exit_code, threadVars, stopVars,
                   queueVars, runVars, collectorVars>>

\* threads[thread_idx].join() for every created thread.
JoinThreads ==
    /\ mpc = "join"
    /\ \A t \in Threads : t < spawned => tpc[t] = "done"
    /\ mpc' = "drain"
    /\ UNCHANGED <<spawned, session_logging, exit_code, threadVars, stopVars,
                   queueVars, runVars, collectorVars>>

WriteSummary ==
    /\ mpc = "summary"
    /\ mpc' = "return"
    /\ IF session_logging \/ num_failed_snapshots > 0
       THEN LogSessionSummary
       ELSE UNCHANGED collectorVars
    /\ UNCHANGED <<spawned, session_logging, exit_code, threadVars, stopVars,
                   queueVars, runVars>>

\* Mutant: the exit status follows the error countdown.
Return_OnCountdown ==
    /\ mpc = "return"
    /\ mpc' = "exited"
    /\ exit_code' = IF fail_after_n_errors <= 0 THEN "failure" ELSE "success"
    /\ UNCHANGED <<spawned, session_logging, threadVars, stopVars, queueVars,
                   runVars, collectorVars>>

Return ==
    /\ mpc = "return"
    /\ mpc' = "exited"
    /\ exit_code' = IF num_failed_snapshots > 0 THEN "failure" ELSE "success"
    /\ UNCHANGED <<spawned, session_logging, threadVars, stopVars, queueVars,
                   runVars, collectorVars>>

-----------------------------------------------------------------------------
(* ExecutionContext::EventLoop, on the main thread                           *)

\* while (!ShouldStop())
EventLoopCheck ==
    /\ mpc = "loop"
    /\ mpc' = IF ShouldStop THEN "join" ELSE "lock"
    /\ UNCHANGED <<spawned, session_logging, exit_code, threadVars, stopVars,
                   queueVars, runVars, collectorVars>>

\* Mutant: the results are copied, not swapped.
TakeBatch_Copy ==
    /\ batch' = queue
    /\ notified' = FALSE
    /\ mpc' = "process"
    /\ UNCHANGED <<queue, spawned, session_logging, exit_code, threadVars,
                   stopVars, accepted, dropped, runVars, collectorVars>>

\* The swap under mu_, common to the three ways LockWhenWithTimeout returns.
TakeBatch ==
    /\ batch' = queue
    /\ queue' = <<>>
    /\ notified' = FALSE
    /\ mpc' = "process"
    /\ UNCHANGED <<spawned, session_logging, exit_code, threadVars, stopVars,
                   accepted, dropped, runVars, collectorVars>>

\* LockWhenWithTimeout finds its condition true when it takes mu_ ...
EventLoopLock ==
    /\ mpc = "lock"
    /\ IF ShouldWakeUp
       THEN TakeBatch
       ELSE /\ mpc' = "wait"
            /\ UNCHANGED <<spawned, session_logging, exit_code, threadVars,
                           stopVars, queueVars, runVars, collectorVars>>

\* ... or waits: the condition is evaluated again only by a thread that
\* releases mu_, and Stop() does not take mu_ ...
EventLoopWake ==
    /\ mpc = "wait"
    /\ notified
    /\ TakeBatch

\* Mutant: LockWhen without a timeout.
EventLoopTimeout_Never ==
    /\ mpc = "wait"
    /\ notified
    /\ TakeBatch

\* ... or kTimeout (10 s) has passed.
EventLoopTimeout ==
    /\ mpc = "wait"
    /\ TakeBatch

\* ProcessResultQueueImpl: result_cb_ for the next result of a list; Stop().
ProcessOne(r) ==
    /\ Collect(r)
    /\ stop_execution' = (stop_execution \/ ShouldStopAfter(r))
    /\ UNCHANGED <<expired, interrupted>>

\* ProcessResultQueueImpl(current_results)
ProcessBatch ==
    /\ mpc = "process"
    /\ IF batch = <<>>
       THEN /\ mpc' = "loop"
            /\ UNCHANGED <<batch, stopVars, collectorVars>>
       ELSE /\ ProcessOne(Head(batch))
            /\ batch' = Tail(batch)
            /\ UNCHANGED mpc
    /\ UNCHANGED <<spawned, session_logging, exit_code, threadVars, queue,
                   notified, accepted, dropped, runVars>>

\* ProcessResultQueue, after the join; nobody else uses mu_ any more.
ProcessResultQueue ==
    /\ mpc = "drain"
    /\ IF queue = <<>>
       THEN /\ mpc' = "summary"
            /\ UNCHANGED <<queue, stopVars, collectorVars>>
       ELSE /\ ProcessOne(Head(queue))
            /\ queue' = Tail(queue)
            /\ UNCHANGED mpc
    /\ UNCHANGED <<spawned, session_logging, exit_code, threadVars, batch,
                   notified, accepted, dropped, runVars>>

-----------------------------------------------------------------------------
(* RunnerThread                                                              *)

\* Runs whose result was offered, and runs in progress.
RunsStarted ==
    Len(accepted) + dropped
      + Cardinality({t \in Threads : tpc[t] \in {"budget", "running", "offer"}})

\* Mutant: the loop tests only the deadline.
CheckStop_DeadlineOnly(t) ==
    /\ Alive
    /\ tpc[t] = "check"
    /\ \/ /\ expired
          /\ tpc' = [tpc EXCEPT ![t] = "stopping"]
       \/ /\ ~expired
          /\ RunsStarted < MaxRuns
          /\ tpc' = [tpc EXCEPT ![t] = "budget"]
    /\ UNCHANGED <<mainVars, iteration, next_index, result, stopVars,
                   queueVars, runVars, collectorVars>>

\* The loop condition.  MaxRuns bounds the model only: a thread at the bound
\* waits for ShouldStop().
CheckStop(t) ==
    /\ Alive
    /\ tpc[t] = "check"
    /\ \/ /\ ShouldStop
          /\ tpc' = [tpc EXCEPT ![t] = "stopping"]
       \/ /\ ~ShouldStop
          /\ RunsStarted < MaxRuns
          /\ tpc' = [tpc EXCEPT ![t] = "budget"]
    /\ UNCHANGED <<mainVars, iteration, next_index, result, stopVars,
                   queueVars, runVars, collectorVars>>

\* The time budget, the next shard, and the start of the runner process.
StartRunner(t) ==
    /\ Alive
    /\ tpc[t] = "budget"
    /\ IF expired
       THEN /\ tpc' = [tpc EXCEPT ![t] = "stopping"]
            /\ UNCHANGED <<next_index, played, late>>
       ELSE \E shard_idx \in NextCorpus(t) :
              IF shard_idx = kEndOfStream
              THEN /\ tpc' = [tpc EXCEPT ![t] = "stopping"]
                   /\ UNCHANGED <<next_index, played, late>>
              ELSE /\ tpc' = [tpc EXCEPT ![t] = "running"]
                   /\ next_index' = IF Sequential
                                    THEN [next_index EXCEPT ![t] = @ + 1]
                                    ELSE next_index
                   /\ played' = played \cup {shard_idx}
                   /\ late' = [late EXCEPT ![t] = @ + (IF ShouldStop THEN 1 ELSE 0)]
    /\ UNCHANGED <<mainVars, iteration, result, stopVars, queueVars,
                   collectorVars>>

\* RunnerDriver::Run returns; modules SnapRunner and RunnerDriver say what.
RunnerReturns(t) ==
    /\ Alive
    /\ tpc[t] = "running"
    /\ \E r \in RunResults : result' = [result EXCEPT ![t] = r]
    /\ tpc' = [tpc EXCEPT ![t] = "offer"]
    /\ UNCHANGED <<mainVars, iteration, next_index, stopVars, queueVars,
                   runVars, collectorVars>>

\* OfferRunResult: at most one slot per thread.
Enqueue(r) ==
    IF Len(queue) >= NumThreads
    THEN /\ dropped' = dropped + 1
         /\ UNCHANGED <<queue, accepted>>
    ELSE /\ queue' = Append(queue, r)
         /\ accepted' = Append(accepted, r)
         /\ UNCHANGED dropped

\* The whole critical section; releasing mu_ evaluates the condition of a
\* waiting event loop.  (The non-ok Status branch has no caller: a RunResult
\* converts to an ok StatusOr.)
OfferRunResult(t) ==
    /\ Alive
    /\ tpc[t] = "offer"
    /\ Enqueue(result[t])
    /\ notified' = (notified \/ (mpc = "wait" /\ (queue' # <<>> \/ ShouldStop)))
    /\ tpc' = [tpc EXCEPT ![t] = "check"]
    /\ iteration' = [iteration EXCEPT ![t] = @ + 1]
    /\ result' = [result EXCEPT ![t] = "ok"]
    /\ UNCHANGED <<mainVars, next_index, stopVars, batch, runVars,
                   collectorVars>>

\* ctx->Stop() after the loop: one finished thread ends the session.
StopAll(t) ==
    /\ Alive
    /\ tpc[t] = "stopping"
    /\ stop_execution' = TRUE
    /\ tpc' = [tpc EXCEPT ![t] = "done"]
    /\ UNCHANGED <<mainVars, iteration, next_index, result, expired,
                   interrupted, queueVars, runVars, collectorVars>>

-----------------------------------------------------------------------------
(* The environment                                                           *)

DeadlinePasses ==
    /\ Alive
    /\ ~expired
    /\ expired' = TRUE
    /\ UNCHANGED <<mainVars, threadVars, stop_execution, interrupted,
                   queueVars, runVars, collectorVars>>

\* SIGINT or SIGALRM, once OrchestratorInit has installed the handler.
Interrupt ==
    /\ mpc \notin {"setup", "session_start", "exited"}
    /\ ~interrupted
    /\ stop_execution' = TRUE
    /\ interrupted' = TRUE
    /\ UNCHANGED <<mainVars, threadVars, expired, queueVars, runVars,
                   collectorVars>>

\* The watchdog sleeps beyond the deadline, then _exit(EXIT_SUCCESS).
Watchdog ==
    /\ HasWatchdog
    /\ expired
    /\ mpc \notin {"setup", "session_start", "exited"}
    /\ mpc' = "exited"
    /\ exit_code' = "watchdog"
    /\ UNCHANGED <<spawned, session_logging, threadVars, stopVars, queueVars,
                   runVars, collectorVars>>

LogReaderGoesAway ==
    /\ Alive
    /\ ReaderGoesAway
    /\ UNCHANGED <<mainVars, threadVars, stopVars, queueVars, runVars>>

Terminated == ~Alive /\ UNCHANGED vars

-----------------------------------------------------------------------------
Main == \/ SetupFails \/ SetupSucceeds \/ StartSession \/ SpawnThread
        \/ EventLoopCheck \/ EventLoopLock \/ EventLoopWake \/ EventLoopTimeout
        \/ ProcessBatch \/ JoinThreads \/ ProcessResultQueue
        \/ WriteSummary \/ Return

RunnerThread(t) == \/ CheckStop(t) \/ StartRunner(t) \/ RunnerReturns(t)
                   \/ OfferRunResult(t) \/ StopAll(t)

Environment == DeadlinePasses \/ Interrupt \/ Watchdog \/ LogReaderGoesAway

Next == Main \/ (\E t \in Threads : RunnerThread(t)) \/ Environment \/ Terminated

Spec == Init /\ [][Next]_vars

\* The scheduler runs every thread, the 10 s timeout elapses, and a runner
\* returns: Subprocess gives it a CPU limit and, with a deadline, a timer.
FairSpec ==
    /\ Spec
    /\ WF_vars(Main)
    /\ \A t \in Threads : WF_vars(RunnerThread(t))

-----------------------------------------------------------------------------
(* Properties                                                                *)

\* Every variable of the orchestrator has its type.
TypeOK ==
    /\ CollectorTypeOK
    /\ mpc \in MainStates
    /\ spawned \in 0..NumThreads
    /\ tpc \in [Threads -> ThreadStates]
    /\ iteration \in [Threads -> Nat]
    /\ next_index \in [Threads -> Nat]
    /\ result \in [Threads -> RunResults]
    /\ stop_execution \in BOOLEAN
    /\ expired \in BOOLEAN
    /\ notified \in BOOLEAN
    /\ queue \in Seq(RunResults)
    /\ batch \in Seq(RunResults)
    /\ session_logging \in BOOLEAN
    /\ exit_code \in {"none", "success", "failure", "error", "watchdog"}
    /\ accepted \in Seq(RunResults)
    /\ dropped \in Nat
    /\ played \in SUBSET Shards
    /\ late \in [Threads -> Nat]
    /\ interrupted \in BOOLEAN

\* OrchestratorMain returned after the event loop.
Returned == exit_code \in {"success", "failure"}

\* No accepted result is lost, duplicated or reordered between OfferRunResult,
\* the swap in EventLoop, ProcessResultQueue and the collector: what was
\* accepted is what was collected, then the batch, then the queue.
ResultsConserved ==
    /\ Len(accepted) = play_count + Len(batch) + Len(queue)
    /\ \A i \in 1..Len(batch) : batch[i] = accepted[play_count + i]
    /\ \A i \in 1..Len(queue) :
         queue[i] = accepted[play_count + Len(batch) + i]

\* OfferRunResult never lets the queue grow beyond one slot per thread, and
\* the event loop holds at most one more queue in its batch.
QueueBounded == Len(queue) <= NumThreads /\ Len(batch) <= NumThreads

\* ~ExecutionContext finds an empty queue: threads that were still running
\* when the event loop ended are joined before the final ProcessResultQueue.
NothingLeftBehind ==
    Returned => /\ queue = <<>>
                /\ batch = <<>>
                /\ \A t \in Threads : tpc[t] \in {"unborn", "done"}

\* The exit status of a regular return tells whether any accepted result is a
\* failure that counts, even one that arrived after the event loop ended.
ExitCodeTruthful ==
    Returned =>
      (exit_code = "failure" <=>
         \E i \in 1..Len(accepted) : CountsAsFailure(report_runaways, accepted[i]))

\* Once --fail_after_n_errors errors were collected the orchestrator is told to
\* stop, whichever place collected them.
FailAfterStops ==
    (/\ fail_after_n_errors <= 0
     /\ \E i \in 1..play_count : CountsAsError(report_runaways, accepted[i]))
    => stop_execution

\* A thread starts at most one more runner after the orchestrator should stop:
\* the window between the loop condition and the start of the runner.
AtMostOneLateRun == \A t \in Threads : late[t] <= 1

\* --sequential_mode: unless something stopped it, the single thread plays all
\* the shards once and every result is collected or was rejected.
SequentialScanComplete ==
    (Sequential /\ Returned /\ ~expired /\ ~interrupted
       /\ ~\E i \in 1..Len(accepted) : CountsAsError(report_runaways, accepted[i]))
    => /\ played = Shards
       /\ play_count + dropped = NumShards

\* Two runners never share a CPU: the spans of PartitionEvenly are disjoint and
\* a thread indexes only its own.
CpuExclusive ==
    \A t, u \in Threads :
      (t # u /\ tpc[t] = "running" /\ tpc[u] = "running")
        => TargetCpu(t) # TargetCpu(u)

\* The entries of a log with or without a start, with n results, with or
\* without a summary.
LogOf(start, n, summary) ==
    (IF start THEN <<"start">> ELSE <<>>)
      \o [i \in 1..n |-> "result"]
      \o (IF summary THEN <<"summary">> ELSE <<>>)

\* At a regular return the binary log has the session start (if enabled), one
\* entry per counted failure and the summary (if enabled or needed), up to the
\* point where the reader went away.
LogComplete ==
    LET complete == LogOf(session_logging, num_failed_snapshots,
                          session_logging \/ num_failed_snapshots > 0)
    IN  Returned =>
          /\ producer = "open" => log = complete
          /\ \E n \in 0..Len(complete) : log = SubSeq(complete, 1, n)

\* A scan that nothing stopped has done and told all of it: every shard was
\* played and its result collected, or rejected by a full queue, and a parent that
\* reads to the end has the whole log of the session (RunnerThread, MainLoop, LogSessionSummary).
ScanAndLogComplete == SequentialScanComplete /\ LogComplete

\* Why the properties above hold: which data each phase of the main thread and
\* of the worker threads may still hold, and what num_failed_snapshots counts.
PhaseInv ==
    /\ Alive <=> exit_code = "none"
    /\ mpc \in {"setup", "session_start"} => spawned = 0 /\ accepted = <<>>
    /\ exit_code = "error" => accepted = <<>>
    /\ \A t \in Threads : tpc[t] = "unborn" <=> spawned <= t
    /\ (mpc \in {"drain", "summary", "return"} \/ Returned) =>
         \A t \in Threads : tpc[t] \in {"unborn", "done"}
    /\ (mpc \in {"summary", "return"} \/ Returned) => queue = <<>>
    /\ batch # <<>> => mpc = "process" \/ exit_code = "watchdog"

FailuresCounted ==
    /\ num_failed_snapshots > 0 <=>
         \E i \in 1..play_count : CountsAsFailure(report_runaways, accepted[i])
    /\ Returned => (exit_code = "failure" <=> num_failed_snapshots > 0)

\* A thread that started a late run has seen, or will see, ShouldStop().
LateInv ==
    \A t \in Threads :
      late[t] # 0 => late[t] = 1 /\ ShouldStop /\ tpc[t] # "budget"

\* What may cut a sequential scan short.
Disturbed ==
    expired \/ interrupted
      \/ \E i \in 1..Len(accepted) : CountsAsError(report_runaways, accepted[i])

\* --sequential_mode: the only thread has started shards 0..next_index-1, each
\* of them gave one result unless its runner is still at work, and nothing but
\* a disturbance or the end of the stream makes the thread stop.
ScanInv ==
    /\ (mpc \notin {"setup", "session_start", "spawn", "exited"} \/ Returned) =>
         spawned = NumThreads \/ ShouldStop
    /\ Sequential =>
         /\ played = 0..(next_index[0] - 1)
         /\ next_index[0] <= NumShards
         /\ next_index[0] = Len(accepted) + dropped
                              + (IF tpc[0] \in {"running", "offer"} THEN 1 ELSE 0)
         /\ stop_execution => Disturbed \/ tpc[0] = "done"
         /\ tpc[0] \in {"stopping", "done"} =>
              Disturbed \/ next_index[0] = NumShards

\* What has been sent to the log so far, if the reader is there, and a prefix
\* of it otherwise.
LogSoFar ==
    LogOf(session_logging /\ mpc \notin {"setup", "session_start"},
          num_failed_snapshots,
          /\ mpc \in {"return", "exited"}
          /\ session_logging \/ num_failed_snapshots > 0)

LogInv ==
    exit_code \notin {"error", "watchdog"} =>
      /\ producer = "open" => log = LogSoFar
      /\ \E n \in 0..Len(LogSoFar) : log = SubSeq(LogSoFar, 1, n)
      /\ mpc \in {"setup", "session_start"} => num_failed_snapshots = 0

\* The inductive invariant of the proofs.
OrchestratorInv ==
    /\ TypeOK
    /\ PhaseInv
    /\ ResultsConserved
    /\ QueueBounded
    /\ FailuresCounted
    /\ FailAfterStops
    /\ LateInv
    /\ ScanInv
    /\ LogInv

\* Whoever asks for it (a signal, the deadline, an error count, a thread at the
\* end of its stream), the process ends: nobody waits for ever on the queue, on
\* a thread, or for a notification that Stop() does not give.
Shutdown == (stop_execution \/ expired) ~> ~Alive

\* The abstract view: a stream of results and one verdict.
Stream == INSTANCE ResultStream WITH
            Capacity <- 2 * NumThreads, reported <- play_count,
            verdict <- exit_code

\* Whatever the threads, the queue and the collector do, seen from outside the
\* orchestrator takes results, reports them in order and gives one verdict.
StreamSpec == Stream!Spec
=============================================================================
