--------------------------- MODULE ResultCollector ---------------------------
(***************************************************************************)
(* orchestrator/result_collector.{h,cc}: the callback that the event loop  *)
(* of the orchestrator invokes for every result of a runner, the summary   *)
(* it keeps and the binary log it writes.                                  *)
(*                                                                         *)
(* A RunnerDriver::RunResult is abstracted to what the collector tells     *)
(* apart:                                                                  *)
(*   "ok"       success()                                                  *)
(*   "internal" no success and no failed_player_result: the runner died or *)
(*              its output was unusable                                    *)
(*   "runaway"  failed_player_result with outcome kExecutionRunaway        *)
(*   "failed"   failed_player_result with any other outcome                *)
(*                                                                         *)
(* Left out: the text of the log lines (V1 compatible logging), timing and *)
(* memory statistics, the failure of PlayerResultProto::ToProto, which     *)
(* needs an infinite cpu_usage, and that of GetRUsage, on which            *)
(* LogSessionSummary would return without an entry: getrusage(2) does not  *)
(* fail for the arguments it is given.                                     *)
(***************************************************************************)
EXTENDS Integers, Sequences

CONSTANTS
    FailAfterChoices,   \* values of --fail_after_n_errors to consider
    LogFdChoices        \* --binary_log_fd: TRUE if it names a channel

ASSUME CollectorAssumption ==
    /\ FailAfterChoices \subseteq Int
    /\ LogFdChoices \subseteq BOOLEAN

VARIABLES
    play_count,             \* summary_.play_count
    num_failed_snapshots,   \* summary_.num_failed_snapshots
    num_runaway_snapshots,  \* summary_.num_runaway_snapshots
    fail_after_n_errors,    \* options_.fail_after_n_errors, counted down
    report_runaways,        \* options_.report_runaways_as_errors
    producer,               \* the binary log channel: "null" is no producer,
                            \* "broken" is a pipe whose reader went away
    log                     \* kinds of the entries written to the channel

summaryVars == <<play_count, num_failed_snapshots, num_runaway_snapshots,
                 fail_after_n_errors>>
collectorVars == <<summaryVars, report_runaways, producer, log>>

RunResults == {"ok", "internal", "runaway", "failed"}
LogEntries == {"start", "result", "summary"}

Success(r) == r = "ok"
HasFailedPlayerResult(r) == r \in {"runaway", "failed"}

\* Does r count towards the overall failure status?
CountsAsFailure(report, r) ==
    /\ HasFailedPlayerResult(r)
    /\ r = "runaway" => report

\* A runaway that is not reported returns before --fail_after_n_errors.
CountsAsError(report, r) ==
    /\ ~Success(r)
    /\ r = "runaway" => report

CollectorTypeOK ==
    /\ play_count \in Nat
    /\ num_failed_snapshots \in Nat
    /\ num_runaway_snapshots \in Nat
    /\ fail_after_n_errors \in Int
    /\ report_runaways \in BOOLEAN
    /\ producer \in {"null", "open", "broken"}
    /\ log \in Seq(LogEntries)

\* ResultCollector::ResultCollector: a producer exists iff binary_log_fd >= 0.
CollectorInit ==
    /\ play_count = 0
    /\ num_failed_snapshots = 0
    /\ num_runaway_snapshots = 0
    /\ fail_after_n_errors \in FailAfterChoices
    /\ report_runaways \in BOOLEAN
    /\ producer \in {IF fd THEN "open" ELSE "null" : fd \in LogFdChoices}
    /\ log = <<>>

\* BinaryLogProducer::Send fails once the reader has closed the pipe; every
\* caller but LogSessionStart's only logs that.  BinaryLogChannel has the bytes.
Send(kind) ==
    log' = IF producer = "open" THEN Append(log, kind) ELSE log

ShouldStopAfter(r) ==
    CountsAsError(report_runaways, r) /\ fail_after_n_errors - 1 <= 0

\* ResultCollector::operator()(result)
Collect(r) ==
    /\ play_count' = play_count + 1
    /\ num_runaway_snapshots' =
         num_runaway_snapshots + (IF r = "runaway" THEN 1 ELSE 0)
    /\ IF CountsAsFailure(report_runaways, r)
       THEN /\ num_failed_snapshots' = num_failed_snapshots + 1
            /\ Send("result")
       ELSE UNCHANGED <<num_failed_snapshots, log>>
    /\ fail_after_n_errors' =
         fail_after_n_errors - (IF CountsAsError(report_runaways, r) THEN 1 ELSE 0)
    /\ UNCHANGED <<report_runaways, producer>>

\* LogSessionStart and LogSessionSummary: one entry each, if there is a producer.
LogSessionStart ==
    /\ Send("start")
    /\ UNCHANGED <<summaryVars, report_runaways, producer>>

LogSessionSummary ==
    /\ Send("summary")
    /\ UNCHANGED <<summaryVars, report_runaways, producer>>

\* The process at the other end of binary_log_fd closes it or dies.
ReaderGoesAway ==
    /\ producer = "open"
    /\ producer' = "broken"
    /\ UNCHANGED <<summaryVars, report_runaways, log>>

=============================================================================
