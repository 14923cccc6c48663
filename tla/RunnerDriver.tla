---------------------------- MODULE RunnerDriver ----------------------------
(***************************************************************************)
(* runner/driver/runner_driver.cc with util/subprocess.cc: a RunnerDriver  *)
(* call (Run, PlayOne, MakeOne, VerifyOneRepeatedly) composed with the     *)
(* runner process it starts.                                               *)
(*                                                                         *)
(* The driver knows the runner only by what it printed and by its wait     *)
(* status; HandleRunnerOutput turns the two into a RunResult.              *)
(***************************************************************************)
EXTENDS SnapRunner

CONSTANT NumAttempts   \* of VerifyOneRepeatedly

ASSUME DriverAssumption == NumAttempts \in Nat \ {0}

VARIABLES
    driver,    \* "start", "communicate" or "done"
    attempt,   \* RunImpl calls made so far
    result     \* the RunResult: its kind, and the snapshot it blames

driverVars == <<driver, attempt, result>>
vars == <<runnerVars, driverVars>>

\* What callers tell apart: success(), no player result, and a player result
\* by its outcome.
ResultKinds == {"none", "ok", "internal", "runaway", "failed", "as_expected"}
RunResult(kind, id) == [kind |-> kind, failed_snapshot_id |-> id]
InternalError == RunResult("internal", NoSnap)
Successful == RunResult("ok", NoSnap)

-----------------------------------------------------------------------------
\* The fields of the RunnerOutput message that stdout parses to.  A field that
\* is given twice does not parse.
Values(field) == {stdout[i][2] : i \in {j \in DOMAIN stdout : stdout[j][1] = field}}
Parses == \A i, j \in DOMAIN stdout : stdout[i][1] = stdout[j][1] => i = j
Has(field) == Values(field) # {}
ValueOf(field) == CHOOSE v \in Values(field) : TRUE

FromExecutionResult ==
    IF ValueOf("execution_result") = "kOk" THEN Successful ELSE InternalError

FromFailedExecution ==
    LET failed == ValueOf("failed_snapshot_execution")
        kind == CASE failed[2] = "kExecutionRunaway" -> "runaway"
                  [] failed[2] = "kAsExpected"       -> "as_expected"
                  [] OTHER                           -> "failed"
    IN  IF snap_id # NoSnap /\ failed[1] # snap_id
        THEN InternalError ELSE RunResult(kind, failed[1])

HandleRunnerOutput ==
    IF status[1] = "signal"
    THEN IF Killed("SIGINT") THEN Successful ELSE InternalError
    ELSE IF Exited(0) \/ (Exited(2) /\ snap_id = NoSnap) THEN Successful
    ELSE IF ~Parses \/ ~Has("execution_result") THEN InternalError
    ELSE IF Has("failed_snapshot_execution")
         THEN FromFailedExecution ELSE FromExecutionResult

-----------------------------------------------------------------------------
\* Every call but Run gives --snap_id; only Run uses the sequential mode, and
\* only VerifyOneRepeatedly runs the same command several times.
Init ==
    /\ RunnerInit
    /\ mode = "sequential" => snap_id = NoSnap
    /\ driver = "start"
    /\ attempt = 0
    /\ result = RunResult("none", NoSnap)

Attempts == IF mode = "run" /\ snap_id # NoSnap THEN NumAttempts ELSE 1

\* Subprocess::Start fails before there is a process.
StartFails ==
    /\ driver = "start"
    /\ driver' = "done"
    /\ result' = InternalError
    /\ UNCHANGED <<attempt, runnerVars>>

Start ==
    /\ driver = "start"
    /\ driver' = "communicate"
    /\ attempt' = attempt + 1
    /\ pc' = "init"
    /\ snap_execution_count' = 0
    /\ snap' = NoSnap
    /\ enter_snap_context' = FALSE
    /\ runner_return_context' = "none"
    /\ context_snap' = NoSnap
    /\ signal_context' = "none"
    /\ exit_state' = "match"
    /\ timeouts_blocked' = FALSE
    /\ added_page_addresses' = <<>>
    /\ stdout' = <<>>
    /\ status' = <<"running", 0>>
    /\ snap_end' = "none"
    /\ entered' = NoSnap
    /\ received' = {}
    /\ UNCHANGED <<optionVars, result>>

\* Communicate returns after the process is gone; VerifyOneRepeatedly goes on
\* while the attempts succeed.
Communicate ==
    /\ driver = "communicate"
    /\ ~Running
    /\ result' = HandleRunnerOutput
    /\ driver' = IF result'.kind = "ok" /\ attempt < Attempts
                 THEN "start" ELSE "done"
    /\ UNCHANGED <<attempt, runnerVars>>

RunnerRuns == driver = "communicate" /\ RunnerNext /\ UNCHANGED driverVars

Terminated == driver = "done" /\ UNCHANGED vars

Next == StartFails \/ Start \/ Communicate \/ RunnerRuns \/ Terminated

Spec == Init /\ [][Next]_vars

\* The runner's own code gets the processor; the snap and the outside world
\* owe it nothing.
FairSpec ==
    /\ Spec
    /\ WF_vars(Start \/ Communicate)
    /\ WF_vars(driver = "communicate" /\ RunnerStep /\ UNCHANGED driverVars)

-----------------------------------------------------------------------------
(* Properties                                                                *)

\* Ways a snap can end that are failures of the snap.
Failing == {"regs", "memory"} \cup Faults

\* Every variable of the runner and of its driver keeps its type.
TypeOK ==
    /\ RunnerTypeOK
    /\ driver \in {"start", "communicate", "done"}
    /\ attempt \in 0..NumAttempts
    /\ result.kind \in ResultKinds
    /\ result.failed_snapshot_id \in Snaps \cup {NoSnap}

\* No snap executes once a timeout has been handled, nor with the timeout
\* signals still masked (nothing but the hard limit could stop it then), nor
\* without a context of this very RunSnap to come back to: InstallSigHandler
\* relies on this when it masks SIGXCPU and SIGALRM and leaves the handler
\* without sigreturn.
NoSnapAfterSignal ==
    pc = "snap" => /\ received \cap Timeouts = {}
                   /\ ~timeouts_blocked
                   /\ runner_return_context = "current"

\* A snap is reported as a runaway only if the CPU limit was hit, as failed
\* only if it failed or a signal from outside was taken for its own, and with
\* no such signal the snapshot named is the one whose code ran last
\* (HandleRunnerOutput of what LogSnapRunResult printed).
VerdictJustified ==
    /\ result.kind = "runaway" => "SIGXCPU" \in received
    /\ result.kind = "failed" => snap_end \in Failing \/ "SIGTERM" \in received
    /\ result.kind \in {"runaway", "failed"} /\ received = {} =>
         result.failed_snapshot_id = entered

\* A failure is never turned into a success, except by a timeout or ^C
\* arriving before the process has returned from main.
FailureNotMissed ==
    driver = "done" /\ result.kind = "ok" /\ snap_end \in Failing =>
        received \cap Timeouts # {} \/ Killed("SIGINT")

\* Exit code 0 after snaps were started means that every scheduled run took
\* place and the last snap, like all before it, matched its end state.
PassMeansAllRan ==
    Exited(0) /\ stdout # <<>> =>
        /\ mode # "make" => snap_execution_count = RunsToDo
        /\ snap # NoSnap => snap_end = "match"

\* TryToRecoverFromSignal never writes past added_page_addresses nor adds more
\* pages than asked for, and never the same page twice.
PagesBounded ==
    /\ Len(added_page_addresses) <= kMaxAddedPageAddresses
    /\ Len(added_page_addresses) <= IF mode = "make" THEN MaxPagesToAdd ELSE 0
    /\ \A i, j \in DOMAIN added_page_addresses :
         added_page_addresses[i] = added_page_addresses[j] => i = j

\* The verdict of a runner can be relied upon, whatever signals arrive at
\* whatever moment: snaps execute only while a timeout can still stop them,
\* what is reported happened, and no failure is passed over.
VerdictSound ==
    /\ NoSnapAfterSignal
    /\ VerdictJustified
    /\ FailureNotMissed
    /\ PassMeansAllRan
    /\ PagesBounded

\* Once the handler has seen a timeout the process ends, whatever the snap was
\* doing ("The first SIGXCPU/SIGALRM will initiate a graceful process
\* shutdown").
TimeoutEndsRun == (received \cap Timeouts # {}) ~> ~Running

-----------------------------------------------------------------------------
(* Why the verdict can be relied upon: the inductive invariant               *)

\* The flag, the saved context and the signal mask at each place of RunSnap.
ControlInv ==
    /\ signal_context # "none" <=> timeouts_blocked
    /\ received # {} => timeouts_blocked \/ pc = "dead"
    /\ enter_snap_context =>
         pc \in {"save", "resume", "snap", "exiting", "dead"} /\ ~timeouts_blocked
    /\ pc \in {"save", "snap", "exiting"} => enter_snap_context
    /\ timeouts_blocked =>
         pc \in {"resume", "report", "checksum", "result", "return", "dead"}
    /\ pc \in {"snap", "exiting"} \/ (pc = "resume" /\ ~timeouts_blocked) =>
         runner_return_context = "current" /\ context_snap = snap

\* The last snap, if one was run at all, ended as it should.
LastSnapMatched == snap_end = "match" \/ (snap = NoSnap /\ snap_end = "none")

\* The snap's code has run, or a signal was blamed on it.
AfterSnap ==
    \/ pc \in {"report", "checksum"}
    \/ pc = "resume" /\ ~enter_snap_context

\* What the runner has recorded of the snap is what the snap did.
OutcomeInv ==
    /\ signal_context = "SIGXCPU" => "SIGXCPU" \in received
    /\ signal_context = "SIGTERM" => "SIGTERM" \in received
    /\ signal_context \in Faults => snap_end \in Faults
    /\ pc \in {"snap", "exiting"} => entered = snap
    /\ (AfterSnap /\ received = {}) \/ pc = "exiting" => entered = snap
    /\ (AfterSnap \/ pc = "exiting") /\ signal_context = "none" =>
         snap_end = exit_state
    /\ pc \in {"report", "checksum"} /\ mode # "make" => ~AllPassed
    /\ pc = "checksum" => mode = "run"
    /\ pc = "init" => snap = NoSnap /\ snap_end = "none" /\ AllPassed
    /\ pc = "next" => LastSnapMatched /\ AllPassed
    /\ pc \in {"result", "return"} /\ AllPassed =>
         /\ LastSnapMatched
         /\ mode # "make" => snap_execution_count = RunsToDo

\* Runs are counted one by one up to the number scheduled.
CountInv ==
    /\ mode = "make" => snap_id # NoSnap
    /\ snap_execution_count <= RunsToDo
    /\ pc \in {"prepare", "save", "resume", "snap", "exiting"} =>
         snap_execution_count < RunsToDo

\* What a message says of a snap that failed, or of all of them, happened.
TrueMessage(m) ==
    /\ m[1] = "failed_snapshot_execution" =>
         /\ pc \in {"checksum", "result", "return", "dead"}
         /\ m[2][2] = "kExecutionRunaway" => "SIGXCPU" \in received
         /\ m[2][2] \notin {"kExecutionRunaway", "kAsExpected"} =>
              snap_end \in Failing \/ "SIGTERM" \in received
         /\ received = {} => m[2][1] = entered
    /\ m = <<"execution_result", "kOk">> =>
         pc \in {"return", "dead"} /\ LastSnapMatched

\* What was printed is true, and so is what the exit code says.
OutputInv ==
    /\ pc = "init" => stdout = <<>>
    /\ \A i \in DOMAIN stdout : TrueMessage(stdout[i])
    /\ Exited(0) => LastSnapMatched
    /\ Exited(2) => received \cap Timeouts # {}

\* A result other than a success is the end of the call.
DriverInv ==
    /\ driver = "start" => attempt < Attempts
    /\ driver = "communicate" => attempt <= Attempts
    /\ driver # "done" => result.kind \in {"none", "ok"}

\* The inductive invariant of the proofs.
RunnerDriverInv ==
    /\ TypeOK
    /\ ControlInv
    /\ OutcomeInv
    /\ CountInv
    /\ OutputInv
    /\ DriverInv
    /\ VerdictSound

=============================================================================
