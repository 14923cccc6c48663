----------------------------- MODULE SnapRunner -----------------------------
(***************************************************************************)
(* runner/runner.cc, runner/snap_runner_util.cc, runner/runner_main.cc: a  *)
(* runner process, from start to exit, with the signals that can reach it. *)
(*                                                                         *)
(* The interesting part is the window in which IsInsideSnap() holds.       *)
(* RunSnap sets enter_snap_context, saves its own context and jumps into   *)
(* the snap; control comes back to the saved context either from the       *)
(* snap's exit sequence or from the signal handler, and the handler blames *)
(* any signal that finds the flag set on the snap.                         *)
(*                                                                         *)
(* A snap is abstracted to how it ends: as expected ("match"), in another  *)
(* register or memory state ("regs", "memory"), in a fault on a page       *)
(* (SIGSEGV) or elsewhere (SIGILL), in a system call that seccomp turns    *)
(* into SIGSYS, or never.  The schedule of RunnerMain (batches drawn at    *)
(* random) is abstracted to "any snap of the corpus".  A message is printed*)
(* whole: one that is cut short does not parse, and the reader treats it   *)
(* as it treats the absence of an execution_result.                        *)
(***************************************************************************)
EXTENDS Integers, Sequences, FiniteSets

CONSTANTS
    Modes,           \* subset of {"run", "sequential", "make"}
    NumSnaps,        \* snaps in the corpus
    NumIterations,   \* --num_iterations
    Pages,           \* page addresses a snap may touch outside its mappings
    MaxPagesToAdd,   \* --max_pages_to_add, used by --make only
    kMaxAddedPageAddresses

ASSUME RunnerAssumption ==
    /\ Modes \subseteq {"run", "sequential", "make"}
    /\ NumSnaps \in Nat \ {0}
    /\ NumIterations \in Nat
    /\ MaxPagesToAdd \in Nat
    /\ kMaxAddedPageAddresses \in Nat

Snaps == 1..NumSnaps
NoSnap == 0

VARIABLES
    mode,       \* which of RunnerMain, RunnerMainSequential, MakerMain runs
    snap_id,    \* --snap_id, NoSnap if not given
    pc,
    snap_execution_count,
    snap,       \* the snap being run
    enter_snap_context,
    runner_return_context,  \* "none", "stale" (an earlier RunSnap's), "current"
    context_snap,           \* the caller's snap at the time it was saved
    signal_context,         \* signum of snap_signal_context, "none" if
                            \* signal_occurred is false
    exit_state,             \* snap_exit_context, compared with the end state
    timeouts_blocked,       \* SIGXCPU and SIGALRM are in the signal mask
    added_page_addresses,
    stdout,     \* the messages printed, as <<field, value>>
    status      \* the wait status of the process

\* History.
VARIABLES
    snap_end,   \* how the code of the current snap ended, "executing" while
                \* it has not, "none" before its first instruction
    entered,    \* the snap whose code was entered last
    received    \* signals from outside the process that it handled

snapVars == <<snap, enter_snap_context, runner_return_context, context_snap,
              signal_context, exit_state>>
optionVars == <<mode, snap_id>>
runnerVars == <<optionVars, pc, snap_execution_count, snapVars,
                timeouts_blocked, added_page_addresses, stdout, status,
                snap_end, entered, received>>

Running == status = <<"running", 0>>
Exited(code) == status = <<"exit", code>>
Killed(sig) == status = <<"signal", sig>>

Timeouts == {"SIGXCPU", "SIGALRM"}
Faults == {"SIGSEGV", "SIGILL"}

\* Where the program is:
\*   init     before InstallSigHandler          snap     in the snap's code
\*   next     head of the loop over snaps       exiting  in the exit sequence
\*   prepare  PrepareSnapMemory                 report   LogSnapRunResult
\*   save     flag set, context not saved       checksum VerifySnapChecksums
\*   resume   after SaveUContextNoSyscalls      result   LogExecutionResult
\*   return   about to return from main         dead     the process is gone
RunnerStates == {"init", "next", "prepare", "save", "resume", "snap",
                 "exiting", "report", "checksum", "result", "return", "dead"}

Outcomes == {"kAsExpected", "kRegisterStateMismatch", "kMemoryMismatch",
             "kExecutionRunaway", "kExecutionMisbehave"}
Codes == {"kOk", "kSnapshotFailed", "kUnhandledSignal", "kOverlappingMappings",
          "kMmapFailed", "kInitialChecksumMismatch"}
Messages ==
    ({"execution_result"} \X Codes)
      \cup ({"failed_snapshot_execution"} \X ((Snaps \cup {NoSnap}) \X Outcomes))
      \cup ({"postfailure_checksum_status"} \X BOOLEAN)

-----------------------------------------------------------------------------
IsInsideSnap == enter_snap_context

Log(field, value) == stdout' = Append(stdout, <<field, value>>)

\* The process ends; nothing of its memory matters any more.
Die(kind, value) ==
    /\ status' = <<kind, value>>
    /\ pc' = "dead"
    /\ UNCHANGED <<optionVars, snap_execution_count, snapVars,
                   timeouts_blocked, added_page_addresses>>

\* The corpus CommonMain returns: --snap_id makes it a slice of one snap.
Corpus == IF snap_id = NoSnap THEN [i \in Snaps |-> i] ELSE <<snap_id>>

\* Mutant: options.skip_end_state_check taken for every snap.
EndSpotToOutcome_Skipped == "kAsExpected"

EndSpotToOutcome ==
    CASE signal_context \in Timeouts  -> "kExecutionRunaway"
      [] signal_context # "none" /\ signal_context \notin Timeouts
                                      -> "kExecutionMisbehave"
      [] signal_context = "none" /\ exit_state = "regs"
                                      -> "kRegisterStateMismatch"
      [] signal_context = "none" /\ exit_state = "memory"
                                      -> "kMemoryMismatch"
      [] OTHER                        -> "kAsExpected"

RunnerTypeOK ==
    /\ mode \in Modes
    /\ snap_id \in Snaps \cup {NoSnap}
    /\ pc \in RunnerStates
    /\ snap_execution_count \in 0..(NumIterations + NumSnaps)
    /\ snap \in Snaps \cup {NoSnap}
    /\ enter_snap_context \in BOOLEAN
    /\ runner_return_context \in {"none", "stale", "current"}
    /\ context_snap \in Snaps \cup {NoSnap}
    /\ signal_context \in {"none", "SIGXCPU", "SIGTERM"} \cup Faults
    /\ exit_state \in {"match", "regs", "memory"}
    /\ timeouts_blocked \in BOOLEAN
    /\ added_page_addresses \in Seq(Pages)
    /\ pc = "dead" <=> ~Running
    /\ stdout \in Seq(Messages)
    /\ snap_end \in {"none", "executing", "match", "regs", "memory"} \cup Faults
    /\ entered \in Snaps \cup {NoSnap}
    /\ received \subseteq Timeouts \cup {"SIGTERM"}

-----------------------------------------------------------------------------
RunnerInit ==
    /\ mode \in Modes
    /\ snap_id \in Snaps \cup {NoSnap}
    /\ mode = "make" => snap_id # NoSnap
    /\ pc = "init"
    /\ snap_execution_count = 0
    /\ snap = NoSnap
    /\ enter_snap_context = FALSE
    /\ runner_return_context = "none"
    /\ context_snap = NoSnap
    /\ signal_context = "none"
    /\ exit_state = "match"
    /\ timeouts_blocked = FALSE
    /\ added_page_addresses = <<>>
    /\ stdout = <<>>
    /\ status = <<"running", 0>>
    /\ snap_end = "none"
    /\ entered = NoSnap
    /\ received = {}

(* Main and CommonMain                                                       *)

\* An empty corpus is a success.
EmptyCorpus ==
    /\ pc = "init"
    /\ Die("exit", 0)
    /\ UNCHANGED <<stdout, snap_end, entered, received>>

\* Bad flags, an unloadable corpus, an unknown snap or an unusable CPU say
\* nothing on stdout; mapping and checksum errors do.
StartupFails ==
    /\ pc = "init"
    /\ Die("exit", 1)
    /\ \/ UNCHANGED stdout
       \/ \E code \in {"kOverlappingMappings", "kMmapFailed",
                       "kInitialChecksumMismatch"} : Log("execution_result", code)
    /\ UNCHANGED <<snap_end, entered, received>>

InstallSigHandler ==
    /\ pc = "init"
    /\ pc' = "next"
    /\ UNCHANGED <<optionVars, snap_execution_count, snapVars, timeouts_blocked,
                   added_page_addresses, stdout, status, snap_end, entered, received>>

(* RunnerMain, RunnerMainSequential, MakerMain                               *)

RunsToDo == CASE mode = "run"        -> NumIterations
              [] mode = "sequential" -> Len(Corpus)
              [] mode = "make"       -> 1

ScheduledSnaps ==
    CASE mode = "run"        -> {Corpus[i] : i \in DOMAIN Corpus}
      [] mode = "sequential" -> {Corpus[snap_execution_count + 1]}
      [] mode = "make"       -> {Corpus[1]}

NextSnap ==
    /\ pc = "next"
    /\ IF snap_execution_count < RunsToDo
       THEN /\ snap' \in ScheduledSnaps
            /\ pc' = "prepare"
            /\ snap_end' = "none"
       ELSE /\ pc' = "result"
            /\ UNCHANGED <<snap, snap_end>>
    /\ UNCHANGED <<optionVars, snap_execution_count, enter_snap_context,
                   runner_return_context, context_snap, signal_context,
                   exit_state, timeouts_blocked, added_page_addresses, stdout,
                   status, entered, received>>

(* RunSnap                                                                   *)

EnterRunSnap ==
    /\ pc = "prepare"
    /\ pc' = "save"
    /\ signal_context' = "none"
    /\ enter_snap_context' = TRUE
    /\ runner_return_context' =
         IF runner_return_context = "none" THEN "none" ELSE "stale"
    /\ UNCHANGED <<optionVars, snap_execution_count, snap, context_snap,
                   exit_state, timeouts_blocked, added_page_addresses, stdout, status,
                   snap_end, entered, received>>

SaveUContext ==
    /\ pc = "save"
    /\ pc' = "resume"
    /\ runner_return_context' = "current"
    /\ context_snap' = snap
    /\ UNCHANGED <<optionVars, snap_execution_count, snap, enter_snap_context,
                   signal_context, exit_state, timeouts_blocked,
                   added_page_addresses, stdout, status, snap_end, entered, received>>

\* Reached twice: after saving the context, and when it is restored.
Resume ==
    /\ pc = "resume"
    /\ \/ /\ enter_snap_context
          /\ pc' = "snap"
          /\ snap_end' = "executing"
          /\ entered' = snap
          /\ UNCHANGED snap_execution_count
       \/ /\ ~enter_snap_context
          /\ pc' = IF mode = "make" \/ EndSpotToOutcome # "kAsExpected"
                   THEN "report" ELSE "next"
          /\ snap_execution_count' =
               snap_execution_count + (IF pc' = "next" THEN 1 ELSE 0)
          /\ UNCHANGED <<snap_end, entered>>
    /\ UNCHANGED <<optionVars, snapVars, timeouts_blocked,
                   added_page_addresses, stdout, status, received>>

\* The snap reaches its end; exit_state is how its state compares.
SnapEnds ==
    /\ pc = "snap"
    /\ pc' = "exiting"
    /\ exit_state' \in {"match", "regs", "memory"}
    /\ snap_end' = exit_state'
    /\ UNCHANGED <<optionVars, snap_execution_count, snap, enter_snap_context,
                   runner_return_context, context_snap, signal_context,
                   timeouts_blocked, added_page_addresses, stdout, status,
                   entered, received>>

\* SnapExitImpl and RunnerReentry.
RunnerReentry ==
    /\ pc = "exiting"
    /\ pc' = "resume"
    /\ enter_snap_context' = FALSE
    /\ UNCHANGED <<optionVars, snap_execution_count, snap,
                   runner_return_context, context_snap, signal_context,
                   exit_state, timeouts_blocked, added_page_addresses, stdout,
                   status, snap_end, entered, received>>

(* The signal handler                                                        *)

\* TryToRecoverFromSignal: mapping one more page for a snap being made.
CanAddPage(page) ==
    /\ mode = "make"
    /\ Len(added_page_addresses) < MaxPagesToAdd
    /\ Len(added_page_addresses) < kMaxAddedPageAddresses
    /\ \A i \in DOMAIN added_page_addresses : added_page_addresses[i] # page

\* RunnerReentryFromSignal.  The mask of the handler stays in force because
\* the context is restored without a system call.  A stale context is that of
\* an earlier RunSnap, called from the same place: execution may go on there,
\* with the caller's variables of then or of now (they may live in saved
\* registers or on the stack), or crash, as it does without any context.
RunnerReentryFromSignal(sig) ==
    /\ signal_context' = sig
    /\ enter_snap_context' = FALSE
    /\ timeouts_blocked' = TRUE
    /\ \/ /\ runner_return_context # "none"
          /\ pc' = "resume"
          /\ snap' \in {snap, context_snap}
          /\ UNCHANGED <<status, stdout>>
       \/ /\ runner_return_context # "current"
          /\ pc' = "dead"
          /\ \/ status' = <<"signal", "SIGSEGV">> /\ UNCHANGED stdout
             \/ status' = <<"exit", 1>> /\ Log("execution_result", "kUnhandledSignal")
          /\ UNCHANGED snap
    /\ UNCHANGED <<optionVars, snap_execution_count, runner_return_context,
                   context_snap, exit_state, added_page_addresses>>

\* SigAction for a signal that is neither SIGALRM nor a recoverable fault.
HandleSignal(sig) ==
    \/ /\ IsInsideSnap
       /\ RunnerReentryFromSignal(sig)
    \/ /\ ~IsInsideSnap
       /\ IF sig = "SIGXCPU"
          THEN Die("exit", 2) /\ UNCHANGED stdout
          ELSE Die("exit", 1) /\ Log("execution_result", "kUnhandledSignal")

\* The snap's code touches a page that is not mapped.  A page that cannot be
\* added (the limit, or MAP_FIXED_NOREPLACE finding it mapped) is a fault.
SnapTouchesPage(page) ==
    /\ pc = "snap"
    /\ CanAddPage(page)
    /\ added_page_addresses' = Append(added_page_addresses, page)
    /\ UNCHANGED <<optionVars, pc, snap_execution_count, snapVars,
                   timeouts_blocked, stdout, status, snap_end, entered, received>>

\* A fault that is not recovered from: SIGILL and the like, a permission
\* error, a page that could not be added.
SnapFaults(sig) ==
    /\ pc = "snap"
    /\ HandleSignal(sig)
    /\ snap_end' = sig
    /\ UNCHANGED <<entered, received>>

\* seccomp: the process is killed, whatever handler is installed.
SnapMakesSyscall ==
    /\ pc = "snap"
    /\ Die("signal", "SIGSYS")
    /\ UNCHANGED <<stdout, snap_end, entered, received>>

\* Before InstallSigHandler the default action of a signal applies.
DefaultAction(sig) ==
    /\ pc = "init"
    /\ Die("signal", sig)
    /\ UNCHANGED <<stdout, received>>

\* The timer or the soft CPU limit.
DeliverTimeout(sig) ==
    /\ Running
    /\ ~timeouts_blocked
    /\ \/ DefaultAction(sig)
       \/ /\ pc # "init"
          /\ IF sig = "SIGALRM" THEN Die("exit", 2) /\ UNCHANGED stdout
                                ELSE HandleSignal(sig)
          /\ received' = received \cup {sig}
    /\ UNCHANGED <<snap_end, entered>>

\* Some other caught signal sent from outside.
DeliverSigterm ==
    /\ Running
    /\ \/ DefaultAction("SIGTERM")
       \/ /\ pc # "init"
          /\ HandleSignal("SIGTERM")
          /\ received' = received \cup {"SIGTERM"}
    /\ UNCHANGED <<snap_end, entered>>

\* SIGKILL (hard CPU limit, death of the parent) or SIGINT from the terminal.
KilledFromOutside ==
    /\ Running
    /\ \E sig \in {"SIGKILL", "SIGINT"} : Die("signal", sig)
    /\ UNCHANGED <<stdout, snap_end, entered, received>>

(* Reporting                                                                 *)

\* LogSnapRunResult; only RunnerMain verifies the checksums afterwards.
LogSnapRunResult ==
    /\ pc = "report"
    /\ Log("failed_snapshot_execution", <<snap, EndSpotToOutcome>>)
    /\ pc' = IF mode = "run" THEN "checksum" ELSE "result"
    /\ UNCHANGED <<optionVars, snap_execution_count, snapVars, timeouts_blocked,
                   added_page_addresses, status, snap_end, entered, received>>

\* VerifySnapChecksums may fault if things have gone seriously wrong.
VerifySnapChecksums ==
    /\ pc = "checksum"
    /\ \/ /\ \E ok \in BOOLEAN : Log("postfailure_checksum_status", ok)
          /\ pc' = "result"
          /\ UNCHANGED <<optionVars, snap_execution_count, snapVars,
                         timeouts_blocked, added_page_addresses, status>>
       \/ HandleSignal("SIGSEGV")
    /\ UNCHANGED <<snap_end, entered, received>>

\* The end of the three mains: every snap passed, or the last one did not.
AllPassed == EndSpotToOutcome = "kAsExpected"

LogExecutionResult ==
    /\ pc = "result"
    /\ Log("execution_result", IF AllPassed THEN "kOk" ELSE "kSnapshotFailed")
    /\ pc' = "return"
    /\ UNCHANGED <<optionVars, snap_execution_count, snapVars, timeouts_blocked,
                   added_page_addresses, status, snap_end, entered, received>>

\* Mutant: main returns EXIT_SUCCESS whatever the outcome.
ReturnFromMain_Success ==
    /\ pc = "return"
    /\ Die("exit", 0)
    /\ UNCHANGED <<stdout, snap_end, entered, received>>

ReturnFromMain ==
    /\ pc = "return"
    /\ Die("exit", IF AllPassed THEN 0 ELSE 1)
    /\ UNCHANGED <<stdout, snap_end, entered, received>>

-----------------------------------------------------------------------------
\* What the runner's own code does, given the processor.
RunnerStep ==
    \/ InstallSigHandler \/ NextSnap \/ EnterRunSnap \/ SaveUContext \/ Resume
    \/ RunnerReentry \/ LogSnapRunResult \/ VerifySnapChecksums
    \/ LogExecutionResult \/ ReturnFromMain

\* What the snap, the kernel and other processes may do.
SnapStep == SnapEnds \/ (\E page \in Pages : SnapTouchesPage(page))
              \/ (\E sig \in Faults : SnapFaults(sig)) \/ SnapMakesSyscall

Outside == EmptyCorpus \/ StartupFails
             \/ (\E sig \in Timeouts : DeliverTimeout(sig))
             \/ DeliverSigterm \/ KilledFromOutside

RunnerNext == RunnerStep \/ SnapStep \/ Outside
=============================================================================
