---------------------------- MODULE HarnessTracer ----------------------------
(***************************************************************************)
(* common/harness_tracer.cc with the rest of a traced run: the tracee (a   *)
(* runner with --enable_tracer, which raises SIGSTOP before and after every*)
(* snap), the tracer thread with its ptrace event loop, and the parent     *)
(* thread that reads the tracee's output, waits for it and joins the tracer*)
(* (Subprocess::Communicate, RunnerDriver::RunImpl).                       *)
(*                                                                         *)
(* Two threads wait for one process, so either may collect its status; the *)
(* tracer learns from the tracee's own SIGSTOPs whether a snap is being    *)
(* executed; and it has only the si_code of a SIGTRAP to tell a step from  *)
(* a trap of the tracee's own.                                             *)
(***************************************************************************)
EXTENDS Naturals

CONSTANTS
    MaxSnaps,     \* snaps the tracee executes
    Signals       \* signals the tracee may be sent or raise, besides SIGSTOP
                  \* and SIGTRAP, which have actions of their own

ASSUME TracerAssumption ==
    /\ MaxSnaps \in Nat
    /\ {"SIGSTOP", "SIGUSR1", "SIGTRAP", "syscall", "none"} \cap Signals = {}

\* The tracee.
VARIABLES
    tracee,       \* "running", "stopped" (ptrace- or group-stop), "zombie",
                  \* "reaped"
    stop,         \* why it is stopped: "SIGSTOP", "SIGTRAP", "syscall"
                  \* (SIGTRAP | 0x80) or one of Signals
    si_code,      \* of a SIGTRAP
    by_step,      \* it stopped only because it is traced
    stepping,     \* resumed by Step, so that it stops at the next event
    trap_flag,    \* the trap flag in its own EFLAGS, left there by a popfq
    in_window,    \* it is between the SIGSTOPs around a snap
    snaps_done,
    exit_status   \* how it ended, "none" before that

\* The tracer thread.
VARIABLES
    mode_,        \* "kSingleStep" or "kSyscall"
    arch,         \* "x86_64" or "aarch64"
    tracer,       \* "attach", "wait", "trace", "done"
    seized,       \* PTRACE_SEIZE succeeded
    is_active,
    tracer_info   \* the status it collected, "none" for nullopt

\* The parent thread.
VARIABLES
    parent,       \* "read", "wait", "join", "done", or "dead": LOG_FATAL in
                  \* either thread
    info          \* ProcessInfo, "exit 0" while it is zero-initialised

\* History.
VARIABLES
    swallowed,    \* what the tracer withheld from the tracee unasked
    spurious      \* the tracee got a SIGTRAP that only the tracer caused

stopVars == <<stop, si_code, by_step>>
traceeVars == <<tracee, stopVars, stepping, trap_flag, in_window, snaps_done,
                exit_status>>
setupVars == <<mode_, arch>>
tracerVars == <<setupVars, tracer, seized, is_active, tracer_info>>
parentVars == <<parent, info>>
historyVars == <<swallowed, spurious>>
vars == <<traceeVars, tracerVars, parentVars, historyVars>>

Statuses == {"exit 0", "exit 1", "exit 2", "SIGKILL"}

\* Values of si_code.  "bogus" is SI_USER (0) from pid 0 and uid 0, "SI_TKILL"
\* stands for all that Trace does not expect.
SiCodes == {"SI_KERNEL", "SI_USER", "SI_TKILL", "TRAP_TRACE", "TRAP_BRKPT",
            "TRAP_UNK", "bogus"}

\* Those a step is seen to report ...
StepCodes == {"TRAP_TRACE", "TRAP_BRKPT", "TRAP_UNK"}
               \cup (IF arch = "aarch64" THEN {"bogus"} ELSE {})

\* ... and those of the tracee's own traps: int3 (SI_KERNEL), kill (SI_USER),
\* tgkill (SI_TKILL), icebp or a breakpoint (TRAP_BRKPT).
OwnCodes == SiCodes \ {"bogus"}

-----------------------------------------------------------------------------
Init ==
    /\ tracee = "running"
    /\ stop = "none" /\ si_code = "none" /\ by_step = FALSE
    /\ stepping = FALSE
    /\ trap_flag = FALSE
    /\ in_window = FALSE
    /\ snaps_done = 0
    /\ exit_status = "none"
    /\ mode_ \in {"kSingleStep", "kSyscall"}
    /\ arch \in {"x86_64", "aarch64"}
    /\ tracer = "attach"
    /\ seized = FALSE
    /\ is_active = FALSE
    /\ tracer_info = "none"
    /\ parent = "read"
    /\ info = "exit 0"
    /\ swallowed = {}
    /\ spurious = FALSE

(* The tracee                                                                *)

\* The tracee stops, for its tracer or for good.
StopsFor(signal, code, step) ==
    /\ tracee = "running"
    /\ tracee' = "stopped"
    /\ stop' = signal
    /\ si_code' = code
    /\ by_step' = step
    /\ UNCHANGED <<stepping, exit_status, tracerVars, parentVars, historyVars>>

\* kill(options.pid, SIGSTOP) in RunSnap, before and after the snap.  Without
\* a tracer it stops all the same, until the tracer seizes it.
RaiseSigstop ==
    /\ in_window \/ snaps_done < MaxSnaps
    /\ StopsFor("SIGSTOP", "none", FALSE)
    /\ in_window' = ~in_window
    /\ snaps_done' = IF in_window THEN snaps_done + 1 ELSE snaps_done
    /\ UNCHANGED trap_flag

\* An instruction of a tracee resumed by Step, or with the trap flag set; on
\* x86_64 a popfq of a stepped tracee sets the flag.
StopAtStep(code) ==
    /\ mode_ = "kSingleStep"
    /\ stepping \/ trap_flag
    /\ StopsFor("SIGTRAP", code, TRUE)
    /\ trap_flag' \in IF arch = "x86_64" THEN BOOLEAN ELSE {FALSE}
    /\ UNCHANGED <<in_window, snaps_done>>

\* A system call of a tracee resumed by Step (PTRACE_O_TRACESYSGOOD).
StopAtSyscall ==
    /\ mode_ = "kSyscall"
    /\ stepping
    /\ StopsFor("syscall", "none", TRUE)
    /\ UNCHANGED <<trap_flag, in_window, snaps_done>>

\* A fault of the snap or a signal from outside: a traced process stops before
\* the signal is delivered ...
StopAtSignal(sig) ==
    /\ seized
    /\ StopsFor(sig, "none", FALSE)
    /\ UNCHANGED <<trap_flag, in_window, snaps_done>>

\* ... and so it does for a SIGTRAP of its own.
StopAtTrap(code) ==
    /\ seized
    /\ StopsFor("SIGTRAP", code, FALSE)
    /\ UNCHANGED <<trap_flag, in_window, snaps_done>>

\* It exits (with 1 or 2 in the middle of a snap too), or is killed, even
\* while it is stopped.
TraceeDies(how) ==
    /\ tracee \in {"running", "stopped"}
    /\ how # "SIGKILL" => tracee = "running"
    /\ how = "exit 0" => ~in_window
    /\ tracee' = "zombie"
    /\ exit_status' = how
    /\ UNCHANGED <<stopVars, stepping, trap_flag, in_window, snaps_done, tracerVars,
                   parentVars, historyVars>>

(* The tracer thread: Attach and EventLoop                                   *)

\* PTRACE_SEIZE may find the process gone.
Attach ==
    /\ tracer = "attach"
    /\ tracer' = "wait"
    /\ seized' = (tracee \in {"running", "stopped"})
    /\ UNCHANGED <<traceeVars, setupVars, is_active, tracer_info, parentVars,
                   historyVars>>

WaitpidToStop ==
    /\ tracer = "wait"
    /\ \/ /\ tracee = "stopped"
          /\ tracer' = "trace"
          /\ UNCHANGED <<tracee, tracer_info>>
       \/ /\ tracee = "zombie"
          /\ tracee' = "reaped"
          /\ tracer_info' = exit_status
          /\ tracer' = "done"
       \/ /\ tracee = "reaped"
          /\ tracer_info' = "none"
          /\ tracer' = "done"
          /\ UNCHANGED tracee
    /\ UNCHANGED <<stopVars, stepping, trap_flag, in_window, snaps_done, exit_status,
                   setupVars, seized, is_active, parentVars, historyVars>>

\* Every ptrace request of Trace ends the process if it fails.
PTraceOrDie ==
    /\ tracer = "trace"
    /\ tracee # "stopped"
    /\ parent' = "dead"
    /\ UNCHANGED <<traceeVars, tracerVars, info, historyVars>>

\* The tracee goes on: with Step or PTRACE_CONT, its trap flag suppressed or
\* not, with or without a signal.
Resume(step, suppress, signal) ==
    /\ tracee = "stopped"
    /\ tracee' = "running"
    /\ stop' = "none" /\ si_code' = "none" /\ by_step' = FALSE
    /\ stepping' = step
    /\ trap_flag' = (trap_flag /\ ~suppress)
    /\ tracer' = "wait"
    /\ swallowed' = IF signal = "none" /\ ~by_step /\ stop # "SIGSTOP"
                    THEN swallowed \cup {<<stop, si_code, is_active>>} ELSE swallowed
    /\ spurious' = (spurious \/ (by_step /\ signal = "SIGTRAP"))
    /\ UNCHANGED <<in_window, snaps_done, exit_status, setupVars, seized, tracer_info,
                   parentVars>>

\* The three cases of Trace: a toggle, ...
TraceToggle ==
    /\ tracer = "trace"
    /\ stop = "SIGSTOP"
    /\ Resume(~is_active, is_active, "none")
    /\ is_active' = ~is_active

\* ... a stop while inactive, when si_signo is injected, ...
SiSigno == IF stop = "syscall" THEN "SIGTRAP" ELSE stop

TraceInactive ==
    /\ tracer = "trace"
    /\ stop # "SIGSTOP"
    /\ ~is_active
    /\ Resume(FALSE, FALSE, SiSigno)
    /\ UNCHANGED is_active

\* ... and a stop while active, which the callback is told of: why the tracee
\* stopped, in the order of the tests.
LooksLikeBogusTrap == arch = "aarch64" /\ si_code = "bogus"

TrapReason ==
    IF mode_ = "kSingleStep" /\ LooksLikeBogusTrap THEN "kSingleStepStop"
    ELSE IF si_code \in {"SI_KERNEL", "SI_USER", "bogus"} \/ mode_ = "kSyscall"
    THEN "kSignalStop"
    ELSE IF si_code \in {"TRAP_TRACE", "TRAP_BRKPT", "TRAP_UNK"} THEN "kSingleStepStop"
    ELSE "unexpected"

Reason ==
    CASE stop = "syscall" -> "kSyscallStop"
      [] stop = "SIGTRAP" -> TrapReason
      [] OTHER            -> "kSignalStop"

\* LOG_FATAL.
UnexpectedTrap ==
    /\ tracer = "trace"
    /\ tracee = "stopped" /\ stop # "SIGSTOP"
    /\ is_active
    /\ Reason = "unexpected"
    /\ parent' = "dead"
    /\ UNCHANGED <<traceeVars, tracerVars, info, historyVars>>

InjectedSignal == IF Reason = "kSignalStop" THEN stop ELSE "none"

\* SIGUSR1 is injected without suppressing the trap flag.
Continue(mode) ==
    CASE mode = "kKeepTracing"   -> Resume(TRUE, FALSE, InjectedSignal)
      [] mode = "kStopTracing"   -> Resume(FALSE, TRUE, InjectedSignal)
      [] mode = "kInjectSigusr1" -> Resume(FALSE, FALSE, "SIGUSR1")

\* Mutant: the tracer turns inactive when the callback stops the tracing.
TraceActive_TurnsInactive(mode) ==
    /\ tracer = "trace"
    /\ stop # "SIGSTOP"
    /\ is_active
    /\ Reason # "unexpected"
    /\ Continue(mode)
    /\ is_active' = (mode = "kKeepTracing")

TraceActive(mode) ==
    /\ tracer = "trace"
    /\ stop # "SIGSTOP"
    /\ is_active
    /\ Reason # "unexpected"
    /\ Continue(mode)
    /\ UNCHANGED is_active

(* The parent thread: Communicate and Join                                   *)

ReadEof ==
    /\ parent = "read"
    /\ tracee \in {"zombie", "reaped"}
    /\ parent' = "wait"
    /\ UNCHANGED <<traceeVars, tracerVars, info, historyVars>>

\* Mutant: ECHILD is retried as EINTR is.
Wait4_RetriesEchild ==
    /\ parent = "wait"
    /\ tracee = "zombie"
    /\ tracee' = "reaped"
    /\ info' = exit_status
    /\ parent' = "join"
    /\ UNCHANGED <<stopVars, stepping, trap_flag, in_window, snaps_done, exit_status,
                   tracerVars, historyVars>>

\* ECHILD leaves the zero-initialised status alone.
Wait4 ==
    /\ parent = "wait"
    /\ \/ /\ tracee = "zombie"
          /\ tracee' = "reaped"
          /\ info' = exit_status
       \/ /\ tracee = "reaped"
          /\ UNCHANGED <<tracee, info>>
    /\ parent' = "join"
    /\ UNCHANGED <<stopVars, stepping, trap_flag, in_window, snaps_done, exit_status,
                   tracerVars, historyVars>>

\* Mutant: the status Communicate returned is preferred.
Join_KeepsInfo ==
    /\ parent = "join"
    /\ tracer = "done"
    /\ parent' = "done"
    /\ UNCHANGED <<info, traceeVars, tracerVars, historyVars>>

Join ==
    /\ parent = "join"
    /\ tracer = "done"
    /\ parent' = "done"
    /\ info' = IF tracer_info # "none" THEN tracer_info ELSE info
    /\ UNCHANGED <<traceeVars, tracerVars, historyVars>>

-----------------------------------------------------------------------------
Modes == {"kKeepTracing", "kStopTracing", "kInjectSigusr1"}

Tracee == RaiseSigstop \/ StopAtSyscall
            \/ (\E code \in StepCodes : StopAtStep(code))
            \/ (\E sig \in Signals : StopAtSignal(sig))
            \/ (\E code \in OwnCodes : StopAtTrap(code))
            \/ (\E how \in Statuses : TraceeDies(how))
Tracer == Attach \/ WaitpidToStop \/ PTraceOrDie \/ TraceToggle \/ UnexpectedTrap
            \/ TraceInactive \/ (\E mode \in Modes : TraceActive(mode))
Parent == ReadEof \/ Wait4 \/ Join

Terminated == parent \in {"done", "dead"} /\ UNCHANGED vars

Next ==
    \/ parent # "dead" /\ (Tracer \/ Parent)
    \/ Tracee
    \/ Terminated

Spec == Init /\ [][Next]_vars

-----------------------------------------------------------------------------
(* Properties                                                                *)

\* Every variable keeps its type.
TypeOK ==
    /\ tracee \in {"running", "stopped", "zombie", "reaped"}
    /\ stop \in Signals \cup {"none", "SIGSTOP", "SIGTRAP", "syscall"}
    /\ si_code \in SiCodes \cup {"none"}
    /\ by_step \in BOOLEAN
    /\ stepping \in BOOLEAN
    /\ trap_flag \in BOOLEAN
    /\ in_window \in BOOLEAN
    /\ snaps_done \in 0..MaxSnaps
    /\ exit_status \in Statuses \cup {"none"}
    /\ mode_ \in {"kSingleStep", "kSyscall"}
    /\ arch \in {"x86_64", "aarch64"}
    /\ tracer \in {"attach", "wait", "trace", "done"}
    /\ seized \in BOOLEAN
    /\ is_active \in BOOLEAN
    /\ tracer_info \in Statuses \cup {"none"}
    /\ parent \in {"read", "wait", "join", "done", "dead"}
    /\ info \in Statuses
    /\ spurious \in BOOLEAN

\* The status RunImpl hands to HandleRunnerOutput is the tracee's, whichever
\* thread collected it: the zero that Communicate leaves on ECHILD is never
\* taken for a success.
StatusNotLost == parent = "done" => info = exit_status

\* While the tracee runs, the tracer is active exactly when the tracee is
\* between the two SIGSTOPs around a snap: the toggles of the two sides never
\* get out of step, whatever the callback answered.
ToggleInStep == tracee = "running" => is_active = in_window

\* A signal for the tracee is withheld unasked only if it is a SIGTRAP that
\* comes, between the SIGSTOPs around a snap and with kSingleStep, with an
\* si_code that a step may have: icebp's is.  And no SIGTRAP that only
\* stepping caused is delivered.
SignalsPassedOn ==
    /\ swallowed \subseteq {"SIGTRAP"} \X StepCodes \X {TRUE}
    /\ swallowed # {} => mode_ = "kSingleStep"
    /\ ~spurious

\* The tracer is transparent to the run (HarnessTracer::Trace, Step): its mode
\* follows the tracee's SIGSTOPs; the tracee gets every signal that is its own,
\* but for a SIGTRAP that cannot be told from a step while it is being
\* single-stepped; and it gets none of the tracer's making but the SIGUSR1 a
\* callback asks for, though a trap flag that a popfq kept outlives PTRACE_CONT.
TracerTransparent == ToggleInStep /\ SignalsPassedOn

\* Why they hold: what a stopped tracee means for the toggles, ...
ToggleInv ==
    /\ tracee = "running" => is_active = in_window /\ tracer # "trace"
    /\ tracee = "stopped" => is_active = (in_window # (stop = "SIGSTOP"))
    /\ in_window => snaps_done < MaxSnaps

\* ... who is stepped, and what a stop by a step looks like, ...
StepInv ==
    /\ stepping \/ trap_flag \/ by_step => is_active
    /\ trap_flag => mode_ = "kSingleStep"
    /\ by_step => \/ stop = "syscall"
                  \/ stop = "SIGTRAP" /\ si_code \in StepCodes /\ mode_ = "kSingleStep"
    /\ stop = "syscall" => by_step
    /\ stop = "SIGTRAP" => si_code \in SiCodes
    /\ stop = "SIGTRAP" /\ ~by_step => si_code \in OwnCodes
    /\ tracee = "stopped" => stop # "none"

\* ... and who has collected the status.
StatusInv ==
    /\ tracer # "done" => tracer_info = "none"
    /\ tracee \in {"running", "stopped", "zombie"} =>
         tracer # "done" /\ parent \in {"read", "wait", "dead"}
    /\ tracee \in {"running", "stopped"} => parent \in {"read", "dead"}
    /\ tracee \in {"zombie", "reaped"} => exit_status \in Statuses
    /\ tracee = "reaped" =>
         tracer_info = exit_status \/ (tracer_info = "none" /\ info = exit_status)
    /\ tracee = "reaped" /\ tracer_info # "none" => tracer = "done"
    /\ parent = "done" => tracee = "reaped" /\ info = exit_status

\* The inductive invariant of a traced run.
TracerInv == TypeOK /\ ToggleInv /\ StepInv /\ StatusInv /\ SignalsPassedOn

\* When the tracee is gone both threads finish: the two waits for one child
\* cannot leave either thread waiting for ever.
JoinReturns == (tracee = "zombie") ~> (parent \in {"done", "dead"})

\* A tracee that stopped is always resumed or reaped.
StoppedIsResumed == (tracee = "stopped") ~> (tracee # "stopped" \/ parent = "dead")
=============================================================================
