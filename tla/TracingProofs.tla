---------------------------- MODULE TracingProofs ----------------------------
(***************************************************************************)
(* Proofs about HarnessTracer, for any number of snaps and any signals,    *)
(* about the analysis of SnippetTracer, for any snippets, limits and       *)
(* hiccups, and about PerfEventBuffer, for any buffer and any records.     *)
(***************************************************************************)
EXTENDS HarnessTracer, SnippetTracer, PerfEventBuffer, SpanUtilProofs,
        SequenceTheorems

-----------------------------------------------------------------------------
(* HarnessTracer                                                           *)

\* The initial state satisfies the invariant.
LEMMA TracerInit == Init => TracerInv
<1> SUFFICES ASSUME Init PROVE TracerInv
  OBVIOUS
<1>1. TypeOK
  <2>1. 0 \in 0..MaxSnaps
    BY TracerAssumption
  <2>2. info \in Statuses
    BY DEF Init, Statuses
  <2> QED
    BY <2>1, <2>2 DEF Init, TypeOK
<1>2. ToggleInv /\ StatusInv /\ StepInv
  BY DEF Init, ToggleInv, StatusInv, StepInv
<1>3. SignalsPassedOn
  BY DEF Init, SignalsPassedOn
<1> QED
  BY <1>1, <1>2, <1>3 DEF TracerInv

\* Histories of signals stay what they are while the tracer does not resume
\* the tracee.
LEMMA SignalsFrame ==
    ASSUME SignalsPassedOn, UNCHANGED <<mode_, arch, swallowed, spurious>>
    PROVE  SignalsPassedOn'
BY DEF SignalsPassedOn, StepCodes

\* The codes of steps and of traps are codes.
LEMMA CodesAre == StepCodes \subseteq SiCodes /\ OwnCodes \subseteq SiCodes
BY DEF StepCodes, OwnCodes, SiCodes

\* A stop that is no toggle, for whatever reason.
LEMMA StopStep ==
    ASSUME TracerInv, NEW signal, NEW code, NEW step \in BOOLEAN,
           StopsFor(signal, code, step),
           UNCHANGED <<in_window, snaps_done>>,
           signal \in Signals \cup {"SIGTRAP", "syscall"},
           signal = "SIGTRAP" => code \in IF step THEN StepCodes ELSE OwnCodes,
           signal # "SIGTRAP" => code = "none",
           signal = "syscall" <=> (step /\ signal # "SIGTRAP"),
           step => stepping \/ trap_flag,
           step /\ signal = "SIGTRAP" => mode_ = "kSingleStep",
           trap_flag' \in BOOLEAN,
           trap_flag' => trap_flag \/ (step /\ mode_ = "kSingleStep")
    PROVE  TracerInv'
<1> USE DEF TracerInv
<1>1. /\ tracee = "running" /\ tracee' = "stopped" /\ stop' = signal
      /\ si_code' = code /\ by_step' = step
      /\ UNCHANGED <<stepping, exit_status, mode_, arch, tracer, seized, is_active,
                     tracer_info, parent, info, swallowed, spurious>>
  BY DEF StopsFor, tracerVars, setupVars, parentVars, historyVars
<1>2. signal # "SIGSTOP" /\ signal # "none"
  BY TracerAssumption
<1>3. TypeOK'
  BY <1>1, CodesAre DEF TypeOK
<1>4. ToggleInv'
  BY <1>1, <1>2 DEF ToggleInv, TypeOK
<1>5. StepInv'
  <2>1. StepCodes' = StepCodes /\ OwnCodes' = OwnCodes
    BY <1>1 DEF StepCodes, OwnCodes
  <2> QED
    BY <1>1, <1>2, <2>1, CodesAre DEF StepInv
<1>6. StatusInv'
  BY <1>1 DEF StatusInv
<1>7. SignalsPassedOn'
  BY <1>1, SignalsFrame
<1> QED
  BY <1>3, <1>4, <1>5, <1>6, <1>7

\* Every step of the tracee preserves the invariant.
LEMMA TraceeStep == TracerInv /\ Tracee => TracerInv'
<1> SUFFICES ASSUME TracerInv, Tracee PROVE TracerInv'
  OBVIOUS
<1> USE DEF TracerInv
<1>1. CASE RaiseSigstop
  <2>1. /\ tracee = "running" /\ tracee' = "stopped" /\ stop' = "SIGSTOP"
        /\ si_code' = "none" /\ by_step' = FALSE /\ in_window' = ~in_window
        /\ UNCHANGED <<stepping, trap_flag, exit_status, mode_, arch, tracer, seized,
                       is_active, tracer_info, parent, info, swallowed, spurious>>
    BY <1>1 DEF RaiseSigstop, StopsFor, tracerVars, setupVars, parentVars, historyVars
  <2>2. TypeOK'
    <3>1. in_window' \in BOOLEAN
      BY <2>1
    <3>2. snaps_done' \in 0..MaxSnaps
      <4>1. CASE in_window
        BY <1>1, <4>1, TracerAssumption DEF RaiseSigstop, TypeOK, ToggleInv
      <4>2. CASE ~in_window
        BY <1>1, <4>2 DEF RaiseSigstop, TypeOK
      <4> QED
        BY <4>1, <4>2
    <3>3. si_code' \in SiCodes \cup {"none"} /\ by_step' \in BOOLEAN
      BY <2>1
    <3> HIDE DEF TracerInv
    <3>4. TypeOK
      BY DEF TracerInv
    <3> QED
      BY <2>1, <3>1, <3>2, <3>3, <3>4 DEF TypeOK
  <2>3. ToggleInv'
    <3>1. in_window' => snaps_done' < MaxSnaps
      BY <1>1 DEF RaiseSigstop
    <3> QED
      BY <2>1, <3>1 DEF ToggleInv, TypeOK
  <2>4. StatusInv'
    BY <2>1 DEF StatusInv
  <2>5. StepInv'
    BY <2>1 DEF StepInv, TypeOK
  <2>6. SignalsPassedOn'
    BY <2>1, SignalsFrame
  <2> QED
    BY <2>2, <2>3, <2>4, <2>5, <2>6
<1>2. CASE StopAtSyscall
  <2>1. /\ StopsFor("syscall", "none", TRUE)
        /\ UNCHANGED <<trap_flag, in_window, snaps_done>> /\ stepping
    BY <1>2 DEF StopAtSyscall
  <2> QED
    BY <2>1, StopStep DEF TypeOK
<1>3. CASE \E code \in StepCodes : StopAtStep(code)
  <2> PICK code \in StepCodes : StopAtStep(code)
    BY <1>3
  <2>1. /\ StopsFor("SIGTRAP", code, TRUE) /\ mode_ = "kSingleStep"
        /\ UNCHANGED <<in_window, snaps_done>>
        /\ stepping \/ trap_flag
        /\ trap_flag' \in BOOLEAN
    BY DEF StopAtStep
  <2> HIDE DEF TracerInv
  <2> QED
    BY <2>1, StopStep
<1>4. CASE \E sig \in Signals : StopAtSignal(sig)
  <2> PICK sig \in Signals : StopAtSignal(sig)
    BY <1>4
  <2>1. /\ StopsFor(sig, "none", FALSE)
        /\ UNCHANGED <<trap_flag, in_window, snaps_done>>
    BY DEF StopAtSignal
  <2>2. sig # "SIGTRAP" /\ sig # "syscall"
    BY TracerAssumption
  <2> QED
    BY <2>1, <2>2, StopStep DEF TypeOK
<1>5. CASE \E code \in OwnCodes : StopAtTrap(code)
  <2> PICK code \in OwnCodes : StopAtTrap(code)
    BY <1>5
  <2>1. /\ StopsFor("SIGTRAP", code, FALSE)
        /\ UNCHANGED <<trap_flag, in_window, snaps_done>>
    BY DEF StopAtTrap
  <2> QED
    BY <2>1, StopStep DEF TypeOK
<1>6. CASE \E how \in Statuses : TraceeDies(how)
  <2> PICK how \in Statuses : TraceeDies(how)
    BY <1>6
  <2>1. /\ tracee \in {"running", "stopped"} /\ tracee' = "zombie"
        /\ exit_status' = how
        /\ UNCHANGED <<stop, si_code, by_step, stepping, trap_flag, in_window,
                       snaps_done, mode_, arch, tracer, seized, is_active,
                       tracer_info, parent, info, swallowed, spurious>>
    BY DEF TraceeDies, stopVars, tracerVars, setupVars, parentVars, historyVars
  <2>2. TypeOK'
    BY <2>1 DEF TypeOK
  <2>3. ToggleInv' /\ StatusInv'
    BY <2>1 DEF ToggleInv, StatusInv
  <2>4. StepInv'
    BY <2>1 DEF StepInv, StepCodes, OwnCodes
  <2>5. SignalsPassedOn'
    BY <2>1, SignalsFrame
  <2> QED
    BY <2>2, <2>3, <2>4, <2>5
<1> QED
  BY <1>1, <1>2, <1>3, <1>4, <1>5, <1>6 DEF Tracee

\* Resuming a stopped tracee, whatever the tracer turns into.
LEMMA ResumeStep ==
    ASSUME TracerInv, NEW step \in BOOLEAN, NEW suppress \in BOOLEAN, NEW signal,
           Resume(step, suppress, signal),
           is_active' = in_window,
           step => is_active', is_active' \/ suppress \/ ~is_active,
           signal = "none" /\ ~by_step /\ stop # "SIGSTOP" =>
               /\ stop = "SIGTRAP" /\ si_code \in StepCodes
               /\ is_active /\ mode_ = "kSingleStep",
           signal = "SIGTRAP" => ~by_step
    PROVE  TracerInv'
<1> USE DEF TracerInv
<1>1. /\ tracee = "stopped" /\ tracee' = "running" /\ stop' = "none"
      /\ si_code' = "none" /\ by_step' = FALSE /\ stepping' = step
      /\ trap_flag' = (trap_flag /\ ~suppress) /\ tracer' = "wait"
      /\ UNCHANGED <<in_window, snaps_done, exit_status, mode_, arch, seized,
                     tracer_info, parent, info>>
  BY DEF Resume, setupVars, parentVars
<1>2. spurious' = FALSE
  BY DEF Resume, SignalsPassedOn
<1>3. swallowed' \subseteq {"SIGTRAP"} \X StepCodes \X {TRUE}
  <2>1. CASE signal = "none" /\ ~by_step /\ stop # "SIGSTOP"
    <3>1. swallowed' = swallowed \cup {<<stop, si_code, is_active>>}
      BY <2>1 DEF Resume
    <3>2. is_active = TRUE
      BY <2>1 DEF TypeOK
    <3>3. <<stop, si_code, is_active>> \in {"SIGTRAP"} \X StepCodes \X {TRUE}
      BY <2>1, <3>2
    <3> QED
      BY <3>1, <3>3 DEF SignalsPassedOn
  <2>2. CASE ~(signal = "none" /\ ~by_step /\ stop # "SIGSTOP")
    BY <2>2 DEF Resume, SignalsPassedOn
  <2> QED
    BY <2>1, <2>2
<1>4. swallowed' # {} => mode_ = "kSingleStep"
  BY DEF Resume, SignalsPassedOn
<1>5. SignalsPassedOn'
  <2>1. StepCodes' = StepCodes
    BY <1>1 DEF StepCodes
  <2> QED
    BY <1>1, <1>2, <1>3, <1>4, <2>1 DEF SignalsPassedOn
<1>6. TypeOK'
  BY <1>1, <1>2 DEF TypeOK
<1>7. ToggleInv'
  BY <1>1 DEF ToggleInv
<1>8. StepInv'
  BY <1>1 DEF StepInv
<1>9. StatusInv'
  BY <1>1 DEF StatusInv
<1> QED
  BY <1>5, <1>6, <1>7, <1>8, <1>9

\* What Trace makes of a stop: a signal withheld is a SIGTRAP with the si_code
\* of a step, and a step is never taken for a signal.
LEMMA ReasonIs ==
    ASSUME TracerInv, tracee = "stopped", stop # "SIGSTOP", is_active,
           Reason # "unexpected"
    PROVE  /\ InjectedSignal = "none" /\ ~by_step =>
                 stop = "SIGTRAP" /\ si_code \in StepCodes /\ mode_ = "kSingleStep"
           /\ InjectedSignal = "SIGTRAP" => ~by_step
<1> USE DEF TracerInv
<1>1. CASE stop = "syscall"
  <2>1. Reason = "kSyscallStop" /\ by_step
    BY <1>1 DEF Reason, StepInv
  <2> QED
    BY <2>1 DEF InjectedSignal
<1>2. CASE stop = "SIGTRAP"
  <2>1. Reason = TrapReason
    BY <1>2 DEF Reason
  <2>2. ASSUME ~by_step, TrapReason # "kSignalStop"
        PROVE  si_code \in StepCodes /\ mode_ = "kSingleStep"
    <3>1. si_code # "bogus"
      BY <1>2, <2>2 DEF StepInv, OwnCodes
    <3> QED
      BY <3>1, <2>1, <2>2 DEF TrapReason, LooksLikeBogusTrap, StepCodes, TypeOK
  <2>3. ASSUME by_step PROVE TrapReason # "kSignalStop"
    <3>1. si_code \in StepCodes /\ mode_ = "kSingleStep"
      BY <1>2, <2>3 DEF StepInv
    <3> QED
      BY <3>1 DEF TrapReason, LooksLikeBogusTrap, StepCodes
  <2> QED
    BY <1>2, <2>1, <2>2, <2>3 DEF InjectedSignal
<1>3. CASE stop # "syscall" /\ stop # "SIGTRAP"
  <2>1. Reason = "kSignalStop" /\ InjectedSignal = stop
    BY <1>3 DEF Reason, InjectedSignal
  <2>2. stop # "none"
    BY DEF StepInv
  <2> QED
    BY <1>3, <2>1, <2>2
<1> QED
  BY <1>1, <1>2, <1>3

\* Every step of the tracer thread preserves the invariant.
LEMMA TracerStep == TracerInv /\ Tracer => TracerInv'
<1> SUFFICES ASSUME TracerInv, Tracer PROVE TracerInv'
  OBVIOUS
<1> USE DEF TracerInv
<1>1. CASE Attach
  <2>1. /\ seized' \in BOOLEAN /\ tracer' = "wait" /\ tracer = "attach"
        /\ UNCHANGED <<traceeVars, setupVars, is_active, tracer_info, parentVars,
                       historyVars>>
    BY <1>1 DEF Attach
  <2>2. TypeOK' /\ ToggleInv' /\ StatusInv'
    BY <2>1 DEF TypeOK, ToggleInv, StatusInv, traceeVars, stopVars, setupVars,
                parentVars, historyVars
  <2>3. StepInv'
    BY <2>1 DEF StepInv, StepCodes, OwnCodes, traceeVars, stopVars, setupVars
  <2>4. SignalsPassedOn'
    BY <2>1, SignalsFrame DEF setupVars, historyVars
  <2> QED
    BY <2>2, <2>3, <2>4
<1>2. CASE WaitpidToStop
  <2>1. UNCHANGED <<stop, si_code, by_step, stepping, trap_flag, in_window,
                    snaps_done, exit_status, mode_, arch, seized, is_active,
                    parent, info, swallowed, spurious>>
    BY <1>2 DEF WaitpidToStop, stopVars, setupVars, parentVars, historyVars
  <2>2. TypeOK'
    BY <1>2, <2>1 DEF WaitpidToStop, TypeOK, StatusInv
  <2>3. ToggleInv'
    BY <1>2, <2>1 DEF WaitpidToStop, ToggleInv
  <2>4. StatusInv'
    BY <1>2, <2>1 DEF WaitpidToStop, StatusInv, TypeOK
  <2>5. StepInv'
    BY <1>2, <2>1 DEF WaitpidToStop, StepInv, StepCodes, OwnCodes
  <2>6. SignalsPassedOn'
    BY <2>1, SignalsFrame
  <2> QED
    BY <2>2, <2>3, <2>4, <2>5, <2>6
<1>3. CASE PTraceOrDie \/ UnexpectedTrap
  <2>1. /\ parent' = "dead" /\ tracer = "trace"
        /\ UNCHANGED <<traceeVars, tracerVars, info, historyVars>>
    BY <1>3 DEF PTraceOrDie, UnexpectedTrap
  <2>2. TypeOK' /\ ToggleInv' /\ StatusInv'
    BY <2>1 DEF TypeOK, ToggleInv, StatusInv, traceeVars, stopVars, tracerVars,
                setupVars, historyVars
  <2>3. StepInv'
    BY <2>1 DEF StepInv, StepCodes, OwnCodes, traceeVars, stopVars, tracerVars,
                setupVars
  <2>4. SignalsPassedOn'
    BY <2>1, SignalsFrame DEF tracerVars, setupVars, historyVars
  <2> QED
    BY <2>2, <2>3, <2>4
<1>4. CASE TraceToggle
  <2>1. tracee = "stopped" /\ stop = "SIGSTOP" /\ is_active' = ~is_active
    BY <1>4 DEF TraceToggle, Resume
  <2>2. is_active' = in_window /\ is_active \in BOOLEAN
    BY <2>1 DEF ToggleInv, TypeOK
  <2>3. Resume(~is_active, is_active, "none")
    BY <1>4 DEF TraceToggle
  <2> QED
    BY <2>1, <2>2, <2>3, ResumeStep
<1>5. CASE TraceInactive
  <2>1. tracee = "stopped" /\ stop # "SIGSTOP" /\ is_active' = is_active /\ ~is_active
    BY <1>5 DEF TraceInactive, Resume
  <2>2. is_active' = in_window
    BY <2>1 DEF ToggleInv, TypeOK
  <2>3. Resume(FALSE, FALSE, SiSigno)
    BY <1>5 DEF TraceInactive
  <2>4. ~by_step /\ SiSigno # "none"
    BY <2>1 DEF StepInv, SiSigno
  <2> QED
    BY <2>1, <2>2, <2>3, <2>4, ResumeStep
<1>6. CASE \E mode \in Modes : TraceActive(mode)
  <2> PICK mode \in Modes : TraceActive(mode)
    BY <1>6
  <2>1. PICK step \in BOOLEAN, suppress \in BOOLEAN,
             signal \in {InjectedSignal, "SIGUSR1"} :
             Resume(step, suppress, signal)
    BY DEF TraceActive, Continue, Modes
  <2>2. /\ tracee = "stopped" /\ stop # "SIGSTOP" /\ is_active' = is_active
        /\ is_active /\ Reason # "unexpected"
    BY <2>1 DEF TraceActive, Resume
  <2>3. is_active' = in_window
    BY <2>2 DEF ToggleInv, TypeOK
  <2>4. /\ InjectedSignal = "none" /\ ~by_step =>
               stop = "SIGTRAP" /\ si_code \in StepCodes /\ mode_ = "kSingleStep"
        /\ InjectedSignal = "SIGTRAP" => ~by_step
    BY <2>2, ReasonIs
  <2> HIDE DEF TracerInv
  <2>5. /\ signal = "none" /\ ~by_step /\ stop # "SIGSTOP" =>
               /\ stop = "SIGTRAP" /\ si_code \in StepCodes
               /\ is_active /\ mode_ = "kSingleStep"
        /\ signal = "SIGTRAP" => ~by_step
    BY <2>2, <2>4
  <2>6. (step => is_active') /\ (is_active' \/ suppress \/ ~is_active)
    BY <2>2
  <2> QED
    BY <2>1, <2>3, <2>5, <2>6, ResumeStep
<1> QED
  BY <1>1, <1>2, <1>3, <1>4, <1>5, <1>6 DEF Tracer

\* Every step of the parent thread preserves the invariant.
LEMMA ParentStep == TracerInv /\ Parent => TracerInv'
<1> SUFFICES ASSUME TracerInv, Parent PROVE TracerInv'
  OBVIOUS
<1> USE DEF TracerInv
<1>1. UNCHANGED <<stop, si_code, by_step, stepping, trap_flag, in_window, snaps_done,
                  exit_status, mode_, arch, tracer, seized, is_active, tracer_info,
                  swallowed, spurious>>
  BY DEF Parent, ReadEof, Wait4, Join, traceeVars, stopVars, tracerVars, setupVars,
         historyVars
<1>2. SignalsPassedOn'
  BY <1>1, SignalsFrame
<1>3. CASE ReadEof
  <2>1. UNCHANGED <<tracee, info>> /\ parent' = "wait"
    BY <1>3 DEF ReadEof, traceeVars
  <2>2. TypeOK' /\ ToggleInv' /\ StatusInv'
    BY <1>1, <1>3, <2>1 DEF ReadEof, TypeOK, ToggleInv, StatusInv
  <2>3. StepInv'
    BY <1>1, <2>1 DEF StepInv, StepCodes, OwnCodes
  <2> QED
    BY <1>2, <2>2, <2>3
<1>4. CASE Wait4
  <2>1. TypeOK'
    BY <1>1, <1>4 DEF Wait4, TypeOK, StatusInv
  <2>2. ToggleInv'
    BY <1>1, <1>4 DEF Wait4, ToggleInv
  <2>3. StatusInv'
    BY <1>1, <1>4 DEF Wait4, StatusInv
  <2>4. StepInv'
    BY <1>1, <1>4 DEF Wait4, StepInv, StepCodes, OwnCodes
  <2> QED
    BY <1>2, <2>1, <2>2, <2>3, <2>4
<1>5. CASE Join
  <2>1. tracee = "reaped" /\ tracee' = tracee
    BY <1>5 DEF Join, StatusInv, TypeOK, traceeVars
  <2>2. info' = exit_status
    BY <1>5, <2>1 DEF Join, StatusInv, Statuses
  <2>3. TypeOK'
    BY <1>1, <1>5, <2>1, <2>2 DEF Join, TypeOK, StatusInv
  <2>4. ToggleInv'
    BY <1>1, <2>1 DEF ToggleInv
  <2>5. StatusInv'
    BY <1>1, <1>5, <2>1, <2>2 DEF Join, StatusInv
  <2>6. StepInv'
    BY <1>1, <2>1 DEF StepInv, StepCodes, OwnCodes
  <2> QED
    BY <1>2, <2>3, <2>4, <2>5, <2>6
<1> QED
  BY <1>3, <1>4, <1>5 DEF Parent

\* Every step of a traced run preserves the invariant.
LEMMA TracerNext == TracerInv /\ [Next]_vars => TracerInv'
<1> SUFFICES ASSUME TracerInv, [Next]_vars PROVE TracerInv'
  OBVIOUS
<1>1. CASE UNCHANGED vars
  <2>1. UNCHANGED <<traceeVars, tracerVars, parentVars, historyVars>>
    BY <1>1 DEF vars
  <2>2. TypeOK' /\ ToggleInv' /\ StatusInv'
    BY <2>1 DEF TracerInv, TypeOK, ToggleInv, StatusInv, traceeVars, stopVars,
                tracerVars, setupVars, parentVars, historyVars
  <2>3. StepInv'
    BY <2>1 DEF TracerInv, StepInv, StepCodes, OwnCodes, traceeVars, stopVars,
                tracerVars, setupVars
  <2>4. SignalsPassedOn'
    BY <2>1, SignalsFrame DEF TracerInv, tracerVars, setupVars, historyVars
  <2> QED
    BY <2>2, <2>3, <2>4 DEF TracerInv
<1> QED
  BY <1>1, TraceeStep, TracerStep, ParentStep DEF Next, Terminated

\* The inductive invariant holds in every reachable state.
LEMMA TracerInvHolds == Spec => []TracerInv
<1> QED
  BY TracerInit, TracerNext, PTL DEF Spec

\* Whichever thread collects the tracee's status, RunImpl returns it: the
\* zero that Communicate leaves on ECHILD is never taken for a success.
THEOREM StatusCorrect == Spec => []StatusNotLost
<1>1. TracerInv => StatusNotLost
  BY DEF TracerInv, StatusInv, StatusNotLost
<1> QED
  BY <1>1, TracerInvHolds, PTL

\* The tracer's active mode and the tracee's SIGSTOPs never get out of step;
\* of the tracee's own signals only a SIGTRAP whose si_code is that of a step
\* can be lost, while it is single-stepped; and the tracee gets no SIGTRAP of
\* the tracer's making.  For any number of snaps, any signals and traps, either
\* mode and architecture and any answers of the callback.
THEOREM TogglesAgree == Spec => []TracerTransparent
<1>1. TracerInv => TracerTransparent
  BY DEF TracerInv, ToggleInv, TracerTransparent, ToggleInStep
<1> QED
  BY <1>1, TracerInvHolds, PTL


-----------------------------------------------------------------------------
(* Executions                                                                *)

\* The bound on executions.
LEMMA FuelIsNat == Fuel \in Nat
BY SnippetTracerAssumption

\* The choice that makes TLC evaluate a step once is that step.
LEMMA ChooseOnly == ASSUME NEW p, NEW l PROVE (CHOOSE m \in {Advance(p, x) : x \in {l}} : TRUE) = Advance(p, l)
<1>1. {Advance(p, x) : x \in {l}} = {Advance(p, l)}
  OBVIOUS
<1>2. \A S : S = {Advance(p, l)} => (CHOOSE m \in S : TRUE) = Advance(p, l)
  OBVIOUS
<1> QED BY <1>1, <1>2, Zenon

\* The recursion that defines an execution, and that it has a solution.
PathOf(p, m0, f) ==
  [n \in 0 .. Fuel |-> IF n = 0 THEN m0
                       ELSE CHOOSE m \in {Advance(p, l) : l \in {f[n - 1]}} : TRUE]

\* By induction on the length.
LEMMA PathExists ==
  ASSUME NEW p, NEW m0 PROVE \E f : f = PathOf(p, m0, f)
<1> DEFINE E(f, n) == IF n = 0 THEN m0
                      ELSE CHOOSE m \in {Advance(p, l) : l \in {f[n - 1]}} : TRUE
           D(f, n) == IF n = 0 THEN m0 ELSE Advance(p, f[n - 1])
           Solves(f, k) == f = [n \in 0 .. k |-> D(f, n)]
           P == {k \in 0 .. Fuel : \E f : Solves(f, k)}
<1>1. 0 \in P
  <2> DEFINE g == [n \in 0 .. 0 |-> m0]
  <2>1. Solves(g, 0)
    OBVIOUS
  <2> HIDE DEF g
  <2>2. \E f : Solves(f, 0)
    BY <2>1
  <2> QED BY <2>2, FuelIsNat
<1>2. ASSUME NEW k \in 0 .. (Fuel - 1), k \in P PROVE k + 1 \in P
  <2>1. PICK g : Solves(g, k)
    BY <1>2
  <2> DEFINE a == Advance(p, g[k])
             h == [n \in 0 .. (k + 1) |-> IF n = k + 1 THEN a ELSE g[n]]
  <2>2. \A n \in 0 .. k : g[n] = D(g, n)
    BY <2>1
  <2>3. \A n \in 0 .. (k + 1) : h[n] = D(h, n)
    <3>1. ASSUME NEW n \in 0 .. (k + 1) PROVE h[n] = D(h, n)
      <4>1. CASE n = k + 1
        <5>1. n # 0 /\ n - 1 = k /\ h[n - 1] = g[k] /\ h[n] = a
          BY <4>1, FuelIsNat
        <5> QED BY <5>1
      <4>2. CASE n # k + 1 /\ n # 0
        <5>1. n \in 0 .. k /\ h[n] = g[n] /\ h[n - 1] = g[n - 1]
          BY <4>2, FuelIsNat
        <5> QED BY <5>1, <4>2, <2>2
      <4>3. CASE n = 0
        <5>1. n \in 0 .. k /\ h[n] = g[n]
          BY <4>3, FuelIsNat
        <5> QED BY <5>1, <4>3, <2>2
      <4> QED BY <4>1, <4>2, <4>3
    <3> QED BY <3>1
  <2>4. Solves(h, k + 1)
    <3>1. h = [n \in 0 .. (k + 1) |-> h[n]]
      OBVIOUS
    <3> HIDE DEF h
    <3> QED BY <3>1, <2>3
  <2> HIDE DEF h
  <2>5. \E f : Solves(f, k + 1)
    BY <2>4
  <2> QED BY <2>5, FuelIsNat
<1>3. Fuel \in P
  <2> HIDE DEF P
  <2>1. 0 .. Fuel \subseteq P
    BY <1>1, <1>2, FuelIsNat, InductionUpTo
  <2> QED BY <2>1, FuelIsNat
<1>4. PICK f : Solves(f, Fuel)
  BY <1>3
<1>5. \A n : E(f, n) = D(f, n)
  BY ChooseOnly
<1> HIDE DEF E, D
<1>6. f = [n \in 0 .. Fuel |-> E(f, n)]
  BY <1>4, <1>5
<1>7. f = PathOf(p, m0, f)
  BY <1>6 DEF E, PathOf
<1> QED BY <1>7

\* An execution, step by step.
LEMMA PathFacts ==
  ASSUME NEW p, NEW m0
  PROVE  /\ DOMAIN Path(p, m0) = 0 .. Fuel
         /\ Path(p, m0)[0] = m0
         /\ \A n \in 0 .. (Fuel - 1) : Path(p, m0)[n + 1] = Advance(p, Path(p, m0)[n])
<1> DEFINE f == CHOOSE g : g = PathOf(p, m0, g)
<1>1. Path(p, m0) = f
  BY DEF Path, PathOf
<1>2. f = PathOf(p, m0, f)
  BY PathExists
<1> HIDE DEF f
<1>3. DOMAIN f = 0 .. Fuel
  BY <1>2 DEF PathOf
<1>4. f[0] = m0
  BY <1>2, FuelIsNat DEF PathOf
<1>5. ASSUME NEW n \in 0 .. (Fuel - 1) PROVE f[n + 1] = Advance(p, f[n])
  <2>1. n + 1 \in 0 .. Fuel /\ n + 1 # 0 /\ (n + 1) - 1 = n
    BY FuelIsNat
  <2>2. f[n + 1] = CHOOSE m \in {Advance(p, l) : l \in {f[n]}} : TRUE
    BY <1>2, <2>1 DEF PathOf
  <2> QED BY <2>2, ChooseOnly
<1> QED BY <1>1, <1>3, <1>4, <1>5

\* What the assumption says of a snippet.
LEMMA SnippetFacts ==
  ASSUME NEW p \in Snippets
  PROVE  /\ p.len \in Nat
         /\ \A a : IsInsideCode(p, a) /\ a \in Int =>
              /\ p.code[a].size \in Nat /\ p.code[a].size > 0 /\ p.code[a].to \in Nat
BY SnippetTracerAssumption DEF IsInsideCode

\* Type correctness of the machine: the start, ...
LEMMA StartIsMachine == Start \in Machines
BY DEF Start, Machines, Bit

\* What a step does to a machine inside the code.
LEMMA MachineStepFacts ==
  ASSUME NEW p \in Snippets, NEW m \in Machines
  PROVE  /\ MachineStep(p, m) \in Machines
         /\ ~IsInsideCode(p, m.pc) => MachineStep(p, m) = [m EXCEPT !.fault = TRUE]
         /\ ~IsInsideCode(p, m.pc) => MachineStep(p, m).fault
<1>1. m.pc \in Nat /\ m.r \in Bit /\ m.ext \in Bit /\ m.sp \in Bit /\ m.mem \in Bit /\ m.far \in Bit
      /\ m.fault \in BOOLEAN
  BY DEF Machines
<1>2. [m EXCEPT !.fault = TRUE] \in Machines /\ [m EXCEPT !.fault = TRUE].fault
  BY DEF Machines
<1>3. CASE ~IsInsideCode(p, m.pc) \/ p.code[m.pc].op = "bad"
  <2>1. MachineStep(p, m) = [m EXCEPT !.fault = TRUE]
    BY <1>3 DEF MachineStep
  <2> QED BY <2>1, <1>2
<1>4. CASE ~(~IsInsideCode(p, m.pc) \/ p.code[m.pc].op = "bad")
  <2> DEFINE i == p.code[m.pc]
             pc == IF i.op = "jmp" \/ (i.op = "jz" /\ m.r = 0) THEN i.to ELSE m.pc + i.size
             r == IF i.op \in {"not", "???"} THEN Flip(m.r) ELSE m.r
             ext == IF i.op = "vec" THEN Flip(m.ext) ELSE m.ext
             sp == IF i.op = "push" THEN Flip(m.sp) ELSE m.sp
             mem == IF i.op = "store" THEN m.r ELSE m.mem
             far == IF i.op = "far" THEN 1 ELSE m.far
  <2>1. IsInsideCode(p, m.pc) /\ i.to \in Nat /\ i.size \in Nat
    BY <1>1, <1>4, SnippetFacts
  <2>2. MachineStep(p, m) = [m EXCEPT !.pc = pc, !.r = r, !.ext = ext, !.sp = sp,
                                      !.mem = mem, !.far = far]
    BY <1>4 DEF MachineStep
  <2>3. pc \in Nat
    BY <2>1, <1>1
  <2>4. \A b \in Bit : Flip(b) \in Bit
    BY DEF Bit, Flip
  <2>5. r \in Bit /\ ext \in Bit /\ sp \in Bit /\ mem \in Bit /\ far \in Bit
    BY <1>1, <2>4 DEF Bit
  <2> HIDE DEF pc, r, ext, sp, mem, far
  <2>6. MachineStep(p, m) \in Machines
    BY <2>2, <2>3, <2>5 DEF Machines
  <2> QED BY <2>1, <2>6
<1> QED BY <1>3, <1>4

\* ... a step, ...
LEMMA AdvanceIsMachine ==
  ASSUME NEW p \in Snippets, NEW m \in Machines PROVE Advance(p, m) \in Machines
BY MachineStepFacts DEF Advance

\* ... and every state of an execution.
LEMMA PathInMachines ==
  ASSUME NEW p \in Snippets, NEW m0 \in Machines
  PROVE  \A n \in 0 .. Fuel : Path(p, m0)[n] \in Machines
<1> DEFINE P == {n \in 0 .. Fuel : Path(p, m0)[n] \in Machines}
<1>1. 0 \in P
  BY PathFacts, FuelIsNat
<1>2. ASSUME NEW n \in 0 .. (Fuel - 1), n \in P PROVE n + 1 \in P
  <2>1. n + 1 \in 0 .. Fuel
    BY FuelIsNat
  <2>2. Path(p, m0)[n + 1] = Advance(p, Path(p, m0)[n])
    BY PathFacts
  <2> QED BY <2>1, <2>2, <1>2, AdvanceIsMachine
<1> HIDE DEF P
<1>3. 0 .. Fuel \subseteq P
  BY <1>1, <1>2, FuelIsNat, InductionUpTo
<1> QED BY <1>3 DEF P

\* The step behind a state that is not an end.
LEMMA PathStep ==
  ASSUME NEW p, NEW m0, NEW n \in 0 .. (Fuel - 1), ~Ended(p, Path(p, m0)[n])
  PROVE  Path(p, m0)[n + 1] = MachineStep(p, Path(p, m0)[n])
BY PathFacts DEF Advance

\* An end is final.
LEMMA PathStays ==
  ASSUME NEW p, NEW m0, NEW i \in 0 .. Fuel, Ended(p, Path(p, m0)[i])
  PROVE  \A k \in i .. Fuel : Path(p, m0)[k] = Path(p, m0)[i]
<1> DEFINE f == Path(p, m0)
           P == {k \in 0 .. Fuel : k >= i => f[k] = f[i]}
<1>0. \A n \in 0 .. (Fuel - 1) : f[n + 1] = Advance(p, f[n])
  BY PathFacts
<1> HIDE DEF f
<1>1. 0 \in P
  BY FuelIsNat
<1>2. ASSUME NEW k \in 0 .. (Fuel - 1), k \in P PROVE k + 1 \in P
  <2>0. k + 1 \in 0 .. Fuel
    BY FuelIsNat
  <2>1. CASE k >= i
    <3>1. f[k] = f[i]
      BY <1>2, <2>1
    <3>2. f[k + 1] = Advance(p, f[i])
      BY <1>0, <3>1
    <3>3. Advance(p, f[i]) = f[i]
      BY DEF Advance, f
    <3> QED BY <2>0, <3>2, <3>3
  <2>2. CASE ~(k >= i)
    <3>1. k + 1 >= i => k + 1 = i
      BY <2>2, FuelIsNat
    <3> QED BY <2>0, <3>1
  <2> QED BY <2>1, <2>2
<1> HIDE DEF P
<1>3. 0 .. Fuel \subseteq P
  BY <1>1, <1>2, FuelIsNat, InductionUpTo
<1>4. ASSUME NEW k \in i .. Fuel PROVE f[k] = f[i]
  <2>1. k \in 0 .. Fuel /\ k >= i
    BY FuelIsNat
  <2>2. k \in P
    BY <2>1, <1>3
  <2> QED BY <2>1, <2>2 DEF P
<1> QED BY <1>4 DEF f

\* So an execution ends where it first ended.
LEMMA PathEnd ==
  ASSUME NEW p, NEW m0, NEW i \in 0 .. Fuel, Ended(p, Path(p, m0)[i])
  PROVE  Path(p, m0)[Fuel] = Path(p, m0)[i]
<1>1. Fuel \in i .. Fuel
  BY FuelIsNat
<1> QED BY <1>1, PathStays

\* Nothing happens after an end.
LEMMA RunOutEnded ==
  ASSUME NEW p, NEW m, Ended(p, m)
  PROVE  RunOut(p, m) = m
<1>1. Path(p, m)[0] = m /\ 0 \in 0 .. Fuel
  BY PathFacts, FuelIsNat
<1>2. Ended(p, Path(p, m)[0])
  BY <1>1
<1> QED BY <1>1, <1>2, PathEnd DEF RunOut

\* An execution from a state of an execution is the rest of it.
LEMMA PathShift ==
  ASSUME NEW p, NEW m0, NEW i \in 0 .. Fuel
  PROVE  \A k \in 0 .. (Fuel - i) : Path(p, Path(p, m0)[i])[k] = Path(p, m0)[i + k]
<1> DEFINE f == Path(p, m0)
           g == Path(p, f[i])
           P == {k \in 0 .. (Fuel - i) : g[k] = f[i + k]}
<1>0. /\ \A n \in 0 .. (Fuel - 1) : f[n + 1] = Advance(p, f[n])
      /\ \A n \in 0 .. (Fuel - 1) : g[n + 1] = Advance(p, g[n])
      /\ g[0] = f[i]
  BY PathFacts
<1> HIDE DEF f, g
<1>1. 0 \in P
  <2>1. 0 \in 0 .. (Fuel - i) /\ i + 0 = i
    BY FuelIsNat
  <2> QED BY <1>0, <2>1
<1>2. ASSUME NEW k \in 0 .. ((Fuel - i) - 1), k \in P PROVE k + 1 \in P
  <2>1. /\ k + 1 \in 0 .. (Fuel - i) /\ k \in 0 .. (Fuel - 1)
        /\ i + k \in 0 .. (Fuel - 1) /\ i + (k + 1) = (i + k) + 1
    BY FuelIsNat
  <2>2. g[k + 1] = Advance(p, g[k]) /\ f[(i + k) + 1] = Advance(p, f[i + k])
    BY <1>0, <2>1
  <2> QED BY <2>1, <2>2, <1>2
<1> HIDE DEF P
<1>3. 0 .. (Fuel - i) \subseteq P
  <2>1. Fuel - i \in Nat
    BY FuelIsNat
  <2> QED BY <1>1, <1>2, <2>1, InductionUpTo
<1>4. \A k \in 0 .. (Fuel - i) : g[k] = f[i + k]
  BY <1>3 DEF P
<1> QED BY <1>4 DEF f, g

\* The runner goes on by itself to the same end, if there is one.
LEMMA RunOutShift ==
  ASSUME NEW p, NEW m0, NEW i \in 0 .. Fuel, Ended(p, Path(p, m0)[Fuel])
  PROVE  RunOut(p, Path(p, m0)[i]) = Path(p, m0)[Fuel]
<1> DEFINE q == Path(p, m0)[i]
<1>1. Fuel - i \in 0 .. (Fuel - i) /\ i + (Fuel - i) = Fuel /\ Fuel - i \in 0 .. Fuel
  BY FuelIsNat
<1>2. Path(p, q)[Fuel - i] = Path(p, m0)[Fuel]
  BY <1>1, PathShift
<1> HIDE DEF q
<1>3. Path(p, q)[Fuel] = Path(p, q)[Fuel - i]
  BY <1>1, <1>2, PathEnd
<1>4. RunOut(p, q) = Path(p, m0)[Fuel]
  BY <1>2, <1>3 DEF RunOut
<1> QED BY <1>4 DEF q

\* Steps() is where an execution ends first ...
LEMMA StepsFirst ==
  ASSUME NEW m0, Ended(snippet, Path(snippet, m0)[Fuel])
  PROVE  LET s == Steps(Path(snippet, m0))
         IN  /\ s \in 0 .. Fuel
             /\ Ended(snippet, Path(snippet, m0)[s])
             /\ \A k \in 0 .. s - 1 : ~Ended(snippet, Path(snippet, m0)[k])
<1> DEFINE path == Path(snippet, m0)
           S == {n \in 0 .. Fuel : Ended(snippet, path[n])}
           Q(n) == /\ Ended(snippet, path[n])
                   /\ \A k \in 0 .. n - 1 : ~Ended(snippet, path[k])
<1>1. Steps(path) = CHOOSE n \in 0 .. Fuel : Q(n)
  BY DEF Steps
<1> HIDE DEF path
<1>2. \E n \in 0 .. Fuel : Q(n)
  <2>1. S \in SUBSET Nat /\ S # {}
    <3>1. Fuel \in S
      BY FuelIsNat DEF path
    <3>2. S \subseteq 0 .. Fuel /\ 0 .. Fuel \subseteq Nat
      BY FuelIsNat
    <3> QED BY <3>1, <3>2
  <2>2. PICK n \in S : \A m \in S : n <= m
    BY <2>1, LeastElement
  <2>3. n \in 0 .. Fuel /\ Ended(snippet, path[n])
    OBVIOUS
  <2>4. ASSUME NEW k \in 0 .. n - 1 PROVE ~Ended(snippet, path[k])
    <3>1. k \in 0 .. Fuel /\ ~(n <= k)
      BY <2>3, FuelIsNat
    <3> QED BY <2>2, <3>1
  <2> QED BY <2>3, <2>4
<1> HIDE DEF Q
<1>3. Steps(path) \in 0 .. Fuel /\ Q(Steps(path))
  BY <1>1, <1>2
<1> QED BY <1>3 DEF Q, path

\* ... and nothing else is.
LEMMA StepsIs ==
  ASSUME NEW m0, NEW n \in 0 .. Fuel, Ended(snippet, Path(snippet, m0)[n]),
         \A k \in 0 .. n - 1 : ~Ended(snippet, Path(snippet, m0)[k])
  PROVE  Steps(Path(snippet, m0)) = n
<1> DEFINE path == Path(snippet, m0)
           s == Steps(path)
<1>1. Ended(snippet, path[Fuel])
  BY PathEnd
<1>2. /\ s \in 0 .. Fuel /\ Ended(snippet, path[s])
      /\ \A k \in 0 .. s - 1 : ~Ended(snippet, path[k])
  BY <1>1, StepsFirst
<1> HIDE DEF s, path
<1>3. ~(s < n)
  <2>1. s < n => s \in 0 .. n - 1
    BY <1>2, FuelIsNat
  <2> QED BY <2>1, <1>2 DEF path
<1>4. ~(n < s)
  <2>1. n < s => n \in 0 .. s - 1
    BY <1>2, FuelIsNat
  <2> QED BY <2>1, <1>2 DEF path
<1>5. s = n
  BY <1>2, <1>3, <1>4, FuelIsNat
<1> QED BY <1>5 DEF s, path

\* Which registers a tracer reads.
LEMMA RegistersOf ==
  ASSUME NEW m \in Machines
  PROVE  GetRegisters(m) \in Registers /\ GetRegisters(m).pc = m.pc
<1>1. m.pc \in Nat /\ m.r \in Bit /\ m.sp \in Bit /\ m.ext \in Bit /\ 0 \in Bit
  BY DEF Machines, Bit
<1>2. GetRegisters(m) = [pc |-> m.pc, r |-> m.r, sp |-> m.sp, ext |-> m.ext]
      \/ GetRegisters(m) = [pc |-> m.pc, r |-> m.r, sp |-> m.sp, ext |-> 0]
  BY DEF GetRegisters, NativeGetRegisters, UnicornGetRegisters, WithExtension,
         DeserializeUserRegsStruct, GetX86XState, UnicornX86_64RegValue,
         UnicornAArch64RegValue
<1> HIDE DEF GetRegisters
<1> QED BY <1>1, <1>2 DEF Registers

\* A context that no tracer ever reads.
LEMMA SpecialRegisters ==
  /\ Unset \in Registers /\ HandlerRegisters \in Registers
  /\ \A m \in Machines : Visible(m) # Unset /\ Visible(m) # HandlerRegisters
<1>1. Unset \in Registers /\ HandlerRegisters \in Registers
  BY DEF Unset, HandlerRegisters, Registers, Bit
<1>2. Unset.pc = -3 /\ HandlerRegisters.pc = -2
  BY DEF Unset, HandlerRegisters
<1>3. ASSUME NEW m \in Machines PROVE Visible(m) # Unset /\ Visible(m) # HandlerRegisters
  <2>1. Visible(m).pc \in Nat
    BY RegistersOf DEF Visible, Machines
  <2> QED BY <2>1, <1>2
<1> QED BY <1>1, <1>3

\* A checksum is a number.
LEMMA ChecksumIsNat == \A m \in Machines : Checksum(m) \in Nat
BY DEF Checksum, Machines, Bit

\* The execution without a tracer.
LEMMA ReferenceFacts ==
  ASSUME snippet \in Snippets
  PROVE  /\ Reference[0] = Start
         /\ \A n \in 0 .. Fuel : Reference[n] \in Machines
         /\ \A n \in 0 .. (Fuel - 1) : ~Ended(snippet, Reference[n])
              => Reference[n + 1] = MachineStep(snippet, Reference[n])
BY PathFacts, PathInMachines, PathStep, StartIsMachine DEF Reference

\* The execution without instruction job.
Leaving == LET m == Reference[job]
           IN  [m EXCEPT !.pc = @ + InstructionSize(snippet.code[m.pc])]

\* It begins at the next instruction, and goes on like any other.
LEMMA SkippedFacts ==
  ASSUME snippet \in Snippets, job \in 0 .. Fuel,
         ~Reference[job].fault, IsInsideCode(snippet, Reference[job].pc),
         InstructionIsInRange(snippet, Reference[job].pc)
  PROVE  /\ Skipped(job) = Path(snippet, Leaving)
         /\ Skipped(job)[0] = Leaving
         /\ Leaving \in Machines /\ ~Leaving.fault
         /\ Leaving.pc = Reference[job].pc + InstructionSize(snippet.code[Reference[job].pc])
         /\ Leaving.pc <= snippet.len
         /\ \A n \in 0 .. Fuel : Skipped(job)[n] \in Machines
         /\ \A n \in 0 .. (Fuel - 1) : ~Ended(snippet, Skipped(job)[n])
              => Skipped(job)[n + 1] = MachineStep(snippet, Skipped(job)[n])
<1>1. Skipped(job) = Path(snippet, Leaving)
  BY DEF Skipped, Leaving
<1>2. Reference[job] \in Machines
  BY ReferenceFacts
<1> DEFINE m == Reference[job]
           s == InstructionSize(snippet.code[m.pc])
<1>3. m.pc \in Nat /\ s \in Nat
  BY <1>2, SnippetFacts DEF Machines, InstructionSize
<1>4. Leaving = [m EXCEPT !.pc = @ + s]
  BY DEF Leaving
<1>5. m.pc + s <= snippet.len
  BY DEF InstructionIsInRange
<1>a. ~m.fault
  OBVIOUS
<1> HIDE DEF m, s
<1>6. Leaving \in Machines /\ Leaving.fault = m.fault /\ Leaving.pc = m.pc + s
  <2>1. m \in Machines
    BY <1>2 DEF m
  <2> QED BY <1>3, <1>4, <2>1 DEF Machines
<1>7. Leaving.pc <= snippet.len
  BY <1>3, <1>5, <1>6
<1>8. \A n \in 0 .. Fuel : Path(snippet, Leaving)[n] \in Machines
  BY <1>6, PathInMachines
<1>9. Path(snippet, Leaving)[0] = Leaving
  BY PathFacts
<1>10. \A n \in 0 .. (Fuel - 1) : ~Ended(snippet, Path(snippet, Leaving)[n])
         => Path(snippet, Leaving)[n + 1] = MachineStep(snippet, Path(snippet, Leaving)[n])
  BY PathStep
<1> QED BY <1>1, <1>6, <1>7, <1>8, <1>9, <1>10, <1>a DEF m, s

-----------------------------------------------------------------------------
(* What does not depend on the state of a run                                *)

\* The limit of a run.
LEMMA UseFacts ==
  ASSUME use \in Uses
  PROVE  use.max \in Nat /\ 1 <= use.max /\ use.max <= Fuel
<1>1. use.max \in Limits
  BY DEF Uses
<1>2. use.max \in 1 .. Fuel
  BY <1>1, SnippetTracerAssumption
<1> QED BY <1>2, FuelIsNat

\* The executions depend on nothing but the snippet and the use, ...
LEMMA Frame ==
  ASSUME use' = use, snippet' = snippet
  PROVE  /\ Reference' = Reference
         /\ \A k : Skipped(k)' = Skipped(k)
         /\ \A m : Visible(m)' = Visible(m)
         /\ \A m : Exits(snippet, m)' <=> Exits(snippet, m)
         /\ \A path : Steps(path)' = Steps(path)
         /\ Accepted' <=> Accepted
<1>1. Reference' = Reference
  BY DEF Reference
<1>2. \A k : Skipped(k)' = Skipped(k)
  BY <1>1 DEF Skipped
<1>3. \A m : Visible(m)' = Visible(m)
  BY DEF Visible, GetRegisters, NativeGetRegisters, UnicornGetRegisters
<1>4. \A m : Exits(snippet, m)' <=> Exits(snippet, m)
  BY DEF Exits
<1>5. \A path : Steps(path)' = Steps(path)
  BY DEF Steps
<1>6. Accepted' <=> Accepted
  BY DEF Accepted, MakeRawInstructions, Exits
<1> QED BY <1>1, <1>2, <1>3, <1>4, <1>5, <1>6

\* ... what is said of them and the trace only on the trace besides, ...
LEMMA FrameTrace ==
  ASSUME use' = use, snippet' = snippet, trace' = trace
  PROVE  /\ TraceInv => TraceInv'
         /\ TraceWhole' <=> TraceWhole
         /\ \A k : Harmless(k)' <=> Harmless(k)
         /\ \A k, d, l : ReportIsReal(k, d, l) => ReportIsReal(k, d, l)'
<1>1. TraceInv => TraceInv'
  BY Frame DEF TraceInv
<1>2. TraceWhole' <=> TraceWhole
  BY Frame DEF TraceWhole
<1>3. \A k : Harmless(k)' <=> Harmless(k)
  <2>1. ASSUME NEW k PROVE Harmless(k)' <=> Harmless(k)
    BY Frame DEF Harmless, EndsAlike
  <2> QED BY <2>1
<1>4. ASSUME NEW k, NEW d, NEW l, ReportIsReal(k, d, l) PROVE ReportIsReal(k, d, l)'
  <2>1. Steps(Skipped(k))' = Steps(Skipped(k))
    BY Frame
  <2> QED BY <1>3, <1>4, <2>1 DEF ReportIsReal, LimitLeavesRoom
<1> QED BY <1>1, <1>2, <1>3, <1>4

\* ... so the reports stay real, ...
LEMMA FrameCritical ==
  ASSUME use' = use, snippet' = snippet, trace' = trace, critical' = critical,
         ReportsReal
  PROVE  ReportsReal'
BY FrameTrace DEF ReportsReal

\* ... and the first states of an execution are no ends still.
LEMMA FrameGoesOn ==
  ASSUME use' = use, snippet' = snippet, job' = job
  PROVE  \A n : GoesOn(n)' <=> GoesOn(n)
<1>1. Skipped(job)' = Skipped(job)
  BY Frame DEF Skipped
<1> QED BY <1>1 DEF GoesOn

-----------------------------------------------------------------------------
(* Every step of an analysis preserves the invariant                         *)

\* The states that a run begins with.
LEMMA NewTracerType ==
  /\ NewTracer \in [state : {"kReady", "kPreTracing", "kTracing", "kFinished"},
                    count : Nat, stop : BOOLEAN, limit : BOOLEAN, err : BOOLEAN,
                    timeout : BOOLEAN]
  /\ EmptyTrace \in [n : Nat, contexts : Seq(Registers), addresses : Seq(Nat),
                     checksum : Nat, out_of_bounds : BOOLEAN, died : BOOLEAN]
  /\ Len(EmptyTrace.contexts) = 1 /\ Len(EmptyTrace.addresses) = 0 /\ EmptyTrace.n = 0
  /\ ~EmptyTrace.died /\ ~EmptyTrace.out_of_bounds
  /\ NoInjection \in [executed : Nat, ucontext : Registers, checksum : Nat]
  /\ NoInjection.executed = 0 /\ NoInjection.ucontext = Unset
<1>1. <<Unset>> \in Seq(Registers) /\ <<>> \in Seq(Nat) /\ Unset \in Registers
  BY SpecialRegisters
<1> QED BY <1>1 DEF NewTracer, EmptyTrace, NoInjection

\* The invariant holds before the first run.
LEMMA AnalyzeInit == SnippetInit => SnippetInv
<1> SUFFICES ASSUME SnippetInit PROVE SnippetInv
  OBVIOUS
<1>1. use \in Uses /\ critical = <<>> /\ snippet \in Snippets /\ mach = Start /\ at = "init"
      /\ ts = NewTracer /\ trace = EmptyTrace /\ inject = NoInjection /\ hiccups = 0
  BY DEF SnippetInit
<1>2. CASE use.tool = "analyze"
  <2>1. job = -1
    BY <1>2 DEF SnippetInit
  <2>2. AnalyzeTypeOK
    BY <1>1, <2>1, StartIsMachine, NewTracerType DEF AnalyzeTypeOK
  <2>3. TraceInv
    BY <1>1, NewTracerType, UseFacts DEF TraceInv
  <2>4. CaptureInv /\ InjectInv /\ ReportsReal
    BY <1>1, <2>1 DEF CaptureInv, InjectInv, ReportsReal
  <2> QED BY <1>1, <1>2, <2>2, <2>3, <2>4 DEF SnippetInv, AnalyzeInv
<1> QED BY <1>1, <1>2 DEF SnippetInv

\* A run that could not start: an error.
LEMMA InitFailsStep ==
  ASSUME use \in Uses, use.tool = "analyze", AnalyzeInv, InitFails
  PROVE  AnalyzeInv'
<1>1. /\ at = "init" /\ at' = "returned" /\ result' = "error"
      /\ UNCHANGED <<use, snippet, mach, ts, trace, job, inject, critical, hiccups>>
  BY DEF InitFails
<1>2. ~Accepted
  BY DEF InitFails, Accepted, TooShort
<1>3. AnalyzeTypeOK'
  BY <1>1 DEF AnalyzeInv, AnalyzeTypeOK
<1>4. TraceInv' /\ ReportsReal'
  BY <1>1, FrameTrace, FrameCritical DEF AnalyzeInv
<1>5. CaptureInv'
  BY <1>1 DEF AnalyzeInv, CaptureInv
<1>6. ~(job >= 0)
  BY <1>2 DEF AnalyzeInv, InjectInv
<1>7. InjectInv'
  BY <1>1, <1>6 DEF InjectInv
<1> QED BY <1>3, <1>4, <1>5, <1>7 DEF AnalyzeInv

\* Capturing or injecting, and never a proxy.
LEMMA Jobs ==
  ASSUME AnalyzeTypeOK, use.tool = "analyze"
  PROVE  /\ Capturing <=> job = -1
         /\ Injecting <=> job # -1
         /\ ~Proxying
         /\ job = -1 \/ job \in Nat
         /\ job # -1 <=> job >= 0
BY DEF AnalyzeTypeOK, Capturing, Injecting, Proxying

\* A tracer begins.
LEMMA NativeRunStep ==
  ASSUME use \in Uses, use.tool = "analyze", AnalyzeInv, NativeRun
  PROVE  AnalyzeInv'
<1>1. /\ at = "init" /\ at' = "traced" /\ mach' = OnItsWay
      /\ ts' = [NewTracer EXCEPT !.state = "kPreTracing"]
      /\ inject' = NoInjection
      /\ UNCHANGED <<use, snippet, job, critical, result, hiccups>>
      /\ use.type = "native" /\ Accepted
      /\ trace' = IF Capturing THEN EmptyTrace ELSE trace
  BY DEF NativeRun, OnItsWay, Accepted
<1>2. AnalyzeTypeOK /\ TraceInv /\ CaptureInv /\ InjectInv /\ ReportsReal
  BY DEF AnalyzeInv
<1>3. trace' = trace
  BY <1>1, <1>2, Jobs DEF CaptureInv
<1>4. /\ ts' \in [state : {"kReady", "kPreTracing", "kTracing", "kFinished"},
                  count : Nat, stop : BOOLEAN, limit : BOOLEAN, err : BOOLEAN,
                  timeout : BOOLEAN]
      /\ ts'.count = 0 /\ ~ts'.limit
  BY <1>1 DEF NewTracer
<1>5. AnalyzeTypeOK'
  BY <1>1, <1>2, <1>3, <1>4, NewTracerType DEF AnalyzeTypeOK
<1>6. TraceInv' /\ ReportsReal'
  BY <1>1, <1>2, <1>3, FrameTrace, FrameCritical
<1>7. CaptureInv'
  <2>1. job = -1 => trace = EmptyTrace
    BY <1>1, <1>2 DEF CaptureInv
  <2>2. job = -1 => CaptureTraced'
    BY <1>1, <1>3, <1>4, <2>1, NewTracerType DEF CaptureTraced, OnItsWay, Start
  <2>3. Accepted'
    BY <1>1, Frame
  <2> QED BY <1>1, <1>2, <1>3, <2>2, <2>3 DEF CaptureInv
<1>8. InjectInv'
  <2>1. job >= 0 => InjectTraced'
    <3> SUFFICES ASSUME job >= 0 PROVE InjectTraced'
      OBVIOUS
    <3>1. BeforeSkip'
      BY <1>1, <1>4, NewTracerType DEF BeforeSkip
    <3>2. ts'.count <= use.max
      BY <1>4, UseFacts
    <3> QED BY <1>1, <1>4, <3>1, <3>2, NewTracerType DEF InjectTraced
  <2>2. Accepted' /\ (TraceWhole => TraceWhole')
    BY <1>1, <1>3, Frame, FrameTrace
  <2> QED BY <1>1, <1>2, <1>3, <2>1, <2>2 DEF InjectInv
<1> QED BY <1>5, <1>6, <1>7, <1>8 DEF AnalyzeInv

\* The same of the emulator.
LEMMA UnicornRunStep ==
  ASSUME use \in Uses, use.tool = "analyze", AnalyzeInv, UnicornRun
  PROVE  AnalyzeInv'
<1>1. /\ at = "init" /\ at' = "emulated" /\ mach' = Start
      /\ ts' = NewTracer
      /\ inject' = NoInjection
      /\ UNCHANGED <<use, snippet, job, critical, result, hiccups>>
      /\ use.type = "unicorn" /\ Accepted
      /\ trace' = IF Capturing THEN EmptyTrace ELSE trace
  BY DEF UnicornRun, Accepted
<1>2. AnalyzeTypeOK /\ TraceInv /\ CaptureInv /\ InjectInv /\ ReportsReal
  BY DEF AnalyzeInv
<1>3. trace' = trace
  BY <1>1, <1>2, Jobs DEF CaptureInv
<1>4. /\ ts' \in [state : {"kReady", "kPreTracing", "kTracing", "kFinished"},
                  count : Nat, stop : BOOLEAN, limit : BOOLEAN, err : BOOLEAN,
                  timeout : BOOLEAN]
      /\ ts'.count = 0 /\ ~ts'.stop /\ ~ts'.timeout
  BY <1>1 DEF NewTracer
<1>5. AnalyzeTypeOK'
  <2>1. mach' \in Machines /\ mach' # OnItsWay
    BY <1>1, StartIsMachine DEF OnItsWay, Start
  <2> QED BY <1>1, <1>2, <1>3, <1>4, <2>1, NewTracerType DEF AnalyzeTypeOK
<1>6. TraceInv' /\ ReportsReal'
  BY <1>1, <1>2, <1>3, FrameTrace, FrameCritical
<1>0. Reference' = Reference /\ Reference[0] = Start
  BY <1>1, <1>2, Frame, ReferenceFacts DEF AnalyzeTypeOK
<1>7. CaptureInv'
  <2>1. job = -1 => trace = EmptyTrace
    BY <1>1, <1>2 DEF CaptureInv
  <2>2. job = -1 => CaptureEmulated'
    BY <1>0, <1>1, <1>3, <1>4, <2>1, NewTracerType DEF CaptureEmulated
  <2>3. Accepted'
    BY <1>1, Frame
  <2> QED BY <1>1, <1>2, <1>3, <2>2, <2>3 DEF CaptureInv
<1>8. InjectInv'
  <2>1. job >= 0 => InjectEmulated'
    <3> SUFFICES ASSUME job >= 0 PROVE InjectEmulated'
      OBVIOUS
    <3>1. BeforeSkip'
      BY <1>1, <1>4, NewTracerType DEF BeforeSkip
    <3>2. ts'.count <= use.max
      BY <1>4, UseFacts
    <3> QED BY <1>0, <1>1, <1>4, <3>1, <3>2 DEF InjectEmulated
  <2>2. Accepted' /\ (TraceWhole => TraceWhole')
    BY <1>1, <1>3, Frame, FrameTrace
  <2> QED BY <1>1, <1>2, <1>3, <1>4, <2>1, <2>2 DEF InjectInv
<1> QED BY <1>5, <1>6, <1>7, <1>8 DEF AnalyzeInv

\* In a fault injection: the reference up to the instruction to leave out, and
\* the execution without it.
LEMMA InjectFacts ==
  ASSUME use \in Uses, AnalyzeInv, job >= 0
  PROVE  /\ job \in Nat /\ job < trace.n /\ trace.n <= use.max /\ job \in 0 .. Fuel
         /\ \A c \in 0 .. job :
              /\ Reference[c] \in Machines /\ ~Reference[c].fault
              /\ IsInsideCode(snippet, Reference[c].pc)
              /\ ~Ended(snippet, Reference[c])
              /\ Reference[c + 1] = MachineStep(snippet, Reference[c])
         /\ Skipped(job) = Path(snippet, Leaving)
         /\ Skipped(job)[0] = Leaving
         /\ Leaving \in Machines /\ ~Leaving.fault
         /\ Leaving.pc = Reference[job].pc + InstructionSize(snippet.code[Reference[job].pc])
         /\ Leaving.pc <= snippet.len
         /\ \A n \in 0 .. Fuel : Skipped(job)[n] \in Machines
         /\ \A n \in 0 .. (Fuel - 1) : ~Ended(snippet, Skipped(job)[n])
              => Skipped(job)[n + 1] = MachineStep(snippet, Skipped(job)[n])
<1>1. /\ AnalyzeTypeOK /\ TraceInv /\ snippet \in Snippets /\ trace.n \in Nat
      /\ job < trace.n /\ TraceWhole /\ trace.n <= use.max /\ job \in Nat
  BY DEF AnalyzeInv, AnalyzeTypeOK, InjectInv, TraceInv
<1>2. use.max \in Nat /\ use.max <= Fuel /\ Fuel \in Nat
  BY UseFacts, FuelIsNat
<1>3. job \in 0 .. Fuel
  BY <1>1, <1>2
<1>4. ASSUME NEW c \in 0 .. job
      PROVE  /\ Reference[c] \in Machines /\ ~Reference[c].fault
             /\ IsInsideCode(snippet, Reference[c].pc)
             /\ InstructionIsInRange(snippet, Reference[c].pc)
             /\ ~Ended(snippet, Reference[c])
             /\ Reference[c + 1] = MachineStep(snippet, Reference[c])
  <2>1. c + 1 \in 1 .. trace.n /\ (c + 1) - 1 = c /\ c \in 0 .. Fuel /\ c \in 0 .. (Fuel - 1)
    BY <1>1, <1>2
  <2>2. /\ ~Reference[c].fault /\ IsInsideCode(snippet, Reference[c].pc)
        /\ InstructionIsInRange(snippet, Reference[c].pc)
    <3>1. \A i \in 1 .. trace.n : /\ ~Reference[i - 1].fault
                                  /\ IsInsideCode(snippet, Reference[i - 1].pc)
                                  /\ InstructionIsInRange(snippet, Reference[i - 1].pc)
      BY <1>1 DEF TraceInv, TraceWhole
    <3> QED BY <2>1, <3>1
  <2>3. ~Ended(snippet, Reference[c])
    <3>1. snippet.len \in Nat
      BY <1>1, SnippetFacts
    <3> QED BY <2>2, <3>1 DEF Ended, IsInsideCode
  <2> QED BY <1>1, <2>1, <2>2, <2>3, ReferenceFacts
<1>5. job \in 0 .. job
  BY <1>1
<1>6. /\ ~Reference[job].fault /\ IsInsideCode(snippet, Reference[job].pc)
      /\ InstructionIsInRange(snippet, Reference[job].pc)
  BY <1>4, <1>5
<1> QED BY <1>1, <1>3, <1>4, <1>6, SkippedFacts

\* The runner comes to the code.
LEMMA StopBeforeCodeStep ==
  ASSUME use \in Uses, use.tool = "analyze", AnalyzeInv, StopBeforeCode
  PROVE  AnalyzeInv'
<1>1. /\ at = "traced" /\ at' = at /\ mach.pc = -1 /\ mach' = [mach EXCEPT !.pc = 0]
      /\ UNCHANGED <<use, snippet, ts, trace, job, inject, critical, result, hiccups>>
  BY DEF StopBeforeCode
<1>2. AnalyzeTypeOK /\ TraceInv /\ CaptureInv /\ InjectInv /\ ReportsReal
  BY DEF AnalyzeInv
<1>3. \A m \in Machines : m.pc # -1
  BY DEF Machines
<1>4. mach = OnItsWay /\ mach' = Start
  BY <1>1, <1>2, <1>3 DEF AnalyzeTypeOK, OnItsWay, Start
<1>5. AnalyzeTypeOK'
  BY <1>1, <1>2, <1>4, StartIsMachine DEF AnalyzeTypeOK
<1>6. TraceInv' /\ ReportsReal'
  BY <1>1, <1>2, FrameTrace, FrameCritical
<1>7. Reference' = Reference /\ Reference[0] = Start /\ Start # OnItsWay
  BY <1>1, <1>2, Frame, ReferenceFacts DEF AnalyzeTypeOK, OnItsWay, Start
<1>8. Accepted' <=> Accepted
  BY <1>1, Frame
<1>9. CaptureInv'
  <2>1. job = -1 => CaptureTraced'
    BY <1>1, <1>2, <1>4, <1>7 DEF CaptureInv, CaptureTraced
  <2> QED BY <1>1, <1>2, <1>8, <2>1 DEF CaptureInv
<1>10. InjectInv'
  <2>1. job >= 0 => InjectTraced'
    <3> SUFFICES ASSUME job >= 0 PROVE InjectTraced'
      OBVIOUS
    <3>1. InjectTraced /\ ts.count \in Nat
      BY <1>1, <1>2 DEF InjectInv, AnalyzeTypeOK
    <3>2. ts.count > job => Skipped(job)[ts.count - job] \in Machines
      <4>1. use.max \in Nat /\ use.max <= Fuel /\ Fuel \in Nat /\ job \in Nat
            /\ ts.count <= use.max
        BY <3>1, UseFacts, FuelIsNat, InjectFacts DEF InjectTraced
      <4>2. ts.count > job => ts.count - job \in 0 .. Fuel
        BY <3>1, <4>1
      <4> QED BY <4>2, InjectFacts
    <3>3. ~(ts.count > job /\ mach = Skipped(job)[ts.count - job])
      BY <1>1, <1>3, <3>2
    <3>4. BeforeSkip /\ ts.count = 0
      BY <1>4, <3>1, <3>3 DEF InjectTraced
    <3>5. BeforeSkip'
      BY <1>1, <3>4 DEF BeforeSkip
    <3> QED BY <1>1, <1>4, <1>7, <3>1, <3>4, <3>5 DEF InjectTraced
  <2>2. TraceWhole => TraceWhole'
    BY <1>1, FrameTrace
  <2> QED BY <1>1, <1>2, <1>8, <2>1, <2>2 DEF InjectInv
<1> QED BY <1>5, <1>6, <1>9, <1>10 DEF AnalyzeInv

-----------------------------------------------------------------------------
(* What the callbacks of CaptureTrace do to the trace                        *)

Traces == [n : Nat, contexts : Seq(Registers), addresses : Seq(Nat),
           checksum : Nat, out_of_bounds : BOOLEAN, died : BOOLEAN]

\* Before an instruction: one more, with the registers before it.
LEMMA CaptureBeforeFacts ==
  ASSUME use \in Uses, AnalyzeTypeOK, NEW m \in Machines, trace.n < use.max,
         NEW t, t = CaptureBefore(trace, m)
  PROVE  /\ t \in Traces /\ t.n = trace.n + 1 /\ t.died = trace.died
         /\ Len(t.contexts) = t.n + 1 /\ Len(t.addresses) = t.n
         /\ \A i \in 1 .. trace.n : /\ t.contexts[i] = trace.contexts[i]
                                    /\ t.addresses[i] = trace.addresses[i]
         /\ t.contexts[trace.n + 1] = GetRegisters(m)
         /\ t.addresses[trace.n + 1] = m.pc
         /\ t.out_of_bounds <=> trace.out_of_bounds \/ ~InstructionIsInRange(snippet, m.pc)
<1> DEFINE regs == GetRegisters(m)
           c1 == [trace.contexts EXCEPT ![trace.n + 1] = regs]
           s1 == [trace EXCEPT !.contexts = c1]
           c2 == Append(c1, Unset)
           a2 == Append(trace.addresses, m.pc)
           in == InstructionIsInRange(snippet, m.pc)
           s2 == [s1 EXCEPT !.n = @ + 1, !.addresses = a2, !.contexts = c2]
<1>1. /\ trace \in Traces /\ trace.n \in Nat /\ use.max \in Nat
      /\ Len(trace.contexts) = trace.n + 1 /\ Len(trace.addresses) = trace.n
      /\ trace.contexts \in Seq(Registers) /\ trace.addresses \in Seq(Nat)
      /\ regs \in Registers /\ m.pc \in Nat /\ Unset \in Registers
  BY UseFacts, RegistersOf, SpecialRegisters DEF AnalyzeTypeOK, Traces, Machines
<1>2. SetContext(trace, regs) = s1
  BY <1>1 DEF SetContext, Traces
<1> HIDE DEF regs
<1>3. c1 \in Seq(Registers) /\ Len(c1) = trace.n + 1 /\ c1[trace.n + 1] = regs
      /\ \A i \in 1 .. trace.n : c1[i] = trace.contexts[i]
  BY <1>1
<1> HIDE DEF c1
<1>4. c2 \in Seq(Registers) /\ Len(c2) = trace.n + 2 /\ c2[trace.n + 1] = regs
      /\ \A i \in 1 .. trace.n : c2[i] = trace.contexts[i]
  BY <1>1, <1>3
<1>5. a2 \in Seq(Nat) /\ Len(a2) = trace.n + 1 /\ a2[trace.n + 1] = m.pc
      /\ \A i \in 1 .. trace.n : a2[i] = trace.addresses[i]
  BY <1>1
<1>6. s1.n = trace.n /\ s1.addresses = trace.addresses /\ s1.contexts = c1 /\ s1 \in Traces
  BY <1>1, <1>3 DEF Traces
<1>7. NextInfo(s1, m.pc) = s2
  <2>1. ~(s1.n >= use.max)
    BY <1>1, <1>6
  <2> HIDE DEF s1
  <2>2. NextInfo(s1, m.pc) = [s1 EXCEPT !.n = @ + 1, !.addresses = Append(@, m.pc),
                                        !.contexts = Append(@, Unset)]
    BY <2>1 DEF NextInfo
  <2> QED BY <2>2, <1>6
<1>8. t = [s2 EXCEPT !.out_of_bounds = @ \/ ~in]
  <2>1. t = [NextInfo(SetContext(trace, regs), m.pc) EXCEPT !.out_of_bounds = @ \/ ~in]
    BY DEF CaptureBefore, regs
  <2> HIDE DEF s1, s2, in
  <2> QED BY <2>1, <1>2, <1>7
<1> HIDE DEF c2, a2, in
<1>9. /\ s2 \in Traces /\ s2.n = trace.n + 1 /\ s2.died = trace.died
      /\ s2.contexts = c2 /\ s2.addresses = a2 /\ s2.out_of_bounds = trace.out_of_bounds
  <2>1. s1.died = trace.died /\ s1.out_of_bounds = trace.out_of_bounds
    BY <1>1 DEF Traces
  <2>2. c2 \in Seq(Registers) /\ a2 \in Seq(Nat) /\ trace.n + 1 \in Nat
    BY <1>1, <1>4, <1>5
  <2> HIDE DEF s1
  <2>3. /\ s2 \in Traces /\ s2.n = s1.n + 1 /\ s2.died = s1.died
        /\ s2.contexts = c2 /\ s2.addresses = a2 /\ s2.out_of_bounds = s1.out_of_bounds
    BY <1>6, <2>2 DEF Traces
  <2> QED BY <2>1, <2>3, <1>6
<1>10. /\ t \in Traces /\ t.n = trace.n + 1 /\ t.died = trace.died
       /\ t.contexts = c2 /\ t.addresses = a2 /\ t.out_of_bounds = (trace.out_of_bounds \/ ~in)
  <2> DEFINE o == s2.out_of_bounds \/ ~in
  <2>0. o = (trace.out_of_bounds \/ ~in)
    BY <1>9, Zenon
  <2>1. t = [s2 EXCEPT !.out_of_bounds = o] /\ o \in BOOLEAN
    BY <1>8
  <2> HIDE DEF s2, o
  <2>2. /\ t \in Traces /\ t.n = s2.n /\ t.died = s2.died /\ t.out_of_bounds = o
        /\ t.contexts = s2.contexts /\ t.addresses = s2.addresses
    BY <1>9, <2>1 DEF Traces
  <2>3. t.out_of_bounds = (trace.out_of_bounds \/ ~in)
    BY <2>0, <2>2, Zenon
  <2> QED BY <1>9, <2>2, <2>3, Zenon
<1>11. t.out_of_bounds <=> trace.out_of_bounds \/ ~in
  BY <1>10, Zenon
<1>12. Len(t.contexts) = t.n + 1 /\ Len(t.addresses) = t.n
  BY <1>1, <1>4, <1>5, <1>10
<1> QED BY <1>4, <1>5, <1>10, <1>11, <1>12, Zenon DEF regs, in

\* After the execution: the end state.
LEMMA CaptureAfterFacts ==
  ASSUME NEW t \in Traces, Len(t.contexts) = t.n + 1, NEW regs \in Registers,
         NEW m \in Machines, NEW a, a = CaptureAfter(t, regs, m)
  PROVE  /\ a \in Traces /\ a.n = t.n /\ a.died = t.died /\ a.addresses = t.addresses
         /\ a.out_of_bounds = t.out_of_bounds /\ Len(a.contexts) = t.n + 1
         /\ \A i \in 1 .. t.n : a.contexts[i] = t.contexts[i]
         /\ a.contexts[t.n + 1] = regs /\ a.checksum = Checksum(m)
<1> DEFINE c1 == [t.contexts EXCEPT ![t.n + 1] = regs]
           sum == Checksum(m)
<1>1. t.n \in Nat /\ t.contexts \in Seq(Registers) /\ sum \in Nat
  BY ChecksumIsNat DEF Traces
<1>2. a = [t EXCEPT !.contexts = c1, !.checksum = sum]
  BY <1>1 DEF CaptureAfter, SetContext, Traces
<1>3. c1 \in Seq(Registers) /\ Len(c1) = t.n + 1 /\ c1[t.n + 1] = regs
      /\ \A i \in 1 .. t.n : c1[i] = t.contexts[i]
  BY <1>1
<1> HIDE DEF c1, sum
<1>4. /\ a \in Traces /\ a.n = t.n /\ a.died = t.died /\ a.addresses = t.addresses
      /\ a.out_of_bounds = t.out_of_bounds /\ a.contexts = c1 /\ a.checksum = sum
  BY <1>1, <1>2, <1>3 DEF Traces
<1> QED BY <1>3, <1>4 DEF sum

\* What the trace says of the instructions stays true ...
LEMMA TraceKept ==
  ASSUME use' = use, snippet' = snippet, TraceInv, trace.n \in Nat,
         trace'.n = trace.n, trace'.died = trace.died, trace'.addresses = trace.addresses,
         trace'.out_of_bounds = trace.out_of_bounds,
         \A i \in 1 .. trace.n : trace'.contexts[i] = trace.contexts[i]
  PROVE  TraceInv'
BY Frame DEF TraceInv

\* ... and is true of one more.
LEMMA TraceGrows ==
  ASSUME use' = use, snippet' = snippet, use \in Uses, TraceInv, trace.n \in Nat,
         trace.n < use.max, mach = Reference[trace.n],
         ~mach.fault, IsInsideCode(snippet, mach.pc),
         trace'.n = trace.n + 1, trace'.died = trace.died,
         trace'.out_of_bounds <=> trace.out_of_bounds \/ ~InstructionIsInRange(snippet, mach.pc),
         \A i \in 1 .. trace.n : /\ trace'.contexts[i] = trace.contexts[i]
                                 /\ trace'.addresses[i] = trace.addresses[i],
         trace'.contexts[trace.n + 1] = GetRegisters(mach),
         trace'.addresses[trace.n + 1] = mach.pc
  PROVE  TraceInv'
<1>1. ~trace'.died /\ trace'.n <= use'.max
  BY UseFacts DEF TraceInv
<1>2. ASSUME NEW i \in 1 .. trace'.n
      PROVE  LET m == Reference[i - 1]
             IN  /\ trace'.addresses[i] = m.pc /\ trace'.contexts[i] = Visible(m)
                 /\ ~m.fault /\ IsInsideCode(snippet, m.pc)
                 /\ ~trace'.out_of_bounds => InstructionIsInRange(snippet, m.pc)
  <2>1. CASE i \in 1 .. trace.n
    BY <2>1 DEF TraceInv
  <2>2. CASE i = trace.n + 1
    <3>1. i - 1 = trace.n
      BY <2>2
    <3> QED BY <2>2, <3>1 DEF Visible
  <2>3. i \in 1 .. trace.n \/ i = trace.n + 1
    OBVIOUS
  <2> QED BY <2>1, <2>2, <2>3
<1> QED BY <1>1, <1>2, Frame DEF TraceInv

\* Nothing is reported before a fault is injected.
LEMMA NoReport == ASSUME critical' = <<>> PROVE ReportsReal'
BY DEF ReportsReal

\* What of the invariant of a fault injection is only about the trace.
LEMMA InjectRest ==
  ASSUME AnalyzeInv, job >= 0, at # "end", at' # "end",
         UNCHANGED <<use, snippet, trace, job, critical>>
  PROVE  /\ job' < trace'.n /\ Accepted' /\ TraceWhole'
         /\ critical' \in Seq([detected : BOOLEAN, lost : BOOLEAN])
         /\ Len(critical') = IF at' = "end" THEN job' + 1 ELSE job'
BY Frame, FrameTrace DEF AnalyzeInv, InjectInv

-----------------------------------------------------------------------------
(* The native tracer                                                         *)

\* A stop inside of the code.
LEMMA InsideCode ==
  ASSUME AnalyzeTypeOK, IsInsideCode(snippet, mach.pc)
  PROVE  /\ mach \in Machines /\ mach # OnItsWay
         /\ MachineStep(snippet, mach) \in Machines
         /\ ~mach.fault => ~Ended(snippet, mach)
<1>1. OnItsWay.pc = -1
  BY DEF OnItsWay, Start
<1>2. mach # OnItsWay
  BY <1>1 DEF IsInsideCode
<1>3. mach \in Machines /\ snippet \in Snippets
  BY <1>2 DEF AnalyzeTypeOK
<1>4. ~mach.fault => ~Ended(snippet, mach)
  <2>1. snippet.len \in Nat
    BY <1>3, SnippetFacts
  <2> QED BY <2>1 DEF Ended, IsInsideCode
<1> QED BY <1>2, <1>3, <1>4, MachineStepFacts

\* Once in the code, never before it.
LEMMA MachinesAreNotOnItsWay == \A m \in Machines : m # OnItsWay
<1>1. OnItsWay.pc = -1
  BY DEF OnItsWay, Start
<1>2. \A m \in Machines : m.pc \in Nat
  BY DEF Machines
<1> QED BY <1>1, <1>2

\* The tracer's state after a callback.
LEMMA TracerCounts ==
  ASSUME AnalyzeTypeOK, NEW s, NEW b \in BOOLEAN, NEW c \in Nat,
         s \in {"kReady", "kPreTracing", "kTracing", "kFinished"}
  PROVE  LET t == [ts EXCEPT !.count = c, !.stop = b, !.state = s]
         IN  /\ t \in [state : {"kReady", "kPreTracing", "kTracing", "kFinished"},
                       count : Nat, stop : BOOLEAN, limit : BOOLEAN, err : BOOLEAN,
                       timeout : BOOLEAN]
             /\ t.count = c /\ t.stop = b /\ t.limit = ts.limit
BY DEF AnalyzeTypeOK

\* The machine goes along the reference as the trace grows.
LEMMA StopInCodeCaptures ==
  ASSUME use \in Uses, use.tool = "analyze", AnalyzeInv, StopInCode, job = -1
  PROVE  AnalyzeInv'
<1>1. AnalyzeTypeOK /\ TraceInv /\ CaptureInv
  BY DEF AnalyzeInv
<1> DEFINE in == InstructionIsInRange(snippet, mach.pc)
           t == CaptureBefore(trace, mach)
<1>2. Capturing /\ ~Injecting
  BY <1>1, Jobs
<1>3. SkipTo(mach) = mach.pc
  <2>1. inject.executed \in Nat
    BY <1>1 DEF AnalyzeTypeOK
  <2> QED BY <2>1 DEF SkipTo, Skips
<1>4. /\ at = "traced" /\ ~mach.fault /\ IsInsideCode(snippet, mach.pc)
      /\ ts.count < use.max
      /\ UNCHANGED <<use, snippet, job, critical, result, hiccups>>
  BY DEF StopInCode
<1>5. /\ mach \in Machines /\ mach # OnItsWay /\ ~Ended(snippet, mach)
      /\ MachineStep(snippet, mach) \in Machines
  BY <1>1, <1>4, InsideCode
<1>6. [mach EXCEPT !.pc = SkipTo(mach)] = mach
  BY <1>3, <1>5 DEF Machines
<1>7. /\ inject' = inject
      /\ trace' = IF ~in THEN CaptureAfter(t, GetRegisters(mach), mach) ELSE t
      /\ ts' = [ts EXCEPT !.count = @ + 1, !.stop = ~in,
                          !.state = IF ~in THEN "kFinished" ELSE "kTracing"]
      /\ ~in => at' = "untraced" /\ mach' = mach
      /\ in => at' = "traced" /\ mach' = MachineStep(snippet, mach)
  BY <1>2, <1>3, <1>4, <1>6 DEF StopInCode, NativeGetInstructionPointer, StopAsked, TraceAfter
<1>8. /\ CaptureTraced /\ Accepted /\ critical = <<>>
      /\ trace.n \in Nat /\ ts.count = trace.n /\ mach = Reference[trace.n]
      /\ ~trace.out_of_bounds /\ use.max \in Nat /\ use.max <= Fuel /\ ts.count \in Nat
  BY <1>1, <1>4, <1>5, UseFacts DEF CaptureInv, CaptureTraced, AnalyzeTypeOK
<1> HIDE DEF in, t
<1>9. /\ t \in Traces /\ t.n = trace.n + 1 /\ t.died = trace.died
      /\ Len(t.contexts) = t.n + 1 /\ Len(t.addresses) = t.n
      /\ \A i \in 1 .. trace.n : /\ t.contexts[i] = trace.contexts[i]
                                 /\ t.addresses[i] = trace.addresses[i]
      /\ t.contexts[trace.n + 1] = GetRegisters(mach)
      /\ t.addresses[trace.n + 1] = mach.pc
      /\ t.out_of_bounds <=> trace.out_of_bounds \/ ~in
  <2>1. trace.n < use.max /\ mach \in Machines /\ AnalyzeTypeOK
    BY <1>1, <1>4, <1>5, <1>8
  <2>2. t = CaptureBefore(trace, mach)
    BY DEF t
  <2> QED BY <2>1, <2>2, CaptureBeforeFacts, SMTT(30) DEF in
<1>10. /\ trace' \in Traces /\ trace'.n = trace.n + 1 /\ trace'.died = trace.died
       /\ Len(trace'.contexts) = trace'.n + 1 /\ Len(trace'.addresses) = trace'.n
       /\ \A i \in 1 .. trace.n : /\ trace'.contexts[i] = trace.contexts[i]
                                  /\ trace'.addresses[i] = trace.addresses[i]
       /\ trace'.contexts[trace.n + 1] = GetRegisters(mach)
       /\ trace'.addresses[trace.n + 1] = mach.pc
       /\ trace'.out_of_bounds <=> ~in
  <2>1. CASE in
    BY <1>7, <1>8, <1>9, <2>1
  <2>2. CASE ~in
    <3>1. trace' = CaptureAfter(t, GetRegisters(mach), mach) /\ GetRegisters(mach) \in Registers
      BY <1>5, <1>7, <2>2, RegistersOf
    <3>2. /\ trace' \in Traces /\ trace'.n = t.n /\ trace'.died = t.died
          /\ trace'.addresses = t.addresses
          /\ trace'.out_of_bounds = t.out_of_bounds /\ Len(trace'.contexts) = t.n + 1
          /\ \A i \in 1 .. t.n : trace'.contexts[i] = t.contexts[i]
      BY <1>5, <1>9, <3>1, CaptureAfterFacts
    <3>3. 1 .. trace.n \subseteq 1 .. t.n /\ trace.n + 1 \in 1 .. t.n
      BY <1>8, <1>9
    <3> QED BY <1>8, <1>9, <2>2, <3>2, <3>3
  <2> QED BY <2>1, <2>2
<1>11. TraceInv'
  <2>1. trace'.out_of_bounds <=> trace.out_of_bounds \/ ~InstructionIsInRange(snippet, mach.pc)
    BY <1>8, <1>10 DEF in
  <2> QED BY <1>1, <1>4, <1>8, <1>10, <2>1, TraceGrows
<1>12. /\ ts' \in [state : {"kReady", "kPreTracing", "kTracing", "kFinished"},
                   count : Nat, stop : BOOLEAN, limit : BOOLEAN, err : BOOLEAN,
                   timeout : BOOLEAN]
       /\ ts'.count = ts.count + 1 /\ ts'.limit = ts.limit
  <2> DEFINE st == IF ~in THEN "kFinished" ELSE "kTracing"
             b == ~in
  <2>1. st \in {"kReady", "kPreTracing", "kTracing", "kFinished"} /\ b \in BOOLEAN
    OBVIOUS
  <2>2. ts' = [ts EXCEPT !.count = @ + 1, !.stop = b, !.state = st]
    BY <1>7
  <2> HIDE DEF st, b
  <2>3. ts' = [ts EXCEPT !.count = ts.count + 1, !.stop = b, !.state = st]
        /\ ts.count + 1 \in Nat
    BY <1>8, <2>2
  <2> QED BY <1>1, <2>1, <2>3, TracerCounts
<1>13. AnalyzeTypeOK'
  BY <1>1, <1>4, <1>5, <1>7, <1>10, <1>12 DEF AnalyzeTypeOK, Traces
<1>14. CaptureInv'
  <2>1. Accepted' /\ Reference' = Reference
    BY <1>4, <1>8, Frame
  <2>2. CASE in
    <3>1. mach' = Reference[trace.n + 1] /\ mach' # OnItsWay
      <4>1. trace.n \in 0 .. (Fuel - 1) /\ snippet \in Snippets
        BY <1>1, <1>4, <1>8, FuelIsNat DEF AnalyzeTypeOK
      <4> QED BY <1>5, <1>7, <1>8, <2>2, <4>1, ReferenceFacts, MachinesAreNotOnItsWay
    <3>2. CaptureTraced'
      BY <1>8, <1>10, <1>12, <2>1, <2>2, <3>1 DEF CaptureTraced
    <3> QED BY <1>4, <1>7, <1>8, <2>1, <2>2, <3>2 DEF CaptureInv
  <2>3. CASE ~in
    <3>1. CaptureUntraced'
      BY <1>10, <2>3 DEF CaptureUntraced
    <3> QED BY <1>4, <1>7, <1>8, <2>1, <2>3, <3>1 DEF CaptureInv
  <2> QED BY <2>2, <2>3
<1>15. InjectInv'
  BY <1>4 DEF InjectInv
<1>16. ReportsReal'
  BY <1>4, <1>8, NoReport
<1> QED BY <1>11, <1>13, <1>14, <1>15, <1>16 DEF AnalyzeInv

\* The locals of TraceSnippetWithSkip after a callback.
LEMMA Injections ==
  ASSUME AnalyzeTypeOK, NEW e \in Nat, NEW r \in Registers, NEW c \in Nat
  PROVE  /\ [inject EXCEPT !.executed = e] \in [executed : Nat, ucontext : Registers, checksum : Nat]
         /\ [inject EXCEPT !.executed = e].executed = e
         /\ [inject EXCEPT !.executed = e].ucontext = inject.ucontext
         /\ LET i == [[inject EXCEPT !.executed = e] EXCEPT !.ucontext = r, !.checksum = c]
            IN  /\ i \in [executed : Nat, ucontext : Registers, checksum : Nat]
                /\ i.executed = e /\ i.ucontext = r /\ i.checksum = c
         /\ LET i == [inject EXCEPT !.ucontext = r, !.checksum = c]
            IN  /\ i \in [executed : Nat, ucontext : Registers, checksum : Nat]
                /\ i.executed = inject.executed /\ i.ucontext = r /\ i.checksum = c
BY DEF AnalyzeTypeOK

\* Along the reference, over the instruction to leave out, and along the rest.
LEMMA StopInCodeInjects ==
  ASSUME use \in Uses, use.tool = "analyze", AnalyzeInv, StopInCode, job >= 0
  PROVE  AnalyzeInv'
<1>1. AnalyzeTypeOK /\ TraceInv /\ InjectInv /\ ReportsReal
  BY DEF AnalyzeInv
<1>2. Injecting /\ ~Capturing /\ job \in Nat /\ job # -1
  BY <1>1, Jobs
<1> DEFINE ip == SkipTo(mach)
           moved == [mach EXCEPT !.pc = ip]
           in == IsInsideCode(snippet, ip)
<1>3. /\ at = "traced" /\ ~mach.fault /\ IsInsideCode(snippet, mach.pc)
      /\ ts.count < use.max
      /\ UNCHANGED <<use, snippet, job, critical, result, hiccups, trace>>
  BY <1>2 DEF StopInCode
<1>4. StopAsked(mach) = FALSE
  BY <1>2 DEF StopAsked
<1>5. /\ inject' = IF ~in THEN InjectAfter(SkipBefore(ip), GetRegisters(moved), moved)
                          ELSE SkipBefore(ip)
      /\ ts' = [ts EXCEPT !.count = @ + 1, !.stop = FALSE,
                          !.state = IF ~in THEN "kFinished" ELSE "kTracing"]
      /\ ~in => at' = "untraced" /\ mach' = moved
      /\ in => at' = "traced" /\ mach' = MachineStep(snippet, moved)
  <2> DEFINE finished == ~in \/ StopAsked(mach)
  <2>1. finished = ~in
    BY <1>4
  <2>2. /\ inject' = IF finished THEN InjectAfter(SkipBefore(ip), GetRegisters(moved), moved)
                                 ELSE SkipBefore(ip)
        /\ ts' = [ts EXCEPT !.count = @ + 1, !.stop = StopAsked(mach),
                            !.state = IF finished THEN "kFinished" ELSE "kTracing"]
        /\ IF finished THEN at' = "untraced" /\ mach' = moved
                       ELSE UNCHANGED at /\ mach' = MachineStep(snippet, moved)
    <3> HIDE DEF Injecting, StopAsked, SkipTo
    <3> QED BY <1>2 DEF StopInCode, NativeGetInstructionPointer
  <2> HIDE DEF finished, in, moved, ip
  <2> QED BY <1>3, <1>4, <2>1, <2>2
<1> HIDE DEF in, ip, moved
<1>6. /\ mach \in Machines /\ mach # OnItsWay /\ ~Ended(snippet, mach)
      /\ MachineStep(snippet, mach) \in Machines
  BY <1>1, <1>3, InsideCode
<1>7. /\ InjectTraced /\ ts.count \in Nat /\ use.max \in Nat /\ use.max <= Fuel
      /\ Fuel \in Nat /\ inject.executed \in Nat /\ ~ts.limit /\ inject.ucontext = Unset
      /\ snippet \in Snippets
  BY <1>1, <1>2, <1>3, UseFacts, FuelIsNat DEF InjectInv, AnalyzeTypeOK, InjectTraced
<1>8. /\ ts' \in [state : {"kReady", "kPreTracing", "kTracing", "kFinished"},
                  count : Nat, stop : BOOLEAN, limit : BOOLEAN, err : BOOLEAN,
                  timeout : BOOLEAN]
      /\ ts'.count = ts.count + 1 /\ ~ts'.limit
  <2> DEFINE st == IF ~in THEN "kFinished" ELSE "kTracing"
  <2>1. st \in {"kReady", "kPreTracing", "kTracing", "kFinished"}
    OBVIOUS
  <2>2. ts' = [ts EXCEPT !.count = ts.count + 1, !.stop = FALSE, !.state = st]
        /\ ts.count + 1 \in Nat
    BY <1>5, <1>7
  <2> HIDE DEF st
  <2> QED BY <1>1, <1>7, <2>1, <2>2, TracerCounts
<1>9. ASSUME NEW m \in Machines, moved = m
      PROVE  /\ ~in => /\ inject' \in [executed : Nat, ucontext : Registers, checksum : Nat]
                       /\ inject'.ucontext = Visible(m) /\ inject'.checksum = Checksum(m)
                       /\ at' = "untraced" /\ mach' = m
             /\ in => /\ inject' \in [executed : Nat, ucontext : Registers, checksum : Nat]
                      /\ inject'.executed = inject.executed + 1
                      /\ inject'.ucontext = Unset
                      /\ at' = "traced" /\ mach' = MachineStep(snippet, m)
  <2> DEFINE e == IF in THEN inject.executed + 1 ELSE inject.executed
             g == GetRegisters(m)
             c == Checksum(m)
  <2>1. e \in Nat /\ g \in Registers /\ c \in Nat /\ Visible(m) = g
    BY <1>7, RegistersOf, ChecksumIsNat DEF Visible
  <2>2. SkipBefore(ip) = [inject EXCEPT !.executed = e]
    BY DEF SkipBefore, in
  <2>3. CASE in
    <3>1. inject' = [inject EXCEPT !.executed = e] /\ e = inject.executed + 1
      BY <1>5, <2>2, <2>3
    <3> HIDE DEF e, g, c
    <3> QED BY <1>1, <1>5, <1>7, <1>9, <2>1, <2>3, <3>1, Injections, ZenonT(60)
  <2>4. CASE ~in
    <3>1. inject' = [[inject EXCEPT !.executed = e] EXCEPT !.ucontext = g, !.checksum = c]
      BY <1>2, <1>5, <1>9, <2>2, <2>4 DEF InjectAfter
    <3> HIDE DEF e, g, c
    <3>2. /\ inject' \in [executed : Nat, ucontext : Registers, checksum : Nat]
          /\ inject'.ucontext = g /\ inject'.checksum = c
      BY <1>1, <2>1, <3>1, Injections
    <3> QED BY <1>5, <1>9, <2>1, <2>4, <3>2 DEF c
  <2> QED BY <2>3, <2>4
<1>10. ASSUME NEW m \in Machines, moved = m,
              in => InjectTraced', ~in => InjectUntraced'
       PROVE  AnalyzeInv'
  <2>1. mach' \in Machines
    BY <1>7, <1>9, <1>10, MachineStepFacts
  <2>2. AnalyzeTypeOK'
    BY <1>1, <1>3, <1>8, <1>9, <1>10, <2>1 DEF AnalyzeTypeOK
  <2>3. TraceInv' /\ ReportsReal'
    BY <1>1, <1>3, FrameTrace, FrameCritical
  <2>4. (at' = "traced" /\ in) \/ (at' = "untraced" /\ ~in)
    BY <1>9, <1>10
  <2>5. InjectInv'
    <3>1. at # "end" /\ at' # "end"
      BY <1>3, <2>4
    <3>2. /\ job' < trace'.n /\ Accepted' /\ TraceWhole'
          /\ critical' \in Seq([detected : BOOLEAN, lost : BOOLEAN])
          /\ Len(critical') = IF at' = "end" THEN job' + 1 ELSE job'
      BY <1>3, <3>1, InjectRest
    <3> QED BY <1>10, <2>4, <3>2 DEF InjectInv
  <2>6. CaptureInv'
    BY <1>2, <1>3 DEF CaptureInv
  <2> QED BY <2>2, <2>3, <2>5, <2>6 DEF AnalyzeInv
<1>11. /\ Reference' = Reference /\ Skipped(job)' = Skipped(job)
       /\ \A n : GoesOn(n)' <=> GoesOn(n)
  BY <1>3, Frame, FrameGoesOn DEF Skipped
<1>12. CASE ts.count <= job /\ inject.executed = ts.count /\ ts.count # job
  <2>1. ip = mach.pc /\ moved = mach /\ in
    BY <1>3, <1>6, <1>12 DEF ip, moved, in, SkipTo, Skips, Machines
  <2>2. mach = Reference[ts.count]
    BY <1>2, <1>6, <1>7, <1>12 DEF InjectTraced
  <2>3. mach' = Reference[ts.count + 1]
    <3>1. ts.count \in 0 .. job
      BY <1>2, <1>7, <1>12
    <3> QED BY <1>6, <1>9, <2>1, <2>2, <3>1, InjectFacts
  <2>4. BeforeSkip'
    BY <1>2, <1>3, <1>6, <1>7, <1>8, <1>9, <1>12, <2>1 DEF BeforeSkip
  <2>5. InjectTraced'
    <3>1. mach' # OnItsWay
      BY <1>6, <1>9, <2>1, MachinesAreNotOnItsWay
    <3>2. ts'.count <= use'.max
      BY <1>3, <1>7, <1>8
    <3> QED BY <1>3, <1>6, <1>8, <1>9, <1>11, <2>1, <2>3, <2>4, <3>1, <3>2 DEF InjectTraced
  <2> QED BY <1>6, <1>10, <2>1, <2>5
<1>13. CASE ts.count = job /\ inject.executed = job
  <2>1. mach = Reference[job]
    BY <1>6, <1>7, <1>13 DEF InjectTraced
  <2>2. ip = Leaving.pc /\ moved = Leaving /\ Leaving \in Machines /\ ~Leaving.fault
    <3>1. ip = mach.pc + InstructionSize(snippet.code[mach.pc])
      BY <1>13 DEF ip, SkipTo, Skips
    <3> QED BY <2>1, <3>1, InjectFacts DEF moved, Leaving
  <2>3. CASE in
    <3>1. ~Ended(snippet, Leaving)
      BY <1>7, <2>2, <2>3, SnippetFacts DEF in, IsInsideCode, Ended
    <3>2. mach' = Skipped(job)[1]
      <4>1. 0 \in 0 .. (Fuel - 1) /\ 0 + 1 = 1
        BY <1>3, <1>7
      <4> QED BY <1>9, <2>2, <2>3, <3>1, <4>1, InjectFacts
    <3>3. GoesOn(1)
      <4>1. \A k \in 0 .. 1 - 1 : k = 0
        OBVIOUS
      <4>2. Skipped(job)[0] = Leaving
        BY InjectFacts
      <4> QED BY <3>1, <4>1, <4>2 DEF GoesOn
    <3>4. InjectTraced'
      <4>1. /\ ts'.count = job + 1 /\ ts'.count - job = 1 /\ ts'.count <= use'.max
            /\ inject'.executed > job
        BY <1>2, <1>3, <1>7, <1>8, <1>9, <1>13, <2>2, <2>3
      <4>2. ts'.count > job' /\ inject'.executed > job' /\ ts'.count - job' = 1
        BY <1>2, <1>3, <4>1
      <4>3. inject'.ucontext = Unset
        BY <1>9, <2>2, <2>3
      <4>4. GoesOn(1)' /\ mach' = Skipped(job)'[1]
        BY <1>11, <3>2, <3>3
      <4> QED BY <1>8, <4>1, <4>2, <4>3, <4>4 DEF InjectTraced
    <3> QED BY <1>10, <2>2, <2>3, <3>4
  <2>4. CASE ~in
    <3>1. /\ mach' = Leaving /\ inject'.ucontext = Visible(Leaving)
          /\ inject'.checksum = Checksum(Leaving)
      BY <1>9, <2>2, <2>4
    <3>2. Leaving.pc >= snippet.len
      BY <1>7, <2>2, <2>4, SnippetFacts DEF in, IsInsideCode, Machines
    <3>3. mach' = Skipped(job)[0] /\ 0 \in 0 .. Fuel
      BY <1>7, <3>1, InjectFacts
    <3>4. InjectUntraced'
      <4>1. Visible(mach)' = Visible(Leaving)
        BY <1>3, <3>1, Frame
      <4>2. \E i \in 0 .. Fuel : mach' = Skipped(job)'[i]
        BY <1>11, <3>3
      <4> QED BY <1>3, <1>8, <2>2, <3>1, <3>2, <4>1, <4>2 DEF InjectUntraced
    <3> QED BY <1>10, <2>2, <2>4, <3>4
  <2> QED BY <2>3, <2>4
<1>14. CASE /\ ts.count > job /\ inject.executed > job
            /\ mach = Skipped(job)[ts.count - job] /\ GoesOn(ts.count - job)
  <2>0. PICK n \in Nat : n = ts.count - job
    BY <1>2, <1>7, <1>14
  <2>1. ip = mach.pc /\ moved = mach /\ in
    <3>1. inject.executed # job
      BY <1>2, <1>7, <1>14
    <3> QED BY <1>3, <1>6, <3>1 DEF ip, moved, in, SkipTo, Skips, Machines
  <2>2. n \in 0 .. (Fuel - 1) /\ n \in Nat /\ (ts.count + 1) - job = n + 1
    BY <1>2, <1>3, <1>7, <1>14, <2>0
  <2>3. mach' = Skipped(job)[n + 1]
    BY <1>6, <1>9, <1>14, <2>0, <2>1, <2>2, InjectFacts
  <2>4. GoesOn(n + 1)
    <3>1. \A k \in 0 .. (n + 1) - 1 : k \in 0 .. n - 1 \/ k = n
      BY <2>2
    <3>2. GoesOn(n) /\ ~Ended(snippet, Skipped(job)[n])
      BY <1>6, <1>14, <2>0
    <3> QED BY <3>1, <3>2 DEF GoesOn
  <2>5. InjectTraced'
    <3>1. ts'.count > job' /\ ts'.count - job' = n + 1 /\ ts'.count <= use'.max
      BY <1>2, <1>3, <1>7, <1>8, <1>14, <2>0, <2>2
    <3>2. inject'.executed > job' /\ inject'.ucontext = Unset
      BY <1>2, <1>3, <1>6, <1>7, <1>9, <1>14, <2>1
    <3>3. GoesOn(n + 1)' /\ mach' = Skipped(job)'[n + 1]
      BY <1>11, <2>3, <2>4
    <3> QED BY <1>8, <3>1, <3>2, <3>3 DEF InjectTraced
  <2> QED BY <1>6, <1>10, <2>1, <2>5
<1>15. \/ ts.count <= job /\ inject.executed = ts.count
       \/ /\ ts.count > job /\ inject.executed > job
          /\ mach = Skipped(job)[ts.count - job] /\ GoesOn(ts.count - job)
  BY <1>7 DEF InjectTraced, BeforeSkip
<1> QED BY <1>12, <1>13, <1>14, <1>15

\* At the limit the execution without the instruction still goes on.
LEMMA StopAtLimitStep ==
  ASSUME use \in Uses, use.tool = "analyze", AnalyzeInv, StopAtLimit
  PROVE  AnalyzeInv'
<1>1. AnalyzeTypeOK /\ TraceInv /\ CaptureInv /\ InjectInv /\ ReportsReal
  BY DEF AnalyzeInv
<1>2. /\ at = "traced" /\ ~mach.fault /\ IsInsideCode(snippet, mach.pc)
      /\ ts.count >= use.max /\ at' = "untraced"
      /\ ts' = [ts EXCEPT !.count = @ + 1, !.limit = TRUE, !.state = "kTracing"]
      /\ UNCHANGED <<use, snippet, mach, trace, job, inject, critical, result, hiccups>>
  BY DEF StopAtLimit
<1>3. mach \in Machines /\ mach # OnItsWay /\ ~Ended(snippet, mach)
  BY <1>1, <1>2, InsideCode
<1>4. /\ ts' \in [state : {"kReady", "kPreTracing", "kTracing", "kFinished"},
                  count : Nat, stop : BOOLEAN, limit : BOOLEAN, err : BOOLEAN,
                  timeout : BOOLEAN]
      /\ ts'.limit
  <2>1. /\ ts \in [state : {"kReady", "kPreTracing", "kTracing", "kFinished"},
                   count : Nat, stop : BOOLEAN, limit : BOOLEAN, err : BOOLEAN,
                   timeout : BOOLEAN]
        /\ ts.count + 1 \in Nat
    BY <1>1 DEF AnalyzeTypeOK
  <2>2. ts' = [ts EXCEPT !.count = ts.count + 1, !.limit = TRUE, !.state = "kTracing"]
    BY <1>2
  <2> QED BY <2>1, <2>2
<1>5. AnalyzeTypeOK'
  BY <1>1, <1>2, <1>4 DEF AnalyzeTypeOK
<1>6. TraceInv' /\ ReportsReal'
  BY <1>1, <1>2, FrameTrace, FrameCritical
<1>7. CaptureInv'
  <2>1. job = -1 => CaptureUntraced'
    BY <1>1, <1>2, <1>3, <1>4, Frame DEF CaptureInv, CaptureTraced, CaptureUntraced
  <2> QED BY <1>1, <1>2, <2>1, Frame DEF CaptureInv
<1>8. InjectInv'
  <2> SUFFICES ASSUME job >= 0 PROVE InjectInv'
    BY <1>2 DEF InjectInv
  <2>1. /\ InjectTraced /\ job \in Nat /\ job < trace.n /\ trace.n <= use.max /\ trace.n \in Nat
        /\ use.max \in Nat /\ ts.count \in Nat /\ use.max <= Fuel
    BY <1>1, <1>2, InjectFacts, UseFacts DEF InjectInv, AnalyzeTypeOK
  <2>2. /\ ts.count = use.max /\ mach = Skipped(job)[use.max - job]
        /\ GoesOn(use.max - job) /\ inject.ucontext = Unset
    BY <1>2, <2>1 DEF InjectTraced, BeforeSkip
  <2>3. PICK n \in Nat : n = use.max - job
    BY <2>1
  <2>4. GoesOn(n + 1)
    <3>1. \A k \in 0 .. (n + 1) - 1 : k \in 0 .. n - 1 \/ k = n
      BY <2>3
    <3>2. GoesOn(n) /\ ~Ended(snippet, Skipped(job)[n])
      BY <1>3, <2>2, <2>3
    <3> QED BY <3>1, <3>2 DEF GoesOn
  <2>5. InjectUntraced'
    <3>1. GoesOn(n + 1)' /\ use'.max - job' = n /\ inject'.ucontext = Unset
      BY <1>2, <2>2, <2>3, <2>4, FrameGoesOn
    <3> QED BY <1>4, <3>1 DEF InjectUntraced
  <2>6. /\ job' < trace'.n /\ Accepted' /\ TraceWhole'
        /\ critical' \in Seq([detected : BOOLEAN, lost : BOOLEAN])
        /\ Len(critical') = IF at' = "end" THEN job' + 1 ELSE job'
    BY <1>2, InjectRest
  <2> QED BY <1>2, <2>5, <2>6 DEF InjectInv
<1> QED BY <1>5, <1>6, <1>7, <1>8 DEF AnalyzeInv

\* An error, and a hiccup that excuses it.
LEMMA RunnerDiesStep ==
  ASSUME use \in Uses, use.tool = "analyze", AnalyzeInv, RunnerDies
  PROVE  AnalyzeInv'
<1>1. AnalyzeTypeOK /\ TraceInv /\ CaptureInv /\ InjectInv /\ ReportsReal
  BY DEF AnalyzeInv
<1>2. /\ at \in {"traced", "untraced"} /\ at' = "returned" /\ result' = "error"
      /\ hiccups' = hiccups + 1 /\ hiccups \in Nat
      /\ UNCHANGED <<use, snippet, mach, ts, trace, job, inject, critical>>
  BY <1>1 DEF RunnerDies, Hiccup, AnalyzeTypeOK
<1>3. AnalyzeTypeOK'
  BY <1>1, <1>2 DEF AnalyzeTypeOK
<1>4. TraceInv' /\ ReportsReal'
  BY <1>1, <1>2, FrameTrace, FrameCritical
<1>5. CaptureInv'
  BY <1>1, <1>2 DEF CaptureInv
<1>6. InjectInv'
  <2> SUFFICES ASSUME job >= 0 PROVE InjectInv'
    BY <1>2 DEF InjectInv
  <2>1. FaultDetected' /\ hiccups' > 0
    BY <1>2 DEF FaultDetected
  <2>2. ReportIsReal(job, FaultDetected, hiccups > 0)'
    BY <2>1 DEF ReportIsReal, LimitLeavesRoom
  <2>3. /\ job' < trace'.n /\ Accepted' /\ TraceWhole'
        /\ critical' \in Seq([detected : BOOLEAN, lost : BOOLEAN])
        /\ Len(critical') = IF at' = "end" THEN job' + 1 ELSE job'
    BY <1>2, InjectRest
  <2> QED BY <1>2, <2>2, <2>3 DEF InjectInv
<1> QED BY <1>3, <1>4, <1>5, <1>6 DEF AnalyzeInv

\* The end state is read outside of the code.
LEMMA StopAfterCodeStep ==
  ASSUME use \in Uses, use.tool = "analyze", AnalyzeInv, StopAfterCode
  PROVE  AnalyzeInv'
<1> DEFINE regs == IF mach.fault THEN HandlerRegisters ELSE GetRegisters(mach)
<1>1. AnalyzeTypeOK /\ TraceInv /\ CaptureInv /\ InjectInv /\ ReportsReal
  BY DEF AnalyzeInv
<1>2. /\ at = "traced" /\ at' = "untraced"
      /\ mach.fault \/ mach.pc >= snippet.len
      /\ trace' = TraceAfter(trace, regs, mach)
      /\ inject' = InjectAfter(inject, regs, mach)
      /\ ts' = [ts EXCEPT !.state = "kFinished"]
      /\ UNCHANGED <<use, snippet, mach, job, critical, result, hiccups>>
  BY DEF StopAfterCode
<1>3. mach \in Machines /\ mach # OnItsWay
  <2>1. OnItsWay.pc = -1 /\ ~OnItsWay.fault /\ snippet.len \in Nat
    BY <1>1, SnippetFacts DEF OnItsWay, Start, AnalyzeTypeOK
  <2> QED BY <1>1, <1>2, <2>1 DEF AnalyzeTypeOK
<1>4. regs \in Registers /\ Checksum(mach) \in Nat
  BY <1>3, RegistersOf, SpecialRegisters, ChecksumIsNat
<1>5. /\ ts' \in [state : {"kReady", "kPreTracing", "kTracing", "kFinished"},
                  count : Nat, stop : BOOLEAN, limit : BOOLEAN, err : BOOLEAN,
                  timeout : BOOLEAN]
      /\ ts'.limit = ts.limit
  BY <1>1, <1>2 DEF AnalyzeTypeOK
<1>6. CASE job = -1
  <2>1. Capturing /\ ~Injecting
    BY <1>1, <1>6, Jobs
  <2>2. trace' = CaptureAfter(trace, regs, mach) /\ inject' = inject
    BY <1>2, <2>1 DEF TraceAfter, InjectAfter
  <2>3. trace \in Traces /\ Len(trace.contexts) = trace.n + 1 /\ trace.n \in Nat
        /\ Len(trace.addresses) = trace.n
    BY <1>1 DEF AnalyzeTypeOK, Traces
  <2> HIDE DEF regs
  <2>4. /\ trace' \in Traces /\ trace'.n = trace.n /\ trace'.died = trace.died
        /\ trace'.addresses = trace.addresses
        /\ trace'.out_of_bounds = trace.out_of_bounds /\ Len(trace'.contexts) = trace.n + 1
        /\ \A i \in 1 .. trace.n : trace'.contexts[i] = trace.contexts[i]
        /\ trace'.contexts[trace.n + 1] = regs /\ trace'.checksum = Checksum(mach)
    <3>1. /\ trace \in Traces /\ Len(trace.contexts) = trace.n + 1 /\ regs \in Registers
          /\ mach \in Machines /\ trace' = CaptureAfter(trace, regs, mach)
      BY <1>3, <1>4, <2>2, <2>3
    <3> HIDE DEF Traces, Registers
    <3> QED BY <3>1, CaptureAfterFacts, SMTT(30)
  <2>5. AnalyzeTypeOK'
    BY <1>1, <1>2, <1>5, <2>2, <2>3, <2>4 DEF AnalyzeTypeOK, Traces
  <2>6. TraceInv'
    BY <1>1, <1>2, <2>3, <2>4, TraceKept
  <2>7. CaptureUntraced'
    <3>1. mach = Reference[trace.n]
      BY <1>1, <1>2, <1>3, <1>6 DEF CaptureInv, CaptureTraced
    <3>2. ~mach.fault => regs = Visible(mach)
      BY DEF regs, Visible
    <3>3. Reference' = Reference /\ Visible(mach)' = Visible(mach)
      BY <1>2, Frame
    <3> QED BY <1>2, <2>4, <3>1, <3>2, <3>3 DEF CaptureUntraced
  <2>8. CaptureInv' /\ critical = <<>>
    <3>1. critical = <<>> /\ Accepted
      BY <1>1, <1>2, <1>6 DEF CaptureInv
    <3>2. Accepted'
      BY <1>2, <3>1, Frame
    <3> QED BY <1>2, <2>7, <3>1, <3>2 DEF CaptureInv
  <2>9. ReportsReal' /\ InjectInv'
    BY <1>2, <1>6, <2>8, NoReport DEF InjectInv
  <2> QED BY <2>5, <2>6, <2>8, <2>9 DEF AnalyzeInv
<1>7. CASE job >= 0
  <2>1. Injecting /\ ~Capturing /\ job \in Nat
    BY <1>1, <1>7, Jobs
  <2>2. trace' = trace /\ inject' = [inject EXCEPT !.ucontext = regs, !.checksum = Checksum(mach)]
    BY <1>2, <2>1 DEF TraceAfter, InjectAfter
  <2> HIDE DEF regs
  <2>3. /\ inject' \in [executed : Nat, ucontext : Registers, checksum : Nat]
        /\ inject'.ucontext = regs /\ inject'.checksum = Checksum(mach)
    BY <1>1, <1>4, <2>2 DEF AnalyzeTypeOK
  <2>4. AnalyzeTypeOK'
    BY <1>1, <1>2, <1>5, <2>2, <2>3 DEF AnalyzeTypeOK
  <2>5. TraceInv' /\ ReportsReal'
    BY <1>1, <1>2, <2>2, FrameTrace, FrameCritical
  <2>6. CaptureInv'
    BY <1>2, <1>7 DEF CaptureInv
  <2>7. InjectTraced /\ ts.count \in Nat /\ use.max \in Nat /\ use.max <= Fuel /\ Fuel \in Nat
    BY <1>1, <1>2, <1>7, UseFacts, FuelIsNat DEF InjectInv, AnalyzeTypeOK
  <2>8. ~BeforeSkip
    <3> SUFFICES ASSUME BeforeSkip PROVE FALSE
      OBVIOUS
    <3>1. ts.count \in 0 .. job
      BY <2>1, <2>7 DEF BeforeSkip
    <3>2. mach = Reference[ts.count]
      BY <1>3, <2>1, <2>7, <3>1 DEF InjectTraced
    <3>3. ~mach.fault /\ IsInsideCode(snippet, mach.pc)
      BY <1>7, <3>1, <3>2, InjectFacts
    <3>4. mach.pc \in Nat /\ snippet.len \in Nat
      BY <1>1, <1>3, SnippetFacts DEF Machines, AnalyzeTypeOK
    <3> QED BY <1>2, <3>3, <3>4 DEF IsInsideCode
  <2>9. PICK i \in 0 .. Fuel : mach = Skipped(job)[i]
    <3>1. ts.count > job /\ mach = Skipped(job)[ts.count - job] /\ ts.count <= use.max
      BY <2>7, <2>8 DEF InjectTraced
    <3>2. ts.count - job \in 0 .. Fuel
      BY <2>1, <2>7, <3>1
    <3> QED BY <3>1, <3>2
  <2>10. InjectUntraced'
    <3>1. Skipped(job)' = Skipped(job) /\ Visible(mach)' = Visible(mach)
      BY <1>2, Frame DEF Skipped
    <3>2. ~ts'.limit
      BY <1>5, <2>7 DEF InjectTraced
    <3>3. regs = IF mach.fault THEN HandlerRegisters ELSE Visible(mach)
      BY DEF regs, Visible
    <3>4. \E j \in 0 .. Fuel : mach' = Skipped(job)'[j]
      BY <1>2, <2>9, <3>1
    <3> QED BY <1>2, <2>3, <3>1, <3>2, <3>3, <3>4 DEF InjectUntraced
  <2>11. InjectInv'
    <3>1. /\ job' < trace'.n /\ Accepted' /\ TraceWhole'
          /\ critical' \in Seq([detected : BOOLEAN, lost : BOOLEAN])
          /\ Len(critical') = IF at' = "end" THEN job' + 1 ELSE job'
      BY <1>2, <1>7, <2>2, InjectRest
    <3> QED BY <1>2, <2>10, <3>1 DEF InjectInv
  <2> QED BY <2>4, <2>5, <2>6, <2>11 DEF AnalyzeInv
<1> QED BY <1>1, <1>6, <1>7, Jobs

\* An execution that exits does so where it first leaves the code.
LEMMA ExitsWhere ==
  ASSUME NEW p \in Snippets, NEW m0 \in Machines, NEW i \in 0 .. Fuel,
         LET last == Path(p, m0)[Fuel] IN last.pc = p.len /\ ~last.fault,
         Path(p, m0)[i].fault \/ Path(p, m0)[i].pc >= p.len
  PROVE  Path(p, m0)[i] = Path(p, m0)[Fuel]
<1> DEFINE f == Path(p, m0)
<1>1. f[i] \in Machines /\ Fuel \in Nat /\ p.len \in Nat
  BY PathInMachines, FuelIsNat, SnippetFacts
<1>2. CASE Ended(p, f[i])
  BY <1>2, PathEnd
<1>3. CASE ~Ended(p, f[i]) /\ i # Fuel
  <2>1. ~f[i].fault /\ f[i].pc # p.len /\ f[i].pc \in Nat
    BY <1>1, <1>3 DEF Ended, Machines
  <2>2. ~IsInsideCode(p, f[i].pc)
    BY <1>1, <2>1 DEF IsInsideCode
  <2>3. i \in 0 .. (Fuel - 1) /\ i + 1 \in 0 .. Fuel
    BY <1>1, <1>3
  <2>4. f[i + 1].fault
    BY <1>1, <1>3, <2>2, <2>3, PathStep, MachineStepFacts
  <2>5. f[Fuel] = f[i + 1]
    BY <2>3, <2>4, PathEnd DEF Ended
  <2> QED BY <2>4, <2>5
<1>4. CASE i = Fuel
  BY <1>4
<1> QED BY <1>2, <1>3, <1>4

\* What any tracer reads of a machine.
LEMMA StackIsVisible == \A m : Visible(m).sp = m.sp /\ Visible(m).pc = m.pc
BY DEF Visible, GetRegisters, NativeGetRegisters, UnicornGetRegisters, WithExtension,
       DeserializeUserRegsStruct, GetX86XState, UnicornX86_64RegValue,
       UnicornAArch64RegValue

\* What a fault injection can be told, given what became of it.
LEMMA StepsOfSkipped ==
  ASSUME use \in Uses, AnalyzeInv, job >= 0, Harmless(job)
  PROVE  /\ Steps(Skipped(job)) \in 0 .. Fuel
         /\ Ended(snippet, Skipped(job)[Steps(Skipped(job))])
<1>1. Ended(snippet, Skipped(job)[Fuel])
  BY DEF Harmless, EndsAlike, Exits, Ended
<1>2. Skipped(job) = Path(snippet, Leaving)
  BY InjectFacts
<1> QED BY <1>1, <1>2, StepsFirst

\* An execution that has not ended within n states has n steps at least.
LEMMA NotLongEnough ==
  ASSUME use \in Uses, AnalyzeInv, job >= 0, Harmless(job), NEW n \in Nat, GoesOn(n)
  PROVE  Steps(Skipped(job)) >= n
<1> DEFINE s == Steps(Skipped(job))
<1>1. s \in 0 .. Fuel /\ Ended(snippet, Skipped(job)[s])
  BY StepsOfSkipped
<1> HIDE DEF s
<1>2. ~(s \in 0 .. n - 1)
  BY <1>1 DEF GoesOn
<1>3. s >= n
  BY <1>1, <1>2, FuelIsNat
<1> QED BY <1>3 DEF s

\* Whether an instruction is harmless depends on the trace, the snippet and the use.
LEMMA FrameReport ==
  ASSUME UNCHANGED <<use, snippet, trace, job>>
  PROVE  /\ Harmless(job)' <=> Harmless(job)
         /\ Steps(Skipped(job))' = Steps(Skipped(job))
<1>1. Skipped(job)' = Skipped(job)
  BY Frame DEF Skipped
<1>2. /\ Reference' = Reference /\ \A m : Visible(m)' = Visible(m)
      /\ \A m : Exits(snippet, m)' <=> Exits(snippet, m)
  BY Frame
<1>3. Harmless(job)' <=> Harmless(job)
  BY <1>1, <1>2 DEF Harmless, EndsAlike
<1>4. Steps(Skipped(job))' = Steps(Skipped(job))
  BY <1>1 DEF Steps
<1> QED BY <1>3, <1>4

\* The runner's verdict, the end state and the checksum tell whether it mattered.
LEMMA NativeReturnsStep ==
  ASSUME use \in Uses, use.tool = "analyze", AnalyzeInv, NativeReturns
  PROVE  AnalyzeInv'
<1>1. AnalyzeTypeOK /\ TraceInv /\ CaptureInv /\ InjectInv /\ ReportsReal
  BY DEF AnalyzeInv
<1>2. /\ at = "untraced" /\ at' = "returned"
      /\ UNCHANGED <<use, snippet, mach, ts, trace, job, inject, critical, hiccups>>
  BY DEF NativeReturns
<1>3. /\ Outcome = "mismatch" => result' = "ok"
      /\ Outcome = "success" => result' = IF ts.limit THEN "error" ELSE "ok"
  BY DEF NativeReturns
<1>4. AnalyzeTypeOK'
  BY <1>1, <1>2 DEF AnalyzeTypeOK
<1>5. TraceInv' /\ ReportsReal'
  BY <1>1, <1>2, FrameTrace, FrameCritical
<1>6. /\ snippet \in Snippets /\ use.type = "native" /\ trace.n \in Nat
      /\ Fuel \in Nat /\ trace.n \in 0 .. Fuel
  <2>1. snippet \in Snippets /\ use.type = "native" /\ trace.n \in Nat /\ trace.n <= use.max
    BY <1>1, <1>2 DEF AnalyzeTypeOK, TraceInv
  <2> QED BY <2>1, UseFacts, FuelIsNat
<1>7. CaptureInv'
  <2> SUFFICES ASSUME job = -1 PROVE CaptureInv'
    BY <1>2 DEF CaptureInv
  <2>1. Accepted /\ CaptureUntraced /\ critical = <<>>
    BY <1>1, <1>2 DEF CaptureInv
  <2>2. Exits(snippet, Reference[Fuel]) /\ Reference[Fuel] = RunOut(snippet, Start)
    BY <1>6, <2>1 DEF Accepted, MakeRawInstructions, RunOut, Reference
  <2>3. ASSUME result' = "ok", ~trace.out_of_bounds PROVE TraceWhole
    <3>1. mach = Reference[trace.n]
      BY <2>1, <2>3 DEF CaptureUntraced
    <3>2. Outcome = "success"
      <4>1. Ended(snippet, Path(snippet, Start)[Fuel])
        BY <2>2 DEF Exits, Ended, Reference
      <4>2. RunOut(snippet, mach) = Path(snippet, Start)[Fuel]
        BY <1>6, <3>1, <4>1, RunOutShift DEF Reference
      <4> QED BY <2>2, <4>2 DEF Outcome, Reference
    <3>3. ~ts.limit
      BY <1>3, <2>3, <3>2
    <3>4. /\ mach.fault \/ mach.pc >= snippet.len
          /\ ~mach.fault => trace.contexts[trace.n + 1] = Visible(mach)
          /\ trace.checksum = Checksum(mach)
      BY <2>1, <2>3, <3>3 DEF CaptureUntraced
    <3>5. mach = Reference[Fuel]
      <4>1. Reference[Fuel].pc = snippet.len /\ ~Reference[Fuel].fault
        BY <2>2 DEF Exits
      <4> QED BY <1>6, <3>1, <3>4, <4>1, StartIsMachine, ExitsWhere DEF Reference
    <3>6. Exits(snippet, mach) /\ ~mach.fault
      BY <2>2, <3>5 DEF Exits
    <3> QED BY <2>3, <3>1, <3>4, <3>6 DEF TraceWhole
  <2>4. Accepted' /\ (TraceWhole => TraceWhole')
    BY <1>2, <2>1, Frame, FrameTrace
  <2> QED BY <1>2, <2>1, <2>3, <2>4 DEF CaptureInv
<1>8. InjectInv'
  <2> SUFFICES ASSUME job >= 0 PROVE InjectInv'
    BY <1>2 DEF InjectInv
  <2>1. InjectUntraced /\ TraceWhole
    BY <1>1, <1>2 DEF InjectInv
  <2> DEFINE end == Reference[trace.n]
  <2>2. /\ trace.contexts[trace.n + 1] = Visible(end) /\ trace.checksum = Checksum(end)
        /\ Exits(snippet, end) /\ end \in Machines
    BY <1>6, <2>1, ReferenceFacts DEF TraceWhole
  <2>3. FaultDetected' <=> \/ result' # "ok" \/ inject.ucontext # Visible(end)
                           \/ inject.checksum # Checksum(end)
    BY <1>2, <2>2 DEF FaultDetected
  <2> HIDE DEF end
  <2>4. ASSUME ~ts.limit, NEW i \in 0 .. Fuel, mach = Skipped(job)[i],
               Skipped(job)[Fuel].pc = snippet.len, ~Skipped(job)[Fuel].fault
        PROVE  mach = Skipped(job)[Fuel]
    <3>1. mach.fault \/ mach.pc >= snippet.len
      BY <2>1, <2>4 DEF InjectUntraced
    <3> QED BY <1>6, <2>4, <3>1, InjectFacts, ExitsWhere
  <2>5. ASSUME ~FaultDetected' PROVE Harmless(job)
    <3>1. inject.ucontext = Visible(end) /\ inject.checksum = Checksum(end)
      BY <2>3, <2>5
    <3>2. ~ts.limit
      BY <2>1, <2>2, <3>1, SpecialRegisters DEF InjectUntraced
    <3>3. PICK i \in 0 .. Fuel : mach = Skipped(job)[i]
      BY <2>1, <3>2 DEF InjectUntraced
    <3>4. ~mach.fault /\ inject.ucontext = Visible(mach) /\ inject.checksum = Checksum(mach)
      BY <2>1, <2>2, <3>1, <3>2, SpecialRegisters DEF InjectUntraced
    <3>5. mach.pc = end.pc /\ mach.sp = end.sp
      BY <3>1, <3>4, StackIsVisible
    <3>6. Exits(snippet, mach)
      BY <2>2, <3>4, <3>5 DEF Exits
    <3>7. mach = Skipped(job)[Fuel]
      BY <3>3, <3>6, InjectFacts, PathEnd DEF Exits, Ended
    <3> QED BY <3>1, <3>4, <3>6, <3>7 DEF Harmless, EndsAlike, end
  <2>6. ASSUME Harmless(job), job + 1 + Steps(Skipped(job)) <= use.max
        PROVE  ~FaultDetected'
    <3> DEFINE last == Skipped(job)[Fuel]
    <3>1. /\ Exits(snippet, last) /\ Visible(last) = Visible(end)
          /\ Checksum(last) = Checksum(end)
      BY <2>6 DEF Harmless, EndsAlike, end
    <3>2. ~ts.limit
      <4> SUFFICES ASSUME ts.limit PROVE FALSE
        OBVIOUS
      <4>1. GoesOn(use.max - job + 1)
        BY <2>1 DEF InjectUntraced
      <4>2. job \in Nat /\ use.max \in Nat /\ job < use.max
        BY <1>6, InjectFacts, UseFacts
      <4>3. PICK n \in Nat : n = use.max - job + 1
        BY <4>2
      <4>4. Steps(Skipped(job)) >= n /\ Steps(Skipped(job)) \in 0 .. Fuel
        BY <2>6, <4>1, <4>3, NotLongEnough, StepsOfSkipped
      <4> QED BY <1>6, <2>6, <4>2, <4>3, <4>4
    <3>3. PICK i \in 0 .. Fuel : mach = Skipped(job)[i]
      BY <2>1, <3>2 DEF InjectUntraced
    <3>4. mach = last /\ ~mach.fault
      BY <2>4, <3>1, <3>2, <3>3 DEF Exits
    <3>5. inject.ucontext = Visible(end) /\ inject.checksum = Checksum(end)
      BY <2>1, <3>1, <3>2, <3>4 DEF InjectUntraced
    <3>6. result' = "ok"
      <4>1. RunOut(snippet, mach) = mach
        BY <3>1, <3>4, RunOutEnded DEF Exits, Ended
      <4>2. Outcome \in {"success", "mismatch"}
        BY <3>1, <3>4, <4>1 DEF Outcome
      <4> QED BY <1>3, <3>2, <4>2
    <3> QED BY <2>3, <3>5, <3>6
  <2>7. ReportIsReal(job, FaultDetected, hiccups > 0)'
    <3>1. /\ job' = job /\ use' = use
          /\ (Harmless(job)' <=> Harmless(job))
          /\ Steps(Skipped(job))' = Steps(Skipped(job))
      BY <1>2, FrameReport
    <3> QED BY <2>5, <2>6, <3>1 DEF ReportIsReal, LimitLeavesRoom
  <2>8. /\ job' < trace'.n /\ Accepted' /\ TraceWhole'
        /\ critical' \in Seq([detected : BOOLEAN, lost : BOOLEAN])
        /\ Len(critical') = IF at' = "end" THEN job' + 1 ELSE job'
    BY <1>2, InjectRest
  <2> QED BY <1>2, <2>7, <2>8 DEF InjectInv
<1> QED BY <1>4, <1>5, <1>7, <1>8 DEF AnalyzeInv

-----------------------------------------------------------------------------
(* The Unicorn tracer                                                        *)

\* The machine while it is emulated.
LEMMA EmulatedMachine ==
  ASSUME AnalyzeTypeOK, at \in {"emulated", "stopped"}
  PROVE  /\ mach \in Machines /\ snippet \in Snippets /\ use.type = "unicorn"
         /\ snippet.len \in Nat /\ MachineStep(snippet, mach) \in Machines
<1>1. mach \in Machines /\ snippet \in Snippets /\ use.type = "unicorn"
  BY DEF AnalyzeTypeOK
<1> QED BY <1>1, MachineStepFacts, SnippetFacts

\* The frame of a step from which the trace of a capture is as it was, and of any
\* step of a fault injection.
LEMMA EmulationFrame ==
  ASSUME use \in Uses, use.tool = "analyze", AnalyzeInv, at \in {"emulated", "stopped"},
         at' \in {"emulated", "stopped"},
         UNCHANGED <<use, snippet, trace, job, critical>>,
         mach' \in Machines, hiccups' \in Nat,
         ts' \in [state : {"kReady", "kPreTracing", "kTracing", "kFinished"},
                  count : Nat, stop : BOOLEAN, limit : BOOLEAN, err : BOOLEAN,
                  timeout : BOOLEAN],
         inject' \in [executed : Nat, ucontext : Registers, checksum : Nat],
         job = -1 /\ at' = "emulated" => CaptureEmulated',
         job = -1 /\ at' = "stopped" => CaptureStopped',
         job >= 0 /\ at' = "emulated" => IF ts'.stop THEN TooLong' ELSE InjectEmulated',
         job >= 0 /\ at' = "stopped" => IF ts'.stop THEN TooLong' ELSE InjectStopped'
  PROVE  AnalyzeInv'
<1>1. AnalyzeTypeOK /\ TraceInv /\ CaptureInv /\ InjectInv /\ ReportsReal
  BY DEF AnalyzeInv
<1>2. use.type = "unicorn" /\ mach' # OnItsWay
  BY <1>1, EmulatedMachine, MachinesAreNotOnItsWay
<1>3. AnalyzeTypeOK'
  BY <1>1, <1>2 DEF AnalyzeTypeOK
<1>4. TraceInv' /\ ReportsReal'
  BY <1>1, FrameTrace, FrameCritical
<1>5. CaptureInv'
  <2> SUFFICES ASSUME job = -1 PROVE CaptureInv'
    BY DEF CaptureInv
  <2>1. Accepted' /\ critical' = <<>>
    BY <1>1, Frame DEF CaptureInv
  <2> QED BY <2>1 DEF CaptureInv
<1>6. InjectInv'
  <2> SUFFICES ASSUME job >= 0 PROVE InjectInv'
    BY DEF InjectInv
  <2>1. /\ job' < trace'.n /\ Accepted' /\ TraceWhole'
        /\ critical' \in Seq([detected : BOOLEAN, lost : BOOLEAN])
        /\ Len(critical') = IF at' = "end" THEN job' + 1 ELSE job'
    BY InjectRest
  <2> QED BY <2>1 DEF InjectInv
<1> QED BY <1>3, <1>4, <1>5, <1>6 DEF AnalyzeInv

\* Where an emulation is that leaves out an instruction.
LEMMA EmulationInjects ==
  ASSUME use \in Uses, use.tool = "analyze", AnalyzeInv, at = "emulated", job >= 0, ~ts.stop
  PROVE  /\ InjectEmulated /\ ts.count \in Nat /\ ts.count <= use.max /\ ~ts.timeout
         /\ job \in Nat /\ job < use.max /\ use.max \in Nat /\ use.max <= Fuel /\ Fuel \in Nat
         /\ inject.executed \in Nat
         /\ BeforeSkip => /\ mach = Reference[ts.count] /\ ts.count \in 0 .. job
                          /\ ~Ended(snippet, mach) /\ IsInsideCode(snippet, mach.pc)
                          /\ Reference[ts.count + 1] = MachineStep(snippet, mach)
         /\ ~BeforeSkip =>
              /\ ts.count > job
              /\ inject.executed > job \/ Ended(snippet, mach)
              /\ \E i \in 0 .. Fuel :
                   /\ mach = Skipped(job)[i] /\ GoesOn(i)
                   /\ i = ts.count - job - 1 \/ (mach.fault /\ i = ts.count - job)
<1>1. InjectEmulated /\ ts.count \in Nat /\ inject.executed \in Nat /\ trace.n \in Nat
  BY DEF AnalyzeInv, InjectInv, AnalyzeTypeOK
<1>2. /\ job \in Nat /\ use.max \in Nat /\ use.max <= Fuel /\ Fuel \in Nat /\ job < use.max
      /\ \A c \in 0 .. job :
              /\ ~Reference[c].fault
              /\ IsInsideCode(snippet, Reference[c].pc)
              /\ ~Ended(snippet, Reference[c])
              /\ Reference[c + 1] = MachineStep(snippet, Reference[c])
  BY <1>1, InjectFacts, UseFacts, FuelIsNat
<1>3. ts.count <= use.max /\ ~ts.timeout
  BY <1>1 DEF InjectEmulated
<1>4. ASSUME BeforeSkip PROVE mach = Reference[ts.count] /\ ts.count \in 0 .. job
  BY <1>1, <1>2, <1>4 DEF InjectEmulated, BeforeSkip
<1>5. ASSUME ~BeforeSkip
      PROVE  /\ ts.count > job
             /\ inject.executed > job \/ Ended(snippet, mach)
             /\ \E i \in 0 .. Fuel :
                   /\ mach = Skipped(job)[i] /\ GoesOn(i)
                   /\ i = ts.count - job - 1 \/ (mach.fault /\ i = ts.count - job)
  BY <1>1, <1>5 DEF InjectEmulated
<1> QED BY <1>1, <1>2, <1>3, <1>4, <1>5

\* It has come to an end of the execution.
LEMMA EmulationEndsStep ==
  ASSUME use \in Uses, use.tool = "analyze", AnalyzeInv, EmulationEnds
  PROVE  AnalyzeInv'
<1>1. AnalyzeTypeOK /\ CaptureInv /\ InjectInv
  BY DEF AnalyzeInv
<1>2. /\ at = "emulated" /\ at' = "stopped" /\ Ended(snippet, mach)
      /\ ts' = [ts EXCEPT !.err = mach.fault]
      /\ UNCHANGED <<use, snippet, mach, trace, job, inject, critical, result, hiccups>>
  BY DEF EmulationEnds
<1>3. mach \in Machines /\ mach.fault \in BOOLEAN
  BY <1>1, <1>2, EmulatedMachine DEF Machines
<1>4. /\ ts' \in [state : {"kReady", "kPreTracing", "kTracing", "kFinished"},
                  count : Nat, stop : BOOLEAN, limit : BOOLEAN, err : BOOLEAN,
                  timeout : BOOLEAN]
      /\ ts'.err = mach.fault /\ ts'.count = ts.count /\ ts'.stop = ts.stop
      /\ ts'.timeout = ts.timeout
  BY <1>1, <1>2, <1>3 DEF AnalyzeTypeOK
<1>5. ASSUME job = -1 PROVE CaptureStopped'
  BY <1>1, <1>2, <1>4, <1>5, Frame DEF CaptureInv, CaptureEmulated, CaptureStopped
<1>6. ASSUME job >= 0, ts.stop PROVE TooLong'
  BY <1>1, <1>2, <1>4, <1>6, FrameGoesOn DEF InjectInv, TooLong
<1>7. ASSUME job >= 0, ~ts.stop PROVE InjectStopped'
  <2>1. ~BeforeSkip
    BY <1>2, <1>7, EmulationInjects
  <2>2. PICK i \in 0 .. Fuel : mach = Skipped(job)[i]
    BY <1>2, <1>7, <2>1, EmulationInjects
  <2>3. ts.count <= use.max /\ ~ts.timeout
    BY <1>2, <1>7, EmulationInjects
  <2>4. Skipped(job)' = Skipped(job) /\ (Ended(snippet, mach)' <=> Ended(snippet, mach))
    BY <1>2, Frame DEF Skipped, Ended
  <2>5. \E j \in 0 .. Fuel : mach' = Skipped(job)'[j]
    BY <1>2, <2>2, <2>4
  <2> QED BY <1>2, <1>4, <2>3, <2>4, <2>5 DEF InjectStopped
<1>8. hiccups' \in Nat /\ mach' \in Machines
      /\ inject' \in [executed : Nat, ucontext : Registers, checksum : Nat]
  BY <1>1, <1>2, <1>3 DEF AnalyzeTypeOK
<1> QED BY <1>2, <1>4, <1>5, <1>6, <1>7, <1>8, EmulationFrame

\* A hiccup.
LEMMA TimeoutStep ==
  ASSUME use \in Uses, use.tool = "analyze", AnalyzeInv, Timeout
  PROVE  AnalyzeInv'
<1>1. AnalyzeTypeOK /\ CaptureInv /\ InjectInv
  BY DEF AnalyzeInv
<1>2. /\ at = "emulated" /\ at' = "stopped"
      /\ ts' = [ts EXCEPT !.timeout = TRUE]
      /\ hiccups' = hiccups + 1 /\ hiccups \in Nat
      /\ UNCHANGED <<use, snippet, mach, trace, job, inject, critical, result>>
  BY <1>1 DEF Timeout, Hiccup, AnalyzeTypeOK
<1>3. mach \in Machines
  BY <1>1, <1>2, EmulatedMachine
<1>4. /\ ts' \in [state : {"kReady", "kPreTracing", "kTracing", "kFinished"},
                  count : Nat, stop : BOOLEAN, limit : BOOLEAN, err : BOOLEAN,
                  timeout : BOOLEAN]
      /\ ts'.count = ts.count /\ ts'.stop = ts.stop /\ ts'.timeout
  BY <1>1, <1>2 DEF AnalyzeTypeOK
<1>5. ASSUME job = -1 PROVE CaptureStopped'
  BY <1>1, <1>2, <1>4, <1>5, Frame DEF CaptureInv, CaptureEmulated, CaptureStopped
<1>6. ASSUME job >= 0, ts.stop PROVE TooLong'
  BY <1>1, <1>2, <1>4, <1>6, FrameGoesOn DEF InjectInv, TooLong
<1>7. InjectStopped'
  BY <1>2, <1>4 DEF InjectStopped
<1>8. hiccups' \in Nat /\ mach' \in Machines
      /\ inject' \in [executed : Nat, ucontext : Registers, checksum : Nat]
  BY <1>1, <1>2, <1>3 DEF AnalyzeTypeOK
<1> QED BY <1>2, <1>4, <1>5, <1>6, <1>7, <1>8, EmulationFrame

\* One state further along the execution without instruction job.
LEMMA SkippedGoesOn ==
  ASSUME use \in Uses, AnalyzeInv, job >= 0, NEW i \in 0 .. (Fuel - 1),
         mach = Skipped(job)[i], GoesOn(i), ~Ended(snippet, mach)
  PROVE  /\ i + 1 \in 0 .. Fuel /\ GoesOn(i + 1)
         /\ Skipped(job)[i + 1] = MachineStep(snippet, mach)
<1>1. i + 1 \in 0 .. Fuel
  BY FuelIsNat
<1>2. \A k \in 0 .. (i + 1) - 1 : k \in 0 .. i - 1 \/ k = i
  BY FuelIsNat
<1>3. GoesOn(i + 1)
  BY <1>2 DEF GoesOn
<1> QED BY <1>1, <1>3, InjectFacts

\* A fetch outside of the code is a step of the machine.
LEMMA FetchFailsStep ==
  ASSUME use \in Uses, use.tool = "analyze", AnalyzeInv, FetchFails
  PROVE  AnalyzeInv'
<1>1. AnalyzeTypeOK /\ CaptureInv /\ InjectInv
  BY DEF AnalyzeInv
<1>2. /\ at = "emulated" /\ at' = "emulated" /\ ~Ended(snippet, mach)
      /\ ~IsInsideCode(snippet, mach.pc) /\ mach' = [mach EXCEPT !.fault = TRUE]
      /\ UNCHANGED <<use, snippet, ts, trace, job, inject, critical, result, hiccups>>
  BY DEF FetchFails
<1>3. mach \in Machines /\ snippet \in Snippets /\ MachineStep(snippet, mach) \in Machines
  BY <1>1, <1>2, EmulatedMachine
<1>4. mach' = MachineStep(snippet, mach) /\ mach'.fault /\ mach' \in Machines
  BY <1>2, <1>3, MachineStepFacts
<1>5. ASSUME job = -1 PROVE CaptureEmulated'
  BY <1>1, <1>2, <1>4, <1>5 DEF CaptureInv, CaptureEmulated
<1>6. ASSUME job >= 0, ts.stop PROVE TooLong'
  BY <1>1, <1>2, <1>6, FrameGoesOn DEF InjectInv, TooLong
<1>7. ASSUME job >= 0, ~ts.stop PROVE InjectEmulated'
  <2>1. ~BeforeSkip
    BY <1>2, <1>7, EmulationInjects
  <2>2. PICK i \in 0 .. Fuel : /\ mach = Skipped(job)[i] /\ GoesOn(i)
                               /\ i = ts.count - job - 1 \/ (mach.fault /\ i = ts.count - job)
    BY <1>2, <1>7, <2>1, EmulationInjects
  <2>3. /\ ts.count <= use.max /\ ~ts.timeout /\ ts.count > job /\ job \in Nat
        /\ ts.count \in Nat /\ use.max \in Nat /\ use.max <= Fuel /\ Fuel \in Nat
    BY <1>2, <1>7, <2>1, EmulationInjects
  <2>4. i = ts.count - job - 1 /\ i \in 0 .. (Fuel - 1) /\ i + 1 = ts.count - job
    <3>1. ~mach.fault
      BY <1>2 DEF Ended
    <3> QED BY <2>2, <2>3, <3>1
  <2>5. i + 1 \in 0 .. Fuel /\ GoesOn(i + 1) /\ mach' = Skipped(job)[i + 1]
    BY <1>2, <1>4, <1>7, <2>2, <2>4, SkippedGoesOn
  <2>6. GoesOn(i + 1)' /\ mach' = Skipped(job)'[i + 1]
    BY <1>2, <2>5, Frame, FrameGoesOn DEF Skipped
  <2>7. Ended(snippet, mach)'
    BY <1>4 DEF Ended
  <2>8. \E j \in 0 .. Fuel :
             /\ mach' = Skipped(job)'[j] /\ GoesOn(j)'
             /\ j = ts'.count - job' - 1 \/ (mach'.fault /\ j = ts'.count - job')
    BY <1>2, <1>4, <2>4, <2>5, <2>6
  <2> QED BY <1>2, <2>3, <2>7, <2>8 DEF InjectEmulated
<1>8. hiccups' \in Nat
      /\ inject' \in [executed : Nat, ucontext : Registers, checksum : Nat]
      /\ ts' \in [state : {"kReady", "kPreTracing", "kTracing", "kFinished"},
                  count : Nat, stop : BOOLEAN, limit : BOOLEAN, err : BOOLEAN,
                  timeout : BOOLEAN]
  BY <1>1, <1>2 DEF AnalyzeTypeOK
<1> QED BY <1>2, <1>4, <1>5, <1>6, <1>7, <1>8, EmulationFrame

\* Stopped at the limit: too long, or out of bounds.
LEMMA HookStopsStep ==
  ASSUME use \in Uses, use.tool = "analyze", AnalyzeInv, HookStops
  PROVE  AnalyzeInv'
<1>1. AnalyzeTypeOK /\ CaptureInv /\ InjectInv
  BY DEF AnalyzeInv
<1>2. /\ at = "emulated" /\ ~Ended(snippet, mach)
      /\ ts.count >= use.max \/ ts.stop
      /\ ts' = [ts EXCEPT !.stop = TRUE, !.count = IF @ > use.max THEN @ ELSE @ + 1]
      /\ \/ at' = "stopped" /\ mach' = mach /\ hiccups' = hiccups
         \/ at' = "emulated" /\ mach' = MachineStep(snippet, mach) /\ hiccups' = hiccups + 1
      /\ UNCHANGED <<use, snippet, trace, job, inject, critical, result>>
  BY DEF HookStops, Hiccup
<1>3. mach' \in Machines
  BY <1>1, <1>2, EmulatedMachine
<1>4. /\ ts' \in [state : {"kReady", "kPreTracing", "kTracing", "kFinished"},
                  count : Nat, stop : BOOLEAN, limit : BOOLEAN, err : BOOLEAN,
                  timeout : BOOLEAN]
      /\ ts'.stop /\ ts'.count = IF ts.count > use.max THEN ts.count ELSE ts.count + 1
  <2> DEFINE c == IF ts.count > use.max THEN ts.count ELSE ts.count + 1
  <2>1. c \in Nat /\ ts \in [state : {"kReady", "kPreTracing", "kTracing", "kFinished"},
                             count : Nat, stop : BOOLEAN, limit : BOOLEAN, err : BOOLEAN,
                             timeout : BOOLEAN]
    BY <1>1 DEF AnalyzeTypeOK
  <2>2. ts' = [ts EXCEPT !.stop = TRUE, !.count = c]
    BY <1>2
  <2> HIDE DEF c
  <2>3. ts'.stop /\ ts'.count = c
    BY <2>1, <2>2
  <2>4. ts' \in [state : {"kReady", "kPreTracing", "kTracing", "kFinished"},
                  count : Nat, stop : BOOLEAN, limit : BOOLEAN, err : BOOLEAN,
                  timeout : BOOLEAN]
    BY <2>1, <2>2
  <2> QED BY <2>3, <2>4 DEF c
<1>5. ts.count \in Nat /\ use.max \in Nat /\ hiccups \in Nat
      /\ inject' \in [executed : Nat, ucontext : Registers, checksum : Nat]
  BY <1>1, <1>2, UseFacts DEF AnalyzeTypeOK
<1>6. ASSUME job = -1 PROVE CaptureEmulated' /\ CaptureStopped'
  <2>1. trace.out_of_bounds \/ ts'.count > use.max
    <3>1. ts.stop => trace.out_of_bounds \/ ts.count > use.max
      BY <1>1, <1>2, <1>6 DEF CaptureInv, CaptureEmulated
    <3> QED BY <1>2, <1>4, <1>5, <3>1
  <2> QED BY <1>2, <1>4, <2>1 DEF CaptureEmulated, CaptureStopped
<1>7. ASSUME job >= 0 PROVE TooLong'
  <2>1. CASE ts.stop
    <3>1. TooLong
      BY <1>1, <1>2, <1>7, <2>1 DEF InjectInv
    <3> QED BY <1>2, <1>4, <1>5, <3>1, FrameGoesOn DEF TooLong
  <2>2. CASE ~ts.stop
    <3>1. /\ job \in Nat /\ job < use.max /\ use.max <= Fuel /\ Fuel \in Nat
          /\ ts.count = use.max
      BY <1>2, <1>5, <1>7, <2>2, EmulationInjects
    <3>2. ~BeforeSkip
      BY <3>1, <1>5 DEF BeforeSkip
    <3>3. PICK i \in 0 .. Fuel : /\ mach = Skipped(job)[i] /\ GoesOn(i)
                                 /\ i = ts.count - job - 1 \/ (mach.fault /\ i = ts.count - job)
      BY <1>2, <1>7, <2>2, <3>2, EmulationInjects
    <3>4. i \in 0 .. (Fuel - 1) /\ i + 1 = use.max - job
      <4>1. ~mach.fault
        BY <1>2 DEF Ended
      <4> QED BY <1>5, <3>1, <3>3, <4>1
    <3>5. GoesOn(i + 1)
      BY <1>2, <1>7, <3>3, <3>4, SkippedGoesOn
    <3>6. GoesOn(i + 1)' /\ use'.max - job' = i + 1
      BY <1>2, <3>4, <3>5, FrameGoesOn
    <3>7. ts'.count > use'.max
      BY <1>2, <1>4, <1>5, <3>1
    <3> QED BY <3>6, <3>7 DEF TooLong
  <2> QED BY <2>1, <2>2
<1>8. at' \in {"emulated", "stopped"} /\ hiccups' \in Nat
  BY <1>2, <1>5
<1> QED BY <1>2, <1>3, <1>4, <1>5, <1>6, <1>7, <1>8, EmulationFrame

\* The status and the end state tell whether it mattered.
LEMMA UnicornReturnsStep ==
  ASSUME use \in Uses, use.tool = "analyze", AnalyzeInv, UnicornReturns
  PROVE  AnalyzeInv'
<1>1. AnalyzeTypeOK /\ TraceInv /\ CaptureInv /\ InjectInv /\ ReportsReal
  BY DEF AnalyzeInv
<1> DEFINE regs == GetRegisters(mach)
<1>2. /\ at = "stopped" /\ at' = "returned" /\ result' = UnicornStatus
      /\ trace' = TraceAfter(trace, regs, mach)
      /\ inject' = InjectAfter(inject, regs, mach)
      /\ UNCHANGED <<use, snippet, mach, ts, job, critical, hiccups>>
  BY DEF UnicornReturns
<1>3. /\ mach \in Machines /\ regs \in Registers /\ Checksum(mach) \in Nat
      /\ regs = Visible(mach) /\ snippet \in Snippets
  BY <1>1, <1>2, EmulatedMachine, RegistersOf, ChecksumIsNat DEF Visible
<1>4. /\ result' = "ok" <=> /\ ~ts.err /\ ~(ts.count > use.max) /\ ~ts.timeout
                            /\ mach.pc = snippet.len /\ (use.arch = "aarch64" => mach.sp = 0)
  BY <1>2 DEF UnicornStatus, ValidateArchEndState
<1> HIDE DEF regs
<1>5. CASE job = -1
  <2>1. Capturing /\ ~Injecting
    BY <1>1, <1>5, Jobs
  <2>2. trace' = CaptureAfter(trace, regs, mach) /\ inject' = inject
    BY <1>2, <2>1 DEF TraceAfter, InjectAfter
  <2>3. trace \in Traces /\ Len(trace.contexts) = trace.n + 1 /\ trace.n \in Nat
        /\ Len(trace.addresses) = trace.n
    BY <1>1 DEF AnalyzeTypeOK, Traces
  <2>4. /\ trace' \in Traces /\ trace'.n = trace.n /\ trace'.died = trace.died
        /\ trace'.addresses = trace.addresses
        /\ trace'.out_of_bounds = trace.out_of_bounds /\ Len(trace'.contexts) = trace.n + 1
        /\ \A i \in 1 .. trace.n : trace'.contexts[i] = trace.contexts[i]
        /\ trace'.contexts[trace.n + 1] = regs /\ trace'.checksum = Checksum(mach)
    BY <1>3, <2>2, <2>3, CaptureAfterFacts
  <2>5. AnalyzeTypeOK'
    BY <1>1, <1>2, <2>2, <2>3, <2>4 DEF AnalyzeTypeOK, Traces
  <2>6. TraceInv'
    BY <1>1, <1>2, <2>3, <2>4, TraceKept
  <2>7. Accepted /\ CaptureStopped /\ critical = <<>>
    BY <1>1, <1>2, <1>5 DEF CaptureInv
  <2>8. ASSUME result' = "ok", ~trace'.out_of_bounds PROVE TraceWhole'
    <3>1. ~ts.stop /\ ~mach.fault /\ mach = Reference[trace.n]
      BY <1>4, <2>4, <2>7, <2>8 DEF CaptureStopped
    <3>2. Exits(snippet, mach)
      BY <1>4, <2>8, <3>1 DEF Exits
    <3>3. Exits(snippet, mach)' /\ Visible(mach)' = Visible(mach) /\ Reference' = Reference
      BY <1>2, <3>2, Frame DEF Exits
    <3> QED BY <1>2, <1>3, <2>4, <2>8, <3>1, <3>3 DEF TraceWhole
  <2>9. CaptureInv'
    <3>1. Accepted'
      BY <1>2, <2>7, Frame
    <3> QED BY <1>2, <2>7, <2>8, <3>1 DEF CaptureInv
  <2>10. ReportsReal' /\ InjectInv'
    BY <1>2, <1>5, <2>7, NoReport DEF InjectInv
  <2> QED BY <2>5, <2>6, <2>9, <2>10 DEF AnalyzeInv
<1>6. CASE job >= 0
  <2>1. Injecting /\ ~Capturing /\ job \in Nat
    BY <1>1, <1>6, Jobs
  <2>2. trace' = trace /\ inject' = [inject EXCEPT !.ucontext = regs, !.checksum = Checksum(mach)]
    BY <1>2, <2>1 DEF TraceAfter, InjectAfter
  <2>3. /\ inject' \in [executed : Nat, ucontext : Registers, checksum : Nat]
        /\ inject'.ucontext = Visible(mach) /\ inject'.checksum = Checksum(mach)
    BY <1>1, <1>3, <2>2 DEF AnalyzeTypeOK
  <2>4. AnalyzeTypeOK'
    BY <1>1, <1>2, <2>2, <2>3 DEF AnalyzeTypeOK
  <2>5. TraceInv' /\ ReportsReal'
    BY <1>1, <1>2, <2>2, FrameTrace, FrameCritical
  <2>6. CaptureInv'
    BY <1>2, <1>6 DEF CaptureInv
  <2> DEFINE end == Reference[trace.n]
  <2>7. FaultDetected' <=> \/ result' # "ok" \/ Visible(mach) # Visible(end)
                           \/ Checksum(mach) # Checksum(end)
    <3>1. trace.contexts[trace.n + 1] = Visible(end) /\ trace.checksum = Checksum(end)
      BY <1>1, <1>6 DEF InjectInv, TraceWhole
    <3> QED BY <2>2, <2>3, <3>1 DEF FaultDetected
  <2> HIDE DEF end
  <2>8. ReportIsReal(job, FaultDetected, hiccups > 0)'
    <3>1. /\ job' = job /\ use' = use /\ hiccups' = hiccups
          /\ (Harmless(job)' <=> Harmless(job))
          /\ Steps(Skipped(job))' = Steps(Skipped(job))
      BY <1>2, <2>2, FrameReport
    <3>2. CASE ts.stop
      <4>1. TooLong
        BY <1>1, <1>2, <1>6, <3>2 DEF InjectInv
      <4>2. FaultDetected'
        BY <1>4, <2>7, <4>1 DEF TooLong
      <4>3. job \in Nat /\ use.max \in Nat /\ job < use.max /\ Fuel \in Nat
        <5>1. trace.n \in Nat
          BY <1>1 DEF AnalyzeTypeOK
        <5> QED BY <1>6, <5>1, InjectFacts, UseFacts, FuelIsNat
      <4>4. PICK n \in Nat : n = use.max - job
        BY <4>3
      <4>5. Harmless(job) => Steps(Skipped(job)) >= n /\ Steps(Skipped(job)) \in 0 .. Fuel
        BY <1>6, <4>1, <4>4, NotLongEnough, StepsOfSkipped DEF TooLong
      <4>6. ~(Harmless(job) /\ job + 1 + Steps(Skipped(job)) <= use.max)
        BY <4>3, <4>4, <4>5
      <4> QED BY <3>1, <4>2, <4>6 DEF ReportIsReal, LimitLeavesRoom
    <3>3. CASE ~ts.stop /\ ts.timeout
      <4>1. InjectStopped
        BY <1>1, <1>2, <1>6, <3>3 DEF InjectInv
      <4>2. FaultDetected' /\ hiccups' > 0
        BY <1>2, <1>4, <2>7, <3>3, <4>1 DEF InjectStopped
      <4> QED BY <4>2 DEF ReportIsReal, LimitLeavesRoom
    <3>4. CASE ~ts.stop /\ ~ts.timeout
      <4>1. InjectStopped
        BY <1>1, <1>2, <1>6, <3>4 DEF InjectInv
      <4>2. /\ (ts.err <=> mach.fault) /\ ts.count <= use.max /\ Ended(snippet, mach)
            /\ \E i \in 0 .. Fuel : mach = Skipped(job)[i]
        BY <3>4, <4>1 DEF InjectStopped
      <4>3. mach = Skipped(job)[Fuel]
        BY <1>6, <4>2, InjectFacts, PathEnd
      <4>4. result' = "ok" <=> Exits(snippet, mach)
        <5>1. ts.count \in Nat /\ use.max \in Nat
          BY <1>1, UseFacts DEF AnalyzeTypeOK
        <5> QED BY <1>4, <3>4, <4>2, <5>1 DEF Exits
      <4>5. FaultDetected' <=> ~Harmless(job)
        BY <2>7, <4>3, <4>4 DEF Harmless, EndsAlike, end
      <4> QED BY <3>1, <4>5 DEF ReportIsReal, LimitLeavesRoom
    <3> QED BY <3>2, <3>3, <3>4
  <2>9. InjectInv'
    <3>1. /\ job' < trace'.n /\ Accepted' /\ TraceWhole'
          /\ critical' \in Seq([detected : BOOLEAN, lost : BOOLEAN])
          /\ Len(critical') = IF at' = "end" THEN job' + 1 ELSE job'
      BY <1>2, <1>6, <2>2, InjectRest
    <3> QED BY <1>2, <2>8, <3>1 DEF InjectInv
  <2> QED BY <2>4, <2>5, <2>6, <2>9 DEF AnalyzeInv
<1> QED BY <1>1, <1>5, <1>6, Jobs

\* As under the native tracer ...
LEMMA HookCodeCaptures ==
  ASSUME use \in Uses, use.tool = "analyze", AnalyzeInv, HookCode, job = -1
  PROVE  AnalyzeInv'
<1>1. AnalyzeTypeOK /\ TraceInv /\ CaptureInv
  BY DEF AnalyzeInv
<1> DEFINE in == InstructionIsInRange(snippet, mach.pc)
<1>2. Capturing /\ ~Injecting
  BY <1>1, Jobs
<1>3. ~Skips
  <2>1. inject.executed \in Nat
    BY <1>1 DEF AnalyzeTypeOK
  <2> QED BY <2>1 DEF Skips
<1>4. /\ at = "emulated" /\ ~Ended(snippet, mach) /\ IsInsideCode(snippet, mach.pc)
      /\ ts.count < use.max /\ ~ts.stop
      /\ UNCHANGED <<use, snippet, job, critical, result>>
      /\ trace' = CaptureBefore(trace, mach) /\ inject' = inject
  BY <1>2 DEF HookCode, BeforeInstruction
<1>5. StopAsked(mach) = ~in
  BY <1>2 DEF StopAsked
<1> HIDE DEF in
<1>6. /\ ts' = [ts EXCEPT !.count = @ + 1, !.stop = ~in]
      /\ ~in => \/ at' = "stopped" /\ mach' = mach /\ hiccups' = hiccups
                \/ at' = "emulated" /\ mach' = MachineStep(snippet, mach)
                   /\ hiccups' = hiccups + 1
      /\ in => at' = "emulated" /\ mach' = MachineStep(snippet, mach) /\ hiccups' = hiccups
  BY <1>3, <1>4, <1>5 DEF HookCode, Hiccup
<1>7. /\ mach \in Machines /\ MachineStep(snippet, mach) \in Machines /\ snippet \in Snippets
      /\ ~mach.fault /\ use.type = "unicorn"
  BY <1>1, <1>4, EmulatedMachine DEF Ended
<1>8. /\ trace.n \in Nat /\ ts.count = trace.n /\ mach = Reference[trace.n]
      /\ ~trace.out_of_bounds /\ use.max \in Nat /\ use.max <= Fuel /\ Fuel \in Nat
      /\ ts.count \in Nat /\ hiccups \in Nat /\ Accepted /\ critical = <<>>
  BY <1>1, <1>4, <1>7, UseFacts, FuelIsNat DEF CaptureInv, CaptureEmulated, AnalyzeTypeOK
<1>9. /\ trace' \in Traces /\ trace'.n = trace.n + 1 /\ trace'.died = trace.died
      /\ Len(trace'.contexts) = trace'.n + 1 /\ Len(trace'.addresses) = trace'.n
      /\ \A i \in 1 .. trace.n : /\ trace'.contexts[i] = trace.contexts[i]
                                 /\ trace'.addresses[i] = trace.addresses[i]
      /\ trace'.contexts[trace.n + 1] = GetRegisters(mach)
      /\ trace'.addresses[trace.n + 1] = mach.pc
      /\ trace'.out_of_bounds <=> trace.out_of_bounds \/ ~InstructionIsInRange(snippet, mach.pc)
  <2>1. /\ trace.n < use.max /\ mach \in Machines /\ AnalyzeTypeOK
        /\ trace' = CaptureBefore(trace, mach)
    BY <1>1, <1>4, <1>7, <1>8
  <2> QED BY <2>1, CaptureBeforeFacts, SMTT(30)
<1>10. TraceInv'
  BY <1>1, <1>4, <1>7, <1>8, <1>9, TraceGrows
<1>11. /\ ts' \in [state : {"kReady", "kPreTracing", "kTracing", "kFinished"},
                   count : Nat, stop : BOOLEAN, limit : BOOLEAN, err : BOOLEAN,
                   timeout : BOOLEAN]
       /\ ts'.count = ts.count + 1 /\ (ts'.stop <=> ~in)
  <2> DEFINE b == ~in
  <2>1. b \in BOOLEAN /\ ts.count + 1 \in Nat
        /\ ts \in [state : {"kReady", "kPreTracing", "kTracing", "kFinished"},
                   count : Nat, stop : BOOLEAN, limit : BOOLEAN, err : BOOLEAN,
                   timeout : BOOLEAN]
    BY <1>1, <1>8 DEF AnalyzeTypeOK
  <2>2. ts' = [ts EXCEPT !.count = ts.count + 1, !.stop = b]
    BY <1>6
  <2> HIDE DEF b
  <2>3. ts' \in [state : {"kReady", "kPreTracing", "kTracing", "kFinished"},
                   count : Nat, stop : BOOLEAN, limit : BOOLEAN, err : BOOLEAN,
                   timeout : BOOLEAN]
        /\ ts'.count = ts.count + 1 /\ ts'.stop = b
    BY <2>1, <2>2
  <2> QED BY <2>3 DEF b
<1>12. mach' \in Machines /\ mach' # OnItsWay /\ hiccups' \in Nat
       /\ at' \in {"emulated", "stopped"}
  BY <1>6, <1>7, <1>8, MachinesAreNotOnItsWay
<1>13. AnalyzeTypeOK'
  BY <1>1, <1>4, <1>7, <1>9, <1>11, <1>12 DEF AnalyzeTypeOK, Traces
<1>14. CaptureInv'
  <2>1. Accepted' /\ Reference' = Reference
    BY <1>4, <1>8, Frame
  <2>2. CASE in
    <3>1. mach' = Reference[trace.n + 1]
      <4>1. trace.n \in 0 .. (Fuel - 1)
        BY <1>4, <1>8
      <4> QED BY <1>4, <1>6, <1>7, <1>8, <2>2, <4>1, ReferenceFacts
    <3>2. ~trace'.out_of_bounds
      BY <1>8, <1>9, <2>2 DEF in
    <3>3. CaptureEmulated'
      BY <1>8, <1>9, <1>11, <2>1, <2>2, <3>1, <3>2 DEF CaptureEmulated
    <3> QED BY <1>4, <1>6, <1>8, <2>1, <2>2, <3>3 DEF CaptureInv
  <2>3. CASE ~in
    <3>1. trace'.out_of_bounds
      BY <1>9, <2>3 DEF in
    <3>2. CaptureEmulated' /\ CaptureStopped'
      BY <1>11, <2>3, <3>1 DEF CaptureEmulated, CaptureStopped
    <3> QED BY <1>4, <1>8, <1>12, <2>1, <3>2 DEF CaptureInv
  <2> QED BY <2>2, <2>3
<1>15. InjectInv' /\ ReportsReal'
  BY <1>4, <1>8, NoReport DEF InjectInv
<1> QED BY <1>10, <1>13, <1>14, <1>15 DEF AnalyzeInv

\* ... but for one more callback, after the skip.
LEMMA HookCodeInjects ==
  ASSUME use \in Uses, use.tool = "analyze", AnalyzeInv, HookCode, job >= 0
  PROVE  AnalyzeInv'
<1>1. AnalyzeTypeOK /\ InjectInv
  BY DEF AnalyzeInv
<1>2. Injecting /\ ~Capturing /\ job \in Nat /\ job # -1
  BY <1>1, Jobs
<1> DEFINE ip == SkipTo(mach)
           e == IF IsInsideCode(snippet, ip) THEN inject.executed + 1 ELSE inject.executed
<1>3. StopAsked(mach) = FALSE
  BY <1>2 DEF StopAsked
<1>4. /\ at = "emulated" /\ at' = "emulated" /\ ~Ended(snippet, mach)
      /\ IsInsideCode(snippet, mach.pc) /\ ts.count < use.max /\ ~ts.stop
      /\ UNCHANGED <<use, snippet, trace, job, critical, result, hiccups>>
      /\ ts' = [ts EXCEPT !.count = @ + 1, !.stop = FALSE]
      /\ mach' = IF Skips THEN [mach EXCEPT !.pc = ip] ELSE MachineStep(snippet, mach)
      /\ inject' = [inject EXCEPT !.executed = e]
  BY <1>2, <1>3 DEF HookCode, BeforeInstruction, SkipBefore
<1> HIDE DEF ip, e
<1>5. /\ InjectEmulated /\ ts.count \in Nat /\ inject.executed \in Nat /\ ~ts.timeout
      /\ use.max \in Nat /\ use.max <= Fuel /\ Fuel \in Nat
  BY <1>4, EmulationInjects
<1>6. /\ mach \in Machines /\ MachineStep(snippet, mach) \in Machines /\ snippet \in Snippets
      /\ ~mach.fault
  BY <1>1, <1>4, EmulatedMachine DEF Ended
<1>7. /\ ts' \in [state : {"kReady", "kPreTracing", "kTracing", "kFinished"},
                  count : Nat, stop : BOOLEAN, limit : BOOLEAN, err : BOOLEAN,
                  timeout : BOOLEAN]
      /\ ts'.count = ts.count + 1 /\ ~ts'.stop /\ ~ts'.timeout
  <2>1. ts.count + 1 \in Nat
        /\ ts \in [state : {"kReady", "kPreTracing", "kTracing", "kFinished"},
                   count : Nat, stop : BOOLEAN, limit : BOOLEAN, err : BOOLEAN,
                   timeout : BOOLEAN]
    BY <1>1, <1>5 DEF AnalyzeTypeOK
  <2>2. ts' = [ts EXCEPT !.count = ts.count + 1, !.stop = FALSE]
    BY <1>4
  <2> QED BY <1>5, <2>1, <2>2
<1>8. /\ inject' \in [executed : Nat, ucontext : Registers, checksum : Nat]
      /\ inject'.executed = e
  <2>1. e \in Nat
    BY <1>5 DEF e
  <2> QED BY <1>1, <1>4, <2>1 DEF AnalyzeTypeOK
<1>9. ts'.count <= use'.max
  BY <1>4, <1>5, <1>7
<1>10. ASSUME mach' \in Machines, InjectEmulated' PROVE AnalyzeInv'
  <2>1. hiccups' \in Nat
    BY <1>1, <1>4 DEF AnalyzeTypeOK
  <2> QED BY <1>2, <1>4, <1>7, <1>8, <1>10, <2>1, EmulationFrame
<1>11. /\ Reference' = Reference /\ Skipped(job)' = Skipped(job)
       /\ \A n : GoesOn(n)' <=> GoesOn(n)
  BY <1>4, Frame, FrameGoesOn DEF Skipped
<1>12. CASE BeforeSkip /\ ts.count # job
  <2>1. ts.count < job /\ inject.executed = ts.count
    BY <1>2, <1>5, <1>12 DEF BeforeSkip
  <2>2. ~Skips /\ ip = mach.pc /\ e = inject.executed + 1
    BY <1>2, <1>4, <1>12, <2>1 DEF ip, e, SkipTo, Skips
  <2>3. mach' = Reference[ts.count + 1] /\ mach' \in Machines
    BY <1>4, <1>6, <1>12, <2>2, EmulationInjects
  <2>4. BeforeSkip'
    BY <1>2, <1>4, <1>5, <1>7, <1>8, <2>1, <2>2 DEF BeforeSkip
  <2>5. InjectEmulated'
    BY <1>7, <1>9, <1>11, <2>3, <2>4 DEF InjectEmulated
  <2> QED BY <1>10, <2>3, <2>5
<1>13. CASE BeforeSkip /\ ts.count = job
  <2>1. mach = Reference[job] /\ inject.executed = job
    BY <1>4, <1>13, EmulationInjects DEF BeforeSkip
  <2>2. /\ Leaving \in Machines /\ Skipped(job)[0] = Leaving /\ Leaving.pc <= snippet.len
        /\ Leaving.pc = mach.pc + InstructionSize(snippet.code[mach.pc])
    BY <2>1, InjectFacts
  <2>3. ip = Leaving.pc /\ mach' = Leaving
    <3>1. Skips /\ ip = mach.pc + InstructionSize(snippet.code[mach.pc])
      BY <2>1 DEF ip, SkipTo, Skips
    <3> QED BY <1>4, <2>1, <2>2, <3>1 DEF Leaving
  <2>4. inject'.executed > job \/ Ended(snippet, Leaving)
    <3>1. CASE IsInsideCode(snippet, ip)
      BY <1>2, <1>8, <2>1, <3>1 DEF e
    <3>2. CASE ~IsInsideCode(snippet, ip)
      <4>1. Leaving.pc \in Nat /\ snippet.len \in Nat
        BY <1>6, <2>2, SnippetFacts DEF Machines
      <4> QED BY <2>2, <2>3, <3>2, <4>1 DEF IsInsideCode, Ended
    <3> QED BY <3>1, <3>2
  <2>5. GoesOn(0)
    <3>1. \A k \in 0 .. 0 - 1 : FALSE
      OBVIOUS
    <3> QED BY <3>1 DEF GoesOn
  <2>6. InjectEmulated'
    <3>1. ts'.count > job' /\ ts'.count - job' - 1 = 0 /\ 0 \in 0 .. Fuel
      BY <1>2, <1>4, <1>5, <1>7, <1>13
    <3>2. inject'.executed > job' \/ Ended(snippet, mach)'
      BY <1>4, <2>3, <2>4 DEF Ended
    <3>3. mach' = Skipped(job)'[0] /\ GoesOn(0)'
      BY <1>11, <2>2, <2>3, <2>5
    <3>4. \E i \in 0 .. Fuel :
             /\ mach' = Skipped(job)'[i] /\ GoesOn(i)'
             /\ i = ts'.count - job' - 1 \/ (mach'.fault /\ i = ts'.count - job')
      BY <3>1, <3>3
    <3> QED BY <1>7, <1>9, <3>1, <3>2, <3>4 DEF InjectEmulated
  <2> QED BY <1>10, <2>2, <2>3, <2>6
<1>14. CASE ~BeforeSkip
  <2>1. /\ ts.count > job /\ inject.executed > job
        /\ \E i \in 0 .. Fuel :
             /\ mach = Skipped(job)[i] /\ GoesOn(i)
             /\ i = ts.count - job - 1 \/ (mach.fault /\ i = ts.count - job)
    BY <1>4, <1>14, EmulationInjects
  <2>2. PICK i \in 0 .. Fuel : mach = Skipped(job)[i] /\ GoesOn(i) /\ i = ts.count - job - 1
    BY <1>6, <2>1
  <2>3. i \in 0 .. (Fuel - 1) /\ i + 1 = (ts.count + 1) - job - 1
    BY <1>2, <1>4, <1>5, <2>1, <2>2
  <2>4. ~Skips /\ ip = mach.pc /\ e = inject.executed + 1
    <3>1. inject.executed # job
      BY <1>2, <1>5, <2>1
    <3> QED BY <1>4, <3>1 DEF ip, e, SkipTo, Skips
  <2>5. i + 1 \in 0 .. Fuel /\ GoesOn(i + 1) /\ mach' = Skipped(job)[i + 1] /\ mach' \in Machines
    BY <1>4, <1>6, <2>2, <2>3, <2>4, SkippedGoesOn
  <2>6. InjectEmulated'
    <3>1. ts'.count > job' /\ i + 1 = ts'.count - job' - 1
      BY <1>2, <1>4, <1>5, <1>7, <2>1, <2>3
    <3>2. inject'.executed > job'
      BY <1>2, <1>4, <1>5, <1>8, <2>1, <2>4
    <3>3. mach' = Skipped(job)'[i + 1] /\ GoesOn(i + 1)'
      BY <1>11, <2>5
    <3>4. \E j \in 0 .. Fuel :
             /\ mach' = Skipped(job)'[j] /\ GoesOn(j)'
             /\ j = ts'.count - job' - 1 \/ (mach'.fault /\ j = ts'.count - job')
      BY <2>5, <3>1, <3>3
    <3> QED BY <1>7, <1>9, <3>1, <3>2, <3>4 DEF InjectEmulated
  <2> QED BY <1>10, <2>5, <2>6
<1> QED BY <1>12, <1>13, <1>14

-----------------------------------------------------------------------------
(* The analysis                                                              *)

\* With a whole trace the fault injection begins.
LEMMA AnalyzeCapturedStep ==
  ASSUME use \in Uses, use.tool = "analyze", AnalyzeInv, AnalyzeCaptured
  PROVE  AnalyzeInv'
<1>1. AnalyzeTypeOK /\ TraceInv /\ CaptureInv /\ InjectInv /\ ReportsReal
  BY DEF AnalyzeInv
<1>2. /\ at = "returned" /\ job = -1
      /\ UNCHANGED <<use, snippet, mach, ts, trace, inject, critical, hiccups>>
      /\ \/ CaptureResult = "ok" /\ trace.n > 0 /\ job' = 0 /\ at' = "init"
         \/ at' = "end" /\ job' = -1
  BY DEF AnalyzeCaptured, Capturing
<1>3. critical = <<>>
  BY <1>1, <1>2 DEF CaptureInv
<1>4. TraceInv' /\ ReportsReal'
  BY <1>1, <1>2, FrameTrace, FrameCritical
<1>5. AnalyzeTypeOK'
  BY <1>1, <1>2 DEF AnalyzeTypeOK
<1>6. CaptureInv'
  BY <1>2, <1>3 DEF CaptureInv
<1>7. InjectInv'
  <2> SUFFICES ASSUME job' = 0 PROVE InjectInv'
    BY <1>2 DEF InjectInv
  <2>1. CaptureResult = "ok" /\ trace.n > 0 /\ at' = "init"
    BY <1>2
  <2>2. result = "ok" /\ ~trace.out_of_bounds
    BY <2>1 DEF CaptureResult
  <2>3. Accepted /\ TraceWhole
    BY <1>1, <1>2, <2>2 DEF CaptureInv
  <2>4. Accepted' /\ TraceWhole'
    BY <1>2, <2>3, Frame, FrameTrace
  <2>5. trace.n \in Nat
    BY <1>1 DEF AnalyzeTypeOK
  <2> QED BY <1>2, <1>3, <2>1, <2>4, <2>5 DEF InjectInv
<1> QED BY <1>4, <1>5, <1>6, <1>7 DEF AnalyzeInv

\* One more report, and it is real.
LEMMA AnalyzeInjectedStep ==
  ASSUME use \in Uses, use.tool = "analyze", AnalyzeInv, AnalyzeInjected
  PROVE  AnalyzeInv'
<1>1. AnalyzeTypeOK /\ TraceInv /\ CaptureInv /\ InjectInv /\ ReportsReal
  BY DEF AnalyzeInv
<1> DEFINE d == FaultDetected
           l == hiccups > 0
           r == [detected |-> d, lost |-> l]
<1>2. /\ at = "returned" /\ job >= 0
      /\ UNCHANGED <<use, snippet, mach, ts, trace, inject, hiccups>>
      /\ critical' = Append(critical, r)
      /\ \/ job + 1 < trace.n /\ job' = job + 1 /\ at' = "init"
         \/ at' = "end" /\ job' = job
  BY DEF AnalyzeInjected, Injecting
<1>3. d \in BOOLEAN /\ l \in BOOLEAN /\ ReportIsReal(job, d, l)
  <2>1. FaultDetected \in BOOLEAN /\ (hiccups > 0) \in BOOLEAN
    BY DEF FaultDetected
  <2>2. ReportIsReal(job, FaultDetected, hiccups > 0)
    BY <1>1, <1>2 DEF InjectInv
  <2> QED BY <2>1, <2>2
<1>4. /\ job \in Nat /\ job < trace.n /\ trace.n \in Nat /\ Accepted /\ TraceWhole
      /\ critical \in Seq([detected : BOOLEAN, lost : BOOLEAN]) /\ Len(critical) = job
  BY <1>1, <1>2, Jobs DEF InjectInv, AnalyzeTypeOK
<1> HIDE DEF d, l
<1>5. r \in [detected : BOOLEAN, lost : BOOLEAN] /\ r.detected = d /\ r.lost = l
  BY <1>3
<1> HIDE DEF r
<1>6. /\ critical' \in Seq([detected : BOOLEAN, lost : BOOLEAN]) /\ Len(critical') = job + 1
      /\ \A k \in 1 .. job : critical'[k] = critical[k]
      /\ critical'[job + 1] = r /\ DOMAIN critical = 1 .. job
      /\ DOMAIN critical' = 1 .. (job + 1)
  BY <1>2, <1>4, <1>5
<1>7. TraceInv' /\ Accepted' /\ TraceWhole'
  BY <1>1, <1>2, <1>4, Frame, FrameTrace
<1>8. AnalyzeTypeOK'
  BY <1>1, <1>2, <1>4 DEF AnalyzeTypeOK
<1>9. CaptureInv'
  BY <1>2, <1>4 DEF CaptureInv
<1>10. InjectInv'
  BY <1>2, <1>4, <1>6, <1>7 DEF InjectInv
<1>11. ReportsReal'
  <2>1. ASSUME NEW k \in 1 .. (job + 1)
        PROVE  ReportIsReal(k - 1, critical'[k].detected, critical'[k].lost)
    <3>1. CASE k \in 1 .. job
      BY <1>1, <1>6, <3>1 DEF ReportsReal
    <3>2. CASE k = job + 1
      <4>1. k - 1 = job
        BY <1>4, <3>2
      <4> QED BY <1>3, <1>5, <1>6, <3>2, <4>1
    <3> QED BY <1>4, <3>1, <3>2
  <2>2. \A k, x, y : ReportIsReal(k, x, y) => ReportIsReal(k, x, y)'
    BY <1>2, FrameTrace
  <2>3. ASSUME NEW k \in DOMAIN critical'
        PROVE  ReportIsReal(k - 1, critical[k].detected, critical[k].lost)'
    <3>1. PICK x, y : x = critical'[k].detected /\ y = critical'[k].lost
      OBVIOUS
    <3>2. ReportIsReal(k - 1, x, y)
      BY <1>6, <2>1, <3>1
    <3>3. ReportIsReal(k - 1, x, y)'
      BY <2>2, <3>2
    <3> QED BY <3>1, <3>3 DEF ReportIsReal, LimitLeavesRoom
  <2> QED BY <2>3 DEF ReportsReal
<1> QED BY <1>7, <1>8, <1>9, <1>10, <1>11 DEF AnalyzeInv

\* Every step preserves the invariant.
LEMMA SnippetStep == SnippetInv /\ [SnippetNext]_snippetVars => SnippetInv'
<1> SUFFICES ASSUME SnippetInv, [SnippetNext]_snippetVars PROVE SnippetInv'
  OBVIOUS
<1>1. use \in Uses /\ use' = use
  BY DEF SnippetInv, SnippetNext, snippetVars, InitFails, NativeRun, StopBeforeCode,
         StopInCode, StopAtLimit, StopAfterCode, NativeReturns, RunnerDies, UnicornRun,
         HookStops, HookCode, FetchFails, EmulationEnds, Timeout, UnicornReturns,
         AnalyzeCaptured, AnalyzeInjected, ProxyReturns, NextInput
<1>2. CASE use.tool = "analyze"
  <2>1. AnalyzeInv /\ AnalyzeTypeOK /\ ~Proxying
    BY <1>2 DEF SnippetInv, AnalyzeInv, Proxying
  <2>2. job = -1 \/ job >= 0
    BY <1>2, <2>1, Jobs
  <2>3. CASE SnippetNext
    BY <1>1, <1>2, <2>1, <2>2, <2>3, InitFailsStep, NativeRunStep, StopBeforeCodeStep,
       StopInCodeCaptures, StopInCodeInjects, StopAtLimitStep, StopAfterCodeStep,
       NativeReturnsStep, RunnerDiesStep, UnicornRunStep, HookStopsStep, HookCodeCaptures,
       HookCodeInjects, FetchFailsStep, EmulationEndsStep, TimeoutStep, UnicornReturnsStep,
       AnalyzeCapturedStep, AnalyzeInjectedStep
       DEF SnippetNext, SnippetInv, ProxyReturns, NextInput
  <2>4. CASE UNCHANGED snippetVars
    <3>1. UNCHANGED <<use, snippet, mach, at, ts, trace, job, inject, critical, result, hiccups>>
      BY <2>4 DEF snippetVars
    <3>2. /\ Accepted' <=> Accepted
          /\ TraceWhole' <=> TraceWhole
          /\ \A n : GoesOn(n)' <=> GoesOn(n)
          /\ Reference' = Reference /\ Skipped(job)' = Skipped(job)
          /\ Visible(mach)' = Visible(mach)
      BY <3>1, Frame, FrameTrace, FrameGoesOn DEF Skipped
    <3>3. AnalyzeTypeOK' /\ TraceInv' /\ ReportsReal'
      BY <2>1, <3>1, FrameTrace, FrameCritical DEF AnalyzeInv, AnalyzeTypeOK
    <3>4. CaptureInv'
      <4>1. /\ CaptureTraced' <=> CaptureTraced
            /\ CaptureUntraced' <=> CaptureUntraced
            /\ CaptureEmulated' <=> CaptureEmulated
            /\ CaptureStopped' <=> CaptureStopped
        BY <3>1, <3>2 DEF CaptureTraced, CaptureUntraced, CaptureEmulated, CaptureStopped
      <4> QED BY <2>1, <3>1, <3>2, <4>1 DEF AnalyzeInv, CaptureInv
    <3>5. InjectInv'
      <4>1. InjectTraced' <=> InjectTraced
        BY <3>1, <3>2 DEF InjectTraced, BeforeSkip
      <4>2. InjectUntraced' <=> InjectUntraced
        BY <3>1, <3>2 DEF InjectUntraced
      <4>3. InjectEmulated' <=> InjectEmulated
        BY <3>1, <3>2 DEF InjectEmulated, BeforeSkip, Ended
      <4>4. (InjectStopped' <=> InjectStopped) /\ (TooLong' <=> TooLong)
        BY <3>1, <3>2 DEF InjectStopped, TooLong, Ended
      <4>5. ReportIsReal(job, FaultDetected, hiccups > 0)
              => ReportIsReal(job, FaultDetected, hiccups > 0)'
        <5>1. (Harmless(job)' <=> Harmless(job))
              /\ Steps(Skipped(job))' = Steps(Skipped(job))
          BY <3>1, FrameReport
        <5>2. FaultDetected' <=> FaultDetected
          BY <3>1 DEF FaultDetected
        <5> QED BY <3>1, <5>1, <5>2 DEF ReportIsReal, LimitLeavesRoom
      <4> QED BY <2>1, <3>1, <3>2, <4>1, <4>2, <4>3, <4>4, <4>5 DEF AnalyzeInv, InjectInv
    <3> QED BY <1>1, <1>2, <3>3, <3>4, <3>5 DEF AnalyzeInv, SnippetInv
  <2> QED BY <2>3, <2>4
<1>3. CASE use.tool # "analyze"
  <2>1. critical = <<>> /\ ~Injecting
    BY <1>3 DEF SnippetInv, Injecting
  <2>2. critical' = critical
    BY <2>1 DEF SnippetNext, snippetVars, InitFails, NativeRun, StopBeforeCode,
         StopInCode, StopAtLimit, StopAfterCode, NativeReturns, RunnerDies, UnicornRun,
         HookStops, HookCode, FetchFails, EmulationEnds, Timeout, UnicornReturns,
         AnalyzeCaptured, AnalyzeInjected, ProxyReturns, NextInput
  <2> QED BY <1>1, <1>3, <2>1, <2>2 DEF SnippetInv
<1> QED BY <1>2, <1>3

\* The inductive invariant of an analysis.
THEOREM AnalysisInvariant == SnippetSpec => []SnippetInv
<1>1. SnippetInit => SnippetInv
  BY AnalyzeInit
<1>2. SnippetInv /\ [SnippetNext]_snippetVars => SnippetInv'
  BY SnippetStep
<1> QED BY <1>1, <1>2, PTL DEF SnippetSpec

\* The invariant implies the property.
LEMMA InvIsFaithful == SnippetInv => CaptureFaithful
<1> SUFFICES ASSUME SnippetInv, use.tool = "analyze", trace.n > 0
             PROVE  /\ ~trace.died
                    /\ \A i \in 1 .. trace.n :
                           /\ trace.addresses[i] = Reference[i - 1].pc
                           /\ trace.contexts[i] = Visible(Reference[i - 1])
                    /\ job >= 0 => /\ trace.n = Steps(Reference)
                                   /\ Exits(snippet, Reference[trace.n])
                                   /\ trace.contexts[trace.n + 1] = Visible(Reference[trace.n])
  BY DEF CaptureFaithful
<1>1. use \in Uses /\ AnalyzeInv /\ TraceInv /\ InjectInv /\ AnalyzeTypeOK
  BY DEF SnippetInv, AnalyzeInv
<1>2. /\ ~trace.died
      /\ \A i \in 1 .. trace.n : /\ trace.addresses[i] = Reference[i - 1].pc
                                 /\ trace.contexts[i] = Visible(Reference[i - 1])
                                 /\ ~Reference[i - 1].fault
                                 /\ IsInsideCode(snippet, Reference[i - 1].pc)
  BY <1>1 DEF TraceInv
<1>3. ASSUME job >= 0
      PROVE  /\ trace.n = Steps(Reference)
             /\ Exits(snippet, Reference[trace.n])
             /\ trace.contexts[trace.n + 1] = Visible(Reference[trace.n])
  <2>1. /\ Exits(snippet, Reference[trace.n])
        /\ trace.contexts[trace.n + 1] = Visible(Reference[trace.n])
    BY <1>1, <1>3 DEF InjectInv, TraceWhole
  <2>2. trace.n \in 0 .. Fuel /\ trace.n \in Nat /\ snippet.len \in Nat
    <3>1. trace.n \in Nat /\ trace.n <= use.max /\ snippet \in Snippets
      BY <1>1 DEF AnalyzeTypeOK, TraceInv
    <3> QED BY <1>1, <3>1, UseFacts, FuelIsNat, SnippetFacts
  <2>3. ASSUME NEW k \in 0 .. trace.n - 1 PROVE ~Ended(snippet, Reference[k])
    <3>1. k + 1 \in 1 .. trace.n /\ (k + 1) - 1 = k
      BY <2>2
    <3>2. ~Reference[k].fault /\ IsInsideCode(snippet, Reference[k].pc)
      BY <1>2, <3>1
    <3> QED BY <2>2, <3>2 DEF Ended, IsInsideCode
  <2>4. Ended(snippet, Reference[trace.n])
    BY <2>1 DEF Exits, Ended
  <2>5. Steps(Reference) = trace.n
    BY <2>2, <2>3, <2>4, StepsIs DEF Reference
  <2> QED BY <2>1, <2>5
<1> QED BY <1>2, <1>3

\* CaptureTrace records the execution as it is, under either tracer and for every
\* snippet: the addresses and registers of a prefix of it, never more than the
\* trace has room for, and the whole of it before any fault is injected.
THEOREM TraceIsFaithful == SnippetSpec => []CaptureFaithful
<1>1. SnippetInv => CaptureFaithful
  BY InvIsFaithful
<1> QED BY <1>1, AnalysisInvariant, PTL

\* The invariant implies the property: what was skipped is what should be left
\* out, or nothing.
LEMMA InvIsReal == SnippetInv => CriticalIsReal
<1> SUFFICES ASSUME SnippetInv, NEW k \in DOMAIN critical
             PROVE  IF snippet.code[trace.addresses[k]].op # "???"
                    THEN /\ ~EndsAlike(LeftOut(k - 1)) => critical[k].detected
                         /\ EndsAlike(LeftOut(k - 1)) /\ ~critical[k].lost /\ LimitLeavesRoom(k - 1)
                              => ~critical[k].detected
                    ELSE ~critical[k].lost /\ LimitLeavesRoom(k - 1)
                            => ~critical[k].detected
  BY DEF CriticalIsReal
<1>1. /\ use \in Uses /\ AnalyzeTypeOK /\ TraceInv /\ CaptureInv /\ InjectInv
      /\ ReportsReal
  BY DEF SnippetInv, AnalyzeInv
<1>2. job >= 0 /\ job \in Nat
  BY <1>1 DEF CaptureInv, AnalyzeTypeOK
<1>3. trace.n \in 0 .. Fuel /\ k \in 1 .. trace.n /\ k - 1 \in 0 .. Fuel
  <2>1. trace.n \in Nat /\ trace.n <= use.max /\ snippet \in Snippets
    BY <1>1 DEF AnalyzeTypeOK, TraceInv
  <2>2. trace.n \in 0 .. Fuel
    BY <1>1, <2>1, UseFacts, FuelIsNat
  <2>3. /\ job < trace.n /\ critical \in Seq([detected : BOOLEAN, lost : BOOLEAN])
        /\ Len(critical) = IF at = "end" THEN job + 1 ELSE job
    BY <1>1, <1>2 DEF InjectInv
  <2>4. k \in 1 .. Len(critical)
    BY <2>3
  <2> QED BY <1>2, <2>1, <2>2, <2>3, <2>4, FuelIsNat
<1> DEFINE m == Reference[k - 1]
           i == snippet.code[m.pc]
<1>4. trace.addresses[k] = m.pc /\ IsInsideCode(snippet, m.pc)
  BY <1>1, <1>3 DEF TraceInv
<1>5. m \in Machines /\ snippet \in Snippets
  BY <1>1, <1>3, ReferenceFacts DEF AnalyzeTypeOK
<1>6. ReportIsReal(k - 1, critical[k].detected, critical[k].lost)
  BY <1>1 DEF ReportsReal
<1>7. CASE i.op # "???"
  <2>1. Skipped(k - 1) = LeftOut(k - 1)
    BY <1>7 DEF Skipped, LeftOut, InstructionSize
  <2>2. /\ ~EndsAlike(LeftOut(k - 1)) => critical[k].detected
        /\ EndsAlike(LeftOut(k - 1)) /\ ~critical[k].lost /\ LimitLeavesRoom(k - 1)
             => ~critical[k].detected
    BY <1>6, <2>1 DEF ReportIsReal, Harmless
  <2> QED BY <1>4, <1>7, <2>2
<1>8. CASE i.op = "???"
  <2>2. [m EXCEPT !.pc = @ + InstructionSize(i)] = m
    <3>1. InstructionSize(i) = 0 /\ m.pc \in Nat
      BY <1>5, <1>8 DEF InstructionSize, Machines
    <3> HIDE DEF m, i
    <3> QED BY <1>5, <3>1 DEF Machines
  <2>3. Skipped(k - 1) = Path(snippet, m)
    BY <2>2 DEF Skipped
  <2>4. /\ Exits(snippet, Reference[trace.n])
        /\ Ended(snippet, Reference[trace.n])
    <3>1. TraceWhole
      BY <1>1, <1>2 DEF InjectInv
    <3> QED BY <3>1 DEF TraceWhole, Exits, Ended
  <2>5. Reference[Fuel] = Reference[trace.n]
    BY <1>3, <2>4, PathEnd DEF Reference
  <2>6. RunOut(snippet, m) = Reference[Fuel]
    BY <1>3, <2>4, <2>5, RunOutShift DEF Reference
  <2>7. Skipped(k - 1)[Fuel] = Reference[trace.n]
    BY <2>3, <2>5, <2>6 DEF RunOut
  <2>8. Harmless(k - 1)
    BY <2>4, <2>7 DEF Harmless, EndsAlike
  <2> QED BY <1>4, <1>6, <1>8, <2>8 DEF ReportIsReal
<1> QED BY <1>7, <1>8

\* AnalyzeSnippetWithFaultInjection reports an instruction as critical if leaving it
\* out changes what can be seen of the end, and, if nothing interferes and the limit
\* leaves room, only then; one the disassembler does not know, which it does not
\* leave out, it then reports as not critical.
THEOREM CriticalInstructionsAreReal == SnippetSpec => []CriticalIsReal
<1>1. SnippetInv => CriticalIsReal
  BY InvIsReal
<1> QED BY <1>1, AnalysisInvariant, PTL

-----------------------------------------------------------------------------
(* The ring buffer of the perf events (PerfEventBuffer): remainders first. *)

(* Division has one quotient and one remainder.                            *)
LEMMA ModIs ==
  ASSUME NEW n \in Nat, n > 0, NEW q \in Int, NEW r \in 0 .. n - 1
  PROVE  (q * n + r) % n = r
<1> DEFINE x == q * n + r
           p == x \div n
           s == x % n
<1>1. x \in Int /\ p \in Int /\ s \in 0 .. n - 1 /\ x = n * p + s
  OBVIOUS
<1>2. (q - p) * n = s - r
  <2>1. (q - p) * n = q * n - p * n
    BY <1>1
  <2>2. n * p = p * n
    BY <1>1
  <2> QED BY <2>1, <2>2, <1>1
<1> HIDE DEF x, p, s
<1>3. q = p
  <2>1. CASE q - p >= 1
    <3>1. (q - p) * n >= n
      BY <2>1, <1>1
    <3> QED BY <3>1, <1>1, <1>2
  <2>2. CASE q - p <= -1
    <3>1. (q - p) * n <= -n
      BY <2>2, <1>1
    <3> QED BY <3>1, <1>1, <1>2
  <2> QED BY <2>1, <2>2, <1>1
<1>4. s = r
  BY <1>1, <1>2, <1>3
<1> QED BY <1>4 DEF s, x

(* Two numbers that differ by a multiple have the same remainder.          *)
LEMMA ModShift ==
  ASSUME NEW n \in Nat, n > 0, NEW x \in Int, NEW k \in Int
  PROVE  (x + k * n) % n = x % n
<1>1. PICK q \in Int, r \in 0 .. n - 1 : x = q * n + r /\ x % n = r
  <2>1. x \div n \in Int /\ x % n \in 0 .. n - 1 /\ x = n * (x \div n) + (x % n)
    OBVIOUS
  <2>2. n * (x \div n) = (x \div n) * n
    BY <2>1
  <2> QED BY <2>1, <2>2
<1>2. (q + k) * n = q * n + k * n
  OBVIOUS
<1>3. ((q + k) * n + r) % n = r
  BY ModIs
<1>4. x + k * n = (q + k) * n + r
  BY <1>1, <1>2
<1> QED BY <1>1, <1>3, <1>4

LEMMA ModQuotient ==
  ASSUME NEW n \in Nat, n > 0, NEW x \in Int
  PROVE  /\ x % n \in 0 .. n - 1
         /\ \E q \in Int : x = (x % n) + q * n
<1>1. x \div n \in Int /\ x % n \in 0 .. n - 1 /\ x = n * (x \div n) + (x % n)
  OBVIOUS
<1>2. n * (x \div n) = (x \div n) * n
  BY <1>1
<1> QED BY <1>1, <1>2

LEMMA ModSum ==
  ASSUME NEW n \in Nat, n > 0, NEW a \in Int, NEW b \in Int
  PROVE  ((a % n) + b) % n = (a + b) % n
<1>1. PICK q \in Int : a = (a % n) + q * n
  BY ModQuotient
<1>2. PICK r \in Int : r = a % n
  BY ModQuotient
<1>3. PICK d \in Int : d = q * n
  OBVIOUS
<1>4. a = r + d
  BY <1>1, <1>2, <1>3
<1>5. a + b = (r + b) + d
  BY <1>4
<1>6. r + b \in Int
  OBVIOUS
<1>7. ((r + b) + q * n) % n = (r + b) % n
  BY <1>6, ModShift
<1> QED BY <1>2, <1>3, <1>5, <1>7

LEMMA ModDifference ==
  ASSUME NEW n \in Nat, n > 0, NEW a \in Int, NEW b \in Int,
         NEW r \in Int, r = a % n
  PROVE  (b - r) % n = (b - a) % n
<1>1. PICK q \in Int : a = r + q * n
  BY ModQuotient
<1>2. PICK t \in Int : t = q * n
  OBVIOUS
<1>3. PICK e \in Int : e = b - a
  OBVIOUS
<1>4. b - r = e + t
  BY <1>1, <1>2, <1>3
<1>5. (e + q * n) % n = e % n
  BY ModShift
<1> QED BY <1>2, <1>3, <1>4, <1>5

LEMMA ModSmall ==
  ASSUME NEW n \in Nat, n > 0, NEW r \in 0 .. n - 1
  PROVE  r % n = r
<1>1. (0 * n + r) % n = r
  BY ModIs
<1>2. 0 * n + r = r
  OBVIOUS
<1> QED BY <1>1, <1>2

(* Reducing modulo a multiple first changes nothing.                       *)
LEMMA ModMod ==
  ASSUME NEW n \in Nat, n > 0, NEW m \in Nat, m > 0, m % n = 0, NEW x \in Int
  PROVE  (x % m) % n = x % n
<1>1. PICK k \in Int : m = k * n
  <2>1. PICK k \in Int : m = (m % n) + k * n
    BY ModQuotient
  <2>2. k * n \in Int
    OBVIOUS
  <2> QED BY <2>1, <2>2
<1>2. PICK q \in Int : x = (x % m) + q * m
  BY ModQuotient
<1>3. q * m = (q * k) * n
  BY <1>1
<1>4. x % m \in Int /\ q * k \in Int
  BY ModQuotient
<1>5. ((x % m) + (q * k) * n) % n = (x % m) % n
  BY <1>4, ModShift
<1> QED BY <1>2, <1>3, <1>5


-----------------------------------------------------------------------------
(* The offsets of the code against the true ones.                          *)

LEMMA BufferConstants ==
  /\ data_size \in Nat /\ data_size > 0
  /\ OffsetModulus \in Nat /\ OffsetModulus > 0 /\ OffsetModulus > data_size
  /\ OffsetModulus % data_size = 0
BY PerfEventBufferAssumption

LEMMA DistanceIs ==
  ASSUME NEW a \in Int, NEW b \in Int, 0 <= a - b, a - b < OffsetModulus
  PROVE  Distance(a % OffsetModulus, b % OffsetModulus) = a - b
<1> DEFINE M == OffsetModulus
<1>0. M \in Nat /\ M > 0
  BY BufferConstants
<1>1. PICK r \in Int : r = b % M
  BY <1>0, ModQuotient
<1>2. PICK s \in Int : s = a % M
  BY <1>0, ModQuotient
<1>3. (s + (M - r)) % M = (a + (M - r)) % M
  <2>1. M - r \in Int
    BY <1>0
  <2> QED BY <1>0, <1>2, <2>1, ModSum
<1>c. PICK c \in Int : c = a + M
  BY <1>0
<1>4. a + (M - r) = c - r
  BY <1>0, <1>c
<1>5. (c - r) % M = (c - b) % M
  BY <1>0, <1>1, ModDifference
<1>6. ((a - b) + 1 * M) % M = (a - b) % M
  <2>1. a - b \in Int
    OBVIOUS
  <2> QED BY <1>0, <2>1, ModShift
<1>7. c - b = (a - b) + 1 * M
  BY <1>0, <1>c
<1>8. (a - b) % M = a - b
  <2>1. a - b \in 0 .. M - 1
    BY <1>0
  <2> QED BY <1>0, <2>1, ModSmall
<1>9. (s + M - r) % M = a - b
  <2>1. s + M - r = s + (M - r)
    BY <1>0
  <2> QED BY <1>3, <1>4, <1>5, <1>6, <1>7, <1>8, <2>1
<1> QED BY <1>1, <1>2, <1>9 DEF Distance

LEMMA PlusIs ==
  ASSUME NEW a \in Int, NEW k \in Int
  PROVE  Plus(a % OffsetModulus, k) = (a + k) % OffsetModulus
BY BufferConstants, ModSum DEF Plus

LEMMA OffsetIs ==
  ASSUME NEW a \in Int
  PROVE  Offset(a % OffsetModulus) = a % data_size
BY BufferConstants, ModMod DEF Offset

(* Where a unit of the ring lies relative to the head.                     *)
LEMMA RingIndex ==
  ASSUME NEW x \in Int, NEW H \in Int
  PROVE  Distance(x % data_size, Offset(H % OffsetModulus)) % data_size
           = (x - H) % data_size
<1> DEFINE M == OffsetModulus
           n == data_size
<1>0. n \in Nat /\ n > 0 /\ M \in Nat /\ M > 0 /\ M % n = 0
  BY BufferConstants
<1>1. PICK r \in Int : r = H % n
  BY <1>0, ModQuotient
<1>2. PICK s \in Int : s = x % n
  BY <1>0, ModQuotient
<1>3. ((s + (M - r)) % M) % n = (s + (M - r)) % n
  <2>1. s + (M - r) \in Int
    BY <1>0
  <2> QED BY <1>0, <2>1, ModMod
<1>4. (s + (M - r)) % n = (x + (M - r)) % n
  <2>1. M - r \in Int
    BY <1>0
  <2> QED BY <1>0, <1>2, <2>1, ModSum
<1>c. PICK c \in Int : c = x + M
  BY <1>0
<1>5. x + (M - r) = c - r
  BY <1>0, <1>c
<1>6. (c - r) % n = (c - H) % n
  BY <1>0, <1>1, ModDifference
<1>7. PICK k \in Int : M = k * n
  <2>1. PICK k \in Int : M = (M % n) + k * n
    BY <1>0, ModQuotient
  <2>2. k * n \in Int
    BY <1>0
  <2> QED BY <1>0, <2>1, <2>2
<1>8. ((x - H) + k * n) % n = (x - H) % n
  <2>1. x - H \in Int
    OBVIOUS
  <2> QED BY <1>0, <2>1, ModShift
<1>9. c - H = (x - H) + M
  BY <1>0, <1>c
<1>10. s + M - r = s + (M - r)
  BY <1>0
<1>11. Offset(H % M) = r
  BY <1>1, OffsetIs
<1>12. Distance(s, r) = (s + (M - r)) % M
  BY <1>10 DEF Distance
<1>13. (s + (M - r)) % n = (x - H) % n
  BY <1>4, <1>5, <1>6, <1>7, <1>8, <1>9
<1> QED BY <1>2, <1>3, <1>11, <1>12, <1>13

(* The unit that is written j units after the head, and one that is not
   overwritten: less than a buffer ahead of what will be written.          *)
LEMMA RingIndexAhead ==
  ASSUME NEW x \in Int, NEW H \in Int, NEW j \in 0 .. data_size - 1, x = H + j
  PROVE  Distance(x % data_size, Offset(H % OffsetModulus)) % data_size = j
<1>1. x - H = j
  OBVIOUS
<1>2. j % data_size = j
  BY BufferConstants, ModSmall
<1> QED BY <1>1, <1>2, RingIndex

LEMMA RingIndexBehind ==
  ASSUME NEW x \in Int, NEW H \in Int, NEW j \in 0 .. data_size - 1,
         x = (H + j) - data_size
  PROVE  Distance(x % data_size, Offset(H % OffsetModulus)) % data_size = j
<1>1. j = (x - H) + 1 * data_size
  BY BufferConstants
<1>2. j % data_size = j
  BY BufferConstants, ModSmall
<1>3. ((x - H) + 1 * data_size) % data_size = (x - H) % data_size
  <2>1. x - H \in Int
    OBVIOUS
  <2> QED BY <2>1, BufferConstants, ModShift
<1> QED BY <1>1, <1>2, <1>3, RingIndex

-----------------------------------------------------------------------------
(* The steps.                                                              *)

LEMMA SizesAreNat ==
  ASSUME NEW size \in RecordSizes
  PROVE  size \in Nat /\ size >= 2 /\ size <= data_size
BY PerfEventBufferAssumption

LEMMA BufferPlaces ==
  ASSUME BufferTypeOK, ReaderInv, NEW P \in Seq(Nat), Places(P), Offsets(P)
  PROVE  /\ Len(written) \in Nat /\ Len(records) \in Nat
         /\ Len(records) <= Len(written) /\ Len(writing) \in Nat
         /\ P[Len(written) + 1] \in Nat /\ P[Len(records) + 1] \in Nat
         /\ \A k \in 1 .. Len(written) + 1 : P[k] \in Nat
         /\ \A j, k \in 1 .. Len(written) + 1 : j <= k => P[j] <= P[k]
         /\ \A k \in 1 .. Len(written) :
                Len(written[k]) \in Nat /\ P[k + 1] = P[k] + Len(written[k])
         /\ P[Len(records) + 1] <= P[Len(written) + 1]
         /\ P[Len(written) + 1] + Len(writing) <= P[Len(records) + 1] + data_size
<1>1. Len(written) \in Nat /\ Len(records) \in Nat /\ Len(writing) \in Nat
  BY DEF BufferTypeOK
<1>2. Len(records) <= Len(written)
  BY DEF ReaderInv
<1>3. \A k \in 1 .. Len(written) + 1 : P[k] \in Nat
  BY <1>1 DEF Places
<1>4. \A j, k \in 1 .. Len(written) + 1 : j <= k => P[j] <= P[k]
  BY DEF Places
<1>5. \A k \in 1 .. Len(written) :
         Len(written[k]) \in Nat /\ P[k + 1] = P[k] + Len(written[k])
  <2>1. TAKE k \in 1 .. Len(written)
  <2>2. Len(written[k]) \in RecordSizes
    BY DEF BufferTypeOK, Framed
  <2>3. P[k + 1] = P[k] + Len(written[k])
    BY DEF Places
  <2> QED BY <2>2, <2>3, SizesAreNat
<1>6. P[Len(written) + 1] + Len(writing) <= P[Len(records) + 1] + data_size
  BY DEF Offsets
<1> QED BY <1>1, <1>2, <1>3, <1>4, <1>5, <1>6

LEMMA BufferDistance ==
  ASSUME BufferTypeOK, ReaderInv, NEW P \in Seq(Nat), Places(P), Offsets(P)
  PROVE  Distance(data_head, data_tail)
           = P[Len(written) + 1] - P[Len(records) + 1]
<1>1. PICK H \in Nat, T \in Nat :
         /\ H = P[Len(written) + 1] /\ T = P[Len(records) + 1]
         /\ T <= H /\ H <= T + data_size
  <2> DEFINE h == P[Len(written) + 1]
             t == P[Len(records) + 1]
  <2>1. h \in Nat /\ t \in Nat /\ t <= h /\ h + Len(writing) <= t + data_size
        /\ Len(writing) \in Nat
    BY BufferPlaces
  <2> HIDE DEF h, t
  <2>2. h <= t + data_size
    BY <2>1, BufferConstants
  <2> QED BY <2>1, <2>2 DEF h, t
<1>2. 0 <= H - T /\ H - T < OffsetModulus
  <2>1. PICK n \in Nat, M \in Nat : n = data_size /\ M = OffsetModulus /\ n < M
    BY BufferConstants
  <2>2. T <= H /\ H <= T + n
    BY <1>1, <2>1
  <2>3. 0 <= H - T /\ H - T < M
    BY <2>1, <2>2
  <2> QED BY <2>1, <2>3
<1>3. data_head = H % OffsetModulus /\ data_tail = T % OffsetModulus
  BY <1>1 DEF Offsets
<1> QED BY <1>1, <1>2, <1>3, DistanceIs

LEMMA BufferInitInv ==
  BufferInit => BufferInv
<1> SUFFICES ASSUME BufferInit PROVE BufferInv
  OBVIOUS
<1> USE DEF BufferInit
<1>0. Len(written) = 0 /\ Len(records) = 0 /\ Len(writing) = 0
  OBVIOUS
<1>1. BufferTypeOK
  BY BufferConstants DEF BufferTypeOK, Units
<1>2. ReaderInv
  BY <1>0 DEF ReaderInv
<1>3. 0 % OffsetModulus = 0
  BY BufferConstants, ModSmall
<1>4. PICK P \in Seq(Nat) : Len(P) = 1 /\ P[1] = 0
  <2> DEFINE Z == [i \in 1 .. 1 |-> 0]
  <2>1. Z \in Seq(Nat) /\ Len(Z) = 1 /\ Z[1] = 0
    OBVIOUS
  <2> QED BY <2>1
<1>5. Len(P) = 1 /\ P[1] = 0
  BY <1>4
<1>6. Places(P)
  BY <1>0, <1>5 DEF Places
<1>7. Offsets(P)
  <2>1. P[Len(written) + 1] = 0 /\ P[Len(records) + 1] = 0
    BY <1>0, <1>5
  <2>2. Progress = 0 /\ 0 + Progress = 0
    BY DEF Progress
  <2>3. 0 + Len(writing) <= 0 + data_size
    BY <1>0, BufferConstants
  <2>4. \E h \in Len(records) + 1 .. Len(written) + 1 :
           /\ view.head = P[h] % OffsetModulus
           /\ reader # "idle" => h > Len(records) + 1
    <3>1. 1 \in Len(records) + 1 .. Len(written) + 1
      BY <1>0
    <3> QED BY <3>1, <1>3, <1>5
  <2>5. data_head = 0 /\ data_tail = 0 /\ view.tail = 0
    OBVIOUS
  <2> QED BY <1>3, <2>1, <2>2, <2>3, <2>4, <2>5 DEF Offsets
<1>8. Contents(P)
  BY <1>0 DEF Contents
<1> QED BY <1>1, <1>2, <1>4, <1>6, <1>7, <1>8 DEF BufferInv

LEMMA RecordUnitsAre ==
  ASSUME NEW n \in Nat, NEW size \in RecordSizes
  PROVE  /\ RecordUnits(n, size) \in Seq(Units)
         /\ Len(RecordUnits(n, size)) = size
         /\ Framed(RecordUnits(n, size))
<1> DEFINE r == RecordUnits(n, size)
<1>1. size \in Nat /\ size >= 2
  BY SizesAreNat
<1>2. \A i \in 1 .. size : <<n, i, IF i = 1 THEN size ELSE 0>> \in Units
  BY <1>1 DEF Units
<1>3. r \in [1 .. size -> Units]
  BY <1>2 DEF RecordUnits
<1>4. r \in Seq(Units) /\ Len(r) = size
  BY <1>1, <1>3
<1>5. r[1] = <<n, 1, size>>
  BY <1>1 DEF RecordUnits
<1>6. UnitSize(r[1]) = size
  BY <1>5 DEF UnitSize
<1> QED BY <1>4, <1>6 DEF Framed

(* The kernel writes ahead of the head and never over what is unread.      *)
LEMMA WriteKeepsUnread ==
  ASSUME NEW size \in RecordSizes, KernelWrite(size), BufferTypeOK,
         NEW H \in Nat, NEW T \in Nat, T <= H, H + size <= T + data_size,
         data_head = H % OffsetModulus
  PROVE  /\ ring' \in [0 .. data_size - 1 -> Units]
         /\ \A j \in 0 .. size - 1 :
               ring'[(H + j) % data_size] = writing'[j + 1]
         /\ \A x \in Nat : T <= x /\ x < H
               => ring'[x % data_size] = ring[x % data_size]
<1> DEFINE n == data_size
           I(o) == Distance(o, Offset(data_head)) % n
<1>0. n \in Nat /\ n > 0 /\ size \in Nat /\ size >= 2 /\ size <= n
  BY SizesAreNat, BufferConstants
<1>1. ring \in [0 .. n - 1 -> Units]
  BY DEF BufferTypeOK
<1>2. writing' \in Seq(Units) /\ Len(writing') = size
  <2>1. Len(written) + 1 \in Nat
    BY DEF BufferTypeOK
  <2> QED BY <2>1, RecordUnitsAre DEF KernelWrite
<1>3. ring' = [o \in 0 .. n - 1 |-> IF I(o) < size THEN writing'[I(o) + 1] ELSE ring[o]]
  BY <1>1 DEF KernelWrite
<1>4. \A x \in Nat : x % n \in 0 .. n - 1
  BY <1>0, ModQuotient
<1>5. \A o \in 0 .. n - 1 : I(o) \in 0 .. n - 1
  <2>1. TAKE o \in 0 .. n - 1
  <2>2. Offset(data_head) \in Int
    BY <1>0, OffsetIs, ModQuotient
  <2>3. Distance(o, Offset(data_head)) \in Int
    <3>1. PICK p \in Int : p = Offset(data_head)
      BY <2>2
    <3>2. PICK y \in Int : y = o + OffsetModulus - p
      BY <1>0, BufferConstants
    <3> QED BY <3>1, <3>2, ModQuotient, BufferConstants DEF Distance
  <2> QED BY <2>3, <1>0, ModQuotient
<1>6. \A x \in Nat, j \in 0 .. n - 1 : x = H + j => I(x % n) = j
  BY RingIndexAhead
<1>7. \A x \in Nat, j \in 0 .. n - 1 : x = (H + j) - n => I(x % n) = j
  BY RingIndexBehind
<1> HIDE DEF I
<1>8. ring' \in [0 .. n - 1 -> Units]
  <2>1. ASSUME NEW o \in 0 .. n - 1, I(o) < size PROVE writing'[I(o) + 1] \in Units
    <3>1. I(o) + 1 \in 1 .. Len(writing')
      <4>1. PICK i \in Nat : i = I(o) /\ i < size
        BY <1>5, <2>1
      <4>2. i + 1 \in 1 .. size
        BY <1>0, <4>1
      <4> QED BY <1>2, <4>1, <4>2
    <3> QED BY <1>2, <3>1
  <2> QED BY <1>1, <1>3, <2>1
<1>9. ASSUME NEW j \in 0 .. size - 1 PROVE ring'[(H + j) % n] = writing'[j + 1]
  <2>1. PICK x \in Nat : x = H + j
    OBVIOUS
  <2>2. I(x % n) = j
    BY <1>0, <1>6, <2>1
  <2> QED BY <1>0, <1>3, <1>4, <2>1, <2>2
<1>10. ASSUME NEW x \in Nat, T <= x, x < H PROVE ring'[x % n] = ring[x % n]
  <2>1. PICK j \in Int : x = (H + j) - n
    BY <1>0
  <2>2. j \in 0 .. n - 1 /\ j >= size
    BY <1>0, <1>10, <2>1
  <2>3. I(x % n) = j
    BY <1>7, <2>1, <2>2
  <2> QED BY <1>0, <1>3, <1>4, <2>2, <2>3
<1> QED BY <1>8, <1>9, <1>10

LEMMA KernelWriteStep ==
  ASSUME BufferInv, NEW size \in RecordSizes, KernelWrite(size)
  PROVE  BufferInv'
<1> USE DEF BufferInv
<1>1. PICK P \in Seq(Nat) : Places(P) /\ Offsets(P) /\ Contents(P)
  OBVIOUS
<1>u. /\ data_head' = data_head /\ data_tail' = data_tail /\ view' = view
      /\ reader' = reader /\ fields' = fields /\ written' = written
      /\ records' = records
  BY DEF KernelWrite
<1>2. PICK H \in Nat, T \in Nat :
         /\ H = P[Len(written) + 1] /\ T = P[Len(records) + 1] /\ T <= H
  BY <1>1, BufferPlaces
<1>s. size \in Nat
  BY SizesAreNat
<1>3. H + size <= T + data_size
  <2>1. Distance(data_head, data_tail) = H - T
    BY <1>1, <1>2, BufferDistance
  <2>2. (H - T) + size <= data_size
    BY <2>1 DEF KernelWrite
  <2> QED BY <1>s, <2>2, BufferConstants
<1>4. data_head = H % OffsetModulus
  BY <1>1, <1>2 DEF Offsets
<1>5. /\ ring' \in [0 .. data_size - 1 -> Units]
      /\ \A j \in 0 .. size - 1 : ring'[(H + j) % data_size] = writing'[j + 1]
      /\ \A x \in Nat : T <= x /\ x < H
            => ring'[x % data_size] = ring[x % data_size]
  BY <1>2, <1>3, <1>4, WriteKeepsUnread
<1>6. writing' \in Seq(Units) /\ Len(writing') = size /\ Framed(writing')
  <2>1. Len(written) + 1 \in Nat
    BY DEF BufferTypeOK
  <2> QED BY <2>1, RecordUnitsAre DEF KernelWrite
<1>7. BufferTypeOK'
  <2>1. Framed(writing)'
    BY <1>6 DEF Framed
  <2>2. \A k \in 1 .. Len(written') : Framed(written'[k])
    BY <1>u DEF BufferTypeOK
  <2> QED BY <1>u, <1>5, <1>6, <2>1, <2>2 DEF BufferTypeOK, Framed
<1>8. ReaderInv'
  BY <1>u DEF ReaderInv
<1>9. Places(P)'
  BY <1>1, <1>u DEF Places
<1>10. Offsets(P)'
  <2>1. Progress' = Progress
    BY <1>u DEF Progress
  <2>2. H + Len(writing') <= T + data_size
    BY <1>3, <1>6
  <2> QED BY <1>1, <1>2, <1>u, <2>1, <2>2 DEF Offsets
<1>11. Contents(P)'
  <2>1. ASSUME NEW k \in Len(records) + 1 .. Len(written), NEW i \in 1 .. Len(written[k])
        PROVE  ring'[(P[k] + (i - 1)) % data_size] = written[k][i]
    <3>1. PICK x \in Nat : x = P[k] + (i - 1) /\ T <= x /\ x < H
      <4>1. k \in 1 .. Len(written) /\ k + 1 \in 1 .. Len(written) + 1
            /\ k \in 1 .. Len(written) + 1 /\ Len(records) + 1 \in 1 .. Len(written) + 1
            /\ Len(written) + 1 \in 1 .. Len(written) + 1
            /\ Len(records) + 1 <= k /\ k + 1 <= Len(written) + 1
        BY <1>1, BufferPlaces
      <4>2. P[k] \in Nat /\ Len(written[k]) \in Nat /\ P[k + 1] = P[k] + Len(written[k])
            /\ T <= P[k] /\ P[k + 1] <= H
        BY <1>1, <1>2, <4>1, BufferPlaces
      <4>3. PICK p \in Nat, l \in Nat : p = P[k] /\ l = Len(written[k])
        BY <4>2
      <4>4. T <= p /\ p + l <= H /\ i \in 1 .. l
        BY <4>2, <4>3
      <4>5. p + (i - 1) \in Nat /\ T <= p + (i - 1) /\ p + (i - 1) < H
        BY <4>4
      <4> QED BY <4>3, <4>5
    <3>2. ring[x % data_size] = written[k][i]
      BY <1>1, <3>1 DEF Contents
    <3> QED BY <1>5, <3>1, <3>2
  <2>2. ASSUME NEW i \in 1 .. Len(writing')
        PROVE  ring'[(H + (i - 1)) % data_size] = writing'[i]
    <3>1. i - 1 \in 0 .. size - 1 /\ (i - 1) + 1 = i
      BY <1>6, <1>s
    <3> QED BY <1>5, <3>1
  <2> QED BY <1>2, <1>u, <2>1, <2>2 DEF Contents
<1> QED BY <1>7, <1>8, <1>9, <1>10, <1>11

LEMMA KernelPublishStep ==
  ASSUME BufferInv, KernelPublish
  PROVE  BufferInv'
<1> USE DEF BufferInv
<1>1. PICK P \in Seq(Nat) : Places(P) /\ Offsets(P) /\ Contents(P)
  OBVIOUS
<1>u. /\ data_tail' = data_tail /\ view' = view /\ ring' = ring
      /\ reader' = reader /\ fields' = fields /\ records' = records
      /\ writing' = <<>> /\ written' = Append(written, writing)
  BY DEF KernelPublish
<1>p. /\ Len(written) \in Nat /\ Len(records) \in Nat
      /\ Len(records) <= Len(written) /\ Len(writing) \in Nat
      /\ \A k \in 1 .. Len(written) + 1 : P[k] \in Nat
      /\ \A j, k \in 1 .. Len(written) + 1 : j <= k => P[j] <= P[k]
      /\ \A k \in 1 .. Len(written) :
             Len(written[k]) \in Nat /\ P[k + 1] = P[k] + Len(written[k])
      /\ P[Len(written) + 1] + Len(writing) <= P[Len(records) + 1] + data_size
  BY <1>1, BufferPlaces
<1>w. Len(written) + 1 \in 1 .. Len(written) + 1
  BY <1>p
<1>2. PICK H \in Nat, L \in Nat : H = P[Len(written) + 1] /\ L = Len(writing)
  BY <1>p, <1>w
<1>3. /\ written' \in Seq(Seq(Units)) /\ Len(written') = Len(written) + 1
      /\ \A k \in 1 .. Len(written) : written'[k] = written[k]
      /\ written'[Len(written) + 1] = writing
  BY <1>u DEF BufferTypeOK
<1>4. PICK Q \in Seq(Nat) :
         /\ Len(Q) = Len(written) + 2
         /\ \A k \in 1 .. Len(written) + 1 : Q[k] = P[k]
         /\ Q[Len(written) + 2] = H + L
  <2>1. H + L \in Nat /\ Len(P) = Len(written) + 1
    BY <1>1 DEF Places
  <2>2. /\ Append(P, H + L) \in Seq(Nat) /\ Len(Append(P, H + L)) = Len(P) + 1
        /\ \A k \in 1 .. Len(P) : Append(P, H + L)[k] = P[k]
        /\ Append(P, H + L)[Len(P) + 1] = H + L
    BY <2>1
  <2>3. Len(P) + 1 = Len(written) + 2
    BY <2>1, <1>p
  <2> QED BY <2>1, <2>2, <2>3
<1>5. writing \in Seq(Units) /\ Framed(writing)
  BY DEF KernelPublish, BufferTypeOK
<1>6. BufferTypeOK'
  <2>1. \A k \in 1 .. Len(written') : Framed(written'[k])
    <3>1. TAKE k \in 1 .. Len(written')
    <3>2. CASE k = Len(written) + 1
      BY <1>3, <1>5, <3>2
    <3>3. CASE k # Len(written) + 1
      <4>1. k \in 1 .. Len(written)
        BY <1>3, <1>p, <3>3
      <4> QED BY <1>3, <4>1 DEF BufferTypeOK
    <3> QED BY <3>2, <3>3
  <2>2. data_head' \in Nat
    <3>1. data_head' = (data_head + L) % OffsetModulus /\ data_head + L \in Int
      BY <1>2 DEF KernelPublish, Plus, BufferTypeOK
    <3> QED BY <3>1, ModQuotient, BufferConstants
  <2>3. writing' \in Seq(Units) /\ ~(writing' # <<>>)
    BY <1>u
  <2> QED BY <1>u, <1>3, <2>1, <2>2, <2>3 DEF BufferTypeOK, Framed
<1>7. ReaderInv'
  <2>1. Len(records') <= Len(written')
    BY <1>u, <1>p, <1>3
  <2>2. \A k \in 1 .. Len(records') : records'[k] = written'[k]
    <3>1. TAKE k \in 1 .. Len(records')
    <3>2. k \in 1 .. Len(records) /\ k \in 1 .. Len(written)
      BY <1>u, <1>p
    <3> QED BY <1>u, <1>3, <3>2 DEF ReaderInv
  <2>3. reader # "idle" => /\ Len(records) < Len(written)
                           /\ written'[Len(records) + 1] = written[Len(records) + 1]
    <3>1. HAVE reader # "idle"
    <3>2. Len(records) < Len(written)
      BY <3>1 DEF ReaderInv
    <3>3. Len(records) + 1 \in 1 .. Len(written)
      BY <1>p, <3>2
    <3> QED BY <1>3, <3>2, <3>3
  <2>4. reader # "idle" => Len(records) < Len(written')
    BY <2>3, <1>3, <1>p
  <2> QED BY <1>u, <2>1, <2>2, <2>3, <2>4 DEF ReaderInv
<1>8. Places(Q)'
  <2>1. Q \in Seq(Nat) /\ Len(Q) = Len(written') + 1
    BY <1>3, <1>4, <1>p
  <2>2. \A k \in 1 .. Len(written') : Q[k + 1] = Q[k] + Len(written'[k])
    <3>1. TAKE k \in 1 .. Len(written')
    <3>2. CASE k = Len(written) + 1
      <4>1. Q[k] = H /\ Len(written'[k]) = L
        BY <1>2, <1>3, <1>4, <1>w, <3>2
      <4>2. k + 1 = Len(written) + 2
        BY <1>p, <3>2
      <4> QED BY <1>4, <4>1, <4>2
    <3>3. CASE k # Len(written) + 1
      <4>1. k \in 1 .. Len(written) /\ k \in 1 .. Len(written) + 1
            /\ k + 1 \in 1 .. Len(written) + 1
        BY <1>3, <1>p, <3>3
      <4> QED BY <1>3, <1>4, <1>p, <4>1
    <3> QED BY <3>2, <3>3
  <2>3. \A j, k \in 1 .. Len(Q) : j <= k => Q[j] <= Q[k]
    <3>1. SUFFICES ASSUME NEW j \in 1 .. Len(Q), NEW k \in 1 .. Len(Q), j <= k
                   PROVE  Q[j] <= Q[k]
      OBVIOUS
    <3>2. CASE k \in 1 .. Len(written) + 1
      <4>1. j \in 1 .. Len(written) + 1
        BY <3>1, <3>2, <1>p
      <4> QED BY <1>4, <1>p, <3>1, <3>2, <4>1
    <3>3. CASE k = Len(written) + 2 /\ j \in 1 .. Len(written) + 1
      <4>1. Q[j] = P[j] /\ P[j] <= H /\ P[j] \in Nat
        <5>1. Len(written) + 1 \in 1 .. Len(written) + 1 /\ j <= Len(written) + 1
          BY <1>p, <3>3
        <5> QED BY <1>2, <1>4, <1>p, <3>3, <5>1
      <4> QED BY <1>4, <3>3, <4>1
    <3>4. CASE k = Len(written) + 2 /\ j = Len(written) + 2
      BY <1>4, <3>4
    <3>5. k \in 1 .. Len(written) + 1 \/ k = Len(written) + 2
      BY <1>4, <1>p
    <3>6. j \in 1 .. Len(written) + 1 \/ j = Len(written) + 2
      BY <1>4, <1>p
    <3> QED BY <3>2, <3>3, <3>4, <3>5, <3>6
  <2> QED BY <2>1, <2>2, <2>3 DEF Places
<1>t. Len(records) + 1 \in 1 .. Len(written) + 1
  BY <1>p
<1>9. Offsets(Q)'
  <2>1. Q[Len(written') + 1] = H + L /\ Q[Len(records') + 1] = P[Len(records) + 1]
    <3>1. (Len(written) + 1) + 1 = Len(written) + 2
      BY <1>p
    <3> QED BY <1>3, <1>4, <1>t, <1>u, <3>1
  <2>2. (H + L) + Len(writing') <= P[Len(records) + 1] + data_size
    <3>1. Len(writing') = 0
      BY <1>u
    <3> QED BY <1>2, <1>p, <3>1
  <2>3. data_head' = (H + L) % OffsetModulus
    <3>1. data_head = H % OffsetModulus
      BY <1>1, <1>2 DEF Offsets
    <3>2. data_head' = Plus(H % OffsetModulus, L)
      BY <1>2, <3>1 DEF KernelPublish
    <3> QED BY <3>2, PlusIs
  <2>4. Progress' = Progress
    BY <1>u DEF Progress
  <2>5. \E h \in Len(records) + 1 .. Len(written') + 1 :
           /\ view.head = Q[h] % OffsetModulus
           /\ reader # "idle" => h > Len(records) + 1
    <3>1. PICK h \in Len(records) + 1 .. Len(written) + 1 :
             /\ view.head = P[h] % OffsetModulus
             /\ reader # "idle" => h > Len(records) + 1
      BY <1>1 DEF Offsets
    <3>2. h \in 1 .. Len(written) + 1 /\ h \in Len(records) + 1 .. Len(written') + 1
      BY <1>3, <1>p
    <3>3. Q[h] = P[h]
      BY <1>4, <3>2
    <3> QED BY <3>1, <3>2, <3>3
  <2>6. /\ data_tail = P[Len(records) + 1] % OffsetModulus
        /\ view.tail = (P[Len(records) + 1] + Progress) % OffsetModulus
    BY <1>1 DEF Offsets
  <2> QED BY <1>u, <2>1, <2>2, <2>3, <2>4, <2>5, <2>6 DEF Offsets
<1>10. Contents(Q)'
  <2>1. ASSUME NEW k \in Len(records) + 1 .. Len(written'), NEW i \in 1 .. Len(written'[k])
        PROVE  ring[(Q[k] + (i - 1)) % data_size] = written'[k][i]
    <3>1. CASE k = Len(written) + 1
      <4>1. Q[k] = H /\ written'[k] = writing
        BY <1>2, <1>3, <1>4, <1>w, <3>1
      <4>2. i \in 1 .. Len(writing)
        BY <4>1
      <4>3. ring[(H + (i - 1)) % data_size] = writing[i]
        BY <1>1, <1>2, <4>2 DEF Contents
      <4> QED BY <4>1, <4>3
    <3>2. CASE k # Len(written) + 1
      <4>1. k \in Len(records) + 1 .. Len(written) /\ k \in 1 .. Len(written)
            /\ k \in 1 .. Len(written) + 1
        BY <1>3, <1>p, <3>2
      <4>2. Q[k] = P[k] /\ written'[k] = written[k]
        BY <1>3, <1>4, <4>1
      <4>3. i \in 1 .. Len(written[k])
        BY <4>2
      <4>4. ring[(P[k] + (i - 1)) % data_size] = written[k][i]
        BY <1>1, <4>1, <4>3 DEF Contents
      <4> QED BY <4>2, <4>4
    <3> QED BY <3>1, <3>2
  <2>2. 1 .. Len(writing') = {}
    BY <1>u
  <2> QED BY <1>u, <2>1, <2>2 DEF Contents
<1> QED BY <1>6, <1>7, <1>8, <1>9, <1>10

LEMMA GetCurrentViewStep ==
  ASSUME BufferInv, GetCurrentView
  PROVE  BufferInv'
<1> USE DEF BufferInv
<1>1. PICK P \in Seq(Nat) : Places(P) /\ Offsets(P) /\ Contents(P)
  OBVIOUS
<1>u. /\ ring' = ring /\ data_head' = data_head /\ data_tail' = data_tail
      /\ writing' = writing /\ written' = written /\ records' = records
      /\ view' = [head |-> data_head, tail |-> data_tail]
      /\ reader' = "parse" /\ fields' = <<>>
  BY DEF GetCurrentView
<1>p. /\ Len(written) \in Nat /\ Len(records) \in Nat
      /\ Len(records) <= Len(written)
      /\ P[Len(written) + 1] \in Nat /\ P[Len(records) + 1] \in Nat
  BY <1>1, BufferPlaces
<1>2. Len(records) < Len(written)
  <2>1. Distance(data_head, data_tail) = P[Len(written) + 1] - P[Len(records) + 1]
    BY <1>1, BufferDistance
  <2>2. P[Len(written) + 1] - P[Len(records) + 1] >= 1
    BY <2>1 DEF GetCurrentView
  <2>3. P[Len(written) + 1] # P[Len(records) + 1]
    BY <2>2, <1>p
  <2> QED BY <2>3, <1>p
<1>3. Len(fields') = 0 /\ fields' \in Seq(Units)
  BY <1>u
<1>4. BufferTypeOK'
  BY <1>u, <1>3 DEF BufferTypeOK, Framed
<1>5. ReaderInv'
  <2>1. Len(written[Len(records) + 1]) > 0
    <3>1. Len(records) + 1 \in 1 .. Len(written)
      BY <1>2, <1>p
    <3>2. Len(written[Len(records) + 1]) \in RecordSizes
      BY <3>1 DEF BufferTypeOK, Framed
    <3> QED BY <3>2, SizesAreNat
  <2>2. /\ Len(records) <= Len(written)
        /\ \A k \in 1 .. Len(records) : records[k] = written[k]
    BY DEF ReaderInv
  <2> QED BY <1>u, <1>2, <1>3, <2>1, <2>2 DEF ReaderInv
<1>6. Places(P)'
  BY <1>1, <1>u DEF Places
<1>7. Offsets(P)'
  <2>1. Progress' = 0 /\ P[Len(records) + 1] + 0 = P[Len(records) + 1]
    BY <1>u, <1>3, <1>p DEF Progress
  <2>2. /\ P[Len(written) + 1] + Len(writing) <= P[Len(records) + 1] + data_size
        /\ data_head = P[Len(written) + 1] % OffsetModulus
        /\ data_tail = P[Len(records) + 1] % OffsetModulus
    BY <1>1 DEF Offsets
  <2>3. \E h \in Len(records) + 1 .. Len(written) + 1 :
           /\ view'.head = P[h] % OffsetModulus
           /\ h > Len(records) + 1
    <3>1. /\ Len(written) + 1 \in Len(records) + 1 .. Len(written) + 1
          /\ Len(written) + 1 > Len(records) + 1
      BY <1>2, <1>p
    <3> QED BY <1>u, <2>2, <3>1
  <2>4. view'.tail = data_tail
    BY <1>u
  <2> QED BY <1>u, <2>1, <2>2, <2>3, <2>4 DEF Offsets
<1>8. Contents(P)'
  BY <1>1, <1>u DEF Contents
<1> QED BY <1>4, <1>5, <1>6, <1>7, <1>8

(* The field that is read is the next one of the record.                   *)
LEMMA ReadFieldStep ==
  ASSUME BufferInv, ReadField
  PROVE  BufferInv'
<1> USE DEF BufferInv
<1>1. PICK P \in Seq(Nat) : Places(P) /\ Offsets(P) /\ Contents(P)
  OBVIOUS
<1>u. /\ ring' = ring /\ data_head' = data_head /\ data_tail' = data_tail
      /\ writing' = writing /\ written' = written /\ records' = records
      /\ reader = "parse"
      /\ fields' = Append(fields, ring[Offset(view.tail)])
      /\ view' = [view EXCEPT !.tail = Plus(view.tail, 1)]
      /\ reader' = IF Len(fields') = UnitSize(fields'[1]) THEN "commit" ELSE "parse"
  BY DEF ReadField, Peek
<1>p. /\ Len(written) \in Nat /\ Len(records) \in Nat
      /\ Len(records) <= Len(written) /\ P[Len(records) + 1] \in Nat
  BY <1>1, BufferPlaces
<1>2. PICK T \in Nat, f \in Nat : T = P[Len(records) + 1] /\ f = Len(fields)
  BY <1>p DEF BufferTypeOK
<1>3. PICK r \in Seq(Units) : r = written[Len(records) + 1]
  <2>1. Len(records) + 1 \in 1 .. Len(written)
    BY <1>u, <1>p DEF ReaderInv
  <2> QED BY <2>1 DEF BufferTypeOK
<1>4. /\ Len(records) < Len(written) /\ f < Len(r)
      /\ \A i \in 1 .. f : fields[i] = r[i]
  BY <1>u, <1>2, <1>3 DEF ReaderInv
<1>r. Len(records) + 1 \in 1 .. Len(written)
      /\ Len(records) + 1 \in Len(records) + 1 .. Len(written)
  BY <1>4, <1>p
<1>5. Len(r) \in Nat /\ UnitSize(r[1]) = Len(r) /\ f + 1 \in 1 .. Len(r)
  <2>1. Framed(r)
    BY <1>3, <1>r DEF BufferTypeOK
  <2>2. Len(r) \in Nat
    BY <1>3
  <2> QED BY <2>1, <2>2, <1>4 DEF Framed
<1>6. ring[Offset(view.tail)] = r[f + 1]
  <2>1. view.tail = (T + f) % OffsetModulus
    BY <1>1, <1>2, <1>u DEF Offsets, Progress
  <2>2. Offset(view.tail) = (T + f) % data_size
    BY <2>1, OffsetIs
  <2>3. ring[(T + ((f + 1) - 1)) % data_size] = r[f + 1]
    BY <1>1, <1>2, <1>3, <1>5, <1>r DEF Contents
  <2>4. T + ((f + 1) - 1) = T + f
    OBVIOUS
  <2> QED BY <2>2, <2>3, <2>4
<1>7. /\ fields' \in Seq(Units) /\ Len(fields') = f + 1
      /\ \A i \in 1 .. f + 1 : fields'[i] = r[i]
  <2>1. r[f + 1] \in Units
    BY <1>3, <1>5
  <2>2. fields' = Append(fields, r[f + 1]) /\ fields \in Seq(Units)
    BY <1>u, <1>6 DEF BufferTypeOK
  <2>3. /\ fields' \in Seq(Units) /\ Len(fields') = f + 1
        /\ \A i \in 1 .. f : fields'[i] = fields[i]
        /\ fields'[f + 1] = r[f + 1]
    BY <1>2, <2>1, <2>2
  <2>4. \A i \in 1 .. f + 1 : i \in 1 .. f \/ i = f + 1
    OBVIOUS
  <2> QED BY <1>4, <2>3, <2>4
<1>8. reader' = IF f + 1 = Len(r) THEN "commit" ELSE "parse"
  <2>1. 1 \in 1 .. f + 1
    OBVIOUS
  <2>2. fields'[1] = r[1]
    BY <1>7, <2>1
  <2> QED BY <1>u, <1>5, <1>7, <2>2
<1>9. /\ view' \in [head : Nat, tail : Nat] /\ view'.head = view.head
      /\ view'.tail = (T + (f + 1)) % OffsetModulus
  <2>1. view.tail = (T + f) % OffsetModulus /\ view \in [head : Nat, tail : Nat]
    BY <1>1, <1>2, <1>u DEF Offsets, Progress, BufferTypeOK
  <2>2. Plus(view.tail, 1) = ((T + f) + 1) % OffsetModulus
    BY <2>1, PlusIs
  <2>3. (T + f) + 1 = T + (f + 1)
    OBVIOUS
  <2>4. (T + (f + 1)) % OffsetModulus \in Nat
    BY ModQuotient, BufferConstants
  <2> QED BY <1>u, <2>1, <2>2, <2>3, <2>4
<1>10. BufferTypeOK'
  BY <1>u, <1>7, <1>8, <1>9 DEF BufferTypeOK, Framed
<1>11. ReaderInv'
  <2>1. /\ Len(records) <= Len(written)
        /\ \A k \in 1 .. Len(records) : records[k] = written[k]
    BY DEF ReaderInv
  <2>2. IF reader' = "parse" THEN Len(fields') < Len(r) ELSE Len(fields') = Len(r)
    BY <1>5, <1>7, <1>8
  <2>3. \A i \in 1 .. Len(fields') : fields'[i] = r[i]
    BY <1>7
  <2> QED BY <1>u, <1>3, <1>4, <2>1, <2>2, <2>3 DEF ReaderInv
<1>12. Places(P)'
  BY <1>1, <1>u DEF Places
<1>13. Offsets(P)'
  <2>1. Progress' = f + 1
    BY <1>7, <1>8 DEF Progress
  <2>2. \E h \in Len(records) + 1 .. Len(written) + 1 :
           /\ view'.head = P[h] % OffsetModulus
           /\ h > Len(records) + 1
    BY <1>1, <1>9, <1>u DEF Offsets
  <2>3. /\ P[Len(written) + 1] + Len(writing) <= P[Len(records) + 1] + data_size
        /\ data_head = P[Len(written) + 1] % OffsetModulus
        /\ data_tail = P[Len(records) + 1] % OffsetModulus
    BY <1>1 DEF Offsets
  <2> QED BY <1>2, <1>9, <1>u, <2>1, <2>2, <2>3 DEF Offsets
<1>14. Contents(P)'
  BY <1>1, <1>u DEF Contents
<1> QED BY <1>10, <1>11, <1>12, <1>13, <1>14

LEMMA CommitReadsStep ==
  ASSUME BufferInv, CommitReads
  PROVE  BufferInv'
<1> USE DEF BufferInv
<1>1. PICK P \in Seq(Nat) : Places(P) /\ Offsets(P) /\ Contents(P)
  OBVIOUS
<1>u. /\ ring' = ring /\ data_head' = data_head /\ view' = view
      /\ writing' = writing /\ written' = written /\ fields' = fields
      /\ reader = "commit" /\ reader' = "idle"
      /\ data_tail' = view.tail /\ records' = Append(records, fields)
  BY DEF CommitReads
<1>p. /\ Len(written) \in Nat /\ Len(records) \in Nat /\ Len(writing) \in Nat
      /\ Len(records) <= Len(written) /\ P[Len(records) + 1] \in Nat
      /\ P[Len(written) + 1] \in Nat
      /\ \A k \in 1 .. Len(written) : Len(written[k]) \in Nat /\ P[k + 1] = P[k] + Len(written[k])
  BY <1>1, BufferPlaces
<1>2. Len(records) < Len(written) /\ Len(records) + 1 \in 1 .. Len(written)
  <2>1. Len(records) < Len(written)
    BY <1>u DEF ReaderInv
  <2> QED BY <2>1, <1>p
<1>3. PICK r \in Seq(Units) : r = written[Len(records) + 1]
  BY <1>2 DEF BufferTypeOK
<1>4. fields = r
  <2>1. Len(fields) = Len(r) /\ \A i \in 1 .. Len(fields) : fields[i] = r[i]
    BY <1>u, <1>3 DEF ReaderInv
  <2>2. fields \in Seq(Units)
    BY DEF BufferTypeOK
  <2> QED BY <2>1, <2>2, SeqEqual
<1>5. PICK T \in Nat, f \in Nat : T = P[Len(records) + 1] /\ f = Len(r)
  BY <1>p
<1>6. P[Len(records) + 2] = T + f
  <2>1. (Len(records) + 1) + 1 = Len(records) + 2
    BY <1>p
  <2> QED BY <1>p, <1>2, <1>3, <1>5, <2>1
<1>7. /\ records' \in Seq(Seq(Units)) /\ Len(records') = Len(records) + 1
      /\ \A k \in 1 .. Len(records) : records'[k] = records[k]
      /\ records'[Len(records) + 1] = r
  <2>1. records' = Append(records, r) /\ records \in Seq(Seq(Units))
    BY <1>u, <1>4 DEF BufferTypeOK
  <2> QED BY <2>1
<1>t. Len(records') + 1 = Len(records) + 2
  BY <1>7, <1>p
<1>8. BufferTypeOK'
  BY <1>u, <1>7 DEF BufferTypeOK, Framed
<1>9. ReaderInv'
  <2>1. Len(records') <= Len(written')
    BY <1>u, <1>7, <1>2, <1>p
  <2>2. ASSUME NEW k \in 1 .. Len(records') PROVE records'[k] = written[k]
    <3>1. CASE k = Len(records) + 1
      BY <1>3, <1>7, <3>1
    <3>2. CASE k # Len(records) + 1
      <4>1. k \in 1 .. Len(records)
        BY <1>7, <1>p, <3>2
      <4> QED BY <1>7, <4>1 DEF ReaderInv
    <3> QED BY <3>1, <3>2
  <2> QED BY <1>u, <2>1, <2>2 DEF ReaderInv
<1>10. Places(P)'
  BY <1>1, <1>u DEF Places
<1>11. Offsets(P)'
  <2>1. view.tail = (T + f) % OffsetModulus
    <3>1. Progress = f
      BY <1>u, <1>4, <1>5 DEF Progress
    <3> QED BY <1>1, <1>5, <3>1 DEF Offsets
  <2>2. Progress' = 0 /\ (T + f) + 0 = T + f
    BY <1>u DEF Progress
  <2>3. \E h \in Len(records') + 1 .. Len(written) + 1 : view.head = P[h] % OffsetModulus
    <3>1. PICK h \in Len(records) + 1 .. Len(written) + 1 :
             view.head = P[h] % OffsetModulus /\ h > Len(records) + 1
      BY <1>1, <1>u DEF Offsets
    <3>2. h \in Len(records') + 1 .. Len(written) + 1
      BY <1>t, <1>p, <3>1
    <3> QED BY <3>1, <3>2
  <2>4. P[Len(written) + 1] + Len(writing) <= (T + f) + data_size
    <3>1. P[Len(written) + 1] + Len(writing) <= T + data_size
      BY <1>1, <1>5 DEF Offsets
    <3> QED BY <3>1, <1>p, BufferConstants
  <2>5. data_head = P[Len(written) + 1] % OffsetModulus
    BY <1>1 DEF Offsets
  <2>6. P[Len(records') + 1] = T + f
    BY <1>6, <1>t
  <2> QED BY <1>u, <2>1, <2>2, <2>3, <2>4, <2>5, <2>6 DEF Offsets
<1>12. Contents(P)'
  <2>1. \A k \in Len(records') + 1 .. Len(written) : k \in Len(records) + 1 .. Len(written)
    BY <1>7, <1>p
  <2> QED BY <1>1, <1>u, <2>1 DEF Contents
<1> QED BY <1>8, <1>9, <1>10, <1>11, <1>12

(* Nothing is cut off by the view, and nothing overruns the buffer.        *)
LEMMA BufferInvImplies ==
  BufferInv => RecordsInOrder
<1> SUFFICES ASSUME BufferInv PROVE RecordsInOrder
  OBVIOUS
<1> USE DEF BufferInv
<1>1. PICK P \in Seq(Nat) : Places(P) /\ Offsets(P) /\ Contents(P)
  OBVIOUS
<1>p. /\ Len(written) \in Nat /\ Len(records) \in Nat /\ Len(writing) \in Nat
      /\ Len(records) <= Len(written)
      /\ \A k \in 1 .. Len(written) + 1 : P[k] \in Nat
      /\ \A j, k \in 1 .. Len(written) + 1 : j <= k => P[j] <= P[k]
      /\ \A k \in 1 .. Len(written) : Len(written[k]) \in Nat /\ P[k + 1] = P[k] + Len(written[k])
  BY <1>1, BufferPlaces
<1>2. PICK H \in Nat, T \in Nat :
         /\ H = P[Len(written) + 1] /\ T = P[Len(records) + 1] /\ T <= H
         /\ H <= T + data_size
  <2> DEFINE h == P[Len(written) + 1]
             t == P[Len(records) + 1]
  <2>1. h \in Nat /\ t \in Nat /\ t <= h /\ h + Len(writing) <= t + data_size
    BY <1>1, BufferPlaces
  <2> HIDE DEF h, t
  <2>2. h <= t + data_size
    BY <2>1, <1>p, BufferConstants
  <2> QED BY <2>1, <2>2 DEF h, t
<1>3. PICK f \in Nat : f = Progress
  BY DEF Progress, BufferTypeOK
<1>4. PICK h \in Len(records) + 1 .. Len(written) + 1 :
         /\ view.head = P[h] % OffsetModulus
         /\ reader # "idle" => h > Len(records) + 1
  BY <1>1 DEF Offsets
<1>5. PICK V \in Nat : V = P[h] /\ V <= H
  <2>1. /\ h \in 1 .. Len(written) + 1 /\ h <= Len(written) + 1
        /\ Len(written) + 1 \in 1 .. Len(written) + 1
    BY <1>p
  <2> QED BY <1>p, <1>2, <2>1
<1>6. /\ T + f <= V
      /\ reader = "parse" => T + f < V
  <2>1. CASE reader = "idle"
    <3>1. f = 0
      BY <1>3, <2>1 DEF Progress
    <3>2. /\ h \in 1 .. Len(written) + 1 /\ Len(records) + 1 <= h
          /\ Len(records) + 1 \in 1 .. Len(written) + 1
      BY <1>p
    <3>3. T <= V
      BY <1>p, <1>2, <1>5, <3>2
    <3> QED BY <2>1, <3>1, <3>3
  <2>2. CASE reader # "idle"
    <3>1. Len(records) < Len(written) /\ f = Len(fields)
      BY <1>3, <2>2 DEF ReaderInv, Progress
    <3>2. /\ Len(records) + 1 \in 1 .. Len(written)
          /\ (Len(records) + 1) + 1 \in 1 .. Len(written) + 1
          /\ h \in 1 .. Len(written) + 1 /\ (Len(records) + 1) + 1 <= h
      BY <1>p, <1>4, <2>2, <3>1
    <3>3. PICK l \in Nat : l = Len(written[Len(records) + 1]) /\ T + l <= V
      BY <1>p, <1>2, <1>5, <3>2
    <3>4. f <= l /\ (reader = "parse" => f < l)
      BY <2>2, <3>1, <3>3 DEF ReaderInv
    <3> QED BY <3>3, <3>4
  <2> QED BY <2>1, <2>2
<1>b. PICK ds \in Nat, M \in Nat, g \in Nat :
         /\ ds = data_size /\ M = OffsetModulus /\ ds < M /\ g = T + f
  BY BufferConstants
<1>a. g <= V /\ V <= H /\ H <= g + ds
  <2>1. g <= V /\ V <= H /\ H <= T + ds /\ g = T + f
    BY <1>2, <1>5, <1>6, <1>b
  <2> QED BY <2>1
<1>c. /\ 0 <= V - g /\ V - g <= ds /\ V - g < M
      /\ 0 <= H - g /\ H - g <= ds /\ H - g < M
  BY <1>a, <1>b
<1>7. view.tail = (T + f) % OffsetModulus /\ data_head = H % OffsetModulus
  BY <1>1, <1>2, <1>3 DEF Offsets
<1>d. /\ Distance(V % OffsetModulus, g % OffsetModulus) = V - g
      /\ Distance(H % OffsetModulus, g % OffsetModulus) = H - g
  <2>1. V - g < OffsetModulus /\ H - g < OffsetModulus
    BY <1>b, <1>c
  <2>2. Distance(V % OffsetModulus, g % OffsetModulus) = V - g
    BY <1>c, <2>1, DistanceIs
  <2>3. Distance(H % OffsetModulus, g % OffsetModulus) = H - g
    BY <1>c, <2>1, DistanceIs
  <2> QED BY <2>2, <2>3
<1>8. ViewSize = V - g
  BY <1>4, <1>5, <1>7, <1>b, <1>d DEF ViewSize
<1>9. ViewSize <= data_size /\ (reader = "parse" => ViewSize >= 1)
  <2>1. reader = "parse" => V - g >= 1
    <3>1. reader = "parse" => g < V
      BY <1>6, <1>b
    <3> QED BY <3>1
  <2> QED BY <1>8, <1>b, <1>c, <2>1
<1>10. Distance(data_head, view.tail) <= data_size
  <2>1. Distance(data_head, view.tail) = H - g
    BY <1>7, <1>b, <1>d
  <2> QED BY <1>b, <1>c, <2>1
<1>11. Distance(data_head, data_tail) <= data_size
  <2>1. Distance(data_head, data_tail) = H - T
    BY <1>1, <1>2, BufferDistance
  <2>2. H - T <= data_size
    BY <1>2, BufferConstants
  <2> QED BY <2>1, <2>2
<1>12. records = SubSeq(written, 1, Len(records))
  <2> DEFINE s == SubSeq(written, 1, Len(records))
  <2>1. written \in Seq(Seq(Units)) /\ records \in Seq(Seq(Units))
    BY DEF BufferTypeOK
  <2>2. s \in Seq(Seq(Units)) /\ Len(s) = Len(records)
        /\ \A k \in 1 .. Len(records) : s[k] = written[k]
    BY <2>1, <1>p
  <2>3. \A k \in 1 .. Len(records) : records[k] = written[k]
    BY DEF ReaderInv
  <2> HIDE DEF s
  <2>4. records = s
    BY <2>1, <2>2, <2>3, SeqEqual
  <2> QED BY <2>4 DEF s
<1> QED BY <1>9, <1>10, <1>11, <1>12 DEF RecordsInOrder

LEMMA BufferStep ==
  ASSUME BufferInv, [BufferNext]_bufferVars
  PROVE  BufferInv'
<1>1. CASE \E size \in RecordSizes : KernelWrite(size)
  BY <1>1, KernelWriteStep
<1>2. CASE KernelPublish
  BY <1>2, KernelPublishStep
<1>3. CASE GetCurrentView
  BY <1>3, GetCurrentViewStep
<1>4. CASE ReadField
  BY <1>4, ReadFieldStep
<1>5. CASE CommitReads
  BY <1>5, CommitReadsStep
<1>6. CASE UNCHANGED bufferVars
  <2>1. /\ ring' = ring /\ data_head' = data_head /\ data_tail' = data_tail
        /\ view' = view /\ reader' = reader /\ fields' = fields
        /\ writing' = writing /\ written' = written /\ records' = records
    BY <1>6 DEF bufferVars
  <2>2. BufferTypeOK'
    BY <2>1 DEF BufferInv, BufferTypeOK, Framed
  <2>3. ReaderInv'
    BY <2>1 DEF BufferInv, ReaderInv
  <2>4. PICK P \in Seq(Nat) : Places(P) /\ Offsets(P) /\ Contents(P)
    BY DEF BufferInv
  <2>5. Places(P)' /\ Contents(P)'
    BY <2>1, <2>4 DEF Places, Contents
  <2>6. Progress' = Progress
    BY <2>1 DEF Progress
  <2>7. Offsets(P)'
    BY <2>1, <2>4, <2>6 DEF Offsets
  <2> QED BY <2>2, <2>3, <2>5, <2>7 DEF BufferInv
<1> QED BY <1>1, <1>2, <1>3, <1>4, <1>5, <1>6 DEF BufferNext

(* What the reader of the perf event buffer returns is what the kernel     *)
(* wrote, record by record and in the order it was written, for every size *)
(* of the buffer and every modulus of the offsets that it divides.         *)
THEOREM RecordsAreInOrder == BufferSpec => []RecordsInOrder
<1>1. BufferInit => BufferInv
  BY BufferInitInv
<1>2. BufferInv /\ [BufferNext]_bufferVars => BufferInv'
  BY BufferStep
<1>3. BufferInv => RecordsInOrder
  BY BufferInvImplies
<1> QED BY <1>1, <1>2, <1>3, PTL DEF BufferSpec

=============================================================================
