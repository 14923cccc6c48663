--------------------------- MODULE FuzzingProofs ---------------------------
(***************************************************************************)
(* Proofs about the two ends of a fuzzing step: ProgramMutator, which makes*)
(* an input, and RunnerDriver, which says what became of a run.            *)
(*                                                                         *)
(* RunnerDriver, for a corpus of any size, any number of iterations,       *)
(* attempts and pages: RunnerDriverInv is shown to be inductive in two     *)
(* halves, the steps of the runner process, conjunct by conjunct, and those*)
(* of the driver.                                                          *)
(*                                                                         *)
(* ProgramMutator, for any inputs, instructions, number of edits and       *)
(* maximal length: MutatorInv is shown to be inductive.  The edits keep a  *)
(* program sound.  A pass of FixupEncodedDisplacements leaves what it has  *)
(* passed in place; a pass in which something moved has brought an         *)
(* instruction to its canonical size, which is why the passes are bounded; *)
(* and after one in which nothing moved every branch is right, which is why*)
(* the bytes decode to the program.                                        *)
(***************************************************************************)
EXTENDS RunnerDriver, ProgramMutator, SpanUtilProofs, FiniteSetTheorems, TLAPS

-----------------------------------------------------------------------------
(* RunnerDriver: type correctness                                            *)

LEMMA AppendFacts ==
  ASSUME NEW S, NEW s \in Seq(S), NEW e \in S
  PROVE  /\ Append(s, e) \in Seq(S)
         /\ Len(Append(s, e)) = Len(s) + 1
         /\ \A i \in 1..Len(s) : Append(s, e)[i] = s[i]
         /\ Append(s, e)[Len(s) + 1] = e
         /\ DOMAIN s = 1..Len(s)
         /\ DOMAIN Append(s, e) = 1..(Len(s) + 1)
         /\ Len(s) \in Nat
  OBVIOUS

LEMMA CorpusFacts ==
  ASSUME RunnerTypeOK
  PROVE  /\ Len(Corpus) \in 1..NumSnaps
         /\ DOMAIN Corpus = 1..Len(Corpus)
         /\ \A i \in 1..Len(Corpus) : Corpus[i] \in Snaps
         /\ RunsToDo \in 0..(NumIterations + NumSnaps)
         /\ mode \in {"run", "sequential", "make"}
<1>0. NumSnaps \in Nat /\ NumSnaps > 0 /\ NumIterations \in Nat
  BY RunnerAssumption
<1>1. mode \in {"run", "sequential", "make"}
  BY RunnerAssumption DEF RunnerTypeOK
<1>2. CASE snap_id = NoSnap
  <2>1. Corpus = [i \in 1..NumSnaps |-> i]
    BY <1>2 DEF Corpus, Snaps
  <2>2. Len(Corpus) = NumSnaps /\ DOMAIN Corpus = 1..NumSnaps
    BY <1>0, <2>1
  <2> QED BY <1>0, <1>1, <2>1, <2>2 DEF RunsToDo, Snaps
<1>3. CASE snap_id # NoSnap
  <2>1. Corpus = <<snap_id>> /\ snap_id \in Snaps
    BY <1>3 DEF Corpus, RunnerTypeOK
  <2>2. Len(Corpus) = 1 /\ DOMAIN Corpus = 1..1 /\ Corpus[1] = snap_id
    BY <2>1
  <2> QED BY <1>0, <1>1, <2>1, <2>2 DEF RunsToDo
<1> QED BY <1>2, <1>3

\* The types that the prover checks at once.
SimpleTypes ==
    /\ mode \in Modes
    /\ snap_id \in Snaps \cup {NoSnap}
    /\ pc \in RunnerStates
    /\ snap \in Snaps \cup {NoSnap}
    /\ enter_snap_context \in BOOLEAN
    /\ runner_return_context \in {"none", "stale", "current"}
    /\ context_snap \in Snaps \cup {NoSnap}
    /\ signal_context \in {"none", "SIGXCPU", "SIGTERM"} \cup Faults
    /\ exit_state \in {"match", "regs", "memory"}
    /\ timeouts_blocked \in BOOLEAN
    /\ pc = "dead" <=> ~Running
    /\ snap_end \in {"none", "executing", "match", "regs", "memory"} \cup Faults
    /\ entered \in Snaps \cup {NoSnap}
    /\ received \subseteq Timeouts \cup {"SIGTERM"}

-----------------------------------------------------------------------------
(* The steps of the runner, by what they do to the state                     *)

\* The process ends, by returning from main, by a signal or by the handler.
EndsFrame ==
    /\ pc # "dead" /\ pc' = "dead" /\ ~Running'
    /\ UNCHANGED <<mode, snap_id, snap_execution_count, snap,
                   runner_return_context, context_snap, exit_state,
                   added_page_addresses, entered>>

EndsFlags ==
    \/ UNCHANGED <<enter_snap_context, timeouts_blocked, signal_context>>
    \/ /\ enter_snap_context' = FALSE
       /\ timeouts_blocked' = TRUE
       /\ signal_context' \in {"SIGXCPU", "SIGTERM"} \cup Faults
       /\ signal_context' \in {"SIGXCPU", "SIGTERM"} => signal_context' \in received'
       /\ signal_context' \in Faults => snap_end' \in Faults

EndsHistory ==
    /\ UNCHANGED snap_end \/ (pc = "snap" /\ snap_end' \in Faults)
    /\ received' = received \/ \E sig \in Timeouts \cup {"SIGTERM"} :
                                  received' = received \cup {sig}

EndsOutput ==
    \/ UNCHANGED stdout
    \/ \E code \in Codes \ {"kOk"} : Log("execution_result", code)

EndsStatus ==
    /\ Exited(0)' => /\ UNCHANGED <<stdout, snap_end>>
                     /\ pc = "init" \/ (pc = "return" /\ AllPassed)
    /\ Exited(2)' => received' \cap Timeouts # {}

Ends == EndsFrame /\ EndsFlags /\ EndsHistory /\ EndsOutput /\ EndsStatus

\* The handler blames a signal on the snap and goes back to RunSnap.
Blames ==
    /\ enter_snap_context
    /\ enter_snap_context' = FALSE
    /\ pc # "dead" /\ pc' = "resume"
    /\ snap' \in {snap, context_snap}
    /\ timeouts_blocked' = TRUE
    /\ runner_return_context # "none"
    /\ UNCHANGED <<mode, snap_id, snap_execution_count, runner_return_context,
                   context_snap, exit_state, added_page_addresses, stdout,
                   status, entered>>
    /\ \/ /\ signal_context' \in {"SIGXCPU", "SIGTERM"}
          /\ received' = received \cup {signal_context'}
          /\ UNCHANGED snap_end
       \/ /\ signal_context' \in Faults
          /\ pc = "snap"
          /\ snap_end' = signal_context'
          /\ UNCHANGED received

PlainStep ==
    \/ InstallSigHandler \/ NextSnap \/ EnterRunSnap \/ SaveUContext \/ Resume
    \/ SnapEnds \/ RunnerReentry \/ LogSnapRunResult \/ LogExecutionResult
    \/ VerifySnapChecksums /\ pc' = "result"
    \/ \E page \in Pages : SnapTouchesPage(page)

\* What HandleSignal does, whoever sent the signal.
LEMMA HandlerCases ==
  ASSUME SimpleTypes, NEW sig \in {"SIGXCPU", "SIGTERM"} \cup Faults,
         HandleSignal(sig)
  PROVE  /\ UNCHANGED <<mode, snap_id, snap_execution_count,
                        runner_return_context, context_snap, exit_state,
                        added_page_addresses>>
         /\ \/ /\ enter_snap_context
               /\ ~enter_snap_context' /\ enter_snap_context' \in BOOLEAN
               /\ timeouts_blocked' = TRUE
               /\ signal_context' = sig
               /\ \/ /\ pc' = "resume" /\ runner_return_context # "none"
                     /\ snap' \in {snap, context_snap}
                     /\ UNCHANGED <<status, stdout>>
                  \/ /\ pc' = "dead" /\ snap' = snap
                     /\ ~Running' /\ ~Exited(0)' /\ ~Exited(2)'
                     /\ \/ UNCHANGED stdout
                        \/ \E code \in Codes \ {"kOk"} : Log("execution_result", code)
            \/ /\ ~enter_snap_context
               /\ UNCHANGED <<enter_snap_context, timeouts_blocked,
                              signal_context, snap>>
               /\ pc' = "dead" /\ ~Running' /\ ~Exited(0)'
               /\ Exited(2)' => sig = "SIGXCPU"
               /\ \/ UNCHANGED stdout
                  \/ \E code \in Codes \ {"kOk"} : Log("execution_result", code)
<1>0. "kUnhandledSignal" \in Codes \ {"kOk"}
  BY DEF Codes
<1>1. CASE IsInsideSnap /\ RunnerReentryFromSignal(sig)
  <2>1. CASE pc' = "resume"
    BY <1>1, <2>1 DEF RunnerReentryFromSignal, IsInsideSnap, optionVars
  <2>2. CASE pc' = "dead"
    <3>1. /\ snap' = snap
          /\ \/ status' = <<"signal", "SIGSEGV">> /\ UNCHANGED stdout
             \/ status' = <<"exit", 1>> /\ Log("execution_result", "kUnhandledSignal")
      BY <1>1, <2>2 DEF RunnerReentryFromSignal
    <3>2. ~Running' /\ ~Exited(0)' /\ ~Exited(2)'
      BY <3>1 DEF Running, Exited
    <3>3. \/ UNCHANGED stdout
          \/ \E code \in Codes \ {"kOk"} : Log("execution_result", code)
      BY <1>0, <3>1
    <3>4. /\ UNCHANGED <<mode, snap_id, snap_execution_count,
                         runner_return_context, context_snap, exit_state,
                         added_page_addresses>>
          /\ ~enter_snap_context' /\ enter_snap_context' \in BOOLEAN
          /\ timeouts_blocked' = TRUE /\ signal_context' = sig
      BY <1>1 DEF RunnerReentryFromSignal, optionVars
    <3> QED BY <1>1, <2>2, <3>1, <3>2, <3>3, <3>4 DEF IsInsideSnap
  <2> QED BY <1>1, <2>1, <2>2 DEF RunnerReentryFromSignal
<1>2. CASE ~IsInsideSnap
  BY <1>0, <1>2 DEF HandleSignal, IsInsideSnap, Die, optionVars, snapVars,
                    Running, Exited
<1> QED BY <1>1, <1>2 DEF HandleSignal

\* Die, in whatever way the process was ended.
LEMMA DieEnds ==
  ASSUME NEW kind, NEW value, Die(kind, value),
         pc # "dead", <<kind, value>> # <<"running", 0>>,
         UNCHANGED entered, EndsHistory, EndsOutput, EndsStatus
  PROVE  Ends
<1>1. EndsFrame
  BY DEF Die, EndsFrame, Running, optionVars, snapVars
<1>2. EndsFlags
  BY DEF Die, EndsFlags, snapVars
<1> QED BY <1>1, <1>2 DEF Ends

LEMMA HandlerEnds ==
  ASSUME SimpleTypes, NEW sig \in {"SIGXCPU", "SIGTERM"} \cup Faults,
         HandleSignal(sig), pc # "dead", pc' = "dead", UNCHANGED entered,
         EndsHistory,
         sig \in {"SIGXCPU", "SIGTERM"} => sig \in received',
         enter_snap_context /\ sig \in Faults => snap_end' \in Faults
  PROVE  Ends
<1>1. EndsFrame
  BY HandlerCases DEF EndsFrame
<1>2. EndsFlags
  BY HandlerCases DEF EndsFlags
<1>3. EndsOutput
  BY HandlerCases DEF EndsOutput
<1>4. EndsStatus
  <2>1. ~Exited(0)' /\ (Exited(2)' => sig = "SIGXCPU")
    BY HandlerCases
  <2>2. "SIGXCPU" \in Timeouts
    BY DEF Timeouts
  <2> QED BY <2>1, <2>2 DEF EndsStatus
<1> QED BY <1>1, <1>2, <1>3, <1>4 DEF Ends

LEMMA HandlerBlames ==
  ASSUME SimpleTypes, NEW sig \in {"SIGXCPU", "SIGTERM"} \cup Faults,
         HandleSignal(sig), pc # "dead", pc' # "dead", UNCHANGED entered,
         \/ /\ sig \in {"SIGXCPU", "SIGTERM"}
            /\ received' = received \cup {sig}
            /\ UNCHANGED snap_end
         \/ /\ sig \in Faults
            /\ pc = "snap"
            /\ snap_end' = sig
            /\ UNCHANGED received
  PROVE  Blames
BY HandlerCases DEF Blames

LEMMA StepKinds ==
  ASSUME SimpleTypes, ControlInv, RunnerNext
  PROVE  Ends \/ Blames \/ PlainStep
<1>0. /\ "SIGXCPU" \in {"SIGXCPU", "SIGTERM"} \cup Faults
      /\ "SIGTERM" \in {"SIGXCPU", "SIGTERM"} \cup Faults
      /\ "SIGSEGV" \in {"SIGXCPU", "SIGTERM"} \cup Faults
      /\ "SIGXCPU" \in Timeouts /\ "SIGXCPU" \notin Faults /\ "SIGTERM" \notin Faults
  BY DEF Faults, Timeouts
<1>D. /\ <<"exit", 0>> # <<"running", 0>> /\ <<"exit", 1>> # <<"running", 0>>
      /\ <<"exit", 2>> # <<"running", 0>>
      /\ \A s : <<"signal", s>> # <<"running", 0>>
  OBVIOUS
<1>R. pc # "dead" <=> Running
  BY DEF SimpleTypes
<1>1. CASE EmptyCorpus
  <2>1. Die("exit", 0) /\ UNCHANGED <<stdout, snap_end, entered, received>> /\ pc = "init"
    BY <1>1 DEF EmptyCorpus
  <2>2. EndsHistory /\ EndsOutput
    BY <2>1 DEF EndsHistory, EndsOutput
  <2>3. EndsStatus
    BY <2>1 DEF EndsStatus, Die, Exited
  <2> QED BY <1>D, <2>1, <2>2, <2>3, DieEnds
<1>2. CASE StartupFails
  <2>1. Die("exit", 1) /\ UNCHANGED <<snap_end, entered, received>> /\ pc = "init"
    BY <1>2 DEF StartupFails
  <2>2. {"kOverlappingMappings", "kMmapFailed", "kInitialChecksumMismatch"}
          \subseteq Codes \ {"kOk"}
    BY DEF Codes
  <2>3. EndsOutput
    BY <1>2, <2>2 DEF StartupFails, EndsOutput
  <2>4. EndsStatus
    BY <2>1 DEF EndsStatus, Die, Exited
  <2> QED BY <1>D, <2>1, <2>3, <2>4, DieEnds DEF EndsHistory
<1>3. CASE ReturnFromMain
  <2>1. Die("exit", IF AllPassed THEN 0 ELSE 1) /\ pc = "return"
        /\ UNCHANGED <<stdout, snap_end, entered, received>>
    BY <1>3 DEF ReturnFromMain
  <2>2. EndsHistory /\ EndsOutput
    BY <2>1 DEF EndsHistory, EndsOutput
  <2>3. EndsStatus
    BY <2>1 DEF EndsStatus, Die, Exited
  <2> QED BY <1>D, <2>1, <2>2, <2>3, DieEnds
<1>4. CASE SnapMakesSyscall \/ KilledFromOutside
  <2>1. PICK sig : Die("signal", sig)
    BY <1>4 DEF SnapMakesSyscall, KilledFromOutside
  <2>2. UNCHANGED <<stdout, snap_end, entered, received>> /\ pc # "dead"
    BY <1>4, <1>R DEF SnapMakesSyscall, KilledFromOutside
  <2>3. EndsHistory /\ EndsOutput
    BY <2>2 DEF EndsHistory, EndsOutput
  <2>4. EndsStatus
    BY <2>1 DEF EndsStatus, Die, Exited
  <2> QED BY <1>D, <2>1, <2>2, <2>3, <2>4, DieEnds
<1>5. CASE VerifySnapChecksums
  <2>1. CASE HandleSignal("SIGSEGV")
    <3>1. pc = "checksum" /\ ~enter_snap_context
      BY <1>5 DEF VerifySnapChecksums, ControlInv
    <3>2. EndsHistory /\ UNCHANGED entered
      BY <1>5 DEF VerifySnapChecksums, EndsHistory
    <3>3. pc' = "dead"
      BY <1>0, <2>1, <3>1, HandlerCases
    <3> QED BY <1>0, <2>1, <3>1, <3>2, <3>3, HandlerEnds
  <2> QED BY <1>5, <2>1 DEF VerifySnapChecksums, PlainStep
<1>6. ASSUME NEW sig \in {"SIGTERM"} \cup Timeouts, DefaultAction(sig),
             UNCHANGED <<snap_end, entered>>
      PROVE  Ends
  <2>1. Die("signal", sig) /\ UNCHANGED <<stdout, received>> /\ pc = "init"
    BY <1>6 DEF DefaultAction
  <2>2. EndsHistory /\ EndsOutput
    BY <1>6, <2>1 DEF EndsHistory, EndsOutput
  <2>3. EndsStatus
    BY <2>1 DEF EndsStatus, Die, Exited
  <2> QED BY <1>D, <1>6, <2>1, <2>2, <2>3, DieEnds
<1>7. ASSUME NEW sig \in {"SIGXCPU", "SIGTERM"}, HandleSignal(sig), Running,
             received' = received \cup {sig}, UNCHANGED <<snap_end, entered>>
      PROVE  Ends \/ Blames
  <2>1. sig \in {"SIGXCPU", "SIGTERM"} \cup Faults /\ sig \notin Faults
        /\ sig \in Timeouts \cup {"SIGTERM"}
    BY <1>0, <1>7
  <2>2. EndsHistory
    BY <1>7, <2>1 DEF EndsHistory
  <2> QED BY <1>7, <1>R, <2>1, <2>2, HandlerEnds, HandlerBlames
<1>8. CASE DeliverSigterm
  <2> QED BY <1>8, <1>6, <1>7 DEF DeliverSigterm
<1>9. ASSUME NEW sig \in Faults, SnapFaults(sig)
      PROVE  Ends \/ Blames
  <2>1. sig \in {"SIGXCPU", "SIGTERM"} \cup Faults /\ sig \notin {"SIGXCPU", "SIGTERM"}
    BY <1>9 DEF Faults
  <2>2. HandleSignal(sig) /\ pc = "snap" /\ snap_end' = sig
        /\ UNCHANGED <<entered, received>>
    BY <1>9 DEF SnapFaults
  <2>3. EndsHistory
    BY <1>9, <2>2 DEF EndsHistory
  <2> QED BY <1>9, <2>1, <2>2, <2>3, HandlerEnds, HandlerBlames
<1>10. ASSUME NEW sig \in Timeouts, DeliverTimeout(sig)
       PROVE  Ends \/ Blames
  <2>0. Running /\ UNCHANGED <<snap_end, entered>>
    BY <1>10 DEF DeliverTimeout
  <2>1. CASE HandleSignal(sig) /\ sig # "SIGALRM" /\ received' = received \cup {sig}
    <3>1. sig \in {"SIGXCPU", "SIGTERM"}
      BY <1>10, <2>1 DEF Timeouts
    <3> QED BY <1>7, <2>0, <2>1, <3>1
  <2>2. CASE DefaultAction(sig)
    BY <1>6, <1>10, <2>0, <2>2
  <2>3. CASE Die("exit", 2) /\ UNCHANGED stdout /\ received' = received \cup {sig}
    <3>1. EndsHistory /\ EndsOutput
      BY <1>10, <2>0, <2>3 DEF EndsHistory, EndsOutput
    <3>2. EndsStatus
      BY <1>10, <2>3 DEF EndsStatus, Die, Exited
    <3> QED BY <1>D, <1>R, <2>0, <2>3, <3>1, <3>2, DieEnds
  <2> QED BY <1>10, <2>1, <2>2, <2>3 DEF DeliverTimeout
<1> QED
  BY <1>1, <1>2, <1>3, <1>4, <1>5, <1>8, <1>9, <1>10
     DEF RunnerNext, RunnerStep, SnapStep, Outside, PlainStep

-----------------------------------------------------------------------------
(* Type correctness                                                          *)

\* The checksums that are verified without a fault.
LEMMA ChecksumLogged ==
  ASSUME SimpleTypes, VerifySnapChecksums, pc' = "result"
  PROVE  /\ pc = "checksum"
         /\ \E ok \in BOOLEAN : Log("postfailure_checksum_status", ok)
         /\ UNCHANGED <<mode, snap_id, snap_execution_count, snap,
                        enter_snap_context, runner_return_context, context_snap,
                        signal_context, exit_state, timeouts_blocked,
                        added_page_addresses, status, snap_end, entered, received>>
<1>1. ~HandleSignal("SIGSEGV")
  BY HandlerCases DEF Faults
<1> QED BY <1>1 DEF VerifySnapChecksums, optionVars, snapVars

LEMMA ScheduledAreSnaps ==
  ASSUME RunnerTypeOK, snap_execution_count < RunsToDo
  PROVE  ScheduledSnaps \subseteq Snaps
<1>1. /\ mode \in {"run", "sequential", "make"}
      /\ snap_execution_count \in Nat /\ Len(Corpus) \in Nat /\ 1 <= Len(Corpus)
      /\ DOMAIN Corpus = 1..Len(Corpus)
      /\ \A i \in 1..Len(Corpus) : Corpus[i] \in Snaps
  BY CorpusFacts DEF RunnerTypeOK
<1>2. mode = "sequential" => snap_execution_count + 1 \in 1..Len(Corpus)
  BY <1>1 DEF RunsToDo
<1>3. 1 \in 1..Len(Corpus)
  BY <1>1
<1> QED BY <1>1, <1>2, <1>3 DEF ScheduledSnaps

LEMMA SimpleTypesStep ==
  ASSUME RunnerTypeOK, ControlInv, RunnerNext
  PROVE  SimpleTypes'
<1>0. SimpleTypes
  BY DEF SimpleTypes, RunnerTypeOK
<1>1. CASE Ends
  <2>1. EndsFrame /\ EndsFlags /\ EndsHistory
    BY <1>1 DEF Ends
  <2>2. received' \subseteq Timeouts \cup {"SIGTERM"}
    BY <1>0, <2>1 DEF EndsHistory, SimpleTypes
  <2>3. /\ enter_snap_context' \in BOOLEAN
        /\ timeouts_blocked' \in BOOLEAN
        /\ signal_context' \in {"none", "SIGXCPU", "SIGTERM"} \cup Faults
    BY <1>0, <2>1 DEF EndsFlags, SimpleTypes
  <2> QED BY <1>0, <2>1, <2>2, <2>3 DEF EndsFrame, EndsHistory, SimpleTypes, RunnerStates
<1>2. CASE Blames
  <2>1. received' \subseteq Timeouts \cup {"SIGTERM"}
    BY <1>0, <1>2 DEF Blames, SimpleTypes, Timeouts
  <2> QED BY <1>0, <1>2, <2>1 DEF Blames, SimpleTypes, RunnerStates, Running
<1>3. CASE PlainStep
  <2> USE <1>0 DEF SimpleTypes, RunnerStates, optionVars, snapVars, Running
  <2>1. CASE InstallSigHandler
    BY <2>1 DEF InstallSigHandler
  <2>2. CASE NextSnap
    <3>1. pc = "next" /\ snap' \in Snaps \cup {NoSnap}
          /\ snap_end' \in {snap_end, "none"}
      BY <2>2, ScheduledAreSnaps DEF NextSnap
    <3> QED BY <2>2, <3>1 DEF NextSnap
  <2>3. CASE EnterRunSnap
    BY <2>3 DEF EnterRunSnap
  <2>4. CASE SaveUContext
    BY <2>4 DEF SaveUContext
  <2>5. CASE Resume
    BY <2>5 DEF Resume
  <2>6. CASE SnapEnds
    BY <2>6 DEF SnapEnds
  <2>7. CASE RunnerReentry
    <3>1. /\ mode' \in Modes
          /\ snap_id' \in Snaps \cup {NoSnap}
          /\ pc' \in RunnerStates
          /\ snap' \in Snaps \cup {NoSnap}
          /\ enter_snap_context' \in BOOLEAN
          /\ runner_return_context' \in {"none", "stale", "current"}
          /\ context_snap' \in Snaps \cup {NoSnap}
          /\ signal_context' \in {"none", "SIGXCPU", "SIGTERM"} \cup Faults
      BY <2>7 DEF RunnerReentry
    <3>2. /\ exit_state' \in {"match", "regs", "memory"}
          /\ timeouts_blocked' \in BOOLEAN
          /\ pc' = "dead" <=> ~Running'
          /\ snap_end' \in {"none", "executing", "match", "regs", "memory"} \cup Faults
          /\ entered' \in Snaps \cup {NoSnap}
          /\ received' \subseteq Timeouts \cup {"SIGTERM"}
      BY <2>7 DEF RunnerReentry
    <3> QED BY <3>1, <3>2
  <2>8. CASE LogSnapRunResult
    BY <2>8 DEF LogSnapRunResult
  <2>9. CASE LogExecutionResult
    BY <2>9 DEF LogExecutionResult
  <2>10. CASE VerifySnapChecksums /\ pc' = "result"
    BY <2>10, ChecksumLogged
  <2>11. CASE \E page \in Pages : SnapTouchesPage(page)
    BY <2>11 DEF SnapTouchesPage
  <2> QED BY <1>3, <2>1, <2>2, <2>3, <2>4, <2>5, <2>6, <2>7, <2>8, <2>9,
             <2>10, <2>11 DEF PlainStep
<1> QED BY <1>0, <1>1, <1>2, <1>3, StepKinds

-----------------------------------------------------------------------------
(* The flag, the saved context and the signal mask                           *)

\* EndSpotToOutcome, and the test of it by the three mains.
LEMMA OutcomeFacts ==
  ASSUME SimpleTypes
  PROVE  /\ EndSpotToOutcome \in Outcomes
         /\ AllPassed <=> signal_context = "none" /\ exit_state = "match"
         /\ EndSpotToOutcome = "kAsExpected" <=> AllPassed
         /\ EndSpotToOutcome = "kExecutionRunaway" <=> signal_context = "SIGXCPU"
BY DEF EndSpotToOutcome, Outcomes, AllPassed, SimpleTypes, Timeouts, Faults

LEMMA OutcomeFactsNext ==
  ASSUME SimpleTypes'
  PROVE  AllPassed' <=> signal_context' = "none" /\ exit_state' = "match"
BY DEF EndSpotToOutcome, AllPassed, SimpleTypes, Timeouts, Faults

LEMMA ControlStep ==
  ASSUME RunnerTypeOK, ControlInv, RunnerNext
  PROVE  ControlInv'
<1>0. SimpleTypes /\ SimpleTypes'
  BY SimpleTypesStep DEF SimpleTypes, RunnerTypeOK
<1>1. CASE Ends
  <2>1. EndsFrame /\ EndsFlags
    BY <1>1 DEF Ends
  <2>2. "none" \notin {"SIGXCPU", "SIGTERM"} \cup Faults
    BY DEF Faults
  <2> QED BY <1>0, <2>1, <2>2 DEF EndsFrame, EndsFlags, ControlInv
<1>2. CASE Blames
  <2>1. "none" \notin {"SIGXCPU", "SIGTERM"} \cup Faults
    BY DEF Faults
  <2> QED BY <1>0, <1>2, <2>1 DEF Blames, ControlInv
<1>3. CASE PlainStep
  <2> USE <1>0 DEF ControlInv, optionVars, snapVars
  <2>1. CASE InstallSigHandler
    BY <2>1 DEF InstallSigHandler
  <2>2. CASE NextSnap
    BY <2>2 DEF NextSnap
  <2>3. CASE EnterRunSnap
    BY <2>3 DEF EnterRunSnap
  <2>4. CASE SaveUContext
    BY <2>4 DEF SaveUContext
  <2>5. CASE Resume
    BY <2>5, OutcomeFacts DEF Resume
  <2>6. CASE SnapEnds
    BY <2>6 DEF SnapEnds
  <2>7. CASE RunnerReentry
    BY <2>7 DEF RunnerReentry
  <2>8. CASE LogSnapRunResult
    BY <2>8 DEF LogSnapRunResult
  <2>9. CASE LogExecutionResult
    BY <2>9 DEF LogExecutionResult
  <2>10. CASE VerifySnapChecksums /\ pc' = "result"
    BY <2>10, ChecksumLogged
  <2>11. CASE \E page \in Pages : SnapTouchesPage(page)
    BY <2>11 DEF SnapTouchesPage
  <2> QED BY <1>3, <2>1, <2>2, <2>3, <2>4, <2>5, <2>6, <2>7, <2>8, <2>9,
             <2>10, <2>11 DEF PlainStep
<1> QED BY <1>0, <1>1, <1>2, <1>3, StepKinds

-----------------------------------------------------------------------------
(* Runs are counted up to the number scheduled                               *)

LEMMA OptionsStay ==
  ASSUME SimpleTypes, ControlInv, RunnerNext
  PROVE  /\ mode' = mode /\ snap_id' = snap_id
         /\ RunsToDo' = RunsToDo
<1>1. mode' = mode /\ snap_id' = snap_id
  <2>1. CASE Ends
    BY <2>1 DEF Ends, EndsFrame
  <2>2. CASE Blames
    BY <2>2 DEF Blames
  <2>3. CASE PlainStep
    BY <2>3, ChecksumLogged
       DEF PlainStep, InstallSigHandler, NextSnap, EnterRunSnap, SaveUContext,
           Resume, SnapEnds, RunnerReentry, LogSnapRunResult,
           LogExecutionResult, SnapTouchesPage, optionVars
  <2> QED BY <2>1, <2>2, <2>3, StepKinds
<1> QED BY <1>1 DEF RunsToDo, Corpus

LEMMA CountStep ==
  ASSUME RunnerTypeOK, ControlInv, CountInv, RunnerNext
  PROVE  CountInv' /\ snap_execution_count' \in 0..(NumIterations + NumSnaps)
<1>0. /\ SimpleTypes
      /\ snap_execution_count \in 0..(NumIterations + NumSnaps)
      /\ snap_execution_count <= RunsToDo
      /\ mode' = mode /\ snap_id' = snap_id
      /\ RunsToDo' = RunsToDo
      /\ RunsToDo \in 0..(NumIterations + NumSnaps)
      /\ NumIterations \in Nat /\ NumSnaps \in Nat
  <2>1. SimpleTypes
    BY DEF SimpleTypes, RunnerTypeOK
  <2> QED BY <2>1, OptionsStay, CorpusFacts, RunnerAssumption
             DEF RunnerTypeOK, CountInv
<1> DEFINE InRun == {"prepare", "save", "resume", "snap", "exiting"}
<1>1. \/ /\ snap_execution_count' = snap_execution_count
         /\ pc' \in InRun => pc \in InRun
      \/ /\ snap_execution_count < RunsToDo
         /\ \/ snap_execution_count' = snap_execution_count
            \/ /\ snap_execution_count' = snap_execution_count + 1
               /\ pc' \notin InRun
  <2>1. CASE Ends
    BY <2>1 DEF Ends, EndsFrame
  <2>2. CASE Blames
    BY <1>0, <2>2 DEF Blames, ControlInv
  <2>3. CASE NextSnap
    BY <2>3 DEF NextSnap
  <2>4. CASE Resume
    <3>1. snap_execution_count < RunsToDo
      BY <2>4 DEF CountInv, Resume
    <3>2. \/ snap_execution_count' = snap_execution_count
          \/ /\ snap_execution_count' = snap_execution_count + 1
             /\ pc' = "next"
      BY <1>0, <2>4 DEF Resume
    <3> QED BY <3>1, <3>2
  <2>5. CASE PlainStep /\ ~NextSnap /\ ~Resume
    BY <1>0, <2>5, ChecksumLogged
       DEF PlainStep, InstallSigHandler, EnterRunSnap, SaveUContext,
           SnapEnds, RunnerReentry, LogSnapRunResult,
           LogExecutionResult, SnapTouchesPage
  <2> QED BY <1>0, <2>1, <2>2, <2>3, <2>4, <2>5, StepKinds
<1>2. pc \in InRun => snap_execution_count < RunsToDo
  BY DEF CountInv
<1>3. /\ snap_execution_count' <= RunsToDo'
      /\ pc' \in InRun => snap_execution_count' < RunsToDo'
      /\ snap_execution_count' \in 0..(NumIterations + NumSnaps)
  BY <1>0, <1>1, <1>2
<1>4. mode' = "make" => snap_id' # NoSnap
  BY <1>0 DEF CountInv
<1> QED BY <1>3, <1>4 DEF CountInv

-----------------------------------------------------------------------------
(* Pages added for a snap                                                    *)

LEMMA PagesStep ==
  ASSUME RunnerTypeOK, ControlInv, PagesBounded, RunnerNext
  PROVE  PagesBounded' /\ added_page_addresses' \in Seq(Pages)
<1>0. SimpleTypes /\ added_page_addresses \in Seq(Pages) /\ mode' = mode
  BY OptionsStay DEF SimpleTypes, RunnerTypeOK
<1>1. CASE UNCHANGED added_page_addresses
  BY <1>0, <1>1 DEF PagesBounded
<1>2. ASSUME NEW page \in Pages, SnapTouchesPage(page)
      PROVE  PagesBounded' /\ added_page_addresses' \in Seq(Pages)
  <2> DEFINE old == added_page_addresses
             new == added_page_addresses'
  <2>1. /\ mode = "make"
        /\ Len(old) < MaxPagesToAdd
        /\ Len(old) < kMaxAddedPageAddresses
        /\ \A i \in DOMAIN old : old[i] # page
        /\ new = Append(old, page)
    BY <1>2 DEF SnapTouchesPage, CanAddPage
  <2>2. /\ new \in Seq(Pages)
        /\ Len(new) = Len(old) + 1
        /\ \A i \in 1..Len(old) : new[i] = old[i]
        /\ new[Len(old) + 1] = page
        /\ DOMAIN old = 1..Len(old)
        /\ DOMAIN new = 1..(Len(old) + 1)
        /\ Len(old) \in Nat
    BY <1>0, <2>1, AppendFacts
  <2>3. Len(new) <= kMaxAddedPageAddresses /\ Len(new) <= MaxPagesToAdd
    BY <2>1, <2>2, RunnerAssumption
  <2>4. ASSUME NEW i \in DOMAIN new, NEW j \in DOMAIN new, new[i] = new[j]
        PROVE  i = j
    <3>1. CASE i \in 1..Len(old) /\ j \in 1..Len(old)
      BY <2>2, <2>4, <3>1 DEF PagesBounded
    <3>2. CASE i = Len(old) + 1 \/ j = Len(old) + 1
      BY <2>1, <2>2, <2>4, <3>2
    <3> QED BY <2>2, <2>4, <3>1, <3>2
  <2> HIDE DEF old, new
  <2>5. PagesBounded'
    BY <1>0, <2>1, <2>3, <2>4 DEF PagesBounded, new
  <2> QED BY <2>2, <2>5 DEF new
<1> QED
  <2>1. CASE Ends
    BY <1>1, <2>1 DEF Ends, EndsFrame
  <2>2. CASE Blames
    BY <1>1, <2>2 DEF Blames
  <2>3. CASE PlainStep
    BY <1>0, <1>1, <1>2, <2>3, ChecksumLogged
       DEF PlainStep, InstallSigHandler, NextSnap, EnterRunSnap, SaveUContext,
           Resume, SnapEnds, RunnerReentry, LogSnapRunResult, LogExecutionResult
  <2> QED BY <1>0, <2>1, <2>2, <2>3, StepKinds

-----------------------------------------------------------------------------
(* What the runner has recorded of the snap                                  *)

LEMMA OutcomeStep ==
  ASSUME RunnerTypeOK, ControlInv, OutcomeInv, CountInv, RunnerNext
  PROVE  OutcomeInv'
<1>0. SimpleTypes /\ SimpleTypes'
  BY SimpleTypesStep DEF SimpleTypes, RunnerTypeOK
<1>P. /\ AllPassed <=> signal_context = "none" /\ exit_state = "match"
      /\ AllPassed' <=> signal_context' = "none" /\ exit_state' = "match"
  BY <1>0, OutcomeFacts, OutcomeFactsNext
<1>O. mode' = mode /\ RunsToDo' = RunsToDo
  BY <1>0, OptionsStay
<1>F. /\ "none" \notin Faults /\ "SIGXCPU" \notin Faults /\ "SIGTERM" \notin Faults
  BY DEF Faults
<1>1. CASE Ends
  <2>1. EndsFrame /\ EndsFlags /\ EndsHistory
    BY <1>1 DEF Ends
  <2>2. received \subseteq received'
    BY <2>1 DEF EndsHistory
  <2> QED BY <1>0, <1>F, <2>1, <2>2
             DEF EndsFrame, EndsFlags, EndsHistory, OutcomeInv, AfterSnap
<1>2. CASE Blames
  <2>1. CASE pc = "snap" /\ snap_end' = signal_context' /\ signal_context' \in Faults
             /\ UNCHANGED received
    <3>1. snap' = snap /\ entered' = snap
      BY <1>0, <1>2, <2>1 DEF Blames, ControlInv, OutcomeInv
    <3> QED BY <1>0, <1>2, <1>F, <2>1, <3>1 DEF Blames, OutcomeInv, AfterSnap
  <2>2. CASE /\ signal_context' \in {"SIGXCPU", "SIGTERM"}
             /\ received' = received \cup {signal_context'}
    <3>1. signal_context' \in received'
      BY <2>2
    <3> QED BY <1>0, <1>2, <1>F, <2>2, <3>1 DEF Blames, OutcomeInv, AfterSnap
  <2> QED BY <1>2, <2>1, <2>2 DEF Blames
<1>3. CASE PlainStep
  <2> USE <1>0, <1>P, <1>O DEF OutcomeInv, AfterSnap, optionVars, snapVars
  <2>1. CASE InstallSigHandler
    BY <2>1 DEF InstallSigHandler, LastSnapMatched
  <2>2. CASE NextSnap
    <3>1. snap_execution_count \in 0..(NumIterations + NumSnaps)
          /\ RunsToDo \in 0..(NumIterations + NumSnaps)
          /\ snap_execution_count <= RunsToDo
          /\ NumIterations \in Nat /\ NumSnaps \in Nat
      BY CorpusFacts, RunnerAssumption DEF RunnerTypeOK, CountInv
    <3>2. snap_execution_count < RunsToDo \/ snap_execution_count = RunsToDo
      BY <3>1
    <3> QED BY <2>2, <3>2 DEF NextSnap, LastSnapMatched, ControlInv
  <2>3. CASE EnterRunSnap
    BY <1>F, <2>3 DEF EnterRunSnap
  <2>4. CASE SaveUContext
    BY <2>4 DEF SaveUContext, ControlInv
  <2>5. CASE Resume
    <3>1. CASE enter_snap_context
      BY <1>F, <2>5, <3>1 DEF Resume, ControlInv
    <3>2. CASE ~enter_snap_context /\ pc' = "report"
      BY <2>5, <3>2, OutcomeFacts DEF Resume, ControlInv
    <3>3. CASE ~enter_snap_context /\ pc' = "next"
      BY <2>5, <3>3, OutcomeFacts DEF Resume, LastSnapMatched
    <3> QED BY <2>5, <3>1, <3>2, <3>3 DEF Resume
  <2>6. CASE SnapEnds
    BY <1>F, <2>6 DEF SnapEnds, ControlInv
  <2>7. CASE RunnerReentry
    BY <2>7 DEF RunnerReentry
  <2>8. CASE LogSnapRunResult
    BY <2>8 DEF LogSnapRunResult, LastSnapMatched
  <2>9. CASE LogExecutionResult
    BY <2>9 DEF LogExecutionResult, LastSnapMatched
  <2>10. CASE VerifySnapChecksums /\ pc' = "result"
    BY <2>10, ChecksumLogged DEF LastSnapMatched
  <2>11. CASE \E page \in Pages : SnapTouchesPage(page)
    BY <2>11 DEF SnapTouchesPage
  <2> QED BY <1>3, <2>1, <2>2, <2>3, <2>4, <2>5, <2>6, <2>7, <2>8, <2>9,
             <2>10, <2>11 DEF PlainStep
<1> QED BY <1>0, <1>1, <1>2, <1>3, StepKinds

-----------------------------------------------------------------------------
(* What is printed                                                           *)

\* Once the runner reports, the snap's code is not entered again.
LEMMA ReportingSteps ==
  ASSUME SimpleTypes, ControlInv, RunnerNext,
         pc \in {"checksum", "result", "return", "dead"}
  PROVE  /\ pc' \in {"checksum", "result", "return", "dead"}
         /\ pc \in {"return", "dead"} => pc' = "dead"
         /\ UNCHANGED <<snap_end, entered, snap>>
         /\ received \subseteq received'
<1>1. CASE Ends
  BY <1>1 DEF Ends, EndsFrame, EndsHistory
<1>2. ~Blames
  BY DEF Blames, ControlInv
<1>3. CASE PlainStep
  BY <1>3, ChecksumLogged
     DEF PlainStep, InstallSigHandler, NextSnap, EnterRunSnap, SaveUContext,
         Resume, SnapEnds, RunnerReentry, LogSnapRunResult,
         LogExecutionResult, SnapTouchesPage, snapVars
<1> QED BY <1>1, <1>2, <1>3, StepKinds

LEMMA MessagesStayTrue ==
  ASSUME SimpleTypes, ControlInv, RunnerNext, NEW m, TrueMessage(m)
  PROVE  TrueMessage(m)'
<1>1. CASE m[1] = "failed_snapshot_execution" /\ m # <<"execution_result", "kOk">>
  <2>1. /\ pc' \in {"checksum", "result", "return", "dead"}
        /\ UNCHANGED <<snap_end, entered>>
        /\ received \subseteq received'
    BY <1>1, ReportingSteps DEF TrueMessage
  <2> QED BY <1>1, <2>1 DEF TrueMessage
<1>2. CASE m = <<"execution_result", "kOk">>
  <2>1. pc \in {"return", "dead"} /\ LastSnapMatched
    BY <1>2 DEF TrueMessage
  <2>2. pc' = "dead" /\ UNCHANGED <<snap, snap_end>>
    BY <2>1, ReportingSteps
  <2>3. m[1] # "failed_snapshot_execution"
    BY <1>2
  <2> QED BY <2>1, <2>2, <2>3 DEF TrueMessage, LastSnapMatched
<1> QED BY <1>1, <1>2 DEF TrueMessage

\* A message about neither a failed snap nor a success claims nothing.
LEMMA NeutralMessages ==
  /\ \A code \in Codes \ {"kOk"} : /\ <<"execution_result", code>> \in Messages
                                   /\ TrueMessage(<<"execution_result", code>>)'
  /\ \A ok \in BOOLEAN :
       /\ <<"postfailure_checksum_status", ok>> \in Messages
       /\ TrueMessage(<<"postfailure_checksum_status", ok>>)'
BY DEF Messages, TrueMessage

LEMMA NewMessageTrue ==
  ASSUME RunnerTypeOK, ControlInv, OutcomeInv, CountInv, RunnerNext
  PROVE  \/ stdout' = stdout
         \/ \E m \in Messages : stdout' = Append(stdout, m) /\ TrueMessage(m)'
<1>0. SimpleTypes
  BY DEF SimpleTypes, RunnerTypeOK
<1>1. CASE Ends
  BY <1>1, NeutralMessages DEF Ends, EndsOutput, Log
<1>2. CASE Blames
  BY <1>2 DEF Blames
<1>3. CASE VerifySnapChecksums /\ pc' = "result"
  BY <1>0, <1>3, ChecksumLogged, NeutralMessages DEF Log
<1>4. CASE LogSnapRunResult
  <2> DEFINE value == <<snap, EndSpotToOutcome>>
             m == <<"failed_snapshot_execution", value>>
  <2>1. /\ pc = "report" /\ pc' \in {"checksum", "result"}
        /\ stdout' = Append(stdout, m)
        /\ UNCHANGED <<snap_end, entered, received>>
    BY <1>4 DEF LogSnapRunResult, Log
  <2>2. m \in Messages
    BY <1>0, OutcomeFacts DEF Messages, SimpleTypes
  <2>3. m[1] = "failed_snapshot_execution" /\ m[2][1] = snap
        /\ m[2][2] = EndSpotToOutcome
        /\ m # <<"execution_result", "kOk">>
    OBVIOUS
  <2>4. m[2][2] = "kExecutionRunaway" => "SIGXCPU" \in received
    BY <1>0, <2>3, OutcomeFacts DEF OutcomeInv
  <2>5. received = {} => m[2][1] = entered
    BY <2>1, <2>3 DEF OutcomeInv, AfterSnap
  <2>6. m[2][2] \notin {"kExecutionRunaway", "kAsExpected"} =>
          snap_end \in Failing \/ "SIGTERM" \in received
    <3>1. SUFFICES ASSUME EndSpotToOutcome \notin {"kExecutionRunaway", "kAsExpected"}
                   PROVE  snap_end \in Failing \/ "SIGTERM" \in received
      BY <2>3
    <3>2. signal_context # "SIGXCPU" /\ ~AllPassed
      BY <1>0, <3>1, OutcomeFacts
    <3>3. signal_context \in {"none", "SIGTERM"} \cup Faults
      BY <1>0, <3>2 DEF SimpleTypes
    <3>4. CASE signal_context = "none"
      <4>1. exit_state \in {"regs", "memory"} /\ snap_end = exit_state
        BY <1>0, <2>1, <3>2, <3>4, OutcomeFacts DEF SimpleTypes, OutcomeInv, AfterSnap
      <4> QED BY <4>1 DEF Failing
    <3>5. CASE signal_context \in Faults
      BY <3>5 DEF OutcomeInv, Failing
    <3>6. CASE signal_context = "SIGTERM"
      BY <3>6 DEF OutcomeInv
    <3> QED BY <3>3, <3>4, <3>5, <3>6
  <2> HIDE DEF m
  <2>7. PICK c \in Messages : c = m
    BY <2>2
  <2>8. TrueMessage(c)'
    BY <2>1, <2>3, <2>4, <2>5, <2>6, <2>7 DEF TrueMessage
  <2> QED BY <2>1, <2>7, <2>8
<1>5. CASE LogExecutionResult
  <2>1. /\ pc = "result" /\ pc' = "return"
        /\ UNCHANGED <<snap, snap_end>>
        /\ \/ ~AllPassed /\ stdout' = Append(stdout, <<"execution_result", "kSnapshotFailed">>)
           \/ AllPassed /\ stdout' = Append(stdout, <<"execution_result", "kOk">>)
    BY <1>5 DEF LogExecutionResult, Log, snapVars
  <2>2. CASE AllPassed
    <3>1. LastSnapMatched'
      BY <2>1, <2>2 DEF OutcomeInv, LastSnapMatched
    <3>2. TrueMessage(<<"execution_result", "kOk">>)'
      BY <2>1, <3>1 DEF TrueMessage
    <3>3. <<"execution_result", "kOk">> \in Messages
      BY DEF Messages, Codes
    <3> QED BY <2>1, <2>2, <3>2, <3>3
  <2>3. CASE ~AllPassed
    <3>1. "kSnapshotFailed" \in Codes \ {"kOk"}
      BY DEF Codes
    <3> QED BY <2>1, <2>3, <3>1, NeutralMessages
  <2> QED BY <2>2, <2>3
<1>6. CASE /\ PlainStep /\ ~LogSnapRunResult /\ ~LogExecutionResult
           /\ ~(VerifySnapChecksums /\ pc' = "result")
  BY <1>6 DEF PlainStep, InstallSigHandler, NextSnap, EnterRunSnap,
              SaveUContext, Resume, SnapEnds, RunnerReentry, SnapTouchesPage
<1> QED BY <1>0, <1>1, <1>2, <1>3, <1>4, <1>5, <1>6, StepKinds

LEMMA OutputStep ==
  ASSUME RunnerTypeOK, ControlInv, OutcomeInv, CountInv, OutputInv,
         PassMeansAllRan, RunnerNext
  PROVE  OutputInv' /\ stdout' \in Seq(Messages)
<1>0. SimpleTypes /\ SimpleTypes' /\ stdout \in Seq(Messages)
  BY SimpleTypesStep DEF SimpleTypes, RunnerTypeOK
<1>1. pc' # "init"
  <2>1. CASE PlainStep
    BY <2>1 DEF PlainStep, InstallSigHandler, NextSnap, EnterRunSnap,
       SaveUContext, Resume, SnapEnds, RunnerReentry, LogSnapRunResult,
       LogExecutionResult, SnapTouchesPage
  <2> QED BY <1>0, <2>1, StepKinds DEF Ends, EndsFrame, Blames
<1>2. \A m : TrueMessage(m) => TrueMessage(m)'
  BY <1>0, MessagesStayTrue
<1>3. \A i \in DOMAIN stdout : TrueMessage(stdout[i])
  BY DEF OutputInv
<1>4. /\ stdout' \in Seq(Messages)
      /\ \A i \in DOMAIN stdout' : \E m : m = stdout'[i] /\ TrueMessage(m)'
  <2>1. CASE stdout' = stdout
    BY <1>0, <1>2, <1>3, <2>1
  <2>2. ASSUME NEW c \in Messages, stdout' = Append(stdout, c), TrueMessage(c)'
        PROVE  /\ stdout' \in Seq(Messages)
               /\ \A i \in DOMAIN stdout' : \E m : m = stdout'[i] /\ TrueMessage(m)'
    <3>1. /\ stdout' \in Seq(Messages)
          /\ \A i \in 1..Len(stdout) : stdout'[i] = stdout[i]
          /\ stdout'[Len(stdout) + 1] = c
          /\ DOMAIN stdout = 1..Len(stdout)
          /\ DOMAIN stdout' = 1..(Len(stdout) + 1)
          /\ Len(stdout) \in Nat
      BY <1>0, <2>2, AppendFacts
    <3>2. ASSUME NEW i \in DOMAIN stdout'
          PROVE  \E m : m = stdout'[i] /\ TrueMessage(m)'
      <4>1. CASE i \in 1..Len(stdout)
        BY <1>2, <1>3, <3>1, <4>1
      <4>2. CASE i = Len(stdout) + 1
        BY <2>2, <3>1, <4>2
      <4> QED BY <3>1, <3>2, <4>1, <4>2
    <3> QED BY <3>1, <3>2
  <2> QED BY <1>0, <2>1, <2>2, NewMessageTrue
<1>5. \A i \in DOMAIN stdout' : TrueMessage(stdout[i])'
  BY <1>4 DEF TrueMessage
<1>6. /\ Exited(0)' => LastSnapMatched'
      /\ Exited(2)' => received' \cap Timeouts # {}
  <2>1. CASE Ends
    <3>1. Exited(0)' => /\ UNCHANGED <<snap, snap_end>>
                        /\ pc = "init" \/ (pc = "return" /\ AllPassed)
      BY <2>1 DEF Ends, EndsStatus, EndsFrame
    <3>2. pc = "init" \/ (pc = "return" /\ AllPassed) => LastSnapMatched
      BY DEF OutcomeInv, LastSnapMatched
    <3>3. Exited(2)' => received' \cap Timeouts # {}
      BY <2>1 DEF Ends, EndsStatus
    <3> QED BY <3>1, <3>2, <3>3 DEF LastSnapMatched
  <2>2. CASE ~Ends
    <3>1. pc' # "dead"
      BY <1>0, <2>2, StepKinds
         DEF Blames, PlainStep, InstallSigHandler, NextSnap, EnterRunSnap,
             SaveUContext, Resume, SnapEnds, RunnerReentry, LogSnapRunResult,
             LogExecutionResult, SnapTouchesPage
    <3>2. status' = <<"running", 0>>
      BY <1>0, <3>1 DEF SimpleTypes, Running
    <3> QED BY <3>2 DEF Exited
  <2> QED BY <2>1, <2>2
<1> QED BY <1>1, <1>4, <1>5, <1>6 DEF OutputInv

LEMMA PassStep ==
  ASSUME RunnerTypeOK, ControlInv, OutcomeInv, OutputInv, RunnerNext
  PROVE  PassMeansAllRan'
<1>0. SimpleTypes /\ SimpleTypes'
  BY SimpleTypesStep DEF SimpleTypes, RunnerTypeOK
<1>1. CASE Ends
  <2>1. SUFFICES ASSUME Exited(0)', stdout' # <<>>
                 PROVE  /\ mode' # "make" => snap_execution_count' = RunsToDo'
                        /\ snap' # NoSnap => snap_end' = "match"
    BY DEF PassMeansAllRan
  <2>2. /\ UNCHANGED <<stdout, snap_end, snap, mode, snap_execution_count>>
        /\ pc = "init" \/ (pc = "return" /\ AllPassed)
    BY <1>1, <2>1 DEF Ends, EndsStatus, EndsFrame
  <2>3. pc = "return" /\ AllPassed
    BY <2>1, <2>2 DEF OutputInv
  <2>4. LastSnapMatched /\ (mode # "make" => snap_execution_count = RunsToDo)
    BY <2>3 DEF OutcomeInv
  <2>5. RunsToDo' = RunsToDo
    BY <1>0, OptionsStay
  <2> QED BY <2>2, <2>4, <2>5 DEF LastSnapMatched
<1>2. CASE ~Ends
  <2>1. pc' # "dead"
    BY <1>0, <1>2, StepKinds
       DEF Blames, PlainStep, InstallSigHandler, NextSnap, EnterRunSnap,
           SaveUContext, Resume, SnapEnds, RunnerReentry, LogSnapRunResult,
           LogExecutionResult, SnapTouchesPage
  <2>2. status' = <<"running", 0>>
    BY <1>0, <2>1 DEF SimpleTypes, Running
  <2> QED BY <2>2 DEF Exited, PassMeansAllRan
<1> QED BY <1>1, <1>2

-----------------------------------------------------------------------------
(* The steps of the runner preserve the invariant                            *)

LEMMA RunnerStepInv ==
  ASSUME RunnerDriverInv, RunnerRuns
  PROVE  RunnerDriverInv'
<1>0. /\ RunnerTypeOK /\ ControlInv /\ OutcomeInv /\ CountInv /\ OutputInv
      /\ DriverInv /\ PassMeansAllRan /\ PagesBounded /\ RunnerNext
      /\ driver = "communicate" /\ UNCHANGED driverVars
  BY DEF RunnerDriverInv, RunnerRuns, TypeOK, VerdictSound
<1>S. SimpleTypes
  BY <1>0 DEF SimpleTypes, RunnerTypeOK
<1>1. ControlInv'
  BY <1>0, ControlStep
<1>2. OutcomeInv'
  BY <1>0, OutcomeStep
<1>3. CountInv' /\ snap_execution_count' \in 0..(NumIterations + NumSnaps)
  BY <1>0, CountStep
<1>4. OutputInv' /\ stdout' \in Seq(Messages)
  BY <1>0, OutputStep
<1>5. PagesBounded' /\ added_page_addresses' \in Seq(Pages)
  BY <1>0, PagesStep
<1>6. SimpleTypes'
  BY <1>0, SimpleTypesStep
<1>7. RunnerTypeOK'
  BY <1>3, <1>4, <1>5, <1>6 DEF SimpleTypes, RunnerTypeOK
<1>8. PassMeansAllRan'
  BY <1>0, PassStep
<1>9. UNCHANGED <<driver, attempt, result>>
  BY <1>0 DEF driverVars
<1>10. TypeOK'
  BY <1>7, <1>9 DEF RunnerDriverInv, TypeOK
<1>11. DriverInv'
  BY <1>0, <1>9, <1>S, OptionsStay DEF DriverInv, Attempts
<1>12. NoSnapAfterSignal'
  BY <1>1 DEF ControlInv, NoSnapAfterSignal
<1>13. VerdictJustified' /\ FailureNotMissed'
  <2>1. result'.kind \in {"none", "ok"} /\ driver' = "communicate"
    BY <1>0, <1>9 DEF DriverInv
  <2> QED BY <2>1 DEF VerdictJustified, FailureNotMissed
<1> QED BY <1>1, <1>2, <1>3, <1>4, <1>5, <1>8, <1>10, <1>11, <1>12, <1>13
           DEF RunnerDriverInv, VerdictSound

-----------------------------------------------------------------------------
(* The steps of the driver preserve the invariant                            *)

\* Whatever the runner printed, a field's value was printed by it.
LEMMA ValueFacts ==
  ASSUME RunnerTypeOK, NEW field, Has(field)
  PROVE  \E i \in DOMAIN stdout : /\ stdout[i] \in Messages
                                  /\ stdout[i][1] = field
                                  /\ stdout[i][2] = ValueOf(field)
<1>1. ValueOf(field) \in Values(field)
  BY DEF Has, ValueOf
<1>2. stdout \in Seq(Messages)
  BY DEF RunnerTypeOK
<1>3. \A i \in DOMAIN stdout : stdout[i] \in Messages
  BY <1>2
<1> QED BY <1>1, <1>3 DEF Values

LEMMA ResultFields ==
  ASSUME NEW kind, NEW id
  PROVE  /\ RunResult(kind, id).kind = kind
         /\ RunResult(kind, id).failed_snapshot_id = id
BY DEF RunResult

\* The result of a call, as a relation to what happened.
JustResult(r) ==
    /\ r.kind \in ResultKinds
    /\ r.failed_snapshot_id \in Snaps \cup {NoSnap}
    /\ r.kind = "runaway" => "SIGXCPU" \in received
    /\ r.kind = "failed" => snap_end \in Failing \/ "SIGTERM" \in received
    /\ r.kind \in {"runaway", "failed"} /\ received = {} =>
         r.failed_snapshot_id = entered
    /\ r.kind = "ok" /\ snap_end \in Failing =>
         received \cap Timeouts # {} \/ Killed("SIGINT")

LEMMA InternalIsJust == JustResult(InternalError)
<1>1. InternalError.kind = "internal" /\ InternalError.failed_snapshot_id = NoSnap
  BY ResultFields DEF InternalError
<1> QED BY <1>1 DEF JustResult, ResultKinds

LEMMA SuccessIsJust ==
  ASSUME LastSnapMatched \/ received \cap Timeouts # {} \/ Killed("SIGINT")
  PROVE  JustResult(Successful)
<1>1. Successful.kind = "ok" /\ Successful.failed_snapshot_id = NoSnap
  BY ResultFields DEF Successful
<1>2. LastSnapMatched => snap_end \notin Failing
  BY DEF LastSnapMatched, Failing, Faults
<1> QED BY <1>1, <1>2 DEF JustResult, ResultKinds

LEMMA OutputIsJust ==
  ASSUME RunnerTypeOK, OutputInv
  PROVE  JustResult(HandleRunnerOutput)
<1>1. CASE status[1] = "signal"
  BY <1>1, InternalIsJust, SuccessIsJust DEF HandleRunnerOutput
<1>2. CASE status[1] # "signal" /\ (Exited(0) \/ (Exited(2) /\ snap_id = NoSnap))
  BY <1>2, SuccessIsJust DEF HandleRunnerOutput, OutputInv
<1>3. CASE Has("failed_snapshot_execution")
  <2> DEFINE failed == ValueOf("failed_snapshot_execution")
  <2>1. PICK i \in DOMAIN stdout : /\ stdout[i] \in Messages
                                   /\ stdout[i][1] = "failed_snapshot_execution"
                                   /\ stdout[i][2] = failed
    BY <1>3, ValueFacts
  <2>2. failed \in (Snaps \cup {NoSnap}) \X Outcomes
    BY <2>1 DEF Messages
  <2>3. TrueMessage(stdout[i])
    BY DEF OutputInv
  <2>4. /\ failed[2] = "kExecutionRunaway" => "SIGXCPU" \in received
        /\ failed[2] \notin {"kExecutionRunaway", "kAsExpected"} =>
             snap_end \in Failing \/ "SIGTERM" \in received
        /\ received = {} => failed[1] = entered
    BY <2>1, <2>3 DEF TrueMessage
  <2>5. failed[1] \in Snaps \cup {NoSnap}
    BY <2>2
  <2> HIDE DEF failed
  <2>6. ASSUME NEW kind \in {"runaway", "as_expected", "failed"},
               kind = "runaway" => failed[2] = "kExecutionRunaway",
               kind = "failed" => failed[2] \notin {"kExecutionRunaway", "kAsExpected"}
        PROVE  JustResult(RunResult(kind, failed[1]))
    BY <2>4, <2>5, <2>6, ResultFields DEF JustResult, ResultKinds
  <2>7. JustResult(FromFailedExecution)
    BY <2>6, InternalIsJust DEF FromFailedExecution, failed
  <2> QED BY <1>1, <1>2, <1>3, <2>7, InternalIsJust DEF HandleRunnerOutput
<1>4. CASE ~Has("failed_snapshot_execution") /\ Has("execution_result")
  <2>1. CASE ValueOf("execution_result") = "kOk"
    <3>1. PICK i \in DOMAIN stdout : /\ stdout[i] \in Messages
                                     /\ stdout[i][1] = "execution_result"
                                     /\ stdout[i][2] = "kOk"
      BY <1>4, <2>1, ValueFacts
    <3>2. stdout[i] = <<"execution_result", "kOk">>
      BY <3>1 DEF Messages
    <3>3. LastSnapMatched
      BY <3>2 DEF OutputInv, TrueMessage
    <3> QED BY <1>1, <1>2, <1>4, <2>1, <3>3, SuccessIsJust, InternalIsJust
               DEF HandleRunnerOutput, FromExecutionResult
  <2>2. CASE ValueOf("execution_result") # "kOk"
    BY <1>1, <1>2, <1>4, <2>2, InternalIsJust
       DEF HandleRunnerOutput, FromExecutionResult
  <2> QED BY <2>1, <2>2
<1> QED BY <1>1, <1>2, <1>3, <1>4, InternalIsJust DEF HandleRunnerOutput

\* A step of the driver alone leaves what holds of the runner.
LEMMA RunnerPartStays ==
  ASSUME RunnerDriverInv, UNCHANGED runnerVars
  PROVE  /\ RunnerTypeOK' /\ ControlInv' /\ OutcomeInv' /\ CountInv' /\ OutputInv'
         /\ NoSnapAfterSignal' /\ PassMeansAllRan' /\ PagesBounded'
         /\ Attempts' = Attempts
<1>0. UNCHANGED <<mode, snap_id, pc, snap_execution_count, snap,
                  enter_snap_context, runner_return_context, context_snap,
                  signal_context, exit_state, timeouts_blocked,
                  added_page_addresses, stdout, status, snap_end, entered,
                  received>>
  BY DEF runnerVars, optionVars, snapVars
<1>1. /\ RunnerTypeOK /\ ControlInv /\ OutcomeInv /\ CountInv /\ OutputInv
      /\ NoSnapAfterSignal /\ PassMeansAllRan /\ PagesBounded
  BY DEF RunnerDriverInv, TypeOK, VerdictSound
<1>2. RunsToDo' = RunsToDo /\ Attempts' = Attempts
  BY <1>0 DEF RunsToDo, Corpus, Attempts
<1>3. LastSnapMatched' <=> LastSnapMatched
  BY <1>0 DEF LastSnapMatched
<1>4. AllPassed' <=> AllPassed
  BY <1>0 DEF AllPassed, EndSpotToOutcome
<1>5. AfterSnap' <=> AfterSnap
  BY <1>0 DEF AfterSnap
<1>6. RunnerTypeOK'
  BY <1>0, <1>1 DEF RunnerTypeOK, Running
<1>7. ControlInv'
  BY <1>0, <1>1 DEF ControlInv
<1>8. OutcomeInv'
  BY <1>0, <1>1, <1>2, <1>3, <1>4, <1>5 DEF OutcomeInv
<1>9. CountInv'
  BY <1>0, <1>1, <1>2 DEF CountInv
<1>10. OutputInv'
  BY <1>0, <1>1, <1>3 DEF OutputInv, TrueMessage, Exited
<1>11. NoSnapAfterSignal' /\ PassMeansAllRan' /\ PagesBounded'
  BY <1>0, <1>1, <1>2 DEF NoSnapAfterSignal, PassMeansAllRan, PagesBounded, Exited
<1> QED BY <1>2, <1>6, <1>7, <1>8, <1>9, <1>10, <1>11

LEMMA StartFailsInv ==
  ASSUME RunnerDriverInv, StartFails
  PROVE  RunnerDriverInv'
<1>1. /\ driver' = "done" /\ result' = InternalError /\ UNCHANGED attempt
      /\ UNCHANGED runnerVars
  BY DEF StartFails
<1>2. InternalError.kind = "internal" /\ InternalError.failed_snapshot_id = NoSnap
  BY ResultFields DEF InternalError
<1>3. TypeOK'
  BY <1>1, <1>2, RunnerPartStays DEF RunnerDriverInv, TypeOK, ResultKinds
<1>4. DriverInv' /\ VerdictJustified' /\ FailureNotMissed'
  BY <1>1, <1>2 DEF DriverInv, VerdictJustified, FailureNotMissed
<1> QED BY <1>1, <1>3, <1>4, RunnerPartStays DEF RunnerDriverInv, VerdictSound

LEMMA CommunicateInv ==
  ASSUME RunnerDriverInv, Communicate
  PROVE  RunnerDriverInv'
<1>1. /\ driver = "communicate" /\ result' = HandleRunnerOutput
      /\ UNCHANGED attempt /\ UNCHANGED runnerVars
      /\ \/ driver' = "start" /\ result'.kind = "ok" /\ attempt < Attempts
         \/ driver' = "done"
  BY DEF Communicate
<1>2. UNCHANGED <<received, snap_end, entered, status>>
  BY <1>1 DEF runnerVars
<1>3. /\ result'.kind \in ResultKinds
      /\ result'.failed_snapshot_id \in Snaps \cup {NoSnap}
      /\ result'.kind = "runaway" => "SIGXCPU" \in received
      /\ result'.kind = "failed" => snap_end \in Failing \/ "SIGTERM" \in received
      /\ result'.kind \in {"runaway", "failed"} /\ received = {} =>
           result'.failed_snapshot_id = entered
      /\ result'.kind = "ok" /\ snap_end \in Failing =>
           received \cap Timeouts # {} \/ Killed("SIGINT")
  <2>1. JustResult(HandleRunnerOutput)
    BY OutputIsJust DEF RunnerDriverInv, TypeOK
  <2> QED BY <1>1, <2>1 DEF JustResult
<1>4. TypeOK'
  BY <1>1, <1>3, RunnerPartStays DEF RunnerDriverInv, TypeOK
<1>5. DriverInv'
  BY <1>1, RunnerPartStays DEF DriverInv
<1>6. VerdictJustified' /\ FailureNotMissed'
  BY <1>2, <1>3 DEF VerdictJustified, FailureNotMissed, Killed
<1> QED BY <1>1, <1>4, <1>5, <1>6, RunnerPartStays DEF RunnerDriverInv, VerdictSound

LEMMA AttemptsBound == Attempts \in 1..NumAttempts /\ NumAttempts \in Nat
BY DriverAssumption DEF Attempts

\* A runner that was just started.
LEMMA StartInv ==
  ASSUME RunnerDriverInv, Start
  PROVE  RunnerDriverInv'
<1>0. /\ driver = "start" /\ driver' = "communicate" /\ attempt' = attempt + 1
      /\ pc' = "init" /\ snap_execution_count' = 0 /\ snap' = NoSnap
      /\ enter_snap_context' = FALSE /\ runner_return_context' = "none"
      /\ context_snap' = NoSnap /\ signal_context' = "none"
      /\ exit_state' = "match" /\ timeouts_blocked' = FALSE
      /\ added_page_addresses' = <<>> /\ stdout' = <<>>
      /\ status' = <<"running", 0>>
      /\ snap_end' = "none" /\ entered' = NoSnap /\ received' = {}
      /\ UNCHANGED <<mode, snap_id, result>>
  BY DEF Start, optionVars
<1>1. /\ RunnerTypeOK /\ CountInv /\ DriverInv /\ TypeOK
  BY DEF RunnerDriverInv, TypeOK
<1>2. RunsToDo' = RunsToDo /\ Attempts' = Attempts
  BY <1>0 DEF RunsToDo, Corpus, Attempts
<1>3. RunsToDo \in 0..(NumIterations + NumSnaps) /\ 0 \in 0..(NumIterations + NumSnaps)
  BY <1>1, CorpusFacts, RunnerAssumption
<1>4. SimpleTypes'
  BY <1>0, <1>1 DEF SimpleTypes, RunnerTypeOK, RunnerStates, Running
<1>5. stdout' \in Seq(Messages) /\ added_page_addresses' \in Seq(Pages)
  BY <1>0
<1>6. RunnerTypeOK'
  BY <1>0, <1>3, <1>4, <1>5 DEF SimpleTypes, RunnerTypeOK
<1>7. ControlInv'
  BY <1>0 DEF ControlInv
<1>8. OutcomeInv'
  <2>1. AllPassed'
    BY <1>0, <1>4, OutcomeFactsNext
  <2> QED BY <1>0, <2>1 DEF OutcomeInv, AfterSnap, Faults
<1>9. CountInv'
  BY <1>0, <1>1, <1>2, <1>3 DEF CountInv
<1>10. OutputInv'
  BY <1>0 DEF OutputInv, Exited
<1>11. attempt' \in 0..NumAttempts /\ attempt' <= Attempts'
  BY <1>0, <1>1, <1>2, AttemptsBound DEF TypeOK, DriverInv
<1>12. TypeOK' /\ DriverInv'
  BY <1>0, <1>1, <1>6, <1>11 DEF TypeOK, DriverInv
<1>13. NoSnapAfterSignal' /\ PassMeansAllRan'
  BY <1>0 DEF NoSnapAfterSignal, PassMeansAllRan
<1>14. PagesBounded'
  BY <1>0, RunnerAssumption DEF PagesBounded
<1>15. VerdictJustified' /\ FailureNotMissed'
  BY <1>0, <1>1 DEF DriverInv, VerdictJustified, FailureNotMissed
<1> QED BY <1>7, <1>8, <1>9, <1>10, <1>12, <1>13, <1>14, <1>15
           DEF RunnerDriverInv, VerdictSound

LEMMA InvInit ==
  ASSUME Init
  PROVE  RunnerDriverInv
<1>0. RunnerInit /\ driver = "start" /\ attempt = 0 /\ result = RunResult("none", NoSnap)
  BY DEF Init
<1>1. result.kind = "none" /\ result.failed_snapshot_id = NoSnap
  BY <1>0, ResultFields
<1>2. 0 \in 0..(NumIterations + NumSnaps)
  BY RunnerAssumption
<1>3. SimpleTypes
  BY <1>0 DEF RunnerInit, SimpleTypes, RunnerStates, Running
<1>4. stdout \in Seq(Messages) /\ added_page_addresses \in Seq(Pages)
  BY <1>0 DEF RunnerInit
<1>5. RunnerTypeOK
  BY <1>0, <1>2, <1>3, <1>4 DEF SimpleTypes, RunnerTypeOK, RunnerInit
<1>6. ControlInv
  BY <1>0 DEF ControlInv, RunnerInit
<1>7. OutcomeInv
  <2>1. AllPassed
    BY <1>0, <1>3, OutcomeFacts DEF RunnerInit
  <2> QED BY <1>0, <2>1 DEF OutcomeInv, AfterSnap, Faults, RunnerInit
<1>8. CountInv
  <2>1. RunsToDo \in 0..(NumIterations + NumSnaps)
    BY <1>5, CorpusFacts
  <2> QED BY <1>0, <2>1, RunnerAssumption DEF CountInv, RunnerInit
<1>9. OutputInv
  BY <1>0 DEF OutputInv, Exited, RunnerInit
<1>10. TypeOK /\ DriverInv
  BY <1>0, <1>1, <1>5, AttemptsBound DEF TypeOK, DriverInv, ResultKinds
<1>11. NoSnapAfterSignal /\ PassMeansAllRan
  BY <1>0 DEF NoSnapAfterSignal, PassMeansAllRan, RunnerInit
<1>12. PagesBounded
  BY <1>0, RunnerAssumption DEF PagesBounded, RunnerInit
<1>13. VerdictJustified /\ FailureNotMissed
  BY <1>0, <1>1 DEF VerdictJustified, FailureNotMissed
<1> QED BY <1>6, <1>7, <1>8, <1>9, <1>10, <1>11, <1>12, <1>13
           DEF RunnerDriverInv, VerdictSound

LEMMA InvStep ==
  ASSUME RunnerDriverInv, [Next]_vars
  PROVE  RunnerDriverInv'
<1>1. CASE UNCHANGED vars
  <2>1. UNCHANGED runnerVars /\ UNCHANGED <<driver, attempt, result>>
    BY <1>1 DEF vars, driverVars
  <2>2. UNCHANGED <<received, snap_end, entered, status>>
    BY <2>1 DEF runnerVars
  <2>3. TypeOK' /\ DriverInv'
    BY <2>1, RunnerPartStays DEF RunnerDriverInv, TypeOK, DriverInv
  <2>4. VerdictJustified' /\ FailureNotMissed'
    BY <2>1, <2>2 DEF RunnerDriverInv, VerdictSound, VerdictJustified,
                      FailureNotMissed, Killed
  <2> QED BY <2>1, <2>3, <2>4, RunnerPartStays DEF RunnerDriverInv, VerdictSound
<1> QED BY <1>1, StartFailsInv, StartInv, CommunicateInv, RunnerStepInv
           DEF Next, Terminated

-----------------------------------------------------------------------------
(* Theorems                                                                  *)

\* In every reachable state of the driver and its runner, whatever signals
\* arrive between whichever two instructions of RunSnap, the invariant holds.
THEOREM Correctness == Spec => []RunnerDriverInv
BY InvInit, InvStep, PTL DEF Spec

\* The variables of the driver and of the runner keep their types.
THEOREM TypeCorrect == Spec => []TypeOK
<1>1. RunnerDriverInv => TypeOK
  BY DEF RunnerDriverInv
<1> QED BY <1>1, Correctness, PTL

\* The verdict of a runner can be relied upon: no snap executes that a timeout
\* can no longer stop, HandleRunnerOutput reports only what happened, and no
\* failure of a snap is turned into a success.
THEOREM VerdictsAreSound == Spec => []VerdictSound
<1>1. RunnerDriverInv => VerdictSound
  BY DEF RunnerDriverInv
<1> QED BY <1>1, Correctness, PTL

-----------------------------------------------------------------------------
(* ProgramMutator: encodings and instructions                                *)

\* The recursion of TwoTo has a solution.
LEMMA PowersExist ==
  ASSUME NEW n \in Nat
  PROVE  \E g : g = [k \in 0 .. n |-> IF k = 0 THEN 1 ELSE 2 * g[k - 1]]
<1> DEFINE Solves(g, k) == g = [i \in 0..k |-> IF i = 0 THEN 1 ELSE 2 * g[i - 1]]
           P == {k \in 0..n : \E g : Solves(g, k)}
<1>1. 0 \in P
  <2> DEFINE g == [i \in 0..0 |-> 1]
  <2>1. Solves(g, 0)
    OBVIOUS
  <2> HIDE DEF g
  <2>2. \E q : Solves(q, 0)
    BY <2>1
  <2> QED BY <2>2
<1>2. ASSUME NEW k \in 0..(n - 1), k \in P PROVE k + 1 \in P
  <2>1. PICK g : Solves(g, k)
    BY <1>2
  <2> DEFINE h == [i \in 0..(k + 1) |-> IF i = k + 1 THEN 2 * g[k] ELSE g[i]]
  <2>2. \A i \in 0..k : g[i] = IF i = 0 THEN 1 ELSE 2 * g[i - 1]
    BY <2>1
  <2>3. \A i \in 0..(k + 1) : h[i] = IF i = 0 THEN 1 ELSE 2 * h[i - 1]
    BY <2>2
  <2>4. Solves(h, k + 1)
    BY <2>3
  <2> HIDE DEF h
  <2>5. \E q : Solves(q, k + 1)
    BY <2>4
  <2>6. k + 1 \in 0..n
    OBVIOUS
  <2> HIDE DEF Solves
  <2> QED BY <2>5, <2>6
<1>3. n \in P
  <2>1. n \in 0..n
    OBVIOUS
  <2> HIDE DEF P
  <2>2. 0..n \subseteq P
    BY <1>1, <1>2, InductionUpTo
  <2> QED BY <2>1, <2>2
<1>4. \E g : Solves(g, n)
  BY <1>3
<1> QED BY <1>4

\* TwoTo is a positive number.
LEMMA TwoToType ==
  ASSUME NEW n \in Nat
  PROVE  TwoTo(n) \in Nat /\ TwoTo(n) > 0
<1> DEFINE E(g) == [k \in 0 .. n |-> IF k = 0 THEN 1 ELSE 2 * g[k - 1]]
           f == CHOOSE g : g = E(g)
           P == {k \in 0 .. n : f[k] \in Nat /\ f[k] > 0}
<1>1. TwoTo(n) = f[n]
  BY DEF TwoTo
<1>2. f = E(f)
  BY PowersExist
<1> HIDE DEF f
<1>3. \A k \in 0 .. n : f[k] = IF k = 0 THEN 1 ELSE 2 * f[k - 1]
  BY <1>2
<1>4. 0 \in P
  BY <1>3
<1>5. \A k \in 0 .. (n - 1) : k \in P => k + 1 \in P
  BY <1>3
<1>6. 0 .. n \subseteq P
  BY <1>4, <1>5, InductionUpTo
<1> QED BY <1>1, <1>6

\* What a field holds is a number.
LEMMA SignedFieldType ==
  ASSUME NEW v \in Int, NEW w \in Nat, w > 0
  PROVE  SignedField(v, w) \in Int
<1>1. /\ TwoTo(w) \in Nat /\ TwoTo(w) > 0
      /\ TwoTo(w - 1) \in Nat
  BY TwoToType
<1>2. \A a, b \in Nat : b > 0 => \A x \in Int : ((x + a) % b) - a \in Int
  OBVIOUS
<1> QED BY <1>1, <1>2 DEF SignedField

\* Displacements are numbers; a branch that is not fixed up has none.
LEMMA ExtractType ==
  ASSUME NEW e \in Shapes
  PROVE  /\ ExtractBranchDisplacement(e) \in Int
         /\ Scale(e) \in {1, 4} /\ Base(e) \in Int
         /\ GetDirectBranchInfo(e) \in Int \cup {kInvalid}
BY DEF Shapes, ExtractBranchDisplacement, Scale, Base, GetDirectBranchInfo

\* What re-encoding does: the size becomes the canonical one and the field
\* takes the wanted displacement, from what it is relative to by then.
CanonBase(e) == IF e.arch = "aarch64" THEN 0 ELSE e.canon
FieldFor(e, disp) == SignedField((disp - CanonBase(e)) \div Scale(e), e.width)

\* Both rounds of TryToReencodeInstructionDisplacements in one.
LEMMA ReencodeIs ==
  ASSUME NEW i \in InsnSet, i.encoded.width > 0, i.disp \in Int
  PROVE  /\ Reencoded(i) = [i EXCEPT !.encoded =
                             [@ EXCEPT !.size = i.encoded.canon,
                                       !.field = FieldFor(i.encoded, i.disp)]]
         /\ FieldFor(i.encoded, i.disp) \in Int
         /\ Reencoded(i) \in InsnSet
<1> DEFINE e == i.encoded
           wanted == (i.disp - Base(e)) \div Scale(e)
           one == [e EXCEPT !.size = e.canon, !.field = SignedField(wanted, e.width)]
           last == (i.disp - CanonBase(e)) \div Scale(e)
           two == [e EXCEPT !.size = e.canon, !.field = SignedField(last, e.width)]
<1>1. e \in Shapes /\ e.canon \in Nat \ {0} /\ e.size \in Nat \ {0} /\ e.width \in Nat
  BY DEF InsnSet, Shapes
<1>2. Scale(e) \in {1, 4} /\ Base(e) \in Int /\ CanonBase(e) \in Int
  BY <1>1, ExtractType DEF CanonBase
<1>3. wanted \in Int /\ last \in Int
  BY <1>2
<1>4. SignedField(wanted, e.width) \in Int /\ SignedField(last, e.width) \in Int
  BY <1>1, <1>3, SignedFieldType
<1>5. ReencodeInternal(i) = [i EXCEPT !.encoded = one]
  BY DEF ReencodeInternal
<1>6. /\ one \in Shapes /\ one.size = e.canon /\ one.canon = e.canon /\ one.arch = e.arch
      /\ one.width = e.width
      /\ [one EXCEPT !.size = e.canon, !.field = SignedField(last, e.width)] = two
  BY <1>1, <1>4 DEF Shapes
<1>7. two \in Shapes
  BY <1>1, <1>4 DEF Shapes
<1>8. Base(one) = CanonBase(e) /\ Scale(one) = Scale(e)
  BY <1>6 DEF Base, Scale, CanonBase
<1>9. e.size = e.canon => Base(e) = CanonBase(e)
  BY DEF Base, CanonBase
<1>10. Reencoded(i) = [i EXCEPT !.encoded = two]
  <2> DEFINE j == [i EXCEPT !.encoded = one]
  <2>1. j.encoded = one /\ j.disp = i.disp /\ j \in InsnSet
    BY <1>6 DEF InsnSet
  <2>2. CASE e.size = e.canon
    <3>1. one = two
      BY <2>2, <1>9
    <3>2. ~(j.encoded.size # i.encoded.size)
      BY <2>1, <2>2, <1>6
    <3> QED BY <1>5, <3>1, <3>2 DEF Reencoded
  <2>3. CASE e.size # e.canon
    <3>1. j.encoded.size # i.encoded.size
      BY <2>1, <2>3, <1>6
    <3>2. (j.disp - Base(j.encoded)) \div Scale(j.encoded) = last
      BY <2>1, <1>8
    <3>3. [j.encoded EXCEPT !.size = j.encoded.canon,
                            !.field = SignedField(last, j.encoded.width)] = two
      BY <2>1, <1>6
    <3>4. ReencodeInternal(j) = [j EXCEPT !.encoded = two]
      BY <3>2, <3>3 DEF ReencodeInternal
    <3>5. [j EXCEPT !.encoded = two] = [i EXCEPT !.encoded = two]
      BY DEF InsnSet
    <3> QED BY <1>5, <3>1, <3>4, <3>5 DEF Reencoded
  <2> QED BY <2>2, <2>3
<1>11. [i EXCEPT !.encoded = two] \in InsnSet
  BY <1>7 DEF InsnSet
<1> QED BY <1>4, <1>10, <1>11 DEF FieldFor

\* Whether it succeeds depends on nothing that re-encoding changes.
LEMMA SuccessIs ==
  ASSUME NEW i \in InsnSet, i.encoded.width > 0, i.disp \in Int
  PROVE  ReencodeSucceeds(i) <=>
           FieldFor(i.encoded, i.disp) * Scale(i.encoded) + CanonBase(i.encoded) = i.disp
<1> DEFINE e == i.encoded
           f == FieldFor(e, i.disp)
           g == [e EXCEPT !.size = e.canon, !.field = f]
<1>1. Reencoded(i) = [i EXCEPT !.encoded = g]
  BY ReencodeIs
<1>2. Reencoded(i).encoded = g
  BY <1>1 DEF InsnSet
<1> HIDE DEF f
<1>3. g.arch = e.arch /\ g.size = e.canon /\ g.field = f
  BY DEF InsnSet, Shapes
<1>4. Scale(g) = Scale(e) /\ Base(g) = CanonBase(e)
  BY <1>3 DEF Scale, Base, CanonBase
<1>5. ExtractBranchDisplacement(g) = f * Scale(e) + CanonBase(e)
  BY <1>3, <1>4 DEF ExtractBranchDisplacement
<1> QED BY <1>2, <1>5 DEF ReencodeSucceeds, f

-----------------------------------------------------------------------------
(* Where instructions start                                                  *)

\* The parts of an instruction.
LEMMA InsnParts ==
  ASSUME NEW i \in InsnSet
  PROVE  /\ i.encoded \in Shapes /\ i.encoded.size \in Nat \ {0}
         /\ i.encoded.canon \in Nat \ {0} /\ i.encoded.width \in Nat
         /\ i.disp \in Int \cup {kInvalid}
         /\ i.boundary \in Int \cup {kInvalid} /\ i.offset \in Int
BY DEF InsnSet, Shapes

\* Every instruction starts where the one before ends.
LEMMA StartsFacts ==
  ASSUME NEW s \in Seq(InsnSet)
  PROVE  /\ Len(s) \in Nat /\ DOMAIN s = 1 .. Len(s)
         /\ Starts(s)[0] = 0
         /\ \A k \in 1 .. Len(s) : Starts(s)[k] = Starts(s)[k - 1] + s[k].encoded.size
         /\ \A k \in 0 .. Len(s) : Starts(s)[k] \in Nat
         /\ \A i, j \in 0 .. Len(s) : i < j => Starts(s)[i] < Starts(s)[j]
         /\ SizeOfAll(s) = Starts(s)[Len(s)] /\ SizeOfAll(s) \in Nat
<1> DEFINE z == [k \in DOMAIN s |-> s[k].encoded.size]
<1>1. Len(s) \in Nat /\ DOMAIN s = 1 .. Len(s) /\ \A k \in 1 .. Len(s) : s[k] \in InsnSet
  OBVIOUS
<1>2. \A k \in 1 .. Len(s) : s[k].encoded.size \in Nat \ {0}
  BY <1>1, InsnParts
<1>3. z \in Seq(Nat \ {0}) /\ Len(z) = Len(s)
  BY <1>1, <1>2
<1>4. z \in Seq(Nat)
  BY <1>1, <1>2
<1>5. \A k \in 1 .. Len(s) : z[k] = s[k].encoded.size
  BY <1>1
<1>6. Starts(s) = Sums(z)
  BY DEF Starts
<1> HIDE DEF z
<1>7. /\ Sums(z)[0] = 0
      /\ \A i \in 1..Len(s) : Sums(z)[i] = Sums(z)[i - 1] + z[i]
      /\ \A i \in 0..Len(s) : Sums(z)[i] \in Nat
  BY <1>3, <1>4, SumsFacts
<1>8. \A i, j \in 0 .. Len(s) : i < j => Sums(z)[i] < Sums(z)[j]
  BY <1>3, SumsIncrease
<1>9. Len(s) \in 0 .. Len(s)
  BY <1>1
<1> QED BY <1>1, <1>5, <1>6, <1>7, <1>8, <1>9 DEF SizeOfAll

\* Where instructions start depends on their sizes alone.
LEMMA StartsSame ==
  ASSUME NEW s \in Seq(InsnSet), NEW t \in Seq(InsnSet), Len(s) = Len(t),
         \A k \in 1 .. Len(s) : s[k].encoded.size = t[k].encoded.size
  PROVE  Starts(s) = Starts(t) /\ SizeOfAll(s) = SizeOfAll(t)
<1>1. DOMAIN s = 1 .. Len(s) /\ DOMAIN t = 1 .. Len(s)
  OBVIOUS
<1>2. [k \in DOMAIN s |-> s[k].encoded.size] = [k \in DOMAIN t |-> t[k].encoded.size]
  BY <1>1
<1> QED BY <1>2 DEF Starts, SizeOfAll

\* Two programs with the same sizes up to c start alike there.
LEMMA StartsPrefix ==
  ASSUME NEW s \in Seq(InsnSet), NEW t \in Seq(InsnSet),
         NEW c \in 0 .. Len(s), c <= Len(t),
         \A k \in 1 .. c : s[k].encoded.size = t[k].encoded.size
  PROVE  \A k \in 0 .. c : Starts(s)[k] = Starts(t)[k]
<1> DEFINE P == {k \in 0 .. c : Starts(s)[k] = Starts(t)[k]}
<1>1. /\ Len(s) \in Nat /\ Starts(s)[0] = 0
      /\ \A k \in 1 .. Len(s) : Starts(s)[k] = Starts(s)[k - 1] + s[k].encoded.size
  BY StartsFacts
<1>2. /\ Len(t) \in Nat /\ Starts(t)[0] = 0
      /\ \A k \in 1 .. Len(t) : Starts(t)[k] = Starts(t)[k - 1] + t[k].encoded.size
  BY StartsFacts
<1>3. 0 \in P
  BY <1>1, <1>2
<1>4. ASSUME NEW k \in 0 .. (c - 1), k \in P PROVE k + 1 \in P
  <2>1. k + 1 \in 1 .. c /\ k + 1 \in 1 .. Len(s) /\ k + 1 \in 1 .. Len(t) /\ (k + 1) - 1 = k
        /\ k + 1 \in 0 .. c
    BY <1>1, <1>2
  <2>2. Starts(s)[k + 1] = Starts(t)[k + 1]
    BY <2>1, <1>1, <1>2, <1>4
  <2> QED BY <2>1, <2>2
<1>5. c \in Nat
  BY <1>1
<1> HIDE DEF P
<1>6. 0 .. c \subseteq P
  BY <1>3, <1>4, <1>5, InductionUpTo
<1> QED BY <1>6 DEF P

\* A stretch of a program of the sizes of another.
LEMMA StartsWindow ==
  ASSUME NEW s \in Seq(InsnSet), NEW t \in Seq(InsnSet),
         NEW c \in Nat, c + Len(t) <= Len(s),
         \A j \in 1 .. Len(t) : s[c + j].encoded.size = t[j].encoded.size
  PROVE  \A j \in 0 .. Len(t) : Starts(s)[c + j] = Starts(s)[c] + Starts(t)[j]
<1> DEFINE n == Len(t)
           P == {j \in 0 .. n : Starts(s)[c + j] = Starts(s)[c] + Starts(t)[j]}
<1>1. /\ Len(s) \in Nat
      /\ \A k \in 1 .. Len(s) : Starts(s)[k] = Starts(s)[k - 1] + s[k].encoded.size
      /\ \A k \in 0 .. Len(s) : Starts(s)[k] \in Nat
      /\ \A k \in 1 .. Len(s) : s[k] \in InsnSet
  BY StartsFacts
<1>2. /\ n \in Nat /\ Starts(t)[0] = 0
      /\ \A k \in 1 .. n : Starts(t)[k] = Starts(t)[k - 1] + t[k].encoded.size
      /\ \A k \in 0 .. n : Starts(t)[k] \in Nat
  BY StartsFacts
<1>3. 0 \in P
  <2>1. c + 0 = c /\ c \in 0 .. Len(s) /\ 0 \in 0 .. n
    BY <1>1, <1>2
  <2>2. Starts(s)[c + 0] = Starts(s)[c] + Starts(t)[0]
    BY <1>1, <1>2, <2>1
  <2> QED BY <2>1, <2>2
<1>4. ASSUME NEW j \in 0 .. (n - 1), j \in P PROVE j + 1 \in P
  <2>1. /\ c + (j + 1) \in 1 .. Len(s) /\ (c + (j + 1)) - 1 = c + j /\ c \in 0 .. Len(s)
        /\ j + 1 \in 1 .. n /\ (j + 1) - 1 = j /\ j + 1 \in 0 .. n /\ j \in 0 .. n
    BY <1>1, <1>2
  <2>2. s[c + (j + 1)].encoded.size = t[j + 1].encoded.size
    BY <2>1
  <2>3. s[c + (j + 1)].encoded.size \in Nat
    BY <2>1, <1>1, InsnParts
  <2>4. /\ Starts(s)[c + (j + 1)] = Starts(s)[c + j] + s[c + (j + 1)].encoded.size
        /\ Starts(t)[j + 1] = Starts(t)[j] + t[j + 1].encoded.size
        /\ Starts(s)[c] \in Nat /\ Starts(t)[j] \in Nat
    BY <2>1, <1>1, <1>2
  <2>5. Starts(s)[c + j] = Starts(s)[c] + Starts(t)[j]
    BY <1>4
  <2>6. Starts(s)[c + (j + 1)] = Starts(s)[c] + Starts(t)[j + 1]
    BY <2>2, <2>3, <2>4, <2>5
  <2> QED BY <2>1, <2>6
<1> HIDE DEF P
<1>5. 0 .. n \subseteq P
  BY <1>2, <1>3, <1>4, InductionUpTo
<1> QED BY <1>5 DEF P

-----------------------------------------------------------------------------
(* FixupInvariants                                                           *)

\* A program with other instructions and another length.
LEMMA ProgramWith ==
  ASSUME NEW p \in Programs, NEW s \in Seq(InsnSet), NEW b \in Int
  PROVE  LET q == [p EXCEPT !.instructions = s, !.byte_len = b]
         IN /\ q.instructions = s /\ q.byte_len = b
            /\ q.encodings_may_be_invalid = p.encodings_may_be_invalid
            /\ q \in Programs
BY DEF Programs

\* FixupInvariants changes offsets and the length, and nothing else.
LEMMA FixupShape ==
  ASSUME NEW p, p \in Programs
  PROVE  LET q == FixupInvariants(p)
             n == Len(p.instructions)
         IN /\ q \in Programs /\ Len(q.instructions) = n /\ n \in Nat
            /\ DOMAIN q.instructions = 1 .. n
            /\ \A k \in 1 .. n : q.instructions[k] =
                 [p.instructions[k] EXCEPT !.offset = Starts(p.instructions)[k - 1]]
            /\ Starts(q.instructions) = Starts(p.instructions)
            /\ q.byte_len = SizeOfAll(q.instructions)
            /\ q.byte_len = SizeOfAll(p.instructions)
            /\ q.encodings_may_be_invalid = p.encodings_may_be_invalid
<1> DEFINE s == p.instructions
           n == Len(s)
           t == [k \in DOMAIN s |-> [s[k] EXCEPT !.offset = Starts(s)[k - 1]]]
           q == FixupInvariants(p)
<1>0. s \in Seq(InsnSet) /\ n \in Nat /\ DOMAIN s = 1 .. n /\ p.encodings_may_be_invalid \in BOOLEAN
  BY DEF Programs
<1>1. \A k \in 0 .. n : Starts(s)[k] \in Nat
  BY <1>0, StartsFacts
<1>2. ASSUME NEW k \in 1 .. n
      PROVE  /\ [s[k] EXCEPT !.offset = Starts(s)[k - 1]] \in InsnSet
             /\ [s[k] EXCEPT !.offset = Starts(s)[k - 1]].encoded = s[k].encoded
  <2>1. s[k] \in InsnSet /\ k - 1 \in 0 .. n
    BY <1>0
  <2>2. Starts(s)[k - 1] \in Int
    BY <2>1, <1>1
  <2> QED BY <2>1, <2>2 DEF InsnSet
<1>3. t \in Seq(InsnSet) /\ Len(t) = n /\ DOMAIN t = 1 .. n
  BY <1>0, <1>2
<1>4. \A k \in 1 .. n : t[k] = [s[k] EXCEPT !.offset = Starts(s)[k - 1]]
  BY <1>0
<1>5. q = [p EXCEPT !.instructions = t, !.byte_len = Starts(s)[n]]
  BY DEF FixupInvariants
<1> HIDE DEF t
<1>6. Starts(t) = Starts(s) /\ SizeOfAll(t) = SizeOfAll(s)
  BY <1>0, <1>2, <1>3, <1>4, StartsSame
<1>7. Starts(s)[n] = SizeOfAll(s) /\ SizeOfAll(s) \in Nat
  BY <1>0, StartsFacts
<1>8. /\ q.instructions = t /\ q.byte_len = SizeOfAll(s)
      /\ q.encodings_may_be_invalid = p.encodings_may_be_invalid
      /\ q \in Programs
  <2>1. Starts(s)[n] \in Int
    BY <1>7
  <2>2. t \in Seq(InsnSet) /\ p \in Programs
    BY <1>3
  <2> HIDE DEF q, s, n
  <2>3. LET r == [p EXCEPT !.instructions = t, !.byte_len = Starts(s)[n]]
        IN /\ r.instructions = t /\ r.byte_len = Starts(s)[n]
           /\ r.encodings_may_be_invalid = p.encodings_may_be_invalid
           /\ r \in Programs
    BY <2>1, <2>2, ProgramWith
  <2> QED BY <2>3, <1>5, <1>7
<1> HIDE DEF q
<1> QED BY <1>0, <1>3, <1>4, <1>6, <1>8 DEF q

-----------------------------------------------------------------------------
(* Insertion, removal, overwriting                                           *)

\* An instruction that differs at most in its offset and, if it is a branch, in
\* its boundary.
Like(r, i) ==
  /\ r.encoded = i.encoded /\ r.disp = i.disp
  /\ ~Valid(i) => r.boundary = i.boundary

\* What the invariant says of one holds of the other.
LEMMA LikeKeeps ==
  ASSUME NEW r, NEW i, Like(r, i)
  PROVE  /\ GoodInsn(i) => GoodInsn(r)
         /\ Valid(r) <=> Valid(i)
         /\ Told(i) => Told(r)
BY DEF Like, GoodInsn, Valid, Told

\* Concatenation, with the lengths named.
LEMMA CatOf ==
  ASSUME NEW S, NEW a \in Seq(S), NEW b \in Seq(S), NEW i, NEW j, Len(a) = i, Len(b) = j
  PROVE  /\ a \o b \in Seq(S) /\ Len(a \o b) = i + j
         /\ \A m \in 1..i : (a \o b)[m] = a[m]
         /\ \A m \in 1..j : (a \o b)[i + m] = b[m]
OBVIOUS

\* The end of a sequence.
LEMMA TailOf ==
  ASSUME NEW S, NEW s \in Seq(S), NEW n, Len(s) = n, NEW x \in 0 .. n
  PROVE  /\ SubSeq(s, x + 1, n) \in Seq(S) /\ Len(SubSeq(s, x + 1, n)) = n - x
         /\ \A k \in 1 .. (n - x) : SubSeq(s, x + 1, n)[k] = s[x + k]
OBVIOUS

\* A stretch of a sequence.
LEMMA WindowOf ==
  ASSUME NEW S, NEW s \in Seq(S), NEW c \in Nat, NEW m \in Nat, c + m <= Len(s)
  PROVE  /\ SubSeq(s, c + 1, c + m) \in Seq(S) /\ Len(SubSeq(s, c + 1, c + m)) = m
         /\ \A k \in 1 .. m : SubSeq(s, c + 1, c + m)[k] = s[c + k]
OBVIOUS

\* AdjustInstructionIndexes, instruction by instruction.
LEMMA AdjustShape ==
  ASSUME NEW p, WellFormed(p), NEW c \in Int, NEW a \in Int
  PROVE  LET q == AdjustInstructionIndexes(p, c, a)
             n == Len(p.instructions)
         IN /\ q \in Programs /\ Len(q.instructions) = n /\ n \in Nat
            /\ DOMAIN q.instructions = 1 .. n
            /\ \A k \in 1 .. n : q.instructions[k] =
                 LET i == p.instructions[k]
                 IN IF Valid(i) /\ i.boundary >= c
                    THEN [i EXCEPT !.boundary = @ + a] ELSE i
<1> DEFINE s == p.instructions
           n == Len(s)
           F(i) == IF Valid(i) /\ i.boundary >= c THEN [i EXCEPT !.boundary = @ + a] ELSE i
           t == [k \in DOMAIN s |-> F(s[k])]
           q == AdjustInstructionIndexes(p, c, a)
<1>1. /\ p \in Programs /\ s \in Seq(InsnSet) /\ n \in Nat /\ DOMAIN s = 1 .. n
      /\ p.encodings_may_be_invalid \in BOOLEAN /\ p.byte_len \in Int
      /\ \A k \in 1 .. n : s[k] \in InsnSet /\ (Valid(s[k]) => s[k].boundary \in Int)
  BY DEF WellFormed, Programs, Boundaries, NumInstructions
<1>2. ASSUME NEW k \in 1 .. n PROVE F(s[k]) \in InsnSet
  <2>1. CASE Valid(s[k]) /\ s[k].boundary >= c
    <3>1. s[k] \in InsnSet /\ s[k].boundary + a \in Int
      BY <2>1, <1>1
    <3>2. \A i \in InsnSet, b \in Int : [i EXCEPT !.boundary = b] \in InsnSet
      BY DEF InsnSet
    <3>3. F(s[k]) = [s[k] EXCEPT !.boundary = s[k].boundary + a]
      BY <2>1
    <3> QED BY <3>1, <3>2, <3>3
  <2> QED BY <2>1, <1>1
<1>3. t \in Seq(InsnSet) /\ Len(t) = n /\ DOMAIN t = 1 .. n
  BY <1>1, <1>2
<1>4. \A k \in 1 .. n : t[k] = F(s[k])
  BY <1>1
<1>5. q = [p EXCEPT !.instructions = t]
  BY DEF AdjustInstructionIndexes, MapInstructions
<1> HIDE DEF t, F
<1>6. q.instructions = t /\ q \in Programs
  BY <1>1, <1>3, <1>5 DEF Programs
<1> HIDE DEF q
<1> QED BY <1>1, <1>3, <1>4, <1>6 DEF q, F

\* InsertInstructionBlock, instruction by instruction: the old ones, then the
\* block.
LEMMA InsertShape ==
  ASSUME NEW p, WellFormed(p), NEW b \in Boundaries(p), NEW c \in Int,
         NEW insns \in Seq(InsnSet)
  PROVE  LET q == InsertMoving(p, b, c, insns)
             n == Len(p.instructions)
             m == Len(insns)
         IN /\ q \in Programs /\ n \in Nat /\ m \in Nat /\ Len(q.instructions) = n + m
            /\ q.byte_len = SizeOfAll(q.instructions)
            /\ \A k \in 1 .. n :
                 LET i == p.instructions[k]
                     r == q.instructions[IF k > b THEN k + m ELSE k]
                 IN /\ Like(r, i)
                    /\ r.boundary = IF Valid(i) /\ i.boundary >= c
                                    THEN i.boundary + m ELSE i.boundary
            /\ \A j \in 1 .. m :
                 /\ Like(q.instructions[b + j], insns[j])
                 /\ q.instructions[b + j].boundary = insns[j].boundary
<1> DEFINE s == p.instructions
           n == Len(s)
           m == Len(insns)
           u == AdjustInstructionIndexes(p, c, m).instructions
           A == SubSeq(u, 1, b)
           C == SubSeq(u, b + 1, Len(u))
           raw == A \o insns \o C
           w == [AdjustInstructionIndexes(p, c, m) EXCEPT !.instructions = raw,
                                                          !.encodings_may_be_invalid = TRUE]
           q == InsertMoving(p, b, c, insns)
<1>0. m \in Nat /\ p \in Programs /\ b \in 0 .. n /\ s \in Seq(InsnSet)
  BY DEF WellFormed, Boundaries, NumInstructions, Programs
<1>1. /\ u \in Seq(InsnSet) /\ Len(u) = n /\ n \in Nat
      /\ AdjustInstructionIndexes(p, c, m) \in Programs
      /\ \A k \in 1 .. n : u[k] = LET i == s[k]
                                  IN IF Valid(i) /\ i.boundary >= c
                                     THEN [i EXCEPT !.boundary = @ + m] ELSE i
  <2>1. m \in Int
    BY <1>0
  <2> QED BY <2>1, AdjustShape DEF Programs
<1>2. q = FixupInvariants(w)
  BY DEF InsertMoving
<1> HIDE DEF u, q
<1>3. A \in Seq(InsnSet) /\ Len(A) = b /\ \A k \in 1 .. b : A[k] = u[k]
  BY <1>0, <1>1, Sub
<1>4. /\ C \in Seq(InsnSet) /\ Len(C) = n - b
      /\ \A k \in 1 .. (n - b) : C[k] = u[b + k]
  BY <1>0, <1>1, Sub
<1> HIDE DEF A, C
<1>5. /\ A \o insns \in Seq(InsnSet) /\ Len(A \o insns) = b + m
      /\ \A k \in 1 .. b : (A \o insns)[k] = A[k]
      /\ \A k \in 1 .. m : (A \o insns)[b + k] = insns[k]
  BY <1>3, CatOf
<1>6. /\ raw \in Seq(InsnSet) /\ Len(raw) = n + m
      /\ \A k \in 1 .. (b + m) : raw[k] = (A \o insns)[k]
      /\ \A k \in 1 .. (n - b) : raw[(b + m) + k] = C[k]
  <2>1. (b + m) + (n - b) = n + m
    BY <1>0, <1>1
  <2> DEFINE D == A \o insns
             l == b + m
             h == n - b
  <2>2. raw = D \o C /\ D \in Seq(InsnSet) /\ Len(D) = l /\ Len(C) = h
    BY <1>4, <1>5
  <2> HIDE DEF D, raw, l, h
  <2>3. /\ raw \in Seq(InsnSet) /\ Len(raw) = l + h
        /\ \A k \in 1 .. l : raw[k] = D[k]
        /\ \A k \in 1 .. h : raw[l + k] = C[k]
    BY <2>2, <1>4, CatOf
  <2> QED BY <2>1, <2>3 DEF D, l, h
<1> HIDE DEF raw
<1>7. w.instructions = raw /\ w \in Programs
  BY <1>1, <1>6 DEF Programs
<1> HIDE DEF w
<1>8. /\ q \in Programs /\ Len(q.instructions) = n + m
      /\ q.byte_len = SizeOfAll(q.instructions)
      /\ \A k \in 1 .. (n + m) : q.instructions[k] =
           [raw[k] EXCEPT !.offset = Starts(raw)[k - 1]]
  BY <1>2, <1>6, <1>7, FixupShape
<1>9. \A k \in 1 .. (n + m) : raw[k] \in InsnSet
  BY <1>0, <1>1, <1>6
<1>10. \A k \in 1 .. (n + m) :
         /\ q.instructions[k].encoded = raw[k].encoded
         /\ q.instructions[k].disp = raw[k].disp
         /\ q.instructions[k].boundary = raw[k].boundary
  BY <1>8, <1>9 DEF InsnSet
<1>11. ASSUME NEW k \in 1 .. n
       PROVE  LET i == s[k]
                  r == q.instructions[IF k > b THEN k + m ELSE k]
              IN /\ Like(r, i)
                 /\ r.boundary = IF Valid(i) /\ i.boundary >= c
                                 THEN i.boundary + m ELSE i.boundary
  <2> DEFINE x == IF k > b THEN k + m ELSE k
  <2>1. x \in 1 .. (n + m)
    BY <1>0, <1>1
  <2>2. raw[x] = u[k]
    <3>1. CASE k > b
      <4>1. k - b \in 1 .. (n - b) /\ (b + m) + (k - b) = k + m /\ b + (k - b) = k
        BY <3>1, <1>0, <1>1
      <4> QED BY <4>1, <3>1, <1>4, <1>6
    <3>2. CASE ~(k > b)
      <4>1. k \in 1 .. b /\ k \in 1 .. (b + m)
        BY <3>2, <1>0, <1>1
      <4> QED BY <4>1, <3>2, <1>3, <1>5, <1>6
    <3> QED BY <3>1, <3>2
  <2>3. s[k] \in InsnSet
    BY <1>0, <1>1
  <2>4. u[k].encoded = s[k].encoded /\ u[k].disp = s[k].disp
        /\ u[k].boundary = IF Valid(s[k]) /\ s[k].boundary >= c
                           THEN s[k].boundary + m ELSE s[k].boundary
    BY <1>1, <2>3 DEF InsnSet
  <2> HIDE DEF x
  <2>5. q.instructions[x].encoded = s[k].encoded /\ q.instructions[x].disp = s[k].disp
        /\ q.instructions[x].boundary = IF Valid(s[k]) /\ s[k].boundary >= c
                           THEN s[k].boundary + m ELSE s[k].boundary
    BY <1>10, <2>1, <2>2, <2>4
  <2>6. Like(q.instructions[x], s[k])
    BY <2>5 DEF Like
  <2> QED BY <2>5, <2>6 DEF x
<1>12. ASSUME NEW j \in 1 .. m
       PROVE  /\ Like(q.instructions[b + j], insns[j])
              /\ q.instructions[b + j].boundary = insns[j].boundary
  <2>1. b + j \in 1 .. (b + m) /\ b + j \in 1 .. (n + m)
    BY <1>0, <1>1
  <2>2. raw[b + j] = insns[j]
    BY <2>1, <1>5, <1>6
  <2> QED BY <2>1, <2>2, <1>10 DEF Like
<1> HIDE DEF s, n, m
<1>13. /\ q \in Programs /\ n \in Nat /\ m \in Nat /\ Len(q.instructions) = n + m
       /\ q.byte_len = SizeOfAll(q.instructions)
  BY <1>0, <1>1, <1>8
<1> QED BY <1>11, <1>12, <1>13 DEF q, s, n, m

\* RemoveInstruction, instruction by instruction.
LEMMA RemoveShape ==
  ASSUME NEW p, WellFormed(p), NEW x \in 0 .. Len(p.instructions) - 1
  PROVE  LET q == RemoveInstruction(p, x)
             n == Len(p.instructions)
         IN /\ q \in Programs /\ n \in Nat /\ Len(q.instructions) = n - 1
            /\ q.byte_len = SizeOfAll(q.instructions)
            /\ \A k \in 1 .. (n - 1) :
                 LET i == p.instructions[IF k > x THEN k + 1 ELSE k]
                     r == q.instructions[k]
                 IN /\ Like(r, i)
                    /\ r.boundary = IF Valid(i) /\ i.boundary >= x + 1
                                    THEN i.boundary - 1 ELSE i.boundary
<1> DEFINE s == p.instructions
           n == Len(s)
           v == AdjustInstructionIndexes(p, x + 1, -1)
           u == v.instructions
           A == SubSeq(u, 1, (x + 1) - 1)
           C == SubSeq(u, (x + 1) + 1, Len(u))
           raw == A \o C
           w == [v EXCEPT !.instructions = raw, !.encodings_may_be_invalid = TRUE]
           q == RemoveInstruction(p, x)
<1>0. n \in Nat /\ p \in Programs /\ s \in Seq(InsnSet) /\ x + 1 \in Int /\ x \in Nat
      /\ (x + 1) - 1 = x /\ (x + 1) + 1 = x + 2 /\ -1 \in Int /\ x + 1 <= n
  BY DEF WellFormed, Programs
<1>1. /\ u \in Seq(InsnSet) /\ Len(u) = n
      /\ v \in Programs
      /\ \A k \in 1 .. n : u[k] = LET i == s[k]
                                  IN IF Valid(i) /\ i.boundary >= x + 1
                                     THEN [i EXCEPT !.boundary = @ + (-1)] ELSE i
  BY <1>0, AdjustShape DEF Programs
<1>2. q = FixupInvariants(w)
  <2>1. RemoveAt(u, x + 1) = raw
    BY DEF RemoveAt
  <2> HIDE DEF raw, u
  <2>2. w = [v EXCEPT !.instructions = RemoveAt(u, x + 1), !.encodings_may_be_invalid = TRUE]
    BY <2>1
  <2> QED BY <2>2 DEF RemoveInstruction, u
<1> HIDE DEF v, q
<1>3. A \in Seq(InsnSet) /\ Len(A) = x /\ \A k \in 1 .. x : A[k] = u[k]
  BY <1>0, <1>1, Sub
<1>4. /\ C \in Seq(InsnSet) /\ Len(C) = n - (x + 1)
      /\ \A k \in 1 .. (n - (x + 1)) : C[k] = u[(x + 1) + k]
  <2> HIDE DEF u
  <2> DEFINE y == x + 1
  <2>1. y \in 0 .. n /\ C = SubSeq(u, y + 1, n)
    BY <1>0, <1>1
  <2> HIDE DEF y, C, n
  <2>2. C \in Seq(InsnSet) /\ Len(C) = n - y /\ \A k \in 1 .. (n - y) : C[k] = u[y + k]
    BY <2>1, <1>1, TailOf
  <2> QED BY <2>2 DEF y
<1> HIDE DEF A, C, u
<1>6. /\ raw \in Seq(InsnSet) /\ Len(raw) = n - 1
      /\ \A k \in 1 .. x : raw[k] = A[k]
      /\ \A k \in 1 .. (n - (x + 1)) : raw[x + k] = C[k]
  <2> DEFINE h == n - (x + 1)
  <2>1. x + h = n - 1
    BY <1>0
  <2> HIDE DEF h, n
  <2>2. /\ raw \in Seq(InsnSet) /\ Len(raw) = x + h
        /\ \A k \in 1 .. x : raw[k] = A[k]
        /\ \A k \in 1 .. h : raw[x + k] = C[k]
    BY <1>3, <1>4, CatOf DEF h
  <2> QED BY <2>1, <2>2 DEF h
<1> HIDE DEF raw
<1>7. w.instructions = raw /\ w \in Programs
  BY <1>1, <1>6 DEF Programs
<1> HIDE DEF w
<1>8. /\ q \in Programs /\ Len(q.instructions) = n - 1
      /\ q.byte_len = SizeOfAll(q.instructions)
      /\ \A k \in 1 .. (n - 1) : q.instructions[k] =
           [raw[k] EXCEPT !.offset = Starts(raw)[k - 1]]
  BY <1>2, <1>6, <1>7, FixupShape
<1>9. \A k \in 1 .. (n - 1) : raw[k] \in InsnSet
  BY <1>0, <1>6
<1>10. \A k \in 1 .. (n - 1) :
         /\ q.instructions[k].encoded = raw[k].encoded
         /\ q.instructions[k].disp = raw[k].disp
         /\ q.instructions[k].boundary = raw[k].boundary
  BY <1>8, <1>9 DEF InsnSet
<1>11. ASSUME NEW k \in 1 .. (n - 1)
       PROVE  LET i == s[IF k > x THEN k + 1 ELSE k]
                  r == q.instructions[k]
              IN /\ Like(r, i)
                 /\ r.boundary = IF Valid(i) /\ i.boundary >= x + 1
                                 THEN i.boundary - 1 ELSE i.boundary
  <2> DEFINE y == IF k > x THEN k + 1 ELSE k
  <2>1. y \in 1 .. n
    BY <1>0
  <2>2. raw[k] = u[y]
    <3>1. CASE k > x
      <4>1. k - x \in 1 .. (n - (x + 1)) /\ x + (k - x) = k /\ (x + 1) + (k - x) = k + 1
        BY <3>1, <1>0
      <4> QED BY <4>1, <3>1, <1>4, <1>6
    <3>2. CASE ~(k > x)
      <4>1. k \in 1 .. x
        BY <3>2, <1>0
      <4> QED BY <4>1, <3>2, <1>3, <1>6
    <3> QED BY <3>1, <3>2
  <2>3. s[y] \in InsnSet
    BY <1>0, <2>1
  <2> HIDE DEF y
  <2>4. u[y].encoded = s[y].encoded /\ u[y].disp = s[y].disp
        /\ u[y].boundary = IF Valid(s[y]) /\ s[y].boundary >= x + 1
                           THEN s[y].boundary + (-1) ELSE s[y].boundary
    BY <1>1, <2>1, <2>3 DEF InsnSet
  <2>5. Valid(s[y]) => s[y].boundary \in Int
    BY <2>1, <1>0 DEF WellFormed, Boundaries, NumInstructions, Programs
  <2>6. q.instructions[k].encoded = s[y].encoded /\ q.instructions[k].disp = s[y].disp
        /\ q.instructions[k].boundary = IF Valid(s[y]) /\ s[y].boundary >= x + 1
                           THEN s[y].boundary - 1 ELSE s[y].boundary
    BY <1>10, <2>2, <2>4, <2>5
  <2>7. Like(q.instructions[k], s[y])
    BY <2>6 DEF Like
  <2> QED BY <2>6, <2>7 DEF y
<1> HIDE DEF s, n
<1>13. /\ q \in Programs /\ n \in Nat /\ Len(q.instructions) = n - 1
       /\ q.byte_len = SizeOfAll(q.instructions)
  BY <1>0, <1>8
<1> QED BY <1>11, <1>13 DEF q, s, n

\* Two programs with the same instructions from e on.
LEMMA StartsRest ==
  ASSUME NEW s \in Seq(InsnSet), NEW t \in Seq(InsnSet), NEW n, Len(s) = n, Len(t) = n,
         NEW e \in 0 .. n, \A k \in e + 1 .. n : s[k] = t[k]
  PROVE  /\ Starts(s)[n] \in Nat /\ Starts(s)[e] \in Nat
         /\ Starts(t)[n] \in Nat /\ Starts(t)[e] \in Nat
         /\ Starts(s)[n] + Starts(t)[e] = Starts(t)[n] + Starts(s)[e]
<1> DEFINE rest == SubSeq(s, e + 1, n)
           h == n - e
<1>1. e \in Nat /\ h \in Nat /\ e + h = n /\ n \in 0 .. n /\ h \in 0 .. h /\ e + h <= n
  OBVIOUS
<1>2. rest \in Seq(InsnSet) /\ Len(rest) = h /\ \A k \in 1 .. h : s[e + k] = rest[k]
  BY TailOf
<1>3. ASSUME NEW k \in 1 .. h PROVE t[e + k] = rest[k]
  <2>1. e + k \in e + 1 .. n
    BY <1>1
  <2> QED BY <2>1, <1>2
<1> HIDE DEF rest, h
<1>4. \A j \in 0 .. h : Starts(s)[e + j] = Starts(s)[e] + Starts(rest)[j]
  <2>1. e + Len(rest) <= Len(s)
        /\ \A j \in 1 .. Len(rest) : s[e + j].encoded.size = rest[j].encoded.size
    BY <1>1, <1>2
  <2>2. \A j \in 0 .. Len(rest) : Starts(s)[e + j] = Starts(s)[e] + Starts(rest)[j]
    BY <2>1, <1>1, <1>2, StartsWindow
  <2> QED BY <2>2, <1>2
<1>5. \A j \in 0 .. h : Starts(t)[e + j] = Starts(t)[e] + Starts(rest)[j]
  <2>1. e + Len(rest) <= Len(t)
        /\ \A j \in 1 .. Len(rest) : t[e + j].encoded.size = rest[j].encoded.size
    BY <1>1, <1>2, <1>3
  <2>2. \A j \in 0 .. Len(rest) : Starts(t)[e + j] = Starts(t)[e] + Starts(rest)[j]
    BY <2>1, <1>1, <1>2, StartsWindow
  <2> QED BY <2>2, <1>2
<1>6. /\ Starts(s)[n] \in Nat /\ Starts(s)[e] \in Nat
      /\ Starts(t)[n] \in Nat /\ Starts(t)[e] \in Nat /\ Starts(rest)[h] \in Nat
  BY <1>1, <1>2, StartsFacts
<1>7. /\ Starts(s)[n] = Starts(s)[e] + Starts(rest)[h]
      /\ Starts(t)[n] = Starts(t)[e] + Starts(rest)[h]
  BY <1>1, <1>4, <1>5
<1> QED BY <1>6, <1>7

\* Instructions that may be put into a program of n.
GoodBlock(insns, n) ==
  /\ insns \in Seq(InsnSet)
  /\ \A j \in 1 .. Len(insns) :
       /\ GoodInsn(insns[j]) /\ Told(insns[j])
       /\ Valid(insns[j]) => insns[j].boundary \in 0 .. n

\* What is known of a sound program.
LEMMA SoundParts ==
  ASSUME NEW p, Sound(p)
  PROVE  LET n == Len(p.instructions)
         IN /\ p \in Programs /\ p.instructions \in Seq(InsnSet)
            /\ n \in Nat /\ DOMAIN p.instructions = 1 .. n
            /\ Boundaries(p) = 0 .. n /\ NumInstructions(p) = n
            /\ \A k \in 1 .. n :
                 LET i == p.instructions[k]
                 IN /\ i \in InsnSet /\ GoodInsn(i) /\ Told(i)
                    /\ Valid(i) => i.boundary \in 0 .. n
BY DEF Sound, WellFormed, Programs, Boundaries, NumInstructions

\* What makes a program sound.
LEMMA SoundFrom ==
  ASSUME NEW p \in Programs, p.byte_len = SizeOfAll(p.instructions),
         \A k \in 1 .. Len(p.instructions) :
           LET i == p.instructions[k]
           IN /\ GoodInsn(i) /\ Told(i)
              /\ Valid(i) => i.boundary \in 0 .. Len(p.instructions)
  PROVE  Sound(p)
<1>1. DOMAIN p.instructions = 1 .. Len(p.instructions)
  BY DEF Programs
<1> QED BY <1>1 DEF Sound, WellFormed, Boundaries, NumInstructions

\* Insertion leaves every branch with a boundary of the larger program.
LEMMA InsertSound ==
  ASSUME NEW p, Sound(p), NEW b \in Boundaries(p), NEW c, c = b \/ c = b + 1,
         NEW insns, GoodBlock(insns, Len(p.instructions) + Len(insns))
  PROVE  Sound(InsertMoving(p, b, c, insns))
<1> DEFINE q == InsertMoving(p, b, c, insns)
           n == Len(p.instructions)
           m == Len(insns)
<1>1. /\ WellFormed(p) /\ b \in 0 .. n /\ n \in Nat /\ c \in Int
      /\ \A k \in 1 .. n :
                 LET i == p.instructions[k]
                 IN /\ GoodInsn(i) /\ Told(i)
                    /\ Valid(i) => i.boundary \in 0 .. n
  BY SoundParts DEF Sound
<1>2. /\ insns \in Seq(InsnSet) /\ m \in Nat
      /\ \A j \in 1 .. m :
           /\ GoodInsn(insns[j]) /\ Told(insns[j])
           /\ Valid(insns[j]) => insns[j].boundary \in 0 .. n + m
  BY DEF GoodBlock
<1>3. /\ q \in Programs /\ Len(q.instructions) = n + m
      /\ q.byte_len = SizeOfAll(q.instructions)
      /\ \A k \in 1 .. n :
           LET i == p.instructions[k]
               r == q.instructions[IF k > b THEN k + m ELSE k]
           IN /\ Like(r, i)
              /\ r.boundary = IF Valid(i) /\ i.boundary >= c
                              THEN i.boundary + m ELSE i.boundary
      /\ \A j \in 1 .. m :
           /\ Like(q.instructions[b + j], insns[j])
           /\ q.instructions[b + j].boundary = insns[j].boundary
  BY <1>1, <1>2, InsertShape
<1> HIDE DEF q, n, m
<1>4. ASSUME NEW k \in 1 .. n + m
      PROVE  LET i == q.instructions[k]
             IN /\ GoodInsn(i) /\ Told(i)
                /\ Valid(i) => i.boundary \in 0 .. n + m
  <2>1. CASE k \in b + 1 .. b + m
    <3>1. k - b \in 1 .. m /\ b + (k - b) = k
      BY <2>1, <1>1, <1>2
    <3>2. Like(q.instructions[k], insns[k - b])
          /\ q.instructions[k].boundary = insns[k - b].boundary
      BY <3>1, <1>3
    <3> QED BY <3>1, <3>2, <1>2, LikeKeeps
  <2>2. CASE ~(k \in b + 1 .. b + m)
    <3>1. PICK x \in 1 .. n : k = IF x > b THEN x + m ELSE x
      <4>1. CASE k <= b
        BY <4>1, <1>1
      <4>2. CASE ~(k <= b)
        <5>1. k - m \in 1 .. n /\ k - m > b /\ (k - m) + m = k
          BY <4>2, <2>2, <1>1, <1>2
        <5> QED BY <5>1
      <4> QED BY <4>1, <4>2
    <3> DEFINE i == p.instructions[x]
    <3>2. /\ Like(q.instructions[k], i)
          /\ q.instructions[k].boundary = IF Valid(i) /\ i.boundary >= c
                              THEN i.boundary + m ELSE i.boundary
      BY <3>1, <1>3
    <3>3. GoodInsn(i) /\ Told(i) /\ (Valid(i) => i.boundary \in 0 .. n)
      BY <3>1, <1>1
    <3> HIDE DEF i
    <3>4. Valid(i) => q.instructions[k].boundary \in 0 .. n + m
      BY <3>2, <3>3, <1>1, <1>2
    <3> QED BY <3>2, <3>3, <3>4, LikeKeeps
  <2> QED BY <2>1, <2>2
<1>5. Sound(q)
  BY <1>3, <1>4, SoundFrom
<1> QED BY <1>5 DEF q

\* The same, with and without stealing displacements.
LEMMA InsertBlockSound ==
  ASSUME NEW p, Sound(p), NEW b \in Boundaries(p), NEW steal \in BOOLEAN,
         NEW insns, GoodBlock(insns, Len(p.instructions) + Len(insns))
  PROVE  Sound(InsertInstructionBlock(p, b, steal, insns))
<1> DEFINE c == IF steal THEN b + 1 ELSE b
<1>1. c = b \/ c = b + 1
  OBVIOUS
<1> HIDE DEF c
<1>2. Sound(InsertMoving(p, b, c, insns))
  BY <1>1, InsertSound
<1> QED BY <1>2 DEF InsertInstructionBlock, c

\* Removal leaves every branch with a boundary of the smaller program.
LEMMA RemoveSound ==
  ASSUME NEW p, Sound(p), NEW x \in 0 .. Len(p.instructions) - 1
  PROVE  Sound(RemoveInstruction(p, x))
<1> DEFINE q == RemoveInstruction(p, x)
           n == Len(p.instructions)
<1>1. /\ WellFormed(p) /\ n \in Nat /\ x \in 0 .. n - 1
      /\ \A k \in 1 .. n :
                 LET i == p.instructions[k]
                 IN /\ GoodInsn(i) /\ Told(i)
                    /\ Valid(i) => i.boundary \in 0 .. n
  BY SoundParts DEF Sound
<1>3. /\ q \in Programs /\ Len(q.instructions) = n - 1
      /\ q.byte_len = SizeOfAll(q.instructions)
      /\ \A k \in 1 .. (n - 1) :
           LET i == p.instructions[IF k > x THEN k + 1 ELSE k]
               r == q.instructions[k]
           IN /\ Like(r, i)
              /\ r.boundary = IF Valid(i) /\ i.boundary >= x + 1
                              THEN i.boundary - 1 ELSE i.boundary
  BY <1>1, RemoveShape
<1> HIDE DEF q, n
<1>4. ASSUME NEW k \in 1 .. n - 1
      PROVE  LET i == q.instructions[k]
             IN /\ GoodInsn(i) /\ Told(i)
                /\ Valid(i) => i.boundary \in 0 .. n - 1
  <2> DEFINE y == IF k > x THEN k + 1 ELSE k
             i == p.instructions[y]
  <2>1. y \in 1 .. n
    BY <1>1
  <2>2. /\ Like(q.instructions[k], i)
        /\ q.instructions[k].boundary = IF Valid(i) /\ i.boundary >= x + 1
                              THEN i.boundary - 1 ELSE i.boundary
    BY <1>3
  <2>3. GoodInsn(i) /\ Told(i) /\ (Valid(i) => i.boundary \in 0 .. n)
    BY <2>1, <1>1
  <2> HIDE DEF i
  <2>4. Valid(i) => q.instructions[k].boundary \in 0 .. n - 1
    BY <2>2, <2>3, <1>1
  <2> QED BY <2>2, <2>3, <2>4, LikeKeeps
<1>5. Sound(q)
  BY <1>3, <1>4, SoundFrom
<1> QED BY <1>5 DEF q

\* Overwriting keeps the length of the program in step.
LEMMA SetSound ==
  ASSUME NEW p, Sound(p), NEW d \in Nat, NEW insns,
         d + Len(insns) <= Len(p.instructions),
         GoodBlock(insns, Len(p.instructions))
  PROVE  /\ Sound(SetInstructionBlock(p, d, insns))
         /\ Len(SetInstructionBlock(p, d, insns).instructions) = Len(p.instructions)
<1> DEFINE q == SetInstructionBlock(p, d, insns)
           s == p.instructions
           n == Len(s)
           m == Len(insns)
           t == [k \in DOMAIN s |-> IF k - d \in DOMAIN insns THEN insns[k - d] ELSE s[k]]
           old == SubSeq(s, d + 1, d + m)
           len == p.byte_len + SizeOfAll(insns) - SizeOfAll(old)
<1>1. /\ p \in Programs /\ s \in Seq(InsnSet) /\ n \in Nat /\ DOMAIN s = 1 .. n
      /\ \A k \in 1 .. n :
                 LET i == p.instructions[k]
                 IN /\ i \in InsnSet /\ GoodInsn(i) /\ Told(i)
                    /\ Valid(i) => i.boundary \in 0 .. n
  BY SoundParts
<1>2. /\ insns \in Seq(InsnSet) /\ m \in Nat /\ DOMAIN insns = 1 .. m /\ d + m <= n
      /\ \A j \in 1 .. m :
           /\ insns[j] \in InsnSet /\ GoodInsn(insns[j]) /\ Told(insns[j])
           /\ Valid(insns[j]) => insns[j].boundary \in 0 .. n
  BY DEF GoodBlock
<1>3. q = [p EXCEPT !.instructions = t, !.byte_len = len, !.encodings_may_be_invalid = TRUE]
  BY DEF SetInstructionBlock
<1>4. /\ t \in Seq(InsnSet) /\ Len(t) = n
      /\ \A k \in 1 .. n : t[k] = IF k - d \in 1 .. m THEN insns[k - d] ELSE s[k]
  BY <1>1, <1>2
<1>5. /\ old \in Seq(InsnSet) /\ Len(old) = m
      /\ \A j \in 1 .. m : old[j] = s[d + j]
  BY <1>1, <1>2
<1> HIDE DEF q, n, m, t, old
<1>6. SizeOfAll(t) = SizeOfAll(s) + SizeOfAll(insns) - SizeOfAll(old)
      /\ SizeOfAll(t) \in Nat
  <2>1. \A k \in 0 .. d : Starts(t)[k] = Starts(s)[k]
    <3>1. \A k \in 1 .. d : t[k].encoded.size = s[k].encoded.size
      BY <1>1, <1>2, <1>4
    <3>2. Len(s) = n
      BY DEF n
    <3>3. d \in 0 .. Len(t) /\ d <= Len(s)
      BY <3>2, <1>1, <1>2, <1>4
    <3>4. t \in Seq(InsnSet) /\ s \in Seq(InsnSet)
      BY <1>1, <1>4
    <3> HIDE DEF s
    <3> QED BY <3>1, <3>3, <3>4, StartsPrefix
  <2>2. Starts(t)[d + m] = Starts(t)[d] + Starts(insns)[m]
    <3>1. ASSUME NEW j \in 1 .. m PROVE t[d + j] = insns[j]
      <4>1. d + j \in 1 .. n /\ (d + j) - d = j
        BY <1>1, <1>2
      <4> QED BY <4>1, <1>4
    <3>2. \A j \in 0 .. m : Starts(t)[d + j] = Starts(t)[d] + Starts(insns)[j]
      BY <3>1, <1>2, <1>4, StartsWindow DEF m
    <3> QED BY <3>2, <1>2
  <2>3. Starts(s)[d + m] = Starts(s)[d] + Starts(old)[m]
    <3>2. \A j \in 0 .. m : Starts(s)[d + j] = Starts(s)[d] + Starts(old)[j]
      BY <1>1, <1>2, <1>5, StartsWindow DEF n
    <3> QED BY <3>2, <1>2
  <2> DEFINE e == d + m
  <2>4. e \in 0 .. n
    BY <1>1, <1>2
  <2>5. \A k \in e + 1 .. n : s[k] = t[k]
    BY <1>1, <1>2, <1>4
  <2>6. /\ Starts(s)[n] \in Nat /\ Starts(s)[e] \in Nat
        /\ Starts(t)[n] \in Nat /\ Starts(t)[e] \in Nat
        /\ Starts(s)[n] + Starts(t)[e] = Starts(t)[n] + Starts(s)[e]
    <3>1. Len(s) = n /\ s \in Seq(InsnSet)
      BY <1>1 DEF n
    <3> HIDE DEF e, s
    <3> QED BY <3>1, <2>4, <2>5, <1>4, StartsRest
  <2>8. /\ SizeOfAll(s) = Starts(s)[n] /\ SizeOfAll(t) = Starts(t)[n]
        /\ SizeOfAll(insns) = Starts(insns)[m] /\ SizeOfAll(old) = Starts(old)[m]
        /\ SizeOfAll(t) \in Nat
    BY <1>1, <1>2, <1>4, <1>5, StartsFacts DEF n, m
  <2>9. Starts(s)[d] \in Nat /\ Starts(insns)[m] \in Nat /\ Starts(old)[m] \in Nat
    <3>1. d \in 0 .. n /\ m \in 0 .. m
      BY <1>1, <1>2
    <3>2. Starts(s)[d] \in Nat
      BY <1>1, <3>1, StartsFacts DEF n
    <3>3. Starts(insns)[m] \in Nat /\ Starts(old)[m] \in Nat
      BY <1>2, <1>5, <3>1, StartsFacts DEF m
    <3> QED BY <3>2, <3>3
  <2>10. Starts(t)[d] = Starts(s)[d]
    BY <2>1
  <2> HIDE DEF s
  <2> QED BY <2>2, <2>3, <2>6, <2>8, <2>9, <2>10, SMTT(30)
<1>7. len = SizeOfAll(t) /\ len \in Int
  BY <1>6 DEF Sound
<1> HIDE DEF len
<1>8. q \in Programs /\ q.instructions = t /\ q.byte_len = len
  BY <1>1, <1>3, <1>4, <1>7 DEF Programs
<1>9. ASSUME NEW k \in 1 .. n
      PROVE  LET i == t[k]
             IN /\ GoodInsn(i) /\ Told(i)
                /\ Valid(i) => i.boundary \in 0 .. n
  <2>1. CASE k - d \in 1 .. m
    BY <2>1, <1>2, <1>4
  <2>2. CASE ~(k - d \in 1 .. m)
    BY <2>2, <1>1, <1>4
  <2> QED BY <2>1, <2>2
<1>10. Sound(q)
  BY <1>4, <1>7, <1>8, <1>9, SoundFrom
<1> QED BY <1>4, <1>8, <1>10 DEF q, n

-----------------------------------------------------------------------------
(* The mutations                                                             *)

\* An instruction for a program of n.
GoodIn(i, n) ==
  /\ i \in InsnSet /\ GoodInsn(i) /\ Told(i)
  /\ Valid(i) => i.boundary \in 0 .. n

\* An instruction decoded from accepted bytes.
LEMMA FromBytesGood ==
  ASSUME NEW e \in Encodings, e.kind = "insn", NEW o \in Int
  PROVE  LET i == InstructionFromBytes(e, o)
         IN i \in InsnSet /\ GoodInsn(i) /\ Told(i) /\ i.encoded = e
            /\ i.boundary = kInvalid
<1> DEFINE i == InstructionFromBytes(e, o)
           d == GetDirectBranchInfo(e)
<1>1. e \in Shapes /\ SizeChangeFits(e)
  BY DEF Encodings
<1>2. ExtractBranchDisplacement(e) \in Int /\ d \in Int \cup {kInvalid}
  BY <1>1, ExtractType
<1>3. d # kInvalid => e.width > 0 /\ d = ExtractBranchDisplacement(e)
  BY DEF GetDirectBranchInfo
<1> HIDE DEF d
<1>4. i = [encoded |-> e, disp |-> d, boundary |-> kInvalid, offset |-> o]
  BY DEF InstructionFromBytes, d
<1>5. i \in InsnSet /\ i.encoded = e /\ i.disp = d /\ i.boundary = kInvalid
  BY <1>1, <1>2, <1>4 DEF InsnSet
<1> HIDE DEF i
<1>6. Valid(i) <=> d # kInvalid
  BY <1>5 DEF Valid
<1>7. GoodInsn(i)
  BY <1>1, <1>3, <1>5, <1>6 DEF GoodInsn, d
<1>8. Told(i)
  BY <1>3, <1>5, <1>6 DEF Told
<1> QED BY <1>5, <1>7, <1>8 DEF i

\* A branch given a boundary of the program.
LEMMA BoundaryChosen ==
  ASSUME NEW i \in InsnSet, GoodInsn(i), Told(i), Valid(i), NEW n \in Nat, NEW b \in 0 .. n
  PROVE  GoodIn([i EXCEPT !.boundary = b], n)
<1> DEFINE r == [i EXCEPT !.boundary = b]
<1>1. r \in InsnSet /\ r.boundary = b /\ r.encoded = i.encoded /\ r.disp = i.disp
  BY DEF InsnSet
<1> HIDE DEF r
<1>2. Like(r, i)
  BY <1>1 DEF Like
<1>3. GoodIn(r, n)
  BY <1>1, <1>2, LikeKeeps DEF GoodIn
<1> QED BY <1>3 DEF r

\* RandomizeInstructionDisplacementBoundaries stays within the program.
LEMMA RandomizeGood ==
  ASSUME NEW i \in InsnSet, GoodInsn(i), Told(i), NEW n \in Nat,
         NEW r \in RandomizeInstructionDisplacementBoundaries(i, n + 1)
  PROVE  GoodIn(r, n)
<1>1. CASE Valid(i)
  <2>1. PICK b \in 0 .. (n + 1) - 1 : r = [i EXCEPT !.boundary = b]
    BY <1>1 DEF RandomizeInstructionDisplacementBoundaries
  <2>2. b \in 0 .. n
    OBVIOUS
  <2> QED BY <1>1, <2>1, <2>2, BoundaryChosen
<1>2. CASE ~Valid(i)
  <2>1. r = i
    BY <1>2 DEF RandomizeInstructionDisplacementBoundaries
  <2> QED BY <1>2, <2>1 DEF GoodIn
<1> QED BY <1>1, <1>2

\* CopyOrRandomizeInstructionDisplacementBoundaries does.
LEMMA CopyGood ==
  ASSUME NEW n \in Nat, NEW o, GoodIn(o, n), NEW i \in InsnSet, GoodInsn(i), Told(i),
         NEW r \in CopyOrRandomize(o, i, n + 1)
  PROVE  GoodIn(r, n)
<1>1. CASE Valid(i) /\ Valid(o) /\ i.disp = o.disp
  <2>1. r = [i EXCEPT !.boundary = o.boundary] /\ o.boundary \in 0 .. n
    BY <1>1 DEF CopyOrRandomize, GoodIn
  <2> QED BY <1>1, <2>1, BoundaryChosen
<1>2. CASE ~(Valid(i) /\ Valid(o) /\ i.disp = o.disp)
  <2>1. r \in RandomizeInstructionDisplacementBoundaries(i, n + 1)
    BY <1>2 DEF CopyOrRandomize
  <2> QED BY <2>1, RandomizeGood
<1> QED BY <1>1, <1>2

\* ShiftOrRandomizeInstructionDisplacementBoundaries does, wherever the
\* instruction came from.
LEMMA ShiftGood ==
  ASSUME NEW n \in Nat, NEW i \in InsnSet, GoodInsn(i), Told(i), NEW x \in Int,
         Valid(i) => i.boundary \in Int,
         NEW r \in ShiftOrRandomize(i, x, n + 1)
  PROVE  GoodIn(r, n)
<1>1. CASE Valid(i) /\ i.boundary + x \in 0 .. (n + 1) - 1
  <2>1. r = [i EXCEPT !.boundary = i.boundary + x] /\ i.boundary + x \in 0 .. n
    BY <1>1 DEF ShiftOrRandomize
  <2> QED BY <1>1, <2>1, BoundaryChosen
<1>2. CASE ~(Valid(i) /\ i.boundary + x \in 0 .. (n + 1) - 1)
  <2>1. r \in RandomizeInstructionDisplacementBoundaries(i, n + 1)
    BY <1>2 DEF ShiftOrRandomize
  <2> QED BY <2>1, RandomizeGood
<1> QED BY <1>1, <1>2

\* A block of one instruction.
LEMMA OneGood ==
  ASSUME NEW n, NEW i, GoodIn(i, n)
  PROVE  GoodBlock(<<i>>, n) /\ Len(<<i>>) = 1
<1>1. <<i>> \in Seq(InsnSet) /\ Len(<<i>>) = 1 /\ <<i>>[1] = i
  BY DEF GoodIn
<1>2. \A j \in 1 .. 1 : j = 1
  OBVIOUS
<1> QED BY <1>1, <1>2 DEF GoodIn, GoodBlock

\* A block of the other program, shifted to its new place.
LEMMA ShiftBlockGood ==
  ASSUME NEW p, Sound(p), NEW size \in 1 .. Len(p.instructions),
         NEW src \in 0 .. Len(p.instructions) - size, NEW x \in Int, NEW n \in Nat,
         NEW t \in ShiftBlock(CopyInstructionBlock(p, src, size), x, n + 1)
  PROVE  GoodBlock(t, n) /\ Len(t) = size
<1> DEFINE s == p.instructions
           block == CopyInstructionBlock(p, src, size)
<1>1. /\ s \in Seq(InsnSet) /\ Len(s) \in Nat
      /\ \A k \in 1 .. Len(s) :
           s[k] \in InsnSet /\ GoodInsn(s[k]) /\ Told(s[k])
           /\ (Valid(s[k]) => s[k].boundary \in Int)
  BY SoundParts
<1>2. block = SubSeq(s, src + 1, src + size)
  BY DEF CopyInstructionBlock
<1>3. /\ block \in Seq(InsnSet) /\ Len(block) = size /\ DOMAIN block = 1 .. size
      /\ \A k \in 1 .. size : block[k] = s[src + k] /\ src + k \in 1 .. Len(s)
  <2>1. src + size <= Len(s) /\ src \in Nat /\ size \in Nat
    BY <1>1
  <2>2. /\ SubSeq(s, src + 1, src + size) \in Seq(InsnSet)
        /\ Len(SubSeq(s, src + 1, src + size)) = size
        /\ \A k \in 1 .. size : SubSeq(s, src + 1, src + size)[k] = s[src + k]
    BY <2>1, <1>1, WindowOf
  <2>3. \A k \in 1 .. size : src + k \in 1 .. Len(s)
    BY <1>1
  <2> HIDE DEF block, s
  <2>4. block \in Seq(InsnSet) /\ Len(block) = size
        /\ \A k \in 1 .. size : block[k] = s[src + k]
    BY <1>2, <2>2
  <2> QED BY <2>3, <2>4
<1> HIDE DEF block
<1>4. \A k \in 1 .. size :
        block[k] \in InsnSet /\ GoodInsn(block[k]) /\ Told(block[k])
        /\ (Valid(block[k]) => block[k].boundary \in Int)
  BY <1>1, <1>3
<1>5. /\ DOMAIN t = 1 .. size
      /\ \A k \in 1 .. size : t[k] \in ShiftOrRandomize(block[k], x, n + 1)
      /\ t = [k \in 1 .. size |-> t[k]]
  BY <1>3 DEF ShiftBlock, block
<1>6. \A k \in 1 .. size : GoodIn(t[k], n)
  BY <1>4, <1>5, ShiftGood
<1>7. \A k \in 1 .. size : t[k] \in InsnSet
  BY <1>6 DEF GoodIn
<1>8. t \in Seq(InsnSet) /\ Len(t) = size
  BY <1>5, <1>7
<1> QED BY <1>6, <1>8 DEF GoodBlock, GoodIn

\* An instruction made from random bytes.
LEMMA GeneratedGood ==
  ASSUME arch \in DOMAIN Inputs, NEW i \in GenerateSingleInstruction
  PROVE  i \in InsnSet /\ GoodInsn(i) /\ Told(i)
<1>1. PICK e \in Generated[arch] : i = InstructionFromBytes(e, 0)
  BY DEF GenerateSingleInstruction
<1>2. e \in Encodings /\ e.kind = "insn"
  BY <1>1, MutatorAssumption
<1> QED BY <1>1, <1>2, FromBytesGood

\* InsertGeneratedInstruction keeps the program sound.
LEMMA InsertGeneratedSound ==
  ASSUME arch \in DOMAIN Inputs, Sound(program), InsertGeneratedInstruction
  PROVE  Sound(program')
<1> DEFINE n == Len(program.instructions)
<1>1. PICK insn \in GenerateSingleInstruction :
      \E placed \in RandomizeInstructionDisplacementBoundaries(
                  insn, NumInstructionBoundaries(program) + 1) :
      \E boundary \in Boundaries(program), steal \in BOOLEAN :
         program' = InsertInstructionBlock(program, boundary, steal, <<placed>>)
  BY DEF InsertGeneratedInstruction
<1>2. PICK placed \in RandomizeInstructionDisplacementBoundaries(
                  insn, NumInstructionBoundaries(program) + 1) :
      \E boundary \in Boundaries(program), steal \in BOOLEAN :
         program' = InsertInstructionBlock(program, boundary, steal, <<placed>>)
  BY <1>1
<1>3. n \in Nat /\ NumInstructionBoundaries(program) + 1 = (n + 1) + 1
  BY SoundParts DEF NumInstructionBoundaries
<1>4. GoodIn(placed, n + 1)
  BY <1>3, GeneratedGood, RandomizeGood
<1>5. GoodBlock(<<placed>>, n + Len(<<placed>>))
  BY <1>4, OneGood
<1> QED BY <1>2, <1>5, InsertBlockSound

\* MutateInstruction does.
LEMMA MutateSound ==
  ASSUME arch \in DOMAIN Inputs, Sound(program), MutateInstruction
  PROVE  Sound(program')
<1> DEFINE n == Len(program.instructions)
<1>1. /\ n \in Nat /\ NumInstructions(program) = n
      /\ NumInstructionBoundaries(program) = n + 1
      /\ \A k \in 1 .. n : GoodIn(program.instructions[k], n)
  BY SoundParts DEF NumInstructionBoundaries, NumInstructions, GoodIn
<1>2. PICK target \in 0 .. n - 1 :
        \E insn \in MutateSingleInstruction(program.instructions[target + 1]) :
        \E placed \in CopyOrRandomize(program.instructions[target + 1], insn, n + 1) :
          program' = SetInstructionBlock(program, target, <<placed>>)
  BY <1>1 DEF MutateInstruction
<1> DEFINE original == program.instructions[target + 1]
<1>3. GoodIn(original, n) /\ target \in Nat /\ target + 1 <= n
  BY <1>1
<1>4. PICK insn \in MutateSingleInstruction(original) :
        \E placed \in CopyOrRandomize(original, insn, n + 1) :
          program' = SetInstructionBlock(program, target, <<placed>>)
  BY <1>2
<1>5. PICK placed \in CopyOrRandomize(original, insn, n + 1) :
          program' = SetInstructionBlock(program, target, <<placed>>)
  BY <1>4
<1> HIDE DEF original
<1>6. insn \in InsnSet /\ GoodInsn(insn) /\ Told(insn)
  <2>1. CASE insn \in GenerateSingleInstruction
    BY <2>1, GeneratedGood
  <2>2. CASE insn = InstructionFromBytes(original.encoded, 0)
    <3>1. original.encoded \in Encodings /\ original.encoded.kind = "insn"
      BY <1>3, InsnParts DEF GoodIn, GoodInsn, Encodings
    <3> QED BY <3>1, <2>2, FromBytesGood
  <2> QED BY <2>1, <2>2 DEF MutateSingleInstruction
<1>7. GoodIn(placed, n)
  BY <1>1, <1>3, <1>6, CopyGood
<1>8. GoodBlock(<<placed>>, n) /\ target + Len(<<placed>>) <= n
  BY <1>3, <1>7, OneGood
<1> QED BY <1>3, <1>5, <1>8, SetSound

\* SwapInstructions does.
LEMMA SwapSound ==
  ASSUME Sound(program), SwapInstructions
  PROVE  Sound(program')
<1> DEFINE n == Len(program.instructions)
<1>1. /\ n \in Nat /\ NumInstructions(program) = n
      /\ \A k \in 1 .. n : GoodIn(program.instructions[k], n)
  BY SoundParts DEF NumInstructions, GoodIn
<1>2. PICK a \in 0 .. n - 1, b \in 0 .. n - 1 :
        program' = SetInstructionBlock(
                     SetInstructionBlock(program, a, <<program.instructions[b + 1]>>),
                     b, <<program.instructions[a + 1]>>)
  BY <1>1 DEF SwapInstructions
<1> DEFINE q == SetInstructionBlock(program, a, <<program.instructions[b + 1]>>)
<1>3. GoodIn(program.instructions[b + 1], n) /\ GoodIn(program.instructions[a + 1], n)
      /\ a \in Nat /\ b \in Nat /\ a + 1 <= n /\ b + 1 <= n
  BY <1>1
<1>4. /\ GoodBlock(<<program.instructions[b + 1]>>, n)
      /\ Len(<<program.instructions[b + 1]>>) = 1
  BY <1>3, OneGood
<1>5. /\ GoodBlock(<<program.instructions[a + 1]>>, n)
      /\ Len(<<program.instructions[a + 1]>>) = 1
  BY <1>3, OneGood
<1>6. Sound(q) /\ Len(q.instructions) = n
  BY <1>3, <1>4, SetSound
<1> HIDE DEF q, n
<1>7. Sound(SetInstructionBlock(q, b, <<program.instructions[a + 1]>>))
  BY <1>3, <1>5, <1>6, SetSound
<1> QED BY <1>2, <1>7 DEF q

\* DeleteInstruction does.
LEMMA DeleteSound ==
  ASSUME Sound(program), NEW minimum, DeleteInstruction(minimum)
  PROVE  Sound(program')
<1>1. PICK victim \in 0 .. Len(program.instructions) - 1 :
        program' = RemoveInstruction(program, victim)
  BY DEF DeleteInstruction, NumInstructions
<1> QED BY <1>1, RemoveSound

\* CrossoverInsert and CrossoverOverwrite do.
LEMMA CrossoverSound ==
  ASSUME Sound(program), Sound(other), CrossoverInsert \/ CrossoverOverwrite
  PROVE  Sound(program')
<1> DEFINE n == Len(program.instructions)
           m == Len(other.instructions)
<1>1. /\ n \in Nat /\ NumInstructions(program) = n
      /\ NumInstructionBoundaries(program) = n + 1 /\ Boundaries(program) = 0 .. n
      /\ m \in Nat /\ NumInstructions(other) = m
  BY SoundParts DEF NumInstructionBoundaries, NumInstructions
<1>2. CASE CrossoverInsert
  <2>s. PICK size \in 1 .. m :
          \E src \in 0 .. m - size, dst \in 0 .. n :
          \E shifted \in ShiftBlock(CopyInstructionBlock(other, src, size), dst - src,
                                    (n + 1) + size), steal \in BOOLEAN :
            program' = InsertInstructionBlock(program, dst, steal, shifted)
    BY <1>1, <1>2 DEF CrossoverInsert
  <2>a. PICK src \in 0 .. m - size, dst \in 0 .. n :
          \E shifted \in ShiftBlock(CopyInstructionBlock(other, src, size), dst - src,
                                    (n + 1) + size), steal \in BOOLEAN :
            program' = InsertInstructionBlock(program, dst, steal, shifted)
    BY <2>s
  <2>1. PICK shifted \in ShiftBlock(CopyInstructionBlock(other, src, size), dst - src,
                                    (n + 1) + size), steal \in BOOLEAN :
            program' = InsertInstructionBlock(program, dst, steal, shifted)
    BY <2>a
  <2>2. (n + 1) + size = (n + size) + 1 /\ n + size \in Nat /\ dst - src \in Int
    BY <1>1
  <2>3. shifted \in ShiftBlock(CopyInstructionBlock(other, src, size), dst - src,
                               (n + size) + 1)
    BY <2>1, <2>2
  <2>4. GoodBlock(shifted, n + size) /\ Len(shifted) = size
    BY <2>2, <2>3, ShiftBlockGood, SMTT(30)
  <2> QED BY <2>1, <2>4, <1>1, InsertBlockSound
<1>3. CASE CrossoverOverwrite
  <2>s. PICK size \in 1 .. m :
          \E src \in 0 .. m - size, dst \in 0 .. n - size :
          \E shifted \in ShiftBlock(CopyInstructionBlock(other, src, size), dst - src, n + 1) :
            program' = SetInstructionBlock(program, dst, shifted)
    BY <1>1, <1>3 DEF CrossoverOverwrite
  <2>a. PICK src \in 0 .. m - size, dst \in 0 .. n - size :
          \E shifted \in ShiftBlock(CopyInstructionBlock(other, src, size), dst - src, n + 1) :
            program' = SetInstructionBlock(program, dst, shifted)
    BY <2>s
  <2>1. PICK shifted \in ShiftBlock(CopyInstructionBlock(other, src, size), dst - src, n + 1) :
            program' = SetInstructionBlock(program, dst, shifted)
    BY <2>a
  <2>2. dst - src \in Int /\ dst \in Nat /\ dst + size <= n
    BY <1>1
  <2>3. GoodBlock(shifted, n) /\ Len(shifted) = size
    BY <1>1, <2>2, ShiftBlockGood
  <2> QED BY <2>1, <2>2, <2>3, SetSound
<1> QED BY <1>2, <1>3

-----------------------------------------------------------------------------
(* The constructor                                                           *)

\* The recursion of Accepted has a solution.
LEMMA KeptExists ==
  ASSUME NEW s, NEW n \in Nat
  PROVE  \E g : g = [k \in 0 .. n |->
                       IF k = 0 THEN <<>> ELSE g[k - 1] \o KeptOf(s[k])]
<1> DEFINE F(g, i) == IF i = 0 THEN <<>> ELSE g[i - 1] \o KeptOf(s[i])
           Solves(g, k) == g = [i \in 0..k |-> F(g, i)]
           P == {k \in 0..n : \E g : Solves(g, k)}
<1>1. 0 \in P
  <2> DEFINE g == [i \in 0..0 |-> <<>>]
  <2>1. Solves(g, 0)
    OBVIOUS
  <2> HIDE DEF g
  <2>2. \E q : Solves(q, 0)
    BY <2>1
  <2> QED BY <2>2
<1>2. ASSUME NEW k \in 0..(n - 1), k \in P PROVE k + 1 \in P
  <2>1. PICK g : Solves(g, k)
    BY <1>2
  <2> DEFINE x == g[k] \o KeptOf(s[k + 1])
             h == [i \in 0..(k + 1) |-> IF i = k + 1 THEN x ELSE g[i]]
  <2>2. \A i \in 0..k : g[i] = F(g, i)
    BY <2>1
  <2>3. ASSUME NEW i \in 0..(k + 1) PROVE h[i] = F(h, i)
    <3>1. CASE i = 0
      BY <3>1, <2>2
    <3>2. CASE i \in 1 .. k
      <4>1. h[i] = g[i] /\ h[i - 1] = g[i - 1] /\ i \in 0 .. k
        BY <3>2
      <4> QED BY <4>1, <3>2, <2>2
    <3>3. CASE i = k + 1
      <4>1. h[i] = x /\ h[i - 1] = g[k] /\ i # 0
        BY <3>3
      <4> QED BY <4>1, <3>3
    <3> QED BY <3>1, <3>2, <3>3
  <2>4. Solves(h, k + 1)
    BY <2>3
  <2> HIDE DEF h
  <2>5. \E q : Solves(q, k + 1)
    BY <2>4
  <2>6. k + 1 \in 0..n
    OBVIOUS
  <2> HIDE DEF Solves
  <2> QED BY <2>5, <2>6
<1>3. n \in P
  <2>1. n \in 0..n
    OBVIOUS
  <2> HIDE DEF P
  <2>2. 0..n \subseteq P
    BY <1>1, <1>2, InductionUpTo
  <2> QED BY <2>1, <2>2
<1>4. \E g : Solves(g, n)
  BY <1>3
<1> QED BY <1>4

\* The constructor keeps decoded instructions, and all of them if none is
\* rejected.
LEMMA AcceptedFacts ==
  ASSUME NEW s \in Seq(InsnSet)
  PROVE  /\ Accepted(s) \in Seq({i \in InsnSet : i.encoded.kind = "insn"
                                   /\ \E j \in 1 .. Len(s) : i = s[j]})
         /\ (\A j \in 1 .. Len(s) : s[j].encoded.kind = "insn") => Accepted(s) = s
<1> DEFINE n == Len(s)
           F(g, k) == IF k = 0 THEN <<>> ELSE g[k - 1] \o KeptOf(s[k])
           E(g) == [k \in 0 .. n |-> F(g, k)]
           f == CHOOSE g : g = E(g)
           Kept == {i \in InsnSet : i.encoded.kind = "insn" /\ \E j \in 1 .. n : i = s[j]}
<1>0. n \in Nat /\ n \in 0 .. n /\ \A k \in 1 .. n : s[k] \in InsnSet
  OBVIOUS
<1>1. Accepted(s) = f[n]
  BY DEF Accepted
<1>2. f = E(f)
  <2>1. \E g : g = E(g)
    BY <1>0, KeptExists
  <2> HIDE DEF E
  <2> QED BY <2>1
<1> HIDE DEF f
<1>3. \A k \in 0 .. n : f[k] = F(f, k)
  BY <1>2
<1>4. f[0] = <<>> /\ \A k \in 0 .. (n - 1) : f[k + 1] = f[k] \o KeptOf(s[k + 1])
  <2>1. f[0] = <<>>
    BY <1>3, <1>0
  <2>2. ASSUME NEW k \in 0 .. (n - 1) PROVE f[k + 1] = f[k] \o KeptOf(s[k + 1])
    <3>1. k + 1 \in 0 .. n /\ k + 1 # 0 /\ (k + 1) - 1 = k
      BY <1>0
    <3> QED BY <3>1, <1>3
  <2> QED BY <2>1, <2>2
<1> DEFINE P == {k \in 0 .. n : f[k] \in Seq(Kept)}
<1>5. 0 .. n \subseteq P
  <2>0. <<>> \in Seq(Kept) /\ 0 \in 0 .. n
    <3> HIDE DEF Kept
    <3> QED BY <1>0
  <2>1. 0 \in P
    <3> HIDE DEF Kept
    <3> QED BY <1>4, <2>0
  <2>2. ASSUME NEW k \in 0 .. (n - 1), k \in P PROVE k + 1 \in P
    <3>1. k + 1 \in 1 .. n /\ k + 1 \in 0 .. n
      BY <1>0
    <3>2. s[k + 1].encoded.kind = "insn" => s[k + 1] \in Kept
      BY <3>1, <1>0
    <3>3. f[k] \in Seq(Kept)
      BY <2>2
    <3> HIDE DEF Kept
    <3>4. KeptOf(s[k + 1]) \in Seq(Kept)
      BY <3>2 DEF KeptOf
    <3>6. f[k + 1] \in Seq(Kept)
      BY <3>3, <3>4, <1>4, Cat
    <3> QED BY <3>1, <3>6
  <2> HIDE DEF P
  <2> QED BY <1>0, <2>1, <2>2, InductionUpTo
<1>6. f[n] \in Seq(Kept)
  BY <1>0, <1>5
<1>7. ASSUME \A j \in 1 .. n : s[j].encoded.kind = "insn"
      PROVE  f[n] = s
  <2> DEFINE Q == {k \in 0 .. n : f[k] = SubSeq(s, 1, k)}
  <2>0. SubSeq(s, 1, 0) = <<>> /\ 0 \in 0 .. n
    BY <1>0
  <2>1. 0 \in Q
    BY <1>4, <2>0
  <2>2. ASSUME NEW k \in 0 .. (n - 1), k \in Q PROVE k + 1 \in Q
    <3>1. k + 1 \in 1 .. n /\ k + 1 \in 0 .. n
      BY <1>0
    <3>2. f[k + 1] = f[k] \o <<s[k + 1]>>
      BY <3>1, <1>4, <1>7 DEF KeptOf
    <3>3. f[k] = SubSeq(s, 1, k)
      BY <2>2
    <3>4. SubSeq(s, 1, k) \o <<s[k + 1]>> = SubSeq(s, 1, k + 1)
      BY <3>1, <1>0
    <3> QED BY <3>1, <3>2, <3>3, <3>4
  <2> HIDE DEF Q
  <2>3. n \in Q
    BY <1>0, <2>1, <2>2, InductionUpTo
  <2>4. SubSeq(s, 1, n) = s
    BY <1>0
  <2> QED BY <2>3, <2>4 DEF Q
<1> QED BY <1>1, <1>6, <1>7

\* The boundary nearest to an offset exists.
Distance(p, b, x) ==
  LET d == InstructionBoundaryToProgramByteOffset(p, b) - x IN IF d >= 0 THEN d ELSE -d

\* A boundary of a program has an offset.
LEMMA BoundaryOffset ==
  ASSUME NEW p \in Programs, Len(p.instructions) > 0, NEW b \in Boundaries(p)
  PROVE  InstructionBoundaryToProgramByteOffset(p, b) \in Int
<1> DEFINE s == p.instructions
           n == Len(s)
<1>1. s \in Seq(InsnSet) /\ n \in Nat /\ b \in 0 .. n /\ n > 0
  BY DEF Programs, Boundaries, NumInstructions
<1>2. \A k \in 1 .. n : s[k].offset \in Int /\ s[k].encoded.size \in Int
  BY <1>1, InsnParts
<1>3. CASE b < n
  BY <1>1, <1>2, <1>3 DEF InstructionBoundaryToProgramByteOffset, NumInstructions
<1>4. CASE ~(b < n)
  <2>1. n \in 1 .. n
    BY <1>1
  <2> QED BY <2>1, <1>2, <1>4 DEF InstructionBoundaryToProgramByteOffset, NumInstructions, Last
<1> QED BY <1>3, <1>4

\* FindClosestInstructionBoundary finds a nearest boundary.
LEMMA ClosestIs ==
  ASSUME NEW p \in Programs, Len(p.instructions) > 0, NEW x \in Int
  PROVE  LET r == FindClosestInstructionBoundary(p, x)
         IN /\ r \in Boundaries(p)
            /\ \A c \in Boundaries(p) :
                 \/ Distance(p, r, x) < Distance(p, c, x)
                 \/ Distance(p, r, x) = Distance(p, c, x) /\ r <= c
<1> DEFINE n == Len(p.instructions)
           D(b) == Distance(p, b, x)
<1>1. n \in Nat /\ Boundaries(p) = 0 .. n
  BY DEF Programs, Boundaries, NumInstructions
<1>2. \A b \in 0 .. n : D(b) \in Nat
  BY <1>1, BoundaryOffset DEF Distance
<1> HIDE DEF D
<1> DEFINE T == {D(b) : b \in 0 .. n}
<1>3. PICK m \in T : \A d \in T : m <= d
  <2>1. T \in SUBSET Nat /\ T # {}
    BY <1>1, <1>2
  <2> HIDE DEF T
  <2> QED BY <2>1, LeastElement
<1> DEFINE B == {b \in 0 .. n : D(b) = m}
<1>4. PICK b \in B : \A c \in B : b <= c
  <2>1. B \in SUBSET Nat /\ B # {}
    BY <1>1, <1>3
  <2> HIDE DEF B
  <2> QED BY <2>1, LeastElement
<1>5. b \in 0 .. n /\ D(b) = m /\ m \in Nat
  BY <1>2, <1>3, <1>4
<1>6. ASSUME NEW c \in 0 .. n PROVE D(b) < D(c) \/ (D(b) = D(c) /\ b <= c)
  <2>1. m <= D(c) /\ D(c) \in Nat
    BY <1>2, <1>3
  <2>2. D(c) = m => b <= c
    BY <1>4
  <2> QED BY <2>1, <2>2, <1>5
<1>7. \E r \in 0 .. n : \A c \in 0 .. n : D(r) < D(c) \/ (D(r) = D(c) /\ r <= c)
  BY <1>5, <1>6
<1>8. FindClosestInstructionBoundary(p, x) =
        CHOOSE r \in 0 .. n : \A c \in 0 .. n : D(r) < D(c) \/ (D(r) = D(c) /\ r <= c)
  BY <1>1 DEF FindClosestInstructionBoundary, D, Distance
<1>9. LET r == FindClosestInstructionBoundary(p, x)
      IN /\ r \in 0 .. n
         /\ \A c \in 0 .. n : D(r) < D(c) \/ (D(r) = D(c) /\ r <= c)
  BY <1>7, <1>8
<1> QED BY <1>1, <1>9 DEF D

\* ResolveDisplacements gives branches a boundary.
LEMMA ResolveShape ==
  ASSUME NEW p \in Programs
  PROVE  LET q == ResolveDisplacements(p)
             n == Len(p.instructions)
         IN /\ q \in Programs /\ Len(q.instructions) = n /\ n \in Nat
            /\ \A k \in 1 .. n : q.instructions[k] =
                 LET i == p.instructions[k]
                 IN IF Valid(i) /\ i.boundary = kInvalid
                    THEN [i EXCEPT !.boundary =
                            FindClosestInstructionBoundary(p, i.offset + i.disp)]
                    ELSE i
            /\ q.encodings_may_be_invalid = p.encodings_may_be_invalid
<1> DEFINE s == p.instructions
           n == Len(s)
           F(i) == IF Valid(i) /\ i.boundary = kInvalid
                    THEN [i EXCEPT !.boundary =
                            FindClosestInstructionBoundary(p, i.offset + i.disp)]
                    ELSE i
           t == [k \in DOMAIN s |-> F(s[k])]
           q == ResolveDisplacements(p)
<1>1. /\ s \in Seq(InsnSet) /\ n \in Nat /\ DOMAIN s = 1 .. n
      /\ p.encodings_may_be_invalid \in BOOLEAN /\ p.byte_len \in Int
      /\ \A k \in 1 .. n : s[k] \in InsnSet
  BY DEF Programs
<1>2. ASSUME NEW k \in 1 .. n PROVE F(s[k]) \in InsnSet
  <2>1. CASE Valid(s[k]) /\ s[k].boundary = kInvalid
    <3> DEFINE x == s[k].offset + s[k].disp
               r == FindClosestInstructionBoundary(p, x)
    <3>1. s[k].offset \in Int /\ s[k].disp \in Int
      BY <1>1, <2>1, InsnParts DEF Valid
    <3>2. r \in Boundaries(p)
      BY <3>1, <1>1, ClosestIs
    <3>3. r \in Int
      BY <3>2, <1>1 DEF Boundaries, NumInstructions
    <3> HIDE DEF r
    <3>4. [s[k] EXCEPT !.boundary = r] \in InsnSet
      BY <1>1, <3>3 DEF InsnSet
    <3> QED BY <2>1, <3>4 DEF r
  <2> QED BY <2>1, <1>1
<1>3. t \in Seq(InsnSet) /\ Len(t) = n
  BY <1>1, <1>2
<1>4. \A k \in 1 .. n : t[k] = F(s[k])
  BY <1>1
<1>5. q = [p EXCEPT !.instructions = t]
  BY DEF ResolveDisplacements, MapInstructions
<1> HIDE DEF t, F
<1>6. q.instructions = t /\ q \in Programs
      /\ q.encodings_may_be_invalid = p.encodings_may_be_invalid
  BY <1>1, <1>3, <1>5 DEF Programs
<1> HIDE DEF q
<1> QED BY <1>1, <1>3, <1>4, <1>6 DEF q, F

\* What the constructor reads from bytes.
LEMMA DecodedFacts ==
  ASSUME NEW bytes \in Seq(Encodings)
  PROVE  LET p == Decoded(bytes)
             starts == Sums([k \in DOMAIN bytes |-> bytes[k].size])
             All == [k \in DOMAIN bytes |-> InstructionFromBytes(bytes[k], starts[k - 1])]
         IN /\ p \in Programs
            /\ All \in Seq(InsnSet) /\ Len(All) = Len(bytes)
            /\ \A k \in 1 .. Len(bytes) : starts[k - 1] \in Nat /\ All[k].encoded = bytes[k]
            /\ p.instructions = Accepted(All)
            /\ \A k \in 1 .. Len(p.instructions) :
                 LET i == p.instructions[k]
                 IN i \in InsnSet /\ GoodInsn(i) /\ Told(i) /\ i.boundary = kInvalid
<1> DEFINE p == Decoded(bytes)
           sizes == [k \in DOMAIN bytes |-> bytes[k].size]
           starts == Sums(sizes)
           All == [k \in DOMAIN bytes |-> InstructionFromBytes(bytes[k], starts[k - 1])]
           n == Len(bytes)
<1>1. n \in Nat /\ DOMAIN bytes = 1 .. n /\ \A k \in 1 .. n : bytes[k] \in Encodings
  OBVIOUS
<1>2. \A k \in 1 .. n : bytes[k].size \in Nat /\ bytes[k] \in Shapes
  BY <1>1 DEF Encodings, Shapes
<1>3. sizes \in Seq(Nat) /\ Len(sizes) = n
  BY <1>1, <1>2
<1> HIDE DEF sizes
<1>4. \A k \in 0 .. n : starts[k] \in Nat
  BY <1>3, SumsFacts
<1> HIDE DEF starts
<1>5. ASSUME NEW k \in 1 .. n
      PROVE  LET i == InstructionFromBytes(bytes[k], starts[k - 1])
             IN /\ i \in InsnSet /\ i.encoded = bytes[k]
                /\ bytes[k].kind = "insn" => GoodInsn(i) /\ Told(i) /\ i.boundary = kInvalid
  <2>1. k - 1 \in 0 .. n
    BY <1>1
  <2>2. starts[k - 1] \in Int
    BY <2>1, <1>4
  <2>3. bytes[k] \in Shapes /\ bytes[k] \in Encodings
    BY <1>1, <1>2
  <2>4. GetDirectBranchInfo(bytes[k]) \in Int \cup {kInvalid}
    BY <2>3, ExtractType
  <2>5. InstructionFromBytes(bytes[k], starts[k - 1]) \in InsnSet
        /\ InstructionFromBytes(bytes[k], starts[k - 1]).encoded = bytes[k]
    BY <2>2, <2>3, <2>4 DEF InstructionFromBytes, InsnSet
  <2>6. bytes[k].kind = "insn" =>
          LET i == InstructionFromBytes(bytes[k], starts[k - 1])
          IN GoodInsn(i) /\ Told(i) /\ i.boundary = kInvalid
    BY <2>2, <2>3, FromBytesGood
  <2> QED BY <2>5, <2>6
<1>6. All \in Seq(InsnSet) /\ Len(All) = n
  BY <1>1, <1>5
<1>7. \A k \in 1 .. n : All[k] = InstructionFromBytes(bytes[k], starts[k - 1])
  BY <1>1
<1> HIDE DEF All
<1>8. p = [instructions |-> Accepted(All), byte_len |-> 0, encodings_may_be_invalid |-> TRUE]
  BY DEF Decoded, All, starts, sizes
<1>9. Accepted(All) \in Seq({i \in InsnSet : i.encoded.kind = "insn"
                               /\ \E j \in 1 .. Len(All) : i = All[j]})
  BY <1>6, AcceptedFacts
<1> DEFINE A == Accepted(All)
<1> HIDE DEF A
<1>10. ASSUME NEW k \in 1 .. Len(A)
       PROVE  A[k] \in InsnSet /\ GoodInsn(A[k]) /\ Told(A[k]) /\ A[k].boundary = kInvalid
  <2>1. A[k] \in InsnSet /\ A[k].encoded.kind = "insn" /\ \E j \in 1 .. n : A[k] = All[j]
    BY <1>6, <1>9 DEF A
  <2>2. PICK j \in 1 .. n : A[k] = All[j]
    BY <2>1
  <2>3. bytes[j].kind = "insn"
    BY <2>1, <2>2, <1>5, <1>7
  <2> QED BY <2>1, <2>2, <2>3, <1>5, <1>7
<1>11. A \in Seq(InsnSet)
  BY <1>9 DEF A
<1>12. p.instructions = A /\ p \in Programs
  BY <1>8, <1>11 DEF Programs, A
<1> HIDE DEF p
<1>13. \A k \in 1 .. n : starts[k - 1] \in Nat /\ All[k].encoded = bytes[k]
  <2>1. \A k \in 1 .. n : k - 1 \in 0 .. n
    BY <1>1
  <2> QED BY <2>1, <1>4, <1>5, <1>7
<1> QED BY <1>6, <1>10, <1>12, <1>13 DEF A, p, All, starts, sizes

\* An instruction moved to another offset.
LEMMA OffsetChosen ==
  ASSUME NEW n, NEW i, GoodIn(i, n), NEW o \in Int
  PROVE  GoodIn([i EXCEPT !.offset = o], n)
<1> DEFINE r == [i EXCEPT !.offset = o]
<1>1. r \in InsnSet /\ r.boundary = i.boundary /\ r.encoded = i.encoded /\ r.disp = i.disp
  BY DEF GoodIn, InsnSet
<1> HIDE DEF r
<1>2. Like(r, i)
  BY <1>1 DEF Like
<1>3. GoodIn(r, n)
  BY <1>1, <1>2, LikeKeeps DEF GoodIn
<1> QED BY <1>3 DEF r

\* A program made from any bytes is sound.
LEMMA FromBytesSound ==
  ASSUME NEW bytes \in Seq(Encodings)
  PROVE  Sound(ProgramFromBytes(bytes))
<1> DEFINE p == Decoded(bytes)
           n == Len(p.instructions)
           q == ResolveDisplacements(p)
           r == FixupInvariants(q)
<1>1. /\ p \in Programs
      /\ \A k \in 1 .. n :
           LET i == p.instructions[k]
           IN i \in InsnSet /\ GoodInsn(i) /\ Told(i) /\ i.boundary = kInvalid
  BY DecodedFacts
<1> HIDE DEF p
<1>2. /\ q \in Programs /\ Len(q.instructions) = n /\ n \in Nat
      /\ \A k \in 1 .. n : q.instructions[k] =
           LET i == p.instructions[k]
           IN IF Valid(i) /\ i.boundary = kInvalid
              THEN [i EXCEPT !.boundary =
                      FindClosestInstructionBoundary(p, i.offset + i.disp)]
              ELSE i
  BY <1>1, ResolveShape
<1>3. ASSUME NEW k \in 1 .. n PROVE GoodIn(q.instructions[k], n)
  <2> DEFINE i == p.instructions[k]
             b == FindClosestInstructionBoundary(p, i.offset + i.disp)
  <2>1. i \in InsnSet /\ GoodInsn(i) /\ Told(i) /\ i.boundary = kInvalid
    BY <1>1
  <2>2. CASE Valid(i)
    <3>1. q.instructions[k] = [i EXCEPT !.boundary = b]
      BY <2>1, <2>2, <1>2
    <3>2. i.offset + i.disp \in Int
      BY <2>1, <2>2, InsnParts DEF Valid
    <3>3. b \in Boundaries(p)
      BY <3>2, <1>1, <1>2, ClosestIs
    <3>4. b \in 0 .. n
      BY <3>3 DEF Boundaries, NumInstructions
    <3> HIDE DEF b, i
    <3> QED BY <3>1, <3>4, <2>1, <2>2, <1>2, BoundaryChosen
  <2>3. CASE ~Valid(i)
    <3>1. q.instructions[k] = i
      BY <2>3, <1>2
    <3> QED BY <3>1, <2>1, <2>3 DEF GoodIn
  <2> QED BY <2>2, <2>3
<1> HIDE DEF q
<1>4. /\ r \in Programs /\ Len(r.instructions) = n
      /\ \A k \in 1 .. n : r.instructions[k] =
           [q.instructions[k] EXCEPT !.offset = Starts(q.instructions)[k - 1]]
      /\ r.byte_len = SizeOfAll(r.instructions)
  BY <1>2, FixupShape
<1>5. ASSUME NEW k \in 1 .. n PROVE GoodIn(r.instructions[k], n)
  <2>1. k - 1 \in 0 .. n /\ q.instructions \in Seq(InsnSet)
    BY <1>2 DEF Programs
  <2>2. Starts(q.instructions)[k - 1] \in Int
    BY <2>1, <1>2, StartsFacts
  <2> DEFINE i == q.instructions[k]
             o == Starts(q.instructions)[k - 1]
  <2>3. GoodIn(i, n) /\ o \in Int /\ r.instructions[k] = [i EXCEPT !.offset = o]
    BY <2>2, <1>3, <1>4
  <2> HIDE DEF i, o, r
  <2> QED BY <2>3, OffsetChosen
<1> HIDE DEF r
<1>6. Sound(r)
  BY <1>4, <1>5, SoundFrom DEF GoodIn
<1> QED BY <1>6 DEF r, q, p, ProgramFromBytes

-----------------------------------------------------------------------------
(* The passes of FixupEncodedDisplacements                                   *)

\* Boundaries lie where the instructions and the size of the last put them.
LEMMA SameOffsets ==
  ASSUME NEW p \in Programs, NEW q \in Programs, NEW n, n = Len(p.instructions),
         Len(q.instructions) = n, n > 0,
         \A k \in 1 .. n : q.instructions[k].offset = p.instructions[k].offset,
         q.instructions[n].encoded.size = p.instructions[n].encoded.size
  PROVE  \A b \in 0 .. n : InstructionBoundaryToProgramByteOffset(q, b)
                             = InstructionBoundaryToProgramByteOffset(p, b)
<1>1. n \in Nat
  BY DEF Programs
<1> SUFFICES ASSUME NEW b \in 0 .. n
             PROVE  InstructionBoundaryToProgramByteOffset(q, b)
                             = InstructionBoundaryToProgramByteOffset(p, b)
  OBVIOUS
<1>2. CASE b < n
  BY <1>1, <1>2 DEF InstructionBoundaryToProgramByteOffset, NumInstructions
<1>3. CASE ~(b < n)
  <2>1. n \in 1 .. n
    BY <1>1
  <2> QED BY <2>1, <1>3 DEF InstructionBoundaryToProgramByteOffset, NumInstructions, Last
<1> QED BY <1>2, <1>3

\* Sets of indexes and their cardinalities.
LEMMA Counting ==
  ASSUME NEW n \in Nat, NEW A, NEW B, B \subseteq 1 .. n, A \subseteq B
  PROVE  /\ Cardinality(A) \in Nat /\ Cardinality(B) \in Nat
         /\ Cardinality(A) <= Cardinality(B) /\ Cardinality(B) <= n
         /\ \A a \in B : a \notin A => Cardinality(A) + 1 <= Cardinality(B)
<1>1. IsFiniteSet(1 .. n) /\ Cardinality(1 .. n) = n
  <2>1. 1 \in Int /\ n \in Int
    OBVIOUS
  <2>2. IsFiniteSet(1 .. n) /\ Cardinality(1 .. n) = IF 1 > n THEN 0 ELSE n - 1 + 1
    BY <2>1, FS_Interval
  <2> QED BY <2>2
<1>2. IsFiniteSet(B) /\ Cardinality(B) <= n
  BY <1>1, FS_Subset
<1>3. IsFiniteSet(A) /\ Cardinality(A) <= Cardinality(B)
  BY <1>2, FS_Subset
<1>4. Cardinality(A) \in Nat /\ Cardinality(B) \in Nat
  BY <1>2, <1>3, FS_CardinalityType
<1>5. ASSUME NEW a \in B, a \notin A PROVE Cardinality(A) + 1 <= Cardinality(B)
  <2>1. Cardinality(A \cup {a}) = Cardinality(A) + 1
    BY <1>3, <1>5, FS_AddElement
  <2>2. A \cup {a} \subseteq B
    OBVIOUS
  <2>3. Cardinality(A \cup {a}) <= Cardinality(B)
    BY <1>2, <2>2, FS_Subset
  <2> QED BY <2>1, <2>3
<1> QED BY <1>2, <1>3, <1>4, <1>5

\* What is known of a program during a pass.
LEMMA WellParts ==
  ASSUME NEW p, WellFormed(p)
  PROVE  LET n == Len(p.instructions)
         IN /\ p \in Programs /\ p.instructions \in Seq(InsnSet) /\ p.byte_len \in Int
            /\ n \in Nat /\ DOMAIN p.instructions = 1 .. n
            /\ Boundaries(p) = 0 .. n /\ NumInstructions(p) = n
            /\ \A k \in 1 .. n :
                 LET i == p.instructions[k]
                 IN /\ i \in InsnSet /\ GoodInsn(i)
                    /\ Valid(i) => i.boundary \in 0 .. n
BY DEF WellFormed, Programs, Boundaries, NumInstructions

\* One instruction replaced.
LEMMA Replaced ==
  ASSUME NEW p \in Programs, NEW a \in 1 .. Len(p.instructions), NEW i \in InsnSet
  PROVE  LET q == [p EXCEPT !.instructions[a] = i]
         IN /\ q \in Programs /\ Len(q.instructions) = Len(p.instructions)
            /\ q.instructions[a] = i /\ q.byte_len = p.byte_len
            /\ q.encodings_may_be_invalid = p.encodings_may_be_invalid
            /\ \A k \in 1 .. Len(p.instructions) : k # a =>
                 q.instructions[k] = p.instructions[k]
<1> DEFINE s == p.instructions
           n == Len(s)
           t == [s EXCEPT ![a] = i]
           q == [p EXCEPT !.instructions[a] = i]
<1>1. s \in Seq(InsnSet) /\ n \in Nat /\ p.byte_len \in Int /\ p.encodings_may_be_invalid \in BOOLEAN
  BY DEF Programs
<1>2. t \in Seq(InsnSet) /\ Len(t) = n /\ t[a] = i /\ \A k \in 1 .. n : k # a => t[k] = s[k]
  BY <1>1
<1>3. q = [p EXCEPT !.instructions = t]
  BY DEF Programs
<1> HIDE DEF t
<1>4. /\ q \in Programs /\ q.instructions = t /\ q.byte_len = p.byte_len
      /\ q.encodings_may_be_invalid = p.encodings_may_be_invalid
  BY <1>2, <1>3, <1>1 DEF Programs
<1> HIDE DEF q
<1> QED BY <1>2, <1>4 DEF q

WithMovedOf(p, f) ==
  [p EXCEPT !.instructions[f.at] = [p.instructions[f.at] EXCEPT !.offset = f.offset]]

\* What the instruction at f.at may become.
PassesTo(p, f, i) ==
  /\ GoodIn(i, Len(p.instructions)) /\ i.offset = f.offset
  /\ i.encoded.canon = p.instructions[f.at].encoded.canon
  /\ \/ i.encoded.size = p.instructions[f.at].encoded.size
     \/ i.encoded.size = i.encoded.canon
  /\ Valid(i) => TargetDisplacement(WithMovedOf(p, f), i) = i.disp

\* The program and the state of the pass behind the instruction.
ProgramAfter(p, f, i) == [p EXCEPT !.instructions[f.at] = i]
FixAfter(p, f, i, m) ==
  [f EXCEPT !.at = @ + 1,
            !.stable = @ /\ p.instructions[f.at].offset = f.offset,
            !.modified = @ \/ m,
            !.offset = @ + i.encoded.size]

\* The pass goes on behind an instruction.
LEMMA PassGoesOn ==
  ASSUME NEW p, WellFormed(p), NEW f \in Fixes, NEW st \in {"fixup", "randomize"},
         PassFacts(p, f, st), f.at <= Len(p.instructions),
         st = "randomize" => f.at \in Canonical(p),
         NEW i, PassesTo(p, f, i),
         NEW m \in BOOLEAN
  PROVE  /\ WellFormed(ProgramAfter(p, f, i)) /\ FixAfter(p, f, i, m) \in Fixes
         /\ PassFacts(ProgramAfter(p, f, i), FixAfter(p, f, i, m), "fixup")
<1> SUFFICES
      ASSUME GoodIn(i, Len(p.instructions)), i.offset = f.offset,
             i.encoded.canon = p.instructions[f.at].encoded.canon,
             \/ i.encoded.size = p.instructions[f.at].encoded.size
             \/ i.encoded.size = i.encoded.canon,
             Valid(i) => TargetDisplacement(WithMovedOf(p, f), i) = i.disp
      PROVE  LET q == [p EXCEPT !.instructions[f.at] = i]
                 g == [f EXCEPT !.at = @ + 1,
                                !.stable = @ /\ p.instructions[f.at].offset = f.offset,
                                !.modified = @ \/ m,
                                !.offset = @ + i.encoded.size]
             IN WellFormed(q) /\ g \in Fixes /\ PassFacts(q, g, "fixup")
  BY Zenon DEF PassesTo, ProgramAfter, FixAfter
<1> DEFINE s == p.instructions
           n == Len(s)
           a == f.at
           q == [p EXCEPT !.instructions[f.at] = i]
           t == q.instructions
           g == [f EXCEPT !.at = @ + 1,
                          !.stable = @ /\ p.instructions[f.at].offset = f.offset,
                          !.modified = @ \/ m,
                          !.offset = @ + i.encoded.size]
           y == s[a].encoded.size
           z == i.encoded.size
           o == s[a].offset
           w == WithMovedOf(p, f)
<1>1. /\ p \in Programs /\ s \in Seq(InsnSet) /\ p.byte_len \in Int
      /\ n \in Nat /\ DOMAIN s = 1 .. n
      /\ NumInstructions(p) = n
      /\ \A k \in 1 .. n :
           /\ s[k] \in InsnSet /\ GoodInsn(s[k])
           /\ Valid(s[k]) => s[k].boundary \in 0 .. n
  BY WellParts
<1>2. /\ f.at \in Nat /\ f.offset \in Int /\ f.stable \in BOOLEAN
      /\ f.modified \in BOOLEAN /\ f.iteration \in Nat
  BY DEF Fixes
<1>3. /\ a \in 1 .. n
      /\ f.offset = Starts(s)[a - 1]
      /\ \A k \in 1 .. a - 1 : s[k].offset = Starts(s)[k - 1]
  BY <1>1, <1>2 DEF PassFacts, PassPlace
<1>4. i \in InsnSet /\ GoodInsn(i) /\ (Valid(i) => i.boundary \in 0 .. n)
  BY DEF GoodIn
<1>5. /\ z \in Nat \ {0} /\ y \in Nat \ {0} /\ o \in Int /\ s[a].encoded.canon \in Nat
  BY <1>1, <1>3, <1>4, InsnParts
<1>6. /\ q \in Programs /\ Len(t) = n /\ t[a] = i /\ q.byte_len = p.byte_len
      /\ \A k \in 1 .. n : k # a => t[k] = s[k]
  BY <1>1, <1>3, <1>4, Replaced
<1> HIDE DEF q
<1>7. t \in Seq(InsnSet) /\ NumInstructions(q) = n /\ DOMAIN t = 1 .. n
  BY <1>1, <1>6 DEF Programs, NumInstructions
<1>8. /\ g.at = a + 1 /\ g.offset = f.offset + z /\ g.iteration = f.iteration
      /\ (g.stable <=> f.stable /\ o = f.offset) /\ g \in Fixes
  <2> DEFINE c == f.stable /\ o = f.offset
             x == f.offset + z
             d == f.modified \/ m
  <2>1. c \in BOOLEAN /\ x \in Int /\ d \in BOOLEAN /\ a + 1 \in Nat
    BY <1>2, <1>5
  <2>2. g = [f EXCEPT !.at = a + 1, !.stable = c, !.modified = d, !.offset = x]
    OBVIOUS
  <2> HIDE DEF c, x, d, g, a
  <2>3. g.at = a + 1 /\ g.offset = x /\ g.iteration = f.iteration /\ g.stable = c
    BY <2>2 DEF Fixes
  <2>4. g \in Fixes
    BY <2>1, <2>2 DEF Fixes
  <2> QED BY <2>1, <2>3, <2>4 DEF c, x
<1> HIDE DEF g
<1>9. WellFormed(q)
  BY <1>1, <1>4, <1>6, <1>7 DEF WellFormed, Boundaries
<1>10. \A k \in 0 .. a - 1 : Starts(t)[k] = Starts(s)[k]
  <2>1. a - 1 \in 0 .. Len(t) /\ a - 1 <= Len(s)
    BY <1>1, <1>3, <1>6
  <2>2. ASSUME NEW k \in 1 .. a - 1 PROVE t[k].encoded.size = s[k].encoded.size
    <3>1. k \in 1 .. n /\ k # a
      BY <1>1, <1>3
    <3> QED BY <3>1, <1>6
  <2> HIDE DEF a, t, s
  <2> QED BY <2>1, <2>2, <1>1, <1>7, StartsPrefix
<1>11. Starts(t)[a] = f.offset + z
  <2>1. Starts(t)[a] = Starts(t)[a - 1] + t[a].encoded.size
    BY <1>3, <1>6, <1>7, StartsFacts
  <2>2. a - 1 \in 0 .. a - 1
    BY <1>3, <1>1
  <2> QED BY <2>1, <2>2, <1>3, <1>6, <1>10
<1> HIDE DEF t, w
<1>12. PassPlace(q, g)
  <2>1. g.at \in 1 .. n + 1 /\ g.at - 1 = a
    BY <1>1, <1>3, <1>8
  <2>2. ASSUME NEW k \in 1 .. a PROVE t[k].offset = Starts(t)[k - 1]
    <3>1. CASE k = a
      <4>1. a - 1 \in 0 .. a - 1
        BY <1>3, <1>1
      <4> QED BY <3>1, <4>1, <1>3, <1>6, <1>10
    <3>2. CASE k # a
      <4>1. k \in 1 .. a - 1 /\ k \in 1 .. n /\ k - 1 \in 0 .. a - 1
        BY <3>2, <1>3, <1>1
      <4> QED BY <4>1, <3>2, <1>3, <1>6, <1>10
    <3> QED BY <3>1, <3>2
  <2> QED BY <2>1, <2>2, <1>7, <1>8, <1>11 DEF PassPlace, t
<1>13. \A k \in a .. n : OldEnd(q, k) = OldEnd(p, k) /\ OldEnd(p, k) \in Int
  <2> SUFFICES ASSUME NEW k \in a .. n
               PROVE  OldEnd(q, k) = OldEnd(p, k) /\ OldEnd(p, k) \in Int
    OBVIOUS
  <2>1. CASE k = n
    BY <2>1, <1>1, <1>6, <1>7 DEF OldEnd
  <2>2. CASE k # n
    <3>1. k + 1 \in 1 .. n /\ k + 1 # a
      BY <2>2, <1>1, <1>3
    <3>2. s[k + 1].offset \in Int
      BY <3>1, <1>1, InsnParts
    <3> QED BY <2>2, <3>1, <3>2, <1>1, <1>6, <1>7 DEF OldEnd, t
  <2> QED BY <2>1, <2>2
<1>14. \A k \in a + 1 .. n : OldEndIs(q, k)
  <2> SUFFICES ASSUME NEW k \in a + 1 .. n PROVE OldEndIs(q, k)
    OBVIOUS
  <2>1. k \in a .. n /\ k # a /\ k \in 1 .. n
    BY <1>1, <1>3
  <2>2. OldEndIs(p, k)
    BY <2>1, <1>1 DEF PassFacts, PassOld
  <2>3. t[k] = s[k]
    BY <2>1, <1>6
  <2> QED BY <2>1, <2>2, <2>3, <1>13 DEF OldEndIs, t
<1>15. PassOld(q, g, "fixup")
  BY <1>7, <1>8, <1>14 DEF PassOld
<1> DEFINE old == OldEnd(p, a)
<1>16. old \in Int /\ OldEnd(q, a) = old
  BY <1>13, <1>3, <1>1
<1>17. Shifted(p, f) <=> ~f.stable \/ o # f.offset \/ o + y # old
  BY <1>1, <1>2, <1>3 DEF Shifted, OldEndIs
<1>18. Shifted(q, g) <=> ~f.stable \/ o # f.offset \/ f.offset + z # old
  <2>1. CASE a = n
    <3>1. g.at > NumInstructions(q) /\ old = p.byte_len
      BY <2>1, <1>1, <1>7, <1>8 DEF OldEnd
    <3> QED BY <3>1, <1>6, <1>8, <1>16 DEF Shifted
  <2>2. CASE a # n
    <3>1. a + 1 \in 1 .. n /\ ~(g.at > NumInstructions(q)) /\ a + 1 # a /\ a + 1 \in a + 1 .. n
      BY <2>2, <1>1, <1>3, <1>7, <1>8
    <3>2. old = s[a + 1].offset /\ t[a + 1] = s[a + 1]
      BY <2>2, <3>1, <1>1, <1>6 DEF OldEnd
    <3>3. OldEndIs(q, a + 1)
      BY <3>1, <1>14
    <3> HIDE DEF s, old
    <3> QED BY <3>1, <3>2, <3>3, <1>8 DEF Shifted, t
  <2> QED BY <2>1, <2>2
<1>19. st = "fixup" => o + y = old
  BY <1>1, <1>3 DEF PassFacts, PassOld, OldEndIs
<1>20. st = "randomize" => z = y
  <2>1. SUFFICES ASSUME st = "randomize" PROVE z = y
    OBVIOUS
  <2>2. y = s[a].encoded.canon
    BY <2>1 DEF Canonical
  <2> QED BY <2>2
<1> HIDE DEF old
<1>21. Shifted(q, g) /\ ~Shifted(p, f) => z # y
  BY <1>17, <1>18, <1>19
<1>22. ~Shifted(q, g) => ~Shifted(p, f) /\ z = y /\ o = f.offset
  <2>1. CASE st = "fixup"
    BY <2>1, <1>2, <1>5, <1>16, <1>17, <1>18, <1>19
  <2>2. CASE st = "randomize"
    BY <2>2, <1>2, <1>5, <1>16, <1>17, <1>18, <1>20
  <2> QED BY <2>1, <2>2
<1>23. PassCount(q, g)
  <2> DEFINE A == Canonical(p)
             B == Canonical(q)
  <2>1. A \subseteq B /\ B \subseteq 1 .. n
    BY <1>1, <1>3, <1>6, <1>7 DEF Canonical, t
  <2>2. z # y => a \in B /\ a \notin A
    BY <1>1, <1>3, <1>6, <1>7 DEF Canonical, t
  <2> HIDE DEF A, B
  <2>3. /\ Cardinality(A) \in Nat /\ Cardinality(B) \in Nat
        /\ Cardinality(A) <= Cardinality(B)
        /\ a \in B /\ a \notin A => Cardinality(A) + 1 <= Cardinality(B)
    BY <2>1, <1>1, Counting
  <2>4. f.iteration + (IF Shifted(p, f) THEN 1 ELSE 0) <= Cardinality(A)
    BY DEF PassFacts, PassCount, A
  <2>5. f.iteration + (IF Shifted(q, g) THEN 1 ELSE 0) <= Cardinality(B)
    <3>1. CASE Shifted(q, g) /\ ~Shifted(p, f)
      <4>1. a \in B /\ a \notin A
        BY <3>1, <1>21, <2>2
      <4> QED BY <3>1, <4>1, <2>3, <2>4, <1>2
    <3>2. CASE ~(Shifted(q, g) /\ ~Shifted(p, f))
      BY <3>2, <2>3, <2>4, <1>2
    <3> QED BY <3>1, <3>2
  <2> QED BY <2>5, <1>8 DEF PassCount, B
<1>24. PassSync(q, g)
  <2> SUFFICES ASSUME ~Shifted(q, g), NEW k \in 1 .. g.at - 1 PROVE InSyncAt(q, k)
    BY DEF PassSync
  <2>1. ~Shifted(p, f) /\ z = y /\ o = f.offset /\ k \in 1 .. a /\ k \in 1 .. n
    BY <1>1, <1>3, <1>8, <1>22
  <2>2. CASE k # a
    <3>1. k \in 1 .. a - 1
      BY <2>1, <2>2, <1>3
    <3>2. InSyncAt(p, k)
      BY <3>1, <2>1 DEF PassFacts, PassSync
    <3>3. t[k] = s[k]
      BY <2>1, <2>2, <1>6
    <3>4. \A b \in 0 .. n : InstructionBoundaryToProgramByteOffset(q, b)
                             = InstructionBoundaryToProgramByteOffset(p, b)
      <4>1. /\ n > 0
            /\ \A j \in 1 .. n : t[j].offset = s[j].offset
            /\ t[n].encoded.size = s[n].encoded.size
        BY <2>1, <1>1, <1>3, <1>6
      <4> QED BY <4>1, <1>1, <1>6, SameOffsets DEF t
    <3>5. Valid(s[k]) => s[k].boundary \in 0 .. n
      BY <2>1, <1>1
    <3> QED BY <3>2, <3>3, <3>4, <3>5 DEF InSyncAt, TargetDisplacement, t
  <2>3. CASE k = a
    <3> DEFINE v == [s[a] EXCEPT !.offset = f.offset]
    <3>1. v \in InsnSet /\ v.offset = f.offset /\ v.encoded = s[a].encoded
      BY <1>1, <1>2, <1>3 DEF InsnSet
    <3>2. /\ w \in Programs /\ Len(w.instructions) = n /\ w.instructions[a] = v
          /\ \A j \in 1 .. n : j # a => w.instructions[j] = s[j]
      BY <3>1, <1>1, <1>3, Replaced DEF w, WithMovedOf
    <3> HIDE DEF v
    <3>3. \A b \in 0 .. n : InstructionBoundaryToProgramByteOffset(q, b)
                             = InstructionBoundaryToProgramByteOffset(w, b)
      <4>1. /\ n > 0
            /\ \A j \in 1 .. n : t[j].offset = w.instructions[j].offset
            /\ t[n].encoded.size = w.instructions[n].encoded.size
        <5>1. n > 0 /\ n \in 1 .. n
          BY <1>1, <1>3
        <5>2. ASSUME NEW j \in 1 .. n
              PROVE  t[j].offset = w.instructions[j].offset
                     /\ t[j].encoded.size = w.instructions[j].encoded.size
          <6>1. CASE j = a
            BY <6>1, <2>1, <3>1, <3>2, <1>6
          <6>2. CASE j # a
            BY <6>2, <3>2, <1>6
          <6> QED BY <6>1, <6>2
        <5> QED BY <5>1, <5>2
      <4> QED BY <4>1, <3>2, <1>1, <1>6, SameOffsets DEF t
    <3>4. Valid(i) => TargetDisplacement(q, i) = TargetDisplacement(w, i)
      BY <3>3, <1>4 DEF TargetDisplacement
    <3>5. t[k] = i
      BY <2>3, <1>6
    <3> QED BY <3>4, <3>5 DEF InSyncAt, t, w
  <2> QED BY <2>2, <2>3
<1> QED BY <1>8, <1>9, <1>12, <1>15, <1>23, <1>24 DEF PassFacts, q, g

\* The locals of FixupReencode for any program and pass.
MovedOf(p, f) == [p.instructions[f.at] EXCEPT !.offset = f.offset]
SyncedOf(p, f, b) ==
  LET i == [MovedOf(p, f) EXCEPT !.boundary = b]
  IN [i EXCEPT !.disp = TargetDisplacement(WithMovedOf(p, f), i)]

\* The instruction of the pass at its new offset.
LEMMA MovedFacts ==
  ASSUME NEW p, WellFormed(p), NEW f \in Fixes, f.at \in 1 .. Len(p.instructions)
  PROVE  LET n == Len(p.instructions)
             i == p.instructions[f.at]
             v == MovedOf(p, f)
             w == WithMovedOf(p, f)
         IN /\ v \in InsnSet /\ v.offset = f.offset /\ v.encoded = i.encoded
            /\ v.disp = i.disp /\ v.boundary = i.boundary
            /\ w \in Programs /\ Len(w.instructions) = n /\ w.instructions[f.at] = v
            /\ \A k \in 1 .. n : k # f.at => w.instructions[k] = p.instructions[k]
            /\ \A b \in 0 .. n : InstructionBoundaryToProgramByteOffset(w, b) \in Int
<1> DEFINE n == Len(p.instructions)
           i == p.instructions[f.at]
           v == MovedOf(p, f)
           w == WithMovedOf(p, f)
<1>1. p \in Programs /\ n \in Nat /\ i \in InsnSet /\ f.offset \in Int
  BY WellParts DEF Fixes
<1>2. /\ v \in InsnSet /\ v.offset = f.offset /\ v.encoded = i.encoded
      /\ v.disp = i.disp /\ v.boundary = i.boundary
  BY <1>1 DEF MovedOf, InsnSet
<1>3. w = [p EXCEPT !.instructions[f.at] = v]
  BY DEF WithMovedOf, MovedOf
<1> HIDE DEF v, w
<1>4. /\ w \in Programs /\ Len(w.instructions) = n /\ w.instructions[f.at] = v
      /\ \A k \in 1 .. n : k # f.at => w.instructions[k] = p.instructions[k]
  BY <1>1, <1>2, <1>3, Replaced
<1>5. Boundaries(w) = 0 .. n /\ n > 0
  BY <1>1, <1>4 DEF Boundaries, NumInstructions
<1>6. \A b \in 0 .. n : InstructionBoundaryToProgramByteOffset(w, b) \in Int
  BY <1>4, <1>5, BoundaryOffset
<1> QED BY <1>2, <1>4, <1>6 DEF v, w

\* The displacement wanted leads to the boundary.
LEMMA SyncedFacts ==
  ASSUME NEW p, WellFormed(p), NEW f \in Fixes, f.at \in 1 .. Len(p.instructions),
         NEW b \in 0 .. Len(p.instructions), Valid(p.instructions[f.at])
  PROVE  LET j == SyncedOf(p, f, b)
             w == WithMovedOf(p, f)
         IN /\ j \in InsnSet /\ j.encoded = p.instructions[f.at].encoded
            /\ j.boundary = b /\ j.offset = f.offset
            /\ j.disp = InstructionBoundaryToProgramByteOffset(w, b) - f.offset
            /\ j.disp \in Int /\ j.encoded.width > 0
<1> DEFINE v == MovedOf(p, f)
           w == WithMovedOf(p, f)
           i == [v EXCEPT !.boundary = b]
           d == TargetDisplacement(w, i)
           j == SyncedOf(p, f, b)
<1>1. /\ v \in InsnSet /\ v.offset = f.offset /\ v.encoded = p.instructions[f.at].encoded
      /\ InstructionBoundaryToProgramByteOffset(w, b) \in Int
  BY MovedFacts
<1>2. b \in Int /\ f.offset \in Int
  BY WellParts DEF Fixes
<1> HIDE DEF v, w
<1>3. i \in InsnSet /\ i.boundary = b /\ i.offset = f.offset /\ i.encoded = v.encoded
  BY <1>1, <1>2 DEF InsnSet
<1>4. d = InstructionBoundaryToProgramByteOffset(w, b) - f.offset
  BY <1>3 DEF TargetDisplacement
<1>5. d \in Int
  BY <1>1, <1>2, <1>4
<1>6. j = [i EXCEPT !.disp = d]
  BY DEF SyncedOf, v, w
<1> HIDE DEF i, d
<1>7. j \in InsnSet /\ j.disp = d /\ j.boundary = b /\ j.offset = f.offset /\ j.encoded = v.encoded
  BY <1>3, <1>5, <1>6 DEF InsnSet
<1>8. p.instructions[f.at].encoded.width > 0
  BY WellParts DEF GoodInsn
<1> HIDE DEF j
<1> QED BY <1>1, <1>4, <1>5, <1>7, <1>8 DEF j, w

\* A branch rewritten: it stays one, at its canonical size.
LEMMA ReencodedFacts ==
  ASSUME NEW i \in InsnSet, i.encoded.width > 0, i.disp \in Int, i.encoded.kind = "insn"
  PROVE  LET r == Reencoded(i)
         IN /\ r \in InsnSet /\ r.offset = i.offset /\ r.disp = i.disp
            /\ r.boundary = i.boundary
            /\ r.encoded \in Shapes /\ r.encoded.kind = "insn"
            /\ r.encoded.arch = i.encoded.arch
            /\ r.encoded.canon = i.encoded.canon /\ r.encoded.size = i.encoded.canon
            /\ r.encoded.width = i.encoded.width
            /\ SizeChangeFits(r.encoded) /\ Valid(r) /\ GoodInsn(r)
            /\ ReencodeSucceeds(i) => Told(r)
<1> DEFINE r == Reencoded(i)
           x == FieldFor(i.encoded, i.disp)
<1>1. /\ r = [i EXCEPT !.encoded = [@ EXCEPT !.size = i.encoded.canon, !.field = x]]
      /\ x \in Int /\ r \in InsnSet
  BY ReencodeIs
<1> HIDE DEF x, r
<1>2. /\ r.offset = i.offset /\ r.disp = i.disp /\ r.boundary = i.boundary
      /\ r.encoded = [i.encoded EXCEPT !.size = i.encoded.canon, !.field = x]
  BY <1>1 DEF InsnSet
<1>3. i.encoded \in Shapes /\ r.encoded \in Shapes
  BY <1>1, InsnParts
<1>4. /\ r.encoded.kind = "insn" /\ r.encoded.arch = i.encoded.arch
      /\ r.encoded.canon = i.encoded.canon /\ r.encoded.size = i.encoded.canon
      /\ r.encoded.width = i.encoded.width
  BY <1>2, <1>3 DEF Shapes
<1>5. SizeChangeFits(r.encoded)
  BY <1>4 DEF SizeChangeFits
<1>6. Valid(r)
  BY <1>2, ProgramAssumption DEF Valid
<1>7. GoodInsn(r)
  BY <1>4, <1>5, <1>6 DEF GoodInsn
<1>8. ReencodeSucceeds(i) => Told(r)
  BY <1>2 DEF ReencodeSucceeds, Told, r
<1> QED BY <1>1, <1>2, <1>3, <1>4, <1>5, <1>6, <1>7, <1>8 DEF r

\* Bytes that branch to the end of the instruction can always be encoded.
LEMMA NextSucceeds ==
  ASSUME NEW i \in InsnSet, i.encoded.width > 0, SizeChangeFits(i.encoded),
         i.encoded.size # i.encoded.canon, i.disp = i.encoded.size
  PROVE  ReencodeSucceeds(i)
<1> DEFINE e == i.encoded
           y == e.size
           c == e.canon
<1>1. y \in Nat /\ c \in Nat /\ e.width \in Nat
  BY InsnParts
<1>2. e.arch = "x86_64" /\ SignedField(y - c, e.width) = y - c
  BY DEF SizeChangeFits
<1>3. Scale(e) = 1 /\ CanonBase(e) = c
  BY <1>2 DEF Scale, CanonBase
<1>4. (y - c) \div 1 = y - c
  BY <1>1
<1>5. FieldFor(e, y) = y - c
  BY <1>2, <1>3, <1>4 DEF FieldFor
<1>6. (y - c) * 1 + c = y
  BY <1>1
<1>7. i.disp \in Int
  BY <1>1
<1> QED BY <1>3, <1>5, <1>6, <1>7, SuccessIs

\* An instruction is re-encoded in place, without success.
LEMMA EncodeStep ==
  ASSUME NEW p, WellFormed(p), NEW f \in Fixes, NEW st \in {"fixup", "randomize"},
         PassFacts(p, f, st), f.at <= Len(p.instructions),
         st = "randomize" => f.at \in Canonical(p),
         Valid(p.instructions[f.at]), NEW b \in 0 .. Len(p.instructions),
         ~ReencodeSucceeds(SyncedOf(p, f, p.instructions[f.at].boundary))
  PROVE  LET e == Reencoded(SyncedOf(p, f, b)).encoded
             q == [p EXCEPT !.instructions[f.at].encoded = e]
         IN /\ WellFormed(q) /\ PassFacts(q, f, "randomize")
            /\ Valid(q.instructions[f.at]) /\ f.at \in Canonical(q)
            /\ ~ReencodeSucceeds(SyncedOf(q, f, q.instructions[f.at].boundary))
            /\ Len(q.instructions) = Len(p.instructions)
            /\ \A k \in 1 .. Len(p.instructions) : k # f.at =>
                 q.instructions[k] = p.instructions[k]
<1> DEFINE s == p.instructions
           n == Len(s)
           a == f.at
           e == Reencoded(SyncedOf(p, f, b)).encoded
           i == [s[a] EXCEPT !.encoded = e]
           q == [p EXCEPT !.instructions[f.at].encoded = e]
           t == q.instructions
           y == s[a].encoded.size
           c == s[a].encoded.canon
           o == s[a].offset
           B == s[a].boundary
<1>1. /\ p \in Programs /\ s \in Seq(InsnSet) /\ p.byte_len \in Int
      /\ n \in Nat /\ DOMAIN s = 1 .. n
      /\ NumInstructions(p) = n
      /\ \A k \in 1 .. n :
           /\ s[k] \in InsnSet /\ GoodInsn(s[k])
           /\ Valid(s[k]) => s[k].boundary \in 0 .. n
  BY WellParts
<1>2. /\ f.at \in Nat /\ f.offset \in Int /\ f.stable \in BOOLEAN
      /\ f.modified \in BOOLEAN /\ f.iteration \in Nat
  BY DEF Fixes
<1>3. /\ a \in 1 .. n
      /\ f.offset = Starts(s)[a - 1]
      /\ \A k \in 1 .. a - 1 : s[k].offset = Starts(s)[k - 1]
  BY <1>1, <1>2 DEF PassFacts, PassPlace
<1>4. /\ s[a] \in InsnSet /\ GoodInsn(s[a]) /\ B \in 0 .. n
      /\ y \in Nat \ {0} /\ c \in Nat \ {0} /\ o \in Int
      /\ s[a].encoded.kind = "insn" /\ SizeChangeFits(s[a].encoded) /\ s[a].encoded.width > 0
  BY <1>1, <1>3, InsnParts DEF GoodInsn
<1>5. /\ e \in Shapes /\ e.kind = "insn" /\ e.arch = s[a].encoded.arch
      /\ e.canon = c /\ e.size = c /\ e.width = s[a].encoded.width /\ SizeChangeFits(e)
  <2>1. /\ SyncedOf(p, f, b) \in InsnSet /\ SyncedOf(p, f, b).encoded = s[a].encoded
        /\ SyncedOf(p, f, b).disp \in Int
    BY <1>3, SyncedFacts
  <2> QED BY <2>1, <1>4, ReencodedFacts
<1> HIDE DEF e
<1>6. /\ i \in InsnSet /\ i.encoded = e /\ i.disp = s[a].disp /\ i.boundary = B /\ i.offset = o
  BY <1>4, <1>5 DEF InsnSet
<1>7. GoodInsn(i) /\ Valid(i)
  BY <1>4, <1>5, <1>6 DEF GoodInsn, Valid
<1>8. q = [p EXCEPT !.instructions[a] = i]
  BY <1>1, <1>3 DEF Programs
<1> HIDE DEF i, q
<1>9. /\ q \in Programs /\ Len(t) = n /\ t[a] = i /\ q.byte_len = p.byte_len
      /\ \A k \in 1 .. n : k # a => t[k] = s[k]
  BY <1>1, <1>3, <1>6, <1>8, Replaced
<1>10. t \in Seq(InsnSet) /\ NumInstructions(q) = n /\ DOMAIN t = 1 .. n
  BY <1>1, <1>9 DEF Programs, NumInstructions
<1> HIDE DEF t
<1>11. WellFormed(q)
  BY <1>1, <1>4, <1>6, <1>7, <1>9, <1>10 DEF WellFormed, Boundaries, t
<1>12. \A k \in 0 .. a - 1 : Starts(t)[k] = Starts(s)[k]
  <2>1. a - 1 \in 0 .. Len(t) /\ a - 1 <= Len(s)
    BY <1>1, <1>3, <1>9
  <2>2. ASSUME NEW k \in 1 .. a - 1 PROVE t[k].encoded.size = s[k].encoded.size
    <3>1. k \in 1 .. n /\ k # a
      BY <1>1, <1>3
    <3> QED BY <3>1, <1>9
  <2> HIDE DEF a, s
  <2> QED BY <2>1, <2>2, <1>1, <1>10, StartsPrefix
<1>13. PassPlace(q, f)
  <2>1. a - 1 \in 0 .. a - 1 /\ a \in 1 .. n + 1
    BY <1>3, <1>1
  <2>2. ASSUME NEW k \in 1 .. a - 1 PROVE t[k].offset = Starts(t)[k - 1]
    <3>1. k \in 1 .. n /\ k # a /\ k - 1 \in 0 .. a - 1
      BY <1>3, <1>1
    <3> QED BY <3>1, <1>3, <1>9, <1>12
  <2> QED BY <2>1, <2>2, <1>3, <1>10, <1>12 DEF PassPlace, t
<1>14. \A k \in a .. n : OldEnd(q, k) = OldEnd(p, k) /\ OldEnd(p, k) \in Int
  <2> SUFFICES ASSUME NEW k \in a .. n
               PROVE  OldEnd(q, k) = OldEnd(p, k) /\ OldEnd(p, k) \in Int
    OBVIOUS
  <2>1. CASE k = n
    BY <2>1, <1>1, <1>9, <1>10 DEF OldEnd
  <2>2. CASE k # n
    <3>1. k + 1 \in 1 .. n /\ k + 1 # a
      BY <2>2, <1>1, <1>3
    <3>2. s[k + 1].offset \in Int
      BY <3>1, <1>1, InsnParts
    <3> QED BY <2>2, <3>1, <3>2, <1>1, <1>9, <1>10 DEF OldEnd, t
  <2> QED BY <2>1, <2>2
<1>15. PassOld(q, f, "randomize")
  <2> SUFFICES ASSUME NEW k \in a .. n, k # a PROVE OldEndIs(q, k)
    BY <1>10 DEF PassOld
  <2>1. k \in 1 .. n
    BY <1>1, <1>3
  <2>2. OldEndIs(p, k)
    BY <1>1 DEF PassFacts, PassOld
  <2>3. t[k] = s[k]
    BY <2>1, <1>9
  <2> QED BY <2>2, <2>3, <1>14 DEF OldEndIs, t
<1> DEFINE old == OldEnd(p, a)
<1>16. old \in Int /\ OldEnd(q, a) = old
  BY <1>14, <1>3, <1>1
<1>17. Shifted(p, f) <=> ~f.stable \/ o # f.offset \/ o + y # old
  BY <1>1, <1>2, <1>3 DEF Shifted, OldEndIs
<1>18. Shifted(q, f) <=> ~f.stable \/ o # f.offset \/ o + c # old
  <2>1. ~(f.at > NumInstructions(q)) /\ t[a].offset = o /\ t[a].encoded.size = c
    BY <1>1, <1>3, <1>5, <1>6, <1>9, <1>10
  <2> QED BY <2>1, <1>16 DEF Shifted, OldEndIs, t
<1>19. st = "fixup" => o + y = old
  BY <1>1, <1>3 DEF PassFacts, PassOld, OldEndIs
<1>20. st = "randomize" => c = y
  BY DEF Canonical
<1> HIDE DEF old
<1>21. Shifted(q, f) /\ ~Shifted(p, f) => c # y
  BY <1>17, <1>18
<1>22. ~Shifted(q, f) => ~Shifted(p, f) /\ c = y
  <2>1. CASE st = "fixup"
    <3>1. o + y = old
      BY <2>1, <1>19
    <3>2. \A u, v, x, r \in Int : u + v = r /\ u + x = r => v = x
      OBVIOUS
    <3>3. o \in Int /\ c \in Int /\ y \in Int /\ old \in Int
      BY <1>4, <1>16
    <3> HIDE DEF o, c, y
    <3>4. o + c = old => c = y
      BY <3>1, <3>2, <3>3
    <3> QED BY <3>1, <3>4, <1>17, <1>18
  <2>2. CASE st = "randomize"
    BY <2>2, <1>17, <1>18, <1>20
  <2> QED BY <2>1, <2>2
<1>23. a \in Canonical(q)
  BY <1>3, <1>5, <1>6, <1>9, <1>10 DEF Canonical, t
<1>24. PassCount(q, f)
  <2> DEFINE A == Canonical(p)
             C == Canonical(q)
  <2>1. A \subseteq C /\ C \subseteq 1 .. n
    <3>1. A \subseteq 1 .. n
      BY <1>1 DEF Canonical
    <3>2. ASSUME NEW k \in A PROVE k \in C
      <4>1. CASE k = a
        BY <4>1, <1>23
      <4>2. CASE k # a
        BY <4>2, <3>1, <1>9, <1>10 DEF Canonical, t
      <4> QED BY <4>1, <4>2
    <3>3. C \subseteq 1 .. n
      BY <1>10 DEF Canonical, t
    <3> QED BY <3>2, <3>3
  <2>2. c # y => a \notin A
    BY DEF Canonical
  <2> HIDE DEF A, C
  <2>3. /\ Cardinality(A) \in Nat /\ Cardinality(C) \in Nat
        /\ Cardinality(A) <= Cardinality(C)
        /\ a \in C /\ a \notin A => Cardinality(A) + 1 <= Cardinality(C)
    BY <2>1, <1>1, Counting
  <2>4. f.iteration + (IF Shifted(p, f) THEN 1 ELSE 0) <= Cardinality(A)
    BY DEF PassFacts, PassCount, A
  <2>5. f.iteration + (IF Shifted(q, f) THEN 1 ELSE 0) <= Cardinality(C)
    <3>1. CASE Shifted(q, f) /\ ~Shifted(p, f)
      <4>1. a \in C /\ a \notin A
        BY <3>1, <1>21, <1>23, <2>2 DEF C
      <4> QED BY <3>1, <4>1, <2>3, <2>4, <1>2
    <3>2. CASE ~(Shifted(q, f) /\ ~Shifted(p, f))
      BY <3>2, <2>3, <2>4, <1>2
    <3> QED BY <3>1, <3>2
  <2> QED BY <2>5 DEF PassCount, C
<1>25. \A k \in 1 .. n : t[k].offset = s[k].offset /\ (c = y => t[k].encoded.size = s[k].encoded.size)
  <2> SUFFICES ASSUME NEW k \in 1 .. n
               PROVE  t[k].offset = s[k].offset /\ (c = y => t[k].encoded.size = s[k].encoded.size)
    OBVIOUS
  <2>1. CASE k = a
    BY <2>1, <1>5, <1>6, <1>9
  <2>2. CASE k # a
    BY <2>2, <1>9
  <2> QED BY <2>1, <2>2
<1>26. PassSync(q, f)
  <2> SUFFICES ASSUME ~Shifted(q, f), NEW k \in 1 .. a - 1 PROVE InSyncAt(q, k)
    BY DEF PassSync
  <2>1. ~Shifted(p, f) /\ c = y /\ k \in 1 .. n /\ k # a
    BY <1>1, <1>3, <1>22
  <2>2. InSyncAt(p, k)
    BY <2>1 DEF PassFacts, PassSync
  <2>3. t[k] = s[k]
    BY <2>1, <1>9
  <2>4. \A x \in 0 .. n : InstructionBoundaryToProgramByteOffset(q, x)
                             = InstructionBoundaryToProgramByteOffset(p, x)
    <3>1. n > 0 /\ n \in 1 .. n
      BY <1>1, <1>3
    <3>2. t[n].encoded.size = s[n].encoded.size
      BY <3>1, <2>1, <1>25
    <3> QED BY <3>1, <3>2, <1>1, <1>9, <1>25, SameOffsets DEF t
  <2>5. Valid(s[k]) => s[k].boundary \in 0 .. n
    BY <2>1, <1>1
  <2> QED BY <2>2, <2>3, <2>4, <2>5 DEF InSyncAt, TargetDisplacement, t
<1>27. ~ReencodeSucceeds(SyncedOf(q, f, t[a].boundary))
  <2> DEFINE j == SyncedOf(p, f, B)
             h == SyncedOf(q, f, B)
             v == WithMovedOf(p, f)
             w == WithMovedOf(q, f)
  <2>1. /\ j \in InsnSet /\ j.encoded = s[a].encoded
        /\ j.disp = InstructionBoundaryToProgramByteOffset(v, B) - f.offset
        /\ j.disp \in Int /\ j.encoded.width > 0
    BY <1>3, <1>4, SyncedFacts
  <2>2. /\ h \in InsnSet /\ h.encoded = e
        /\ h.disp = InstructionBoundaryToProgramByteOffset(w, B) - f.offset
        /\ h.disp \in Int /\ h.encoded.width > 0
    <3>1. f.at \in 1 .. Len(q.instructions) /\ B \in 0 .. Len(q.instructions)
          /\ Valid(q.instructions[f.at]) /\ q.instructions[f.at].encoded = e
      BY <1>3, <1>4, <1>6, <1>7, <1>9 DEF t
    <3> QED BY <3>1, <1>11, SyncedFacts
  <2>3. /\ v \in Programs /\ Len(v.instructions) = n
        /\ v.instructions[a].offset = f.offset /\ v.instructions[a].encoded = s[a].encoded
        /\ \A k \in 1 .. n : k # a => v.instructions[k] = s[k]
    BY <1>3, MovedFacts
  <2>4. /\ w \in Programs /\ Len(w.instructions) = n
        /\ w.instructions[a].offset = f.offset /\ w.instructions[a].encoded = e
        /\ \A k \in 1 .. n : k # a => w.instructions[k] = s[k]
    <3>1. f.at \in 1 .. Len(q.instructions) /\ q.instructions[f.at].encoded = e
      BY <1>3, <1>6, <1>9 DEF t
    <3>2. /\ w \in Programs /\ Len(w.instructions) = Len(q.instructions)
          /\ w.instructions[a].offset = f.offset /\ w.instructions[a].encoded = e
          /\ \A k \in 1 .. n : k # a => w.instructions[k] = t[k]
      BY <3>1, <1>9, <1>11, MovedFacts DEF t
    <3> QED BY <3>2, <1>9 DEF t
  <2> HIDE DEF j, h, v, w
  <2>5. CASE B = n /\ a = n /\ c # y
    <3>1. InstructionBoundaryToProgramByteOffset(v, B) = f.offset + y
      BY <2>3, <2>5, <1>1 DEF InstructionBoundaryToProgramByteOffset, NumInstructions, Last
    <3>2. j.disp = y
      BY <3>1, <2>1, <1>2, <1>4
    <3>3. ReencodeSucceeds(j)
      BY <2>1, <2>5, <3>2, <1>4, NextSucceeds
    <3> QED BY <3>3 DEF j
  <2>6. CASE ~(B = n /\ a = n /\ c # y)
    <3>1. InstructionBoundaryToProgramByteOffset(w, B) = InstructionBoundaryToProgramByteOffset(v, B)
      <4>1. CASE B < n
        <5>1. B + 1 \in 1 .. n
          BY <4>1, <1>1, <1>4
        <5>2. w.instructions[B + 1].offset = v.instructions[B + 1].offset
          BY <5>1, <2>3, <2>4
        <5> QED BY <4>1, <5>2, <2>3, <2>4 DEF InstructionBoundaryToProgramByteOffset, NumInstructions
      <4>2. CASE ~(B < n)
        <5>1. B = n /\ n \in 1 .. n
          BY <4>2, <1>1, <1>3, <1>4
        <5>2. w.instructions[n].offset = v.instructions[n].offset
          BY <5>1, <2>3, <2>4
        <5>3. w.instructions[n].encoded.size = v.instructions[n].encoded.size
          <6>1. CASE n = a
            BY <6>1, <5>1, <2>3, <2>4, <2>6, <1>5
          <6>2. CASE n # a
            BY <6>2, <5>1, <2>3, <2>4
          <6> QED BY <6>1, <6>2
        <5> QED BY <4>2, <5>2, <5>3, <2>3, <2>4
                DEF InstructionBoundaryToProgramByteOffset, NumInstructions, Last
      <4> QED BY <4>1, <4>2
    <3>2. h.disp = j.disp
      BY <3>1, <2>1, <2>2
    <3>3. CanonBase(h.encoded) = CanonBase(j.encoded) /\ Scale(h.encoded) = Scale(j.encoded)
          /\ h.encoded.width = j.encoded.width
      BY <2>1, <2>2, <1>5 DEF CanonBase, Scale
    <3>4. FieldFor(h.encoded, h.disp) = FieldFor(j.encoded, j.disp)
      BY <3>2, <3>3 DEF FieldFor
    <3>5. ReencodeSucceeds(h) <=> ReencodeSucceeds(j)
      BY <3>2, <3>3, <3>4, <2>1, <2>2, SuccessIs
    <3> QED BY <3>5, <1>6, <1>9 DEF j, h
  <2> QED BY <2>5, <2>6
<1>28. PassFacts(q, f, "randomize")
  BY <1>13, <1>15, <1>24, <1>26 DEF PassFacts
<1> QED BY <1>7, <1>9, <1>11, <1>23, <1>27, <1>28 DEF t, q, e

-----------------------------------------------------------------------------
(* Every step keeps the invariant                                            *)

\* A pass begins where everything is in place.
LEMMA PassBegin ==
  ASSUME NEW p, WellFormed(p), p.byte_len = SizeOfAll(p.instructions),
         \A k \in 1 .. Len(p.instructions) :
           p.instructions[k].offset = Starts(p.instructions)[k - 1],
         NEW f \in Fixes, f.at = 1, f.offset = 0, f.stable,
         f.iteration <= Cardinality(Canonical(p))
  PROVE  PassFacts(p, f, "fixup")
<1> DEFINE s == p.instructions
           n == Len(s)
<1>1. s \in Seq(InsnSet) /\ n \in Nat /\ NumInstructions(p) = n /\ DOMAIN s = 1 .. n
      /\ \A k \in 1 .. n : s[k] \in InsnSet
  BY WellParts
<1>2. /\ Starts(s)[0] = 0 /\ SizeOfAll(s) = Starts(s)[n]
      /\ \A k \in 1 .. n : Starts(s)[k] = Starts(s)[k - 1] + s[k].encoded.size
  BY <1>1, StartsFacts
<1>3. ASSUME NEW k \in 1 .. n PROVE OldEndIs(p, k)
  <2>1. s[k].offset + s[k].encoded.size = Starts(s)[k]
    BY <1>2
  <2>2. CASE k = n
    BY <2>1, <2>2, <1>1, <1>2 DEF OldEndIs, OldEnd
  <2>3. CASE k # n
    <3>1. k + 1 \in 1 .. n /\ (k + 1) - 1 = k
      BY <2>3, <1>1
    <3>2. s[k + 1].offset = Starts(s)[k]
      BY <3>1
    <3> QED BY <2>1, <2>3, <3>2, <1>1 DEF OldEndIs, OldEnd
  <2> QED BY <2>2, <2>3
<1>4. PassPlace(p, f)
  <2>1. 1 \in 1 .. n + 1 /\ 1 .. 1 - 1 = {} /\ 1 - 1 = 0
    BY <1>1
  <2> QED BY <2>1, <1>1, <1>2 DEF PassPlace
<1>5. PassOld(p, f, "fixup")
  BY <1>1, <1>3 DEF PassOld
<1>6. ~Shifted(p, f)
  <2>1. CASE n = 0
    BY <2>1, <1>1, <1>2 DEF Shifted
  <2>2. CASE n # 0
    <3>1. 1 \in 1 .. n /\ ~(1 > n) /\ 1 - 1 = 0
      BY <2>2, <1>1
    <3>2. s[1].offset = 0 /\ OldEndIs(p, 1)
      BY <3>1, <1>2, <1>3
    <3> QED BY <3>1, <3>2, <1>1 DEF Shifted
  <2> QED BY <2>1, <2>2
<1>7. PassCount(p, f)
  <2>1. f.iteration \in Nat
    BY DEF Fixes
  <2> QED BY <2>1, <1>6 DEF PassCount
<1>8. PassSync(p, f)
  <2>1. 1 .. f.at - 1 = {}
    OBVIOUS
  <2> QED BY <2>1 DEF PassSync
<1> QED BY <1>4, <1>5, <1>7, <1>8 DEF PassFacts

\* Outside FixupEncodedDisplacements its locals have their initial values.
LEMMA NoFixType == NoFix \in Fixes
BY DEF NoFix, Fixes

\* Stages at which nothing but the soundness of the programs is known.
LEMMA EarlyStage ==
  ASSUME MutatorTypeOK, Sound(other), Sound(program),
         stage \in {"select", "edit", "add", "limit"}
  PROVE  MutatorInv
<1>1. ~Fixing /\ stage # "randomize" /\ ~(stage \in {"relimit", "emit", "done"})
  BY DEF Fixing
<1>2. WellFormed(program) /\ \A k \in DOMAIN program.instructions : Told(program.instructions[k])
  BY DEF Sound
<1>3. ProgramInv
  BY <1>2 DEF ProgramInv
<1> QED BY <1>1, <1>3 DEF MutatorInv, PassInv, RandomizeInv, SettledInv

\* The same for the next state.
LEMMA EarlyStageNext ==
  ASSUME MutatorTypeOK', Sound(other'), Sound(program'),
         stage' \in {"select", "edit", "add", "limit"}
  PROVE  MutatorInv'
<1>1. (~Fixing)' /\ stage' # "randomize" /\ ~(stage' \in {"relimit", "emit", "done"})
  BY DEF Fixing
<1>2. /\ WellFormed(program')
      /\ \A k \in DOMAIN program'.instructions : Told(program'.instructions[k])
  BY DEF Sound
<1>3. ProgramInv'
  BY <1>2 DEF ProgramInv
<1>4. PassInv' /\ RandomizeInv' /\ SettledInv'
  BY <1>1 DEF PassInv, RandomizeInv, SettledInv
<1> QED BY <1>3, <1>4 DEF MutatorInv

\* The invariant holds of the inputs as they are decoded.
LEMMA InitInv == MutatorInit => MutatorInv
<1> SUFFICES ASSUME MutatorInit PROVE MutatorInv
  OBVIOUS
<1>1. PICK x \in Inputs[arch], y \in Inputs[arch] :
        program = ProgramFromBytes(x) /\ other = ProgramFromBytes(y)
  BY DEF MutatorInit
<1>2. x \in Seq(Encodings) /\ y \in Seq(Encodings)
  BY MutatorAssumption DEF MutatorInit
<1>3. Sound(program) /\ Sound(other)
  BY <1>1, <1>2, FromBytesSound
<1>4. MutatorTypeOK
  BY NoFixType DEF MutatorInit, MutatorTypeOK, Stages
<1> QED BY <1>3, <1>4, EarlyStage DEF MutatorInit

\* The edits, and what comes before and between them.
LEMMA EarlySteps ==
  ASSUME MutatorInv,
         \/ SelectEdits \/ SelectCrossover \/ SelectFails \/ SelectGivesUp
         \/ Edit \/ EditGivesUp \/ EditsDone
         \/ AddInstructionIfZeroLength \/ LimitProgramLength
  PROVE  MutatorInv'
<1> USE DEF Stages
<1>1. /\ MutatorTypeOK /\ Sound(other) /\ arch \in DOMAIN Inputs
      /\ stage \notin {"fixup", "randomize"} => Sound(program)
  BY DEF MutatorInv, MutatorTypeOK, ProgramInv, Fixing
<1>2. CASE SelectEdits
  <2>1. Sound(program') /\ Sound(other') /\ MutatorTypeOK' /\ stage' = "edit"
    BY <1>1, <1>2 DEF SelectEdits, MutatorTypeOK
  <2> QED BY <2>1, EarlyStageNext
<1>3. CASE SelectCrossover
  <2>1. Sound(program) /\ (CrossoverInsert \/ CrossoverOverwrite)
    BY <1>1, <1>3 DEF SelectCrossover
  <2>2. Sound(program')
    BY <1>1, <2>1, CrossoverSound
  <2>3. Sound(other') /\ MutatorTypeOK' /\ stage' = "add"
    BY <1>1, <1>3 DEF SelectCrossover, MutatorTypeOK
  <2> QED BY <2>2, <2>3, EarlyStageNext
<1>4. CASE SelectFails
  <2>1. Sound(program') /\ Sound(other') /\ MutatorTypeOK' /\ stage' = "select"
    BY <1>1, <1>4 DEF SelectFails, MutatorTypeOK
  <2> QED BY <2>1, EarlyStageNext
<1>5. CASE SelectGivesUp
  <2>1. Sound(program') /\ Sound(other') /\ MutatorTypeOK' /\ stage' = "add"
    BY <1>1, <1>5 DEF SelectGivesUp, MutatorTypeOK
  <2> QED BY <2>1, EarlyStageNext
<1>6. CASE Edit
  <2>1. /\ Sound(program)
        /\ \/ InsertGeneratedInstruction \/ MutateInstruction \/ SwapInstructions
           \/ DeleteInstruction(MinKept)
    BY <1>1, <1>6 DEF Edit
  <2>2. Sound(program')
    BY <1>1, <2>1, InsertGeneratedSound, MutateSound, SwapSound, DeleteSound
  <2>3. Sound(other') /\ MutatorTypeOK' /\ stage' = "edit"
    BY <1>1, <1>6 DEF Edit, MutatorTypeOK
  <2> QED BY <2>2, <2>3, EarlyStageNext
<1>7. CASE EditGivesUp
  <2>1. Sound(program') /\ Sound(other') /\ MutatorTypeOK' /\ stage' = "edit"
    BY <1>1, <1>7 DEF EditGivesUp, MutatorTypeOK
  <2> QED BY <2>1, EarlyStageNext
<1>8. CASE EditsDone
  <2>1. Sound(program') /\ Sound(other') /\ MutatorTypeOK' /\ stage' \in {"add", "select"}
    BY <1>1, <1>8 DEF EditsDone, MutatorTypeOK
  <2> QED BY <2>1, EarlyStageNext
<1>9. CASE AddInstructionIfZeroLength
  <2>1. Sound(program)
    BY <1>1, <1>9 DEF AddInstructionIfZeroLength
  <2>2. Sound(program')
    BY <1>1, <1>9, <2>1, InsertGeneratedSound DEF AddInstructionIfZeroLength
  <2>3. Sound(other') /\ MutatorTypeOK' /\ stage' \in {"add", "limit"}
    BY <1>1, <1>9 DEF AddInstructionIfZeroLength, MutatorTypeOK
  <2> QED BY <2>2, <2>3, EarlyStageNext
<1>10. CASE LimitProgramLength
  <2>1. Sound(program) /\ DeleteInstruction(0)
    BY <1>1, <1>10 DEF LimitProgramLength
  <2>2. Sound(program')
    BY <2>1, DeleteSound
  <2>3. Sound(other') /\ MutatorTypeOK' /\ stage' = "limit"
    BY <1>1, <1>10 DEF LimitProgramLength, MutatorTypeOK
  <2> QED BY <2>2, <2>3, EarlyStageNext
<1> QED BY <1>2, <1>3, <1>4, <1>5, <1>6, <1>7, <1>8, <1>9, <1>10

\* A step within FixupEncodedDisplacements.
LEMMA StillFixing ==
  ASSUME MutatorInv, UNCHANGED <<arch, other>>, fix' \in Fixes,
         stage' \in {"fixup", "randomize"}, WellFormed(program'),
         PassFacts(program', fix', stage'),
         \A k \in DOMAIN program'.instructions :
           Told(program'.instructions[k]) \/ (stage' = "randomize" /\ k = fix'.at),
         stage' = "fixup" /\ ~fix'.modified =>
           SizeOfAll(program'.instructions) <= MaxLen[arch],
         RandomizeInv'
  PROVE  MutatorInv'
<1>1. MutatorTypeOK'
  BY DEF MutatorInv, MutatorTypeOK, Stages
<1>2. Fixing' /\ ~(stage' \in {"relimit", "emit", "done"})
  BY DEF Fixing
<1>3. Sound(other')
  BY DEF MutatorInv, ProgramInv
<1>4. ProgramInv'
  BY <1>2, <1>3 DEF ProgramInv
<1>5. PassInv'
  BY <1>2 DEF PassInv
<1>6. SettledInv'
  BY <1>2 DEF SettledInv
<1> QED BY <1>1, <1>4, <1>5, <1>6 DEF MutatorInv

\* The pass goes on behind an instruction.
LEMMA PassOverStep ==
  ASSUME MutatorInv, Fixing, fix.at <= Len(program.instructions),
         NEW i, PassesTo(program, fix, i),
         NEW m \in BOOLEAN,
         m \/ (stage = "fixup" /\ i.encoded.size = program.instructions[fix.at].encoded.size),
         PassOver(i, m), stage' = "fixup", UNCHANGED <<arch, other>>
  PROVE  MutatorInv'
<1> DEFINE n == Len(program.instructions)
<1>1. /\ WellFormed(program) /\ fix \in Fixes /\ stage \in {"fixup", "randomize"}
      /\ PassFacts(program, fix, stage)
      /\ stage = "randomize" => fix.at \in Canonical(program)
  BY DEF MutatorInv, MutatorTypeOK, ProgramInv, PassInv, RandomizeInv, Fixing
<1>2. program' = ProgramAfter(program, fix, i) /\ fix' = FixAfter(program, fix, i, m)
  BY DEF PassOver, ProgramAfter, FixAfter
<1>3. WellFormed(program') /\ fix' \in Fixes /\ PassFacts(program', fix', "fixup")
  <2>1. /\ WellFormed(ProgramAfter(program, fix, i)) /\ FixAfter(program, fix, i, m) \in Fixes
        /\ PassFacts(ProgramAfter(program, fix, i), FixAfter(program, fix, i, m), "fixup")
    BY <1>1, PassGoesOn
  <2> QED BY <2>1, <1>2
<1>4. /\ program \in Programs /\ program.instructions \in Seq(InsnSet)
      /\ n \in Nat /\ NumInstructions(program) = n /\ DOMAIN program.instructions = 1 .. n
  BY <1>1, WellParts
<1>5. fix.at \in 1 .. n
  BY <1>1, <1>4 DEF PassFacts, PassPlace
<1>6. i \in InsnSet /\ Told(i)
  BY DEF PassesTo, GoodIn
<1>7. /\ program' \in Programs /\ Len(program'.instructions) = n
      /\ program'.instructions[fix.at] = i
      /\ \A k \in 1 .. n : k # fix.at => program'.instructions[k] = program.instructions[k]
  BY <1>2, <1>4, <1>5, <1>6, Replaced DEF ProgramAfter
<1>8. program'.instructions \in Seq(InsnSet) /\ DOMAIN program'.instructions = 1 .. n
  BY <1>7, <1>3, WellParts
<1>9. ASSUME NEW k \in DOMAIN program'.instructions PROVE Told(program'.instructions[k])
  <2>1. k \in 1 .. n
    BY <1>8
  <2>2. CASE k = fix.at
    BY <2>2, <1>6, <1>7
  <2>3. CASE k # fix.at
    <3>1. Told(program.instructions[k])
      BY <2>1, <2>3, <1>4 DEF MutatorInv, ProgramInv
    <3> QED BY <3>1, <2>1, <2>3, <1>7
  <2> QED BY <2>2, <2>3
<1>10. ASSUME ~fix'.modified PROVE SizeOfAll(program'.instructions) <= MaxLen[arch]
  <2>1. ~m /\ ~fix.modified
    <3>1. fix'.modified = (fix.modified \/ m)
      BY <1>1, <1>2 DEF Fixes, FixAfter
    <3> QED BY <3>1, <1>10
  <2>2. stage = "fixup" /\ i.encoded.size = program.instructions[fix.at].encoded.size
    BY <2>1
  <2>3. SizeOfAll(program.instructions) <= MaxLen[arch]
    BY <2>1, <2>2 DEF MutatorInv, PassInv
  <2>4. \A k \in 1 .. n :
          program.instructions[k].encoded.size = program'.instructions[k].encoded.size
    BY <2>2, <1>7
  <2>5. SizeOfAll(program.instructions) = SizeOfAll(program'.instructions)
    BY <2>4, <1>4, <1>7, <1>8, StartsSame
  <2> QED BY <2>3, <2>5
<1>11. RandomizeInv'
  BY DEF RandomizeInv
<1> QED BY <1>3, <1>9, <1>10, <1>11, StillFixing

\* The branch could not be encoded.
LEMMA EncodeFails ==
  ASSUME MutatorInv, Fixing, fix.at <= Len(program.instructions),
         Valid(program.instructions[fix.at]), NEW b \in 0 .. Len(program.instructions),
         ~ReencodeSucceeds(Synced(Moved.boundary)),
         program' = [program EXCEPT !.instructions[fix.at].encoded =
                                      Reencoded(Synced(b)).encoded],
         stage' = "randomize", UNCHANGED <<arch, other, fix>>
  PROVE  MutatorInv'
<1> DEFINE n == Len(program.instructions)
<1>1. /\ WellFormed(program) /\ fix \in Fixes /\ stage \in {"fixup", "randomize"}
      /\ PassFacts(program, fix, stage)
      /\ stage = "randomize" => fix.at \in Canonical(program)
  BY DEF MutatorInv, MutatorTypeOK, ProgramInv, PassInv, RandomizeInv, Fixing
<1>2. /\ program.instructions \in Seq(InsnSet)
      /\ n \in Nat /\ NumInstructions(program) = n /\ DOMAIN program.instructions = 1 .. n
  BY <1>1, WellParts
<1>3. fix.at \in 1 .. n
  BY <1>1, <1>2 DEF PassFacts, PassPlace
<1>4. Moved.boundary = program.instructions[fix.at].boundary
  <2>1. Moved = MovedOf(program, fix)
    BY DEF Moved, MovedOf
  <2> QED BY <2>1, <1>1, <1>3, MovedFacts
<1>5. \A c : Synced(c) = SyncedOf(program, fix, c)
  BY DEF Synced, SyncedOf, Moved, MovedOf, WithMoved, WithMovedOf
<1>6. ~ReencodeSucceeds(SyncedOf(program, fix, program.instructions[fix.at].boundary))
  BY <1>4, <1>5
<1>7. program' = [program EXCEPT !.instructions[fix.at].encoded =
                                      Reencoded(SyncedOf(program, fix, b)).encoded]
  BY <1>5
<1>8. /\ WellFormed(program') /\ PassFacts(program', fix, "randomize")
      /\ Valid(program'.instructions[fix.at]) /\ fix.at \in Canonical(program')
      /\ ~ReencodeSucceeds(SyncedOf(program', fix, program'.instructions[fix.at].boundary))
      /\ Len(program'.instructions) = n
      /\ \A k \in 1 .. n : k # fix.at => program'.instructions[k] = program.instructions[k]
  <2> DEFINE e == Reencoded(SyncedOf(program, fix, b)).encoded
             q == [program EXCEPT !.instructions[fix.at].encoded = e]
  <2>1. /\ WellFormed(q) /\ PassFacts(q, fix, "randomize")
        /\ Valid(q.instructions[fix.at]) /\ fix.at \in Canonical(q)
        /\ ~ReencodeSucceeds(SyncedOf(q, fix, q.instructions[fix.at].boundary))
        /\ Len(q.instructions) = n
        /\ \A k \in 1 .. n : k # fix.at => q.instructions[k] = program.instructions[k]
    BY <1>1, <1>6, EncodeStep
  <2>2. program' = q
    BY <1>7
  <2> HIDE DEF q
  <2> QED BY <2>1, <2>2
<1>9. DOMAIN program'.instructions = 1 .. n /\ NumInstructions(program') = n
  BY <1>8, WellParts
<1>10. ASSUME NEW k \in DOMAIN program'.instructions, k # fix.at
       PROVE  Told(program'.instructions[k])
  <2>1. k \in 1 .. n
    BY <1>9
  <2>2. Told(program.instructions[k])
    BY <2>1, <1>2, <1>10 DEF MutatorInv, ProgramInv
  <2> QED BY <2>1, <2>2, <1>8, <1>10
<1>11. RandomizeInv'
  <2>1. \A c : (Synced(c))' = SyncedOf(program', fix, c)
    BY DEF Synced, SyncedOf, Moved, MovedOf, WithMoved, WithMovedOf
  <2>2. (Moved.boundary)' = program'.instructions[fix.at].boundary
    <3>1. Moved' = MovedOf(program', fix)
      BY DEF Moved, MovedOf
    <3> QED BY <3>1, <1>1, <1>3, <1>8, MovedFacts
  <2>3. ~(ReencodeSucceeds(Synced(Moved.boundary)))'
    <3>1. (Synced(Moved.boundary))' =
            SyncedOf(program', fix, program'.instructions[fix.at].boundary)
      BY <2>2 DEF Synced, SyncedOf, Moved, MovedOf, WithMoved, WithMovedOf
    <3> QED BY <3>1, <1>8
  <2> QED BY <2>3, <1>3, <1>8, <1>9 DEF RandomizeInv
<1>12. fix' = fix
  OBVIOUS
<1> QED BY <1>1, <1>8, <1>10, <1>11, <1>12, StillFixing

\* What is known of the instruction of the pass.
LEMMA PassContext ==
  ASSUME MutatorInv, Fixing, fix.at <= NumInstructions(program)
  PROVE  LET n == Len(program.instructions)
             i == program.instructions[fix.at]
         IN /\ WellFormed(program) /\ fix \in Fixes
            /\ n \in Nat /\ NumInstructions(program) = n /\ Boundaries(program) = 0 .. n
            /\ DOMAIN program.instructions = 1 .. n
            /\ fix.at \in 1 .. n /\ fix.at <= n
            /\ i \in InsnSet /\ GoodInsn(i) /\ (Valid(i) => i.boundary \in 0 .. n)
            /\ stage = "fixup" => Told(i)
            /\ Moved = MovedOf(program, fix) /\ WithMoved = WithMovedOf(program, fix)
            /\ \A b : Synced(b) = SyncedOf(program, fix, b)
            /\ Moved.boundary = i.boundary
<1> DEFINE n == Len(program.instructions)
           i == program.instructions[fix.at]
<1>1. /\ WellFormed(program) /\ fix \in Fixes /\ stage \in {"fixup", "randomize"}
      /\ PassFacts(program, fix, stage)
  BY DEF MutatorInv, MutatorTypeOK, ProgramInv, PassInv, Fixing
<1>2. /\ n \in Nat /\ NumInstructions(program) = n /\ Boundaries(program) = 0 .. n
      /\ DOMAIN program.instructions = 1 .. n
      /\ \A k \in 1 .. n :
           /\ program.instructions[k] \in InsnSet /\ GoodInsn(program.instructions[k])
           /\ Valid(program.instructions[k]) => program.instructions[k].boundary \in 0 .. n
  BY <1>1, WellParts
<1>3. fix.at \in 1 .. n /\ fix.at <= n
  BY <1>1, <1>2 DEF PassFacts, PassPlace
<1>4. stage = "fixup" => Told(i)
  BY <1>2, <1>3 DEF MutatorInv, ProgramInv
<1>5. Moved = MovedOf(program, fix) /\ WithMoved = WithMovedOf(program, fix)
  BY DEF Moved, MovedOf, WithMoved, WithMovedOf
<1>6. \A b : Synced(b) = SyncedOf(program, fix, b)
  BY <1>5 DEF Synced, SyncedOf
<1>7. Moved.boundary = i.boundary
  BY <1>1, <1>3, <1>5, MovedFacts
<1> QED BY <1>1, <1>2, <1>3, <1>4, <1>5, <1>6, <1>7

\* A branch that is right already is passed over.
LEMMA InSyncStep ==
  ASSUME MutatorInv, FixupInSync
  PROVE  MutatorInv'
<1> DEFINE n == Len(program.instructions)
           i == program.instructions[fix.at]
<1>1. /\ stage = "fixup" /\ fix.at <= NumInstructions(program) /\ InSync
      /\ PassOver(Moved, FALSE) /\ stage' = "fixup" /\ UNCHANGED <<arch, other>>
  BY DEF FixupInSync, InPass
<1>2. Fixing
  BY <1>1 DEF Fixing
<1>3. /\ WellFormed(program) /\ fix \in Fixes /\ n \in Nat /\ fix.at \in 1 .. n /\ fix.at <= n
      /\ GoodInsn(i) /\ (Valid(i) => i.boundary \in 0 .. n) /\ Told(i)
      /\ Moved = MovedOf(program, fix) /\ WithMoved = WithMovedOf(program, fix)
  BY <1>1, <1>2, PassContext
<1>4. /\ Moved \in InsnSet /\ Moved.offset = fix.offset /\ Moved.encoded = i.encoded
      /\ Moved.disp = i.disp /\ Moved.boundary = i.boundary
  BY <1>3, MovedFacts
<1>5. GoodIn(Moved, n)
  BY <1>3, <1>4 DEF GoodIn, GoodInsn, Told, Valid
<1>6. Valid(Moved) => TargetDisplacement(WithMovedOf(program, fix), Moved) = Moved.disp
  BY <1>1, <1>3 DEF InSync
<1>7. PassesTo(program, fix, Moved)
  BY <1>4, <1>5, <1>6 DEF PassesTo
<1>8. Moved.encoded.size = program.instructions[fix.at].encoded.size
  BY <1>4
<1> QED BY <1>1, <1>2, <1>3, <1>7, <1>8, PassOverStep

\* An instruction rewritten for a boundary its bytes can reach.
LEMMA EncodedPasses ==
  ASSUME MutatorInv, Fixing, fix.at <= NumInstructions(program),
         Valid(program.instructions[fix.at]), NEW b \in 0 .. Len(program.instructions),
         ReencodeSucceeds(Synced(b)), PassOver(Reencoded(Synced(b)), TRUE),
         stage' = "fixup", UNCHANGED <<arch, other>>
  PROVE  MutatorInv'
<1> DEFINE n == Len(program.instructions)
           i == program.instructions[fix.at]
           j == SyncedOf(program, fix, b)
           r == Reencoded(j)
           w == WithMovedOf(program, fix)
<1>1. /\ WellFormed(program) /\ fix \in Fixes /\ n \in Nat /\ fix.at \in 1 .. n /\ fix.at <= n
      /\ i \in InsnSet /\ GoodInsn(i) /\ Synced(b) = j
  BY PassContext
<1>2. /\ j \in InsnSet /\ j.encoded = i.encoded /\ j.boundary = b /\ j.offset = fix.offset
      /\ j.disp = InstructionBoundaryToProgramByteOffset(w, b) - fix.offset
      /\ j.disp \in Int /\ j.encoded.width > 0
  BY <1>1, SyncedFacts
<1>3. j.encoded.kind = "insn"
  BY <1>1, <1>2 DEF GoodInsn
<1> HIDE DEF j
<1>4. /\ r \in InsnSet /\ r.offset = j.offset /\ r.disp = j.disp /\ r.boundary = j.boundary
      /\ r.encoded.canon = j.encoded.canon /\ r.encoded.size = j.encoded.canon
      /\ GoodInsn(r) /\ (ReencodeSucceeds(j) => Told(r))
  BY <1>2, <1>3, ReencodedFacts
<1> HIDE DEF r, w
<1>5. ReencodeSucceeds(j) /\ PassOver(r, TRUE)
  BY <1>1 DEF r
<1>6. GoodIn(r, n)
  BY <1>1, <1>2, <1>4, <1>5 DEF GoodIn
<1>7. TargetDisplacement(w, r) = r.disp
  BY <1>2, <1>4 DEF TargetDisplacement
<1>8. PassesTo(program, fix, r)
  BY <1>2, <1>4, <1>6, <1>7 DEF PassesTo, w
<1> QED BY <1>1, <1>5, <1>8, PassOverStep

\* A branch that is wrong is rewritten, or its target given up.
LEMMA ReencodeStep ==
  ASSUME MutatorInv, FixupReencode
  PROVE  MutatorInv'
<1> DEFINE n == Len(program.instructions)
           i == program.instructions[fix.at]
           wanted == Synced(Moved.boundary)
<1>1. /\ stage = "fixup" /\ fix.at <= NumInstructions(program) /\ ~InSync
      /\ UNCHANGED <<arch, other>>
  BY DEF FixupReencode, InPass
<1>2. Fixing
  BY <1>1 DEF Fixing
<1>3. /\ WellFormed(program) /\ fix \in Fixes /\ n \in Nat /\ fix.at \in 1 .. n /\ fix.at <= n
      /\ (Valid(i) => i.boundary \in 0 .. n) /\ Moved.boundary = i.boundary
      /\ Moved = MovedOf(program, fix)
  BY <1>1, <1>2, PassContext
<1>4. Moved.disp = i.disp
  BY <1>3, MovedFacts
<1>5. Valid(i) /\ Moved.boundary \in 0 .. n
  BY <1>1, <1>3, <1>4 DEF InSync, Valid
<1>6. CASE ReencodeSucceeds(wanted)
  <2>1. PassOver(Reencoded(wanted), TRUE) /\ stage' = "fixup"
    BY <1>1, <1>6 DEF FixupReencode
  <2> QED BY <2>1, <1>1, <1>2, <1>5, <1>6, EncodedPasses
<1>7. CASE ~ReencodeSucceeds(wanted)
  <2>1. /\ program' = [program EXCEPT !.instructions[fix.at].encoded =
                                        Reencoded(wanted).encoded]
        /\ stage' = "randomize" /\ fix' = fix
    BY <1>7 DEF FixupReencode
  <2> QED BY <2>1, <1>1, <1>2, <1>3, <1>5, <1>7, EncodeFails
<1> QED BY <1>6, <1>7

\* A boundary is drawn for a branch.
LEMMA RandomizeSteps ==
  ASSUME MutatorInv, RandomizeAgain \/ RandomizeEncodable
  PROVE  MutatorInv'
<1> DEFINE n == Len(program.instructions)
           i == program.instructions[fix.at]
<1>1. stage = "randomize" /\ UNCHANGED <<arch, other>>
  BY DEF RandomizeAgain, RandomizeEncodable
<1>2. /\ fix.at <= NumInstructions(program) /\ Valid(i)
      /\ ~ReencodeSucceeds(Synced(Moved.boundary))
  BY <1>1 DEF MutatorInv, RandomizeInv
<1>3. Fixing
  BY <1>1 DEF Fixing
<1>4. fix.at <= n /\ Boundaries(program) = 0 .. n
  BY <1>2, <1>3, PassContext
<1>5. CASE RandomizeAgain
  <2>1. PICK b \in 0 .. n :
          program' = [program EXCEPT !.instructions[fix.at].encoded =
                                       Reencoded(Synced(b)).encoded]
    BY <1>4, <1>5 DEF RandomizeAgain
  <2>2. stage' = "randomize" /\ fix' = fix
    BY <1>1, <1>5 DEF RandomizeAgain
  <2> QED BY <2>1, <2>2, <1>1, <1>2, <1>3, <1>4, EncodeFails
<1>6. CASE RandomizeEncodable
  <2>1. PICK b \in 0 .. n :
          ReencodeSucceeds(Synced(b)) /\ PassOver(Reencoded(Synced(b)), TRUE)
    BY <1>4, <1>6 DEF RandomizeEncodable
  <2>2. stage' = "fixup"
    BY <1>6 DEF RandomizeEncodable
  <2> QED BY <2>1, <2>2, <1>1, <1>2, <1>3, EncodedPasses
<1> QED BY <1>5, <1>6

\* FixupEncodedDisplacements begins with everything in place.
LEMMA StartStep ==
  ASSUME MutatorInv, FixupStart
  PROVE  MutatorInv'
<1> DEFINE q == FixupInvariants(program)
           n == Len(program.instructions)
<1>1. /\ stage = "limit" /\ program.byte_len <= MaxLen[arch] /\ stage' = "fixup"
      /\ program' = q /\ UNCHANGED <<arch, other>>
      /\ fix' = [NoFix EXCEPT !.at = 1, !.stable = TRUE]
  BY DEF FixupStart
<1>2. Sound(program)
  BY <1>1 DEF MutatorInv, ProgramInv, Fixing
<1>3. /\ program \in Programs /\ n \in Nat
      /\ \A k \in 1 .. n :
           LET i == program.instructions[k]
           IN /\ i \in InsnSet /\ GoodInsn(i) /\ Told(i)
              /\ Valid(i) => i.boundary \in 0 .. n
  BY <1>2, SoundParts
<1>4. /\ q \in Programs /\ Len(q.instructions) = n /\ DOMAIN q.instructions = 1 .. n
      /\ \A k \in 1 .. n : q.instructions[k] =
           [program.instructions[k] EXCEPT !.offset = Starts(program.instructions)[k - 1]]
      /\ Starts(q.instructions) = Starts(program.instructions)
      /\ q.byte_len = SizeOfAll(q.instructions)
      /\ q.byte_len = SizeOfAll(program.instructions)
  BY <1>3, FixupShape
<1> HIDE DEF q
<1>5. ASSUME NEW k \in 1 .. n
      PROVE  LET i == q.instructions[k]
             IN /\ GoodInsn(i) /\ Told(i) /\ (Valid(i) => i.boundary \in 0 .. n)
                /\ i.offset = Starts(q.instructions)[k - 1]
  <2> DEFINE i == program.instructions[k]
             x == Starts(program.instructions)[k - 1]
  <2>1. GoodIn(i, n)
    BY <1>3 DEF GoodIn
  <2>2. program.instructions \in Seq(InsnSet)
    BY <1>3 DEF Programs
  <2>3. k - 1 \in 0 .. n
    BY <1>3
  <2>4. x \in Int
    BY <2>2, <2>3, StartsFacts
  <2>5. GoodIn([i EXCEPT !.offset = x], n)
    BY <2>1, <2>4, OffsetChosen
  <2>6. [i EXCEPT !.offset = x].offset = x
    BY <1>3 DEF InsnSet
  <2> QED BY <2>5, <2>6, <1>4 DEF GoodIn
<1>6. Sound(q)
  BY <1>4, <1>5, SoundFrom
<1>7. fix' \in Fixes /\ fix'.at = 1 /\ fix'.offset = 0 /\ fix'.stable /\ fix'.iteration = 0
  <2>1. fix' = [at |-> 1, offset |-> 0, stable |-> TRUE, modified |-> FALSE, iteration |-> 0]
    BY <1>1 DEF NoFix
  <2> QED BY <2>1 DEF Fixes
<1>8. WellFormed(q)
  BY <1>6 DEF Sound
<1>9. 0 <= Cardinality(Canonical(q))
  <2>1. Canonical(q) \subseteq 1 .. n
    BY <1>4 DEF Canonical
  <2>2. Cardinality(Canonical(q)) \in Nat
    BY <2>1, <1>3, Counting
  <2> QED BY <2>2
<1>10. PassFacts(q, fix', "fixup")
  <2>1. \A k \in 1 .. Len(q.instructions) :
           q.instructions[k].offset = Starts(q.instructions)[k - 1]
    BY <1>4, <1>5
  <2> QED BY <2>1, <1>4, <1>7, <1>8, <1>9, PassBegin
<1>11. SizeOfAll(q.instructions) <= MaxLen[arch]
  <2>1. program.byte_len = SizeOfAll(program.instructions)
    BY <1>2 DEF Sound
  <2> QED BY <2>1, <1>1, <1>4
<1>12. \A k \in DOMAIN program'.instructions : Told(program'.instructions[k])
  BY <1>1, <1>4, <1>5
<1>13. RandomizeInv'
  BY <1>1 DEF RandomizeInv
<1> QED BY <1>1, <1>7, <1>8, <1>10, <1>11, <1>12, <1>13, StillFixing

\* A program behaves by its instructions.
LEMMA SameInstructions ==
  ASSUME NEW p, NEW q, q.instructions = p.instructions
  PROVE  /\ NumInstructions(q) = NumInstructions(p) /\ Boundaries(q) = Boundaries(p)
         /\ Canonical(q) = Canonical(p)
         /\ \A k : InSyncAt(p, k) => InSyncAt(q, k)
<1>1. NumInstructions(q) = NumInstructions(p)
  BY DEF NumInstructions
<1>2. Boundaries(q) = Boundaries(p)
  BY <1>1 DEF Boundaries
<1>3. Canonical(q) = Canonical(p)
  BY DEF Canonical
<1>4. ASSUME NEW k, InSyncAt(p, k) PROVE InSyncAt(q, k)
  <2>1. \A b : InstructionBoundaryToProgramByteOffset(q, b)
                 = InstructionBoundaryToProgramByteOffset(p, b)
    BY <1>1, Zenon DEF InstructionBoundaryToProgramByteOffset
  <2> QED BY <2>1, <1>4, Zenon DEF InSyncAt, TargetDisplacement
<1> QED BY <1>1, <1>2, <1>3, <1>4

\* A pass ends: nothing moved, or another instruction has its canonical size
\* now.
LEMMA PassEndStep ==
  ASSUME MutatorInv, FixupPassEnd
  PROVE  MutatorInv'
<1> DEFINE n == Len(program.instructions)
           stable == fix.stable /\ program.byte_len = fix.offset
<1>1. /\ stage = "fixup" /\ fix.at > NumInstructions(program) /\ UNCHANGED <<arch, other>>
      /\ program' = [program EXCEPT !.byte_len = fix.offset,
                                    !.encodings_may_be_invalid = @ /\ ~stable]
  BY DEF FixupPassEnd
<1>2. /\ WellFormed(program) /\ fix \in Fixes /\ PassFacts(program, fix, stage)
      /\ \A k \in DOMAIN program.instructions : Told(program.instructions[k])
      /\ ~fix.modified => SizeOfAll(program.instructions) <= MaxLen[arch]
  BY <1>1 DEF MutatorInv, MutatorTypeOK, ProgramInv, PassInv, Fixing
<1>3. /\ program \in Programs /\ program.instructions \in Seq(InsnSet) /\ n \in Nat
      /\ NumInstructions(program) = n /\ DOMAIN program.instructions = 1 .. n
  BY <1>2, WellParts
<1>4. fix.at = n + 1
  BY <1>1, <1>2, <1>3 DEF PassFacts, PassPlace
<1>5. /\ SizeOfAll(program.instructions) = Starts(program.instructions)[n]
      /\ SizeOfAll(program.instructions) \in Nat
  BY <1>3, StartsFacts
<1>6. /\ fix.offset = SizeOfAll(program.instructions)
      /\ \A k \in 1 .. n :
           program.instructions[k].offset = Starts(program.instructions)[k - 1]
  <2>1. (n + 1) - 1 = n
    BY <1>3
  <2> QED BY <2>1, <1>2, <1>4, <1>5 DEF PassFacts, PassPlace
<1>7. /\ program'.instructions = program.instructions /\ program'.byte_len = fix.offset
      /\ program'.encodings_may_be_invalid = (program.encodings_may_be_invalid /\ ~stable)
      /\ program' \in Programs
  <2>1. fix.offset \in Int
    BY <1>2 DEF Fixes
  <2> QED BY <2>1, <1>1, <1>3 DEF Programs
<1>8. Shifted(program, fix) <=> ~stable
  BY <1>1 DEF Shifted
<1>9. /\ NumInstructions(program') = n /\ Boundaries(program') = Boundaries(program)
      /\ Canonical(program') = Canonical(program)
      /\ \A k : InSyncAt(program, k) => InSyncAt(program', k)
  BY <1>3, <1>7, SameInstructions
<1>10. WellFormed(program')
  BY <1>2, <1>7, <1>9 DEF WellFormed
<1>11. CASE stable
  <2>1. /\ fix' = NoFix
        /\ stage' = IF fix.modified THEN "relimit" ELSE "emit"
    BY <1>11, <1>1 DEF FixupPassEnd
  <2>2. Sound(program')
    BY <1>2, <1>6, <1>7, <1>10 DEF Sound
  <2>3. MutatorTypeOK'
    BY <2>1, <1>1, NoFixType DEF MutatorInv, MutatorTypeOK, Stages
  <2>4. (~Fixing)' /\ stage' \in {"relimit", "emit"}
    BY <2>1 DEF Fixing
  <2>5. ProgramInv'
    BY <2>2, <1>1, <1>10 DEF ProgramInv, MutatorInv, Sound
  <2>6. PassInv' /\ RandomizeInv'
    BY <2>4 DEF PassInv, RandomizeInv
  <2>7. ASSUME NEW k \in 1 .. n
        PROVE  /\ program'.instructions[k].offset = Starts(program'.instructions)[k - 1]
               /\ InSyncAt(program', k)
    <3>1. k \in 1 .. fix.at - 1
      BY <1>3, <1>4
    <3>2. InSyncAt(program, k)
      BY <3>1, <1>2, <1>8, <1>11 DEF PassFacts, PassSync
    <3> QED BY <3>2, <1>6, <1>7, <1>9
  <2>8. stage' # "relimit" => SizeOfAll(program'.instructions) <= MaxLen[arch']
    BY <2>1, <1>1, <1>2, <1>7
  <2>9. ~program'.encodings_may_be_invalid
    BY <1>7, <1>11
  <2>10. DOMAIN program'.instructions = 1 .. n
    BY <1>3, <1>7
  <2>11. SettledInv'
    BY <2>4, <2>7, <2>8, <2>9, <2>10 DEF SettledInv
  <2> QED BY <2>3, <2>5, <2>6, <2>11 DEF MutatorInv
<1>12. CASE ~stable
  <2>1. /\ fix' = [fix EXCEPT !.at = 1, !.offset = 0, !.stable = TRUE, !.iteration = @ + 1]
        /\ stage' = "fixup"
    BY <1>12, <1>1 DEF FixupPassEnd
  <2>2. /\ fix' \in Fixes /\ fix'.at = 1 /\ fix'.offset = 0 /\ fix'.stable
        /\ fix'.iteration = fix.iteration + 1 /\ fix'.modified = fix.modified
    <3> DEFINE g == [fix EXCEPT !.at = 1, !.offset = 0, !.stable = TRUE, !.iteration = @ + 1]
    <3>1. fix.iteration \in Nat /\ fix.iteration + 1 \in Nat
      BY <1>2 DEF Fixes
    <3>2. /\ g \in Fixes /\ g.at = 1 /\ g.offset = 0 /\ g.stable
          /\ g.iteration = fix.iteration + 1 /\ g.modified = fix.modified
      <4>1. g \in Fixes
        <5>1. ASSUME NEW f \in Fixes, NEW a \in Nat, NEW o \in Int, NEW b \in BOOLEAN, NEW c \in Nat
              PROVE  [f EXCEPT !.at = a, !.offset = o, !.stable = b, !.iteration = c] \in Fixes
          BY <5>1 DEF Fixes
        <5>2. 1 \in Nat /\ 0 \in Int /\ TRUE \in BOOLEAN
          OBVIOUS
        <5> QED BY <5>1, <5>2, <3>1, <1>2, Zenon
      <4>2. g.at = 1 /\ g.offset = 0 /\ g.iteration = fix.iteration + 1
        BY <3>1, <1>2 DEF Fixes
      <4>3. g.stable = TRUE /\ g.modified = fix.modified
        BY <1>2 DEF Fixes
      <4> QED BY <4>1, <4>2, <4>3
    <3>3. fix' = g
      BY <2>1
    <3> HIDE DEF g
    <3> QED BY <3>2, <3>3
  <2>3. fix'.iteration <= Cardinality(Canonical(program'))
    BY <2>2, <1>2, <1>8, <1>9, <1>12 DEF PassFacts, PassCount
  <2>4. PassFacts(program', fix', "fixup")
    <3>1. program'.byte_len = SizeOfAll(program'.instructions)
      BY <1>6, <1>7
    <3>2. \A k \in 1 .. Len(program'.instructions) :
            program'.instructions[k].offset = Starts(program'.instructions)[k - 1]
      BY <1>6, <1>7
    <3> QED BY <3>1, <3>2, <2>2, <2>3, <1>10, PassBegin
  <2>5. \A k \in DOMAIN program'.instructions : Told(program'.instructions[k])
    BY <1>2, <1>7
  <2>6. ~fix'.modified => SizeOfAll(program'.instructions) <= MaxLen[arch]
    BY <2>2, <1>2, <1>7
  <2>7. RandomizeInv'
    BY <2>1 DEF RandomizeInv
  <2> QED BY <2>1, <2>2, <2>4, <2>5, <2>6, <2>7, <1>1, <1>10, StillFixing
<1> QED BY <1>11, <1>12

\* The end of FinalizeProgram, and stuttering.
LEMMA LastSteps ==
  ASSUME MutatorInv, LimitHolds \/ Emit \/ UNCHANGED mutatorVars
  PROVE  MutatorInv'
<1>1. CASE LimitHolds
  <2>1. /\ stage = "relimit" /\ stage' = "emit" /\ program.byte_len <= MaxLen[arch]
        /\ UNCHANGED <<arch, program, other, fix>>
    BY <1>1 DEF LimitHolds
  <2>2. MutatorTypeOK' /\ ProgramInv'
    BY <2>1 DEF MutatorInv, MutatorTypeOK, Stages, ProgramInv, Fixing
  <2>3. PassInv' /\ RandomizeInv'
    BY <2>1 DEF PassInv, RandomizeInv, Fixing
  <2>4. program.byte_len = SizeOfAll(program.instructions)
    BY <2>1 DEF MutatorInv, ProgramInv, Fixing, Sound
  <2>5. SettledInv'
    BY <2>1, <2>4 DEF MutatorInv, SettledInv
  <2> QED BY <2>2, <2>3, <2>5 DEF MutatorInv
<1>2. CASE Emit
  <2>1. /\ stage = "emit" /\ stage' = "done" /\ output' = ToBytes(program)
        /\ UNCHANGED <<arch, program, other, fix>>
    BY <1>2 DEF Emit
  <2>2. MutatorTypeOK' /\ ProgramInv'
    BY <2>1 DEF MutatorInv, MutatorTypeOK, Stages, ProgramInv, Fixing
  <2>3. PassInv' /\ RandomizeInv'
    BY <2>1 DEF PassInv, RandomizeInv, Fixing
  <2>4. SettledInv'
    BY <2>1 DEF MutatorInv, SettledInv
  <2> QED BY <2>2, <2>3, <2>4 DEF MutatorInv
<1>3. CASE UNCHANGED mutatorVars
  <2>1. MutatorTypeOK' /\ ProgramInv'
    BY <1>3 DEF MutatorInv, mutatorVars, MutatorTypeOK, ProgramInv, Fixing
  <2>2. PassInv'
    BY <1>3 DEF MutatorInv, mutatorVars, PassInv, Fixing
  <2>3. RandomizeInv'
    BY <1>3 DEF MutatorInv, mutatorVars, RandomizeInv, Synced, Moved, WithMoved
  <2>4. SettledInv'
    BY <1>3 DEF MutatorInv, mutatorVars, SettledInv
  <2> QED BY <2>1, <2>2, <2>3, <2>4 DEF MutatorInv
<1> QED BY <1>1, <1>2, <1>3

\* Every step keeps the invariant.
LEMMA MutatorStep == MutatorInv /\ [MutatorNext]_mutatorVars => MutatorInv'
<1> SUFFICES ASSUME MutatorInv, [MutatorNext]_mutatorVars PROVE MutatorInv'
  OBVIOUS
<1>1. CASE MutatorNext
  BY <1>1, EarlySteps, StartStep, InSyncStep, ReencodeStep, RandomizeSteps, PassEndStep,
     LastSteps DEF MutatorNext
<1>2. CASE UNCHANGED mutatorVars
  BY <1>2, LastSteps
<1> QED BY <1>1, <1>2

-----------------------------------------------------------------------------
(* What the invariant implies                                                *)

\* The invariant implies that no CHECK fails.
LEMMA InvChecks == MutatorInv => ChecksHold
<1> SUFFICES ASSUME MutatorInv PROVE ChecksHold
  OBVIOUS
<1> DEFINE n == Len(program.instructions)
<1>1. WellFormed(program)
  BY DEF MutatorInv, ProgramInv
<1>2. /\ n \in Nat /\ NumInstructions(program) = n
      /\ DOMAIN program.instructions = 1 .. n /\ program.instructions \in Seq(InsnSet)
  BY <1>1, WellParts
<1>3. ASSUME stage \notin {"fixup", "randomize"} PROVE Sound(program)
  BY <1>3 DEF MutatorInv, ProgramInv, Fixing
<1>4. ASSUME stage \notin {"fixup", "randomize"} PROVE Consistent(program)
  BY <1>3, <1>4 DEF Sound, WellFormed, GoodInsn, Consistent
<1>5. ASSUME stage = "fixup" PROVE fix.iteration <= NumInstructions(program)
  <2>1. PassCount(program, fix) /\ fix.iteration \in Nat
    BY <1>5 DEF MutatorInv, MutatorTypeOK, Fixes, PassInv, Fixing, PassFacts
  <2>2. Canonical(program) \subseteq 1 .. n
    BY <1>2 DEF Canonical
  <2>3. /\ Cardinality(Canonical(program)) \in Nat
        /\ Cardinality(Canonical(program)) <= n
    BY <2>2, <1>2, Counting
  <2>4. fix.iteration <= Cardinality(Canonical(program))
    BY <2>1, <2>3 DEF PassCount
  <2> QED BY <2>1, <2>3, <2>4, <1>2
<1>6. ASSUME program.byte_len > MaxLen[arch], stage \in {"limit", "relimit"}
      PROVE  NumInstructions(program) > 0
  <2>1. program.byte_len = Starts(program.instructions)[n]
    BY <1>2, <1>3, <1>6, StartsFacts DEF Sound
  <2>2. MaxLen[arch] \in Nat
    BY MutatorAssumption DEF MutatorInv, MutatorTypeOK
  <2>3. SUFFICES ASSUME n = 0 PROVE FALSE
    BY <1>2
  <2>4. Starts(program.instructions)[0] = 0
    BY <1>2, StartsFacts
  <2> QED BY <2>1, <2>2, <2>3, <2>4, <1>6
<1>7. ASSUME stage = "emit" PROVE ToBytesChecks(program)
  BY <1>7 DEF MutatorInv, SettledInv, ToBytesChecks
<1> QED BY <1>4, <1>5, <1>6, <1>7 DEF ChecksHold

\* A program laid out: where its boundaries are.
LEMMA OffsetIsStart ==
  ASSUME NEW p \in Programs, NEW n, n = Len(p.instructions), n > 0,
         \A k \in 1 .. n : p.instructions[k].offset = Starts(p.instructions)[k - 1]
  PROVE  \A b \in 0 .. n :
           InstructionBoundaryToProgramByteOffset(p, b) = Starts(p.instructions)[b]
<1> DEFINE s == p.instructions
<1>1. s \in Seq(InsnSet) /\ n \in Nat /\ NumInstructions(p) = n
  BY DEF Programs, NumInstructions
<1>2. \A k \in 1 .. n : Starts(s)[k] = Starts(s)[k - 1] + s[k].encoded.size
  BY <1>1, StartsFacts
<1>3. SUFFICES ASSUME NEW b \in 0 .. n
               PROVE  InstructionBoundaryToProgramByteOffset(p, b) = Starts(s)[b]
  OBVIOUS
<1>4. CASE b < n
  <2>1. b + 1 \in 1 .. n /\ (b + 1) - 1 = b
    BY <1>1, <1>4
  <2> QED BY <2>1, <1>1, <1>4 DEF InstructionBoundaryToProgramByteOffset
<1>5. CASE ~(b < n)
  <2>1. b = n /\ n \in 1 .. n
    BY <1>1, <1>5
  <2> QED BY <2>1, <1>1, <1>2, <1>5 DEF InstructionBoundaryToProgramByteOffset, Last
<1> QED BY <1>4, <1>5

\* A settled program: what its branches are in bytes.
Settled(p) ==
  /\ Sound(p) /\ SizeOfAll(p.instructions) < FixupLimit
  /\ \A k \in DOMAIN p.instructions :
       p.instructions[k].offset = Starts(p.instructions)[k - 1] /\ InSyncAt(p, k)

\* The bytes of a branch of a settled program lead to its boundary, and the
\* decoder takes them for a branch.
LEMMA SettledBranch ==
  ASSUME NEW p, Settled(p), NEW k \in 1 .. Len(p.instructions)
  PROVE  LET i == p.instructions[k]
             s == p.instructions
         IN /\ i.disp = GetDirectBranchInfo(i.encoded)
            /\ i.offset = Starts(s)[k - 1] /\ i.offset \in Nat
            /\ Valid(i) => /\ i.boundary \in 0 .. Len(s) /\ i.disp \in Int
                           /\ i.offset + i.disp = Starts(s)[i.boundary]
<1> DEFINE s == p.instructions
           n == Len(s)
           i == s[k]
<1>1. Sound(p) /\ SizeOfAll(s) < FixupLimit
  BY DEF Settled
<1>2. /\ p \in Programs /\ s \in Seq(InsnSet) /\ n \in Nat /\ DOMAIN s = 1 .. n
      /\ i \in InsnSet /\ GoodInsn(i) /\ Told(i) /\ (Valid(i) => i.boundary \in 0 .. n)
  BY <1>1, SoundParts
<1>3. n > 0 /\ k - 1 \in 0 .. n /\ n \in 0 .. n
  BY <1>2
<1>4. /\ \A b \in 0 .. n : Starts(s)[b] \in Nat
      /\ \A a, b \in 0 .. n : a < b => Starts(s)[a] < Starts(s)[b]
      /\ SizeOfAll(s) = Starts(s)[n]
  BY <1>2, StartsFacts
<1>5. i.offset = Starts(s)[k - 1] /\ i.offset \in Nat /\ InSyncAt(p, k)
  BY <1>2, <1>3, <1>4 DEF Settled
<1>6. \A b \in 0 .. n : InstructionBoundaryToProgramByteOffset(p, b) = Starts(s)[b]
  <2>1. \A j \in 1 .. n : s[j].offset = Starts(s)[j - 1]
    BY <1>2 DEF Settled
  <2> QED BY <2>1, <1>2, <1>3, OffsetIsStart
<1>7. CASE ~Valid(i)
  BY <1>2, <1>5, <1>7 DEF GoodInsn, Valid
<1>8. CASE Valid(i)
  <2> DEFINE b == i.boundary
             x == Starts(s)[b]
             o == Starts(s)[k - 1]
             z == Starts(s)[n]
  <2>1. b \in 0 .. n /\ i.disp = x - o
    BY <1>2, <1>5, <1>6, <1>8 DEF InSyncAt, TargetDisplacement
  <2>2. x \in Nat /\ o \in Nat /\ z \in Nat /\ x <= z /\ o <= z
    <3>1. x \in Nat /\ o \in Nat /\ z \in Nat
      BY <2>1, <1>3, <1>4
    <3>2. b = n \/ b < n
      BY <2>1, <1>2
    <3>3. k - 1 < n
      BY <1>2
    <3>4. o < z
      BY <3>3, <1>3, <1>4
    <3>5. x = z \/ x < z
      BY <3>2, <2>1, <1>3, <1>4
    <3> HIDE DEF x, o, z
    <3> QED BY <3>1, <3>4, <3>5
  <2>3. z < FixupLimit /\ FixupLimit \in Nat
    BY <1>1, <1>4, ProgramAssumption
  <2>4. i.disp = ExtractBranchDisplacement(i.encoded) /\ i.encoded.width > 0
    BY <1>2, <1>8 DEF Told, GoodInsn
  <2> HIDE DEF x, o, z
  <2>5. DisplacementWithinFixupLimit(i.disp)
    BY <2>1, <2>2, <2>3 DEF DisplacementWithinFixupLimit
  <2>6. i.disp = GetDirectBranchInfo(i.encoded)
    BY <2>4, <2>5 DEF GetDirectBranchInfo
  <2>7. i.disp \in Int /\ o + i.disp = x
    BY <2>1, <2>2
  <2> QED BY <2>1, <2>6, <2>7, <1>5 DEF x, o
<1> QED BY <1>7, <1>8

\* The bytes of a settled program decode to it.
LEMMA RoundTrip ==
  ASSUME NEW p, Settled(p)
  PROVE  /\ StrictlyDecodable(ToBytes(p))
         /\ ProgramFromBytes(ToBytes(p)).instructions = p.instructions
<1> DEFINE s == p.instructions
           n == Len(s)
           out == ToBytes(p)
           starts == Sums([k \in DOMAIN out |-> out[k].size])
           All == [k \in DOMAIN out |-> InstructionFromBytes(out[k], starts[k - 1])]
           d == Decoded(out)
           r == ResolveDisplacements(d)
           q == FixupInvariants(r)
<1>1. /\ p \in Programs /\ s \in Seq(InsnSet) /\ n \in Nat /\ DOMAIN s = 1 .. n
      /\ \A k \in 1 .. n : s[k] \in InsnSet /\ GoodInsn(s[k])
  <2>1. Sound(p)
    BY DEF Settled
  <2> QED BY <2>1, SoundParts
<1>2. /\ out = [k \in 1 .. n |-> s[k].encoded] /\ DOMAIN out = 1 .. n
      /\ \A k \in 1 .. n : out[k] = s[k].encoded
  BY <1>1 DEF ToBytes
<1>3. \A k \in 1 .. n : s[k].encoded \in Encodings /\ s[k].encoded.kind = "insn"
  BY <1>1, InsnParts DEF GoodInsn, Encodings
<1>4. out \in Seq(Encodings) /\ Len(out) = n
  BY <1>1, <1>2, <1>3
<1>5. starts = Starts(s)
  <2>1. [k \in DOMAIN out |-> out[k].size] = [k \in DOMAIN s |-> s[k].encoded.size]
    BY <1>1, <1>2
  <2> QED BY <2>1 DEF Starts
<1>6. ASSUME NEW k \in 1 .. n
      PROVE  /\ s[k].disp = GetDirectBranchInfo(s[k].encoded)
             /\ s[k].offset = Starts(s)[k - 1] /\ s[k].offset \in Nat
             /\ Valid(s[k]) => /\ s[k].boundary \in 0 .. n /\ s[k].disp \in Int
                               /\ s[k].offset + s[k].disp = Starts(s)[s[k].boundary]
  BY SettledBranch
<1>7. /\ d \in Programs /\ All \in Seq(InsnSet) /\ Len(All) = n
      /\ d.instructions = Accepted(All)
      /\ \A k \in 1 .. n : All[k].encoded = out[k]
  BY <1>4, DecodedFacts
<1>8. d.instructions = All
  <2>1. \A j \in 1 .. Len(All) : All[j].encoded.kind = "insn"
    BY <1>2, <1>3, <1>7
  <2> HIDE DEF All
  <2> QED BY <2>1, <1>7, AcceptedFacts
<1>9. ASSUME NEW k \in 1 .. n
      PROVE  d.instructions[k] = [encoded |-> s[k].encoded, disp |-> s[k].disp,
                                  boundary |-> kInvalid, offset |-> s[k].offset]
  <2>1. All[k] = InstructionFromBytes(out[k], starts[k - 1])
    BY <1>2
  <2>2. InstructionFromBytes(s[k].encoded, s[k].offset) =
          [encoded |-> s[k].encoded, disp |-> s[k].disp,
           boundary |-> kInvalid, offset |-> s[k].offset]
    BY <1>6 DEF InstructionFromBytes
  <2>3. out[k] = s[k].encoded /\ starts[k - 1] = s[k].offset
    BY <1>2, <1>5, <1>6
  <2> HIDE DEF out, starts, All
  <2> QED BY <2>1, <2>2, <2>3, <1>8
<1> HIDE DEF out, starts, All
<1>10. /\ d.instructions \in Seq(InsnSet) /\ Len(d.instructions) = n
       /\ DOMAIN d.instructions = 1 .. n
       /\ Boundaries(d) = 0 .. n
  BY <1>1, <1>7, <1>8 DEF Boundaries, NumInstructions
<1> HIDE DEF d
<1>11. ASSUME NEW k \in 1 .. n
       PROVE  LET i == d.instructions[k]
              IN /\ i.encoded = s[k].encoded /\ i.disp = s[k].disp
                 /\ i.boundary = kInvalid /\ i.offset = s[k].offset
  <2> DEFINE i == d.instructions[k]
  <2>1. i = [encoded |-> s[k].encoded, disp |-> s[k].disp,
             boundary |-> kInvalid, offset |-> s[k].offset]
    BY <1>9
  <2> HIDE DEF i
  <2>2. /\ i.encoded = s[k].encoded /\ i.disp = s[k].disp
        /\ i.boundary = kInvalid /\ i.offset = s[k].offset
    BY <2>1
  <2> QED BY <2>2 DEF i
<1>12. Starts(d.instructions) = Starts(s)
  <2>1. \A k \in 1 .. Len(d.instructions) : d.instructions[k].encoded.size = s[k].encoded.size
    BY <1>10, <1>11
  <2> QED BY <2>1, <1>1, <1>10, StartsSame
<1>13. ASSUME n > 0
       PROVE  \A b \in 0 .. n : InstructionBoundaryToProgramByteOffset(d, b) = Starts(s)[b]
  <2>1. \A k \in 1 .. n : d.instructions[k].offset = Starts(d.instructions)[k - 1]
    BY <1>6, <1>11, <1>12
  <2> QED BY <2>1, <1>7, <1>10, <1>12, <1>13, OffsetIsStart
<1>14. StrictlyDecodable(out)
  <2>1. \A k \in DOMAIN out : out[k].kind = "insn"
    BY <1>2, <1>3
  <2>2. ASSUME NEW k \in DOMAIN d.instructions, Valid(d.instructions[k])
        PROVE  \E b \in Boundaries(d) :
                 InstructionBoundaryToProgramByteOffset(d, b)
                   = d.instructions[k].offset + d.instructions[k].disp
    <3>1. k \in 1 .. n /\ n > 0
      BY <1>1, <1>10
    <3>2. Valid(s[k])
      BY <3>1, <2>2, <1>11 DEF Valid
    <3>3. /\ s[k].boundary \in 0 .. n
          /\ s[k].offset + s[k].disp = Starts(s)[s[k].boundary]
      BY <3>1, <3>2, <1>6
    <3>4. d.instructions[k].offset + d.instructions[k].disp = s[k].offset + s[k].disp
      BY <3>1, <1>11
    <3>5. InstructionBoundaryToProgramByteOffset(d, s[k].boundary)
            = d.instructions[k].offset + d.instructions[k].disp
      BY <3>1, <3>3, <3>4, <1>13
    <3> QED BY <3>3, <3>5, <1>10
  <2> QED BY <2>1, <2>2 DEF StrictlyDecodable, d
<1>15. /\ r \in Programs /\ Len(r.instructions) = n
       /\ \A k \in 1 .. n : r.instructions[k] =
            LET i == d.instructions[k]
            IN IF Valid(i) /\ i.boundary = kInvalid
               THEN [i EXCEPT !.boundary =
                       FindClosestInstructionBoundary(d, i.offset + i.disp)]
               ELSE i
  BY <1>7, <1>10, ResolveShape
<1> HIDE DEF r
<1>16. ASSUME NEW k \in 1 .. n PROVE r.instructions[k] = s[k]
  <2> DEFINE i == d.instructions[k]
  <2>1. s[k] = [encoded |-> s[k].encoded, disp |-> s[k].disp,
                boundary |-> s[k].boundary, offset |-> s[k].offset]
    BY <1>1 DEF InsnSet
  <2>2. CASE ~Valid(s[k])
    <3>1. ~Valid(i)
      BY <2>2, <1>11 DEF Valid
    <3>2. s[k].boundary = kInvalid
      BY <2>2, <1>1 DEF GoodInsn
    <3>3. r.instructions[k] = i
      BY <3>1, <1>15
    <3> QED BY <3>2, <3>3, <2>1, <1>9
  <2>3. CASE Valid(s[k])
    <3> DEFINE x == i.offset + i.disp
               b == FindClosestInstructionBoundary(d, x)
               t == s[k].boundary
    <3>1. Valid(i) /\ i.boundary = kInvalid
      BY <2>3, <1>11 DEF Valid
    <3>2. r.instructions[k] = [i EXCEPT !.boundary = b]
      BY <3>1, <1>15
    <3>3. x \in Int /\ x = Starts(s)[t] /\ t \in 0 .. n /\ n > 0
      BY <2>3, <1>1, <1>6, <1>11, SMTT(30)
    <3>4. /\ b \in 0 .. n
          /\ Distance(d, b, x) < Distance(d, t, x) \/ Distance(d, b, x) = Distance(d, t, x)
      BY <3>3, <1>7, <1>10, ClosestIs
    <3> HIDE DEF b, x, t
    <3>5. /\ \A c \in 0 .. n : Starts(s)[c] \in Nat
          /\ \A c, e \in 0 .. n : c < e => Starts(s)[c] < Starts(s)[e]
      BY <1>1, StartsFacts
    <3>6. Distance(d, t, x) = 0
      BY <3>3, <3>5, <1>13 DEF Distance
    <3>7. /\ Starts(s)[b] \in Nat
          /\ Distance(d, b, x) = IF Starts(s)[b] - x >= 0 THEN Starts(s)[b] - x
                                 ELSE -(Starts(s)[b] - x)
      BY <3>3, <3>4, <3>5, <1>13 DEF Distance
    <3>8. Starts(s)[b] = x
      BY <3>3, <3>4, <3>6, <3>7
    <3>9. ~(b < t) /\ ~(t < b)
      BY <3>3, <3>4, <3>5, <3>8
    <3>10. b = t
      BY <3>3, <3>4, <3>9
    <3>11. [i EXCEPT !.boundary = t] =
             [encoded |-> s[k].encoded, disp |-> s[k].disp,
              boundary |-> t, offset |-> s[k].offset]
      <4>1. i = [encoded |-> s[k].encoded, disp |-> s[k].disp,
                 boundary |-> kInvalid, offset |-> s[k].offset]
        BY <1>9
      <4> HIDE DEF i
      <4> QED BY <4>1
    <3> QED BY <3>2, <3>10, <3>11, <2>1 DEF t
  <2> QED BY <2>2, <2>3
<1>17. r.instructions = s
  <2>1. r.instructions \in Seq(InsnSet)
    BY <1>15 DEF Programs
  <2> QED BY <2>1, <1>1, <1>15, <1>16, SameSeq
<1>18. /\ q \in Programs /\ Len(q.instructions) = n
       /\ \A k \in 1 .. n : q.instructions[k] =
            [r.instructions[k] EXCEPT !.offset = Starts(r.instructions)[k - 1]]
  BY <1>15, FixupShape
<1> HIDE DEF q
<1>19. ASSUME NEW k \in 1 .. n PROVE q.instructions[k] = s[k]
  <2>1. q.instructions[k] = [s[k] EXCEPT !.offset = s[k].offset]
    BY <1>6, <1>17, <1>18
  <2> QED BY <2>1, <1>1 DEF InsnSet
<1>20. q.instructions = s
  <2>1. q.instructions \in Seq(InsnSet)
    BY <1>18 DEF Programs
  <2> QED BY <2>1, <1>1, <1>18, <1>19, SameSeq
<1> QED BY <1>14, <1>20 DEF out, d, r, q, ProgramFromBytes

\* The invariant implies that mutants decode to what was meant.
LEMMA InvDecodes == MutatorInv => OutputDecodes
<1> SUFFICES ASSUME MutatorInv, stage = "done"
             PROVE  /\ SizeOfAll(program.instructions) <= MaxLen[arch]
                    /\ StrictlyDecodable(output)
                    /\ ProgramFromBytes(output).instructions = program.instructions
  BY DEF OutputDecodes
<1>1. Sound(program)
  BY DEF MutatorInv, ProgramInv, Fixing
<1>2. /\ output = ToBytes(program) /\ SizeOfAll(program.instructions) <= MaxLen[arch]
      /\ \A k \in DOMAIN program.instructions :
           /\ program.instructions[k].offset = Starts(program.instructions)[k - 1]
           /\ InSyncAt(program, k)
  BY DEF MutatorInv, SettledInv
<1>3. MaxLen[arch] \in Nat /\ MaxLen[arch] < FixupLimit /\ FixupLimit \in Nat
  BY MutatorAssumption, ProgramAssumption DEF MutatorInv, MutatorTypeOK
<1>4. SizeOfAll(program.instructions) \in Nat
  <2>1. program.instructions \in Seq(InsnSet)
    BY <1>1, SoundParts
  <2> QED BY <2>1, StartsFacts
<1>5. SizeOfAll(program.instructions) < FixupLimit
  BY <1>2, <1>3, <1>4
<1>6. Settled(program)
  BY <1>1, <1>2, <1>5 DEF Settled
<1> QED BY <1>2, <1>6, RoundTrip

\* What follows a boundary.
LEMMA SuffixIs ==
  ASSUME NEW p \in Programs, NEW n, n = Len(p.instructions), NEW b \in 0 .. n
  PROVE  /\ Suffix(p, b) \in Seq(Shapes) /\ Len(Suffix(p, b)) = n - b /\ n - b \in Nat
         /\ \A k \in 1 .. n - b : Suffix(p, b)[k] = p.instructions[b + k].encoded
<1> DEFINE s == p.instructions
<1>1. s \in Seq(InsnSet) /\ n \in Nat /\ NumInstructions(p) = n /\ n - b \in Nat
  BY DEF Programs, NumInstructions
<1>2. Suffix(p, b) = [k \in 1 .. n - b |-> s[b + k].encoded]
  BY <1>1 DEF Suffix
<1>3. ASSUME NEW k \in 1 .. n - b PROVE s[b + k].encoded \in Shapes
  <2>1. b + k \in 1 .. n
    BY <1>1
  <2>2. s[b + k] \in InsnSet
    BY <2>1, <1>1
  <2> QED BY <2>2, InsnParts
<1> DEFINE m == n - b
           F(k) == s[b + k].encoded
<1>4. m \in Nat /\ \A k \in 1 .. m : F(k) \in Shapes
  BY <1>1, <1>3
<1>5. Suffix(p, b) = [k \in 1 .. m |-> F(k)]
  BY <1>2
<1> HIDE DEF m, F
<1>6. Suffix(p, b) \in Seq(Shapes) /\ Len(Suffix(p, b)) = m
      /\ \A k \in 1 .. m : Suffix(p, b)[k] = F(k)
  BY <1>4, <1>5
<1> QED BY <1>1, <1>6 DEF m, F

\* A sequence without one of its elements.
LEMMA RemovedIs ==
  ASSUME NEW S, NEW s \in Seq(S), NEW n, Len(s) = n, NEW x \in 1 .. n
  PROVE  /\ RemoveAt(s, x) \in Seq(S) /\ Len(RemoveAt(s, x)) = n - 1
         /\ \A j \in 1 .. n - 1 : RemoveAt(s, x)[j] = IF j >= x THEN s[j + 1] ELSE s[j]
<1> DEFINE a == SubSeq(s, 1, x - 1)
           b == SubSeq(s, x + 1, n)
<1>0. n \in Nat /\ x - 1 \in 0 .. n /\ n - x \in Nat
  OBVIOUS
<1>1. a \in Seq(S) /\ Len(a) = x - 1 /\ \A k \in 1 .. x - 1 : a[k] = s[k]
  BY <1>0, Sub
<1>2. b \in Seq(S) /\ Len(b) = n - x /\ \A k \in 1 .. n - x : b[k] = s[x + k]
  <2>1. x \in 0 .. n
    BY <1>0
  <2> QED BY <2>1, TailOf
<1>3. RemoveAt(s, x) = a \o b
  BY DEF RemoveAt
<1> HIDE DEF a, b
<1>4. /\ a \o b \in Seq(S) /\ Len(a \o b) = (x - 1) + (n - x)
      /\ \A m \in 1 .. x - 1 : (a \o b)[m] = a[m]
      /\ \A m \in 1 .. n - x : (a \o b)[(x - 1) + m] = b[m]
  <2> DEFINE y == x - 1
             z == n - x
  <2>1. a \in Seq(S) /\ b \in Seq(S) /\ Len(a) = y /\ Len(b) = z
    BY <1>1, <1>2
  <2> HIDE DEF y, z
  <2>2. /\ a \o b \in Seq(S) /\ Len(a \o b) = y + z
        /\ \A m \in 1 .. y : (a \o b)[m] = a[m]
        /\ \A m \in 1 .. z : (a \o b)[y + m] = b[m]
    BY <2>1, CatOf
  <2> QED BY <2>2 DEF y, z
<1>5. ASSUME NEW j \in 1 .. n - 1
      PROVE  (a \o b)[j] = IF j >= x THEN s[j + 1] ELSE s[j]
  <2>1. CASE j >= x
    <3> DEFINE m == j - (x - 1)
    <3>1. m \in 1 .. n - x /\ (x - 1) + m = j /\ x + m = j + 1
      BY <2>1, <1>0
    <3> HIDE DEF m
    <3> QED BY <3>1, <2>1, <1>2, <1>4
  <2>2. CASE ~(j >= x)
    <3>1. j \in 1 .. x - 1
      BY <2>2, <1>0
    <3> QED BY <3>1, <2>2, <1>1, <1>4
  <2> QED BY <2>1, <2>2
<1>6. (x - 1) + (n - x) = n - 1
  BY <1>0
<1> QED BY <1>3, <1>4, <1>5, <1>6

IsInsertion(r, s, n, x, e) ==
  \A j \in 1 .. n + 1 :
    /\ j > x => r[j] = s[j - 1]
    /\ j = x => r[j] = e
    /\ j < x => r[j] = s[j]

\* A sequence with an element put in.
LEMMA InsertedIs ==
  ASSUME NEW S, NEW s \in Seq(S), NEW n, Len(s) = n, NEW x \in 1 .. n + 1, NEW e \in S
  PROVE  /\ InsertAt(s, x, e) \in Seq(S) /\ Len(InsertAt(s, x, e)) = n + 1
         /\ IsInsertion(InsertAt(s, x, e), s, n, x, e)
<1> DEFINE a == SubSeq(s, 1, x - 1)
           o == <<e>>
           y == x - 1
           b == SubSeq(s, y + 1, n)
<1>0. n \in Nat /\ y \in 0 .. n /\ x = y + 1 /\ n - y \in Nat
  OBVIOUS
<1>1. a \in Seq(S) /\ Len(a) = y /\ \A k \in 1 .. y : a[k] = s[k]
  BY <1>0, Sub
<1>2. b \in Seq(S) /\ Len(b) = n - y /\ \A k \in 1 .. n - y : b[k] = s[y + k]
  <2> HIDE DEF y
  <2> QED BY <1>0, TailOf
<1>3. o \in Seq(S) /\ Len(o) = 1 /\ o[1] = e
  OBVIOUS
<1>4. InsertAt(s, x, e) = (a \o o) \o b
  <2>1. b = SubSeq(s, x, n)
    BY <1>0
  <2> HIDE DEF b
  <2> QED BY <2>1 DEF InsertAt
<1> HIDE DEF a, b, o, y
<1>5. /\ a \o o \in Seq(S) /\ Len(a \o o) = y + 1
      /\ \A m \in 1 .. y : (a \o o)[m] = a[m]
      /\ \A m \in 1 .. 1 : (a \o o)[y + m] = o[m]
  <2> DEFINE z == 1
  <2>1. a \in Seq(S) /\ o \in Seq(S) /\ Len(a) = y /\ Len(o) = z
    BY <1>1, <1>3
  <2> HIDE DEF z
  <2>2. /\ a \o o \in Seq(S) /\ Len(a \o o) = y + z
        /\ \A m \in 1 .. y : (a \o o)[m] = a[m]
        /\ \A m \in 1 .. z : (a \o o)[y + m] = o[m]
    BY <2>1, CatOf
  <2> QED BY <2>2 DEF z
<1> DEFINE c == a \o o
<1> HIDE DEF c
<1>6. /\ c \o b \in Seq(S) /\ Len(c \o b) = (y + 1) + (n - y)
      /\ \A m \in 1 .. y + 1 : (c \o b)[m] = c[m]
      /\ \A m \in 1 .. n - y : (c \o b)[(y + 1) + m] = b[m]
  <2> DEFINE v == y + 1
             z == n - y
  <2>1. c \in Seq(S) /\ b \in Seq(S) /\ Len(c) = v /\ Len(b) = z
    BY <1>2, <1>5 DEF c
  <2> HIDE DEF v, z
  <2>2. /\ c \o b \in Seq(S) /\ Len(c \o b) = v + z
        /\ \A m \in 1 .. v : (c \o b)[m] = c[m]
        /\ \A m \in 1 .. z : (c \o b)[v + m] = b[m]
    BY <2>1, CatOf
  <2> QED BY <2>2 DEF v, z
<1>7. ASSUME NEW j \in 1 .. n + 1
      PROVE  /\ j > x => (c \o b)[j] = s[j - 1]
             /\ j = x => (c \o b)[j] = e
             /\ j < x => (c \o b)[j] = s[j]
  <2>1. ASSUME j > x PROVE (c \o b)[j] = s[j - 1]
    <3> DEFINE m == j - (y + 1)
    <3>1. m \in 1 .. n - y /\ (y + 1) + m = j /\ y + m = j - 1
      BY <2>1, <1>0
    <3> HIDE DEF m
    <3> QED BY <3>1, <2>1, <1>2, <1>6
  <2>2. ASSUME j = x PROVE (c \o b)[j] = e
    <3>1. j \in 1 .. y + 1 /\ j = y + 1 /\ 1 \in 1 .. 1 /\ ~(j > x)
      BY <2>2, <1>0
    <3>2. c[j] = o[1]
      BY <3>1, <1>5 DEF c
    <3> QED BY <3>1, <3>2, <2>2, <1>3, <1>6
  <2>3. ASSUME j < x PROVE (c \o b)[j] = s[j]
    <3>1. j \in 1 .. y /\ j \in 1 .. y + 1 /\ ~(j > x) /\ j # x
      BY <2>3, <1>0
    <3>2. c[j] = a[j]
      BY <3>1, <1>5 DEF c
    <3> QED BY <3>1, <3>2, <1>1, <1>6
  <2> QED BY <2>1, <2>2, <2>3
<1>8. (y + 1) + (n - y) = n + 1
  BY <1>0
<1>9. IsInsertion(c \o b, s, n, x, e)
  BY <1>7 DEF IsInsertion
<1> QED BY <1>4, <1>6, <1>8, <1>9 DEF c

\* Deletion and the branches.
LEMMA RemoveKeeps ==
  ASSUME NEW p, Sound(p), NEW k \in 1 .. Len(p.instructions), Valid(p.instructions[k]),
         NEW x \in 0 .. Len(p.instructions) - 1, k # x + 1
  PROVE  LET t == p.instructions[k].boundary
             q == RemoveInstruction(p, x)
             moved == q.instructions[IF k > x + 1 THEN k - 1 ELSE k]
         IN Suffix(q, moved.boundary) =
              IF x < t THEN Suffix(p, t) ELSE RemoveAt(Suffix(p, t), (x - t) + 1)
<1> DEFINE s == p.instructions
           n == Len(s)
           i == s[k]
           t == i.boundary
           q == RemoveInstruction(p, x)
           u == q.instructions
           K == IF k > x + 1 THEN k - 1 ELSE k
           moved == u[K]
<1>1. p \in Programs /\ n \in Nat /\ WellFormed(p) /\ t \in 0 .. n /\ n = Len(p.instructions)
  BY SoundParts DEF Sound
<1>2. /\ q \in Programs /\ Len(u) = n - 1
      /\ \A j \in 1 .. (n - 1) :
           LET c == s[IF j > x THEN j + 1 ELSE j]
           IN /\ Like(u[j], c)
              /\ u[j].boundary = IF Valid(c) /\ c.boundary >= x + 1
                                 THEN c.boundary - 1 ELSE c.boundary
  BY <1>1, RemoveShape
<1> HIDE DEF q
<1>3. \A j \in 1 .. (n - 1) : u[j].encoded = s[IF j > x THEN j + 1 ELSE j].encoded
  BY <1>2 DEF Like
<1>4. moved.boundary = IF t >= x + 1 THEN t - 1 ELSE t
  <2>1. K \in 1 .. (n - 1) /\ (IF K > x THEN K + 1 ELSE K) = k
    BY <1>1
  <2> HIDE DEF K
  <2> QED BY <2>1, <1>2
<1>5. /\ n - 1 = Len(q.instructions) /\ u = q.instructions /\ s = p.instructions
      /\ k \in 1 .. n /\ x \in 0 .. n - 1
  BY <1>2
<1> HIDE DEF K, moved, u, s, n, t
<1>6. CASE x < t
  <2>1. moved.boundary = t - 1 /\ t - 1 \in 0 .. n - 1
    BY <1>1, <1>4, <1>6
  <2> DEFINE A == Suffix(q, t - 1)
             B == Suffix(p, t)
  <2>2. /\ A \in Seq(Shapes) /\ Len(A) = (n - 1) - (t - 1)
        /\ \A j \in 1 .. (n - 1) - (t - 1) : A[j] = u[(t - 1) + j].encoded
    <3> DEFINE n1 == n - 1
               t1 == t - 1
    <3>1. q \in Programs /\ n1 = Len(q.instructions) /\ t1 \in 0 .. n1
      BY <2>1, <1>2, <1>5
    <3> HIDE DEF n1, t1
    <3>2. /\ Suffix(q, t1) \in Seq(Shapes) /\ Len(Suffix(q, t1)) = n1 - t1
          /\ \A j \in 1 .. n1 - t1 : Suffix(q, t1)[j] = q.instructions[t1 + j].encoded
      BY <3>1, SuffixIs
    <3> QED BY <3>2, <1>5 DEF n1, t1
  <2>3. /\ B \in Seq(Shapes) /\ Len(B) = n - t
        /\ \A j \in 1 .. n - t : B[j] = s[t + j].encoded
    BY <1>1, <1>5, SuffixIs
  <2> HIDE DEF A, B
  <2>4. (n - 1) - (t - 1) = n - t
    BY <1>1
  <2>5. ASSUME NEW j \in 1 .. n - t PROVE A[j] = B[j]
    <3> DEFINE m == (t - 1) + j
    <3>1. m \in 1 .. (n - 1) /\ m > x /\ m + 1 = t + j
      BY <1>1, <1>5, <1>6
    <3>2. A[j] = u[m].encoded
      BY <2>2, <2>4
    <3> HIDE DEF m
    <3>3. u[m].encoded = s[t + j].encoded
      BY <3>1, <1>3
    <3> QED BY <3>2, <3>3, <2>3
  <2>6. A = B
    BY <2>2, <2>3, <2>4, <2>5, SameSeq
  <2> QED BY <2>1, <2>6, <1>6 DEF A, B, moved, s, u, K, q, t, n
<1>7. CASE ~(x < t)
  <2>1. moved.boundary = t /\ t \in 0 .. n - 1
    BY <1>1, <1>4, <1>7
  <2> DEFINE A == Suffix(q, t)
             B == Suffix(p, t)
             y == (x - t) + 1
             C == RemoveAt(B, y)
             l == n - t
  <2>2. /\ A \in Seq(Shapes) /\ Len(A) = (n - 1) - t
        /\ \A j \in 1 .. (n - 1) - t : A[j] = u[t + j].encoded
    <3> DEFINE n1 == n - 1
    <3>1. q \in Programs /\ n1 = Len(q.instructions) /\ t \in 0 .. n1
      BY <2>1, <1>2, <1>5
    <3> HIDE DEF n1
    <3>2. /\ Suffix(q, t) \in Seq(Shapes) /\ Len(Suffix(q, t)) = n1 - t
          /\ \A j \in 1 .. n1 - t : Suffix(q, t)[j] = q.instructions[t + j].encoded
      BY <3>1, SuffixIs
    <3> QED BY <3>2, <1>5 DEF n1
  <2>3. /\ B \in Seq(Shapes) /\ Len(B) = l /\ \A j \in 1 .. l : B[j] = s[t + j].encoded
    BY <1>1, <1>5, SuffixIs
  <2> HIDE DEF A, B
  <2>4. (n - 1) - t = l - 1 /\ y \in 1 .. l
    BY <1>1, <1>5, <1>7, <2>1, SMTT(30)
  <2>5. /\ C \in Seq(Shapes) /\ Len(C) = l - 1
        /\ \A j \in 1 .. l - 1 : C[j] = IF j >= y THEN B[j + 1] ELSE B[j]
    <3>1. B \in Seq(Shapes) /\ Len(B) = l /\ y \in 1 .. l
      BY <2>3, <2>4
    <3> HIDE DEF y, l
    <3> QED BY <3>1, RemovedIs
  <2> HIDE DEF C
  <2>6. ASSUME NEW j \in 1 .. l - 1 PROVE A[j] = C[j]
    <3> DEFINE m == t + j
    <3>1. /\ m \in 1 .. (n - 1) /\ (m > x <=> j >= y) /\ m + 1 = t + (j + 1)
          /\ j + 1 \in 1 .. l /\ j \in 1 .. l
      <4>1. n \in Int /\ t \in Int /\ x \in Int /\ j \in Int /\ 1 <= j /\ j <= (n - t) - 1
            /\ 0 <= t /\ t <= n - 1
        BY <1>1, <1>5, <2>1
      <4> QED BY <4>1
    <3>2. A[j] = u[m].encoded
      BY <2>2, <2>4
    <3>3. u[m].encoded = s[IF m > x THEN m + 1 ELSE m].encoded
      <4> HIDE DEF m
      <4> QED BY <3>1, <1>3
    <3>4. CASE j >= y
      <4>1. C[j] = B[j + 1] /\ B[j + 1] = s[t + (j + 1)].encoded
        BY <3>1, <3>4, <2>3, <2>5
      <4>2. u[m].encoded = s[m + 1].encoded
        BY <3>1, <3>3, <3>4
      <4> HIDE DEF m
      <4> QED BY <4>1, <4>2, <3>1, <3>2
    <3>5. CASE ~(j >= y)
      <4>1. C[j] = B[j] /\ B[j] = s[m].encoded
        BY <3>1, <3>5, <2>3, <2>5
      <4>2. u[m].encoded = s[m].encoded
        BY <3>1, <3>3, <3>5
      <4> QED BY <4>1, <4>2, <3>2
    <3> QED BY <3>4, <3>5
  <2>7. A = C
    BY <2>2, <2>4, <2>5, <2>6, SameSeq
  <2> QED BY <2>1, <2>7, <1>7 DEF A, B, C, moved, s, u, K, q, t, n
<1> QED BY <1>6, <1>7

\* Insertion and the branches.
LEMMA InsertKeeps ==
  ASSUME NEW p, Sound(p), NEW k \in 1 .. Len(p.instructions), Valid(p.instructions[k]),
         NEW b \in Boundaries(p), NEW steal \in BOOLEAN
  PROVE  LET i == p.instructions[k]
             t == i.boundary
             block == <<[i EXCEPT !.disp = kInvalid, !.boundary = kInvalid]>>
             q == InsertInstructionBlock(p, b, steal, block)
             moved == q.instructions[IF k > b THEN k + 1 ELSE k]
         IN Suffix(q, moved.boundary) =
              IF b < t \/ (b = t /\ ~steal) THEN Suffix(p, t)
              ELSE InsertAt(Suffix(p, t), (b - t) + 1, i.encoded)
<1> DEFINE s == p.instructions
           n == Len(s)
           i == s[k]
           t == i.boundary
           one == [i EXCEPT !.disp = kInvalid, !.boundary = kInvalid]
           block == <<one>>
           c == IF steal THEN b + 1 ELSE b
           q == InsertInstructionBlock(p, b, steal, block)
           u == q.instructions
           K == IF k > b THEN k + 1 ELSE k
           moved == u[K]
<1>1. /\ p \in Programs /\ n \in Nat /\ WellFormed(p) /\ t \in 0 .. n /\ n = Len(p.instructions)
      /\ i \in InsnSet /\ b \in 0 .. n /\ s \in Seq(InsnSet)
  BY SoundParts DEF Sound
<1>2. one \in InsnSet /\ one.encoded = i.encoded
  BY <1>1 DEF InsnSet
<1>3. block \in Seq(InsnSet) /\ Len(block) = 1 /\ block[1] = one
  <2> HIDE DEF one
  <2> QED BY <1>2
<1>4. c \in Int /\ q = InsertMoving(p, b, c, block)
  BY <1>1 DEF InsertInstructionBlock
<1> HIDE DEF q, block, one, c
<1>5. /\ q \in Programs /\ Len(u) = n + 1
      /\ \A j \in 1 .. n :
           LET a == s[j]
               r == u[IF j > b THEN j + 1 ELSE j]
           IN /\ Like(r, a)
              /\ r.boundary = IF Valid(a) /\ a.boundary >= c THEN a.boundary + 1
                              ELSE a.boundary
      /\ Like(u[b + 1], one)
  <2> DEFINE w == InsertMoving(p, b, c, block)
             m == Len(block)
  <2>1. /\ w \in Programs /\ Len(w.instructions) = n + m
        /\ \A j \in 1 .. n :
             LET a == s[j]
                 r == w.instructions[IF j > b THEN j + m ELSE j]
             IN /\ Like(r, a)
                /\ r.boundary = IF Valid(a) /\ a.boundary >= c THEN a.boundary + m
                                ELSE a.boundary
        /\ \A j \in 1 .. m : Like(w.instructions[b + j], block[j])
    BY <1>1, <1>3, <1>4, InsertShape
  <2>2. w = q /\ m = 1 /\ block[1] = one /\ 1 \in 1 .. m
    BY <1>3, <1>4
  <2> HIDE DEF w, m
  <2> QED BY <2>1, <2>2
<1>6. moved.boundary = IF t >= c THEN t + 1 ELSE t
  BY <1>5
<1>7. (t >= c) <=> (b < t \/ (b = t /\ ~steal))
  BY <1>1 DEF c
<1>8. ASSUME NEW j \in 1 .. n + 1
      PROVE  u[j].encoded = IF j > b + 1 THEN s[j - 1].encoded
                            ELSE IF j = b + 1 THEN i.encoded ELSE s[j].encoded
  <2>1. CASE j > b + 1
    <3> DEFINE m == j - 1
    <3>1. m \in 1 .. n /\ m > b /\ m + 1 = j
      BY <2>1, <1>1
    <3> HIDE DEF m
    <3>2. Like(u[m + 1], s[m])
      BY <3>1, <1>5
    <3> QED BY <3>1, <3>2, <2>1 DEF Like, m
  <2>2. CASE j = b + 1
    <3>1. ~(j > b + 1)
      BY <2>2, <1>1
    <3> QED BY <3>1, <2>2, <1>2, <1>5 DEF Like
  <2>3. CASE j < b + 1
    <3>1. j \in 1 .. n /\ ~(j > b) /\ ~(j > b + 1) /\ j # b + 1
      BY <2>3, <1>1
    <3>2. Like(u[j], s[j])
      BY <3>1, <1>5
    <3> QED BY <3>1, <3>2 DEF Like
  <2>4. j > b + 1 \/ j = b + 1 \/ j < b + 1
    BY <1>1
  <2> QED BY <2>1, <2>2, <2>3, <2>4
<1>9. /\ q \in Programs /\ n + 1 = Len(q.instructions) /\ u = q.instructions
      /\ s = p.instructions /\ i.encoded \in Shapes
  BY <1>1, <1>5, InsnParts
<1> DEFINE e == i.encoded
           B == Suffix(p, t)
           l == n - t
<1> HIDE DEF K, moved, u, s, n, t, e
<1>10. /\ B \in Seq(Shapes) /\ Len(B) = l /\ l \in Nat
       /\ \A j \in 1 .. l : B[j] = s[t + j].encoded
  <2>1. p \in Programs /\ n = Len(p.instructions) /\ t \in 0 .. n
    BY <1>1, <1>9
  <2>2. /\ Suffix(p, t) \in Seq(Shapes) /\ Len(Suffix(p, t)) = n - t /\ n - t \in Nat
        /\ \A j \in 1 .. n - t : Suffix(p, t)[j] = p.instructions[t + j].encoded
    BY <2>1, SuffixIs
  <2> QED BY <2>2, <1>9
<1>11. CASE t >= c
  <2> DEFINE t1 == t + 1
             n1 == n + 1
             A == Suffix(q, t1)
  <2>1. moved.boundary = t1
    BY <1>6, <1>11
  <2>2. q \in Programs /\ n1 = Len(q.instructions) /\ t1 \in 0 .. n1 /\ n1 - t1 = l
    BY <1>1, <1>9
  <2>3. b <= t
    BY <1>1, <1>7, <1>11
  <2> HIDE DEF B
  <2>4. /\ A \in Seq(Shapes) /\ Len(A) = n1 - t1
        /\ \A j \in 1 .. n1 - t1 : A[j] = q.instructions[t1 + j].encoded
    <3>1. q \in Programs /\ n1 = Len(q.instructions) /\ t1 \in 0 .. n1
      BY <2>2
    <3> HIDE DEF t1, n1
    <3> QED BY <3>1, SuffixIs
  <2> HIDE DEF A
  <2>5. ASSUME NEW j \in 1 .. l PROVE A[j] = B[j]
    <3> DEFINE m == t1 + j
    <3>1. m \in 1 .. n + 1 /\ m > b + 1 /\ m - 1 = t + j
      <4>1. n \in Int /\ t \in Int /\ b \in Int /\ j \in Int /\ 1 <= j /\ j <= n - t /\ 0 <= t
        BY <1>1
      <4> QED BY <4>1, <2>3
    <3>2. A[j] = u[m].encoded
      BY <2>2, <2>4, <1>9
    <3> HIDE DEF m
    <3>3. u[m].encoded = s[t + j].encoded
      BY <3>1, <1>8
    <3> QED BY <3>2, <3>3, <1>10
  <2>6. A = B
    <3>1. A \in Seq(Shapes) /\ B \in Seq(Shapes) /\ Len(A) = l /\ Len(B) = l
      BY <2>2, <2>4, <1>10
    <3> HIDE DEF l
    <3> QED BY <3>1, <2>5, SameSeq
  <2> QED BY <2>1, <2>6, <1>7, <1>11 DEF A, B, moved, s, u, K, q, t, n, block, one
<1>12. CASE ~(t >= c)
  <2> DEFINE n1 == n + 1
             A == Suffix(q, t)
             y == (b - t) + 1
             C == InsertAt(B, y, e)
  <2>1. moved.boundary = t
    BY <1>6, <1>12
  <2>2. q \in Programs /\ n1 = Len(q.instructions) /\ t \in 0 .. n1 /\ n1 - t = l + 1
    BY <1>1, <1>9
  <2>3. t <= b /\ y \in 1 .. l + 1
    <3>1. t <= b
      BY <1>1, <1>7, <1>12
    <3> QED BY <3>1, <1>1
  <2> HIDE DEF B
  <2>4. /\ A \in Seq(Shapes) /\ Len(A) = n1 - t
        /\ \A j \in 1 .. n1 - t : A[j] = q.instructions[t + j].encoded
    <3>1. q \in Programs /\ n1 = Len(q.instructions) /\ t \in 0 .. n1
      BY <2>2
    <3> HIDE DEF n1
    <3> QED BY <3>1, SuffixIs
  <2> HIDE DEF A
  <2>5. /\ C \in Seq(Shapes) /\ Len(C) = l + 1
        /\ \A j \in 1 .. l + 1 :
             /\ j > y => C[j] = B[j - 1]
             /\ j = y => C[j] = e
             /\ j < y => C[j] = B[j]
    <3>1. B \in Seq(Shapes) /\ Len(B) = l /\ y \in 1 .. l + 1 /\ e \in Shapes
      BY <2>3, <1>9, <1>10 DEF e
    <3> HIDE DEF y, l
    <3>2. C \in Seq(Shapes) /\ Len(C) = l + 1 /\ IsInsertion(C, B, l, y, e)
      BY <3>1, InsertedIs
    <3> HIDE DEF C
    <3> QED BY <3>2 DEF IsInsertion
  <2> HIDE DEF C
  <2>6. ASSUME NEW j \in 1 .. l + 1 PROVE A[j] = C[j]
    <3> DEFINE m == t + j
    <3>1. /\ m \in 1 .. n + 1 /\ (m > b + 1 <=> j > y) /\ (m = b + 1 <=> j = y)
          /\ m - 1 = t + (j - 1)
          /\ j > y => j - 1 \in 1 .. l
          /\ j < y => j \in 1 .. l
          /\ j > y \/ j = y \/ j < y
      <4>1. /\ n \in Int /\ t \in Int /\ b \in Int /\ j \in Int /\ 1 <= j /\ j <= (n - t) + 1
            /\ 0 <= t /\ b <= n
        BY <1>1
      <4> QED BY <4>1, <2>3
    <3>2. A[j] = u[m].encoded
      BY <2>2, <2>4, <1>9
    <3>3. u[m].encoded = IF m > b + 1 THEN s[m - 1].encoded
                         ELSE IF m = b + 1 THEN e ELSE s[m].encoded
      <4> HIDE DEF m
      <4> QED BY <3>1, <1>8 DEF e
    <3>4. CASE j > y
      <4>1. C[j] = B[j - 1] /\ B[j - 1] = s[t + (j - 1)].encoded
        BY <3>1, <3>4, <1>10, <2>5
      <4>2. u[m].encoded = s[m - 1].encoded
        BY <3>1, <3>3, <3>4
      <4>3. m - 1 = t + (j - 1)
        BY <3>1
      <4> HIDE DEF m
      <4> QED BY <4>1, <4>2, <4>3, <3>2
    <3>5. CASE j = y
      <4>1. C[j] = e
        BY <3>5, <2>3, <2>5
      <4>2. u[m].encoded = e
        BY <3>1, <3>3, <3>5
      <4> QED BY <4>1, <4>2, <3>2
    <3>6. CASE j < y
      <4>1. ~(j > y) /\ j # y
        BY <3>6, <2>3
      <4>2. C[j] = B[j] /\ B[j] = s[m].encoded
        BY <4>1, <3>1, <3>6, <1>10, <2>5
      <4>3. u[m].encoded = s[m].encoded
        BY <4>1, <3>1, <3>3
      <4> QED BY <4>2, <4>3, <3>2
    <3> QED BY <3>1, <3>4, <3>5, <3>6
  <2>7. A = C
    <3>1. A \in Seq(Shapes) /\ C \in Seq(Shapes) /\ Len(A) = l + 1 /\ Len(C) = l + 1
      BY <2>2, <2>4, <2>5
    <3> HIDE DEF l
    <3> QED BY <3>1, <2>6, SameSeq
  <2> QED BY <2>1, <2>7, <1>7, <1>12 DEF A, B, C, e, moved, s, u, K, q, t, n, block, one
<1> QED BY <1>11, <1>12

\* The invariant implies that branches keep their targets.
LEMMA InvTargets == MutatorInv => BranchTargetsKept
<1> SUFFICES ASSUME MutatorInv PROVE BranchTargetsKept
  OBVIOUS
<1>1. stage = "randomize" => ~ReencodeSucceeds(Synced(Moved.boundary))
  BY DEF MutatorInv, RandomizeInv
<1>2. ASSUME stage = "edit" PROVE Sound(program)
  BY <1>2 DEF MutatorInv, ProgramInv, Fixing
<1>3. EditsKeepTargets
  <2> SUFFICES ASSUME stage = "edit" PROVE EditsKeepTargets
    BY DEF EditsKeepTargets
  <2>1. /\ Sound(program) /\ DOMAIN program.instructions = 1 .. Len(program.instructions)
        /\ NumInstructions(program) = Len(program.instructions)
    BY <1>2, SoundParts
  <2> SUFFICES ASSUME NEW k \in 1 .. Len(program.instructions),
                      Valid(program.instructions[k])
               PROVE  LET insn == program.instructions[k]
                          t == insn.boundary
                          block == <<[insn EXCEPT !.disp = kInvalid, !.boundary = kInvalid]>>
                      IN /\ \A x \in 0 .. Len(program.instructions) - 1 :
                              k # x + 1 =>
                                LET q == RemoveInstruction(program, x)
                                    moved == q.instructions[IF k > x + 1 THEN k - 1 ELSE k]
                                IN Suffix(q, moved.boundary) =
                                     IF x < t THEN Suffix(program, t)
                                     ELSE RemoveAt(Suffix(program, t), (x - t) + 1)
                         /\ \A b \in Boundaries(program), steal \in BOOLEAN :
                              LET q == InsertInstructionBlock(program, b, steal, block)
                                  moved == q.instructions[IF k > b THEN k + 1 ELSE k]
                              IN Suffix(q, moved.boundary) =
                                   IF b < t \/ (b = t /\ ~steal) THEN Suffix(program, t)
                                   ELSE InsertAt(Suffix(program, t), (b - t) + 1, insn.encoded)
    BY <2>1, Zenon DEF EditsKeepTargets
  <2> QED BY <2>1, RemoveKeeps, InsertKeeps
<1> QED BY <1>1, <1>3 DEF BranchTargetsKept

\* A mutant is sound, whatever the inputs, the random choices and the limits:
\* no CHECK of program.cc fails on the way to it, its bytes decode strictly to
\* the program the mutator had in mind, and its branches lead where they led.
THEOREM MutantsAreSound == MutatorSpec => []MutationSound
<1>1. MutatorInv => MutationSound
  BY InvChecks, InvDecodes, InvTargets DEF MutationSound
<1> QED BY <1>1, InitInv, MutatorStep, PTL DEF MutatorSpec

=============================================================================
