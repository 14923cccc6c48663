-------------------------- MODULE SnapMakerProofs --------------------------
(***************************************************************************)
(* The proof that what MakeSnapshot calls made is sound (MadeSound), for   *)
(* every set of programs, every page layout and every setting of the       *)
(* limits.  The invariant is SnapMakerInv.  The steps of the runner are    *)
(* first sorted by what they tell the maker (StepKinds); each part of the  *)
(* invariant then has a lemma of its own.                                  *)
(***************************************************************************)
EXTENDS SnapMaker, FiniteSetTheorems, TLAPS

(* How a runner comes to an end *)

AtEnd == runner = "playing" /\ touched = Len(play.touches)
Matching == end_state = Complete("kInstruction", ExitState(play))

PlayFaults(r) ==
    /\ touched < Len(play.touches)
    /\ ~Writable(NextPage)
    /\ r = Failed("kExecutionMisbehave", "SegvCantWrite", {NextPage}, NoState)
    /\ UNCHANGED historyVars
PlayMatches(r) ==
    /\ AtEnd /\ Leaves(play) /\ Matching
    /\ iteration >= Iterations
    /\ r = Successful
    /\ matching_plays' = matching_plays + 1
    /\ UNCHANGED <<disturbed, first>>
PlayMismatches(r) ==
    /\ AtEnd /\ Leaves(play) /\ ~Matching
    /\ r = Mismatch(play)
    /\ UNCHANGED historyVars
PlayStops(r) ==
    /\ AtEnd /\ ~Leaves(play)
    /\ r.kind # "success" /\ r.outcome # "kRegisterStateMismatch" /\ r.page = {}
    /\ UNCHANGED historyVars
PlayCallsExit(r) ==
    /\ AtEnd /\ play.end = "_exit(0)"
    /\ r = Successful
    /\ UNCHANGED historyVars
PlayLost(r) ==
    /\ r \in {Successful, InternalError}
    /\ disturbed' = TRUE
    /\ UNCHANGED <<matching_plays, first>>

RunnerEnds(r) ==
    /\ runner = "playing"
    /\ RunnerExits(r)
    /\ \/ PlayFaults(r) \/ PlayMatches(r) \/ PlayMismatches(r) \/ PlayStops(r)
       \/ PlayCallsExit(r) \/ PlayLost(r)

PlayRepeats ==
    /\ AtEnd /\ Leaves(play) /\ Matching
    /\ iteration < Iterations
    /\ iteration' = iteration + 1
    /\ play' \in program
    /\ touched' = 0
    /\ matching_plays' = matching_plays + 1
    /\ UNCHANGED <<runner, added, result, disturbed, first>>
    /\ MakerUnchanged

GivesUp ==
    /\ Fail
    /\ UNCHANGED snapshotVars
    /\ \/ SnapifyFails \/ MakeFails \/ RecordFails \/ RejectEndpoint
       \/ VerifyFails \/ CheckTraceFails

LEMMA PlayFacts ==
    ASSUME TypeOK
    PROVE  /\ play \in BehaviourRecords
           /\ program \subseteq BehaviourRecords
           /\ Len(play.touches) \in Nat
           /\ play.state \in States
           /\ ExitState(play) \in States
           /\ play.end \in Signals \cup {"exit", "runaway", "syscall", "_exit(0)"}
<1>1. play \in BehaviourRecords /\ program \subseteq BehaviourRecords
  BY SnapMakerAssumption DEF TypeOK
<1>2. play.touches \in Seq(Pages) /\ play.state \in States
      /\ play.end \in Signals \cup {"exit", "runaway", "syscall", "_exit(0)"}
  BY <1>1 DEF BehaviourRecords
<1>3. Len(play.touches) \in Nat
  BY <1>2
<1>4. ExitState(play) \in States
  BY <1>2 DEF ExitState, States
<1> QED BY <1>1, <1>2, <1>3, <1>4

LEMMA ExitsCases ==
    ASSUME TypeOK, AtEnd, Leaves(play), Exits(ExitState(play))
    PROVE  PlayRepeats \/ \E r \in RunResults : RunnerEnds(r)
<1>0. Successful \in RunResults /\ Mismatch(play) \in RunResults
  BY PlayFacts, SnapMakerAssumption DEF Successful, Mismatch, Failed, RunResult, RunResults, NoState, States, Signals
<1>1. iteration \in Nat /\ Iterations \in Nat
  BY SnapMakerAssumption DEF TypeOK, Iterations
<1>2. CASE Matching /\ iteration < Iterations
  BY <1>2 DEF Matching, Exits, PlayRepeats
<1>3. CASE Matching /\ ~(iteration < Iterations)
  <2>1. RunnerExits(Successful) /\ PlayMatches(Successful)
    BY <1>1, <1>3 DEF Matching, Exits, PlayMatches
  <2> QED BY <2>1, <1>0 DEF RunnerEnds, AtEnd
<1>4. CASE ~Matching
  <2>1. RunnerExits(Mismatch(play)) /\ PlayMismatches(Mismatch(play))
    BY <1>4 DEF Matching, Exits, PlayMismatches, Mismatch
  <2> QED BY <2>1, <1>0 DEF RunnerEnds, AtEnd
<1> QED BY <1>2, <1>3, <1>4

LEMMA PlayEndsCases ==
    ASSUME TypeOK, PlayEnds
    PROVE  PlayRepeats \/ \E r \in RunResults : RunnerEnds(r)
<1>0. AtEnd
  BY DEF PlayEnds, AtEnd
<1>a. NoState \in States
  BY SnapMakerAssumption DEF NoState, States
<1>1. CASE play.end = "exit"
  <2>0. ExitState(play) = play.state /\ Exits(play.state)
    BY <1>1 DEF PlayEnds, ExitState, Signals
  <2>1. Exits(ExitState(play)) /\ Leaves(play)
    BY <1>1, <2>0 DEF Leaves
  <2> QED BY <2>1, <1>0, ExitsCases
<1>2. CASE play.end = "runaway" /\ SnapExits(play.state.pc)
  <2>1. Exits(ExitState(play)) /\ Leaves(play)
    BY <1>2 DEF PlayEnds, ExitState, Leaves, Signals
  <2> QED BY <2>1, <1>0, ExitsCases
<1>3. CASE play.end = "runaway" /\ ~SnapExits(play.state.pc)
  <2> DEFINE r == Failed("kExecutionRunaway", "none", {}, play.state)
  <2>1. RunnerExits(r) /\ UNCHANGED historyVars /\ ~Leaves(play)
    BY <1>3 DEF PlayEnds, Leaves, Signals
  <2>2. r \in RunResults /\ PlayStops(r)
    BY <2>1, <1>0, PlayFacts DEF PlayStops, Failed, RunResult, RunResults
  <2> QED BY <2>1, <2>2, <1>0 DEF RunnerEnds, AtEnd
<1>4. CASE play.end \in Signals
  <2> DEFINE r == Failed("kExecutionMisbehave", play.end, {}, NoState)
  <2>1. RunnerExits(r) /\ UNCHANGED historyVars /\ ~Leaves(play)
    BY <1>4 DEF PlayEnds, Leaves, Signals
  <2>2. r \in RunResults /\ PlayStops(r)
    BY <2>1, <1>0, <1>a, <1>4 DEF PlayStops, Failed, RunResult, RunResults
  <2> QED BY <2>1, <2>2, <1>0 DEF RunnerEnds, AtEnd
<1>5. CASE play.end = "syscall"
  <2>1. RunnerExits(InternalError) /\ UNCHANGED historyVars /\ ~Leaves(play)
    BY <1>5 DEF PlayEnds, Leaves, Signals
  <2>2. InternalError \in RunResults /\ PlayStops(InternalError)
    BY <2>1, <1>0, <1>a DEF PlayStops, InternalError, RunResult, RunResults
  <2> QED BY <2>1, <2>2, <1>0 DEF RunnerEnds, AtEnd
<1>6. CASE play.end = "_exit(0)"
  <2>1. RunnerExits(Successful) /\ UNCHANGED historyVars
    BY <1>6 DEF PlayEnds, Signals
  <2>2. Successful \in RunResults /\ PlayCallsExit(Successful)
    BY <2>1, <1>0, <1>a, <1>6 DEF PlayCallsExit, Successful, RunResult, RunResults
  <2> QED BY <2>1, <2>2, <1>0 DEF RunnerEnds, AtEnd
<1> QED BY <1>1, <1>2, <1>3, <1>4, <1>5, <1>6, PlayFacts

LEMMA StepKinds ==
    ASSUME TypeOK, [Next]_vars
    PROVE  \/ StartRunner \/ TouchPage \/ PlayRepeats
           \/ \E r \in RunResults : RunnerEnds(r)
           \/ MakeReachesEndpoint \/ MakeAddsPage \/ RecordEndState
           \/ CheckEndpoint \/ VerifyOneRepeatedly \/ CheckTrace \/ MakeAgain
           \/ GivesUp
           \/ UNCHANGED vars
<1>1. CASE PageFault
  <2> DEFINE r == Failed("kExecutionMisbehave", "SegvCantWrite", {NextPage},
                         NoState)
  <2>1. play.touches \in Seq(Pages) /\ touched \in Nat
        /\ touched + 1 \in 1..Len(play.touches)
    BY <1>1, PlayFacts DEF PageFault, TypeOK, BehaviourRecords
  <2>2. NextPage \in Pages
    BY <2>1 DEF NextPage
  <2>3. r \in RunResults
    BY <2>2, SnapMakerAssumption
    DEF RunResults, Failed, RunResult, NoState, States, Signals
  <2>4. RunnerEnds(r)
    BY <1>1 DEF PageFault, RunnerEnds, PlayFaults
  <2> QED BY <2>3, <2>4
<1>2. CASE RunnerLost
  <2>0. Successful \in RunResults /\ InternalError \in RunResults
    BY SnapMakerAssumption
    DEF Successful, InternalError, RunResult, RunResults, NoState, States
  <2>1. PICK r \in {Successful, InternalError} : RunnerExits(r)
    BY <1>2 DEF RunnerLost
  <2>2. RunnerEnds(r)
    BY <1>2, <2>1 DEF RunnerLost, RunnerEnds, PlayLost
  <2> QED BY <2>0, <2>2
<1>3. CASE SnapifyFails \/ MakeFails \/ RecordFails \/ RejectEndpoint
           \/ VerifyFails \/ CheckTraceFails
  BY <1>3 DEF GivesUp, SnapifyFails, MakeFails, RecordFails, RejectEndpoint,
              VerifyFails, CheckTraceFails
<1> QED BY <1>1, <1>2, <1>3, PlayEndsCases
      DEF Next, RunnerStep, MakerStep, Terminated


-----------------------------------------------------------------------------
(* Types                                                                     *)

LEMMA TypeInit == Init => TypeOK
<1> SUFFICES ASSUME Init PROVE TypeOK
  OBVIOUS
<1>1. play \in BehaviourRecords
  BY SnapMakerAssumption DEF Init
<1>2. Len(play.touches) \in Nat
  BY <1>1 DEF BehaviourRecords
<1>3. Undefined("end") \in EndStates /\ Undefined("none") \in EndStates
  BY SnapMakerAssumption DEF EndStates, States, Undefined
<1>4. NoResult \in RunResults
  BY SnapMakerAssumption DEF NoResult, RunResult, RunResults, NoState, States
<1>5. first \in [pages : SUBSET Pages, end_state : EndStates]
  BY <1>3 DEF Init, NotMade
<1>6. memory_mappings \subseteq Pages
  BY SnapMakerAssumption DEF Init
<1>7. /\ pages_added \in 0..MaxPagesToAdd /\ attempt \in 0..NumVerifyAttempts
      /\ touched \in 0..Len(play.touches) /\ iteration \in 0..NumIterations
      /\ matching_plays \in Nat
  BY <1>2, SnapMakerAssumption DEF Init
<1> QED
  BY <1>3, <1>4, <1>5, <1>6, <1>7 DEF Init, TypeOK, Phases

LEMMA TypeStep ==
    ASSUME TypeOK, CountInv, [Next]_vars
    PROVE  TypeOK'
<1>0. /\ iteration \in Nat /\ Iterations \in Nat
      /\ Iterations <= NumIterations
      /\ end_state.state \in States /\ end_state.state.pc \in Pcs
  BY SnapMakerAssumption DEF TypeOK, Iterations, EndStates, States
<1>1. CASE StartRunner
  <2>1. play' \in BehaviourRecords
    BY <1>1, SnapMakerAssumption DEF TypeOK, StartRunner
  <2>2. Len(play'.touches) \in Nat
    BY <2>1 DEF BehaviourRecords
  <2>3. exit_sequences' \subseteq Pcs
    BY <1>1, <1>0 DEF StartRunner, Snapify, TypeOK
  <2> QED
    BY <1>1, <2>2, <2>3, SnapMakerAssumption DEF TypeOK, StartRunner, fixedVars, historyVars
<1>2. CASE TouchPage
  <2>1. /\ touched \in Nat /\ touched + 1 \in 1..Len(play.touches)
        /\ play.touches \in Seq(Pages)
    BY <1>2, PlayFacts DEF TouchPage, TypeOK, BehaviourRecords
  <2>2. NextPage \in Pages
    BY <2>1 DEF NextPage
  <2>3. touched' \in 0..Len(play.touches)
    BY <1>2, <2>1 DEF TouchPage
  <2>4. added' \subseteq Pages
    BY <1>2, <2>2 DEF TouchPage, TypeOK
  <2>5. UNCHANGED <<runner, play, iteration, result>> /\ MakerUnchanged
        /\ UNCHANGED historyVars
    BY <1>2 DEF TouchPage
  <2>6. touched' \in 0..Len(play'.touches) /\ play' \in program'
    BY <2>3, <2>5 DEF TypeOK, MakerUnchanged, fixedVars
  <2> QED
    BY <2>4, <2>5, <2>6
    DEF TypeOK, MakerUnchanged, fixedVars, snapshotVars, historyVars
<1>3. CASE PlayRepeats
  <2>1. play' \in BehaviourRecords
    BY <1>3, SnapMakerAssumption DEF TypeOK, PlayRepeats
  <2>2. Len(play'.touches) \in Nat
    BY <2>1 DEF BehaviourRecords
  <2>3. iteration' \in 0..NumIterations
    BY <1>3, <1>0, SnapMakerAssumption DEF PlayRepeats
  <2> QED
    BY <1>3, <2>2, <2>3 DEF TypeOK, PlayRepeats, MakerUnchanged, fixedVars, snapshotVars
<1>4. ASSUME NEW r \in RunResults, RunnerEnds(r)
      PROVE  TypeOK'
  <2>0. /\ first' = first
        /\ matching_plays' = matching_plays \/ matching_plays' = matching_plays + 1
        /\ disturbed' = disturbed \/ disturbed' = TRUE
    BY <1>4 DEF RunnerEnds, PlayFaults, PlayMatches, PlayMismatches,
                PlayStops, PlayCallsExit, PlayLost, historyVars
  <2>a. disturbed' \in BOOLEAN
    BY <2>0, Zenon DEF TypeOK
  <2>1. matching_plays' \in Nat /\ disturbed' \in BOOLEAN /\ first' = first
    BY <2>0, <2>a DEF TypeOK
  <2> QED
    BY <1>4, <2>1
    DEF TypeOK, RunnerEnds, RunnerExits, MakerUnchanged, fixedVars, snapshotVars
<1>5. CASE MakeReachesEndpoint
  <2>1. memory_mappings' \subseteq Pages
    BY <1>5 DEF MakeReachesEndpoint, DataMappingDelta, ReportedPages, TypeOK
  <2>2. end_state' \in EndStates
    BY <1>5, SnapMakerAssumption
    DEF MakeReachesEndpoint, Undefined, EndStates, States, TypeOK, RunResults
  <2> QED
    BY <1>5, <2>1, <2>2 DEF TypeOK, MakeReachesEndpoint, Phases, fixedVars, historyVars
<1>6. CASE MakeAddsPage
  <2>1. memory_mappings' \subseteq Pages
    BY <1>6 DEF MakeAddsPage, RunResults, TypeOK
  <2>2. pages_added' \in 0..MaxPagesToAdd
    BY <1>6, SnapMakerAssumption DEF MakeAddsPage, FixablePageFault, TypeOK
  <2> QED
    BY <1>6, <2>1, <2>2 DEF TypeOK, MakeAddsPage, fixedVars, historyVars
<1>7. CASE RecordEndState
  <2>2. end_state' \in EndStates
    BY <1>7 DEF RecordEndState, Complete, EndStates, TypeOK, RunResults
  <2> QED
    BY <1>7, <2>2 DEF TypeOK, RecordEndState, Phases, fixedVars, historyVars
<1>8. CASE CheckEndpoint
  BY <1>8 DEF TypeOK, CheckEndpoint, Phases, fixedVars, snapshotVars, runnerVars, historyVars
<1>9. CASE VerifyOneRepeatedly
  <2>1. attempt' \in 0..NumVerifyAttempts
    BY <1>9, SnapMakerAssumption DEF VerifyOneRepeatedly, CountInv, TypeOK
  <2>2. phase' \in Phases
    BY <1>9 DEF VerifyOneRepeatedly, Phases
  <2> QED
    BY <1>9, <2>1, <2>2
    DEF TypeOK, VerifyOneRepeatedly, fixedVars, snapshotVars, historyVars
<1>10. CASE CheckTrace
  BY <1>10 DEF TypeOK, CheckTrace, Phases, fixedVars, snapshotVars, historyVars
<1>11. CASE MakeAgain
  <2>1. end_state' \in EndStates
    BY <1>11, <1>0 DEF MakeAgain, Undefined, EndStates, States
  <2>2. first' \in [pages : SUBSET Pages, end_state : EndStates]
    BY <1>11 DEF MakeAgain, Snapshot, TypeOK
  <2> QED
    BY <1>11, <2>1, <2>2, SnapMakerAssumption
    DEF TypeOK, MakeAgain, Phases, fixedVars, runnerVars
<1>12. CASE GivesUp
  BY <1>12 DEF TypeOK, GivesUp, Fail, Phases, fixedVars, snapshotVars, historyVars
<1>13. CASE UNCHANGED vars
  BY <1>13 DEF TypeOK, vars, fixedVars, snapshotVars, runnerVars, historyVars
<1> QED BY StepKinds, <1>1, <1>2, <1>3, <1>4, <1>5, <1>6, <1>7, <1>8, <1>9,
           <1>10, <1>11, <1>12, <1>13

-----------------------------------------------------------------------------
(* The end state, and the play in progress                                   *)

\* What a step of the runner leaves alone.
LEMMA EndsFrame ==
    ASSUME NEW r, RunnerEnds(r)
    PROVE  /\ runner = "playing" /\ runner' = "exited" /\ result' = r
           /\ UNCHANGED <<play, touched, iteration, added, first>>
           /\ UNCHANGED <<options, input, program, phase, memory_mappings,
                          end_state, exit_sequences, pages_added, attempt,
                          status>>
BY DEF RunnerEnds, RunnerExits, MakerUnchanged, fixedVars, snapshotVars,
       historyVars, PlayFaults, PlayMatches, PlayMismatches, PlayStops,
       PlayCallsExit, PlayLost

LEMMA EndStateStep ==
    ASSUME TypeOK, EndStateInv, [Next]_vars
    PROVE  EndStateInv'
<1> USE DEF Made, RecordedIsComplete
<1>1. CASE StartRunner
  BY <1>1 DEF EndStateInv, StartRunner, historyVars
<1>2. CASE TouchPage
  BY <1>2 DEF EndStateInv, TouchPage, MakerUnchanged, snapshotVars, historyVars
<1>3. CASE PlayRepeats
  BY <1>3 DEF EndStateInv, PlayRepeats, MakerUnchanged, snapshotVars
<1>4. ASSUME NEW r \in RunResults, RunnerEnds(r)
      PROVE  EndStateInv'
  BY <1>4, EndsFrame DEF EndStateInv
<1>5. CASE MakeReachesEndpoint
  BY <1>5 DEF EndStateInv, MakeReachesEndpoint, Undefined, historyVars
<1>6. CASE MakeAddsPage
  BY <1>6 DEF EndStateInv, MakeAddsPage, historyVars
<1>7. CASE RecordEndState
  BY <1>7 DEF EndStateInv, RecordEndState, Complete, historyVars
<1>8. CASE CheckEndpoint
  BY <1>8 DEF EndStateInv, CheckEndpoint, EndpointOk, snapshotVars, historyVars
<1>9. CASE VerifyOneRepeatedly
  BY <1>9 DEF EndStateInv, VerifyOneRepeatedly, snapshotVars, historyVars
<1>10. CASE CheckTrace
  BY <1>10 DEF EndStateInv, CheckTrace, snapshotVars, historyVars
<1>11. CASE MakeAgain
  BY <1>11 DEF EndStateInv, MakeAgain, Undefined, Snapshot
<1>12. CASE GivesUp
  BY <1>12 DEF EndStateInv, GivesUp, Fail, snapshotVars, historyVars
<1>13. CASE UNCHANGED vars
  BY <1>13 DEF EndStateInv, vars, snapshotVars, historyVars
<1> QED BY StepKinds, <1>1, <1>2, <1>3, <1>4, <1>5, <1>6, <1>7, <1>8, <1>9,
           <1>10, <1>11, <1>12, <1>13

LEMMA PlayStep ==
    ASSUME TypeOK, PlayInv, [Next]_vars
    PROVE  PlayInv'
<1>0. Iterations \in Nat \ {0} /\ RunnerPages \in Nat /\ iteration \in Nat
  BY SnapMakerAssumption DEF TypeOK, Iterations, RunnerPages
<1>1. CASE StartRunner
  <2>1. IsFiniteSet({}) /\ Cardinality({}) = 0
    BY FS_EmptySet
  <2>2. UNCHANGED <<phase, options, input, memory_mappings>>
    BY <1>1 DEF StartRunner, fixedVars
  <2>3. Iterations' = Iterations /\ RunnerPages' = RunnerPages
    BY <2>2 DEF Iterations, RunnerPages
  <2>4. CanSnapify /\ added' = {} /\ touched' = 0 /\ iteration' = 1
        /\ phase \notin {"endpoint", "done"}
    BY <1>1 DEF StartRunner
  <2> QED
    BY <2>1, <2>2, <2>3, <2>4, <1>0 DEF PlayInv, CanSnapify
<1>2. CASE TouchPage
  <2>1. UNCHANGED <<phase, options, input, memory_mappings, runner, play,
                    iteration>>
        /\ runner = "playing" /\ touched' = touched + 1
    BY <1>2 DEF TouchPage, MakerUnchanged, fixedVars, snapshotVars
  <2>2. Iterations' = Iterations /\ RunnerPages' = RunnerPages
    BY <2>1 DEF Iterations, RunnerPages
  <2>3. added' = added \/ (added' = added \cup {NextPage}
                           /\ NextPage \notin added
                           /\ Cardinality(added) < RunnerPages)
    BY <1>2 DEF TouchPage, Writable, CanAddPage
  <2>4. NextPage \in memory_mappings \cup added'
    BY <1>2 DEF TouchPage, Writable
  <2>5. IsFiniteSet(added') /\ Cardinality(added') <= RunnerPages
    <3>1. IsFiniteSet(added) /\ Cardinality(added) \in Nat
          /\ Cardinality(added) <= RunnerPages
      BY <2>1, FS_CardinalityType DEF PlayInv
    <3>2. CASE added' = added
      BY <3>1, <3>2
    <3>3. CASE added' # added
      <4>1. added' = added \cup {NextPage} /\ NextPage \notin added
            /\ Cardinality(added) < RunnerPages
        BY <2>3, <3>3
      <4>2. IsFiniteSet(added') /\ Cardinality(added') = Cardinality(added) + 1
        BY <3>1, <4>1, FS_AddElement
      <4> QED BY <3>1, <4>1, <4>2, <1>0
    <3> QED BY <3>2, <3>3
  <2>6. touched \in Nat
    BY PlayFacts DEF TypeOK
  <2>7. ASSUME NEW i \in 1..(touched + 1)
        PROVE  play.touches[i] \in memory_mappings \cup added'
    <3>1. CASE i \in 1..touched
      BY <3>1, <2>1, <2>3 DEF PlayInv
    <3>2. CASE i = touched + 1
      BY <3>2, <2>4 DEF NextPage
    <3> QED BY <3>1, <3>2, <2>6
  <2> QED BY <2>1, <2>2, <2>5, <2>7 DEF PlayInv
<1>3. CASE PlayRepeats
  <2>1. UNCHANGED <<phase, options, input, memory_mappings, runner, added>>
        /\ runner = "playing" /\ touched' = 0 /\ iteration' = iteration + 1
        /\ iteration < Iterations
    BY <1>3 DEF PlayRepeats, AtEnd, MakerUnchanged, fixedVars, snapshotVars
  <2>2. Iterations' = Iterations /\ RunnerPages' = RunnerPages
    BY <2>1 DEF Iterations, RunnerPages
  <2> QED BY <2>1, <2>2, <1>0 DEF PlayInv
<1>4. ASSUME NEW r \in RunResults, RunnerEnds(r)
      PROVE  PlayInv'
  <2>1. Iterations' = Iterations /\ RunnerPages' = RunnerPages
    BY <1>4, EndsFrame DEF Iterations, RunnerPages
  <2> QED BY <1>4, <2>1, EndsFrame DEF PlayInv
<1>5. CASE runner' = "idle" /\ added' = added
  BY <1>5 DEF PlayInv
<1>6. CASE MakeReachesEndpoint \/ MakeAddsPage \/ RecordEndState
           \/ VerifyOneRepeatedly \/ CheckTrace \/ GivesUp
  BY <1>5, <1>6 DEF MakeReachesEndpoint, MakeAddsPage, RecordEndState,
        VerifyOneRepeatedly, CheckTrace, GivesUp, Fail
<1>7. CASE CheckEndpoint
  BY <1>7 DEF CheckEndpoint, EndpointOk, PlayInv, runnerVars
<1>8. CASE MakeAgain
  BY <1>8 DEF MakeAgain, PlayInv, runnerVars
<1>9. CASE UNCHANGED vars
  <2>1. Iterations' = Iterations /\ RunnerPages' = RunnerPages
    BY <1>9 DEF vars, fixedVars, Iterations, RunnerPages
  <2> QED BY <1>9, <2>1 DEF PlayInv, vars, fixedVars, snapshotVars, runnerVars
<1> QED BY StepKinds, <1>1, <1>2, <1>3, <1>4, <1>6, <1>7, <1>8, <1>9

LEMMA ResultStep ==
    ASSUME TypeOK, PlayInv, ResultInv, [Next]_vars
    PROVE  ResultInv'
<1>1. CASE runner' # "exited"
  BY <1>1 DEF ResultInv
<1>2. CASE StartRunner \/ TouchPage \/ PlayRepeats
  BY <1>1, <1>2 DEF StartRunner, TouchPage, PlayRepeats, AtEnd
<1>3. CASE MakeReachesEndpoint \/ MakeAddsPage \/ RecordEndState
           \/ VerifyOneRepeatedly \/ CheckTrace \/ GivesUp
  BY <1>1, <1>3 DEF MakeReachesEndpoint, MakeAddsPage, RecordEndState,
        VerifyOneRepeatedly, CheckTrace, GivesUp, Fail
<1>4. CASE CheckEndpoint \/ MakeAgain
  BY <1>1, <1>4 DEF CheckEndpoint, EndpointOk, MakeAgain, PlayInv, runnerVars
<1>5. ASSUME NEW r \in RunResults, RunnerEnds(r)
      PROVE  ResultInv'
  <2>0. /\ result' = r
        /\ UNCHANGED <<play, touched, phase, end_state, exit_sequences>>
    BY <1>5, EndsFrame
  <2>1. Leaves(play)' <=> Leaves(play)
    BY <2>0 DEF Leaves, SnapExits
  <2>2. Mismatch(play)' = Mismatch(play)
    BY <2>0 DEF Mismatch, ExitState, Failed, RunResult
  <2>3. CASE PlayFaults(r)
    <3>1. touched + 1 \in 1..Len(play.touches) /\ play.touches \in Seq(Pages)
      BY <2>3, PlayFacts DEF PlayFaults, TypeOK, BehaviourRecords
    <3>2. NextPage \in Pages
      BY <3>1 DEF NextPage
    <3>3. r.page = {NextPage} /\ r.outcome = "kExecutionMisbehave"
      BY <2>3 DEF PlayFaults, Failed, RunResult
    <3> QED BY <2>0, <3>2, <3>3 DEF ResultInv
  <2>4. CASE PlayMismatches(r)
    <3>1. r = Mismatch(play) /\ Leaves(play) /\ touched = Len(play.touches)
      BY <2>4 DEF PlayMismatches, AtEnd
    <3>2. r.page = {}
      BY <3>1 DEF Mismatch, Failed, RunResult
    <3> QED BY <2>0, <2>1, <2>2, <3>1, <3>2 DEF ResultInv
  <2>5. CASE PlayMatches(r) \/ PlayCallsExit(r) \/ PlayLost(r) \/ PlayStops(r)
    <3>1. r.page = {} /\ r.outcome # "kRegisterStateMismatch"
      BY <2>5 DEF PlayMatches, PlayCallsExit, PlayLost, PlayStops, Successful,
                  InternalError, RunResult
    <3> QED BY <2>0, <3>1 DEF ResultInv
  <2> QED BY <1>5, <2>3, <2>4, <2>5 DEF RunnerEnds
<1>6. CASE UNCHANGED vars
  <2>1. UNCHANGED <<runner, play, touched, result, phase, end_state, exit_sequences>>
    BY <1>6 DEF vars, runnerVars, snapshotVars
  <2>2. Leaves(play)' <=> Leaves(play)
    BY <2>1 DEF Leaves, SnapExits
  <2>3. Mismatch(play)' = Mismatch(play)
    BY <2>1 DEF Mismatch, ExitState, Failed, RunResult
  <2> QED BY <2>1, <2>2, <2>3 DEF ResultInv
<1> QED BY StepKinds, <1>2, <1>3, <1>4, <1>5, <1>6

-----------------------------------------------------------------------------
(* The pages, and what was asked of the input                                *)

LEMMA UnionBound ==
    ASSUME NEW A, NEW B, IsFiniteSet(A), IsFiniteSet(B)
    PROVE  /\ IsFiniteSet(A \cup B)
           /\ Cardinality(A \cup B) <= Cardinality(A) + Cardinality(B)
<1>1. Cardinality(A) \in Nat /\ Cardinality(B) \in Nat
      /\ Cardinality(A \cap B) \in Nat
  BY FS_CardinalityType, FS_Intersection
<1>2. IsFiniteSet(A \cup B)
      /\ Cardinality(A \cup B) = Cardinality(A) + Cardinality(B)
                                   - Cardinality(A \cap B)
  BY FS_Union
<1> QED BY <1>1, <1>2

\* Pages gained by one step.
LEMMA Gain ==
    ASSUME NEW old, NEW gained, NEW kept, IsFiniteSet(old), IsFiniteSet(gained)
    PROVE  /\ IsFiniteSet(old \cup gained)
           /\ Cardinality((old \cup gained) \ kept) \in Nat
           /\ Cardinality(old \ kept) \in Nat
           /\ Cardinality((old \cup gained) \ kept)
                <= Cardinality(old \ kept) + Cardinality(gained)
<1>1. IsFiniteSet(old \ kept) /\ IsFiniteSet(gained \ kept)
      /\ Cardinality(gained \ kept) <= Cardinality(gained)
  BY FS_Difference, FS_Subset
<1>2. (old \cup gained) \ kept = (old \ kept) \cup (gained \ kept)
  OBVIOUS
<1>3. IsFiniteSet((old \cup gained) \ kept)
      /\ Cardinality((old \cup gained) \ kept)
           <= Cardinality(old \ kept) + Cardinality(gained \ kept)
  BY <1>1, <1>2, UnionBound
<1>4. IsFiniteSet(old \cup gained)
  BY UnionBound
<1>5. /\ Cardinality((old \cup gained) \ kept) \in Nat
      /\ Cardinality(old \ kept) \in Nat
      /\ Cardinality(gained \ kept) \in Nat
      /\ Cardinality(gained) \in Nat
  BY <1>1, <1>3, FS_CardinalityType
<1> QED BY <1>1, <1>3, <1>4, <1>5

LEMMA PagesStep ==
    ASSUME TypeOK, EndStateInv, PlayInv, ResultInv, PagesInv, [Next]_vars
    PROVE  PagesInv'
<1> DEFINE Gained == Cardinality(memory_mappings \ InitialPages)
           Before == IF first = NotMade THEN 0 ELSE MaxPagesToAdd
<1>a. IsFiniteSet(memory_mappings \ InitialPages)
  BY FS_Difference DEF PagesInv
<1>b. Gained \in Nat
  BY <1>a, FS_CardinalityType
<1>0. /\ MaxPagesToAdd \in Nat /\ Before \in Nat /\ pages_added \in Nat
      /\ pages_added <= MaxPagesToAdd
      /\ IsFiniteSet(memory_mappings \ InitialPages) /\ Gained \in Nat
  BY <1>a, <1>b, SnapMakerAssumption DEF TypeOK
<1>1. CASE UNCHANGED <<memory_mappings, first, phase, options, pages_added>>
  BY <1>1 DEF PagesInv
<1>2. CASE StartRunner \/ TouchPage \/ PlayRepeats \/ RecordEndState
           \/ VerifyOneRepeatedly \/ CheckTrace \/ CheckEndpoint \/ GivesUp
           \/ UNCHANGED vars
  <2>1. UNCHANGED <<memory_mappings, first, options, pages_added>>
        /\ (UNCHANGED phase \/ phase' # "make")
    BY <1>2 DEF StartRunner, TouchPage, PlayRepeats, RecordEndState,
         VerifyOneRepeatedly, CheckTrace, CheckEndpoint, GivesUp, Fail, vars,
         fixedVars, snapshotVars, historyVars, MakerUnchanged
  <2>2. Gained' = Gained /\ Before' = Before
    BY <2>1
  <2> HIDE DEF Gained, Before
  <2>3. (phase' # "make" => Gained <= Before + MaxPagesToAdd)
    BY <1>0 DEF PagesInv, Gained, Before
  <2> QED BY <1>0, <1>1, <2>1, <2>2, <2>3 DEF PagesInv, Gained, Before
<1>3. ASSUME NEW r \in RunResults, RunnerEnds(r)
      PROVE  PagesInv'
  BY <1>1, <1>3, EndsFrame
<1>4. CASE MakeReachesEndpoint
  <2>1. /\ phase = "make" /\ phase' = "record" /\ runner = "exited"
        /\ UNCHANGED <<first, options, pages_added>>
        /\ memory_mappings' = memory_mappings \cup DataMappingDelta
        /\ DataMappingDelta \cap Reserved = {}
    BY <1>4 DEF MakeReachesEndpoint, fixedVars, historyVars, CanAddMappings
  <2>2. CASE options.compatibility_mode
    <3>1. memory_mappings' = memory_mappings
      BY <2>1, <2>2 DEF DataMappingDelta
    <3>2. Gained <= Before + pages_added
      BY <2>1, <2>2 DEF PagesInv
    <3> QED BY <2>1, <3>1, <3>2, <1>0 DEF PagesInv
  <2>3. CASE ~options.compatibility_mode
    <3>1. memory_mappings' = memory_mappings \cup added
      BY <2>1, <2>3 DEF DataMappingDelta, ReportedPages
    <3>2. IsFiniteSet(added) /\ Cardinality(added) <= MaxPagesToAdd
          /\ Cardinality(added) \in Nat
      BY <2>1, <2>3, FS_CardinalityType DEF PlayInv, RunnerPages
    <3>3. Gained <= Before
      BY <2>1, <2>3, <1>0 DEF PagesInv
    <3>4. /\ IsFiniteSet(memory_mappings')
          /\ Gained' \in Nat
          /\ Gained' <= Gained + Cardinality(added)
      BY <3>1, <3>2, Gain DEF PagesInv
    <3>5. memory_mappings' \cap Reserved = {}
      BY <2>1 DEF PagesInv
    <3>6. Before' = Before
      BY <2>1
    <3>7. Gained' <= Before + MaxPagesToAdd
      <4> HIDE DEF Gained, Before
      <4> QED BY <3>2, <3>3, <3>4, <1>0
    <3> QED BY <2>1, <3>4, <3>5, <3>6, <3>7 DEF PagesInv
  <2> QED BY <2>2, <2>3
<1>5. CASE MakeAddsPage
  <2>1. /\ phase = "make" /\ phase' = "make" /\ runner = "exited"
        /\ options.compatibility_mode
        /\ UNCHANGED <<first, options>>
        /\ pages_added' = pages_added + 1
        /\ memory_mappings' = memory_mappings \cup result.page
        /\ result.page \cap Reserved = {}
    BY <1>5 DEF MakeAddsPage, FixablePageFault, fixedVars, historyVars,
                CanAddMappings
  <2>2. IsFiniteSet(result.page) /\ Cardinality(result.page) <= 1
        /\ Cardinality(result.page) \in Nat
    <3>1. CASE result.page = {}
      BY <3>1, FS_EmptySet
    <3>2. CASE result.page # {}
      <4>1. PICK p \in Pages : result.page = {p}
        BY <2>1, <3>2 DEF ResultInv
      <4>2. IsFiniteSet({p}) /\ Cardinality({p}) = 1
        BY FS_Singleton
      <4> QED BY <4>1, <4>2
    <3> QED BY <3>1, <3>2
  <2>3. Gained <= Before + pages_added
    BY <2>1 DEF PagesInv
  <2>4. /\ IsFiniteSet(memory_mappings')
        /\ Gained' \in Nat
        /\ Gained' <= Gained + Cardinality(result.page)
    BY <2>1, <2>2, Gain DEF PagesInv
  <2>5. memory_mappings' \cap Reserved = {}
    BY <2>1 DEF PagesInv
  <2>6. Before' = Before
    BY <2>1
  <2>7. Gained' <= Before + pages_added'
    <3> HIDE DEF Gained, Before
    <3> QED BY <2>1, <2>2, <2>3, <2>4, <1>0
  <2> QED BY <2>1, <2>4, <2>5, <2>6, <2>7 DEF PagesInv
<1>6. CASE MakeAgain
  <2>1. /\ phase = "done" /\ phase' = "make" /\ first = NotMade
        /\ UNCHANGED <<memory_mappings, options>> /\ pages_added' = 0
        /\ first' = Snapshot
    BY <1>6 DEF MakeAgain, fixedVars
  <2>2. end_state.complete
    BY <1>6 DEF MakeAgain, EndStateInv, RecordedIsComplete, Made
  <2>3. first' # NotMade
    BY <2>1, <2>2 DEF Snapshot, NotMade, Undefined
  <2>4. Gained <= 0 + MaxPagesToAdd
    BY <2>1 DEF PagesInv
  <2> QED BY <2>1, <2>3, <2>4, <1>0 DEF PagesInv
<1> QED BY StepKinds, <1>2, <1>3, <1>4, <1>5, <1>6

LEMMA InputStep ==
    ASSUME TypeOK, PlayInv, InputInv, [Next]_vars
    PROVE  InputInv'
<1> USE DEF Made, Recording, Conforms
<1>1. CASE UNCHANGED <<input, options, phase, status, memory_mappings>>
  BY <1>1 DEF InputInv
<1>2. CASE StartRunner \/ TouchPage \/ PlayRepeats \/ UNCHANGED vars
  BY <1>1, <1>2 DEF StartRunner, TouchPage, PlayRepeats, vars, fixedVars,
        snapshotVars, MakerUnchanged
<1>3. ASSUME NEW r \in RunResults, RunnerEnds(r)
      PROVE  InputInv'
  BY <1>1, <1>3, EndsFrame
<1>4. CASE MakeReachesEndpoint
  BY <1>4 DEF InputInv, PlayInv, MakeReachesEndpoint, fixedVars
<1>5. CASE MakeAddsPage
  BY <1>5 DEF InputInv, MakeAddsPage, fixedVars
<1>6. CASE RecordEndState
  BY <1>6 DEF InputInv, RecordEndState, fixedVars
<1>7. CASE CheckEndpoint
  BY <1>7 DEF InputInv, CheckEndpoint, EndpointOk, fixedVars, snapshotVars
<1>8. CASE VerifyOneRepeatedly
  BY <1>8 DEF InputInv, PlayInv, VerifyOneRepeatedly, fixedVars, snapshotVars
<1>9. CASE CheckTrace
  BY <1>9 DEF InputInv, CheckTrace, fixedVars, snapshotVars
<1>10. CASE MakeAgain
  BY <1>10 DEF InputInv, MakeAgain
<1>11. CASE GivesUp
  BY <1>11 DEF InputInv, GivesUp, Fail
<1> QED BY StepKinds, <1>2, <1>3, <1>4, <1>5, <1>6, <1>7, <1>8, <1>9, <1>10,
           <1>11

-----------------------------------------------------------------------------
(* Counting the plays                                                        *)

Sober == ~disturbed /\ \A b \in program : b.end # "_exit(0)"

LEMMA CountStep ==
    ASSUME TypeOK, EndStateInv, PlayInv, CountInv, [Next]_vars
    PROVE  CountInv'
<1> DEFINE AllPlays == NumVerifyAttempts * NumIterations
           Done == attempt * NumIterations
           Counted == /\ phase \in {"verify", "trace"}
                      /\ runner = "exited" => result.kind = "success"
<1>a. CountInv <=>
        /\ phase \in {"make", "record", "endpoint"} =>
             attempt = 0 /\ matching_plays = 0
        /\ phase = "verify" => attempt < NumVerifyAttempts
        /\ phase = "trace" => attempt = NumVerifyAttempts
        /\ Counted /\ Sober => matching_plays = Done + PlaysSoFar
        /\ Made /\ Sober => matching_plays = AllPlays + 1
  BY DEF CountInv, VerifiedByPlays, Sober
<1>b. CountInv' <=>
        /\ phase' \in {"make", "record", "endpoint"} =>
             attempt' = 0 /\ matching_plays' = 0
        /\ phase' = "verify" => attempt' < NumVerifyAttempts
        /\ phase' = "trace" => attempt' = NumVerifyAttempts
        /\ Counted' /\ Sober' => matching_plays' = Done' + PlaysSoFar'
        /\ Made' /\ Sober' => matching_plays' = AllPlays + 1
  BY DEF CountInv, VerifiedByPlays, Sober
<1>0. /\ attempt \in Nat /\ NumIterations \in Nat \ {0}
      /\ NumVerifyAttempts \in Nat \ {0}
      /\ matching_plays \in Nat /\ iteration \in Nat /\ Iterations \in Nat \ {0}
      /\ Done \in Nat /\ AllPlays \in Nat
  BY SnapMakerAssumption DEF TypeOK, Iterations
<1> HIDE DEF AllPlays, Done, Counted
<1>1. CASE StartRunner
  <2>1. /\ UNCHANGED <<phase, attempt, matching_plays, disturbed, program, status>>
        /\ runner = "idle" /\ runner' = "playing" /\ iteration' = 1
    BY <1>1 DEF StartRunner, fixedVars, historyVars
  <2>2. PlaysSoFar = 0 /\ PlaysSoFar' = 0
    BY <2>1 DEF PlaysSoFar
  <2>3. (Sober' => Sober) /\ (Made' => Made) /\ (Counted' => Counted) /\ Done' = Done
    BY <2>1 DEF Sober, Made, Counted, Done
  <2> QED BY <1>a, <1>b, <2>1, <2>2, <2>3
<1>2. CASE TouchPage \/ UNCHANGED vars
  <2>1. UNCHANGED <<phase, attempt, matching_plays, disturbed, program, status,
                    runner, iteration, result>>
    BY <1>2 DEF TouchPage, MakerUnchanged, fixedVars, historyVars, vars, runnerVars
  <2>2. PlaysSoFar' = PlaysSoFar
    BY <2>1 DEF PlaysSoFar, Iterations
  <2>3. (Sober' => Sober) /\ (Made' => Made) /\ (Counted' => Counted) /\ Done' = Done
    BY <2>1 DEF Sober, Made, Counted, Done
  <2> QED BY <1>a, <1>b, <2>1, <2>2, <2>3
<1>3. CASE PlayRepeats
  <2>1. /\ UNCHANGED <<phase, attempt, disturbed, program, status, runner, result>>
        /\ runner = "playing" /\ iteration' = iteration + 1
        /\ matching_plays' = matching_plays + 1
        /\ end_state.complete
    BY <1>3 DEF PlayRepeats, AtEnd, Matching, Complete, MakerUnchanged, fixedVars
  <2>2. phase \in {"verify", "trace"}
    BY <2>1 DEF EndStateInv, PlayInv, TypeOK, Phases
  <2>3. PlaysSoFar = iteration - 1 /\ PlaysSoFar' = iteration
    BY <2>1, <1>0 DEF PlaysSoFar
  <2>4. (Sober' => Sober) /\ (Counted' => Counted) /\ Done' = Done /\ ~Made'
    BY <2>1, <2>2 DEF Sober, Made, Counted, Done
  <2> QED BY <1>0, <1>a, <1>b, <2>1, <2>2, <2>3, <2>4
<1>4. ASSUME NEW r \in RunResults, RunnerEnds(r)
      PROVE  CountInv'
  <2>1. /\ UNCHANGED <<phase, attempt, program, status, iteration>>
        /\ runner = "playing" /\ runner' = "exited" /\ result' = r
        /\ phase \notin {"endpoint", "done"}
        /\ iteration \in 1..Iterations
    BY <1>4, EndsFrame DEF PlayInv
  <2>2. PlaysSoFar = iteration - 1 /\ PlaysSoFar' = Iterations
    BY <2>1 DEF PlaysSoFar, Iterations
  <2>3. Done' = Done /\ ~Made' /\ (Counted' => r.kind = "success")
        /\ (Counted' => Counted)
    BY <2>1 DEF Made, Counted, Done
  <2>4. CASE PlayMatches(r)
    <3>1. /\ matching_plays' = matching_plays + 1 /\ UNCHANGED disturbed
          /\ iteration = Iterations /\ end_state.complete
      BY <2>4, <2>1, <1>0 DEF PlayMatches, Matching, Complete
    <3>2. phase \in {"verify", "trace"} /\ (Sober' => Sober)
      BY <3>1, <2>1 DEF EndStateInv, TypeOK, Phases, Sober
    <3> QED BY <1>0, <1>a, <1>b, <2>1, <2>2, <2>3, <3>1, <3>2
  <2>5. CASE ~PlayMatches(r)
    <3>1. /\ matching_plays' = matching_plays
          /\ r.kind # "success" \/ play.end = "_exit(0)" \/ disturbed' = TRUE
      BY <1>4, <2>5
      DEF RunnerEnds, PlayFaults, PlayMismatches, PlayStops, PlayCallsExit,
          PlayLost, historyVars, Mismatch, Failed, RunResult
    <3>2. ~(Counted' /\ Sober')
      BY <2>1, <2>3, <3>1 DEF Sober, TypeOK
    <3> QED BY <1>a, <1>b, <2>1, <2>3, <3>1, <3>2
  <2> QED BY <2>4, <2>5
<1>5. CASE MakeReachesEndpoint \/ MakeAddsPage \/ RecordEndState
  <2>1. UNCHANGED <<attempt, matching_plays>>
        /\ phase \in {"make", "record"} /\ phase' \in {"make", "record", "endpoint"}
    BY <1>5 DEF MakeReachesEndpoint, MakeAddsPage, RecordEndState, historyVars
  <2> QED BY <1>a, <1>b, <2>1 DEF Made, Counted
<1>6. CASE CheckEndpoint
  <2>1. UNCHANGED <<attempt, matching_plays, runner>>
        /\ phase = "endpoint" /\ phase' = "verify"
    BY <1>6 DEF CheckEndpoint, EndpointOk, historyVars, runnerVars
  <2>2. runner = "idle"
    BY <2>1 DEF PlayInv
  <2>3. attempt = 0 /\ matching_plays = 0
    BY <1>a, <2>1
  <2>4. Done' = 0 /\ PlaysSoFar' = 0
    BY <2>1, <2>2, <2>3, <1>0 DEF PlaysSoFar, Done
  <2> QED BY <1>0, <1>b, <2>1, <2>3, <2>4 DEF Made
<1>7. CASE VerifyOneRepeatedly
  <2>1. /\ UNCHANGED <<matching_plays, disturbed, program, status>>
        /\ phase = "verify" /\ runner = "exited" /\ result.kind = "success"
        /\ attempt' = attempt + 1
        /\ phase' = IF attempt' < NumVerifyAttempts THEN "verify" ELSE "trace"
        /\ runner' = "idle"
    BY <1>7 DEF VerifyOneRepeatedly, fixedVars, historyVars
  <2>2. Counted /\ (Sober' => Sober) /\ ~Made'
    BY <2>1 DEF Counted, Sober, Made
  <2>3. PlaysSoFar = NumIterations /\ PlaysSoFar' = 0
    BY <2>1 DEF PlaysSoFar, Iterations
  <2>4. Done' = Done + NumIterations /\ Done' \in Nat
    BY <2>1, <1>0 DEF Done
  <2>5. attempt < NumVerifyAttempts
    BY <1>a, <2>1
  <2>6. Counted' /\ Sober' => matching_plays' = Done' + PlaysSoFar'
    BY <1>a, <2>1, <2>2, <2>3, <2>4, <1>0
  <2>7. /\ phase' \in {"verify", "trace"}
        /\ phase' = "verify" => attempt' < NumVerifyAttempts
        /\ phase' = "trace" => attempt' = NumVerifyAttempts
    BY <2>1, <2>5, <1>0
  <2> QED BY <1>b, <2>2, <2>6, <2>7
<1>8. CASE CheckTrace
  <2>1. /\ UNCHANGED <<matching_plays, disturbed, program>>
        /\ phase = "trace" /\ runner = "exited" /\ result.kind = "success"
        /\ phase' = "done"
    BY <1>8 DEF CheckTrace, fixedVars, historyVars
  <2>2. Counted /\ (Sober' => Sober) /\ PlaysSoFar = 1
    BY <2>1 DEF Counted, Sober, PlaysSoFar, Iterations
  <2>3. Done = AllPlays
    BY <1>a, <2>1 DEF Done, AllPlays
  <2> QED BY <1>a, <1>b, <2>1, <2>2, <2>3 DEF Counted
<1>9. CASE MakeAgain
  BY <1>9, <1>b DEF MakeAgain, Counted, Made
<1>10. CASE GivesUp
  BY <1>10, <1>b DEF GivesUp, Fail, Counted, Made
<1> QED BY StepKinds, <1>1, <1>2, <1>3, <1>4, <1>5, <1>6, <1>7, <1>8, <1>9,
           <1>10

-----------------------------------------------------------------------------
(* Snaps that always behave the same                                         *)

Ready(b) ==
    /\ \A i \in DOMAIN b.touches : b.touches[i] \in memory_mappings
    /\ b.end = "exit" \/ (b.end = "runaway" /\ b.state.pc \in exit_sequences)
Recorded(b) ==
    Recording /\ phase # "record" =>
        end_state = Complete("kInstruction", ExitState(b))
Reports(b) ==
    /\ runner # "idle" => added = {}
    /\ runner = "exited" /\ (result.kind = "failed" \/ ~disturbed) =>
         result = IF end_state.complete THEN Successful ELSE Mismatch(b)
Settled == Recording \/ first # NotMade

LEMMA SettledForm ==
    SettledInv <=> (Deterministic /\ Settled =>
                       \A b \in program : Ready(b) /\ Recorded(b) /\ Reports(b))
BY DEF SettledInv, Settled, Ready, Recorded, Reports

LEMMA ReadyStep ==
    ASSUME NEW b, Ready(b),
           memory_mappings \subseteq memory_mappings',
           exit_sequences \subseteq exit_sequences'
    PROVE  Ready(b)'
BY DEF Ready

\* An idle maker reports nothing.
LEMMA IdleReports ==
    ASSUME NEW b, runner' = "idle"
    PROVE  Reports(b)'
BY DEF Reports

LEMMA SettledStep ==
    ASSUME TypeOK, EndStateInv, PlayInv, ResultInv, SettledInv, [Next]_vars
    PROVE  SettledInv'
<1> SUFFICES ASSUME Deterministic', Settled', NEW b \in program'
             PROVE  Ready(b)' /\ Recorded(b)' /\ Reports(b)'
  BY SettledForm DEF SettledInv, Settled, Ready, Recorded, Reports
<1>0. program' = program
  BY StepKinds, EndsFrame
  DEF StartRunner, TouchPage, PlayRepeats, MakeReachesEndpoint, MakeAddsPage,
      RecordEndState, CheckEndpoint, VerifyOneRepeatedly, CheckTrace, MakeAgain,
      GivesUp, Fail, MakerUnchanged, fixedVars, vars
<1>1. program = {b} /\ play = b /\ Deterministic
  BY <1>0 DEF Deterministic, TypeOK
<1>2. Settled => Ready(b) /\ Recorded(b) /\ Reports(b)
  BY <1>1, SettledForm
<1>3. CASE StartRunner
  <2>1. UNCHANGED <<phase, status, first, memory_mappings, end_state>>
        /\ exit_sequences \subseteq exit_sequences' /\ added' = {}
        /\ runner' = "playing"
    BY <1>3 DEF StartRunner, Snapify, historyVars
  <2>2. Settled
    BY <2>1 DEF Settled, Recording, Made
  <2> QED
    BY <1>2, <2>1, <2>2, ReadyStep DEF Recorded, Recording, Made, Reports
<1>4. CASE TouchPage
  <2>1. UNCHANGED <<phase, status, first, memory_mappings, end_state,
                    exit_sequences, runner>>
        /\ runner = "playing"
    BY <1>4 DEF TouchPage, MakerUnchanged, snapshotVars, historyVars
  <2>2. Settled
    BY <2>1 DEF Settled, Recording, Made
  <2>3. touched + 1 \in DOMAIN play.touches
    BY <1>4, PlayFacts DEF TouchPage, TypeOK, BehaviourRecords
  <2>4. NextPage \in memory_mappings
    BY <2>2, <2>3, <1>1, <1>2 DEF NextPage, Ready
  <2>5. added' = added
    BY <1>4, <2>4 DEF TouchPage, Writable
  <2> QED
    BY <1>2, <2>1, <2>2, <2>5, ReadyStep DEF Recorded, Recording, Made, Reports
<1>5. CASE PlayRepeats
  <2>1. UNCHANGED <<phase, status, first, memory_mappings, end_state,
                    exit_sequences, runner, added>>
        /\ runner = "playing"
    BY <1>5 DEF PlayRepeats, AtEnd, MakerUnchanged, snapshotVars
  <2>2. Settled
    BY <2>1 DEF Settled, Recording, Made
  <2> QED
    BY <1>2, <2>1, <2>2, ReadyStep DEF Recorded, Recording, Made, Reports
<1>6. ASSUME NEW r \in RunResults, RunnerEnds(r)
      PROVE  Ready(b)' /\ Recorded(b)' /\ Reports(b)'
  <2>1. UNCHANGED <<phase, status, first, memory_mappings, end_state,
                    exit_sequences, added>>
        /\ runner = "playing" /\ result' = r /\ runner' = "exited"
    BY <1>6, EndsFrame
  <2>2. Settled
    BY <2>1 DEF Settled, Recording, Made
  <2>3. Ready(b) /\ Recorded(b) /\ added = {}
    BY <1>2, <2>1, <2>2 DEF Reports
  <2>4. Leaves(b)
    BY <2>3 DEF Ready, Leaves, SnapExits
  <2>5. ~PlayFaults(r)
    <3>1. SUFFICES ASSUME PlayFaults(r) PROVE FALSE
      OBVIOUS
    <3>2. touched + 1 \in DOMAIN play.touches
      BY <3>1, PlayFacts DEF PlayFaults, TypeOK, BehaviourRecords
    <3>3. NextPage \in memory_mappings
      BY <2>3, <3>2, <1>1 DEF NextPage, Ready
    <3> QED BY <3>1, <3>3 DEF PlayFaults, Writable
  <2>6. ~PlayStops(r) /\ ~PlayCallsExit(r)
    BY <2>3, <2>4, <1>1 DEF PlayStops, PlayCallsExit, Ready
  <2>7. ~end_state.complete \/ Matching
    BY <2>1, <2>3, <1>1
    DEF PlayInv, EndStateInv, Recorded, Recording, Matching, TypeOK, Phases
  <2>8. (r.kind = "failed" \/ ~disturbed') =>
          r = IF end_state.complete THEN Successful ELSE Mismatch(b)
    <3>1. CASE PlayMatches(r)
      BY <3>1 DEF PlayMatches, Matching, Complete
    <3>2. CASE PlayMismatches(r)
      BY <3>2, <2>7, <1>1 DEF PlayMismatches
    <3>3. CASE PlayLost(r)
      BY <3>3 DEF PlayLost, Successful, InternalError, RunResult
    <3> QED BY <1>6, <2>5, <2>6, <3>1, <3>2, <3>3 DEF RunnerEnds
  <2> QED
    BY <2>1, <2>3, <2>8, ReadyStep DEF Recorded, Recording, Made, Reports
<1>7. CASE MakeReachesEndpoint
  <2>1. /\ phase = "make" /\ phase' = "record" /\ runner = "exited"
        /\ runner' = "idle"
        /\ result.outcome = "kRegisterStateMismatch"
        /\ memory_mappings' = memory_mappings \cup DataMappingDelta
        /\ UNCHANGED exit_sequences
    BY <1>7 DEF MakeReachesEndpoint
  <2>2. touched = Len(b.touches) /\ Leaves(b)
    BY <1>1, <2>1 DEF ResultInv
  <2>3. b.end = "exit" \/ (b.end = "runaway" /\ b.state.pc \in exit_sequences)
    BY <2>1, <2>2 DEF Leaves, SnapExits
  <2>4. memory_mappings' = memory_mappings \cup added
    <3>1. CASE options.compatibility_mode
      <4>1. Cardinality(added) <= 0 /\ IsFiniteSet(added)
        BY <2>1, <3>1 DEF PlayInv, RunnerPages
      <4>2. Cardinality(added) \in Nat
        BY <4>1, FS_CardinalityType
      <4>3. Cardinality(added) = 0
        BY <4>1, <4>2
      <4>4. added = {}
        BY <4>1, <4>3, FS_EmptySet
      <4> QED BY <2>1, <3>1, <4>4 DEF DataMappingDelta
    <3>2. CASE ~options.compatibility_mode
      BY <2>1, <3>2 DEF DataMappingDelta, ReportedPages
    <3> QED BY <3>1, <3>2
  <2>5. b.touches \in Seq(Pages)
    BY <1>1, PlayFacts DEF BehaviourRecords
  <2>6. DOMAIN b.touches = 1..touched
    BY <2>2, <2>5
  <2>7. \A i \in DOMAIN b.touches : b.touches[i] \in memory_mappings'
    BY <1>1, <2>1, <2>4, <2>6 DEF PlayInv
  <2> QED
    BY <2>1, <2>3, <2>7, IdleReports DEF Ready, Recorded
<1>8. CASE MakeAddsPage
  <2>1. /\ phase = "make" /\ phase' = "make" /\ runner' = "idle"
        /\ memory_mappings \subseteq memory_mappings'
        /\ UNCHANGED <<exit_sequences, first>>
    BY <1>8 DEF MakeAddsPage, historyVars
  <2>2. Settled
    BY <2>1 DEF Settled, Recording, Made
  <2> QED
    BY <1>2, <2>1, <2>2, ReadyStep, IdleReports DEF Recorded, Recording, Made
<1>9. CASE RecordEndState
  <2>1. /\ phase = "record" /\ runner = "exited" /\ result.kind = "failed"
        /\ end_state' = Complete(IF result.outcome = "kExecutionMisbehave"
                                 THEN "kSignal" ELSE "kInstruction", result.state)
        /\ runner' = "idle"
        /\ UNCHANGED <<memory_mappings, exit_sequences>>
    BY <1>9 DEF RecordEndState
  <2>2. Settled /\ ~end_state.complete
    BY <2>1 DEF Settled, Recording, EndStateInv
  <2>3. result = Mismatch(b)
    BY <1>2, <2>1, <2>2 DEF Reports
  <2>4. result.outcome = "kRegisterStateMismatch" /\ result.state = ExitState(b)
    BY <2>3 DEF Mismatch, Failed, RunResult
  <2>5. end_state' = Complete("kInstruction", ExitState(b))
    BY <2>1, <2>4
  <2> QED
    BY <1>2, <2>1, <2>2, <2>5, ReadyStep, IdleReports DEF Recorded
<1>10. CASE CheckEndpoint \/ VerifyOneRepeatedly \/ CheckTrace
  <2>1. /\ phase \in {"endpoint", "verify", "trace"}
        /\ UNCHANGED <<memory_mappings, exit_sequences, end_state>>
    BY <1>10 DEF CheckEndpoint, EndpointOk, VerifyOneRepeatedly, CheckTrace,
                 snapshotVars
  <2>2. runner' = "idle"
    BY <1>10 DEF CheckEndpoint, EndpointOk, VerifyOneRepeatedly, CheckTrace,
                 runnerVars, PlayInv
  <2>3. Settled
    BY <2>1 DEF Settled, Recording
  <2> QED
    BY <1>2, <2>1, <2>2, <2>3, ReadyStep, IdleReports DEF Recorded, Recording
<1>11. CASE MakeAgain
  <2>1. /\ Made /\ phase' = "make" /\ runner' = runner
        /\ UNCHANGED <<memory_mappings, exit_sequences>>
    BY <1>11 DEF MakeAgain, Made, runnerVars
  <2>2. runner' = "idle" /\ Settled
    BY <2>1 DEF PlayInv, Made, Settled, Recording
  <2> QED
    BY <1>2, <2>1, <2>2, ReadyStep, IdleReports DEF Recorded, Recording, Made
<1>12. CASE GivesUp
  <2>1. /\ phase' = "done" /\ status' = "error" /\ runner' = "idle"
        /\ UNCHANGED <<memory_mappings, exit_sequences, first>>
    BY <1>12 DEF GivesUp, Fail, snapshotVars, historyVars
  <2>2. ~Recording' /\ Settled
    BY <2>1 DEF Settled, Recording, Made
  <2> QED
    BY <1>2, <2>1, <2>2, ReadyStep, IdleReports DEF Recorded
<1>13. CASE UNCHANGED vars
  <2>1. UNCHANGED <<phase, status, first, memory_mappings, end_state,
                    exit_sequences, runner, added, result, disturbed>>
    BY <1>13 DEF vars, snapshotVars, runnerVars, historyVars
  <2>2. Settled
    BY <2>1 DEF Settled, Recording, Made
  <2> QED
    BY <1>2, <2>1, <2>2 DEF Ready, Recorded, Recording, Made, Reports
<1> QED BY StepKinds, <1>3, <1>4, <1>5, <1>6, <1>7, <1>8, <1>9, <1>10, <1>11,
           <1>12, <1>13

\* Made again, such a snap leaves the maker no way to fail.
LEMMA NoFailure ==
    ASSUME TypeOK, EndStateInv, PlayInv, PagesInv, SettledInv, AgainInv,
           Deterministic, first # NotMade, ~disturbed, NEW b, program = {b}
    PROVE  /\ ~GivesUp
           /\ ~MakeAddsPage
           /\ phase = "make" /\ runner = "exited" => DataMappingDelta = {}
<1>1. Ready(b) /\ Recorded(b) /\ Reports(b)
  BY SettledForm DEF Settled
<1>2. /\ input.has_room /\ input.has_stack /\ input.passes_filters
      /\ Conforms(memory_mappings)
      /\ phase = "done" => Made
  BY DEF AgainInv
<1>3. /\ Mismatch(b).kind = "failed"
      /\ Mismatch(b).outcome = "kRegisterStateMismatch"
      /\ Mismatch(b).cause = "none"
      /\ Successful.kind = "success"
  BY DEF Mismatch, Failed, RunResult, Successful
<1>4. ASSUME runner = "exited"
      PROVE  /\ added = {}
             /\ phase \in {"make", "record"} => result = Mismatch(b)
             /\ phase \in {"verify", "trace"} => result = Successful
  BY <1>1, <1>4 DEF Reports, EndStateInv, RecordedIsComplete
<1>5. ASSUME runner = "exited"
      PROVE  DataMappingDelta = {}
  BY <1>4, <1>5 DEF DataMappingDelta, ReportedPages
<1>6. ~MakeAddsPage
  BY <1>3, <1>4 DEF MakeAddsPage, FixablePageFault
<1>7. ~SnapifyFails
  BY <1>2 DEF SnapifyFails, CanSnapify, EndStateInv, RecordedIsComplete,
              PagesInv, TypeOK, Phases
<1>8. ~MakeFails
  <2>1. CanAddMappings({}) /\ Conforms(memory_mappings \cup {})
    BY <1>2 DEF CanAddMappings, Conforms
  <2> QED BY <1>3, <1>4, <1>5, <2>1 DEF MakeFails
<1>9. ~RecordFails
  BY <1>3, <1>4 DEF RecordFails
<1>10. ~RejectEndpoint
  <2>1. phase = "endpoint" => end_state.type = "kInstruction"
    BY <1>1 DEF Recorded, Recording, Complete
  <2> QED BY <2>1 DEF RejectEndpoint, EndpointOk
<1>11. ~VerifyFails /\ ~CheckTraceFails
  BY <1>2, <1>3, <1>4 DEF VerifyFails, CheckTraceFails
<1> QED BY <1>5, <1>6, <1>7, <1>8, <1>9, <1>10, <1>11 DEF GivesUp

LEMMA AgainStep ==
    ASSUME TypeOK, EndStateInv, PlayInv, PagesInv, InputInv, SettledInv,
           AgainInv, [Next]_vars
    PROVE  AgainInv'
<1> SUFFICES ASSUME Deterministic', first' # NotMade, ~disturbed'
             PROVE  AgainInv'
  BY DEF AgainInv
<1>0. program' = program /\ options' = options /\ input' = input
  BY StepKinds, EndsFrame
  DEF StartRunner, TouchPage, PlayRepeats, MakeReachesEndpoint, MakeAddsPage,
      RecordEndState, CheckEndpoint, VerifyOneRepeatedly, CheckTrace, MakeAgain,
      GivesUp, Fail, MakerUnchanged, fixedVars, vars
<1>1. PICK b \in program : program = {b}
  BY <1>0 DEF Deterministic
<1>2. Deterministic
  BY <1>1 DEF Deterministic
<1>3. CASE MakeAgain
  <2>1. Made /\ first' = Snapshot /\ UNCHANGED memory_mappings
        /\ phase' = "make" /\ status' = "pending"
    BY <1>3 DEF MakeAgain, Made
  <2>2. end_state = Complete("kInstruction", ExitState(b))
    BY <1>1, <1>2, <2>1, SettledForm DEF Settled, Recorded, Recording, Made
  <2>3. input.has_room /\ input.has_stack /\ input.passes_filters
        /\ Conforms(memory_mappings)
    BY <2>1 DEF InputInv, Recording
  <2>4. first' = [pages |-> memory_mappings,
                  end_state |-> Complete("kInstruction", ExitState(b))]
    BY <2>1, <2>2 DEF Snapshot
  <2>5. Conforms(memory_mappings)'
    BY <2>1, <2>3, <1>0 DEF Conforms
  <2> QED BY <1>0, <1>1, <2>1, <2>3, <2>4, <2>5 DEF AgainInv
<1>4. ASSUME first # NotMade, ~disturbed,
             UNCHANGED <<memory_mappings, first>>,
             status' = status \/ status' = "ok",
             phase' = "done" => (phase = "done" /\ UNCHANGED status)
                                \/ status' = "ok"
      PROVE  AgainInv'
  <2>1. /\ first = [pages |-> memory_mappings,
                    end_state |-> Complete("kInstruction", ExitState(b))]
        /\ input.has_room /\ input.has_stack /\ input.passes_filters
        /\ Conforms(memory_mappings)
        /\ status # "error"
        /\ phase = "done" => Made
    BY <1>1, <1>2, <1>4 DEF AgainInv
  <2>2. Conforms(memory_mappings)'
    BY <2>1, <1>0, <1>4 DEF Conforms
  <2>3. status' # "error" /\ (phase' = "done" => Made')
    BY <2>1, <1>4 DEF Made
  <2> QED BY <1>0, <1>1, <1>4, <2>1, <2>2, <2>3 DEF AgainInv
<1>5. CASE StartRunner \/ TouchPage \/ PlayRepeats \/ RecordEndState
           \/ CheckEndpoint \/ VerifyOneRepeatedly \/ CheckTrace
           \/ UNCHANGED vars
  <2>1. /\ UNCHANGED <<memory_mappings, first, disturbed>>
        /\ status' = status \/ status' = "ok"
    BY <1>5 DEF StartRunner, TouchPage, PlayRepeats, RecordEndState,
         CheckEndpoint, VerifyOneRepeatedly, CheckTrace, MakerUnchanged,
         snapshotVars, historyVars, vars
  <2>2. phase' = "done" => (phase = "done" /\ UNCHANGED status) \/ status' = "ok"
    BY <1>5 DEF StartRunner, TouchPage, PlayRepeats, RecordEndState,
         CheckEndpoint, VerifyOneRepeatedly, CheckTrace, MakerUnchanged, vars
  <2> QED BY <1>4, <2>1, <2>2
<1>6. ASSUME NEW r \in RunResults, RunnerEnds(r)
      PROVE  AgainInv'
  <2>1. UNCHANGED <<memory_mappings, first, status, phase>>
    BY <1>6, EndsFrame
  <2>2. disturbed' = disturbed
    BY <1>6 DEF RunnerEnds, PlayFaults, PlayMatches, PlayMismatches, PlayStops,
                PlayCallsExit, PlayLost, historyVars
  <2> QED BY <1>4, <2>1, <2>2
<1>7. CASE MakeReachesEndpoint
  <2>1. /\ UNCHANGED <<first, disturbed, status>> /\ phase' = "record"
        /\ phase = "make" /\ runner = "exited"
        /\ memory_mappings' = memory_mappings \cup DataMappingDelta
    BY <1>7 DEF MakeReachesEndpoint, historyVars
  <2>2. DataMappingDelta = {}
    BY <2>1, <1>1, <1>2, NoFailure
  <2> QED BY <1>4, <2>1, <2>2
<1>8. CASE MakeAddsPage \/ GivesUp
  <2>1. UNCHANGED <<first, disturbed>>
    BY <1>8 DEF MakeAddsPage, GivesUp, Fail, historyVars
  <2> QED BY <2>1, <1>1, <1>2, <1>8, NoFailure
<1> QED BY StepKinds, <1>3, <1>5, <1>6, <1>7, <1>8

-----------------------------------------------------------------------------
(* The theorems                                                              *)

LEMMA InvInit == Init => SnapMakerInv
<1> SUFFICES ASSUME Init PROVE SnapMakerInv
  OBVIOUS
<1>1. TypeOK
  BY TypeInit
<1>2. EndStateInv /\ ResultInv /\ InputInv
  BY DEF Init, EndStateInv, ResultInv, InputInv, Undefined, RecordedIsComplete,
         Made, Recording
<1>3. PlayInv
  BY FS_EmptySet DEF Init, PlayInv
<1>4. PagesInv
  <2>1. InitialPages \ InitialPages = {} /\ InitialPages \cap Reserved = {}
    BY SnapMakerAssumption
  <2>2. Cardinality(memory_mappings \ InitialPages) = 0
    BY <2>1, FS_EmptySet DEF Init
  <2>3. phase = "make" /\ first = NotMade /\ pages_added = 0
        /\ memory_mappings = InitialPages
    BY DEF Init
  <2> QED BY <2>1, <2>2, <2>3, SnapMakerAssumption DEF PagesInv
<1>5. CountInv
  BY DEF Init, CountInv, VerifiedByPlays, Made
<1>6. SettledInv /\ AgainInv
  BY DEF Init, SettledInv, AgainInv, Recording, Made
<1> QED BY <1>1, <1>2, <1>3, <1>4, <1>5, <1>6 DEF SnapMakerInv

\* MakeSnapshot, at every step, is where SnapMakerInv says: what runners have
\* reported, the pages, the counts and, for a snap that always behaves the
\* same, the end state are as the calls made so far imply.
THEOREM Correctness == Spec => []SnapMakerInv
<1>1. SnapMakerInv /\ [Next]_vars => SnapMakerInv'
  BY TypeStep, EndStateStep, PlayStep, ResultStep, PagesStep, InputStep,
     CountStep, SettledStep, AgainStep DEF SnapMakerInv
<1> QED BY InvInit, <1>1, PTL DEF Spec

\* What MakeSnapshot returns as made has a complete end state that all the
\* verifying plays ended in, the pages it asked for and no others, and would
\* be made the same again: SnapMaker::Make, RecordEndState,
\* VerifyPlaysDeterministically and CheckTrace together.
THEOREM MadeSnapshotsAreSound == Spec => []MadeSound
<1>1. SnapMakerInv => MadeSound
  <2> SUFFICES ASSUME SnapMakerInv PROVE MadeSound
    OBVIOUS
  <2>1. RecordedIsComplete /\ VerifiedByPlays
    BY DEF SnapMakerInv, EndStateInv, CountInv
  <2>2. MadePagesFit
    <3> DEFINE Gained == Cardinality(memory_mappings \ InitialPages)
    <3>1. IsFiniteSet(memory_mappings \ InitialPages)
      BY FS_Difference DEF SnapMakerInv, PagesInv
    <3>2. Gained \in Nat
      BY <3>1, FS_CardinalityType
    <3>3. Gained <= IF first = NotMade THEN MaxPagesToAdd ELSE 2 * MaxPagesToAdd
      BY <3>2, SnapMakerAssumption DEF SnapMakerInv, PagesInv, TypeOK
    <3>4. memory_mappings \cap Reserved = {}
      BY DEF SnapMakerInv, PagesInv
    <3>5. Made /\ options.enforce_fuzzing_config =>
            memory_mappings \subseteq ConfigPages
      BY DEF SnapMakerInv, InputInv, Recording, Conforms
    <3>6. Made /\ Deterministic =>
            \A b \in program : \A i \in DOMAIN b.touches :
              b.touches[i] \in memory_mappings
      BY SettledForm DEF SnapMakerInv, Settled, Ready, Recording
    <3> QED BY <3>3, <3>4, <3>5, <3>6 DEF MadePagesFit
  <2>3. Idempotent
    <3> SUFFICES ASSUME first # NotMade, phase = "done", Deterministic, ~disturbed
                 PROVE  status = "ok" /\ Snapshot = first
      BY DEF Idempotent
    <3>1. PICK b \in program : program = {b}
      BY DEF Deterministic
    <3>2. Made /\ first = [pages |-> memory_mappings,
                           end_state |-> Complete("kInstruction", ExitState(b))]
      BY <3>1 DEF SnapMakerInv, AgainInv
    <3>3. end_state = Complete("kInstruction", ExitState(b))
      BY <3>1, <3>2, SettledForm DEF SnapMakerInv, Settled, Recorded, Recording, Made
    <3> QED BY <3>2, <3>3 DEF Snapshot, Made
  <2> QED BY <2>1, <2>2, <2>3 DEF MadeSound
<1> QED BY Correctness, <1>1, PTL

=============================================================================
