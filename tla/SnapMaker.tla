----------------------------- MODULE SnapMaker -----------------------------
(***************************************************************************)
(* runner/snap_maker.cc and runner/make_snapshot.cc: turning a snapshot of *)
(* unknown behaviour into one with the pages it needs and a recorded end   *)
(* state.  MakeSnapshot runs Make, RecordEndState,                         *)
(* VerifyPlaysDeterministically and CheckTrace, each of which starts       *)
(* runners and believes what they report.                                  *)
(*                                                                         *)
(* A snapshot is its data pages and its one end state; its code is the set *)
(* of behaviours it may show when played, one of which is taken each time. *)
(* A behaviour writes to some pages in turn and then ends: in the exit     *)
(* sequence, in a signal, in a system call, or never.  The pages are of    *)
(* the kinds the maker tells apart.  The runner itself is module           *)
(* SnapRunner; here it is what MakeOne, VerifyOneRepeatedly and TraceOne   *)
(* return.                                                                 *)
(***************************************************************************)
EXTENDS Integers, Sequences, FiniteSets

CONSTANTS
    Pages,          \* page addresses
    InitialPages,   \* mapped read-write in the input
    ReadOnly,       \* mapped without write permission in the input
    Unmappable,     \* mmap of such a page fails
    Reserved,       \* ReservedMemoryMappings()
    ConfigPages,    \* writable memory of DEFAULT_FUZZING_CONFIG
    Pcs,            \* program counters: "end" is the endpoint of the input
    Programs,       \* sets of behaviours
    MaxPagesToAdd, NumVerifyAttempts,
    NumIterations   \* --num_iterations of VerifyOptions

Signals == {"SIGTRAP", "SIGILL", "SegvCantWrite", "SegvGeneralProtection",
            "SegvCantExec"}
States == [pc : Pcs, regs : Nat]
BehaviourRecords ==
    [touches : Seq(Pages),
     end : Signals \cup {"exit", "runaway", "syscall", "_exit(0)"},
     state : States]

ASSUME SnapMakerAssumption ==
    /\ {"end", "none"} \subseteq Pcs
    /\ \A p \in Programs : p \subseteq BehaviourRecords
    /\ InitialPages \cup ReadOnly \cup Unmappable \cup Reserved \subseteq Pages
    /\ InitialPages \cap (ReadOnly \cup Unmappable \cup Reserved) = {}
    /\ ReadOnly \cap Reserved = {}
    /\ IsFiniteSet(InitialPages)
    /\ MaxPagesToAdd \in Nat
    /\ NumVerifyAttempts \in Nat \ {0}
    /\ NumIterations \in Nat \ {0}

VARIABLES
    options,      \* compatibility_mode, enforce_fuzzing_config
    input,        \* what Snapify, the trace filters and the fuzzing config's
                  \* permissions make of the snapshot
    program,
    phase,        \* which of the four calls MakeSnapshot is in
    memory_mappings,   \* data pages of the snapshot
    end_state,         \* its only expected end state
    exit_sequences,    \* where Snapify has written exit sequences into it
    pages_added,       \* by MakeLoop, in compatibility mode
    attempt,           \* runs of VerifyOneRepeatedly
    status             \* of MakeSnapshot

\* The runner, while there is one.
VARIABLES
    runner,       \* "idle", "playing" or "exited"
    play,         \* the behaviour taken
    touched,      \* how many of its pages have been written
    iteration,
    added,        \* added_page_addresses
    result        \* the RunResult

\* History.
VARIABLES
    matching_plays,  \* plays since RecordEndState that ended in the end state
    disturbed,       \* a runner was lost, or stopped by ^C
    first            \* the snapshot made before it was made again, if any

runnerVars == <<runner, play, touched, iteration, added, result>>
fixedVars == <<options, input, program>>
snapshotVars == <<memory_mappings, end_state, exit_sequences>>
historyVars == <<matching_plays, disturbed, first>>
vars == <<fixedVars, phase, snapshotVars, pages_added, attempt, status,
          runnerVars, historyVars>>

Phases == {"make", "record", "endpoint", "verify", "trace", "done"}

\* An end state that is not complete is only an endpoint: the pc.
Undefined(pc) == [complete |-> FALSE, type |-> "kInstruction",
                  state |-> [pc |-> pc, regs |-> 0]]
Complete(type, state) == [complete |-> TRUE, type |-> type, state |-> state]

\* kind: "success", "internal" (no player result) or "failed".  page holds the
\* page of sig_address.
RunResult(kind, outcome, cause, page, state) ==
    [kind |-> kind, outcome |-> outcome, cause |-> cause, page |-> page,
     state |-> state]
NoState == [pc |-> "none", regs |-> 0]
NoResult == RunResult("none", "none", "none", {}, NoState)
Successful == RunResult("success", "none", "none", {}, NoState)
InternalError == RunResult("internal", "none", "none", {}, NoState)
Failed(outcome, cause, page, state) ==
    RunResult("failed", outcome, cause, page, state)

Snapshot == [pages |-> memory_mappings, end_state |-> end_state]
NotMade == [pages |-> {}, end_state |-> Undefined("none")]

-----------------------------------------------------------------------------
Init ==
    /\ options \in [compatibility_mode : BOOLEAN,
                    enforce_fuzzing_config : BOOLEAN]
    /\ input \in [has_room : BOOLEAN, has_stack : BOOLEAN,
                  passes_filters : BOOLEAN, config_perms : BOOLEAN]
    /\ program \in Programs
    /\ phase = "make"
    /\ memory_mappings = InitialPages
    /\ end_state = Undefined("end")
    /\ exit_sequences = {}
    /\ pages_added = 0
    /\ attempt = 0
    /\ status = "pending"
    /\ runner = "idle"
    /\ play \in program
    /\ touched = 0
    /\ iteration = 0
    /\ added = {}
    /\ result = NoResult
    /\ matching_plays = 0
    /\ disturbed = FALSE
    /\ first = NotMade

(* The runner                                                                *)

\* CanSnapify: room for the exit sequence, no mapping in reserved memory and,
\* of a complete end state, eight bytes of stack.  CheckTrace does not snapify.
CanSnapify ==
    \/ phase = "trace"
    \/ /\ end_state.type = "kInstruction"
       /\ input.has_room
       /\ memory_mappings \cap Reserved = {}
       /\ phase = "verify" => end_state.complete /\ input.has_stack

\* Snapify writes an exit sequence at the endpoint.  Make and RecordEndState
\* keep the result; VerifyPlaysDeterministically only plays it, and CheckTrace
\* plays the snapshot as recorded.
Snapify ==
    exit_sequences' = IF phase \in {"make", "record"}
                      THEN exit_sequences \cup {end_state.state.pc}
                      ELSE exit_sequences

SnapExits(pc) ==
    pc \in exit_sequences \/ (phase = "verify" /\ pc = end_state.state.pc)

\* --max_pages_to_add
RunnerPages ==
    IF phase = "make" /\ ~options.compatibility_mode THEN MaxPagesToAdd ELSE 0

Iterations == IF phase = "verify" THEN NumIterations ELSE 1

MakerUnchanged ==
    UNCHANGED <<fixedVars, phase, snapshotVars, pages_added, attempt, status>>

Fail ==
    /\ phase' = "done"
    /\ status' = "error"
    /\ runner' = "idle"
    /\ UNCHANGED <<fixedVars, pages_added, attempt, play, touched, iteration,
                   added, result, historyVars>>

SnapifyFails ==
    /\ phase \notin {"endpoint", "done"}
    /\ runner = "idle"
    /\ ~CanSnapify
    /\ Fail
    /\ UNCHANGED snapshotVars

StartRunner ==
    /\ phase \notin {"endpoint", "done"}
    /\ runner = "idle"
    /\ CanSnapify
    /\ runner' = "playing"
    /\ play' \in program
    /\ touched' = 0
    /\ iteration' = 1
    /\ added' = {}
    /\ Snapify
    /\ UNCHANGED <<fixedVars, phase, memory_mappings, end_state, pages_added,
                   attempt, status, result, historyVars>>

RunnerExits(r) ==
    /\ runner' = "exited"
    /\ result' = r
    /\ UNCHANGED <<play, touched, iteration, added>>
    /\ MakerUnchanged

\* The play writes to its next page.
NextPage == play.touches[touched + 1]
Writable(page) == page \in memory_mappings \cup added

\* TryToRecoverFromSignal.
CanAddPage(page) ==
    /\ Cardinality(added) < RunnerPages
    /\ page \notin ReadOnly \cup Unmappable

TouchPage ==
    /\ runner = "playing"
    /\ touched < Len(play.touches)
    /\ \/ Writable(NextPage) /\ UNCHANGED added
       \/ /\ ~Writable(NextPage)
          /\ CanAddPage(NextPage)
          /\ added' = added \cup {NextPage}
    /\ touched' = touched + 1
    /\ UNCHANGED <<runner, play, iteration, result>>
    /\ MakerUnchanged
    /\ UNCHANGED historyVars

PageFault ==
    /\ runner = "playing"
    /\ touched < Len(play.touches)
    /\ ~Writable(NextPage)
    /\ ~CanAddPage(NextPage)
    /\ RunnerExits(Failed("kExecutionMisbehave", "SegvCantWrite", {NextPage},
                          NoState))
    /\ UNCHANGED historyVars

\* The play reaches an exit sequence in the given state.  (A memory mismatch is
\* handled like one of registers.)
Exits(state) ==
    IF end_state = Complete("kInstruction", state)
    THEN /\ matching_plays' = matching_plays + 1
         /\ UNCHANGED <<disturbed, first>>
         /\ IF iteration < Iterations
            THEN /\ iteration' = iteration + 1
                 /\ play' \in program
                 /\ touched' = 0
                 /\ UNCHANGED <<runner, added, result>>
                 /\ MakerUnchanged
            ELSE RunnerExits(Successful)
    ELSE /\ RunnerExits(Failed("kRegisterStateMismatch", "none", {}, state))
         /\ UNCHANGED historyVars

\* A loop is left if Snapify put an exit sequence into it, at its first
\* iteration; otherwise SIGXCPU finds the snap at some point of the loop, and
\* EndSpotToEndpoint makes an instruction endpoint of it.
PlayEnds ==
    /\ runner = "playing"
    /\ touched = Len(play.touches)
    /\ CASE play.end = "exit" -> Exits(play.state)
         [] play.end = "runaway" /\ SnapExits(play.state.pc) ->
              Exits([play.state EXCEPT !.regs = 0])
         [] play.end = "runaway" /\ ~SnapExits(play.state.pc) ->
              /\ RunnerExits(Failed("kExecutionRunaway", "none", {},
                                    play.state))
              /\ UNCHANGED historyVars
         [] play.end \in Signals ->
              /\ RunnerExits(Failed("kExecutionMisbehave", play.end, {},
                                    NoState))
              /\ UNCHANGED historyVars
         [] play.end = "syscall" ->
              RunnerExits(InternalError) /\ UNCHANGED historyVars
         [] play.end = "_exit(0)" ->
              RunnerExits(Successful) /\ UNCHANGED historyVars

\* SIGINT is "sent from the controlling terminal": pretend everything is fine.
\* Any other end of the process is an InternalError, as is not starting it.
RunnerLost ==
    /\ runner = "playing"
    /\ \E r \in {Successful, InternalError} : RunnerExits(r)
    /\ disturbed' = TRUE
    /\ UNCHANGED <<matching_plays, first>>

-----------------------------------------------------------------------------
(* Make                                                                      *)

\* AddMemoryMappings.
CanAddMappings(pages) ==
    /\ pages \cap Reserved = {}
    /\ pages \cap (memory_mappings \cup ReadOnly) = {}

\* The memory bytes of the end state reported: those of the writable mappings
\* and of the pages the runner added.
ReportedPages == memory_mappings \cup added

\* In compatibility mode the runner was not asked to add any.
DataMappingDelta ==
    IF options.compatibility_mode THEN {} ELSE ReportedPages \ memory_mappings

\* All mappings lie in memory of the fuzzing config, and have the permissions
\* it gives there; the pages that are added have.
Conforms(pages) ==
    options.enforce_fuzzing_config => pages \subseteq ConfigPages /\ input.config_perms

\* The snap reached an endpoint: Make keeps the pages and an undefined end
\* state there.
MakeReachesEndpoint ==
    /\ phase = "make" /\ runner = "exited"
    /\ result.kind = "failed"
    /\ result.outcome = "kRegisterStateMismatch"
    /\ CanAddMappings(DataMappingDelta)
    /\ Conforms(memory_mappings \cup DataMappingDelta)
    /\ memory_mappings' = memory_mappings \cup DataMappingDelta
    /\ end_state' = Undefined(result.state.pc)
    /\ phase' = "record"
    /\ runner' = "idle"
    /\ UNCHANGED <<fixedVars, exit_sequences, pages_added, attempt, status,
                   play, touched, iteration, added, result, historyVars>>

\* kSegvCantRead is handled like kSegvCantWrite.
FixablePageFault ==
    /\ result.kind = "failed"
    /\ result.cause = "SegvCantWrite"
    /\ options.compatibility_mode
    /\ pages_added < MaxPagesToAdd
    /\ CanAddMappings(result.page)

\* Mutant: a page that cannot be added is passed over, and not counted.
MakeAddsPage_NotCounted ==
    /\ phase = "make" /\ runner = "exited"
    /\ result.kind = "failed"
    /\ result.cause = "SegvCantWrite"
    /\ options.compatibility_mode
    /\ UNCHANGED memory_mappings
    /\ runner' = "idle"
    /\ UNCHANGED <<fixedVars, phase, end_state, exit_sequences, pages_added,
                   attempt, status, play, touched, iteration, added, result,
                   historyVars>>

\* AddWritableMemoryForAddress, and once more around MakeLoop.
MakeAddsPage ==
    /\ phase = "make" /\ runner = "exited"
    /\ FixablePageFault
    /\ memory_mappings' = memory_mappings \cup result.page
    /\ pages_added' = pages_added + 1
    /\ runner' = "idle"
    /\ UNCHANGED <<fixedVars, phase, end_state, exit_sequences, attempt, status,
                   play, touched, iteration, added, result, historyVars>>

\* Every other way out of MakeLoop and Make is an error.  (What was added to
\* the copy is lost with it.)
MakeFails ==
    /\ phase = "make" /\ runner = "exited"
    /\ ~FixablePageFault
    /\ \/ result.kind # "failed"
       \/ result.outcome # "kRegisterStateMismatch"
       \/ ~CanAddMappings(DataMappingDelta)
       \/ ~Conforms(memory_mappings \cup DataMappingDelta)
    /\ Fail
    /\ UNCHANGED snapshotVars

(* RecordEndState                                                            *)

\* The state the runner reported is recorded, whatever the outcome was.
RecordEndState ==
    /\ phase = "record" /\ runner = "exited"
    /\ result.kind = "failed"
    /\ end_state' = Complete(IF result.outcome = "kExecutionMisbehave"
                             THEN "kSignal" ELSE "kInstruction", result.state)
    /\ phase' = "endpoint"
    /\ runner' = "idle"
    /\ UNCHANGED <<fixedVars, memory_mappings, exit_sequences, pages_added,
                   attempt, status, play, touched, iteration, added, result,
                   historyVars>>

\* A success is no end state: IsComplete refuses the undefined one.  The state
\* of a signal or of a runaway outside executable memory may be refused too.
RecordFails ==
    /\ phase = "record" /\ runner = "exited"
    /\ \/ result.kind # "failed"
       \/ result.outcome \in {"kExecutionMisbehave", "kExecutionRunaway"}
    /\ Fail
    /\ UNCHANGED snapshotVars

EndpointOk == phase = "endpoint" /\ end_state.type = "kInstruction"

\* MakeSnapshot, between RecordEndState and VerifyPlaysDeterministically.
CheckEndpoint ==
    /\ EndpointOk
    /\ phase' = "verify"
    /\ UNCHANGED <<fixedVars, snapshotVars, pages_added, attempt, status,
                   runnerVars, historyVars>>

RejectEndpoint ==
    /\ phase = "endpoint"
    /\ ~EndpointOk
    /\ Fail
    /\ UNCHANGED snapshotVars

(* VerifyPlaysDeterministically                                              *)

\* Mutant: num_attempts - 1 runs.
VerifyOneRepeatedly_OneLess ==
    /\ phase = "verify" /\ runner = "exited"
    /\ result.kind = "success"
    /\ attempt' = attempt + 1
    /\ phase' = IF attempt' < NumVerifyAttempts - 1 THEN "verify" ELSE "trace"
    /\ runner' = "idle"
    /\ UNCHANGED <<fixedVars, snapshotVars, pages_added, status, play, touched,
                   iteration, added, result, historyVars>>

VerifyOneRepeatedly ==
    /\ phase = "verify" /\ runner = "exited"
    /\ result.kind = "success"
    /\ attempt' = attempt + 1
    /\ phase' = IF attempt' < NumVerifyAttempts THEN "verify" ELSE "trace"
    /\ runner' = "idle"
    /\ UNCHANGED <<fixedVars, snapshotVars, pages_added, status, play, touched,
                   iteration, added, result, historyVars>>

VerifyFails ==
    /\ phase = "verify" /\ runner = "exited"
    /\ result.kind # "success"
    /\ Fail
    /\ UNCHANGED snapshotVars

(* CheckTrace                                                                *)

CheckTrace ==
    /\ phase = "trace" /\ runner = "exited"
    /\ result.kind = "success" /\ input.passes_filters
    /\ phase' = "done"
    /\ status' = "ok"
    /\ runner' = "idle"
    /\ UNCHANGED <<fixedVars, snapshotVars, pages_added, attempt, play, touched,
                   iteration, added, result, historyVars>>

CheckTraceFails ==
    /\ phase = "trace" /\ runner = "exited"
    /\ result.kind # "success" \/ ~input.passes_filters
    /\ Fail
    /\ UNCHANGED snapshotVars

-----------------------------------------------------------------------------
\* A made snapshot is given to MakeSnapshot again: Make takes its end state
\* away, the pages stay.
MakeAgain ==
    /\ phase = "done" /\ status = "ok"
    /\ first = NotMade
    /\ first' = Snapshot
    /\ phase' = "make"
    /\ status' = "pending"
    /\ end_state' = Undefined(end_state.state.pc)
    /\ pages_added' = 0
    /\ attempt' = 0
    /\ matching_plays' = 0
    /\ UNCHANGED <<fixedVars, memory_mappings, exit_sequences, runnerVars,
                   disturbed>>

RunnerStep == StartRunner \/ TouchPage \/ PageFault \/ PlayEnds
MakerStep ==
    \/ SnapifyFails \/ MakeReachesEndpoint \/ MakeAddsPage \/ MakeFails
    \/ RecordEndState \/ RecordFails \/ CheckEndpoint \/ RejectEndpoint
    \/ VerifyOneRepeatedly \/ VerifyFails \/ CheckTrace \/ CheckTraceFails

Terminated == phase = "done" /\ UNCHANGED vars

Next == RunnerStep \/ RunnerLost \/ MakerStep \/ MakeAgain \/ Terminated

Spec == Init /\ [][Next]_vars

\* The CPU limit ends every play, and Communicate returns when the runner is
\* gone; nobody owes the maker a second call.
FairSpec == Spec /\ WF_vars(RunnerStep \/ MakerStep)

-----------------------------------------------------------------------------
(* Properties                                                                *)

Deterministic == \E b \in program : program = {b}
Made == phase = "done" /\ status = "ok"

EndStates == [complete : BOOLEAN, type : {"kInstruction", "kSignal"},
              state : States]
RunResults ==
    [kind : {"none", "success", "internal", "failed"},
     outcome : {"none", "kExecutionMisbehave", "kExecutionRunaway",
                "kRegisterStateMismatch"},
     cause : Signals \cup {"none"}, page : SUBSET Pages, state : States]

TypeOK ==
    /\ options \in [compatibility_mode : BOOLEAN,
                    enforce_fuzzing_config : BOOLEAN]
    /\ input \in [has_room : BOOLEAN, has_stack : BOOLEAN,
                  passes_filters : BOOLEAN, config_perms : BOOLEAN]
    /\ program \in Programs
    /\ phase \in Phases
    /\ memory_mappings \subseteq Pages
    /\ end_state \in EndStates
    /\ exit_sequences \subseteq Pcs
    /\ pages_added \in 0..MaxPagesToAdd
    /\ attempt \in 0..NumVerifyAttempts
    /\ status \in {"pending", "ok", "error"}
    /\ runner \in {"idle", "playing", "exited"}
    /\ play \in program
    /\ touched \in 0..Len(play.touches)
    /\ iteration \in 0..NumIterations
    /\ added \subseteq Pages
    /\ result \in RunResults
    /\ matching_plays \in Nat
    /\ disturbed \in BOOLEAN
    /\ first \in [pages : SUBSET Pages, end_state : EndStates]

\* snap_maker.h: RecordEndState returns "a snapshot with exactly one expected
\* end state that satisfies EndState::IsComplete() or an error".  What
\* MakeSnapshot goes on with, and returns, has such an end state at an
\* instruction, even if a runner was stopped by ^C, which RunnerDriver calls a
\* success.
RecordedIsComplete ==
    phase \in {"verify", "trace"} \/ Made =>
        end_state.complete /\ end_state.type = "kInstruction"

\* A snapshot is called deterministic only after num_verify_attempts runners
\* have played it num_iterations times each, and the tracer once more, all
\* ending in the recorded end state.  The snap can spoil this only by calling
\* _exit(0), the environment by stopping a runner with ^C.
VerifiedByPlays ==
    Made /\ ~disturbed /\ (\A b \in program : b.end # "_exit(0)") =>
        matching_plays = NumVerifyAttempts * NumIterations + 1

\* The pages a made snapshot has gained were asked for by it: no more of them
\* than max_pages_to_add per Make, none reserved and, if asked for, all within
\* the fuzzing config; and a snap that always behaves the same finds every
\* page it writes to.
MadePagesFit ==
    /\ Cardinality(memory_mappings \ InitialPages)
         <= IF first = NotMade THEN MaxPagesToAdd ELSE 2 * MaxPagesToAdd
    /\ memory_mappings \cap Reserved = {}
    /\ Made /\ options.enforce_fuzzing_config => memory_mappings \subseteq ConfigPages
    /\ Made /\ Deterministic =>
         \A b \in program : \A i \in DOMAIN b.touches :
            b.touches[i] \in memory_mappings

\* snap_maker_test.cc, Idempotent: making a made snapshot gives it back.  This
\* takes a snap that always behaves the same.
Idempotent ==
    first # NotMade /\ phase = "done" /\ Deterministic /\ ~disturbed =>
        status = "ok" /\ Snapshot = first

\* What MakeSnapshot returns as made can be played: it has a complete end state
\* that all the verifying plays ended in, all the pages it needs and no others,
\* and would be made the same again.
MadeSound == RecordedIsComplete /\ VerifiedByPlays /\ MadePagesFit /\ Idempotent

-----------------------------------------------------------------------------
(* Why it is so: an inductive invariant                                      *)

ExitState(b) ==
    IF b.end = "exit" THEN b.state ELSE [b.state EXCEPT !.regs = 0]
Leaves(b) == b.end = "exit" \/ (b.end = "runaway" /\ SnapExits(b.state.pc))
Mismatch(b) == Failed("kRegisterStateMismatch", "none", {}, ExitState(b))

\* Make is behind the snapshot.
Recording == phase \in {"record", "endpoint", "verify", "trace"} \/ Made

\* Until the end state is recorded nothing can match it; from then on it is
\* the one RecordEndState wrote.
EndStateInv ==
    /\ phase \in {"make", "record"} =>
         ~end_state.complete /\ end_state.type = "kInstruction"
    /\ phase = "endpoint" => end_state.complete
    /\ first = NotMade \/ first.end_state.complete
    /\ RecordedIsComplete

\* A runner plays what CanSnapify let through; the pages the play has written
\* to are there.
PlayInv ==
    /\ IsFiniteSet(added)
    /\ runner # "idle" =>
         /\ phase \notin {"endpoint", "done"}
         /\ \A i \in 1..touched : play.touches[i] \in memory_mappings \cup added
         /\ Cardinality(added) <= RunnerPages
         /\ iteration \in 1..Iterations
         /\ phase # "trace" => input.has_room
         /\ phase = "verify" => input.has_stack

\* A register mismatch is reported by a play that ran to an exit sequence.
ResultInv ==
    runner = "exited" =>
        /\ result.page = {} \/ \E p \in Pages : result.page = {p}
        /\ result.outcome = "kRegisterStateMismatch" =>
             /\ touched = Len(play.touches)
             /\ Leaves(play)
             /\ result = Mismatch(play)

\* Every page is paid for, by a turn of MakeLoop or by the runner's own limit.
PagesInv ==
    /\ IsFiniteSet(memory_mappings)
    /\ memory_mappings \cap Reserved = {}
    /\ Cardinality(memory_mappings \ InitialPages)
         <= (IF first = NotMade THEN 0 ELSE MaxPagesToAdd)
              + (IF phase # "make" THEN MaxPagesToAdd
                 ELSE IF options.compatibility_mode THEN pages_added ELSE 0)

\* What the calls already made have asked of the input.
InputInv ==
    /\ Recording => input.has_room /\ Conforms(memory_mappings)
    /\ phase = "trace" \/ Made => input.has_stack
    /\ Made => input.passes_filters

\* The plays of the runner that is verifying, so far.
PlaysSoFar ==
    CASE runner = "idle" -> 0
      [] runner = "playing" -> iteration - 1
      [] runner = "exited" -> Iterations

CountInv ==
    /\ phase \in {"make", "record", "endpoint"} =>
         attempt = 0 /\ matching_plays = 0
    /\ phase = "verify" => attempt < NumVerifyAttempts
    /\ phase = "trace" => attempt = NumVerifyAttempts
    /\ /\ phase \in {"verify", "trace"}
       /\ ~disturbed
       /\ \A b \in program : b.end # "_exit(0)"
       /\ runner = "exited" => result.kind = "success"
       => matching_plays = attempt * NumIterations + PlaysSoFar
    /\ VerifiedByPlays

\* A snap that always behaves the same, once Make is behind it, has all its
\* pages and its exit sequence, and can only end as recorded.
SettledInv ==
    Deterministic /\ (Recording \/ first # NotMade) =>
        \A b \in program :
            /\ \A i \in DOMAIN b.touches : b.touches[i] \in memory_mappings
            /\ \/ b.end = "exit"
               \/ b.end = "runaway" /\ b.state.pc \in exit_sequences
            /\ Recording /\ phase # "record" =>
                 end_state = Complete("kInstruction", ExitState(b))
            /\ runner # "idle" => added = {}
            /\ runner = "exited" /\ (result.kind = "failed" \/ ~disturbed) =>
                 result = IF end_state.complete THEN Successful ELSE Mismatch(b)

\* And if it is made again, nothing has changed.
AgainInv ==
    Deterministic /\ first # NotMade /\ ~disturbed =>
        /\ \A b \in program :
             first = [pages |-> memory_mappings,
                      end_state |-> Complete("kInstruction", ExitState(b))]
        /\ input.has_room /\ input.has_stack /\ input.passes_filters
        /\ Conforms(memory_mappings)
        /\ status # "error"
        /\ phase = "done" => Made

SnapMakerInv ==
    /\ TypeOK
    /\ EndStateInv
    /\ PlayInv
    /\ ResultInv
    /\ PagesInv
    /\ InputInv
    /\ CountInv
    /\ SettledInv
    /\ AgainInv

\* MakeSnapshot returns: every turn of MakeLoop either leaves it or uses up
\* one of the pages that may be added.
MakeSnapshotReturns == []<>(phase = "done")

=============================================================================
