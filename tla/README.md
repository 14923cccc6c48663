# SiliFuzz in TLA+

SiliFuzz finds CPU defects by running *snapshots*: small programs with a known
start state and a known end state.  A fuzzer and a set of tools make, fix, group
and pack snapshots into a corpus; a runner process executes the snaps of a
corpus and compares end states; a driver starts runners and interprets what
they print and how they end; the orchestrator keeps one runner per CPU busy
and turns thousands of results into one exit status.  The verdict "this CPU is
defective" is only worth something if what is played is what was recorded, no
result is lost on the way, no failure is invented, and none is hidden by a
timeout, a signal or a race.  That is what this project is about.

## Inventory

| Component (source) | State | Operations | Hard parts |
|---|---|---|---|
| Orchestrator (`orchestrator/silifuzz_orchestrator*.{h,cc}`) | result queue, stop flag, deadline, one thread per runner | OfferRunResult, EventLoop, ProcessResultQueue, Stop, RunnerThread, OrchestratorMain | threads; a stop that notifies nobody; results that arrive after the event loop; a queue at its limit; signals and a watchdog |
| Result collector (`orchestrator/result_collector.cc`) | summary counters, error countdown, binary log producer | operator(), LogSessionStart, LogSessionSummary | order of early returns; a log reader that goes away |
| Binary log channel (`orchestrator/binary_log_channel.cc`, `util/byte_io.cc`) | a file descriptor | Send, Receive | partial reads and writes; a process that goes away in the middle of an entry |
| Corpus loading, resource capping (`orchestrator/corpus_util.cc`, `orchestrator_util.cc`, `.._main.cc`) | shards in memory files, limits | main, LoadCorpora, ValidateCorpus, CapResourcesToMemLimit | loader threads, failure of one of many, files and CPUs that change meanwhile, division and rounding |
| Runner (`runner/runner.cc`, `snap_runner_util.cc`, `runner_main.cc`) | the snap context flag, saved contexts, signal mask, added pages | RunSnap, RunnerReentry, SigAction, RunnerMain, RunnerMainSequential, MakerMain | signals at any instruction, a handler left without sigreturn, code that is executed twice |
| Runner driver (`runner/driver/`, `util/subprocess.cc`) | the child process, its output and status | Run, PlayOne, MakeOne, VerifyOneRepeatedly, TraceOne | output cut short by a signal; what an exit code means |
| Harness tracer (`common/harness_tracer.cc`, `util/ptrace_util.cc`) | is_active, the collected status | Attach, Trace, Join | two waits for one child; a ptrace loop whose mode the tracee toggles; stops that only si_code tells apart; death of a stopped tracee |
| Snap maker (`runner/snap_maker.cc`, `make_snapshot.cc`) | the snapshot being made | Make, RecordEndState, CheckTrace, VerifyPlaysDeterministically | stages with retries and different failures |
| Snapshots and memory (`util/range_map.h`, `common/mapped_memory_map.*`, `memory_bytes_set.*`, `memory_state.*`, `snapshot.*`) | interval maps of permissions and bytes, lists of mappings, bytes and end states | the setters and their can_ tests, normalization, SetMemory*, Delta* | interval boundaries; lists and maps that must agree; order of calls |
| Protos and tools (`common/snapshot_proto.cc`, `player/player_result_proto.cc`, `util/ucontext/*serialize*`, `tools/snap_tool.cc`, `tool_libs/fix_tool_common.cc`) | none; the snapshot in a file | ToProto, FromProto, set_bytes, set_pc, set_end, NormalizeSnapshot | a proto from anywhere; a tool that overwrites its input |
| Corpus (`snap/gen/`, `snap/snap_relocator.cc`, `snap_corpus_util.cc`) | data blocks, a relocatable image, mapped memory | Snapify, layout and generation pass, RelocateCorpus, mapping, preparation of memory, comparison | two passes that must agree byte by byte; a file damaged on its way; snaps that overlap |
| Fix pipeline and partitioner (`tools/simple_fix_tool.cc`, `tool_libs/`) | groups of snapshots, counters, threads | ReadUniqueCentipedeBlobs, MakeSnapshotsFromBlobs, PartitionCorpus, WriteOutputFiles | generations of threads without locks; conflict-free placement; results that must not depend on the schedule |
| Tracing (`tracing/`) | the trace, the tracer's insn count and limit | NativeTracer, UnicornTracer, CaptureTrace, AnalyzeSnippet | limits, stops and timeouts in callbacks; state read in one callback and used in another |
| Proxies (`proxies/`) | features of a batch, perf events and their ring buffer, page tables | RunInstructions, ArchFeatureGenerator, PerfEventFuzzer, PerfEventBuffer, PageTableCreator, MemoryStateImage | events that cannot be opened, a runner that dies in the middle, a buffer the kernel fills meanwhile, wrapping offsets |
| Hash tests (`fuzzer/hashtest/`) | worker pool, tests, end states; register and instruction pools | DoWork, WaitForWork, DetermineEndStates, RunTests; SynthesizeLoopBody, SynthesizeTestStep | condition variables, a callback no lock protects, one CPU that computes wrongly while end states are determined; registers that run out |
| Program mutator (`fuzzer/program*`) | instructions and boundaries of two programs | all mutations, FinalizeProgram | branches that no longer reach; passes to a fixed point |
| Instruction decoders (`instruction/`), `util/` | none | predicates on encodings | data |

How they interact: `OrchestratorMain` loads the corpora, starts one
`RunnerThread` per CPU span (`PartitionEvenly`) and runs
`ExecutionContext::EventLoop`.  A worker thread calls `RunnerDriver::Run`,
which starts a runner through `Subprocess`, reads its stdout to the end and
waits for it; the `RunResult` goes through `OfferRunResult` and the queue to
`ResultCollector`, which updates the summary and writes to the binary log, a
pipe to the parent process.  The runner maps and relocates a corpus and plays
its snaps.  `TraceOne` adds a `HarnessTracer` thread that ptraces the runner at
the same time; the native tracer and the PMU proxy are callbacks of it.  The
snap maker calls `MakeOne`, `TraceOne` and `VerifyOneRepeatedly` on one snapshot
after another; the fix tool calls the snap maker from its workers, then the
partitioner, then the corpus generator.

The properties that make each of them correct are listed with the runs below;
the hazards they are aimed at are in `PROJECT.json`, at the line where each
bites.

## Modules

| Module | Models | Notes |
|---|---|---|
| `SpanUtil`, `SpanUtilProofs` | `util/span_util.h` | the spans of PartitionEvenly, for CPUs, blobs, tests and groups; theorems |
| `ResultCollector` | `orchestrator/result_collector.cc` | a result is one of ok, internal, runaway, failed |
| `Orchestrator` | `silifuzz_orchestrator.{h,cc}`, the session part of `.._main.cc` | composes the two above with the threads; one action per critical section or atomic access |
| `ResultStream` | -- | abstract: results are accepted, reported in order, and one verdict is given |
| `OrchestratorProofs` | -- | theorems |
| `BinaryLogChannel` | `binary_log_channel.{h,cc}`, `byte_io.cc` | a byte per step through a bounded pipe |
| `OrchestratorSetup`, `OrchestratorSetupProofs` | `corpus_util.cc`, `orchestrator_util.cc`, `silifuzz_orchestrator_main.cc` | from main() to the worker threads; composes BinaryLogChannel; theorems |
| `SnapRunner` | `runner.cc`, `snap_runner_util.cc`, `runner_main.cc` | one runner process and every signal that can reach it |
| `RunnerDriver` | `runner_driver.cc`, `subprocess.cc` | composes the runner with the driver call that started it |
| `HarnessTracer` | `harness_tracer.cc`, `ptrace_util.cc`, the waiting part of `subprocess.cc` | tracee with every kind of stop, tracer thread, parent thread |
| `SnapMaker`, `SnapMakerProofs` | `snap_maker.cc`, `make_snapshot.cc` | one snapshot through MakeSnapshot, and once more; theorems |
| `CorpusPartitioner` | `corpus_partitioner_lib.cc`, `snap_group.cc`, `thread_pool.h` | the loop of PartitionCorpus and the threads of each iteration's pool |
| `SimpleFixTool`, `SimpleFixToolProofs` | `simple_fix_tool.cc` | reader, make workers, progress monitor; composes CorpusPartitioner; theorems about both |
| `RangeMap` | `util/range_map.h` | operators on a sequence of disjoint ranges; parameters are the template's Methods |
| `MappedMemoryMap` | `mapped_memory_map.*`, `memory_bytes_set.*`, `memory_perms.*` | the three instances of RangeMap |
| `Snapshot` | `snapshot.*`, `memory_mapping.*` | the setters as actions, each behind its can_ test |
| `MemoryState` | `memory_state.*` | three range maps in step, and the deltas computed from them |
| `AddressSpace` | -- | abstract: a function from addresses to permissions and bytes |
| `SnapshotProto` | `snapshot_proto.cc`, `player_result_proto.cc`, register serialization | both directions; a damaged proto is one field away from a sound one |
| `SnapTool` | `snap_tool.cc`, `fix_tool_common.cc` | the commands that edit a snapshot file |
| `PageTable` | `proxies/page_table/` | entries, four levels, the image, and a walk as the hardware does it |
| `Snapify`, `SnapGenerator`, `SnapCorpus` | `snap/`, the memory part of `runner.cc` | from snapshot to corpus file to played memory |
| `SnippetTracer` | `tracing/`, `proxies/unicorn_*`, `arch_feature_generator.h` | an abstract machine under either tracer and each of its clients |
| `TracingProofs` | -- | theorems about HarnessTracer, SnippetTracer and PerfEventBuffer |
| `PerfEventFuzzer`, `PerfEventBuffer` | `proxies/pmu_event_proxy/` | scheduling and measuring of events; the ring buffer |
| `WorkerPool` | `parallel_worker_pool.{h,cc}` | director, workers, two condition variables with spurious wakeups |
| `HashTestRunner`, `HashTestRunnerProofs` | `hashtest_runner{,_main}.cc` | composes the worker pool with the three jobs of a corpus; theorems about both |
| `HashTestSynthesis` | `prefilter.cc`, `candidate.*`, `instruction_pool.cc`, `synthesize_*` | the body of a test, run as it is emitted |
| `Program`, `ProgramMutator` | `fuzzer/program*` | instructions with branch targets; mutations and FinalizeProgram |
| `FuzzingProofs` | -- | theorems about RunnerDriver and ProgramMutator |
| `MC...` | -- | values of constants for TLC, where a .cfg alone cannot give them.  `MCMemory`, `MCTracing` and `MCProgramMutator` also put specifications without common state side by side, each run alone from the initial state |

A name in a module is the name in the source where TLA+ allows it.  Definitions
called `X_Something` with a comment that says "Mutant" are `X` with a plausible
bug; no specification uses them.  They show that each property can fail:
replacing `X` by it makes TLC report the property named in `PROJECT.json`.

### Orchestrator

`mpc` is the position of the main thread in OrchestratorMain, `tpc[t]` that of
worker thread t in RunnerThread.  `queue` is `invocation_results_`; `batch` is
`current_results` of EventLoop.  The interesting primitive is
`LockWhenWithTimeout`.  absl evaluates the condition when it takes the mutex,
and afterwards when some other thread releases the mutex; `notified` records
that such a release found the condition true.  `Stop()`, which signal handlers
call too, only sets an atomic flag, so it does not set `notified`.  Time is the
predicate `expired`, "the deadline has passed", which becomes true at some
moment or never.  A runner is an oracle here; what it may answer is the subject
of `RunnerDriver`.  The history variables `accepted`, `dropped`, `played`,
`late`, `interrupted` are only read by properties, by the bound `MaxRuns`, and
not by the code modelled.

### OrchestratorSetup and BinaryLogChannel

`pc` is the position in main() and OrchestratorMain; each loader thread takes
its shards in turn.  Between any two steps a shard file may be replaced, a CPU
may be taken away and a system call may fail, `MaxFaults` times in all.  The
worker threads are reduced to the results that reach the collector.  A byte in
the pipe knows which entry and which part of it it belongs to, so that
misframing would show as an entry that was never sent.  The pipe holds fewer
bytes than an entry has; the parent may stop reading, close its end, or go on.
The watchdog ends the process between any two writes.

### SnapRunner and RunnerDriver

`pc` is the position in RunSnap and the mains.  `enter_snap_context` is the flag
behind `IsInsideSnap()`.  `runner_return_context` tells whether the saved context
is that of this call of RunSnap, of an earlier one, or none: a signal in the
window between setting the flag and saving the context jumps to whatever is
there, and what then happens is undefined behaviour, modelled as a choice
between going on with the old or the new local variables and crashing.
`timeouts_blocked` is the part of the signal mask that the handler leaves behind
because it is left by a context restore.  A snap is how it ends; `stdout` is the
sequence of messages printed.  `HandleRunnerOutput` maps stdout and status to a
result with the decisions of the code in the order of the code.

### HarnessTracer

The tracee is a runner with `--enable_tracer`; `in_window` is its view of
whether it is between its two SIGSTOPs, `is_active` the tracer's.  The status of
the child goes to whoever waits first; `tracer_info` is what the tracer thread
got, `info` what Communicate got, zero ("exit 0") if it came second.

A stop is a SIGSTOP, a system call, a signal of `Signals`, or a SIGTRAP with an
`si_code`; `by_step`, which the code cannot see, tells whether the SIGTRAP is the
tracer's doing.  `Reason` makes the tests of Trace in their order: the bogus trap
of aarch64, SI_KERNEL and SI_USER or kSyscall (the tracee's own trap), the three
codes taken for a step, and LOG_FATAL for any other (`UnexpectedTrap`).  A step
may report each of the codes that the comments there say were seen
(`StepCodes`), a trap of the tracee each code that int3, kill, tgkill, icebp or a
breakpoint give it (`OwnCodes`); both are nondeterministic.  `trap_flag` is the
flag in the tracee's own EFLAGS, which a popfq of a stepped tracee sets and which
makes it stop on, PTRACE_CONT or not, until SuppressX86Trap clears it.
`swallowed` and `spurious` record what TracerTransparent is about: signals
withheld from the tracee, and SIGTRAPs of the tracer's making handed to it.

### SnapMaker

A snapshot's code is not modelled; `program` is the set of behaviours it may
show, and each play takes one of them.  A behaviour writes to pages in turn and
then ends: at the exit sequence with some register state, in a signal, in a
system call, in `_exit(0)`, or never.  With one behaviour the snap is
deterministic, with two it is not, which is what Make, RecordEndState and the
verification can disagree about.  Pages are of the kinds the maker tells apart
(mapped, read-only, impossible to map, reserved, within or outside the fuzzing
config).  The runner is reduced to what MakeOne, VerifyOneRepeatedly and
TraceOne return; `RunnerLost` is a runner that cannot be started, is killed, or
is stopped by ^C, which HandleRunnerOutput calls a success.  `MakeAgain` gives a
made snapshot to MakeSnapshot once more.  That its mappings lie in the fuzzing
config, and that they have the permissions the config asks for
(`config_perms`), are two inputs, tested one after the other.

### CorpusPartitioner and SimpleFixTool

`pc` is the position in PartitionCorpus and SnapshotPartition::PartitionSnapshots,
`queue` and `thread` are the ThreadPool.  A step of a pool thread handles one
summary; that this may be one step is what ChunksDisjoint justifies, since no
other thread touches that summary or that group.  In SimpleFixTool a blob is the
id of its snapshot, and whether it can be made is decided when a worker comes to
it.  A worker's step is one blob, with the batched update of
`num_blobs_processed`; the monitor reads the flag and prints the count in two
steps.  PartitionDeterministic compares the outcome with a definition that knows
nothing of threads or iterations: the even spans of the sorted corpus, each
filled greedily.

### Memory: RangeMap to PageTable

A range map is the sequence of its ranges in key order, and `Add`, `Remove`,
`Intersect` and the rest split, merge and drop ranges as the loops of the class
do.  `snap` is a Snapshot: the lists in the order of the calls, and the maps
beside them.  Each setter is an action guarded by its can_ test, and the
setters without one (perms, normalization) are unguarded.  `mem` is a
MemoryState, `perms` and `bytes` of AddressSpace are read off it address by
address.  The properties quantify over everything that can be done to a
reachable snapshot without keeping it: `ProtoFaithful` writes it to a proto,
damages one field and reads it, and compares all a loaded snapshot says with the
proto, end states by endpoint, registers, bytes and platforms;
`ToolOutputIsRight` gives it to every command of the tool and compares what was
written with what was there, in what the command is to set and in all the rest;
`DeltasRight` asks for the commands to every snapshot and compares
their effect with that of setting it directly.  In PageTable `Walk` is what the
hardware does with the tables, the reference that `TranslationRight` compares
the creator with, for both layouts of entries.

### Snapify, SnapGenerator, SnapCorpus

The image is a function from addresses to objects with sizes and fields that
hold addresses relative to a load at 0.  `stage` is how far the file got: made,
damaged or not, mapped at some address, relocated and checked, its memory
mapped, a snap prepared, played.  Damage cuts the file, puts another in
its place or changes a byte, a pointer or a count; which check notices is the
question.  A file of another architecture or version has the right checksum, so
that the checks of the header are what stands between it and a play; a file cut
to nothing, and an mprotect that fails, have errors of their own.  Snaps of one corpus may overlap as the partitioner allows.

### SnippetTracer, PerfEventFuzzer, PerfEventBuffer

A snippet runs on a machine with as many registers and bytes as the tracers can
tell apart; `Reference` is its execution without any tracer.  `use` says which
tracer and which client, and `job` whether the trace is the first or one that
skips an instruction.  An instruction "???" is executed like any other but not
known to the disassembler, for which its size is 0.  `hiccups` are wall-clock timeouts and dying runners.  The
PMU proxy works through its scheduling queue with the callback of the tracer;
opening an event, the runner and a measurement may fail `MaxFaults` times.  The
kernel writes records to the ring buffer between any two reads; offsets count
modulo a power of two, twice the buffer, so that they wrap.

### WorkerPool and HashTestRunner

An action is what a thread does from acquiring the mutex to waiting or
releasing it.  `asleep` and `director_asleep` are the two condition variables;
waking up without a signal is always possible.  `epoch_` counts modulo
`EpochModulus`.  HashTestRunner gives the pool its jobs (synthesize, end states,
run) with a step of a worker per test or batch; a CPU in `bad` may compute any
hash each time.

### Program, ProgramMutator, HashTestSynthesis

An instruction is its size, the width and value of its displacement and the
boundary it should lead to.  Everything random is a choice, every mutation an
action, and FinalizeProgram goes pass by pass.  In HashTestSynthesis a register
is a bank and an index, pools are sets of registers; code is executed on one
path while it is emitted, with `values` the entropy each register holds.  The
pool is filled as the code does it: a dead register of each bank is popped, the
candidate's registers are popped from the rest for each width, and a CHECK that
fails there ends the generator with that candidate in `step`, as one that fails
in a test step does.  `SynthesisFits` holds the failing candidate itself, and no
other, responsible.

## Runs

A property marked with * is also proved, for every value of the constants.

| Run | Instance | Shows |
|---|---|---|
| `orchestrator_threads` | 2 threads, 3 CPUs, 3 runs, watchdog | ResultsConserved* (nothing lost, duplicated or reordered); ExitCodeTruthful*; AtMostOneLateRun*; CpuExclusive*; StreamSpec* (refinement of ResultStream) |
| `orchestrator_sequential` | 1 thread, 3 shards, 4 runs, with and without a log, fairness | ScanAndLogComplete* (every shard played, the log whole or a prefix); Shutdown (a stop request ends the process) |
| `orchestrator_setup` | 2 shard files, 2 CPUs, 1 fault, 1 result, fairness | SetupSound* (intact shards only, within the limits, aborts only for the listed causes); LogFramed* (what the parent reads is a prefix of what was sent, entry by entry); SessionEnds |
| `runner_driver` | all three modes, 2 snaps, 2 iterations, 3 pages, fairness | VerdictSound* (no snap after a timeout, verdicts justified, failures not missed, a pass means all ran, pages bounded); TimeoutEndsRun |
| `snap_maker` | snaps with every kind of end, one or two behaviours each, both modes, 2 pages to add, 2 x 2 verifying plays, fairness | MadeSound* (end state complete, verified by plays, pages fit, idempotent); MakeSnapshotReturns |
| `simple_fix_tool` | 5 ids in 2 inputs, 2 workers, 3 groups, 2 pool threads, 2 iterations, fairness | CorpusFromBlobs* (all blobs made and counted once, in order; every snapshot in one shard or counted as ungrouped); GroupingSound* (chunks disjoint, groups free of conflicts, deterministic); LaterIterationsAddNothing*; FixupCorpusEnds |
| `memory` | 8 addresses, pages of 2 bytes, 3 calls | SnapshotGuarantees (its part NegativesStayApart: no call but set_memory_mapping_perms() makes a mapping and a negative mapping conflict); DeltasRight; ProtoFaithful; ToolOutputIsRight; TranslationRight; AddressSpaceSpec (refinement of AddressSpace) |
| `corpus` | 6 pages of 4 bytes, up to 2 snaps, 2 load addresses, 3 sets of options, damage | CorpusRoundTrips; PlaysTheSnapshot; StrictFindsDamage |
| `tracing` | 3 snaps, 2 signals and SIGTRAPs of 7 si_codes, both modes and architectures; snippets of a few instructions, 2 limits, 2 inputs; 4 events of 3 sources on 2 counters; a ring of 8 units; fairness | StatusNotLost*; TracerTransparent*; CaptureFaithful*; CriticalIsReal*; ProxyOutputTrue (features, counts, records); TracingReturns |
| `hashtest` | 3 workers, epoch of one bit, 2 tests, a bad CPU or two, fairness | AllWorkersDidTheJob*; JobsFindTheirInput*; OnlyBadCpusSuspected*; RunnerEnds |
| `program_mutator` | small programs of both architectures, branch fields of 2 and 3 bits, every mutation; register layouts of a few registers; fairness | MutationSound* (checks hold, output decodes, branch targets kept); SynthesisSound (registers hold the entropy the generator takes them to hold, registers and instructions suffice); MutatorEnds |
| `pmu_sanity_checks` | violation | the destructor's "Sanity checks to catch programming errors" end the proxy when a runner died in the middle of a measurement, which is no programming error |

### Bounds and why they are enough

* 2 threads and 3 runs fill the queue (capacity 2) once and drop a result, leave
  results for the final drain, and let one thread stop while another runs.
  3 CPUs over 2 threads make spans of different sizes.  `FailAfterChoices`
  {0, 2} has a limit that is already passed and one that is reached in the
  middle of a batch.  `MaxRuns` bounds the model only; a thread at the bound
  waits, as if its runner took long.
* Setup: limits below, at and above what two shards need; a pipe of 2 bytes is
  smaller than every entry and as large as a header, so that a writer blocks
  within and between the two.  One fault at any place is enough, as no code path
  handles a second one differently.  `hardware_concurrency()` may be 0.
* 2 snaps and 2 iterations are enough for a context of an earlier RunSnap of the
  same or of another snap.  `kMaxAddedPageAddresses` = 2 < `MaxPagesToAdd` = 3 =
  number of pages, so that both limits are met.  The code's values (the array
  has many more elements) only change the numbers.
* The snaps of `MCSnapMaker` touch up to three pages where two may be added, in
  each combination of kinds; two verifying runners with two plays each tell an
  attempt from an iteration.
* 5 snapshots in 3 groups make chunks of 2, 2 and 1; fewer are made when a worker
  fails, so that all smaller corpora occur too.  3 groups on 2 threads leave one
  task queued behind another.  The mappings have conflicts within a chunk, so
  that the second iteration is offered snapshots again, and writable pages with the same and
  with different permissions.  `kMinCountUpdateSize` = 2 instead of 100 makes
  workers flush in the middle, at the end, and both.
* Memory: three calls with mappings of one and two pages that touch, overlap and
  contain one another, and bytes that cross a page and a mapping.  Address 7 is
  the last one, where `start + size` is one past what an address holds.  Lists of
  two entries (`MaxListed`) suffice for order and overlap.  Tables with two
  entries and four levels span 16 pages; the mappings put into them share tables
  at each level, and one physical address lies beyond the physical space.
* Corpus: alignment of 2 in pages of 4, runs of 2 equal bytes; two snaps that
  share a page, and one that cannot be snapified; load addresses that do and do
  not collide with the runner's own mappings.
* Tracing: 3 snaps make three windows; the state between two windows is the same
  for all of them.  `Limits` below and above the length of the snippets; `Fuel`
  steps cover every terminating one.  Records of 3 and 5 units in a ring of 8
  wrap at each offset; 6 records wrap the offsets too.
* Hash tests: three workers are the least for which a majority exists; two bad
  CPUs show that the claim needs "at most one".  An epoch of one bit is the
  hardest case for "the epoch changed": the code's 32 bits are covered by the
  proofs, for every modulus above 1.
* Mutator: programs with forward and backward branches whose fields of 2 and 3
  bits cannot reach across all of the program, and x86_64 encodings that grow and
  shrink when they are canonicalised; `MaxLen` is less than two inputs spliced
  need.  `MaxRepeat` = 2 and `RetryLimit` = 1 stand for the code's 4 and 128: the
  turns are independent of one another, and a failed attempt changes nothing.
  Synthesis: five chips.  One has registers enough; one has one too few for PDEP
  once a mix register is set aside, so that the pool takes it and a step dies of
  it; one has too few even while the pool is filled; one has vector and one mask
  registers.  All have MMX registers, as the code takes for granted.  The
  constant `Interleavings` bounds the orders in which the schedules of the banks
  are merged: all of them for chips with two banks, and two for the others, the
  banks in turn and one after another.

### Fairness

Threads that can go on do (weak fairness of the main thread, each worker, the
tracer, the parent, the director, each pool worker, each make worker, the
progress monitor, each thread of the partitioner's pool, each loader thread),
which is what the operating system's scheduler gives.  The 10 s timeout of the
event loop elapses, and so do the time limits of the hash test runner.  A runner
returns, because it is started with a CPU limit and a timer; the emulator
returns, because it is given a timeout.  A parent that has the log open reads
on or closes it.  Strong fairness is assumed twice: a random draw that is
repeated until it can be encoded (`RandomizeEncodable`) hits an encodable value
if one exists, with probability 1 in the code; and a worker that runs tests
looks at the clock again and again (`RunTest(w, TRUE)`), since the number of
tests until its next look is finite.  No fairness is assumed of the
environment: snaps need not end, signals need not come, nobody is owed a
spurious wakeup, callers need not call again, faults need not happen.

## Proofs

All theorems hold for every value of the constants that satisfies the named
assumptions of the modules (`OrchestratorAssumption`, `CollectorAssumption`,
`TracerAssumption`, `PoolAssumption`, `HashTestAssumption`, `RunnerAssumption`,
`DriverAssumption`, `SnapMakerAssumption`, `PartitionerAssumption`,
`FixToolAssumption`, `ChannelAssumption`, `SetupAssumption`, `FileAssumption`,
`SnippetTracerAssumption`, `PerfEventBufferAssumption`, `ProgramAssumption`,
`MutatorAssumption`):
any number of threads, workers, CPUs, shards, snaps, pages, tests, blobs, groups,
runs, retries and signals, files and pipes of any size, snippets and
programs of any length.
Nearly all of them say which values have the right type.  The others
are: `NumCpus >= NumThreads` (OrchestratorMain starts no more threads than there
are CPUs); workers are numbered 0 to n - 1; a wrong hash is not the value that
stands for "could not be computed", which the code calls astronomically
unlikely; reserved, read-only and unmappable pages are not among those of the
initial snapshot; the size of the ring buffer divides the number of offsets (both
are powers of two) and no record is larger than the buffer; the program length limit
of the mutator is below `displacement_fixup_limit`, which is 2^64-1 unless given
(`program.h:103`); what is generated is an instruction the filter accepts; the field of a branch
whose size the encoder changes holds that change (8 bits at least, and no
instruction is longer than 15 bytes; AArch64 instructions keep their size); and two bounds of the
models are large enough, `MaxJobs` for the jobs of all corpora and `Fuel` for an
execution of as many instructions as the limit of a tracer.  TLC finds every inductive invariant true of the instance its
component's run uses.

* **OrchestratorProofs.**  `OrchestratorInv` is inductive: types, what each phase
  may still hold (PhaseInv), conservation of results, the queue bound, what
  `num_failed_snapshots` counts (FailuresCounted), the error limit, LateInv, what
  a sequential scan has played (ScanInv), and that the log is what the session
  should have written so far or, without a reader, a prefix of it (LogInv).
  ResultsConserved alone is not inductive: at the return one also has to know
  that every thread was joined before the drain, which is PhaseInv; and the
  truth of the exit status needs the link from the counter to the results that
  have been collected, which is FailuresCounted.  From it: TypeCorrect,
  NoResultLost, QueueStaysBounded, QueueEmptyAtExit, ExitCodeCorrect,
  ErrorLimitStops, OneLateRun, ScanAndLogCorrect, CpusNeverShared (by the
  disjointness of the spans, below), and ImplementsStream, the step simulation for
  ResultStream with `reported <- play_count` and `verdict <- exit_code`.
* **TracingProofs.**  First HarnessTracer.  `TracerInv`: ToggleInv says what a stopped tracee
  means for the two views of the window; StepInv says that only an active tracer
  steps, that a trap flag left behind does not outlive the window, and which
  codes a stop by a step and a trap of the tracee may have; StatusInv says which
  of the two waits can have collected the status; SignalsPassedOn is inductive
  beside them.  From it: StatusCorrect, and TogglesAgree, which states
  TracerTransparent: of the tracee's own signals only a SIGTRAP with an si_code
  of a step can be lost, and only while it is single-stepped.
  Then the analysis of a snippet under either tracer: TraceIsFaithful states
  CaptureFaithful and CriticalInstructionsAreReal states CriticalIsReal.  An
  execution is a function of the number of steps; by induction on that number it
  stays within the types, it stops where it first ended, and the execution from a
  state of it is the rest of it.  `SnippetInv` says that while CaptureTrace runs the
  machine is where the reference is after as many instructions as the trace has
  (CaptureInv), and in a fault injection that it goes along the reference up to the
  instruction to leave out and along the execution without it from there on
  (InjectInv): one callback behind under Unicorn, which calls back again after the
  skip.  So what the tracer reads at the end is the end of that execution, or the
  limit, a fault, a timeout or a dead runner kept it from getting there; the report
  says so in every case (ReportIsReal).  "Without it" is what the code does: the
  instruction pointer moves by InstructionSize(), which for an instruction the
  disassembler knows is its size.  For one it does not know it is 0, the execution
  without it is the reference itself, and the theorem says what is then reported.
  Last the ring buffer: RecordsAreInOrder.  `BufferInv` gives every record a true
  offset that never wraps; head, tail and view are true offsets modulo the width of
  an offset (Offsets), and what lies between tail and head is in the ring at its true
  offset modulo the size (Contents).  As the size divides the width, both
  reductions agree, a distance that is smaller than the width is exact, and a unit
  the kernel writes is less than one buffer ahead of the tail, so it lies on none
  that is unread.  TLC cannot enumerate the offsets BufferInv quantifies over; it
  was checked with the partial sums of the sizes in their place.
* **SpanUtilProofs.**  PartitionIsEven: the closed form for offset and size of a
  span satisfies the step of PartitionEvenly's loop, spans follow one another,
  the last one ends at the end, sizes differ by at most one.  The induction is
  over a set of numbers with a least element, as an induction rule with an
  operator as its parameter cannot be used.  The module also has the lemmas about
  sequences and partial sums that most of the others rest on.
* **FuzzingProofs.**  First RunnerDriver: VerdictsAreSound states VerdictSound.
  `RunnerDriverInv` adds to it: what flag, saved context and signal mask are at
  each place of RunSnap, whichever signal came when (ControlInv); that what the
  runner recorded of a snap is what the snap did, unless a timeout met it in the
  window in which that is undefined (OutcomeInv); counters; that each message
  printed, and the exit code, is true (OutputInv); and where the driver is in its
  attempts (DriverInv).  The verdict follows from messages and status alone,
  because those are all HandleRunnerOutput sees.
  Then ProgramMutator: MutantsAreSound states MutationSound.  `MutatorInv` says that
  every instruction is an accepted encoding with its boundary inside the program,
  and that the displacement known is the one in the bytes (ProgramInv): each edit
  keeps this while it renumbers the boundaries.  During FixupEncodedDisplacements
  (PassInv) what lies before the instruction at hand is in place, what lies behind
  it is as the pass before left it, and if nothing has moved in this pass the
  branches before it lead where they should.  A pass that moved something has
  brought at least one more instruction to the size the encoder gives it, so there
  are no more such passes than instructions, which is why the CHECK on the number
  of iterations holds.  After a pass in which nothing moved every branch is right
  (SettledInv).  Starts of instructions increase strictly, so the boundary nearest
  to a target is unique and the bytes decode to the program they came from.
* **SnapMakerProofs.**  MadeSnapshotsAreSound states MadeSound.  `SnapMakerInv`
  says when the end state is complete, which pages a play may rely on and who
  paid for each added page (a turn of MakeLoop, or the runner's own limit), what
  each call already made has asked of the input, and how many plays matched.
  SettledInv and AgainInv carry the last part: a deterministic snap, once Make is
  behind it, has all its pages and can only end as recorded, so making it again
  changes nothing.
* **OrchestratorSetupProofs.**  SetupIsSound states SetupSound and LogIsFramed
  states LogFramed.  `SetupInv` says that the shards and runners chosen fit the
  limit by the estimate (ResourcesInv); that a loaded shard is what some file held
  when it was read, and an intact corpus once it has been validated, however often
  the files were replaced (ShardsInv); that the spans dealt to the threads are not
  empty and disjoint (ThreadsInv); and from which place the process may have sent
  or died (ProcessInv, AbortsForCause).  The limit on the sum of the shards follows
  because each is at most the estimate, or one of them is larger, which is the case
  the property names.  `ChannelInv` is about the stream of bytes: byte k behind what
  was received, in the reader's buffer, the pipe or the writer's hands, is the byte
  of the entry begun that lies there (StreamInv).  Where entries lie is given by
  partial sums of their sizes; that sums of positive numbers increase strictly
  makes the place of a byte unique.
* **SimpleFixToolProofs.**  First the partitioner by itself: GroupingIsSound states
  GroupingSound, and OneIterationIsEnough states LaterIterationsAddNothing.  Three
  facts carry `PartitionerInv`.  The list and the groups have the whole corpus
  between them at every step, so the target sizes of every iteration are the sizes
  of the even spans of the corpus.  In the first iteration the chunk of a group is
  its span, worked through in order by one thread (OwnerInv, ProgressInv).  In a
  later one it is what that left of the span, found by counting, none of which
  goes with the group.  So the result does not depend on the schedule.
  Then FixupCorpus: CorpusIsMadeFromBlobs states CorpusFromBlobs.  `FixToolInv`
  says of each worker that the snapshots it has are the kept ones of the blobs it
  has passed in its span, of the joins that they have concatenated what the
  workers joined so far kept, and of the progress count that it is the number of
  blobs behind the workers less the updates they still hold back, a cardinality of
  disjoint sets of positions.  The monitor's last line is complete because the flag
  is set after the joins and read before the count.  FixToolPartitions shows that
  the tool's steps are steps of PartitionCorpus, on a list without duplicates; so
  what was proved of the partitioner holds in the tool (FixToolGroupsAreSound), and
  the counters of the output follow by counting places in groups.
* **HashTestRunnerProofs.**  First the pool by itself: CountInv identifies
  `num_workers_running_` with the workers that have yet to check in, a
  cardinality; PhaseInv ties the position of the director to those of the
  workers.  From them: CheckInNeverFails, CallbackNeverRaces, DoWorkIsABarrier.
  Then TestMainUsesThePool: every step of TestMain and its
  callbacks is a step of WorkerPool, so its theorems carry over.  `HashTestInv`
  adds that DoWork is a barrier between the jobs, that the partitions of tests are
  disjoint and cover all tests, that the three copies of an end state come from
  three CPUs, and that a majority of three with at most one bad is right.  From
  it: JobsAreOrdered and GoodCpusAreNeverSuspected.

Only model-checked, and why:

* the liveness properties (Shutdown, SessionEnds, TimeoutEndsRun,
  MakeSnapshotReturns, FixupCorpusEnds, TracingReturns, RunnerEnds, MutatorEnds):
  liveness under fairness is out of the prover's reach;
* SnapshotGuarantees, DeltasRight, ProtoFaithful, ToolOutputIsRight,
  TranslationRight, the refinement of AddressSpace, CorpusRoundTrips,
  PlaysTheSnapshot, StrictFindsDamage, SynthesisSound: they say what a recursion or a
  fold over ranges, bytes, blocks or instructions computes, which needs induction
  over data;
* ProxyOutputTrue: its parts about features and event counts likewise; its part
  about the ring buffer, RecordsInOrder, is proved.

## Behaviour worth knowing

The models show behaviour that is easily overlooked.  Some of it is by design,
some at odds with a comment.

Orchestrator and log:

* a result that meets a full queue is dropped, so the callback does not see
  every result (`silifuzz_orchestrator.cc:81`); the watchdog ends the process
  with EXIT_SUCCESS whatever was collected;
* `--fail_after_n_errors` says "Fail soon after detecting this many errors.", yet
  a session that internal errors stopped exits with success
  (`silifuzz_orchestrator_main.cc:132`, `:320`);
* an empty largest shard file under a memory limit is a division by zero in
  CapResourcesToMemLimit; `hardware_concurrency()` = 0 and a CPU lost between
  counting and dealing end in a CHECK (the fix tool's pool and make workers
  assume it is not 0 too, `simple_fix_tool.cc:207`, and so do the assumptions of
  its modules);
* WriteSharedMemoryFile does not seal against writes, though `corpus_util.h` says
  "seals it to protect it from modification";
* the watchdog is armed after LogSessionStart, so a parent that never reads can
  hold the orchestrator for ever before it; a write error from which the
  descriptor recovered would misframe the log; a short body is reported with a
  stale errno.

Runner, tracer, maker, fix tool:

* SIGXCPU inside a snap ends in exit code 1 with a runaway report, and in 2 only
  outside a snap (`runner.cc:244`); a timeout after a failing snap turns exit
  code 1 into 2, against the comment at `runner.cc:79`;
* `enter_snap_context` is set before the snap is entered, so a signal in between
  is reported as that snap's (`snap_runner_util.cc:169`);
* a traced runner that is killed while it is stopped takes the driver with it, by
  way of PTraceOrDie; after kStopTracing the callback still hears of signals
  (`harness_tracer.h:96`, `harness_tracer.cc:219`);
* a single-stepped tracee does not get a SIGTRAP that icebp raised, as its si_code
  is one of a step's: `harness_tracer_test.cc:197` expects "except icebp is not
  properly handled by the tracer", `harness_tracer_test_helper.cc:120` has a TODO
  for it.  A SIGTRAP sent by tgkill (SI_TKILL) ends the driver with LOG_FATAL
  (`harness_tracer.cc:190`).  The trap flag that a popfq leaves is cleared when
  tracing stops, but not when the callback asks for SIGUSR1: the stops it goes on
  causing reach the callback until the closing SIGSTOP (`harness_tracer.cc:216`);
* RecordEndState accepts a runaway, whose endpoint is an instruction like any
  other, and leaves it to the verification to refuse it (`snap_maker.cc:145`); a
  runner stopped by ^C is a successful verification (`runner_driver.cc:173`);
* a snapshot refused by FixToolWorker's last Snapify is in no counter
  (`simple_fix_tool.cc:121`); a snapshot may stay ungrouped although a group
  could take it, since each iteration offers a group what it has already
  rejected (`corpus_partitioner_lib.h:27`).

Snapshots, protos, tools, corpus, page tables:

* set_memory_mapping_perms() (`snapshot.cc:310`) can break what negative mappings
  and registers were tested for, after which the snapshot cannot be loaded from
  its proto, though negative mappings are "Guaranteed to be disjoint and not
  conflict with memory_mappings()" (`snapshot.h:229`).  SnapshotGuarantees names
  it as the one exception; it has no caller in the repository;
* NormalizeMemoryBytes() can make two end states alike, so that a snapshot
  written by snap_tool may not load again ("duplicate"); set_end, "a way to
  manually replace snapshot's end-state(s) by one specific endpoint address"
  (`snap_tool.cc:388`), dies of its own CHECK_STATUS for any snapshot with
  negative mappings, which the fix tool clears first and set_end does not, and it
  refuses an address at which the snapshot already has an undefined end state,
  instead of dropping the others.  ToolOutputIsRight leaves the first case open
  and demands the second;
* unknown platform bits of a proto are dropped silently (`snapshot_proto.cc:336`):
  ProtoFaithful compares the platforms that have an id; ForgetMemoryBytes breaks
  the "Same set of address ranges" of `memory_state.h`; DeltaMemoryMappings
  intersects permissions over a range it merged;
* the claim on the alignment of page data (`relocatable_snap_generator.cc:258`)
  does not hold for deduplicated bytes;
* table pages beyond the 48 bits of physical space are truncated silently; every
  mapped page is readable through the tables.

Proxies, tracing, hash tests:

* PMU: the comparator SourceGroupLarger makes the queue yield the smallest group,
  the comment says "with the largest size"; all_of tests `event().empty()`, so
  "No measurements found" is never returned; `header.type <= 0 && >= MAX` is
  never true; `num_iterations` = 0 would loop for ever; a record of lost samples
  is fatal; the third instruction of the aarch64 trigger clears x0, the comment
  says x8;
* native tracer: an end state mismatch returns OK before the limit is looked at,
  so a trace that hit its limit may return OK without AfterExecution; on x86
  SetInstructionPointer after SetRegisters in one callback uses an empty optional;
* Unicorn does not read extension registers, and the partial checksum covers the
  first pages only, so fault injection is blind to the rest; a wall-clock timeout
  makes it report an instruction as critical; an instruction the disassembler does
  not know has InstructionSize() 0 (`xed_disassembler.cc:59`,
  `capstone_disassembler.cc:181`), so that "skipping" it (`analysis.cc:49`) skips
  nothing and it is reported as not critical whatever it does, which CriticalIsReal
  states;
* the pool of test instructions is filled without reserving the mix register
  (the TODO at `instruction_pool.cc:101`), so an instruction that needs every
  register would die in a test step; one that needs more than are left beside a
  dead one ends the generator while the pool is filled.  SynthesisSound says that
  a CHECK fails for no other reason; an
  instruction with two mask outputs would use up the temporaries;
* RunTests loops for ever if no end state could be computed; an iteration count
  of 0 would still run the body once.

## Not modelled

* Instruction decoders and filters, disassemblers, XED's tables: predicates over
  encodings, without state or control.  Programs, snippets and test instructions
  carry the answers instead.
* Assembly, ucontext conversion, checksums as arithmetic, register printing: data
  without control.  The serialized form of registers is modelled by its sizes and
  headers, which is what a reader checks.
* The text of logs, printers, test configurations; memory statistics; V1
  compatible output; metadata, ids and trace data of snapshots, which nothing
  else depends on.
* Files and paths beyond success, failure and contents.
* The failure of `PlayerResultProto::ToProto`, which needs an infinite CPU usage,
  and that of getrusage(2) in LogSessionSummary (`result_collector.cc:266`), which
  has valid arguments there.
* ptrace, Unicorn, the kernel's perf events, XED and Capstone are external; they
  are modelled from how the code uses them.

## Plan

Done, in this order: the orchestrator with its collector and abstract
specification; the runner and its driver; the harness tracer; the worker pool;
proofs for the first, third and fourth; the snap maker; the fix tool with the
partitioner; the setup and the log channel; interval maps, snapshots, protos and
page tables; the corpus; tracers and proxies; hash tests; the program mutator;
proofs for the spans, the sequential scan and the log, the runner driver, the snap
maker, the partitioner and the hash test runner, then for the setup, the log
channel, the fix tool, the analysis of snippets and the ring buffer.

Next, proofs:

1. RangeMap: that its operators keep ranges sorted and disjoint and compute the
   function AddressSpace takes them for, on which the properties of run `memory`
   rest.
