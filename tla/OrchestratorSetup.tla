-------------------------- MODULE OrchestratorSetup --------------------------
(***************************************************************************)
(* silifuzz_orchestrator_main.cc from main() to the worker threads, and    *)
(* what it writes to the binary log until it returns: the shard list, the  *)
(* memory limit, the threads that load the shards, the checks on what they *)
(* loaded, the CPUs of each worker thread, then the session entries of the *)
(* log.  Orchestrator.tla has the worker threads themselves; here they are *)
(* the results that reach the collector.                                   *)
(*                                                                         *)
(* The first part is orchestrator/corpus_util.cc and                       *)
(* CapResourcesToMemLimit: reading one shard of the corpus into memory,    *)
(* checking it, and choosing how many runners and shards fit the memory    *)
(* limit.  A shard file is a record: the contents that its (decompressed)  *)
(* bytes spell, how large it is on disk, and whether reading it works.     *)
(* Sizes of contents are in units, UnitsPerMb of them in a megabyte.       *)
(*                                                                         *)
(* Files may be replaced, the CPU set may shrink and memfd_create may fail *)
(* while all this happens: MaxFaults bounds how often.                     *)
(***************************************************************************)
EXTENDS BinaryLogChannel, FiniteSets, FiniteSetsExt, Functions

CONSTANTS
    HeaderSize,         \* sizeof(SnapCorpusHeader), in units
    UnitsPerMb,         \* kMb, in units
    RunnerMb,           \* kSingleRunnerMemoryUsageMb
    Paths,              \* shard files
    Files,              \* what a shard file may be replaced by
    FileSystems,        \* what the shard files may be at the start
    ShardLists,         \* lines of --shard_list_file
    Limits,             \* --limit_memory_usage_mb: a number or Unlimited
    Unlimited,
    MaxCpus,            \* --max_cpus values, 0 is all
    NumCpus,            \* CPUs in the affinity mask
    HwConcurrency,      \* hardware_concurrency(), which may be 0
    MaxFaults,          \* replaced files, failed memfds, lost CPUs
    MaxResults          \* failing results of one session

ASSUME SetupAssumption ==
    /\ HeaderSize \in Nat \ {0}
    /\ UnitsPerMb \in Nat \ {0}
    /\ RunnerMb \in Nat \ {0}
    /\ MaxCpus \subseteq Nat /\ NumCpus \subseteq Nat \ {0}
    /\ HwConcurrency \subseteq Nat
    /\ MaxFaults \in Nat /\ MaxResults \in Nat
    /\ \A lines \in ShardLists : lines \in Seq(Range(lines))
    /\ Limits \ {Unlimited} \subseteq Int
    /\ {"start", "result", "summary"} \subseteq EntryKinds

-----------------------------------------------------------------------------
(* corpus_util.cc and CapResourcesToMemLimit                                 *)

\* The contents of a corpus as snap_corpus_tool wrote them: the header says
\* how long the file is and what its checksum must be.
Intact(size) ==
    [size |-> size, magic |-> TRUE, header_size |-> HeaderSize,
     num_bytes |-> size, data |-> "original", recorded |-> "original"]

\* Ways a copy of it can be damaged.  The checksum covers all bytes but itself
\* and is assumed to tell any two contents apart.
Damaged(c) ==
    {[c EXCEPT !.size = n, !.data = "cut"] : n \in 0..(c.size - 1)}
      \cup {[c EXCEPT !.size = @ + 1, !.data = "longer"],
            [c EXCEPT !.magic = FALSE, !.data = "other"],
            [c EXCEPT !.header_size = @ + 1, !.num_bytes = @ + 1, !.data = "other"],
            [c EXCEPT !.data = "other"],
            [c EXCEPT !.recorded = "other"]}

\* A header version of its own: everything in it is consistent.
OtherVersion(size) ==
    [Intact(size) EXCEPT !.header_size = HeaderSize + 1]

\* What a shard file may hold: a corpus of at most max units, whole, of another
\* version or damaged.
Contents(max) ==
    UNION {{Intact(size), OtherVersion(size)} \cup Damaged(Intact(size)) :
             size \in 0..max}

\* A shard file and the ways of reading it.
IsFile(f) ==
    /\ f.contents.num_bytes \in Nat
    /\ f.contents \in Contents(f.contents.num_bytes)
    /\ f.xz \in BOOLEAN
    /\ f.disk \in Nat
    /\ f.io \in {"ok", "unreadable", "truncated", "trailing"}

ASSUME FileAssumption ==
    /\ \A f \in Files : IsFile(f)
    /\ \A fs \in FileSystems : /\ fs \in [Paths -> Range(fs)]
                               /\ \A f \in Range(fs) : IsFile(f)

Error(code) == [ok |-> FALSE, code |-> code]

\* ReadXzipFile: open, read or lzma errors, a stream that ends early, and bytes
\* after its end are all errors.
ReadXzipFile(f) ==
    CASE f.io = "unreadable" -> Error("internal")
      [] f.io = "truncated"  -> Error("internal")
      [] f.io = "trailing"   -> Error("internal")
      [] OTHER               -> [ok |-> TRUE, contents |-> f.contents]

\* open and ReadCord of an uncompressed file.
ReadPlainFile(f) ==
    IF f.io = "unreadable" THEN Error("errno")
                           ELSE [ok |-> TRUE, contents |-> f.contents]

\* WriteSharedMemoryFile: memfd_create, write, fcntl or lseek may fail.
WriteSharedMemoryFile(works) ==
    IF works THEN [ok |-> TRUE] ELSE Error("errno")

\* LoadCorpus: the InMemoryShard of a file, with the first bytes of it (which
\* may be fewer than a header), its size and the checksum of what was read.
LoadCorpus(f, memfdWorks) ==
    LET read == IF f.xz THEN ReadXzipFile(f) ELSE ReadPlainFile(f)
        memfd == WriteSharedMemoryFile(memfdWorks)
    IN  IF ~read.ok THEN read
        ELSE IF ~memfd.ok THEN memfd
        ELSE [ok |-> TRUE,
              header |-> read.contents,
              header_bytes |-> Min({read.contents.size, HeaderSize}),
              file_size |-> read.contents.size,
              checksum |-> read.contents.data]

\* ValidateShard: OK iff every one of its tests passes.
ValidateShard(s) ==
    /\ s.file_size >= HeaderSize
    /\ s.header_bytes = HeaderSize
    /\ s.header.magic
    /\ s.header.header_size = HeaderSize
    /\ s.header.num_bytes = s.file_size
    /\ s.header.recorded = s.checksum

\* ValidateCorpus: every shard is looked at, one bad one is enough.
ValidateCorpus(shards) ==
    \A i \in DOMAIN shards : ValidateShard(shards[i])

RoundUpToMb(size) == (size + UnitsPerMb - 1) \div UnitsPerMb

\* The path EstimateLargestCorpusSizeMB loads: the first of the largest files
\* on disk, compressed or not.
LargestOnDisk(files, paths) ==
    LET largest == Max({files[paths[i]].disk : i \in DOMAIN paths})
    IN  paths[Min({i \in DOMAIN paths : files[paths[i]].disk = largest})]

\* EstimateLargestCorpusSizeMB: stat of every file, then LoadCorpus of one.
EstimateLargestCorpusSizeMB(files, paths, memfdWorks) ==
    IF \E i \in DOMAIN paths : files[paths[i]].io = "unreadable"
    THEN Error("errno")
    ELSE LET shard == LoadCorpus(files[LargestOnDisk(files, paths)], memfdWorks)
         IN  IF ~shard.ok THEN shard
             ELSE [ok |-> TRUE, mb |-> RoundUpToMb(shard.file_size)]

\* CapResourcesToMemLimit once the estimate mb is known: memory for one shard
\* is reserved, the rest goes to runners, what they leave to further shards.
\* The last division is by the estimate, which is 0 for an empty corpus file.
CapResources(limit, mb, runners, total) ==
    LET budget == limit - mb
        n == Min({runners, budget \div RunnerMb})
        left == budget - RunnerMb * n + mb
    IN  IF budget <= 0 \/ n = 0 THEN Error("exhausted")
        ELSE IF mb = 0 THEN Error("sigfpe")
        ELSE IF Min({total, left \div mb}) <= 0 THEN Error("check")
        ELSE [ok |-> TRUE, runners |-> n, shards |-> Min({total, left \div mb})]

-----------------------------------------------------------------------------
(* main() and the threads that load                                          *)

VARIABLES
    pc,             \* where main is
    exit,           \* "none", or how the process ended
    limit,          \* --limit_memory_usage_mb
    session,        \* SessionLoggingEnabled(), drawn when it is first asked
    file,           \* the shard files as they are now
    cpus,           \* the number of CPUs in the affinity mask now
    faults,         \* faults so far
    resources,      \* OrchestratorResources: shards and num_concurrent_runners
    estimate,       \* shard_size_estimate_mb
    shards,         \* LoadCorpora's results, by position in resources.shards
    loader,         \* the next position of each loader thread
    thread_args,    \* the CPU positions of each worker thread
    failed          \* summary.num_failed_snapshots

setupVars == <<pc, exit, limit, session, file, cpus, faults, resources, estimate, shards,
               loader, thread_args, failed>>
vars == <<setupVars, channelVars>>

NotYetLoaded == Error("unknown")
Spans == PartitionEvenly(Len(resources.shards), Cardinality(DOMAIN loader))

Init ==
    /\ pc = "main" /\ exit = "none"
    /\ limit = Unlimited
    /\ session = FALSE
    /\ file \in FileSystems
    /\ cpus \in NumCpus
    /\ faults = 0
    /\ resources = [shards |-> <<>>, runners |-> 0]
    /\ estimate = 0
    /\ shards = <<>>
    /\ loader = <<>>
    /\ thread_args = <<>>
    /\ failed = 0
    /\ ChannelInit

\* The process ends, by a return from main or otherwise.
Exits(how) ==
    /\ exit' = how
    /\ pc' = "exited"
    /\ CloseWriter
    /\ UNCHANGED <<producer_ok, pipe, reader_open, send_status, begun,
                   written, reading,
                   received, recv_status>>

Fault == faults < MaxFaults /\ faults' = faults + 1
NoFault == UNCHANGED faults

----------------------------------------------------------------------------
(* main() *)

\* LoadShardFilenames, the loop over the lines: blank lines and comments are
\* dropped.  A file that cannot be opened or read has no lines.
LoadShardFilenames(lines, readable) ==
    LET names[i \in 0..Len(lines)] ==
          IF i = 0 THEN <<>>
          ELSE IF lines[i] \in Paths THEN Append(names[i - 1], lines[i])
          ELSE names[i - 1]
    IN  IF readable THEN names[Len(lines)] ELSE <<>>

\* main up to the memory limit.
Main(lines, readable, max_cpus, limit_flag) ==
    /\ pc = "main"
    /\ limit' = limit_flag
    /\ resources' = [shards |-> LoadShardFilenames(lines, readable),
                     runners |-> Min({cpus, IF max_cpus = 0 THEN cpus
                                            ELSE max_cpus})]
    /\ IF resources'.shards = <<>>
       THEN Exits("failure")
       ELSE /\ pc' = IF limit_flag = Unlimited THEN "metadata" ELSE "estimate"
            /\ UNCHANGED <<exit, channelVars>>
    /\ UNCHANGED <<session, file, cpus, faults, estimate, shards, loader,
                   thread_args, failed>>

\* CapResourcesToMemLimit: a random choice, in any order, of as many shards as
\* fit.  A division by zero and a failed CHECK end the process.
CapResourcesToMemLimit(memfdWorks) ==
    /\ pc = "estimate"
    /\ IF memfdWorks THEN NoFault ELSE Fault
    /\ LET largest ==
             EstimateLargestCorpusSizeMB(file, resources.shards, memfdWorks)
           cap == IF ~largest.ok THEN largest
                  ELSE CapResources(limit, largest.mb, resources.runners,
                                    Len(resources.shards))
       IN  /\ estimate' = IF largest.ok THEN largest.mb ELSE 0
           /\ IF cap.ok
              THEN /\ \E f \in Injection(1..cap.shards, DOMAIN resources.shards) :
                        resources' = [shards |-> [i \in 1..cap.shards |->
                                                    resources.shards[f[i]]],
                                      runners |-> cap.runners]
                   /\ pc' = "metadata"
                   /\ UNCHANGED <<exit, channelVars>>
              ELSE /\ Exits(IF cap.code \in {"sigfpe", "check"} THEN cap.code
                                                               ELSE "failure")
                   /\ UNCHANGED resources
    /\ UNCHANGED <<limit, session, file, cpus, shards, loader, thread_args,
                   failed>>

----------------------------------------------------------------------------
(* OrchestratorMain() *)

\* LoadRuntimeMetadata, then the start of LoadCorpora: as many loader threads
\* as hardware_concurrency() and the shards allow, and at least one.
StartLoaders(metadata_ok, hw) ==
    /\ pc = "metadata"
    /\ LET num_threads == Min({hw, Len(resources.shards)})
       IN  IF ~metadata_ok \/ num_threads = 0
           THEN /\ Exits(IF metadata_ok THEN "no_loader" ELSE "failure")
                /\ UNCHANGED <<shards, loader>>
           ELSE /\ pc' = "load"
                /\ shards' = [i \in DOMAIN resources.shards |-> NotYetLoaded]
                /\ loader' = [t \in 0..(num_threads - 1) |->
                                SpanBegin(Len(resources.shards), num_threads)[t]]
                /\ UNCHANGED <<exit, channelVars>>
    /\ UNCHANGED <<limit, session, file, cpus, faults, resources, estimate,
                   thread_args,
                   failed>>

Loading(t) == pc = "load" /\ loader[t] \in Spans[t]

\* One turn of load_corpus_span's loop in loader thread t.
LoadNext(t, memfdWorks) ==
    /\ Loading(t)
    /\ IF memfdWorks THEN NoFault ELSE Fault
    /\ LET i == loader[t] + 1
       IN  shards' = [shards EXCEPT ![i] =
                        LoadCorpus(file[resources.shards[i]], memfdWorks)]
    /\ loader' = [loader EXCEPT ![t] = @ + 1]
    /\ UNCHANGED <<pc, exit, limit, session, file, cpus, resources, estimate,
                   thread_args,
                   failed, channelVars>>

\* Mutant: LoadCorpora skips the shards that could not be loaded.
Loaded_SkipsErrors == SelectSeq(shards, LAMBDA s : s.ok)

\* What LoadCorpora returns; the first error stands for the whole.
Loaded ==
    IF \E i \in DOMAIN shards : ~shards[i].ok
    THEN <<NotYetLoaded>>
    ELSE shards

\* The loader threads are joined, their results collected and validated.
JoinLoaders ==
    /\ pc = "load"
    /\ \A t \in DOMAIN loader : ~Loading(t)
    /\ LET corpora == Loaded
       IN  IF \E i \in DOMAIN corpora : ~corpora[i].ok
           THEN /\ Exits("failure")
                /\ UNCHANGED shards
           ELSE IF ~ValidateCorpus(corpora)
           THEN /\ Exits("failure")
                /\ UNCHANGED shards
           ELSE /\ pc' = "args"
                /\ shards' = corpora
                /\ UNCHANGED <<exit, channelVars>>
    /\ UNCHANGED <<limit, session, file, cpus, faults, resources, estimate,
                   loader,
                   thread_args, failed>>

\* RunnerThreadArgs: the CPUs are looked up again and dealt out; a thread
\* without a CPU fails a CHECK.
PrepareThreads(sequential, logged) ==
    /\ pc = "args"
    /\ session' = logged
    /\ LET num_threads == IF sequential THEN 1 ELSE resources.runners
           spans == PartitionEvenly(cpus, num_threads)
       IN  /\ thread_args' = spans
           /\ IF \E t \in DOMAIN spans : spans[t] = {}
              THEN Exits("no_cpu")
              ELSE /\ pc' = IF logged THEN "log_start" ELSE "running"
                   /\ UNCHANGED <<exit, channelVars>>
    /\ UNCHANGED <<limit, file, cpus, faults, resources, estimate, shards,
                   loader,
                   failed>>

\* LogSessionStart, a failing result of a worker, LogSessionSummary: main sends
\* one entry and waits for Send to return.
LogSessionStart ==
    /\ pc = "log_start"
    /\ pc' = "sending_start"
    /\ SendBegin([kind |-> "start", n |-> 0])
    /\ UNCHANGED <<exit, limit, session, file, cpus, faults, resources,
                   estimate, shards,
                   loader, thread_args, failed>>

StartLogged ==
    /\ pc = "sending_start"
    /\ sending = <<>>
    /\ IF send_status = "ok"
       THEN /\ pc' = "running"
            /\ UNCHANGED <<exit, channelVars>>
       ELSE Exits("failure")
    /\ UNCHANGED <<limit, session, file, cpus, faults, resources, estimate,
                   shards, loader,
                   thread_args, failed>>

ResultFailed ==
    /\ pc = "running"
    /\ sending = <<>>
    /\ failed < MaxResults
    /\ failed' = failed + 1
    /\ SendBegin([kind |-> "result", n |-> failed + 1])
    /\ UNCHANGED <<pc, exit, limit, session, file, cpus, faults, resources,
                   estimate,
                   shards, loader, thread_args>>

\* The event loop has ended and the workers are joined.
LogSessionSummary ==
    /\ pc = "running"
    /\ sending = <<>>
    /\ pc' = "returning"
    /\ IF session \/ failed > 0
       THEN SendBegin([kind |-> "summary", n |-> failed])
       ELSE UNCHANGED channelVars
    /\ UNCHANGED <<exit, limit, session, file, cpus, faults, resources,
                   estimate, shards,
                   loader, thread_args, failed>>

\* OrchestratorMain returns and the collector closes its channel.
Return ==
    /\ pc = "returning"
    /\ sending = <<>>
    /\ Exits(IF failed > 0 THEN "failure" ELSE "success")
    /\ UNCHANGED <<limit, session, file, cpus, faults, resources, estimate,
                   shards, loader,
                   thread_args, failed>>

\* The watchdog thread of OrchestratorInit, if the flags ask for one: _exit,
\* whatever main is doing.
Watchdog ==
    /\ pc \in {"running", "returning"}
    /\ Exits("watchdog")
    /\ UNCHANGED <<limit, session, file, cpus, faults, resources, estimate,
                   shards, loader,
                   thread_args, failed>>

Write ==
    /\ \/ \E k \in 1..Len(sending) : WriteSome(k)
       \/ WriteFails
    /\ UNCHANGED setupVars

----------------------------------------------------------------------------
(* The parent process and the rest of the machine *)

Receive ==
    /\ \/ \E k \in 1..Len(pipe) : ReadSome(k)
       \/ ReadEof
    /\ UNCHANGED setupVars

ParentStopsListening ==
    /\ begun # <<>>
    /\ CloseReader
    /\ UNCHANGED setupVars

\* A shard file that is about to be loaded is replaced, not only by a good one.
FileReplaced(p) ==
    /\ \/ pc = "metadata"
       \/ \E t \in DOMAIN loader : /\ Loading(t)
                                  /\ resources.shards[loader[t] + 1] = p
    /\ Fault
    /\ \E f \in Files \ {file[p]} : file' = [file EXCEPT ![p] = f]
    /\ UNCHANGED <<pc, exit, limit, session, cpus, resources, estimate,
                   shards, loader,
                   thread_args, failed, channelVars>>

\* A CPU goes offline or leaves the cpuset.
CpuLost ==
    /\ pc \in {"estimate", "metadata", "load"}
    /\ cpus > 1
    /\ Fault
    /\ cpus' = cpus - 1
    /\ UNCHANGED <<pc, exit, limit, session, file, resources, estimate,
                   shards, loader,
                   thread_args, failed, channelVars>>

MainStep ==
    \/ \E lines \in ShardLists, readable \in BOOLEAN, n \in MaxCpus, l \in Limits :
         Main(lines, readable, n, l)
    \/ \E works \in BOOLEAN : CapResourcesToMemLimit(works)
    \/ \E ok \in BOOLEAN, hw \in HwConcurrency : StartLoaders(ok, hw)
    \/ JoinLoaders
    \/ \E sequential, logged \in BOOLEAN : PrepareThreads(sequential, logged)
    \/ LogSessionStart \/ StartLogged \/ LogSessionSummary \/ Return
    \/ Write

LoaderStep(t) == t \in DOMAIN loader /\ \E works \in BOOLEAN : LoadNext(t, works)

Next ==
    \/ MainStep
    \/ \E t \in DOMAIN loader : LoaderStep(t)
    \/ ResultFailed \/ Watchdog
    \/ Receive \/ ParentStopsListening
    \/ \E p \in Paths : FileReplaced(p)
    \/ CpuLost

Spec == Init /\ [][Next]_vars

\* Threads that can run do, and a parent that listens keeps reading.  Nothing
\* is assumed of faults, the watchdog and a parent that goes away.  The event
\* loop ends at its deadline: LogSessionSummary is a step of main like any.
FairSpec ==
    /\ Spec
    /\ WF_vars(MainStep)
    /\ \A t \in 0..(Max(HwConcurrency) - 1) : WF_vars(LoaderStep(t))
    /\ WF_vars(Receive)

----------------------------------------------------------------------------
(* Properties *)

Started == pc \in {"log_start", "sending_start", "running", "returning"}

\* The worker threads are never given a shard that is not, byte for byte, a
\* corpus as the generator wrote it: not one that was cut, extended, of another
\* version, or only partly loaded, and not one file fewer than were chosen
\* (LoadCorpora, ValidateCorpus), whatever happened to the files meanwhile.
IntactShardsOnly ==
    Started =>
      /\ Len(shards) = Len(resources.shards)
      /\ \A i \in DOMAIN shards : shards[i].header = Intact(shards[i].file_size)

\* With --limit_memory_usage_mb, runners and shards together fit the limit
\* unless a shard is larger than the estimate, which looks at the largest file
\* on disk only (CapResourcesToMemLimit); every worker thread has a CPU and no
\* two share one (PartitionEvenly of the CPUs found by a second look).
WithinLimits ==
    Started =>
      /\ \A t \in DOMAIN thread_args : thread_args[t] # {}
      /\ \A t, u \in DOMAIN thread_args :
           t # u => thread_args[t] \cap thread_args[u] = {}
      /\ LET mb == [i \in DOMAIN shards |-> RoundUpToMb(shards[i].file_size)]
         IN  \/ limit = Unlimited
             \/ \E i \in DOMAIN mb : mb[i] > estimate
             \/ RunnerMb * resources.runners + Sums(mb)[Len(mb)] <= limit

\* The setup dies of a CHECK or a signal in three cases only: the machine does
\* not know its concurrency, the largest file of the list is an empty corpus
\* under a memory limit (a division by the estimate), or a CPU was lost after
\* the threads were counted.  CHECK_GT(max_shards, 0) never fails.
AbortsForCause ==
    /\ exit # "check"
    /\ exit = "sigfpe" => limit # Unlimited /\ estimate = 0
    /\ exit = "no_cpu" => faults > 0 /\ cpus < resources.runners

\* A session starts with intact shards, within the limits it was given, or does
\* not start, for a reason.
SetupSound == IntactShardsOnly /\ WithinLimits /\ AbortsForCause

\* What the parent receives is what was sent, in order; it is told that the
\* channel ended only at the end of an entry, and then it has every entry that
\* was written.  Only the watchdog's _exit cuts an entry, and a cut entry is
\* reported as an error, never returned (Send, Receive, Read, Write).
LogFramed ==
    /\ IsPrefix(received, begun)
    /\ recv_status = "EOC" => received = written /\ ~cut
    /\ recv_status \in {"data_loss", "error"} => exit = "watchdog" /\ cut
    /\ recv_status = "EOC" /\ exit \in {"success", "failure"} => received = begun

-----------------------------------------------------------------------------
(* The inductive invariant *)

Phases == {"main", "estimate", "metadata", "load", "args", "log_start",
           "sending_start", "running", "returning", "exited"}
\* Before the first Send; after the shard list is known; after the memory limit
\* was looked at.
Silent == pc \in {"main", "estimate", "metadata", "load", "args", "log_start"}
Listed == pc \in Phases \ {"main", "exited"}
Capped == pc \in Phases \ {"main", "estimate", "exited"}

SetupTypeOK ==
    /\ pc \in Phases
    /\ exit \in {"none", "success", "failure", "sigfpe", "check", "no_loader",
                 "no_cpu", "watchdog"}
    /\ limit \in Limits \cup {Unlimited}
    /\ session \in BOOLEAN
    /\ file \in [Paths -> Range(file)] /\ \A p \in Paths : IsFile(file[p])
    /\ cpus \in Nat \ {0}
    /\ faults \in Nat
    /\ resources \in [shards : Seq(Paths), runners : Nat]
    /\ estimate \in Nat
    /\ failed \in Nat

\* The writer is the process; it sends from two points of main only, and only
\* the watchdog ends it there.
ProcessInv ==
    /\ writer_open <=> pc # "exited"
    /\ exit = "none" <=> pc # "exited"
    /\ Silent => sending = <<>>
    /\ cut => exit = "watchdog"
    /\ reader_open /\ exit \in {"success", "failure"} => written = begun

\* A shard that was loaded is what some file held; what is not loaded is an
\* error.
IsShard(s) ==
    /\ s.ok \in BOOLEAN
    /\ s.ok => /\ s.header.num_bytes \in Nat
               /\ s.header \in Contents(s.header.num_bytes)
               /\ s.file_size = s.header.size
               /\ s.checksum = s.header.data

ResourcesInv ==
    /\ pc = "estimate" => limit # Unlimited
    /\ Listed => /\ resources.shards # <<>>
                 /\ resources.runners > 0
                 /\ resources.runners <= cpus + faults
    /\ Capped /\ limit # Unlimited =>
         RunnerMb * resources.runners + estimate * Len(resources.shards) <= limit

ShardsInv ==
    /\ pc = "load" => /\ shards \in [DOMAIN resources.shards -> Range(shards)]
                      /\ \A i \in DOMAIN shards : IsShard(shards[i])
    /\ pc = "args" \/ Started =>
         /\ shards \in [DOMAIN resources.shards -> Range(shards)]
         /\ \A i \in DOMAIN shards : /\ shards[i].header = Intact(shards[i].file_size)
                                     /\ shards[i].file_size \in Nat

ThreadsInv ==
    Started =>
      /\ \A t \in DOMAIN thread_args : thread_args[t] # {}
      /\ \A t, u \in DOMAIN thread_args :
           t # u => thread_args[t] \cap thread_args[u] = {}

SetupInv ==
    /\ SetupTypeOK /\ ProcessInv
    /\ ResourcesInv /\ ShardsInv /\ ThreadsInv /\ AbortsForCause
    /\ ChannelInv /\ LogFramed

-----------------------------------------------------------------------------

\* The orchestrator ends, and a parent that keeps listening learns that it did,
\* however slowly it reads and wherever the stream was cut.
SessionEnds == <>(pc = "exited" /\ (reader_open => recv_status # "ok"))

=============================================================================
