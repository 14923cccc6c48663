--------------------------- MODULE SimpleFixTool ----------------------------
(***************************************************************************)
(* tools/simple_fix_tool.cc: FixupCorpus turns Centipede's blobs into the  *)
(* shards of a corpus.  It reads the unique blobs of its inputs, makes     *)
(* snapshots of them on a number of worker threads while another thread    *)
(* reports progress, partitions the snapshots (module CorpusPartitioner)   *)
(* and writes one file per group.                                          *)
(*                                                                         *)
(* A blob is the id of the snapshot made from it.  Whether a snapshot can  *)
(* be made is decided when a worker comes to its blob: the conversion, the *)
(* normalisation, MakeSnapshot (module SnapMaker) and Snapify may each     *)
(* refuse it.                                                              *)
(***************************************************************************)
EXTENDS CorpusPartitioner, SequencesExt

CONSTANTS
    Inputs,               \* the blobs of each input file
    NumWorkers,           \* options.parallelism
    kMinCountUpdateSize

ASSUME FixToolAssumption ==
    /\ Inputs \in Seq(Seq(Ids))
    /\ NumWorkers \in Nat \ {0}
    /\ kMinCountUpdateSize \in Nat \ {0}

VARIABLES
    phase,      \* "read", "make", "stop", "partition", "write", "done"
    reader,     \* the input and the position in it
    blobs, id_seen,
    worker,     \* thread and FixToolWorkerArgs of each worker
    num_blobs_processed,
    joined,     \* workers joined
    made_snapshots,
    stop_progress_monitor,
    monitor,
    shards,
    written,    \* output file of each shard
    counters

makeVars == <<worker, num_blobs_processed, joined>>
monitorVars == <<stop_progress_monitor, monitor>>
outputVars == <<shards, written>>
vars == <<partitionerVars, phase, reader, blobs, id_seen, makeVars,
          made_snapshots, monitorVars, outputVars, counters>>

Workers == 0..(NumWorkers - 1)
Span(w) == PartitionEvenly(Len(blobs), NumWorkers)[w]

Init ==
    /\ PartitionerInit
    /\ phase = "read"
    /\ reader = [input |-> 1, next |-> 0]
    /\ blobs = <<>>
    /\ id_seen = {}
    /\ worker = [w \in Workers |-> [state |-> "none", next |-> 0,
                                    count_update |-> 0, good_snapshots |-> <<>>]]
    /\ num_blobs_processed = 0
    /\ joined = 0
    /\ made_snapshots = <<>>
    /\ stop_progress_monitor = FALSE
    /\ monitor = [state |-> "none", stop_monitoring |-> FALSE, printed |-> 0]
    /\ shards = [g \in Groups |-> <<>>]
    /\ written = [g \in Groups |-> "none"]
    /\ counters = [read |-> 0, duplicate |-> 0, success |-> 0, cannot_group |-> 0]

-----------------------------------------------------------------------------
(* ReadUniqueCentipedeBlobs                                                  *)

ReadUnchanged ==
    UNCHANGED <<partitionerVars, makeVars, made_snapshots, monitorVars,
                outputVars>>

Reading == phase = "read" /\ reader.input <= Len(Inputs)

\* next = 0: the input is not open.
OpenReader ==
    /\ Reading /\ reader.next = 0
    /\ reader' = [reader EXCEPT !.next = 1]
    /\ UNCHANGED <<phase, blobs, id_seen, counters>>
    /\ ReadUnchanged

ReadBlob ==
    /\ Reading /\ reader.next \in DOMAIN Inputs[reader.input]
    /\ LET blob == Inputs[reader.input][reader.next]
       IN  IF blob \notin id_seen
           THEN /\ id_seen' = id_seen \cup {blob}
                /\ blobs' = Append(blobs, blob)
                /\ counters' = [counters EXCEPT !.read = @ + 1]
           ELSE /\ counters' = [counters EXCEPT !.read = @ + 1,
                                                !.duplicate = @ + 1]
                /\ UNCHANGED <<blobs, id_seen>>
    /\ reader' = [reader EXCEPT !.next = @ + 1]
    /\ UNCHANGED phase
    /\ ReadUnchanged

\* The input could not be opened, a read failed, or its end is reached; the
\* next one is tried in any case.
NextInput ==
    /\ Reading
    /\ reader' = [input |-> reader.input + 1, next |-> 0]
    /\ UNCHANGED <<phase, blobs, id_seen, counters>>
    /\ ReadUnchanged

-----------------------------------------------------------------------------
(* MakeSnapshotsFromBlobs                                                    *)

\* The monitor is started, then the workers.
StartWorkers ==
    /\ phase = "read" /\ reader.input > Len(Inputs)
    /\ phase' = "make"
    /\ worker' = [w \in Workers |->
                    [worker[w] EXCEPT !.state = "run",
                       !.next = SpanBegin(Len(blobs), NumWorkers)[w]]]
    /\ monitor' = [monitor EXCEPT !.state = "load"]
    /\ UNCHANGED <<partitionerVars, reader, blobs, id_seen, num_blobs_processed,
                   joined, made_snapshots, stop_progress_monitor, outputVars,
                   counters>>

WorkerUnchanged ==
    UNCHANGED <<partitionerVars, phase, reader, blobs, id_seen, joined,
                made_snapshots, monitorVars, outputVars, counters>>

\* One blob.  The count of blobs is flushed before the blob is looked at.
FixBlob(w) ==
    LET count == worker[w].count_update + 1
        flush == count >= kMinCountUpdateSize
    IN  /\ worker[w].state = "run"
        /\ worker[w].next \in Span(w)
        /\ num_blobs_processed' = num_blobs_processed + (IF flush THEN count ELSE 0)
        /\ \E good \in {<<>>, <<blobs[worker[w].next + 1]>>} :
             worker' = [worker EXCEPT
               ![w].next = @ + 1,
               ![w].count_update = IF flush THEN 0 ELSE count,
               ![w].good_snapshots = @ \o good]
        /\ WorkerUnchanged

WorkerReturns(w) ==
    /\ worker[w].state = "run"
    /\ worker[w].next \notin Span(w)
    /\ num_blobs_processed' = num_blobs_processed + worker[w].count_update
    /\ worker' = [worker EXCEPT ![w].state = "exited"]
    /\ WorkerUnchanged

\* Mutant: the worker's snapshots are taken without waiting for it.
JoinWorker_NoWait ==
    /\ phase = "make" /\ joined < NumWorkers
    /\ joined' = joined + 1
    /\ counters' = [counters EXCEPT !.success =
                      @ + Len(worker[joined].good_snapshots)]
    /\ UNCHANGED <<partitionerVars, phase, reader, blobs, id_seen, worker,
                   num_blobs_processed, made_snapshots, monitorVars, outputVars>>

\* workers[i].join(), in order, and counters->Merge.
JoinWorker ==
    /\ phase = "make" /\ joined < NumWorkers
    /\ worker[joined].state = "exited"
    /\ joined' = joined + 1
    /\ counters' = [counters EXCEPT !.success =
                      @ + Len(worker[joined].good_snapshots)]
    /\ UNCHANGED <<partitionerVars, phase, reader, blobs, id_seen, worker,
                   num_blobs_processed, made_snapshots, monitorVars, outputVars>>

\* Collected worker by worker, then the monitor is told to stop.
CollectSnapshots ==
    /\ phase = "make" /\ joined = NumWorkers
    /\ made_snapshots' =
         FlattenSeq([i \in 1..NumWorkers |-> worker[i - 1].good_snapshots])
    /\ worker' = [w \in Workers |-> [worker[w] EXCEPT !.good_snapshots = <<>>]]
    /\ stop_progress_monitor' = TRUE
    /\ phase' = "stop"
    /\ UNCHANGED <<partitionerVars, reader, blobs, id_seen, num_blobs_processed,
                   joined, monitor, outputVars, counters>>

(* MakeProgressMonitor                                                       *)

MonitorUnchanged ==
    UNCHANGED <<partitionerVars, phase, reader, blobs, id_seen, makeVars,
                made_snapshots, stop_progress_monitor, outputVars, counters>>

LoadStop ==
    /\ monitor.state = "load"
    /\ monitor' = [monitor EXCEPT !.stop_monitoring = stop_progress_monitor,
                                  !.state = "print"]
    /\ MonitorUnchanged

PrintProgress ==
    /\ monitor.state = "print"
    /\ monitor' = [monitor EXCEPT
                     !.printed = num_blobs_processed,
                     !.state = IF monitor.stop_monitoring THEN "exited" ELSE "load"]
    /\ MonitorUnchanged

\* It is not time for a checkpoint.
NoCheckpoint ==
    /\ monitor.state = "print" /\ ~monitor.stop_monitoring
    /\ monitor' = [monitor EXCEPT !.state = "load"]
    /\ MonitorUnchanged

-----------------------------------------------------------------------------
(* The rest of FixupCorpus                                                   *)

\* progress_monitor.join(), and PartitionSnapshots calls PartitionCorpus.
JoinMonitor ==
    /\ phase = "stop"
    /\ monitor.state = "exited"
    /\ PartitionCorpus(made_snapshots)
    /\ phase' = "partition"
    /\ UNCHANGED <<reader, blobs, id_seen, makeVars, made_snapshots, monitorVars,
                   outputVars, counters>>

FixToolUnchanged ==
    UNCHANGED <<phase, reader, blobs, id_seen, makeVars, made_snapshots,
                monitorVars, outputVars, counters>>

PartitionCaller == CallerStep /\ FixToolUnchanged
PartitionThread(t) == ThreadStep(t) /\ FixToolUnchanged

\* group_map
GroupMap(id) ==
    {g \in Groups : /\ id \in id_set[g]
                    /\ \A h \in Groups : h > g => id \notin id_set[h]}

\* Each snapshot moves to its group's shard; the others stay and are counted,
\* then discarded.
MoveToShards ==
    /\ phase = "partition" /\ pc = "done"
    /\ shards' = [g \in Groups |->
         Kept(made_snapshots, {i \in DOMAIN made_snapshots :
                                 g \in GroupMap(made_snapshots[i])})]
    /\ LET left == {i \in DOMAIN made_snapshots : GroupMap(made_snapshots[i]) = {}}
       IN  counters' = [counters EXCEPT !.cannot_group = @ + Cardinality(left)]
    /\ made_snapshots' = <<>>
    /\ phase' = "write"
    /\ UNCHANGED <<partitionerVars, reader, blobs, id_seen, makeVars,
                   monitorVars, written>>

\* WriteOutputFiles: a file that cannot be opened is skipped, one whose write
\* failed is left behind.
WriteOutputFile(g) ==
    /\ phase = "write"
    /\ \A h \in Groups : written[h] = "none" <=> h >= g
    /\ \E outcome \in {"absent", "failed", "ok"} :
         written' = [written EXCEPT ![g] = outcome]
    /\ UNCHANGED <<partitionerVars, phase, reader, blobs, id_seen, makeVars,
                   made_snapshots, monitorVars, shards, counters>>

FixupCorpusReturns ==
    /\ phase = "write" /\ \A g \in Groups : written[g] # "none"
    /\ phase' = "done"
    /\ UNCHANGED <<partitionerVars, reader, blobs, id_seen, makeVars,
                   made_snapshots, monitorVars, outputVars, counters>>

-----------------------------------------------------------------------------
WorkerStep(w) == FixBlob(w) \/ WorkerReturns(w)
MonitorStep == LoadStop \/ PrintProgress \/ NoCheckpoint
MainStep ==
    \/ OpenReader \/ ReadBlob \/ NextInput \/ StartWorkers \/ JoinWorker
    \/ CollectSnapshots \/ JoinMonitor \/ MoveToShards
    \/ \E g \in Groups : WriteOutputFile(g)
    \/ FixupCorpusReturns

Next ==
    \/ MainStep
    \/ \E w \in Workers : WorkerStep(w)
    \/ MonitorStep
    \/ PartitionCaller
    \/ \E t \in Threads : PartitionThread(t)
    \/ phase = "done" /\ UNCHANGED vars

Spec == Init /\ [][Next]_vars

\* Every thread is scheduled; nothing waits for anything outside.
FairSpec ==
    /\ Spec
    /\ WF_vars(MainStep)
    /\ WF_vars(PartitionCaller)
    /\ WF_vars(MonitorStep)
    /\ \A w \in Workers : WF_vars(WorkerStep(w))
    /\ \A t \in Threads : WF_vars(PartitionThread(t))

-----------------------------------------------------------------------------
(* Properties                                                                *)

FixToolTypeOK ==
    /\ phase \in {"read", "make", "stop", "partition", "write", "done"}
    /\ reader \in [input : Nat \ {0}, next : Nat]
    /\ blobs \in Seq(Ids)
    /\ id_seen \subseteq Ids
    /\ worker \in [Workers -> [state : {"none", "run", "exited"}, next : Nat,
                               count_update : Nat, good_snapshots : Seq(Ids)]]
    /\ num_blobs_processed \in Nat
    /\ joined \in 0..NumWorkers
    /\ made_snapshots \in Seq(Ids)
    /\ stop_progress_monitor \in BOOLEAN
    /\ monitor \in [state : {"none", "load", "print", "exited"},
                    stop_monitoring : BOOLEAN, printed : Nat]
    /\ written \in [Groups -> {"none", "absent", "failed", "ok"}]
    /\ counters \in [read : Nat, duplicate : Nat, success : Nat, cannot_group : Nat]

\* "It is now safe to access worker args for this worker": what is collected
\* is complete.  Every blob has been processed by exactly one worker, the
\* success counters merged at the joins agree with the snapshots collected
\* after them, and these are in the order of the blobs, so that the result
\* does not depend on which worker was faster.  The last line the progress
\* monitor prints says so too, although the workers batch their updates and it
\* reads the flag before the count.
MadeFromAllBlobs ==
    /\ phase = "stop" =>
         /\ num_blobs_processed = Len(blobs)
         /\ counters.success = Len(made_snapshots)
         /\ made_snapshots = Kept(blobs, {i \in DOMAIN blobs :
                                            blobs[i] \in Range(made_snapshots)})
    /\ monitor.state = "exited" => monitor.printed = Len(blobs)

Places == UNION {{<<g, i>> : i \in DOMAIN shards[g]} : g \in Groups}
SnapshotAt(p) == shards[p[1]][p[2]]

\* What the tool writes and what its counters say agree: each unique blob that
\* could be made is in exactly one shard or counted as one that could not be
\* grouped, each blob read is unique or counted as a duplicate, and the
\* snapshots of a shard can be loaded together.
ShardsHoldCorpus ==
    phase \in {"write", "done"} =>
      /\ \A p, q \in Places : p # q => SnapshotAt(p) # SnapshotAt(q)
      /\ \A p \in Places : SnapshotAt(p) \in Range(blobs)
      /\ counters.success = Cardinality(Places) + counters.cannot_group
      /\ counters.read = Len(blobs) + counters.duplicate
      /\ \A p, q \in Places :
           p[1] = q[1] /\ p # q => Compatible(SnapshotAt(p), {SnapshotAt(q)})

\* From the blobs to the shards nothing is lost, duplicated or miscounted, however
\* the workers, the monitor and the threads of the pool take their turns.
CorpusFromBlobs == MadeFromAllBlobs /\ ShardsHoldCorpus

\* FixupCorpus returns: no join waits for ever, on the workers, on the monitor
\* or on the threads of the pool.
FixupCorpusEnds == <>(phase = "done")

-----------------------------------------------------------------------------
(* Why it is so: an inductive invariant                                      *)

\* The blobs of worker w are at the positions behind Begin(w).
Begin(w) == SpanBegin(Len(blobs), NumWorkers)[w]

\* The positions of the blobs worker w has made a snapshot of, and those of the
\* first n workers.
Made(w) ==
    {i \in (Begin(w) + 1)..worker[w].next :
       blobs[i] \in Range(worker[w].good_snapshots)}
MadeBy(n) == UNION {Made(w) : w \in 0..(n - 1)}

\* How far worker w has told the monitor it is, and the blobs that are counted.
Counted(w) ==
    worker[w].next - (IF worker[w].state = "exited" THEN 0 ELSE worker[w].count_update)
Processed == UNION {(Begin(w) + 1)..Counted(w) : w \in Workers}

Collecting == phase \notin {"read", "make"}

ReaderInv ==
    /\ IsInjective(blobs)
    /\ id_seen = Range(blobs)
    /\ counters.read = Len(blobs) + counters.duplicate

WorkerInv ==
    IF phase = "read"
    THEN /\ \A w \in Workers : worker[w].state = "none" /\ worker[w].count_update = 0
                               /\ worker[w].good_snapshots = <<>>
         /\ num_blobs_processed = 0
    ELSE /\ \A w \in Workers :
              /\ worker[w].state \in {"run", "exited"}
              /\ worker[w].next <= Begin(w + 1)
              /\ Begin(w) + worker[w].count_update <= worker[w].next
              /\ worker[w].state = "exited" => worker[w].next = Begin(w + 1)
         /\ num_blobs_processed = Cardinality(Processed)

\* The snapshots of a worker are those of its blobs, in their order; they are
\* counted when it has been joined and then stay as they are.
GoodInv ==
    /\ phase = "make" =>
         /\ \A w \in Workers : worker[w].good_snapshots = Kept(blobs, Made(w))
         /\ \A w \in 0..(joined - 1) : worker[w].state = "exited"
         /\ counters.success = Cardinality(MadeBy(joined))
    /\ phase = "read" => joined = 0 /\ counters.success = 0
    /\ Collecting => \A w \in Workers : worker[w].state = "exited"

MonitorInv ==
    /\ phase = "read" => monitor.state = "none"
    /\ stop_progress_monitor <=> Collecting
    /\ monitor.stop_monitoring => Collecting
    /\ monitor.state = "exited" => Collecting /\ monitor.printed = Len(blobs)

\* What the partitioner is given and when.
CorpusInv ==
    /\ ~Collecting => made_snapshots = <<>>
    /\ phase \in {"read", "make", "stop"} => pc = "idle"
    /\ phase \in {"read", "make", "stop", "partition"} => counters.cannot_group = 0
    /\ phase \in {"stop", "partition"} =>
         /\ counters.success = Len(made_snapshots)
         /\ \E K \in SUBSET DOMAIN blobs : made_snapshots = Kept(blobs, K)


FixToolInv ==
    /\ FixToolTypeOK /\ PartitionerInv /\ ReaderInv /\ WorkerInv /\ GoodInv
    /\ MonitorInv /\ CorpusInv /\ ShardsHoldCorpus

=============================================================================
