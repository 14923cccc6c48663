------------------------- MODULE CorpusPartitioner --------------------------
(***************************************************************************)
(* tool_libs/corpus_partitioner_lib.cc, tool_libs/snap_group.cc and the    *)
(* util/thread_pool.h they run on: snapshots that use the same memory are  *)
(* put into different groups, because a runner maps everything its shard   *)
(* has.  Each iteration gives every group a chunk of the summaries left;   *)
(* the threads of a pool work through the chunks and null out, in the      *)
(* shared list, the summaries they could place.                            *)
(*                                                                         *)
(* A summary is its id; memory is pages, and a mapping one page with its   *)
(* permissions.  Groups and list positions count from 0 as in the code.    *)
(***************************************************************************)
EXTENDS Integers, Sequences, FiniteSets, SpanUtil

CONSTANTS
    Ids,             \* snapshot ids, ordered as the strings are
    SortKey,         \* sort_key of each
    Pages,
    MappingChoices,  \* what memory_mappings may be: sets of <<page, perms>>
    NumGroups, NumIterations,
    Threads          \* of the ThreadPool

ASSUME PartitionerAssumption ==
    /\ Ids \subseteq Nat \ {0} /\ IsFiniteSet(Ids)
    /\ SortKey \in [Ids -> Int]
    /\ MappingChoices \subseteq [Ids -> SUBSET (Pages \X {"rx", "rw", "rwx"})]
    /\ NumGroups \in Nat \ {0}
    /\ NumIterations \in Nat
    /\ IsFiniteSet(Threads) /\ Threads # {}

VARIABLES
    memory_mappings,   \* of each snapshot
    pc,                \* PartitionCorpus: "idle", "iterate", "schedule", "join", "done"
    corpus,            \* history: the input, sorted
    summaries,         \* `ungrouped`
    iteration,
    id_set,            \* of each group
    mapped,            \* mapped_memory_map_ of each group
    target,            \* target_group_size
    next_group, offset,
    queue,             \* of the ThreadPool
    thread

poolVars == <<queue, thread>>
groupVars == <<id_set, mapped>>
loopVars == <<iteration, target, next_group, offset>>
partitionerVars == <<memory_mappings, pc, corpus, summaries, groupVars,
                     loopVars, poolVars>>

Groups == 0..(NumGroups - 1)
kNullSummary == 0
Shutdown == [group |-> -1, begin |-> 0, chunk_size |-> 0]   \* func == nullptr
Await == [state |-> "await", task |-> Shutdown, j |-> 0]

PartitionerInit ==
    /\ memory_mappings \in MappingChoices
    /\ pc = "idle"
    /\ corpus = <<>>
    /\ summaries = <<>>
    /\ iteration = 0
    /\ id_set = [g \in Groups |-> {}]
    /\ mapped = [g \in Groups |-> {}]
    /\ target = [g \in Groups |-> 0]
    /\ next_group = 0
    /\ offset = 0
    /\ queue = <<>>
    /\ thread = [t \in Threads |-> Await]

-----------------------------------------------------------------------------
(* SnapshotGroup                                                             *)

Writable(perms) == perms \in {"rw", "rwx"}

\* With kAllowWriteConflictsWithSamePerm.
CanAddSnapshot(g, id) ==
    /\ id \notin id_set[g]
    /\ \A new \in memory_mappings[id], old \in mapped[g] :
         new[1] = old[1] => Writable(new[2]) /\ new[2] = old[2]

AddSnapshot(g, id) ==
    /\ mapped' = [mapped EXCEPT ![g] = @ \cup memory_mappings[id]]
    /\ id_set' = [id_set EXCEPT ![g] = @ \cup {id}]

-----------------------------------------------------------------------------
(* PartitionCorpus and SnapshotPartition::PartitionSnapshots                 *)

Before(a, b) == SortKey[a] < SortKey[b] \/ (SortKey[a] = SortKey[b] /\ a < b)

\* What absl::c_sort may make of the list: there is one order of distinct ids.
Sorted(list) ==
    {[i \in DOMAIN list |-> list[p[i]]] :
        p \in {p \in [DOMAIN list -> DOMAIN list] :
                 \A i, j \in DOMAIN list :
                   i < j => p[i] # p[j] /\ ~Before(list[p[j]], list[p[i]])}}

\* The call, on a list of snapshots in any order.
PartitionCorpus(list) ==
    /\ pc = "idle"
    /\ corpus' \in Sorted(list)
    /\ summaries' = corpus'
    /\ pc' = "iterate"
    /\ UNCHANGED <<memory_mappings, groupVars, loopVars, poolVars>>

\* num_snapshots: those left and those in the groups.
NumSnapshots ==
    LET grouped[n \in 0..NumGroups] ==
          IF n = 0 THEN 0 ELSE grouped[n - 1] + Cardinality(id_set[n - 1])
    IN  Len(summaries) + grouped[NumGroups]

TargetGroupSize(g) == SpanSize(NumSnapshots, NumGroups, g)

\* The next turn of the loop: PartitionSnapshots computes the sizes and starts
\* a ThreadPool.
PartitionSnapshots ==
    /\ pc = "iterate"
    /\ iteration < NumIterations /\ summaries # <<>>
    /\ target' = [g \in Groups |-> TargetGroupSize(g)]
    /\ next_group' = 0
    /\ offset' = 0
    /\ queue' = <<>>
    /\ thread' = [t \in Threads |-> Await]
    /\ pc' = "schedule"
    /\ UNCHANGED <<memory_mappings, corpus, summaries, iteration, groupVars>>

ChunkSize(g) == target[g] - Cardinality(id_set[g])

\* Mutant: every chunk starts at the same place.
ScheduleGroup_SameOffset ==
    /\ pc = "schedule"
    /\ next_group < NumGroups
    /\ IF ChunkSize(next_group) = 0
       THEN UNCHANGED queue
       ELSE queue' = Append(queue, [group |-> next_group, begin |-> offset,
                                    chunk_size |-> ChunkSize(next_group)])
    /\ next_group' = next_group + 1
    /\ UNCHANGED <<memory_mappings, pc, corpus, summaries, iteration, target,
                   offset, groupVars, thread>>

ScheduleGroup ==
    /\ pc = "schedule"
    /\ next_group < NumGroups
    /\ IF ChunkSize(next_group) = 0
       THEN UNCHANGED <<queue, offset>>
       ELSE /\ queue' = Append(queue, [group |-> next_group, begin |-> offset,
                                       chunk_size |-> ChunkSize(next_group)])
            /\ offset' = offset + ChunkSize(next_group)
    /\ next_group' = next_group + 1
    /\ UNCHANGED <<memory_mappings, pc, corpus, summaries, iteration, target,
                   groupVars, thread>>

\* Mutant: one signal for all.
ShutDownPool_OneSignal ==
    /\ pc = "schedule"
    /\ next_group = NumGroups
    /\ queue' = Append(queue, Shutdown)
    /\ pc' = "join"
    /\ UNCHANGED <<memory_mappings, corpus, summaries, loopVars, groupVars,
                   thread>>

\* ~ThreadPool: one shutdown signal per thread, behind the work.
ShutDownPool ==
    /\ pc = "schedule"
    /\ next_group = NumGroups
    /\ queue' = queue \o [i \in 1..Cardinality(Threads) |-> Shutdown]
    /\ pc' = "join"
    /\ UNCHANGED <<memory_mappings, corpus, summaries, loopVars, groupVars,
                   thread>>

\* std::remove and erase leave the elements at the positions K, in their order.
Nth(K, i) == CHOOSE k \in K : Cardinality({m \in K : m < k}) = i - 1
Kept(s, K) == [i \in 1..Cardinality(K) |-> s[Nth(K, i)]]

\* Mutant: the order is not kept.
Remaining_Reversed ==
    LET K == {i \in DOMAIN summaries : summaries[i] # kNullSummary}
        n == Cardinality(K)
    IN  [i \in 1..n |-> summaries[Nth(K, n + 1 - i)]]

\* The summaries not placed.
Remaining ==
    Kept(summaries, {i \in DOMAIN summaries : summaries[i] # kNullSummary})

JoinPool ==
    /\ pc = "join"
    /\ \A t \in Threads : thread[t].state = "exited"
    /\ summaries' = Remaining
    /\ iteration' = iteration + 1
    /\ pc' = "iterate"
    /\ UNCHANGED <<memory_mappings, corpus, target, next_group, offset,
                   groupVars, poolVars>>

PartitionReturns ==
    /\ pc = "iterate"
    /\ iteration = NumIterations \/ summaries = <<>>
    /\ pc' = "done"
    /\ UNCHANGED <<memory_mappings, corpus, summaries, groupVars, loopVars,
                   poolVars>>

(* A thread of the pool                                                      *)

WorkLoop(t) ==
    /\ thread[t].state = "await"
    /\ queue # <<>>
    /\ queue' = Tail(queue)
    /\ thread' = [thread EXCEPT ![t] =
                    [state |-> IF Head(queue) = Shutdown THEN "exited" ELSE "run",
                     task |-> Head(queue), j |-> Head(queue).begin]]
    /\ UNCHANGED <<memory_mappings, pc, corpus, summaries, loopVars, groupVars>>

\* The rest of the list is only reached by the other threads.
TrySummary(t) ==
    LET task == thread[t].task
        j == thread[t].j
        id == summaries[j + 1]
    IN  /\ thread[t].state = "run"
        /\ j < task.begin + task.chunk_size
        /\ IF CanAddSnapshot(task.group, id)
           THEN /\ AddSnapshot(task.group, id)
                /\ summaries' = [summaries EXCEPT ![j + 1] = kNullSummary]
           ELSE UNCHANGED <<groupVars, summaries>>
        /\ thread' = [thread EXCEPT ![t].j = j + 1]
        /\ UNCHANGED <<memory_mappings, pc, corpus, loopVars, queue>>

TaskReturns(t) ==
    /\ thread[t].state = "run"
    /\ thread[t].j >= thread[t].task.begin + thread[t].task.chunk_size
    /\ thread' = [thread EXCEPT ![t] = Await]
    /\ UNCHANGED <<memory_mappings, pc, corpus, summaries, loopVars, groupVars,
                   queue>>

-----------------------------------------------------------------------------
CallerStep ==
    \/ PartitionSnapshots \/ ScheduleGroup \/ ShutDownPool \/ JoinPool
    \/ PartitionReturns
ThreadStep(t) == WorkLoop(t) \/ TrySummary(t) \/ TaskReturns(t)

Orders == {s \in UNION {[1..n -> Ids] : n \in 0..Cardinality(Ids)} :
            \A i, j \in DOMAIN s : i # j => s[i] # s[j]}

PartitionerNext ==
    \/ \E list \in Orders : PartitionCorpus(list)
    \/ CallerStep
    \/ \E t \in Threads : ThreadStep(t)
    \/ pc = "done" /\ UNCHANGED partitionerVars

PartitionerSpec == PartitionerInit /\ [][PartitionerNext]_partitionerVars

-----------------------------------------------------------------------------
(* Properties                                                                *)

Tasks == {queue[i] : i \in DOMAIN queue} \ {Shutdown}
RunningTasks == {t \in Threads : thread[t].state = "run"}
Chunks == Tasks \cup {thread[t].task : t \in RunningTasks}
IdsLeft == {summaries[i] : i \in DOMAIN summaries} \ {kNullSummary}
CorpusIds == {corpus[i] : i \in DOMAIN corpus}
Grouped == UNION {id_set[g] : g \in Groups}

TaskRecords ==
    [group : Groups, begin : Nat, chunk_size : Nat] \cup {Shutdown}

PartitionerTypeOK ==
    /\ memory_mappings \in MappingChoices
    /\ pc \in {"idle", "iterate", "schedule", "join", "done"}
    /\ corpus \in Seq(Ids)
    /\ summaries \in Seq(Ids \cup {kNullSummary})
    /\ iteration \in 0..NumIterations
    /\ id_set \in [Groups -> SUBSET Ids]
    /\ mapped \in [Groups -> SUBSET (Pages \X {"rx", "rw", "rwx"})]
    /\ target \in [Groups -> Nat]
    /\ next_group \in 0..NumGroups
    /\ offset \in Nat
    /\ queue \in Seq(TaskRecords)
    /\ thread \in [Threads -> [state : {"await", "run", "exited"},
                               task : TaskRecords, j : Nat]]

\* snap_group.cc: "Thread-safe: no two threads ever process the same summary",
\* and DCHECK_LE(offset + chunk_size, summaries.size()).  The chunks are not
\* empty, lie within the list, and no two that are still to be worked on share
\* a summary or a group; when all are scheduled they cover the list, whatever
\* earlier iterations left in the groups.
ChunksDisjoint ==
    LET Range(c) == c.begin .. (c.begin + c.chunk_size - 1)
    IN  /\ \A c \in Chunks :
             c.chunk_size > 0 /\ c.begin + c.chunk_size <= Len(summaries)
        /\ \A c, d \in Chunks :
             c # d => c.group # d.group /\ Range(c) \cap Range(d) = {}
        /\ \A t, u \in RunningTasks : t # u => thread[t].task # thread[u].task
        /\ pc = "join" => offset = Len(summaries)

\* At every moment each snapshot of the corpus is in exactly one place: once
\* in the list or in one group; and the snapshots of a group can be loaded
\* together, sharing only pages that all of them may write with the same
\* permissions.
GroupsConflictFree ==
    /\ \A g, h \in Groups : g # h => id_set[g] \cap id_set[h] = {}
    /\ \A g \in Groups : id_set[g] \cap IdsLeft = {}
    /\ Grouped \cup IdsLeft = CorpusIds
    /\ \A i, j \in DOMAIN summaries :
         i # j /\ summaries[i] # kNullSummary => summaries[i] # summaries[j]
    /\ \A g \in Groups : \A a, b \in id_set[g] : a # b =>
         \A x \in memory_mappings[a], y \in memory_mappings[b] :
            x[1] = y[1] => Writable(x[2]) /\ x[2] = y[2]

\* snap_group.cc: the threads "always deliver a deterministic partitioning
\* result".  Whatever the order the threads ran in and however many iterations
\* there were, group g is what one pass over the g-th of NumGroups even spans
\* of the sorted corpus collects, taking each snapshot that goes with those
\* already taken; the rest is left, in order.
Compatible(id, others) ==
    \A o \in others : \A x \in memory_mappings[id], y \in memory_mappings[o] :
        x[1] = y[1] => Writable(x[2]) /\ x[2] = y[2]

SpanOf(g) == {p + 1 : p \in PartitionEvenly(Len(corpus), NumGroups)[g]}

Collected(g, n) ==
    id_set[g] =
      {corpus[i] : i \in
        {i \in SpanOf(g) :
           /\ i <= n
           /\ Compatible(corpus[i], id_set[g] \cap
                           {corpus[k] : k \in {k \in SpanOf(g) : k < i}})}}

Ungrouped == {i \in DOMAIN corpus : corpus[i] \notin Grouped}

PartitionDeterministic ==
    pc = "done" /\ NumIterations > 0 =>
      /\ \A g \in Groups : Collected(g, Len(corpus))
      /\ summaries = Kept(corpus, Ungrouped)

\* The partitioning threads neither lose, duplicate nor race for a snapshot, and
\* the groups they make are free of conflicts and always the same.
GroupingSound == ChunksDisjoint /\ GroupsConflictFree /\ PartitionDeterministic

\* PartitionCorpus sorts once and never shuffles, so the chunk of a group in a
\* later iteration is what the first one left of the same span: the iterations
\* after the first add nothing to any group.
LaterIterationsAddNothing ==
    [][iteration > 0 => UNCHANGED groupVars]_partitionerVars

-----------------------------------------------------------------------------
(* Why it is so: an inductive invariant                                      *)

\* The g-th even span of the corpus starts behind position First(g).  The
\* target sizes of all iterations are those of the spans, because the groups
\* and the list always have the whole corpus between them.
First(g) == SpanBegin(Len(corpus), NumGroups)[g]

\* Where the chunk of group g starts: in the first iteration where its span
\* does, later at the first snapshot that is left of it.
Left(g) == Cardinality({i \in Ungrouped : i <= First(g)})
ChunkBegin(g) == IF iteration = 0 THEN First(g) ELSE Left(g)

GroupInv ==
    /\ \A i, j \in DOMAIN corpus : i # j => corpus[i] # corpus[j]
    /\ \A g \in Groups :
         /\ id_set[g] \subseteq {corpus[i] : i \in SpanOf(g)}
         /\ mapped[g] = UNION {memory_mappings[a] : a \in id_set[g]}
         /\ \A a \in id_set[g] : Compatible(a, id_set[g] \ {a})

Scheduling == pc \in {"schedule", "join"}

ListInv ==
    /\ pc = "idle" => corpus = <<>> /\ iteration = 0
    /\ pc = "done" => iteration = NumIterations \/ summaries = <<>>
    /\ Scheduling => iteration < NumIterations
    /\ iteration = 0 =>
         summaries = [i \in DOMAIN corpus |->
                        IF i \in Ungrouped THEN corpus[i] ELSE kNullSummary]
    /\ iteration > 0 => summaries = Kept(corpus, Ungrouped)

TaskInv ==
    /\ Scheduling =>
         /\ target = [g \in Groups |-> SpanSize(Len(corpus), NumGroups, g)]
         /\ offset = ChunkBegin(next_group)
    /\ pc = "join" => next_group = NumGroups
    /\ \A c \in Chunks :
         /\ c.group \in Groups /\ c.group < next_group
         /\ c.begin = ChunkBegin(c.group)
         /\ c.chunk_size > 0
         /\ c.begin + c.chunk_size = ChunkBegin(c.group + 1)
    /\ \A t \in RunningTasks :
         /\ thread[t].j >= thread[t].task.begin
         /\ thread[t].j <= thread[t].task.begin + thread[t].task.chunk_size

\* No group is worked on by two.
OwnerInv ==
    /\ \A i, j \in DOMAIN queue :
         i # j /\ queue[i] # Shutdown => queue[i].group # queue[j].group
    /\ \A t \in RunningTasks :
         /\ \A c \in Tasks : thread[t].task.group # c.group
         /\ \A u \in RunningTasks :
              t # u => thread[t].task.group # thread[u].task.group

\* The shutdown signals are behind the work.
SignalInv ==
    /\ \A i, j \in DOMAIN queue : i < j /\ queue[i] = Shutdown => queue[j] = Shutdown
    /\ \A t \in Threads : thread[t].state = "exited" => Tasks = {}
    /\ \A t \in RunningTasks : thread[t].task # Shutdown
    /\ pc = "schedule" =>
         /\ \A i \in DOMAIN queue : queue[i] # Shutdown
         /\ \A t \in Threads : thread[t].state # "exited"
    /\ ~Scheduling =>
         /\ RunningTasks = {}
         /\ queue = <<>> \/ \A t \in Threads : thread[t].state = "exited"

\* How far each group has come.
Waiting(g) == ~Scheduling \/ g >= next_group \/ \E c \in Tasks : c.group = g
Running(g) == \E t \in RunningTasks : thread[t].task.group = g

ProgressInv ==
    /\ iteration = 0 => \A g \in Groups :
         /\ Waiting(g) => id_set[g] = {}
         /\ ~Waiting(g) /\ ~Running(g) => Collected(g, First(g + 1))
    /\ iteration = 0 => \A t \in RunningTasks :
         \A g \in {thread[t].task.group}, n \in {thread[t].j} : Collected(g, n)
    /\ iteration > 0 => \A g \in Groups : Collected(g, First(g + 1))

PartitionerInv ==
    /\ PartitionerTypeOK /\ GroupInv /\ ListInv /\ TaskInv /\ OwnerInv
    /\ SignalInv /\ ProgressInv
=============================================================================
