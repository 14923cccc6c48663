-------------------------- MODULE PerfEventFuzzer --------------------------
(***************************************************************************)
(* proxies/pmu_event_proxy: PerfEventFuzzer measures, for one input, how   *)
(* often every PMU event happens.  Events are scheduled into groups; the   *)
(* snapshot is traced in a runner, and the callback of the harness tracer, *)
(* called once before every execution, opens the perf events of a group,   *)
(* counts the executions, and collects the samples before it goes on to    *)
(* the next group.  Reading samples is PerfEventBuffer; here the buffer is *)
(* a sequence of them.                                                     *)
(***************************************************************************)
EXTENDS Integers, Sequences, FiniteSets, TLC
LOCAL INSTANCE SequencesExt
LOCAL INSTANCE Functions
LOCAL INSTANCE FiniteSetsExt

CONSTANTS
    Events,        \* events_, a sequence without duplicates
    SourceOf,      \* the libpfm4 index of an event, shared by its sub-events
    NumCounters,   \* programmable counters of a logical CPU
    num_iterations,\* measurements wanted of each event
    Cost,          \* how often an event happens in one execution
    kMaxCount,     \* where a count is clipped
    MaxFaults      \* bound: faults of the kernel and of the runner

ASSUME PerfEventFuzzerAssumption ==
    /\ IsInjective(Events)
    /\ NumCounters \in Nat \ {0}
    /\ num_iterations \in Nat \ {0}
    /\ MaxFaults \in Nat

VARIABLES
    fuzzer,     \* "schedule", "drain", "trace", "execute", "last trace",
                \* "last execute", "clean", "done", "aborted"
    sources,    \* source groups with events that are not scheduled yet
    scheduled,  \* scheduled_events_
    work_queue,
    callback_counter,
    callback_ok,  \* callback_status
    status,       \* the status of FuzzOneInput, TRUE for ok
    runs,         \* iterations left of this TraceOne
    group,        \* opened events of perf_event_group, or NoGroup
    samples,      \* <<>> without a buffer, or <<the samples in it>>
    measurements, \* event -> measured counts
    attached,     \* the group was opened for the process that is traced
    executions,   \* history: executions under the group that is open
    clean,        \* history: those that were measured without disturbance
    owed,         \* history: event -> clean executions when it was last open
    faults

pmuVars == <<fuzzer, sources, scheduled, work_queue, callback_counter,
             callback_ok, status, runs, group, samples, measurements,
             attached, executions, clean, owed, faults>>

EventSet == Range(Events)
NoGroup == <<"none">>

-----------------------------------------------------------------------------
(* ScheduleEventsForCounters(): sub-events of one event share a source
   group and are never measured together.                                  *)

SourceGroups ==
    {SelectSeq(Events, LAMBDA e : SourceOf[e] = s) : s \in {SourceOf[e] : e \in EventSet}}

(* The priority queue, whose order is by SourceGroupLarger: the next is one
   of the smallest.                                                        *)
Picks(groups, n) ==
    {p \in SUBSET groups :
        /\ Cardinality(p) = IF n < Cardinality(groups) THEN n ELSE Cardinality(groups)
        /\ \A g \in p, h \in groups \ p : Len(g) <= Len(h)}

ScheduleGroup ==
    /\ fuzzer = "schedule"
    /\ sources # {}
    /\ \E picked \in Picks(sources, NumCounters) :
          /\ scheduled' = Append(scheduled, SetToSeq({Head(g) : g \in picked}))
          /\ sources' = (sources \ picked) \cup ({Tail(g) : g \in picked} \ {<<>>})
    /\ UNCHANGED <<fuzzer, work_queue, callback_counter, callback_ok, status,
                   runs, group, samples, measurements, attached, executions, clean, owed, faults>>

(* The beginning of FuzzOneInput(): the snapshot is made, the work queue
   filled, the measurements empty.                                         *)
FuzzOneInput ==
    /\ fuzzer = "schedule"
    /\ sources = {}
    /\ fuzzer' = "drain"
    /\ work_queue' = scheduled
    /\ UNCHANGED <<sources, scheduled, callback_counter, callback_ok, status, runs,
                   group, samples, measurements, attached, executions, clean, owed, faults>>

-----------------------------------------------------------------------------
(* The callback, before every execution of the snapshot.                   *)

(* Samples are taken when the input's two triggers write to the magic
   address: at "start" and "end", and anywhere the input itself writes
   there.  A sample has the value of every counter of the group.           *)
Sample(ip, n, running) == [ip |-> ip, n |-> n, running |-> running]

(* What happened between two samples of an execution, by the number of the
   execution: the harness counts too, outside of the two triggers.         *)
Counted(e, first, last) ==
    IF first.n = last.n THEN Cost[e] ELSE 100 + Cost[e]

(* Mutant: the last "start" is used, whatever came in between.             *)
Pairs_LastStart(list) ==
    LET ends == SelectSeq([k \in 1 .. Len(list) |-> k],
                          LAMBDA k : /\ list[k].ip = "end"
                                     /\ \E j \in 1 .. k - 1 : list[j].ip = "start")
    IN  [i \in DOMAIN ends |->
            <<list[Max({j \in 1 .. ends[i] - 1 : list[j].ip = "start"})],
              list[ends[i]]>>]

(* ProcessPerfSamples(): a count for each "end" that directly follows a
   "start", unless the counters were multiplexed in between.               *)
Pairs(list) ==
    LET ends == SelectSeq([k \in 1 .. Len(list) |-> k],
                          LAMBDA k : /\ k > 1
                                     /\ list[k].ip = "end"
                                     /\ list[k - 1].ip = "start"
                                     /\ list[k - 1].running = list[k].running)
    IN  [i \in DOMAIN ends |-> <<list[ends[i] - 1], list[ends[i]]>>]

ProcessPerfSamples ==
    IF samples = <<>> THEN measurements
    ELSE LET pairs == Pairs(samples[1])
         IN  [e \in EventSet |->
                 IF e \in Range(group)
                 THEN [i \in DOMAIN pairs |-> Counted(e, pairs[i][1], pairs[i][2])]
                 ELSE measurements[e]]

(* InitPerfEvents(): bad is the set of events the kernel does not open in
   this group.  They are queued again one by one, unless none was opened.  *)
Opened(events, bad) == SelectSeq(events, LAMBDA e : e \notin bad)

Requeued(events, bad) ==
    LET list == SelectSeq(events, LAMBDA e : e \in bad)
    IN  IF Opened(events, bad) = <<>> THEN <<>>
        ELSE [i \in DOMAIN list |-> <<list[i]>>]

Fault(n) == faults + n <= MaxFaults /\ faults' = faults + n

(* HarnessTracerCallback() with kSingleStepStop, and the execution of the
   snapshot that follows it; `more' are the samples it leaves in the buffer
   of the group.                                                           *)
CallbackState(counter, queue, ok, grp, buf, meas) ==
    /\ callback_counter' = counter /\ work_queue' = queue /\ callback_ok' = ok
    /\ group' = grp /\ samples' = buf /\ measurements' = meas

(* callback_counter = 0: the group is finished and closed, and the next one
   opened; closing, the leader and the buffer may each fail.               *)
NextGroup(bad, leader, buffer, closed) ==
    LET events == Head(work_queue)
    IN  /\ work_queue # <<>>
        /\ CallbackState(num_iterations - 1,
               Tail(work_queue) \o (IF leader THEN Requeued(events, bad) ELSE <<>>),
               callback_ok /\ closed /\ leader /\ buffer,
               IF leader THEN Opened(events, bad) ELSE NoGroup,
               IF leader /\ buffer THEN <<<<>>>> ELSE <<>>,
               ProcessPerfSamples)

LastGroup ==
    /\ work_queue = <<>>
    /\ CallbackState(0, work_queue, callback_ok, NoGroup, <<>>, ProcessPerfSamples)

(* The samples of one execution.  The first trigger is always reached.     *)
Good(n) == <<Sample("start", n, 0), Sample("end", n, 0)>>
Disturbed(n) ==
    {<<Sample("start", n, 0), Sample("other", n, 0), Sample("end", n, 0)>>,
     <<Sample("start", n, 0), Sample("end", n, 1)>>,
     <<Sample("start", n, 0)>>}

Tracing == fuzzer \in {"trace", "last trace"} /\ runs > 0

(* One iteration of TraceOne.                                              *)
FinishGroup ==
    /\ Tracing
    /\ callback_counter = 0
    /\ \/ LastGroup /\ UNCHANGED faults
       \/ \E bad \in SUBSET EventSet :
             /\ work_queue # <<>> /\ bad \subseteq Range(Head(work_queue))
             /\ NextGroup(bad, TRUE, TRUE, TRUE)
             /\ IF bad = {} THEN UNCHANGED faults ELSE Fault(1)
       \/ \E leader, closed \in BOOLEAN :
             NextGroup({}, leader, leader /\ ~closed, closed) /\ Fault(1)
    /\ attached' = TRUE
    /\ executions' = 0 /\ clean' = 0
    /\ owed' = [e \in EventSet |-> IF samples # <<>> /\ e \in Range(group)
                                   THEN clean ELSE owed[e]]
    /\ fuzzer' = IF fuzzer = "trace" THEN "execute" ELSE "last execute"
    /\ UNCHANGED <<sources, scheduled, status, runs>>

CountDown ==
    /\ Tracing
    /\ callback_counter > 0
    /\ callback_counter' = callback_counter - 1
    /\ fuzzer' = IF fuzzer = "trace" THEN "execute" ELSE "last execute"
    /\ UNCHANGED <<sources, scheduled, work_queue, callback_ok, status, runs, group,
                   samples, measurements, attached, executions, clean, owed, faults>>

Executing == fuzzer \in {"execute", "last execute"}

Execute ==
    /\ Executing
    /\ fuzzer' = IF fuzzer = "execute" THEN "trace" ELSE "last trace"
    /\ runs' = runs - 1
    /\ executions' = executions + 1
    /\ \/ /\ samples' = IF samples # <<>> /\ attached
                        THEN <<samples[1] \o Good(executions)>> ELSE samples
          /\ clean' = clean + 1
          /\ UNCHANGED faults
       \/ /\ samples # <<>> /\ attached
          /\ \E more \in Disturbed(executions) : samples' = <<samples[1] \o more>>
          /\ Fault(1)
          /\ UNCHANGED clean
    /\ UNCHANGED <<sources, scheduled, work_queue, callback_counter, callback_ok,
                   status, group, measurements, attached, owed>>

-----------------------------------------------------------------------------
(* drain_work_queue().                                                     *)

TraceOne ==
    /\ fuzzer = "drain"
    /\ status /\ work_queue # <<>>
    /\ fuzzer' = "trace"
    /\ runs' = num_iterations * Len(work_queue)
    /\ UNCHANGED <<sources, scheduled, work_queue, callback_counter, callback_ok,
                   status, group, samples, measurements, attached, executions, clean, owed, faults>>

(* The runner ends: after all the iterations, or early, as a failure.      *)
TraceReturns ==
    /\ \/ runs = 0 /\ fuzzer \in {"trace", "last trace"} /\ UNCHANGED faults
       \/ (Tracing \/ Executing) /\ Fault(1)
    /\ status' = (status /\ callback_ok /\ runs = 0)
    /\ fuzzer' = IF fuzzer \in {"trace", "execute"} THEN "drain" ELSE "clean"
    /\ runs' = 0
    /\ attached' = FALSE
    /\ UNCHANGED <<sources, scheduled, work_queue, callback_counter, callback_ok,
                   group, samples, measurements, executions, clean, owed>>

(* The queue is drained, or something failed: once more for the last
   samples.                                                                *)
DrainLast ==
    /\ fuzzer = "drain"
    /\ ~status \/ work_queue = <<>>
    /\ status' = (status /\ callback_counter = 0)
    /\ fuzzer' = "last trace"
    /\ runs' = 1
    /\ UNCHANGED <<sources, scheduled, work_queue, callback_counter, callback_ok,
                   group, samples, measurements, attached, executions, clean, owed, faults>>

(* The end of FuzzOneInput(): after an error the perf events are cleaned
   up, and only if that fails too (a fault) the queue and the counter; then
   the destructor of the callback state.                                   *)
CleanUp(cleanup_ok) ==
    LET cleared == ~status /\ ~cleanup_ok
        queue == IF cleared THEN <<>> ELSE work_queue
        counter == IF cleared THEN 0 ELSE callback_counter
    IN  /\ fuzzer = "clean"
        /\ IF cleanup_ok THEN UNCHANGED faults ELSE ~status /\ Fault(1)
        /\ work_queue' = queue
        /\ callback_counter' = counter
        /\ group' = IF status THEN group ELSE NoGroup
        /\ samples' = IF status THEN samples ELSE <<>>
        /\ fuzzer' = IF /\ queue = <<>> /\ counter = 0
                        /\ group' = NoGroup /\ samples' = <<>>
                     THEN "done" ELSE "aborted"
        /\ UNCHANGED <<sources, scheduled, callback_ok, status, runs, measurements,
                       attached, executions, clean, owed>>

PmuInit ==
    /\ fuzzer = "schedule"
    /\ sources = SourceGroups
    /\ scheduled = <<>> /\ work_queue = <<>>
    /\ callback_counter = 0
    /\ callback_ok = TRUE /\ status = TRUE
    /\ runs = 0
    /\ group = NoGroup
    /\ samples = <<>>
    /\ measurements = [e \in EventSet |-> <<>>]
    /\ attached = FALSE
    /\ executions = 0 /\ clean = 0
    /\ owed = [e \in EventSet |-> 0]
    /\ faults = 0

PmuNext ==
    \/ ScheduleGroup \/ FuzzOneInput
    \/ TraceOne \/ FinishGroup \/ CountDown \/ Execute \/ TraceReturns
    \/ DrainLast \/ \E ok \in BOOLEAN : CleanUp(ok)

-----------------------------------------------------------------------------
(* LLVMFuzzerTestOneInput(): the features that a result turns into.        *)

Clipped(counts) ==
    IF counts = <<>> THEN 0
    ELSE Min({FoldSeq(+, 0, counts) \div Len(counts), kMaxCount})

CountBits == CHOOSE b \in 1 .. 8 : 2 ^ b = kMaxCount + 1

(* Convert8BitCountToUserFeature(i, count), by the position of the MSB.    *)
Convert8BitCountToUserFeature(i, count) ==
    i * CountBits + (CHOOSE b \in 0 .. CountBits - 1 :
                         2 ^ b <= count /\ count < 2 ^ (b + 1))

EventFeatures ==
    {(i - 1) * (kMaxCount + 1) + Clipped(measurements[Events[i]]) : i \in DOMAIN Events}

PairFeatures ==
    LET c(i) == Clipped(measurements[Events[i]])
        f(i) == Convert8BitCountToUserFeature(i - 1, c(i))
        d == Len(Events) * CountBits
    IN  {f(i) * d + f(j) : <<i, j>> \in {<<k, l>> \in (DOMAIN Events) \X (DOMAIN Events) :
                                           l < k /\ c(k) > 0 /\ c(l) > 0}}

-----------------------------------------------------------------------------
(* A result of FuzzOneInput has, for every event, exactly the counts of the
   undisturbed executions it was open in: none is lost or counted twice at
   the boundary of two groups or of two processes, no count mixes two
   executions, and without a fault there are num_iterations of them.  An
   event is scheduled once, and never with another event of its source
   group.  The features tell the events and their counts apart.            *)
EventsMeasured ==
    /\ \A e \in EventSet : Cardinality({k \in DOMAIN scheduled : e \in Range(scheduled[k])})
           = IF \E g \in sources : e \in Range(g) THEN 0 ELSE 1
    /\ \A k \in DOMAIN scheduled :
           /\ Len(scheduled[k]) <= NumCounters
           /\ \A i, j \in DOMAIN scheduled[k] :
                  SourceOf[scheduled[k][i]] = SourceOf[scheduled[k][j]] => i = j
    /\ fuzzer = "done" /\ status =>
           /\ \A e \in EventSet : measurements[e] = [i \in 1 .. owed[e] |-> Cost[e]]
           /\ faults = 0 => \A e \in EventSet : owed[e] = num_iterations
           /\ \A i \in DOMAIN Events : \E f \in EventFeatures :
                  /\ f \div (kMaxCount + 1) = i - 1
                  /\ f % (kMaxCount + 1) = Clipped(measurements[Events[i]])
           /\ Cardinality(EventFeatures) = Len(Events)
           /\ LET n == Cardinality({e \in EventSet : Clipped(measurements[e]) > 0})
              IN  2 * Cardinality(PairFeatures) = n * (n - 1)

(* FuzzOneInput returns, or the sanity checks end the process: events that
   cannot be opened are not tried for ever.                                *)
FuzzEnds == <>(fuzzer \in {"done", "aborted"})

(* perf_event_fuzzer.h, in the destructor of the callback state: "Sanity
   checks to catch programming errors."                                    *)
SanityChecksHold == fuzzer # "aborted"
=============================================================================
