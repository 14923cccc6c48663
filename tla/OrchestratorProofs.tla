------------------------- MODULE OrchestratorProofs -------------------------
(***************************************************************************)
(* Proofs about Orchestrator, for any number of threads, CPUs and shards   *)
(* and any bound on the runs.                                              *)
(***************************************************************************)
EXTENDS Orchestrator, SpanUtilProofs

-----------------------------------------------------------------------------
(* Type correctness                                                          *)

LEMMA EmptySeq == ASSUME NEW S PROVE <<>> \in Seq(S)
  OBVIOUS

LEMMA AppendType ==
  ASSUME NEW S, NEW s \in Seq(S), NEW e \in S PROVE Append(s, e) \in Seq(S)
  OBVIOUS

LEMMA IncrementType ==
  ASSUME NEW S, NEW f \in [S -> Nat], NEW x \in S
  PROVE  [f EXCEPT ![x] = @ + 1] \in [S -> Nat]
  OBVIOUS

LEMMA TypeInit == Init => TypeOK
<1> SUFFICES ASSUME Init PROVE TypeOK
  OBVIOUS
<1>1. CollectorTypeOK
  BY CollectorAssumption DEF Init, CollectorInit, CollectorTypeOK
<1>2. 0 \in 0..NumThreads
  BY OrchestratorAssumption
<1>3. /\ tpc \in [Threads -> ThreadStates]
      /\ result \in [Threads -> RunResults]
      /\ iteration \in [Threads -> Nat]
      /\ next_index \in [Threads -> Nat]
      /\ late \in [Threads -> Nat]
  BY DEF Init, ThreadStates, RunResults
<1>4. /\ queue \in Seq(RunResults)
      /\ batch \in Seq(RunResults)
      /\ accepted \in Seq(RunResults)
  BY EmptySeq DEF Init
<1> QED
  BY <1>1, <1>2, <1>3, <1>4 DEF Init, TypeOK, MainStates

LEMMA CollectorFrame ==
  CollectorTypeOK /\ UNCHANGED collectorVars => CollectorTypeOK'
  BY DEF CollectorTypeOK, collectorVars, summaryVars

LEMMA SendType ==
  ASSUME CollectorTypeOK, NEW kind \in LogEntries, Send(kind)
  PROVE  log' \in Seq(LogEntries)
  BY DEF CollectorTypeOK, Send

LEMMA CollectType ==
  ASSUME CollectorTypeOK, NEW r \in RunResults, Collect(r)
  PROVE  CollectorTypeOK'
<1>1. log' \in Seq(LogEntries)
  BY DEF CollectorTypeOK, Collect, Send, LogEntries
<1> QED
  BY <1>1 DEF CollectorTypeOK, Collect

LEMMA ProcessOneType ==
  ASSUME TypeOK, NEW r \in RunResults, ProcessOne(r)
  PROVE  CollectorTypeOK' /\ stop_execution' \in BOOLEAN
  BY CollectType DEF TypeOK, ProcessOne, ShouldStopAfter, CountsAsError, Success

LEMMA TypeStep == TypeOK /\ [Next]_vars => TypeOK'
<1> SUFFICES ASSUME TypeOK, [Next]_vars PROVE TypeOK'
  OBVIOUS
<1> USE CollectorFrame DEF TypeOK, mainVars, threadVars, stopVars, queueVars,
        runVars
<1>1. CASE UNCHANGED vars
  BY <1>1 DEF vars
<1>2. CASE SetupFails
  BY <1>2 DEF SetupFails, MainStates
<1>3. CASE SetupSucceeds
  BY <1>3 DEF SetupSucceeds, MainStates
<1>4. CASE StartSession
  <2>1. CASE session_logging
    <3>1. LogSessionStart
      BY <1>4, <2>1 DEF StartSession
    <3>2. log' \in Seq(LogEntries)
      BY <3>1, SendType DEF LogSessionStart, LogEntries
    <3>3. CollectorTypeOK'
      BY <3>1, <3>2 DEF LogSessionStart, CollectorTypeOK, summaryVars
    <3> QED
      BY <1>4, <2>1, <3>3 DEF StartSession, MainStates
  <2>2. CASE ~session_logging
    BY <1>4, <2>2 DEF StartSession, MainStates
  <2> QED BY <2>1, <2>2
<1>5. CASE SpawnThread
  <2>1. spawned' \in 0..NumThreads
    BY <1>5, OrchestratorAssumption DEF SpawnThread
  <2> QED
    BY <1>5, <2>1 DEF SpawnThread, MainStates, ThreadStates
<1>6. CASE EventLoopCheck
  BY <1>6 DEF EventLoopCheck, MainStates
<1>7. CASE EventLoopLock
  BY <1>7, EmptySeq DEF EventLoopLock, TakeBatch, MainStates
<1>8. CASE EventLoopWake
  BY <1>8, EmptySeq DEF EventLoopWake, TakeBatch, MainStates
<1>9. CASE EventLoopTimeout
  BY <1>9, EmptySeq DEF EventLoopTimeout, TakeBatch, MainStates
<1>10. CASE ProcessBatch
  <2>1. CASE batch = <<>>
    BY <1>10, <2>1 DEF ProcessBatch, MainStates
  <2>2. CASE batch # <<>>
    <3>1. Head(batch) \in RunResults /\ Tail(batch) \in Seq(RunResults)
      BY <2>2
    <3>2. CollectorTypeOK' /\ stop_execution' \in BOOLEAN
      BY <1>10, <2>2, <3>1, ProcessOneType DEF ProcessBatch
    <3> QED
      BY <1>10, <2>2, <3>1, <3>2 DEF ProcessBatch, ProcessOne, MainStates
  <2> QED BY <2>1, <2>2
<1>11. CASE ProcessResultQueue
  <2>1. CASE queue = <<>>
    BY <1>11, <2>1 DEF ProcessResultQueue, MainStates
  <2>2. CASE queue # <<>>
    <3>1. Head(queue) \in RunResults /\ Tail(queue) \in Seq(RunResults)
      BY <2>2
    <3>2. CollectorTypeOK' /\ stop_execution' \in BOOLEAN
      BY <1>11, <2>2, <3>1, ProcessOneType DEF ProcessResultQueue
    <3> QED
      BY <1>11, <2>2, <3>1, <3>2 DEF ProcessResultQueue, ProcessOne, MainStates
  <2> QED BY <2>1, <2>2
<1>12. CASE JoinThreads
  BY <1>12 DEF JoinThreads, MainStates
<1>13. CASE WriteSummary
  <2>1. CollectorTypeOK'
    <3>1. CASE LogSessionSummary
      <4>1. log' \in Seq(LogEntries)
        BY <3>1, SendType DEF LogSessionSummary, LogEntries
      <4> QED
        BY <3>1, <4>1 DEF LogSessionSummary, CollectorTypeOK, summaryVars
    <3>2. CASE UNCHANGED collectorVars
      BY <3>2
    <3> QED BY <1>13, <3>1, <3>2 DEF WriteSummary
  <2> QED
    BY <1>13, <2>1 DEF WriteSummary, MainStates
<1>14. CASE Return
  BY <1>14 DEF Return, MainStates
<1>15. ASSUME NEW t \in Threads, RunnerThread(t) PROVE TypeOK'
  <2>1. CASE CheckStop(t)
    BY <2>1 DEF CheckStop, ThreadStates
  <2>2. CASE StartRunner(t)
    <3>1. tpc' \in [Threads -> ThreadStates]
      BY <2>2 DEF StartRunner, ThreadStates
    <3>2. next_index' \in [Threads -> Nat]
      <4>1. \/ next_index' = next_index
            \/ next_index' = [next_index EXCEPT ![t] = @ + 1]
        BY <2>2 DEF StartRunner
      <4>2. next_index \in [Threads -> Nat]
        OBVIOUS
      <4>3. [next_index EXCEPT ![t] = @ + 1] \in [Threads -> Nat]
        BY <4>2, IncrementType
      <4> QED BY <4>1, <4>2, <4>3, Zenon
    <3>3. late' \in [Threads -> Nat]
      BY <2>2 DEF StartRunner
    <3>4. NextCorpus(t) \subseteq Shards \cup {kEndOfStream}
      BY OrchestratorAssumption DEF NextCorpus, Shards
    <3>5. played' \in SUBSET Shards
      BY <2>2, <3>4 DEF StartRunner
    <3> QED
      BY <2>2, <3>1, <3>2, <3>3, <3>5 DEF StartRunner
  <2>3. CASE RunnerReturns(t)
    BY <2>3 DEF RunnerReturns, ThreadStates
  <2>4. CASE OfferRunResult(t)
    <3>1. /\ queue' \in Seq(RunResults)
          /\ accepted' \in Seq(RunResults)
          /\ dropped' \in Nat
      <4>1. result[t] \in RunResults /\ Enqueue(result[t])
        BY <2>4 DEF OfferRunResult
      <4>2. CASE Len(queue) >= NumThreads
        BY <4>1, <4>2 DEF Enqueue
      <4>3. CASE ~(Len(queue) >= NumThreads)
        BY <4>1, <4>3, AppendType DEF Enqueue
      <4> QED BY <4>2, <4>3
    <3>2. /\ tpc' \in [Threads -> ThreadStates]
          /\ iteration' \in [Threads -> Nat]
          /\ result' \in [Threads -> RunResults]
      BY <2>4 DEF OfferRunResult, ThreadStates, RunResults
    <3>3. notified' \in BOOLEAN
      BY <2>4 DEF OfferRunResult
    <3> QED
      BY <2>4, <3>1, <3>2, <3>3 DEF OfferRunResult
  <2>5. CASE StopAll(t)
    BY <2>5 DEF StopAll, ThreadStates
  <2> QED BY <1>15, <2>1, <2>2, <2>3, <2>4, <2>5 DEF RunnerThread
<1>16. CASE DeadlinePasses
  BY <1>16 DEF DeadlinePasses
<1>17. CASE Interrupt
  BY <1>17 DEF Interrupt
<1>18. CASE Watchdog
  BY <1>18 DEF Watchdog, MainStates
<1>19. CASE LogReaderGoesAway
  <2>1. CollectorTypeOK'
    BY <1>19 DEF LogReaderGoesAway, ReaderGoesAway, CollectorTypeOK, summaryVars
  <2> QED
    BY <1>19, <2>1 DEF LogReaderGoesAway
<1> QED
  BY <1>1, <1>2, <1>3, <1>4, <1>5, <1>6, <1>7, <1>8, <1>9, <1>10, <1>11,
     <1>12, <1>13, <1>14, <1>15, <1>16, <1>17, <1>18, <1>19
     DEF Next, Main, Environment, Terminated

\* Every reachable state of the orchestrator is well typed.
THEOREM TypeCorrect == Spec => []TypeOK
  BY TypeInit, TypeStep, PTL DEF Spec

-----------------------------------------------------------------------------
(* What a step does to the stream of results: one of six things.             *)

Untouched == UNCHANGED <<accepted, queue, batch, play_count,
                         num_failed_snapshots, fail_after_n_errors>>

Takes == /\ mpc \in {"lock", "wait"}
         /\ batch' = queue /\ queue' = <<>>
         /\ UNCHANGED <<accepted, play_count, num_failed_snapshots,
                        fail_after_n_errors, stop_execution, exit_code>>

ConsumesBatch == /\ mpc = "process" /\ batch # <<>>
                 /\ ProcessOne(Head(batch)) /\ batch' = Tail(batch)
                 /\ UNCHANGED <<accepted, queue, exit_code>>

ConsumesQueue == /\ mpc = "drain" /\ queue # <<>>
                 /\ ProcessOne(Head(queue)) /\ queue' = Tail(queue)
                 /\ UNCHANGED <<accepted, batch, exit_code>>

Offers == \E r \in RunResults :
            /\ Alive
            /\ Len(queue) < NumThreads
            /\ queue' = Append(queue, r) /\ accepted' = Append(accepted, r)
            /\ UNCHANGED <<batch, play_count, num_failed_snapshots,
                           fail_after_n_errors, stop_execution, exit_code>>

\* Steps that leave the stream alone may stop the threads or end the process.
Keeps == /\ Untouched
         /\ stop_execution => stop_execution'
         /\ \/ UNCHANGED exit_code
            \/ Return
            \/ Alive /\ exit_code' \in {"none", "watchdog"}
            \/ mpc \in {"setup", "session_start"} /\ exit_code' = "error"

LEMMA StepKinds ==
  ASSUME TypeOK, [Next]_vars
  PROVE  /\ Keeps \/ Takes \/ ConsumesBatch \/ ConsumesQueue \/ Offers
         /\ UNCHANGED report_runaways
<1> USE DEF mainVars, threadVars, stopVars, queueVars, collectorVars,
            summaryVars, Untouched, Keeps
<1>1. CASE UNCHANGED vars
  BY <1>1 DEF vars
<1>2. CASE SetupFails
  BY <1>2 DEF SetupFails
<1>3. CASE SetupSucceeds
  BY <1>3 DEF SetupSucceeds
<1>4. CASE StartSession
  BY <1>4 DEF StartSession, LogSessionStart, Alive
<1>5. CASE SpawnThread
  BY <1>5 DEF SpawnThread
<1>6. CASE EventLoopCheck
  BY <1>6 DEF EventLoopCheck
<1>7. CASE EventLoopLock
  BY <1>7 DEF EventLoopLock, TakeBatch, Takes
<1>8. CASE EventLoopWake
  BY <1>8 DEF EventLoopWake, TakeBatch, Takes
<1>9. CASE EventLoopTimeout
  BY <1>9 DEF EventLoopTimeout, TakeBatch, Takes
<1>10. CASE ProcessBatch
  BY <1>10 DEF ProcessBatch, ProcessOne, Collect, ConsumesBatch
<1>11. CASE ProcessResultQueue
  BY <1>11 DEF ProcessResultQueue, ProcessOne, Collect, ConsumesQueue
<1>12. CASE JoinThreads
  BY <1>12 DEF JoinThreads
<1>13. CASE WriteSummary
  BY <1>13 DEF WriteSummary, LogSessionSummary
<1>14. CASE Return
  BY <1>14 DEF Return
<1>15. ASSUME NEW t \in Threads, RunnerThread(t)
       PROVE  (Keeps \/ Offers) /\ UNCHANGED report_runaways
  <2>1. CASE CheckStop(t)
    BY <2>1 DEF CheckStop
  <2>2. CASE StartRunner(t)
    BY <2>2 DEF StartRunner
  <2>3. CASE RunnerReturns(t)
    BY <2>3 DEF RunnerReturns
  <2>4. CASE OfferRunResult(t)
    <3>1. result[t] \in RunResults /\ queue \in Seq(RunResults)
      BY DEF TypeOK
    <3>2. Len(queue) \in Nat /\ NumThreads \in Nat
      BY <3>1, OrchestratorAssumption
    <3>3. CASE Len(queue) >= NumThreads
      BY <2>4, <3>3 DEF OfferRunResult, Enqueue
    <3>4. CASE Len(queue) < NumThreads
      BY <2>4, <3>1, <3>2, <3>4 DEF OfferRunResult, Enqueue, Offers
    <3> QED BY <3>2, <3>3, <3>4
  <2>5. CASE StopAll(t)
    BY <2>5 DEF StopAll
  <2> QED BY <1>15, <2>1, <2>2, <2>3, <2>4, <2>5 DEF RunnerThread
<1>16. CASE DeadlinePasses
  BY <1>16 DEF DeadlinePasses
<1>17. CASE Interrupt
  BY <1>17 DEF Interrupt
<1>18. CASE Watchdog
  BY <1>18 DEF Watchdog, Alive
<1>19. CASE LogReaderGoesAway
  BY <1>19 DEF LogReaderGoesAway, ReaderGoesAway
<1> QED
  BY <1>1, <1>2, <1>3, <1>4, <1>5, <1>6, <1>7, <1>8, <1>9, <1>10, <1>11,
     <1>12, <1>13, <1>14, <1>15, <1>16, <1>17, <1>18, <1>19
     DEF Next, Main, Environment, Terminated

-----------------------------------------------------------------------------
(* The inductive invariant, conjunct by conjunct                             *)

\* Sequence a consists of p elements, then b, then q.
Splits(a, p, b, q) ==
    /\ Len(a) = p + Len(b) + Len(q)
    /\ \A i \in 1..Len(b) : b[i] = a[p + i]
    /\ \A i \in 1..Len(q) : q[i] = a[p + Len(b) + i]

LEMMA AppendSplits ==
  ASSUME NEW S, NEW a \in Seq(S), NEW p \in Nat, NEW b \in Seq(S),
         NEW q \in Seq(S), NEW r \in S, Splits(a, p, b, q)
  PROVE  Splits(Append(a, r), p, b, Append(q, r))
<1> DEFINE aa == Append(a, r)
           qq == Append(q, r)
<1>1. /\ Len(aa) = Len(a) + 1
      /\ Len(qq) = Len(q) + 1
      /\ \A i \in 1..Len(a) : aa[i] = a[i]
      /\ \A i \in 1..Len(q) : qq[i] = q[i]
      /\ aa[Len(a) + 1] = r
      /\ qq[Len(q) + 1] = r
  OBVIOUS
<1>2. /\ Len(a) \in Nat /\ Len(b) \in Nat /\ Len(q) \in Nat
      /\ Len(a) = p + Len(b) + Len(q)
  BY DEF Splits
<1> HIDE DEF aa, qq
<1>3. \A i \in 1..Len(b) : b[i] = aa[p + i]
  <2> TAKE i \in 1..Len(b)
  <2>1. p + i \in 1..Len(a) /\ b[i] = a[p + i]
    BY <1>2 DEF Splits
  <2> QED BY <1>1, <2>1
<1>4. \A i \in 1..Len(qq) : qq[i] = aa[p + Len(b) + i]
  <2> TAKE i \in 1..Len(qq)
  <2>1. CASE i = Len(q) + 1
    BY <1>1, <1>2, <2>1
  <2>2. CASE i \in 1..Len(q)
    <3>1. p + Len(b) + i \in 1..Len(a) /\ q[i] = a[p + Len(b) + i]
      BY <1>2, <2>2 DEF Splits
    <3> QED BY <1>1, <2>2, <3>1
  <2> QED BY <1>1, <1>2, <2>1, <2>2
<1>5. Len(aa) = p + Len(b) + Len(qq)
  BY <1>1, <1>2
<1>6. Splits(aa, p, b, qq)
  BY <1>3, <1>4, <1>5 DEF Splits
<1> QED BY <1>6 DEF aa, qq

LEMMA TailSplits ==
  ASSUME NEW S, NEW a \in Seq(S), NEW p \in Nat, NEW b \in Seq(S),
         NEW q \in Seq(S), b # <<>>, Splits(a, p, b, q)
  PROVE  /\ Splits(a, p + 1, Tail(b), q)
         /\ Head(b) \in S
         /\ Head(b) = a[p + 1]
         /\ p + 1 \in 1..Len(a)
<1> DEFINE bb == Tail(b)
<1>1. /\ Len(b) \in Nat /\ Len(b) > 0
      /\ Len(bb) = Len(b) - 1
      /\ \A i \in 1..Len(bb) : bb[i] = b[i + 1]
      /\ Head(b) = b[1] /\ Head(b) \in S
  OBVIOUS
<1>2. Len(a) \in Nat /\ Len(q) \in Nat /\ Len(a) = p + Len(b) + Len(q)
  BY DEF Splits
<1> HIDE DEF bb
<1>3. \A i \in 1..Len(bb) : bb[i] = a[(p + 1) + i]
  <2> TAKE i \in 1..Len(bb)
  <2>1. i + 1 \in 1..Len(b) /\ p + (i + 1) = (p + 1) + i
    BY <1>1
  <2>2. b[i + 1] = a[p + (i + 1)]
    BY <2>1 DEF Splits
  <2> QED BY <1>1, <2>1, <2>2
<1>4. \A i \in 1..Len(q) : q[i] = a[(p + 1) + Len(bb) + i]
  <2> TAKE i \in 1..Len(q)
  <2>1. (p + 1) + Len(bb) + i = p + Len(b) + i
    BY <1>1, <1>2
  <2> QED BY <2>1 DEF Splits
<1>5. 1 \in 1..Len(b) /\ b[1] = a[p + 1]
  BY <1>1 DEF Splits
<1> QED
  BY <1>1, <1>2, <1>3, <1>4, <1>5 DEF Splits, bb

LEMMA SwapSplits ==
  ASSUME NEW S, NEW a \in Seq(S), NEW p \in Nat, NEW q \in Seq(S)
  PROVE  Splits(a, p, <<>>, q) <=> Splits(a, p, q, <<>>)
<1>1. Len(<<>>) = 0 /\ Len(q) \in Nat
  OBVIOUS
<1>2. \A i \in 1..Len(q) : p + 0 + i = p + i
  BY <1>1
<1> QED BY <1>1, <1>2 DEF Splits

LEMMA ConservedSplits == ResultsConserved <=> Splits(accepted, play_count, batch, queue)
  BY DEF ResultsConserved, Splits

LEMMA StreamTypes ==
  ASSUME TypeOK
  PROVE  /\ accepted \in Seq(RunResults)
         /\ batch \in Seq(RunResults)
         /\ queue \in Seq(RunResults)
         /\ play_count \in Nat
  BY DEF TypeOK, CollectorTypeOK

\* The next result to be collected is the first one not yet collected.
LEMMA HeadOfBatch ==
  ASSUME TypeOK, ResultsConserved, batch # <<>>
  PROVE  /\ Splits(accepted, play_count + 1, Tail(batch), queue)
         /\ Head(batch) \in RunResults
         /\ Head(batch) = accepted[play_count + 1]
         /\ play_count + 1 \in 1..Len(accepted)
  BY TailSplits, StreamTypes, ConservedSplits

LEMMA BatchEmpty ==
  ASSUME PhaseInv, mpc \notin {"process", "exited"} PROVE batch = <<>>
  BY DEF PhaseInv, Alive

LEMMA HeadOfQueue ==
  ASSUME TypeOK, ResultsConserved, batch = <<>>, queue # <<>>
  PROVE  /\ Splits(accepted, play_count + 1, <<>>, Tail(queue))
         /\ Head(queue) \in RunResults
         /\ Head(queue) = accepted[play_count + 1]
         /\ play_count + 1 \in 1..Len(accepted)
<1>1. Splits(accepted, play_count, queue, <<>>)
  BY SwapSplits, StreamTypes, ConservedSplits
<1>2. /\ Splits(accepted, play_count + 1, Tail(queue), <<>>)
      /\ Head(queue) \in RunResults
      /\ Head(queue) = accepted[play_count + 1]
      /\ play_count + 1 \in 1..Len(accepted)
  BY <1>1, TailSplits, StreamTypes, EmptySeq
<1>3. Tail(queue) \in Seq(RunResults) /\ play_count + 1 \in Nat
  BY StreamTypes
<1> QED BY <1>2, <1>3, SwapSplits, StreamTypes

LEMMA ConservedStep ==
  ASSUME TypeOK, PhaseInv, ResultsConserved, [Next]_vars
  PROVE  ResultsConserved'
<1> SUFFICES Splits(accepted', play_count', batch', queue')
  BY DEF ResultsConserved, Splits
<1> USE StreamTypes, ConservedSplits
<1>1. CASE Keeps
  BY <1>1 DEF Keeps, Untouched
<1>2. CASE Takes
  <2>1. batch = <<>>
    BY <1>2, BatchEmpty DEF Takes
  <2> QED BY <1>2, <2>1, SwapSplits DEF Takes
<1>3. CASE ConsumesBatch
  <2>1. play_count' = play_count + 1
    BY <1>3 DEF ConsumesBatch, ProcessOne, Collect
  <2> QED BY <1>3, <2>1, HeadOfBatch DEF ConsumesBatch
<1>4. CASE ConsumesQueue
  <2>1. batch = <<>>
    BY <1>4, BatchEmpty DEF ConsumesQueue
  <2>2. play_count' = play_count + 1
    BY <1>4 DEF ConsumesQueue, ProcessOne, Collect
  <2> QED BY <1>4, <2>1, <2>2, HeadOfQueue DEF ConsumesQueue
<1>5. CASE Offers
  BY <1>5, AppendSplits DEF Offers
<1> QED BY <1>1, <1>2, <1>3, <1>4, <1>5, StepKinds

LEMMA BoundedStep ==
  ASSUME TypeOK, QueueBounded, [Next]_vars
  PROVE  QueueBounded'
<1> USE OrchestratorAssumption DEF TypeOK, QueueBounded
<1>1. CASE Keeps
  BY <1>1 DEF Keeps, Untouched
<1>2. CASE Takes
  BY <1>2 DEF Takes
<1>3. CASE ConsumesBatch
  BY <1>3 DEF ConsumesBatch
<1>4. CASE ConsumesQueue
  BY <1>4 DEF ConsumesQueue
<1>5. CASE Offers
  BY <1>5 DEF Offers
<1> QED BY <1>1, <1>2, <1>3, <1>4, <1>5, StepKinds

\* Only the collector moves num_failed_snapshots, and Return reads it.
LEMMA CountedStep ==
  ASSUME TypeOK, PhaseInv, ResultsConserved, FailuresCounted, [Next]_vars
  PROVE  FailuresCounted'
<1> DEFINE Fails(i) == CountsAsFailure(report_runaways, accepted[i])
<1>0. /\ play_count \in Nat /\ num_failed_snapshots \in Nat
      /\ Len(accepted) \in Nat /\ play_count <= Len(accepted)
      /\ report_runaways' = report_runaways
  BY StepKinds DEF TypeOK, CollectorTypeOK, ResultsConserved
<1>1. CASE Keeps
  <2>1. num_failed_snapshots' > 0 <=>
          \E i \in 1..play_count' : CountsAsFailure(report_runaways', accepted'[i])
    BY <1>0, <1>1 DEF Keeps, Untouched, FailuresCounted
  <2>2. Returned' => (exit_code' = "failure" <=> num_failed_snapshots' > 0)
    BY <1>1 DEF Keeps, Untouched, FailuresCounted, Returned, Return, collectorVars, summaryVars
  <2> QED BY <2>1, <2>2 DEF FailuresCounted
<1>2. CASE Takes
  BY <1>0, <1>2 DEF Takes, FailuresCounted, Returned
<1>3. ASSUME NEW r \in RunResults, r = accepted[play_count + 1], Collect(r),
             UNCHANGED <<accepted, exit_code>>, exit_code = "none"
      PROVE  FailuresCounted'
  <2>1. play_count' = play_count + 1
    BY <1>3 DEF Collect
  <2>2. num_failed_snapshots' = num_failed_snapshots
          + (IF CountsAsFailure(report_runaways, r) THEN 1 ELSE 0)
    BY <1>0, <1>3 DEF Collect
  <2>3. \A i \in 1..(play_count + 1) : i \in 1..play_count \/ i = play_count + 1
    BY <1>0
  <2>4. (\E i \in 1..(play_count + 1) : Fails(i)) <=>
          (\E i \in 1..play_count : Fails(i)) \/ Fails(play_count + 1)
    BY <1>0, <2>3
  <2>5. num_failed_snapshots' > 0 <=>
          num_failed_snapshots > 0 \/ CountsAsFailure(report_runaways, r)
    BY <1>0, <2>2
  <2>6. num_failed_snapshots' > 0 <=> \E i \in 1..(play_count + 1) : Fails(i)
    BY <1>3, <2>4, <2>5 DEF FailuresCounted
  <2> QED BY <1>0, <1>3, <2>1, <2>6 DEF FailuresCounted, Returned
<1>4. CASE ConsumesBatch
  BY <1>3, <1>4, HeadOfBatch DEF ConsumesBatch, ProcessOne, PhaseInv, Alive
<1>5. CASE ConsumesQueue
  <2>1. batch = <<>>
    BY <1>5, BatchEmpty DEF ConsumesQueue
  <2> QED
    BY <1>3, <1>5, <2>1, HeadOfQueue DEF ConsumesQueue, ProcessOne, PhaseInv, Alive
<1>6. CASE Offers
  <2>1. PICK r \in RunResults : accepted' = Append(accepted, r)
    BY <1>6 DEF Offers
  <2>2. \A i \in 1..play_count : accepted'[i] = accepted[i]
    BY <1>0, <2>1 DEF TypeOK
  <2> QED BY <1>0, <1>6, <2>2 DEF Offers, FailuresCounted, Returned
<1> QED BY <1>1, <1>2, <1>4, <1>5, <1>6, StepKinds

LEMMA FailAfterStep ==
  ASSUME TypeOK, PhaseInv, ResultsConserved, FailAfterStops, [Next]_vars
  PROVE  FailAfterStops'
<1> DEFINE Errs(i) == CountsAsError(report_runaways, accepted[i])
<1>0. /\ play_count \in Nat /\ fail_after_n_errors \in Int
      /\ Len(accepted) \in Nat /\ play_count <= Len(accepted)
      /\ report_runaways' = report_runaways
  BY StepKinds DEF TypeOK, CollectorTypeOK, ResultsConserved
<1>1. CASE Keeps
  BY <1>0, <1>1 DEF Keeps, Untouched, FailAfterStops
<1>2. CASE Takes
  BY <1>0, <1>2 DEF Takes, FailAfterStops
<1>3. ASSUME NEW r \in RunResults, r = accepted[play_count + 1], ProcessOne(r),
             UNCHANGED accepted
      PROVE  FailAfterStops'
  <2>1. play_count' = play_count + 1
    BY <1>3 DEF ProcessOne, Collect
  <2>2. fail_after_n_errors' = fail_after_n_errors
          - (IF CountsAsError(report_runaways, r) THEN 1 ELSE 0)
    BY <1>3 DEF ProcessOne, Collect
  <2>3. \A i \in 1..(play_count + 1) : i \in 1..play_count \/ i = play_count + 1
    BY <1>0
  <2>4. (\E i \in 1..(play_count + 1) : Errs(i)) =>
          (\E i \in 1..play_count : Errs(i)) \/ Errs(play_count + 1)
    BY <1>0, <2>3
  <2>5. CASE CountsAsError(report_runaways, r)
    <3>1. fail_after_n_errors' <= 0 => stop_execution'
      BY <1>0, <1>3, <2>2, <2>5 DEF ProcessOne, ShouldStopAfter
    <3> QED BY <3>1 DEF FailAfterStops
  <2>6. CASE ~CountsAsError(report_runaways, r)
    <3>1. fail_after_n_errors' = fail_after_n_errors
      BY <1>0, <2>2, <2>6
    <3>2. stop_execution => stop_execution'
      BY <1>3 DEF ProcessOne
    <3> QED
      BY <1>0, <1>3, <2>1, <2>4, <2>6, <3>1, <3>2 DEF FailAfterStops
  <2> QED BY <2>5, <2>6
<1>4. CASE ConsumesBatch
  BY <1>3, <1>4, HeadOfBatch DEF ConsumesBatch
<1>5. CASE ConsumesQueue
  <2>1. batch = <<>>
    BY <1>5, BatchEmpty DEF ConsumesQueue
  <2> QED BY <1>3, <1>5, <2>1, HeadOfQueue DEF ConsumesQueue
<1>6. CASE Offers
  <2>1. PICK r \in RunResults : accepted' = Append(accepted, r)
    BY <1>6 DEF Offers
  <2>2. \A i \in 1..play_count : accepted'[i] = accepted[i]
    BY <1>0, <2>1 DEF TypeOK
  <2> QED BY <1>0, <1>6, <2>2 DEF Offers, FailAfterStops
<1> QED BY <1>1, <1>2, <1>4, <1>5, <1>6, StepKinds

LEMMA PhaseStep ==
  ASSUME TypeOK, PhaseInv, [Next]_vars
  PROVE  PhaseInv'
<1> USE DEF TypeOK, PhaseInv, Alive, Returned, mainVars, threadVars, stopVars, queueVars, runVars
<1>1. CASE UNCHANGED vars
  BY <1>1 DEF vars
<1>2. CASE SetupFails
  BY <1>2 DEF SetupFails
<1>3. CASE SetupSucceeds
  BY <1>3 DEF SetupSucceeds
<1>4. CASE StartSession
  BY <1>4 DEF StartSession
<1>5. CASE SpawnThread
  <2>1. CASE ShouldStop \/ spawned = NumThreads
    BY <1>5, <2>1 DEF SpawnThread
  <2>2. CASE ~(ShouldStop \/ spawned = NumThreads)
    <3>1. /\ spawned' = spawned + 1 /\ mpc = "spawn" /\ mpc' = mpc
          /\ tpc' = [tpc EXCEPT ![spawned] = "check"]
          /\ UNCHANGED <<exit_code, accepted, queue, batch>>
      BY <1>5, <2>2 DEF SpawnThread
    <3>2. \A t \in Threads : tpc'[t] = "unborn" <=> spawned' <= t
      BY <3>1 DEF Threads
    <3> QED BY <3>1, <3>2
  <2> QED BY <2>1, <2>2
<1>6. CASE EventLoopCheck
  BY <1>6 DEF EventLoopCheck
<1>7. CASE EventLoopLock
  BY <1>7 DEF EventLoopLock, TakeBatch
<1>8. CASE EventLoopWake
  BY <1>8 DEF EventLoopWake, TakeBatch
<1>9. CASE EventLoopTimeout
  BY <1>9 DEF EventLoopTimeout, TakeBatch
<1>10. CASE ProcessBatch
  BY <1>10 DEF ProcessBatch, ProcessOne
<1>11. CASE ProcessResultQueue
  BY <1>11 DEF ProcessResultQueue, ProcessOne
<1>12. CASE JoinThreads
  <2>1. \A t \in Threads : t < spawned \/ spawned <= t
    BY DEF Threads
  <2>2. \A t \in Threads : tpc[t] \in {"unborn", "done"}
    BY <1>12, <2>1 DEF JoinThreads
  <2> QED BY <1>12, <2>2 DEF JoinThreads
<1>13. CASE WriteSummary
  BY <1>13 DEF WriteSummary
<1>14. CASE Return
  BY <1>14 DEF Return
<1>15. ASSUME NEW t \in Threads, RunnerThread(t) PROVE PhaseInv'
  <2>1. CASE CheckStop(t)
    BY <2>1 DEF CheckStop
  <2>2. CASE StartRunner(t)
    BY <2>2 DEF StartRunner
  <2>3. CASE RunnerReturns(t)
    BY <2>3 DEF RunnerReturns
  <2>4. CASE OfferRunResult(t)
    <3>1. tpc[t] = "offer" /\ ~(spawned <= t)
      BY <2>4 DEF OfferRunResult
    <3>2. ~(mpc \in {"setup", "session_start", "drain", "summary", "return"})
      BY <3>1 DEF Threads
    <3>3. \A u \in Threads : tpc'[u] = "unborn" <=> tpc[u] = "unborn"
      BY <2>4, <3>1 DEF OfferRunResult
    <3> QED BY <2>4, <3>2, <3>3 DEF OfferRunResult, Enqueue
  <2>5. CASE StopAll(t)
    BY <2>5 DEF StopAll
  <2> QED BY <1>15, <2>1, <2>2, <2>3, <2>4, <2>5 DEF RunnerThread
<1>16. CASE DeadlinePasses
  BY <1>16 DEF DeadlinePasses
<1>17. CASE Interrupt
  BY <1>17 DEF Interrupt
<1>18. CASE Watchdog
  BY <1>18 DEF Watchdog
<1>19. CASE LogReaderGoesAway
  BY <1>19 DEF LogReaderGoesAway
<1> QED
  BY <1>1, <1>2, <1>3, <1>4, <1>5, <1>6, <1>7, <1>8, <1>9, <1>10,
     <1>11, <1>12, <1>13, <1>14, <1>15, <1>16, <1>17, <1>18, <1>19
     DEF Next, Main, Environment, Terminated

LEMMA LateStep ==
  ASSUME TypeOK, LateInv, [Next]_vars
  PROVE  LateInv'
<1> USE DEF TypeOK, LateInv, ShouldStop, mainVars, threadVars, stopVars, queueVars, runVars
<1>1. CASE UNCHANGED vars
  BY <1>1 DEF vars
<1>2. CASE SetupFails
  BY <1>2 DEF SetupFails
<1>3. CASE SetupSucceeds
  BY <1>3 DEF SetupSucceeds
<1>4. CASE StartSession
  BY <1>4 DEF StartSession
<1>5. CASE SpawnThread
  BY <1>5 DEF SpawnThread
<1>6. CASE EventLoopCheck
  BY <1>6 DEF EventLoopCheck
<1>7. CASE EventLoopLock
  BY <1>7 DEF EventLoopLock, TakeBatch
<1>8. CASE EventLoopWake
  BY <1>8 DEF EventLoopWake, TakeBatch
<1>9. CASE EventLoopTimeout
  BY <1>9 DEF EventLoopTimeout, TakeBatch
<1>10. CASE ProcessBatch
  BY <1>10 DEF ProcessBatch, ProcessOne
<1>11. CASE ProcessResultQueue
  BY <1>11 DEF ProcessResultQueue, ProcessOne
<1>12. CASE JoinThreads
  BY <1>12 DEF JoinThreads
<1>13. CASE WriteSummary
  BY <1>13 DEF WriteSummary
<1>14. CASE Return
  BY <1>14 DEF Return
<1>15. ASSUME NEW t \in Threads, RunnerThread(t) PROVE LateInv'
  <2>1. CASE CheckStop(t)
    BY <2>1 DEF CheckStop
  <2>2. CASE StartRunner(t)
    BY <2>2 DEF StartRunner
  <2>3. CASE RunnerReturns(t)
    BY <2>3 DEF RunnerReturns
  <2>4. CASE OfferRunResult(t)
    BY <2>4 DEF OfferRunResult, Enqueue
  <2>5. CASE StopAll(t)
    BY <2>5 DEF StopAll
  <2> QED BY <1>15, <2>1, <2>2, <2>3, <2>4, <2>5 DEF RunnerThread
<1>16. CASE DeadlinePasses
  BY <1>16 DEF DeadlinePasses
<1>17. CASE Interrupt
  BY <1>17 DEF Interrupt
<1>18. CASE Watchdog
  BY <1>18 DEF Watchdog
<1>19. CASE LogReaderGoesAway
  BY <1>19 DEF LogReaderGoesAway
<1> QED
  BY <1>1, <1>2, <1>3, <1>4, <1>5, <1>6, <1>7, <1>8, <1>9, <1>10,
     <1>11, <1>12, <1>13, <1>14, <1>15, <1>16, <1>17, <1>18, <1>19
     DEF Next, Main, Environment, Terminated

-----------------------------------------------------------------------------
(* The binary log                                                            *)

LEMMA ConcatFacts ==
  ASSUME NEW S, NEW a \in Seq(S), NEW b \in Seq(S), NEW e \in S
  PROVE  /\ a \o b \in Seq(S)
         /\ a \o <<>> = a
         /\ <<>> \o a = a
         /\ a \o <<e>> = Append(a, e)
         /\ a \o Append(b, e) = Append(a \o b, e)
<1>1. a \o b \in Seq(S) /\ a \o <<>> = a /\ <<>> \o a = a
  OBVIOUS
<1>2. a \o <<e>> = Append(a, e)
  OBVIOUS
<1>3. a \o Append(b, e) = Append(a \o b, e)
  OBVIOUS
<1> QED BY <1>1, <1>2, <1>3

LEMMA RepeatFacts ==
  ASSUME NEW S, NEW e \in S, NEW n \in Nat
  PROVE  /\ [i \in 1..n |-> e] \in Seq(S)
         /\ [i \in 1..0 |-> e] = <<>>
         /\ [i \in 1..(n+1) |-> e] = Append([i \in 1..n |-> e], e)
<1>1. [i \in 1..n |-> e] \in Seq(S) /\ [i \in 1..0 |-> e] = <<>>
  OBVIOUS
<1>2. [i \in 1..(n+1) |-> e] = Append([i \in 1..n |-> e], e)
  OBVIOUS
<1> QED BY <1>1, <1>2

\* The entries sent so far, one at a time.
LEMMA LogOfFacts ==
  ASSUME NEW s \in BOOLEAN, NEW n \in Nat
  PROVE  /\ LogOf(FALSE, 0, FALSE) = <<>>
         /\ LogOf(TRUE, 0, FALSE) = Append(LogOf(FALSE, 0, FALSE), "start")
         /\ LogOf(s, n + 1, FALSE) = Append(LogOf(s, n, FALSE), "result")
         /\ LogOf(s, n, TRUE) = Append(LogOf(s, n, FALSE), "summary")
         /\ LogOf(s, n, FALSE) \in Seq(LogEntries)
<1> DEFINE R(k) == [i \in 1..k |-> "result"]
           A(b) == IF b THEN <<"start">> ELSE <<>>
           L == LogEntries
<1>0. "start" \in L /\ "result" \in L /\ "summary" \in L
  BY DEF LogEntries
<1>1. /\ R(0) = <<>> /\ R(n) \in Seq(L)
      /\ R(n + 1) = Append(R(n), "result")
  BY <1>0, RepeatFacts
<1>2. A(TRUE) = <<"start">> /\ A(FALSE) = <<>>
  OBVIOUS
<1>3. A(TRUE) \in Seq(L) /\ A(FALSE) \in Seq(L) /\ A(s) \in Seq(L)
  BY <1>0
<1>4. /\ LogOf(FALSE, 0, FALSE) = (A(FALSE) \o R(0)) \o <<>>
      /\ LogOf(TRUE, 0, FALSE) = (A(TRUE) \o R(0)) \o <<>>
      /\ LogOf(s, n, FALSE) = (A(s) \o R(n)) \o <<>>
      /\ LogOf(s, n + 1, FALSE) = (A(s) \o R(n + 1)) \o <<>>
      /\ LogOf(s, n, TRUE) = (A(s) \o R(n)) \o <<"summary">>
  BY DEF LogOf
<1> HIDE DEF R, A, L
<1>5. A(s) \o R(n) \in Seq(L)
  BY <1>1, <1>3, ConcatFacts, <1>0
<1>6. Append(A(s) \o R(n), "result") \in Seq(L)
  BY <1>0, <1>5, AppendType
<1>7. LogOf(s, n, FALSE) = A(s) \o R(n)
  BY <1>0, <1>4, <1>5, ConcatFacts
<1>8. LogOf(s, n, TRUE) = Append(A(s) \o R(n), "summary")
  <2>1. \A e \in L : (A(s) \o R(n)) \o <<e>> = Append(A(s) \o R(n), e)
    BY <1>5, ConcatFacts
  <2> QED BY <1>0, <1>4, <2>1, Zenon
<1>9. LogOf(s, n + 1, FALSE) = Append(A(s) \o R(n), "result")
  <2>1. A(s) \o R(n + 1) = Append(A(s) \o R(n), "result")
    BY <1>0, <1>1, <1>3, ConcatFacts
  <2> QED BY <1>0, <1>4, <1>6, <2>1, ConcatFacts
<1>10. LogOf(FALSE, 0, FALSE) = <<>>
  <2>1. LogOf(FALSE, 0, FALSE) = (<<>> \o <<>>) \o <<>>
    BY <1>1, <1>2, <1>4
  <2>2. <<>> \o <<>> = <<>>
    BY <1>0, EmptySeq, ConcatFacts
  <2> QED BY <2>1, <2>2
<1>11. LogOf(TRUE, 0, FALSE) = Append(<<>>, "start")
  <2>1. LogOf(TRUE, 0, FALSE) = (<<"start">> \o <<>>) \o <<>>
    BY <1>1, <1>2, <1>4
  <2>2. A(TRUE) \o <<>> = A(TRUE)
    BY <1>0, <1>3, ConcatFacts
  <2>3. \A e \in L : <<>> \o <<e>> = Append(<<>>, e)
    BY <1>0, EmptySeq, ConcatFacts
  <2>4. <<>> \o <<"start">> = <<"start">>
    <3>1. <<>> \o A(TRUE) = A(TRUE)
      BY <1>0, <1>3, ConcatFacts
    <3> QED BY <1>2, <3>1, Zenon
  <2>5. <<>> \o <<"start">> = Append(<<>>, "start")
    BY <1>0, <2>3, Zenon
  <2>6. (<<"start">> \o <<>>) \o <<>> = <<"start">>
    BY <1>2, <2>2, Zenon
  <2> QED BY <2>1, <2>4, <2>5, <2>6, Zenon
<1> QED BY <1>5, <1>7, <1>8, <1>9, <1>10, <1>11 DEF L

\* A prefix stays one when the sequence grows.
LEMMA PrefixAppend ==
  ASSUME NEW S, NEW L \in Seq(S), NEW e \in S, NEW n \in 0..Len(L)
  PROVE  /\ n \in 0..Len(Append(L, e))
         /\ SubSeq(Append(L, e), 1, n) = SubSeq(L, 1, n)
         /\ Len(L) + 1 \in 0..Len(Append(L, e))
         /\ SubSeq(Append(L, e), 1, Len(L) + 1) = Append(L, e)
  OBVIOUS

\* A step sends nothing, or one entry that then belongs to the log so far.
LEMMA LogStep ==
  ASSUME TypeOK, PhaseInv, LogInv, [Next]_vars
  PROVE  LogInv'
<1> DEFINE LiveLog == exit_code \notin {"error", "watchdog"}
           Quiet == UNCHANGED <<log, LogSoFar>> /\ producer' \in {producer, "broken"}
           Sends(kind) == /\ LogSoFar' = Append(LogSoFar, kind)
                          /\ Send(kind) /\ UNCHANGED producer
           Early == mpc \in {"setup", "session_start"}
<1>0. /\ num_failed_snapshots \in Nat /\ session_logging \in BOOLEAN
      /\ log \in Seq(LogEntries) /\ LogSoFar \in Seq(LogEntries)
  <2>1. /\ num_failed_snapshots \in Nat /\ session_logging \in BOOLEAN
        /\ log \in Seq(LogEntries)
    BY DEF TypeOK, CollectorTypeOK
  <2>2. \A s, m \in BOOLEAN : LogOf(s, num_failed_snapshots, m) \in Seq(LogEntries)
    BY <2>1, LogOfFacts, AppendType DEF LogEntries
  <2> QED BY <2>1, <2>2 DEF LogSoFar
<1>1. ASSUME Quiet, LiveLog, Early' => num_failed_snapshots' = 0 PROVE LogInv'
  BY <1>1 DEF LogInv
<1>2. ASSUME NEW kind \in LogEntries, Sends(kind), LiveLog, ~Early' PROVE LogInv'
  <2>1. PICK n \in 0..Len(LogSoFar) : log = SubSeq(LogSoFar, 1, n)
    BY <1>2 DEF LogInv
  <2>2. producer = "open" => log = LogSoFar
    BY <1>2 DEF LogInv
  <2>3. CASE producer = "open"
    <3>1. log' = LogSoFar'
      BY <1>2, <2>2, <2>3 DEF Send
    <3> QED BY <1>0, <1>2, <3>1, <2>3, PrefixAppend DEF LogInv
  <2>4. CASE producer # "open"
    <3>1. log' = SubSeq(LogSoFar', 1, n) /\ n \in 0..Len(LogSoFar')
      BY <1>0, <1>2, <2>1, <2>4, PrefixAppend DEF Send
    <3> QED BY <1>2, <2>4, <3>1 DEF LogInv
  <2> QED BY <2>3, <2>4
<1>3. ASSUME ~LiveLog' PROVE LogInv'
  BY <1>3 DEF LogInv
<1>4. ASSUME LiveLog, UNCHANGED <<session_logging, num_failed_snapshots, log>>,
             producer' \in {producer, "broken"}, Early => mpc' \in {mpc, "session_start"},
             ~Early => ~Early',
             mpc \in {"return", "exited"} <=> mpc' \in {"return", "exited"}
      PROVE  LogInv'
  <2>1. Early <=> Early'
    BY <1>4
  <2>2. Quiet
    BY <1>4, <2>1 DEF LogSoFar
  <2> QED BY <1>1, <1>4, <2>1, <2>2 DEF LogInv
<1> HIDE DEF Quiet, Sends
<1> USE DEF mainVars, threadVars, stopVars, queueVars, runVars, collectorVars,
            summaryVars, PhaseInv, Alive, Returned
<1>5. CASE UNCHANGED vars
  BY <1>5 DEF vars, LogInv, LogSoFar
<1>6. CASE SetupFails
  BY <1>3, <1>6 DEF SetupFails
<1>7. CASE SetupSucceeds
  BY <1>4, <1>7 DEF SetupSucceeds
<1>8. CASE StartSession
  <2>0. LiveLog /\ mpc = "session_start" /\ num_failed_snapshots = 0
    BY <1>8 DEF StartSession, LogInv
  <2>1. CASE session_logging /\ producer = "open"
    <3>1. /\ mpc' = "spawn" /\ LogSessionStart /\ session_logging'
          /\ UNCHANGED <<num_failed_snapshots, producer>>
      BY <1>8, <2>1 DEF StartSession, LogSessionStart
    <3>2. LogSoFar = LogOf(FALSE, 0, FALSE)
      BY <2>0 DEF LogSoFar
    <3>3. LogSoFar' = LogOf(TRUE, 0, FALSE)
      BY <2>0, <3>1 DEF LogSoFar
    <3>4. Sends("start")
      BY <1>0, <3>1, <3>2, <3>3, LogOfFacts DEF Sends, LogSessionStart
    <3> QED BY <1>2, <2>0, <3>1, <3>4 DEF LogEntries
  <2>2. CASE session_logging /\ producer # "open"
    BY <1>3, <1>8, <2>2 DEF StartSession
  <2>3. CASE ~session_logging
    <3>1. mpc' = "spawn" /\ UNCHANGED <<session_logging, collectorVars>>
      BY <1>8, <2>3 DEF StartSession
    <3>2. Quiet
      BY <2>0, <2>3, <3>1 DEF Quiet, LogSoFar
    <3> QED BY <1>1, <2>0, <3>1, <3>2
  <2> QED BY <2>1, <2>2, <2>3
<1>9. CASE SpawnThread
  BY <1>4, <1>9 DEF SpawnThread
<1>10. CASE EventLoopCheck
  BY <1>4, <1>10 DEF EventLoopCheck
<1>11. CASE EventLoopLock
  BY <1>4, <1>11 DEF EventLoopLock, TakeBatch
<1>12. CASE EventLoopWake
  BY <1>4, <1>12 DEF EventLoopWake, TakeBatch
<1>13. CASE EventLoopTimeout
  BY <1>4, <1>13 DEF EventLoopTimeout, TakeBatch
<1>14. ASSUME NEW r, Collect(r), UNCHANGED <<session_logging, mpc>>,
              mpc \in {"process", "drain"}
       PROVE  LogInv'
  <2>1. CASE CountsAsFailure(report_runaways, r)
    <3>1. /\ num_failed_snapshots' = num_failed_snapshots + 1
          /\ Send("result") /\ UNCHANGED producer
      BY <1>14, <2>1 DEF Collect
    <3>2. LogSoFar = LogOf(session_logging, num_failed_snapshots, FALSE)
      BY <1>0, <1>14 DEF LogSoFar
    <3>3. LogSoFar' = LogOf(session_logging, num_failed_snapshots + 1, FALSE)
      BY <1>0, <1>14, <3>1 DEF LogSoFar
    <3>4. Sends("result")
      BY <1>0, <3>1, <3>2, <3>3, LogOfFacts DEF Sends
    <3> QED BY <1>2, <1>14, <3>4 DEF LogEntries
  <2>2. CASE ~CountsAsFailure(report_runaways, r)
    BY <1>4, <1>14, <2>2 DEF Collect
  <2> QED BY <2>1, <2>2
<1>15. CASE ProcessBatch
  <2>1. CASE batch = <<>>
    BY <1>4, <1>15, <2>1 DEF ProcessBatch
  <2>2. CASE batch # <<>>
    BY <1>14, <1>15, <2>2 DEF ProcessBatch, ProcessOne
  <2> QED BY <2>1, <2>2
<1>16. CASE ProcessResultQueue
  <2>1. CASE queue = <<>>
    BY <1>4, <1>16, <2>1 DEF ProcessResultQueue
  <2>2. CASE queue # <<>>
    BY <1>14, <1>16, <2>2 DEF ProcessResultQueue, ProcessOne
  <2> QED BY <2>1, <2>2
<1>17. CASE JoinThreads
  BY <1>4, <1>17 DEF JoinThreads
<1>18. CASE WriteSummary
  <2>0. /\ LiveLog /\ mpc = "summary" /\ mpc' = "return"
        /\ UNCHANGED <<session_logging, num_failed_snapshots, producer>>
    BY <1>18 DEF WriteSummary, LogSessionSummary
  <2>1. LogSoFar = LogOf(session_logging, num_failed_snapshots, FALSE)
    BY <1>0, <2>0 DEF LogSoFar
  <2>2. CASE session_logging \/ num_failed_snapshots > 0
    <3>1. LogSoFar' = LogOf(session_logging, num_failed_snapshots, TRUE)
      BY <1>0, <2>0, <2>2 DEF LogSoFar
    <3>2. Send("summary")
      BY <1>18, <2>2 DEF WriteSummary, LogSessionSummary
    <3>3. Sends("summary")
      BY <1>0, <2>0, <2>1, <3>1, <3>2, LogOfFacts DEF Sends
    <3> QED BY <1>2, <2>0, <3>3 DEF LogEntries
  <2>3. CASE ~(session_logging \/ num_failed_snapshots > 0)
    <3>1. LogSoFar' = LogOf(session_logging, num_failed_snapshots, FALSE)
      BY <1>0, <2>0, <2>3 DEF LogSoFar
    <3>2. Quiet
      BY <1>18, <2>0, <2>1, <2>3, <3>1 DEF WriteSummary, Quiet
    <3> QED BY <1>1, <2>0, <3>2
  <2> QED BY <2>2, <2>3
<1>19. CASE Return
  BY <1>4, <1>19 DEF Return
<1>20. ASSUME NEW t \in Threads, RunnerThread(t) PROVE LogInv'
  BY <1>4, <1>20
     DEF RunnerThread, CheckStop, StartRunner, RunnerReturns, OfferRunResult,
         Enqueue, StopAll
<1>21. CASE DeadlinePasses
  BY <1>4, <1>21 DEF DeadlinePasses
<1>22. CASE Interrupt
  BY <1>4, <1>22 DEF Interrupt
<1>23. CASE Watchdog
  BY <1>3, <1>23 DEF Watchdog
<1>24. CASE LogReaderGoesAway
  BY <1>4, <1>24 DEF LogReaderGoesAway, ReaderGoesAway
<1> QED
  BY <1>5, <1>6, <1>7, <1>8, <1>9, <1>10, <1>11, <1>12, <1>13, <1>15, <1>16,
     <1>17, <1>18, <1>19, <1>20, <1>21, <1>22, <1>23, <1>24
     DEF Next, Main, Environment, Terminated

-----------------------------------------------------------------------------
(* The sequential scan                                                       *)

\* What disturbs the scan is never taken back.
LEMMA DisturbedStays ==
  ASSUME TypeOK, [Next]_vars
  PROVE  /\ Disturbed => Disturbed'
         /\ ShouldStop => ShouldStop'
         /\ expired => expired'
         /\ UNCHANGED report_runaways
<1>1. UNCHANGED report_runaways
  BY StepKinds
<1>2. /\ expired => expired'
      /\ interrupted => interrupted'
      /\ stop_execution => stop_execution'
  <2> USE DEF stopVars
  <2>1. CASE ProcessBatch \/ ProcessResultQueue
    BY <2>1 DEF ProcessBatch, ProcessResultQueue, ProcessOne
  <2>2. CASE \/ SetupFails \/ SetupSucceeds \/ StartSession \/ SpawnThread
             \/ EventLoopCheck \/ JoinThreads \/ WriteSummary \/ Return
    BY <2>2 DEF SetupFails, SetupSucceeds, StartSession, SpawnThread,
                EventLoopCheck, JoinThreads, WriteSummary, Return
  <2>3. CASE EventLoopLock \/ EventLoopWake \/ EventLoopTimeout
    BY <2>3 DEF EventLoopLock, EventLoopWake, EventLoopTimeout, TakeBatch
  <2>4. ASSUME NEW t \in Threads, RunnerThread(t)
        PROVE  UNCHANGED <<expired, interrupted>>
               /\ (stop_execution => stop_execution')
    BY <2>4 DEF RunnerThread, CheckStop, StartRunner, RunnerReturns,
                OfferRunResult, StopAll
  <2>5. CASE Environment
    BY <2>5 DEF Environment, DeadlinePasses, Interrupt, Watchdog, LogReaderGoesAway
  <2>6. CASE UNCHANGED vars
    BY <2>6 DEF vars
  <2> QED
    BY <2>1, <2>2, <2>3, <2>4, <2>5, <2>6 DEF Next, Main, Terminated
<1>3. \A i \in 1..Len(accepted) :
        i \in 1..Len(accepted') /\ accepted'[i] = accepted[i]
  <2>1. accepted' = accepted \/ \E r \in RunResults : accepted' = Append(accepted, r)
    BY StepKinds DEF Keeps, Untouched, Takes, ConsumesBatch, ConsumesQueue, Offers
  <2>2. accepted \in Seq(RunResults)
    BY DEF TypeOK
  <2>3. ASSUME NEW r \in RunResults, accepted' = Append(accepted, r),
               NEW i \in 1..Len(accepted)
        PROVE  i \in 1..Len(accepted') /\ accepted'[i] = accepted[i]
    BY <2>2, <2>3
  <2> QED BY <2>1, <2>3
<1> QED BY <1>1, <1>2, <1>3 DEF Disturbed, ShouldStop

LEMMA ScanStep ==
  ASSUME TypeOK, PhaseInv, ResultsConserved, ScanInv, [Next]_vars
  PROVE  ScanInv'
<1> DEFINE Past == mpc \notin {"setup", "session_start", "spawn", "exited"} \/ Returned
           Busy == IF tpc[0] \in {"running", "offer"} THEN 1 ELSE 0
           Counts == next_index[0] = Len(accepted) + dropped + Busy
           Why == stop_execution => Disturbed \/ tpc[0] = "done"
           AtEnd == tpc[0] \in {"stopping", "done"} =>
                      Disturbed \/ next_index[0] = NumShards
           Order == played = 0..(next_index[0] - 1) /\ next_index[0] <= NumShards
<1>0. /\ Disturbed => Disturbed'
      /\ ShouldStop => ShouldStop'
      /\ report_runaways' = report_runaways
  BY DisturbedStays
<1>1. Past' => spawned' = NumThreads \/ ShouldStop'
  <2>1. CASE Past /\ UNCHANGED spawned
    BY <1>0, <2>1 DEF ScanInv
  <2>2. CASE SpawnThread
    <3>1. CASE ShouldStop \/ spawned = NumThreads
      BY <1>0, <2>2, <3>1 DEF SpawnThread
    <3>2. CASE ~(ShouldStop \/ spawned = NumThreads)
      BY <2>2, <3>2 DEF SpawnThread, PhaseInv, Alive, Returned
    <3> QED BY <3>1, <3>2
  <2>3. CASE ~Past'
    BY <2>3
  <2>4. (Past /\ UNCHANGED spawned) \/ SpawnThread \/ ~Past'
    BY DEF Next, Main, Environment, Terminated, vars, mainVars,
         SetupFails, SetupSucceeds, StartSession, EventLoopCheck, EventLoopLock,
         EventLoopWake, EventLoopTimeout, TakeBatch, ProcessBatch,
         ProcessResultQueue, JoinThreads, WriteSummary, Return, RunnerThread,
         CheckStop, StartRunner, RunnerReturns, OfferRunResult, StopAll,
         DeadlinePasses, Interrupt, Watchdog, LogReaderGoesAway, PhaseInv,
         Alive, Returned
  <2> QED BY <2>1, <2>2, <2>3, <2>4
<1>2. ASSUME Sequential
      PROVE  Order' /\ Counts' /\ Why' /\ AtEnd'
  <2>0. /\ Order /\ Counts /\ Why /\ AtEnd
        /\ Threads = {0} /\ NumShards \in Nat
        /\ next_index[0] \in Nat /\ tpc[0] \in ThreadStates
        /\ dropped \in Nat /\ Len(accepted) \in Nat
    BY <1>2, OrchestratorAssumption DEF ScanInv, TypeOK, Threads
  <2>1. ASSUME UNCHANGED <<played, next_index, accepted, dropped, tpc>>,
               stop_execution' = stop_execution \/ Disturbed'
        PROVE  Order' /\ Counts' /\ Why' /\ AtEnd'
    BY <1>0, <2>0, <2>1
  <2>2. ASSUME UNCHANGED <<played, next_index, accepted, dropped, stop_execution>>,
               tpc[0] \notin {"running", "offer"}, tpc'[0] \notin {"running", "offer"},
               tpc'[0] \in {"stopping", "done"} => AtEnd', tpc[0] # "done"
        PROVE  Order' /\ Counts' /\ Why' /\ AtEnd'
    BY <1>0, <2>0, <2>2
  <2> USE DEF mainVars, threadVars, stopVars, queueVars, runVars
  <2>3. CASE UNCHANGED vars
    BY <2>1, <2>3 DEF vars
  <2>4. CASE SpawnThread
    <3>1. CASE UNCHANGED tpc
      BY <2>1, <2>4, <3>1 DEF SpawnThread
    <3>2. CASE tpc' # tpc
      <4>1. spawned = 0 /\ tpc' = [tpc EXCEPT ![spawned] = "check"]
        BY <2>0, <2>4, <3>2 DEF SpawnThread, TypeOK, Threads, PhaseInv
      <4>2. tpc[0] = "unborn" /\ tpc'[0] = "check"
        BY <2>0, <4>1 DEF TypeOK, PhaseInv
      <4> QED BY <2>2, <2>4, <4>2 DEF SpawnThread
    <3> QED BY <3>1, <3>2
  <2>5. ASSUME NEW r, r = accepted[play_count + 1],
               play_count + 1 \in 1..Len(accepted), ProcessOne(r),
               UNCHANGED <<played, next_index, accepted, dropped, tpc>>
        PROVE  Order' /\ Counts' /\ Why' /\ AtEnd'
    <3>1. ShouldStopAfter(r) => Disturbed'
      BY <1>0, <2>5 DEF ShouldStopAfter, Disturbed
    <3>2. ~ShouldStopAfter(r) => stop_execution' = stop_execution
      BY <2>5 DEF ProcessOne, TypeOK
    <3> QED BY <2>1, <2>5, <3>1, <3>2
  <2>6. CASE ProcessBatch
    <3>1. CASE batch = <<>>
      BY <2>1, <2>6, <3>1 DEF ProcessBatch
    <3>2. CASE batch # <<>>
      BY <2>5, <2>6, <3>2, HeadOfBatch DEF ProcessBatch
    <3> QED BY <3>1, <3>2
  <2>7. CASE ProcessResultQueue
    <3>1. CASE queue = <<>>
      BY <2>1, <2>7, <3>1 DEF ProcessResultQueue
    <3>2. CASE queue # <<>>
      BY <2>5, <2>7, <3>2, HeadOfQueue, BatchEmpty DEF ProcessResultQueue
    <3> QED BY <3>1, <3>2
  <2>8. CASE Interrupt
    BY <2>1, <2>8 DEF Interrupt, Disturbed
  <2>9. CASE CheckStop(0)
    <3>1. tpc[0] = "check" /\ tpc'[0] \in {"stopping", "budget"}
      BY <2>0, <2>9 DEF CheckStop, TypeOK
    <3>2. tpc'[0] = "stopping" => Disturbed'
      BY <1>0, <2>0, <2>9, <3>1 DEF CheckStop, ShouldStop, Disturbed, TypeOK
    <3> QED BY <2>2, <2>9, <3>1, <3>2 DEF CheckStop
  <2>10. CASE StartRunner(0)
    <3>0. tpc[0] = "budget" /\ UNCHANGED <<stop_execution, expired, accepted, dropped>>
      BY <2>10 DEF StartRunner
    <3>1. CASE expired
      <4>1. tpc'[0] = "stopping" /\ Disturbed' /\ UNCHANGED <<played, next_index>>
        BY <1>0, <2>0, <2>10, <3>1 DEF StartRunner, Disturbed, TypeOK
      <4> QED BY <2>2, <3>0, <4>1
    <3>2. CASE ~expired /\ next_index[0] < NumShards
      <4>1. /\ tpc'[0] = "running" /\ next_index'[0] = next_index[0] + 1
            /\ played' = played \cup {next_index[0]}
        BY <1>2, <2>0, <2>10, <3>2
           DEF StartRunner, NextCorpus, kEndOfStream, TypeOK
      <4>2. Order'
        BY <2>0, <3>2, <4>1
      <4> QED BY <1>0, <2>0, <3>0, <4>1, <4>2
    <3>3. CASE ~expired /\ ~(next_index[0] < NumShards)
      <4>1. /\ tpc'[0] = "stopping" /\ UNCHANGED <<played, next_index>>
            /\ next_index[0] = NumShards
        BY <1>2, <2>0, <2>10, <3>3
           DEF StartRunner, NextCorpus, kEndOfStream, TypeOK
      <4> QED BY <2>2, <3>0, <4>1
    <3> QED BY <3>1, <3>2, <3>3
  <2>11. CASE RunnerReturns(0)
    <3>1. /\ tpc[0] = "running" /\ tpc'[0] = "offer"
          /\ UNCHANGED <<played, next_index, accepted, dropped, stop_execution>>
      BY <2>0, <2>11 DEF RunnerReturns, TypeOK
    <3> QED BY <1>0, <2>0, <3>1
  <2>12. CASE OfferRunResult(0)
    <3>1. /\ tpc[0] = "offer" /\ tpc'[0] = "check" /\ Enqueue(result[0])
          /\ UNCHANGED <<played, next_index, stop_execution>>
      BY <2>0, <2>12 DEF OfferRunResult, TypeOK
    <3>2. Len(accepted') + dropped' = Len(accepted) + dropped + 1
      <4>1. CASE Len(queue) >= NumThreads
        BY <2>0, <3>1, <4>1 DEF Enqueue
      <4>2. CASE ~(Len(queue) >= NumThreads)
        <5>1. accepted' = Append(accepted, result[0]) /\ dropped' = dropped
          BY <3>1, <4>2 DEF Enqueue
        <5>2. result[0] \in RunResults /\ accepted \in Seq(RunResults)
          BY <2>0 DEF TypeOK
        <5> QED BY <2>0, <5>1, <5>2
      <4> QED BY <4>1, <4>2
    <3> QED BY <1>0, <2>0, <3>1, <3>2
  <2>13. CASE StopAll(0)
    <3>1. /\ tpc[0] = "stopping" /\ tpc'[0] = "done"
          /\ UNCHANGED <<played, next_index, accepted, dropped>>
      BY <2>0, <2>13 DEF StopAll, TypeOK
    <3> QED BY <1>0, <2>0, <3>1
  <2>14. ASSUME NEW t \in Threads, RunnerThread(t)
         PROVE  Order' /\ Counts' /\ Why' /\ AtEnd'
    BY <2>0, <2>9, <2>10, <2>11, <2>12, <2>13, <2>14 DEF RunnerThread
  <2>15. CASE \/ SetupFails \/ SetupSucceeds \/ StartSession \/ EventLoopCheck
              \/ JoinThreads \/ WriteSummary \/ Return \/ DeadlinePasses
              \/ Watchdog \/ LogReaderGoesAway
    BY <2>1, <2>15
       DEF SetupFails, SetupSucceeds, StartSession, EventLoopCheck, JoinThreads,
           WriteSummary, Return, DeadlinePasses, Watchdog, LogReaderGoesAway
  <2>16. CASE EventLoopLock \/ EventLoopWake \/ EventLoopTimeout
    BY <2>1, <2>16 DEF EventLoopLock, EventLoopWake, EventLoopTimeout, TakeBatch
  <2> QED
    BY <2>3, <2>4, <2>6, <2>7, <2>8, <2>14, <2>15, <2>16
       DEF Next, Main, Environment, Terminated
<1> QED BY <1>1, <1>2 DEF ScanInv

-----------------------------------------------------------------------------
(* The theorems                                                              *)

LEMMA InvInit == Init => OrchestratorInv
<1> SUFFICES ASSUME Init PROVE OrchestratorInv
  OBVIOUS
<1>1. TypeOK
  BY TypeInit
<1>2. PhaseInv
  BY OrchestratorAssumption DEF Init, PhaseInv, Alive, Returned, Threads
<1>3. Len(accepted) = 0 /\ Len(batch) = 0 /\ Len(queue) = 0 /\ play_count = 0
  BY DEF Init, CollectorInit
<1>4. ResultsConserved
  BY <1>3 DEF ResultsConserved
<1>5. QueueBounded
  BY <1>3, OrchestratorAssumption DEF QueueBounded
<1>6. FailuresCounted
  BY <1>3 DEF FailuresCounted, Init, CollectorInit, Returned
<1>7. FailAfterStops
  BY <1>3 DEF FailAfterStops
<1>8. LateInv
  BY DEF LateInv, Init
<1>9. ScanInv
  <2>1. Sequential => 0 \in Threads
    BY OrchestratorAssumption DEF Threads
  <2> QED BY <1>3, <2>1, OrchestratorAssumption DEF ScanInv, Init, Returned
<1>10. LogInv
  <2>1. LogSoFar = LogOf(FALSE, 0, FALSE) /\ log = <<>> /\ num_failed_snapshots = 0
    BY DEF Init, CollectorInit, LogSoFar
  <2>2. LogSoFar = <<>>
    BY <2>1, LogOfFacts
  <2>3. 0 \in 0..Len(<<>>) /\ SubSeq(<<>>, 1, 0) = <<>>
    OBVIOUS
  <2> QED BY <2>1, <2>2, <2>3 DEF LogInv
<1> QED
  BY <1>1, <1>2, <1>4, <1>5, <1>6, <1>7, <1>8, <1>9, <1>10 DEF OrchestratorInv

LEMMA InvStep == OrchestratorInv /\ [Next]_vars => OrchestratorInv'
  BY TypeStep, PhaseStep, ConservedStep, BoundedStep, CountedStep,
     FailAfterStep, LateStep, ScanStep, LogStep
     DEF OrchestratorInv

LEMMA InvHolds == Spec => []OrchestratorInv
  BY InvInit, InvStep, PTL DEF Spec

\* No result that OfferRunResult accepted is lost, duplicated or reordered on
\* its way through the queue and the batch to the collector.
THEOREM NoResultLost == Spec => []ResultsConserved
  BY InvHolds, PTL DEF OrchestratorInv

\* The queue and the batch of the event loop never exceed one slot per thread.
THEOREM QueueStaysBounded == Spec => []QueueBounded
  BY InvHolds, PTL DEF OrchestratorInv

\* When OrchestratorMain returns, queue and batch are empty and every thread has
\* ended: the destructor's check never fires.
THEOREM QueueEmptyAtExit == Spec => []NothingLeftBehind
<1>1. OrchestratorInv => NothingLeftBehind
  BY DEF OrchestratorInv, PhaseInv, NothingLeftBehind, Returned, Alive
<1> QED BY <1>1, InvHolds, PTL

\* The exit status is EXIT_FAILURE iff some accepted result counts as a failure.
THEOREM ExitCodeCorrect == Spec => []ExitCodeTruthful
<1>1. OrchestratorInv => ExitCodeTruthful
  <2> SUFFICES ASSUME OrchestratorInv, Returned
               PROVE  exit_code = "failure" <=> \E i \in 1..Len(accepted) :
                        CountsAsFailure(report_runaways, accepted[i])
    BY DEF ExitCodeTruthful
  <2>1. queue = <<>> /\ batch = <<>>
    BY DEF OrchestratorInv, PhaseInv, Returned, Alive
  <2>2. Len(accepted) = play_count
    BY <2>1 DEF OrchestratorInv, ResultsConserved, TypeOK, CollectorTypeOK
  <2> QED BY <2>2 DEF OrchestratorInv, FailuresCounted
<1> QED BY <1>1, InvHolds, PTL

\* Collecting the last tolerated error stops the orchestrator.
THEOREM ErrorLimitStops == Spec => []FailAfterStops
  BY InvHolds, PTL DEF OrchestratorInv

\* No thread starts two runners after the orchestrator should stop.
THEOREM OneLateRun == Spec => []AtMostOneLateRun
<1>1. OrchestratorInv => AtMostOneLateRun
  <2> SUFFICES ASSUME LateInv, NEW t \in Threads PROVE late[t] <= 1
    BY DEF OrchestratorInv, AtMostOneLateRun
  <2>1. late[t] = 0 \/ late[t] = 1
    BY DEF LateInv
  <2> QED BY <2>1
<1> QED BY <1>1, InvHolds, PTL

\* Two threads never run their runners on the same CPU, for any number of
\* threads and CPUs: their spans of the CPU list do not meet.
THEOREM CpusNeverShared == Spec => []CpuExclusive
<1>1. TypeOK => CpuExclusive
  <2> SUFFICES ASSUME TypeOK, NEW t \in Threads, NEW u \in Threads, t # u
               PROVE  TargetCpu(t) # TargetCpu(u)
    BY DEF CpuExclusive
  <2> DEFINE B(i) == SpanBegin(NumCpus, NumThreads)[i]
             S(i) == SpanSize(NumCpus, NumThreads, i)
  <2>0. NumThreads \in Nat /\ NumThreads > 0 /\ NumCpus \in Nat /\ NumCpus >= NumThreads
    BY OrchestratorAssumption
  <2>1. /\ \A i \in 0..NumThreads : B(i) \in Nat
        /\ \A i \in 0..(NumThreads-1) : S(i) \in Nat /\ B(i + 1) = B(i) + S(i)
        /\ \A i, j \in 0..NumThreads : i <= j => B(i) <= B(j)
    BY <2>0, SpanBeginFacts
  <2>2. NumCpus \div NumThreads >= 1
    BY <2>0
  <2>3. \A i \in Threads : S(i) > 0
    BY <2>0, <2>2, DivMod DEF SpanSize, Threads
  <2>4. \A i \in Threads : TargetCpu(i) = B(i) + (iteration[i] % S(i))
    BY DEF TargetCpu
  <2> HIDE DEF B, S
  <2>5. ASSUME NEW i \in Threads
        PROVE  /\ i \in 0..NumThreads /\ i + 1 \in 0..NumThreads
               /\ B(i) \in Nat /\ B(i + 1) \in Nat
               /\ B(i) <= TargetCpu(i) /\ TargetCpu(i) < B(i + 1)
               /\ TargetCpu(i) \in Nat
    <3>1. /\ i \in 0..(NumThreads-1) /\ i \in 0..NumThreads
          /\ i + 1 \in 0..NumThreads
      BY <2>0 DEF Threads
    <3>2. /\ B(i) \in Nat /\ B(i + 1) \in Nat
          /\ S(i) \in Nat /\ B(i + 1) = B(i) + S(i) /\ S(i) > 0
      BY <2>1, <2>3, <3>1
    <3>3. iteration[i] % S(i) \in 0..(S(i) - 1)
      BY <3>2 DEF TypeOK
    <3> QED BY <2>4, <3>1, <3>2, <3>3
  <2>6. ASSUME NEW i \in Threads, NEW j \in Threads, i < j
        PROVE  TargetCpu(i) # TargetCpu(j)
    <3>1. i + 1 <= j
      BY <2>6 DEF Threads
    <3>2. B(i + 1) <= B(j)
      BY <2>1, <2>5, <3>1
    <3> QED BY <2>5, <3>2
  <2>7. t < u \/ u < t
    BY DEF Threads
  <2> QED BY <2>6, <2>7
<1> QED BY <1>1, TypeCorrect, PTL

\* A sequential scan that nothing disturbed has played every shard and
\* collected or rejected every result, and the binary log of a session that
\* returns is complete, or a prefix if its reader went away.
THEOREM ScanAndLogCorrect == Spec => []ScanAndLogComplete
<1>1. OrchestratorInv => SequentialScanComplete
  <2> SUFFICES ASSUME OrchestratorInv, Sequential, Returned, ~Disturbed
               PROVE  played = Shards /\ play_count + dropped = NumShards
    BY DEF SequentialScanComplete, Disturbed
  <2>1. NumThreads = 1 /\ Threads = {0} /\ NumShards \in Nat
    BY OrchestratorAssumption DEF Threads
  <2>2. TypeOK /\ PhaseInv /\ ResultsConserved /\ ScanInv
    BY DEF OrchestratorInv
  <2>3. queue = <<>> /\ batch = <<>> /\ tpc[0] \in {"unborn", "done"}
    BY <2>1, <2>2 DEF PhaseInv, Returned, Alive
  <2>4. Len(accepted) = play_count /\ play_count \in Nat /\ dropped \in Nat
    BY <2>2, <2>3 DEF ResultsConserved, TypeOK, CollectorTypeOK
  <2>5. stop_execution => tpc[0] = "done"
    BY <2>2 DEF ScanInv
  <2>6. spawned = 1 \/ stop_execution
    BY <2>1, <2>2 DEF ScanInv, ShouldStop, Disturbed
  <2>7. tpc[0] = "done"
    BY <2>1, <2>2, <2>3, <2>5, <2>6 DEF PhaseInv
  <2>8. next_index[0] = NumShards /\ played = 0..(next_index[0] - 1)
        /\ next_index[0] = Len(accepted) + dropped + 0
    BY <2>2, <2>7 DEF ScanInv
  <2> QED BY <2>1, <2>4, <2>8 DEF Shards
<1>2. OrchestratorInv => LogComplete
  <2> SUFFICES ASSUME OrchestratorInv, Returned PROVE LogComplete
    BY DEF LogComplete
  <2>1. mpc = "exited" /\ exit_code \notin {"error", "watchdog"}
    BY DEF OrchestratorInv, PhaseInv, Alive, Returned
  <2>2. session_logging \in BOOLEAN
    BY DEF OrchestratorInv, TypeOK
  <2>3. LogSoFar = LogOf(session_logging, num_failed_snapshots,
                         session_logging \/ num_failed_snapshots > 0)
    BY <2>1, <2>2 DEF LogSoFar
  <2> QED BY <2>1, <2>3 DEF OrchestratorInv, LogInv, LogComplete
<1> QED BY <1>1, <1>2, InvHolds, PTL DEF ScanAndLogComplete

\* Orchestrator implements ResultStream: each step accepts a result, reports the
\* next one, gives the verdict, or is invisible.
THEOREM ImplementsStream == Spec => StreamSpec
<1>1. Init => Stream!Init
  BY DEF Init, CollectorInit, Stream!Init
<1>2. OrchestratorInv /\ [Next]_vars => [Stream!Next]_(Stream!streamVars)
  <2> SUFFICES ASSUME OrchestratorInv, [Next]_vars
               PROVE  Stream!Next \/ UNCHANGED Stream!streamVars
    OBVIOUS
  <2> USE DEF Stream!streamVars
  <2>0. /\ TypeOK /\ PhaseInv /\ ResultsConserved /\ QueueBounded
        /\ FailuresCounted
        /\ report_runaways' = report_runaways
    BY StepKinds DEF OrchestratorInv
  <2>1. /\ Len(queue) \in Nat /\ Len(batch) \in Nat /\ play_count \in Nat
        /\ Len(accepted) = play_count + Len(batch) + Len(queue)
        /\ NumThreads \in Nat
    BY <2>0, StreamTypes, OrchestratorAssumption DEF ResultsConserved
  <2>2. CASE Keeps
    <3>1. CASE UNCHANGED exit_code
      BY <2>0, <2>2, <3>1 DEF Keeps, Untouched
    <3>2. CASE Return
      <4>1. mpc = "return" /\ exit_code = "none" /\ queue = <<>> /\ batch = <<>>
        BY <2>0, <3>2, BatchEmpty DEF Return, PhaseInv, Alive
      <4>2. play_count = Len(accepted)
        BY <2>1, <4>1
      <4>3. num_failed_snapshots > 0 <=>
              \E i \in 1..Len(accepted) : Stream!IsFailure(accepted[i])
        BY <2>0, <4>2 DEF FailuresCounted, CountsAsFailure, Stream!IsFailure,
                          HasFailedPlayerResult
      <4>4. exit_code' = IF num_failed_snapshots > 0 THEN "failure" ELSE "success"
        BY <3>2 DEF Return
      <4> QED
        BY <2>0, <2>2, <4>1, <4>2, <4>3, <4>4
           DEF Keeps, Untouched, Stream!Next, Stream!GiveVerdict
    <3>3. CASE Alive /\ exit_code' \in {"none", "watchdog"}
      BY <2>0, <2>2, <3>3
         DEF Keeps, Untouched, PhaseInv, Stream!Next, Stream!GiveUp
    <3>4. CASE mpc \in {"setup", "session_start"} /\ exit_code' = "error"
      BY <2>0, <2>2, <3>4
         DEF Keeps, Untouched, PhaseInv, Alive, Stream!Next, Stream!GiveUp
    <3> QED BY <2>2, <3>1, <3>2, <3>3, <3>4 DEF Keeps
  <2>3. CASE Takes
    BY <2>0, <2>3 DEF Takes
  <2>4. ASSUME NEW r \in RunResults, Collect(r), UNCHANGED <<accepted, exit_code>>,
               exit_code = "none", play_count + 1 \in 1..Len(accepted)
        PROVE  Stream!Report
    BY <2>0, <2>1, <2>4 DEF Collect, Stream!Report
  <2>5. CASE ConsumesBatch
    <3>1. Stream!Report
      BY <2>0, <2>4, <2>5, HeadOfBatch
         DEF ConsumesBatch, ProcessOne, PhaseInv, Alive
    <3> QED BY <3>1 DEF Stream!Next
  <2>6. CASE ConsumesQueue
    <3>1. batch = <<>>
      BY <2>0, <2>6, BatchEmpty DEF ConsumesQueue
    <3>2. Stream!Report
      BY <2>0, <2>4, <2>6, <3>1, HeadOfQueue
         DEF ConsumesQueue, ProcessOne, PhaseInv, Alive
    <3> QED BY <3>2 DEF Stream!Next
  <2>7. CASE Offers
    <3>1. PICK r \in RunResults :
            /\ Alive /\ Len(queue) < NumThreads
            /\ accepted' = Append(accepted, r)
            /\ UNCHANGED <<play_count, exit_code>>
      BY <2>7 DEF Offers
    <3>2. Len(accepted) - play_count < 2 * NumThreads
      BY <2>0, <2>1, <3>1 DEF QueueBounded
    <3>3. Stream!Accept(r)
      BY <2>0, <3>1, <3>2 DEF Stream!Accept, PhaseInv
    <3> QED BY <3>3 DEF Stream!Next, Stream!Results, RunResults
  <2> QED BY <2>2, <2>3, <2>5, <2>6, <2>7, StepKinds, <2>0
<1> QED
  BY <1>1, <1>2, InvHolds, PTL DEF Spec, StreamSpec, Stream!Spec
=============================================================================
