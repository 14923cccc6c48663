------------------------ MODULE HashTestRunnerProofs ------------------------
(***************************************************************************)
(* Proofs about WorkerPool, for any finite set of workers, any number of   *)
(* jobs and any modulus of the epoch counter above 1, and about            *)
(* HashTestRunner, for any number of CPUs, tests, inputs and corpora.      *)
(*                                                                         *)
(* TestMain uses the worker pool only through DoWork and the destructor, so*)
(* what is proved of the pool holds of it: DoWork is a barrier.  The rest  *)
(* is that the partitions of the tests are disjoint and cover all tests,   *)
(* that the three copies of an end state are computed on three CPUs, and   *)
(* that the majority of three with at most one bad is right.               *)
(***************************************************************************)
EXTENDS HashTestRunner, SpanUtilProofs, FiniteSetTheorems, TLAPS

-----------------------------------------------------------------------------
(* The worker pool                                                           *)

\* Any set of workers has a cardinality between 0 and that of all workers, and
\* it is 0 only for the empty set.
LEMMA WorkerSets ==
    ASSUME NEW S \in SUBSET Workers
    PROVE  /\ IsFiniteSet(S)
           /\ Cardinality(S) \in 0..Cardinality(Workers)
           /\ Cardinality(S) = 0 <=> S = {}
<1>1. IsFiniteSet(Workers) /\ IsFiniteSet(S)
  BY PoolAssumption, FS_Subset
<1>2. Cardinality(S) \in Nat /\ Cardinality(Workers) \in Nat
  BY <1>1, FS_CardinalityType
<1>3. Cardinality(S) <= Cardinality(Workers)
  BY <1>1, FS_Subset
<1>4. Cardinality(S) = 0 <=> S = {}
  BY <1>1, FS_EmptySet
<1> QED
  BY <1>1, <1>2, <1>3, <1>4

\* The initial state satisfies the invariant.
LEMMA PoolInit == Init => PoolInv
<1> SUFFICES ASSUME Init PROVE PoolInv
  OBVIOUS
<1>1. Cardinality(Workers) \in 0..Cardinality(Workers)
  BY WorkerSets
<1>2. TypeOK
  <2>1. epoch_ \in 0..(EpochModulus - 1) /\ 0 \in 0..(EpochModulus - 1)
    BY PoolAssumption DEF Init
  <2>2. 0 \in 0..MaxJobs
    BY PoolAssumption
  <2>3. asleep \in [Workers -> BOOLEAN] /\ work_available_ \in BOOLEAN
                                       /\ director_asleep \in BOOLEAN
    BY DEF Init
  <2>4. /\ epoch_on_entry \in [Workers -> 0..(EpochModulus - 1)]
        /\ current \in [Workers -> 0..MaxJobs]
    BY <2>1, <2>2 DEF Init, NoJob
  <2>5. worker \in [Workers -> WorkerStates] /\ director \in DirectorStates
    BY DEF Init, WorkerStates, DirectorStates
  <2> QED
    BY <1>1, <2>1, <2>2, <2>3, <2>4, <2>5 DEF Init, TypeOK, NoJob
<1>3. CountInv
  <2>1. Outstanding = Workers
    BY DEF Outstanding, Init
  <2> QED
    BY <2>1 DEF CountInv, Init
<1>4. PhaseInv
  BY DEF Init, PhaseInv
<1> QED
  BY <1>2, <1>3, <1>4 DEF PoolInv

\* Arithmetic of the epoch: it changes and stays in range.
LEMMA EpochStep ==
    ASSUME NEW e \in 0..(EpochModulus - 1)
    PROVE  /\ (e + 1) % EpochModulus \in 0..(EpochModulus - 1)
           /\ (e + 1) % EpochModulus # e
<1>1. EpochModulus \in Nat /\ EpochModulus > 1
  BY PoolAssumption
<1>2. CASE e = EpochModulus - 1
  <2>1. (e + 1) % EpochModulus = 0
    BY <1>1, <1>2
  <2> QED
    BY <2>1, <1>1, <1>2
<1>3. CASE e < EpochModulus - 1
  <2>1. (e + 1) % EpochModulus = e + 1
    BY <1>1, <1>3
  <2> QED
    BY <2>1, <1>1, <1>3
<1> QED
  BY <1>1, <1>2, <1>3

\* The steps that start a call, or that change neither the workers nor the count.
LEMMA DirectorSteps ==
    ASSUME PoolInv,
           \/ DoWork \/ Destroy \/ DirectorSleeps \/ WorkersDone
           \/ ClearCallback \/ JoinWorkers \/ DirectorWakesUp
    PROVE  PoolInv'
<1> USE DEF PoolInv
<1>1. /\ UNCHANGED <<num_workers_running_, work_available_, epoch_, worker,
                     asleep, epoch_on_entry, current>>
  BY DEF DoWork, Destroy, DirectorSleeps, WorkersDone, ClearCallback,
         JoinWorkers, DirectorWakesUp
<1>2. CountInv'
  <2>1. Outstanding' = Outstanding
    BY <1>1 DEF Outstanding
  <2> QED
    BY <1>1, <2>1 DEF CountInv
<1>3. TypeOK'
  <2>1. jobs' \in 0..MaxJobs /\ callback_' \in 0..MaxJobs
    BY PoolAssumption DEF TypeOK, DoWork, Destroy, DirectorSleeps, WorkersDone,
         ClearCallback, JoinWorkers, DirectorWakesUp, NoJob
  <2>2. director' \in DirectorStates
    BY DEF TypeOK, DirectorStates, DoWork, Destroy, DirectorSleeps,
         WorkersDone, ClearCallback, JoinWorkers, DirectorWakesUp
  <2>3. director_asleep' \in BOOLEAN
    BY DEF TypeOK, DoWork, Destroy, DirectorSleeps, WorkersDone,
         ClearCallback, JoinWorkers, DirectorWakesUp
  <2> QED
    BY <1>1, <2>1, <2>2, <2>3 DEF TypeOK
<1>4. PhaseInv'
  <2>1. CASE DoWork
    BY <2>1, <1>1 DEF PhaseInv, DoWork, TypeOK
  <2>2. CASE Destroy
    BY <2>2, <1>1 DEF PhaseInv, Destroy
  <2>3. CASE DirectorSleeps
    BY <2>3, <1>1 DEF PhaseInv, DirectorSleeps
  <2>4. CASE WorkersDone
    <3>1. Outstanding = {}
      BY <2>4, WorkerSets DEF WorkersDone, CountInv, Outstanding
    <3>2. \A w \in Workers : worker[w] = "wait" /\ epoch_on_entry[w] = epoch_
      BY <3>1 DEF Outstanding
    <3>3. \A w \in Workers : current[w] = jobs
      BY <2>4, <3>2 DEF PhaseInv, WorkersDone
    <3> QED
      BY <2>4, <1>1, <3>2, <3>3 DEF PhaseInv, WorkersDone
  <2>5. CASE ClearCallback
    BY <2>5, <1>1 DEF PhaseInv, ClearCallback
  <2>6. CASE JoinWorkers
    BY <2>6, <1>1 DEF PhaseInv, JoinWorkers
  <2>7. CASE DirectorWakesUp
    BY <2>7, <1>1 DEF PhaseInv, DirectorWakesUp
  <2> QED
    BY <2>1, <2>2, <2>3, <2>4, <2>5, <2>6, <2>7
<1> QED
  BY <1>2, <1>3, <1>4

\* A new epoch makes every worker outstanding.
LEMMA SignalStep ==
    ASSUME PoolInv, SignalWorkers
    PROVE  PoolInv'
<1> USE DEF PoolInv
<1>1. Outstanding = {}
  BY WorkerSets DEF SignalWorkers, CountInv, Outstanding
<1>2. \A w \in Workers : worker[w] = "wait" /\ epoch_on_entry[w] = epoch_
  BY <1>1 DEF Outstanding
<1>3. epoch_' \in 0..(EpochModulus - 1) /\ epoch_' # epoch_
  BY EpochStep DEF SignalWorkers, TypeOK
<1>4. \A w \in Workers : worker'[w] = "wait" /\ epoch_on_entry'[w] # epoch_'
  BY <1>2, <1>3 DEF SignalWorkers
<1>5. CountInv'
  <2>1. Outstanding' = Workers
    BY <1>4 DEF Outstanding
  <2> QED
    BY <2>1 DEF CountInv, SignalWorkers
<1>6. TypeOK'
  <2>1. num_workers_running_' \in 0..Cardinality(Workers)
    BY WorkerSets DEF SignalWorkers
  <2>2. director_asleep' \in BOOLEAN /\ work_available_' \in BOOLEAN
    BY DEF SignalWorkers
  <2> QED
    BY <1>3, <2>1, <2>2 DEF TypeOK, SignalWorkers, DirectorStates
<1>7. PhaseInv'
  <2>1. CASE director = "work"
    <3>1. director' = "await" /\ work_available_'
      BY <2>1 DEF SignalWorkers
    <3>2. callback_' = jobs' /\ jobs' > 0
      BY <2>1 DEF SignalWorkers, PhaseInv
    <3> QED
      BY <1>4, <3>1, <3>2 DEF PhaseInv
  <2>2. CASE director = "quit"
    <3>1. director' = "join" /\ ~work_available_'
      BY <2>2 DEF SignalWorkers
    <3> QED
      BY <1>4, <3>1 DEF PhaseInv
  <2> QED
    BY <2>1, <2>2 DEF SignalWorkers
<1> QED
  BY <1>5, <1>6, <1>7

\* Checking in takes a worker out of the outstanding ones.
LEMMA CheckInStep ==
    ASSUME PoolInv, NEW w \in Workers, CheckIn(w)
    PROVE  PoolInv'
<1> USE DEF PoolInv
<1>1. w \in Outstanding
  BY DEF Outstanding, CheckIn
<1>2. worker'[w] = "wait" /\ epoch_on_entry'[w] = epoch_'
  BY DEF CheckIn, TypeOK
<1>3. \A x \in Workers \ {w} : /\ worker'[x] = worker[x]
                                /\ epoch_on_entry'[x] = epoch_on_entry[x]
  BY DEF CheckIn, TypeOK
<1>4. Outstanding' = Outstanding \ {w}
  BY <1>2, <1>3 DEF Outstanding, CheckIn
<1>5. IsFiniteSet(Outstanding) /\ Outstanding \subseteq Workers
  BY WorkerSets DEF Outstanding
<1>6. Cardinality(Outstanding') = Cardinality(Outstanding) - 1
  BY <1>1, <1>4, <1>5, FS_RemoveElement
<1>7. CountInv'
  BY <1>6 DEF CountInv, CheckIn
<1>8. TypeOK'
  <2>1. Outstanding' \in SUBSET Workers
    BY <1>4, <1>5
  <2>2. Cardinality(Outstanding') \in 0..Cardinality(Workers)
    BY <2>1, WorkerSets
  <2>3. num_workers_running_' \in 0..Cardinality(Workers)
    BY <1>7, <2>2 DEF CountInv
  <2>4. director_asleep' \in BOOLEAN
    BY DEF CheckIn, TypeOK
  <2> QED
    BY <2>3, <2>4 DEF TypeOK, CheckIn, WorkerStates
<1>9. PhaseInv'
  <2>1. director \notin {"clear", "join", "gone"}
    BY DEF PhaseInv, CheckIn
  <2>2. UNCHANGED <<director, callback_, jobs, work_available_, epoch_, current>>
    BY DEF CheckIn
  <2>3. CASE director \in {"idle", "work", "quit"}
    BY <1>2, <1>3, <2>2, <2>3 DEF PhaseInv
  <2>4. CASE director = "await"
    <3>1. current[w] = jobs
      BY <2>4 DEF PhaseInv, CheckIn
    <3> QED
      BY <1>2, <1>3, <2>2, <2>4, <3>1 DEF PhaseInv
  <2> QED
    BY <2>1, <2>3, <2>4 DEF TypeOK, DirectorStates
<1> QED
  BY <1>7, <1>8, <1>9

\* The other steps of a worker leave it outstanding, or where it is.
LEMMA WorkerSteps ==
    ASSUME PoolInv, NEW w \in Workers,
           \/ WorkerSleeps(w) \/ NewEpoch(w) \/ StartCallback(w)
           \/ EndCallback(w) \/ WorkerWakesUp(w)
    PROVE  PoolInv'
<1> USE DEF PoolInv
<1>1. UNCHANGED <<num_workers_running_, work_available_, epoch_, callback_,
                  director, director_asleep, epoch_on_entry, jobs>>
  BY DEF WorkerSleeps, NewEpoch, StartCallback, EndCallback, WorkerWakesUp
<1>2. \A x \in Workers \ {w} : worker'[x] = worker[x] /\ current'[x] = current[x]
  BY DEF WorkerSleeps, NewEpoch, StartCallback, EndCallback, WorkerWakesUp, TypeOK
<1>3. CASE WorkerSleeps(w) \/ WorkerWakesUp(w)
  <2>1. UNCHANGED <<worker, current>>
    BY <1>3 DEF WorkerSleeps, WorkerWakesUp
  <2>2. Outstanding' = Outstanding
    BY <2>1, <1>1 DEF Outstanding
  <2>3. asleep' \in [Workers -> BOOLEAN]
    BY <1>3 DEF WorkerSleeps, WorkerWakesUp, TypeOK
  <2>4. TypeOK'
    BY <1>1, <2>1, <2>3 DEF TypeOK
  <2>5. PhaseInv'
    BY <1>1, <2>1 DEF PhaseInv
  <2> QED
    BY <1>1, <2>2, <2>4, <2>5 DEF CountInv
<1>4. CASE NewEpoch(w)
  <2>1. worker'[w] = IF work_available_ THEN "call" ELSE "exit"
    BY <1>4 DEF NewEpoch, TypeOK
  <2>2. UNCHANGED <<current, asleep>> /\ epoch_on_entry[w] # epoch_ /\ worker[w] = "wait"
    BY <1>4 DEF NewEpoch
  <2>3. Outstanding' = Outstanding
    BY <1>1, <1>2, <2>1, <2>2 DEF Outstanding
  <2>4. TypeOK'
    BY <1>1, <1>4, <2>2 DEF TypeOK, NewEpoch, WorkerStates
  <2>5. PhaseInv'
    <3>1. director \in {"await", "join", "gone"}
      BY <2>2 DEF PhaseInv, TypeOK, DirectorStates
    <3> QED
      BY <1>1, <1>2, <2>1, <2>2, <3>1 DEF PhaseInv
  <2> QED
    BY <1>1, <2>3, <2>4, <2>5 DEF CountInv
<1>5. CASE StartCallback(w)
  <2>1. worker[w] = "call" /\ worker'[w] = "busy" /\ current'[w] = callback_
    BY <1>5 DEF StartCallback, TypeOK
  <2>2. Outstanding' = Outstanding
    BY <1>1, <1>2, <2>1 DEF Outstanding
  <2>3. TypeOK'
    BY <1>1, <1>5 DEF TypeOK, StartCallback, WorkerStates
  <2>4. director = "await"
    BY <2>1 DEF PhaseInv, TypeOK, DirectorStates
  <2>5. PhaseInv'
    BY <1>1, <1>2, <2>1, <2>4 DEF PhaseInv
  <2> QED
    BY <1>1, <2>2, <2>3, <2>5 DEF CountInv
<1>6. CASE EndCallback(w)
  <2>1. worker[w] = "busy" /\ worker'[w] = "start" /\ current' = current
    BY <1>6 DEF EndCallback, TypeOK
  <2>2. Outstanding' = Outstanding
    BY <1>1, <1>2, <2>1 DEF Outstanding
  <2>3. TypeOK'
    BY <1>1, <1>6 DEF TypeOK, EndCallback, WorkerStates
  <2>4. director = "await"
    BY <2>1 DEF PhaseInv, TypeOK, DirectorStates
  <2>5. PhaseInv'
    BY <1>1, <1>2, <2>1, <2>4 DEF PhaseInv
  <2> QED
    BY <1>1, <2>2, <2>3, <2>5 DEF CountInv
<1> QED
  BY <1>3, <1>4, <1>5, <1>6

\* A step that changes nothing.
LEMMA PoolStutter == PoolInv /\ UNCHANGED vars => PoolInv'
<1> SUFFICES ASSUME PoolInv, UNCHANGED vars PROVE PoolInv'
  OBVIOUS
<1>1. Outstanding' = Outstanding
  BY DEF Outstanding, vars
<1> QED
  BY <1>1 DEF PoolInv, TypeOK, CountInv, PhaseInv, vars

\* Every step of the pool preserves the invariant.
LEMMA PoolNext == PoolInv /\ [Next]_vars => PoolInv'
<1> SUFFICES ASSUME PoolInv, [Next]_vars PROVE PoolInv'
  OBVIOUS
<1>1. CASE DoWork \/ Destroy \/ DirectorWakesUp
  BY <1>1, DirectorSteps
<1>2. CASE DirectorStep
  BY <1>2, DirectorSteps, SignalStep DEF DirectorStep
<1>3. CASE \E w \in Workers : WorkerStep(w) \/ WorkerWakesUp(w)
  BY <1>3, CheckInStep, WorkerSteps DEF WorkerStep
<1>4. CASE Terminated \/ UNCHANGED vars
  BY <1>4, PoolStutter DEF Terminated
<1> QED
  BY <1>1, <1>2, <1>3, <1>4 DEF Next

\* The invariant implies the properties.
LEMMA PoolInvImplies ==
    PoolInv => TypeOK /\ NeverCheckedInTwice /\ CallbackStable /\ AllWorkersDidTheJob
<1> SUFFICES ASSUME PoolInv
             PROVE  NeverCheckedInTwice /\ CallbackStable /\ AllWorkersDidTheJob
  BY DEF PoolInv
<1> USE DEF PoolInv
<1>1. NeverCheckedInTwice
  <2> SUFFICES ASSUME NEW w \in Workers, worker[w] = "start"
               PROVE  num_workers_running_ > 0
    BY DEF NeverCheckedInTwice
  <2>1. w \in Outstanding /\ Outstanding \in SUBSET Workers
    BY DEF Outstanding
  <2>2. Cardinality(Outstanding) # 0
    BY <2>1, WorkerSets
  <2> QED
    BY <2>2 DEF CountInv, TypeOK
<1>2. CallbackStable
  <2> SUFFICES ASSUME NEW w \in Workers, worker[w] \in {"call", "busy"}
               PROVE  /\ callback_ = jobs /\ jobs > 0
                      /\ worker[w] = "busy" => current[w] = jobs
    BY DEF CallbackStable
  <2>1. director = "await"
    BY DEF PhaseInv, TypeOK, DirectorStates
  <2> QED
    BY <2>1 DEF PhaseInv
<1>3. AllWorkersDidTheJob
  BY DEF AllWorkersDidTheJob, PhaseInv
<1> QED
  BY <1>1, <1>2, <1>3

\* The inductive invariant holds in every reachable state.
LEMMA PoolInvHolds == Spec => []PoolInv
<1> QED
  BY PoolInit, PoolNext, PTL DEF Spec

\* CHECK_GT(num_workers_running_, 0) in WaitForWork never fails, for any
\* number of workers and however the epoch counter wraps around.
THEOREM CheckInNeverFails == Spec => []NeverCheckedInTwice
<1> QED
  BY PoolInvHolds, PoolInvImplies, PTL

\* No worker ever calls or executes a callback that the director has replaced
\* or cleared, although callback_ is not guarded by the mutex.
THEOREM CallbackNeverRaces == Spec => []CallbackStable
<1> QED
  BY PoolInvHolds, PoolInvImplies, PTL

\* DoWork returns only after every worker has done the job and is waiting.
THEOREM DoWorkIsABarrier == Spec => []AllWorkersDidTheJob
<1> QED
  BY PoolInvHolds, PoolInvImplies, PTL

-----------------------------------------------------------------------------
(* The parameters of the runner                                              *)

W == Cardinality(Workers)

LEMMA Parameters ==
  /\ W \in Nat /\ W > 0 /\ Workers = 0 .. W - 1
  /\ NumTests \in Nat /\ NumTests > 0 /\ NumInputs \in Nat /\ NumInputs > 0
  /\ NumRepeat \in Nat /\ NumRepeat > 0 /\ BatchSize \in Nat /\ BatchSize > 0
  /\ kMaxTestBytes \in Nat /\ TestSizes \subseteq 1 .. kMaxTestBytes
  /\ CouldNotBeComputed \notin WrongHashes
<1>1. W \in Nat
  BY PoolAssumption, FS_CardinalityType DEF W
<1>2. W > 0
  BY <1>1, HashTestAssumption DEF W
<1> QED BY <1>1, <1>2, HashTestAssumption DEF W

-----------------------------------------------------------------------------
(* The partitions of the tests                                               *)

\* GetParition cuts the tests as PartitionEvenly would.
LEMMA SamePartition ==
  ASSUME NEW w \in Workers
  PROVE  /\ PartitionOf(w).offset = SpanBegin(NumTests, W)[w]
         /\ PartitionOf(w).size = SpanSize(NumTests, W, w)
         /\ TestsOf(w) = PartitionEvenly(NumTests, W)[w]
<1> DEFINE q == NumTests \div W
           r == NumTests % W
<1>0. /\ q \in Nat /\ r \in 0..(W-1) /\ w \in 0..W /\ w \in 0..(W-1) /\ w \in Nat
  BY Parameters, DivMod
<1>1. /\ PartitionOf(w).offset = IF w < r THEN w * (q + 1) ELSE w * q + r
      /\ PartitionOf(w).size = IF w < r THEN q + 1 ELSE q
  <2>1. CASE w < r
    BY <2>1 DEF PartitionOf, GetParition, W
  <2>2. CASE ~(w < r)
    BY <2>2 DEF PartitionOf, GetParition, W
  <2> HIDE DEF q, r
  <2> QED BY <2>1, <2>2
<1>2. SpanBegin(NumTests, W)[w] = w * q + (IF w < r THEN w ELSE r)
  <2>1. SpanBegin(NumTests, W) = [i \in 0..W |-> ClosedForm(NumTests, W, i)]
    BY Parameters, SpanBeginClosed
  <2>2. SpanBegin(NumTests, W)[w] = ClosedForm(NumTests, W, w)
    BY <1>0, <2>1
  <2> QED BY <2>2 DEF ClosedForm
<1>3. SpanSize(NumTests, W, w) = q + (IF w < r THEN 1 ELSE 0)
  BY DEF SpanSize
<1>4. w * (q + 1) = w * q + w
  BY <1>0
<1> HIDE DEF q, r
<1>5. /\ PartitionOf(w).offset = SpanBegin(NumTests, W)[w]
      /\ PartitionOf(w).size = SpanSize(NumTests, W, w)
  BY <1>0, <1>1, <1>2, <1>3, <1>4
<1> QED BY <1>0, <1>5 DEF TestsOf, PartitionEvenly

\* Every test belongs to one worker, and the workers' tests are in order.
LEMMA TestsPartitioned ==
  /\ \A t \in Tests : \E w \in Workers : t \in TestsOf(w)
  /\ \A w \in Workers : TestsOf(w) \subseteq Tests
  /\ \A w \in Workers : PartitionOf(w).offset \in Nat
  /\ \A w \in Workers : \A t \in TestsOf(w) : PartitionOf(w).offset <= t
  /\ \A v, w \in Workers : v < w => \A t \in TestsOf(v) : t + 1 <= PartitionOf(w).offset
  /\ \A v, w \in Workers : v # w => TestsOf(v) \cap TestsOf(w) = {}
<1> DEFINE S(w) == PartitionEvenly(NumTests, W)[w]
           B(w) == SpanBegin(NumTests, W)[w]
<1>0. /\ UNION {S(i) : i \in 0..(W-1)} = 0..(NumTests-1)
      /\ \A i, j \in 0..(W-1) : i < j => \A x \in S(i), y \in S(j) : x < y
  BY Parameters, PartitionIsEven
<1>1. /\ \A i \in 0..W : B(i) \in Nat
      /\ \A i \in 0..(W-1) : /\ SpanSize(NumTests, W, i) \in Nat
                             /\ B(i + 1) = B(i) + SpanSize(NumTests, W, i)
      /\ \A i, j \in 0..W : i <= j => B(i) <= B(j)
  BY Parameters, SpanBeginFacts
<1>2. \A w \in Workers : /\ PartitionOf(w).offset = B(w)
                         /\ PartitionOf(w).size = SpanSize(NumTests, W, w)
                         /\ TestsOf(w) = S(w)
  BY SamePartition
<1>3. Workers = 0..(W-1) /\ Tests = 0..(NumTests-1) /\ W \in Nat
  BY Parameters DEF Tests
<1>4. \A w \in Workers : TestsOf(w) = B(w) .. (B(w) + SpanSize(NumTests, W, w) - 1)
  BY <1>2 DEF TestsOf
<1> HIDE DEF S, B
<1>5. ASSUME NEW v \in Workers, NEW w \in Workers, v < w, NEW t \in TestsOf(v)
      PROVE  t + 1 <= PartitionOf(w).offset
  <2>1. v \in 0..W /\ v + 1 \in 0..W /\ w \in 0..W /\ v + 1 <= w /\ v \in 0..(W-1)
    BY <1>3, <1>5
  <2>2. B(v + 1) <= B(w) /\ B(v + 1) = B(v) + SpanSize(NumTests, W, v)
        /\ B(v) \in Nat /\ B(w) \in Nat /\ SpanSize(NumTests, W, v) \in Nat
    BY <1>1, <2>1
  <2>3. t \in B(v) .. (B(v) + SpanSize(NumTests, W, v) - 1)
    BY <1>4
  <2> QED BY <1>2, <2>2, <2>3
<1>6. \A w \in Workers : PartitionOf(w).offset \in Nat
  BY <1>1, <1>2, <1>3
<1>7. \A w \in Workers : \A t \in TestsOf(w) : PartitionOf(w).offset <= t
  BY <1>1, <1>2, <1>3, <1>4
<1>8. \A w \in Workers : TestsOf(w) \subseteq Tests
  BY <1>0, <1>2, <1>3
<1>9. \A t \in Tests : \E w \in Workers : t \in TestsOf(w)
  BY <1>0, <1>2, <1>3
<1>10. ASSUME NEW v \in Workers, NEW w \in Workers, v # w
       PROVE  TestsOf(v) \cap TestsOf(w) = {}
  <2>1. v < w \/ w < v
    BY <1>3, <1>10
  <2>2. \A x \in Tests : ~(x < x)
    BY <1>3
  <2> QED BY <1>0, <1>2, <1>3, <1>8, <2>1, <2>2
<1> QED BY <1>5, <1>6, <1>7, <1>8, <1>9, <1>10

\* Which worker computes which copy.  Subtask wraps around the workers.
LEMMA ModOfSum ==
  ASSUME NEW n \in Nat, n > 0, NEW x \in 0..(2 * n - 1)
  PROVE  x % n = IF x < n THEN x ELSE x - n
<1>1. x \div n \in Nat /\ x % n \in 0..(n-1) /\ x = n * (x \div n) + (x % n)
  BY DivMod
<1>2. CASE x \div n = 0
  BY <1>1, <1>2
<1>3. CASE x \div n = 1
  BY <1>1, <1>3
<1>4. x \div n < 2
  <2>1. x \div n >= 2 => 2 * n <= (x \div n) * n
    BY <1>1, TimesMonotonic
  <2> QED BY <1>1, <2>1
<1> QED BY <1>1, <1>2, <1>3, <1>4

LEMMA CopyWorkers ==
  /\ \A w \in Workers, c \in 0..2 : (w + c) % W \in Workers
  /\ \A v, w \in Workers, c \in 0..2 : v # w => (v + c) % W # (w + c) % W
  /\ W >= 3 => \A w \in Workers, c, d \in 0..2 : c # d => (w + c) % W # (w + d) % W
  /\ \A p \in Workers, c \in 0..2 : \E w \in Workers : (w + c) % W = p
<1>0. W \in Nat /\ W > 0 /\ Workers = 0 .. W - 1
  BY Parameters
<1>1. CASE W = 1
  BY <1>0, <1>1
<1>2. CASE W >= 2
  <2>1. ASSUME NEW w \in Workers, NEW c \in 0..2
        PROVE  (w + c) % W = IF w + c < W THEN w + c ELSE w + c - W
    <3>1. w + c \in 0..(2 * W - 1)
      BY <1>0, <1>2
    <3> QED BY <1>0, <3>1, ModOfSum
  <2>2. \A w \in Workers, c \in 0..2 : (w + c) % W \in Workers
    BY <1>0, <1>2, <2>1
  <2>3. ASSUME NEW v \in Workers, NEW w \in Workers, NEW c \in 0..2, v # w
        PROVE  (v + c) % W # (w + c) % W
    <3>1. /\ (v + c) % W = IF v + c < W THEN v + c ELSE v + c - W
          /\ (w + c) % W = IF w + c < W THEN w + c ELSE w + c - W
      BY <2>1
    <3>2. v \in Nat /\ w \in Nat /\ v < W /\ w < W /\ c \in {0, 1, 2}
      BY <1>0
    <3> QED BY <1>0, <2>3, <3>1, <3>2
  <2>4. ASSUME W >= 3, NEW w \in Workers, NEW c \in 0..2, NEW d \in 0..2, c # d
        PROVE  (w + c) % W # (w + d) % W
    <3>1. /\ (w + c) % W = IF w + c < W THEN w + c ELSE w + c - W
          /\ (w + d) % W = IF w + d < W THEN w + d ELSE w + d - W
      BY <2>1
    <3>2. w \in Nat /\ w < W /\ c \in {0, 1, 2} /\ d \in {0, 1, 2}
      BY <1>0
    <3> QED BY <1>0, <2>4, <3>1, <3>2
  <2>5. ASSUME NEW p \in Workers, NEW c \in 0..2
        PROVE  \E w \in Workers : (w + c) % W = p
    <3>1. CASE c <= p
      <4>1. p - c \in Workers /\ (p - c) + c = p /\ p < W
        BY <1>0, <3>1
      <4> QED BY <2>1, <4>1
    <3>2. CASE ~(c <= p)
      <4>1. PICK w \in Workers : w = p - c + W
        BY <1>0, <1>2, <3>2
      <4>2. (w + c) % W = IF w + c < W THEN w + c ELSE w + c - W
        BY <2>1
      <4>3. (w + c) % W = p
        BY <1>0, <4>1, <4>2
      <4> QED BY <4>3
    <3> QED BY <3>1, <3>2
  <2> QED BY <2>2, <2>3, <2>4, <2>5
<1> QED BY <1>0, <1>1, <1>2

\* Copy c of a test is computed by one worker, and if there are three of them
\* no worker computes two copies.
LEMMA Subtasks ==
  /\ \A c \in 0..2, t \in Tests : \E w \in Workers : t \in Subtask(w, c)
  /\ \A v, w \in Workers, c \in 0..2 : v # w => Subtask(v, c) \cap Subtask(w, c) = {}
  /\ W >= 3 => \A w \in Workers, c, d \in 0..2 :
                 c # d => Subtask(w, c) \cap Subtask(w, d) = {}
  /\ \A w \in Workers, c \in 0..2 : Subtask(w, c) \subseteq Tests
<1>1. \A w, c : Subtask(w, c) = TestsOf((w + c) % W)
  BY DEF Subtask, W
<1>2. ASSUME NEW c \in 0..2, NEW t \in Tests
      PROVE  \E w \in Workers : t \in Subtask(w, c)
  <2>1. PICK p \in Workers : t \in TestsOf(p)
    BY TestsPartitioned
  <2>2. PICK w \in Workers : (w + c) % W = p
    BY CopyWorkers
  <2> QED BY <1>1, <2>1, <2>2
<1>P. \A v, w \in Workers : v # w => TestsOf(v) \cap TestsOf(w) = {}
  BY TestsPartitioned
<1>3. ASSUME NEW v \in Workers, NEW w \in Workers, NEW c \in 0..2, v # w
      PROVE  Subtask(v, c) \cap Subtask(w, c) = {}
  <2>1. /\ (v + c) % W \in Workers /\ (w + c) % W \in Workers
        /\ (v + c) % W # (w + c) % W
    BY <1>3, CopyWorkers
  <2> QED BY <1>1, <1>P, <2>1
<1>4. ASSUME W >= 3, NEW w \in Workers, NEW c \in 0..2, NEW d \in 0..2, c # d
      PROVE  Subtask(w, c) \cap Subtask(w, d) = {}
  <2>1. /\ (w + c) % W \in Workers /\ (w + d) % W \in Workers
        /\ (w + c) % W # (w + d) % W
    BY <1>4, CopyWorkers
  <2> QED BY <1>1, <1>P, <2>1
<1>5. \A w \in Workers, c \in 0..2 : Subtask(w, c) \subseteq Tests
  BY <1>1, CopyWorkers, TestsPartitioned
<1> QED BY <1>2, <1>3, <1>4, <1>5

\* RunTests never leaves the tests and the inputs.
LEMMA PositionInRange ==
  ASSUME NEW p \in 0..(Sweep - 1)
  PROVE  Position(p).test \in Tests /\ Position(p).input \in Inputs
<1> DEFINE M == NumInputs * NumRepeat
           per_batch == BatchSize * NumInputs * NumRepeat
           k == p \div per_batch
           g == k * BatchSize
           batch == Min({BatchSize, NumTests - g})
           q == p % per_batch
<1>0. M \in Nat /\ M > 0 /\ per_batch = BatchSize * M /\ Sweep = NumTests * M
  BY Parameters DEF Sweep
<1>1. per_batch \in Nat /\ per_batch > 0 /\ Sweep \in Nat /\ p \in Nat /\ p < Sweep
  <2>1. BatchSize * M \in Nat /\ BatchSize * M > 0 /\ NumTests * M \in Nat
    BY <1>0, Parameters
  <2> QED BY <1>0, <2>1
<1>2. k \in Nat /\ q \in Nat /\ p = per_batch * k + q
  BY <1>1, DivMod
<1>3. g \in Nat
  <2> HIDE DEF k
  <2> QED BY <1>2, Parameters
<1>4. g < NumTests
  <2>1. per_batch * k = g * M
    BY <1>0, <1>2, Parameters
  <2>2. g * M <= p /\ p < NumTests * M
    BY <1>0, <1>1, <1>2, <2>1
  <2>3. NumTests <= g => NumTests * M <= g * M
    BY <1>0, <1>3, Parameters, TimesMonotonic
  <2>4. g * M \in Nat /\ NumTests * M \in Nat
    BY <1>0, <1>3, Parameters
  <2> QED BY <1>1, <1>3, <2>2, <2>3, <2>4, Parameters
<1>5. batch \in {BatchSize, NumTests - g} /\ batch <= NumTests - g
  <2> HIDE DEF g
  <2> DEFINE S == {BatchSize, NumTests - g}
  <2>1. BatchSize \in Nat /\ NumTests - g \in Nat
    BY <1>3, <1>4, Parameters
  <2>2. \E x \in S : \A y \in S : x <= y
    <3>1. CASE BatchSize <= NumTests - g
      BY <2>1, <3>1
    <3>2. CASE NumTests - g <= BatchSize
      BY <2>1, <3>2
    <3> QED BY <2>1, <3>1, <3>2
  <2>3. Min(S) \in S /\ \A y \in S : Min(S) <= y
    BY <2>2 DEF Min
  <2> QED BY <2>3
<1> HIDE DEF k, g, batch, q, per_batch, M
<1>6. batch \in Nat /\ batch > 0
  BY <1>3, <1>4, <1>5, Parameters
<1>7. q % batch \in 0..(batch - 1) /\ q \div batch \in Nat
  BY <1>2, <1>6, DivMod
<1>8. (q \div batch) % NumInputs \in 0..(NumInputs - 1)
  BY <1>7, Parameters, DivMod
<1>9. g + (q % batch) \in 0..(NumTests - 1)
  BY <1>3, <1>4, <1>5, <1>6, <1>7, Parameters
<1>10. Position(p) = [test |-> g + (q % batch), input |-> (q \div batch) % NumInputs]
  BY DEF Position, g, k, q, batch, per_batch
<1> QED BY <1>8, <1>9, <1>10 DEF Tests, Inputs

LEMMA Intervals ==
  ASSUME NEW a \in Int, NEW b \in Int, a <= b + 1
  PROVE  IsFiniteSet(a .. b) /\ Cardinality(a .. b) = b + 1 - a
<1>1. IsFiniteSet(a .. b) /\ Cardinality(a .. b) = IF a > b THEN 0 ELSE b-a+1
  BY FS_Interval
<1> QED BY <1>1

\* SynthesizeTests of one worker: a test ends before the next begins, and does
\* not leave the memory set aside for it and the tests before it.
LEMMA Layout ==
  ASSUME NEW w \in Workers, NEW size \in [TestsOf(w) -> TestSizes],
         NEW t \in TestsOf(w)
  PROVE  /\ Cardinality(BytesBefore(w, size, t)) \in Nat
         /\ size[t] \in Nat
         /\ Cardinality(BytesBefore(w, size, t)) + size[t]
              <= (t + 1 - PartitionOf(w).offset) * kMaxTestBytes
         /\ \A u \in TestsOf(w) : t < u =>
              Cardinality(BytesBefore(w, size, t)) + size[t]
                <= Cardinality(BytesBefore(w, size, u))
<1> DEFINE K == kMaxTestBytes
           o == PartitionOf(w).offset
           A(x) == BytesBefore(w, size, x)
           C == {t} \X (1 .. size[t])
           R == (o .. t) \X (1 .. K)
<1>0. /\ o \in Nat /\ t \in Nat /\ o <= t /\ K \in Nat
      /\ size[t] \in 1 .. K /\ TestsOf(w) \subseteq Nat
      /\ \A x \in TestsOf(w) : o <= x
  <2>1. TestsOf(w) \subseteq 0 .. NumTests - 1 /\ NumTests \in Nat
    BY TestsPartitioned, Parameters DEF Tests
  <2>2. o \in Nat /\ \A x \in TestsOf(w) : o <= x
    BY TestsPartitioned
  <2>3. size[t] \in 1 .. K /\ K \in Nat
    BY Parameters
  <2> QED BY <2>1, <2>2, <2>3
<1>1. IsFiniteSet(C) /\ Cardinality(C) = size[t]
  <2>1. IsFiniteSet({t}) /\ Cardinality({t}) = 1
    BY FS_Singleton
  <2>2. IsFiniteSet(1 .. size[t]) /\ Cardinality(1 .. size[t]) = size[t]
    BY <1>0, Intervals
  <2>3. IsFiniteSet(C) /\ Cardinality(C) = 1 * size[t]
    BY <2>1, <2>2, FS_Product
  <2> QED BY <1>0, <2>3
<1>2. IsFiniteSet(R) /\ Cardinality(R) = (t + 1 - o) * K
  <2>1. IsFiniteSet(o .. t) /\ Cardinality(o .. t) = t + 1 - o
    <3>1. o \in Int /\ t \in Int /\ o <= t + 1
      BY <1>0
    <3> HIDE DEF o
    <3> QED BY <3>1, Intervals
  <2>2. IsFiniteSet(1 .. K) /\ Cardinality(1 .. K) = K
    BY <1>0, Intervals
  <2> DEFINE S == o .. t
             T == 1 .. K
  <2>3. IsFiniteSet(S) /\ IsFiniteSet(T)
    BY <2>1, <2>2
  <2>4. Cardinality(S) = t + 1 - o /\ Cardinality(T) = K
    BY <2>1, <2>2
  <2>5. R = S \X T
    OBVIOUS
  <2> HIDE DEF S, T
  <2>6. IsFiniteSet(S \X T) /\ Cardinality(S \X T) = Cardinality(S) * Cardinality(T)
    BY <2>3, FS_Product
  <2> HIDE DEF o, K, R
  <2> QED BY <2>4, <2>5, <2>6
<1>3. ASSUME NEW x \in TestsOf(w)
      PROVE  IsFiniteSet(A(x)) /\ Cardinality(A(x)) \in Nat
  <2>1. IsFiniteSet(TestsOf(w) \X (1 .. K))
    <3>1. IsFiniteSet(TestsOf(w))
      <4>1. TestsOf(w) \subseteq 0 .. NumTests - 1
        BY TestsPartitioned DEF Tests
      <4>2. IsFiniteSet(0 .. NumTests - 1)
        BY Parameters, Intervals
      <4> QED BY <4>1, <4>2, FS_Subset
    <3>2. IsFiniteSet(1 .. K)
      BY <1>0, Intervals
    <3> QED BY <3>1, <3>2, FS_Product
  <2>2. A(x) \subseteq TestsOf(w) \X (1 .. K)
    BY DEF BytesBefore
  <2> QED BY <2>1, <2>2, FS_Subset, FS_CardinalityType
<1>4. A(t) \cap C = {}
  BY <1>0 DEF BytesBefore
<1>5. IsFiniteSet(A(t) \cup C) /\ Cardinality(A(t) \cup C) = Cardinality(A(t)) + size[t]
  <2>1. /\ IsFiniteSet(A(t) \cup C)
        /\ Cardinality(A(t) \cup C)
             = Cardinality(A(t)) + Cardinality(C) - Cardinality({})
    BY <1>1, <1>3, <1>4, FS_Union
  <2>2. Cardinality({}) = 0
    BY FS_EmptySet
  <2> QED BY <1>0, <1>1, <1>3, <2>1, <2>2
<1>6. A(t) \cup C \subseteq R
  BY <1>0 DEF BytesBefore
<1>7. Cardinality(A(t)) + size[t] <= (t + 1 - o) * K
  BY <1>2, <1>5, <1>6, FS_Subset
<1>8. ASSUME NEW u \in TestsOf(w), t < u
      PROVE  Cardinality(A(t)) + size[t] <= Cardinality(A(u))
  <2>1. A(t) \cup C \subseteq A(u)
    BY <1>0, <1>8 DEF BytesBefore
  <2> QED BY <1>3, <1>5, <2>1, FS_Subset
<1> QED BY <1>0, <1>3, <1>7, <1>8

-----------------------------------------------------------------------------
(* The pool: what TestMain relies on                                         *)

\* Every step of the runner is a step of the pool, or leaves the pool alone.
LEMMA RunnerUsesPool ==
  ASSUME HashTestNext
  PROVE  [Next]_vars
<1>1. CASE PoolDirectorStep \/ SpuriousWakeup
  BY <1>1 DEF PoolDirectorStep, SpuriousWakeup, Next
<1>2. CASE MainStep
  BY <1>2 DEF MainStep, BindWorkers, MainLoopEnters, StartCorpus,
     DetermineEndStates, RunCorpus, AggregateStats, Report, LeaveTestMain, Next
<1>3. ASSUME NEW w \in Workers, PoolWorkerStep(w) PROVE Next
  BY <1>3 DEF PoolWorkerStep, Next, WorkerStep
<1>4. ASSUME NEW w \in Workers, NEW look, TestStep(w) \/ RunTest(w, look)
      PROVE  [Next]_vars
  BY <1>4 DEF TestStep, Synthesize, ComputeEndStates, RunTest, SkipTest,
     CallbackReturns, Next, WorkerStep
<1>5. CASE CorpusTimePasses \/ TimePasses \/ StopRunning
  BY <1>5 DEF CorpusTimePasses, TimePasses, StopRunning
<1> QED BY <1>1, <1>2, <1>3, <1>4, <1>5 DEF HashTestNext

\* Where the workers are when one of them is told to go on.
LEMMA BusyWhileAwaited ==
  ASSUME PoolInv, NEW w \in Workers,
         \/ worker[w] \in {"call", "busy"}
         \/ worker[w] = "wait" /\ epoch_on_entry[w] # epoch_
  PROVE  director \in {"await", "join", "gone"}
BY DEF PoolInv, PhaseInv, TypeOK, DirectorStates

LEMMA BarrierStep ==
  ASSUME PoolInv, BarrierInv, [Next]_vars
  PROVE  BarrierInv'
<1>0. TypeOK /\ jobs \in Nat
  BY PoolAssumption DEF PoolInv, TypeOK
<1>1. CASE DoWork
  <2>1. \A w \in Workers : current[w] \in Nat
    BY <1>0, PoolAssumption DEF TypeOK
  <2> QED BY <1>0, <1>1, <2>1 DEF DoWork, BarrierInv
<1>2. CASE ClearCallback
  BY <1>2 DEF ClearCallback, BarrierInv, PoolInv, PhaseInv
<1>3. CASE \/ Destroy \/ DirectorWakesUp \/ DirectorSleeps \/ SignalWorkers
           \/ WorkersDone \/ JoinWorkers \/ UNCHANGED vars
  BY <1>3 DEF Destroy, DirectorWakesUp, DirectorSleeps, SignalWorkers,
              WorkersDone, JoinWorkers, BarrierInv, vars
<1>4. ASSUME NEW w \in Workers, WorkerStep(w) \/ WorkerWakesUp(w)
      PROVE  BarrierInv'
  <2>1. CASE CheckIn(w)
    <3>1. UNCHANGED <<current, jobs, director>> /\ worker[w] = "start"
      BY <2>1 DEF CheckIn
    <3>2. ~(director = "idle" /\ jobs > 0)
      BY <3>1 DEF BarrierInv
    <3> QED BY <3>1, <3>2 DEF BarrierInv
  <2>2. CASE NewEpoch(w) \/ EndCallback(w)
    <3>1. UNCHANGED <<current, jobs, director>>
      BY <2>2 DEF NewEpoch, EndCallback
    <3>2. director # "idle"
      BY <2>2, BusyWhileAwaited DEF NewEpoch, EndCallback
    <3> QED BY <3>1, <3>2 DEF BarrierInv
  <2>3. CASE StartCallback(w)
    <3>1. UNCHANGED <<jobs, director>> /\ current' = [current EXCEPT ![w] = callback_]
          /\ worker[w] = "call"
      BY <2>3 DEF StartCallback
    <3>2. callback_ = jobs
      BY <3>1, PoolInvImplies DEF CallbackStable
    <3>3. director # "idle"
      BY <3>1, BusyWhileAwaited
    <3> QED BY <1>0, <3>1, <3>2, <3>3 DEF BarrierInv, TypeOK
  <2>4. CASE WorkerSleeps(w) \/ WorkerWakesUp(w)
    BY <2>4 DEF WorkerSleeps, WorkerWakesUp, BarrierInv
  <2> QED BY <1>4, <2>1, <2>2, <2>3, <2>4 DEF WorkerStep
<1> QED BY <1>1, <1>2, <1>3, <1>4 DEF Next, DirectorStep, Terminated

\* When DoWork has returned, or is about to, all have done their part.
LEMMA AllReady ==
  ASSUME HashTestInv, phase \in JobPhases, director \in {"idle", "clear"}
  PROVE  ready = Workers
<1>1. \A w \in Workers : worker[w] = "wait" /\ current[w] = jobs
  <2>1. CASE director = "idle"
    BY <2>1 DEF HashTestInv, BarrierInv, SyncInv
  <2>2. CASE director = "clear"
    BY <2>2 DEF HashTestInv, PoolInv, PhaseInv
  <2> QED BY <2>1, <2>2
<1> QED BY <1>1 DEF HashTestInv, SyncInv, HashTestTypeOK

-----------------------------------------------------------------------------
(* The steps of TestMain preserve the invariant                              *)

\* Steps of the pool alone, and steps of the environment.
Alone == UNCHANGED <<bad, phase, code, copies, pos, ready, hits, failed,
                     hit_corpora, exit_code>>

LEMMA StepCases ==
  ASSUME HashTestNext
  PROVE  \/ Alone
         \/ MainLoopEnters \/ StartCorpus \/ DetermineEndStates \/ RunCorpus
         \/ AggregateStats \/ Report
         \/ \E w \in Workers : \/ Synthesize(w) \/ ComputeEndStates(w) \/ SkipTest(w)
                               \/ \E look \in BOOLEAN : RunTest(w, look)
<1>1. UNCHANGED hvars => Alone
  BY DEF hvars, Alone
<1>2. CASE PoolDirectorStep \/ SpuriousWakeup \/ BindWorkers \/ LeaveTestMain
  BY <1>1, <1>2 DEF PoolDirectorStep, SpuriousWakeup, BindWorkers, LeaveTestMain
<1>3. ASSUME NEW w \in Workers, PoolWorkerStep(w) \/ CallbackReturns(w)
      PROVE  Alone
  BY <1>1, <1>3 DEF PoolWorkerStep, CallbackReturns
<1>4. CASE CorpusTimePasses \/ TimePasses \/ StopRunning
  BY <1>4 DEF CorpusTimePasses, TimePasses, StopRunning, Alone
<1> QED BY <1>2, <1>3, <1>4 DEF HashTestNext, MainStep, TestStep

LEMMA SweepFacts == Sweep \in Nat /\ Sweep > 0 /\ 0 \in 0 .. Sweep - 1
<1>1. NumTests * NumInputs \in Nat /\ NumTests * NumInputs > 0
  BY Parameters
<1>2. Sweep \in Nat /\ Sweep > 0
  BY <1>1, Parameters DEF Sweep
<1> QED BY <1>2

LEMMA TypesStep ==
  ASSUME HashTestTypeOK, HashTestNext
  PROVE  HashTestTypeOK'
<1> USE DEF HashTestTypeOK
<1>1. CASE Alone
  BY <1>1 DEF Alone
<1>2. CASE MainLoopEnters \/ StartCorpus \/ DetermineEndStates \/ Report
  BY <1>2 DEF MainLoopEnters, StartCorpus, DetermineEndStates, Report, Phases
<1>3. CASE RunCorpus
  BY <1>3, SweepFacts DEF RunCorpus, Phases
<1>4. CASE AggregateStats
  BY <1>4 DEF AggregateStats, Phases
<1>5. ASSUME NEW w \in Workers, Synthesize(w) \/ ComputeEndStates(w)
      PROVE  HashTestTypeOK'
  BY <1>5 DEF Synthesize, ComputeEndStates
<1>6. \A p \in 0 .. Sweep - 1 : (p + 1) % Sweep \in 0 .. Sweep - 1
  <2>1. \A p \in 0 .. Sweep - 1 : p + 1 \in Nat
    BY SweepFacts
  <2> QED BY <2>1, SweepFacts, DivMod
<1>7. ASSUME NEW w \in Workers, SkipTest(w)
      PROVE  HashTestTypeOK'
  <2>1. pos' = [pos EXCEPT ![w] = (pos[w] + 1) % Sweep]
        /\ UNCHANGED <<bad, phase, ready, hit_corpora>>
    BY <1>7 DEF SkipTest
  <2> QED BY <1>6, <2>1
<1>8. ASSUME NEW w \in Workers, NEW look \in BOOLEAN, RunTest(w, look)
      PROVE  HashTestTypeOK'
  <2>1. /\ \E x \in {0, (pos[w] + 1) % Sweep} : pos' = [pos EXCEPT ![w] = x]
        /\ ready' \in {ready, ready \cup {w}}
        /\ UNCHANGED <<bad, phase, hit_corpora>>
    BY <1>8 DEF RunTest
  <2>2. (pos[w] + 1) % Sweep \in 0 .. Sweep - 1
    BY <1>6
  <2> QED BY <2>1, <2>2, SweepFacts
<1> QED BY <1>1, <1>2, <1>3, <1>4, <1>5, <1>7, <1>8, StepCases

LEMMA SyncStep ==
  ASSUME HashTestInv, HashTestNext
  PROVE  SyncInv'
<1>0. PoolInv /\ TypeOK /\ HashTestTypeOK /\ BarrierInv /\ SyncInv
      /\ jobs \in Nat /\ CallbackStable
  BY PoolInvImplies, PoolAssumption DEF HashTestInv, PoolInv, TypeOK
<1>1. CASE BindWorkers \/ LeaveTestMain
  BY <1>1 DEF BindWorkers, LeaveTestMain, hvars, SyncInv, JobPhases
<1>2. CASE MainLoopEnters
  BY <1>2 DEF MainLoopEnters, Returned, vars, SyncInv, JobPhases
<1>3. CASE StartCorpus \/ DetermineEndStates \/ RunCorpus
  <2>1. DoWork /\ phase' \in JobPhases
    BY <1>3 DEF StartCorpus, DetermineEndStates, RunCorpus, JobPhases
  <2>2. /\ jobs' = jobs + 1 /\ current' = current
    BY <2>1 DEF DoWork
  <2>3. \A w \in Workers : current[w] <= jobs /\ current[w] \in Nat
    BY <1>0, PoolAssumption DEF BarrierInv, TypeOK
  <2>4. \A w \in Workers : current'[w] # jobs'
    BY <1>0, <2>2, <2>3
  <2> QED BY <1>0, <2>1, <2>2, <2>4 DEF SyncInv, JobPhases
<1>4. CASE AggregateStats
  BY <1>4 DEF AggregateStats, Returned, vars, SyncInv, JobPhases, HashTestInv
<1>5. CASE Report
  BY <1>5 DEF Report, SyncInv, JobPhases
<1>6. ASSUME NEW w \in Workers, NEW look \in BOOLEAN,
             \/ Synthesize(w) \/ ComputeEndStates(w) \/ SkipTest(w)
             \/ RunTest(w, look)
      PROVE  SyncInv'
  <2>1. UNCHANGED <<vars, phase>> /\ ready \subseteq ready'
    BY <1>6 DEF Synthesize, ComputeEndStates, SkipTest, RunTest
  <2> QED BY <1>0, <2>1 DEF SyncInv, vars
<1>7. CASE CorpusTimePasses \/ TimePasses \/ StopRunning
  BY <1>0, <1>7 DEF CorpusTimePasses, TimePasses, StopRunning, SyncInv, vars
<1>8. CASE PoolDirectorStep
  <2>1. UNCHANGED <<phase, ready, jobs, worker, current>>
    BY <1>8 DEF PoolDirectorStep, DirectorStep, DirectorSleeps, SignalWorkers,
       WorkersDone, ClearCallback, JoinWorkers, hvars
  <2>2. director = "idle" => director' = "idle"
    BY <1>8 DEF PoolDirectorStep, DirectorStep, DirectorSleeps, SignalWorkers,
       WorkersDone, ClearCallback, JoinWorkers
  <2> QED BY <1>0, <2>1, <2>2 DEF SyncInv
<1>9. CASE SpuriousWakeup
  BY <1>0, <1>9 DEF SpuriousWakeup, DirectorWakesUp, WorkerWakesUp, hvars, SyncInv
<1>10. ASSUME NEW w \in Workers, PoolWorkerStep(w)
       PROVE  SyncInv'
  <2>0. UNCHANGED <<phase, ready, jobs, director>>
    BY <1>10 DEF PoolWorkerStep, CheckIn, WorkerSleeps, NewEpoch, StartCallback, hvars
  <2>1. CASE CheckIn(w) \/ WorkerSleeps(w) \/ NewEpoch(w)
    <3>1. current' = current /\ worker[w] # "busy"
      BY <2>1 DEF CheckIn, WorkerSleeps, NewEpoch
    <3>2. \A v \in Workers : worker'[v] # "busy" => worker[v] # "busy"
      BY <1>0, <2>1 DEF CheckIn, WorkerSleeps, NewEpoch, TypeOK
    <3> QED BY <1>0, <2>0, <3>1, <3>2 DEF SyncInv
  <2>2. CASE StartCallback(w)
    <3>1. /\ worker'[w] = "busy"
          /\ \A v \in Workers : v # w => worker'[v] = worker[v] /\ current'[v] = current[v]
      BY <1>0, <2>2 DEF StartCallback, TypeOK
    <3> QED BY <1>0, <2>0, <3>1 DEF SyncInv
  <2> QED BY <1>10, <2>1, <2>2 DEF PoolWorkerStep
<1>11. ASSUME NEW w \in Workers, CallbackReturns(w)
       PROVE  SyncInv'
  <2>1. /\ UNCHANGED <<phase, ready, jobs, director, current>>
        /\ phase = "bind" \/ w \in ready
        /\ \A v \in Workers : v # w => worker'[v] = worker[v]
    BY <1>0, <1>11 DEF CallbackReturns, EndCallback, hvars, TypeOK
  <2> QED BY <1>0, <2>1 DEF SyncInv, JobPhases
<1> QED BY <1>1, <1>2, <1>3, <1>4, <1>5, <1>6, <1>7, <1>8, <1>9, <1>10, <1>11
           DEF HashTestNext, MainStep, TestStep

LEMMA SynthesizeLaysOut ==
  ASSUME NEW w \in Workers, Synthesize(w)
  PROVE  /\ LaidOut(w)'
         /\ \A t \in Tests \ TestsOf(w) : code'[t] = code[t]
<1>1. PICK size \in [TestsOf(w) -> TestSizes] :
        code' = [t \in Tests |->
                  IF t \in TestsOf(w)
                  THEN [at |-> PartitionOf(w).offset * kMaxTestBytes
                               + Cardinality(BytesBefore(w, size, t)),
                        size |-> size[t]]
                  ELSE code[t]]
  BY DEF Synthesize
<1>2. TestsOf(w) \subseteq Tests
  BY TestsPartitioned
<1> DEFINE K == kMaxTestBytes
           o == PartitionOf(w).offset
           B(t) == Cardinality(BytesBefore(w, size, t))
<1>3. \A t \in TestsOf(w) : code'[t].at = o * K + B(t) /\ code'[t].size = size[t]
  BY <1>1, <1>2
<1>4. o \in Nat /\ K \in Nat /\ o * K \in Nat
  BY TestsPartitioned, Parameters
<1>5. ASSUME NEW t \in TestsOf(w)
      PROVE  /\ B(t) \in Nat /\ size[t] \in Nat
             /\ B(t) + size[t] <= (t + 1 - o) * K
             /\ \A u \in TestsOf(w) : t < u => B(t) + size[t] <= B(u) /\ B(u) \in Nat
  BY Layout
<1> HIDE DEF B, o, K
<1>6. ASSUME NEW t \in TestsOf(w)
      PROVE  /\ code'[t].at \in Nat /\ code'[t].size \in Nat
             /\ o * K <= code'[t].at
             /\ code'[t].at + code'[t].size <= (t + 1) * K
             /\ \A u \in TestsOf(w) : t < u =>
                  code'[t].at + code'[t].size <= code'[u].at
  <2>1. t \in Nat /\ t + 1 - o \in Int
    BY <1>2, <1>4, Parameters DEF Tests
  <2>2. o * K + (t + 1 - o) * K = (t + 1) * K
    BY <1>4, <2>1
  <2>3. (t + 1 - o) * K \in Int
    BY <1>4, <2>1
  <2>4. code'[t].at = o * K + B(t) /\ code'[t].size = size[t]
    BY <1>3
  <2>5. B(t) \in Nat /\ size[t] \in Nat /\ B(t) + size[t] <= (t + 1 - o) * K
    BY <1>5
  <2>6. ASSUME NEW u \in TestsOf(w), t < u
        PROVE  code'[t].at + code'[t].size <= code'[u].at
    <3>1. B(t) + size[t] <= B(u) /\ B(u) \in Nat /\ code'[u].at = o * K + B(u)
      BY <1>3, <1>5, <2>6
    <3> QED BY <1>4, <2>4, <2>5, <3>1
  <2> QED BY <1>4, <2>2, <2>3, <2>4, <2>5, <2>6
<1>7. LaidOut(w)'
  BY <1>6 DEF LaidOut, o, K
<1> QED BY <1>1, <1>7

LEMMA CodeStep ==
  ASSUME HashTestInv, HashTestNext
  PROVE  CodeInv'
<1>0. CodeInv /\ HashTestTypeOK
  BY DEF HashTestInv
<1>1. code' = code => \A w \in Workers : LaidOut(w) => LaidOut(w)'
  BY DEF LaidOut
<1>2. ready \subseteq Workers
  BY <1>0 DEF HashTestTypeOK
<1>3. CASE Alone
  BY <1>0, <1>1, <1>2, <1>3 DEF Alone, CodeInv
<1>4. CASE StartCorpus
  BY <1>4 DEF StartCorpus, CodeInv
<1>5. CASE DetermineEndStates
  <2>1. ready = Workers
    BY <1>5, AllReady DEF DetermineEndStates, Returned, JobPhases
  <2> QED BY <1>0, <1>1, <1>5, <2>1 DEF DetermineEndStates, CodeInv
<1>6. CASE MainLoopEnters \/ RunCorpus \/ AggregateStats \/ Report
  BY <1>6 DEF MainLoopEnters, RunCorpus, AggregateStats, Report, CodeInv
<1>7. ASSUME NEW w \in Workers, Synthesize(w) PROVE CodeInv'
  <2>1. phase = "synthesize" /\ phase' = phase /\ ready' = ready \cup {w}
    BY <1>7 DEF Synthesize, In
  <2>2. ASSUME NEW v \in ready, v # w PROVE LaidOut(v)'
    <3>1. v \in Workers /\ LaidOut(v)
      BY <1>0, <1>2, <2>1 DEF CodeInv
    <3>2. TestsOf(v) \subseteq Tests \ TestsOf(w)
      BY <2>2, <3>1, TestsPartitioned
    <3>3. \A t \in TestsOf(v) : code'[t] = code[t]
      BY <1>7, <3>2, SynthesizeLaysOut
    <3> QED BY <3>1, <3>3 DEF LaidOut
  <2>3. LaidOut(w)'
    BY <1>7, SynthesizeLaysOut
  <2> QED BY <2>1, <2>2, <2>3 DEF CodeInv
<1>8. ASSUME NEW w \in Workers, NEW look \in BOOLEAN,
             ComputeEndStates(w) \/ SkipTest(w) \/ RunTest(w, look)
      PROVE  CodeInv'
  <2>1. UNCHANGED <<code, phase>> /\ phase # "synthesize"
    BY <1>8 DEF ComputeEndStates, SkipTest, RunTest, In
  <2> QED BY <1>0, <1>1, <2>1 DEF CodeInv
<1> QED BY <1>3, <1>4, <1>5, <1>6, <1>7, <1>8, StepCases

-----------------------------------------------------------------------------
(* The majority of three copies                                              *)

\* Of three copies from three CPUs at most one is wrong, and the other two
\* outvote it.
LEMMA MajorityIsRight ==
  ASSUME HashTestInv, phase = "end_states", director = "idle", Reliable,
         NEW t \in Tests, NEW i \in Inputs
  PROVE  ReconcileEndState(copies[0][t][i], copies[1][t][i], copies[2][t][i]) = Right
<1>1. ready = Workers
  BY AllReady DEF JobPhases
<1>2. W >= 3
  BY DEF Reliable, W
<1>3. ASSUME NEW c \in 0 .. 2
      PROVE  \E w \in Workers : t \in Subtask(w, c) /\ copies[c][t][i] \in HashOn(w)
  <2>1. PICK w \in Workers : t \in Subtask(w, c)
    BY Subtasks
  <2> QED BY <1>1, <2>1 DEF HashTestInv, CopiesInv
<1>4. PICK w0 \in Workers : t \in Subtask(w0, 0) /\ copies[0][t][i] \in HashOn(w0)
  BY <1>3
<1>5. PICK w1 \in Workers : t \in Subtask(w1, 1) /\ copies[1][t][i] \in HashOn(w1)
  BY <1>3
<1>6. PICK w2 \in Workers : t \in Subtask(w2, 2) /\ copies[2][t][i] \in HashOn(w2)
  BY <1>3
<1>7. w0 # w1 /\ w0 # w2 /\ w1 # w2
  <2>1. \A w \in Workers, c, d \in 0..2 : c # d => Subtask(w, c) \cap Subtask(w, d) = {}
    BY <1>2, Subtasks
  <2>2. \A w \in Workers : /\ Subtask(w, 0) \cap Subtask(w, 1) = {}
                           /\ Subtask(w, 0) \cap Subtask(w, 2) = {}
                           /\ Subtask(w, 1) \cap Subtask(w, 2) = {}
    BY <2>1
  <2> QED BY <1>4, <1>5, <1>6, <2>2
<1>8. \A v, w \in Workers : v \in bad /\ w \in bad => v = w
  <2>1. bad \in SUBSET Workers
    BY DEF HashTestInv, HashTestTypeOK
  <2>2. IsFiniteSet(bad) /\ Cardinality(bad) \in Nat
    BY <2>1, PoolAssumption, FS_Subset, FS_CardinalityType
  <2>3. Cardinality(bad) = 0 \/ Cardinality(bad) = 1
    BY <2>2 DEF Reliable
  <2>4. bad = {} \/ \E x : bad = {x}
    BY <2>2, <2>3, FS_EmptySet, FS_Singleton
  <2> QED BY <2>4
<1>9. \A w \in Workers : w \notin bad => HashOn(w) = {Right}
  BY DEF HashOn
<1> QED BY <1>4, <1>5, <1>6, <1>7, <1>8, <1>9 DEF ReconcileEndState

LEMMA CopiesStep ==
  ASSUME HashTestInv, HashTestNext
  PROVE  CopiesInv'
<1>0. CopiesInv /\ HashTestTypeOK
  BY DEF HashTestInv
<1>1. ready \subseteq Workers
  BY <1>0 DEF HashTestTypeOK
<1>2. CASE Alone
  BY <1>0, <1>2 DEF Alone, CopiesInv, HashOn, Reliable
<1>3. CASE StartCorpus \/ DetermineEndStates \/ MainLoopEnters \/ AggregateStats \/ Report
  BY <1>3 DEF StartCorpus, DetermineEndStates, MainLoopEnters, AggregateStats,
              Report, CopiesInv
<1>4. CASE RunCorpus
  <2>1. /\ phase = "end_states" /\ director = "idle" /\ phase' = "run" /\ bad' = bad
        /\ copies' = [c \in 0 .. 2 |-> IF c = 0 THEN ReconcileEndStates ELSE NoEndStates]
    BY <1>4 DEF RunCorpus, Returned
  <2>2. copies'[0] = ReconcileEndStates
    BY <2>1
  <2>3. ASSUME Reliable, NEW t \in Tests, NEW i \in Inputs
        PROVE  copies'[0][t][i] = Right
    <3>1. copies'[0][t][i]
            = ReconcileEndState(copies[0][t][i], copies[1][t][i], copies[2][t][i])
      BY <2>2 DEF ReconcileEndStates
    <3> QED BY <2>1, <2>3, <3>1, MajorityIsRight
  <2> QED BY <2>1, <2>3 DEF CopiesInv, Reliable
<1>5. ASSUME NEW w \in Workers, ComputeEndStates(w) PROVE CopiesInv'
  <2> DEFINE mine == {x \in (0 .. 2) \X Tests : x[2] \in Subtask(w, x[1])}
  <2>1. /\ phase = "end_states" /\ UNCHANGED <<phase, bad>> /\ ready' = ready \cup {w}
    BY <1>5 DEF ComputeEndStates, In
  <2>2. PICK hash \in [mine -> [Inputs -> HashOn(w)]] :
          copies' = [c \in 0 .. 2 |-> [t \in Tests |->
                       IF <<c, t>> \in mine THEN hash[<<c, t>>] ELSE copies[c][t]]]
    BY <1>5 DEF ComputeEndStates
  <2>3. ASSUME NEW v \in ready', NEW c \in 0 .. 2, NEW t \in Subtask(v, c), NEW i \in Inputs
        PROVE  copies'[c][t][i] \in HashOn(v)
    <3>1. v \in Workers /\ t \in Tests
      BY <1>1, <2>1, Subtasks
    <3>2. copies'[c][t] = IF <<c, t>> \in mine THEN hash[<<c, t>>] ELSE copies[c][t]
      BY <2>2, <3>1
    <3>3. CASE v = w
      <4>1. <<c, t>> \in mine
        BY <2>3, <3>1, <3>3
      <4> QED BY <2>2, <3>2, <3>3, <4>1
    <3>4. CASE v # w
      <4>1. t \notin Subtask(w, c)
        BY <2>3, <3>1, <3>4, Subtasks
      <4>2. <<c, t>> \notin mine
        BY <4>1
      <4>3. v \in ready
        BY <2>1, <3>4
      <4> QED BY <1>0, <2>1, <3>2, <4>2, <4>3 DEF CopiesInv
    <3> QED BY <3>3, <3>4
  <2>4. \A v : HashOn(v)' = HashOn(v)
    BY <2>1 DEF HashOn
  <2> QED BY <2>1, <2>3, <2>4 DEF CopiesInv
<1>6. ASSUME NEW w \in Workers, NEW look \in BOOLEAN,
             Synthesize(w) \/ SkipTest(w) \/ RunTest(w, look)
      PROVE  CopiesInv'
  <2>1. UNCHANGED <<copies, phase, bad>> /\ phase # "end_states"
    BY <1>6 DEF Synthesize, SkipTest, RunTest, In
  <2> QED BY <1>0, <2>1 DEF CopiesInv, Reliable
<1> QED BY <1>2, <1>3, <1>4, <1>5, <1>6, StepCases

LEMMA HitsStep ==
  ASSUME HashTestInv, HashTestNext
  PROVE  HitsInv'
<1>0. HitsInv /\ HashTestTypeOK /\ CopiesInv
  BY DEF HashTestInv
<1>1. CASE Alone
  BY <1>0, <1>1 DEF Alone, HitsInv, Reliable
<1>2. CASE MainLoopEnters \/ StartCorpus \/ DetermineEndStates \/ RunCorpus
  BY <1>0, <1>2 DEF MainLoopEnters, StartCorpus, DetermineEndStates, RunCorpus,
                    HitsInv, Reliable
<1>3. CASE AggregateStats
  BY <1>0, <1>3 DEF AggregateStats, HitsInv, Reliable, HashTestTypeOK
<1>4. CASE Report
  BY <1>0, <1>4 DEF Report, HitsInv, Reliable
<1>5. ASSUME NEW w \in Workers, Synthesize(w) \/ ComputeEndStates(w) \/ SkipTest(w)
      PROVE  HitsInv'
  BY <1>0, <1>5 DEF Synthesize, ComputeEndStates, SkipTest, HitsInv, Reliable
<1>6. ASSUME NEW w \in Workers, NEW look \in BOOLEAN, RunTest(w, look)
      PROVE  HitsInv'
  <2> DEFINE at == Position(pos[w])
             expected == copies[0][at.test][at.input]
  <2>1. /\ phase = "run" /\ UNCHANGED <<phase, bad, hit_corpora, exit_code>>
    BY <1>6 DEF RunTest, In
  <2>2. PICK hash \in HashOn(w) :
          /\ hits' = IF hash = expected THEN hits ELSE hits \cup {w}
          /\ failed' = IF hash = expected THEN failed ELSE failed \cup {w}
    BY <1>6 DEF RunTest
  <2>3. CASE hash = expected
    BY <1>0, <2>1, <2>2, <2>3 DEF HitsInv, Reliable
  <2>4. CASE hash # expected
    <3>1. Reliable => w \in bad
      <4>1. pos[w] \in 0 .. Sweep - 1
        BY <1>0 DEF HashTestTypeOK
      <4>2. at.test \in Tests /\ at.input \in Inputs
        BY <4>1, PositionInRange
      <4>3. Reliable => expected = Right
        BY <1>0, <2>1, <4>2 DEF CopiesInv
      <4> QED BY <2>2, <2>4, <4>3 DEF HashOn
    <3>2. hits' = hits \cup {w} /\ failed' = failed \cup {w}
      BY <2>2, <2>4
    <3>3. exit_code = "none"
      BY <1>0, <2>1 DEF HitsInv
    <3> QED BY <1>0, <2>1, <3>1, <3>2, <3>3 DEF HitsInv, Reliable
  <2> QED BY <2>3, <2>4
<1> QED BY <1>1, <1>2, <1>3, <1>4, <1>5, <1>6, StepCases

-----------------------------------------------------------------------------
(* Theorems                                                                  *)

LEMMA HashTestInvInit == HashTestInit => HashTestInv
<1> SUFFICES ASSUME HashTestInit PROVE HashTestInv
  OBVIOUS
<1>1. PoolInv
  BY PoolInit DEF HashTestInit
<1>2. HashTestTypeOK
  BY HashTestAssumption, SweepFacts DEF HashTestInit, HashTestTypeOK, Phases
<1>3. BarrierInv /\ SyncInv
  BY DEF HashTestInit, Init, NoJob, BarrierInv, SyncInv, JobPhases
<1>4. CodeInv /\ CopiesInv /\ HitsInv
  BY DEF HashTestInit, CodeInv, CopiesInv, HitsInv
<1> QED BY <1>1, <1>2, <1>3, <1>4 DEF HashTestInv

LEMMA HashTestInvStep == HashTestInv /\ [HashTestNext]_<<vars, hvars>> => HashTestInv'
<1> SUFFICES ASSUME HashTestInv, [HashTestNext]_<<vars, hvars>> PROVE HashTestInv'
  OBVIOUS
<1>1. CASE HashTestNext
  <2>1. [Next]_vars
    BY <1>1, RunnerUsesPool
  <2>2. PoolInv' /\ BarrierInv'
    BY <2>1, PoolNext, BarrierStep DEF HashTestInv
  <2>3. HashTestTypeOK'
    BY <1>1, TypesStep DEF HashTestInv
  <2> QED BY <1>1, <2>2, <2>3, SyncStep, CodeStep, CopiesStep, HitsStep
             DEF HashTestInv
<1>2. CASE UNCHANGED <<vars, hvars>>
  <2>1. PoolInv' /\ BarrierInv'
    BY <1>2, PoolNext, BarrierStep DEF HashTestInv
  <2>2. HashTestTypeOK' /\ CodeInv' /\ CopiesInv' /\ HitsInv'
    BY <1>2 DEF hvars, HashTestInv, HashTestTypeOK, CodeInv, LaidOut, CopiesInv,
                HashOn, HitsInv, Reliable
  <2>3. SyncInv'
    BY <1>2 DEF vars, hvars, HashTestInv, SyncInv
  <2> QED BY <2>1, <2>2, <2>3 DEF HashTestInv
<1> QED BY <1>1, <1>2

LEMMA HashTestInvHolds == HashTestSpec => []HashTestInv
BY HashTestInvInit, HashTestInvStep, PTL DEF HashTestSpec

LEMMA InvGivesInput == HashTestInv => JobsFindTheirInput
<1> SUFFICES ASSUME HashTestInv, phase = "end_states" PROVE JobsFindTheirInput
  BY DEF JobsFindTheirInput
<1>1. \A w \in Workers : LaidOut(w)
  BY DEF HashTestInv, CodeInv
<1>2. ASSUME NEW t \in Tests
      PROVE  /\ code[t] # NoCode /\ code[t].at \in Nat /\ code[t].size \in Nat
             /\ code[t].at + code[t].size <= (t + 1) * kMaxTestBytes
             /\ code[t].at + code[t].size <= NumTests * kMaxTestBytes
  <2>1. PICK w \in Workers : t \in TestsOf(w)
    BY TestsPartitioned
  <2>2. /\ code[t].at \in Nat /\ code[t].size \in Nat
        /\ code[t].at + code[t].size <= (t + 1) * kMaxTestBytes
    BY <1>1, <2>1 DEF LaidOut
  <2>3. code[t] # NoCode
    BY <2>2 DEF NoCode
  <2>4. t + 1 \in Nat /\ t + 1 <= NumTests
    BY Parameters DEF Tests
  <2>5. /\ (t + 1) * kMaxTestBytes <= NumTests * kMaxTestBytes
        /\ (t + 1) * kMaxTestBytes \in Nat /\ NumTests * kMaxTestBytes \in Nat
    BY <2>4, Parameters, TimesMonotonic
  <2> QED BY <2>2, <2>3, <2>5
<1>3. ASSUME NEW t \in Tests, NEW u \in Tests, t < u
      PROVE  code[t].at + code[t].size <= code[u].at
  <2>1. PICK v \in Workers : t \in TestsOf(v)
    BY TestsPartitioned
  <2>2. PICK w \in Workers : u \in TestsOf(w)
    BY TestsPartitioned
  <2>3. CASE v = w
    BY <1>1, <1>3, <2>1, <2>2, <2>3 DEF LaidOut
  <2>4. CASE v < w
    <3>1. t + 1 <= PartitionOf(w).offset /\ PartitionOf(w).offset \in Nat
          /\ t + 1 \in Nat
      BY <2>1, <2>4, TestsPartitioned, Parameters DEF Tests
    <3>2. /\ (t + 1) * kMaxTestBytes <= PartitionOf(w).offset * kMaxTestBytes
          /\ (t + 1) * kMaxTestBytes \in Nat
          /\ PartitionOf(w).offset * kMaxTestBytes \in Nat
      BY <3>1, Parameters, TimesMonotonic
    <3>3. PartitionOf(w).offset * kMaxTestBytes <= code[u].at /\ code[u].at \in Nat
      BY <1>1, <2>2 DEF LaidOut
    <3> QED BY <1>2, <3>2, <3>3
  <2>5. ~(w < v)
    <3>1. w < v => u + 1 <= PartitionOf(v).offset /\ PartitionOf(v).offset <= t
      BY <2>1, <2>2, TestsPartitioned
    <3>2. PartitionOf(v).offset \in Nat /\ t \in Nat /\ u \in Nat
      BY TestsPartitioned, Parameters DEF Tests
    <3> QED BY <1>3, <3>1, <3>2
  <2>6. v = w \/ v < w \/ w < v
    BY Parameters
  <2> QED BY <2>3, <2>4, <2>5, <2>6
<1>4. ASSUME director = "clear", NEW c \in 0 .. 2, NEW t \in Tests, NEW i \in Inputs
      PROVE  copies[c][t][i] # CouldNotBeComputed
  <2>1. ready = Workers
    BY <1>4, AllReady DEF JobPhases
  <2>2. PICK w \in Workers : t \in Subtask(w, c)
    BY Subtasks
  <2>3. copies[c][t][i] \in HashOn(w)
    BY <2>1, <2>2 DEF HashTestInv, CopiesInv
  <2>4. CouldNotBeComputed \notin HashOn(w)
    BY Parameters DEF HashOn, CouldNotBeComputed, Right
  <2> QED BY <2>3, <2>4
<1> QED BY <1>2, <1>3, <1>4 DEF JobsFindTheirInput

\* TestMain is a client of the pool that keeps to its protocol: with its own
\* state hidden, a run of the tests is a behaviour of ParallelWorkerPool.
THEOREM TestMainUsesThePool == HashTestSpec => Spec
<1>1. HashTestInit => Init
  BY DEF HashTestInit
<1>2. [HashTestNext]_<<vars, hvars>> => [Next]_vars
  BY RunnerUsesPool
<1> QED BY <1>1, <1>2, PTL DEF HashTestSpec, Spec

\* Whatever the schedule of the workers, a job finds what the one before it
\* made: the end states are computed from code that is all there and does not
\* overlap, and the tests are run with every copy of every end state computed.
THEOREM JobsAreOrdered == HashTestSpec => []JobsFindTheirInput
BY HashTestInvHolds, InvGivesInput, PTL

\* With three or more CPUs of which at most one computes wrongly, no other CPU
\* is ever reported, and the exit code tells whether one was.
THEOREM GoodCpusAreNeverSuspected == HashTestSpec => []OnlyBadCpusSuspected
<1>1. HashTestInv => OnlyBadCpusSuspected
  BY DEF HashTestInv, HitsInv, Reliable, OnlyBadCpusSuspected
<1> QED BY <1>1, HashTestInvHolds, PTL

=============================================================================
