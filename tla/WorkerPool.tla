----------------------------- MODULE WorkerPool -----------------------------
(***************************************************************************)
(* fuzzer/hashtest/parallel_worker_pool.{h,cc}: a director thread hands one*)
(* piece of work at a time to all workers and waits for all of them.       *)
(*                                                                         *)
(* The mutex makes the code between two waits atomic, so an action is what *)
(* a thread does from acquiring the mutex to releasing it or to waiting on *)
(* a condition variable.  A thread that waits sleeps until it is signalled *)
(* or wakes up spuriously.  The callback is not guarded by the mutex: the  *)
(* director writes it and the workers call it between their waits.         *)
(***************************************************************************)
EXTENDS Naturals, FiniteSets

CONSTANTS
    Workers,
    EpochModulus,   \* epoch_ is an unsigned int: 2^32
    MaxJobs         \* calls of DoWork

ASSUME PoolAssumption ==
    /\ IsFiniteSet(Workers)
    /\ EpochModulus \in Nat /\ EpochModulus > 1
    /\ MaxJobs \in Nat

VARIABLES
    num_workers_running_,
    work_available_,
    epoch_,
    callback_,        \* the number of the job it does, NoJob for nullptr
    director,         \* where the director is, see DirectorStates
    director_asleep,  \* on director_cv_
    worker,           \* where each worker is, see WorkerStates
    asleep,           \* on worker_cv_
    epoch_on_entry,
    current,          \* the job each worker was last called with
    jobs              \* DoWork calls made so far
vars == <<num_workers_running_, work_available_, epoch_, callback_, director,
          director_asleep, worker, asleep, epoch_on_entry, current, jobs>>

NoJob == 0

\* idle: between calls.  work, quit: in SignalWorkers(true), (false), not yet
\* past the wait for the workers to check in.  await: waiting for the work to
\* be done.  clear: DoWork is about to clear the callback.  join, gone: in the
\* destructor, and after it.
DirectorStates == {"idle", "work", "quit", "await", "clear", "join", "gone"}

\* start: about to call WaitForWork.  wait: inside, checked in.  call: about
\* to call the callback, busy: in the callback.  exit: the thread is done.
WorkerStates == {"start", "wait", "call", "busy", "exit"}

-----------------------------------------------------------------------------
Init ==
    /\ num_workers_running_ = Cardinality(Workers)
    /\ work_available_ = TRUE
    /\ epoch_ = 0
    /\ callback_ = NoJob
    /\ director = "idle"
    /\ director_asleep = FALSE
    /\ worker = [w \in Workers |-> "start"]
    /\ asleep = [w \in Workers |-> FALSE]
    /\ epoch_on_entry = [w \in Workers |-> 0]
    /\ current = [w \in Workers |-> NoJob]
    /\ jobs = 0

(* The director                                                              *)

DoWork ==
    /\ director = "idle"
    /\ jobs < MaxJobs
    /\ jobs' = jobs + 1
    /\ callback_' = jobs + 1
    /\ director' = "work"
    /\ UNCHANGED <<num_workers_running_, work_available_, epoch_,
                   director_asleep, worker, asleep, epoch_on_entry, current>>

Destroy ==
    /\ director = "idle"
    /\ director' = "quit"
    /\ UNCHANGED <<num_workers_running_, work_available_, epoch_, callback_,
                   director_asleep, worker, asleep, epoch_on_entry, current,
                   jobs>>

\* SignalWorkers and the later wait: workers are missing, so sleep.
DirectorSleeps ==
    /\ director \in {"work", "quit", "await"}
    /\ ~director_asleep
    /\ num_workers_running_ > 0
    /\ director_asleep' = TRUE
    /\ UNCHANGED <<num_workers_running_, work_available_, epoch_, callback_,
                   director, worker, asleep, epoch_on_entry, current, jobs>>

\* All workers have checked in: start them, and wait for the work, if any.
SignalWorkers ==
    /\ director \in {"work", "quit"}
    /\ ~director_asleep
    /\ num_workers_running_ = 0
    /\ num_workers_running_' = Cardinality(Workers)
    /\ epoch_' = (epoch_ + 1) % EpochModulus
    /\ work_available_' = (director = "work")
    /\ asleep' = [w \in Workers |-> FALSE]
    /\ director' = IF director = "work" THEN "await" ELSE "join"
    /\ director_asleep' = (director = "work" /\ Workers # {})
    /\ UNCHANGED <<callback_, worker, epoch_on_entry, current, jobs>>

\* Mutant: the director does not look whether the wakeup was spurious.
WorkersDone_TrustsWakeup ==
    /\ director = "await"
    /\ ~director_asleep
    /\ director' = "clear"
    /\ UNCHANGED <<num_workers_running_, work_available_, epoch_, callback_,
                   director_asleep, worker, asleep, epoch_on_entry, current,
                   jobs>>

WorkersDone ==
    /\ director = "await"
    /\ ~director_asleep
    /\ num_workers_running_ = 0
    /\ director' = "clear"
    /\ UNCHANGED <<num_workers_running_, work_available_, epoch_, callback_,
                   director_asleep, worker, asleep, epoch_on_entry, current,
                   jobs>>

ClearCallback ==
    /\ director = "clear"
    /\ callback_' = NoJob
    /\ director' = "idle"
    /\ UNCHANGED <<num_workers_running_, work_available_, epoch_,
                   director_asleep, worker, asleep, epoch_on_entry, current,
                   jobs>>

JoinWorkers ==
    /\ director = "join"
    /\ \A w \in Workers : worker[w] = "exit"
    /\ director' = "gone"
    /\ UNCHANGED <<num_workers_running_, work_available_, epoch_, callback_,
                   director_asleep, worker, asleep, epoch_on_entry, current,
                   jobs>>

(* A worker                                                                  *)

\* Mutant: the last worker does not notify the director.
CheckIn_NoSignal(w) ==
    /\ worker[w] = "start"
    /\ worker' = [worker EXCEPT ![w] = "wait"]
    /\ epoch_on_entry' = [epoch_on_entry EXCEPT ![w] = epoch_]
    /\ num_workers_running_' = num_workers_running_ - 1
    /\ asleep' = [asleep EXCEPT ![w] = TRUE]
    /\ UNCHANGED <<work_available_, epoch_, callback_, director,
                   director_asleep, current, jobs>>

\* WaitForWork up to its wait.
CheckIn(w) ==
    /\ worker[w] = "start"
    /\ worker' = [worker EXCEPT ![w] = "wait"]
    /\ epoch_on_entry' = [epoch_on_entry EXCEPT ![w] = epoch_]
    /\ num_workers_running_' = num_workers_running_ - 1
    /\ director_asleep' = (director_asleep /\ num_workers_running_' # 0)
    /\ asleep' = [asleep EXCEPT ![w] = TRUE]
    /\ UNCHANGED <<work_available_, epoch_, callback_, director, current, jobs>>

WorkerSleeps(w) ==
    /\ worker[w] = "wait"
    /\ ~asleep[w]
    /\ epoch_on_entry[w] = epoch_
    /\ asleep' = [asleep EXCEPT ![w] = TRUE]
    /\ UNCHANGED <<num_workers_running_, work_available_, epoch_, callback_,
                   director, director_asleep, worker, epoch_on_entry, current,
                   jobs>>

\* A new epoch has begun.
NewEpoch(w) ==
    /\ worker[w] = "wait"
    /\ ~asleep[w]
    /\ epoch_on_entry[w] # epoch_
    /\ worker' = [worker EXCEPT ![w] = IF work_available_ THEN "call" ELSE "exit"]
    /\ UNCHANGED <<num_workers_running_, work_available_, epoch_, callback_,
                   director, director_asleep, asleep, epoch_on_entry, current,
                   jobs>>

StartCallback(w) ==
    /\ worker[w] = "call"
    /\ worker' = [worker EXCEPT ![w] = "busy"]
    /\ current' = [current EXCEPT ![w] = callback_]
    /\ UNCHANGED <<num_workers_running_, work_available_, epoch_, callback_,
                   director, director_asleep, asleep, epoch_on_entry, jobs>>

EndCallback(w) ==
    /\ worker[w] = "busy"
    /\ worker' = [worker EXCEPT ![w] = "start"]
    /\ UNCHANGED <<num_workers_running_, work_available_, epoch_, callback_,
                   director, director_asleep, asleep, epoch_on_entry, current,
                   jobs>>

(* Spurious wakeups                                                          *)

WorkerWakesUp(w) ==
    /\ asleep[w]
    /\ asleep' = [asleep EXCEPT ![w] = FALSE]
    /\ UNCHANGED <<num_workers_running_, work_available_, epoch_, callback_,
                   director, director_asleep, worker, epoch_on_entry, current,
                   jobs>>

DirectorWakesUp ==
    /\ director_asleep
    /\ director_asleep' = FALSE
    /\ UNCHANGED <<num_workers_running_, work_available_, epoch_, callback_,
                   director, worker, asleep, epoch_on_entry, current, jobs>>

-----------------------------------------------------------------------------
DirectorStep == DirectorSleeps \/ SignalWorkers \/ WorkersDone \/ ClearCallback
                  \/ JoinWorkers
WorkerStep(w) == CheckIn(w) \/ WorkerSleeps(w) \/ NewEpoch(w)
                   \/ StartCallback(w) \/ EndCallback(w)

Terminated == director = "gone" /\ UNCHANGED vars

Next ==
    \/ DoWork \/ Destroy \/ DirectorStep
    \/ \E w \in Workers : WorkerStep(w) \/ WorkerWakesUp(w)
    \/ DirectorWakesUp
    \/ Terminated

Spec == Init /\ [][Next]_vars

-----------------------------------------------------------------------------
(* Properties                                                                *)

\* Every variable keeps its type; the epoch wraps around.
TypeOK ==
    /\ num_workers_running_ \in 0..Cardinality(Workers)
    /\ work_available_ \in BOOLEAN
    /\ epoch_ \in 0..(EpochModulus - 1)
    /\ callback_ \in 0..MaxJobs
    /\ director \in DirectorStates
    /\ director_asleep \in BOOLEAN
    /\ worker \in [Workers -> WorkerStates]
    /\ asleep \in [Workers -> BOOLEAN]
    /\ epoch_on_entry \in [Workers -> 0..(EpochModulus - 1)]
    /\ current \in [Workers -> 0..MaxJobs]
    /\ jobs \in 0..MaxJobs

\* A worker that is about to check in is still counted: the CHECK_GT of
\* WaitForWork never fails.
NeverCheckedInTwice ==
    \A w \in Workers : worker[w] = "start" => num_workers_running_ > 0

\* The director never touches the callback while a worker may call it or is in
\* it, though no lock protects it: a worker always finds the job that DoWork
\* is waiting for.
CallbackStable ==
    \A w \in Workers :
        /\ worker[w] \in {"call", "busy"} => callback_ = jobs /\ jobs > 0
        /\ worker[w] = "busy" => current[w] = jobs

\* When DoWork is about to return, every worker has done this job and is
\* waiting for the next.
AllWorkersDidTheJob ==
    director = "clear" =>
        \A w \in Workers : worker[w] = "wait" /\ current[w] = jobs

\* Why the properties above hold.  The workers that still have to check in:
Outstanding == {w \in Workers : worker[w] # "wait" \/ epoch_on_entry[w] # epoch_}

\* The count is theirs, ...
CountInv == num_workers_running_ = Cardinality(Outstanding)

\* ... and where the director is limits where the workers can be.
PhaseInv ==
    /\ director \in {"idle", "work", "quit"} =>
         \A w \in Workers : \/ worker[w] = "start"
                            \/ worker[w] = "wait" /\ epoch_on_entry[w] = epoch_
    /\ director \in {"work", "await", "clear"} => callback_ = jobs /\ jobs > 0
    /\ director = "await" =>
         /\ work_available_
         /\ \A w \in Workers :
              /\ worker[w] # "exit"
              /\ \/ worker[w] = "call"
                 \/ worker[w] = "wait" /\ epoch_on_entry[w] # epoch_
                 \/ current[w] = jobs
    /\ director = "clear" =>
         \A w \in Workers : /\ worker[w] = "wait"
                            /\ epoch_on_entry[w] = epoch_
                            /\ current[w] = jobs
    /\ director \in {"join", "gone"} =>
         /\ ~work_available_
         /\ \A w \in Workers : \/ worker[w] = "exit"
                               \/ worker[w] = "wait" /\ epoch_on_entry[w] # epoch_

\* The inductive invariant of the pool: types, the count of the workers that
\* have yet to signal they are done, and the phases of DoWork.
PoolInv == TypeOK /\ CountInv /\ PhaseInv
=============================================================================
