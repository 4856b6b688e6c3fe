----------------------------- MODULE ThreadPool -----------------------------
(***************************************************************************)
(* Helper::ThreadPool (AnnService/inc/Helper/ThreadPool.h), the pool that  *)
(* runs the split, merge and reassign jobs of the SPFresh searcher, and    *)
(* SPDKThreadPool, which runs the same worker loop with a workspace per    *)
(* thread.                                                                 *)
(*                                                                         *)
(* A worker's get() holds m_lock from the lock to the wait or the return,  *)
(* one step per read of shared state, because the destructor sets m_abort  *)
(* and notifies WITHOUT the lock.  One owner thread adds jobs, polls       *)
(* allClear() as AllFinished() callers do, and destroys the pool.  A job   *)
(* may itself add jobs while it runs (a split that enqueues reassigns).    *)
(***************************************************************************)
EXTENDS Integers, Sequences, FiniteSets

CONSTANTS Workers,     \* the threads init() starts
          Jobs,        \* the jobs that may ever be added (the bound on adds)
          Spawning,    \* may a running job add further jobs?
          None         \* no worker, no job

ASSUME WorkersAssumption == IsFiniteSet(Workers) /\ None \notin Workers
ASSUME JobsAssumption == None \notin Jobs
ASSUME SpawningAssumption == Spawning \in BOOLEAN

VARIABLES
    m_jobs,        \* the queue of jobs, guarded by m_lock
    currentJobs,   \* jobs popped and not yet finished, atomic
    m_abort,       \* m_stopped, a plain bool
    m_lock,        \* the worker inside get(), or None
    pc,            \* where each worker is in its loop
    job,           \* the job each worker has popped, or None
    owner,         \* where the owner is
    totaljobs,     \* allClear()'s local copy of jobsize()
    added, done    \* jobs ever added, jobs whose exec returned or threw

vars == <<m_jobs, currentJobs, m_abort, m_lock, pc, job, owner, totaljobs, added, done>>
clientVars == <<owner, totaljobs>>

PCs == {"get", "check", "sleep", "waiting", "take", "exec", "notify", "finish", "exited"}
OwnerPCs == {"run", "notify", "counted", "clear", "aborting", "joining", "gone"}

TypeOK ==
    /\ m_jobs \in Seq(Jobs)
    /\ currentJobs \in Nat
    /\ m_abort \in BOOLEAN
    /\ m_lock \in Workers \cup {None}
    /\ pc \in [Workers -> PCs]
    /\ job \in [Workers -> Jobs \cup {None}]
    /\ owner \in OwnerPCs
    /\ totaljobs \in Nat
    /\ added \subseteq Jobs
    /\ done \subseteq Jobs

Init ==
    /\ m_jobs = <<>>
    /\ currentJobs = 0
    /\ m_abort = FALSE
    /\ m_lock = None
    /\ pc = [w \in Workers |-> "get"]
    /\ job = [w \in Workers |-> None]
    /\ owner = "run"
    /\ totaljobs = 0
    /\ added = {}
    /\ done = {}

-----------------------------------------------------------------------------
(* get() *)

\* std::unique_lock lock(m_lock), also on the way out of m_cond.wait
Lock(w) ==
    /\ pc[w] = "get"
    /\ m_lock = None
    /\ m_lock' = w
    /\ pc' = [pc EXCEPT ![w] = "check"]
    /\ UNCHANGED <<m_jobs, currentJobs, m_abort, job, clientVars, added, done>>

\* the loop condition m_jobs.empty() && !ShouldAbort()
CheckWait(w) ==
    /\ pc[w] = "check"
    /\ pc' = [pc EXCEPT ![w] = IF m_jobs = <<>> /\ ~m_abort THEN "sleep" ELSE "take"]
    /\ UNCHANGED <<m_jobs, currentJobs, m_abort, m_lock, job, clientVars, added, done>>

\* m_cond.wait(lock) releases the lock and joins the waiters in one step
Wait(w) ==
    /\ pc[w] = "sleep"
    /\ m_lock' = None
    /\ pc' = [pc EXCEPT ![w] = "waiting"]
    /\ UNCHANGED <<m_jobs, currentJobs, m_abort, job, clientVars, added, done>>

\* a condition variable may wake without a notification
SpuriousWakeup(w) ==
    /\ pc[w] = "waiting"
    /\ pc' = [pc EXCEPT ![w] = "get"]
    /\ UNCHANGED <<m_jobs, currentJobs, m_abort, m_lock, job, clientVars, added, done>>

\* Mutant: the increment is missing
Pop_Uncounted(w) ==
    /\ pc[w] = "take"
    /\ ~m_abort
    /\ job' = [job EXCEPT ![w] = Head(m_jobs)]
    /\ m_jobs' = Tail(m_jobs)
    /\ m_lock' = None
    /\ pc' = [pc EXCEPT ![w] = "exec"]
    /\ UNCHANGED <<currentJobs, m_abort, clientVars, added, done>>

\* the pop and the increment, still under the lock
Pop(w) ==
    /\ pc[w] = "take"
    /\ ~m_abort
    /\ job' = [job EXCEPT ![w] = Head(m_jobs)]
    /\ m_jobs' = Tail(m_jobs)
    /\ currentJobs' = currentJobs + 1
    /\ m_lock' = None
    /\ pc' = [pc EXCEPT ![w] = "exec"]
    /\ UNCHANGED <<m_abort, clientVars, added, done>>

\* return false: the thread ends, queued jobs stay in the queue
Quit(w) ==
    /\ pc[w] = "take"
    /\ m_abort
    /\ m_lock' = None
    /\ pc' = [pc EXCEPT ![w] = "exited"]
    /\ UNCHANGED <<m_jobs, currentJobs, m_abort, job, clientVars, added, done>>

-----------------------------------------------------------------------------
(* the worker loop around get(), and add() *)

\* m_jobs.push under a lock_guard, called by whoever adds the job
Push(j) ==
    /\ m_lock = None
    /\ j \in Jobs \ added
    /\ m_jobs' = Append(m_jobs, j)
    /\ added' = added \cup {j}

\* Mutant: add() forgets to notify
NotifyOne_Missing(p) == pc' = p

\* notify_one wakes one waiter if there is one; the notifier is at p afterwards
NotifyOne(p) ==
    LET waiters == {w \in Workers : pc[w] = "waiting"} IN
    IF waiters = {} THEN pc' = p
                    ELSE \E w \in waiters : pc' = [p EXCEPT ![w] = "get"]

\* exec adds a job
JobAdds(w) ==
    /\ Spawning
    /\ pc[w] = "exec"
    /\ \E j \in Jobs : Push(j)
    /\ pc' = [pc EXCEPT ![w] = "notify"]
    /\ UNCHANGED <<currentJobs, m_abort, m_lock, job, clientVars, done>>

JobNotifies(w) ==
    /\ pc[w] = "notify"
    /\ NotifyOne([pc EXCEPT ![w] = "exec"])
    /\ UNCHANGED <<m_jobs, currentJobs, m_abort, m_lock, job, clientVars, added, done>>

\* exec returns or throws (caught), and the job is deleted
Exec(w) ==
    /\ pc[w] = "exec"
    /\ done' = done \cup {job[w]}
    /\ pc' = [pc EXCEPT ![w] = "finish"]
    /\ UNCHANGED <<m_jobs, currentJobs, m_abort, m_lock, job, clientVars, added>>

\* currentJobs--
Finish(w) ==
    /\ pc[w] = "finish"
    /\ currentJobs' = currentJobs - 1
    /\ job' = [job EXCEPT ![w] = None]
    /\ pc' = [pc EXCEPT ![w] = "get"]
    /\ UNCHANGED <<m_jobs, m_abort, m_lock, clientVars, added, done>>

-----------------------------------------------------------------------------
(* the owner *)

OwnerAdds ==
    /\ owner = "run"
    /\ \E j \in Jobs : Push(j)
    /\ owner' = "notify"
    /\ UNCHANGED <<currentJobs, m_abort, m_lock, pc, job, totaljobs, done>>

OwnerNotifies ==
    /\ owner = "notify"
    /\ NotifyOne(pc)
    /\ owner' = "run"
    /\ UNCHANGED <<m_jobs, currentJobs, m_abort, m_lock, job, totaljobs, added, done>>

\* allClear(), first half: jobsize() under the lock
ReadJobsize ==
    /\ owner = "run"
    /\ m_lock = None
    /\ totaljobs' = Len(m_jobs)
    /\ owner' = "counted"
    /\ UNCHANGED <<m_jobs, currentJobs, m_abort, m_lock, pc, job, added, done>>

\* allClear(), second half: the atomic read of currentJobs and the answer
ReadCurrentJobs ==
    /\ owner = "counted"
    /\ owner' = IF currentJobs = 0 /\ totaljobs = 0 THEN "clear" ELSE "run"
    /\ UNCHANGED <<m_jobs, currentJobs, m_abort, m_lock, pc, job, totaljobs, added, done>>

\* the caller of allClear() is done with what it waited for
Resume ==
    /\ owner = "clear"
    /\ owner' = "run"
    /\ UNCHANGED <<m_jobs, currentJobs, m_abort, m_lock, pc, job, totaljobs, added, done>>

\* ~ThreadPool(): SetAbort(true) without the lock ...
SetAbort ==
    /\ owner \in {"run", "clear"}
    /\ m_abort' = TRUE
    /\ owner' = "aborting"
    /\ UNCHANGED <<m_jobs, currentJobs, m_lock, pc, job, totaljobs, added, done>>

\* Mutant: notify_one where notify_all is meant
NotifyAll_One ==
    /\ owner = "aborting"
    /\ NotifyOne(pc)
    /\ owner' = "joining"
    /\ UNCHANGED <<m_jobs, currentJobs, m_abort, m_lock, job, totaljobs, added, done>>

\* ... notify_all ...
NotifyAll ==
    /\ owner = "aborting"
    /\ pc' = [w \in Workers |-> IF pc[w] = "waiting" THEN "get" ELSE pc[w]]
    /\ owner' = "joining"
    /\ UNCHANGED <<m_jobs, currentJobs, m_abort, m_lock, job, totaljobs, added, done>>

\* ... and join
Join ==
    /\ owner = "joining"
    /\ \A w \in Workers : pc[w] = "exited"
    /\ owner' = "gone"
    /\ UNCHANGED <<m_jobs, currentJobs, m_abort, m_lock, pc, job, totaljobs, added, done>>

-----------------------------------------------------------------------------
WorkerStep(w) ==
    \/ Lock(w) \/ CheckWait(w) \/ Wait(w) \/ Pop(w) \/ Quit(w)
    \/ JobAdds(w) \/ JobNotifies(w) \/ Exec(w) \/ Finish(w)

OwnerStep ==
    \/ OwnerAdds \/ OwnerNotifies \/ ReadJobsize \/ ReadCurrentJobs \/ Resume
    \/ SetAbort \/ NotifyAll \/ Join

Next ==
    \/ \E w \in Workers : WorkerStep(w)
    \/ \E w \in Workers : SpuriousWakeup(w)
    \/ OwnerStep

\* The scheduler runs every thread, a job's exec returns, a blocked lock is
\* acquired in the end (the holders' sections are finite and a poller sleeps
\* 20 ms between two polls), and a notification that is due is sent.
\* Spurious wakeups, new jobs and the destructor may never come.
Fairness ==
    /\ \A w \in Workers :
        /\ SF_vars(Lock(w))
        /\ WF_vars(CheckWait(w) \/ Wait(w) \/ Pop(w) \/ Quit(w))
        /\ WF_vars(Exec(w)) /\ WF_vars(JobNotifies(w)) /\ WF_vars(Finish(w))
    /\ WF_vars(OwnerNotifies) /\ WF_vars(NotifyAll) /\ WF_vars(Join)

Spec == Init /\ [][Next]_vars
LiveSpec == Spec /\ Fairness

-----------------------------------------------------------------------------
(* Properties *)

Running == {w \in Workers : job[w] # None}

\* currentJobs is exactly the number of workers between the pop in get() and
\* the decrement after exec, at every instant and not only while the lock is
\* free: allClear() reads it without the lock.
CountedWhileRunning == currentJobs = Cardinality(Running)

\* What get() relies on between the loop condition and front(): the lock has
\* been held since, so the queue it is about to pop is not empty.
FrontExists == \A w \in Workers : pc[w] = "take" /\ ~m_abort => m_jobs # <<>>

\* When allClear() answers true, no job is queued and none is running.  This
\* is what "Waiting for index update complete" in Checkpoint needs of it.
AllClearIsQuiet == owner = "clear" => m_jobs = <<>> /\ Running = {}

\* A queued job is executed unless the pool is destroyed first: no add() is
\* lost on a worker that is going to sleep.
EveryJobRuns == \A j \in Jobs : (j \in added) ~> (j \in done \/ m_abort)

\* If no worker stands between its loop condition and m_cond.wait when the
\* destructor sets m_abort, the destructor returns.  (A worker that does
\* stand there misses the notify_all, since neither it nor the store of
\* m_abort is under the lock; then only a spurious wakeup ends the join.)
DestructorReturns ==
    (owner = "aborting" /\ \A w \in Workers : pc[w] # "sleep") ~> (owner = "gone")
=============================================================================
