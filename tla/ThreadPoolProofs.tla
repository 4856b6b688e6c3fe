-------------------------- MODULE ThreadPoolProofs --------------------------
(***************************************************************************)
(* Proofs about Helper::ThreadPool, for any number of workers and any set  *)
(* of jobs.  The inductive invariant IInv adds to the properties of        *)
(* ThreadPool who holds m_lock, which workers hold a job, and, for pools   *)
(* whose jobs add no jobs, what allClear() knows between its two reads.    *)
(***************************************************************************)
EXTENDS ThreadPool, FiniteSetTheorems, TLAPS

\* m_lock is held exactly by the worker inside get()
LockInv == \A w \in Workers : pc[w] \in {"check", "sleep", "take"} <=> m_lock = w

\* a worker holds a job exactly between the pop and the decrement
JobInv == \A w \in Workers : pc[w] \in {"exec", "notify", "finish"} <=> job[w] # None

\* the queue stays empty after jobsize() has returned 0
CountedInv == owner = "counted" /\ totaljobs = 0 => m_jobs = <<>>

IInv == TypeOK /\ LockInv /\ JobInv /\ CountedWhileRunning /\ FrontExists

QuietInv == CountedInv /\ AllClearIsQuiet

USE WorkersAssumption, JobsAssumption, SpawningAssumption

-----------------------------------------------------------------------------
(* Counting *)

\* Running is a finite set, so it can be counted.
LEMMA RunningFinite == IsFiniteSet(Running)
  BY FS_Subset DEF Running

\* A worker that takes a job adds one to the number of running workers.
LEMMA TakeCounts ==
  ASSUME NEW w \in Workers, NEW j \in Jobs, TypeOK, job[w] = None,
         job' = [job EXCEPT ![w] = j]
  PROVE  Cardinality(Running)' = Cardinality(Running) + 1
<1>1. Running' = Running \cup {w}  BY DEF Running, TypeOK
<1>2. w \notin Running  BY DEF Running
<1> QED  BY <1>1, <1>2, RunningFinite, FS_AddElement

\* A worker that drops its job takes one away.
LEMMA DropCounts ==
  ASSUME NEW w \in Workers, TypeOK, job[w] # None,
         job' = [job EXCEPT ![w] = None]
  PROVE  Cardinality(Running)' = Cardinality(Running) - 1
<1>1. Running' = Running \ {w}  BY DEF Running, TypeOK
<1>2. w \in Running  BY DEF Running
<1> QED  BY <1>1, <1>2, RunningFinite, FS_RemoveElement

\* notify_one only moves workers from the wait set to the lock.
LEMMA NotifyMoves ==
  ASSUME NEW p \in [Workers -> PCs], pc \in [Workers -> PCs], NotifyOne(p)
  PROVE  /\ pc' \in [Workers -> PCs]
         /\ \A w \in Workers : pc'[w] = p[w] \/ (pc[w] = "waiting" /\ pc'[w] = "get")
  BY DEF NotifyOne, PCs

-----------------------------------------------------------------------------
(* The inductive step *)

\* A pool that init() has just started satisfies the invariant.
LEMMA InitIInv == Init => IInv
<1> SUFFICES ASSUME Init PROVE IInv  OBVIOUS
<1>1. TypeOK
  <2>1. m_abort \in BOOLEAN  BY Zenon DEF Init
  <2>2. m_jobs \in Seq(Jobs)  BY DEF Init
  <2> QED  BY <2>1, <2>2 DEF Init, TypeOK, PCs, OwnerPCs
<1>2. LockInv /\ JobInv /\ FrontExists  BY DEF Init, LockInv, JobInv, FrontExists
<1>3. Running = {}  BY DEF Init, Running
<1>4. CountedWhileRunning  BY <1>3, FS_EmptySet DEF CountedWhileRunning, Init
<1> QED  BY <1>1, <1>2, <1>4 DEF IInv

\* Every step of a worker or of the owner keeps the invariant.
LEMMA StepIInv == IInv /\ [Next]_vars => IInv'
<1> SUFFICES ASSUME IInv, [Next]_vars PROVE IInv'  OBVIOUS
<1> USE DEF IInv
\* the count changes only with job
<1>c. ASSUME UNCHANGED <<currentJobs, job>> PROVE CountedWhileRunning'
  BY <1>c DEF CountedWhileRunning, Running
<1>1. ASSUME NEW w \in Workers, Lock(w) PROVE IInv'
  <2>1. TypeOK'  BY <1>1 DEF Lock, TypeOK, PCs, clientVars
  <2>2. LockInv' /\ JobInv' /\ FrontExists'
    BY <1>1 DEF Lock, TypeOK, LockInv, JobInv, FrontExists
  <2> QED  BY <1>1, <1>c, <2>1, <2>2 DEF Lock
<1>2. ASSUME NEW w \in Workers, CheckWait(w) PROVE IInv'
  <2>1. TypeOK'  BY <1>2 DEF CheckWait, TypeOK, PCs, clientVars
  <2>2. LockInv' /\ JobInv' /\ FrontExists'
    BY <1>2 DEF CheckWait, TypeOK, LockInv, JobInv, FrontExists
  <2> QED  BY <1>2, <1>c, <2>1, <2>2 DEF CheckWait
<1>3. ASSUME NEW w \in Workers, Wait(w) PROVE IInv'
  <2>1. TypeOK'  BY <1>3 DEF Wait, TypeOK, PCs, clientVars
  <2>2. LockInv' /\ JobInv' /\ FrontExists'
    BY <1>3 DEF Wait, TypeOK, LockInv, JobInv, FrontExists
  <2> QED  BY <1>3, <1>c, <2>1, <2>2 DEF Wait
<1>4. ASSUME NEW w \in Workers, SpuriousWakeup(w) PROVE IInv'
  <2>1. TypeOK'  BY <1>4 DEF SpuriousWakeup, TypeOK, PCs, clientVars
  <2>2. LockInv' /\ JobInv' /\ FrontExists'
    BY <1>4 DEF SpuriousWakeup, TypeOK, LockInv, JobInv, FrontExists
  <2> QED  BY <1>4, <1>c, <2>1, <2>2 DEF SpuriousWakeup
<1>5. ASSUME NEW w \in Workers, Pop(w) PROVE IInv'
  <2>1. m_jobs # <<>> /\ Head(m_jobs) \in Jobs /\ Tail(m_jobs) \in Seq(Jobs)
    BY <1>5 DEF Pop, FrontExists, TypeOK
  <2>2. TypeOK'  BY <1>5, <2>1 DEF Pop, TypeOK, PCs, clientVars
  <2>3. job[w] = None  BY <1>5 DEF Pop, JobInv
  <2>4. CountedWhileRunning'
    BY <1>5, <2>1, <2>3, TakeCounts DEF Pop, CountedWhileRunning
  <2>5. LockInv' /\ JobInv'  BY <1>5, <2>1 DEF Pop, TypeOK, LockInv, JobInv
  <2>6. FrontExists'  BY <1>5 DEF Pop, TypeOK, LockInv, FrontExists
  <2> QED  BY <2>2, <2>4, <2>5, <2>6
<1>6. ASSUME NEW w \in Workers, Quit(w) PROVE IInv'
  <2>1. TypeOK'  BY <1>6 DEF Quit, TypeOK, PCs, clientVars
  <2>2. LockInv' /\ JobInv' /\ FrontExists'
    BY <1>6 DEF Quit, TypeOK, LockInv, JobInv, FrontExists
  <2> QED  BY <1>6, <1>c, <2>1, <2>2 DEF Quit
<1>7. ASSUME NEW w \in Workers, JobAdds(w) PROVE IInv'
  <2>1. PICK j \in Jobs : Push(j)  BY <1>7 DEF JobAdds
  <2>2. m_jobs' \in Seq(Jobs) /\ m_jobs' # <<>>  BY <2>1 DEF Push, TypeOK
  <2>3. TypeOK'  BY <1>7, <2>1, <2>2 DEF JobAdds, Push, TypeOK, PCs, clientVars
  <2>4. LockInv' /\ JobInv' /\ FrontExists'
    BY <1>7, <2>2 DEF JobAdds, TypeOK, LockInv, JobInv, FrontExists
  <2> QED  BY <1>7, <1>c, <2>3, <2>4 DEF JobAdds
<1>8. ASSUME NEW w \in Workers, JobNotifies(w) PROVE IInv'
  <2> DEFINE p == [pc EXCEPT ![w] = "exec"]
  <2>1. p \in [Workers -> PCs] /\ pc \in [Workers -> PCs] /\ NotifyOne(p)
    BY <1>8 DEF JobNotifies, TypeOK, PCs
  <2>2. /\ pc' \in [Workers -> PCs]
        /\ \A v \in Workers : pc'[v] = p[v] \/ (pc[v] = "waiting" /\ pc'[v] = "get")
    BY <2>1, NotifyMoves
  <2>3. TypeOK'  BY <1>8, <2>2 DEF JobNotifies, TypeOK, clientVars
  <2>4. LockInv' /\ JobInv' /\ FrontExists'
    BY <1>8, <2>2 DEF JobNotifies, TypeOK, LockInv, JobInv, FrontExists
  <2> QED  BY <1>8, <1>c, <2>3, <2>4 DEF JobNotifies
<1>9. ASSUME NEW w \in Workers, Exec(w) PROVE IInv'
  <2>1. TypeOK'  BY <1>9 DEF Exec, TypeOK, JobInv, PCs, clientVars
  <2>2. LockInv' /\ JobInv' /\ FrontExists'
    BY <1>9 DEF Exec, TypeOK, LockInv, JobInv, FrontExists
  <2> QED  BY <1>9, <1>c, <2>1, <2>2 DEF Exec
<1>10. ASSUME NEW w \in Workers, Finish(w) PROVE IInv'
  <2>1. job[w] # None  BY <1>10 DEF Finish, JobInv
  <2>2. CountedWhileRunning'
    BY <1>10, <2>1, DropCounts DEF Finish, CountedWhileRunning
  <2>3. currentJobs' \in Nat
    <3>1. Running' \subseteq Workers  BY DEF Running
    <3> QED  BY <2>2, <3>1, FS_Subset, FS_CardinalityType DEF CountedWhileRunning
  <2>4. TypeOK'  BY <1>10, <2>3 DEF Finish, TypeOK, PCs, clientVars
  <2>5. LockInv' /\ JobInv' /\ FrontExists'
    BY <1>10 DEF Finish, TypeOK, LockInv, JobInv, FrontExists
  <2> QED  BY <2>2, <2>4, <2>5
<1>11. CASE OwnerAdds
  <2>1. PICK j \in Jobs : Push(j)  BY <1>11 DEF OwnerAdds
  <2>2. m_jobs' \in Seq(Jobs) /\ m_jobs' # <<>>  BY <2>1 DEF Push, TypeOK
  <2>3. TypeOK'  BY <1>11, <2>1, <2>2 DEF OwnerAdds, Push, TypeOK, OwnerPCs
  <2>4. LockInv' /\ JobInv' /\ FrontExists'
    BY <1>11, <2>2 DEF OwnerAdds, LockInv, JobInv, FrontExists
  <2> QED  BY <1>11, <1>c, <2>3, <2>4 DEF OwnerAdds
<1>12. CASE OwnerNotifies
  <2>1. /\ pc' \in [Workers -> PCs]
        /\ \A v \in Workers : pc'[v] = pc[v] \/ (pc[v] = "waiting" /\ pc'[v] = "get")
    BY <1>12, NotifyMoves DEF OwnerNotifies, TypeOK
  <2>2. TypeOK'  BY <1>12, <2>1 DEF OwnerNotifies, TypeOK, OwnerPCs
  <2>3. LockInv' /\ JobInv' /\ FrontExists'
    BY <1>12, <2>1 DEF OwnerNotifies, LockInv, JobInv, FrontExists
  <2> QED  BY <1>12, <1>c, <2>2, <2>3 DEF OwnerNotifies
<1>13. CASE NotifyAll
  <2>1. TypeOK'  BY <1>13 DEF NotifyAll, TypeOK, PCs, OwnerPCs
  <2>2. LockInv' /\ JobInv' /\ FrontExists'
    BY <1>13 DEF NotifyAll, TypeOK, LockInv, JobInv, FrontExists
  <2> QED  BY <1>13, <1>c, <2>1, <2>2 DEF NotifyAll
<1>14. CASE ReadJobsize \/ ReadCurrentJobs \/ Resume \/ SetAbort \/ Join
  <2>1. TypeOK'
    <3>1. m_abort' \in BOOLEAN
      BY <1>14, Zenon DEF ReadJobsize, ReadCurrentJobs, Resume, SetAbort, Join, TypeOK
    <3>2. totaljobs' \in Nat
      BY <1>14 DEF ReadJobsize, ReadCurrentJobs, Resume, SetAbort, Join, TypeOK
    <3>3. owner' \in OwnerPCs
      BY <1>14 DEF ReadJobsize, ReadCurrentJobs, Resume, SetAbort, Join, TypeOK, OwnerPCs
    <3> QED
      BY <1>14, <3>1, <3>2, <3>3
      DEF ReadJobsize, ReadCurrentJobs, Resume, SetAbort, Join, TypeOK
  <2>2. LockInv' /\ JobInv' /\ FrontExists'
    BY <1>14 DEF ReadJobsize, ReadCurrentJobs, Resume, SetAbort, Join,
                 LockInv, JobInv, FrontExists
  <2>3. UNCHANGED <<currentJobs, job>>
    BY <1>14 DEF ReadJobsize, ReadCurrentJobs, Resume, SetAbort, Join
  <2> QED  BY <1>c, <2>1, <2>2, <2>3
<1>15. CASE UNCHANGED vars
  BY <1>15 DEF vars, TypeOK, LockInv, JobInv, FrontExists, CountedWhileRunning, Running
<1> QED
  BY <1>1, <1>2, <1>3, <1>4, <1>5, <1>6, <1>7, <1>8, <1>9, <1>10, <1>11, <1>12,
     <1>13, <1>14, <1>15 DEF Next, WorkerStep, OwnerStep

-----------------------------------------------------------------------------
(* The theorems *)

\* The variables keep their types: in particular currentJobs, an unsigned
\* counter that the worker loop decrements, never goes below zero.
THEOREM TypeCorrect == Spec => []TypeOK
<1>1. IInv => TypeOK  BY DEF IInv
<1> QED  BY InitIInv, StepIInv, <1>1, PTL DEF Spec

\* currentJobs counts exactly the workers between the pop in get() and the
\* decrement, for any number of workers.
THEOREM CountIsExact == Spec => []CountedWhileRunning
<1>1. IInv => CountedWhileRunning  BY DEF IInv
<1> QED  BY InitIInv, StepIInv, <1>1, PTL DEF Spec

\* get() never calls front() on an empty queue.
THEOREM NeverPopsEmpty == Spec => []FrontExists
<1>1. IInv => FrontExists  BY DEF IInv
<1> QED  BY InitIInv, StepIInv, <1>1, PTL DEF Spec

\* Without spawning, no step puts work behind the back of allClear().
LEMMA StepQuiet ==
  ASSUME ~Spawning PROVE IInv /\ QuietInv /\ [Next]_vars => QuietInv'
<1> SUFFICES ASSUME IInv, QuietInv, [Next]_vars PROVE QuietInv'  OBVIOUS
<1> USE DEF QuietInv, CountedInv, AllClearIsQuiet
<1>1. ASSUME NEW w \in Workers, Pop(w) PROVE QuietInv'
  <2>1. m_jobs # <<>>  BY <1>1 DEF Pop, IInv, FrontExists
  <2> QED  BY <1>1, <2>1 DEF Pop, clientVars
<1>2. ASSUME NEW w \in Workers, Finish(w) PROVE QuietInv'
  <2>1. Running' \subseteq Running  BY <1>2 DEF Finish, Running, IInv, TypeOK
  <2> QED  BY <1>2, <2>1 DEF Finish, clientVars
<1>3. CASE ReadJobsize
  BY <1>3 DEF ReadJobsize, IInv, TypeOK
<1>4. CASE ReadCurrentJobs
  <2>1. currentJobs = 0 => Running = {}
    BY RunningFinite, FS_EmptySet DEF IInv, CountedWhileRunning
  <2> QED  BY <1>4, <2>1 DEF ReadCurrentJobs, Running
<1>5. CASE OwnerAdds \/ OwnerNotifies \/ Resume \/ SetAbort \/ NotifyAll \/ Join
  BY <1>5 DEF OwnerAdds, OwnerNotifies, Resume, SetAbort, NotifyAll, Join
<1>6. ASSUME NEW w \in Workers,
             Lock(w) \/ CheckWait(w) \/ Wait(w) \/ SpuriousWakeup(w) \/ Quit(w)
               \/ JobNotifies(w) \/ Exec(w)
      PROVE QuietInv'
  BY <1>6 DEF Lock, CheckWait, Wait, SpuriousWakeup, Quit, JobNotifies, Exec,
              clientVars, Running
<1>7. CASE UNCHANGED vars
  BY <1>7 DEF vars, Running
<1> QED
  BY <1>1, <1>2, <1>3, <1>4, <1>5, <1>6, <1>7 DEF Next, WorkerStep, OwnerStep, JobAdds

\* In a pool whose jobs add no jobs, allClear() answers true only when nothing
\* is queued and nothing runs.  The hypothesis is needed: with jobs that add
\* jobs, as SPFresh's do, TLC finds the counterexample.
THEOREM AllClearWithoutSpawning ==
  ASSUME ~Spawning PROVE Spec => []AllClearIsQuiet
<1>1. Init => QuietInv  BY DEF Init, QuietInv, CountedInv, AllClearIsQuiet
<1>2. IInv /\ QuietInv /\ [Next]_vars => QuietInv'  BY StepQuiet
<1>3. QuietInv => AllClearIsQuiet  BY DEF QuietInv
<1> QED  BY InitIInv, StepIInv, <1>1, <1>2, <1>3, PTL DEF Spec
=============================================================================
