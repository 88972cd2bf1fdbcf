-------------------------- MODULE ThreadPoolRefinement --------------------------
(***************************************************************************)
(* Machine-checked proof that every behaviour of ThreadPool is one that    *)
(* TaskQueue allows, for any number of workers, producers, tasks and       *)
(* calls, and any limits.                                                  *)
(***************************************************************************)
EXTENDS ThreadPoolProofs

Widths == Limits \union {DefaultLimit}

\* The tasks in the hands of workers: what ThreadPool maps to running.
Running == {doing[w] : w \in WorkingIn(worker)}

\* What the refinement needs beside IInv: how wide the pool may be, and where Shutdown is.
CloseInv ==
  /\ m_threadLimit \in Widths
  /\ \E width \in Widths : m_threadCount <= width
  /\ owner \in {"join", "clear"} => m_isTerminating
  /\ owner = "clear" => WorkingIn(worker) = {}

\* No other step than TakeTask and RunTask changes who runs what.
LEMMA RunningKept ==
  ASSUME UNCHANGED doing, WorkingIn(worker') = WorkingIn(worker)
  PROVE  Running' = Running
BY DEF Running

\* TaskQueue counts as FiniteSets does.
LEMMA SameCardinality == \A S : Fifo!Cardinality(S) = Cardinality(S)
BY DEF Cardinality, Fifo!Cardinality

-------------------------------------------------------------------------------
\* The pool is never wider than a limit.

\* m_threadCount goes up only below the limit.
LEMMA StartWithinWidth ==
  ASSUME IInv, CloseInv, m_threadCount < m_threadLimit, m_threadCount' = m_threadCount + 1
  PROVE  \E width \in Widths : m_threadCount' <= width
<1>1. m_threadCount' <= m_threadLimit
  BY DEF IInv, Shape
<1>2. QED
  BY <1>1 DEF CloseInv

\* A worker about to take a task is counted and does not run one yet.
LEMMA RoomForATask ==
  ASSUME IInv, CloseInv, NEW w \in Workers, HasLock(w)
  PROVE  \E width \in Widths : Cardinality(Running) < width
<1>1. /\ IsFiniteSet(WorkingIn(worker)) /\ Cardinality(WorkingIn(worker)) \in Nat
      /\ IsFiniteSet(AliveIn(worker)) /\ Cardinality(AliveIn(worker)) \in Nat
  BY WorkersFinite
<1>2. Cardinality(WorkingIn(worker)) < Cardinality(AliveIn(worker))
  <2>1. w \in AliveIn(worker) /\ w \notin WorkingIn(worker)
    BY DEF HasLock, AliveIn, WorkingIn
  <2>2. WorkingIn(worker) \in SUBSET AliveIn(worker) /\ WorkingIn(worker) # AliveIn(worker)
    BY <2>1 DEF AliveIn, WorkingIn
  <2>3. /\ Cardinality(WorkingIn(worker)) <= Cardinality(AliveIn(worker))
        /\ Cardinality(WorkingIn(worker)) = Cardinality(AliveIn(worker))
             => WorkingIn(worker) = AliveIn(worker)
    BY <1>1, <2>2, FS_Subset
  <2>4. QED
    BY <1>1, <2>2, <2>3
<1>3. Cardinality(Running) <= Cardinality(WorkingIn(worker)) /\ Cardinality(Running) \in Nat
  <2>1. [v \in WorkingIn(worker) |-> doing[v]] \in Surjection(WorkingIn(worker), Running)
    BY DEF Surjection, Running
  <2>2. IsFiniteSet(Running) /\ Cardinality(Running) <= Cardinality(WorkingIn(worker))
    BY <1>1, <2>1, FS_Surjection
  <2>3. QED
    BY <2>2, FS_CardinalityType
<1>4. Cardinality(AliveIn(worker)) <= m_threadCount /\ m_threadCount \in Int
  BY <1>1 DEF IInv, Shape, CountsAreExact, Alive, AliveIn
<1>5. PICK width \in Widths : m_threadCount <= width
  BY DEF CloseInv
<1>6. width \in Int
  BY LimitAssumption DEF Widths
<1>7. QED
  BY <1>1, <1>2, <1>3, <1>4, <1>5, <1>6

-------------------------------------------------------------------------------
\* The steps of the owner.

LEMMA StartIsAllowed ==
  ASSUME IInv, CloseInv, Start
  PROVE  CloseInv' /\ UNCHANGED Fifo!tasks
<1>1. worker \in [Workers -> States]
  BY DEF IInv, Shape
<1>2. m_threadCount' = m_threadCount + 1 /\ WorkingIn(worker') = WorkingIn(worker)
  BY <1>1, StartAddsOne DEF Start
<1>3. \E width \in Widths : m_threadCount' <= width
  BY <1>2, StartWithinWidth DEF Start
<1>4. owner' \notin {"join", "clear"}
  BY DEF Start
<1>5. Running' = Running
  BY <1>2, RunningKept DEF Start
<1>6. CloseInv'
  BY <1>3, <1>4 DEF Start, CloseInv
<1>7. QED
  BY <1>5, <1>6 DEF Start, Fifo!tasks, Running, WorkingIn

\* SetThreadLimit, and the steps that only pass the control of a call on.
LEMMA CallIsAllowed ==
  ASSUME IInv, CloseInv, SetThreadLimit \/ SetRunning \/ PingWorkers \/ JoinWorkers
  PROVE  CloseInv' /\ UNCHANGED Fifo!tasks
<1>1. worker \in [Workers -> States]
  BY DEF IInv, Shape
<1>2. WorkingIn(worker') = WorkingIn(worker)
  <2>1. CASE PingWorkers
    BY <1>1, <2>1, BroadcastRouses, RousedKeeps DEF PingWorkers
  <2>2. CASE SetThreadLimit \/ SetRunning \/ JoinWorkers
    BY <2>2 DEF SetThreadLimit, SetRunning, JoinWorkers
  <2>3. QED
    BY <2>1, <2>2
<1>3. UNCHANGED <<m_tasks, doing, done, dropped, queued, m_isTerminating, m_threadCount>>
  BY DEF SetThreadLimit, SetRunning, PingWorkers, JoinWorkers, pool, ghost
<1>4. m_threadLimit' \in Widths
  BY DEF SetThreadLimit, SetRunning, PingWorkers, JoinWorkers, pool, CloseInv, Widths
<1>5. owner' \in {"join", "clear"} => m_isTerminating'
  BY <1>3 DEF SetThreadLimit, SetRunning, PingWorkers, JoinWorkers, CloseInv
<1>6. owner' = "clear" => WorkingIn(worker') = {}
  BY <1>2 DEF SetThreadLimit, SetRunning, PingWorkers, JoinWorkers, WorkingIn
<1>7. Running' = Running
  BY <1>2, <1>3, RunningKept
<1>8. CloseInv'
  BY <1>3, <1>4, <1>5, <1>6 DEF CloseInv
<1>9. QED
  BY <1>3, <1>7, <1>8 DEF Fifo!tasks, Running, WorkingIn

\* The flag is set under the lock: this closes the queue.
LEMMA ShutdownCloses ==
  ASSUME IInv, CloseInv, Shutdown
  PROVE  CloseInv' /\ Fifo!Close
<1>1. worker \in [Workers -> States]
  BY DEF IInv, Shape
<1>2. WorkingIn(worker') = WorkingIn(worker)
  BY <1>1, BroadcastRouses, RousedKeeps DEF Shutdown
<1>3. Running' = Running
  BY <1>2, RunningKept DEF Shutdown
<1>4. CloseInv'
  BY <1>2 DEF Shutdown, CloseInv
<1>5. QED
  BY <1>3, <1>4 DEF Shutdown, ghost, Fifo!Close, Running, WorkingIn

LEMMA ClearDrops ==
  ASSUME IInv, CloseInv, ClearTasks
  PROVE  CloseInv' /\ Fifo!Drop
<1>1. m_isTerminating /\ WorkingIn(worker) = {}
  BY DEF ClearTasks, CloseInv
<1>2. Running = {} /\ Running' = Running
  BY <1>1, RunningKept DEF ClearTasks, Running
<1>3. CloseInv'
  BY DEF ClearTasks, CloseInv
<1>4. QED
  BY <1>1, <1>2, <1>3 DEF ClearTasks, Fifo!Drop, Running, WorkingIn

-------------------------------------------------------------------------------
\* The steps of a producer.

LEMMA CheckIsAllowed ==
  ASSUME CloseInv, NEW p \in Producers, QueueTask(p)
  PROVE  CloseInv' /\ UNCHANGED Fifo!tasks
<1>1. UNCHANGED <<pool, worker, doing, owner, ghost>>
  BY DEF QueueTask
<1>2. QED
  BY <1>1 DEF pool, ghost, CloseInv, Fifo!tasks

LEMMA EnqueueAccepts ==
  ASSUME IInv, CloseInv, NEW p \in Producers, Enqueue(p)
  PROVE  CloseInv' /\ Fifo!Accept
<1>1. worker \in [Workers -> States]
  BY DEF IInv, Shape
<1>2. PICK woken \in AfterSignal(worker) :
        IF ThrottleUp(Len(m_tasks')) THEN StartWorkerThread(woken)
        ELSE worker' = woken /\ UNCHANGED <<m_threadCount, leaked>>
  BY DEF Enqueue
<1>3. woken \in [Workers -> States] /\ WorkingIn(woken) = WorkingIn(worker)
  BY <1>1, SignalRouses, RousedKeeps DEF Roused
<1>4. CASE ThrottleUp(Len(m_tasks'))
  <2>1. m_threadCount' = m_threadCount + 1 /\ WorkingIn(worker') = WorkingIn(worker)
    BY <1>2, <1>3, <1>4, StartAddsOne
  <2>2. \E width \in Widths : m_threadCount' <= width
    BY <1>4, <2>1, StartWithinWidth DEF ThrottleUp
  <2>3. CloseInv'
    BY <2>1, <2>2 DEF Enqueue, CloseInv
  <2>4. Running' = Running
    BY <2>1, RunningKept DEF Enqueue
  <2>5. QED
    BY <2>3, <2>4 DEF Enqueue, Fifo!Accept, Running, WorkingIn
<1>5. CASE ~ThrottleUp(Len(m_tasks'))
  <2>1. m_threadCount' = m_threadCount /\ WorkingIn(worker') = WorkingIn(worker)
    BY <1>2, <1>3, <1>5
  <2>2. CloseInv'
    BY <2>1 DEF Enqueue, CloseInv
  <2>3. Running' = Running
    BY <2>1, RunningKept DEF Enqueue
  <2>4. QED
    BY <2>2, <2>3 DEF Enqueue, Fifo!Accept, Running, WorkingIn
<1>6. QED
  BY <1>4, <1>5

-------------------------------------------------------------------------------
\* The steps of a worker.

\* A worker that leaves, waits or awakes runs nothing before and after.
LEMMA RestIsAllowed ==
  ASSUME IInv, CloseInv, NEW w \in Workers, LeaveLoop(w) \/ Wait(w) \/ SpuriousWakeup(w)
  PROVE  CloseInv' /\ UNCHANGED Fifo!tasks
<1>1. worker \in [Workers -> States]
  BY DEF IInv, Shape
<1>2. PICK s \in {"none", "wait", "woken"} : worker' = [worker EXCEPT ![w] = s]
  BY DEF LeaveLoop, Wait, SpuriousWakeup
<1>3. worker[w] # "work"
  BY DEF LeaveLoop, Wait, SpuriousWakeup, HasLock
<1>4. WorkingIn(worker') = WorkingIn(worker)
  BY <1>1, <1>2, <1>3 DEF WorkingIn
<1>5. UNCHANGED <<m_tasks, doing, done, dropped, queued, m_isTerminating, m_threadLimit, owner>>
  BY DEF LeaveLoop, Wait, SpuriousWakeup, pool, ghost
<1>6. \E width \in Widths : m_threadCount' <= width
  <2>1. PICK width \in Widths : m_threadCount <= width
    BY DEF CloseInv
  <2>2. m_threadCount' \in {m_threadCount, m_threadCount - 1} /\ m_threadCount \in Int
    BY DEF LeaveLoop, Wait, SpuriousWakeup, pool, IInv, Shape
  <2>3. width \in Int
    BY LimitAssumption DEF Widths
  <2>4. m_threadCount' <= width
    BY <2>1, <2>2, <2>3
  <2>5. QED
    BY <2>4
<1>7. Running' = Running
  BY <1>4, <1>5, RunningKept
<1>8. CloseInv'
  BY <1>4, <1>5, <1>6 DEF CloseInv
<1>9. QED
  BY <1>5, <1>7, <1>8 DEF Fifo!tasks, Running, WorkingIn

LEMMA TakeBegins ==
  ASSUME IInv, CloseInv, NEW w \in Workers, TakeTask(w)
  PROVE  CloseInv' /\ Fifo!Begin
<1>1. worker \in [Workers -> States] /\ doing \in [Workers -> 0 .. MaxTasks]
  BY DEF IInv, Shape
<1>2. WorkingIn(worker') = WorkingIn(worker) \union {w} /\ w \notin WorkingIn(worker)
  BY <1>1 DEF TakeTask, HasLock, WorkingIn
<1>3. ~m_isTerminating
  BY DEF TakeTask, Exits
<1>4. \E width \in Widths : Cardinality(Running) < width
  BY RoomForATask DEF TakeTask
<1>5. Running' = Running \union {Head(m_tasks)}
  <2>1. \A v \in Workers : doing'[v] = IF v = w THEN Head(m_tasks) ELSE doing[v]
    BY <1>1 DEF TakeTask
  <2>2. Running' = {doing'[v] : v \in WorkingIn(worker) \union {w}}
    BY <1>2 DEF Running
  <2>3. WorkingIn(worker) \subseteq Workers
    BY DEF WorkingIn
  <2>4. QED
    BY <1>2, <2>1, <2>2, <2>3 DEF Running
<1>6. CloseInv'
  BY <1>3 DEF TakeTask, CloseInv
<1>7. QED
  BY <1>3, <1>4, <1>5, <1>6, SameCardinality DEF TakeTask, ghost, Fifo!Begin, Running, WorkingIn, Widths

LEMMA RunEnds ==
  ASSUME IInv, CloseInv, NEW w \in Workers, RunTask(w)
  PROVE  CloseInv' /\ Fifo!End
<1>1. worker \in [Workers -> States] /\ doing \in [Workers -> 0 .. MaxTasks]
  BY DEF IInv, Shape
<1>2. WorkingIn(worker') = WorkingIn(worker) \ {w} /\ w \in WorkingIn(worker)
  BY <1>1 DEF RunTask, WorkingIn
<1>3. \A v \in WorkingIn(worker) : doing[v] = doing[w] => v = w
  BY <1>2 DEF IInv, PlaceInv
<1>4. Running' = Running \ {doing[w]} /\ doing[w] \in Running
  <2>1. \A v \in Workers \ {w} : doing'[v] = doing[v]
    BY <1>1 DEF RunTask
  <2>2. Running' = {doing'[v] : v \in WorkingIn(worker) \ {w}}
    BY <1>2 DEF Running
  <2>3. WorkingIn(worker) \subseteq Workers
    BY DEF WorkingIn
  <2>4. Running' = {doing[v] : v \in WorkingIn(worker) \ {w}}
    BY <2>1, <2>2, <2>3
  <2>5. QED
    BY <1>2, <1>3, <2>4 DEF Running
<1>5. done' = done \union {doing[w]} /\ UNCHANGED <<pool, dropped, queued, owner>>
  BY DEF RunTask
<1>6. CloseInv'
  BY <1>2, <1>5 DEF CloseInv, pool
<1>7. QED
  BY <1>4, <1>5, <1>6 DEF pool, Fifo!End, Running, WorkingIn

-------------------------------------------------------------------------------
\* The theorem.

LEMMA StepIsAllowed ==
  ASSUME IInv, CloseInv, [Next]_vars
  PROVE  CloseInv' /\ [Fifo!Next]_(Fifo!tasks)
<1>1. CASE OwnerContinues \/ OwnerCalls
  BY <1>1, StartIsAllowed, CallIsAllowed, ShutdownCloses, ClearDrops
     DEF OwnerContinues, OwnerCalls, Fifo!Next
<1>2. ASSUME NEW p \in Producers, QueueTask(p) \/ Enqueue(p)
      PROVE  CloseInv' /\ [Fifo!Next]_(Fifo!tasks)
  BY <1>2, CheckIsAllowed, EnqueueAccepts DEF Fifo!Next
<1>3. ASSUME NEW w \in Workers, DoWorkerThread(w) \/ SpuriousWakeup(w)
      PROVE  CloseInv' /\ [Fifo!Next]_(Fifo!tasks)
  BY <1>3, RestIsAllowed, TakeBegins, RunEnds DEF DoWorkerThread, Fifo!Next
<1>4. CASE UNCHANGED vars
  BY <1>4 DEF vars, CloseInv, Fifo!tasks
<1>5. QED
  BY <1>1, <1>2, <1>3, <1>4 DEF Next

\* Whatever the producers, the owner and any number of workers do: tasks begin once and in
\* their order, never more at a time than the widest limit, none after Shutdown has set
\* m_isTerminating, and what Shutdown drops was never begun.
THEOREM RunsTasksInOrder == Spec => ImplementsTaskQueue
<1>1. Init => CloseInv /\ Fifo!Init
  <2> SUFFICES ASSUME Init PROVE CloseInv /\ Fifo!Init
    OBVIOUS
  <2>1. WorkingIn(worker) = {} /\ DefaultLimit \in Widths /\ 0 <= DefaultLimit
    BY LimitAssumption DEF Init, WorkingIn, Widths
  <2>2. CloseInv
    BY <2>1 DEF Init, CloseInv
  <2>3. QED
    BY <2>1, <2>2 DEF Init, Fifo!Init, WorkingIn
<1>2. IInv /\ CloseInv /\ [Next]_vars => CloseInv' /\ [Fifo!Next]_(Fifo!tasks)
  BY StepIsAllowed
<1>3. QED
  BY <1>1, <1>2, Invariance, PTL DEF Spec, ImplementsTaskQueue, Fifo!Spec
===============================================================================
