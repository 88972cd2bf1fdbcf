--------------------------- MODULE ThreadPoolProofs ---------------------------
(***************************************************************************)
(* Proofs about ThreadPool, for any number of workers, producers, tasks    *)
(* and calls, and any limits.                                              *)
(***************************************************************************)
EXTENDS ThreadPool, FiniteSetTheorems, SequenceTheorems, TLAPS

-------------------------------------------------------------------------------
\* The inductive invariant.

States == {"none", "lock", "wait", "woken", "work", "relock"}

AliveIn(state)   == {w \in Workers : state[w] # "none"}
BusyIn(state)    == {w \in Workers : state[w] \in {"work", "relock"}}
WorkingIn(state) == {w \in Workers : state[w] = "work"}
Checked          == {p \in Producers : producer[p] = "checked"}

\* The types of all variables but the two counters.
Shape ==
  /\ m_tasks \in Seq(1 .. MaxTasks)
  /\ m_threadCount \in Int
  /\ m_threadBusyCount \in Int
  /\ m_threadLimit \in 1 .. 256
  /\ m_isRunning \in BOOLEAN
  /\ m_isTerminating \in BOOLEAN
  /\ worker \in [Workers -> States]
  /\ doing \in [Workers -> 0 .. MaxTasks]
  /\ owner \in {"idle", "started", "ping", "join", "clear"}
  /\ producer \in [Producers -> {"idle", "checked"}]
  /\ queued \in 0 .. MaxTasks
  /\ done \subseteq 1 .. MaxTasks
  /\ dropped \subseteq 1 .. MaxTasks
  /\ orphans \subseteq 1 .. MaxTasks
  /\ leaked \in Nat
  /\ lowered \in BOOLEAN
  /\ calls \in 0 .. MaxCalls

\* A thread that could not be created was asked for by a task or by a call, and what
\* the producers are about to queue is within the bound.
BoundInv ==
  /\ leaked <= queued + calls
  /\ queued + Cardinality(Checked) <= MaxTasks

\* The queue holds the tasks accepted last, in their order.
QueueInv ==
  /\ Len(m_tasks) <= queued
  /\ \A i \in 1 .. Len(m_tasks) : m_tasks[i] = queued - Len(m_tasks) + i

\* All tasks that have left the queue.
Taken == 1 .. (queued - Len(m_tasks))

\* They are in the hands of one worker each, or run, or dropped.
PlaceInv ==
  /\ \A w \in WorkingIn(worker) : doing[w] \in Taken /\ doing[w] \notin done \union dropped
  /\ \A v, w \in WorkingIn(worker) : doing[v] = doing[w] => v = w
  /\ done \union dropped \subseteq Taken
  /\ \A t \in Taken : t \in done \union dropped \/ \E w \in WorkingIn(worker) : doing[w] = t
  /\ Cardinality(WorkingIn(worker)) + Cardinality(done) + Cardinality(dropped)
       = queued - Len(m_tasks)

\* NobodyLeftAfterShutdown, from the moment the last worker was joined.
LeftInv ==
  m_isTerminating /\ ~m_isRunning /\ owner \in {"idle", "ping", "clear"} =>
    AliveIn(worker) = {} \/ orphans # {}

IInv == Shape /\ BoundInv /\ CountsAreExact /\ QueueInv /\ PlaceInv /\ LeftInv

-------------------------------------------------------------------------------
\* What the operators on the states of the workers do.

\* Waking turns some waiting workers into woken ones and leaves the others alone.
Roused(state, next) ==
  /\ next \in [Workers -> States]
  /\ \A w \in Workers : next[w] = state[w] \/ (state[w] = "wait" /\ next[w] = "woken")

LEMMA SignalRouses ==
  ASSUME NEW state \in [Workers -> States], NEW next \in AfterSignal(state)
  PROVE  Roused(state, next)
BY DEF AfterSignal, Wake, Waiting, Roused, States

LEMMA BroadcastRouses ==
  ASSUME NEW state \in [Workers -> States]
  PROVE  Roused(state, AfterBroadcast(state))
BY DEF AfterBroadcast, Wake, Waiting, Roused, States

\* To wake somebody changes neither who is alive nor who is busy.
LEMMA RousedKeeps ==
  ASSUME NEW state, NEW next, Roused(state, next)
  PROVE  /\ AliveIn(next) = AliveIn(state)
         /\ BusyIn(next) = BusyIn(state)
         /\ WorkingIn(next) = WorkingIn(state)
BY DEF Roused, AliveIn, BusyIn, WorkingIn

\* StartWorkerThread adds one worker that is not busy, or none.
LEMMA StartAddsOne ==
  ASSUME NEW state \in [Workers -> States], StartWorkerThread(state)
  PROVE  /\ m_threadCount' = m_threadCount + 1
         /\ worker' \in [Workers -> States]
         /\ BusyIn(worker') = BusyIn(state)
         /\ WorkingIn(worker') = WorkingIn(state)
         /\ \/ /\ leaked' = leaked
               /\ \E w \in Workers : w \notin AliveIn(state)
                                     /\ AliveIn(worker') = AliveIn(state) \union {w}
            \/ leaked' = leaked + 1 /\ AliveIn(worker') = AliveIn(state)
<1>1. ASSUME NEW w \in Workers, state[w] = "none", worker' = [state EXCEPT ![w] = "lock"]
      PROVE  /\ worker' \in [Workers -> States]
             /\ BusyIn(worker') = BusyIn(state)
             /\ WorkingIn(worker') = WorkingIn(state)
             /\ w \notin AliveIn(state)
             /\ AliveIn(worker') = AliveIn(state) \union {w}
  BY <1>1 DEF States, BusyIn, WorkingIn, AliveIn
<1>2. QED
  BY <1>1 DEF StartWorkerThread

\* The sets of workers are finite, and the busy ones are among those alive.
LEMMA WorkersFinite ==
  ASSUME NEW state
  PROVE  /\ IsFiniteSet(AliveIn(state)) /\ Cardinality(AliveIn(state)) \in Nat
         /\ IsFiniteSet(BusyIn(state)) /\ Cardinality(BusyIn(state)) \in Nat
         /\ IsFiniteSet(WorkingIn(state)) /\ Cardinality(WorkingIn(state)) \in Nat
         /\ Cardinality(AliveIn(state)) <= Cardinality(Workers)
         /\ Cardinality(BusyIn(state)) <= Cardinality(AliveIn(state))
<1>1. IsFiniteSet(Workers)
  BY BoundAssumption
<1>2. AliveIn(state) \in SUBSET Workers /\ WorkingIn(state) \in SUBSET Workers
      /\ BusyIn(state) \in SUBSET AliveIn(state)
  BY DEF AliveIn, BusyIn, WorkingIn
<1>3. IsFiniteSet(AliveIn(state)) /\ IsFiniteSet(WorkingIn(state))
      /\ Cardinality(AliveIn(state)) <= Cardinality(Workers)
  BY <1>1, <1>2, FS_Subset
<1>4. IsFiniteSet(BusyIn(state)) /\ Cardinality(BusyIn(state)) <= Cardinality(AliveIn(state))
  BY <1>2, <1>3, FS_Subset
<1>5. QED
  BY <1>3, <1>4, FS_CardinalityType

\* A set of tasks is finite.
LEMMA TasksFinite ==
  ASSUME NEW T \in SUBSET (1 .. MaxTasks)
  PROVE  IsFiniteSet(T) /\ Cardinality(T) \in Nat
<1>1. IsFiniteSet(1 .. MaxTasks)
  BY FS_Interval, BoundAssumption
<1>2. QED
  BY <1>1, FS_Subset, FS_CardinalityType

\* The last n of the numbers up to q are n.
LEMMA LastOnes ==
  ASSUME NEW q \in Nat, NEW n \in Nat
  PROVE  IsFiniteSet((q - n + 1) .. q) /\ Cardinality((q - n + 1) .. q) = n
<1> DEFINE low == q - n + 1
<1>1. low \in Int /\ q \in Int
  OBVIOUS
<1> HIDE DEF low
<1>2. IsFiniteSet(low .. q) /\ Cardinality(low .. q) = IF low > q THEN 0 ELSE q - low + 1
  BY <1>1, FS_Interval
<1>3. (IF low > q THEN 0 ELSE q - low + 1) = n
  BY DEF low
<1>4. QED
  BY <1>2, <1>3 DEF low

LEMMA CheckedFinite ==
  ASSUME NEW state
  PROVE  IsFiniteSet({p \in Producers : state[p] = "checked"})
         /\ Cardinality({p \in Producers : state[p] = "checked"}) \in Nat
<1>1. {p \in Producers : state[p] = "checked"} \in SUBSET Producers
  OBVIOUS
<1>2. QED
  BY <1>1, FS_Subset, FS_CardinalityType, BoundAssumption

-------------------------------------------------------------------------------
\* Types.

LEMMA ShapeInit == Init => Shape
<1> SUFFICES ASSUME Init PROVE Shape
  OBVIOUS
<1>1. m_tasks \in Seq(1 .. MaxTasks)
  BY EmptySeq DEF Init
<1>2. 0 \in 0 .. MaxTasks /\ 0 \in 0 .. MaxCalls
  BY BoundAssumption
<1>3. /\ worker \in [Workers -> States]
      /\ doing \in [Workers -> 0 .. MaxTasks]
      /\ producer \in [Producers -> {"idle", "checked"}]
  BY <1>2 DEF Init, States
<1>4. m_threadLimit \in 1 .. 256
  BY LimitAssumption DEF Init
<1>5. /\ m_isRunning \in BOOLEAN /\ m_isTerminating \in BOOLEAN /\ lowered \in BOOLEAN
      /\ owner \in {"idle", "started", "ping", "join", "clear"}
      /\ done \subseteq 1 .. MaxTasks /\ dropped \subseteq 1 .. MaxTasks
      /\ orphans \subseteq 1 .. MaxTasks
  BY DEF Init
<1>6. /\ m_threadCount \in Int /\ m_threadBusyCount \in Int
      /\ queued \in 0 .. MaxTasks /\ leaked \in Nat /\ calls \in 0 .. MaxCalls
  BY <1>2 DEF Init
<1>7. QED
  BY <1>1, <1>3, <1>4, <1>5, <1>6 DEF Shape

\* No task is queued beyond the bound: the producer was counted when it was let in.
LEMMA RoomForOne ==
  ASSUME Shape, BoundInv, NEW p \in Producers, producer[p] = "checked"
  PROVE  /\ queued + 1 <= MaxTasks
         /\ Cardinality({q \in Producers : [producer EXCEPT ![p] = "idle"][q] = "checked"})
              = Cardinality(Checked) - 1
<1> DEFINE Rest == {q \in Producers : [producer EXCEPT ![p] = "idle"][q] = "checked"}
<1>1. Rest = Checked \ {p} /\ p \in Checked
  BY DEF Checked, Shape
<1>2. IsFiniteSet(Checked) /\ Cardinality(Checked) \in Nat
  BY CheckedFinite DEF Checked
<1>3. Cardinality(Rest) = Cardinality(Checked) - 1 /\ IsFiniteSet(Rest)
  BY <1>1, <1>2, FS_RemoveElement
<1>4. Cardinality(Rest) \in Nat
  BY <1>3, FS_CardinalityType
<1>5. QED
  BY <1>2, <1>3, <1>4, BoundAssumption DEF BoundInv, Shape

LEMMA ShapeStep == IInv /\ [Next]_vars => Shape'
<1> SUFFICES ASSUME IInv, [Next]_vars
             PROVE  Shape'
  OBVIOUS
<1> USE DEF Shape
<1>0. Shape /\ BoundInv
  BY DEF IInv
<1>1. CASE Start
  <2>1. worker' \in [Workers -> States]
    BY <1>0, <1>1, StartAddsOne DEF Start
  <2>2. QED
    BY <1>0, <1>1, <2>1, BoundAssumption DEF Start, StartWorkerThread
<1>2. CASE SetThreadLimit
  <2>1. lowered' \in BOOLEAN
    BY <1>0, <1>2 DEF SetThreadLimit
  <2>2. QED
    BY <1>0, <1>2, <2>1, LimitAssumption, BoundAssumption DEF SetThreadLimit
<1>3. CASE Shutdown
  <2>1. worker' \in [Workers -> States]
    BY <1>0, <1>3, BroadcastRouses DEF Shutdown, Roused
  <2>2. QED
    BY <1>0, <1>3, <2>1, BoundAssumption DEF Shutdown, ghost
<1>4. CASE SetRunning
  BY <1>0, <1>4 DEF SetRunning, ghost
<1>5. CASE PingWorkers
  <2>1. worker' \in [Workers -> States]
    BY <1>0, <1>5, BroadcastRouses DEF PingWorkers, Roused
  <2>2. QED
    BY <1>0, <1>5, <2>1 DEF PingWorkers, pool, ghost
<1>6. CASE JoinWorkers
  BY <1>0, <1>6 DEF JoinWorkers, ghost
<1>7. CASE ClearTasks
  <2>1. \A i \in DOMAIN m_tasks : m_tasks[i] \in 1 .. MaxTasks
    BY <1>0, ElementOfSeq, LenProperties
  <2>2. m_tasks' \in Seq(1 .. MaxTasks)
    BY <1>7, EmptySeq DEF ClearTasks
  <2>3. dropped' \subseteq 1 .. MaxTasks
    <3>1. dropped' = dropped \union {m_tasks[i] : i \in DOMAIN m_tasks}
      BY <1>7 DEF ClearTasks
    <3>2. {m_tasks[i] : i \in DOMAIN m_tasks} \subseteq 1 .. MaxTasks
      BY <2>1
    <3>3. QED
      BY <1>0, <3>1, <3>2
  <2>4. QED
    BY <1>0, <1>7, <2>2, <2>3 DEF ClearTasks
<1>8. ASSUME NEW p \in Producers, QueueTask(p)
      PROVE  Shape'
  BY <1>0, <1>8 DEF QueueTask, pool, ghost
<1>9. ASSUME NEW p \in Producers, Enqueue(p)
      PROVE  Shape'
  <2>1. queued + 1 <= MaxTasks
    BY <1>0, <1>9, RoomForOne DEF Enqueue
  <2>2. queued' \in 1 .. MaxTasks /\ m_tasks' \in Seq(1 .. MaxTasks)
        /\ orphans' \subseteq 1 .. MaxTasks
    BY <1>0, <1>9, <2>1, BoundAssumption DEF Enqueue
  <2>3. PICK woken \in AfterSignal(worker) :
          IF ThrottleUp(Len(m_tasks')) THEN StartWorkerThread(woken)
          ELSE worker' = woken /\ UNCHANGED <<m_threadCount, leaked>>
    BY <1>9 DEF Enqueue
  <2>4. woken \in [Workers -> States]
    BY <1>0, SignalRouses DEF Roused
  <2>5. worker' \in [Workers -> States] /\ m_threadCount' \in Int
    BY <1>0, <2>3, <2>4, StartAddsOne
  <2>6. leaked' \in Nat
    BY <1>0, <2>3 DEF StartWorkerThread
  <2>7. QED
    BY <1>0, <1>9, <2>2, <2>5, <2>6 DEF Enqueue
<1>10. ASSUME NEW w \in Workers, LeaveLoop(w)
       PROVE  Shape'
  BY <1>0, <1>10 DEF LeaveLoop, Busy, States, ghost
<1>11. ASSUME NEW w \in Workers, Wait(w)
       PROVE  Shape'
  BY <1>0, <1>11 DEF Wait, Busy, States, ghost
<1>12. ASSUME NEW w \in Workers, TakeTask(w)
       PROVE  Shape'
  <2>1. Head(m_tasks) \in 1 .. MaxTasks /\ Tail(m_tasks) \in Seq(1 .. MaxTasks)
    BY <1>0, <1>12, HeadTailProperties DEF TakeTask
  <2>2. QED
    BY <1>0, <1>12, <2>1 DEF TakeTask, Busy, States, ghost
<1>13. ASSUME NEW w \in Workers, RunTask(w)
       PROVE  Shape'
  <2>1. doing[w] \in 1 .. MaxTasks
    BY <1>13, <1>0 DEF IInv, RunTask, PlaceInv, WorkingIn, Taken, QueueInv
  <2>2. worker' \in [Workers -> States] /\ doing' \in [Workers -> 0 .. MaxTasks]
    BY <1>0, <1>13, BoundAssumption DEF RunTask, States
  <2>3. done' \subseteq 1 .. MaxTasks
    BY <1>0, <1>13, <2>1 DEF RunTask
  <2>4. QED
    BY <1>0, <1>13, <2>2, <2>3 DEF RunTask, pool
<1>14. ASSUME NEW w \in Workers, SpuriousWakeup(w)
       PROVE  Shape'
  BY <1>0, <1>14 DEF SpuriousWakeup, States, pool, ghost
<1>15. CASE UNCHANGED vars
  BY <1>0, <1>15 DEF vars
<1>16. QED
  BY <1>1, <1>2, <1>3, <1>4, <1>5, <1>6, <1>7, <1>8, <1>9, <1>10, <1>11, <1>12, <1>13,
     <1>14, <1>15 DEF Next, OwnerCalls, OwnerContinues, DoWorkerThread

-------------------------------------------------------------------------------
\* Bounds.

LEMMA BoundInit == Init => BoundInv
<1> SUFFICES ASSUME Init PROVE BoundInv
  OBVIOUS
<1>1. Checked = {}
  BY DEF Init, Checked
<1>2. QED
  BY <1>1, FS_EmptySet, BoundAssumption DEF Init, BoundInv

LEMMA BoundStep == IInv /\ [Next]_vars => BoundInv'
<1> SUFFICES ASSUME IInv, [Next]_vars
             PROVE  BoundInv'
  OBVIOUS
<1>0. Shape /\ BoundInv /\ Cardinality(Checked) \in Nat
  BY CheckedFinite DEF IInv, Checked
<1>1. CASE Start
  BY <1>0, <1>1 DEF Start, StartWorkerThread, BoundInv, Shape, Checked
<1>2. ASSUME NEW p \in Producers, QueueTask(p)
      PROVE  BoundInv'
  <2>1. Checked' = Checked \union {p} /\ p \notin Checked
    BY <1>0, <1>2 DEF QueueTask, Checked, Shape
  <2>2. Cardinality(Checked') = Cardinality(Checked) + 1
    BY <2>1, FS_AddElement, CheckedFinite DEF Checked
  <2>3. queued + Cardinality(Checked) < MaxTasks
    BY <1>2 DEF QueueTask, Checked
  <2>4. QED
    BY <1>0, <1>2, <2>2, <2>3, BoundAssumption DEF QueueTask, BoundInv, Shape, ghost
<1>3. ASSUME NEW p \in Producers, Enqueue(p)
      PROVE  BoundInv'
  <2>1. Cardinality(Checked') = Cardinality(Checked) - 1
    BY <1>0, <1>3, RoomForOne DEF Enqueue, Checked
  <2>2. leaked' \in {leaked, leaked + 1}
    BY <1>3 DEF Enqueue, StartWorkerThread
  <2>3. QED
    BY <1>0, <1>3, <2>1, <2>2, BoundAssumption DEF Enqueue, BoundInv, Shape
<1>4. CASE SetThreadLimit \/ Shutdown
  <2>1. /\ Checked' = Checked
        /\ leaked' = leaked /\ queued' = queued /\ calls' = calls + 1
    BY <1>4 DEF SetThreadLimit, Shutdown, Checked, ghost
  <2>2. QED
    BY <1>0, <2>1, BoundAssumption DEF BoundInv, Shape
<1>5. CASE OwnerContinues
  BY <1>0, <1>5 DEF OwnerContinues, SetRunning, PingWorkers, JoinWorkers, ClearTasks,
                    BoundInv, Checked, ghost
<1>6. ASSUME NEW w \in Workers, DoWorkerThread(w) \/ SpuriousWakeup(w)
      PROVE  BoundInv'
  BY <1>0, <1>6 DEF DoWorkerThread, LeaveLoop, Wait, TakeTask, RunTask, SpuriousWakeup,
                    BoundInv, Checked, ghost
<1>7. CASE UNCHANGED vars
  BY <1>0, <1>7 DEF vars, BoundInv, Checked
<1>8. QED
  BY <1>1, <1>2, <1>3, <1>4, <1>5, <1>6, <1>7 DEF Next, OwnerCalls

-------------------------------------------------------------------------------
\* Counts.

LEMMA CountsAre ==
  CountsAreExact <=> /\ m_threadCount = Cardinality(AliveIn(worker)) + leaked
                     /\ m_threadBusyCount = Cardinality(BusyIn(worker))
BY DEF CountsAreExact, Alive, AliveIn, BusyIn

LEMMA CountsAreNext ==
  CountsAreExact' <=> /\ m_threadCount' = Cardinality(AliveIn(worker')) + leaked'
                      /\ m_threadBusyCount' = Cardinality(BusyIn(worker'))
BY DEF CountsAreExact, Alive, AliveIn, BusyIn

LEMMA CountInit == Init => CountsAreExact
<1> SUFFICES ASSUME Init PROVE CountsAreExact
  OBVIOUS
<1>1. AliveIn(worker) = {} /\ BusyIn(worker) = {}
  BY DEF Init, AliveIn, BusyIn
<1>2. Cardinality(AliveIn(worker)) = 0 /\ Cardinality(BusyIn(worker)) = 0
  BY <1>1, FS_EmptySet
<1>3. m_threadCount = 0 /\ leaked = 0 /\ m_threadBusyCount = 0
  BY DEF Init
<1>4. QED
  BY <1>2, <1>3, CountsAre

\* A worker that has the lock is counted out if it was busy.
LEMMA BusyCounts ==
  ASSUME Shape, CountsAreExact, NEW w \in Workers, HasLock(w), NEW and \in {0, 1}
  PROVE  Busy(w, and) = Cardinality(BusyIn(worker) \ {w}) + and
<1>1. IsFiniteSet(BusyIn(worker)) /\ Cardinality(BusyIn(worker)) \in Nat
      /\ m_threadBusyCount = Cardinality(BusyIn(worker))
  BY WorkersFinite, CountsAre
<1>2. /\ IsFiniteSet(BusyIn(worker) \ {w})
      /\ Cardinality(BusyIn(worker) \ {w})
           = IF w \in BusyIn(worker) THEN m_threadBusyCount - 1 ELSE m_threadBusyCount
  BY <1>1, FS_RemoveElement
<1>3. Cardinality(BusyIn(worker) \ {w}) \in Nat
  BY <1>2, FS_CardinalityType
<1>4. w \in BusyIn(worker) <=> worker[w] = "relock"
  BY DEF HasLock, BusyIn
<1>5. QED
  BY <1>1, <1>2, <1>3, <1>4 DEF Busy

LEMMA CountStep == IInv /\ [Next]_vars => CountsAreExact'
<1> SUFFICES ASSUME IInv, [Next]_vars
             PROVE  CountsAreExact'
  OBVIOUS
<1>0. Shape /\ CountsAreExact /\ worker \in [Workers -> States]
  BY DEF IInv, Shape
<1>a. /\ m_threadCount = Cardinality(AliveIn(worker)) + leaked
      /\ m_threadBusyCount = Cardinality(BusyIn(worker))
      /\ IsFiniteSet(AliveIn(worker)) /\ Cardinality(AliveIn(worker)) \in Nat
      /\ IsFiniteSet(BusyIn(worker)) /\ Cardinality(BusyIn(worker)) \in Nat
      /\ leaked \in Nat
  BY <1>0, WorkersFinite, CountsAre DEF Shape
<1>b. ASSUME AliveIn(worker') = AliveIn(worker), BusyIn(worker') = BusyIn(worker),
             UNCHANGED <<m_threadCount, m_threadBusyCount, leaked>>
      PROVE  CountsAreExact'
  BY <1>a, <1>b, CountsAreNext
<1>c. ASSUME NEW state \in [Workers -> States], Roused(worker, state) \/ state = worker,
             StartWorkerThread(state), UNCHANGED m_threadBusyCount
      PROVE  CountsAreExact'
  <2>1. AliveIn(state) = AliveIn(worker) /\ BusyIn(state) = BusyIn(worker)
    BY <1>c, RousedKeeps
  <2>2. m_threadCount' = m_threadCount + 1 /\ BusyIn(worker') = BusyIn(worker)
    BY <1>c, <2>1, StartAddsOne
  <2>3. CASE leaked' = leaked + 1 /\ AliveIn(worker') = AliveIn(state)
    BY <1>a, <1>c, <2>1, <2>2, <2>3, CountsAreNext
  <2>4. ASSUME NEW w \in Workers, w \notin AliveIn(state), leaked' = leaked,
               AliveIn(worker') = AliveIn(state) \union {w}
        PROVE  CountsAreExact'
    <3>1. Cardinality(AliveIn(worker')) = Cardinality(AliveIn(worker)) + 1
      BY <1>a, <2>1, <2>4, FS_AddElement
    <3>2. QED
      BY <1>a, <1>c, <2>2, <2>4, <3>1, CountsAreNext
  <2>5. QED
    BY <1>c, <2>3, <2>4, StartAddsOne
<1>1. CASE Start
  BY <1>0, <1>1, <1>c DEF Start
<1>2. CASE SetThreadLimit \/ SetRunning \/ JoinWorkers \/ ClearTasks
  BY <1>2, <1>b DEF SetThreadLimit, SetRunning, JoinWorkers, ClearTasks, ghost
<1>3. CASE Shutdown \/ PingWorkers
  <2>1. AliveIn(worker') = AliveIn(worker) /\ BusyIn(worker') = BusyIn(worker)
    BY <1>0, <1>3, BroadcastRouses, RousedKeeps DEF Shutdown, PingWorkers
  <2>2. QED
    BY <1>3, <1>b, <2>1 DEF Shutdown, PingWorkers, pool, ghost
<1>4. ASSUME NEW p \in Producers, QueueTask(p)
      PROVE  CountsAreExact'
  BY <1>4, <1>b DEF QueueTask, pool, ghost
<1>5. ASSUME NEW p \in Producers, Enqueue(p)
      PROVE  CountsAreExact'
  <2>1. PICK woken \in AfterSignal(worker) :
          IF ThrottleUp(Len(m_tasks')) THEN StartWorkerThread(woken)
          ELSE worker' = woken /\ UNCHANGED <<m_threadCount, leaked>>
    BY <1>5 DEF Enqueue
  <2>2. Roused(worker, woken) /\ woken \in [Workers -> States]
    BY <1>0, SignalRouses DEF Roused
  <2>3. UNCHANGED m_threadBusyCount
    BY <1>5 DEF Enqueue
  <2>4. QED
    BY <1>b, <1>c, <2>1, <2>2, <2>3, RousedKeeps
<1>6. ASSUME NEW w \in Workers, LeaveLoop(w)
      PROVE  CountsAreExact'
  <2>1. HasLock(w) /\ w \in AliveIn(worker)
    BY <1>6 DEF LeaveLoop, HasLock, AliveIn
  <2>2. AliveIn(worker') = AliveIn(worker) \ {w} /\ BusyIn(worker') = BusyIn(worker) \ {w}
    <3>1. \A v \in Workers : worker'[v] = IF v = w THEN "none" ELSE worker[v]
      BY <1>0, <1>6 DEF LeaveLoop
    <3>2. QED
      BY <1>6, <3>1 DEF LeaveLoop, AliveIn, BusyIn, HasLock
  <2>3. Cardinality(AliveIn(worker')) = Cardinality(AliveIn(worker)) - 1
    BY <1>a, <2>1, <2>2, FS_RemoveElement
  <2>4. m_threadBusyCount' = Cardinality(BusyIn(worker') ) + 0
    BY <1>0, <1>6, <2>1, <2>2, BusyCounts DEF LeaveLoop
  <2>5. Cardinality(BusyIn(worker')) \in Nat
    BY WorkersFinite
  <2>6. QED
    BY <1>a, <1>6, <2>3, <2>4, <2>5, CountsAreNext DEF LeaveLoop, ghost
<1>7. ASSUME NEW w \in Workers, Wait(w)
      PROVE  CountsAreExact'
  <2>1. HasLock(w) /\ w \in AliveIn(worker)
    BY <1>7 DEF Wait, HasLock, AliveIn
  <2>2. AliveIn(worker') = AliveIn(worker) /\ BusyIn(worker') = BusyIn(worker) \ {w}
    <3>1. \A v \in Workers : worker'[v] = IF v = w THEN "wait" ELSE worker[v]
      BY <1>0, <1>7 DEF Wait
    <3>2. QED
      BY <1>7, <3>1 DEF Wait, AliveIn, BusyIn, HasLock
  <2>3. m_threadBusyCount' = Cardinality(BusyIn(worker')) + 0
    BY <1>0, <1>7, <2>1, <2>2, BusyCounts DEF Wait
  <2>4. Cardinality(BusyIn(worker')) \in Nat
    BY WorkersFinite
  <2>5. QED
    BY <1>a, <1>7, <2>2, <2>3, <2>4, CountsAreNext DEF Wait, ghost
<1>8. ASSUME NEW w \in Workers, TakeTask(w)
      PROVE  CountsAreExact'
  <2>1. HasLock(w) /\ w \in AliveIn(worker)
    BY <1>8 DEF TakeTask, HasLock, AliveIn
  <2>2. AliveIn(worker') = AliveIn(worker) /\ BusyIn(worker') = (BusyIn(worker) \ {w}) \union {w}
    <3>1. \A v \in Workers : worker'[v] = IF v = w THEN "work" ELSE worker[v]
      BY <1>0, <1>8 DEF TakeTask
    <3>2. QED
      BY <1>8, <3>1 DEF TakeTask, AliveIn, BusyIn, HasLock
  <2>3. m_threadBusyCount' = Cardinality(BusyIn(worker) \ {w}) + 1
    BY <1>0, <1>8, <2>1, BusyCounts DEF TakeTask
  <2>4. IsFiniteSet(BusyIn(worker) \ {w})
    BY <1>a, FS_RemoveElement
  <2>5. Cardinality(BusyIn(worker')) = Cardinality(BusyIn(worker) \ {w}) + 1
    BY <2>2, <2>4, FS_AddElement
  <2>6. QED
    BY <1>a, <1>8, <2>2, <2>3, <2>5, CountsAreNext DEF TakeTask, ghost
<1>9. ASSUME NEW w \in Workers, RunTask(w)
      PROVE  CountsAreExact'
  <2>1. AliveIn(worker') = AliveIn(worker) /\ BusyIn(worker') = BusyIn(worker)
    <3>1. \A v \in Workers : worker'[v] = IF v = w THEN "relock" ELSE worker[v]
      BY <1>0, <1>9 DEF RunTask
    <3>2. QED
      BY <1>9, <3>1 DEF RunTask, AliveIn, BusyIn
  <2>2. QED
    BY <1>9, <1>b, <2>1 DEF RunTask, pool
<1>10. ASSUME NEW w \in Workers, SpuriousWakeup(w)
       PROVE  CountsAreExact'
  <2>1. AliveIn(worker') = AliveIn(worker) /\ BusyIn(worker') = BusyIn(worker)
    <3>1. \A v \in Workers : worker'[v] = IF v = w THEN "woken" ELSE worker[v]
      BY <1>0, <1>10 DEF SpuriousWakeup
    <3>2. QED
      BY <1>10, <3>1 DEF SpuriousWakeup, AliveIn, BusyIn
  <2>2. QED
    BY <1>10, <1>b, <2>1 DEF SpuriousWakeup, pool, ghost
<1>11. CASE UNCHANGED vars
  BY <1>11, <1>b DEF vars
<1>12. QED
  BY <1>1, <1>2, <1>3, <1>4, <1>5, <1>6, <1>7, <1>8, <1>9, <1>10, <1>11
     DEF Next, OwnerCalls, OwnerContinues, DoWorkerThread

-------------------------------------------------------------------------------
\* The order of the queue.

LEMMA QueueInit == Init => QueueInv
BY EmptySeq DEF Init, QueueInv

LEMMA QueueStep == IInv /\ [Next]_vars => QueueInv'
<1> SUFFICES ASSUME IInv, [Next]_vars
             PROVE  QueueInv'
  OBVIOUS
<1>0. Shape /\ QueueInv
  BY DEF IInv
<1>a. m_tasks \in Seq(1 .. MaxTasks) /\ Len(m_tasks) \in Nat /\ queued \in Nat
  BY <1>0, LenProperties DEF Shape
<1>1. ASSUME NEW p \in Producers, Enqueue(p)
      PROVE  QueueInv'
  <2>1. queued' = queued + 1 /\ m_tasks' = Append(m_tasks, queued + 1)
    BY <1>1 DEF Enqueue
  <2>2. queued + 1 \in 1 .. MaxTasks
    <3>1. queued + 1 <= MaxTasks
      BY <1>0, <1>1, RoomForOne DEF IInv, Enqueue
    <3>2. QED
      BY <1>a, <3>1, BoundAssumption
  <2>3. /\ Len(m_tasks') = Len(m_tasks) + 1
        /\ \A i \in 1 .. Len(m_tasks) : m_tasks'[i] = m_tasks[i]
        /\ m_tasks'[Len(m_tasks) + 1] = queued + 1
    BY <1>a, <2>1, <2>2, AppendProperties
  <2>4. ASSUME NEW i \in 1 .. Len(m_tasks')
        PROVE  m_tasks'[i] = queued' - Len(m_tasks') + i
    <3>1. CASE i = Len(m_tasks) + 1
      BY <1>a, <2>1, <2>3, <3>1
    <3>2. CASE i \in 1 .. Len(m_tasks)
      BY <1>0, <1>a, <2>1, <2>3, <3>2 DEF QueueInv
    <3>3. QED
      BY <1>a, <2>3, <3>1, <3>2
  <2>5. QED
    BY <1>0, <1>a, <2>1, <2>3, <2>4 DEF QueueInv
<1>2. ASSUME NEW w \in Workers, TakeTask(w)
      PROVE  QueueInv'
  <2>1. m_tasks # <<>> /\ m_tasks' = Tail(m_tasks) /\ queued' = queued
    BY <1>2 DEF TakeTask, ghost
  <2>2. /\ Len(m_tasks') = Len(m_tasks) - 1
        /\ \A i \in 1 .. Len(m_tasks') : m_tasks'[i] = m_tasks[i + 1]
    BY <1>a, <2>1, HeadTailProperties
  <2>3. Len(m_tasks) \in Nat \ {0}
    BY <1>a, <2>1, EmptySeq
  <2>4. QED
    BY <1>0, <1>a, <2>1, <2>2, <2>3 DEF QueueInv
<1>3. CASE ClearTasks
  <2>1. m_tasks' = <<>> /\ queued' = queued
    BY <1>3 DEF ClearTasks
  <2>2. QED
    BY <1>a, <2>1, EmptySeq DEF QueueInv
<1>4. CASE UNCHANGED <<m_tasks, queued>>
  BY <1>0, <1>4 DEF QueueInv
<1>5. QED
  BY <1>1, <1>2, <1>3, <1>4 DEF Next, OwnerCalls, OwnerContinues, DoWorkerThread, Start,
     SetThreadLimit, Shutdown, SetRunning, PingWorkers, JoinWorkers, QueueTask, LeaveLoop,
     Wait, RunTask, SpuriousWakeup, pool, ghost, vars

-------------------------------------------------------------------------------
\* Where the tasks are.

LEMMA PlaceInit == Init => PlaceInv
<1> SUFFICES ASSUME Init PROVE PlaceInv
  OBVIOUS
<1>1. WorkingIn(worker) = {} /\ Len(m_tasks) = 0 /\ queued = 0 /\ done = {} /\ dropped = {}
  BY EmptySeq DEF Init, WorkingIn
<1>2. Taken = {}
  BY <1>1 DEF Taken
<1>3. QED
  BY <1>1, <1>2, FS_EmptySet DEF PlaceInv

\* A step that moves no task.
LEMMA PlaceKept ==
  ASSUME PlaceInv, WorkingIn(worker') = WorkingIn(worker), UNCHANGED <<doing, done, dropped>>,
         queued' - Len(m_tasks') = queued - Len(m_tasks)
  PROVE  PlaceInv'
BY DEF PlaceInv, Taken

LEMMA PlaceStep == IInv /\ [Next]_vars => PlaceInv'
<1> SUFFICES ASSUME IInv, [Next]_vars
             PROVE  PlaceInv'
  OBVIOUS
<1>0. Shape /\ QueueInv /\ PlaceInv /\ worker \in [Workers -> States]
  BY DEF IInv, Shape
<1>a. /\ m_tasks \in Seq(1 .. MaxTasks) /\ Len(m_tasks) \in Nat /\ queued \in Nat
      /\ queued - Len(m_tasks) \in Nat
      /\ DOMAIN m_tasks = 1 .. Len(m_tasks)
  BY <1>0, LenProperties DEF Shape, QueueInv
<1>b. /\ IsFiniteSet(done) /\ Cardinality(done) \in Nat
      /\ IsFiniteSet(dropped) /\ Cardinality(dropped) \in Nat
      /\ IsFiniteSet(WorkingIn(worker)) /\ Cardinality(WorkingIn(worker)) \in Nat
  BY <1>0, TasksFinite, WorkersFinite DEF Shape
<1>1. CASE Start
  <2>1. WorkingIn(worker') = WorkingIn(worker)
    BY <1>0, <1>1, StartAddsOne DEF Start
  <2>2. QED
    BY <1>0, <1>1, <2>1, PlaceKept DEF Start
<1>2. CASE SetThreadLimit \/ SetRunning \/ JoinWorkers
  BY <1>0, <1>2, PlaceKept DEF SetThreadLimit, SetRunning, JoinWorkers, ghost
<1>3. CASE Shutdown \/ PingWorkers
  <2>1. WorkingIn(worker') = WorkingIn(worker)
    BY <1>0, <1>3, BroadcastRouses, RousedKeeps DEF Shutdown, PingWorkers
  <2>2. QED
    BY <1>0, <1>3, <2>1, PlaceKept DEF Shutdown, PingWorkers, pool, ghost
<1>4. CASE ClearTasks
  <2> DEFINE Queue == (queued - Len(m_tasks) + 1) .. queued
  <2>1. Queue = {m_tasks[i] : i \in DOMAIN m_tasks}
    <3>1. \A t \in Queue : t - (queued - Len(m_tasks)) \in 1 .. Len(m_tasks)
      BY <1>a
    <3>2. \A i \in 1 .. Len(m_tasks) : m_tasks[i] = queued - Len(m_tasks) + i
      BY <1>0 DEF QueueInv
    <3>3. \A t \in Queue : m_tasks[t - (queued - Len(m_tasks))] = t
      BY <1>a, <3>1, <3>2
    <3>4. \A i \in DOMAIN m_tasks : m_tasks[i] \in Queue
      BY <1>a, <3>2
    <3>5. QED
      BY <1>a, <3>1, <3>3, <3>4
  <2>2. dropped' = dropped \union Queue /\ done' = done /\ doing' = doing
        /\ worker' = worker /\ queued' = queued /\ m_tasks' = <<>> /\ Len(m_tasks') = 0
    BY <1>4, <2>1, EmptySeq DEF ClearTasks
  <2>3. IsFiniteSet(Queue) /\ Cardinality(Queue) = Len(m_tasks)
    BY <1>a, LastOnes
  <2>4. dropped \intersect Queue = {}
    BY <1>0, <1>a DEF PlaceInv, Taken
  <2>5. Cardinality(dropped') = Cardinality(dropped) + Len(m_tasks)
    <3>1. Cardinality(dropped \union Queue)
            = Cardinality(dropped) + Cardinality(Queue) - Cardinality(dropped \intersect Queue)
      BY <1>b, <2>3, FS_Union
    <3>2. Cardinality(dropped \intersect Queue) = 0
      BY <2>4, FS_EmptySet
    <3>3. QED
      BY <1>a, <1>b, <2>2, <2>3, <3>1, <3>2
  <2>6. Taken' = Taken \union Queue /\ Taken \intersect Queue = {}
    BY <1>a, <2>2 DEF Taken
  <2>7. Cardinality(WorkingIn(worker')) + Cardinality(done') + Cardinality(dropped')
          = queued' - Len(m_tasks')
    <3>1. Cardinality(WorkingIn(worker)) + Cardinality(done) + Cardinality(dropped)
            = queued - Len(m_tasks)
      BY <1>0 DEF PlaceInv
    <3>2. Len(m_tasks) \in Nat /\ queued \in Nat /\ queued' = queued /\ Len(m_tasks') = 0
      BY <1>a, <2>2
    <3>3. WorkingIn(worker') = WorkingIn(worker) /\ done' = done
      BY <2>2
    <3>4. QED
      BY <1>b, <2>5, <3>1, <3>2, <3>3
  <2>8. \A w \in WorkingIn(worker') : doing'[w] \in Taken' /\ doing'[w] \notin (done \union dropped)'
    BY <1>0, <2>2, <2>6 DEF PlaceInv
  <2>9. QED
    BY <1>0, <2>2, <2>6, <2>7, <2>8 DEF PlaceInv
<1>5. ASSUME NEW p \in Producers, QueueTask(p)
      PROVE  PlaceInv'
  BY <1>0, <1>5, PlaceKept DEF QueueTask, pool, ghost
<1>6. ASSUME NEW p \in Producers, Enqueue(p)
      PROVE  PlaceInv'
  <2>1. PICK woken \in AfterSignal(worker) :
          IF ThrottleUp(Len(m_tasks')) THEN StartWorkerThread(woken)
          ELSE worker' = woken /\ UNCHANGED <<m_threadCount, leaked>>
    BY <1>6 DEF Enqueue
  <2>2. Roused(worker, woken) /\ woken \in [Workers -> States]
    BY <1>0, SignalRouses DEF Roused
  <2>3. WorkingIn(worker') = WorkingIn(worker)
    BY <2>1, <2>2, RousedKeeps, StartAddsOne
  <2>4. queued + 1 \in 1 .. MaxTasks
    <3>1. queued + 1 <= MaxTasks
      BY <1>0, <1>6, RoomForOne DEF IInv, Enqueue
    <3>2. QED
      BY <1>a, <3>1, BoundAssumption
  <2>5. queued' = queued + 1 /\ Len(m_tasks') = Len(m_tasks) + 1
    BY <1>a, <1>6, <2>4, AppendProperties DEF Enqueue
  <2>6. UNCHANGED <<doing, done, dropped>>
    BY <1>6 DEF Enqueue
  <2>7. queued' - Len(m_tasks') = queued - Len(m_tasks)
    BY <1>a, <2>5
  <2>8. QED
    BY <1>0, <2>3, <2>6, <2>7, PlaceKept
<1>7. ASSUME NEW w \in Workers, LeaveLoop(w) \/ Wait(w) \/ SpuriousWakeup(w)
      PROVE  PlaceInv'
  <2>1. worker[w] # "work" /\ \E s \in States \ {"work"} : worker' = [worker EXCEPT ![w] = s]
    BY <1>7 DEF LeaveLoop, Wait, SpuriousWakeup, HasLock, States
  <2>2. WorkingIn(worker') = WorkingIn(worker)
    BY <1>0, <2>1 DEF WorkingIn
  <2>3. QED
    BY <1>0, <1>7, <2>2, PlaceKept DEF LeaveLoop, Wait, SpuriousWakeup, pool, ghost
<1>8. ASSUME NEW w \in Workers, TakeTask(w)
      PROVE  PlaceInv'
  <2> DEFINE t == queued - Len(m_tasks) + 1
  <2>1. m_tasks # <<>> /\ m_tasks' = Tail(m_tasks) /\ doing' = [doing EXCEPT ![w] = Head(m_tasks)]
        /\ UNCHANGED <<queued, done, dropped>>
    BY <1>8 DEF TakeTask, ghost
  <2>2. Len(m_tasks) \in Nat \ {0} /\ Len(m_tasks') = Len(m_tasks) - 1
    BY <1>a, <2>1, HeadTailProperties, EmptySeq
  <2>3. Head(m_tasks) = t
    <3>1. m_tasks[1] = t
      BY <1>0, <1>a, <2>2 DEF QueueInv
    <3>2. QED
      BY <1>a, <2>1, <2>2, <3>1
  <2>4. Taken' = Taken \union {t} /\ t \notin Taken
    BY <1>a, <2>1, <2>2 DEF Taken
  <2>5. WorkingIn(worker') = WorkingIn(worker) \union {w} /\ w \notin WorkingIn(worker)
    <3>1. \A v \in Workers : worker'[v] = IF v = w THEN "work" ELSE worker[v]
      BY <1>0, <1>8 DEF TakeTask
    <3>2. QED
      BY <1>8, <3>1 DEF TakeTask, HasLock, WorkingIn
  <2>6. Cardinality(WorkingIn(worker')) = Cardinality(WorkingIn(worker)) + 1
    BY <1>b, <2>5, FS_AddElement
  <2>7. \A v \in WorkingIn(worker') : doing'[v] = IF v = w THEN t ELSE doing[v]
    BY <1>0, <2>1, <2>3 DEF WorkingIn, Shape
  <2>8. t \notin done \union dropped /\ \A v \in WorkingIn(worker) : doing[v] # t
    BY <1>0, <2>4 DEF PlaceInv
  <2>9. /\ \A v \in WorkingIn(worker') : doing'[v] \in Taken' /\ doing'[v] \notin (done \union dropped)'
        /\ \A u, v \in WorkingIn(worker') : doing'[u] = doing'[v] => u = v
    BY <1>0, <2>1, <2>4, <2>5, <2>7, <2>8 DEF PlaceInv
  <2>10. \A x \in Taken' : x \in (done \union dropped)'
                           \/ \E v \in WorkingIn(worker') : doing'[v] = x
    BY <1>0, <2>1, <2>4, <2>5, <2>7 DEF PlaceInv
  <2>11. Cardinality(WorkingIn(worker')) + Cardinality(done') + Cardinality(dropped')
           = queued' - Len(m_tasks')
    <3>1. Cardinality(WorkingIn(worker)) + Cardinality(done) + Cardinality(dropped)
            = queued - Len(m_tasks)
      BY <1>0 DEF PlaceInv
    <3>2. QED
      BY <1>a, <1>b, <2>1, <2>2, <2>6, <3>1
  <2>12. QED
    BY <1>0, <2>1, <2>4, <2>9, <2>10, <2>11 DEF PlaceInv
<1>9. ASSUME NEW w \in Workers, RunTask(w)
      PROVE  PlaceInv'
  <2>1. done' = done \union {doing[w]} /\ UNCHANGED <<queued, m_tasks, dropped>>
        /\ Taken' = Taken /\ w \in WorkingIn(worker)
    BY <1>9 DEF RunTask, pool, Taken, WorkingIn
  <2>2. WorkingIn(worker') = WorkingIn(worker) \ {w}
    <3>1. \A v \in Workers : worker'[v] = IF v = w THEN "relock" ELSE worker[v]
      BY <1>0, <1>9 DEF RunTask
    <3>2. QED
      BY <3>1 DEF WorkingIn
  <2>3. \A v \in WorkingIn(worker') : doing'[v] = doing[v] /\ v \in WorkingIn(worker) /\ v # w
    BY <1>0, <1>9, <2>2 DEF RunTask, WorkingIn, Shape
  <2>4. doing[w] \in Taken /\ doing[w] \notin done \union dropped
    BY <1>0, <2>1 DEF PlaceInv
  <2>5. Cardinality(done') = Cardinality(done) + 1
        /\ Cardinality(WorkingIn(worker')) = Cardinality(WorkingIn(worker)) - 1
    BY <1>b, <2>1, <2>2, <2>4, FS_AddElement, FS_RemoveElement
  <2>6. /\ \A v \in WorkingIn(worker') : doing'[v] \in Taken' /\ doing'[v] \notin (done \union dropped)'
        /\ \A u, v \in WorkingIn(worker') : doing'[u] = doing'[v] => u = v
    BY <1>0, <2>1, <2>3, <2>4 DEF PlaceInv
  <2>7. \A x \in Taken' : x \in (done \union dropped)'
                          \/ \E v \in WorkingIn(worker') : doing'[v] = x
    BY <1>0, <2>1, <2>2, <2>3 DEF PlaceInv
  <2>8. Cardinality(WorkingIn(worker')) + Cardinality(done') + Cardinality(dropped')
          = queued' - Len(m_tasks')
    BY <1>0, <1>a, <1>b, <2>1, <2>5 DEF PlaceInv
  <2>9. QED
    BY <1>0, <2>1, <2>4, <2>6, <2>7, <2>8 DEF PlaceInv
<1>10. CASE UNCHANGED vars
  BY <1>0, <1>10, PlaceKept DEF vars
<1>11. QED
  BY <1>1, <1>2, <1>3, <1>4, <1>5, <1>6, <1>7, <1>8, <1>9, <1>10
     DEF Next, OwnerCalls, OwnerContinues, DoWorkerThread

-------------------------------------------------------------------------------
\* After a shutdown.

LEMMA LeftStep == IInv /\ [Next]_vars => LeftInv'
<1> SUFFICES ASSUME IInv, [Next]_vars
             PROVE  LeftInv'
  OBVIOUS
<1>0. Shape /\ LeftInv /\ worker \in [Workers -> States]
  BY DEF IInv, Shape
<1>1. CASE Start
  <2>1. owner' = "started" \/ worker' = worker
    BY <1>1 DEF Start
  <2>2. QED
    BY <1>0, <1>1, <2>1 DEF Start, LeftInv
<1>2. CASE SetThreadLimit \/ SetRunning
  BY <1>0, <1>2 DEF SetThreadLimit, SetRunning, LeftInv, ghost
<1>3. CASE Shutdown
  BY <1>3 DEF Shutdown, LeftInv
<1>4. CASE PingWorkers
  <2>1. AliveIn(worker') = AliveIn(worker)
    BY <1>0, <1>4, BroadcastRouses, RousedKeeps DEF PingWorkers
  <2>2. QED
    BY <1>0, <1>4, <2>1 DEF PingWorkers, LeftInv, pool, ghost
<1>5. CASE JoinWorkers
  <2>1. AliveIn(worker') = {}
    BY <1>5 DEF JoinWorkers, AliveIn
  <2>2. QED
    BY <2>1 DEF LeftInv
<1>6. CASE ClearTasks
  BY <1>0, <1>6 DEF ClearTasks, LeftInv
<1>7. ASSUME NEW p \in Producers, QueueTask(p)
      PROVE  LeftInv'
  BY <1>0, <1>7 DEF QueueTask, LeftInv, pool, ghost
<1>8. ASSUME NEW p \in Producers, Enqueue(p)
      PROVE  LeftInv'
  <2>1. m_isTerminating' => orphans' # {}
    BY <1>8 DEF Enqueue
  <2>2. QED
    BY <2>1 DEF LeftInv
<1>9. ASSUME NEW w \in Workers, DoWorkerThread(w) \/ SpuriousWakeup(w)
      PROVE  LeftInv'
  <2>1. AliveIn(worker') \subseteq AliveIn(worker)
    <3>1. worker[w] # "none" /\ \A v \in Workers : v # w => worker'[v] = worker[v]
      BY <1>0, <1>9 DEF DoWorkerThread, LeaveLoop, Wait, TakeTask, RunTask, SpuriousWakeup,
                        HasLock
    <3>2. QED
      BY <3>1 DEF AliveIn
  <2>2. UNCHANGED <<m_isTerminating, m_isRunning, owner, orphans>>
    BY <1>9 DEF DoWorkerThread, LeaveLoop, Wait, TakeTask, RunTask, SpuriousWakeup, pool,
                ghost
  <2>3. QED
    BY <1>0, <2>1, <2>2 DEF LeftInv
<1>10. CASE UNCHANGED vars
  BY <1>0, <1>10 DEF vars, LeftInv
<1>11. QED
  BY <1>1, <1>2, <1>3, <1>4, <1>5, <1>6, <1>7, <1>8, <1>9, <1>10
     DEF Next, OwnerCalls, OwnerContinues

-------------------------------------------------------------------------------
\* The theorems.

\* The invariant holds throughout: types, bounds, counts, the order of the queue, the
\* place of every task and what is left after a shutdown.
THEOREM Invariance == Spec => []IInv
<1>1. Init => IInv
  BY ShapeInit, BoundInit, CountInit, QueueInit, PlaceInit DEF IInv, Init, LeftInv
<1>2. IInv /\ [Next]_vars => IInv'
  BY ShapeStep, BoundStep, CountStep, QueueStep, PlaceStep, LeftStep DEF IInv
<1>3. QED
  BY <1>1, <1>2, PTL DEF Spec

\* The counters of the pool stay what they count, with threads that cannot be created
\* and workers that leave in whatever way.
THEOREM CountsStayExact == Spec => []CountsAreExact
<1>1. IInv => CountsAreExact
  BY DEF IInv
<1>2. QED
  BY <1>1, Invariance, PTL

\* No task is lost, doubled or run twice.
THEOREM NoTaskIsLost == Spec => []TasksAreAccountedFor
<1>1. ASSUME IInv
      PROVE  TasksAreAccountedFor
  <2> DEFINE inQueue == {m_tasks[i] : i \in DOMAIN m_tasks}
             inHand  == {doing[w] : w \in {v \in Workers : worker[v] = "work"}}
  <2>1. m_tasks \in Seq(1 .. MaxTasks) /\ Len(m_tasks) \in Nat /\ queued \in Nat
        /\ Len(m_tasks) <= queued /\ DOMAIN m_tasks = 1 .. Len(m_tasks)
        /\ \A i \in 1 .. Len(m_tasks) : m_tasks[i] = queued - Len(m_tasks) + i
    BY <1>1, LenProperties DEF IInv, Shape, QueueInv
  <2>2. \A t \in 1 .. queued : t \in Taken \/ t \in inQueue
    <3>1. ASSUME NEW t \in 1 .. queued, t \notin Taken
          PROVE  t \in inQueue
      <4>1. t - (queued - Len(m_tasks)) \in 1 .. Len(m_tasks)
        BY <2>1, <3>1 DEF Taken
      <4>2. m_tasks[t - (queued - Len(m_tasks))] = t
        BY <2>1, <4>1
      <4>3. QED
        BY <2>1, <4>1, <4>2
    <3>2. QED
      BY <3>1
  <2>3. inQueue \subseteq 1 .. queued /\ Taken \subseteq 1 .. queued
    BY <2>1 DEF Taken
  <2>4. inHand \subseteq Taken /\ done \union dropped \subseteq Taken
        /\ Taken \subseteq inHand \union done \union dropped
    BY <1>1 DEF IInv, PlaceInv, WorkingIn
  <2>5. inQueue \union inHand \union done \union dropped = 1 .. queued
    BY <2>2, <2>3, <2>4
  <2>6. Cardinality(WorkingIn(worker)) \in Nat /\ Cardinality(done) \in Nat
        /\ Cardinality(dropped) \in Nat
    BY <1>1, WorkersFinite, TasksFinite DEF IInv, Shape
  <2>7. Len(m_tasks) + Cardinality(WorkingIn(worker)) + Cardinality(done)
          + Cardinality(dropped) = queued
    <3>1. Cardinality(WorkingIn(worker)) + Cardinality(done) + Cardinality(dropped)
            = queued - Len(m_tasks)
      BY <1>1 DEF IInv, PlaceInv
    <3>2. Len(m_tasks) \in Nat /\ queued \in Nat
      BY <2>1
    <3>3. QED
      BY <2>6, <3>1, <3>2
  <2>8. QED
    BY <2>5, <2>7 DEF TasksAreAccountedFor, WorkingIn
<1>2. QED
  BY <1>1, Invariance, PTL

\* All variables keep their types, and no more workers are busy than are counted.
THEOREM TypeCorrect == Spec => []TypeOK
<1>1. ASSUME IInv
      PROVE  TypeOK
  <2>1. /\ m_threadCount = Cardinality(AliveIn(worker)) + leaked
        /\ m_threadBusyCount = Cardinality(BusyIn(worker))
    BY <1>1, CountsAre DEF IInv
  <2>2. /\ Cardinality(AliveIn(worker)) \in Nat /\ Cardinality(BusyIn(worker)) \in Nat
        /\ Cardinality(AliveIn(worker)) <= Cardinality(Workers)
        /\ Cardinality(BusyIn(worker)) <= Cardinality(AliveIn(worker))
    BY WorkersFinite
  <2>3. Cardinality(Workers) \in Nat
    BY FS_CardinalityType, BoundAssumption
  <2>4. leaked \in Nat /\ queued \in 0 .. MaxTasks /\ calls \in 0 .. MaxCalls
        /\ leaked <= queued + calls
    BY <1>1 DEF IInv, Shape, BoundInv
  <2>5. /\ leaked \in 0 .. MaxTasks + MaxCalls
        /\ m_threadCount \in 0 .. Cardinality(Workers) + MaxTasks + MaxCalls
        /\ m_threadBusyCount \in 0 .. m_threadCount
    BY <2>1, <2>2, <2>3, <2>4, BoundAssumption
  <2>6. QED
    BY <1>1, <2>5 DEF IInv, Shape, States, TypeOK
<1>2. QED
  BY <1>1, Invariance, PTL

\* A shutdown that has returned has left no thread, but for a task that came between.
THEOREM ShutdownIsThorough == Spec => []NobodyLeftAfterShutdown
<1>1. IInv => NobodyLeftAfterShutdown
  BY DEF IInv, LeftInv, NobodyLeftAfterShutdown, Alive, AliveIn
<1>2. QED
  BY <1>1, Invariance, PTL

-------------------------------------------------------------------------------
\* Who is awake.  The fairness in FairSpec is of no use to a task that everybody sleeps
\* beside: these are the state invariants that TasksAreRun and ShutdownEnds rest on.

LookingIn(state) == {w \in Workers : state[w] \in {"lock", "woken", "relock"}}

\* A worker waits only if, for each task in the queue, another one is on its way to the
\* queue; and a task in the queue has a worker at all.  (Lowering the limit breaks this,
\* see QueueTaskWakesAWorker.)
NobodySleepsBesideATask ==
  ~m_isTerminating /\ ~lowered =>
    /\ m_tasks # <<>> => Alive # {}
    /\ Waiting(worker) = {} \/ Len(m_tasks) <= Cardinality(LookingIn(worker))

\* Once Shutdown has set m_isTerminating nobody waits on m_cond any more, so that it can
\* join all workers.
NobodySleepsThroughShutdown == m_isTerminating => Waiting(worker) = {}

\* The throttle keeps the limit, so a worker leaves an open pool only if it was lowered.
LimitInv == lowered \/ m_threadCount <= m_threadLimit

\* A pool that tasks come to has a worker.
StaffInv ==
  /\ ~m_isTerminating /\ ~lowered
  /\ \/ m_isRunning \/ owner = "started" \/ m_tasks # <<>>
     \/ \E p \in Producers : producer[p] = "checked"
  => AliveIn(worker) # {}

\* The second half of NobodySleepsBesideATask.
ExpectInv ==
  ~m_isTerminating /\ ~lowered =>
    Waiting(worker) = {} \/ Len(m_tasks) <= Cardinality(LookingIn(worker))

WakeInv == LimitInv /\ StaffInv /\ ExpectInv /\ NobodySleepsThroughShutdown

LEMMA LookingFinite ==
  ASSUME NEW state
  PROVE  IsFiniteSet(LookingIn(state)) /\ Cardinality(LookingIn(state)) \in Nat
<1>1. LookingIn(state) \in SUBSET Workers
  BY DEF LookingIn
<1>2. QED
  BY <1>1, FS_Subset, FS_CardinalityType, BoundAssumption

\* StartWorkerThread adds a worker that looks for a task, if any.
LEMMA StartAddsLooker ==
  ASSUME NEW state \in [Workers -> States], StartWorkerThread(state)
  PROVE  /\ LookingIn(state) \subseteq LookingIn(worker')
         /\ Waiting(worker') = Waiting(state)
         /\ AliveIn(state) \subseteq AliveIn(worker')
<1>1. ASSUME NEW w \in Workers, state[w] = "none", worker' = [state EXCEPT ![w] = "lock"]
      PROVE  /\ LookingIn(state) \subseteq LookingIn(worker')
             /\ Waiting(worker') = Waiting(state)
             /\ AliveIn(state) \subseteq AliveIn(worker')
  <2>1. \A v \in Workers : worker'[v] = IF v = w THEN "lock" ELSE state[v]
    BY <1>1
  <2>2. QED
    BY <1>1, <2>1 DEF LookingIn, Waiting, AliveIn
<1>2. QED
  BY <1>1 DEF StartWorkerThread

\* A signal leaves nobody to wake, or gives the queue one more looker.
LEMMA SignalAddsLooker ==
  ASSUME NEW state \in [Workers -> States], NEW next \in AfterSignal(state)
  PROVE  \/ Waiting(state) = {} /\ next = state
         \/ /\ Waiting(next) \subseteq Waiting(state)
            /\ Cardinality(LookingIn(next)) = Cardinality(LookingIn(state)) + 1
<1>1. CASE Waiting(state) # {}
  <2>1. PICK w \in Waiting(state) : next = Wake(state, {w})
    BY <1>1 DEF AfterSignal
  <2>2. \A v \in Workers : next[v] = IF v = w THEN "woken" ELSE state[v]
    BY <2>1 DEF Wake
  <2>3. LookingIn(next) = LookingIn(state) \union {w} /\ w \notin LookingIn(state)
    BY <2>1, <2>2 DEF LookingIn, Waiting
  <2>4. Cardinality(LookingIn(next)) = Cardinality(LookingIn(state)) + 1
    BY <2>3, LookingFinite, FS_AddElement
  <2>5. QED
    BY <2>2, <2>4 DEF Waiting
<1>2. CASE Waiting(state) = {}
  BY <1>2 DEF AfterSignal
<1>3. QED
  BY <1>1, <1>2

LEMMA BroadcastWakesAll ==
  ASSUME NEW state \in [Workers -> States]
  PROVE  Waiting(AfterBroadcast(state)) = {}
BY DEF AfterBroadcast, Wake, Waiting

\* The limit.
LEMMA LimitStep == IInv /\ WakeInv /\ [Next]_vars => LimitInv'
<1> SUFFICES ASSUME IInv, WakeInv, [Next]_vars
             PROVE  LimitInv'
  OBVIOUS
<1>0. LimitInv /\ m_threadCount \in Int /\ m_threadLimit \in Int
  BY DEF IInv, Shape, WakeInv
<1>1. CASE Start
  BY <1>0, <1>1 DEF Start, StartWorkerThread, LimitInv
<1>2. CASE SetThreadLimit
  <2>1. m_threadLimit' \in Int
    BY <1>2, LimitAssumption DEF SetThreadLimit
  <2>2. /\ m_threadCount' = m_threadCount
        /\ lowered \/ m_threadLimit' < m_threadLimit => lowered'
    BY <1>2 DEF SetThreadLimit
  <2>3. QED
    BY <1>0, <2>1, <2>2 DEF LimitInv
<1>3. CASE Shutdown \/ OwnerContinues
  BY <1>0, <1>3 DEF Shutdown, OwnerContinues, SetRunning, PingWorkers, JoinWorkers,
                    ClearTasks, LimitInv, pool, ghost
<1>4. ASSUME NEW p \in Producers, QueueTask(p) \/ Enqueue(p)
      PROVE  LimitInv'
  BY <1>0, <1>4 DEF QueueTask, Enqueue, ThrottleUp, StartWorkerThread, LimitInv, pool, ghost
<1>5. ASSUME NEW w \in Workers, DoWorkerThread(w) \/ SpuriousWakeup(w)
      PROVE  LimitInv'
  BY <1>0, <1>5 DEF DoWorkerThread, LeaveLoop, Wait, TakeTask, RunTask, SpuriousWakeup,
                    LimitInv, pool, ghost
<1>6. CASE UNCHANGED vars
  BY <1>0, <1>6 DEF vars, LimitInv
<1>7. QED
  BY <1>1, <1>2, <1>3, <1>4, <1>5, <1>6 DEF Next, OwnerCalls

\* A worker leaves only a pool that terminates or whose limit was lowered.
LEMMA LeavesForAReason ==
  ASSUME IInv, LimitInv, NEW w \in Workers, LeaveLoop(w)
  PROVE  m_isTerminating \/ lowered
BY DEF LeaveLoop, Exits, LimitInv, IInv, Shape

\* The staff.
LEMMA StaffStep == IInv /\ WakeInv /\ [Next]_vars => StaffInv'
<1> SUFFICES ASSUME IInv, WakeInv, [Next]_vars, ~m_isTerminating', ~lowered',
                    \/ m_isRunning' \/ owner' = "started" \/ m_tasks' # <<>>
                    \/ \E p \in Producers : producer'[p] = "checked"
             PROVE  AliveIn(worker') # {}
  BY DEF StaffInv
<1>0. StaffInv /\ LimitInv /\ worker \in [Workers -> States]
      /\ producer \in [Producers -> {"idle", "checked"}]
  BY DEF IInv, Shape, WakeInv
<1>1. CASE Start
  <2>1. CASE worker' = worker
    BY <1>0, <1>1, <2>1 DEF Start, StaffInv
  <2>2. CASE worker' # worker
    <3>1. PICK w \in Workers : worker' = [worker EXCEPT ![w] = "lock"]
      BY <1>1, <2>2 DEF Start, StartWorkerThread
    <3>2. worker'[w] = "lock"
      BY <1>0, <3>1
    <3>3. QED
      BY <3>2 DEF AliveIn
  <2>3. QED
    BY <2>1, <2>2
<1>2. CASE SetThreadLimit \/ SetRunning \/ JoinWorkers
  BY <1>0, <1>2 DEF SetThreadLimit, SetRunning, JoinWorkers, StaffInv, ghost
<1>3. CASE PingWorkers
  <2>1. AliveIn(worker') = AliveIn(worker)
    BY <1>0, <1>3, BroadcastRouses, RousedKeeps DEF PingWorkers
  <2>2. QED
    BY <1>0, <1>3, <2>1 DEF PingWorkers, StaffInv, pool, ghost
<1>4. CASE ClearTasks
  BY <1>0, <1>4 DEF ClearTasks, StaffInv
<1>5. CASE Shutdown
  BY <1>5 DEF Shutdown
<1>6. ASSUME NEW p \in Producers, QueueTask(p)
      PROVE  AliveIn(worker') # {}
  BY <1>0, <1>6 DEF QueueTask, StaffInv, pool, ghost
<1>7. ASSUME NEW p \in Producers, Enqueue(p)
      PROVE  AliveIn(worker') # {}
  <2>1. PICK woken \in AfterSignal(worker) :
          IF ThrottleUp(Len(m_tasks')) THEN StartWorkerThread(woken)
          ELSE worker' = woken /\ UNCHANGED <<m_threadCount, leaked>>
    BY <1>7 DEF Enqueue
  <2>2. AliveIn(woken) = AliveIn(worker) /\ woken \in [Workers -> States]
    BY <1>0, SignalRouses, RousedKeeps DEF Roused
  <2>3. AliveIn(woken) \subseteq AliveIn(worker')
    BY <2>1, <2>2, StartAddsLooker
  <2>4. QED
    BY <1>0, <1>7, <2>2, <2>3 DEF Enqueue, StaffInv
<1>8. ASSUME NEW w \in Workers, DoWorkerThread(w) \/ SpuriousWakeup(w)
      PROVE  AliveIn(worker') # {}
  <2>1. ~LeaveLoop(w)
    BY <1>0, LeavesForAReason DEF LeaveLoop, ghost
  <2>2. worker'[w] # "none"
    BY <1>0, <1>8, <2>1 DEF DoWorkerThread, Wait, TakeTask, RunTask, SpuriousWakeup
  <2>3. QED
    BY <2>2 DEF AliveIn
<1>9. CASE UNCHANGED vars
  BY <1>0, <1>9 DEF vars, StaffInv
<1>10. QED
  BY <1>1, <1>2, <1>3, <1>4, <1>5, <1>6, <1>7, <1>8, <1>9
     DEF Next, OwnerCalls, OwnerContinues

\* The lookers.
LEMMA ExpectStep == IInv /\ WakeInv /\ [Next]_vars => ExpectInv'
<1> SUFFICES ASSUME IInv, WakeInv, [Next]_vars, ~m_isTerminating', ~lowered'
             PROVE  Waiting(worker') = {} \/ Len(m_tasks') <= Cardinality(LookingIn(worker'))
  BY DEF ExpectInv
<1> DEFINE Goal == Waiting(worker') = {} \/ Len(m_tasks') <= Cardinality(LookingIn(worker'))
<1>0. ExpectInv /\ LimitInv /\ worker \in [Workers -> States]
  BY DEF IInv, Shape, WakeInv
<1>a. m_tasks \in Seq(1 .. MaxTasks) /\ Len(m_tasks) \in Nat
  BY LenProperties DEF IInv, Shape
<1>b. ASSUME ~m_isTerminating, ~lowered, UNCHANGED m_tasks,
             Waiting(worker') \subseteq Waiting(worker),
             LookingIn(worker) \subseteq LookingIn(worker')
      PROVE  Goal
  <2>1. Cardinality(LookingIn(worker)) <= Cardinality(LookingIn(worker'))
    BY <1>b, LookingFinite, FS_Subset
  <2>2. Cardinality(LookingIn(worker)) \in Nat /\ Cardinality(LookingIn(worker')) \in Nat
    BY LookingFinite
  <2>3. QED
    BY <1>0, <1>a, <1>b, <2>1, <2>2 DEF ExpectInv
<1>c. ASSUME m_tasks' = <<>>
      PROVE  Goal
  BY <1>c, LookingFinite, EmptySeq
<1>1. CASE Start
  BY <1>0, <1>1, <1>b, StartAddsLooker DEF Start
<1>2. CASE SetThreadLimit \/ SetRunning \/ JoinWorkers
  <2>1. UNCHANGED <<m_isTerminating, m_tasks, worker>>
    BY <1>2 DEF SetThreadLimit, SetRunning, JoinWorkers
  <2>2. lowered => lowered'
    BY <1>2 DEF SetThreadLimit, SetRunning, JoinWorkers, ghost
  <2>3. QED
    BY <1>b, <2>1, <2>2
<1>3. CASE PingWorkers
  BY <1>0, <1>3, BroadcastWakesAll DEF PingWorkers
<1>4. CASE ClearTasks
  BY <1>4, <1>c DEF ClearTasks
<1>5. CASE Shutdown
  BY <1>5 DEF Shutdown
<1>6. ASSUME NEW p \in Producers, QueueTask(p)
      PROVE  Goal
  BY <1>6, <1>b DEF QueueTask, pool, ghost
<1>7. ASSUME NEW p \in Producers, Enqueue(p)
      PROVE  Goal
  <2>1. PICK woken \in AfterSignal(worker) :
          IF ThrottleUp(Len(m_tasks')) THEN StartWorkerThread(woken)
          ELSE worker' = woken /\ UNCHANGED <<m_threadCount, leaked>>
    BY <1>7 DEF Enqueue
  <2>2. woken \in [Workers -> States]
    BY <1>0, SignalRouses DEF Roused
  <2>3. LookingIn(woken) \subseteq LookingIn(worker') /\ Waiting(worker') = Waiting(woken)
    BY <2>1, <2>2, StartAddsLooker
  <2>4. CASE Waiting(worker) = {} /\ woken = worker
    BY <2>3, <2>4
  <2>5. CASE /\ Waiting(woken) \subseteq Waiting(worker)
             /\ Cardinality(LookingIn(woken)) = Cardinality(LookingIn(worker)) + 1
    <3>1. Len(m_tasks') = Len(m_tasks) + 1
      <4>1. queued + 1 \in 1 .. MaxTasks
        <5>1. queued + 1 <= MaxTasks
          BY <1>7, RoomForOne DEF IInv, Enqueue
        <5>2. queued \in Nat
          BY BoundAssumption DEF IInv, Shape
        <5>3. QED
          BY <5>1, <5>2, BoundAssumption
      <4>2. QED
        BY <1>a, <1>7, <4>1, AppendProperties DEF Enqueue
    <3>2. Cardinality(LookingIn(woken)) <= Cardinality(LookingIn(worker'))
      BY <2>3, LookingFinite, FS_Subset
    <3>3. Cardinality(LookingIn(worker)) \in Nat /\ Cardinality(LookingIn(worker')) \in Nat
      BY LookingFinite
    <3>4. Waiting(worker) = {} \/ Len(m_tasks) <= Cardinality(LookingIn(worker))
      BY <1>0, <1>7 DEF Enqueue, ExpectInv
    <3>5. QED
      BY <1>a, <2>3, <2>5, <3>1, <3>2, <3>3, <3>4
  <2>6. QED
    BY <1>0, <2>4, <2>5, SignalAddsLooker
<1>8. ASSUME NEW w \in Workers, Wait(w)
      PROVE  Goal
  BY <1>8, <1>c DEF Wait
<1>9. ASSUME NEW w \in Workers, TakeTask(w)
      PROVE  Goal
  <2>1. \A v \in Workers : worker'[v] = IF v = w THEN "work" ELSE worker[v]
    BY <1>0, <1>9 DEF TakeTask
  <2>2. LookingIn(worker') = LookingIn(worker) \ {w} /\ w \in LookingIn(worker)
        /\ Waiting(worker') = Waiting(worker)
    BY <1>9, <2>1 DEF TakeTask, HasLock, LookingIn, Waiting
  <2>3. Cardinality(LookingIn(worker')) = Cardinality(LookingIn(worker)) - 1
    BY <2>2, LookingFinite, FS_RemoveElement
  <2>4. Len(m_tasks') = Len(m_tasks) - 1
    BY <1>a, <1>9, HeadTailProperties DEF TakeTask
  <2>5. Waiting(worker) = {} \/ Len(m_tasks) <= Cardinality(LookingIn(worker))
    BY <1>0, <1>9 DEF TakeTask, ExpectInv, ghost
  <2>6. Cardinality(LookingIn(worker)) \in Nat
    BY LookingFinite
  <2>7. QED
    BY <1>a, <2>2, <2>3, <2>4, <2>5, <2>6
<1>10. ASSUME NEW w \in Workers, LeaveLoop(w)
       PROVE  Goal
  BY <1>0, <1>10, LeavesForAReason DEF LeaveLoop, ghost
<1>11. ASSUME NEW w \in Workers, RunTask(w) \/ SpuriousWakeup(w)
       PROVE  Goal
  <2>1. PICK s \in {"relock", "woken"} : worker' = [worker EXCEPT ![w] = s]
    BY <1>11 DEF RunTask, SpuriousWakeup
  <2>2. \A v \in Workers : worker'[v] = IF v = w THEN s ELSE worker[v]
    BY <1>0, <2>1
  <2>3. Waiting(worker') \subseteq Waiting(worker) /\ LookingIn(worker) \subseteq LookingIn(worker')
    BY <2>2 DEF Waiting, LookingIn
  <2>4. UNCHANGED <<m_tasks, m_isTerminating, lowered>>
    BY <1>11 DEF RunTask, SpuriousWakeup, pool, ghost
  <2>5. QED
    BY <1>b, <2>3, <2>4
<1>12. CASE UNCHANGED vars
  BY <1>12, <1>b DEF vars
<1>13. QED
  BY <1>1, <1>2, <1>3, <1>4, <1>5, <1>6, <1>7, <1>8, <1>9, <1>10, <1>11, <1>12
     DEF Next, OwnerCalls, OwnerContinues, DoWorkerThread

\* The broadcast of Shutdown.
LEMMA AwakeStep == IInv /\ WakeInv /\ [Next]_vars => NobodySleepsThroughShutdown'
<1> SUFFICES ASSUME IInv, WakeInv, [Next]_vars, m_isTerminating'
             PROVE  Waiting(worker') = {}
  BY DEF NobodySleepsThroughShutdown, Waiting
<1>0. NobodySleepsThroughShutdown /\ worker \in [Workers -> States]
  BY DEF IInv, Shape, WakeInv
<1>1. CASE Shutdown \/ PingWorkers
  BY <1>0, <1>1, BroadcastWakesAll DEF Shutdown, PingWorkers
<1>2. CASE Start
  BY <1>0, <1>2, StartAddsLooker DEF Start, NobodySleepsThroughShutdown
<1>3. CASE SetThreadLimit \/ SetRunning \/ JoinWorkers \/ ClearTasks
  BY <1>0, <1>3 DEF SetThreadLimit, SetRunning, JoinWorkers, ClearTasks, ghost,
                    NobodySleepsThroughShutdown
<1>4. ASSUME NEW p \in Producers, QueueTask(p)
      PROVE  Waiting(worker') = {}
  BY <1>0, <1>4 DEF QueueTask, pool, ghost, NobodySleepsThroughShutdown
<1>5. ASSUME NEW p \in Producers, Enqueue(p)
      PROVE  Waiting(worker') = {}
  <2>1. Waiting(worker) = {}
    BY <1>0, <1>5 DEF Enqueue, NobodySleepsThroughShutdown
  <2>2. \E woken \in {worker} :
          IF ThrottleUp(Len(m_tasks')) THEN StartWorkerThread(woken)
          ELSE worker' = woken /\ UNCHANGED <<m_threadCount, leaked>>
    BY <1>5, <2>1 DEF Enqueue, AfterSignal
  <2>3. QED
    BY <1>0, <2>1, <2>2, StartAddsLooker
<1>6. ASSUME NEW w \in Workers, DoWorkerThread(w) \/ SpuriousWakeup(w)
      PROVE  Waiting(worker') = {}
  <2>1. m_isTerminating
    BY <1>6 DEF DoWorkerThread, LeaveLoop, Wait, TakeTask, RunTask, SpuriousWakeup, pool
  <2>2. ~Wait(w)
    BY <2>1 DEF Wait, Exits
  <2>3. PICK s \in States \ {"wait"} : worker' = [worker EXCEPT ![w] = s]
    BY <1>6, <2>2 DEF DoWorkerThread, LeaveLoop, TakeTask, RunTask, SpuriousWakeup, States
  <2>4. \A v \in Workers : worker'[v] = IF v = w THEN s ELSE worker[v]
    BY <1>0, <2>3
  <2>5. QED
    BY <1>0, <2>1, <2>3, <2>4 DEF NobodySleepsThroughShutdown, Waiting
<1>7. CASE UNCHANGED vars
  BY <1>0, <1>7 DEF vars, NobodySleepsThroughShutdown
<1>8. QED
  BY <1>1, <1>2, <1>3, <1>4, <1>5, <1>6, <1>7 DEF Next, OwnerCalls, OwnerContinues

LEMMA WakeInvariance == Spec => []WakeInv
<1>1. Init => WakeInv
  <2> SUFFICES ASSUME Init PROVE WakeInv
    OBVIOUS
  <2>1. Waiting(worker) = {}
    BY DEF Init, Waiting
  <2>2. LimitInv
    BY LimitAssumption DEF Init, LimitInv
  <2>3. QED
    BY <2>1, <2>2 DEF Init, WakeInv, StaffInv, ExpectInv, NobodySleepsThroughShutdown
<1>2. IInv /\ WakeInv /\ [Next]_vars => WakeInv'
  BY LimitStep, StaffStep, ExpectStep, AwakeStep DEF WakeInv
<1>3. QED
  BY <1>1, <1>2, Invariance, PTL DEF Spec

\* As long as the limit is not lowered no worker sleeps while a task has nobody who comes
\* for it: the signals of QueueTask are enough, also with threads that fail to start.
THEOREM TasksAreExpected == Spec => []NobodySleepsBesideATask
<1>1. WakeInv => NobodySleepsBesideATask
  BY DEF WakeInv, StaffInv, ExpectInv, NobodySleepsBesideATask, Alive, AliveIn
<1>2. QED
  BY <1>1, WakeInvariance, PTL

\* Shutdown joins no worker that sleeps.
THEOREM ShutdownWakesAll == Spec => []NobodySleepsThroughShutdown
<1>1. WakeInv => NobodySleepsThroughShutdown
  BY DEF WakeInv
<1>2. QED
  BY <1>1, WakeInvariance, PTL
===============================================================================
