------------------------------ MODULE ThreadPool ------------------------------
(***************************************************************************)
(* SCXThreadPool: an owner that starts the pool, changes its limit and     *)
(* shuts it down, producers that queue tasks, and the workers.  What a     *)
(* thread does between locking and unlocking m_cond is one step; what it   *)
(* does without the lock (m_isRunning in QueueTask, m_threadLimit in       *)
(* SetThreadLimit, all of Start and the end of Shutdown) is a step of its  *)
(* own.  Tasks are numbered in the order they are queued.                  *)
(***************************************************************************)
EXTENDS Integers, Sequences, FiniteSets

CONSTANTS
  Workers,       \* threads; one that ended may be used again
  Producers,     \* threads that call QueueTask
  DefaultLimit,  \* m_threadLimit of a new pool
  Limits,        \* arguments of SetThreadLimit
  MaxTasks,      \* bound: tasks queued
  MaxCalls       \* bound: calls of Start, SetThreadLimit and Shutdown

ASSUME LimitAssumption ==
  /\ DefaultLimit \in 1 .. 256
  /\ Limits \subseteq 1 .. 256
ASSUME BoundAssumption ==
  /\ IsFiniteSet(Workers) /\ IsFiniteSet(Producers)
  /\ \A limit \in Limits \union {DefaultLimit} : limit <= Cardinality(Workers)
  /\ MaxTasks \in Nat /\ MaxCalls \in Nat
VARIABLES
  m_tasks,
  m_threadCount,
  m_threadLimit,
  m_threadBusyCount,
  m_isRunning,
  m_isTerminating,
  worker,      \* "none", "lock" (needs m_cond), "wait", "woken", "work", "relock"
  doing,       \* the task a worker has taken, 0 if none
  owner,       \* "idle", "started", "ping", "join", "clear"
  producer,    \* "idle", "checked"
  queued,      \* bookkeeping: tasks accepted so far
  done,        \* bookkeeping: tasks that were run to their end
  dropped,     \* bookkeeping: tasks that Shutdown cleared
  orphans,     \* bookkeeping: tasks queued when m_isTerminating was set
  leaked,      \* bookkeeping: threads that were counted but could not be created
  lowered,     \* bookkeeping: the limit was lowered
  calls        \* bound: calls of the owner so far

pool  == <<m_tasks, m_threadCount, m_threadLimit, m_threadBusyCount, m_isRunning,
           m_isTerminating>>
ghost == <<queued, done, dropped, orphans, leaked, lowered>>
vars  == <<m_tasks, m_threadCount, m_threadLimit, m_threadBusyCount, m_isRunning,
           m_isTerminating, worker, doing, owner, producer, queued, done, dropped,
           orphans, leaked, lowered, calls>>

-------------------------------------------------------------------------------
Init ==
  /\ m_tasks = <<>>
  /\ m_threadCount = 0
  /\ m_threadLimit = DefaultLimit
  /\ m_threadBusyCount = 0
  /\ m_isRunning = FALSE
  /\ m_isTerminating = FALSE
  /\ worker = [w \in Workers |-> "none"]
  /\ doing = [w \in Workers |-> 0]
  /\ owner = "idle"
  /\ producer = [p \in Producers |-> "idle"]
  /\ queued = 0
  /\ done = {}
  /\ dropped = {}
  /\ orphans = {}
  /\ leaked = 0
  /\ lowered = FALSE
  /\ calls = 0

-------------------------------------------------------------------------------
\* The condition m_cond, on the states of the workers.

Waiting(state) == {w \in Workers : state[w] = "wait"}
Wake(state, who) == [w \in Workers |-> IF w \in who THEN "woken" ELSE state[w]]

\* pthread_cond_signal wakes one thread that waits, if there is one.
AfterSignal(state) ==
  IF Waiting(state) = {} THEN {state} ELSE {Wake(state, {w}) : w \in Waiting(state)}

\* Mutant: Broadcast wakes one thread only.
BroadcastOne(state) == CHOOSE next \in AfterSignal(state) : TRUE

AfterBroadcast(state) == Wake(state, Waiting(state))

\* pthread_cond_wait may return without a signal.
SpuriousWakeup(w) ==
  /\ worker[w] = "wait"
  /\ worker' = [worker EXCEPT ![w] = "woken"]
  /\ UNCHANGED <<pool, doing, owner, producer, ghost, calls>>

\* StartWorkerThread: the count goes up before the thread is there, and stays up when
\* pthread_create throws.  state is that of the workers before.
StartWorkerThread(state) ==
  /\ m_threadCount' = m_threadCount + 1
  /\ \/ \E w \in Workers :
          /\ state[w] = "none"
          /\ worker' = [state EXCEPT ![w] = "lock"]
          /\ UNCHANGED leaked
     \/ worker' = state /\ leaked' = leaked + 1

-------------------------------------------------------------------------------
\* The owner.

\* Start runs without the lock; m_isRunning is set once the worker is there.
Start ==
  /\ owner = "idle"
  /\ calls < MaxCalls
  /\ ~m_isRunning
  /\ m_threadCount < m_threadLimit
  /\ StartWorkerThread(worker)
  /\ owner' = IF worker' = worker THEN "idle" ELSE "started"
  /\ calls' = calls + 1
  /\ UNCHANGED <<m_tasks, m_threadLimit, m_threadBusyCount, m_isRunning,
                 m_isTerminating, doing, producer, queued, done, dropped, orphans,
                 lowered>>

SetRunning ==
  /\ owner = "started"
  /\ m_isRunning' = TRUE
  /\ owner' = "idle"
  /\ UNCHANGED <<m_tasks, m_threadCount, m_threadLimit, m_threadBusyCount,
                 m_isTerminating, worker, doing, producer, ghost, calls>>

\* SetThreadLimit writes the limit without the lock ...
SetThreadLimit ==
  /\ owner = "idle"
  /\ calls < MaxCalls
  /\ m_threadLimit' \in Limits
  /\ lowered' = (lowered \/ m_threadLimit' < m_threadLimit)
  /\ owner' = "ping"
  /\ calls' = calls + 1
  /\ UNCHANGED <<m_tasks, m_threadCount, m_threadBusyCount, m_isRunning,
                 m_isTerminating, worker, doing, producer, queued, done, dropped,
                 orphans, leaked>>

\* ... and pings the workers with it.
PingWorkers ==
  /\ owner = "ping"
  /\ worker' = AfterBroadcast(worker)
  /\ owner' = "idle"
  /\ UNCHANGED <<pool, doing, producer, ghost, calls>>

Shutdown ==
  /\ owner = "idle"
  /\ calls < MaxCalls
  /\ m_isRunning
  /\ m_isTerminating' = TRUE
  /\ worker' = AfterBroadcast(worker)
  /\ owner' = "join"
  /\ calls' = calls + 1
  /\ UNCHANGED <<m_tasks, m_threadCount, m_threadLimit, m_threadBusyCount,
                 m_isRunning, doing, producer, ghost>>

\* Mutant: Shutdown does not wait for the workers.
ForgetWorkers ==
  /\ owner = "join"
  /\ m_isRunning' = FALSE
  /\ owner' = "clear"
  /\ UNCHANGED <<m_tasks, m_threadCount, m_threadLimit, m_threadBusyCount,
                 m_isTerminating, worker, doing, producer, ghost, calls>>

\* RequestTerminate sets a flag that no worker reads; Wait joins the thread.
JoinWorkers ==
  /\ owner = "join"
  /\ \A w \in Workers : worker[w] = "none"
  /\ m_isRunning' = FALSE
  /\ owner' = "clear"
  /\ UNCHANGED <<m_tasks, m_threadCount, m_threadLimit, m_threadBusyCount,
                 m_isTerminating, worker, doing, producer, ghost, calls>>

\* m_hThreads.clear() and m_tasks.clear(), again without the lock.
ClearTasks ==
  /\ owner = "clear"
  /\ m_tasks' = <<>>
  /\ dropped' = dropped \union {m_tasks[i] : i \in DOMAIN m_tasks}
  /\ owner' = "idle"
  /\ UNCHANGED <<m_threadCount, m_threadLimit, m_threadBusyCount, m_isRunning,
                 m_isTerminating, worker, doing, producer, queued, done, orphans, leaked,
                 lowered, calls>>

-------------------------------------------------------------------------------
\* A producer.

\* m_isRunning is read without the lock.
QueueTask(p) ==
  /\ producer[p] = "idle"
  /\ m_isRunning
  /\ queued + Cardinality({q \in Producers : producer[q] = "checked"}) < MaxTasks
  /\ producer' = [producer EXCEPT ![p] = "checked"]
  /\ UNCHANGED <<pool, worker, doing, owner, ghost, calls>>

\* The condition to start one more worker, when n tasks are in the queue.
ThrottleUp(n) == m_threadBusyCount + n > m_threadCount /\ m_threadCount < m_threadLimit

\* The locked part: queue the task, wake a worker, and start one more if needed.
Enqueue(p) ==
  /\ producer[p] = "checked"
  /\ producer' = [producer EXCEPT ![p] = "idle"]
  /\ queued' = queued + 1
  /\ m_tasks' = Append(m_tasks, queued')
  /\ \E woken \in AfterSignal(worker) :
       IF ThrottleUp(Len(m_tasks'))
       THEN StartWorkerThread(woken)
       ELSE worker' = woken /\ UNCHANGED <<m_threadCount, leaked>>
  /\ orphans' = IF m_isTerminating THEN orphans \union {queued'} ELSE orphans
  /\ UNCHANGED <<m_threadLimit, m_threadBusyCount, m_isRunning, m_isTerminating,
                 doing, owner, done, dropped, lowered, calls>>

-------------------------------------------------------------------------------
\* A worker that holds the lock: it is at the top of the loop, or awake from Wait.

\* The loop ends when the pool terminates; the limit is only compared by a worker that
\* was awake from Wait or has found a task.
Exits(w) ==
  \/ m_isTerminating
  \/ m_threadCount > m_threadLimit /\ (worker[w] = "woken" \/ m_tasks # <<>>)

HasLock(w) == worker[w] \in {"lock", "woken", "relock"}

\* Mutant: a worker that has run a task stays counted as busy.
BusyForEver(w, and) == m_threadBusyCount + and

\* A worker that has run a task counts itself out once it has the lock again.
Busy(w, and) ==
  IF worker[w] = "relock" /\ m_threadBusyCount >= 1
  THEN m_threadBusyCount - 1 + and
  ELSE m_threadBusyCount + and

\* Mutant: the worker that ends is not counted out.
LeaveUncounted(w) ==
  /\ HasLock(w)
  /\ Exits(w)
  /\ worker' = [worker EXCEPT ![w] = "none"]
  /\ m_threadBusyCount' = Busy(w, 0)
  /\ UNCHANGED <<m_tasks, m_threadCount, m_threadLimit, m_isRunning, m_isTerminating,
                 doing, owner, producer, ghost, calls>>

LeaveLoop(w) ==
  /\ HasLock(w)
  /\ Exits(w)
  /\ worker' = [worker EXCEPT ![w] = "none"]
  /\ m_threadCount' = m_threadCount - 1
  /\ m_threadBusyCount' = Busy(w, 0)
  /\ UNCHANGED <<m_tasks, m_threadLimit, m_isRunning, m_isTerminating, doing, owner,
                 producer, ghost, calls>>

\* Mutant: a worker may wait without a look at the queue.
WaitUnseeing(w) ==
  /\ HasLock(w)
  /\ ~Exits(w)
  /\ worker' = [worker EXCEPT ![w] = "wait"]
  /\ m_threadBusyCount' = Busy(w, 0)
  /\ UNCHANGED <<m_tasks, m_threadCount, m_threadLimit, m_isRunning, m_isTerminating,
                 doing, owner, producer, ghost, calls>>

Wait(w) ==
  /\ HasLock(w)
  /\ ~Exits(w)
  /\ m_tasks = <<>>
  /\ worker' = [worker EXCEPT ![w] = "wait"]
  /\ m_threadBusyCount' = Busy(w, 0)
  /\ UNCHANGED <<m_tasks, m_threadCount, m_threadLimit, m_isRunning, m_isTerminating,
                 doing, owner, producer, ghost, calls>>

\* Mutant: the task is not erased from the queue.
TakeCopy(w) ==
  /\ HasLock(w)
  /\ ~Exits(w)
  /\ m_tasks # <<>>
  /\ doing' = [doing EXCEPT ![w] = Head(m_tasks)]
  /\ worker' = [worker EXCEPT ![w] = "work"]
  /\ m_threadBusyCount' = Busy(w, 1)
  /\ UNCHANGED <<m_tasks, m_threadCount, m_threadLimit, m_isRunning, m_isTerminating,
                 owner, producer, ghost, calls>>

\* Mutant: a worker that is not woken by Shutdown takes the next task.
TakeWhileTerminating(w) ==
  /\ HasLock(w)
  /\ m_tasks # <<>>
  /\ m_tasks' = Tail(m_tasks)
  /\ doing' = [doing EXCEPT ![w] = Head(m_tasks)]
  /\ worker' = [worker EXCEPT ![w] = "work"]
  /\ m_threadBusyCount' = Busy(w, 1)
  /\ UNCHANGED <<m_threadCount, m_threadLimit, m_isRunning, m_isTerminating, owner,
                 producer, ghost, calls>>

TakeTask(w) ==
  /\ HasLock(w)
  /\ ~Exits(w)
  /\ m_tasks # <<>>
  /\ m_tasks' = Tail(m_tasks)
  /\ doing' = [doing EXCEPT ![w] = Head(m_tasks)]
  /\ worker' = [worker EXCEPT ![w] = "work"]
  /\ m_threadBusyCount' = Busy(w, 1)
  /\ UNCHANGED <<m_threadCount, m_threadLimit, m_isRunning, m_isTerminating, owner,
                 producer, ghost, calls>>

\* The task runs without the lock, whether or not it throws.
RunTask(w) ==
  /\ worker[w] = "work"
  /\ worker' = [worker EXCEPT ![w] = "relock"]
  /\ done' = done \union {doing[w]}
  /\ doing' = [doing EXCEPT ![w] = 0]
  /\ UNCHANGED <<pool, owner, producer, queued, dropped, orphans, leaked, lowered, calls>>

-------------------------------------------------------------------------------
OwnerContinues == SetRunning \/ PingWorkers \/ JoinWorkers \/ ClearTasks
OwnerCalls == Start \/ SetThreadLimit \/ Shutdown
DoWorkerThread(w) == LeaveLoop(w) \/ Wait(w) \/ TakeTask(w) \/ RunTask(w)

Next ==
  \/ OwnerContinues
  \/ OwnerCalls
  \/ \E p \in Producers : QueueTask(p) \/ Enqueue(p)
  \/ \E w \in Workers : DoWorkerThread(w) \/ SpuriousWakeup(w)

Spec == Init /\ [][Next]_vars

\* A call that has begun goes on, a worker that wants the lock comes to have it, and
\* tasks end; nobody has to make a call, and nobody is woken without a reason.
FairSpec ==
  /\ Spec
  /\ WF_vars(OwnerContinues)
  /\ \A p \in Producers : WF_vars(Enqueue(p))
  /\ \A w \in Workers : WF_vars(DoWorkerThread(w))

-------------------------------------------------------------------------------
\* Properties.

Alive == {w \in Workers : worker[w] # "none"}

\* Types of all variables; never more workers are busy than there are.
TypeOK ==
  /\ m_tasks \in Seq(1 .. MaxTasks)
  /\ m_threadCount \in 0 .. Cardinality(Workers) + MaxTasks + MaxCalls
  /\ m_threadLimit \in 1 .. 256
  /\ m_threadBusyCount \in 0 .. m_threadCount
  /\ m_isRunning \in BOOLEAN
  /\ m_isTerminating \in BOOLEAN
  /\ worker \in [Workers -> {"none", "lock", "wait", "woken", "work", "relock"}]
  /\ doing \in [Workers -> 0 .. MaxTasks]
  /\ owner \in {"idle", "started", "ping", "join", "clear"}
  /\ producer \in [Producers -> {"idle", "checked"}]
  /\ queued \in 0 .. MaxTasks
  /\ done \subseteq 1 .. MaxTasks
  /\ dropped \subseteq 1 .. MaxTasks
  /\ orphans \subseteq 1 .. MaxTasks
  /\ leaked \in 0 .. MaxTasks + MaxCalls
  /\ lowered \in BOOLEAN
  /\ calls \in 0 .. MaxCalls

\* m_threadCount is the number of threads that run, but for those that could not be
\* created, and m_threadBusyCount the number of those that are out of the lock for a
\* task, whichever way a worker leaves the loop: the decision to start one more thread
\* rests on both.
CountsAreExact ==
  /\ m_threadCount = Cardinality(Alive) + leaked
  /\ m_threadBusyCount = Cardinality({w \in Workers : worker[w] \in {"work", "relock"}})

\* Whatever producers, workers and Shutdown do, a task that QueueTask accepted is in
\* the queue, in the hands of one worker, run, or dropped by Shutdown, once.
TasksAreAccountedFor ==
  LET inQueue == {m_tasks[i] : i \in DOMAIN m_tasks}
      inHand  == {doing[w] : w \in {v \in Workers : worker[v] = "work"}}
  IN /\ inQueue \union inHand \union done \union dropped = 1 .. queued
     /\ Len(m_tasks) + Cardinality({w \in Workers : worker[w] = "work"})
          + Cardinality(done) + Cardinality(dropped) = queued

\* The pool as those see it who queue tasks.
Fifo == INSTANCE TaskQueue WITH
  queue <- m_tasks,
  running <- {doing[w] : w \in {v \in Workers : worker[v] = "work"}},
  finished <- done,
  accepted <- queued,
  closed <- m_isTerminating,
  Widths <- Limits \union {DefaultLimit}

\* Whatever the producers, the workers, SetThreadLimit and Shutdown do at the same time,
\* and whichever thread a signal wakes: a task begins once and in its turn, never more
\* at a time than the widest limit, and none from the moment Shutdown has set
\* m_isTerminating, also when a worker is awake or returns from a task at that moment;
\* tasks are dropped only when no other is still run.
ImplementsTaskQueue == Fifo!Spec

\* When Shutdown has returned no thread of the pool is left, unless a QueueTask that
\* had passed its check of m_isRunning before has started one.
NobodyLeftAfterShutdown ==
  m_isTerminating /\ ~m_isRunning /\ owner = "idle" => Alive = {} \/ orphans # {}

\* A task that was queued before a Shutdown began is run, or dropped by the Shutdown,
\* unless the limit was lowered.
TasksAreRun ==
  \A t \in 1 .. MaxTasks :
    (queued >= t) ~> (t \in done \union dropped \union orphans \/ lowered)

\* Shutdown returns: every worker notices it, the ones that wait as well as those that
\* are started while it begins.
ShutdownEnds == (owner = "join") ~> (owner = "idle")

-------------------------------------------------------------------------------
\* What the source says and the code does not do.

\* scxthreadpool.cpp:244 "Add an element to the queue, and wake a worker to handle it":
\* the same as TasksAreRun, also when the limit was lowered.
QueueTaskWakesAWorker ==
  \A t \in 1 .. MaxTasks : (queued >= t) ~> (t \in done \union dropped \union orphans)
===============================================================================
