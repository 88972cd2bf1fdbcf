------------------------------ MODULE ThreadLocks ------------------------------
(***************************************************************************)
(* SCXThreadLockHandle, the reference-counted lock with an owner, and      *)
(* SCXThreadLockFactory, which gives the handles of one name one lock.     *)
(*                                                                         *)
(* Every thread gets a handle (from the factory, directly, or as a copy of *)
(* another thread's), makes SCXThreadLock guards on it, and destroys it.   *)
(* A step is one access to shared memory: HaveLock reads m_lockCount and   *)
(* m_threadID in two steps without the lock, and Lock and Unlock write     *)
(* them in two.  The lock of the factory itself is of the same kind; here  *)
(* it is taken and released in one step each.                              *)
(***************************************************************************)
EXTENDS Naturals, FiniteSets

CONSTANTS
  Threads,
  Names,      \* names of locks, none of them empty
  Anonymous,  \* the empty name, which the factory does not keep
  NoName,     \* the name of an object that is not there
  Addresses,  \* the objects of SCXThreadLockHandleImpl there may be at once
  NoThread,
  MaxGuards,  \* bound: SCXThreadLock objects a thread has at once
  MaxOps      \* bound: handles and guards a thread makes in its life

ASSUME NullAssumption == NoThread \notin Threads /\ {NoName, Anonymous} \cap Names = {}
                         /\ NoName # Anonymous
ASSUME BoundAssumption == Addresses \in Nat /\ MaxGuards \in Nat /\ MaxOps \in Nat

\* SCXThreadLockHandleImpl objects by address; 0 is the null pointer.
Impls  == 1 .. Addresses
NoImpl == 0

VARIABLES
  name,       \* m_name of an object, of any address
  global,     \* created by the factory (m_name of others is not in the map)
  recursive,  \* m_lockIsRecursive
  refs,       \* m_ref, 0 where there is no object
  mutex,      \* the thread that has the native mutex m_lock
  depth,      \* how often that thread has it
  count,      \* m_lockCount
  tid,        \* m_threadID
  m_locks,    \* the map of the factory, from name to object
  factory,    \* the thread that holds the lock of the factory
  pc,         \* where a thread is; "idle" has no handle
  handle,     \* the object a thread's handle and its guards refer to
  guards,     \* SCXThreadLock objects of a thread, also the one in the making
  trying,     \* the thread is in TryLock and not in Lock
  ops,        \* handles and guards a thread has made
  raced       \* bookkeeping: objects two of whose handles were destroyed at a time

objects == <<name, global, recursive>>
native  == <<mutex, depth>>
owner   == <<count, tid>>
locals  == <<handle, guards, trying, ops>>
vars == <<name, global, recursive, refs, mutex, depth, count, tid, m_locks, factory,
          pc, handle, guards, trying, ops, raced>>

Init ==
  /\ name = [i \in Impls |-> NoName]
  /\ global = [i \in Impls |-> FALSE]
  /\ recursive = [i \in Impls |-> FALSE]
  /\ refs = [i \in Impls |-> 0]
  /\ mutex = [i \in Impls |-> NoThread]
  /\ depth = [i \in Impls |-> 0]
  /\ count = [i \in Impls |-> 0]
  /\ tid = [i \in Impls |-> NoThread]
  /\ m_locks = [n \in Names |-> NoImpl]
  /\ factory = NoThread
  /\ pc = [t \in Threads |-> "idle"]
  /\ handle = [t \in Threads |-> NoImpl]
  /\ guards = [t \in Threads |-> 0]
  /\ trying = [t \in Threads |-> FALSE]
  /\ ops = [t \in Threads |-> 0]
  /\ raced = {}

Goto(t, label) == pc' = [pc EXCEPT ![t] = label]

\* ~SCXThreadLockHandle: only a name makes it ask the factory.
Destroy(t) == Goto(t, IF name[handle[t]] = Anonymous THEN "dereference" ELSE "remove")

Spend(t) == ops[t] < MaxOps /\ ops' = [ops EXCEPT ![t] = @ + 1]

\* new SCXThreadLockHandleImpl, at the lowest free address: nobody can tell which.
\* What was deleted there before left unlocked fields, see Delete.
New(i, n, isGlobal) ==
  /\ name[i] = NoName
  /\ \A j \in Impls : name[j] = NoName => i <= j
  /\ name' = [name EXCEPT ![i] = n]
  /\ global' = [global EXCEPT ![i] = isGlobal]
  /\ \E r \in BOOLEAN : recursive' = [recursive EXCEPT ![i] = r]

-------------------------------------------------------------------------------
\* Getting a handle.

\* GetLock with a name, under the lock of the factory: a copy of the handle there is,
\* or a new object with one handle in the map and one for the caller.
FindOrCreate(t) ==
  /\ pc[t] = "idle"
  /\ factory = NoThread
  /\ Spend(t)
  /\ \E n \in Names :
       IF m_locks[n] # NoImpl
       THEN /\ handle' = [handle EXCEPT ![t] = m_locks[n]]
            /\ refs' = [refs EXCEPT ![m_locks[n]] = @ + 1]
            /\ UNCHANGED <<objects, m_locks>>
       ELSE \E i \in Impls :
              /\ New(i, n, TRUE)
              /\ refs' = [refs EXCEPT ![i] = 2]
              /\ m_locks' = [m_locks EXCEPT ![n] = i]
              /\ handle' = [handle EXCEPT ![t] = i]
  /\ factory' = t
  /\ Goto(t, "found")
  /\ UNCHANGED <<native, owner, guards, trying, raced>>

\* Mutant: GetLock returns without lock.Unlock(); the destructor of a copy that is
\* made of the result finds the factory locked.
ReturnLocked(t) ==
  /\ pc[t] = "found"
  /\ Goto(t, "have")
  /\ UNCHANGED <<objects, refs, native, owner, m_locks, factory, locals, raced>>

ReturnHandle(t) ==
  /\ pc[t] = "found"
  /\ factory' = NoThread
  /\ Goto(t, "have")
  /\ UNCHANGED <<objects, refs, native, owner, m_locks, locals, raced>>

\* SCXThreadLockHandle(lockName, allowRecursion): an object the factory does not know;
\* also what GetLock returns without a name.
CreateDirectly(t) ==
  /\ pc[t] = "idle"
  /\ Spend(t)
  /\ \E i \in Impls, n \in Names \cup {Anonymous} :
       /\ New(i, n, FALSE)
       /\ refs' = [refs EXCEPT ![i] = 1]
       /\ handle' = [handle EXCEPT ![t] = i]
  /\ Goto(t, "have")
  /\ UNCHANGED <<native, owner, m_locks, factory, guards, trying, raced>>

\* Mutant: the copy constructor forgets AddRef.
CopyUncounted(t, u) ==
  /\ pc[t] = "idle"
  /\ pc[u] \in {"have", "critical"}
  /\ Spend(t)
  /\ handle' = [handle EXCEPT ![t] = handle[u]]
  /\ Goto(t, "have")
  /\ UNCHANGED <<objects, refs, native, owner, m_locks, factory, guards, trying, raced>>

\* The copy constructor, on a handle that another thread has for as long as it takes.
CopyHandle(t, u) ==
  /\ pc[t] = "idle"
  /\ pc[u] \in {"have", "critical"}
  /\ Spend(t)
  /\ handle' = [handle EXCEPT ![t] = handle[u]]
  /\ refs' = [refs EXCEPT ![handle[u]] = @ + 1]
  /\ Goto(t, "have")
  /\ UNCHANGED <<objects, native, owner, m_locks, factory, guards, trying, raced>>

-------------------------------------------------------------------------------
\* Locking.  i is the object of the handle, here and below.

\* SCXThreadLock(handle): a copy of the handle, then Lock or TryLock.
MakeGuard(t) ==
  /\ pc[t] \in {"have", "critical"}
  /\ guards[t] < MaxGuards
  /\ Spend(t)
  /\ guards' = [guards EXCEPT ![t] = @ + 1]
  /\ refs' = [refs EXCEPT ![handle[t]] = @ + 1]
  /\ \E try \in BOOLEAN : trying' = [trying EXCEPT ![t] = try]
  /\ Goto(t, "read count")
  /\ UNCHANGED <<objects, native, owner, m_locks, factory, handle, raced>>

\* !IsRecursive() && HaveLock(): first m_lockCount ...
ReadCount(t) ==
  /\ pc[t] = "read count"
  /\ LET i == handle[t]
     IN  Goto(t, IF ~recursive[i] /\ count[i] > 0 THEN "read owner" ELSE "acquire")
  /\ UNCHANGED <<objects, refs, native, owner, m_locks, factory, locals, raced>>

\* ... then m_threadID.  SCXThreadLockHeldException leaves the constructor of the
\* guard, which destroys the copy of the handle it has made.
ReadOwner(t) ==
  /\ pc[t] = "read owner"
  /\ IF tid[handle[t]] = t THEN Destroy(t) ELSE Goto(t, "acquire")
  /\ UNCHANGED <<objects, refs, native, owner, m_locks, factory, locals, raced>>

\* pthread_mutex_lock and pthread_mutex_trylock, recursive when asked for.
Acquire(t) ==
  /\ pc[t] = "acquire"
  /\ LET i    == handle[t]
         free == mutex[i] = NoThread \/ (recursive[i] /\ mutex[i] = t)
     IN  \/ /\ free
            /\ mutex' = [mutex EXCEPT ![i] = t]
            /\ depth' = [depth EXCEPT ![i] = @ + 1]
            /\ Goto(t, "count up")
         \/ /\ trying[t]
            /\ ~free
            /\ Goto(t, "leave")
            /\ UNCHANGED native
  /\ trying' = [trying EXCEPT ![t] = FALSE]
  /\ UNCHANGED <<objects, refs, owner, m_locks, factory, handle, guards, ops, raced>>

CountUp(t) ==
  /\ pc[t] = "count up"
  /\ count' = [count EXCEPT ![handle[t]] = @ + 1]
  /\ Goto(t, "set owner")
  /\ UNCHANGED <<objects, refs, native, tid, m_locks, factory, locals, raced>>

SetOwner(t) ==
  /\ pc[t] = "set owner"
  /\ tid' = [tid EXCEPT ![handle[t]] = t]
  /\ Goto(t, "critical")
  /\ UNCHANGED <<objects, refs, native, count, m_locks, factory, locals, raced>>

-------------------------------------------------------------------------------
\* Unlocking.

Leave(t) ==
  /\ pc[t] = "critical"
  /\ Goto(t, "leave")
  /\ UNCHANGED <<objects, refs, native, owner, m_locks, factory, locals, raced>>

HaveLock(t) == count[handle[t]] > 0 /\ tid[handle[t]] = t

\* Mutant: the destructor unlocks without asking HaveLock.
UnlockAnyway(t) ==
  /\ pc[t] = "leave"
  /\ Goto(t, "count down")
  /\ UNCHANGED <<objects, refs, native, owner, m_locks, factory, locals, raced>>

\* ~SCXThreadLock: unlocks when HaveLock, then destroys its copy of the handle.
DestroyGuard(t) ==
  /\ pc[t] = "leave"
  /\ IF HaveLock(t) THEN Goto(t, "count down") ELSE Destroy(t)
  /\ UNCHANGED <<objects, refs, native, owner, m_locks, factory, locals, raced>>

\* Mutant: Unlock does not reset m_threadID.
CountDownOnly(t) ==
  /\ pc[t] = "count down"
  /\ count' = [count EXCEPT ![handle[t]] = @ - 1]
  /\ Goto(t, "release")
  /\ UNCHANGED <<objects, refs, native, tid, m_locks, factory, locals, raced>>

CountDown(t) ==
  /\ pc[t] = "count down"
  /\ count' = [count EXCEPT ![handle[t]] = @ - 1]
  /\ Goto(t, IF count[handle[t]] = 1 THEN "clear owner" ELSE "release")
  /\ UNCHANGED <<objects, refs, native, tid, m_locks, factory, locals, raced>>

ClearOwner(t) ==
  /\ pc[t] = "clear owner"
  /\ tid' = [tid EXCEPT ![handle[t]] = NoThread]
  /\ Goto(t, "release")
  /\ UNCHANGED <<objects, refs, native, count, m_locks, factory, locals, raced>>

Release(t) ==
  /\ pc[t] = "release"
  /\ LET i == handle[t]
     IN  /\ depth' = [depth EXCEPT ![i] = @ - 1]
         /\ mutex' = [mutex EXCEPT ![i] = IF depth[i] = 1 THEN NoThread ELSE t]
  /\ Destroy(t)
  /\ UNCHANGED <<objects, refs, owner, m_locks, factory, locals, raced>>

-------------------------------------------------------------------------------
\* Destroying a handle, a guard's or the thread's own.

Drop(t) ==
  /\ pc[t] = "have"
  /\ Destroy(t)
  /\ UNCHANGED <<objects, refs, native, owner, m_locks, factory, locals, raced>>

\* Threads between the look at the reference count and their own decrement.
Dropping(i) == {t \in Threads : handle[t] = i /\ pc[t] \in {"unlock factory", "dereference"}}

\* Mutant: the object is not compared, only the name and the count.
NameIsLast(i) == m_locks[name[i]] # NoImpl /\ refs[m_locks[name[i]]] = 2

\* Mutant: the caller's own handle is not counted.
OnlyFactoryLeft(i) == m_locks[name[i]] = i /\ refs[i] = 1

IsLastOne(i) == m_locks[name[i]] = i /\ refs[i] = 2

\* RemoveIfLastOne, under the lock of the factory; erasing the entry destroys a handle
\* that resides there.
RemoveIfLastOne(t) ==
  /\ pc[t] = "remove"
  /\ factory = NoThread
  /\ factory' = t
  /\ LET i == handle[t]
     IN  /\ IF IsLastOne(i)
            THEN /\ refs' = [refs EXCEPT ![m_locks[name[i]]] = @ - 1]
                 /\ m_locks' = [m_locks EXCEPT ![name[i]] = NoImpl]
            ELSE UNCHANGED <<refs, m_locks>>
         /\ raced' = IF Dropping(i) # {} THEN raced \cup {i} ELSE raced
  /\ Goto(t, "unlock factory")
  /\ UNCHANGED <<objects, native, owner, locals>>

UnlockFactory(t) ==
  /\ pc[t] = "unlock factory"
  /\ factory' = NoThread
  /\ Goto(t, "dereference")
  /\ UNCHANGED <<objects, refs, native, owner, m_locks, locals, raced>>

\* What the thread goes on with after a handle is gone.
Forget(t) ==
  IF guards[t] > 0
  THEN /\ guards' = [guards EXCEPT ![t] = @ - 1]
       /\ Goto(t, IF guards[t] = 1 THEN "have" ELSE "critical")
       /\ UNCHANGED handle
  ELSE /\ handle' = [handle EXCEPT ![t] = NoImpl]
       /\ Goto(t, "idle")
       /\ UNCHANGED guards

\* Release: the decrement under m_refCountLock; the last one deletes the object.
Dereference(t) ==
  /\ pc[t] = "dereference"
  /\ refs' = [refs EXCEPT ![handle[t]] = @ - 1]
  /\ IF refs[handle[t]] = 1 THEN Goto(t, "delete") /\ UNCHANGED <<handle, guards>>
                            ELSE Forget(t)
  /\ UNCHANGED <<objects, native, owner, m_locks, factory, trying, ops, raced>>

\* delete this, after m_refCountLock was released: whatever state the object is in.
Delete(t) ==
  /\ pc[t] = "delete"
  /\ LET i == handle[t]
     IN  /\ name' = [name EXCEPT ![i] = NoName]
         /\ global' = [global EXCEPT ![i] = FALSE]
         /\ recursive' = [recursive EXCEPT ![i] = FALSE]
         /\ mutex' = [mutex EXCEPT ![i] = NoThread]
         /\ depth' = [depth EXCEPT ![i] = 0]
         /\ count' = [count EXCEPT ![i] = 0]
         /\ tid' = [tid EXCEPT ![i] = NoThread]
         /\ raced' = raced \ {i}
  /\ Forget(t)
  /\ UNCHANGED <<refs, m_locks, factory, trying, ops>>

-------------------------------------------------------------------------------
Step(t) ==
  \/ FindOrCreate(t) \/ ReturnHandle(t) \/ CreateDirectly(t)
  \/ \E u \in Threads : CopyHandle(t, u)
  \/ MakeGuard(t) \/ ReadCount(t) \/ ReadOwner(t) \/ Acquire(t) \/ CountUp(t)
  \/ SetOwner(t) \/ Leave(t) \/ DestroyGuard(t) \/ CountDown(t) \/ ClearOwner(t)
  \/ Release(t) \/ Drop(t) \/ RemoveIfLastOne(t) \/ UnlockFactory(t)
  \/ Dereference(t) \/ Delete(t)

Next == \E t \in Threads : Step(t)

Spec == Init /\ [][Next]_vars

\* A thread that has a handle goes on: no critical section lasts for ever.
FairSpec == Spec /\ \A t \in Threads : WF_vars(pc[t] # "idle" /\ Step(t))

-------------------------------------------------------------------------------
\* Properties.

Labels == {"idle", "found", "have", "read count", "read owner", "acquire", "count up",
           "set owner", "critical", "leave", "count down", "clear owner", "release",
           "remove", "unlock factory", "dereference", "delete"}

\* Types of all variables; the lock is never counted below zero or by two threads.
TypeOK ==
  /\ name \in [Impls -> Names \cup {Anonymous, NoName}]
  /\ global \in [Impls -> BOOLEAN]
  /\ recursive \in [Impls -> BOOLEAN]
  /\ refs \in [Impls -> Nat]
  /\ mutex \in [Impls -> Threads \cup {NoThread}]
  /\ depth \in [Impls -> 0 .. MaxGuards]
  /\ count \in [Impls -> 0 .. MaxGuards]
  /\ tid \in [Impls -> Threads \cup {NoThread}]
  /\ m_locks \in [Names -> Impls \cup {NoImpl}]
  /\ factory \in Threads \cup {NoThread}
  /\ pc \in [Threads -> Labels]
  /\ handle \in [Threads -> Impls \cup {NoImpl}]
  /\ guards \in [Threads -> 0 .. MaxGuards]
  /\ trying \in [Threads -> BOOLEAN]
  /\ ops \in [Threads -> 0 .. MaxOps]
  /\ raced \in SUBSET Impls

\* Two threads that locked by the same name through the factory are never both inside,
\* though the object behind a name is removed and created again all the time, and
\* objects of the same name exist that the factory does not know.
MutualExclusion ==
  \A t, u \in Threads :
    /\ t # u
    /\ pc[t] = "critical"
    /\ pc[u] = "critical"
    /\ name[handle[t]] = name[handle[u]]
    => \/ ~global[handle[t]] /\ handle[t] # handle[u]
       \/ ~global[handle[u]] /\ handle[t] # handle[u]

\* HaveLock, which reads two fields without the lock while others write them, never
\* takes a thread for the owner that is not, and never overlooks the owner: Lock
\* throws SCXThreadLockHeldException only for the holder, and a guard never forgets to
\* unlock.
HaveLockIsExact ==
  \A t \in Threads :
    LET i == handle[t]
    IN  /\ pc[t] = "read owner" /\ tid[i] = t => mutex[i] = t
        /\ pc[t] = "critical" => HaveLock(t)
        /\ pc[t] = "leave" /\ HaveLock(t) => mutex[i] = t

\* The handles of an object: each thread's own (0) and the copies in its guards, and
\* the one that resides in the factory.
HandlesOf(i) ==
  {x \in Threads \X (0 .. MaxGuards) :
     handle[x[1]] = i /\ x[2] <= guards[x[1]] /\ pc[x[1]] # "delete"}
Residents(i) == {n \in Names : m_locks[n] = i}

\* m_ref is the number of handles, and no object is deleted while there is one; "delete"
\* is reached once, by the last.
RefsAreHandles ==
  /\ \A i \in Impls : refs[i] = Cardinality(HandlesOf(i)) + Cardinality(Residents(i))
  /\ \A t, u \in Threads :
       t # u /\ pc[t] = "delete" => handle[u] # handle[t]

\* The factory keeps a name without a user only when two handles of it were destroyed
\* at a time: both looked at the count before either had decremented it.
NamesLeakOnlyByRace ==
  \A n \in Names :
    m_locks[n] # NoImpl /\ refs[m_locks[n]] = 1 => m_locks[n] \in raced

\* Nobody waits for ever, neither for the lock of the factory, which destructors take,
\* nor for a mutex, nor for itself.
ThreadsFinish == \A t \in Threads : (pc[t] # "idle") ~> (pc[t] = "idle")
===============================================================================
