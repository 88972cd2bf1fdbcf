--------------------------- MODULE ThreadLocksProofs ---------------------------
(***************************************************************************)
(* Proofs about ThreadLocks, for any number of threads, names and objects, *)
(* and any number of guards and handles a thread makes.                    *)
(***************************************************************************)
EXTENDS ThreadLocks, Integers, FiniteSetTheorems, TLAPS

-------------------------------------------------------------------------------
\* The inductive invariant.

\* The types of all variables; that the counters are not negative is not among them.
Shape ==
  /\ name \in [Impls -> Names \cup {Anonymous, NoName}]
  /\ global \in [Impls -> BOOLEAN]
  /\ recursive \in [Impls -> BOOLEAN]
  /\ refs \in [Impls -> Int]
  /\ mutex \in [Impls -> Threads \cup {NoThread}]
  /\ depth \in [Impls -> Int]
  /\ count \in [Impls -> Int]
  /\ tid \in [Impls -> Threads \cup {NoThread}]
  /\ m_locks \in [Names -> Impls \cup {NoImpl}]
  /\ factory \in Threads \cup {NoThread}
  /\ pc \in [Threads -> Labels]
  /\ handle \in [Threads -> Impls \cup {NoImpl}]
  /\ guards \in [Threads -> 0 .. MaxGuards]
  /\ trying \in [Threads -> BOOLEAN]
  /\ ops \in [Threads -> 0 .. MaxOps]
  /\ raced \in SUBSET Impls

\* From the native lock to its release, and where a guard is made or destroyed.
Holding  == {"count up", "set owner", "critical", "count down", "clear owner", "release"}
Guarding == Holding \cup {"read count", "read owner", "acquire", "leave"}

\* A thread has a handle of an object that is there, and in the right steps a guard.
Place(t) ==
  /\ pc[t] = "idle" <=> handle[t] = NoImpl
  /\ pc[t] \in {"idle", "found", "have", "delete"} => guards[t] = 0
  /\ pc[t] \in Guarding => guards[t] > 0
  /\ handle[t] # NoImpl => name[handle[t]] # NoName
  /\ pc[t] = "remove" => name[handle[t]] \in Names

MapInv == \A n \in Names : m_locks[n] # NoImpl => name[m_locks[n]] = n

RefInv ==
  \A i \in Impls :
    /\ IsFiniteSet(HandlesOf(i)) /\ IsFiniteSet(Residents(i))
    /\ refs[i] = Cardinality(HandlesOf(i)) + Cardinality(Residents(i))

\* An object is deleted without a handle.
DeleteInv ==
  \A t \in Threads :
    pc[t] = "delete" => /\ refs[handle[t]] = 0
                        /\ \A u \in Threads \ {t} : handle[u] # handle[t]

HandleInv == (\A t \in Threads : Place(t)) /\ MapInv /\ RefInv /\ DeleteInv

\* How many of its guards hold the lock: all of them, or all but the one that is being
\* made or destroyed.
Held(t) ==
  IF pc[t] \in Holding \/ (pc[t] = "leave" /\ mutex[handle[t]] = t)
  THEN guards[t]
  ELSE IF guards[t] = 0 THEN 0 ELSE guards[t] - 1

\* What the holder has written into the object so far.
Counted(t) ==
  IF pc[t] \in {"count up", "clear owner", "release"} THEN Held(t) - 1 ELSE Held(t)
Signed(t) ==
  IF pc[t] \in {"count up", "set owner", "release"} /\ Held(t) = 1 THEN NoThread ELSE t

LockFree(i) == mutex[i] = NoThread /\ depth[i] = 0 /\ count[i] = 0 /\ tid[i] = NoThread
LockHeld(i, t) ==
  /\ mutex[i] = t /\ handle[t] = i /\ Held(t) > 0
  /\ depth[i] = Held(t) /\ count[i] = Counted(t) /\ tid[i] = Signed(t)

OwnerInv ==
  /\ \A i \in Impls : LockFree(i) \/ \E t \in Threads : LockHeld(i, t)
  /\ \A t \in Threads : Held(t) > 0 => mutex[handle[t]] = t

\* Only who may lock twice gets past HaveLock with the lock.
CheckInv ==
  \A t \in Threads :
    /\ pc[t] = "acquire" /\ mutex[handle[t]] = t => recursive[handle[t]]
    /\ pc[t] = "read owner" => ~recursive[handle[t]]
    /\ pc[t] = "clear owner" => guards[t] = 1

\* A factory's object that is no longer in the map has one handle, which is going away.
OrphanInv ==
  /\ \A i \in Impls : global[i] => name[i] \in Names
  /\ \A t \in Threads :
       handle[t] # NoImpl /\ global[handle[t]] /\ m_locks[name[handle[t]]] # handle[t]
         => pc[t] \in {"unlock factory", "dereference", "delete"} /\ guards[t] = 0

\* As long as the handles of an object in the map go away one at a time, there is one
\* beside the factory's, and a second one while one goes away.
RaceInv ==
  \A n \in Names :
    m_locks[n] # NoImpl /\ m_locks[n] \notin raced =>
      /\ refs[m_locks[n]] >= 2
      /\ \A t \in Dropping(m_locks[n]) :
           refs[m_locks[n]] >= 3 /\ Dropping(m_locks[n]) = {t}

IInv == Shape /\ HandleInv /\ OwnerInv /\ CheckInv /\ OrphanInv /\ RaceInv

-------------------------------------------------------------------------------
LEMMA InitIInv == Init => IInv
<1> SUFFICES ASSUME Init PROVE IInv
  OBVIOUS
<1> USE DEF Init
<1>1. Shape
  BY BoundAssumption DEF Shape, Labels, NoImpl
<1>2. \A t \in Threads : pc[t] = "idle" /\ handle[t] = NoImpl /\ guards[t] = 0 /\ Held(t) = 0
  BY DEF Held, Holding
<1>3. HandleInv
  <2>1. \A i \in Impls : HandlesOf(i) = {} /\ Residents(i) = {}
    BY <1>2 DEF HandlesOf, Residents, Impls, NoImpl
  <2>2. RefInv
    BY <2>1, FS_EmptySet DEF RefInv
  <2>3. QED
    BY <1>2, <2>2 DEF HandleInv, Place, Guarding, Holding, MapInv, DeleteInv
<1>4. OwnerInv
  BY <1>2 DEF OwnerInv, LockFree
<1>5. CheckInv /\ OrphanInv /\ RaceInv
  BY <1>2 DEF CheckInv, OrphanInv, RaceInv
<1>6. QED
  BY <1>1, <1>3, <1>4, <1>5 DEF IInv

\* Every step keeps the types.
LEMMA ShapeStep ==
  ASSUME Shape, \A u \in Threads : pc[u] # "idle" => handle[u] \in Impls,
         NEW t \in Threads, Step(t)
  PROVE  Shape'
<1> USE DEF Shape, Goto, Destroy, Spend, objects, native, owner, locals
<1>1. CASE FindOrCreate(t)
  <2>1. PICK n \in Names :
          IF m_locks[n] # NoImpl
          THEN /\ handle' = [handle EXCEPT ![t] = m_locks[n]]
               /\ refs' = [refs EXCEPT ![m_locks[n]] = @ + 1]
               /\ UNCHANGED <<objects, m_locks>>
          ELSE \E i \in Impls :
                 /\ New(i, n, TRUE)
                 /\ refs' = [refs EXCEPT ![i] = 2]
                 /\ m_locks' = [m_locks EXCEPT ![n] = i]
                 /\ handle' = [handle EXCEPT ![t] = i]
    BY <1>1 DEF FindOrCreate
  <2>2. /\ name' \in [Impls -> Names \cup {Anonymous, NoName}]
        /\ global' \in [Impls -> BOOLEAN]
        /\ recursive' \in [Impls -> BOOLEAN]
    <3>1. CASE m_locks[n] # NoImpl
      BY <2>1, <3>1
    <3>2. CASE m_locks[n] = NoImpl
      <4>1. PICK i \in Impls : New(i, n, TRUE)
        BY <2>1, <3>2
      <4>2. QED
        BY <4>1 DEF New
    <3>3. QED
      BY <3>1, <3>2
  <2>3. /\ refs' \in [Impls -> Int]
        /\ m_locks' \in [Names -> Impls \cup {NoImpl}]
        /\ handle' \in [Threads -> Impls \cup {NoImpl}]
    <3>1. CASE m_locks[n] # NoImpl
      <4>1. m_locks[n] \in Impls /\ refs[m_locks[n]] + 1 \in Int
        BY <3>1
      <4>2. refs' = [refs EXCEPT ![m_locks[n]] = refs[m_locks[n]] + 1] /\ m_locks' = m_locks
            /\ handle' = [handle EXCEPT ![t] = m_locks[n]]
        BY <2>1, <3>1
      <4>3. QED
        BY <4>1, <4>2
    <3>2. CASE m_locks[n] = NoImpl
      <4>1. PICK i \in Impls : /\ refs' = [refs EXCEPT ![i] = 2]
                               /\ m_locks' = [m_locks EXCEPT ![n] = i]
                               /\ handle' = [handle EXCEPT ![t] = i]
        BY <2>1, <3>2
      <4>2. QED
        BY <4>1
    <3>3. QED
      BY <3>1, <3>2
  <2>5. pc' \in [Threads -> Labels] /\ factory' \in Threads
    BY <1>1 DEF FindOrCreate, Labels
  <2>6. ops' \in [Threads -> 0 .. MaxOps]
    BY <1>1, BoundAssumption DEF FindOrCreate
  <2>7. UNCHANGED <<mutex, depth, count, tid, guards, trying, raced>>
    BY <1>1 DEF FindOrCreate
  <2>8. QED
    BY <2>2, <2>3, <2>5, <2>6, <2>7
<1>2. CASE ReturnHandle(t)
  BY <1>2 DEF ReturnHandle, Labels
<1>3. CASE CreateDirectly(t)
  <2>1. PICK i \in Impls, n \in Names \cup {Anonymous} :
          /\ New(i, n, FALSE)
          /\ refs' = [refs EXCEPT ![i] = 1]
          /\ handle' = [handle EXCEPT ![t] = i]
    BY <1>3 DEF CreateDirectly
  <2>2. /\ name' \in [Impls -> Names \cup {Anonymous, NoName}]
        /\ global' \in [Impls -> BOOLEAN]
        /\ recursive' \in [Impls -> BOOLEAN]
    BY <2>1 DEF New
  <2>3. refs' \in [Impls -> Int] /\ handle' \in [Threads -> Impls \cup {NoImpl}]
    BY <2>1
  <2>4. pc' \in [Threads -> Labels]
    BY <1>3 DEF CreateDirectly, Labels
  <2>5. ops' \in [Threads -> 0 .. MaxOps]
    BY <1>3, BoundAssumption DEF CreateDirectly
  <2>6. UNCHANGED <<mutex, depth, count, tid, m_locks, factory, guards, trying, raced>>
    BY <1>3 DEF CreateDirectly
  <2>7. QED
    BY <2>2, <2>3, <2>4, <2>5, <2>6
<1>4. ASSUME NEW u \in Threads, CopyHandle(t, u)
      PROVE  Shape'
  <2>1. handle[u] \in Impls
    BY <1>4 DEF CopyHandle
  <2>2. refs' \in [Impls -> Int] /\ handle' \in [Threads -> Impls \cup {NoImpl}]
    BY <1>4, <2>1 DEF CopyHandle
  <2>3. pc' \in [Threads -> Labels]
    BY <1>4 DEF CopyHandle, Labels
  <2>4. ops' \in [Threads -> 0 .. MaxOps]
    BY <1>4, BoundAssumption DEF CopyHandle
  <2>5. UNCHANGED <<name, global, recursive, mutex, depth, count, tid, m_locks, factory, guards,
                    trying, raced>>
    BY <1>4 DEF CopyHandle
  <2>6. QED
    BY <2>2, <2>3, <2>4, <2>5
<1>5. CASE MakeGuard(t)
  <2> handle[t] \in Impls
    BY <1>5 DEF MakeGuard
  <2>1. refs' \in [Impls -> Int]
    <3>1. refs' = [refs EXCEPT ![handle[t]] = @ + 1]
      BY <1>5 DEF MakeGuard
    <3>2. QED
      BY <3>1
  <2>6. trying' \in [Threads -> BOOLEAN]
    BY <1>5 DEF MakeGuard
  <2>2. guards' \in [Threads -> 0 .. MaxGuards] /\ ops' \in [Threads -> 0 .. MaxOps]
    <3>1. guards[t] + 1 \in 0 .. MaxGuards /\ ops[t] + 1 \in 0 .. MaxOps
      <4>1. guards[t] < MaxGuards /\ ops[t] < MaxOps
        BY <1>5 DEF MakeGuard
      <4>2. QED
        BY <4>1, BoundAssumption
    <3>2. guards' = [guards EXCEPT ![t] = guards[t] + 1] /\ ops' = [ops EXCEPT ![t] = ops[t] + 1]
      BY <1>5 DEF MakeGuard
    <3>3. QED
      BY <3>1, <3>2
  <2>3. pc' \in [Threads -> Labels]
    BY <1>5 DEF MakeGuard, Labels
  <2>4. UNCHANGED <<name, global, recursive, mutex, depth, count, tid, m_locks, factory, handle,
                    raced>>
    BY <1>5 DEF MakeGuard
  <2>5. QED
    BY <2>1, <2>2, <2>3, <2>4, <2>6
<1>6. CASE ReadCount(t)
  BY <1>6 DEF ReadCount, Labels
<1>7. CASE ReadOwner(t)
  BY <1>7 DEF ReadOwner, Labels
<1>8. CASE Acquire(t)
  <2> handle[t] \in Impls
    BY <1>8 DEF Acquire
  <2>1. mutex' \in [Impls -> Threads \cup {NoThread}]
    BY <1>8 DEF Acquire
  <2>6. depth' \in [Impls -> Int]
    <3>1. depth' = depth \/ depth' = [depth EXCEPT ![handle[t]] = @ + 1]
      BY <1>8 DEF Acquire
    <3>2. QED
      BY <3>1
  <2>2. trying' \in [Threads -> BOOLEAN]
    BY <1>8 DEF Acquire
  <2>3. pc' \in [Threads -> Labels]
    <3>1. \E l \in {"count up", "leave"} : pc' = [pc EXCEPT ![t] = l]
      BY <1>8 DEF Acquire
    <3>2. QED
      BY <3>1 DEF Labels
  <2>4. UNCHANGED <<name, global, recursive, refs, count, tid, m_locks, factory, handle, guards,
                    ops, raced>>
    BY <1>8 DEF Acquire
  <2>5. QED
    BY <2>1, <2>2, <2>3, <2>4, <2>6
<1>9. CASE CountUp(t)
  <2> handle[t] \in Impls
    BY <1>9 DEF CountUp
  <2>1. count' \in [Impls -> Int]
    <3>1. count' = [count EXCEPT ![handle[t]] = @ + 1]
      BY <1>9 DEF CountUp
    <3>2. QED
      BY <3>1
  <2>2. QED
    BY <1>9, <2>1 DEF CountUp, Labels
<1>10. CASE SetOwner(t)
  BY <1>10 DEF SetOwner, Labels
<1>11. CASE Leave(t)
  BY <1>11 DEF Leave, Labels
<1>12. CASE DestroyGuard(t)
  BY <1>12 DEF DestroyGuard, Labels
<1>13. CASE CountDown(t)
  <2> handle[t] \in Impls
    BY <1>13 DEF CountDown
  <2>1. count' \in [Impls -> Int]
    <3>1. count' = [count EXCEPT ![handle[t]] = @ - 1]
      BY <1>13 DEF CountDown
    <3>2. QED
      BY <3>1
  <2>2. QED
    BY <1>13, <2>1 DEF CountDown, Labels
<1>14. CASE ClearOwner(t)
  BY <1>14 DEF ClearOwner, Labels
<1>15. CASE Release(t)
  <2> handle[t] \in Impls
    BY <1>15 DEF Release
  <2>1. mutex' \in [Impls -> Threads \cup {NoThread}]
    BY <1>15 DEF Release
  <2>2. depth' \in [Impls -> Int]
    <3>1. depth' = [depth EXCEPT ![handle[t]] = @ - 1]
      BY <1>15 DEF Release
    <3>2. QED
      BY <3>1
  <2>3. QED
    BY <1>15, <2>1, <2>2 DEF Release, Labels
<1>16. CASE Drop(t)
  BY <1>16 DEF Drop, Labels
<1>17. CASE RemoveIfLastOne(t)
  <2>1. handle[t] \in Impls
    BY <1>17 DEF RemoveIfLastOne
  <2>2. refs' \in [Impls -> Int]
    <3>1. refs' \in {refs, [refs EXCEPT ![handle[t]] = @ - 1]}
      BY <1>17 DEF RemoveIfLastOne, IsLastOne
    <3>2. QED
      BY <2>1, <3>1
  <2>3. m_locks' \in [Names -> Impls \cup {NoImpl}]
    BY <1>17, <2>1 DEF RemoveIfLastOne
  <2>4. raced' \in SUBSET Impls
    BY <1>17, <2>1 DEF RemoveIfLastOne
  <2>5. pc' \in [Threads -> Labels] /\ factory' \in Threads
    BY <1>17 DEF RemoveIfLastOne, Labels
  <2>6. UNCHANGED <<name, global, recursive, mutex, depth, count, tid, handle, guards, trying, ops>>
    BY <1>17 DEF RemoveIfLastOne
  <2>7. QED
    BY <2>2, <2>3, <2>4, <2>5, <2>6
<1>18. CASE UnlockFactory(t)
  BY <1>18 DEF UnlockFactory, Labels
<1>19. CASE Dereference(t)
  <2> handle[t] \in Impls
    BY <1>19 DEF Dereference
  <2>1. refs' \in [Impls -> Int] /\ handle' \in [Threads -> Impls \cup {NoImpl}]
    BY <1>19 DEF Dereference, Forget
  <2>2. guards' \in [Threads -> 0 .. MaxGuards]
    BY <1>19, BoundAssumption DEF Dereference, Forget
  <2>3. pc' \in [Threads -> Labels]
    <3>1. \E l \in {"delete", "have", "critical", "idle"} : pc' = [pc EXCEPT ![t] = l]
      BY <1>19 DEF Dereference, Forget
    <3>2. QED
      BY <3>1 DEF Labels
  <2>4. UNCHANGED <<name, global, recursive, mutex, depth, count, tid, m_locks, factory, trying,
                    ops, raced>>
    BY <1>19 DEF Dereference
  <2>5. QED
    BY <2>1, <2>2, <2>3, <2>4
<1>20. CASE Delete(t)
  <2>1. /\ name' \in [Impls -> Names \cup {Anonymous, NoName}]
        /\ global' \in [Impls -> BOOLEAN]
        /\ recursive' \in [Impls -> BOOLEAN]
    BY <1>20 DEF Delete
  <2>2. /\ mutex' \in [Impls -> Threads \cup {NoThread}]
        /\ depth' \in [Impls -> Int]
        /\ count' \in [Impls -> Int]
        /\ tid' \in [Impls -> Threads \cup {NoThread}]
        /\ raced' \in SUBSET Impls
    BY <1>20 DEF Delete
  <2>3. handle' \in [Threads -> Impls \cup {NoImpl}]
    BY <1>20 DEF Delete, Forget
  <2>4. guards' \in [Threads -> 0 .. MaxGuards]
    BY <1>20, BoundAssumption DEF Delete, Forget
  <2>5. pc' \in [Threads -> Labels]
    BY <1>20 DEF Delete, Forget, Labels
  <2>6. UNCHANGED <<refs, m_locks, factory, trying, ops>>
    BY <1>20 DEF Delete
  <2>7. QED
    BY <2>1, <2>2, <2>3, <2>4, <2>5, <2>6
<1>21. QED
  BY <1>1, <1>2, <1>3, <1>4, <1>5, <1>6, <1>7, <1>8, <1>9, <1>10, <1>11, <1>12, <1>13, <1>14,
     <1>15, <1>16, <1>17, <1>18, <1>19, <1>20 DEF Step
-------------------------------------------------------------------------------
\* The handles of an object.

\* Sets of pairs, compared pair by pair.
LEMMA PairMore ==
  ASSUME NEW X, NEW Y, NEW A \in SUBSET (X \X Y), NEW B \in SUBSET (X \X Y),
         NEW a \in X, NEW b \in Y,
         \A u \in X, k \in Y : <<u, k>> \in B <=> <<u, k>> \in A \/ (u = a /\ k = b)
  PROVE  B = A \cup {<<a, b>>}
<1>1. \A x \in X \X Y : x = <<x[1], x[2]>> /\ x[1] \in X /\ x[2] \in Y
  OBVIOUS
<1>2. \A x \in X \X Y : x \in B <=> x \in A \/ x = <<a, b>>
  BY <1>1
<1>3. <<a, b>> \in X \X Y
  OBVIOUS
<1>4. QED
  BY <1>2, <1>3

LEMMA PairLess ==
  ASSUME NEW X, NEW Y, NEW A \in SUBSET (X \X Y), NEW B \in SUBSET (X \X Y),
         NEW a \in X, NEW b \in Y,
         \A u \in X, k \in Y : <<u, k>> \in B <=> <<u, k>> \in A /\ ~(u = a /\ k = b)
  PROVE  B = A \ {<<a, b>>}
<1>1. \A x \in X \X Y : x = <<x[1], x[2]>> /\ x[1] \in X /\ x[2] \in Y
  OBVIOUS
<1>2. \A x \in X \X Y : x \in B <=> x \in A /\ x # <<a, b>>
  BY <1>1
<1>3. QED
  BY <1>2

\* Steps that neither make nor destroy a handle.
LEMMA HandlesStay ==
  ASSUME UNCHANGED <<handle, guards>>,
         \A u \in Threads : pc'[u] = "delete" <=> pc[u] = "delete",
         NEW i
  PROVE  HandlesOf(i)' = HandlesOf(i)
BY DEF HandlesOf

\* The other threads keep their handles, and where they are.
OthersStay(t) ==
  \A u \in Threads \ {t} : handle'[u] = handle[u] /\ guards'[u] = guards[u] /\ pc'[u] = pc[u]

\* A new handle: the thread's own, or that of one more guard.
LEMMA HandleMade ==
  ASSUME Shape, Shape', NEW t \in Threads, NEW i \in Impls, handle'[t] = i, pc'[t] # "delete",
         \/ handle[t] = NoImpl /\ guards'[t] = 0
         \/ handle[t] = i /\ guards'[t] = guards[t] + 1 /\ pc[t] # "delete",
         OthersStay(t),
         NEW j \in Impls
  PROVE  /\ HandlesOf(j)' = IF j = i THEN HandlesOf(i) \cup {<<t, guards'[t]>>} ELSE HandlesOf(j)
         /\ <<t, guards'[t]>> \notin HandlesOf(i)
<1>1. guards'[t] \in 0 .. MaxGuards /\ guards[t] \in 0 .. MaxGuards /\ MaxGuards \in Nat
  BY BoundAssumption DEF Shape
<1>2. ASSUME NEW u \in Threads, NEW k \in 0 .. MaxGuards
      PROVE  <<u, k>> \in HandlesOf(j)'
               <=> \/ <<u, k>> \in HandlesOf(j)
                   \/ j = i /\ u = t /\ k = guards'[t]
  <2>1. <<u, k>> \in HandlesOf(j)' <=> handle'[u] = j /\ k <= guards'[u] /\ pc'[u] # "delete"
    BY DEF HandlesOf
  <2>2. <<u, k>> \in HandlesOf(j) <=> handle[u] = j /\ k <= guards[u] /\ pc[u] # "delete"
    BY DEF HandlesOf
  <2>3. CASE u # t
    BY <2>1, <2>2, <2>3 DEF OthersStay
  <2>4. CASE u = t /\ handle[t] = NoImpl /\ guards'[t] = 0
    <3>1. k <= 0 <=> k = 0
      OBVIOUS
    <3>2. NoImpl # j
      BY DEF NoImpl, Impls
    <3>3. QED
      BY <2>1, <2>2, <2>4, <3>1, <3>2
  <2>5. CASE u = t /\ handle[t] = i /\ guards'[t] = guards[t] + 1 /\ pc[t] # "delete"
    <3>1. k <= guards[t] + 1 <=> k <= guards[t] \/ k = guards[t] + 1
      BY <1>1
    <3>2. QED
      BY <2>1, <2>2, <2>5, <3>1
  <2>6. QED
    BY <2>3, <2>4, <2>5
<1>3. HandlesOf(j) \in SUBSET (Threads \X (0 .. MaxGuards))
      /\ HandlesOf(j)' \in SUBSET (Threads \X (0 .. MaxGuards))
  BY DEF HandlesOf
<1>4. HandlesOf(j)' = IF j = i THEN HandlesOf(j) \cup {<<t, guards'[t]>>} ELSE HandlesOf(j)
  <2>1. CASE j = i
    BY ONLY <1>1, <1>2, <1>3, <2>1, t \in Threads, PairMore
  <2>2. CASE j # i
    <3>1. ASSUME NEW x \in Threads \X (0 .. MaxGuards)
          PROVE  x \in HandlesOf(j)' <=> x \in HandlesOf(j)
      <4>1. x = <<x[1], x[2]>> /\ x[1] \in Threads /\ x[2] \in 0 .. MaxGuards
        OBVIOUS
      <4>2. QED
        BY ONLY <1>2, <2>2, <4>1
    <3>2. HandlesOf(j)' = HandlesOf(j)
      BY ONLY <1>3, <3>1
    <3>3. QED
      BY <2>2, <3>2
  <2>3. QED
    BY <2>1, <2>2
<1>5. <<t, guards'[t]>> \notin HandlesOf(i)
  <2>1. handle[t] = i => guards'[t] > guards[t]
    BY <1>1 DEF NoImpl, Impls
  <2>2. QED
    BY <1>1, <2>1 DEF HandlesOf
<1>6. QED
  BY <1>4, <1>5

\* A handle is gone, the thread's last or that of its last guard.
LEMMA HandleGone ==
  ASSUME Shape, Shape', NEW t \in Threads, NEW i \in Impls, handle[t] = i, pc[t] # "delete",
         \/ guards[t] = 0 /\ (handle'[t] = NoImpl \/ pc'[t] = "delete")
         \/ handle'[t] = i /\ guards[t] = guards'[t] + 1 /\ pc'[t] # "delete",
         OthersStay(t),
         NEW j \in Impls
  PROVE  /\ HandlesOf(j)' = IF j = i THEN HandlesOf(i) \ {<<t, guards[t]>>} ELSE HandlesOf(j)
         /\ <<t, guards[t]>> \in HandlesOf(i)
<1>1. guards'[t] \in 0 .. MaxGuards /\ guards[t] \in 0 .. MaxGuards /\ MaxGuards \in Nat
  BY BoundAssumption DEF Shape
<1>2. ASSUME NEW u \in Threads, NEW k \in 0 .. MaxGuards
      PROVE  <<u, k>> \in HandlesOf(j)'
               <=> <<u, k>> \in HandlesOf(j) /\ ~(j = i /\ u = t /\ k = guards[t])
  <2>1. <<u, k>> \in HandlesOf(j)' <=> handle'[u] = j /\ k <= guards'[u] /\ pc'[u] # "delete"
    BY DEF HandlesOf
  <2>2. <<u, k>> \in HandlesOf(j) <=> handle[u] = j /\ k <= guards[u] /\ pc[u] # "delete"
    BY DEF HandlesOf
  <2>3. CASE u # t
    BY <2>1, <2>2, <2>3 DEF OthersStay
  <2>4. CASE u = t /\ guards[t] = 0 /\ (handle'[t] = NoImpl \/ pc'[t] = "delete")
    <3>1. k <= 0 <=> k = 0
      OBVIOUS
    <3>2. NoImpl # j
      BY DEF NoImpl, Impls
    <3>3. QED
      BY <2>1, <2>2, <2>4, <3>1, <3>2
  <2>5. CASE u = t /\ handle'[t] = i /\ guards[t] = guards'[t] + 1 /\ pc'[t] # "delete"
    <3>1. k <= guards'[t] <=> k <= guards[t] /\ k # guards[t]
      BY <1>1, <2>5
    <3>2. QED
      BY <2>1, <2>2, <2>5, <3>1
  <2>6. QED
    BY <2>3, <2>4, <2>5
<1>3. HandlesOf(j) \in SUBSET (Threads \X (0 .. MaxGuards))
      /\ HandlesOf(j)' \in SUBSET (Threads \X (0 .. MaxGuards))
  BY DEF HandlesOf
<1>4. HandlesOf(j)' = IF j = i THEN HandlesOf(j) \ {<<t, guards[t]>>} ELSE HandlesOf(j)
  <2>1. CASE j = i
    BY ONLY <1>1, <1>2, <1>3, <2>1, t \in Threads, PairLess
  <2>2. CASE j # i
    <3>1. ASSUME NEW x \in Threads \X (0 .. MaxGuards)
          PROVE  x \in HandlesOf(j)' <=> x \in HandlesOf(j)
      <4>1. x = <<x[1], x[2]>> /\ x[1] \in Threads /\ x[2] \in 0 .. MaxGuards
        OBVIOUS
      <4>2. QED
        BY ONLY <1>2, <2>2, <4>1
    <3>2. HandlesOf(j)' = HandlesOf(j)
      BY ONLY <1>3, <3>1
    <3>3. QED
      BY <2>2, <3>2
  <2>3. QED
    BY <2>1, <2>2
<1>5. <<t, guards[t]>> \in HandlesOf(i)
  BY <1>1 DEF HandlesOf
<1>6. QED
  BY <1>4, <1>5

\* As many as the counter says: where it is 0 there are none, and where it is 1 there is
\* one thread or the map.
LEMMA NoHandles ==
  ASSUME Shape, HandleInv, NEW i \in Impls, refs[i] = 0
  PROVE  /\ \A n \in Names : m_locks[n] # i
         /\ \A t \in Threads : handle[t] = i => pc[t] = "delete"
<1>1. /\ IsFiniteSet(HandlesOf(i)) /\ IsFiniteSet(Residents(i))
      /\ 0 = Cardinality(HandlesOf(i)) + Cardinality(Residents(i))
  BY DEF HandleInv, RefInv
<1>2. Cardinality(HandlesOf(i)) = 0 /\ Cardinality(Residents(i)) = 0
  BY <1>1, FS_CardinalityType
<1>3. HandlesOf(i) = {} /\ Residents(i) = {}
  BY <1>1, <1>2, FS_EmptySet
<1>4. ASSUME NEW t \in Threads, handle[t] = i, pc[t] # "delete"
      PROVE  <<t, 0>> \in HandlesOf(i)
  BY <1>4, BoundAssumption DEF HandlesOf, Shape
<1>5. QED
  BY <1>3, <1>4 DEF Residents

LEMMA SoleHandle ==
  ASSUME Shape, HandleInv, NEW t \in Threads, handle[t] \in Impls, pc[t] # "delete",
         refs[handle[t]] = 1 + Cardinality(Residents(handle[t]))
  PROVE  guards[t] = 0 /\ \A u \in Threads \ {t} : handle[u] # handle[t]
<1> DEFINE i == handle[t]
<1>1. /\ IsFiniteSet(HandlesOf(i)) /\ Cardinality(Residents(i)) \in Nat
      /\ Cardinality(HandlesOf(i)) \in Nat
      /\ refs[i] = Cardinality(HandlesOf(i)) + Cardinality(Residents(i))
  BY FS_CardinalityType DEF HandleInv, RefInv
<1>2. Cardinality(HandlesOf(i)) = 1
  BY <1>1
<1>3. PICK x : HandlesOf(i) = {x}
  BY <1>1, <1>2, FS_Singleton
<1>4. <<t, 0>> \in HandlesOf(i) /\ <<t, guards[t]>> \in HandlesOf(i)
  BY BoundAssumption DEF HandlesOf, Shape
<1>5. ASSUME NEW u \in Threads, handle[u] = i, pc[u] # "delete"
      PROVE  <<u, 0>> \in HandlesOf(i)
  BY <1>5, BoundAssumption DEF HandlesOf, Shape
<1>6. ASSUME NEW u \in Threads, handle[u] = i
      PROVE  pc[u] # "delete"
  BY <1>1, <1>2, <1>6 DEF HandleInv, DeleteInv
<1>7. QED
  BY <1>3, <1>4, <1>5, <1>6
\* The same for the numbers of handles.
LEMMA MadeCount ==
  ASSUME Shape, Shape', RefInv, NEW t \in Threads, NEW i \in Impls, handle'[t] = i,
         pc'[t] # "delete",
         \/ handle[t] = NoImpl /\ guards'[t] = 0
         \/ handle[t] = i /\ guards'[t] = guards[t] + 1 /\ pc[t] # "delete",
         OthersStay(t),
         NEW j \in Impls
  PROVE  /\ IsFiniteSet(HandlesOf(j)')
         /\ Cardinality(HandlesOf(j)')
              = IF j = i THEN Cardinality(HandlesOf(j)) + 1 ELSE Cardinality(HandlesOf(j))
<1>1. HandlesOf(j)' = IF j = i THEN HandlesOf(i) \cup {<<t, guards'[t]>>} ELSE HandlesOf(j)
  BY HandleMade
<1>2. <<t, guards'[t]>> \notin HandlesOf(i)
  BY HandleMade
<1>3. IsFiniteSet(HandlesOf(i)) /\ IsFiniteSet(HandlesOf(j))
  BY DEF RefInv
<1>4. QED
  BY ONLY <1>1, <1>2, <1>3, FS_AddElement

LEMMA GoneCount ==
  ASSUME Shape, Shape', RefInv, NEW t \in Threads, NEW i \in Impls, handle[t] = i,
         pc[t] # "delete",
         \/ guards[t] = 0 /\ (handle'[t] = NoImpl \/ pc'[t] = "delete")
         \/ handle'[t] = i /\ guards[t] = guards'[t] + 1 /\ pc'[t] # "delete",
         OthersStay(t),
         NEW j \in Impls
  PROVE  /\ IsFiniteSet(HandlesOf(j)')
         /\ Cardinality(HandlesOf(j)')
              = IF j = i THEN Cardinality(HandlesOf(j)) - 1 ELSE Cardinality(HandlesOf(j))
<1>1. HandlesOf(j)' = IF j = i THEN HandlesOf(i) \ {<<t, guards[t]>>} ELSE HandlesOf(j)
  BY HandleGone
<1>2. <<t, guards[t]>> \in HandlesOf(i)
  BY HandleGone
<1>3. IsFiniteSet(HandlesOf(i)) /\ IsFiniteSet(HandlesOf(j))
  BY DEF RefInv
<1>4. QED
  BY ONLY <1>1, <1>2, <1>3, FS_RemoveElement

-------------------------------------------------------------------------------
\* Steps that only take a thread from one place to another.

LEMMA PlainStep ==
  ASSUME Shape, HandleInv, NEW t \in Threads, NEW l \in Labels, Goto(t, l),
         UNCHANGED <<name, refs, m_locks, handle, guards>>,
         pc[t] \notin {"idle", "delete"}, l \notin {"idle", "delete"},
         l \in {"found", "have"} => guards[t] = 0,
         l \in Guarding => guards[t] > 0,
         l = "remove" => name[handle[t]] \in Names
  PROVE  HandleInv'
<1>1. \A u \in Threads : pc'[u] = IF u = t THEN l ELSE pc[u]
  BY DEF Goto, Shape
<1>2. \A u \in Threads : Place(u)'
  BY <1>1 DEF HandleInv, Place
<1>3. RefInv'
  <2>1. \A i \in Impls : HandlesOf(i)' = HandlesOf(i)
    BY <1>1, HandlesStay
  <2>2. \A i \in Impls : Residents(i)' = Residents(i)
    BY DEF Residents
  <2>3. QED
    BY <2>1, <2>2 DEF HandleInv, RefInv
<1>4. MapInv' /\ DeleteInv'
  BY <1>1 DEF HandleInv, MapInv, DeleteInv
<1>5. QED
  BY <1>2, <1>3, <1>4 DEF HandleInv

\* Where Destroy goes to.
LEMMA DestroyPlain ==
  ASSUME Shape, HandleInv, NEW t \in Threads, Destroy(t),
         UNCHANGED <<name, refs, m_locks, handle, guards>>, pc[t] \notin {"idle", "delete"}
  PROVE  HandleInv'
<1>1. CASE Goto(t, "dereference")
  BY <1>1, PlainStep DEF Labels, Guarding, Holding
<1>2. CASE Goto(t, "remove") /\ name[handle[t]] # Anonymous
  <2>1. name[handle[t]] \in Names
    BY <1>2 DEF HandleInv, Place, Shape
  <2>2. QED
    BY <1>2, <2>1, PlainStep DEF Labels, Guarding, Holding
<1>3. QED
  BY <1>1, <1>2 DEF Destroy
LEMMA PlainHandles ==
  ASSUME Shape, HandleInv, NEW t \in Threads,
         \/ ReturnHandle(t) \/ ReadCount(t) \/ ReadOwner(t) \/ Acquire(t) \/ CountUp(t)
         \/ SetOwner(t) \/ Leave(t) \/ DestroyGuard(t) \/ CountDown(t) \/ ClearOwner(t)
         \/ Release(t) \/ Drop(t) \/ UnlockFactory(t)
  PROVE  HandleInv'
<1>1. UNCHANGED <<name, refs, m_locks, handle, guards>> /\ pc[t] \notin {"idle", "delete"}
  BY DEF ReturnHandle, ReadCount, ReadOwner, Acquire, CountUp, SetOwner, Leave, DestroyGuard,
         CountDown, ClearOwner, Release, Drop, UnlockFactory, objects, locals
<1>2. pc[t] \in Guarding => guards[t] > 0
  BY DEF HandleInv, Place
<1>3. CASE Destroy(t)
  BY <1>1, <1>3, DestroyPlain
<1>4. ASSUME NEW l \in Guarding, Goto(t, l), pc[t] \in Guarding
      PROVE  HandleInv'
  <2>1. l \in Labels /\ l \notin {"idle", "delete", "found", "have", "remove"}
    BY DEF Guarding, Holding, Labels
  <2>2. QED
    BY <1>1, <1>2, <1>4, <2>1, PlainStep
<1>5. CASE ReturnHandle(t)
  BY <1>1, <1>5, PlainStep DEF ReturnHandle, HandleInv, Place, Guarding, Holding, Labels
<1>6. CASE UnlockFactory(t)
  BY <1>1, <1>6, PlainStep DEF UnlockFactory, Guarding, Holding, Labels
<1>7. CASE ReadCount(t) \/ CountUp(t) \/ SetOwner(t) \/ Leave(t) \/ CountDown(t) \/ ClearOwner(t)
  <2>1. pc[t] \in Guarding
    BY <1>7 DEF ReadCount, CountUp, SetOwner, Leave, CountDown, ClearOwner, Guarding, Holding
  <2>2. \E l \in Guarding : Goto(t, l)
    BY <1>7 DEF ReadCount, CountUp, SetOwner, Leave, CountDown, ClearOwner, Guarding, Holding
  <2>3. QED
    BY <1>4, <2>1, <2>2
<1>8. CASE (ReadOwner(t) \/ Acquire(t) \/ DestroyGuard(t)) /\ ~Destroy(t)
  <2>1. pc[t] \in Guarding
    BY <1>8 DEF ReadOwner, Acquire, DestroyGuard, Guarding, Holding
  <2>2. \E l \in Guarding : Goto(t, l)
    BY <1>8 DEF ReadOwner, Acquire, DestroyGuard, Guarding, Holding
  <2>3. QED
    BY <1>4, <2>1, <2>2
<1>9. Release(t) \/ Drop(t) => Destroy(t)
  BY DEF Release, Drop
<1>10. QED
  BY <1>3, <1>5, <1>6, <1>7, <1>8, <1>9

-------------------------------------------------------------------------------
\* Steps that make a handle.

\* An address that is free is nobody's.
LEMMA FreeAddress ==
  ASSUME Shape, HandleInv, NEW i \in Impls, name[i] = NoName
  PROVE  /\ \A u \in Threads : handle[u] # i
         /\ \A n \in Names : m_locks[n] # i
         /\ HandlesOf(i) = {} /\ Residents(i) = {}
<1>1. i # NoImpl
  BY DEF Impls, NoImpl
<1>2. \A u \in Threads : handle[u] # i
  BY <1>1 DEF HandleInv, Place
<1>3. \A n \in Names : m_locks[n] # i
  BY <1>1, NullAssumption DEF HandleInv, MapInv
<1>4. QED
  BY <1>2, <1>3 DEF HandlesOf, Residents

\* A handle of an object that has others, whose counter goes up by one.
LEMMA OneMore ==
  ASSUME Shape, Shape', HandleInv, NEW t \in Threads, NEW i \in Impls, handle'[t] = i,
         pc'[t] \notin {"delete", "remove", "idle"},
         \/ handle[t] = NoImpl /\ guards'[t] = 0 /\ pc'[t] \in {"found", "have"}
         \/ handle[t] = i /\ guards'[t] = guards[t] + 1 /\ pc[t] # "delete"
            /\ pc'[t] = "read count",
         OthersStay(t), UNCHANGED <<name, m_locks>>,
         refs' = [refs EXCEPT ![i] = @ + 1],
         \/ \E n \in Names : m_locks[n] = i
         \/ \E u \in Threads : handle[u] = i /\ pc[u] # "delete"
  PROVE  HandleInv'
<1>1. \A j \in Impls : refs'[j] = IF j = i THEN refs[j] + 1 ELSE refs[j]
  BY DEF Shape
<1>2. name[i] # NoName /\ refs[i] # 0
  BY FreeAddress, NoHandles
<1>3. i # NoImpl
  BY ONLY i \in Impls DEF Impls, NoImpl
<1>4. guards[t] \in Nat /\ guards'[t] \in Nat
  <2>1. guards[t] \in 0 .. MaxGuards /\ guards'[t] \in 0 .. MaxGuards
    BY ONLY Shape, Shape', t \in Threads DEF Shape
  <2>2. QED
    BY ONLY <2>1, BoundAssumption
<1>5. \A u \in Threads : Place(u)'
  <2>1. ASSUME NEW u \in Threads \ {t} PROVE Place(u)'
    BY DEF OthersStay, HandleInv, Place
  <2>2. Place(t)'
    <3>1. handle'[t] # NoImpl /\ name'[handle'[t]] # NoName
      BY <1>2, <1>3
    <3>2. CASE pc'[t] \in {"found", "have"} /\ guards'[t] = 0
      BY <3>1, <3>2 DEF Place, Guarding, Holding
    <3>3. CASE pc'[t] = "read count" /\ guards'[t] = guards[t] + 1
      <4>1. guards'[t] > 0
        <5> DEFINE g == guards[t]  h == guards'[t]
        <5>1. g \in Nat /\ h = g + 1
          BY <1>4, <3>3
        <5> HIDE DEF g, h
        <5>2. h > 0
          BY ONLY <5>1
        <5>3. QED
          BY <5>2 DEF h
      <4>2. QED
        BY <3>1, <3>3, <4>1 DEF Place, Guarding, Holding
    <3>4. QED
      BY <3>2, <3>3
  <2>3. QED
    BY <2>1, <2>2
<1>6. MapInv'
  BY DEF HandleInv, MapInv
<1>7. RefInv'
  <2> SUFFICES ASSUME NEW j \in Impls
               PROVE  /\ IsFiniteSet(HandlesOf(j)') /\ IsFiniteSet(Residents(j)')
                      /\ refs'[j] = Cardinality(HandlesOf(j)') + Cardinality(Residents(j)')
    BY DEF RefInv
  <2>1. /\ IsFiniteSet(HandlesOf(j)')
        /\ Cardinality(HandlesOf(j)')
             = IF j = i THEN Cardinality(HandlesOf(j)) + 1 ELSE Cardinality(HandlesOf(j))
    BY MadeCount DEF HandleInv
  <2>2. Residents(j)' = Residents(j)
    BY DEF Residents
  <2>3. /\ IsFiniteSet(HandlesOf(j)) /\ IsFiniteSet(Residents(j))
        /\ refs[j] = Cardinality(HandlesOf(j)) + Cardinality(Residents(j))
    BY DEF HandleInv, RefInv
  <2>4. Cardinality(HandlesOf(j)) \in Nat /\ Cardinality(Residents(j)) \in Nat
    BY <2>3, FS_CardinalityType
  <2>5. QED
    BY ONLY <1>1, <2>1, <2>2, <2>3, <2>4
<1>8. DeleteInv'
  <2> SUFFICES ASSUME NEW v \in Threads, pc'[v] = "delete"
               PROVE  /\ refs'[handle'[v]] = 0
                      /\ \A u \in Threads \ {v} : handle'[u] # handle'[v]
    BY DEF DeleteInv
  <2>1. v # t /\ pc[v] = "delete" /\ handle'[v] = handle[v]
    BY DEF OthersStay
  <2>2. refs[handle[v]] = 0 /\ \A u \in Threads \ {v} : handle[u] # handle[v]
    BY <2>1 DEF HandleInv, DeleteInv
  <2>3. handle[v] # i /\ handle[v] \in Impls
    BY <1>2, <2>1, <2>2 DEF HandleInv, Place, Shape
  <2>4. QED
    BY <1>1, <2>1, <2>2, <2>3 DEF OthersStay
<1>9. QED
  BY <1>5, <1>6, <1>7, <1>8 DEF HandleInv
\* The first handle of a new object, which the factory may keep another of.
LEMMA FirstHandle ==
  ASSUME Shape, Shape', HandleInv, NEW t \in Threads, NEW i \in Impls, name[i] = NoName,
         NEW n \in Names \cup {Anonymous}, name' = [name EXCEPT ![i] = n],
         handle[t] = NoImpl, handle'[t] = i, guards'[t] = 0, pc'[t] \in {"found", "have"},
         OthersStay(t),
         \/ m_locks' = m_locks /\ refs' = [refs EXCEPT ![i] = 1]
         \/ /\ n \in Names /\ m_locks[n] = NoImpl /\ m_locks' = [m_locks EXCEPT ![n] = i]
            /\ refs' = [refs EXCEPT ![i] = 2]
  PROVE  HandleInv'
<1>1. /\ \A u \in Threads : handle[u] # i
      /\ \A m \in Names : m_locks[m] # i
      /\ HandlesOf(i) = {} /\ Residents(i) = {}
  BY FreeAddress
<1>2. i # NoImpl
  BY ONLY i \in Impls DEF Impls, NoImpl
<1>3. n # NoName /\ \A j \in Impls : name'[j] = IF j = i THEN n ELSE name[j]
  BY NullAssumption DEF Shape
<1>4. \A u \in Threads : Place(u)'
  <2>1. ASSUME NEW u \in Threads \ {t} PROVE Place(u)'
    <3>1. handle'[u] = handle[u] /\ guards'[u] = guards[u] /\ pc'[u] = pc[u] /\ Place(u)
          /\ handle[u] # i /\ handle[u] \in Impls \cup {NoImpl}
      BY <1>1 DEF OthersStay, HandleInv, Shape
    <3>2. handle[u] # NoImpl => name'[handle[u]] = name[handle[u]]
      BY <1>3, <3>1
    <3>3. pc[u] = "remove" => handle[u] # NoImpl
      BY <3>1 DEF Place
    <3>4. QED
      BY <3>1, <3>2, <3>3 DEF Place
  <2>2. Place(t)'
    BY <1>2, <1>3 DEF Place, Guarding, Holding
  <2>3. QED
    BY <2>1, <2>2
<1>5. MapInv'
  <2>1. ASSUME NEW m \in Names, m_locks'[m] # NoImpl
        PROVE  name'[m_locks'[m]] = m
    <3>1. CASE m_locks' = [m_locks EXCEPT ![n] = i] /\ m = n
      BY <1>3, <3>1 DEF Shape
    <3>2. CASE m_locks'[m] = m_locks[m]
      <4>1. m_locks[m] \in Impls /\ m_locks[m] # i /\ name[m_locks[m]] = m
        BY <1>1, <2>1, <3>2 DEF HandleInv, MapInv, Shape
      <4>2. QED
        BY <1>3, <3>2, <4>1
    <3>3. QED
      BY <3>1, <3>2 DEF Shape
  <2>2. QED
    BY <2>1 DEF MapInv
<1>6. RefInv'
  <2> SUFFICES ASSUME NEW j \in Impls
               PROVE  /\ IsFiniteSet(HandlesOf(j)') /\ IsFiniteSet(Residents(j)')
                      /\ refs'[j] = Cardinality(HandlesOf(j)') + Cardinality(Residents(j)')
    BY DEF RefInv
  <2>1. /\ IsFiniteSet(HandlesOf(j)')
        /\ Cardinality(HandlesOf(j)')
             = IF j = i THEN Cardinality(HandlesOf(j)) + 1 ELSE Cardinality(HandlesOf(j))
    BY MadeCount DEF HandleInv
  <2>2. /\ IsFiniteSet(HandlesOf(j)) /\ IsFiniteSet(Residents(j))
        /\ refs[j] = Cardinality(HandlesOf(j)) + Cardinality(Residents(j))
    BY DEF HandleInv, RefInv
  <2>3. CASE j = i /\ m_locks' = m_locks /\ refs'[i] = 1
    <3>1. Residents(j)' = {}
      BY <1>1, <2>3 DEF Residents
    <3>2. Cardinality(HandlesOf(j)') = 1
      <4>1. Cardinality(HandlesOf(j)) = 0
        BY <1>1, <2>3, FS_EmptySet
      <4>2. QED
        BY ONLY <2>1, <2>3, <4>1
    <3>3. QED
      BY <2>1, <2>3, <3>1, <3>2, FS_EmptySet
  <2>4. CASE /\ j = i /\ n \in Names /\ m_locks' = [m_locks EXCEPT ![n] = i] /\ refs'[i] = 2
    <3>1. Residents(j)' = {n}
      BY <1>1, <2>4 DEF Residents, Shape
    <3>2. Cardinality(HandlesOf(j)') = 1
      <4>1. Cardinality(HandlesOf(j)) = 0
        BY <1>1, <2>4, FS_EmptySet
      <4>2. QED
        BY ONLY <2>1, <2>4, <4>1
    <3>3. IsFiniteSet(Residents(j)') /\ Cardinality(Residents(j)') = 1
      BY <3>1, FS_Singleton
    <3>4. QED
      BY <2>1, <2>4, <3>2, <3>3
  <2>5. CASE j # i
    <3>1. Residents(j)' = Residents(j)
      <4>1. \A m \in Names : m_locks'[m] = j <=> m_locks[m] = j
        <5>1. j # NoImpl
          BY ONLY j \in Impls DEF Impls, NoImpl
        <5>2. QED
          BY <2>5, <5>1 DEF Shape
      <4>2. QED
        BY <4>1 DEF Residents
    <3>2. refs'[j] = refs[j]
      BY <2>5 DEF Shape
    <3>3. QED
      BY <2>1, <2>2, <2>5, <3>1, <3>2
  <2>6. refs'[i] = 1 \/ refs'[i] = 2
    BY DEF Shape
  <2>7. QED
    BY <2>3, <2>4, <2>5 DEF Shape
<1>7. DeleteInv'
  <2> SUFFICES ASSUME NEW v \in Threads, pc'[v] = "delete"
               PROVE  /\ refs'[handle'[v]] = 0
                      /\ \A u \in Threads \ {v} : handle'[u] # handle'[v]
    BY DEF DeleteInv
  <2>1. v # t /\ pc[v] = "delete" /\ handle'[v] = handle[v] /\ handle[v] # i
    BY <1>1 DEF OthersStay
  <2>2. refs[handle[v]] = 0 /\ \A u \in Threads \ {v} : handle[u] # handle[v]
    BY <2>1 DEF HandleInv, DeleteInv
  <2>3. handle[v] \in Impls
    BY <2>1 DEF HandleInv, Place, Shape
  <2>4. refs'[handle[v]] = refs[handle[v]]
    BY <2>1, <2>3 DEF Shape
  <2>5. QED
    BY <2>1, <2>2, <2>4 DEF OthersStay
<1>8. QED
  BY <1>4, <1>5, <1>6, <1>7 DEF HandleInv

\* The actions that make one.
LEMMA MakingHandles ==
  ASSUME Shape, Shape', HandleInv, NEW t \in Threads,
         \/ FindOrCreate(t) \/ CreateDirectly(t) \/ MakeGuard(t)
         \/ \E u \in Threads : CopyHandle(t, u)
  PROVE  HandleInv'
<1>1. CASE FindOrCreate(t)
  <2>1. /\ pc[t] = "idle" /\ handle[t] = NoImpl /\ guards[t] = 0
        /\ pc' = [pc EXCEPT ![t] = "found"] /\ guards' = guards
    BY <1>1 DEF FindOrCreate, Goto, HandleInv, Place
  <2>2. PICK n \in Names :
          IF m_locks[n] # NoImpl
          THEN /\ handle' = [handle EXCEPT ![t] = m_locks[n]]
               /\ refs' = [refs EXCEPT ![m_locks[n]] = @ + 1]
               /\ UNCHANGED <<objects, m_locks>>
          ELSE \E i \in Impls :
                 /\ New(i, n, TRUE)
                 /\ refs' = [refs EXCEPT ![i] = 2]
                 /\ m_locks' = [m_locks EXCEPT ![n] = i]
                 /\ handle' = [handle EXCEPT ![t] = i]
    BY <1>1 DEF FindOrCreate
  <2>3. CASE m_locks[n] # NoImpl
    <3> DEFINE i == m_locks[n]
    <3>1. i \in Impls /\ handle' = [handle EXCEPT ![t] = i] /\ UNCHANGED <<name, m_locks>>
          /\ refs' = [refs EXCEPT ![i] = @ + 1]
      BY <2>2, <2>3 DEF Shape, objects
    <3>2. OthersStay(t) /\ handle'[t] = i /\ guards'[t] = 0 /\ pc'[t] = "found"
      BY <2>1, <3>1 DEF OthersStay, Shape
    <3> HIDE DEF i
    <3>3. \E m \in Names : m_locks[m] = i
      BY DEF i
    <3>4. QED
      BY <2>1, <3>1, <3>2, <3>3, OneMore
  <2>4. CASE m_locks[n] = NoImpl
    <3>1. PICK i \in Impls : /\ name[i] = NoName /\ name' = [name EXCEPT ![i] = n]
                             /\ refs' = [refs EXCEPT ![i] = 2]
                             /\ m_locks' = [m_locks EXCEPT ![n] = i]
                             /\ handle' = [handle EXCEPT ![t] = i]
      BY <2>2, <2>4 DEF New
    <3>2. OthersStay(t) /\ handle'[t] = i /\ guards'[t] = 0 /\ pc'[t] = "found"
      BY <2>1, <3>1 DEF OthersStay, Shape
    <3>3. QED
      BY <2>1, <2>4, <3>1, <3>2, FirstHandle
  <2>5. QED
    BY <2>3, <2>4
<1>2. CASE CreateDirectly(t)
  <2>1. /\ pc[t] = "idle" /\ handle[t] = NoImpl /\ guards[t] = 0
        /\ pc' = [pc EXCEPT ![t] = "have"] /\ guards' = guards /\ m_locks' = m_locks
    BY <1>2 DEF CreateDirectly, Goto, HandleInv, Place
  <2>2. PICK i \in Impls, n \in Names \cup {Anonymous} :
          /\ name[i] = NoName /\ name' = [name EXCEPT ![i] = n]
          /\ refs' = [refs EXCEPT ![i] = 1]
          /\ handle' = [handle EXCEPT ![t] = i]
    BY <1>2 DEF CreateDirectly, New
  <2>3. OthersStay(t) /\ handle'[t] = i /\ guards'[t] = 0 /\ pc'[t] = "have"
    BY <2>1, <2>2 DEF OthersStay, Shape
  <2>4. QED
    BY <2>1, <2>2, <2>3, FirstHandle
<1>3. ASSUME NEW u \in Threads, CopyHandle(t, u)
      PROVE  HandleInv'
  <2>1. /\ pc[t] = "idle" /\ handle[t] = NoImpl /\ guards[t] = 0
        /\ pc' = [pc EXCEPT ![t] = "have"] /\ UNCHANGED <<name, m_locks, guards>>
        /\ pc[u] \in {"have", "critical"} /\ handle[u] \in Impls
    BY <1>3 DEF CopyHandle, Goto, HandleInv, Place, objects, Shape
  <2>2. handle' = [handle EXCEPT ![t] = handle[u]] /\ refs' = [refs EXCEPT ![handle[u]] = @ + 1]
    BY <1>3 DEF CopyHandle
  <2>3. OthersStay(t) /\ handle'[t] = handle[u] /\ guards'[t] = 0 /\ pc'[t] = "have"
    BY <2>1, <2>2 DEF OthersStay, Shape
  <2>4. \E v \in Threads : handle[v] = handle[u] /\ pc[v] # "delete"
    BY <2>1
  <2>5. QED
    BY <2>1, <2>2, <2>3, <2>4, OneMore
<1>4. CASE MakeGuard(t)
  <2>1. /\ pc[t] \in {"have", "critical"} /\ handle[t] \in Impls
        /\ pc' = [pc EXCEPT ![t] = "read count"] /\ UNCHANGED <<name, m_locks, handle>>
    BY <1>4 DEF MakeGuard, Goto, HandleInv, Place, objects, Shape
  <2>2. guards' = [guards EXCEPT ![t] = @ + 1] /\ refs' = [refs EXCEPT ![handle[t]] = @ + 1]
    BY <1>4 DEF MakeGuard
  <2>3. OthersStay(t) /\ handle'[t] = handle[t] /\ guards'[t] = guards[t] + 1
        /\ pc'[t] = "read count"
    BY <2>1, <2>2 DEF OthersStay, Shape
  <2>4. QED
    BY <2>1, <2>2, <2>3, OneMore
<1>5. QED
  BY <1>1, <1>2, <1>3, <1>4
-------------------------------------------------------------------------------
\* Steps that destroy a handle, and the object with the last.

LEMMA RemoveHandles ==
  ASSUME Shape, HandleInv, NEW t \in Threads, RemoveIfLastOne(t)
  PROVE  HandleInv'
<1> DEFINE i == handle[t]  n == name[i]
<1>1. /\ pc[t] = "remove" /\ pc' = [pc EXCEPT ![t] = "unlock factory"]
      /\ UNCHANGED <<name, handle, guards>>
  BY DEF RemoveIfLastOne, Goto, objects, locals
<1>2. i \in Impls /\ n \in Names
  BY <1>1 DEF HandleInv, Place, Shape
<1>3. CASE UNCHANGED <<refs, m_locks>>
  <2>1. "unlock factory" \notin Guarding /\ "unlock factory" \in Labels
    BY DEF Guarding, Holding, Labels
  <2>2. QED
    BY <1>1, <1>3, <2>1, PlainStep DEF Goto
<1>4. CASE /\ m_locks[n] = i /\ refs[i] = 2
           /\ refs' = [refs EXCEPT ![m_locks[n]] = @ - 1]
           /\ m_locks' = [m_locks EXCEPT ![n] = NoImpl]
  <2>1. \A u \in Threads : pc'[u] = IF u = t THEN "unlock factory" ELSE pc[u]
    BY <1>1 DEF Shape
  <2>2. \A j \in Impls : refs'[j] = IF j = i THEN refs[j] - 1 ELSE refs[j]
    BY <1>2, <1>4 DEF Shape
  <2>3. \A m \in Names : m_locks'[m] = IF m = n THEN NoImpl ELSE m_locks[m]
    BY <1>2, <1>4 DEF Shape
  <2>4. \A u \in Threads : Place(u)'
    <3>1. ASSUME NEW u \in Threads \ {t} PROVE Place(u)'
      BY <1>1, <2>1 DEF HandleInv, Place
    <3>2. Place(t)'
      <4>1. pc'[t] = "unlock factory" /\ handle'[t] # NoImpl /\ name'[handle'[t]] # NoName
        BY <1>1, <2>1 DEF HandleInv, Place
      <4>2. QED
        BY <4>1 DEF Place, Guarding, Holding
    <3>3. QED
      BY <3>1, <3>2
  <2>5. MapInv'
    BY <1>1, <2>3 DEF HandleInv, MapInv
  <2>6. RefInv'
    <3> SUFFICES ASSUME NEW j \in Impls
                 PROVE  /\ IsFiniteSet(HandlesOf(j)') /\ IsFiniteSet(Residents(j)')
                        /\ refs'[j] = Cardinality(HandlesOf(j)') + Cardinality(Residents(j)')
      BY DEF RefInv
    <3>1. HandlesOf(j)' = HandlesOf(j)
      <4>1. ASSUME NEW u \in Threads
            PROVE  pc'[u] = "delete" <=> pc[u] = "delete"
        <5>1. CASE u = t
          <6>1. pc[t] = "remove" /\ pc'[t] = "unlock factory"
            BY <1>1 DEF Shape
          <6>2. QED
            BY ONLY <5>1, <6>1
        <5>2. CASE u # t
          <6>1. pc'[u] = pc[u]
            BY <2>1, <5>2
          <6>2. QED
            BY <6>1
        <5>3. QED
          BY <5>1, <5>2
      <4>2. UNCHANGED <<handle, guards>>
        BY <1>1
      <4>3. QED
        BY ONLY <4>1, <4>2, HandlesStay
    <3>2. /\ IsFiniteSet(HandlesOf(j)) /\ IsFiniteSet(Residents(j))
          /\ refs[j] = Cardinality(HandlesOf(j)) + Cardinality(Residents(j))
      BY DEF HandleInv, RefInv
    <3>3. Cardinality(HandlesOf(j)) \in Nat /\ Cardinality(Residents(j)) \in Nat
      BY <3>2, FS_CardinalityType
    <3>4. j # NoImpl
      BY ONLY j \in Impls DEF Impls, NoImpl
    <3>5. CASE j = i
      <4>1. Residents(j)' = Residents(j) \ {n} /\ n \in Residents(j)
        BY <1>2, <1>4, <2>3, <3>4, <3>5 DEF Residents
      <4>2. /\ IsFiniteSet(Residents(j)')
            /\ Cardinality(Residents(j)') = Cardinality(Residents(j)) - 1
        BY <3>2, <4>1, FS_RemoveElement
      <4>3. refs'[j] = refs[j] - 1
        BY <2>2, <3>5
      <4>4. QED
        BY ONLY <3>1, <3>2, <3>3, <4>2, <4>3
    <3>6. CASE j # i
      <4>1. Residents(j)' = Residents(j)
        BY <1>4, <2>3, <3>4, <3>6 DEF Residents
      <4>2. refs'[j] = refs[j]
        BY <2>2, <3>6
      <4>3. QED
        BY <3>1, <3>2, <4>1, <4>2
    <3>7. QED
      BY <3>5, <3>6
  <2>7. DeleteInv'
    <3> SUFFICES ASSUME NEW v \in Threads, pc'[v] = "delete"
                 PROVE  /\ refs'[handle'[v]] = 0
                        /\ \A u \in Threads \ {v} : handle'[u] # handle'[v]
      BY DEF DeleteInv
    <3>1. v # t /\ pc[v] = "delete"
      BY <2>1
    <3>2. refs[handle[v]] = 0 /\ \A u \in Threads \ {v} : handle[u] # handle[v]
      BY <3>1 DEF HandleInv, DeleteInv
    <3>3. handle[v] # i /\ handle[v] \in Impls
      BY <3>1, <3>2 DEF HandleInv, Place, Shape
    <3>4. QED
      BY <1>1, <2>2, <3>2, <3>3
  <2>8. QED
    BY <2>4, <2>5, <2>6, <2>7 DEF HandleInv
<1>5. QED
  BY <1>3, <1>4 DEF RemoveIfLastOne, IsLastOne

LEMMA DereferenceHandles ==
  ASSUME Shape, Shape', HandleInv, NEW t \in Threads, Dereference(t)
  PROVE  HandleInv'
<1> DEFINE i == handle[t]
<1>1. /\ pc[t] = "dereference" /\ UNCHANGED <<name, m_locks>>
      /\ refs' = [refs EXCEPT ![i] = @ - 1]
  BY DEF Dereference, objects
<1>2. i \in Impls /\ i # NoImpl
  BY <1>1 DEF HandleInv, Place, Shape
<1>3. \A j \in Impls : refs'[j] = IF j = i THEN refs[j] - 1 ELSE refs[j]
  BY <1>1, <1>2 DEF Shape
<1>4. \/ /\ refs[i] = 1 /\ pc' = [pc EXCEPT ![t] = "delete"] /\ UNCHANGED <<handle, guards>>
      \/ /\ guards[t] > 0 /\ handle' = handle /\ guards' = [guards EXCEPT ![t] = @ - 1]
         /\ pc' = [pc EXCEPT ![t] = IF guards[t] = 1 THEN "have" ELSE "critical"]
      \/ /\ ~(guards[t] > 0) /\ guards' = guards /\ handle' = [handle EXCEPT ![t] = NoImpl]
         /\ pc' = [pc EXCEPT ![t] = "idle"]
  BY DEF Dereference, Forget, Goto
<1>5. guards[t] \in Nat
  BY BoundAssumption DEF Shape
<1>6. \* What becomes of the thread.
      \/ /\ refs[i] = 1 /\ guards[t] = 0 /\ pc'[t] = "delete"
         /\ handle'[t] = i /\ guards'[t] = 0
         /\ \A u \in Threads \ {t} : handle[u] # i
      \/ /\ guards[t] \in Nat \ {0} /\ handle'[t] = i /\ guards'[t] = guards[t] - 1
         /\ pc'[t] = IF guards[t] = 1 THEN "have" ELSE "critical"
      \/ guards[t] = 0 /\ guards'[t] = 0 /\ handle'[t] = NoImpl /\ pc'[t] = "idle"
  <2>1. CASE refs[i] = 1 /\ pc' = [pc EXCEPT ![t] = "delete"] /\ UNCHANGED <<handle, guards>>
    <3>1. /\ IsFiniteSet(HandlesOf(i)) /\ IsFiniteSet(Residents(i))
          /\ refs[i] = Cardinality(HandlesOf(i)) + Cardinality(Residents(i))
      BY <1>2 DEF HandleInv, RefInv
    <3>2. <<t, guards[t]>> \in HandlesOf(i)
      BY <1>1, BoundAssumption DEF HandlesOf, Shape
    <3>3. Cardinality(HandlesOf(i)) # 0
      BY <3>1, <3>2, FS_EmptySet
    <3>4. Cardinality(HandlesOf(i)) \in Nat /\ Cardinality(Residents(i)) \in Nat
      BY <3>1, FS_CardinalityType
    <3>5. refs[i] = 1 + Cardinality(Residents(i))
      BY ONLY <2>1, <3>1, <3>3, <3>4
    <3>6. guards[t] = 0 /\ \A u \in Threads \ {t} : handle[u] # i
      BY <1>1, <1>2, <3>5, SoleHandle
    <3>7. QED
      BY <2>1, <3>6 DEF Shape
  <2>2. CASE /\ guards[t] > 0 /\ handle' = handle /\ guards' = [guards EXCEPT ![t] = @ - 1]
             /\ pc' = [pc EXCEPT ![t] = IF guards[t] = 1 THEN "have" ELSE "critical"]
    BY <1>5, <2>2 DEF Shape
  <2>3. CASE /\ ~(guards[t] > 0) /\ guards' = guards /\ handle' = [handle EXCEPT ![t] = NoImpl]
             /\ pc' = [pc EXCEPT ![t] = "idle"]
    BY <1>5, <2>3 DEF Shape
  <2>4. QED
    BY <1>4, <2>1, <2>2, <2>3
<1>7. OthersStay(t)
  BY <1>4 DEF OthersStay, Shape
<1>8. \A u \in Threads : Place(u)'
  <2>1. ASSUME NEW u \in Threads \ {t} PROVE Place(u)'
    BY <1>1, <1>7 DEF OthersStay, HandleInv, Place
  <2>2. Place(t)'
    <3>1. name'[i] # NoName
      BY <1>1, <1>2 DEF HandleInv, Place
    <3>2. CASE guards'[t] = 0 /\ pc'[t] \in {"delete", "have"} /\ handle'[t] = i
      BY <1>2, <3>1, <3>2 DEF Place, Guarding, Holding
    <3>3. CASE guards'[t] > 0 /\ pc'[t] = "critical" /\ handle'[t] = i
      BY <1>2, <3>1, <3>3 DEF Place, Guarding, Holding
    <3>4. CASE guards'[t] = 0 /\ pc'[t] = "idle" /\ handle'[t] = NoImpl
      BY <3>4 DEF Place, Guarding, Holding
    <3>5. QED
      BY <1>6, <3>2, <3>3, <3>4
  <2>3. QED
    BY <2>1, <2>2
<1>9. MapInv'
  BY <1>1 DEF HandleInv, MapInv
<1>10. RefInv'
  <2> SUFFICES ASSUME NEW j \in Impls
               PROVE  /\ IsFiniteSet(HandlesOf(j)') /\ IsFiniteSet(Residents(j)')
                      /\ refs'[j] = Cardinality(HandlesOf(j)') + Cardinality(Residents(j)')
    BY DEF RefInv
  <2>1. /\ pc[t] # "delete"
        /\ \/ guards[t] = 0 /\ (handle'[t] = NoImpl \/ pc'[t] = "delete")
           \/ handle'[t] = i /\ guards[t] = guards'[t] + 1 /\ pc'[t] # "delete"
    BY <1>1, <1>6
  <2>2. /\ IsFiniteSet(HandlesOf(j)')
        /\ Cardinality(HandlesOf(j)')
             = IF j = i THEN Cardinality(HandlesOf(j)) - 1 ELSE Cardinality(HandlesOf(j))
    BY <1>2, <1>7, <2>1, GoneCount DEF HandleInv
  <2>3. Residents(j)' = Residents(j)
    BY <1>1 DEF Residents
  <2>4. /\ IsFiniteSet(HandlesOf(j)) /\ IsFiniteSet(Residents(j))
        /\ refs[j] = Cardinality(HandlesOf(j)) + Cardinality(Residents(j))
    BY DEF HandleInv, RefInv
  <2>5. Cardinality(HandlesOf(j)) \in Nat /\ Cardinality(Residents(j)) \in Nat
    BY <2>4, FS_CardinalityType
  <2>6. QED
    BY ONLY <1>3, <2>2, <2>3, <2>4, <2>5, j \in Impls
<1>11. DeleteInv'
  <2> SUFFICES ASSUME NEW v \in Threads, pc'[v] = "delete"
               PROVE  /\ refs'[handle'[v]] = 0
                      /\ \A u \in Threads \ {v} : handle'[u] # handle'[v]
    BY DEF DeleteInv
  <2>1. CASE v = t
    <3>1. refs[i] = 1 /\ handle'[t] = i /\ \A u \in Threads \ {t} : handle[u] # i
      BY <1>6, <2>1
    <3>2. refs'[i] = 0
      BY <1>2, <1>3, <3>1
    <3>3. QED
      BY <1>7, <2>1, <3>1, <3>2 DEF OthersStay
  <2>2. CASE v # t
    <3>1. pc[v] = "delete" /\ handle'[v] = handle[v]
      BY <1>7, <2>2 DEF OthersStay
    <3>2. refs[handle[v]] = 0 /\ \A u \in Threads \ {v} : handle[u] # handle[v]
      BY <3>1 DEF HandleInv, DeleteInv
    <3>3. handle[v] # i /\ handle[v] \in Impls
      BY <2>2, <3>1, <3>2 DEF HandleInv, Place, Shape
    <3>4. handle'[t] # handle[v]
      <4>1. handle'[t] \in {i, NoImpl} /\ handle[v] # NoImpl
        BY <1>6, <3>1 DEF HandleInv, Place
      <4>2. QED
        BY <3>3, <4>1
    <3>5. QED
      BY <1>3, <1>7, <3>1, <3>2, <3>3, <3>4 DEF OthersStay
  <2>3. QED
    BY <2>1, <2>2
<1>12. QED
  BY <1>8, <1>9, <1>10, <1>11 DEF HandleInv
LEMMA DeleteFacts ==
  ASSUME Shape, HandleInv, NEW t \in Threads, Delete(t)
  PROVE  /\ pc[t] = "delete" /\ guards[t] = 0 /\ handle[t] \in Impls /\ refs[handle[t]] = 0
         /\ \A u \in Threads \ {t} : handle[u] # handle[t]
         /\ guards' = guards /\ handle' = [handle EXCEPT ![t] = NoImpl]
         /\ pc' = [pc EXCEPT ![t] = "idle"] /\ OthersStay(t)
         /\ handle'[t] = NoImpl /\ pc'[t] = "idle" /\ guards'[t] = 0
<1>1. pc[t] = "delete" /\ Forget(t)
  BY DEF Delete
<1>2. guards[t] = 0 /\ handle[t] \in Impls
  BY <1>1 DEF HandleInv, Place, Shape
<1>3. guards' = guards /\ handle' = [handle EXCEPT ![t] = NoImpl] /\ pc' = [pc EXCEPT ![t] = "idle"]
  BY <1>1, <1>2 DEF Forget, Goto
<1>4. OthersStay(t) /\ handle'[t] = NoImpl /\ pc'[t] = "idle" /\ guards'[t] = 0
  BY <1>2, <1>3 DEF OthersStay, Shape
<1>5. refs[handle[t]] = 0 /\ \A u \in Threads \ {t} : handle[u] # handle[t]
  BY <1>1 DEF HandleInv, DeleteInv
<1>6. QED
  BY <1>1, <1>2, <1>3, <1>4, <1>5

LEMMA DeleteHandles ==
  ASSUME Shape, HandleInv, NEW t \in Threads, Delete(t)
  PROVE  HandleInv'
<1> DEFINE i == handle[t]
<1>1. /\ pc[t] = "delete" /\ guards[t] = 0 /\ i \in Impls /\ refs[i] = 0 /\ OthersStay(t)
      /\ handle'[t] = NoImpl /\ pc'[t] = "idle" /\ guards'[t] = 0
      /\ \A u \in Threads \ {t} : handle[u] # i
  BY DeleteFacts
<1>2. name' = [name EXCEPT ![i] = NoName] /\ UNCHANGED <<refs, m_locks>>
  BY DEF Delete
<1>3. \A j \in Impls : name'[j] = IF j = i THEN NoName ELSE name[j]
  BY <1>2 DEF Shape
<1>4. \A m \in Names : m_locks[m] # i
  BY <1>1, NoHandles
<1>5. \A u \in Threads : Place(u)'
  <2>1. ASSUME NEW u \in Threads \ {t} PROVE Place(u)'
    <3>1. handle'[u] = handle[u] /\ guards'[u] = guards[u] /\ pc'[u] = pc[u] /\ Place(u)
          /\ handle[u] # i /\ handle[u] \in Impls \cup {NoImpl}
      BY <1>1 DEF OthersStay, HandleInv, Shape
    <3>2. handle[u] # NoImpl => name'[handle[u]] = name[handle[u]]
      BY <1>3, <3>1
    <3>3. pc[u] = "remove" => handle[u] # NoImpl
      BY <3>1 DEF Place
    <3>4. QED
      BY <3>1, <3>2, <3>3 DEF Place
  <2>2. Place(t)'
    BY <1>1 DEF Place, Guarding, Holding
  <2>3. QED
    BY <2>1, <2>2
<1>6. MapInv'
  BY <1>2, <1>3, <1>4 DEF HandleInv, MapInv, Shape
<1>7. RefInv'
  <2> SUFFICES ASSUME NEW j \in Impls
               PROVE  HandlesOf(j)' = HandlesOf(j) /\ Residents(j)' = Residents(j)
    BY <1>2 DEF RefInv, HandleInv
  <2>1. j # NoImpl
    BY ONLY j \in Impls DEF Impls, NoImpl
  <2>2. ASSUME NEW u \in Threads, NEW k \in 0 .. MaxGuards
        PROVE  (handle'[u] = j /\ k <= guards'[u] /\ pc'[u] # "delete")
                 <=> (handle[u] = j /\ k <= guards[u] /\ pc[u] # "delete")
    <3>1. CASE u = t
      BY <1>1, <2>1, <3>1
    <3>2. CASE u # t
      BY <1>1, <3>2 DEF OthersStay
    <3>3. QED
      BY <3>1, <3>2
  <2>3. HandlesOf(j)' = HandlesOf(j)
    BY <2>2 DEF HandlesOf
  <2>4. QED
    BY <1>2, <2>3 DEF Residents
<1>8. DeleteInv'
  <2> SUFFICES ASSUME NEW v \in Threads, pc'[v] = "delete"
               PROVE  /\ refs'[handle'[v]] = 0
                      /\ \A u \in Threads \ {v} : handle'[u] # handle'[v]
    BY DEF DeleteInv
  <2>1. v # t /\ pc[v] = "delete" /\ handle'[v] = handle[v]
    BY <1>1 DEF OthersStay
  <2>2. refs[handle[v]] = 0 /\ \A u \in Threads \ {v} : handle[u] # handle[v]
    BY <2>1 DEF HandleInv, DeleteInv
  <2>3. handle[v] # NoImpl
    BY <2>1 DEF HandleInv, Place
  <2>4. QED
    BY <1>1, <1>2, <2>1, <2>2, <2>3 DEF OthersStay
<1>9. QED
  BY <1>5, <1>6, <1>7, <1>8 DEF HandleInv

LEMMA HandleStep ==
  ASSUME Shape, Shape', HandleInv, NEW t \in Threads, Step(t)
  PROVE  HandleInv'
BY PlainHandles, MakingHandles, RemoveHandles, DereferenceHandles, DeleteHandles DEF Step

-------------------------------------------------------------------------------
\* Who has the lock.

\* A step that leaves the fields of the lock alone, and how many guards hold it.
LEMMA LockStays ==
  ASSUME OwnerInv, UNCHANGED <<mutex, depth, count, tid>>,
         \A u \in Threads :
           /\ Held(u)' = Held(u)
           /\ Held(u) > 0 => handle'[u] = handle[u] /\ Counted(u)' = Counted(u)
                             /\ Signed(u)' = Signed(u)
  PROVE  OwnerInv'
<1>1. ASSUME NEW i \in Impls
      PROVE  (LockFree(i) \/ \E u \in Threads : LockHeld(i, u))'
  <2>1. CASE LockFree(i)
    BY <2>1 DEF LockFree
  <2>2. ASSUME NEW u \in Threads, LockHeld(i, u)
        PROVE  LockHeld(i, u)'
    BY <2>2 DEF LockHeld
  <2>3. QED
    BY <2>1, <2>2 DEF OwnerInv
<1>2. ASSUME NEW u \in Threads, Held(u)' > 0
      PROVE  mutex'[handle'[u]] = u
  BY <1>2 DEF OwnerInv
<1>3. QED
  BY <1>1, <1>2 DEF OwnerInv
\* Every step is one of one thread.
LEMMA StepOthers ==
  ASSUME Shape, HandleInv, NEW t \in Threads, Step(t)
  PROVE  OthersStay(t)
<1> USE DEF Shape, OthersStay, Goto, Destroy
<1>1. CASE FindOrCreate(t)
  <2>1. pc' = [pc EXCEPT ![t] = "found"] /\ guards' = guards
    BY <1>1 DEF FindOrCreate
  <2>2. \E h : handle' = [handle EXCEPT ![t] = h]
    BY <1>1 DEF FindOrCreate
  <2>3. QED
    BY <2>1, <2>2
<1>2. CASE CreateDirectly(t)
  BY <1>2 DEF CreateDirectly
<1>3. ASSUME NEW u \in Threads, CopyHandle(t, u)
      PROVE  OthersStay(t)
  BY <1>3 DEF CopyHandle
<1>4. CASE MakeGuard(t)
  BY <1>4 DEF MakeGuard
<1>5. CASE UNCHANGED <<handle, guards>> /\ \E l : Goto(t, l)
  BY <1>5
<1>6. CASE ReturnHandle(t) \/ ReadCount(t) \/ ReadOwner(t) \/ Acquire(t) \/ CountUp(t)
  BY <1>5, <1>6 DEF ReturnHandle, ReadCount, ReadOwner, Acquire, CountUp, locals
<1>7. CASE SetOwner(t) \/ Leave(t) \/ DestroyGuard(t) \/ CountDown(t) \/ ClearOwner(t)
  BY <1>5, <1>7 DEF SetOwner, Leave, DestroyGuard, CountDown, ClearOwner, locals
<1>8. CASE Release(t) \/ Drop(t) \/ RemoveIfLastOne(t) \/ UnlockFactory(t)
  BY <1>5, <1>8 DEF Release, Drop, RemoveIfLastOne, UnlockFactory, locals
<1>9. CASE Dereference(t)
  <2>1. \/ UNCHANGED <<handle, guards>>
        \/ handle' = handle /\ guards' = [guards EXCEPT ![t] = @ - 1]
        \/ guards' = guards /\ handle' = [handle EXCEPT ![t] = NoImpl]
    BY <1>9 DEF Dereference, Forget
  <2>2. \E l : pc' = [pc EXCEPT ![t] = l]
    BY <1>9 DEF Dereference, Forget
  <2>3. QED
    BY <2>1, <2>2
<1>10. CASE Delete(t)
  BY <1>10, DeleteFacts
<1>11. QED
  BY <1>1, <1>2, <1>3, <1>4, <1>6, <1>7, <1>8, <1>9, <1>10 DEF Step

\* The lock of another thread's object is none of their business.
LEMMA OthersHold ==
  ASSUME NEW t \in Threads, OthersStay(t), NEW u \in Threads \ {t},
         pc[u] = "leave" => (mutex'[handle[u]] = u <=> mutex[handle[u]] = u)
  PROVE  Held(u)' = Held(u) /\ Counted(u)' = Counted(u) /\ Signed(u)' = Signed(u)
<1>1. handle'[u] = handle[u] /\ guards'[u] = guards[u] /\ pc'[u] = pc[u]
  BY DEF OthersStay
<1>2. Held(u)' = Held(u)
  BY <1>1 DEF Held
<1>3. QED
  BY <1>1, <1>2 DEF Counted, Signed

Writing == {"count up", "set owner", "clear owner", "release"}

LEMMA TheHolder ==
  ASSUME OwnerInv, NEW i \in Impls, NEW t \in Threads, mutex[i] = t
  PROVE  LockHeld(i, t)
BY NullAssumption DEF OwnerInv, LockFree, LockHeld

LEMMA SignedIsHolder ==
  ASSUME OwnerInv, NEW i \in Impls, NEW t \in Threads, tid[i] = t
  PROVE  mutex[i] = t
BY NullAssumption DEF OwnerInv, LockFree, LockHeld, Signed

LEMMA NeutralStep ==
  ASSUME OwnerInv, NEW t \in Threads, OthersStay(t), UNCHANGED <<mutex, depth, count, tid>>,
         Held(t)' = Held(t), Held(t) > 0 => handle'[t] = handle[t],
         pc[t] \notin Writing, pc'[t] \notin Writing
  PROVE  OwnerInv'
<1>1. Counted(t)' = Counted(t) /\ Signed(t)' = Signed(t)
  BY DEF Counted, Signed, Writing
<1>2. ASSUME NEW u \in Threads \ {t}
      PROVE  handle'[u] = handle[u] /\ Held(u)' = Held(u) /\ Counted(u)' = Counted(u)
             /\ Signed(u)' = Signed(u)
  BY OthersHold DEF OthersStay
<1>3. QED
  BY <1>1, <1>2, LockStays

\* A step that writes the fields of the lock of its own object.
LEMMA WriteStep ==
  ASSUME Shape, HandleInv, OwnerInv, NEW t \in Threads, NEW i \in Impls, handle[t] = i,
         OthersStay(t),
         \A j \in Impls \ {i} : mutex'[j] = mutex[j] /\ depth'[j] = depth[j]
                                /\ count'[j] = count[j] /\ tid'[j] = tid[j],
         \A u \in Threads \ {t} : handle[u] = i => mutex[i] # u /\ mutex'[i] # u,
         LockFree(i)' \/ LockHeld(i, t)',
         Held(t)' > 0 => handle'[t] = i /\ mutex'[i] = t
  PROVE  OwnerInv'
<1>1. ASSUME NEW u \in Threads \ {t}
      PROVE  handle'[u] = handle[u] /\ Held(u)' = Held(u) /\ Counted(u)' = Counted(u)
             /\ Signed(u)' = Signed(u)
  <2>1. pc[u] = "leave" => handle[u] \in Impls
    BY DEF HandleInv, Place, Shape
  <2>2. pc[u] = "leave" => (mutex'[handle[u]] = u <=> mutex[handle[u]] = u)
    BY <2>1
  <2>3. QED
    BY <2>2, OthersHold DEF OthersStay
<1>2. ASSUME NEW j \in Impls \ {i}
      PROVE  (LockFree(j) \/ \E u \in Threads : LockHeld(j, u))'
  <2>1. CASE LockFree(j)
    BY <2>1 DEF LockFree
  <2>2. ASSUME NEW u \in Threads, LockHeld(j, u)
        PROVE  LockHeld(j, u)'
    <3>1. u # t
      BY <2>2 DEF LockHeld
    <3>2. QED
      BY <1>1, <2>2, <3>1 DEF LockHeld
  <2>3. QED
    BY <2>1, <2>2 DEF OwnerInv
<1>3. ASSUME NEW u \in Threads, Held(u)' > 0
      PROVE  mutex'[handle'[u]] = u
  <2>1. CASE u = t
    BY <1>3, <2>1
  <2>2. CASE u # t
    <3>1. Held(u) > 0 /\ handle'[u] = handle[u]
      BY <1>1, <1>3, <2>2
    <3>2. mutex[handle[u]] = u
      BY <3>1 DEF OwnerInv
    <3>3. guards[u] # 0 => handle[u] \in Impls
      BY DEF HandleInv, Place, Shape
    <3>4. guards[u] # 0
      BY <3>1 DEF Held
    <3>5. handle[u] # i
      BY <2>2, <3>2
    <3>6. QED
      BY <3>1, <3>2, <3>3, <3>4, <3>5
  <2>3. QED
    BY <2>1, <2>2
<1>4. QED
  BY <1>2, <1>3 DEF OwnerInv
\* What a thread finds that holds the lock of its object and is not writing.
LEMMA HolderFinds ==
  ASSUME OwnerInv, NEW t \in Threads, handle[t] \in Impls, pc[t] \notin Writing
  PROVE  HaveLock(t) <=> mutex[handle[t]] = t
<1>1. ASSUME HaveLock(t) PROVE mutex[handle[t]] = t
  BY <1>1, SignedIsHolder DEF HaveLock
<1>2. ASSUME mutex[handle[t]] = t PROVE HaveLock(t)
  <2>1. LockHeld(handle[t], t)
    BY <1>2, TheHolder
  <2>2. Counted(t) = Held(t) /\ Signed(t) = t
    BY DEF Counted, Signed, Writing
  <2>3. QED
    BY <2>1, <2>2 DEF LockHeld, HaveLock
<1>3. QED
  BY <1>1, <1>2

LEMMA NeutralOwner ==
  ASSUME Shape, HandleInv, OwnerInv, CheckInv, NEW t \in Threads, OthersStay(t),
         \/ FindOrCreate(t) \/ ReturnHandle(t) \/ CreateDirectly(t)
         \/ \E u \in Threads : CopyHandle(t, u)
         \/ MakeGuard(t) \/ ReadCount(t) \/ ReadOwner(t) \/ (Acquire(t) /\ UNCHANGED native)
         \/ Leave(t) \/ DestroyGuard(t) \/ Drop(t) \/ RemoveIfLastOne(t) \/ UnlockFactory(t)
         \/ Dereference(t)
  PROVE  OwnerInv'
<1>1. UNCHANGED <<mutex, depth, count, tid>>
  BY DEF FindOrCreate, ReturnHandle, CreateDirectly, CopyHandle, MakeGuard, ReadCount, ReadOwner,
         Acquire, Leave, DestroyGuard, Drop, RemoveIfLastOne, UnlockFactory, Dereference, native,
         owner
<1> USE DEF Goto, Shape
<1>3. CASE FindOrCreate(t) \/ CreateDirectly(t) \/ \E u \in Threads : CopyHandle(t, u)
  <2>1. pc[t] = "idle" /\ pc'[t] \in {"found", "have"} /\ guards' = guards
    BY <1>3 DEF FindOrCreate, CreateDirectly, CopyHandle
  <2>2. guards[t] = 0
    BY <2>1 DEF HandleInv, Place
  <2>3. Held(t) = 0 /\ Held(t)' = 0
    BY <2>1, <2>2 DEF Held, Holding
  <2>4. pc[t] \notin Writing /\ pc'[t] \notin Writing
    BY <2>1 DEF Writing
  <2>5. QED
    BY <1>1, <2>3, <2>4, NeutralStep
<1>4. CASE ReturnHandle(t)
  <2>1. pc[t] = "found" /\ pc'[t] = "have" /\ UNCHANGED <<handle, guards>>
    BY <1>4 DEF ReturnHandle, locals
  <2>2. Held(t) = Held(t)'
    BY <2>1 DEF Held, Holding
  <2>3. QED
    BY <1>1, <2>1, <2>2, NeutralStep DEF Writing
<1>5. CASE MakeGuard(t)
  <2>1. /\ pc[t] \in {"have", "critical"} /\ pc'[t] = "read count" /\ handle' = handle
        /\ guards'[t] = guards[t] + 1
    BY <1>5 DEF MakeGuard
  <2>2. guards[t] \in Nat /\ (pc[t] = "have" => guards[t] = 0)
    <3>1. guards[t] \in 0 .. MaxGuards
      OBVIOUS
    <3>2. QED
      BY <3>1, BoundAssumption DEF HandleInv, Place
  <2>3. Held(t) = guards[t]
    BY <2>1, <2>2 DEF Held, Holding
  <2>4. Held(t)' = guards[t]
    <3>1. Held(t)' = IF guards'[t] = 0 THEN 0 ELSE guards'[t] - 1
      BY <2>1 DEF Held, Holding
    <3>2. guards[t] \in Nat /\ guards'[t] = guards[t] + 1
      BY <2>1, <2>2
    <3>3. guards'[t] # 0 /\ guards'[t] - 1 = guards[t]
      BY ONLY <3>2
    <3>4. QED
      BY <3>1, <3>3
  <2>5. pc[t] \notin Writing /\ pc'[t] \notin Writing
    BY <2>1 DEF Writing
  <2>6. QED
    BY <1>1, <2>1, <2>3, <2>4, <2>5, NeutralStep
<1>6. CASE ReadCount(t) \/ ReadOwner(t)
  <2>1. /\ pc[t] \in {"read count", "read owner"} /\ UNCHANGED <<handle, guards>>
        /\ pc'[t] \in {"read owner", "acquire", "dereference", "remove"}
    BY <1>6 DEF ReadCount, ReadOwner, Destroy, locals
  <2>2. Held(t) = Held(t)'
    BY <2>1 DEF Held, Holding
  <2>3. pc[t] \notin Writing /\ pc'[t] \notin Writing
    BY <2>1 DEF Writing
  <2>4. QED
    BY <1>1, <2>1, <2>2, <2>3, NeutralStep
<1>7. CASE Acquire(t) /\ UNCHANGED native
  <2>1. pc[t] = "acquire" /\ UNCHANGED <<handle, guards>> /\ handle[t] \in Impls
    BY <1>7 DEF Acquire, HandleInv, Place
  <2>2. depth[handle[t]] \in Int
    BY <2>1
  <2>3. depth' # [depth EXCEPT ![handle[t]] = @ + 1]
    <3>1. depth'[handle[t]] = depth[handle[t]]
      BY <1>1
    <3>2. depth[handle[t]] # depth[handle[t]] + 1
      BY <2>2
    <3>3. [depth EXCEPT ![handle[t]] = @ + 1][handle[t]] = depth[handle[t]] + 1
      BY <2>1
    <3>4. QED
      BY <3>1, <3>2, <3>3
  <2>4. /\ pc'[t] = "leave"
        /\ ~(mutex[handle[t]] = NoThread \/ (recursive[handle[t]] /\ mutex[handle[t]] = t))
    BY <1>7, <2>3 DEF Acquire
  <2>5. mutex[handle[t]] # t
    BY <2>1, <2>4 DEF CheckInv
  <2>6. Held(t) = Held(t)'
    BY <1>1, <2>1, <2>4, <2>5 DEF Held, Holding
  <2>7. QED
    BY <1>1, <2>1, <2>4, <2>6, NeutralStep DEF Writing
<1>8. CASE Leave(t)
  <2>1. pc[t] = "critical" /\ pc'[t] = "leave" /\ UNCHANGED <<handle, guards>> /\ guards[t] > 0
    BY <1>8 DEF Leave, locals, HandleInv, Place, Guarding, Holding
  <2>2. Held(t) = guards[t]
    BY <2>1 DEF Held, Holding
  <2>3. mutex[handle[t]] = t
    BY <2>1, <2>2 DEF OwnerInv
  <2>4. Held(t)' = guards[t]
    BY <1>1, <2>1, <2>3 DEF Held, Holding
  <2>5. QED
    BY <1>1, <2>1, <2>2, <2>4, NeutralStep DEF Writing
<1>9. CASE DestroyGuard(t)
  <2>1. pc[t] = "leave" /\ UNCHANGED <<handle, guards>> /\ handle[t] \in Impls
    BY <1>9 DEF DestroyGuard, locals, HandleInv, Place
  <2>2. HaveLock(t) <=> mutex[handle[t]] = t
    BY <2>1, HolderFinds DEF Writing
  <2>3. /\ pc'[t] \in {"count down", "dereference", "remove"}
        /\ pc'[t] = "count down" <=> HaveLock(t)
    BY <1>9 DEF DestroyGuard, Destroy
  <2>4. Held(t)' = Held(t)
    BY <1>1, <2>1, <2>2, <2>3 DEF Held, Holding
  <2>5. pc[t] \notin Writing /\ pc'[t] \notin Writing
    BY <2>1, <2>3 DEF Writing
  <2>6. QED
    BY <1>1, <2>1, <2>4, <2>5, NeutralStep
<1>10. CASE Drop(t) \/ RemoveIfLastOne(t) \/ UnlockFactory(t)
  <2>1. /\ pc[t] \in {"have", "remove", "unlock factory"} /\ UNCHANGED <<handle, guards>>
        /\ pc'[t] \in {"remove", "unlock factory", "dereference"}
    BY <1>10 DEF Drop, RemoveIfLastOne, UnlockFactory, Destroy, locals
  <2>2. Held(t) = Held(t)'
    BY <2>1 DEF Held, Holding
  <2>3. pc[t] \notin Writing /\ pc'[t] \notin Writing
    BY <2>1 DEF Writing
  <2>4. QED
    BY <1>1, <2>1, <2>2, <2>3, NeutralStep
<1>11. CASE Dereference(t)
  <2>1. pc[t] = "dereference" /\ guards[t] \in Nat
    BY <1>11, BoundAssumption DEF Dereference
  <2>2. \/ pc'[t] = "delete" /\ UNCHANGED <<handle, guards>>
        \/ /\ guards[t] > 0 /\ handle' = handle /\ guards'[t] = guards[t] - 1
           /\ pc'[t] = IF guards[t] = 1 THEN "have" ELSE "critical"
        \/ ~(guards[t] > 0) /\ guards' = guards /\ pc'[t] = "idle"
    BY <1>11 DEF Dereference, Forget
  <2>3. Held(t) = IF guards[t] = 0 THEN 0 ELSE guards[t] - 1
    BY <2>1 DEF Held, Holding
  <2>4. CASE pc'[t] = "delete" /\ UNCHANGED <<handle, guards>>
    <3>1. Held(t)' = Held(t)
      BY <2>3, <2>4 DEF Held, Holding
    <3>2. QED
      BY <1>1, <2>1, <2>4, <3>1, NeutralStep DEF Writing
  <2>5. CASE /\ guards[t] > 0 /\ handle' = handle /\ guards'[t] = guards[t] - 1
             /\ pc'[t] = IF guards[t] = 1 THEN "have" ELSE "critical"
    <3>1. CASE guards[t] = 1
      <4>1. guards'[t] = 0 /\ pc'[t] = "have" /\ Held(t) = 0
        BY <2>3, <2>5, <3>1
      <4>2. Held(t)' = 0
        BY <4>1 DEF Held, Holding
      <4>3. QED
        BY <1>1, <2>1, <2>5, <4>1, <4>2, NeutralStep DEF Writing
    <3>2. CASE guards[t] # 1
      <4>1. pc'[t] = "critical" /\ Held(t) = guards'[t]
        BY <2>1, <2>3, <2>5, <3>2
      <4>2. Held(t)' = guards'[t]
        BY <4>1 DEF Held, Holding
      <4>3. QED
        BY <1>1, <2>1, <2>5, <4>1, <4>2, NeutralStep DEF Writing
    <3>3. QED
      BY <3>1, <3>2
  <2>6. CASE ~(guards[t] > 0) /\ guards' = guards /\ pc'[t] = "idle"
    <3>1. guards[t] = 0 /\ guards'[t] = 0
      BY <2>1, <2>6
    <3>2. Held(t) = 0 /\ Held(t)' = 0
      BY <2>3, <2>6, <3>1 DEF Held, Holding
    <3>3. Held(t)' = Held(t) /\ ~(Held(t) > 0)
      BY <3>2
    <3>4. pc[t] \notin Writing /\ pc'[t] \notin Writing
      BY <2>1, <2>6 DEF Writing
    <3>5. QED
      BY <1>1, <3>3, <3>4, NeutralStep
  <2>7. QED
    BY <2>2, <2>4, <2>5, <2>6
<1>12. QED
  BY <1>3, <1>4, <1>5, <1>6, <1>7, <1>8, <1>9, <1>10, <1>11
-------------------------------------------------------------------------------
\* Steps that write.

LEMMA WritingOwner ==
  ASSUME Shape, HandleInv, OwnerInv, CheckInv, NEW t \in Threads, OthersStay(t),
         \/ (Acquire(t) /\ ~UNCHANGED native) \/ CountUp(t) \/ SetOwner(t) \/ CountDown(t)
         \/ ClearOwner(t) \/ Release(t) \/ Delete(t)
  PROVE  OwnerInv'
<1>1. pc[t] # "idle"
  BY DEF Acquire, CountUp, SetOwner, CountDown, ClearOwner, Release, Delete
<1>2. PICK i \in Impls : handle[t] = i
  BY <1>1 DEF HandleInv, Place, Shape
<1>13. guards[t] \in Nat
  <2>1. guards[t] \in 0 .. MaxGuards
    BY DEF Shape
  <2>2. QED
    BY ONLY <2>1, BoundAssumption
<1>3. pc[t] \in Guarding => guards[t] > 0
  BY DEF HandleInv, Place
<1>4. ASSUME pc[t] \in Holding
      PROVE  Held(t) = guards[t] /\ guards[t] > 0 /\ LockHeld(i, t)
  <2>1. Held(t) = guards[t] /\ guards[t] > 0
    BY <1>3, <1>4 DEF Held, Guarding
  <2>2. mutex[i] = t
    BY <1>2, <2>1 DEF OwnerInv
  <2>3. QED
    BY <1>2, <2>1, <2>2, TheHolder
<1> USE DEF Goto, Shape
<1>5. CASE Acquire(t) /\ ~UNCHANGED native
  <2>1. /\ pc[t] = "acquire" /\ handle' = handle /\ guards' = guards /\ pc'[t] = "count up"
        /\ mutex[i] = NoThread \/ mutex[i] = t
        /\ mutex' = [mutex EXCEPT ![i] = t] /\ depth' = [depth EXCEPT ![i] = @ + 1]
        /\ UNCHANGED <<count, tid>>
    <3>1. ~UNCHANGED native
      BY <1>5
    <3>2. /\ pc[t] = "acquire" /\ handle' = handle /\ guards' = guards
          /\ UNCHANGED <<count, tid>>
      BY <1>5 DEF Acquire, owner
    <3>3. /\ Goto(t, "count up")
          /\ mutex[handle[t]] = NoThread \/ mutex[handle[t]] = t
          /\ mutex' = [mutex EXCEPT ![handle[t]] = t]
          /\ depth' = [depth EXCEPT ![handle[t]] = @ + 1]
      BY <1>5, <3>1 DEF Acquire
    <3>4. QED
      BY <1>2, <3>2, <3>3
  <2>2. /\ \A j \in Impls \ {i} : mutex'[j] = mutex[j] /\ depth'[j] = depth[j]
        /\ mutex'[i] = t /\ depth'[i] = depth[i] + 1
    BY <1>2, <2>1
  <2>3. guards[t] \in Nat \ {0} /\ Held(t) = guards[t] - 1
    <3>1. guards[t] > 0
      BY <1>3, <2>1 DEF Guarding
    <3>2. guards[t] \in Nat \ {0}
      BY ONLY <1>13, <3>1
    <3>3. Held(t) = IF guards[t] = 0 THEN 0 ELSE guards[t] - 1
      BY <2>1 DEF Held, Holding
    <3>4. QED
      BY ONLY <3>2, <3>3
  <2>4. Held(t)' = guards[t] /\ Counted(t)' = guards[t] - 1
        /\ Signed(t)' = IF guards[t] = 1 THEN NoThread ELSE t
    BY <2>1 DEF Held, Counted, Signed, Holding
  <2>5. ASSUME mutex[i] = NoThread
        PROVE  LockHeld(i, t)'
    <3>1. LockFree(i)
      BY <1>2, <2>5, NullAssumption DEF OwnerInv, LockHeld
    <3>2. ~(Held(t) > 0)
      BY <1>2, <2>5, NullAssumption DEF OwnerInv
    <3>3. guards[t] = 1
      BY ONLY <2>3, <3>2
    <3>4. Held(t)' = 1 /\ Counted(t)' = 0 /\ Signed(t)' = NoThread
      BY <2>4, <3>3
    <3>5. depth'[i] = 1 /\ count'[i] = 0 /\ tid'[i] = NoThread
      <4>1. depth[i] = 0 /\ count[i] = 0 /\ tid[i] = NoThread
        BY <3>1 DEF LockFree
      <4>2. depth'[i] = depth[i] + 1 /\ count' = count /\ tid' = tid
        BY <2>1, <2>2
      <4>3. QED
        BY <4>1, <4>2
    <3>6. handle'[t] = i /\ Held(t)' > 0
      <4>1. handle'[t] = i
        BY <1>2, <2>1
      <4>2. QED
        BY <3>4, <4>1
    <3>7. QED
      BY <2>2, <3>4, <3>5, <3>6 DEF LockHeld
  <2>6. ASSUME mutex[i] = t
        PROVE  LockHeld(i, t)'
    <3>1. LockHeld(i, t)
      BY <1>2, <2>6, TheHolder
    <3>2. Counted(t) = Held(t) /\ Signed(t) = t
      BY <2>1 DEF Counted, Signed
    <3>3. depth[i] = guards[t] - 1 /\ count'[i] = guards[t] - 1 /\ tid'[i] = t
          /\ guards[t] - 1 > 0
      BY <2>1, <2>3, <3>1, <3>2 DEF LockHeld
    <3>4. guards[t] # 1 /\ guards[t] > 0 /\ depth'[i] = guards[t]
      BY <2>2, <2>3, <3>3
    <3>5. handle'[t] = i /\ mutex'[i] = t
      BY <1>2, <2>1, <2>2
    <3>6. Held(t)' = guards[t] /\ Held(t)' > 0 /\ Counted(t)' = guards[t] - 1 /\ Signed(t)' = t
      BY <2>4, <3>4
    <3>7. QED
      BY <3>3, <3>4, <3>5, <3>6 DEF LockHeld
  <2>7. LockHeld(i, t)'
    BY <2>1, <2>5, <2>6
  <2>8. \A j \in Impls \ {i} : mutex'[j] = mutex[j] /\ depth'[j] = depth[j]
                                    /\ count'[j] = count[j] /\ tid'[j] = tid[j]
    BY <2>1, <2>2
  <2>9. /\ handle'[t] = i /\ mutex'[i] = t
        /\ \A u \in Threads \ {t} : mutex[i] # u /\ mutex'[i] # u
    <3>1. mutex[i] \in {t, NoThread} /\ mutex'[i] = t /\ handle'[t] = i
      BY <1>2, <2>1, <2>2
    <3>2. QED
      BY <3>1, NullAssumption
  <2>10. QED
    BY <1>2, <2>8, <2>9, <2>7, WriteStep
<1>6. CASE CountUp(t)
  <2>1. /\ pc[t] = "count up" /\ handle' = handle /\ guards' = guards /\ pc'[t] = "set owner"
        /\ count' = [count EXCEPT ![i] = @ + 1] /\ UNCHANGED <<mutex, depth, tid>>
    BY <1>2, <1>6 DEF CountUp, locals, native
  <2>2. count'[i] = count[i] + 1 /\ \A j \in Impls \ {i} : count'[j] = count[j]
    BY <1>2, <2>1
  <2>3. Held(t) = guards[t] /\ guards[t] > 0 /\ LockHeld(i, t)
    BY <1>4, <2>1 DEF Holding
  <2>4. Held(t)' = guards[t] /\ Counted(t)' = guards[t] /\ Signed(t)' = Signed(t)
        /\ Counted(t) = guards[t] - 1
    BY <2>1, <2>3 DEF Held, Counted, Signed, Holding
  <2>5. count'[i] = guards[t]
    BY <1>2, <2>2, <2>3, <2>4 DEF LockHeld
  <2>6. LockHeld(i, t)'
    BY <2>1, <2>3, <2>4, <2>5 DEF LockHeld
  <2>7. \A j \in Impls \ {i} : mutex'[j] = mutex[j] /\ depth'[j] = depth[j]
                                    /\ count'[j] = count[j] /\ tid'[j] = tid[j]
    BY <2>1, <2>2
  <2>8. /\ handle'[t] = i /\ mutex'[i] = t
        /\ \A u \in Threads \ {t} : mutex[i] # u /\ mutex'[i] # u
    BY <1>2, <2>1, <2>3 DEF LockHeld
  <2>9. QED
    BY <1>2, <2>7, <2>8, <2>6, WriteStep
<1>7. CASE SetOwner(t)
  <2>1. /\ pc[t] = "set owner" /\ handle' = handle /\ guards' = guards /\ pc'[t] = "critical"
        /\ tid' = [tid EXCEPT ![i] = t] /\ UNCHANGED <<mutex, depth, count>>
    BY <1>2, <1>7 DEF SetOwner, locals, native
  <2>2. tid'[i] = t /\ \A j \in Impls \ {i} : tid'[j] = tid[j]
    BY <1>2, <2>1
  <2>3. Held(t) = guards[t] /\ guards[t] > 0 /\ LockHeld(i, t)
    BY <1>4, <2>1 DEF Holding
  <2>4. Held(t)' = guards[t] /\ Counted(t)' = guards[t] /\ Counted(t) = guards[t] /\ Signed(t)' = t
    BY <2>1, <2>3 DEF Held, Counted, Signed, Holding
  <2>5. LockHeld(i, t)'
    BY <2>1, <2>2, <2>3, <2>4 DEF LockHeld
  <2>6. \A j \in Impls \ {i} : mutex'[j] = mutex[j] /\ depth'[j] = depth[j]
                                    /\ count'[j] = count[j] /\ tid'[j] = tid[j]
    BY <2>1, <2>2
  <2>7. /\ handle'[t] = i /\ mutex'[i] = t
        /\ \A u \in Threads \ {t} : mutex[i] # u /\ mutex'[i] # u
    BY <1>2, <2>1, <2>3 DEF LockHeld
  <2>8. QED
    BY <1>2, <2>6, <2>7, <2>5, WriteStep
<1>8. CASE CountDown(t)
  <2>1. /\ pc[t] = "count down" /\ handle' = handle /\ guards' = guards
        /\ pc'[t] = IF count[i] = 1 THEN "clear owner" ELSE "release"
        /\ count' = [count EXCEPT ![i] = @ - 1] /\ UNCHANGED <<mutex, depth, tid>>
    BY <1>2, <1>8 DEF CountDown, locals, native
  <2>2. count'[i] = count[i] - 1 /\ \A j \in Impls \ {i} : count'[j] = count[j]
    BY <1>2, <2>1
  <2>3. Held(t) = guards[t] /\ guards[t] > 0 /\ LockHeld(i, t)
    BY <1>4, <2>1 DEF Holding
  <2>4. Counted(t) = guards[t] /\ Signed(t) = t
    BY <2>1, <2>3 DEF Counted, Signed
  <2>5. count[i] = guards[t] /\ tid[i] = t /\ depth[i] = guards[t] /\ mutex[i] = t
    BY <2>3, <2>4 DEF LockHeld
  <2>6. Held(t)' = guards[t] /\ Counted(t)' = guards[t] - 1
    BY <2>1 DEF Held, Counted, Holding
  <2>7. Signed(t)' = t
    <3>1. pc'[t] = "release" => guards[t] # 1
      BY <2>1, <2>5
    <3>2. QED
      BY <2>1, <2>6, <3>1 DEF Signed
  <2>8. count'[i] = guards[t] - 1
    BY <2>2, <2>5
  <2>9. LockHeld(i, t)'
    BY <2>1, <2>3, <2>5, <2>6, <2>7, <2>8 DEF LockHeld
  <2>10. \A j \in Impls \ {i} : mutex'[j] = mutex[j] /\ depth'[j] = depth[j]
                                     /\ count'[j] = count[j] /\ tid'[j] = tid[j]
    BY <2>1, <2>2
  <2>11. /\ handle'[t] = i /\ mutex'[i] = t
        /\ \A u \in Threads \ {t} : mutex[i] # u /\ mutex'[i] # u
    BY <1>2, <2>1, <2>5
  <2>12. QED
    BY <1>2, <2>10, <2>11, <2>9, WriteStep
<1>9. CASE ClearOwner(t)
  <2>1. /\ pc[t] = "clear owner" /\ handle' = handle /\ guards' = guards /\ pc'[t] = "release"
        /\ tid' = [tid EXCEPT ![i] = NoThread] /\ UNCHANGED <<mutex, depth, count>>
    BY <1>2, <1>9 DEF ClearOwner, locals, native
  <2>2. tid'[i] = NoThread /\ \A j \in Impls \ {i} : tid'[j] = tid[j]
    BY <1>2, <2>1
  <2>3. Held(t) = guards[t] /\ guards[t] = 1 /\ LockHeld(i, t)
    BY <1>4, <2>1 DEF Holding, CheckInv
  <2>4. Held(t)' = 1 /\ Counted(t)' = 0 /\ Counted(t) = 0 /\ Signed(t)' = NoThread
    <3>1. Held(t)' = 1
      BY <2>1, <2>3 DEF Held, Holding
    <3>2. Counted(t) = Held(t) - 1 /\ Held(t) = 1
      BY <2>1, <2>3 DEF Counted
    <3>3. Counted(t)' = Held(t)' - 1
      BY <2>1 DEF Counted
    <3>4. Signed(t)' = NoThread
      BY <2>1, <3>1 DEF Signed
    <3>5. QED
      BY <3>1, <3>2, <3>3, <3>4
  <2>5. LockHeld(i, t)'
    <3>1. depth[i] = 1 /\ count[i] = 0 /\ mutex[i] = t
      BY <2>3, <2>4 DEF LockHeld
    <3>2. depth'[i] = 1 /\ count'[i] = 0 /\ mutex'[i] = t /\ tid'[i] = NoThread /\ handle'[t] = i
      BY <1>2, <2>1, <2>2, <3>1
    <3>3. QED
      BY <2>4, <3>2 DEF LockHeld
  <2>6. \A j \in Impls \ {i} : mutex'[j] = mutex[j] /\ depth'[j] = depth[j]
                                    /\ count'[j] = count[j] /\ tid'[j] = tid[j]
    BY <2>1, <2>2
  <2>7. /\ handle'[t] = i /\ mutex'[i] = t
        /\ \A u \in Threads \ {t} : mutex[i] # u /\ mutex'[i] # u
    BY <1>2, <2>1, <2>3 DEF LockHeld
  <2>8. QED
    BY <1>2, <2>6, <2>7, <2>5, WriteStep
<1>10. CASE Release(t)
  <2>1. /\ pc[t] = "release" /\ handle' = handle /\ guards' = guards
        /\ pc'[t] \in {"dereference", "remove"}
        /\ depth' = [depth EXCEPT ![i] = @ - 1]
        /\ mutex' = [mutex EXCEPT ![i] = IF depth[i] = 1 THEN NoThread ELSE t]
        /\ UNCHANGED <<count, tid>>
    BY <1>2, <1>10 DEF Release, Destroy, locals, owner
  <2>2. /\ depth'[i] = depth[i] - 1 /\ mutex'[i] = IF depth[i] = 1 THEN NoThread ELSE t
        /\ \A j \in Impls \ {i} : depth'[j] = depth[j] /\ mutex'[j] = mutex[j]
    BY <1>2, <2>1
  <2>3. Held(t) = guards[t] /\ guards[t] > 0 /\ LockHeld(i, t)
    BY <1>4, <2>1 DEF Holding
  <2>4. Counted(t) = guards[t] - 1 /\ Signed(t) = IF guards[t] = 1 THEN NoThread ELSE t
    BY <2>1, <2>3 DEF Counted, Signed
  <2>5. /\ depth[i] = guards[t] /\ mutex[i] = t /\ count'[i] = guards[t] - 1
        /\ tid'[i] = IF guards[t] = 1 THEN NoThread ELSE t
    BY <2>1, <2>3, <2>4 DEF LockHeld
  <2>6. Held(t)' = guards[t] - 1 /\ Counted(t)' = guards[t] - 1 /\ Signed(t)' = t
    <3>1. guards[t] # 0
      BY <1>13, <2>3
    <3>2. pc'[t] \notin Holding \cup {"leave"} /\ pc'[t] \notin Writing
      BY <2>1 DEF Holding, Writing
    <3>3. Held(t)' = guards[t] - 1
      BY <2>1, <3>1, <3>2 DEF Held
    <3>4. QED
      BY <3>2, <3>3 DEF Counted, Signed, Writing
  <2>10. \A j \in Impls \ {i} : mutex'[j] = mutex[j] /\ depth'[j] = depth[j]
                                 /\ count'[j] = count[j] /\ tid'[j] = tid[j]
    BY <2>1, <2>2
  <2>11. handle'[t] = i /\ \A u \in Threads \ {t} : mutex[i] # u /\ mutex'[i] # u
    BY <1>2, <2>1, <2>2, <2>5, NullAssumption
  <2>7. CASE guards[t] = 1
    <3>1. depth'[i] = 0 /\ count'[i] = 0 /\ mutex'[i] = NoThread /\ tid'[i] = NoThread
      BY <2>2, <2>5, <2>7
    <3>2. LockFree(i)'
      BY <3>1 DEF LockFree
    <3>3. ~(Held(t)' > 0)
      BY <2>6, <2>7
    <3>4. QED
      BY <1>2, <2>10, <2>11, <3>2, <3>3, WriteStep
  <2>8. CASE guards[t] # 1
    <3>1. guards[t] - 1 > 0
      BY ONLY <1>13, <2>3, <2>8
    <3>2. depth'[i] = guards[t] - 1 /\ mutex'[i] = t /\ tid'[i] = t
      BY <2>2, <2>5, <2>8
    <3>3. LockHeld(i, t)'
      <4>1. count'[i] = guards[t] - 1 /\ handle'[t] = i /\ Held(t)' > 0
        BY <2>5, <2>6, <2>11, <3>1
      <4>2. QED
        BY <2>6, <3>2, <4>1 DEF LockHeld
    <3>4. QED
      BY <1>2, <2>10, <2>11, <3>2, <3>3, WriteStep
  <2>9. QED
    BY <2>7, <2>8
<1>11. CASE Delete(t)
  <2>1. /\ \A u \in Threads \ {t} : handle[u] # i
        /\ guards'[t] = 0 /\ pc'[t] = "idle"
    BY <1>2, <1>11, DeleteFacts
  <2>2. /\ mutex' = [mutex EXCEPT ![i] = NoThread]
        /\ depth' = [depth EXCEPT ![i] = 0]
        /\ count' = [count EXCEPT ![i] = 0]
        /\ tid' = [tid EXCEPT ![i] = NoThread]
    BY <1>2, <1>11 DEF Delete
  <2>3. /\ \A j \in Impls \ {i} : mutex'[j] = mutex[j] /\ depth'[j] = depth[j]
                                  /\ count'[j] = count[j] /\ tid'[j] = tid[j]
        /\ mutex'[i] = NoThread /\ depth'[i] = 0 /\ count'[i] = 0 /\ tid'[i] = NoThread
    BY <1>2, <2>2
  <2>4. ~(Held(t)' > 0)
    BY <2>1 DEF Held, Holding
  <2>5. LockFree(i)'
    BY <2>3 DEF LockFree
  <2>6. QED
    BY <1>2, <2>1, <2>3, <2>4, <2>5, WriteStep
<1>12. QED
  BY <1>5, <1>6, <1>7, <1>8, <1>9, <1>10, <1>11
LEMMA OwnerStep ==
  ASSUME Shape, HandleInv, OwnerInv, CheckInv, NEW t \in Threads, Step(t)
  PROVE  OwnerInv'
<1>1. OthersStay(t)
  BY StepOthers
<1>2. CASE Acquire(t)
  BY <1>1, <1>2, NeutralOwner, WritingOwner
<1>3. CASE ~Acquire(t)
  BY <1>1, <1>3, NeutralOwner, WritingOwner DEF Step
<1>4. QED
  BY <1>2, <1>3

-------------------------------------------------------------------------------
\* Who is asked whether he has it.

\* Nobody gets a mutex by a step of another thread.
LEMMA MutexOfOthers ==
  ASSUME Shape, HandleInv, NEW t \in Threads, Step(t), NEW u \in Threads \ {t}, NEW i \in Impls,
         mutex'[i] = u
  PROVE  mutex[i] = u
<1>1. mutex' = mutex \/ \E m \in {t, NoThread} : mutex' = [mutex EXCEPT ![handle[t]] = m]
  <2>1. CASE Acquire(t) \/ Release(t) \/ Delete(t)
    BY <2>1 DEF Acquire, Release, Delete, native
  <2>2. CASE ~(Acquire(t) \/ Release(t) \/ Delete(t))
    BY <2>2 DEF Step, FindOrCreate, ReturnHandle, CreateDirectly, CopyHandle, MakeGuard, ReadCount,
            ReadOwner, CountUp, SetOwner, Leave, DestroyGuard, CountDown, ClearOwner, Drop,
            RemoveIfLastOne, UnlockFactory, Dereference, native
  <2>3. QED
    BY <2>1, <2>2
<1>2. QED
  BY <1>1, NullAssumption DEF Shape

\* An object does not change while there is a handle of it.
LEMMA ObjectStays ==
  ASSUME Shape, HandleInv, NEW t \in Threads, Step(t),
         NEW u \in Threads, u # t \/ ~Delete(t), handle[u] \in Impls
  PROVE  /\ name'[handle[u]] = name[handle[u]]
         /\ global'[handle[u]] = global[handle[u]]
         /\ recursive'[handle[u]] = recursive[handle[u]]
<1>1. CASE FindOrCreate(t) \/ CreateDirectly(t)
  <2>1. \/ UNCHANGED objects
        \/ \E i \in Impls, n \in Names \cup {Anonymous}, g \in BOOLEAN : New(i, n, g)
    BY <1>1 DEF FindOrCreate, CreateDirectly
  <2>2. ASSUME NEW i \in Impls, NEW n \in Names \cup {Anonymous}, NEW g \in BOOLEAN, New(i, n, g)
        PROVE  /\ name'[handle[u]] = name[handle[u]]
               /\ global'[handle[u]] = global[handle[u]]
               /\ recursive'[handle[u]] = recursive[handle[u]]
    <3>1. handle[u] # i
      BY <2>2, FreeAddress DEF New
    <3>2. QED
      BY <2>2, <3>1 DEF New, Shape
  <2>3. QED
    BY <2>1, <2>2 DEF objects
<1>2. CASE Delete(t)
  <2>1. handle[u] # handle[t]
    BY <1>2, DeleteFacts
  <2>2. QED
    BY <1>2, <2>1 DEF Delete, Shape
<1>3. CASE ~(FindOrCreate(t) \/ CreateDirectly(t) \/ Delete(t))
  <2>1. UNCHANGED objects
    BY <1>3 DEF Step, ReturnHandle, CopyHandle, MakeGuard, ReadCount, ReadOwner, Acquire, CountUp,
            SetOwner, Leave, DestroyGuard, CountDown, ClearOwner, Release, Drop,
            RemoveIfLastOne, UnlockFactory, Dereference
  <2>2. QED
    BY <2>1 DEF objects
<1>4. QED
  BY <1>1, <1>2, <1>3

LEMMA CheckStep ==
  ASSUME Shape, HandleInv, OwnerInv, CheckInv, NEW t \in Threads, Step(t)
  PROVE  CheckInv'
<1>1. OthersStay(t)
  BY StepOthers
<1>2. ASSUME NEW u \in Threads \ {t}
      PROVE  /\ pc'[u] = "acquire" /\ mutex'[handle'[u]] = u => recursive'[handle'[u]]
             /\ pc'[u] = "read owner" => ~recursive'[handle'[u]]
             /\ pc'[u] = "clear owner" => guards'[u] = 1
  <2>1. handle'[u] = handle[u] /\ guards'[u] = guards[u] /\ pc'[u] = pc[u]
    BY <1>1 DEF OthersStay
  <2>2. CASE pc[u] \in {"acquire", "read owner"}
    <3>1. handle[u] \in Impls
      BY <2>2 DEF HandleInv, Place, Shape
    <3>2. recursive'[handle[u]] = recursive[handle[u]]
      BY <3>1, ObjectStays
    <3>3. mutex'[handle[u]] = u => mutex[handle[u]] = u
      BY <3>1, MutexOfOthers
    <3>4. QED
      BY <2>1, <2>2, <3>2, <3>3 DEF CheckInv
  <2>3. CASE pc[u] \notin {"acquire", "read owner"}
    BY <2>1, <2>3 DEF CheckInv
  <2>4. QED
    BY <2>2, <2>3
<1> USE DEF Goto, Shape
<1>3. /\ pc'[t] = "acquire" /\ mutex'[handle'[t]] = t => recursive'[handle'[t]]
      /\ pc'[t] = "read owner" => ~recursive'[handle'[t]]
      /\ pc'[t] = "clear owner" => guards'[t] = 1
  <2>1. CASE ReadCount(t)
    <3>1. /\ pc[t] = "read count" /\ UNCHANGED <<mutex, recursive, handle, guards, count, tid>>
          /\ pc'[t] = IF ~recursive[handle[t]] /\ count[handle[t]] > 0
                      THEN "read owner" ELSE "acquire"
      BY <2>1 DEF ReadCount, objects, native, owner, locals
    <3>2. handle[t] \in Impls
      BY <3>1 DEF HandleInv, Place
    <3>3. mutex[handle[t]] = t => count[handle[t]] > 0
      BY <3>1, <3>2, HolderFinds DEF HaveLock, Writing
    <3>4. QED
      BY <3>1, <3>3
  <2>2. CASE ReadOwner(t)
    <3>1. /\ pc[t] = "read owner" /\ UNCHANGED <<mutex, handle>>
          /\ pc'[t] \in {"acquire", "dereference", "remove"}
          /\ pc'[t] = "acquire" => tid[handle[t]] # t
      BY <2>2 DEF ReadOwner, Destroy, native, locals
    <3>2. handle[t] \in Impls
      BY <3>1 DEF HandleInv, Place
    <3>3. mutex[handle[t]] = t => tid[handle[t]] = t
      BY <3>1, <3>2, HolderFinds DEF HaveLock, Writing
    <3>4. QED
      BY <3>1, <3>3
  <2>3. CASE CountDown(t)
    <3>1. /\ pc[t] = "count down" /\ guards' = guards
          /\ pc'[t] = IF count[handle[t]] = 1 THEN "clear owner" ELSE "release"
      BY <2>3 DEF CountDown, locals
    <3>2. handle[t] \in Impls /\ guards[t] > 0
      BY <3>1 DEF HandleInv, Place, Guarding, Holding
    <3>3. Held(t) = guards[t] /\ Counted(t) = Held(t)
      BY <3>1 DEF Held, Holding, Counted
    <3>4. mutex[handle[t]] = t
      BY <3>2, <3>3 DEF OwnerInv
    <3>5. count[handle[t]] = guards[t]
      BY <3>2, <3>3, <3>4, TheHolder DEF LockHeld
    <3>6. QED
      BY <3>1, <3>5
  <2>4. CASE ~(ReadCount(t) \/ ReadOwner(t) \/ CountDown(t))
    <3>1. pc'[t] \notin {"acquire", "read owner", "clear owner"}
      <4>1. CASE FindOrCreate(t) \/ ReturnHandle(t) \/ CreateDirectly(t) \/ MakeGuard(t)
                 \/ \E u \in Threads : CopyHandle(t, u)
        BY <4>1 DEF FindOrCreate, ReturnHandle, CreateDirectly, MakeGuard, CopyHandle
      <4>2. CASE Acquire(t) \/ CountUp(t) \/ SetOwner(t) \/ Leave(t)
        BY <4>2 DEF Acquire, CountUp, SetOwner, Leave
      <4>3. CASE DestroyGuard(t) \/ ClearOwner(t) \/ Release(t) \/ Drop(t)
        BY <4>3 DEF DestroyGuard, ClearOwner, Release, Drop, Destroy
      <4>4. CASE RemoveIfLastOne(t) \/ UnlockFactory(t) \/ Dereference(t)
        BY <4>4 DEF RemoveIfLastOne, UnlockFactory, Dereference, Forget
      <4>5. CASE Delete(t)
        BY <4>5, DeleteFacts
      <4>6. QED
        BY <2>4, <4>1, <4>2, <4>3, <4>4, <4>5 DEF Step
    <3>2. QED
      BY <3>1
  <2>5. QED
    BY <2>1, <2>2, <2>3, <2>4
<1>4. QED
  BY <1>2, <1>3 DEF CheckInv

-------------------------------------------------------------------------------
\* The map of the factory.

\* The last user removes the entry, and has no guard.
LEMMA LastUser ==
  ASSUME Shape, HandleInv, NEW t \in Threads, RemoveIfLastOne(t), IsLastOne(handle[t])
  PROVE  guards[t] = 0 /\ \A u \in Threads \ {t} : handle[u] # handle[t]
<1>1. pc[t] = "remove"
  BY DEF RemoveIfLastOne
<1>2. handle[t] \in Impls /\ name[handle[t]] \in Names
  BY <1>1 DEF HandleInv, Place, Shape
<1>3. PICK i \in Impls : handle[t] = i
  BY <1>2
<1>4. Residents(i) = {name[i]}
  BY <1>2, <1>3 DEF Residents, IsLastOne, HandleInv, MapInv, Impls, NoImpl
<1>5. Cardinality(Residents(i)) = 1
  BY <1>4, FS_Singleton
<1>6. refs[handle[t]] = 1 + Cardinality(Residents(handle[t]))
  BY <1>3, <1>5 DEF IsLastOne
<1>7. QED
  BY <1>1, <1>2, <1>6, SoleHandle

\* An entry changes when it is made, where there was none, and when it is removed.
LEMMA MapStays ==
  ASSUME Shape, HandleInv, NEW t \in Threads, Step(t), NEW n \in Names, m_locks'[n] # m_locks[n]
  PROVE  \/ FindOrCreate(t) /\ m_locks[n] = NoImpl
         \/ /\ RemoveIfLastOne(t) /\ IsLastOne(handle[t])
            /\ m_locks[n] = handle[t] /\ m_locks'[n] = NoImpl
<1>1. CASE FindOrCreate(t)
  <2>1. PICK m \in Names :
          IF m_locks[m] # NoImpl THEN UNCHANGED m_locks
          ELSE \E i \in Impls : m_locks' = [m_locks EXCEPT ![m] = i]
    BY <1>1 DEF FindOrCreate
  <2>2. m_locks[n] = NoImpl
    BY <2>1 DEF Shape
  <2>3. QED
    BY <1>1, <2>2
<1>2. CASE RemoveIfLastOne(t)
  <2>1. IsLastOne(handle[t]) /\ m_locks' = [m_locks EXCEPT ![name[handle[t]]] = NoImpl]
    BY <1>2 DEF RemoveIfLastOne
  <2>2. n = name[handle[t]]
    BY <2>1 DEF Shape
  <2>3. m_locks[n] = handle[t] /\ m_locks'[n] = NoImpl
    BY <2>1, <2>2 DEF IsLastOne, Shape
  <2>4. QED
    BY <1>2, <2>1, <2>3
<1>3. CASE ~(FindOrCreate(t) \/ RemoveIfLastOne(t))
  BY <1>3 DEF Step, ReturnHandle, CreateDirectly, CopyHandle, MakeGuard, ReadCount, ReadOwner,
          Acquire, CountUp, SetOwner, Leave, DestroyGuard, CountDown, ClearOwner, Release, Drop,
          UnlockFactory, Dereference, Delete
<1>4. QED
  BY <1>1, <1>2, <1>3

LEMMA GlobalsAreNamed ==
  ASSUME Shape, HandleInv, OrphanInv, NEW t \in Threads, Step(t),
         NEW i \in Impls, global'[i]
  PROVE  name'[i] \in Names
<1>1. CASE FindOrCreate(t)
  <2>1. UNCHANGED objects \/ \E j \in Impls, n \in Names : New(j, n, TRUE)
    BY <1>1 DEF FindOrCreate
  <2>2. ASSUME NEW j \in Impls, NEW n \in Names, New(j, n, TRUE) PROVE name'[i] \in Names
    BY <2>2 DEF New, Shape, OrphanInv
  <2>3. QED
    BY <2>1, <2>2 DEF objects, OrphanInv
<1>2. CASE CreateDirectly(t)
  <2>1. PICK j \in Impls, n \in Names \cup {Anonymous} : New(j, n, FALSE)
    BY <1>2 DEF CreateDirectly
  <2>2. i # j
    BY <2>1 DEF New, Shape
  <2>3. QED
    BY <2>1, <2>2 DEF New, Shape, OrphanInv
<1>3. CASE Delete(t)
  <2>1. handle[t] \in Impls
    BY <1>3, DeleteFacts
  <2>2. i # handle[t]
    BY <1>3, <2>1 DEF Delete, Shape
  <2>3. QED
    BY <1>3, <2>1, <2>2 DEF Delete, Shape, OrphanInv
<1>4. CASE ~(FindOrCreate(t) \/ CreateDirectly(t) \/ Delete(t))
  <2>1. UNCHANGED objects
    BY <1>4 DEF Step, ReturnHandle, CopyHandle, MakeGuard, ReadCount, ReadOwner, Acquire, CountUp,
            SetOwner, Leave, DestroyGuard, CountDown, ClearOwner, Release, Drop,
            RemoveIfLastOne, UnlockFactory, Dereference
  <2>2. QED
    BY <2>1 DEF objects, OrphanInv
<1>5. QED
  BY <1>1, <1>2, <1>3, <1>4

\* The thread's handle is of a factory's object that is not in the map.
Orphan(t) ==
  handle[t] # NoImpl /\ global[handle[t]] /\ m_locks[name[handle[t]]] # handle[t]
Leaving == {"unlock factory", "dereference", "delete"}

LEMMA OrphanStep ==
  ASSUME Shape, Shape', HandleInv, OrphanInv, NEW t \in Threads, Step(t)
  PROVE  OrphanInv'
<1>1. OthersStay(t)
  BY StepOthers
<1>2. \A i \in Impls : global'[i] => name'[i] \in Names
  BY GlobalsAreNamed
<1>3. \A u \in Threads : Orphan(u) => pc[u] \in Leaving /\ guards[u] = 0
  BY DEF OrphanInv, Orphan, Leaving
<1>4. ASSUME NEW u \in Threads \ {t}, Orphan(u)' PROVE pc'[u] \in Leaving /\ guards'[u] = 0
  <2>1. handle'[u] = handle[u] /\ guards'[u] = guards[u] /\ pc'[u] = pc[u]
    BY <1>1 DEF OthersStay
  <2>2. handle[u] \in Impls
    BY <1>4, <2>1 DEF Orphan, Shape
  <2>3. name'[handle[u]] = name[handle[u]] /\ global'[handle[u]] = global[handle[u]]
    BY <2>2, ObjectStays
  <2>4. global[handle[u]] /\ m_locks'[name[handle[u]]] # handle[u]
    BY <1>4, <2>1, <2>3 DEF Orphan
  <2>5. PICK n \in Names : n = name[handle[u]]
    BY <2>2, <2>4 DEF OrphanInv
  <2>6. m_locks[n] # handle[u]
    <3>1. SUFFICES ASSUME m_locks[n] = handle[u] PROVE FALSE
      OBVIOUS
    <3>2. m_locks'[n] # m_locks[n] /\ m_locks[n] # NoImpl
      BY <2>2, <2>4, <2>5, <3>1 DEF Impls, NoImpl
    <3>3. RemoveIfLastOne(t) /\ IsLastOne(handle[t]) /\ handle[u] = handle[t]
      BY <3>1, <3>2, MapStays
    <3>4. QED
      BY <3>3, LastUser
  <2>7. Orphan(u)
    BY <2>2, <2>4, <2>5, <2>6 DEF Orphan, Impls, NoImpl
  <2>8. QED
    BY <1>3, <2>1, <2>7
<1>5. ASSUME Orphan(t)' PROVE pc'[t] \in Leaving /\ guards'[t] = 0
  <2>1. CASE FindOrCreate(t)
    <3>1. PICK n \in Names :
            IF m_locks[n] # NoImpl
            THEN handle' = [handle EXCEPT ![t] = m_locks[n]] /\ UNCHANGED <<objects, m_locks>>
            ELSE \E i \in Impls : /\ New(i, n, TRUE)
                                  /\ m_locks' = [m_locks EXCEPT ![n] = i]
                                  /\ handle' = [handle EXCEPT ![t] = i]
      BY <2>1 DEF FindOrCreate
    <3>2. CASE m_locks[n] # NoImpl
      <4>1. handle'[t] = m_locks[n] /\ name' = name /\ m_locks' = m_locks
        BY <3>1, <3>2 DEF Shape, objects
      <4>2. name[m_locks[n]] = n
        BY <3>2 DEF HandleInv, MapInv
      <4>3. QED
        BY <1>5, <4>1, <4>2 DEF Orphan
    <3>3. CASE m_locks[n] = NoImpl
      <4>1. PICK i \in Impls : /\ name' = [name EXCEPT ![i] = n]
                               /\ m_locks' = [m_locks EXCEPT ![n] = i]
                               /\ handle' = [handle EXCEPT ![t] = i]
        BY <3>1, <3>3 DEF New
      <4>2. handle'[t] = i /\ name'[i] = n /\ m_locks'[n] = i
        BY <4>1 DEF Shape
      <4>3. QED
        BY <1>5, <4>2 DEF Orphan
    <3>4. QED
      BY <3>2, <3>3
  <2>2. CASE CreateDirectly(t)
    <3>1. PICK i \in Impls : /\ global' = [global EXCEPT ![i] = FALSE]
                             /\ handle' = [handle EXCEPT ![t] = i]
      BY <2>2 DEF CreateDirectly, New
    <3>2. handle'[t] = i /\ ~global'[i]
      BY <3>1 DEF Shape
    <3>3. QED
      BY <1>5, <3>2 DEF Orphan
  <2>3. ASSUME NEW u \in Threads, CopyHandle(t, u) PROVE pc'[t] \in Leaving /\ guards'[t] = 0
    <3>1. pc[u] \in {"have", "critical"} /\ handle'[t] = handle[u]
          /\ UNCHANGED <<name, global, m_locks>>
      BY <2>3 DEF CopyHandle, objects, Shape
    <3>2. Orphan(u)
      BY <1>5, <3>1 DEF Orphan
    <3>3. QED
      BY <1>3, <3>1, <3>2 DEF Leaving
  <2>4. CASE ReturnHandle(t) \/ MakeGuard(t) \/ ReadCount(t) \/ ReadOwner(t) \/ Acquire(t)
             \/ CountUp(t) \/ SetOwner(t) \/ Leave(t) \/ DestroyGuard(t) \/ CountDown(t)
             \/ ClearOwner(t) \/ Release(t) \/ Drop(t)
    <3>1. pc[t] \notin Leaving /\ UNCHANGED <<name, global, m_locks, handle>>
      BY <2>4 DEF ReturnHandle, MakeGuard, ReadCount, ReadOwner, Acquire, CountUp, SetOwner,
              Leave, DestroyGuard, CountDown, ClearOwner, Release, Drop, Leaving, objects, locals
    <3>2. Orphan(t)
      BY <1>5, <3>1 DEF Orphan
    <3>3. QED
      BY <1>3, <3>1, <3>2
  <2>5. CASE RemoveIfLastOne(t)
    <3>1. /\ pc[t] = "remove" /\ pc'[t] = "unlock factory"
          /\ UNCHANGED <<name, global, handle, guards>>
      BY <2>5 DEF RemoveIfLastOne, Goto, objects, locals, Shape
    <3>2. CASE IsLastOne(handle[t])
      BY <2>5, <3>1, <3>2, LastUser DEF Leaving
    <3>3. CASE ~IsLastOne(handle[t])
      <4>1. m_locks' = m_locks
        BY <2>5, <3>3 DEF RemoveIfLastOne
      <4>2. Orphan(t)
        BY <1>5, <3>1, <4>1 DEF Orphan
      <4>3. QED
        BY <1>3, <3>1, <4>2 DEF Leaving
    <3>4. QED
      BY <3>2, <3>3
  <2>6. CASE UnlockFactory(t)
    <3>1. UNCHANGED <<name, global, handle, guards, m_locks>> /\ pc'[t] = "dereference"
      BY <2>6 DEF UnlockFactory, Goto, objects, locals, Shape
    <3>2. Orphan(t)
      BY <1>5, <3>1 DEF Orphan
    <3>3. QED
      BY <1>3, <3>1, <3>2 DEF Leaving
  <2>7. CASE Dereference(t)
    <3>1. UNCHANGED <<name, global, m_locks>>
      BY <2>7 DEF Dereference, objects
    <3>2. handle'[t] = handle[t]
      <4>1. handle' = handle \/ handle' = [handle EXCEPT ![t] = NoImpl]
        BY <2>7 DEF Dereference, Forget
      <4>2. QED
        BY <1>5, <4>1 DEF Orphan, Shape
    <3>3. Orphan(t)
      BY <1>5, <3>1, <3>2 DEF Orphan
    <3>4. guards[t] = 0
      BY <1>3, <3>3
    <3>5. CASE refs[handle[t]] = 1
      <4>1. pc'[t] = "delete" /\ guards' = guards
        BY <2>7, <3>5 DEF Dereference, Goto, Shape
      <4>2. QED
        BY <3>4, <4>1 DEF Leaving
    <3>6. CASE refs[handle[t]] # 1
      <4>1. handle' = [handle EXCEPT ![t] = NoImpl]
        BY <2>7, <3>4, <3>6 DEF Dereference, Forget
      <4>2. QED
        BY <1>5, <4>1 DEF Orphan, Shape
    <3>7. QED
      BY <3>5, <3>6
  <2>8. CASE Delete(t)
    BY <1>5, <2>8, DeleteFacts DEF Orphan
  <2>9. QED
    BY <2>1, <2>2, <2>3, <2>4, <2>5, <2>6, <2>7, <2>8 DEF Step
<1>6. QED
  BY <1>2, <1>4, <1>5 DEF OrphanInv, Orphan, Leaving

-------------------------------------------------------------------------------
\* Handles that are destroyed.

\* An entry and the handles of its object that are being destroyed.
LEMMA RaceKeeps ==
  ASSUME Shape, Shape', RaceInv, NEW t \in Threads, OthersStay(t),
         NEW n \in Names, NEW i \in Impls, m_locks[n] = i, i \notin raced, refs'[i] >= refs[i],
         t \in Dropping(i)' => t \in Dropping(i)
  PROVE  /\ refs'[i] >= 2
         /\ \A u \in Dropping(i)' : refs'[i] >= 3 /\ Dropping(i)' = {u}
<1>1. Dropping(i)' \subseteq Dropping(i)
  BY DEF Dropping, OthersStay
<1>2. refs[i] \in Int /\ refs'[i] \in Int
  BY DEF Shape
<1>3. refs[i] >= 2 /\ \A u \in Dropping(i) : refs[i] >= 3 /\ Dropping(i) = {u}
  <2>1. i # NoImpl
    BY ONLY i \in Impls, BoundAssumption DEF Impls, NoImpl
  <2>2. refs[m_locks[n]] >= 2
        /\ \A u \in Dropping(m_locks[n]) : refs[m_locks[n]] >= 3 /\ Dropping(m_locks[n]) = {u}
    BY <2>1 DEF RaceInv
  <2>3. QED
    BY <2>2
<1>4. \A u \in Dropping(i)' : Dropping(i)' = {u}
  BY <1>1, <1>3
<1>5. Dropping(i)' # {} => refs[i] >= 3
  BY <1>1, <1>3
<1>6. \A x, y \in Int : y >= x => (x >= 2 => y >= 2) /\ (x >= 3 => y >= 3)
  BY ONLY SMT
<1>7. refs'[i] >= 2 /\ (Dropping(i)' # {} => refs'[i] >= 3)
  BY <1>2, <1>3, <1>5, <1>6
<1>8. QED
  BY <1>4, <1>7

\* The steps that touch neither reference counts nor the map.
LEMMA PlainRace ==
  ASSUME Shape, HandleInv, NEW t \in Threads, NEW n \in Names, m_locks[n] = handle[t],
         \/ ReturnHandle(t) \/ ReadCount(t) \/ ReadOwner(t) \/ Acquire(t) \/ CountUp(t)
         \/ SetOwner(t) \/ Leave(t) \/ DestroyGuard(t) \/ CountDown(t) \/ ClearOwner(t)
         \/ Release(t) \/ Drop(t) \/ UnlockFactory(t),
         pc'[t] \in {"unlock factory", "dereference"}
  PROVE  UnlockFactory(t)
<1> SUFFICES ASSUME ~UnlockFactory(t) PROVE FALSE
  OBVIOUS
<1>1. pc[t] # "idle"
  BY DEF ReturnHandle, ReadCount, ReadOwner, Acquire, CountUp, SetOwner, Leave, DestroyGuard,
         CountDown, ClearOwner, Release, Drop
<1>2. handle[t] # NoImpl
  BY <1>1 DEF HandleInv, Place
<1>3. name[handle[t]] = n
  BY <1>2 DEF HandleInv, MapInv
<1>4. name[handle[t]] # Anonymous
  BY <1>3, NullAssumption
<1>5. ~(ReturnHandle(t) \/ ReadCount(t) \/ Acquire(t) \/ CountUp(t) \/ SetOwner(t) \/ Leave(t)
        \/ CountDown(t) \/ ClearOwner(t))
  BY DEF ReturnHandle, ReadCount, Acquire, CountUp, SetOwner, Leave, CountDown, ClearOwner,
         Goto, Shape
<1>6. ~Destroy(t)
  BY <1>4 DEF Destroy, Goto, Shape
<1>7. ~(ReadOwner(t) \/ DestroyGuard(t) \/ Release(t) \/ Drop(t))
  BY <1>6 DEF ReadOwner, DestroyGuard, Release, Drop, Goto, Shape
<1>8. QED
  BY <1>5, <1>7

LEMMA RaceStep ==
  ASSUME Shape, Shape', HandleInv, RaceInv, NEW t \in Threads, Step(t)
  PROVE  RaceInv'
<1>1. OthersStay(t)
  BY StepOthers
<1> SUFFICES ASSUME NEW n \in Names, NEW i \in Impls, m_locks'[n] = i, i \notin raced'
             PROVE  /\ refs'[i] >= 2
                    /\ \A u \in Dropping(i)' : refs'[i] >= 3 /\ Dropping(i)' = {u}
  <2>1. \A n \in Names : m_locks'[n] # NoImpl => m_locks'[n] \in Impls
    BY DEF Shape
  <2>2. ASSUME NEW n \in Names, m_locks'[n] # NoImpl, m_locks'[n] \notin raced'
        PROVE  /\ refs'[m_locks'[n]] >= 2
               /\ \A u \in Dropping(m_locks[n])' :
                    refs'[m_locks'[n]] >= 3 /\ Dropping(m_locks[n])' = {u}
    <3>1. PICK i \in Impls : m_locks'[n] = i
      BY <2>1, <2>2
    <3>2. /\ refs'[i] >= 2
          /\ \A u \in Dropping(i)' : refs'[i] >= 3 /\ Dropping(i)' = {u}
      BY <2>2, <3>1
    <3>3. Dropping(m_locks[n])' = Dropping(i)'
      BY <3>1 DEF Dropping
    <3>4. QED
      BY <3>1, <3>2, <3>3
  <2>3. QED
    BY <2>2 DEF RaceInv
<1>2. refs[i] \in Int /\ handle[t] \in Impls \cup {NoImpl}
  BY DEF Shape
<1> i # NoImpl
  BY DEF Impls, NoImpl
<1>3. CASE m_locks[n] # i
  <2>1. FindOrCreate(t) /\ m_locks[n] = NoImpl
    BY <1>2, <1>3, MapStays
  <2>2. PICK m \in Names :
          IF m_locks[m] # NoImpl THEN UNCHANGED m_locks
          ELSE \E j \in Impls : /\ New(j, m, TRUE)
                                /\ refs' = [refs EXCEPT ![j] = 2]
                                /\ m_locks' = [m_locks EXCEPT ![m] = j]
    BY <2>1 DEF FindOrCreate
  <2>3. PICK j \in Impls : /\ New(j, m, TRUE)
                           /\ refs' = [refs EXCEPT ![j] = 2]
                           /\ m_locks' = [m_locks EXCEPT ![m] = j]
    BY <1>3, <2>2
  <2>4. j = i /\ refs'[i] = 2
    BY <1>3, <2>3 DEF Shape
  <2>5. \A u \in Threads : handle[u] # i
    BY <2>3, <2>4, FreeAddress DEF New
  <2>6. pc'[t] = "found"
    BY <2>1 DEF FindOrCreate, Goto, Shape
  <2>7. Dropping(i)' = {}
    BY <1>1, <2>5, <2>6 DEF Dropping, OthersStay
  <2>8. QED
    BY <2>4, <2>7
<1>4. CASE m_locks[n] = i
  <2>1. name[i] = n /\ name[i] # NoName
    BY <1>2, <1>4, NullAssumption DEF HandleInv, MapInv
  <2>2. CASE FindOrCreate(t) \/ CreateDirectly(t) \/ MakeGuard(t)
             \/ \E u \in Threads : CopyHandle(t, u)
    <3>1. raced' = raced
      BY <2>2 DEF FindOrCreate, CreateDirectly, MakeGuard, CopyHandle
    <3>2. pc'[t] \notin {"unlock factory", "dereference"}
      BY <2>2 DEF FindOrCreate, CreateDirectly, MakeGuard, CopyHandle, Goto, Shape
    <3>3. \/ \E j \in Impls : refs' = [refs EXCEPT ![j] = refs[j] + 1]
          \/ \E j \in Impls : name[j] = NoName /\ (refs' = [refs EXCEPT ![j] = 1]
                                                   \/ refs' = [refs EXCEPT ![j] = 2])
      <4>1. CASE FindOrCreate(t)
        <5>1. PICK m \in Names :
                IF m_locks[m] # NoImpl
                THEN refs' = [refs EXCEPT ![m_locks[m]] = @ + 1]
                ELSE \E j \in Impls : New(j, m, TRUE) /\ refs' = [refs EXCEPT ![j] = 2]
          BY <4>1 DEF FindOrCreate
        <5>2. CASE m_locks[m] # NoImpl
          BY <5>1, <5>2 DEF Shape
        <5>3. CASE m_locks[m] = NoImpl
          BY <5>1, <5>3 DEF New
        <5>4. QED
          BY <5>2, <5>3
      <4>2. CASE CreateDirectly(t)
        BY <4>2 DEF CreateDirectly, New
      <4>3. CASE MakeGuard(t)
        <5>1. handle[t] \in Impls
          BY <1>2, <4>3 DEF MakeGuard, HandleInv, Place
        <5>2. QED
          BY <4>3, <5>1 DEF MakeGuard
      <4>4. ASSUME NEW u \in Threads, CopyHandle(t, u)
            PROVE  \E j \in Impls : refs' = [refs EXCEPT ![j] = refs[j] + 1]
        <5>1. handle[u] \in Impls
          BY <4>4 DEF CopyHandle, HandleInv, Place, Shape
        <5>2. QED
          BY <4>4, <5>1 DEF CopyHandle
      <4>5. QED
        BY <2>2, <4>1, <4>2, <4>3, <4>4
    <3>4. refs'[i] = refs[i] \/ refs'[i] = refs[i] + 1
      BY <2>1, <3>3 DEF Shape
    <3>5. refs'[i] >= refs[i]
      BY <1>2, <3>4
    <3>6. i \notin raced /\ t \notin Dropping(i)'
      BY <3>1, <3>2 DEF Dropping
    <3>7. QED
      BY <1>1, <1>4, <3>5, <3>6, RaceKeeps
  <2>3. CASE ReturnHandle(t) \/ ReadCount(t) \/ ReadOwner(t) \/ Acquire(t) \/ CountUp(t)
             \/ SetOwner(t) \/ Leave(t) \/ DestroyGuard(t) \/ CountDown(t) \/ ClearOwner(t)
             \/ Release(t) \/ Drop(t) \/ UnlockFactory(t)
    <3>1. UNCHANGED <<refs, raced, handle>>
      BY <2>3 DEF ReturnHandle, ReadCount, ReadOwner, Acquire, CountUp, SetOwner, Leave,
              DestroyGuard, CountDown, ClearOwner, Release, Drop, UnlockFactory, locals
    <3>2. handle[t] = i /\ pc'[t] \in {"unlock factory", "dereference"} => UnlockFactory(t)
      BY <1>4, <2>3, PlainRace
    <3>3. UnlockFactory(t) => pc[t] = "unlock factory"
      BY DEF UnlockFactory
    <3>4. refs'[i] >= refs[i]
      BY <1>2, <3>1
    <3>5. i \notin raced
      BY <3>1
    <3>6. t \in Dropping(i)' => t \in Dropping(i)
      BY <3>1, <3>2, <3>3 DEF Dropping
    <3>7. QED
      BY <1>1, <1>4, <3>4, <3>5, <3>6, RaceKeeps
  <2>4. CASE RemoveIfLastOne(t)
    <3>1. pc[t] = "remove" /\ handle' = handle /\ pc' = [pc EXCEPT ![t] = "unlock factory"]
          /\ raced' = IF Dropping(handle[t]) # {} THEN raced \cup {handle[t]} ELSE raced
      BY <2>4 DEF RemoveIfLastOne, locals, Goto
    <3>2. i \notin raced
      BY <3>1
    <3>3. CASE handle[t] # i
      <4>1. refs' = refs \/ refs' = [refs EXCEPT ![handle[t]] = @ - 1]
        BY <2>4 DEF RemoveIfLastOne, IsLastOne
      <4>2. refs'[i] = refs[i]
        BY <3>3, <4>1 DEF Shape
      <4>3. refs'[i] >= refs[i]
        BY <1>2, <4>2
      <4>4. handle'[t] # i
        BY <3>1, <3>3
      <4>5. t \notin Dropping(i)'
        BY <4>4 DEF Dropping
      <4>6. QED
        BY <1>1, <1>4, <3>2, <4>3, <4>5, RaceKeeps
    <3>4. CASE handle[t] = i
      <4>1. ~IsLastOne(i)
        <5>1. SUFFICES ASSUME IsLastOne(i) PROVE FALSE
          OBVIOUS
        <5>2. m_locks' = [m_locks EXCEPT ![n] = NoImpl]
          BY <2>1, <2>4, <3>4, <5>1 DEF RemoveIfLastOne
        <5>3. QED
          BY <1>2, <5>2 DEF Shape
      <4>2. refs' = refs /\ refs[i] # 2
        BY <1>4, <2>1, <2>4, <3>4, <4>1 DEF RemoveIfLastOne, IsLastOne
      <4>3. Dropping(i) = {}
        BY <3>1, <3>4
      <4>4. refs[i] >= 2
        BY <1>2, <1>4, <3>2 DEF RaceInv
      <4>5. refs'[i] >= 3 /\ refs'[i] >= 2
        BY <1>2, <4>2, <4>4
      <4>6. handle'[t] = i /\ pc'[t] = "unlock factory"
        BY <3>1, <3>4 DEF Shape
      <4>7. Dropping(i)' = {t}
        <5>1. t \in Dropping(i)'
          BY <4>6 DEF Dropping
        <5>2. \A u \in Threads \ {t} : u \in Dropping(i)' => u \in Dropping(i)
          BY <1>1 DEF Dropping, OthersStay
        <5>3. Dropping(i)' \subseteq Threads
          BY DEF Dropping
        <5>4. QED
          BY <4>3, <5>1, <5>2, <5>3
      <4>8. QED
        BY <4>5, <4>7
    <3>5. QED
      BY <3>3, <3>4
  <2>5. CASE Dereference(t)
    <3>1. pc[t] = "dereference" /\ raced' = raced /\ refs' = [refs EXCEPT ![handle[t]] = @ - 1]
      BY <2>5 DEF Dereference
    <3>2. pc'[t] \notin {"unlock factory", "dereference"}
      <4>1. \E l \in {"delete", "have", "critical", "idle"} : pc' = [pc EXCEPT ![t] = l]
        BY <2>5 DEF Dereference, Forget, Goto
      <4>2. QED
        BY <4>1 DEF Shape
    <3>3. CASE handle[t] # i
      <4>1. refs'[i] >= refs[i]
        <5>1. refs'[i] = refs[i]
          BY <3>1, <3>3 DEF Shape
        <5>2. QED
          BY <1>2, <5>1
      <4>2. i \notin raced /\ t \notin Dropping(i)'
        BY <3>1, <3>2 DEF Dropping
      <4>3. QED
        BY <1>1, <1>4, <4>1, <4>2, RaceKeeps
    <3>4. CASE handle[t] = i
      <4>1. t \in Dropping(i)
        BY <3>1, <3>4 DEF Dropping
      <4>2. refs[i] >= 3 /\ Dropping(i) = {t}
        BY <1>2, <1>4, <3>1, <4>1 DEF RaceInv
      <4>3. refs'[i] = refs[i] - 1
        BY <3>1, <3>4 DEF Shape
      <4>4. refs'[i] >= 2
        BY <1>2, <4>2, <4>3
      <4>5. Dropping(i)' = {}
        <5>1. t \notin Dropping(i)'
          BY <3>2 DEF Dropping
        <5>2. Dropping(i)' \subseteq Dropping(i)
          BY <1>1, <5>1 DEF Dropping, OthersStay
        <5>3. QED
          BY <4>2, <5>1, <5>2
      <4>6. QED
        BY <4>4, <4>5
    <3>5. QED
      BY <3>3, <3>4
  <2>6. CASE Delete(t)
    <3>1. handle[t] \in Impls /\ refs[handle[t]] = 0 /\ pc'[t] = "idle"
      BY <2>6, DeleteFacts
    <3>2. handle[t] # i
      BY <1>4, <3>1, NoHandles
    <3>3. refs' = refs /\ raced' = raced \ {handle[t]}
      BY <2>6 DEF Delete
    <3>4. i \notin raced /\ refs'[i] >= refs[i]
      BY <1>2, <3>2, <3>3
    <3>5. pc'[t] \notin {"unlock factory", "dereference"}
      BY <3>1
    <3>6. t \notin Dropping(i)'
      BY <3>5 DEF Dropping
    <3>7. QED
      BY <1>1, <1>4, <3>4, <3>6, RaceKeeps
  <2>7. QED
    BY <2>2, <2>3, <2>4, <2>5, <2>6 DEF Step
<1>5. QED
  BY <1>3, <1>4

-------------------------------------------------------------------------------
LEMMA StepIInv == IInv /\ [Next]_vars => IInv'
<1> SUFFICES ASSUME IInv, [Next]_vars PROVE IInv'
  OBVIOUS
<1>1. CASE UNCHANGED vars
  <2>1. /\ UNCHANGED <<name, global, recursive, refs, mutex, depth, count, tid>>
        /\ UNCHANGED <<m_locks, factory, pc, handle, guards, trying, ops, raced>>
    BY <1>1 DEF vars
  <2>2. Shape'
    BY <2>1 DEF IInv, Shape
  <2>3. \A i : HandlesOf(i)' = HandlesOf(i) /\ Residents(i)' = Residents(i)
                /\ Dropping(i)' = Dropping(i)
    BY <2>1 DEF HandlesOf, Residents, Dropping
  <2>4. HandleInv'
    <3>1. RefInv'
      BY <2>1, <2>3 DEF IInv, HandleInv, RefInv
    <3>2. QED
      BY <2>1, <3>1 DEF IInv, HandleInv, Place, MapInv, DeleteInv
  <2>5. \A t \in Threads : Held(t)' = Held(t) /\ Counted(t)' = Counted(t) /\ Signed(t)' = Signed(t)
    BY <2>1 DEF Held, Counted, Signed
  <2>6. OwnerInv'
    BY <2>1, <2>5, LockStays DEF IInv
  <2>7. CheckInv' /\ OrphanInv'
    BY <2>1 DEF IInv, CheckInv, OrphanInv
  <2>8. RaceInv'
    BY <2>1 DEF IInv, RaceInv, Dropping
  <2>9. QED
    BY <2>2, <2>4, <2>6, <2>7, <2>8 DEF IInv
<1>2. ASSUME NEW t \in Threads, Step(t) PROVE IInv'
  <2> USE DEF IInv
  <2>1. \A u \in Threads : pc[u] # "idle" => handle[u] \in Impls
    BY DEF HandleInv, Place, Shape
  <2>2. Shape'
    BY <1>2, <2>1, ShapeStep
  <2>3. HandleInv'
    BY <1>2, <2>2, HandleStep
  <2>4. OwnerInv' /\ CheckInv'
    BY <1>2, OwnerStep, CheckStep
  <2>5. OrphanInv' /\ RaceInv'
    BY <1>2, <2>2, OrphanStep, RaceStep
  <2>6. QED
    BY <2>2, <2>3, <2>4, <2>5
<1>3. QED
  BY <1>1, <1>2 DEF Next

\* The invariant holds of every behaviour of the handles and the factory.
THEOREM Invariance == Spec => []IInv
<1>1. Init => IInv
  BY InitIInv
<1>2. IInv /\ [Next]_vars => IInv'
  BY StepIInv
<1>3. QED
  BY <1>1, <1>2, PTL DEF Spec

LEMMA HeldRange ==
  ASSUME Shape, HandleInv, NEW t \in Threads
  PROVE  Held(t) \in 0 .. MaxGuards
<1>1. guards[t] \in 0 .. MaxGuards
  BY DEF Shape
<1>2. \/ Held(t) = guards[t]
      \/ guards[t] = 0 /\ Held(t) = 0
      \/ guards[t] # 0 /\ Held(t) = guards[t] - 1
  BY DEF Held
<1>3. QED
  BY <1>1, <1>2, BoundAssumption

\* No count of a lock or of its handles goes below zero, and none of a lock beyond the
\* guards of one thread: TypeOK for any number of threads.
THEOREM TypeCorrect == Spec => []TypeOK
<1>1. IInv => TypeOK
  <2> SUFFICES ASSUME IInv PROVE TypeOK
    OBVIOUS
  <2> USE DEF IInv
  <2>1. ASSUME NEW i \in Impls PROVE refs[i] \in Nat
    BY FS_CardinalityType DEF HandleInv, RefInv
  <2>2. ASSUME NEW i \in Impls PROVE depth[i] \in 0 .. MaxGuards /\ count[i] \in 0 .. MaxGuards
    <3>1. CASE LockFree(i)
      BY <3>1, BoundAssumption DEF LockFree
    <3>2. ASSUME NEW t \in Threads, LockHeld(i, t)
          PROVE  depth[i] \in 0 .. MaxGuards /\ count[i] \in 0 .. MaxGuards
      <4>1. Held(t) \in 0 .. MaxGuards
        BY HeldRange
      <4>2. Held(t) > 0 /\ depth[i] = Held(t) /\ (count[i] = Held(t) \/ count[i] = Held(t) - 1)
        BY <3>2 DEF LockHeld, Counted
      <4>3. QED
        BY <4>1, <4>2, BoundAssumption
    <3>3. QED
      BY <3>1, <3>2 DEF OwnerInv
  <2>3. QED
    BY <2>1, <2>2 DEF TypeOK, Shape
<1>2. QED
  BY <1>1, Invariance, PTL

\* Two threads that locked by the same name through the factory are never both between
\* the lock and the destructor of its guard, however often the name was forgotten and
\* created again in between.
THEOREM NamedLocksExclude == Spec => []MutualExclusion
<1>1. IInv => MutualExclusion
  <2> SUFFICES ASSUME IInv, NEW t \in Threads, NEW u \in Threads, t # u,
                      pc[t] = "critical", pc[u] = "critical",
                      name[handle[t]] = name[handle[u]]
               PROVE  \/ ~global[handle[t]] /\ handle[t] # handle[u]
                      \/ ~global[handle[u]] /\ handle[t] # handle[u]
    BY DEF MutualExclusion
  <2> USE DEF IInv
  <2>1. ASSUME NEW w \in Threads, pc[w] = "critical"
        PROVE  /\ mutex[handle[w]] = w
               /\ handle[w] \in Impls
               /\ global[handle[w]] => m_locks[name[handle[w]]] = handle[w]
    <3>1. guards[w] > 0 /\ handle[w] # NoImpl
      BY <2>1 DEF HandleInv, Place, Guarding, Holding
    <3>2. Held(w) > 0
      BY <2>1, <3>1 DEF Held, Holding
    <3>3. QED
      BY <2>1, <3>1, <3>2 DEF OwnerInv, OrphanInv, Shape
  <2>2. handle[t] # handle[u]
    BY <2>1
  <2>3. QED
    BY <2>1, <2>2
<1>2. QED
  BY <1>1, Invariance, PTL

\* HaveLock, which reads m_lockCount and m_threadID without the lock, answers for the
\* thread that asks as if it had the lock.
THEOREM OwnerIsFound == Spec => []HaveLockIsExact
<1>1. IInv => HaveLockIsExact
  <2> SUFFICES ASSUME IInv, NEW t \in Threads
               PROVE  /\ pc[t] = "read owner" /\ tid[handle[t]] = t => mutex[handle[t]] = t
                      /\ pc[t] = "critical" => HaveLock(t)
                      /\ pc[t] = "leave" /\ HaveLock(t) => mutex[handle[t]] = t
    BY DEF HaveLockIsExact
  <2> USE DEF IInv
  <2>1. pc[t] \in {"read owner", "critical", "leave"} => handle[t] \in Impls
    BY DEF HandleInv, Place, Shape
  <2>2. pc[t] \in {"read owner", "leave"} /\ tid[handle[t]] = t => mutex[handle[t]] = t
    BY <2>1, SignedIsHolder
  <2>3. CASE pc[t] = "critical"
    <3>1. guards[t] > 0
      BY <2>3 DEF HandleInv, Place, Guarding, Holding
    <3>2. Held(t) > 0
      BY <2>3, <3>1 DEF Held, Holding
    <3>3. mutex[handle[t]] = t
      BY <3>2 DEF OwnerInv
    <3>4. HaveLock(t)
      BY <2>1, <2>3, <3>3, HolderFinds DEF Writing
    <3>5. QED
      BY <2>3, <3>4
  <2>4. QED
    BY <2>2, <2>3 DEF HaveLock
<1>2. QED
  BY <1>1, Invariance, PTL

\* m_ref is the number of handles of an object at all times, so that the last one, and
\* only the last, deletes it.
THEOREM HandlesAreCounted == Spec => []RefsAreHandles
<1>1. IInv => RefsAreHandles
  BY DEF IInv, HandleInv, RefInv, DeleteInv, RefsAreHandles
<1>2. QED
  BY <1>1, Invariance, PTL

\* An entry of the factory that nobody uses any more is the trace of two handles that
\* were destroyed at a time; there is no other way to it.
THEOREM LeaksAreRaces == Spec => []NamesLeakOnlyByRace
<1>1. IInv => NamesLeakOnlyByRace
  <2> SUFFICES ASSUME IInv, NEW n \in Names, m_locks[n] # NoImpl, refs[m_locks[n]] = 1,
                      m_locks[n] \notin raced
               PROVE  FALSE
    BY DEF NamesLeakOnlyByRace
  <2>1. refs[m_locks[n]] >= 2
    BY DEF IInv, RaceInv
  <2>2. QED
    BY <2>1
<1>2. QED
  BY <1>1, Invariance, PTL

-------------------------------------------------------------------------------
\* Who waits for whom.  ThreadsFinish rests on this.

\* t cannot go on before u has released what it has.
WaitsFor(t, u) ==
  \/ pc[t] = "remove" /\ factory = u
  \/ /\ pc[t] = "acquire" /\ ~trying[t]
     /\ mutex[handle[t]] = u
     /\ ~(recursive[handle[t]] /\ u = t)

\* Nobody waits for itself, nor for somebody who waits for it: who has the lock of an
\* object waits at most for that of the factory, in a destructor that runs under the
\* lock, and who has that one waits for nothing.
NobodyWaitsInACircle ==
  \A t, u \in Threads :
    WaitsFor(t, u) =>
      /\ u # t
      /\ \A v \in Threads :
           WaitsFor(u, v) => v # t /\ \A w \in Threads : ~WaitsFor(v, w)

\* The lock of the factory is held in two places.
FactoryInv ==
  /\ \A t \in Threads : pc[t] \in {"found", "unlock factory"} => factory = t
  /\ factory # NoThread => pc[factory] \in {"found", "unlock factory"}

LEMMA FactoryInit == Init => FactoryInv
BY DEF Init, FactoryInv

\* Who neither takes nor releases the lock of the factory.
LEMMA FactoryKept ==
  ASSUME Shape, FactoryInv, NEW t \in Threads, UNCHANGED factory,
         pc[t] \notin {"found", "unlock factory"},
         NEW label, label \notin {"found", "unlock factory"}, pc' = [pc EXCEPT ![t] = label]
  PROVE  FactoryInv'
<1>1. \A u \in Threads : pc'[u] = IF u = t THEN label ELSE pc[u]
  BY DEF Shape
<1>2. factory # NoThread => factory # t /\ factory \in Threads
  BY DEF FactoryInv, Shape
<1>3. QED
  BY <1>1, <1>2 DEF FactoryInv

LEMMA FactoryStep == IInv /\ FactoryInv /\ [Next]_vars => FactoryInv'
<1> SUFFICES ASSUME IInv, FactoryInv, [Next]_vars
             PROVE  FactoryInv'
  OBVIOUS
<1>0. Shape /\ pc \in [Threads -> Labels]
  BY DEF IInv, Shape
<1>1. ASSUME NEW t \in Threads, FindOrCreate(t) \/ RemoveIfLastOne(t)
      PROVE  FactoryInv'
  <2>1. factory = NoThread /\ factory' = t
    BY <1>1 DEF FindOrCreate, RemoveIfLastOne
  <2>2. PICK label \in {"found", "unlock factory"} : pc' = [pc EXCEPT ![t] = label]
    BY <1>1 DEF FindOrCreate, RemoveIfLastOne, Goto
  <2>3. \A u \in Threads : pc'[u] = IF u = t THEN label ELSE pc[u]
    BY <1>0, <2>2
  <2>4. \A u \in Threads : pc[u] \notin {"found", "unlock factory"}
    BY <2>1, NullAssumption DEF FactoryInv
  <2>5. QED
    BY <2>1, <2>2, <2>3, <2>4 DEF FactoryInv
<1>2. ASSUME NEW t \in Threads, ReturnHandle(t) \/ UnlockFactory(t)
      PROVE  FactoryInv'
  <2>1. factory' = NoThread /\ factory = t
    BY <1>2 DEF ReturnHandle, UnlockFactory, FactoryInv
  <2>2. PICK label \in {"have", "dereference"} : pc' = [pc EXCEPT ![t] = label]
    BY <1>2 DEF ReturnHandle, UnlockFactory, Goto
  <2>3. \A u \in Threads : pc'[u] = IF u = t THEN label ELSE pc[u]
    BY <1>0, <2>2
  <2>4. \A u \in Threads : u # t => pc[u] \notin {"found", "unlock factory"}
    BY <2>1 DEF FactoryInv
  <2>5. QED
    BY <2>1, <2>2, <2>3, <2>4 DEF FactoryInv
<1>3. ASSUME NEW t \in Threads,
             \/ CreateDirectly(t) \/ \E u \in Threads : CopyHandle(t, u)
             \/ MakeGuard(t) \/ ReadCount(t) \/ ReadOwner(t) \/ Acquire(t) \/ CountUp(t)
             \/ SetOwner(t) \/ Leave(t) \/ DestroyGuard(t) \/ CountDown(t) \/ ClearOwner(t)
             \/ Release(t) \/ Drop(t) \/ Dereference(t) \/ Delete(t)
      PROVE  FactoryInv'
  <2>1. UNCHANGED factory /\ pc[t] \notin {"found", "unlock factory"}
    BY <1>3 DEF CreateDirectly, CopyHandle, MakeGuard, ReadCount, ReadOwner, Acquire,
       CountUp, SetOwner, Leave, DestroyGuard, CountDown, ClearOwner, Release, Drop,
       Dereference, Delete
  <2>2. \E label \in Labels \ {"found", "unlock factory"} : pc' = [pc EXCEPT ![t] = label]
    BY <1>3 DEF CreateDirectly, CopyHandle, MakeGuard, ReadCount, ReadOwner, Acquire,
       CountUp, SetOwner, Leave, DestroyGuard, CountDown, ClearOwner, Release, Drop,
       Dereference, Delete, Forget, Destroy, Goto, Labels
  <2>3. QED
    BY <1>0, <2>1, <2>2, FactoryKept
<1>4. CASE UNCHANGED vars
  BY <1>4 DEF vars, FactoryInv
<1>5. QED
  BY <1>1, <1>2, <1>3, <1>4 DEF Next, Step

\* The locks deadlock neither with each other nor with the lock of the factory.
THEOREM NoDeadlock == Spec => []NobodyWaitsInACircle
<1>1. IInv /\ FactoryInv => NobodyWaitsInACircle
  <2> SUFFICES ASSUME IInv, FactoryInv, NEW t \in Threads, NEW u \in Threads, WaitsFor(t, u)
               PROVE  /\ u # t
                      /\ \A v \in Threads :
                           WaitsFor(u, v) => v # t /\ \A w \in Threads : ~WaitsFor(v, w)
    BY DEF NobodyWaitsInACircle
  <2>1. ASSUME NEW x \in Threads, NEW y \in Threads, pc[x] = "remove", factory = y
        PROVE  pc[y] \in {"found", "unlock factory"} /\ \A w \in Threads : ~WaitsFor(y, w)
    BY <2>1, NullAssumption DEF FactoryInv, WaitsFor
  <2>2. ASSUME NEW x \in Threads, NEW y \in Threads, pc[x] = "acquire", WaitsFor(x, y)
        PROVE  y # x /\ handle[y] = handle[x] /\ mutex[handle[x]] = y
    <3>1. mutex[handle[x]] = y /\ ~(recursive[handle[x]] /\ y = x)
      BY <2>2 DEF WaitsFor
    <3>2. y # x
      BY <2>2, <3>1 DEF IInv, CheckInv
    <3>3. handle[x] \in Impls
      BY <2>2 DEF IInv, HandleInv, Place, Shape
    <3>4. PICK z \in Threads : LockHeld(handle[x], z)
      BY <3>1, <3>3, NullAssumption DEF IInv, OwnerInv, LockFree
    <3>5. handle[y] = handle[x]
      BY <3>1, <3>4 DEF LockHeld
    <3>6. QED
      BY <3>1, <3>2, <3>5
  <2>3. CASE pc[t] = "remove" /\ factory = u
    BY <2>1, <2>3
  <2>4. CASE pc[t] = "acquire"
    <3>1. u # t /\ handle[u] = handle[t] /\ mutex[handle[t]] = u
      BY <2>2, <2>4
    <3>2. ASSUME NEW v \in Threads, WaitsFor(u, v)
          PROVE  v # t /\ \A w \in Threads : ~WaitsFor(v, w)
      <4>1. CASE pc[u] = "remove" /\ factory = v
        <5>1. pc[v] \in {"found", "unlock factory"} /\ \A w \in Threads : ~WaitsFor(v, w)
          BY <2>1, <4>1
        <5>2. QED
          BY <2>4, <5>1
      <4>2. CASE pc[u] = "acquire"
        <5>1. v # u /\ mutex[handle[u]] = v
          BY <2>2, <3>2, <4>2
        <5>2. QED
          BY <3>1, <5>1
      <4>3. QED
        BY <3>2, <4>1, <4>2 DEF WaitsFor
    <3>3. QED
      BY <3>1, <3>2
  <2>5. QED
    BY <2>3, <2>4 DEF WaitsFor
<1>2. Spec => []FactoryInv
  BY FactoryInit, FactoryStep, Invariance, PTL DEF Spec
<1>3. QED
  BY <1>1, <1>2, Invariance, PTL
===============================================================================
