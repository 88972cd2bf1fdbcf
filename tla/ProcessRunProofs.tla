--------------------------- MODULE ProcessRunProofs ---------------------------
(***************************************************************************)
(* Proofs about ProcessRun, for any lengths of a second, a machine word,   *)
(* the output and the pipe, and any configured time.                       *)
(***************************************************************************)
EXTENDS ProcessRun, TLAPS

-------------------------------------------------------------------------------
\* The inductive invariant.

\* The types without the numbers, and the numbers: nothing is lost or doubled on its way
\* through the pipe.
Kinds ==
  /\ timeoutSecs \in Secs
  /\ child \in {"forked", "running", "quiet", "dead", "reaped"}
  /\ status \in {"none", "exit", "signal"}
  /\ grand \in {"none", "alive", "dead"}
  /\ recycled \in BOOLEAN
  /\ pc \in {"magic", "start", "io", "reap", "drain", "wait", "flag", "join", "returned"}
  /\ active \in BOOLEAN
  /\ waitCompleted \in BOOLEAN
  /\ terminated \in BOOLEAN
  /\ result \in {"none", "exit", "interrupted", "error", "no child"}
  /\ watch \in {"none", "sleep", "kill", "done"}

Numbers ==
  /\ pipe \in 0 .. PipeSize
  /\ timeoutLeft \in -Word .. Word
  /\ written \in 0 .. MaxChunks
  /\ collected \in Nat
  /\ collected + pipe = written

\* Who has got how far: the child sets its group before the constructor ends, the
\* watchdog is started after it, and a reaped child has been waited for.
OrderInv ==
  /\ pc # "magic" => child # "forked"
  /\ watch # "none" => pc \notin {"magic", "start"}
  /\ overdue => watch = "done"
  /\ child = "reaped" <=> waitCompleted
  /\ pc = "drain" => child = "reaped"

\* An end of the child has a reason, and a child that goes on has none.
EndInv == status = "none" <=> child \in {"forked", "running", "quiet"}

\* Nothing comes any more, and nothing is left, once the pipe has been read empty with
\* nobody at its other end, or after the end of the child.
PipeInv ==
  /\ ~active => ~HoldsPipe /\ pipe = 0
  /\ pc \in {"wait", "flag", "join"} => pipe = 0 /\ child \notin {"forked", "running"}
  /\ result \in {"exit", "interrupted"} => pipe = 0

\* A result is not taken back, and with an exit status Run leaves no watchdog behind.
ResultInv ==
  /\ pc \in {"magic", "start", "io", "reap", "drain", "wait"} => result = "none"
  /\ pc \in {"flag", "join"} => result = "exit"
  /\ pc = "returned" /\ result = "exit" => watch \in {"none", "done"}

Control ==
  OrderInv /\ EndInv /\ PipeInv /\ ResultIsChildsEnd /\ ResultInv /\ KillReachesChild

IInv == Kinds /\ Numbers /\ Control

-------------------------------------------------------------------------------
\* Numbers.

\* An unsigned that is copied into an int stays within a word.
LEMMA AsIntBounds ==
  ASSUME NEW n \in 0 .. Word - 1
  PROVE  AsInt(n) \in -Word .. Word /\ AsInt(n) < Word
BY TimeAssumption DEF AsInt

LEMMA SecsAreNat == \A s \in Secs : s \in Nat
<1>1. MaximumTimeout \in Nat
  BY TimeAssumption DEF MaximumTimeout
<1>2. \A val \in Configured : readConfig(val) \in Nat
  BY <1>1, TimeAssumption DEF readConfig
<1>3. QED
  BY <1>2 DEF Secs

LEMMA TimeoutBounds ==
  ASSUME timeoutSecs \in Secs
  PROVE  Timeout \in 0 .. Word - 1
<1>1. timeoutSecs * Second \in Nat
  BY SecsAreNat, TimeAssumption
<1>2. QED
  BY <1>1, TimeAssumption DEF Timeout

-------------------------------------------------------------------------------
LEMMA InitIInv == Init => IInv
<1> SUFFICES ASSUME Init PROVE IInv
  OBVIOUS
<1>1. Kinds
  BY DEF Init, Kinds
<1>2. Numbers
  BY PipeAssumption, TimeAssumption DEF Init, Numbers
<1>3. Control
  BY DEF Init, Control, OrderInv, EndInv, PipeInv, ResultIsChildsEnd, ResultInv,
         KillReachesChild, HoldsPipe
<1>4. QED
  BY <1>1, <1>2, <1>3 DEF IInv

LEMMA KindsStep == Kinds /\ [Next]_vars => Kinds'
<1> SUFFICES ASSUME Kinds, [Next]_vars
             PROVE  Kinds'
  OBVIOUS
<1> USE DEF Kinds
<1>1. CASE Environment
  BY <1>1 DEF Environment, SetProcessGroup, WriteChunk, SpawnGrandchild, GrandchildEnds,
              CloseOutput, ChildEnds, RecyclePid, caller, dog
<1>2. CASE WatchdogStep
  BY <1>2 DEF WatchdogStep, WatchdogSleep, WatchdogDecides, Kill, family, caller
<1>3. CASE ReadMagic \/ SetTerminated \/ JoinWatchdog
  <2>1. terminated' \in BOOLEAN
    BY <1>3 DEF ReadMagic, SetTerminated, JoinWatchdog, caller
  <2>2. QED
    BY <1>3, <2>1 DEF ReadMagic, SetTerminated, JoinWatchdog, family, caller, dog
<1>4. CASE StartWatchdog
  <2>1. terminated' \in BOOLEAN
    BY <1>4 DEF StartWatchdog, Throw
  <2>2. QED
    BY <1>4, <2>1 DEF StartWatchdog, Throw, family, dog
<1>5. ASSUME NEW next \in {"reap", "wait"}, InternalPerformIO(next),
             UNCHANGED <<timeoutSecs, child, status, grand, recycled, waitCompleted, dog>>
      PROVE  Kinds'
  <2>1. terminated' \in BOOLEAN /\ active' \in BOOLEAN
    BY <1>5 DEF InternalPerformIO, Throw
  <2>2. pc' \in {"reap", "wait", "returned"} /\ result' \in {result, "error"}
        /\ UNCHANGED <<timeoutSecs, child, status, grand, recycled, waitCompleted, watch>>
    BY <1>5 DEF InternalPerformIO, Throw, dog
  <2>3. /\ pc' \in {"magic", "start", "io", "reap", "drain", "wait", "flag", "join", "returned"}
        /\ result' \in {"none", "exit", "interrupted", "error", "no child"}
    BY <2>2
  <2>4. recycled' \in BOOLEAN /\ waitCompleted' \in BOOLEAN
    BY <2>2
  <2>5. QED
    BY <2>1, <2>2, <2>3, <2>4, Zenon
<1>6. CASE PerformIO \/ Drain
  BY <1>5, <1>6 DEF PerformIO, Drain
<1>7. CASE CheckChild
  <2>1. waitCompleted' \in BOOLEAN
    BY <1>7 DEF CheckChild, Reap, NotReaped
  <2>2. child' \in {child, "reaped"} /\ pc' \in {"io", "wait", "drain"}
    BY <1>7 DEF CheckChild, Reap, NotReaped
  <2>3. UNCHANGED <<timeoutSecs, status, grand, recycled, active, terminated, result, watch>>
    BY <1>7 DEF CheckChild, dog
  <2>4. /\ child' \in {"forked", "running", "quiet", "dead", "reaped"}
        /\ pc' \in {"magic", "start", "io", "reap", "drain", "wait", "flag", "join", "returned"}
    BY <2>2
  <2>5. recycled' \in BOOLEAN /\ active' \in BOOLEAN
    BY <2>3
  <2>6. terminated' \in BOOLEAN
    BY <2>3
  <2>7. QED
    BY <2>1, <2>3, <2>4, <2>5, <2>6, Zenon
<1>8. CASE WaitForReturn
  <2>1. terminated' \in BOOLEAN
    BY <1>8 DEF WaitForReturn, Throw
  <2>2. /\ child' \in {child, "reaped"}
        /\ result' \in {"exit", "interrupted", "error", "no child"}
        /\ pc' \in {"flag", "returned"}
    BY <1>8 DEF WaitForReturn, Throw, Reap
  <2>3. waitCompleted' \in BOOLEAN
    BY <1>8 DEF WaitForReturn, Reap
  <2>4. UNCHANGED <<timeoutSecs, status, grand, recycled, active, watch>>
    BY <1>8 DEF WaitForReturn, dog
  <2>5. /\ child' \in {"forked", "running", "quiet", "dead", "reaped"}
        /\ result' \in {"none", "exit", "interrupted", "error", "no child"}
        /\ pc' \in {"magic", "start", "io", "reap", "drain", "wait", "flag", "join", "returned"}
    BY <2>2
  <2>6. recycled' \in BOOLEAN /\ active' \in BOOLEAN
    BY <2>4
  <2>7. QED
    BY <2>1, <2>3, <2>4, <2>5, <2>6, Zenon
<1>9. CASE UNCHANGED vars
  <2>1. UNCHANGED <<timeoutSecs, child, status, grand, recycled, pc, active, waitCompleted,
                    terminated, result, watch>>
    BY <1>9 DEF vars
  <2>2. recycled' \in BOOLEAN /\ active' \in BOOLEAN
    BY <2>1
  <2>3. waitCompleted' \in BOOLEAN /\ terminated' \in BOOLEAN
    BY <2>1
  <2>4. /\ timeoutSecs' \in Secs
        /\ child' \in {"forked", "running", "quiet", "dead", "reaped"}
        /\ status' \in {"none", "exit", "signal"}
        /\ grand' \in {"none", "alive", "dead"}
    BY <2>1
  <2>5. /\ pc' \in {"magic", "start", "io", "reap", "drain", "wait", "flag", "join", "returned"}
        /\ result' \in {"none", "exit", "interrupted", "error", "no child"}
        /\ watch' \in {"none", "sleep", "kill", "done"}
    BY <2>1
  <2>6. QED
    BY <2>2, <2>3, <2>4, <2>5, Zenon
<1>10. QED
  BY <1>1, <1>2, <1>3, <1>4, <1>6, <1>7, <1>8, <1>9 DEF Next, CallerStep

LEMMA NumbersStep == Kinds /\ Numbers /\ [Next]_vars => Numbers'
<1> SUFFICES ASSUME Kinds, Numbers, [Next]_vars
             PROVE  Numbers'
  OBVIOUS
<1>1. CASE WriteChunk
  BY <1>1, PipeAssumption DEF Numbers, WriteChunk, dog
<1>2. CASE WatchdogSleep
  BY <1>2, TimeAssumption DEF Numbers, WatchdogSleep, family
<1>3. CASE StartWatchdog
  <2>1. timeoutLeft' \in -Word .. Word
    <3>1. timeoutLeft' \in {timeoutLeft, AsInt(Timeout)}
      BY <1>3 DEF StartWatchdog, dog
    <3>2. AsInt(Timeout) \in -Word .. Word
      BY TimeoutBounds, AsIntBounds DEF Kinds
    <3>3. QED
      BY <3>1, <3>2 DEF Numbers
  <2>2. UNCHANGED <<pipe, written, collected>>
    BY <1>3 DEF StartWatchdog, family, ghosts
  <2>3. QED
    BY <2>1, <2>2 DEF Numbers
<1>4. CASE PerformIO \/ Drain
  <2>1. /\ UNCHANGED <<timeoutLeft, written>>
        /\ \/ UNCHANGED <<pipe, collected>>
           \/ pipe' = 0 /\ collected' = collected + pipe
    BY <1>4 DEF PerformIO, Drain, InternalPerformIO, dog
  <2>2. QED
    BY <2>1, PipeAssumption DEF Numbers
<1>5. CASE UNCHANGED <<pipe, timeoutLeft, written, collected>>
  BY <1>5 DEF Numbers
<1>6. QED
  BY <1>1, <1>2, <1>3, <1>4, <1>5 DEF Next, CallerStep, WatchdogStep, Environment, ReadMagic,
     CheckChild, WaitForReturn, SetTerminated, JoinWatchdog, WatchdogDecides, Kill,
     SetProcessGroup, SpawnGrandchild, GrandchildEnds, CloseOutput, ChildEnds, RecyclePid,
     family, dog, ghosts, vars

LEMMA ControlStep == IInv /\ [Next]_vars => Control'
<1> SUFFICES ASSUME Kinds, Numbers, Control, [Next]_vars
             PROVE  Control'
  BY DEF IInv
<1> USE DEF Control, OrderInv, EndInv, PipeInv, ResultIsChildsEnd, ResultInv, KillReachesChild,
            HoldsPipe
<1>1. CASE SetProcessGroup
  BY <1>1 DEF SetProcessGroup, caller, dog, ghosts
<1>2. CASE WriteChunk
  BY <1>2 DEF WriteChunk, caller, dog
<1>3. CASE SpawnGrandchild
  BY <1>3 DEF SpawnGrandchild, caller, dog, ghosts
<1>4. CASE GrandchildEnds
  BY <1>4 DEF GrandchildEnds, caller, dog, ghosts
<1>5. CASE CloseOutput
  BY <1>5 DEF CloseOutput, caller, dog, ghosts
<1>6. CASE ChildEnds
  BY <1>6 DEF ChildEnds, caller, dog, ghosts
<1>7. CASE RecyclePid
  BY <1>7 DEF RecyclePid, caller, dog, ghosts
<1>8. CASE WatchdogSleep
  BY <1>8 DEF WatchdogSleep, family, caller
<1>9. CASE WatchdogDecides
  BY <1>9 DEF WatchdogDecides, family, caller, ghosts
<1>10. CASE Kill
  BY <1>10 DEF Kill, caller, Kinds
<1>11. CASE ReadMagic
  BY <1>11 DEF ReadMagic, family, caller, dog, ghosts
<1>12. CASE StartWatchdog
  <2>1. /\ pc' \in {"io", "returned"}
        /\ pc' = "returned" => result' = "error"
        /\ pc' = "io" => result' = result
        /\ pc = "start" /\ result = "none" /\ watch = "none" /\ ~overdue
    BY <1>12 DEF StartWatchdog, Throw, Kinds
  <2>2. UNCHANGED <<child, status, grand, pipe, active, waitCompleted, overdue>>
    BY <1>12 DEF StartWatchdog, family, ghosts
  <2>3. QED
    BY <2>1, <2>2
<1>13. ASSUME NEW next \in {"reap", "wait"}, pc \in {"io", "drain"}, InternalPerformIO(next),
              next = "wait" => child = "reaped",
              UNCHANGED <<child, status, grand, waitCompleted, dog, overdue>>
       PROVE  Control'
  <2>1. UNCHANGED <<child, status, grand, waitCompleted, watch, overdue>>
    BY <1>13 DEF dog
  <2>2. CASE /\ pipe' = IF active THEN 0 ELSE pipe
             /\ active' = (active /\ HoldsPipe)
             /\ pc' = next
             /\ UNCHANGED result
    <3>1. pipe' = 0
      BY <2>2
    <3>2. ~active' => ~HoldsPipe
      BY <2>2
    <3>3. HoldsPipe' = HoldsPipe
      BY <2>1
    <3>4. result = "none" /\ pc # "magic"
      BY <1>13
    <3>5. OrderInv' /\ EndInv' /\ ResultIsChildsEnd' /\ KillReachesChild'
      BY <1>13, <2>1, <2>2, <3>4
    <3>6. PipeInv' /\ ResultInv'
      BY <1>13, <2>1, <2>2, <3>1, <3>2, <3>4
    <3>7. QED
      BY <3>5, <3>6
  <2>3. CASE Throw("error") /\ UNCHANGED <<pipe, active>>
    <3>1. pc' = "returned" /\ result' = "error" /\ pipe' = pipe /\ active' = active
      BY <2>3 DEF Throw
    <3>2. HoldsPipe' = HoldsPipe
      BY <2>1
    <3>3. EndInv' /\ ResultIsChildsEnd'
      BY <2>1, <3>1, <1>13
    <3>4. KillReachesChild'
      BY <2>1
    <3>5. OrderInv'
      <4>1. pc' # "magic" /\ pc' # "drain" /\ pc' \notin {"magic", "start"} /\ child # "forked"
        BY <1>13, <3>1
      <4>2. QED
        BY <4>1, <2>1
    <3>6. PipeInv' /\ ResultInv'
      BY <1>13, <2>1, <3>1, <3>2
    <3>7. QED
      BY <3>3, <3>4, <3>5, <3>6
  <2>4. QED
    BY <1>13, <2>2, <2>3 DEF InternalPerformIO
<1>14. CASE PerformIO \/ Drain
  BY <1>13, <1>14 DEF PerformIO, Drain
<1>15. CASE CheckChild
  BY <1>15 DEF CheckChild, Reaped, Reap, NotReaped, dog, ghosts, Kinds
<1>16. CASE WaitForReturn
  <2>1. pc = "wait" /\ UNCHANGED <<status, grand, pipe, active, watch, overdue>>
    BY <1>16 DEF WaitForReturn, dog, ghosts
  <2>2. CASE Reaped /\ child' = "reaped" /\ waitCompleted' = TRUE
    <3>1. \/ status = "exit" /\ result' = "exit" /\ pc' = "flag"
          \/ status # "exit" /\ result' = "interrupted" /\ pc' = "returned"
      BY <1>16, <2>2 DEF WaitForReturn, Throw, Reap
    <3>2. child \in {"dead", "reaped"}
      BY <2>2 DEF Reaped
    <3>3. OrderInv' /\ EndInv'
      BY <2>1, <2>2, <3>1, <3>2
    <3>4. ResultIsChildsEnd' /\ KillReachesChild' /\ ResultInv'
      BY <2>1, <2>2, <3>1, <3>2 DEF Kinds
    <3>5. PipeInv'
      BY <2>1, <2>2, <3>1, <3>2
    <3>6. QED
      BY <3>3, <3>4, <3>5
  <2>3. CASE /\ ~waitCompleted
             /\ Throw(IF child = "reaped" THEN "no child" ELSE "error")
             /\ UNCHANGED <<child, waitCompleted>>
    <3>1. child # "reaped" /\ result' = "error" /\ pc' = "returned"
      BY <2>3 DEF Throw
    <3>2. OrderInv' /\ EndInv' /\ ResultIsChildsEnd' /\ KillReachesChild' /\ ResultInv'
      BY <2>1, <2>3, <3>1
    <3>3. PipeInv'
      BY <2>1, <2>3, <3>1
    <3>4. QED
      BY <3>2, <3>3
  <2>4. QED
    BY <1>16, <2>2, <2>3 DEF WaitForReturn, Reap
<1>17. CASE SetTerminated
  BY <1>17 DEF SetTerminated, family, dog, ghosts, Kinds
<1>18. CASE JoinWatchdog
  BY <1>18 DEF JoinWatchdog, family, caller, dog, ghosts
<1>19. CASE UNCHANGED vars
  BY <1>19 DEF vars
<1>20. QED
  BY <1>1, <1>2, <1>3, <1>4, <1>5, <1>6, <1>7, <1>8, <1>9, <1>10, <1>11, <1>12, <1>14, <1>15,
     <1>16, <1>17, <1>18, <1>19 DEF Next, CallerStep, WatchdogStep, Environment

\* The invariant holds throughout.
THEOREM Invariance == Spec => []IInv
<1>1. IInv /\ [Next]_vars => IInv'
  BY KindsStep, NumbersStep, ControlStep DEF IInv
<1>2. QED
  BY InitIInv, <1>1, PTL DEF Spec

\* All variables keep their types, and no output is lost or doubled on its way.
THEOREM TypeCorrect == Spec => []TypeOK
<1>1. IInv => TypeOK
  BY DEF IInv, Kinds, Numbers, TypeOK
<1>2. QED
  BY <1>1, Invariance, PTL

\* Run collects everything the child wrote before it tells how the child ended.
THEOREM OutputIsComplete == Spec => []OutputComplete
<1>1. IInv => OutputComplete
  BY DEF IInv, Numbers, Control, PipeInv, OutputComplete
<1>2. QED
  BY <1>1, Invariance, PTL

\* What Run returns or throws is how the child ended.
THEOREM ResultIsTrue == Spec => []ResultIsChildsEnd
<1>1. IInv => ResultIsChildsEnd
  BY DEF IInv, Control
<1>2. QED
  BY <1>1, Invariance, PTL

\* Kill reaches the child whenever the watchdog calls it.
THEOREM KillArrives == Spec => []KillReachesChild
<1>1. IInv => KillReachesChild
  BY DEF IInv, Control
<1>2. QED
  BY <1>1, Invariance, PTL

\* After Run has returned an exit status the watchdog kills nothing.
THEOREM ReturnIsQuiet == Spec => NoKillAfterReturn
<1>1. IInv /\ [Next]_vars => [pc = "returned" /\ result = "exit" => overdue' = overdue]_vars
  <2> SUFFICES ASSUME IInv, [Next]_vars, pc = "returned", result = "exit"
               PROVE  overdue' = overdue
    OBVIOUS
  <2>1. watch # "kill"
    BY DEF IInv, Control, ResultInv
  <2>2. QED
    BY <2>1 DEF Next, CallerStep, WatchdogStep, Environment, ReadMagic, StartWatchdog,
       PerformIO, CheckChild, Drain, WaitForReturn, SetTerminated, JoinWatchdog, WatchdogSleep,
       WatchdogDecides, Kill, SetProcessGroup, WriteChunk, SpawnGrandchild, GrandchildEnds,
       CloseOutput, ChildEnds, RecyclePid, ghosts, vars
<1>2. QED
  BY <1>1, Invariance, PTL DEF Spec, NoKillAfterReturn

-------------------------------------------------------------------------------
\* The watchdog's patience, as long as the time fits into an int.

\* No second that readConfig accepts, times 1000, is a negative int.
NoWrap == \A s \in Secs : s * Second < Word \div 2

PatienceInv ==
  /\ elapsed \in Nat
  /\ timeoutSecs \in Secs
  /\ watch = "none" => elapsed = 0
  /\ watch = "sleep" => timeoutLeft = (timeoutSecs - elapsed) * Second
  /\ watch = "sleep" => ~overdue
  /\ watch = "kill" => elapsed >= timeoutSecs
  /\ overdue => elapsed >= timeoutSecs
  /\ victim => overdue

\* Without a wrap the watchdog starts with all the time there is.
LEMMA TimeoutIsWhole ==
  ASSUME NoWrap, timeoutSecs \in Secs
  PROVE  AsInt(Timeout) = timeoutSecs * Second
<1>1. timeoutSecs \in Nat /\ timeoutSecs * Second \in Nat
  BY SecsAreNat, TimeAssumption
<1>2. timeoutSecs * Second < Word \div 2 /\ Word \div 2 <= Word
  BY TimeAssumption DEF NoWrap
<1>3. Timeout = timeoutSecs * Second
  BY <1>1, <1>2, TimeAssumption DEF Timeout
<1>4. QED
  BY <1>1, <1>2, <1>3, TimeAssumption DEF AsInt

\* When nothing is left of the time the watchdog has slept for all of it.
LEMMA TimeIsUp ==
  ASSUME NEW s \in Nat, NEW e \in Nat, NEW d \in Nat \ {0}, (s - e) * d <= 0
  PROVE  e >= s
<1>1. CASE s - e >= 1
  <2>1. PICK k \in Nat : s - e = k + 1
    BY <1>1
  <2>2. k * d \in Nat /\ (k + 1) * d = k * d + d
    OBVIOUS
  <2>3. QED
    BY <2>1, <2>2
<1>2. QED
  BY <1>1

LEMMA PatienceStep == NoWrap /\ PatienceInv /\ IInv /\ [Next]_vars => PatienceInv'
<1> SUFFICES ASSUME NoWrap, PatienceInv, IInv, [Next]_vars
             PROVE  PatienceInv'
  OBVIOUS
<1> USE DEF PatienceInv
<1>1. CASE StartWatchdog
  <2>1. /\ UNCHANGED <<timeoutSecs, elapsed, overdue, victim>>
        /\ watch = "none" /\ ~overdue
    BY <1>1 DEF StartWatchdog, family, ghosts, IInv, Control, OrderInv, Kinds
  <2>2. CASE watch' = "sleep" /\ timeoutLeft' = AsInt(Timeout)
    <3>1. elapsed' = 0 /\ timeoutLeft' = timeoutSecs * Second
      BY <2>1, <2>2, TimeoutIsWhole
    <3>2. timeoutSecs - 0 = timeoutSecs
      BY SecsAreNat
    <3>3. QED
      BY <2>1, <2>2, <3>1, <3>2
  <2>3. CASE UNCHANGED dog
    BY <2>1, <2>3 DEF dog
  <2>4. QED
    BY <1>1, <2>2, <2>3 DEF StartWatchdog
<1>2. CASE WatchdogSleep
  <2>1. /\ watch = "sleep" /\ elapsed' = elapsed + 1 /\ timeoutLeft' = timeoutLeft - Second
        /\ UNCHANGED <<timeoutSecs, watch, overdue, victim>>
    BY <1>2 DEF WatchdogSleep
  <2>2. (timeoutSecs - elapsed) * Second - Second = (timeoutSecs - (elapsed + 1)) * Second
    BY SecsAreNat, TimeAssumption
  <2>3. QED
    BY <2>1, <2>2, SecsAreNat
<1>3. CASE WatchdogDecides
  <2>1. CASE timeoutLeft <= 0 /\ watch' = "kill"
    <3>1. elapsed >= timeoutSecs
      BY <1>3, <2>1, TimeIsUp, SecsAreNat, TimeAssumption DEF WatchdogDecides
    <3>2. QED
      BY <1>3, <2>1, <3>1 DEF WatchdogDecides, ghosts
  <2>2. CASE watch' = "done"
    BY <1>3, <2>2 DEF WatchdogDecides, ghosts
  <2>3. QED
    BY <1>3, <2>1, <2>2 DEF WatchdogDecides
<1>4. CASE Kill
  BY <1>4 DEF Kill
<1>5. CASE UNCHANGED <<timeoutSecs, watch, timeoutLeft, elapsed, overdue, victim>>
  BY <1>5
<1>6. QED
  BY <1>1, <1>2, <1>3, <1>4, <1>5 DEF Next, CallerStep, WatchdogStep, Environment, ReadMagic,
     PerformIO, Drain, CheckChild, WaitForReturn, SetTerminated, JoinWatchdog, SetProcessGroup,
     WriteChunk, SpawnGrandchild, GrandchildEnds, CloseOutput, ChildEnds, RecyclePid, dog,
     ghosts, vars

\* The watchdog does not kill, and hits nobody else, before the time it was given is up,
\* provided that no accepted number of seconds wraps.
THEOREM WatchdogIsPatient ==
  ASSUME NoWrap
  PROVE  Spec => []KilledAfterAcceptedWait /\ []VictimOnlyWhenOverdue
<1>1. Init => PatienceInv
  BY DEF Init, PatienceInv
<1>2. PatienceInv /\ IInv /\ [Next]_vars => PatienceInv'
  BY NoWrap, PatienceStep
<1>3. PatienceInv => KilledAfterAcceptedWait /\ VictimOnlyWhenOverdue
  BY DEF PatienceInv, KilledAfterAcceptedWait, VictimOnlyWhenOverdue
<1>4. QED
  BY <1>1, <1>2, <1>3, Invariance, PTL DEF Spec

-------------------------------------------------------------------------------
\* What RunReturns rests on beside fairness: each thread uses up a measure, and whoever
\* waits, waits for something that has happened.

\* The steps the watchdog has before it, at most.
Countdown ==
  CASE watch = "sleep" /\ timeoutLeft > 0  -> timeoutLeft + 2
    [] watch = "sleep" /\ timeoutLeft <= 0 -> 2
    [] watch = "kill" -> 1
    [] OTHER -> 0

\* The watchdog comes to its end whatever the others do.
WatchdogAdvances ==
  [][/\ WatchdogStep => Countdown' < Countdown
     /\ watch # "none" => Countdown' <= Countdown]_vars

\* The steps the caller has before it, when it does not go back to read again.
StepsLeft ==
  CASE pc = "magic" -> 8
    [] pc = "start" -> 7
    [] pc = "io"    -> 6
    [] pc = "reap"  -> 5
    [] pc = "drain" -> 4
    [] pc = "wait"  -> 3
    [] pc = "flag"  -> 2
    [] pc = "join"  -> 1
    [] OTHER -> 0

\* After the end of the watchdog the caller never reads again in vain, also when a
\* process that was left behind had the pipe.
CallerAdvances ==
  [][watch = "done" =>
       /\ CallerStep => StepsLeft' < StepsLeft
       /\ StepsLeft' <= StepsLeft]_vars

\* After the end of the watchdog there is a child to wait for, or no wait is left.
WaitsForTheDead ==
  watch = "done" => Reaped \/ pc \in {"join", "returned"}

\* The watchdog ends because it has killed, or because the caller is past its wait.
EndsInv ==
  /\ terminated => pc \in {"join", "returned"}
  /\ watch = "done" => overdue \/ terminated

LEMMA EndsStep == EndsInv /\ IInv /\ [Next]_vars => EndsInv'
<1> SUFFICES ASSUME EndsInv, IInv, [Next]_vars
             PROVE  EndsInv'
  OBVIOUS
<1> USE DEF EndsInv
<1>1. CASE WatchdogDecides
  <2>1. terminated' = terminated /\ pc' = pc
    BY <1>1 DEF WatchdogDecides, caller
  <2>2. watch' = "done" => terminated
    BY <1>1 DEF WatchdogDecides
  <2>3. QED
    BY <2>1, <2>2
<1>2. CASE Kill
  BY <1>2 DEF Kill, caller
<1>3. CASE WatchdogSleep \/ Environment
  <2>1. UNCHANGED <<terminated, pc, watch, overdue>>
    BY <1>3 DEF WatchdogSleep, Environment, SetProcessGroup, WriteChunk, SpawnGrandchild,
                GrandchildEnds, CloseOutput, ChildEnds, RecyclePid, caller, dog, ghosts
  <2>2. QED
    BY <2>1
<1>4. CASE CallerStep
  <2>1. \/ pc' = "returned"
        \/ terminated' = terminated /\ pc # "join" /\ pc # "returned"
        \/ pc' = "join"
    BY <1>4 DEF CallerStep, ReadMagic, StartWatchdog, PerformIO, Drain, InternalPerformIO,
                CheckChild, WaitForReturn, SetTerminated, JoinWatchdog, Throw, caller
  <2>2. \/ watch' = watch
        \/ watch = "none" /\ watch' = "sleep"
    BY <1>4 DEF CallerStep, ReadMagic, StartWatchdog, PerformIO, Drain, CheckChild,
                WaitForReturn, SetTerminated, JoinWatchdog, dog, IInv, Control, OrderInv, Kinds
  <2>3. overdue' = overdue
    BY <1>4 DEF CallerStep, ReadMagic, StartWatchdog, PerformIO, Drain, CheckChild,
                WaitForReturn, SetTerminated, JoinWatchdog, ghosts
  <2>4. watch = "done" => (terminated => terminated')
    BY <1>4 DEF CallerStep, ReadMagic, StartWatchdog, PerformIO, Drain, InternalPerformIO,
                CheckChild, WaitForReturn, SetTerminated, JoinWatchdog, Throw, caller
  <2>5. terminated' => pc' \in {"join", "returned"}
    BY <2>1
  <2>6. watch' = "done" => overdue' \/ terminated'
    BY <2>2, <2>3, <2>4
  <2>7. QED
    BY <2>5, <2>6
<1>5. CASE UNCHANGED vars
  BY <1>5 DEF vars
<1>6. QED
  BY <1>1, <1>2, <1>3, <1>4, <1>5 DEF Next, WatchdogStep

LEMMA EndsInvariance == Spec => []EndsInv
<1>1. Init => EndsInv
  BY DEF Init, EndsInv
<1>2. QED
  BY <1>1, EndsStep, Invariance, PTL DEF Spec

LEMMA WaitsAreShort == EndsInv /\ IInv => WaitsForTheDead
<1> SUFFICES ASSUME EndsInv, IInv, watch = "done", overdue
             PROVE  Reaped
  BY DEF EndsInv, WaitsForTheDead
<1>1. QED
  BY DEF IInv, Control, KillReachesChild, OrderInv, Reaped

LEMMA WatchdogStepAdvances ==
  ASSUME IInv, [Next]_vars
  PROVE  /\ WatchdogStep => Countdown' < Countdown
         /\ watch # "none" => Countdown' <= Countdown
<1>b. timeoutLeft \in -Word .. Word
  BY DEF IInv, Numbers
<1>0. timeoutLeft \in Int /\ Second \in Nat \ {0}
  BY <1>b, TimeAssumption
<1>a. Countdown \in Nat
  BY <1>0 DEF Countdown
<1>1. ASSUME WatchdogStep PROVE Countdown' < Countdown
  <2>1. CASE WatchdogSleep
    BY <1>0, <2>1 DEF WatchdogSleep, Countdown
  <2>2. CASE WatchdogDecides
    BY <1>0, <2>2 DEF WatchdogDecides, Countdown
  <2>3. CASE Kill
    BY <2>3 DEF Kill, Countdown
  <2>4. QED
    BY <1>1, <2>1, <2>2, <2>3 DEF WatchdogStep
<1>2. ASSUME watch # "none" PROVE Countdown' <= Countdown
  <2>1. CASE WatchdogStep
    <3>1. Countdown' < Countdown
      BY <1>1, <2>1
    <3>2. Countdown' \in Int
      BY <1>0, <2>1 DEF WatchdogStep, WatchdogSleep, WatchdogDecides, Kill, Countdown
    <3>3. QED
      BY <1>a, <3>1, <3>2
  <2>2. CASE ~WatchdogStep
    <3>1. ~StartWatchdog
      BY <1>2 DEF IInv, Control, OrderInv, StartWatchdog
    <3>2. UNCHANGED <<watch, timeoutLeft>>
      BY <2>2, <3>1 DEF Next, CallerStep, Environment, ReadMagic, PerformIO, CheckChild, Drain,
         WaitForReturn, SetTerminated, JoinWatchdog, SetProcessGroup, WriteChunk,
         SpawnGrandchild, GrandchildEnds, CloseOutput, ChildEnds, RecyclePid, dog, vars
    <3>3. Countdown' = Countdown
      BY <3>2 DEF Countdown
    <3>4. QED
      BY <1>a, <3>3
  <2>3. QED
    BY <2>1, <2>2
<1>3. QED
  BY <1>1, <1>2

LEMMA CallerStepAdvances ==
  ASSUME IInv, EndsInv, [Next]_vars, watch = "done"
  PROVE  /\ CallerStep => StepsLeft' < StepsLeft
         /\ StepsLeft' <= StepsLeft
<1>0. Reaped \/ pc \in {"join", "returned"}
  BY WaitsAreShort DEF WaitsForTheDead
<1>1. ASSUME CallerStep PROVE StepsLeft' < StepsLeft
  <2>1. CASE ReadMagic \/ StartWatchdog
    BY <2>1 DEF ReadMagic, StartWatchdog, Throw, IInv, Control, OrderInv
  <2>2. CASE PerformIO
    <3>1. pc = "io" /\ pc' \in {"reap", "returned"}
      BY <2>2 DEF PerformIO, InternalPerformIO, Throw
    <3>2. QED
      BY <3>1 DEF StepsLeft
  <2>3. CASE CheckChild
    <3>1. pc = "reap" /\ pc' = "drain"
      BY <1>0, <2>3 DEF CheckChild, NotReaped
    <3>2. QED
      BY <3>1 DEF StepsLeft
  <2>4. CASE Drain
    <3>1. pc = "drain" /\ pc' \in {"wait", "returned"}
      BY <2>4 DEF Drain, InternalPerformIO, Throw
    <3>2. QED
      BY <3>1 DEF StepsLeft
  <2>5. CASE WaitForReturn
    <3>1. pc = "wait" /\ pc' \in {"flag", "returned"}
      BY <2>5 DEF WaitForReturn, Throw
    <3>2. QED
      BY <3>1 DEF StepsLeft
  <2>6. CASE SetTerminated
    <3>1. pc = "flag" /\ pc' \in {"join", "returned"}
      BY <2>6 DEF SetTerminated
    <3>2. QED
      BY <3>1 DEF StepsLeft
  <2>7. CASE JoinWatchdog
    <3>1. pc = "join" /\ pc' = "returned"
      BY <2>7 DEF JoinWatchdog
    <3>2. QED
      BY <3>1 DEF StepsLeft
  <2>8. QED
    BY <1>1, <2>1, <2>2, <2>3, <2>4, <2>5, <2>6, <2>7 DEF CallerStep
<1>2. StepsLeft \in Int /\ StepsLeft' \in Int
  BY DEF StepsLeft
<1>3. CASE ~CallerStep
  <2>1. pc' = pc
    BY <1>3 DEF Next, WatchdogStep, Environment, WatchdogSleep, WatchdogDecides, Kill,
       SetProcessGroup, WriteChunk, SpawnGrandchild, GrandchildEnds, CloseOutput, ChildEnds,
       RecyclePid, vars
  <2>2. StepsLeft' = StepsLeft
    BY <2>1 DEF StepsLeft
  <2>3. QED
    BY <1>2, <1>3, <2>2
<1>4. QED
  BY <1>1, <1>2, <1>3

\* Run comes to its end as far as it is scheduled: the watchdog has a bounded number of
\* steps, and once it has ended the caller has at most eight and waits for nobody that
\* lives.  What the child and its descendants do, or leave undone, does not matter.
THEOREM RunIsBounded ==
  Spec => []WaitsForTheDead /\ WatchdogAdvances /\ CallerAdvances
<1>1. EndsInv /\ IInv => WaitsForTheDead
  BY WaitsAreShort
<1>2. IInv /\ [Next]_vars =>
        [/\ WatchdogStep => Countdown' < Countdown
         /\ watch # "none" => Countdown' <= Countdown]_vars
  BY WatchdogStepAdvances
<1>3. EndsInv /\ IInv /\ [Next]_vars =>
        [watch = "done" =>
           /\ CallerStep => StepsLeft' < StepsLeft
           /\ StepsLeft' <= StepsLeft]_vars
  BY CallerStepAdvances
<1>4. QED
  BY <1>1, <1>2, <1>3, EndsInvariance, Invariance, PTL
     DEF Spec, WatchdogAdvances, CallerAdvances
===============================================================================
