------------------------------ MODULE ProcessRun ------------------------------
(***************************************************************************)
(* One call of SCXProcess::Run: the calling thread that reads the output   *)
(* of a child process and waits for it, the watchdog thread that kills the *)
(* process group when the time is up, and the child itself with one        *)
(* process that it may leave behind.                                       *)
(*                                                                         *)
(* stdout and stderr are one channel here; the agent sends nothing to      *)
(* stdin.  A chunk is what the child writes at once.                       *)
(***************************************************************************)
EXTENDS Integers

CONSTANTS
  Configured, \* the numbers the file commandtimeout may hold
  Second,     \* the length of a second in milliseconds
  Word,       \* 2^w, w the width of unsigned and int
  MaxChunks,  \* bound: what the child writes
  PipeSize,   \* how many chunks fit into the pipe
  CallsFail,  \* TRUE iff poll, read, pthread_create and a waitpid that blocks may fail
              \* (without blocking it cannot fail for one's own child)
  Signals     \* TRUE iff somebody else may kill the child

ASSUME TimeAssumption ==
  /\ Configured \subseteq Nat
  /\ Second \in Nat \ {0}
  /\ Word \in Nat \ {0} /\ Word % 2 = 0 /\ Second < Word
ASSUME PipeAssumption == MaxChunks \in Nat /\ PipeSize \in Nat \ {0}
ASSUME SwitchAssumption == CallsFail \in BOOLEAN /\ Signals \in BOOLEAN

VARIABLES
  timeoutSecs,  \* argument of CommandExecutor::Execute
  \* ---- the child and the kernel ----
  child,      \* "forked", "running" (group set, GUID written), "quiet" (its output
              \* closed), "dead", "reaped"
  status,     \* how the child ended: "none", "exit", "signal"
  grand,      \* a process the child left in its group: "none", "alive", "dead"
  pipe,       \* chunks in the pipe
  recycled,   \* the pid of the reaped child is that of another process group
  \* ---- the calling thread ----
  pc,
  active,          \* m_stdoutActive || m_stderrActive
  waitCompleted,   \* m_waitCompleted
  terminated,      \* m_processTerminated, read by the watchdog without a lock
  result,          \* "none", "exit", "interrupted", "error" (a call failed), "no child"
  \* ---- the watchdog thread ----
  watch,        \* "none", "sleep", "kill", "done"
  timeoutLeft,
  \* ---- bookkeeping, read by no action ----
  written,      \* chunks the child wrote
  collected,    \* chunks in mystdout
  elapsed,      \* seconds the watchdog has slept
  overdue,      \* the watchdog has called Kill
  victim        \* and hit a process group that has nothing to do with the command

family  == <<child, status, grand, pipe, recycled>>
caller  == <<active, waitCompleted, terminated, result>>
dog     == <<watch, timeoutLeft>>
ghosts  == <<written, collected, elapsed, overdue, victim>>
vars    == <<timeoutSecs, child, status, grand, pipe, recycled, pc, active,
             waitCompleted, terminated, result, watch, timeoutLeft, written,
             collected, elapsed, overdue, victim>>

-------------------------------------------------------------------------------
\* readConfig: UINT_MAX / 1000 is MAXIMUM_TIMEOUT, 1 is MINIMUM_TIMEOUT.
MaximumTimeout == (Word - 1) \div Second
readConfig(val) ==
  CASE val < 1 -> 1
    [] val > MaximumTimeout -> MaximumTimeout
    [] OTHER -> val

\* 0: a caller of Run that sets no limit.
Secs == {0} \union {readConfig(val) : val \in Configured}

\* timeoutSecs * 1000 as unsigned, and what `int timeoutLeft = m_timeout' holds.
Timeout == (timeoutSecs * Second) % Word
AsInt(n) == IF n >= Word \div 2 THEN n - Word ELSE n

HoldsPipe == child \in {"forked", "running"} \/ grand = "alive"

Init ==
  /\ timeoutSecs \in Secs
  /\ child = "forked"
  /\ status = "none"
  /\ grand = "none"
  /\ pipe = 0
  /\ recycled = FALSE
  /\ pc = "magic"
  /\ active = TRUE
  /\ waitCompleted = FALSE
  /\ terminated = FALSE
  /\ result = "none"
  /\ watch = "none"
  /\ timeoutLeft = 0
  /\ written = 0
  /\ collected = 0
  /\ elapsed = 0
  /\ overdue = FALSE
  /\ victim = FALSE

-------------------------------------------------------------------------------
\* The child.

\* setpgid, the GUID into the pipe, and exec.
SetProcessGroup ==
  /\ child = "forked"
  /\ child' = "running"
  /\ UNCHANGED <<timeoutSecs, status, grand, pipe, recycled, pc, caller, dog, ghosts>>

WriteChunk ==
  /\ child = "running"
  /\ written < MaxChunks
  /\ pipe < PipeSize
  /\ written' = written + 1
  /\ pipe' = pipe + 1
  /\ UNCHANGED <<timeoutSecs, child, status, grand, recycled, pc, caller, dog,
                 collected, elapsed, overdue, victim>>

\* A background process that keeps the pipe open.
SpawnGrandchild ==
  /\ child = "running"
  /\ grand = "none"
  /\ grand' = "alive"
  /\ UNCHANGED <<timeoutSecs, child, status, pipe, recycled, pc, caller, dog, ghosts>>

GrandchildEnds ==
  /\ grand = "alive"
  /\ grand' = "dead"
  /\ UNCHANGED <<timeoutSecs, child, status, pipe, recycled, pc, caller, dog, ghosts>>

\* A command that closes its output and goes on.
CloseOutput ==
  /\ child = "running"
  /\ child' = "quiet"
  /\ UNCHANGED <<timeoutSecs, status, grand, pipe, recycled, pc, caller, dog, ghosts>>

ChildEnds ==
  /\ child \in {"forked", "running", "quiet"}
  /\ \/ child # "forked" /\ status' = "exit"
     \/ Signals /\ status' = "signal"
  /\ child' = "dead"
  /\ UNCHANGED <<timeoutSecs, grand, pipe, recycled, pc, caller, dog, ghosts>>

\* Once the child is reaped and its group is empty the kernel may use its pid again.
RecyclePid ==
  /\ child = "reaped"
  /\ grand # "alive"
  /\ ~recycled
  /\ recycled' = TRUE
  /\ UNCHANGED <<timeoutSecs, child, status, grand, pipe, pc, caller, dog, ghosts>>

-------------------------------------------------------------------------------
\* The calling thread.

\* Mutant: the constructor does not wait for the GUID.
StartAtOnce ==
  /\ pc = "magic"
  /\ pc' = "start"
  /\ UNCHANGED <<timeoutSecs, family, caller, dog, ghosts>>

\* The end of the constructor: while the pipe is empty the loop spins (`continue'
\* skips the sleep and the count of the time), so it ends with the GUID, or thirty
\* seconds after the end of a child that never wrote it.
ReadMagic ==
  /\ pc = "magic"
  /\ child # "forked"
  /\ pc' = "start"
  /\ UNCHANGED <<timeoutSecs, family, caller, dog, ghosts>>

\* An exception leaves WaitForReturn: the flag is set on the way out if there is a
\* watchdog, whose thread is not joined but detached.
Throw(what) ==
  /\ result' = what
  /\ terminated' = (watch # "none")
  /\ pc' = "returned"

\* Run: a watchdog only when there is a timeout; when its thread cannot be created
\* Run throws and leaves the child to itself.
StartWatchdog ==
  /\ pc = "start"
  /\ \/ pc' = "io" /\ UNCHANGED <<terminated, result>>
        /\ IF Timeout > 0
           THEN watch' = "sleep" /\ timeoutLeft' = AsInt(Timeout)
           ELSE UNCHANGED dog
     \/ Timeout > 0 /\ CallsFail /\ Throw("error") /\ UNCHANGED dog
  /\ UNCHANGED <<timeoutSecs, family, active, waitCompleted, ghosts>>

\* InternalPerformIO: poll up to two seconds and read all there is.
InternalPerformIO(next) ==
  \/ /\ collected' = IF active THEN collected + pipe ELSE collected
     /\ pipe' = IF active THEN 0 ELSE pipe
     /\ active' = (active /\ HoldsPipe)
     /\ pc' = next
     /\ UNCHANGED <<terminated, result>>
  \/ /\ active /\ CallsFail
     /\ Throw("error")
     /\ UNCHANGED <<collected, pipe, active>>

\* Mutant: what was read before is sent again.
ReadAgain ==
  /\ pc = "io"
  /\ collected' = collected + pipe
  /\ active' = HoldsPipe
  /\ pc' = "reap"
  /\ UNCHANGED <<timeoutSecs, family, waitCompleted, terminated, result, dog,
                 written, elapsed, overdue, victim>>

\* The first call of PerformIO.
PerformIO ==
  /\ pc = "io"
  /\ InternalPerformIO("reap")
  /\ UNCHANGED <<timeoutSecs, child, status, grand, recycled, waitCompleted, dog,
                 written, elapsed, overdue, victim>>

\* DoWaitPID asks the kernel once; afterwards it answers from the cache.
Reaped == waitCompleted \/ child = "dead"
Reap   == child' = "reaped" /\ waitCompleted' = TRUE

\* A child that runs: PerformIO is called again while there is output to wait for.
NotReaped ==
  /\ ~Reaped
  /\ pc' = IF active THEN "io" ELSE "wait"
  /\ UNCHANGED <<child, waitCompleted>>

\* Mutant: DoWaitPID does not remember that the child was reaped.
ReapAndForget ==
  /\ pc = "reap"
  /\ \/ Reaped /\ child' = "reaped" /\ pc' = "drain" /\ UNCHANGED waitCompleted
     \/ NotReaped
  /\ UNCHANGED <<timeoutSecs, status, grand, pipe, recycled, active, terminated,
                 result, dog, ghosts>>

\* Mutant: no output is read once the child was reaped.
ReapAndStop ==
  /\ pc = "reap"
  /\ \/ Reaped /\ Reap /\ pc' = "wait"
     \/ NotReaped
  /\ UNCHANGED <<timeoutSecs, status, grand, pipe, recycled, active, terminated,
                 result, dog, ghosts>>

\* DoWaitPID(NULL, false) in PerformIO, and the loop condition of WaitForReturn.
CheckChild ==
  /\ pc = "reap"
  /\ \/ Reaped /\ Reap /\ pc' = "drain"
     \/ NotReaped
  /\ UNCHANGED <<timeoutSecs, status, grand, pipe, recycled, active, terminated,
                 result, dog, ghosts>>

\* The second call in PerformIO, when the child is gone.
Drain ==
  /\ pc = "drain"
  /\ InternalPerformIO("wait")
  /\ UNCHANGED <<timeoutSecs, child, status, grand, recycled, waitCompleted, dog,
                 written, elapsed, overdue, victim>>

\* WaitForReturn() blocks in waitpid unless the child was reaped before.
WaitForReturn ==
  /\ pc = "wait"
  /\ \/ /\ Reaped
        /\ Reap
        /\ IF status = "exit"
           THEN result' = "exit" /\ pc' = "flag" /\ UNCHANGED terminated
           ELSE Throw("interrupted")
     \/ /\ ~waitCompleted /\ (CallsFail \/ child = "reaped")
        /\ Throw(IF child = "reaped" THEN "no child" ELSE "error")
        /\ UNCHANGED <<child, waitCompleted>>
  /\ UNCHANGED <<timeoutSecs, status, grand, pipe, recycled, active, dog, ghosts>>

\* Mutant: Run returns without waiting for the watchdog thread.
ReturnAtOnce ==
  /\ pc = "flag"
  /\ pc' = "returned"
  /\ terminated' = (watch # "none")
  /\ UNCHANGED <<timeoutSecs, family, active, waitCompleted, result, dog, ghosts>>

SetTerminated ==
  /\ pc = "flag"
  /\ IF watch = "none"
     THEN pc' = "returned" /\ UNCHANGED terminated
     ELSE pc' = "join" /\ terminated' = TRUE
  /\ UNCHANGED <<timeoutSecs, family, active, waitCompleted, result, dog, ghosts>>

JoinWatchdog ==
  /\ pc = "join"
  /\ watch = "done"
  /\ pc' = "returned"
  /\ UNCHANGED <<timeoutSecs, family, caller, dog, ghosts>>

-------------------------------------------------------------------------------
\* The watchdog thread.

\* One second of sleep at a time.
WatchdogSleep ==
  /\ watch = "sleep"
  /\ timeoutLeft > 0
  /\ ~terminated
  /\ timeoutLeft' = timeoutLeft - Second
  /\ elapsed' = elapsed + 1
  /\ UNCHANGED <<timeoutSecs, family, pc, caller, watch, written, collected, overdue,
                 victim>>

\* Mutant: the watchdog does not look at m_processTerminated a second time.
DecideByTimeOnly ==
  /\ watch = "sleep"
  /\ timeoutLeft <= 0 \/ terminated
  /\ watch' = "kill"
  /\ UNCHANGED <<timeoutSecs, family, pc, caller, timeoutLeft, ghosts>>

\* Mutant: the watchdog gives up without killing.
NeverKill ==
  /\ watch = "sleep"
  /\ timeoutLeft <= 0 \/ terminated
  /\ watch' = "done"
  /\ UNCHANGED <<timeoutSecs, family, pc, caller, timeoutLeft, ghosts>>

\* The flag is read here, and used by the next step.
WatchdogDecides ==
  /\ watch = "sleep"
  /\ timeoutLeft <= 0 \/ terminated
  /\ watch' = IF terminated THEN "done" ELSE "kill"
  /\ UNCHANGED <<timeoutSecs, family, pc, caller, timeoutLeft, ghosts>>

\* killpg(m_pid, SIGKILL): a child that has not set its group is not reached, and
\* ESRCH is ignored.  Any other errno throws; that is left out, as the agent runs as
\* root and killpg fails with no other for it.
Kill ==
  /\ watch = "kill"
  /\ watch' = "done"
  /\ overdue' = TRUE
  /\ IF child \in {"running", "quiet"}
     THEN child' = "dead" /\ status' = "signal"
     ELSE UNCHANGED <<child, status>>
  /\ grand' = IF grand = "alive" THEN "dead" ELSE grand
  /\ victim' = recycled
  /\ UNCHANGED <<timeoutSecs, pipe, recycled, pc, caller, timeoutLeft, written,
                 collected, elapsed>>

-------------------------------------------------------------------------------
CallerStep ==
  \/ ReadMagic \/ StartWatchdog \/ PerformIO \/ CheckChild \/ Drain
  \/ WaitForReturn \/ SetTerminated \/ JoinWatchdog

WatchdogStep == WatchdogSleep \/ WatchdogDecides \/ Kill

Environment ==
  \/ SetProcessGroup \/ WriteChunk \/ SpawnGrandchild \/ GrandchildEnds
  \/ CloseOutput \/ ChildEnds \/ RecyclePid

Next == CallerStep \/ WatchdogStep \/ Environment

Spec == Init /\ [][Next]_vars

\* Both threads are scheduled and a forked child comes to set its group; what the
\* command does, and whether it ever ends, is up to the command.
FairSpec ==
  /\ Spec
  /\ WF_vars(CallerStep)
  /\ WF_vars(WatchdogStep)
  /\ WF_vars(SetProcessGroup)

-------------------------------------------------------------------------------
\* Properties.

\* Types; the pipe never holds more than was written and not yet read.
TypeOK ==
  /\ timeoutSecs \in Secs
  /\ child \in {"forked", "running", "quiet", "dead", "reaped"}
  /\ status \in {"none", "exit", "signal"}
  /\ grand \in {"none", "alive", "dead"}
  /\ pipe \in 0 .. PipeSize
  /\ recycled \in BOOLEAN
  /\ pc \in {"magic", "start", "io", "reap", "drain", "wait", "flag", "join",
             "returned"}
  /\ active \in BOOLEAN
  /\ waitCompleted \in BOOLEAN
  /\ terminated \in BOOLEAN
  /\ result \in {"none", "exit", "interrupted", "error", "no child"}
  /\ watch \in {"none", "sleep", "kill", "done"}
  /\ timeoutLeft \in -Word .. Word
  /\ written \in 0 .. MaxChunks
  /\ collected + pipe = written

\* Run that returns, or reports an interrupted process, has collected everything the
\* child wrote, also what it wrote between the last poll and its end.
OutputComplete ==
  result \in {"exit", "interrupted"} => collected = written

\* The result tells how the child ended and not how it was reaped: a child that exited
\* yields its exit status, one that was killed SCXInterruptedProcessException, no zombie
\* remains, and waitpid is never asked for a child that was reaped before.
ResultIsChildsEnd ==
  /\ result = "exit" => status = "exit" /\ child = "reaped"
  /\ result = "interrupted" => status = "signal" /\ child = "reaped"
  /\ result # "no child"

\* After a return with an exit status the watchdog kills nothing any more: the
\* SCXProcess it points to is about to be destroyed.
NoKillAfterReturn ==
  [][pc = "returned" /\ result = "exit" => overdue' = overdue]_vars

\* Kill finds the child in its process group, so a child is never left running by a
\* watchdog that has done its work.
KillReachesChild ==
  overdue => child \in {"dead", "reaped"}

\* A process group that has nothing to do with the command is only ever hit when the
\* command took all the time it was given: the watchdog was past its last look at
\* m_processTerminated when the caller set it.
VictimOnlyWhenOverdue ==
  victim => elapsed >= timeoutSecs

\* Run with a watchdog comes to its end, even if the command never ends or closes its
\* output and goes on.
RunReturns ==
  (watch = "sleep") ~> (pc = "returned")

-------------------------------------------------------------------------------
\* What the source says and the code does not do.

\* commandexecutor.h:103 "The time to wait for the script to run in seconds", for any
\* value that readConfig clamps to the range it allows: the watchdog kills only after
\* that time.
KilledAfterAcceptedWait ==
  overdue => elapsed >= timeoutSecs
===============================================================================
