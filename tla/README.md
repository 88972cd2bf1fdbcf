# VMM Linux guest agent: verification project

Models, model-checking runs and machine-checked proofs for the SCVMM Linux guest
agent (`src/vmm`) and for the parts of its portability library (`src/pal`) that it
runs on. Line numbers refer to the sources under `src/`.

## 1. The system

The agent specializes a Linux virtual machine that was cloned from a template. It
is a daemon that the init script starts at every boot. It finds an ISO with a
specialization file (`linuxosconfiguration.xml`), executes shell scripts that
configure the host, reboots once in the middle, records its progress in a status
file the host reads, and at the end removes itself and halts the machine.

| Component | State it keeps | Operations | Talks to |
|---|---|---|---|
| main (`vmm/dev/src/main/main.cpp`) | none | daemonize, `InitializeSystem` | fetcher, reader, configurators |
| fetcher (`fetcher/isofetcher.cpp`) | mount, driver, found flag, paths | `ObtainMountPoint`, `MountISO`, `UnmountISO`, `InvokeInsmod/Rmmod`, `ReadConfigFile`, `InstallOrUpgradeAgent`, `TerminateSetup` | mount, insmod, status file, install script, shutdown |
| status manager (`statusmanager/`) | the status file: the only memory across reboots | `SetUp`, `AddChildToRoot`, `ReadChildOfRoot`, `Write` | file system |
| reader (`osspecializationreader/`) | the `OSConfiguration` | `LoadXML`, `Read...` | XML library |
| configurators (`osconfigurator/`) | none; the visitor walks a fixed array | `PreConfigurator`, time zone, host and domain, users, network, run-once, `PostConfigurator` | command executor, status manager, `TerminateSetup` |
| command executor (`utilities/commandexecutor/`) | none | `Execute` | `SCXProcess` |
| scripts (`vmm/dev/scripts`) | `/etc`, `SCVMM_HOME`, the init links | `cfgpre`, `cfgnetadapter`, ..., `install -i/-r/-u` | the system |
| `SCXProcess` (`pal/.../scxprocess.cpp`) | child pid, pipes, watchdog | `Run`, `PerformIO`, `WaitForReturn`, `Kill` | kernel, threads |
| threads, conditions, thread pool, locks | queues, counters, the map of named locks | `Start`, `Wait`, `RequestTerminate`, `QueueTask`, `Shutdown`, `Lock`, ... | each other |
| logging (`util/log`) | back ends, severity filters, configuration version | `LogThisItem`, `SetSeverityThreshold`, ... | locks |
| persistence (`util/persist`) | one file per item | readers, writers | file system |

Hard to test here: power cuts and kills between any two steps and inside a write of
the status file; progress read from a file that an earlier life of the machine
wrote; an upgrade that replaces the agent while it runs; functions that "never
return" but do; exit statuses that change their value on the way; a watchdog that
races the child it watches; a thread pool that is shut down, restarted and fed at
the same time.

What makes each component correct:

* **agent as a whole**: the status file tells the host the truth (no success after a
  failed step, no silent failure); the agent stays installed until it has succeeded;
  cfgpre, which replaces host keys and reboots, is not repeated; the reboots end;
* **fetcher**: it finds the ISO when there is one, leaves nothing mounted behind, and
  removes only the driver that it inserted;
* **process runner**: the whole output, the real result, and a kill that hits the
  command and nobody else, and only when the command took too long;
* **thread pool**: counters that are exact, no task lost, doubled or overtaken, no
  worker asleep beside a task, a shutdown that ends and leaves nobody;
* **locks**: one lock for one name, although the object behind a name comes and goes;
  a lock that knows its owner; reference counts that are exact; no deadlock through the
  factory's own lock;
* **logging**: a cached threshold that hides nothing unless a change was under way; a
  least threshold below every filter; a file that is loaded in its last edition;
* **persistence** (planned): an item that is read back as it was written or not at all.

## 2. Modules

| Module | Models | Rests on |
|---|---|---|
| `StatusFile` | the status file as a value, and what `StatusMessage` does to it | |
| `FetchContract` | what one `ObtainMountPoint` may do to the machine, and where it may begin | `StatusFile` |
| `AgentLifecycle` | what the host is promised: the abstract specification | |
| `GuestAgent` | the life of the machine: agent, installer, reboots, power | `FetchContract`, `AgentLifecycle` |
| `MCGuestAgent` | the media and exit codes of the runs | `GuestAgent` |
| `IsoFetcher` | `ObtainMountPoint` call by call, with late device nodes | `FetchContract` |
| `MCIsoFetcher` | the status files and old mounts of the runs | `IsoFetcher` |
| `ProcessRun` | one `SCXProcess::Run`: caller, watchdog, child, kernel | |
| `TaskQueue` | what those who queue tasks are promised: an abstract specification | |
| `ThreadPool` | `SCXThreadPool` with its owner, producers and workers | `TaskQueue` |
| `ThreadLocks` | `SCXThreadLockHandle`, guards and the factory of named locks | |
| `SeverityFilter` | `SCXLogSeverityFilter` and the least threshold of a set of filters | |
| `Logging` | handles, mediator, configurator and the update thread | `SeverityFilter` |
| `MCLogging` | the texts and modules of the runs of `Logging` | `Logging` |
| `...Proofs`, `AgentRefinement`, `ThreadPoolRefinement` | the theorems, section 4 | |

**Composition.** `GuestAgent` takes a fetch as one step whose outcomes are
`FetchEnds` of `FetchContract`. `IsoFetcher` models the same call in some fifty steps
and ends only in those outcomes (`EndsAsGuestAgentAssumes`), provided it begins in a state
of `FetchMayBegin`; `GuestAgent` calls it in no other (`FetchBeginsAsScanAssumes`). Both
halves are checked and proved, so the coarse step hides no behaviour. Likewise
`GuestAgent` takes a script as one step with
a status out of `ExecuteReturns`: an exit status, or -1 when `SCXProcess::Run` throws;
`ProcessRun` shows that `Run` always comes to its end and tells how the child ended,
whatever the child does, once a timeout is set, as `CommandExecutor` always does.

**Refinement.** `AgentLifecycle` has the five things a host can tell: which elements
the status file has and whether it is readable, whether the next boot starts an agent,
whether a newer agent waits on the medium, and whether a process is alive. Its steps say
which report may follow which, when the agent may disappear, and that every process
comes to an end; devices, configurators, scripts, power and the installer are hidden.
`GuestAgent` instantiates it with a mapping of its own variables
(`ImplementsLifecycle`); the run `agent_safety` checks all of it with liveness, and
`AgentRefinement` proves the safety part.

`TaskQueue` has a queue, the tasks that run, were run or were dropped, and a flag that it
is closed; threads, the lock and the condition are hidden. Its steps say that a task begins
once, in its turn, never beside more others than the widest limit allows, and not after
`Shutdown` has begun. `ThreadPool` instantiates it (`ImplementsTaskQueue`); the run `pool`
checks it and `ThreadPoolRefinement` proves it.

### 2.1 GuestAgent

`pc` is the place in the source, `stage` the element of the array in
`CreateOSConfigurators`, `adapter` the loop variable of `NetworkConfigurator`.

| State | In the code |
|---|---|
| `file` | `statusmessage.xml`; kind *torn* is a file that `XElement::Load` throws on |
| `managed` | the `StatusMessage` of the process has been constructed, that is, `SetUp` has run |
| `home`, `registered` | `SCVMM_HOME` with binary and scripts; the init links |
| `media` | what the host attached: the fields are described at `MediaTypeOK` |
| `mounted`, `driver`, `present` | `/mnt/vmmcdrom/` in use; ata_piix inserted by the agent in this boot; some CD-ROM device has its node |
| `path` | `m_osConfigurationXMLPath`, by whose prefix `TerminateSetup` decides |
| `complete` | the local variable of `TerminateSetup` |
| `inst` | where `upgradeAgent` of the install script is; it runs in its own session |

The path of one process is `ObtainMountPoint` (or `ReadConfigFile` with mntpath=),
`LoadXML`, `InstallOrUpgradeAgent`, then `PreConfigurator` (`AddStarted`, `RunCfgpre`,
`RecordPreconfigured`, `Reboot`, or `SkipCfgpre` on the boot after), then `RunStage` or
`SkipStage` for each configurator, `RecordComplete`, and `TerminateSetup`
(`ReadSpecializationComplete`, `RemoveAgent`, `Unmount`, `Shutdown`). A negative status
goes to `RecordFailed` and through `TerminateSetup` to *abend*, the `exit(-1)`.
`StopService`, `RemoveOldAgent`, `InstallNewAgent` and `StartService` interleave with
it. `PowerCut` is enabled everywhere; what the disk then holds is `FilesAfterDeath`
(every prefix of what the current step does to the status file) and `Removals` (every
point of a removal). `Boot` starts the agent if its script is registered and its
binary is there.

**Writes that fail.** `StatusMessage::Write` tells nobody whether it succeeded: when the file
does not open it logs that at INFO and returns, and the stream into which it writes the text is
not looked at. `AddChildToRoot` returns true all the same, no caller looks at that either, and
`SetUp` goes on after a failed `mkdir`. So with `WritesFail` each of these steps ends in one of
three files: the new one, the old one, or a torn one (truncated, and not all of the text taken),
and the agent goes on with what it was about to do: a reboot, the next configurator, `exit(-1)`.
This may happen once or at every write. The properties about the record of something name the
loss, `lost`: the elements whose last write the file did not get. What is taken for granted is
that a status file that is there opens for reading.

A variable that no action reads is bookkeeping and says so at its declaration; it exists
because a property relates the present to the past (`stale`: the file said complete
when this process started; `cut`: a process died between the end of cfgpre and its
record; `lost`, see above).

### 2.2 IsoFetcher

One action per call that can fail (`MountISO`, `ReadDataFromMountPoint`,
`UnmountISO`, `InvokeInsmod`, `InvokeRmmod`) and per decision of the loop
(`StatDevice`, `NextDevice`, `SleepAndRetry`). `nodes` are the device files that exist;
`driven` are the drives served by ata_piix: their nodes come some time after the driver
(`DeviceAppears`, also never) and go with it. `mounts` is a stack because mount(8) may
stack one ISO over another on the same mount point. `targetMounted` starts with either
value: the constructor does not set it.

The call begins with any status file (`OldFiles`) after a boot, when nothing is mounted, and
without one in an agent that the installer has started, when the agent before it may have
left ISOs mounted (`OldMounts`) and its driver loaded. A node that is late may come between
any two steps, also the one of a drive the scan has already passed.

### 2.3 ProcessRun

`pc` follows the calling thread from the constructor, which waits for the GUID that
the child writes after `setpgid` (`ReadMagic`), through `PerformIO`, `CheckChild`
(`DoWaitPID` without blocking), `Drain`, and `WaitForReturn` to `JoinWatchdog`. The
watchdog reads `m_processTerminated` (`WatchdogDecides`) and kills in a later step, as
it holds no lock. The kernel may reuse the pid of a reaped child (`RecyclePid`). The
time of the watchdog is an `int` of `Word` values and an `unsigned` before that:
`Timeout` and `AsInt` are the two conversions.

### 2.4 ThreadPool

What a thread does while it holds `m_cond` is one step, as the lock is held throughout.
What the code does without the lock is a step of its own: the check of `m_isRunning`
in `QueueTask`, the assignments of `Start`, `SetThreadLimit` and the end of
`Shutdown`. A worker is *lock* (wants the lock), *wait*, *woken*, *work* or *relock*
(has run a task). Wake-ups may be spurious and a thread may fail to be created.
`Shutdown` walks `m_hThreads` and clears `m_tasks` without the lock, so a late `QueueTask`
races with it inside the two vectors; the model takes each access as atomic.

### 2.5 ThreadLocks

A thread gets a handle (`FindOrCreate` and `ReturnHandle` are `GetLock`, then a direct
construction, or a copy of another thread's), makes guards on it, one inside the other
if it wants, and destroys them in turn. Each access to shared memory is a step:
`HaveLock` is `ReadCount` and `ReadOwner`, `Lock` is `Acquire`, `CountUp`, `SetOwner`,
and `Unlock` the reverse. `RemoveIfLastOne` runs under the lock of the factory, the
decrement after it does not; `raced` remembers the objects two of whose handles were
in between at a time. An object that was deleted is taken for the next one, so a
stale pointer would be noticed.

### 2.6 Logging

`SeverityFilter` is the tree of thresholds of one backend, translated as a function from
modules to severities and a lookup along the prefixes of a module name. In `Logging` the
threads ask for the threshold of a handle (`AskMediator`, `PollConsumer` for each
backend, `StoreThreshold`, `StampVersion`) and set or clear severities (`BeginChange`,
one step per backend, `EndSet` and `KeepSeverity`, or `EndClear`), while the update
thread looks at the file (`IsConfigurationChanged`), deregisters the backends, reads the
file and registers new ones block by block. The lock of the configurator, that of the
mediator and the moments when a thread holds neither are in the model; a text is a
sequence of blocks, the last of which may be broken.

## 3. Runs

| Run | Configuration | Shows | States |
|---|---|---|---|
| `agent_safety` | every kind of medium, scripts that succeed, warn, fail or are killed, failing system calls and writes of the status file, 2 adapters, 1 power cut | six safety properties beside the types, one of them that every scan begins as `IsoFetcher` assumes; processes end; reboots end unless the file never gets the verdict of cfgpre; without a mishap the machine ends specialized; the abstract life cycle is implemented | 556,000 |
| `agent_critical` | plain ISO | **violated**: a critical failure does not stop the specialization | |
| `agent_no_text` | sound ISO | **violated**: `LoadXML` is called with no text | |
| `fetch` | 3 drives, anything in them, any driver, any status file, old mounts, all calls and the writes of the status file may fail | types, the contract, what is left mounted, missed or removed, and that the scan ends | 2,090,000 |
| `fetch_drives` | 2 drives, no call fails | **violated**: the right ISO is missed | |
| `process` | no timeout, 1 and 2 seconds, 3 chunks of output, background process, failing calls, signals | seven properties, among them that `Run` returns | 9,000 |
| `process_overflow` | a timeout above INT_MAX milliseconds | **violated**: the command is killed at once | |
| `pool` | 3 workers, 2 producers, 3 tasks, 4 calls of the owner, limits 1 and 3 | counts, the fate of every task, what `Shutdown` leaves, the abstract task queue, and that tasks and `Shutdown` come to their end | 36,000 |
| `pool_throttle` | 2 workers, limit lowered from 2 to 1 | **violated**: a task stays queued though a worker is idle | |
| `locks` | 2 threads, 1 name, 3 objects, 2 guards at once, 3 handles or guards in a life | exclusion, ownership, counts, what the factory keeps, and that every thread finishes | 345,000 |
| `logging` | 2 threads that share a handle, 2 edits, 2 calls, texts that are whole, broken, unreadable or gone | thresholds, the least threshold, and that the last edition is loaded | 839,000 |
| `log_stale` | 1 thread, one edit | **violated**: a handle keeps "suppress" under the new version | |

### Bounds, and why they are enough

* One power cut. It comes at every point of every process, also of one after an upgrade or
  after a write that failed. What a second cut would find on the disk, a failed write or a
  removal that was killed leaves as well, so the recovery from a torn file or a lost record is
  met by a cut, too. The proofs hold for every number.
* Two adapters: first, next and end of the loop. The proofs hold for every number.
* Exit statuses 0 and 1: a script that exits with -1 is seen with 255, and the agent
  only looks at the sign. `agent_critical`, which is about that, has all three.
* The media: a file that configures all or nothing; a missing device, a newer agent, a bad
  password and a text that is malformed or rejected one at a time, as each decides at a place
  of its own.
* The status files of `fetch`: none, torn, with and without `InsmodStatus`; the scan looks at
  no other element. Old mounts: none, one, or one over another.
* Three drives: one before, one between and one after a drive whose ISO or whose
  removal disturbs the scan.
* `Second = 3` and `Word = 16` stand for 1000 and 2^32. What matters is kept: several
  seconds fit into an `unsigned`, fewer into an `int`, and both limits are not multiples of a
  second.
* Three chunks through a pipe of two: a child that must wait for its reader.
* Three workers, so that one takes the signal meant for another while a third is busy;
  two producers that pass the check of `m_isRunning` together; four calls of the owner, which
  are Start, SetThreadLimit, Shutdown and Start again.

* Two threads on one name: every race in `ThreadLocks` is between two handles or two
  owners. Three objects: the one in the map, one of the same name that the factory does
  not know, and one whose successor is made. Two guards: recursion and its refusal.
* `Logging` starts without a file, and every edition has a modification time of its own. The
  code compares times in microseconds, as far as the file system keeps them; some keep
  whole seconds. An edition that has the time of the one that was loaded is never noticed,
  and no property here speaks of it. Two edits: one is
  being read when the next is written. The texts: one with a broken last block after a
  good one, one that cannot be decoded, one with both kinds of backend, and none. The
  exception in `ConfigConverges` (section 5) needs four edits, beyond this bound;
  `NoEditionIsMissed` covers any number.

### Fairness

* `GuestAgent`: `WF(AgentStep)`: one thread that never waits but for scripts, and every
  script has a timeout (`RunReturns` of `ProcessRun`). `WF(InstallerStep)`: a shell
  script; `WF(GoDown)`: init finishes a shutdown; `WF(Boot)`: the host starts the
  machine again. Power cuts are not fair.
* `IsoFetcher`: the one thread goes on. Nodes need never appear.
* `ProcessRun`: caller and watchdog are scheduled, and a forked child gets as far as
  `setpgid`, which precedes anything the command can do. The command owes nothing.
* `ThreadPool`: a call that has begun goes on, a worker that wants the lock gets it,
  tasks end. Nobody needs to call anything, and no spurious wake-up is relied on.
* `ThreadLocks`: a thread that has a handle goes on, so no critical section lasts for
  ever; weak fairness is enough as nobody can pass a waiting thread for ever within
  the bound `MaxOps`.
* `Logging`: the update thread wakes from its sleep, and a call that has begun goes on.

`CHECK_DEADLOCK FALSE` stands where the system really ends: a machine halted or left
to an administrator, a call that has returned, a pool nobody calls any more.

## 4. Proofs

Every theorem holds for all values of the constants that satisfy the named assumptions
of its module (TLC evaluates these in the runs). Each module of proofs has one inductive
invariant `IInv`, proved in `Invariance`, and the properties follow from it.

| Module | Theorem | Says |
|---|---|---|
| `GuestAgentProofs` | `TypeCorrect` | types; in particular the adapter index stays in its array |
| | `CompletionIsSound` | no process with a failed step records completion |
| | `FailuresAreRecorded` | `exit(-1)` only with the failure on record, or after a write that the file did not get |
| | `AgentStaysRecoverable` | an agent that did not complete is started by the next boot |
| | `CfgpreRunsOnce` | cfgpre is repeated only if the process died before its record, or the file did not get or keep it |
| | `RemovalIsJustified` | the agent is removed only after completion or by an upgrade |
| | `FetchBeginsWell` | every scan begins in a state that `IsoFetcher` is made for |
| | `ProcessIsBounded` | a process has at most 7 steps for each adapter, and 68 |
| | `RebootsAreBounded` | a reboot needs a cfgpre that was due, and uses it up if the file gets the verdict |
| | `RebootLoopNeedsLostRecord` | a machine that reboots for ever has a file that never gets the verdict, if shutdowns end |
| | `OnlyMishapsStopIt` | without a mishap the specialization is done or somebody goes on with it |
| | `SpecializationEnds` | and it comes to its end, if processes end and the machine comes up |
| `AgentRefinement` | `KeepsItsPromises` | every behaviour of the agent satisfies the safety part of `AgentLifecycle` |
| `IsoFetcherProofs` | `ScanKeepsContract` | the scan ends only as the one step of `GuestAgent` does |
| | `ThrowUnmounts` | a scan that throws has unmounted what it mounted, unless a call failed |
| | `OnlyRemovedDrivesAreMissed` | the right ISO is missed only behind the removed driver, unless a call failed |
| | `MultipleDrivesWithoutRecord` | without `InsmodStatus` in the file several drives are supported |
| | `SystemKeepsItsDriver` | a driver of the system is removed only if an old status file asks for it |
| | `ScanIsBounded` | the scan has at most 15 steps for each drive, and 6 |
| `ProcessRunProofs` | `OutputIsComplete`, `ResultIsTrue` | the whole output, and how the child really ended |
| | `KillArrives`, `ReturnIsQuiet` | a kill reaches the child; none comes after a normal return |
| | `WatchdogIsPatient` | no kill before its time, if no timeout wraps |
| | `RunIsBounded` | the watchdog's steps are bounded, and after its end the caller's, which waits for nobody alive |
| `ThreadPoolProofs` | `CountsStayExact` | `m_threadCount` and `m_threadBusyCount` count what they say |
| | `NoTaskIsLost` | an accepted task is in one place, and in one only |
| | `ShutdownIsThorough` | what `Shutdown` leaves |
| | `TasksAreExpected` | nobody sleeps beside a task without a worker on its way, unless the limit was lowered |
| | `ShutdownWakesAll` | nobody sleeps once `m_isTerminating` is set |
| `ThreadPoolRefinement` | `RunsTasksInOrder` | every behaviour of the pool is one of `TaskQueue` |
| `ThreadLocksProofs` | `NamedLocksExclude` | two threads that locked by one name are never both inside |
| | `OwnerIsFound` | `HaveLock` answers rightly although it reads without the lock |
| | `HandlesAreCounted` | `m_ref` is the number of handles; the last one deletes |
| | `LeaksAreRaces` | a name is left behind only by two handles destroyed at a time |
| | `NoDeadlock` | nobody waits for himself through the factory's lock and named ones |
| `LoggingProofs` | `NothingIsLost` | a threshold asked for in peace hides nothing a backend would write |
| | `MinimumIsSound` | the least active threshold is below every filter |
| | `NoEditionIsMissed` | when the times agree, the file is loaded in its last edition |
| | `NoDeadlock` | nobody waits for himself through the locks of configurator and mediator |

All modules but the two of refinements also have `TypeCorrect` (`Spec => []TypeOK`).

**The agent.** None of the properties is inductive. `CompleteMeansNoFailedStep` says
nothing about control, so a state with `failed` at the label *complete* satisfies it and
its successor does not. `IInv` adds what is needed:

* `ControlInv` ties `pc` to `stage`, `power` and the file: the post-configurator is the
  only stage that reaches *complete*, and *remove* is reached only with completion read;
* `InstallerInv`: from the kill of the agent to its new start no agent runs;
* `FailedInv`: after a failed step control is on the way to `exit(-1)`, and the local
  `complete` of `TerminateSetup` is FALSE when it matters;
* `RecordedInv`: from `RecordFailed` to *abend* the record stays readable, or it is known
  that the file did not get it, although an installer may remove the file in between;
* `CompleteInv`: only the post-configurator makes a file complete, so completion elsewhere is
  `stale`;
* `PreparedInv`: after cfgpre has succeeded its record is found, was lost, or the process
  is at *prerecord*, was cut there, or has removed its registration;
* `AgentRecoverable` is its own conjunct: `registered` and `home` change together with
  `complete` and `inst`.

The lemmas first state what the operations on the status file preserve (`AddChildFacts`,
`SetUpFacts`, `Follows`: nothing is lost but by tearing), then what a death or a fetch
may leave (`FilesAfterDeathFacts`, `DieFacts`, `FetchFacts`); then comes one lemma per
action. `AgentRefinement` adds `OrderInv` (a process that reports has reported its start;
cfgpre has no verdict when it gets one; an unreadable file has no elements) and maps each
action to a step of `AgentLifecycle` or to none. `DeviceInv` is the agent's half of the
contract with the scan: what is mounted has a device, the driver of the agent has one up to
the end of a process that found the specialization, and the installer removes the status
file before it starts another agent in the same boot.

`SpendsReboots` says what a step may do to the reboots to come. cfgpre is due while no verdict of it
is found on a machine that still starts an agent (`CfgpreDue`), and a reboot follows only a cfgpre that
was due. When it comes the verdict is found or is known not to be in the file (`BootInv`). In the
first case cfgpre is due no more, and as long as the file is not torn only the upgrade makes it due
again; a torn file, or a lost verdict that no later write brings in, is made good by the upgrade
alone (`MayRepair`), and there is one. These are facts about six truth values, from which
`RebootLoopNeedsLostRecord` follows by temporal logic alone: a machine that goes on rebooting has
lost the verdict for good. It states `RebootLoopOnlyWhenUnrecorded` under the hypothesis that the
machine does not stay in one shutdown for ever, which is what `WF_vars(GoDown)` gives.

`SmoothInv` is the way of an agent that meets no mishap: home, registered, never on an error path,
and at the end of `TerminateSetup` complete and removed. A write that fails is a mishap when the
verdict of cfgpre or the completion is lost by it: the first may reboot the machine again and again,
the second ends in `exit(-1)`. A lost start or driver record is none. `SmoothInv` holds
up to the first `Mishap`, which `Spec /\ []~Mishap => []ToGoOn` says because a behaviour of `Spec`
may stop anywhere. Then a machine leaves the power-on state only for a reboot or specialized
(`SmoothPower`), a reboot comes once (`RebootsAreBounded`; no mishap means no upgrade and no lost
verdict), and `SpecializationEnds` follows by temporal logic. It states `EventuallySpecialized` under
two hypotheses in the place of fairness: no process runs for ever, and the machine comes up again
and again. The fairness of the agent with `ProcessIsBounded` gives the first, that of `GoDown`
and `Boot` the second; both hold of every behaviour of `FairSpec` in the instance of `agent_safety`.

**The fetcher.** `StartInv` remembers what the call began with; `ControlInv` and `FileInv` say
that a call which found a device inserts no driver and that the file changes only by the
constructor of `StatusMessage` and the record of insmod; `DriverInv` says whose driver is loaded,
`NodeInv` that nodes go only with it, `MountInv` that unless a call failed there is
never more than one ISO over those the call began with, and `SeenInv` follows the drives
that a round has passed: each is there and was not the right one, or has gone with the
driver. At the three ends of the call these are the outcomes of `FetchEnds`.
`ScanIsBounded` gives every state of the scan a fuel that each step of the agent uses up,
whatever fails and whenever nodes come and go.

**The process runner.** `Numbers` says that what was collected and what is in the pipe is
what was written; `Control` relates the places of caller, watchdog and child: past *wait*
nobody holds the pipe and it is empty, and a normal return leaves no watchdog. The patience
of the watchdog needs `NoWrap`, that every accepted number of seconds is below half a word
in milliseconds. That is exactly what the code does not ensure: without it the run
`process_overflow` refutes the same property. `RunIsBounded` has two measures: `Countdown` falls
with each step of the watchdog, and once it has ended, `StepsLeft`, at most eight, falls with each
step of the caller; `EndsInv` says that by then the child was killed or reaped, so that
`waitpid` waits for a child that is dead.

**The thread pool.** `QueueInv`: the queue holds the tasks accepted last, in a row.
`PlaceInv`: every other task is with one worker, done, or dropped. `LeftInv`: after
`Shutdown` no worker is alive unless a late `QueueTask` started it. The counters are their
own strengthening. Workers and producers are any finite sets. `WakeInv` says who comes for a task:
an open pool that has tasks has a worker (`StaffInv`), and when somebody sleeps there are as
many workers looking for a task as there are tasks (`ExpectInv`). It breaks in one
place only, when the limit is lowered, and that is the disagreement of `pool_throttle`. The
refinement needs `CloseInv`: the pool was never wider than one of its limits, and at the end
of `Shutdown` nobody runs a task.

**The locks.** `HandleInv`: a thread at a label has an object that is there, and `m_ref` is
the number of pairs of a thread and a guard plus the entries of the map. It is finite by
induction and not by assumption: threads may be infinitely many. `OwnerInv` gives the four fields of
an object as a function of where the holder is, through the steps in which they disagree:
the mutex is taken before the count is raised and the count before the thread is
written. `CheckInv` keeps a thread that has a lock from asking for it again unless it may.
`OrphanInv`: an object that the factory has forgotten has one handle, on its way out, without
a guard; so two threads inside by one name have one object, and exclusion follows. `RaceInv`:
while the handles of an object go away one at a time there is always a second one, so that
`refs = 2` in `RemoveIfLastOne` means what the code takes it for. `NoDeadlock` follows from these
and from who holds the factory (`FactoryInv`): the holder of a named lock may wait for the
factory, in a destructor, but the holder of the factory waits for nobody. A thread of
the model has one handle at a time, so locks that a thread nests by several names, in an
order of the caller's own making, are not covered.

**Logging.** `LockInv` and `ConsumerInv` say who holds which lock and which backends the
mediator knows at each place of a reload; `VersionInv` that nobody remembers a version to
come; `HandleInv`, `PollInv`, `KeepInv` and `SetInv` follow a threshold from the backends
into the handle: it passes all that the backends asked so far would write, unless a
change came in between. They rest on lemmas about `SeverityFilter`: what setting and clearing
a severity does to a lookup along the prefixes of a module's name. `LoadInv` is what reading the
time before the lines buys: a time that equals that of the last edition belongs to lines of
that edition. `NoDeadlock` follows from `LockInv`: a reload takes the mediator's lock
inside the configurator's, and a thread that asks the mediator never holds both.

**Only model-checked**: liveness, as the prover has no rule for fairness here and no
ENABLED: `FetchEventuallyEnds`, `RunReturns`, `TasksAreRun`, `ShutdownEnds`, `ThreadsFinish`,
`ConfigConverges` and the liveness of `AgentLifecycle`; `RebootLoopOnlyWhenUnrecorded` and
`EventuallySpecialized` are proved up to their use of fairness. What most of the others rest
on is proved: a measure that each step uses up (`ProcessIsBounded`, `ScanIsBounded`,
`RunIsBounded`), nobody asleep or waiting for ever (`TasksAreExpected`, `ShutdownWakesAll`, the
two `NoDeadlock`), nothing overlooked (`NoEditionIsMissed`). Every invariant that a passing
run checks is also proved, and every action property; `VictimOnlyWhenOverdue` with the
hypothesis of `WatchdogIsPatient`.

## 5. Where the code and its words differ

1. `hostdomainconfigurator.cpp:106` and its siblings take a negative status for a
   failure. A script's `exit -1` arrives as 255, so the specialization goes on and is
   recorded as complete (`agent_critical`).
2. `isofetcher.cpp:121` returns early when insmod fails, with the found flag never
   assigned; main may then load an empty text, against the assertion in `LoadXML`
   (`agent_no_text`).
3. `isofetcher.cpp:159`: unmounting a wrong ISO removes the driver of the drives still to
   be looked at (`fetch_drives`).
4. `scxprocess.cpp:266`: an accepted timeout above INT_MAX milliseconds is negative as an
   `int` and kills the command at once (`process_overflow`).
5. `scxthreadpool.cpp:146`: after the limit was lowered, a worker takes the signal for a
   task and ends because of the limit; the task waits while a worker is idle
   (`pool_throttle`).
6. `scxloghandle.cpp:78`: a handle asks for its threshold and then for the version; while
   the file is reloaded no backend is registered, so it is told "suppress", and stamps that
   with the version of the new configuration (`log_stale`).

Visible in the models without a run of their own:

* `preconfigurator.cpp:106` logs "Aborting" when no shutdown could be executed, and returns
  as if nothing had happened; the other configurators run without the reboot;
* `m_isTerminating` is never reset, so a pool that is shut down and started again accepts
  tasks and runs none (`orphans`);
* a `QueueTask` past its check of `m_isRunning` can start a worker after `Shutdown` joined
  the others; a thread that cannot be created stays counted (`leaked`);
* power lost between the end of cfgpre and its record repeats cfgpre (`cut`);
* `StatusMessage::Write` fails in silence (`statusmessage.cpp:221`): a disk that refuses every write
  makes the agent run cfgpre and reboot on every boot, one that refuses the last write turns a
  finished specialization into `exit(-1)`, and a failure may go unrecorded. A torn status file is
  replaced by an upgrade and by nothing else, and until then has the same effect
  (`RebootLoopOnlyWhenUnrecorded`, `FailureIsRecorded`, `Mishap`);
* `SpecializationComplete` of an earlier run that is still in the file makes `TerminateSetup` remove
  the agent after a failure (`isofetcher.cpp:493`), and `InsmodStatus` of an earlier boot makes it
  remove a driver that the system loaded (`isofetcher.cpp:250`); the properties name both (`stale`,
  and the record in `SystemDriverKept`) and do not forbid them;
* two handles of a name destroyed at a time leave the name in the factory (`raced`);
* a configuration file whose last block is broken adds the default backend to those read
  before, and the least threshold becomes that of the default (the exception in
  `MinIsLowerBound`);
* a configuration file that is missing when its time is taken, there when its lines are read,
  and gone again before the next comparison stays loaded: "missing" equals "missing", although
  the file that was read is not the one that is there
  (`scxlogfileconfigurator.cpp:281`; the exception in `ConfigConverges` and `NoEditionIsMissed`);
* a configuration file that cannot be decoded ends the update thread for good (*dead* in
  `ConfigConverges`).

## 6. Not modelled

* `scxsystemlib`, a third of the code: it is not linked into the agent
  (`vmm/dev/src/main/GNUmakefile:29-37`), and it enumerates disks, processes and network
  interfaces for another product.
* XML, Unicode, Base64, string, time and stream conversions: pure functions, most of
  whose lines are tables and formatting. Their results (valid, malformed, rejected;
  decoded or not) are inputs.
* The wrappers of files, directories and streams: one system call each.
* A non-blocking `waitpid` that fails: it cannot for a child of the caller.
* The throw of `SCXProcess::Kill` for an errno other than ESRCH (`scxprocess.cpp:779`): the agent
  runs as root, and `killpg` with a valid signal has no other failure for it.
* A status file that is there and does not open for reading.
* What the scripts write into `/etc`, and the text of command lines and messages.
* Product constants, the log policy, the argument manager: read once, never changed.
* The backends' files: what they write and how they are rotated. `HandleLogRotate`
  (`scxlogfilebackend.cpp:137`) closes a stream that may not have been opened.
* `SCXThreadLockFactory::GetInstance`, which tests and sets a pointer without a lock: the
  agent makes its first lock before its first thread.
* Windows branches.
* The object that a detached watchdog may still point to after `Run` threw: using it is
  undefined in the code; the model follows the flag that normally prevents it.

The models therefore cover a small share of all lines and a large share of those in
which the agent keeps state: what is left has no order of steps to get wrong.

## 7. Plan

1. `InstallScript`: `installAgent`, `removeAgent` and `upgradeAgent` line by line, with
   the agent killed beside them, shown to implement the four installer steps and `Removals`
   of `GuestAgent`.
2. `TimedWait` and the life of an `SCXThread`: terminate requests against timed waits.
3. `Persist`: writer and reader of one item, with a crash in the middle.
4. The XML reader as a machine over tokens: that no proper prefix of a saved status file is
   accepted, which `StatusFile` takes for granted.
5. `NamedMutex`: what a lock of the factory promises the threads that ask for it by name, with
   the map and the handles of `ThreadLocks` refining it.
