------------------------------ MODULE IsoFetcher ------------------------------
(***************************************************************************)
(* One call of ISOFetcher::ObtainMountPoint, step by step: look for a      *)
(* CD-ROM device, insert the ata_piix driver when there is none, then      *)
(* mount the devices in turn until one holds the specialization file.      *)
(*                                                                         *)
(* GuestAgent takes this call as one step with the outcomes FetchEnds;     *)
(* EndsAsGuestAgentAssumes is the link between the two.                    *)
(***************************************************************************)
EXTENDS Integers, Sequences, FetchContract

CONSTANTS
  N,         \* the number of possibleDevices
  OldFiles,  \* the status files the call may find
  OldMounts, \* what may be mounted at /mnt/vmmcdrom/ when it begins, see mounts
  CallsFail  \* TRUE iff mount, umount, insmod, rmmod and reading may fail

ASSUME DevicesAssumption == N \in Nat \ {0}
ASSUME CallsAssumption == CallsFail \in BOOLEAN

Devices == 1 .. N

ASSUME OldFilesAssumption == OldFiles \subseteq StatusFiles
ASSUME OldMountsAssumption == OldMounts \subseteq Seq(Devices)

\* Without a device the agent inserts the driver and scans three times.
RetriesAfterInsmod == 3

VARIABLES
  \* ---- the machine ----
  medium,   \* what is in each drive: the right ISO, another one, or nothing
  driven,   \* the drives that ata_piix serves
  nodes,    \* the drives that have their device node
  driver,   \* who loaded ata_piix: "none", "agent", "system"
  mounts,   \* the drives mounted at /mnt/vmmcdrom/, the visible one last
  file,     \* the status file
  managed,  \* this process has constructed its StatusMessage
  \* ---- the call ----
  pc,
  i,              \* the loop variable over possibleDevices
  retryCount,
  numRetries,
  targetMounted,  \* m_targetMounted, uninitialized (either value) at first
  insModPerformed,
  \* ---- bookkeeping, read by no action ----
  start,    \* what FetchMayBegin says of, when the call began
  seen,     \* the drives that had their node when a round of the scan began
  leftover, \* the mounts when the call began
  failed,   \* some call has failed that CallsFail allows to fail
  removed   \* the driver has been removed during the scan

machine == <<medium, driven>>
status  == <<file, managed>>
loop    == <<i, retryCount, numRetries>>
ghosts  == <<start, seen, leftover>>
vars    == <<medium, driven, nodes, driver, mounts, file, managed, pc, i, retryCount,
             numRetries, targetMounted, insModPerformed, start, seen, leftover, failed,
             removed>>

Ended == {"found", "threw", "indeterminate"}

-------------------------------------------------------------------------------
\* The call begins after a boot (nothing mounted, whatever an earlier boot left in
\* the file), or in an agent that the installer just started (no file; ISOs and the
\* driver may be as the agent before left them).  Only the drives of a loaded
\* driver may be late with their nodes.
Init ==
  /\ medium \in [Devices -> {"spec", "other", "empty"}]
  /\ driven \in SUBSET Devices
  /\ nodes \in SUBSET Devices
  /\ driver \in {"none", "agent", "system"}
  /\ Devices \ driven \subseteq nodes
  /\ driver = "none" => nodes \cap driven = {}
  /\ mounts \in OldMounts
  /\ \A k \in DOMAIN mounts : mounts[k] \in nodes /\ medium[mounts[k]] # "empty"
  /\ file \in OldFiles
  /\ managed = FALSE
  /\ FetchMayBegin(file, mounts # <<>>, driver = "agent", nodes # {})
  /\ pc = "probe"
  /\ i = 1
  /\ retryCount = 0
  /\ numRetries = 1
  /\ targetMounted \in BOOLEAN
  /\ insModPerformed = FALSE
  /\ start = [file |-> file, mounted |-> mounts # <<>>, driver |-> driver = "agent",
              present |-> nodes # {}]
  /\ seen = {}
  /\ leftover = mounts
  /\ failed = FALSE
  /\ removed = FALSE

-------------------------------------------------------------------------------
\* ObtainMountPoint and InvokeInsmod.

ProbeDevices ==
  /\ pc = "probe"
  /\ pc' = IF nodes # {} THEN "scan" ELSE "insmod"
  /\ UNCHANGED <<machine, nodes, driver, mounts, status, loop, targetMounted,
                 insModPerformed, ghosts, failed, removed>>

\* insmod fails when the module is there already; then ObtainMountPoint returns.
InvokeInsmod ==
  /\ pc = "insmod"
  /\ \/ /\ driver = "none"
        /\ driver' = "agent"
        /\ pc' = "record"
        /\ UNCHANGED failed
     \/ /\ CallsFail \/ driver # "none"
        /\ pc' = "indeterminate"
        /\ failed' = TRUE
        /\ UNCHANGED driver
  /\ UNCHANGED <<machine, nodes, mounts, status, loop, targetMounted,
                 insModPerformed, ghosts, removed>>

\* Mutant: the InsmodStatus element is not added.
InsmodUnrecorded ==
  /\ pc = "record"
  /\ numRetries' = RetriesAfterInsmod
  /\ pc' = "scan"
  /\ UNCHANGED <<machine, nodes, driver, mounts, status, i, retryCount, targetMounted,
                 insModPerformed, ghosts, failed, removed>>

RecordInsmod ==
  /\ pc = "record"
  /\ \E f \in Instance(file, managed) : file' \in AddChildToRoot(f, "Insmod")
  /\ managed' = TRUE
  /\ numRetries' = RetriesAfterInsmod
  /\ pc' = "scan"
  /\ UNCHANGED <<machine, nodes, driver, mounts, i, retryCount, targetMounted,
                 insModPerformed, ghosts, failed, removed>>

\* udev creates the nodes of the drives some time after the driver was loaded.
DeviceAppears(d) ==
  /\ driver # "none"
  /\ d \in driven \ nodes
  /\ pc \notin Ended
  /\ nodes' = nodes \cup {d}
  /\ UNCHANGED <<machine, driver, mounts, status, pc, loop, targetMounted,
                 insModPerformed, ghosts, failed, removed>>

\* Mutant: the loop over the devices misses the last one.
StopBeforeLast == IF i < N - 1 THEN i' = i + 1 /\ pc' = "scan"
                               ELSE i' = 1 /\ pc' = "again"

\* Mutant: the loop runs one device too far.
OneDeviceTooMany == IF i <= N THEN i' = i + 1 /\ pc' = "scan"
                              ELSE i' = 1 /\ pc' = "again"

\* The end of an iteration of the loop over possibleDevices.
NextDevice == IF i < N THEN i' = i + 1 /\ pc' = "scan"
                       ELSE i' = 1 /\ pc' = "again"

\* stat of the next device: mount it if it is there.
StatDevice ==
  /\ pc = "scan"
  /\ IF i \in nodes THEN pc' = "mount" /\ UNCHANGED i ELSE NextDevice
  /\ seen' = IF i = 1 THEN seen \cup nodes ELSE seen
  /\ UNCHANGED <<machine, nodes, driver, mounts, status, retryCount, numRetries,
                 targetMounted, insModPerformed, start, leftover, failed, removed>>

\* Mutant: the scan goes on until the file is found.
RetryForEver ==
  /\ pc = "again"
  /\ pc' = "scan"
  /\ UNCHANGED <<machine, nodes, driver, mounts, status, loop, targetMounted,
                 insModPerformed, ghosts, failed, removed>>

\* sleep(30), then the loop condition.
SleepAndRetry ==
  /\ pc = "again"
  /\ retryCount' = retryCount + 1
  /\ pc' = IF retryCount' < numRetries THEN "scan" ELSE "threw"
  /\ UNCHANGED <<machine, nodes, driver, mounts, status, i, numRetries,
                 targetMounted, insModPerformed, ghosts, failed, removed>>

-------------------------------------------------------------------------------
\* MountISO, ReadDataFromMountPoint and UnmountISO of device i.

Visible == mounts[Len(mounts)]

\* Mutant: m_targetMounted is not set by a successful mount.
MountUnnoticed ==
  /\ pc = "mount"
  /\ mounts' = IF mounts # <<>> /\ Visible = i THEN mounts ELSE Append(mounts, i)
  /\ targetMounted' = FALSE
  /\ pc' = "read"
  /\ UNCHANGED <<machine, nodes, driver, status, loop, insModPerformed, ghosts, failed,
                 removed>>

\* mount: EBUSY when this drive is what is mounted there, and counts as a success.
\* When the mount point cannot be created, the exception ends the process.
MountISO ==
  /\ pc = "mount"
  /\ LET busy == mounts # <<>> /\ Visible = i
     IN  \/ /\ ~busy /\ medium[i] # "empty"
            /\ mounts' = Append(mounts, i)
            /\ targetMounted' = TRUE
            /\ pc' = "read"
            /\ UNCHANGED <<i, failed>>
         \/ /\ busy
            /\ targetMounted' = FALSE
            /\ pc' = "read"
            /\ UNCHANGED <<mounts, i, failed>>
         \/ /\ ~busy /\ (medium[i] # "empty" => CallsFail)
            /\ targetMounted' = FALSE
            /\ NextDevice
            /\ failed' = (failed \/ medium[i] # "empty")
            /\ UNCHANGED mounts
         \/ /\ CallsFail
            /\ pc' = "threw"
            /\ failed' = TRUE
            /\ UNCHANGED <<mounts, targetMounted, i>>
  /\ UNCHANGED <<machine, nodes, driver, status, retryCount, numRetries,
                 insModPerformed, ghosts, removed>>

\* Mutant: m_foundOSSpecializationFile is not reset before the directory is searched.
StaleFlag ==
  /\ pc = "read"
  /\ \/ pc' = "found"
     \/ pc' = IF targetMounted THEN "umount" ELSE "again"
  /\ UNCHANGED <<machine, nodes, driver, mounts, status, loop, targetMounted,
                 insModPerformed, ghosts, failed, removed>>

\* Looks for linuxosconfiguration.xml in what is visible at the mount point and
\* reads it.  A failure there is thrown, and main ends the process.
ReadDataFromMountPoint ==
  /\ pc = "read"
  /\ \/ /\ medium[Visible] = "spec"
        /\ pc' = "found"
        /\ UNCHANGED <<i, failed>>
     \/ /\ medium[Visible] = "spec" => CallsFail
        /\ failed' = (failed \/ medium[Visible] = "spec")
        /\ IF targetMounted THEN pc' = "umount" /\ UNCHANGED i ELSE NextDevice
     \/ /\ CallsFail
        /\ failed' = TRUE
        /\ pc' = "threw"
        /\ UNCHANGED i
  /\ UNCHANGED <<machine, nodes, driver, mounts, status, retryCount, numRetries,
                 targetMounted, insModPerformed, ghosts, removed>>

\* Mutant: the driver is removed whether or not the status file asks for it.
UnmountAndRmmod ==
  /\ pc = "umount"
  /\ file' \in Instance(file, managed)
  /\ managed' = TRUE
  /\ insModPerformed' = TRUE
  /\ mounts' = SubSeq(mounts, 1, Len(mounts) - 1)
  /\ pc' = "rmmod"
  /\ UNCHANGED <<machine, nodes, driver, loop, targetMounted, ghosts, failed, removed>>

\* UnmountISO asks the status file whether there is a driver to remove, and returns
\* when umount fails.
UnmountISO ==
  /\ pc = "umount"
  /\ file' \in Instance(file, managed)
  /\ managed' = TRUE
  /\ insModPerformed' = ReadChildOfRoot(file', "Insmod")
  /\ \/ /\ mounts' = SubSeq(mounts, 1, Len(mounts) - 1)
        /\ IF insModPerformed' THEN pc' = "rmmod" /\ UNCHANGED i ELSE NextDevice
        /\ UNCHANGED failed
     \/ /\ CallsFail
        /\ failed' = TRUE
        /\ NextDevice
        /\ UNCHANGED mounts
  /\ UNCHANGED <<machine, nodes, driver, retryCount, numRetries, targetMounted,
                 ghosts, removed>>

\* rmmod fails on a driver that is not loaded or is in use; with the driver go the
\* nodes of its drives.  InvokeRmmod's result is ignored.
InvokeRmmod ==
  /\ pc = "rmmod"
  /\ LET inUse == \E k \in DOMAIN mounts : mounts[k] \in driven
     IN  \/ /\ driver # "none" /\ ~inUse
            /\ driver' = "none"
            /\ nodes' = nodes \ driven
            /\ removed' = TRUE
         \/ /\ CallsFail \/ driver = "none" \/ inUse
            /\ UNCHANGED <<driver, nodes, removed>>
  /\ NextDevice
  /\ UNCHANGED <<machine, mounts, status, retryCount, numRetries, targetMounted,
                 insModPerformed, ghosts, failed>>

-------------------------------------------------------------------------------
AgentStep ==
  \/ ProbeDevices \/ InvokeInsmod \/ RecordInsmod \/ StatDevice \/ SleepAndRetry
  \/ MountISO \/ ReadDataFromMountPoint \/ UnmountISO \/ InvokeRmmod

Next == AgentStep \/ \E d \in Devices : DeviceAppears(d)

Spec == Init /\ [][Next]_vars

\* ObtainMountPoint runs in the agent's only thread and waits for no one; the nodes
\* of the drives may appear late or never.
FairSpec == Spec /\ WF_vars(AgentStep)

-------------------------------------------------------------------------------
\* Properties.

\* Types; the loop stays within possibleDevices and the retries within their number.
TypeOK ==
  /\ medium \in [Devices -> {"spec", "other", "empty"}]
  /\ driven \in SUBSET Devices
  /\ nodes \in SUBSET Devices
  /\ driver \in {"none", "agent", "system"}
  /\ mounts \in Seq(Devices)
  /\ file \in StatusFiles
  /\ managed \in BOOLEAN
  /\ pc \in {"probe", "insmod", "record", "scan", "again", "mount", "read", "umount",
             "rmmod"} \cup Ended
  /\ i \in Devices
  /\ retryCount \in 0 .. numRetries
  /\ numRetries \in {1, RetriesAfterInsmod}
  /\ targetMounted \in BOOLEAN
  /\ insModPerformed \in BOOLEAN

\* Every way the call can end is one that GuestAgent's fetch step allows: the scan
\* refines its contract.  When the file was found, what is visible at the mount point
\* is the ISO it was read from: install, upgrade and removal take their script from
\* there.
EndsAsGuestAgentAssumes ==
  pc \in Ended =>
    /\ [file |-> file, managed |-> managed, mounted |-> mounts # <<>>,
        driver |-> driver = "agent", present |-> nodes # {}, result |-> pc]
         \in FetchEnds(start.file, start.mounted, start.driver, start.present)
    /\ pc = "found" => medium[Visible] = "spec"

\* A call that throws leaves no ISO mounted that it mounted itself, unless something
\* failed that m_targetMounted knows nothing of.
NothingLeftMounted ==
  pc = "threw" /\ ~failed => mounts = leftover

\* A drive with the right ISO that was there when a round of the scan began is missed
\* only if a call failed, or its driver was removed in the middle of the scan.
MissedOnlyAfterRemoval ==
  pc = "threw" /\ ~failed
    => \A d \in seen : medium[d] = "spec" => removed /\ d \in driven

\* A driver that the agent did not insert in this boot is removed only if the status
\* file said, before the call, that an earlier boot inserted one.
SystemDriverKept ==
  [][driver = "system" /\ driver' = "none"
       => ReadChildOfRoot(start.file, "Insmod")]_vars

\* The call comes to an end, whether or not any drive ever appears.
FetchEventuallyEnds == <>(pc \in Ended)

-------------------------------------------------------------------------------
\* What the source says and the code does not do.

\* isofetcher.cpp:75 "Support multiple cdrom drives": when no call fails, no drive
\* with the right ISO that was there when a round of the scan began is missed.
MultipleDrivesSupported ==
  pc = "threw" /\ ~failed => \A d \in seen : medium[d] # "spec"
===============================================================================
