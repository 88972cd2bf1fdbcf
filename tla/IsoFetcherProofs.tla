--------------------------- MODULE IsoFetcherProofs ---------------------------
(***************************************************************************)
(* Machine-checked proofs about IsoFetcher, for any number of drives, any  *)
(* medium in each, and any status file and mounts that the call finds: the *)
(* inductive invariant IInv, the contract with GuestAgent, and what the    *)
(* scan may miss or remove.                                                *)
(***************************************************************************)
EXTENDS IsoFetcher, TLAPS

\* Before the first round of the scan, and in it.
Before   == {"probe", "insmod", "record"}
Scanning == {"scan", "again", "mount", "read", "umount", "rmmod"}

\* numRetries tells whether the agent has inserted the driver and recorded it.
Inserted == numRetries = RetriesAfterInsmod

\* What the call can make of the status file: it is set up by the first to ask for the
\* StatusMessage, which is the record of the driver, if there is one.
Recorded(f) == UNION {AddChildToRoot(g, "Insmod") : g \in SetUp(f)}
FilesNow ==
  IF Inserted THEN Recorded(start.file)
  ELSE IF managed THEN SetUp(start.file) ELSE {start.file}

\* The file asks for rmmod.
Asked == ReadChildOfRoot(file, "Insmod")

\* What is known of the start of the call, and types beside TypeOK.
StartInv ==
  /\ start \in [file : StatusFiles, mounted : BOOLEAN, driver : BOOLEAN,
                present : BOOLEAN]
  /\ FetchMayBegin(start.file, start.mounted, start.driver, start.present)
  /\ leftover \in Seq(Devices)
  /\ start.mounted <=> leftover # <<>>
  /\ seen \in SUBSET Devices
  /\ failed \in BOOLEAN
  /\ removed \in BOOLEAN

\* Where control can be.  A call that began with a device inserts no driver.
ControlInv ==
  /\ pc \in Before \cup {"indeterminate"} => ~Inserted
  /\ pc \in Before => i = 1 /\ retryCount = 0 /\ seen = {}
  /\ pc \in Scanning => retryCount < numRetries
  /\ pc = "again" => i = 1
  /\ pc = "umount" => targetMounted
  /\ start.present => ~Inserted /\ pc \notin {"insmod", "record", "indeterminate"}

\* The file changes by SetUp and by the record only; rmmod is tried only when the file asks
\* for it.
FileInv ==
  /\ file \in FilesNow
  /\ pc \in Before \cup {"indeterminate"} => ~managed
  /\ Inserted => managed
  /\ pc = "rmmod" => Asked

\* The driver of the agent is loaded from its insertion on, unless the file allowed to
\* remove it; one of the system was never inserted by this call.
DriverInv ==
  /\ driver = "system" => ~start.driver /\ ~Inserted /\ pc # "record"
  /\ driver = "agent" => start.driver \/ Inserted \/ pc = "record"
  /\ pc = "record" => driver = "agent" /\ ~start.driver
  /\ pc # "record" /\ (start.driver \/ Inserted) /\ driver # "agent"
       => driver = "none" /\ Asked
  /\ removed => pc \notin Before /\ driver = "none" /\ Asked

\* What is mounted has its node; nodes go only with the driver, and when there was none
\* at first, all of them come with it.
NodeInv ==
  /\ Devices \ driven \subseteq nodes
  /\ driver = "none" => nodes \cap driven = {}
  /\ \A k \in DOMAIN mounts : mounts[k] \in nodes
  /\ pc = "mount" => i \in nodes
  /\ pc = "probe" /\ start.present => nodes # {}
  /\ Inserted \/ pc = "record" \/ (pc = "insmod" /\ driver = "none")
       => Devices \subseteq driven
  /\ ~Inserted /\ pc \in Scanning \cup {"found", "threw"} /\ nodes = {}
       => driver = "none" /\ Asked

\* The drive in hand is the visible one while it is read.  Unless something failed, there
\* is no other beside what the call began with, and m_targetMounted says whose it is.
MountInv ==
  /\ pc \in {"read", "umount"} => mounts # <<>> /\ Visible = i
  /\ pc = "found" => mounts # <<>> /\ medium[Visible] = "spec"
  /\ pc \in Before \cup {"indeterminate"} => mounts = leftover
  /\ ~failed /\ pc \in {"scan", "again", "mount", "rmmod", "threw"} => mounts = leftover
  /\ ~failed /\ pc \in {"read", "umount"}
       => mounts = IF targetMounted THEN Append(leftover, i) ELSE leftover

\* The drives that this round has been through, or all of those of the rounds before.
Passed(d) ==
  \/ pc \in {"again", "threw"}
  \/ pc = "scan" /\ (i = 1 \/ d < i)
  \/ pc \in {"mount", "read"} /\ d < i
  \/ pc \in {"umount", "rmmod"} /\ d <= i

\* A drive that was seen is still there unless it went with its driver; if no call
\* failed and the round is past it, it did not hold the right ISO.
SeenInv ==
  \A d \in seen :
    \/ removed /\ d \in driven
    \/ d \in nodes /\ (~failed /\ Passed(d) => medium[d] # "spec")

IInv ==
  /\ TypeOK
  /\ StartInv
  /\ ControlInv
  /\ FileInv
  /\ DriverInv
  /\ NodeInv
  /\ MountInv
  /\ SeenInv

-------------------------------------------------------------------------------
(* What the operations on the status file and the stack of mounts do. *)

\* SetUp changes no element, and neither does any other call of Instance.
LEMMA FileFacts ==
  ASSUME NEW f \in StatusFiles, NEW m \in BOOLEAN, NEW g \in Instance(f, m)
  PROVE  /\ g \in StatusFiles
         /\ ReadChildOfRoot(g, "Insmod") <=> ReadChildOfRoot(f, "Insmod")
         /\ AddChildToRoot(g, "Insmod") \subseteq StatusFiles
  <1>1. g \in {f, Xml({}), Torn} /\ (g # f => f.kind = "absent")
    BY DEF Instance, SetUp, Write
  <1>2. /\ Xml({}) \in StatusFiles /\ Torn \in StatusFiles
        /\ ~ReadChildOfRoot(Xml({}), "Insmod") /\ ~ReadChildOfRoot(Torn, "Insmod")
    BY DEF Xml, Torn, StatusFiles, ReadChildOfRoot
  <1>3. f.kind = "absent" => ~ReadChildOfRoot(f, "Insmod")
    BY DEF ReadChildOfRoot
  <1>4. g \in StatusFiles
    BY <1>1, <1>2
  <1>5. Xml(g.tags \cup {"Insmod"}) \in StatusFiles
    BY <1>4 DEF Xml, StatusFiles, Tag
  <1>6. AddChildToRoot(g, "Insmod") \subseteq StatusFiles
    BY <1>2, <1>4, <1>5 DEF AddChildToRoot, Write
  <1> QED BY <1>1, <1>2, <1>3, <1>4, <1>6

\* As long as the driver was not inserted, the file asks for rmmod if it did at first.
LEMMA AskedFacts ==
  ASSUME StartInv, FileInv, ~Inserted
  PROVE  Asked <=> ReadChildOfRoot(start.file, "Insmod")
  <1>1. CASE file = start.file
    BY <1>1 DEF Asked
  <1>2. CASE file \in SetUp(start.file)
    <2>1. file \in Instance(start.file, FALSE) /\ start.file \in StatusFiles
      BY <1>2 DEF Instance, StartInv
    <2> QED BY <2>1, FileFacts DEF Asked
  <1> QED BY <1>1, <1>2 DEF FileInv, FilesNow

\* Asking for the StatusMessage leaves the file one of those, and what it says.
LEMMA InstanceFacts ==
  ASSUME TypeOK, FileInv, UNCHANGED <<start, numRetries>>,
         file' \in Instance(file, managed), managed' = TRUE
  PROVE  file' \in FilesNow' /\ (Asked' <=> Asked) /\ file' \in StatusFiles
  <1>1. (Asked' <=> Asked) /\ file' \in StatusFiles
    BY FileFacts DEF TypeOK, Asked
  <1>a. Inserted' = Inserted /\ start' = start
    BY DEF Inserted, RetriesAfterInsmod
  <1>b. FilesNow' = IF Inserted THEN Recorded(start.file) ELSE SetUp(start.file)
    BY <1>a DEF FilesNow
  <1>2. CASE managed
    <2>1. file' = file
      BY <1>2 DEF Instance
    <2>2. FilesNow' = FilesNow
      BY <1>2, <1>b DEF FilesNow
    <2> QED BY <1>1, <2>1, <2>2 DEF FileInv
  <1>3. CASE ~managed
    <2>1. ~Inserted /\ file = start.file
      BY <1>3 DEF FileInv, FilesNow
    <2> QED BY <1>1, <1>3, <1>b, <2>1 DEF Instance
  <1> QED BY <1>1, <1>2, <1>3 DEF TypeOK

\* mount puts an ISO on top.
LEMMA MountFacts ==
  ASSUME NEW s \in Seq(Devices), NEW d \in Devices
  PROVE  /\ Append(s, d) \in Seq(Devices) /\ Append(s, d) # <<>>
         /\ Append(s, d)[Len(Append(s, d))] = d
         /\ \A k \in DOMAIN Append(s, d) :
              Append(s, d)[k] = d \/ (k \in DOMAIN s /\ Append(s, d)[k] = s[k])
  OBVIOUS

\* umount takes the topmost one away.
LEMMA UmountFacts ==
  ASSUME NEW s \in Seq(Devices), s # <<>>
  PROVE  /\ SubSeq(s, 1, Len(s) - 1) \in Seq(Devices)
         /\ \A k \in DOMAIN SubSeq(s, 1, Len(s) - 1) :
              k \in DOMAIN s /\ SubSeq(s, 1, Len(s) - 1)[k] = s[k]
  OBVIOUS

\* So an umount after a mount leaves what there was.
LEMMA MountUmount ==
  ASSUME NEW s \in Seq(Devices), NEW d \in Devices
  PROVE  SubSeq(Append(s, d), 1, Len(Append(s, d)) - 1) = s
  OBVIOUS

\* The numbers of the loops.
LEMMA Numbers ==
  ASSUME TypeOK
  PROVE  /\ i \in 1 .. N /\ N \in Nat /\ retryCount \in Nat /\ retryCount <= numRetries
         /\ numRetries \in {1, 3} /\ (Inserted <=> numRetries = 3)
  BY DevicesAssumption DEF TypeOK, Devices, RetriesAfterInsmod, Inserted

\* The loop goes to the next device, or to its end after the last one.
LEMMA NextDeviceFacts ==
  ASSUME TypeOK, NextDevice
  PROVE  /\ i' \in Devices
         /\ pc' = "scan" \/ (pc' = "again" /\ i' = 1)
         /\ \A d \in Devices : Passed(d)' => d <= i
  <1>1. CASE i < N /\ i' = i + 1 /\ pc' = "scan"
    BY <1>1, Numbers DEF Passed, Devices
  <1>2. CASE ~(i < N) /\ i' = 1 /\ pc' = "again"
    BY <1>2, Numbers, DevicesAssumption DEF Devices
  <1> QED BY <1>1, <1>2 DEF NextDevice

-------------------------------------------------------------------------------
(* Every action preserves the inductive invariant. *)

\* A device found starts the scan.
LEMMA ProbeDevicesStep ==
  ASSUME IInv, ProbeDevices
  PROVE  IInv'
  <1> USE DEF IInv, machine, status, loop, ghosts
  <1>1. TypeOK'
    BY Numbers DEF ProbeDevices, TypeOK, Ended
  <1>2. StartInv'
    BY Numbers DEF ProbeDevices, StartInv, TypeOK
  <1>3. ControlInv'
    BY Numbers DEF ProbeDevices, ControlInv, NodeInv, Before, Scanning, Inserted,
       RetriesAfterInsmod, TypeOK
  <1>4. FileInv'
    BY Numbers
      DEF ProbeDevices, FileInv, FilesNow, Asked, Inserted, Before, RetriesAfterInsmod,
          TypeOK
  <1>5. DriverInv'
    BY Numbers
      DEF ProbeDevices, DriverInv, FilesNow, Asked, Inserted, Before,
          RetriesAfterInsmod, TypeOK
  <1>6. NodeInv'
    BY Numbers
      DEF ProbeDevices, NodeInv, FilesNow, Asked, Inserted, Scanning,
          RetriesAfterInsmod, TypeOK
  <1>7. MountInv'
    BY Numbers DEF ProbeDevices, MountInv, Visible, Before, TypeOK
  <1>8. SeenInv'
    BY DEF ProbeDevices, SeenInv, ControlInv, Before
  <1> QED BY <1>1, <1>2, <1>3, <1>4, <1>5, <1>6, <1>7, <1>8

\* insmod, and its refusal.
LEMMA InvokeInsmodStep ==
  ASSUME IInv, InvokeInsmod
  PROVE  IInv'
  <1> USE DEF IInv, machine, status, loop, ghosts
  <1>1. TypeOK'
    BY Numbers DEF InvokeInsmod, TypeOK, Ended
  <1>2. StartInv'
    BY Numbers DEF InvokeInsmod, StartInv, TypeOK
  <1>3. ControlInv'
    BY Numbers
      DEF InvokeInsmod, ControlInv, Before, Scanning, Inserted, RetriesAfterInsmod,
          TypeOK
  <1>4. FileInv'
    BY Numbers
      DEF InvokeInsmod, FileInv, FilesNow, Asked, Inserted, Before, RetriesAfterInsmod,
          TypeOK
  <1>5. DriverInv'
    BY DEF InvokeInsmod, DriverInv, ControlInv, StartInv, FetchMayBegin, Asked, Inserted,
       Before, TypeOK
  <1>6. NodeInv'
    BY Numbers
      DEF InvokeInsmod, NodeInv, FilesNow, Asked, Inserted, Scanning,
          RetriesAfterInsmod, TypeOK
  <1>7. MountInv'
    BY Numbers DEF InvokeInsmod, MountInv, Visible, Before, TypeOK
  <1>8. SeenInv'
    BY Numbers DEF InvokeInsmod, SeenInv, Passed, TypeOK
  <1> QED BY <1>1, <1>2, <1>3, <1>4, <1>5, <1>6, <1>7, <1>8

\* The record of the driver.
LEMMA RecordInsmodStep ==
  ASSUME IInv, RecordInsmod
  PROVE  IInv'
  <1> USE DEF IInv, machine, status, loop, ghosts
  <1>1. TypeOK'
    <2>1. file' \in StatusFiles
      BY FileFacts DEF RecordInsmod, TypeOK
    <2>2. retryCount' \in 0 .. numRetries' /\ numRetries' \in {1, RetriesAfterInsmod}
      BY Numbers DEF RecordInsmod, RetriesAfterInsmod
    <2> QED BY <2>1, <2>2 DEF RecordInsmod, TypeOK
  <1>2. StartInv'
    BY Numbers DEF RecordInsmod, StartInv, TypeOK
  <1>3. ControlInv'
    BY Numbers
      DEF RecordInsmod, ControlInv, Before, Scanning, Inserted, RetriesAfterInsmod,
          TypeOK
  <1>4. FileInv'
    <2>1. ~managed /\ file = start.file
      BY DEF RecordInsmod, FileInv, ControlInv, FilesNow, Before
    <2>2. file' \in Recorded(start.file) /\ managed' = TRUE
      BY <2>1 DEF RecordInsmod, Instance, Recorded
    <2> QED BY <2>2 DEF RecordInsmod, FileInv, FilesNow, Inserted, Before
  <1>5. DriverInv'
    BY Numbers
      DEF RecordInsmod, DriverInv, FilesNow, Asked, Inserted, Before,
          RetriesAfterInsmod, TypeOK
  <1>6. NodeInv'
    BY Numbers
      DEF RecordInsmod, NodeInv, FilesNow, Asked, Inserted, Scanning,
          RetriesAfterInsmod, TypeOK
  <1>7. MountInv'
    BY Numbers DEF RecordInsmod, MountInv, Visible, Before, TypeOK
  <1>8. SeenInv'
    BY DEF RecordInsmod, SeenInv, ControlInv, Before
  <1> QED BY <1>1, <1>2, <1>3, <1>4, <1>5, <1>6, <1>7, <1>8

\* A node appears.
LEMMA DeviceAppearsStep ==
  ASSUME IInv, NEW d \in Devices, DeviceAppears(d)
  PROVE  IInv'
  <1> USE DEF IInv, machine, status, loop, ghosts
  <1>1. TypeOK'
    BY Numbers DEF DeviceAppears, TypeOK, Ended
  <1>2. StartInv'
    BY Numbers DEF DeviceAppears, StartInv, TypeOK
  <1>3. ControlInv'
    BY Numbers
      DEF DeviceAppears, ControlInv, Before, Scanning, Inserted, RetriesAfterInsmod,
          TypeOK
  <1>4. FileInv'
    BY Numbers
      DEF DeviceAppears, FileInv, FilesNow, Asked, Inserted, Before,
          RetriesAfterInsmod, TypeOK
  <1>5. DriverInv'
    BY Numbers
      DEF DeviceAppears, DriverInv, FilesNow, Asked, Inserted, Before,
          RetriesAfterInsmod, TypeOK
  <1>6. NodeInv'
    BY Numbers
      DEF DeviceAppears, NodeInv, FilesNow, Asked, Inserted, Scanning,
          RetriesAfterInsmod, TypeOK
  <1>7. MountInv'
    BY Numbers DEF DeviceAppears, MountInv, Visible, Before, TypeOK
  <1>8. SeenInv'
    BY Numbers DEF DeviceAppears, SeenInv, Passed, TypeOK
  <1> QED BY <1>1, <1>2, <1>3, <1>4, <1>5, <1>6, <1>7, <1>8

\* The end of a round.
LEMMA SleepAndRetryStep ==
  ASSUME IInv, SleepAndRetry
  PROVE  IInv'
  <1> USE DEF IInv, machine, status, loop, ghosts
  <1>1. TypeOK'
    <2>1. retryCount' \in 0 .. numRetries'
      BY Numbers DEF SleepAndRetry, ControlInv, Scanning
    <2> QED BY <2>1 DEF SleepAndRetry, TypeOK, Ended
  <1>2. StartInv'
    BY Numbers DEF SleepAndRetry, StartInv, TypeOK
  <1>3. ControlInv'
    BY Numbers
      DEF SleepAndRetry, ControlInv, Before, Scanning, Inserted, RetriesAfterInsmod,
          TypeOK
  <1>4. FileInv'
    BY Numbers
      DEF SleepAndRetry, FileInv, FilesNow, Asked, Inserted, Before,
          RetriesAfterInsmod, TypeOK
  <1>5. DriverInv'
    BY Numbers
      DEF SleepAndRetry, DriverInv, FilesNow, Asked, Inserted, Before,
          RetriesAfterInsmod, TypeOK
  <1>6. NodeInv'
    BY Numbers
      DEF SleepAndRetry, NodeInv, FilesNow, Asked, Inserted, Scanning,
          RetriesAfterInsmod, TypeOK
  <1>7. MountInv'
    BY Numbers DEF SleepAndRetry, MountInv, Visible, Before, TypeOK
  <1>8. SeenInv'
    BY Numbers DEF SleepAndRetry, SeenInv, Passed, TypeOK
  <1> QED BY <1>1, <1>2, <1>3, <1>4, <1>5, <1>6, <1>7, <1>8

\* While the scan goes on, the file and the driver stay what they are for FileInv and
\* DriverInv.
LEMMA ScanKeepsFile ==
  ASSUME IInv, pc \in Scanning, pc' \in Scanning \cup {"found", "threw"},
         UNCHANGED <<status, numRetries, start, driver, removed>>,
         pc' = "rmmod" => Asked
  PROVE  FileInv' /\ DriverInv'
  <1>1. FilesNow' = FilesNow /\ Inserted' = Inserted /\ Asked' = Asked
    BY DEF FilesNow, Asked, Inserted, status
  <1>2. FileInv'
    BY <1>1 DEF FileInv, Scanning, Before, IInv, status
  <1>3. DriverInv'
    BY <1>1 DEF DriverInv, Scanning, Before, IInv
  <1> QED BY <1>2, <1>3

\* The next device is there, or is passed.
LEMMA StatDeviceStep ==
  ASSUME IInv, StatDevice
  PROVE  IInv'
  <1>a. /\ UNCHANGED <<machine, nodes, driver, mounts, status, retryCount, numRetries,
                       targetMounted, insModPerformed, start, leftover, failed, removed>>
        /\ pc = "scan"
        /\ seen' = IF i = 1 THEN seen \cup nodes ELSE seen
    BY DEF StatDevice
  <1>b. \/ i \in nodes /\ pc' = "mount" /\ i' = i
        \/ i \notin nodes /\ NextDevice
    BY DEF StatDevice
  <1>c. /\ i' \in Devices
        /\ pc' \in {"scan", "again", "mount"}
        /\ pc' = "again" => i' = 1
        /\ pc' = "mount" => i \in nodes /\ i' = i
        /\ \A d \in Devices : Passed(d)' => d < i \/ (d = i /\ i \notin nodes)
    <2>1. TypeOK
      BY DEF IInv
    <2>2. CASE i \in nodes /\ pc' = "mount" /\ i' = i
      BY <2>1, <2>2 DEF Passed, TypeOK
    <2>3. CASE i \notin nodes /\ NextDevice
      BY <2>1, <2>3, NextDeviceFacts, Numbers DEF Devices
    <2> QED BY <1>b, <2>2, <2>3
  <1>1. TypeOK'
    BY <1>a, <1>c DEF IInv, TypeOK, machine, status
  <1>2. StartInv'
    BY <1>a DEF IInv, StartInv, TypeOK
  <1>3. ControlInv'
    BY <1>a, <1>c DEF IInv, ControlInv, Before, Scanning, Inserted
  <1>4. FileInv' /\ DriverInv'
    BY <1>a, <1>c, ScanKeepsFile DEF Scanning
  <1>5. NodeInv'
    <2>1. FilesNow' = FilesNow /\ Inserted' = Inserted /\ Asked' = Asked
      BY <1>a DEF FilesNow, Asked, Inserted, status
    <2> QED BY <1>a, <1>c, <2>1 DEF IInv, NodeInv, Scanning, machine
  <1>6. MountInv'
    BY <1>a, <1>c DEF IInv, MountInv, Before, machine
  <1>7. SeenInv'
    <2> SUFFICES ASSUME NEW d \in seen'
                 PROVE  \/ removed' /\ d \in driven'
                        \/ d \in nodes' /\ (~failed' /\ Passed(d)' => medium[d]' # "spec")
      BY DEF SeenInv
    <2>1. d \in Devices /\ i \in Nat /\ d \in Nat
      BY <1>a, Numbers DEF IInv, StartInv, TypeOK, Devices
    <2>2. CASE d \in seen
      BY <1>a, <1>c, <2>1, <2>2 DEF IInv, SeenInv, Passed, machine
    <2>3. CASE d \notin seen
      <3>1. i = 1 /\ d \in nodes
        BY <1>a, <2>3
      <3>2. ~Passed(d)'
        BY <1>c, <2>1, <3>1, Numbers DEF Devices, IInv
      <3> QED BY <1>a, <3>1, <3>2
    <2> QED BY <2>2, <2>3
  <1> QED BY <1>1, <1>2, <1>3, <1>4, <1>5, <1>6, <1>7 DEF IInv

\* The mount, its refusal and its failure.
LEMMA MountISOStep ==
  ASSUME IInv, MountISO
  PROVE  IInv'
  <1>a. /\ UNCHANGED <<machine, nodes, driver, status, retryCount, numRetries,
                       insModPerformed, ghosts, removed>>
        /\ pc = "mount"
    BY DEF MountISO
  <1>b. \/ /\ mounts' = Append(mounts, i) /\ targetMounted' = TRUE /\ pc' = "read"
           /\ UNCHANGED <<i, failed>>
        \/ /\ mounts # <<>> /\ Visible = i /\ mounts' = mounts
           /\ targetMounted' = FALSE /\ pc' = "read"
           /\ UNCHANGED <<i, failed>>
        \/ /\ NextDevice /\ targetMounted' = FALSE /\ mounts' = mounts
           /\ failed' = (failed \/ medium[i] # "empty")
        \/ /\ pc' = "threw" /\ failed' = TRUE
           /\ UNCHANGED <<mounts, targetMounted, i>>
    BY DEF MountISO
  <1>c. /\ i \in Devices /\ i \in nodes /\ mounts \in Seq(Devices) /\ i \in Nat
        /\ targetMounted \in BOOLEAN /\ failed \in BOOLEAN /\ TypeOK
    BY <1>a, Numbers DEF IInv, TypeOK, NodeInv, StartInv
  <1>d. /\ i' \in Devices /\ targetMounted' \in BOOLEAN /\ failed' \in BOOLEAN
        /\ pc' \in {"read", "scan", "again", "threw"}
        /\ pc' = "again" => i' = 1
        /\ mounts' \in Seq(Devices)
        /\ \A k \in DOMAIN mounts' : mounts'[k] \in nodes
        /\ ~failed' => ~failed
        /\ pc' = "read" => mounts' # <<>> /\ mounts'[Len(mounts')] = i'
        /\ ~failed' /\ pc' # "read" => mounts' = mounts
        /\ pc' = "read" => mounts' = IF targetMounted' THEN Append(mounts, i) ELSE mounts
        /\ pc' = "read" => i' = i
        /\ \A d \in Devices : ~failed' /\ Passed(d)'
                                => d < i \/ (d = i /\ medium[i] = "empty")
    <2>0. \A k \in DOMAIN mounts : mounts[k] \in nodes
      BY DEF IInv, NodeInv
    <2>1. CASE /\ mounts' = Append(mounts, i) /\ targetMounted' = TRUE /\ pc' = "read"
               /\ UNCHANGED <<i, failed>>
      BY <1>c, <2>0, <2>1, MountFacts DEF Passed
    <2>2. CASE /\ mounts # <<>> /\ Visible = i /\ mounts' = mounts
               /\ targetMounted' = FALSE /\ pc' = "read"
               /\ UNCHANGED <<i, failed>>
      BY <1>c, <2>0, <2>2 DEF Passed, Visible
    <2>3. CASE /\ NextDevice /\ targetMounted' = FALSE /\ mounts' = mounts
               /\ failed' = (failed \/ medium[i] # "empty")
      <3>1. failed' \in BOOLEAN /\ (~failed' => ~failed /\ medium[i] = "empty")
        BY <2>3, <1>c
      <3>2. \A d \in Devices : Passed(d)' => d <= i
        BY <1>c, <2>3, NextDeviceFacts
      <3>3. \A d \in Devices : d <= i => d < i \/ d = i
        BY <1>c DEF Devices
      <3>4. i' \in Devices /\ (pc' = "scan" \/ (pc' = "again" /\ i' = 1))
        BY <1>c, <2>3, NextDeviceFacts
      <3> QED BY <1>c, <2>0, <2>3, <3>1, <3>2, <3>3, <3>4
    <2>4. CASE /\ pc' = "threw" /\ failed' = TRUE
               /\ UNCHANGED <<mounts, targetMounted, i>>
      BY <1>c, <2>0, <2>4
    <2> QED BY <1>b, <2>1, <2>2, <2>3, <2>4
  <1>1. TypeOK'
    BY <1>a, <1>d DEF IInv, TypeOK, Ended, machine, status
  <1>2. StartInv'
    BY <1>a, <1>d DEF IInv, StartInv, ghosts
  <1>3. ControlInv'
    BY <1>a, <1>d DEF IInv, ControlInv, Before, Scanning, Inserted, ghosts
  <1>4. FileInv' /\ DriverInv'
    BY <1>a, <1>d, ScanKeepsFile DEF Scanning, ghosts
  <1>5. NodeInv'
    <2>1. FilesNow' = FilesNow /\ Inserted' = Inserted /\ Asked' = Asked
      BY <1>a DEF FilesNow, Asked, Inserted, status, ghosts
    <2> QED BY <1>a, <1>d, <2>1 DEF IInv, NodeInv, Scanning, machine
  <1>6. MountInv'
    <2>1. ~failed => mounts = leftover
      BY <1>a DEF IInv, MountInv
    <2>2. leftover' = leftover /\ pc' \notin Before \cup {"umount", "found", "indeterminate"}
      BY <1>a, <1>d DEF Before, ghosts
    <2>3. pc' \in {"read", "umount"} => mounts' # <<>> /\ Visible' = i'
      BY <1>d, <2>2 DEF Visible
    <2>4. ~failed' /\ pc' # "read" => mounts' = leftover'
      BY <1>d, <2>1, <2>2
    <2>5. ~failed' /\ pc' \in {"read", "umount"}
            => mounts' = IF targetMounted' THEN Append(leftover', i') ELSE leftover'
      BY <1>d, <2>1, <2>2
    <2> QED BY <2>2, <2>3, <2>4, <2>5 DEF MountInv
  <1>7. SeenInv'
    <2>1. \A d \in seen : d \in Devices
      BY DEF IInv, StartInv
    <2> QED BY <1>a, <1>c, <1>d, <2>1 DEF IInv, SeenInv, Passed, machine, ghosts
  <1> QED BY <1>1, <1>2, <1>3, <1>4, <1>5, <1>6, <1>7 DEF IInv

\* The search for the file.
LEMMA ReadDataFromMountPointStep ==
  ASSUME IInv, ReadDataFromMountPoint
  PROVE  IInv'
  <1>a. /\ UNCHANGED <<machine, nodes, driver, mounts, status, retryCount, numRetries,
                       targetMounted, insModPerformed, ghosts, removed>>
        /\ pc = "read" /\ mounts # <<>> /\ Visible = i
    BY DEF ReadDataFromMountPoint, IInv, MountInv
  <1>b. \/ medium[i] = "spec" /\ pc' = "found" /\ UNCHANGED <<i, failed>>
        \/ /\ failed' = (failed \/ medium[i] = "spec")
           /\ targetMounted /\ pc' = "umount" /\ i' = i
        \/ /\ failed' = (failed \/ medium[i] = "spec")
           /\ ~targetMounted /\ NextDevice
        \/ failed' = TRUE /\ pc' = "threw" /\ i' = i
    BY <1>a DEF ReadDataFromMountPoint
  <1>c. /\ i \in Devices /\ targetMounted \in BOOLEAN /\ failed \in BOOLEAN /\ TypeOK
        /\ i \in Nat
    BY Numbers DEF IInv, TypeOK, StartInv
  <1>d. /\ i' \in Devices /\ failed' \in BOOLEAN
        /\ pc' \in {"found", "umount", "scan", "again", "threw"}
        /\ pc' = "again" => i' = 1
        /\ ~failed' => ~failed
        /\ pc' = "found" => medium[i] = "spec"
        /\ pc' = "umount" => i' = i /\ targetMounted
        /\ ~failed' /\ pc' \in {"scan", "again", "threw"} => ~targetMounted
        /\ \A d \in Devices : ~failed' /\ Passed(d)'
                                => d < i \/ (d = i /\ medium[i] # "spec")
    <2>3. \A d \in Devices : d <= i => d < i \/ d = i
      BY <1>c DEF Devices
    <2>4. failed' = (failed \/ medium[i] = "spec")
            => failed' \in BOOLEAN /\ (~failed' => ~failed /\ medium[i] # "spec")
      BY <1>c
    <2>5. CASE medium[i] = "spec" /\ pc' = "found" /\ UNCHANGED <<i, failed>>
      BY <1>c, <2>5 DEF Passed
    <2>6. CASE /\ failed' = (failed \/ medium[i] = "spec")
               /\ targetMounted /\ pc' = "umount" /\ i' = i
      BY <1>c, <2>3, <2>4, <2>6 DEF Passed
    <2>7. CASE /\ failed' = (failed \/ medium[i] = "spec")
               /\ ~targetMounted /\ NextDevice
      <3>1. \A d \in Devices : Passed(d)' => d <= i
        BY <1>c, <2>7, NextDeviceFacts
      <3>2. i' \in Devices /\ (pc' = "scan" \/ (pc' = "again" /\ i' = 1))
        BY <1>c, <2>7, NextDeviceFacts
      <3> QED BY <1>c, <2>3, <2>4, <2>7, <3>1, <3>2
    <2>8. CASE failed' = TRUE /\ pc' = "threw" /\ i' = i
      BY <1>c, <2>8
    <2> QED BY <1>b, <2>5, <2>6, <2>7, <2>8
  <1>1. TypeOK'
    BY <1>a, <1>d DEF IInv, TypeOK, Ended, machine, status
  <1>2. StartInv'
    BY <1>a, <1>d DEF IInv, StartInv, ghosts
  <1>3. ControlInv'
    BY <1>a, <1>d DEF IInv, ControlInv, Before, Scanning, Inserted, ghosts
  <1>4. FileInv' /\ DriverInv'
    BY <1>a, <1>d, ScanKeepsFile DEF Scanning, ghosts
  <1>5. NodeInv'
    <2>1. FilesNow' = FilesNow /\ Inserted' = Inserted /\ Asked' = Asked
      BY <1>a DEF FilesNow, Asked, Inserted, status, ghosts
    <2> QED BY <1>a, <1>d, <2>1 DEF IInv, NodeInv, Scanning, machine
  <1>6. MountInv'
    <2>1. ~failed => mounts = IF targetMounted THEN Append(leftover, i) ELSE leftover
      BY <1>a DEF IInv, MountInv
    <2>2. /\ leftover' = leftover /\ mounts' = mounts /\ medium' = medium
          /\ pc' \notin Before \cup {"read", "indeterminate", "mount", "rmmod"}
          /\ targetMounted' = targetMounted /\ Visible' = Visible
      BY <1>a, <1>d DEF Before, ghosts, machine, Visible
    <2> QED BY <1>a, <1>d, <2>1, <2>2 DEF MountInv
  <1>7. SeenInv'
    <2>1. \A d \in seen : d \in Devices
      BY DEF IInv, StartInv
    <2> QED BY <1>a, <1>c, <1>d, <2>1 DEF IInv, SeenInv, Passed, machine, ghosts
  <1> QED BY <1>1, <1>2, <1>3, <1>4, <1>5, <1>6, <1>7 DEF IInv

\* The umount and its failure.
LEMMA UnmountISOStep ==
  ASSUME IInv, UnmountISO
  PROVE  IInv'
  <1> DEFINE below == SubSeq(mounts, 1, Len(mounts) - 1)
  <1>a. /\ UNCHANGED <<machine, nodes, driver, retryCount, numRetries, targetMounted,
                       ghosts, removed>>
        /\ pc = "umount" /\ mounts # <<>> /\ targetMounted
        /\ file' \in Instance(file, managed) /\ managed' = TRUE /\ insModPerformed' = Asked'
    BY DEF UnmountISO, IInv, MountInv, ControlInv, Asked
  <1>b. \/ /\ mounts' = below /\ Asked' /\ pc' = "rmmod"
           /\ UNCHANGED <<i, failed>>
        \/ mounts' = below /\ NextDevice /\ failed' = failed
        \/ mounts' = mounts /\ NextDevice /\ failed' = TRUE
    BY <1>a DEF UnmountISO
  <1>c. /\ i \in Devices /\ failed \in BOOLEAN /\ TypeOK /\ i \in Nat
        /\ mounts \in Seq(Devices) /\ leftover \in Seq(Devices)
        /\ \A k \in DOMAIN mounts : mounts[k] \in nodes
    BY Numbers DEF IInv, TypeOK, StartInv, NodeInv
  <1>d. /\ i' \in Devices /\ failed' \in BOOLEAN
        /\ pc' \in {"rmmod", "scan", "again"}
        /\ pc' = "again" => i' = 1
        /\ pc' = "rmmod" => Asked'
        /\ \A d \in Devices : Passed(d)' => d <= i
    <2>1. CASE pc' = "rmmod" /\ UNCHANGED <<i, failed>>
      BY <1>b, <1>c, <2>1 DEF Passed, NextDevice
    <2>2. CASE NextDevice /\ failed' \in {failed, TRUE}
      BY <1>c, <2>2, NextDeviceFacts
    <2> QED BY <1>b, <2>1, <2>2
  <1>e. /\ mounts' \in Seq(Devices)
        /\ \A k \in DOMAIN mounts' : mounts'[k] \in nodes
    <2>1. CASE mounts' = below
      BY <1>a, <1>c, <2>1, UmountFacts
    <2>2. CASE mounts' = mounts
      BY <1>c, <2>2
    <2> QED BY <1>b, <2>1, <2>2
  <1>f. ~failed' => ~failed /\ mounts' = leftover
    <2>1. ~failed => mounts = Append(leftover, i)
      BY <1>a DEF IInv, MountInv
    <2>2. ~failed' => ~failed /\ mounts' = below
      BY <1>b
    <2> QED BY <1>c, <2>1, <2>2, MountUmount
  <1>g. /\ Inserted' = Inserted /\ (Asked' <=> Asked)
        /\ file' \in StatusFiles /\ file' \in FilesNow'
    <2>1. Inserted' = Inserted /\ UNCHANGED <<start, numRetries>>
      BY <1>a DEF Inserted, ghosts
    <2> QED BY <1>a, <2>1, InstanceFacts DEF IInv
  <1>1. TypeOK'
    <2>1. insModPerformed' \in BOOLEAN
      BY <1>a DEF Asked, ReadChildOfRoot
    <2> QED BY <1>a, <1>d, <1>e, <1>g, <2>1 DEF IInv, TypeOK, Ended, machine, status
  <1>2. StartInv'
    BY <1>a, <1>d DEF IInv, StartInv, ghosts
  <1>3. ControlInv'
    BY <1>a, <1>d DEF IInv, ControlInv, Before, Scanning, Inserted, ghosts
  <1>4. FileInv'
    BY <1>a, <1>d, <1>g DEF FileInv, Before
  <1>5. DriverInv'
    BY <1>a, <1>d, <1>g DEF IInv, DriverInv, Before, ghosts
  <1>6. NodeInv'
    BY <1>a, <1>d, <1>e, <1>g DEF IInv, NodeInv, Scanning, machine
  <1>7. MountInv'
    BY <1>a, <1>d, <1>f DEF IInv, MountInv, Before, machine, ghosts
  <1>8. SeenInv'
    <2>1. \A d \in seen : d \in Devices
      BY DEF IInv, StartInv
    <2>2. ~failed' => ~failed
      BY <1>f
    <2> QED BY <1>a, <1>d, <2>1, <2>2 DEF IInv, SeenInv, Passed, machine, ghosts
  <1> QED BY <1>1, <1>2, <1>3, <1>4, <1>5, <1>6, <1>7, <1>8 DEF IInv

\* rmmod takes the nodes with the driver.
LEMMA InvokeRmmodStep ==
  ASSUME IInv, InvokeRmmod
  PROVE  IInv'
  <1>a. /\ UNCHANGED <<machine, mounts, status, retryCount, numRetries, targetMounted,
                       insModPerformed, ghosts, failed>>
        /\ pc = "rmmod" /\ NextDevice
    BY DEF InvokeRmmod
  <1>b. \/ /\ \A k \in DOMAIN mounts : mounts[k] \notin driven
           /\ driver' = "none" /\ nodes' = nodes \ driven /\ removed' = TRUE
        \/ UNCHANGED <<driver, nodes, removed>>
    BY DEF InvokeRmmod
  <1>c. /\ i' \in Devices
        /\ pc' \in {"scan", "again"}
        /\ pc' = "again" => i' = 1
        /\ \A d \in Devices : Passed(d)' => d <= i
    BY <1>a, NextDeviceFacts DEF IInv
  <1>d. FilesNow' = FilesNow /\ Inserted' = Inserted /\ Asked' = Asked /\ Asked
    <2>1. FilesNow' = FilesNow /\ Inserted' = Inserted /\ Asked' = Asked
      BY <1>a DEF FilesNow, Asked, Inserted, status, ghosts
    <2> QED BY <1>a, <2>1 DEF IInv, FileInv
  <1>1. TypeOK'
    BY <1>a, <1>b, <1>c DEF IInv, TypeOK, Ended, machine, status
  <1>2. StartInv'
    BY <1>a, <1>b DEF IInv, StartInv, ghosts
  <1>3. ControlInv'
    BY <1>a, <1>c DEF IInv, ControlInv, Before, Scanning, Inserted, ghosts
  <1>4. FileInv'
    BY <1>a, <1>c, <1>d DEF IInv, FileInv, Before, status, ghosts
  <1>5. DriverInv'
    BY <1>a, <1>b, <1>c, <1>d DEF IInv, DriverInv, Before, ghosts
  <1>6. NodeInv'
    BY <1>a, <1>b, <1>c, <1>d DEF IInv, NodeInv, Scanning, machine
  <1>7. MountInv'
    BY <1>a, <1>c DEF IInv, MountInv, Before, machine, ghosts
  <1>8. SeenInv'
    <2>1. \A d \in seen : d \in Devices
      BY DEF IInv, StartInv
    <2> QED BY <1>a, <1>b, <1>c, <2>1 DEF IInv, SeenInv, Passed, machine, ghosts
  <1> QED BY <1>1, <1>2, <1>3, <1>4, <1>5, <1>6, <1>7, <1>8 DEF IInv

-------------------------------------------------------------------------------
(* The theorems. *)

\* A call may begin in any state in which an agent may be.
LEMMA InitIInv == Init => IInv
  <1> SUFFICES ASSUME Init PROVE IInv
    OBVIOUS
  <1>1. /\ i \in Devices /\ retryCount \in 0 .. numRetries /\ ~Inserted
        /\ mounts \in Seq(Devices) /\ file \in StatusFiles
    BY DevicesAssumption, OldFilesAssumption, OldMountsAssumption
       DEF Init, Devices, Inserted, RetriesAfterInsmod
  <1>2. TypeOK
    BY <1>1 DEF Init, TypeOK
  <1>3. StartInv
    BY <1>1 DEF Init, StartInv
  <1>4. ControlInv
    BY <1>1 DEF Init, ControlInv, Before, Scanning
  <1>5. FileInv /\ DriverInv
    BY <1>1 DEF Init, FileInv, DriverInv, FilesNow
  <1>6. NodeInv
    BY <1>1 DEF Init, NodeInv, Scanning
  <1>7. MountInv /\ SeenInv
    BY <1>1 DEF Init, MountInv, SeenInv
  <1> QED BY <1>2, <1>3, <1>4, <1>5, <1>6, <1>7 DEF IInv

\* Every step preserves the invariant.
LEMMA NextIInv == IInv /\ [Next]_vars => IInv'
  <1> SUFFICES ASSUME IInv, [Next]_vars PROVE IInv'
    OBVIOUS
  <1>1. CASE AgentStep
    BY <1>1, ProbeDevicesStep, InvokeInsmodStep, RecordInsmodStep, StatDeviceStep,
       SleepAndRetryStep, MountISOStep, ReadDataFromMountPointStep, UnmountISOStep,
       InvokeRmmodStep DEF AgentStep
  <1>2. CASE \E d \in Devices : DeviceAppears(d)
    BY <1>2, DeviceAppearsStep
  <1>3. CASE UNCHANGED vars
    BY <1>3 DEF vars, IInv, TypeOK, StartInv, ControlInv, FileInv, DriverInv, NodeInv,
       MountInv, SeenInv, FilesNow, Asked, Inserted, Visible, Passed
  <1> QED BY <1>1, <1>2, <1>3 DEF Next

\* The invariant holds in every reachable state of the scan.
THEOREM Invariance == Spec => []IInv
  BY InitIInv, NextIInv, PTL DEF Spec

\* Types; the index stays in possibleDevices and the retries within their number.
THEOREM TypeCorrect == Spec => []TypeOK
  <1>1. IInv => TypeOK
    BY DEF IInv
  <1> QED BY <1>1, Invariance, PTL

\* A scan that ended has kept FetchContract.
LEMMA EndIsAllowed == IInv => EndsAsGuestAgentAssumes
  <1> SUFFICES ASSUME IInv, pc \in Ended PROVE EndsAsGuestAgentAssumes
    BY DEF EndsAsGuestAgentAssumes
  <1> DEFINE end == [file |-> file, managed |-> managed, mounted |-> mounts # <<>>,
                     driver |-> driver = "agent", present |-> nodes # {},
                     result |-> pc]
  <1>1. /\ end.file = file /\ end.managed = managed /\ end.result = pc
        /\ end.mounted \in BOOLEAN /\ end.mounted <=> mounts # <<>>
        /\ end.driver \in BOOLEAN /\ end.driver <=> driver = "agent"
        /\ end.present \in BOOLEAN /\ end.present <=> nodes # {}
    OBVIOUS
  <1>2. managed \in BOOLEAN /\ Asked \in BOOLEAN
    BY DEF IInv, TypeOK, Asked, ReadChildOfRoot
  <1>3. end.mounted => end.present
    <2>1. mounts # <<>> => 1 \in DOMAIN mounts
      BY DEF IInv, TypeOK
    <2> QED BY <1>1, <2>1 DEF IInv, NodeInv
  <1>4. pc = "found" => end.mounted /\ medium[Visible] = "spec"
    BY <1>1 DEF IInv, MountInv
  <1>5. ASSUME NEW f, NEW m \in BOOLEAN, NEW d \in BOOLEAN, pc \in {"found", "threw"},
               <<file, managed>> \in {<<f, m>>} \cup {<<g, TRUE>> : g \in Instance(f, m)},
               end.driver = d \/ (ReadChildOfRoot(f, "Insmod") /\ end.driver = FALSE)
        PROVE  end \in Scans(f, m, d)
    <2>1. end.file \in {f} \cup SetUp(f)
      BY <1>1, <1>5 DEF Instance
    <2>2. end.driver \in {d} \cup (IF ReadChildOfRoot(f, "Insmod") THEN {FALSE} ELSE {})
      BY <1>5
    <2>3. end \in [file : {f} \cup SetUp(f), managed : BOOLEAN, mounted : BOOLEAN,
                   driver : {d} \cup (IF ReadChildOfRoot(f, "Insmod") THEN {FALSE} ELSE {}),
                   present : BOOLEAN, result : {"found", "threw"}]
      BY <1>1, <1>2, <1>5, <2>1, <2>2
    <2> QED BY <1>1, <1>3, <1>4, <1>5, <2>3 DEF Scans
  <1>6. CASE pc = "indeterminate"
    <2>1. /\ ~start.present /\ file = start.file /\ managed = FALSE
          /\ mounts = leftover /\ ~Inserted
      BY <1>2, <1>6 DEF IInv, ControlInv, FileInv, FilesNow, MountInv
    <2>2. start.mounted \in BOOLEAN /\ start.driver \in BOOLEAN
      BY DEF IInv, StartInv
    <2>3. end.mounted = start.mounted
      BY <1>1, <2>1, <2>2 DEF IInv, StartInv
    <2>4. end.driver = start.driver
      <3>1. ~start.driver
        BY <2>1 DEF IInv, StartInv, FetchMayBegin
      <3>2. driver # "agent"
        BY <1>6, <2>1, <3>1 DEF IInv, DriverInv
      <3> QED BY <1>1, <2>2, <3>1, <3>2
    <2>5. end \in [file : {start.file}, managed : {FALSE}, mounted : {start.mounted},
                   driver : {start.driver}, present : BOOLEAN,
                   result : {"indeterminate"}]
      BY <1>1, <1>6, <2>1, <2>3, <2>4
    <2> QED BY <1>4, <1>6, <2>1, <2>5 DEF EndsAsGuestAgentAssumes, FetchEnds
  <1>7. CASE pc \in {"found", "threw"} /\ ~Inserted
    <2>1. start.driver \in BOOLEAN /\ (Asked <=> ReadChildOfRoot(start.file, "Insmod"))
      BY <1>7, AskedFacts DEF IInv, StartInv
    <2>2. end.driver = start.driver \/ (Asked /\ end.driver = FALSE)
      BY <1>1, <1>7, <2>1 DEF IInv, DriverInv
    <2>3. <<file, managed>> \in {<<start.file, FALSE>>}
                              \cup {<<g, TRUE>> : g \in Instance(start.file, FALSE)}
      BY <1>2, <1>7 DEF IInv, FileInv, FilesNow, Instance
    <2>4. end \in Scans(start.file, FALSE, start.driver)
      BY <1>5, <1>7, <2>1, <2>2, <2>3
    <2>5. end.present \/ (Asked /\ ~end.driver)
      BY <1>1, <1>2, <1>7 DEF IInv, NodeInv
    <2> QED BY <1>4, <2>1, <2>4, <2>5 DEF EndsAsGuestAgentAssumes, FetchEnds
  <1>8. CASE pc \in {"found", "threw"} /\ Inserted
    <2>1. file \in Recorded(start.file) /\ managed = TRUE /\ ~start.present
      BY <1>2, <1>8 DEF FilesNow, FileInv, IInv, ControlInv
    <2>2. end.driver = TRUE \/ (Asked /\ end.driver = FALSE)
      BY <1>1, <1>2, <1>8 DEF IInv, DriverInv
    <2>3. end \in Scans(file, TRUE, TRUE)
      BY <1>5, <1>8, <2>1, <2>2 DEF Asked
    <2>4. end.present => end.driver
      <3>1. driver # "none" => driver = "agent"
        BY <1>8 DEF IInv, TypeOK, DriverInv
      <3>2. driver = "none" => nodes = {}
        BY <1>8 DEF IInv, TypeOK, NodeInv
      <3> QED BY <1>1, <3>1, <3>2
    <2> QED BY <1>4, <2>1, <2>3, <2>4 DEF EndsAsGuestAgentAssumes, FetchEnds, Recorded
  <1> QED BY <1>6, <1>7, <1>8 DEF Ended

\* ObtainMountPoint, step by step and with devices that come late or go, ends only as the
\* one step of GuestAgent does; and what it found is what is mounted.
THEOREM ScanKeepsContract == Spec => []EndsAsGuestAgentAssumes
  BY EndIsAllowed, Invariance, PTL

\* An exception leaves no ISO mounted that the call itself mounted, unless a call failed.
THEOREM ThrowUnmounts == Spec => []NothingLeftMounted
  <1>1. IInv => NothingLeftMounted
    BY DEF IInv, MountInv, NothingLeftMounted
  <1> QED BY <1>1, Invariance, PTL

\* The right ISO in a drive that was there is missed only if a call failed, or its driver
\* was removed by the unmount of another.
THEOREM OnlyRemovedDrivesAreMissed == Spec => []MissedOnlyAfterRemoval
  <1>1. IInv => MissedOnlyAfterRemoval
    BY DEF IInv, SeenInv, Passed, MissedOnlyAfterRemoval
  <1> QED BY <1>1, Invariance, PTL

\* So "Support multiple cdrom drives" holds as long as the status file that the scan works
\* with has no InsmodStatus: neither an earlier boot nor this call inserted the driver.
THEOREM MultipleDrivesWithoutRecord ==
  Spec => [](Asked \/ MultipleDrivesSupported)
  <1>1. IInv => (Asked \/ MultipleDrivesSupported)
    BY DEF IInv, SeenInv, DriverInv, Passed, MultipleDrivesSupported
  <1> QED BY <1>1, Invariance, PTL

\* The driver of the system is removed only if the file said before the call that an
\* earlier boot inserted one.
THEOREM SystemKeepsItsDriver == Spec => SystemDriverKept
  <1> DEFINE Kept == driver = "system" /\ driver' = "none"
                       => ReadChildOfRoot(start.file, "Insmod")
  <1>1. IInv /\ [Next]_vars => [Kept]_vars
    <2> SUFFICES ASSUME IInv, Next, driver = "system", driver' = "none"
                 PROVE  ReadChildOfRoot(start.file, "Insmod")
      OBVIOUS
    <2>1. InvokeRmmod
      BY DEF Next, AgentStep, DeviceAppears, ProbeDevices, InvokeInsmod, RecordInsmod,
         StatDevice, SleepAndRetry, MountISO, ReadDataFromMountPoint, UnmountISO
    <2>2. Asked /\ ~Inserted
      BY <2>1 DEF InvokeRmmod, IInv, FileInv, DriverInv
    <2> QED BY <2>2, AskedFacts DEF IInv
  <1> QED BY <1>1, Invariance, PTL DEF Spec, SystemDriverKept

-------------------------------------------------------------------------------
(* The scan comes to an end: every step of the agent takes something from a number that *)
(* is at most 15 * N + 6 at first.  (That the agent can always take a step is left to   *)
(* FetchEventuallyEnds, which TLC checks.)                                               *)

\* The steps a device takes from each place on, those of one round, and those of the
\* rounds to come.
Rank ==
  [scan |-> 4, mount |-> 3, read |-> 2, umount |-> 1, rmmod |-> 0]
Round == 5 * N + 1
Left  == (numRetries - retryCount - 1) * Round

Fuel ==
  IF pc \in Ended THEN 0
  ELSE IF pc = "again" THEN 1 + Left
  ELSE IF pc \in Before THEN 3 * Round + [probe |-> 3, insmod |-> 2, record |-> 1][pc]
  ELSE 2 + Left + 5 * (N - i) + Rank[pc]

\* What the rounds to come take.
LEMMA LeftFacts ==
  ASSUME IInv
  PROVE  /\ Round \in Nat /\ Left \in Int
         /\ pc \in Scanning => Left \in Nat /\ Left <= 2 * Round
  <1>1. N \in Nat /\ Round \in Nat /\ Round = 5 * N + 1
    BY DevicesAssumption DEF Round
  <1>2. /\ numRetries - retryCount - 1 \in {-1, 0, 1, 2}
        /\ pc \in Scanning => numRetries - retryCount - 1 \in {0, 1, 2}
    BY Numbers DEF IInv, ControlInv
  <1>3. /\ Left \in {-Round, 0, Round, 2 * Round}
        /\ pc \in Scanning => Left \in {0, Round, 2 * Round}
    BY <1>1, <1>2 DEF Left
  <1> QED BY <1>1, <1>3

\* Within a round, and from one device to the next.
LEMMA DeviceFuel ==
  ASSUME IInv, pc \in {"scan", "mount", "read", "umount", "rmmod"}
  PROVE  Fuel = 2 + Left + 5 * (N - i) + Rank[pc] /\ Rank[pc] \in 0 .. 4
         /\ i \in 1 .. N /\ N \in Nat
  BY Numbers DEF IInv, Fuel, Ended, Before, Rank

LEMMA NextDeviceFuel ==
  ASSUME IInv, NextDevice, pc \in {"scan", "mount", "read", "umount", "rmmod"},
         UNCHANGED <<numRetries, retryCount>>
  PROVE  Fuel' < Fuel
  <1>1. Left' = Left /\ Left \in Nat
    BY LeftFacts DEF Left, Scanning
  <1>2. CASE i < N /\ i' = i + 1 /\ pc' = "scan"
    <2>1. Fuel' = 2 + Left + 5 * (N - (i + 1)) + 4
      BY <1>1, <1>2 DEF Fuel, Ended, Before, Rank
    <2> QED BY <1>1, <2>1, DeviceFuel
  <1>3. CASE pc' = "again"
    <2>1. Fuel' = 1 + Left
      BY <1>1, <1>3 DEF Fuel, Ended
    <2> QED BY <1>1, <2>1, DeviceFuel
  <1> QED BY <1>2, <1>3 DEF NextDevice

\* A step along the way of one device.
LEMMA SameDeviceFuel ==
  ASSUME IInv, pc \in {"scan", "mount", "read", "umount", "rmmod"},
         UNCHANGED <<i, numRetries, retryCount>>,
         \/ pc' \in Ended
         \/ pc' \in {"mount", "read", "umount", "rmmod"} /\ Rank[pc'] < Rank[pc]
  PROVE  Fuel' < Fuel
  <1>1. Left' = Left /\ Left \in Nat
    BY LeftFacts DEF Left, Scanning
  <1>2. CASE pc' \in Ended
    <2>1. Fuel' = 0
      BY <1>2 DEF Fuel
    <2> QED BY <1>1, <2>1, DeviceFuel
  <1>3. CASE pc' \in {"mount", "read", "umount", "rmmod"} /\ Rank[pc'] < Rank[pc]
    <2>1. Fuel' = 2 + Left + 5 * (N - i) + Rank[pc'] /\ Rank[pc'] \in 0 .. 4
      BY <1>1, <1>3 DEF Fuel, Ended, Before, Rank
    <2> QED BY <1>1, <1>3, <2>1, DeviceFuel
  <1> QED BY <1>2, <1>3

\* Each step of the agent.
LEMMA StepBurnsFuel == IInv /\ AgentStep => Fuel' < Fuel
  <1> SUFFICES ASSUME IInv, AgentStep PROVE Fuel' < Fuel
    OBVIOUS
  <1>a. Round \in Nat /\ N \in Nat /\ i \in 1 .. N /\ Round = 5 * N + 1
    BY LeftFacts, Numbers DEF IInv, Round
  <1>1. CASE ProbeDevices
    <2>1. Fuel = 3 * Round + 3 /\ i = 1 /\ numRetries = 1 /\ retryCount = 0
      BY <1>1, Numbers DEF ProbeDevices, Fuel, Ended, Before, IInv, ControlInv
    <2>2. CASE pc' = "insmod"
      <3>1. Fuel' = 3 * Round + 2
        BY <2>2 DEF Fuel, Ended, Before, Round
      <3> QED BY <1>a, <2>1, <3>1
    <2>3. CASE pc' = "scan"
      <3>1. Left' = 0 /\ i' = 1
        BY <1>1, <1>a, <2>1 DEF ProbeDevices, loop, Left, Round
      <3>2. Fuel' = 2 + 0 + 5 * (N - 1) + 4
        BY <2>3, <3>1 DEF Fuel, Ended, Before, Rank
      <3> QED BY <1>a, <2>1, <3>2
    <2> QED BY <1>1, <2>2, <2>3 DEF ProbeDevices
  <1>2. CASE InvokeInsmod
    <2>1. Fuel = 3 * Round + 2
      BY <1>2 DEF InvokeInsmod, Fuel, Ended, Before
    <2>2. Fuel' \in {0, 3 * Round + 1}
      BY <1>2 DEF InvokeInsmod, Fuel, Ended, Before, Round
    <2> QED BY <1>a, <2>1, <2>2
  <1>3. CASE RecordInsmod
    <2>1. Fuel = 3 * Round + 1 /\ i = 1 /\ retryCount = 0
      BY <1>3 DEF RecordInsmod, Fuel, Ended, Before, IInv, ControlInv
    <2>2. Left' = 2 * Round /\ i' = 1 /\ pc' = "scan"
      BY <1>3, <1>a, <2>1 DEF RecordInsmod, Left, Round, RetriesAfterInsmod
    <2>3. Fuel' = 2 + 2 * Round + 5 * (N - 1) + 4
      BY <2>2 DEF Fuel, Ended, Before, Rank
    <2> QED BY <1>a, <2>1, <2>3
  <1>4. CASE SleepAndRetry
    <2>1. Fuel = 1 + Left /\ i = 1 /\ retryCount \in Nat /\ numRetries \in Nat
      BY <1>4, Numbers DEF SleepAndRetry, Fuel, Ended, IInv, ControlInv
    <2>2. Left \in Nat
      BY <1>4, LeftFacts DEF SleepAndRetry, Scanning
    <2>3. CASE pc' = "threw"
      <3>1. Fuel' = 0
        BY <2>3 DEF Fuel, Ended
      <3> QED BY <2>1, <2>2, <3>1
    <2>4. CASE pc' = "scan"
      <3>1. i' = 1 /\ retryCount' = retryCount + 1 /\ numRetries' = numRetries
        BY <1>4, <2>1 DEF SleepAndRetry
      <3>2. numRetries - retryCount - 1 \in {0, 1, 2}
        BY <1>4, Numbers DEF SleepAndRetry, IInv, ControlInv, Scanning
      <3>3. Left' = Left - Round
        BY <1>a, <2>1, <3>1, <3>2 DEF Left, Round
      <3>4. Fuel' = 2 + (Left - Round) + 5 * (N - 1) + 4
        BY <2>4, <3>1, <3>3 DEF Fuel, Ended, Before, Rank
      <3> QED BY <1>a, <2>1, <2>2, <3>4
    <2> QED BY <1>4, <2>3, <2>4 DEF SleepAndRetry
  <1>5. CASE StatDevice
    BY <1>5, NextDeviceFuel, SameDeviceFuel DEF StatDevice, Rank
  <1>6. CASE MountISO
    <2>1. UNCHANGED <<numRetries, retryCount>>
      BY <1>6 DEF MountISO
    <2>2. NextDevice \/ (pc' \in {"read", "threw"} /\ i' = i)
      BY <1>6 DEF MountISO
    <2> QED BY <1>6, <2>1, <2>2, NextDeviceFuel, SameDeviceFuel DEF MountISO, Rank, Ended
  <1>7. CASE ReadDataFromMountPoint
    <2>1. UNCHANGED <<numRetries, retryCount>>
      BY <1>7 DEF ReadDataFromMountPoint
    <2>2. NextDevice \/ (pc' \in {"found", "umount", "threw"} /\ i' = i)
      BY <1>7 DEF ReadDataFromMountPoint
    <2> QED BY <1>7, <2>1, <2>2, NextDeviceFuel, SameDeviceFuel
            DEF ReadDataFromMountPoint, Rank, Ended
  <1>8. CASE UnmountISO
    <2>1. UNCHANGED <<numRetries, retryCount>>
      BY <1>8 DEF UnmountISO
    <2>2. NextDevice \/ (pc' = "rmmod" /\ i' = i)
      BY <1>8 DEF UnmountISO
    <2> QED BY <1>8, <2>1, <2>2, NextDeviceFuel, SameDeviceFuel DEF UnmountISO, Rank
  <1>9. CASE InvokeRmmod
    BY <1>9, NextDeviceFuel DEF InvokeRmmod
  <1> QED BY <1>1, <1>2, <1>3, <1>4, <1>5, <1>6, <1>7, <1>8, <1>9 DEF AgentStep

\* The fuel is bounded in the number of the drives.
FuelIsBounded == Fuel \in 0 .. 15 * N + 6

\* A call of ObtainMountPoint consists of at most 15 * N + 6 steps, however late the nodes
\* appear, whatever fails, and however often a driver comes and goes.
THEOREM ScanIsBounded == Spec => []FuelIsBounded /\ [][AgentStep => Fuel' < Fuel]_vars
  <1>1. IInv => FuelIsBounded
    <2> SUFFICES ASSUME IInv PROVE FuelIsBounded
      OBVIOUS
    <2>1. Round \in Nat /\ N \in Nat /\ Round = 5 * N + 1
      BY LeftFacts, Numbers DEF IInv, Round
    <2>2. CASE pc \in {"scan", "mount", "read", "umount", "rmmod"}
      <3>1. Left \in Nat /\ Left <= 2 * Round
        BY <2>2, LeftFacts DEF Scanning
      <3> QED BY <2>1, <2>2, <3>1, DeviceFuel DEF FuelIsBounded
    <2>3. CASE pc = "again"
      <3>1. Left \in Nat /\ Left <= 2 * Round
        BY <2>3, LeftFacts DEF Scanning
      <3>2. Fuel = 1 + Left
        BY <2>3 DEF Fuel, Ended
      <3> QED BY <2>1, <3>1, <3>2 DEF FuelIsBounded
    <2>4. CASE pc \in Before
      <3>1. Fuel \in {3 * Round + 1, 3 * Round + 2, 3 * Round + 3}
        BY <2>4 DEF Fuel, Ended, Before
      <3> QED BY <2>1, <3>1 DEF FuelIsBounded
    <2>5. CASE pc \in Ended
      BY <2>1, <2>5 DEF FuelIsBounded, Fuel
    <2> QED BY <2>2, <2>3, <2>4, <2>5 DEF IInv, TypeOK, Before
  <1>2. IInv /\ [Next]_vars => [AgentStep => Fuel' < Fuel]_vars
    BY StepBurnsFuel
  <1> QED BY <1>1, <1>2, Invariance, PTL DEF Spec
===============================================================================
