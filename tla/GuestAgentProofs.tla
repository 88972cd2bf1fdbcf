--------------------------- MODULE GuestAgentProofs ---------------------------
(***************************************************************************)
(* Machine-checked proofs about GuestAgent, for every value of its         *)
(* constants: the inductive invariant IInv and the safety properties that  *)
(* follow from it.                                                         *)
(***************************************************************************)
EXTENDS GuestAgent, TLAPS

Dead      == {"exited", "abend"}
PreLabels == {"fetch", "load", "upgrade", "started", "prerun", "prerecord",
              "reboot", "prefail"}
Early     == {"fetch", "load", "upgrade", "started", "prerun"}
Stopping  == {"fail", "terminate", "remove", "unmount", "shutdown"}

\* Where control can be, and what it implies about stage, adapter and the file.
ControlInv ==
  /\ power = "off" => pc \in Dead /\ inst \in {"idle", "broken"}
  /\ pc \in PreLabels => stage = "Pre"
  /\ pc = "complete" => stage = "Post"
  /\ pc \in Stopping /\ stage = "Network" => adapter < Adapters
  /\ pc \in {"remove", "shutdown"} => complete
  /\ pc = "remove" => ReadChildOfRoot(file, "Complete")

\* The installer works on a machine whose agent is dead.
InstallerInv ==
  /\ inst \in {"remove", "install", "start", "broken"} => pc \in Dead
  /\ inst \in {"install", "broken"} => ~registered
  /\ inst = "start" => registered /\ home
  /\ inst \in {"install", "start"} => ~prepared

\* A failed step leads straight to exit(-1) unless the file was complete before.
FailedInv ==
  failed /\ ~stale =>
    /\ pc \in {"prefail", "fail", "terminate", "unmount"} \cup Dead
    /\ pc = "unmount" => ~complete
    /\ ~ReadChildOfRoot(file, "Complete")

\* On the way from the record of a failure to exit(-1) the record stays readable, or
\* it is known that the file did not get it.
RecordedInv ==
  /\ pc = "terminate" => \/ ReadChildOfRoot(file, "SpecFailed")
                         \/ ReadChildOfRoot(file, "Complete")
                         \/ {"SpecFailed", "Complete"} \cap lost # {}
  /\ pc = "abend" \/ (pc = "unmount" /\ ~complete)
       => \/ ReadChildOfRoot(file, "SpecFailed")
          \/ {"SpecFailed", "Complete"} \cap lost # {}
          \/ file = Absent

\* A process that makes the specialization complete is in the post-configurator.
CompleteInv ==
  /\ ReadChildOfRoot(file, "Complete") /\ ~stale /\ pc \notin Dead
       => stage = "Post" /\ pc \in {"terminate", "remove", "unmount", "shutdown"}
  /\ complete /\ ~stale /\ pc \notin Dead
       => stage = "Post" /\ pc \in {"remove", "unmount", "shutdown"}

\* After a success of cfgpre its record is there, lost or about to be written, or the
\* agent is unregistered and past the point where it looks for the record.
PreparedInv ==
  prepared /\ ~cut =>
    \/ PreStatusFound(file)
    \/ file.kind = "torn"
    \/ "PreOK" \in lost
    \/ pc = "prerecord"
    \/ ~registered /\ pc \notin Early

IInv ==
  /\ TypeOK
  /\ ControlInv
  /\ InstallerInv
  /\ FailedInv
  /\ RecordedInv
  /\ CompleteInv
  /\ AgentRecoverable
  /\ PreparedInv

-------------------------------------------------------------------------------
(* What the operations on the status file preserve. *)

\* Follows(f, g, added): a status file that was f may have become g when at most
\* the elements in added were being added: nothing is lost but by tearing.
Follows(f, g, added) ==
  /\ g \in StatusFiles
  /\ f.kind # "absent" => g.kind # "absent"
  /\ f.kind = "torn" => g.kind = "torn"
  /\ \A t \in Tag : ReadChildOfRoot(g, t) => ReadChildOfRoot(f, t) \/ t \in added
  /\ \A t \in Tag : ReadChildOfRoot(f, t) => ReadChildOfRoot(g, t) \/ g.kind = "torn"

\* A process that dies in Write leaves the old elements, with or without the new
\* one, or a torn file; one that returns from it leaves one of these, too.
LEMMA AddChildFacts ==
  ASSUME NEW f \in StatusFiles, NEW tag \in Tag,
         NEW g, g \in DieInAddChild(f, tag) \/ g \in AddChildToRoot(f, tag)
  PROVE  Follows(f, g, {tag})
  <1>1. CASE g = f
    BY <1>1 DEF Follows
  <1>2. CASE f.kind = "xml" /\ g = Xml(f.tags \cup {tag})
    BY <1>2 DEF Follows, StatusFiles, ReadChildOfRoot, Xml
  <1>3. CASE f.kind = "xml" /\ g = Torn
    BY <1>3 DEF Follows, Torn, StatusFiles, ReadChildOfRoot
  <1>4. QED
    BY <1>1, <1>2, <1>3 DEF DieInAddChild, AddChildToRoot, DieInWrite, Write

\* Creating the root element, or failing or dying in it, loses and adds nothing either.
LEMMA SetUpFacts ==
  ASSUME NEW f \in StatusFiles, NEW g, g \in DieInSetUp(f) \/ g \in SetUp(f)
  PROVE  Follows(f, g, {})
  <1>1. CASE g = f
    BY <1>1 DEF Follows
  <1>2. CASE f.kind = "absent" /\ g = Xml({})
    BY <1>2 DEF Follows, StatusFiles, ReadChildOfRoot, Xml
  <1>3. CASE f.kind = "absent" /\ g = Torn
    BY <1>3 DEF Follows, Torn, StatusFiles, ReadChildOfRoot
  <1>4. QED
    BY <1>1, <1>2, <1>3 DEF DieInSetUp, SetUp, DieInWrite, Write

\* Two changes after each other.
LEMMA FollowsTransitive ==
  ASSUME NEW f \in StatusFiles, NEW g, NEW h, NEW added \in SUBSET Tag,
         NEW more \in SUBSET Tag, Follows(f, g, added), Follows(g, h, more)
  PROVE  Follows(f, h, added \cup more)
  BY DEF Follows, ReadChildOfRoot

\* Nothing is lost by asking for the StatusMessage, nor by adding to what it finds.
LEMMA InstanceFacts ==
  ASSUME NEW f \in StatusFiles, NEW managed0, NEW g \in Instance(f, managed0)
  PROVE  /\ Follows(f, g, {})
         /\ \A tag \in Tag : \A h :
              h \in DieInAddChild(g, tag) \/ h \in AddChildToRoot(g, tag)
                => Follows(f, h, {tag})
  <1>1. Follows(f, g, {})
    <2>1. CASE g = f
      BY <2>1 DEF Follows
    <2>2. CASE g \in SetUp(f)
      BY <2>2, SetUpFacts
    <2>3. QED
      BY <2>1, <2>2 DEF Instance
  <1>2. ASSUME NEW tag \in Tag, NEW h,
               h \in DieInAddChild(g, tag) \/ h \in AddChildToRoot(g, tag)
        PROVE  Follows(f, h, {tag})
    <2>1. Follows(g, h, {tag})
      BY <1>1, <1>2, AddChildFacts DEF Follows
    <2>2. Follows(f, h, {} \cup {tag})
      BY <1>1, <2>1, FollowsTransitive
    <2>3. QED
      BY <2>2
  <1>3. QED
    BY <1>1, <1>2

\* An element that is added is read from the file afterwards or counted as lost.
LEMMA AddsFacts ==
  ASSUME TypeOK, NEW managed0, NEW f \in Instance(file, managed0), NEW tag \in Elements,
         Adds(f, tag)
  PROVE  /\ Follows(file, file', {tag})
         /\ lost' \in SUBSET Elements
         /\ \A t \in Elements : t # tag => (t \in lost' <=> t \in lost)
         /\ tag \in lost' <=> ~ReadChildOfRoot(file', tag)
  <1>1. tag \in Tag /\ file \in StatusFiles /\ lost \in SUBSET Elements
    BY DEF TypeOK, Elements
  <1>2. Follows(file, file', {tag})
    BY <1>1, InstanceFacts DEF Adds
  <1>3. QED
    BY <1>1, <1>2 DEF Adds

\* The status file after a fetch has at most InsmodStatus more than before.
LEMMA FetchFacts ==
  ASSUME NEW f \in StatusFiles, NEW m \in BOOLEAN, NEW d \in BOOLEAN,
         NEW p \in BOOLEAN, NEW end \in FetchEnds(f, m, d, p)
  PROVE  /\ Follows(f, end.file, {"Insmod"})
         /\ end.managed \in BOOLEAN
         /\ end.mounted \in BOOLEAN
         /\ end.driver \in BOOLEAN
         /\ end.present \in BOOLEAN
         /\ end.result \in {"found", "threw", "indeterminate"}
  <1> DEFINE Shape(e) == /\ e.managed \in BOOLEAN
                         /\ e.mounted \in BOOLEAN
                         /\ e.driver \in BOOLEAN
                         /\ e.present \in BOOLEAN
                         /\ e.result \in {"found", "threw", "indeterminate"}
  <1>1. ASSUME NEW e, NEW f0, NEW m0 \in BOOLEAN, NEW d0 \in BOOLEAN, e \in Scans(f0, m0, d0)
        PROVE  Shape(e) /\ e.file \in {f0} \cup Instance(f0, m0)
    <2>1. Shape(e)
      BY <1>1 DEF Scans
    <2>2. <<e.file, e.managed>>
            \in {<<f0, m0>>} \cup {<<g, TRUE>> : g \in Instance(f0, m0)}
      BY <1>1 DEF Scans
    <2>3. QED
      BY <2>1, <2>2
  <1>2. "Insmod" \in Tag
    BY DEF Tag
  <1>3. \A g : Follows(f, g, {}) => Follows(f, g, {"Insmod"})
    BY DEF Follows
  <1>4. Follows(f, f, {})
    BY DEF Follows
  <1>5. CASE end \in Scans(f, FALSE, d)
    <2>1. Shape(end) /\ end.file \in {f} \cup Instance(f, FALSE)
      BY <1>1, <1>5
    <2>2. QED
      BY <2>1, <1>3, <1>4, InstanceFacts
  <1>6. CASE end \in UNION {Scans(h, TRUE, TRUE) :
                             h \in UNION {AddChildToRoot(g, "Insmod") : g \in SetUp(f)}}
    <2>1. PICK g \in SetUp(f) : \E h \in AddChildToRoot(g, "Insmod") : end \in Scans(h, TRUE, TRUE)
      BY <1>6
    <2>2. PICK h \in AddChildToRoot(g, "Insmod") : end \in Scans(h, TRUE, TRUE)
      BY <2>1
    <2>3. Shape(end) /\ end.file \in {h} \cup Instance(h, TRUE)
      BY <1>1, <2>2
    <2>4. end.file = h
      BY <2>3 DEF Instance
    <2>5. Follows(f, h, {"Insmod"})
      BY <1>2, <2>2, InstanceFacts DEF Instance
    <2>6. QED
      BY <2>3, <2>4, <2>5
  <1>7. CASE end \in [file : {f}, managed : {FALSE}, mounted : {m}, driver : {d},
                      present : BOOLEAN, result : {"indeterminate"}]
    BY <1>3, <1>4, <1>7
  <1>8. QED
    BY <1>5, <1>6, <1>7 DEF FetchEnds

-------------------------------------------------------------------------------
(* How a process dies. *)

\* A process that dies adds at most the element it was adding, and can only tear
\* the file where it writes it.
LEMMA FilesAfterDeathFacts ==
  ASSUME TypeOK, NEW g \in FilesAfterDeath
  PROVE  /\ Follows(file, g, {"Insmod", "Started", "PreOK", "PreFailed", "SpecFailed"}
                             \cup (IF pc = "complete" THEN {"Complete"} ELSE {}))
         /\ ~Live => g = file
  <1> DEFINE May == {"Insmod", "Started", "PreOK", "PreFailed", "SpecFailed"}
                    \cup (IF pc = "complete" THEN {"Complete"} ELSE {})
  <1>1. file \in StatusFiles
    BY DEF TypeOK
  <1>2. May \subseteq Tag
    BY DEF Tag
  <1>3. ASSUME NEW added \in SUBSET May, NEW h, Follows(file, h, added)
        PROVE  Follows(file, h, May)
    BY <1>3 DEF Follows
  <1>4. ASSUME NEW t \in May, NEW f \in Instance(file, managed), NEW h \in DieInAddChild(f, t)
        PROVE  Follows(file, h, May)
    <2>1. Follows(file, h, {t})
      BY <1>1, <1>2, <1>4, InstanceFacts
    <2>2. QED
      BY <1>3, <2>1
  <1>5. ASSUME NEW t \in May, NEW h \in DieInAddChild(file, t)
        PROVE  Follows(file, h, May)
    <2>1. Follows(file, h, {t})
      BY <1>1, <1>2, AddChildFacts
    <2>2. QED
      BY <1>3, <2>1
  <1>6. Follows(file, file, {}) /\ \A h \in DieInSetUp(file) : Follows(file, h, {})
    BY <1>1, SetUpFacts DEF Follows
  <1>7. Follows(file, g, May)
    <2>1. CASE g = file \/ g \in DieInSetUp(file)
      BY <2>1, <1>3, <1>6
    <2>2. CASE \E t \in {"Insmod", "Started"} : \E f \in Instance(file, managed) :
                 g \in DieInAddChild(f, t)
      BY <2>2, <1>4
    <2>3. CASE \E t \in {"PreOK", "PreFailed", "SpecFailed"} : g \in DieInAddChild(file, t)
      BY <2>3, <1>5
    <2>4. CASE pc = "complete" /\ g \in DieInAddChild(file, "Complete")
      BY <2>4, <1>5
    <2> HIDE DEF May
    <2>5. QED
      BY <2>1, <2>2, <2>3, <2>4 DEF FilesAfterDeath, At
  <1>8. QED
    BY <1>7 DEF FilesAfterDeath, At

\* What a death, by the installer or with the machine, does to the disk.
LEMMA DieFacts ==
  ASSUME TypeOK, power # "off", NEW removing \in BOOLEAN, Die(removing)
  PROVE  /\ file' \in StatusFiles
         /\ home' \in BOOLEAN
         /\ registered' \in BOOLEAN
         /\ cut' \in BOOLEAN
         /\ cut => cut'
         /\ pc = "prerecord" => cut'
         /\ pc' \in Dead
         /\ pc' = "abend" <=> pc = "abend"
         /\ \/ home' = home /\ registered' = registered
            \/ ~registered' /\ (pc = "remove" \/ removing)
         /\ \/ Follows(file, file', Tag)
            \/ ~registered' /\ file' = Absent /\ (pc = "remove" \/ removing)
         /\ ReadChildOfRoot(file', "Complete")
              => ReadChildOfRoot(file, "Complete") \/ pc = "complete"
         /\ pc \in Dead => file' \in {file, Absent}
  <1>1. PICK left \in {Left(f, home, registered) : f \in FilesAfterDeath}
                      \cup (IF At("remove") \/ removing THEN Removals ELSE {}) :
          file' = left.file /\ home' = left.home /\ registered' = left.registered
    BY DEF Die
  <1>2. /\ pc' = IF Live THEN "exited" ELSE pc
        /\ cut' = (cut \/ At("prerecord"))
    BY DEF Die
  <1>3. /\ cut' \in BOOLEAN
        /\ cut => cut'
        /\ pc = "prerecord" => cut'
        /\ pc' \in Dead
        /\ pc' = "abend" <=> pc = "abend"
    BY <1>2 DEF At, Live, Dead, TypeOK
  <1>4. Follows(file, file, Tag) /\ file \in StatusFiles
    BY DEF Follows, TypeOK
  <1>5. CASE left \in {Left(f, home, registered) : f \in FilesAfterDeath}
    <2>1. PICK f \in FilesAfterDeath : left = Left(f, home, registered)
      BY <1>5
    <2>2. file' = f /\ home' = home /\ registered' = registered
      BY <1>1, <2>1 DEF Left
    <2>3. QED
      BY <1>3, <2>2, FilesAfterDeathFacts DEF Follows, TypeOK, Live, Dead, Tag
  <1>6. CASE left \in Removals /\ (pc = "remove" \/ removing)
    <2>1. CASE left = Left(file, home, registered)
      BY <1>1, <1>3, <1>4, <2>1 DEF Left, TypeOK
    <2>2. CASE left \in [file : {file, Absent}, home : {home, FALSE},
                         registered : {FALSE}]
      <3>1. /\ file' \in {file, Absent}
            /\ home' \in {home, FALSE}
            /\ ~registered' /\ registered' \in BOOLEAN
        BY <1>1, <2>2
      <3>2. Absent \in StatusFiles /\ ~ReadChildOfRoot(Absent, "Complete")
        BY DEF Absent, StatusFiles, ReadChildOfRoot
      <3>3. QED
        BY <1>3, <1>4, <1>6, <3>1, <3>2 DEF TypeOK
    <2>3. QED
      BY <1>6, <2>1, <2>2 DEF Removals
  <1>7. QED
    BY <1>1, <1>5, <1>6 DEF At

DiskTyped ==
  /\ file \in StatusFiles
  /\ home \in BOOLEAN
  /\ registered \in BOOLEAN
  /\ media \in [mode : {"iso", "file"}, content : {"valid", "malformed", "rejected"},
                wants : SUBSET Optional, present : BOOLEAN, kit : BOOLEAN,
                decodes : BOOLEAN]

MachineTyped ==
  /\ power \in {"on", "rebooting", "halting", "off"}
  /\ mounted \in BOOLEAN
  /\ driver \in BOOLEAN
  /\ present \in BOOLEAN
  /\ inst \in InstallerLabels

ProcessTyped ==
  /\ pc \in Labels
  /\ stage \in Stages
  /\ adapter \in 0 .. Adapters
  /\ path \in {"none", "iso", "file", "unread"}
  /\ config \in SUBSET Optional
  /\ managed \in BOOLEAN
  /\ complete \in BOOLEAN

GhostsTyped ==
  /\ prepared \in BOOLEAN
  /\ cut \in BOOLEAN
  /\ stale \in BOOLEAN
  /\ failed \in BOOLEAN
  /\ critical \in BOOLEAN
  /\ cuts \in 0 .. MaxPowerCuts
  /\ lost \in SUBSET Elements

\* TypeOK, by where the variables live.
LEMMA TypeParts ==
  TypeOK <=> DiskTyped /\ MachineTyped /\ ProcessTyped /\ GhostsTyped
  BY DEF TypeOK, DiskTyped, MachineTyped, ProcessTyped, GhostsTyped

\* After a removal there is no file and nothing can be read from it.
LEMMA AbsentFacts ==
  /\ Absent \in StatusFiles /\ Absent.kind = "absent"
  /\ \A t : ~ReadChildOfRoot(Absent, t)
  BY DEF Absent, StatusFiles, ReadChildOfRoot

\* Reading an element yields a truth value.
LEMMA ReadIsBoolean ==
  \A f, t : ReadChildOfRoot(f, t) \in BOOLEAN
  BY DEF ReadChildOfRoot

\* A process that starts forgets everything but the disk.
LEMMA NewProcessFacts ==
  ASSUME TypeOK, NewProcess, NewGhosts(file)
  PROVE  /\ ProcessTyped'
         /\ stale' \in BOOLEAN
         /\ ~failed' /\ ~critical'
         /\ lost' \in SUBSET Elements
  <1>1. adapter' \in 0 .. Adapters
    BY BoundAssumption DEF NewProcess
  <1>2. pc' \in Labels /\ stage' \in Stages
    BY DEF NewProcess, Labels, Stages
  <1>3. /\ path' \in {"none", "iso", "file", "unread"}
        /\ config' \in SUBSET Optional /\ managed' \in BOOLEAN
    BY DEF NewProcess
  <1>4. complete' \in BOOLEAN /\ ~failed' /\ ~critical'
    BY DEF NewProcess, NewGhosts
  <1>5. lost' \in SUBSET Elements
    BY DEF NewGhosts, TypeOK
  <1>6. stale' \in BOOLEAN
    BY ReadIsBoolean DEF NewGhosts
  <1>7. QED
    BY <1>1, <1>2, <1>3, <1>4, <1>5, <1>6 DEF ProcessTyped

-------------------------------------------------------------------------------
(* Every action preserves the inductive invariant. *)

\* The steps that change neither the status file nor what the disk holds.
LEMMA QuietStep ==
  ASSUME IInv
  PROVE  /\ UNCHANGED vars => IInv'
         /\ ReadConfigFile => IInv'
         /\ LoadXML => IInv'
         /\ InstallOrUpgradeAgent => IInv'
         /\ SkipCfgpre => IInv'
         /\ Reboot => IInv'
         /\ SkipStage => IInv'
  <1> USE BoundAssumption, ScriptCodesAssumption DEF IInv, TypeOK, At, Live, Dead,
     disk, devices, input, ghosts, marks, vars, ControlInv, InstallerInv, FailedInv,
     RecordedInv, CompleteInv, AgentRecoverable, PreparedInv, Labels,
     InstallerLabels, Stages, PreLabels, Stopping, Early, After
  <1>0. UNCHANGED vars => IInv'
    BY DEF PreStatusFound
  <1>1. ReadConfigFile => IInv'
    BY DEF ReadConfigFile
  <1>2. LoadXML => IInv'
    BY DEF LoadXML
  <1>3. InstallOrUpgradeAgent => IInv'
    BY DEF InstallOrUpgradeAgent
  <1>4. SkipCfgpre => IInv'
    BY DEF SkipCfgpre
  <1>5. Reboot => IInv'
    BY DEF Reboot
  <1>6. SkipStage => IInv'
    BY DEF SkipStage
  <1>7. QED
    BY <1>0, <1>1, <1>2, <1>3, <1>4, <1>5, <1>6

\* A fetch changes the file by at most InsmodStatus.
LEMMA ObtainMountPointStep == IInv /\ ObtainMountPoint => IInv'
  <1> SUFFICES ASSUME IInv, ObtainMountPoint PROVE IInv'
    OBVIOUS
  <1> USE BoundAssumption, ScriptCodesAssumption DEF IInv, TypeOK, At, Live, Dead,
     disk, devices, input, ghosts, marks, vars, Follows, PreStatusFound, Tag,
     ControlInv, InstallerInv, FailedInv, RecordedInv, CompleteInv, AgentRecoverable,
     PreparedInv, Labels, InstallerLabels, Stages, PreLabels, Stopping, Early, After
  <1>a. /\ Follows(file, file', {"Insmod"})
        /\ mounted' \in BOOLEAN
        /\ driver' \in BOOLEAN
        /\ present' \in BOOLEAN
        /\ pc' \in {"load", "exited"}
        /\ path' \in {"iso", "none"}
        /\ managed' \in BOOLEAN
    <2>1. PICK end \in FetchEnds(file, mounted, driver, present) :
            /\ file' = end.file
            /\ managed' = end.managed
            /\ mounted' = end.mounted
            /\ driver' = end.driver
            /\ present' = end.present
            /\ path' = IF end.result = "found" THEN "iso" ELSE "none"
            /\ \/ end.result = "found" /\ pc' = "load"
               \/ end.result = "threw" /\ pc' = "exited"
               \/ end.result = "indeterminate" /\ pc' \in {"load", "exited"}
      BY DEF ObtainMountPoint
    <2>2. QED
      BY <2>1, FetchFacts
  <1>b. /\ pc = "fetch" /\ power # "off"
        /\ UNCHANGED <<home, registered, media, power, stage, adapter, config,
                       complete, inst, ghosts>>
    BY DEF ObtainMountPoint
  <1>1. TypeOK'
    BY <1>a, <1>b
  <1>2. ControlInv'
    BY <1>a, <1>b
  <1>3. InstallerInv'
    BY <1>a, <1>b
  <1>4. FailedInv'
    BY <1>a, <1>b
  <1>5. RecordedInv'
    BY <1>a, <1>b
  <1>6. CompleteInv'
    BY <1>a, <1>b
  <1>7. AgentRecoverable'
    BY <1>a, <1>b
  <1>8. PreparedInv'
    BY <1>a, <1>b
  <1>9. QED
    BY <1>1, <1>2, <1>3, <1>4, <1>5, <1>6, <1>7, <1>8

\* Each step that records something adds one element to the status file: first
\* what becomes of the file, then one step per conjunct of IInv.
LEMMA AddStartedStep == IInv /\ AddStarted => IInv'
  <1> SUFFICES ASSUME IInv, AddStarted PROVE IInv'
    OBVIOUS
  <1> USE BoundAssumption, ScriptCodesAssumption DEF IInv, TypeOK, At, Live, Dead,
     disk, devices, input, ghosts, marks, vars, Tag, Elements, Follows,
     PreStatusFound, ControlInv, InstallerInv, FailedInv, RecordedInv, CompleteInv,
     AgentRecoverable, PreparedInv, Labels, InstallerLabels, Stages, PreLabels,
     Stopping, Early, After
  <1>a. /\ Follows(file, file', {"Started"})
        /\ lost' \in SUBSET Elements
        /\ \A t \in Elements : t # "Started" => (t \in lost' <=> t \in lost)
        /\ "Started" \in lost' <=> ~ReadChildOfRoot(file', "Started")
    <2>1. "Started" \in Elements
      BY DEF Elements
    <2>2. QED
      BY <2>1, AddsFacts DEF AddStarted
  <1>1. TypeOK'
    BY <1>a DEF AddStarted
  <1>2. ControlInv'
    BY <1>a DEF AddStarted
  <1>3. InstallerInv'
    BY <1>a DEF AddStarted
  <1>4. FailedInv'
    BY <1>a DEF AddStarted
  <1>5. RecordedInv'
    BY <1>a DEF AddStarted
  <1>6. CompleteInv'
    BY <1>a DEF AddStarted
  <1>7. AgentRecoverable'
    BY <1>a DEF AddStarted
  <1>8. PreparedInv'
    BY <1>a DEF AddStarted
  <1>9. QED
    BY <1>1, <1>2, <1>3, <1>4, <1>5, <1>6, <1>7, <1>8

\* PreConfiguratorStatus = Successful.
LEMMA RecordPreconfiguredStep == IInv /\ RecordPreconfigured => IInv'
  <1> SUFFICES ASSUME IInv, RecordPreconfigured PROVE IInv'
    OBVIOUS
  <1> USE BoundAssumption, ScriptCodesAssumption DEF IInv, TypeOK, At, Live, Dead,
     disk, devices, input, ghosts, marks, vars, Tag, Elements, Follows,
     PreStatusFound, ControlInv, InstallerInv, FailedInv, RecordedInv, CompleteInv,
     AgentRecoverable, PreparedInv, Labels, InstallerLabels, Stages, PreLabels,
     Stopping, Early, After
  <1>a. /\ Follows(file, file', {"PreOK"})
        /\ lost' \in SUBSET Elements
        /\ \A t \in Elements : t # "PreOK" => (t \in lost' <=> t \in lost)
        /\ "PreOK" \in lost' <=> ~ReadChildOfRoot(file', "PreOK")
    <2>1. "PreOK" \in Elements /\ file \in Instance(file, TRUE)
      BY DEF Elements, Instance
    <2>2. QED
      BY <2>1, AddsFacts DEF RecordPreconfigured
  <1>1. TypeOK'
    BY <1>a DEF RecordPreconfigured
  <1>2. ControlInv'
    BY <1>a DEF RecordPreconfigured
  <1>3. InstallerInv'
    BY <1>a DEF RecordPreconfigured
  <1>4. FailedInv'
    BY <1>a DEF RecordPreconfigured
  <1>5. RecordedInv'
    BY <1>a DEF RecordPreconfigured
  <1>6. CompleteInv'
    BY <1>a DEF RecordPreconfigured
  <1>7. AgentRecoverable'
    BY <1>a DEF RecordPreconfigured
  <1>8. PreparedInv'
    BY <1>a DEF RecordPreconfigured
  <1>9. QED
    BY <1>1, <1>2, <1>3, <1>4, <1>5, <1>6, <1>7, <1>8

\* PreConfiguratorStatus = Failed.
LEMMA RecordPreFailedStep == IInv /\ RecordPreFailed => IInv'
  <1> SUFFICES ASSUME IInv, RecordPreFailed PROVE IInv'
    OBVIOUS
  <1> USE BoundAssumption, ScriptCodesAssumption DEF IInv, TypeOK, At, Live, Dead,
     disk, devices, input, ghosts, marks, vars, Tag, Elements, Follows,
     PreStatusFound, ControlInv, InstallerInv, FailedInv, RecordedInv, CompleteInv,
     AgentRecoverable, PreparedInv, Labels, InstallerLabels, Stages, PreLabels,
     Stopping, Early, After
  <1>a. /\ Follows(file, file', {"PreFailed"})
        /\ lost' \in SUBSET Elements
        /\ \A t \in Elements : t # "PreFailed" => (t \in lost' <=> t \in lost)
        /\ "PreFailed" \in lost' <=> ~ReadChildOfRoot(file', "PreFailed")
    <2>1. "PreFailed" \in Elements /\ file \in Instance(file, TRUE)
      BY DEF Elements, Instance
    <2>2. QED
      BY <2>1, AddsFacts DEF RecordPreFailed
  <1>1. TypeOK'
    BY <1>a DEF RecordPreFailed
  <1>2. ControlInv'
    BY <1>a DEF RecordPreFailed
  <1>3. InstallerInv'
    BY <1>a DEF RecordPreFailed
  <1>4. FailedInv'
    BY <1>a DEF RecordPreFailed
  <1>5. RecordedInv'
    BY <1>a DEF RecordPreFailed
  <1>6. CompleteInv'
    BY <1>a DEF RecordPreFailed
  <1>7. AgentRecoverable'
    BY <1>a DEF RecordPreFailed
  <1>8. PreparedInv'
    BY <1>a DEF RecordPreFailed
  <1>9. QED
    BY <1>1, <1>2, <1>3, <1>4, <1>5, <1>6, <1>7, <1>8

\* SpecializationFailed.
LEMMA RecordFailedStep == IInv /\ RecordFailed => IInv'
  <1> SUFFICES ASSUME IInv, RecordFailed PROVE IInv'
    OBVIOUS
  <1> USE BoundAssumption, ScriptCodesAssumption DEF IInv, TypeOK, At, Live, Dead,
     disk, devices, input, ghosts, marks, vars, Tag, Elements, Follows,
     PreStatusFound, ControlInv, InstallerInv, FailedInv, RecordedInv, CompleteInv,
     AgentRecoverable, PreparedInv, Labels, InstallerLabels, Stages, PreLabels,
     Stopping, Early, After
  <1>a. /\ Follows(file, file', {"SpecFailed"})
        /\ lost' \in SUBSET Elements
        /\ \A t \in Elements : t # "SpecFailed" => (t \in lost' <=> t \in lost)
        /\ "SpecFailed" \in lost' <=> ~ReadChildOfRoot(file', "SpecFailed")
    <2>1. "SpecFailed" \in Elements /\ file \in Instance(file, TRUE)
      BY DEF Elements, Instance
    <2>2. QED
      BY <2>1, AddsFacts DEF RecordFailed
  <1>1. TypeOK'
    BY <1>a DEF RecordFailed
  <1>2. ControlInv'
    BY <1>a DEF RecordFailed
  <1>3. InstallerInv'
    BY <1>a DEF RecordFailed
  <1>4. FailedInv'
    BY <1>a DEF RecordFailed
  <1>5. RecordedInv'
    BY <1>a DEF RecordFailed
  <1>6. CompleteInv'
    BY <1>a DEF RecordFailed
  <1>7. AgentRecoverable'
    BY <1>a DEF RecordFailed
  <1>8. PreparedInv'
    BY <1>a DEF RecordFailed
  <1>9. QED
    BY <1>1, <1>2, <1>3, <1>4, <1>5, <1>6, <1>7, <1>8

\* SpecializationComplete: only the post-configurator gets here.
LEMMA RecordCompleteStep == IInv /\ RecordComplete => IInv'
  <1> SUFFICES ASSUME IInv, RecordComplete PROVE IInv'
    OBVIOUS
  <1> USE BoundAssumption, ScriptCodesAssumption DEF IInv, TypeOK, At, Live, Dead,
     disk, devices, input, ghosts, marks, vars, Tag, Elements, Follows,
     PreStatusFound, ControlInv, InstallerInv, FailedInv, RecordedInv, CompleteInv,
     AgentRecoverable, PreparedInv, Labels, InstallerLabels, Stages, PreLabels,
     Stopping, Early, After
  <1>a. /\ Follows(file, file', {"Complete"})
        /\ lost' \in SUBSET Elements
        /\ \A t \in Elements : t # "Complete" => (t \in lost' <=> t \in lost)
        /\ "Complete" \in lost' <=> ~ReadChildOfRoot(file', "Complete")
    <2>1. "Complete" \in Elements /\ file \in Instance(file, TRUE)
      BY DEF Elements, Instance
    <2>2. QED
      BY <2>1, AddsFacts DEF RecordComplete
  <1>1. TypeOK'
    BY <1>a DEF RecordComplete
  <1>2. ControlInv'
    BY <1>a DEF RecordComplete
  <1>3. InstallerInv'
    BY <1>a DEF RecordComplete
  <1>4. FailedInv'
    BY <1>a DEF RecordComplete
  <1>5. RecordedInv'
    BY <1>a DEF RecordComplete
  <1>6. CompleteInv'
    BY <1>a DEF RecordComplete
  <1>7. AgentRecoverable'
    BY <1>a DEF RecordComplete
  <1>8. PreparedInv'
    BY <1>a DEF RecordComplete
  <1>9. QED
    BY <1>1, <1>2, <1>3, <1>4, <1>5, <1>6, <1>7, <1>8

\* The commands of the configurators.
LEMMA RunCfgpreStep == IInv /\ RunCfgpre => IInv'
  <1> SUFFICES ASSUME IInv, RunCfgpre PROVE IInv'
    OBVIOUS
  <1> USE BoundAssumption, ScriptCodesAssumption DEF IInv, TypeOK, At, Live, Dead,
     disk, devices, input, ghosts, marks, vars, ExecuteReturns, WExitStatus,
     ControlInv, InstallerInv, FailedInv, RecordedInv, CompleteInv, AgentRecoverable,
     PreparedInv, Labels, InstallerLabels, Stages, PreLabels, Stopping, Early, After
  <1>1. TypeOK'
    BY DEF RunCfgpre
  <1>2. ControlInv'
    BY DEF RunCfgpre
  <1>3. InstallerInv'
    BY DEF RunCfgpre
  <1>4. FailedInv'
    BY DEF RunCfgpre
  <1>5. RecordedInv'
    BY DEF RunCfgpre
  <1>6. CompleteInv'
    BY DEF RunCfgpre
  <1>7. AgentRecoverable'
    BY DEF RunCfgpre
  <1>8. PreparedInv'
    BY DEF RunCfgpre
  <1>9. QED
    BY <1>1, <1>2, <1>3, <1>4, <1>5, <1>6, <1>7, <1>8

\* A command of any other configurator.
LEMMA RunStageStep == IInv /\ RunStage => IInv'
  <1> SUFFICES ASSUME IInv, RunStage PROVE IInv'
    OBVIOUS
  <1> USE BoundAssumption, ScriptCodesAssumption DEF IInv, TypeOK, At, Live, Dead,
     disk, devices, input, ghosts, marks, vars, Advance, Visited, CommandReturns,
     ExecuteReturns, WExitStatus, Checked, Optional, ControlInv, InstallerInv,
     FailedInv, RecordedInv, CompleteInv, AgentRecoverable, PreparedInv, Labels,
     InstallerLabels, Stages, PreLabels, Stopping, Early, After
  <1>1. TypeOK'
    BY DEF RunStage
  <1>2. ControlInv'
    BY DEF RunStage
  <1>3. InstallerInv'
    BY DEF RunStage
  <1>4. FailedInv'
    BY DEF RunStage
  <1>5. RecordedInv'
    BY DEF RunStage
  <1>6. CompleteInv'
    BY DEF RunStage
  <1>7. AgentRecoverable'
    BY DEF RunStage
  <1>8. PreparedInv'
    BY DEF RunStage
  <1>9. QED
    BY <1>1, <1>2, <1>3, <1>4, <1>5, <1>6, <1>7, <1>8

\* TerminateSetup.
LEMMA ReadSpecializationCompleteStep == IInv /\ ReadSpecializationComplete => IInv'
  <1> SUFFICES ASSUME IInv, ReadSpecializationComplete PROVE IInv'
    OBVIOUS
  <1> USE BoundAssumption, ScriptCodesAssumption DEF IInv, TypeOK, At, Live, Dead,
     disk, devices, input, ghosts, marks, vars, ControlInv, InstallerInv, FailedInv,
     RecordedInv, CompleteInv, AgentRecoverable, PreparedInv, Labels,
     InstallerLabels, Stages, PreLabels, Stopping, Early, After
  <1>1. TypeOK'
    BY ReadIsBoolean DEF ReadSpecializationComplete
  <1>2. ControlInv'
    BY ReadIsBoolean DEF ReadSpecializationComplete
  <1>3. InstallerInv'
    BY ReadIsBoolean DEF ReadSpecializationComplete
  <1>4. FailedInv'
    BY ReadIsBoolean DEF ReadSpecializationComplete
  <1>5. RecordedInv'
    BY ReadIsBoolean DEF ReadSpecializationComplete
  <1>6. CompleteInv'
    BY ReadIsBoolean DEF ReadSpecializationComplete
  <1>7. AgentRecoverable'
    BY ReadIsBoolean DEF ReadSpecializationComplete
  <1>8. PreparedInv'
    BY ReadIsBoolean DEF ReadSpecializationComplete
  <1>9. QED
    BY <1>1, <1>2, <1>3, <1>4, <1>5, <1>6, <1>7, <1>8

\* install -r removes the file, the home directory and the registration, or parts of them.
LEMMA RemoveAgentStep == IInv /\ RemoveAgent => IInv'
  <1> SUFFICES ASSUME IInv, RemoveAgent PROVE IInv'
    OBVIOUS
  <1> USE BoundAssumption, ScriptCodesAssumption DEF IInv, TypeOK, At, Live, Dead,
     disk, devices, input, ghosts, marks, vars, PreStatusFound, Tag, ControlInv,
     InstallerInv, FailedInv, RecordedInv, CompleteInv, AgentRecoverable,
     PreparedInv, Labels, InstallerLabels, Stages, PreLabels, Stopping, Early, After
  <1>a. /\ file' \in {file, Absent}
        /\ home' \in BOOLEAN
        /\ registered' \in BOOLEAN
        /\ ~registered => ~registered'
        /\ file' = Absent => ~registered' \/ file' = file
    <2>1. PICK left \in {Left(file, home, registered), Left(Absent, FALSE, FALSE)} \cup Removals :
            file' = left.file /\ home' = left.home /\ registered' = left.registered
      BY DEF RemoveAgent
    <2>2. CASE left = Left(file, home, registered)
      BY <2>1, <2>2 DEF Left
    <2>3. CASE left = Left(Absent, FALSE, FALSE)
      BY <2>1, <2>3 DEF Left
    <2>4. CASE left \in [file : {file, Absent}, home : {home, FALSE}, registered : {FALSE}]
      BY <2>1, <2>4
    <2>5. QED
      BY <2>1, <2>2, <2>3, <2>4 DEF Removals
  <1>1. TypeOK'
    BY <1>a, AbsentFacts DEF RemoveAgent
  <1>2. ControlInv'
    BY <1>a, AbsentFacts DEF RemoveAgent
  <1>3. InstallerInv'
    BY <1>a, AbsentFacts DEF RemoveAgent
  <1>4. FailedInv'
    BY <1>a, AbsentFacts DEF RemoveAgent
  <1>5. RecordedInv'
    BY <1>a, AbsentFacts DEF RemoveAgent
  <1>6. CompleteInv'
    BY <1>a, AbsentFacts DEF RemoveAgent
  <1>7. AgentRecoverable'
    BY <1>a, AbsentFacts DEF RemoveAgent
  <1>8. PreparedInv'
    BY <1>a, AbsentFacts DEF RemoveAgent
  <1>9. QED
    BY <1>1, <1>2, <1>3, <1>4, <1>5, <1>6, <1>7, <1>8

\* UnmountISO; then exit(-1) unless complete.
LEMMA UnmountStep == IInv /\ Unmount => IInv'
  <1> SUFFICES ASSUME IInv, Unmount PROVE IInv'
    OBVIOUS
  <1> USE BoundAssumption, ScriptCodesAssumption DEF IInv, TypeOK, At, Live, Dead,
     disk, devices, input, ghosts, marks, vars, ControlInv, InstallerInv, FailedInv,
     RecordedInv, CompleteInv, AgentRecoverable, PreparedInv, Labels,
     InstallerLabels, Stages, PreLabels, Stopping, Early, After
  <1>1. TypeOK'
    <2>1. DiskTyped'
      BY DEF Unmount, DiskTyped
    <2>2. MachineTyped'
      BY DEF Unmount, MachineTyped
    <2>3. ProcessTyped'
      BY DEF Unmount, ProcessTyped
    <2>4. GhostsTyped'
      BY DEF Unmount, GhostsTyped
    <2>5. QED
      BY <2>1, <2>2, <2>3, <2>4 DEF TypeOK, DiskTyped, MachineTyped, ProcessTyped,
             GhostsTyped
  <1>2. ControlInv'
    BY DEF Unmount
  <1>3. InstallerInv'
    BY DEF Unmount
  <1>4. FailedInv'
    BY DEF Unmount
  <1>5. RecordedInv'
    BY DEF Unmount
  <1>6. CompleteInv'
    BY DEF Unmount
  <1>7. AgentRecoverable'
    BY DEF Unmount
  <1>8. PreparedInv'
    BY DEF Unmount
  <1>9. QED
    BY <1>1, <1>2, <1>3, <1>4, <1>5, <1>6, <1>7, <1>8

\* The shutdown, or the next configurator when none of the execs worked.
LEMMA ShutdownStep == IInv /\ Shutdown => IInv'
  <1> SUFFICES ASSUME IInv, Shutdown PROVE IInv'
    OBVIOUS
  <1> USE BoundAssumption, ScriptCodesAssumption DEF IInv, TypeOK, At, Live, Dead,
     disk, devices, input, ghosts, marks, vars, Advance, ControlInv, InstallerInv,
     FailedInv, RecordedInv, CompleteInv, AgentRecoverable, PreparedInv, Labels,
     InstallerLabels, Stages, PreLabels, Stopping, Early, After
  <1>1. TypeOK'
    BY DEF Shutdown
  <1>2. ControlInv'
    BY DEF Shutdown
  <1>3. InstallerInv'
    BY DEF Shutdown
  <1>4. FailedInv'
    BY DEF Shutdown
  <1>5. RecordedInv'
    BY DEF Shutdown
  <1>6. CompleteInv'
    BY DEF Shutdown
  <1>7. AgentRecoverable'
    BY DEF Shutdown
  <1>8. PreparedInv'
    BY DEF Shutdown
  <1>9. QED
    BY <1>1, <1>2, <1>3, <1>4, <1>5, <1>6, <1>7, <1>8

\* The installer stops a running agent, which dies where it is.
LEMMA StopAgentStep ==
  ASSUME IInv, StopService, home
  PROVE  IInv'
  <1> USE BoundAssumption, ScriptCodesAssumption DEF IInv, TypeOK, At, Live, Dead,
     disk, devices, input, ghosts, marks, vars, Follows, PreStatusFound, Tag,
     ControlInv, InstallerInv, FailedInv, RecordedInv, CompleteInv, AgentRecoverable,
     PreparedInv, Labels, InstallerLabels, Stages, PreLabels, Stopping, Early, After
  <1>a. /\ file' \in StatusFiles
        /\ home' \in BOOLEAN
        /\ registered' \in BOOLEAN
        /\ cut' \in BOOLEAN
        /\ cut => cut'
        /\ pc = "prerecord" => cut'
        /\ pc' \in Dead
        /\ pc' = "abend" <=> pc = "abend"
        /\ \/ home' = home /\ registered' = registered
           \/ ~registered' /\ pc = "remove"
        /\ \/ Follows(file, file', Tag)
           \/ ~registered' /\ file' = Absent /\ pc = "remove"
        /\ ReadChildOfRoot(file', "Complete")
             => ReadChildOfRoot(file, "Complete") \/ pc = "complete"
        /\ pc \in Dead => file' \in {file, Absent}
    BY DieFacts DEF StopService
  <1>b. /\ power # "off" /\ inst' = "remove"
        /\ UNCHANGED <<media, power, devices, stage, adapter, input, complete,
                       prepared, stale, failed, critical, cuts, lost>>
    BY DEF StopService
  <1>1. TypeOK'
    <2>1. DiskTyped'
      BY <1>a, <1>b, AbsentFacts DEF DiskTyped
    <2>2. MachineTyped'
      BY <1>a, <1>b, AbsentFacts DEF MachineTyped
    <2>3. ProcessTyped'
      BY <1>a, <1>b, AbsentFacts DEF ProcessTyped
    <2>4. GhostsTyped'
      BY <1>a, <1>b, AbsentFacts DEF GhostsTyped
    <2>5. QED
      BY <2>1, <2>2, <2>3, <2>4 DEF TypeOK, DiskTyped, MachineTyped, ProcessTyped,
             GhostsTyped
  <1>2. ControlInv'
    BY <1>a, <1>b, AbsentFacts
  <1>3. InstallerInv'
    BY <1>a, <1>b, AbsentFacts
  <1>4. FailedInv'
    BY <1>a, <1>b, AbsentFacts
  <1>5. RecordedInv'
    BY <1>a, <1>b, AbsentFacts
  <1>6. CompleteInv'
    BY <1>a, <1>b, AbsentFacts
  <1>7. AgentRecoverable'
    <2>1. CASE pc = "remove"
      BY <2>1, <1>b
    <2>2. CASE home' = home /\ registered' = registered
      BY <2>2, <1>b DEF StopService
    <2>3. QED
      BY <2>1, <2>2, <1>a
  <1>8. PreparedInv'
    BY <1>a, <1>b, AbsentFacts
  <1>9. QED
    BY <1>1, <1>2, <1>3, <1>4, <1>5, <1>6, <1>7, <1>8

\* upgradeAgent stops the service, or gives up when there is no agent.
LEMMA StopServiceStep == IInv /\ StopService => IInv'
  <1> SUFFICES ASSUME IInv, StopService PROVE IInv'
    OBVIOUS
  <1>1. CASE home
    BY <1>1, StopAgentStep
  <1>2. CASE ~home
    <2>1. /\ ~home /\ power # "off" /\ inst = "stop" /\ inst' = "idle"
          /\ UNCHANGED <<file, home, registered, media, power, devices, pc, stage,
                         adapter, input, complete, ghosts>>
      BY <1>2 DEF StopService, ghosts, marks
    <2>2. QED
      BY <2>1 DEF IInv, TypeOK, At, Live, Dead, devices, input, ghosts, marks, PreStatusFound,
                  ControlInv, InstallerInv, FailedInv, RecordedInv,
                     CompleteInv, AgentRecoverable, PreparedInv, Labels,
                     InstallerLabels, Stages, PreLabels, Stopping, Early, After
  <1>3. QED
    BY <1>1, <1>2

\* The installer.
LEMMA RemoveOldAgentStep == IInv /\ RemoveOldAgent => IInv'
  <1> SUFFICES ASSUME IInv, RemoveOldAgent PROVE IInv'
    OBVIOUS
  <1> USE BoundAssumption, ScriptCodesAssumption DEF IInv, TypeOK, At, Live, Dead,
     disk, devices, input, ghosts, marks, vars, PreStatusFound, Tag, ControlInv,
     InstallerInv, FailedInv, RecordedInv, CompleteInv, AgentRecoverable,
     PreparedInv, Labels, InstallerLabels, Stages, PreLabels, Stopping, Early, After
  <1>a. /\ file' \in StatusFiles
        /\ file'.kind = "absent"
        /\ \A t \in Tag : ~ReadChildOfRoot(file', t)
    BY AbsentFacts DEF RemoveOldAgent
  <1>1. TypeOK'
    <2>1. DiskTyped'
      BY <1>a DEF RemoveOldAgent, DiskTyped
    <2>2. MachineTyped'
      BY <1>a DEF RemoveOldAgent, MachineTyped
    <2>3. ProcessTyped'
      BY <1>a DEF RemoveOldAgent, ProcessTyped
    <2>4. GhostsTyped'
      BY <1>a DEF RemoveOldAgent, GhostsTyped
    <2>5. QED
      BY <2>1, <2>2, <2>3, <2>4 DEF TypeOK, DiskTyped, MachineTyped, ProcessTyped,
             GhostsTyped
  <1>2. ControlInv'
    BY <1>a DEF RemoveOldAgent
  <1>3. InstallerInv'
    BY <1>a DEF RemoveOldAgent
  <1>4. FailedInv'
    BY <1>a DEF RemoveOldAgent
  <1>5. RecordedInv'
    BY <1>a DEF RemoveOldAgent
  <1>6. CompleteInv'
    BY <1>a DEF RemoveOldAgent
  <1>7. AgentRecoverable'
    BY <1>a DEF RemoveOldAgent
  <1>8. PreparedInv'
    BY <1>a DEF RemoveOldAgent
  <1>9. QED
    BY <1>1, <1>2, <1>3, <1>4, <1>5, <1>6, <1>7, <1>8

\* installAgent.
LEMMA InstallNewAgentStep == IInv /\ InstallNewAgent => IInv'
  <1> SUFFICES ASSUME IInv, InstallNewAgent PROVE IInv'
    OBVIOUS
  <1> USE BoundAssumption, ScriptCodesAssumption DEF IInv, TypeOK, At, Live, Dead,
     disk, devices, input, ghosts, marks, vars, ControlInv, InstallerInv, FailedInv,
     RecordedInv, CompleteInv, AgentRecoverable, PreparedInv, Labels,
     InstallerLabels, Stages, PreLabels, Stopping, Early, After
  <1>1. TypeOK'
    <2>1. DiskTyped'
      BY DEF InstallNewAgent, DiskTyped
    <2>2. MachineTyped'
      BY DEF InstallNewAgent, MachineTyped
    <2>3. ProcessTyped'
      BY DEF InstallNewAgent, ProcessTyped
    <2>4. GhostsTyped'
      BY DEF InstallNewAgent, GhostsTyped
    <2>5. QED
      BY <2>1, <2>2, <2>3, <2>4 DEF TypeOK, DiskTyped, MachineTyped, ProcessTyped,
             GhostsTyped
  <1>2. ControlInv'
    BY DEF InstallNewAgent
  <1>3. InstallerInv'
    BY DEF InstallNewAgent
  <1>4. FailedInv'
    BY DEF InstallNewAgent
  <1>5. RecordedInv'
    BY DEF InstallNewAgent
  <1>6. CompleteInv'
    BY DEF InstallNewAgent
  <1>7. AgentRecoverable'
    BY DEF InstallNewAgent
  <1>8. PreparedInv'
    BY DEF InstallNewAgent
  <1>9. QED
    BY <1>1, <1>2, <1>3, <1>4, <1>5, <1>6, <1>7, <1>8

\* The new agent starts.
LEMMA StartServiceStep == IInv /\ StartService => IInv'
  <1> SUFFICES ASSUME IInv, StartService PROVE IInv'
    OBVIOUS
  <1> USE BoundAssumption, ScriptCodesAssumption DEF IInv, TypeOK, At, Live, Dead,
     disk, devices, input, ghosts, marks, vars, NewProcess, NewGhosts, ControlInv,
     InstallerInv, FailedInv, RecordedInv, CompleteInv, AgentRecoverable,
     PreparedInv, Labels, InstallerLabels, Stages, PreLabels, Stopping, Early, After
  <1>a. ProcessTyped' /\ stale' \in BOOLEAN /\ lost' \in SUBSET Elements
    BY NewProcessFacts DEF StartService
  <1>1. TypeOK'
    <2>1. DiskTyped'
      BY DEF StartService, DiskTyped
    <2>2. MachineTyped'
      BY DEF StartService, MachineTyped
    <2>3. ProcessTyped'
      BY <1>a DEF StartService
    <2>4. GhostsTyped'
      BY <1>a DEF StartService, GhostsTyped
    <2>5. QED
      BY <2>1, <2>2, <2>3, <2>4 DEF TypeOK, DiskTyped, MachineTyped, ProcessTyped,
             GhostsTyped
  <1>2. ControlInv'
    BY DEF StartService
  <1>3. InstallerInv'
    BY DEF StartService
  <1>4. FailedInv'
    BY DEF StartService
  <1>5. RecordedInv'
    BY DEF StartService
  <1>6. CompleteInv'
    BY DEF StartService
  <1>7. AgentRecoverable'
    BY DEF StartService
  <1>8. PreparedInv'
    BY DEF StartService
  <1>9. QED
    BY <1>1, <1>2, <1>3, <1>4, <1>5, <1>6, <1>7, <1>8

\* Power goes off, by init or by itself.
LEMMA PowerOffStep ==
  ASSUME IInv, power # "off", PowerOff(inst = "remove"), cuts' \in 0 .. MaxPowerCuts
  PROVE  IInv'
  <1> USE BoundAssumption, ScriptCodesAssumption DEF IInv, TypeOK, At, Live, Dead,
     disk, devices, input, ghosts, marks, vars, Follows, PreStatusFound, Tag,
     ControlInv, InstallerInv, FailedInv, RecordedInv, CompleteInv, AgentRecoverable,
     PreparedInv, Labels, InstallerLabels, Stages, PreLabels, Stopping, Early, After
  <1>a. /\ file' \in StatusFiles
        /\ home' \in BOOLEAN
        /\ registered' \in BOOLEAN
        /\ cut' \in BOOLEAN
        /\ cut => cut'
        /\ pc = "prerecord" => cut'
        /\ pc' \in Dead
        /\ pc' = "abend" <=> pc = "abend"
        /\ \/ home' = home /\ registered' = registered
           \/ ~registered' /\ (pc = "remove" \/ inst = "remove")
        /\ \/ Follows(file, file', Tag)
           \/ ~registered' /\ file' = Absent /\ (pc = "remove" \/ inst = "remove")
        /\ ReadChildOfRoot(file', "Complete")
             => ReadChildOfRoot(file, "Complete") \/ pc = "complete"
        /\ pc \in Dead => file' \in {file, Absent}
    BY DieFacts DEF PowerOff
  <1>b. /\ inst' = IF inst # "idle" /\ ~registered' THEN "broken" ELSE "idle"
        /\ power' = "off" /\ power # "off"
        /\ mounted' = FALSE /\ driver' = FALSE /\ present' = present
        /\ UNCHANGED <<media, stage, adapter, input, complete,
                       prepared, stale, failed, critical, lost>>
    BY DEF PowerOff
  <1>1. TypeOK'
    <2>1. DiskTyped'
      BY <1>a, <1>b, AbsentFacts DEF DiskTyped
    <2>2. MachineTyped'
      BY <1>a, <1>b, AbsentFacts DEF MachineTyped
    <2>3. ProcessTyped'
      BY <1>a, <1>b, AbsentFacts DEF ProcessTyped
    <2>4. GhostsTyped'
      BY <1>a, <1>b, AbsentFacts DEF GhostsTyped
    <2>5. QED
      BY <2>1, <2>2, <2>3, <2>4 DEF TypeOK, DiskTyped, MachineTyped, ProcessTyped,
             GhostsTyped
  <1>2. ControlInv'
    BY <1>a, <1>b, AbsentFacts
  <1>3. InstallerInv'
    BY <1>a, <1>b, AbsentFacts
  <1>4. FailedInv'
    BY <1>a, <1>b, AbsentFacts
  <1>5. RecordedInv'
    BY <1>a, <1>b, AbsentFacts
  <1>6. CompleteInv'
    BY <1>a, <1>b, AbsentFacts
  <1>7. AgentRecoverable'
    BY <1>a, <1>b, AbsentFacts
  <1>8. PreparedInv'
    BY <1>a, <1>b, AbsentFacts
  <1>9. QED
    BY <1>1, <1>2, <1>3, <1>4, <1>5, <1>6, <1>7, <1>8

\* A shutdown that was asked for.
LEMMA GoDownStep == IInv /\ GoDown => IInv'
  <1> SUFFICES ASSUME IInv, GoDown PROVE IInv'
    OBVIOUS
  <1>1. cuts' \in 0 .. MaxPowerCuts
    BY DEF GoDown, IInv, TypeOK
  <1>2. QED
    BY <1>1, PowerOffStep DEF GoDown

\* A power cut.
LEMMA PowerCutStep == IInv /\ PowerCut => IInv'
  <1> SUFFICES ASSUME IInv, PowerCut PROVE IInv'
    OBVIOUS
  <1>1. cuts' \in 0 .. MaxPowerCuts
    BY BoundAssumption DEF PowerCut, IInv, TypeOK
  <1>2. QED
    BY <1>1, PowerOffStep DEF PowerCut

\* The machine.
LEMMA BootStep == IInv /\ Boot => IInv'
  <1> SUFFICES ASSUME IInv, Boot PROVE IInv'
    OBVIOUS
  <1> USE BoundAssumption, ScriptCodesAssumption DEF IInv, TypeOK, At, Live, Dead,
     disk, devices, input, ghosts, marks, vars, NewProcess, NewGhosts, ControlInv,
     InstallerInv, FailedInv, RecordedInv, CompleteInv, AgentRecoverable,
     PreparedInv, Labels, InstallerLabels, Stages, PreLabels, Stopping, Early, After
  <1>a. /\ registered /\ home
        => /\ ProcessTyped'
           /\ stale' \in BOOLEAN
           /\ ~failed' /\ ~critical'
           /\ lost' \in SUBSET Elements
    BY NewProcessFacts DEF Boot
  <1>b. ~(registered /\ home) => ProcessTyped'
    BY DEF Boot, ProcessTyped
  <1>1. TypeOK'
    <2>1. DiskTyped'
      BY DEF Boot, DiskTyped
    <2>2. MachineTyped'
      BY DEF Boot, MachineTyped
    <2>3. ProcessTyped'
      BY <1>a, <1>b DEF Boot
    <2>4. GhostsTyped'
      BY <1>a DEF Boot, GhostsTyped
    <2>5. QED
      BY <2>1, <2>2, <2>3, <2>4 DEF TypeOK, DiskTyped, MachineTyped, ProcessTyped,
             GhostsTyped
  <1>2. ControlInv'
    BY DEF Boot
  <1>3. InstallerInv'
    BY DEF Boot
  <1>4. FailedInv'
    BY DEF Boot
  <1>5. RecordedInv'
    BY DEF Boot
  <1>6. CompleteInv'
    BY DEF Boot
  <1>7. AgentRecoverable'
    BY DEF Boot
  <1>8. PreparedInv'
    BY DEF Boot
  <1>9. QED
    BY <1>1, <1>2, <1>3, <1>4, <1>5, <1>6, <1>7, <1>8

-------------------------------------------------------------------------------
(* Where a fetch begins.  GuestAgent takes ObtainMountPoint for one step, IsoFetcher *)
(* for many, and each relies on what the other promises; DeviceInv is what the agent *)
(* promises.                                                                         *)

\* What is mounted has a device.  Up to the end of the process that found the
\* specialization, and for the agent an installer puts in its place, the driver of
\* the agent has one too, and that installer removes the status file on its way.
DeviceInv ==
  /\ mounted => present
  /\ power = "off" => ~mounted /\ ~driver
  /\ path = "iso" \/ inst \in {"stop", "remove", "install", "start"}
       => (driver => present)
  /\ inst \in {"install", "start"} => file = Absent
  /\ pc \in {"fetch", "load", "upgrade"} => inst = "idle"
  /\ FetchBeginsAsScanAssumes

\* A scan ends with a device under what is mounted, and finds only what it mounted.
LEMMA FetchDevices ==
  ASSUME NEW f, NEW m \in BOOLEAN, NEW d, NEW p \in BOOLEAN, FetchMayBegin(f, m, d, p),
         NEW end \in FetchEnds(f, m, d, p)
  PROVE  /\ end.mounted => end.present
         /\ end.result = "found" => end.present
  <1>1. ASSUME NEW g, NEW a, NEW e, end \in Scans(g, a, e)
        PROVE  /\ end.mounted => end.present
               /\ end.result = "found" => end.present
    BY <1>1 DEF Scans
  <1>2. CASE end \in Scans(f, FALSE, d)
    BY <1>1, <1>2
  <1>3. CASE end \in UNION {Scans(h, TRUE, TRUE) :
                             h \in UNION {AddChildToRoot(g, "Insmod") : g \in SetUp(f)}}
    <2>1. \E h : end \in Scans(h, TRUE, TRUE)
      BY <1>3
    <2>2. QED
      BY <1>1, <2>1
  <1>4. CASE ~p /\ end \in [file : {f}, managed : {FALSE}, mounted : {m}, driver : {d},
                            present : BOOLEAN, result : {"indeterminate"}]
    BY <1>4 DEF FetchMayBegin
  <1>5. QED
    BY <1>2, <1>3, <1>4 DEF FetchEnds

\* A fetch keeps what it began with.
LEMMA FetchKeepsDevices ==
  ASSUME IInv, DeviceInv, ObtainMountPoint
  PROVE  DeviceInv'
  <1>1. mounted \in BOOLEAN /\ present \in BOOLEAN /\ pc = "fetch" /\ power # "off"
    BY DEF IInv, TypeOK, ObtainMountPoint, At, Live
  <1>2. FetchMayBegin(file, mounted, driver, present)
    BY DEF DeviceInv, FetchBeginsAsScanAssumes, ObtainMountPoint
  <1>3. PICK end \in FetchEnds(file, mounted, driver, present) :
          /\ mounted' = end.mounted
          /\ present' = end.present
          /\ path' = IF end.result = "found" THEN "iso" ELSE "none"
    BY DEF ObtainMountPoint
  <1>4. /\ mounted' => present'
        /\ path' = "iso" => present'
    BY <1>1, <1>2, <1>3, FetchDevices
  <1>5. UNCHANGED <<power, inst>> /\ inst = "idle" /\ pc' \in {"load", "exited"}
    BY <1>1 DEF ObtainMountPoint, DeviceInv
  <1>6. QED
    BY <1>1, <1>4, <1>5 DEF DeviceInv, FetchBeginsAsScanAssumes, At

\* The other steps of a process touch the devices only where it unmounts, and no agent
\* comes back to its fetch.
LEMMA AgentKeepsDevices ==
  ASSUME IInv, DeviceInv, AgentStep
  PROVE  DeviceInv'
  <1> USE DEF disk, devices, input, ghosts, At, Live
  <1>1. CASE ObtainMountPoint
    BY <1>1, FetchKeepsDevices
  <1>2. CASE Unmount
    <2>1. /\ UNCHANGED <<power, path, inst, file>> /\ pc' \in {"shutdown", "abend"}
          /\ power # "off" /\ pc = "unmount"
      BY <1>2 DEF Unmount
    <2>2. mounted' => mounted
      <3>1. mounted' = mounted \/ mounted' = FALSE
        BY <1>2 DEF Unmount
      <3>2. QED
        BY <3>1
    <2>3. \/ UNCHANGED <<driver, present>>
          \/ driver' = FALSE /\ (present' = present \/ present' = mounted')
      <3>1. \/ UNCHANGED <<driver, present>>
            \/ driver' = FALSE /\ present' \in {present, mounted'}
        BY <1>2, Zenon DEF Unmount
      <3>2. present' \in {present, mounted'} => (present' = present \/ present' = mounted')
        OBVIOUS
      <3>3. QED
        BY <3>1, <3>2
    <2>4. mounted => present
      BY DEF DeviceInv
    <2>a. /\ mounted \in BOOLEAN /\ present \in BOOLEAN /\ driver \in BOOLEAN
          /\ mounted' \in BOOLEAN /\ present' \in BOOLEAN /\ driver' \in BOOLEAN
      BY <1>2, UnmountStep DEF IInv, TypeOK
    <2>5. mounted' => present'
      BY <2>2, <2>3, <2>4, <2>a
    <2>6. (driver => present) => (driver' => present')
      BY <2>3, <2>a
    <2>7. QED
      BY <2>1, <2>5, <2>6 DEF DeviceInv, FetchBeginsAsScanAssumes
  <1>3. CASE ReadConfigFile
    BY <1>3 DEF ReadConfigFile, DeviceInv, FetchBeginsAsScanAssumes
  <1>4. CASE InstallOrUpgradeAgent
    BY <1>4 DEF InstallOrUpgradeAgent, DeviceInv, FetchBeginsAsScanAssumes
  <1>5. CASE LoadXML
    BY <1>5 DEF LoadXML, DeviceInv, FetchBeginsAsScanAssumes
  <1>6. CASE SkipCfgpre \/ RunCfgpre \/ Reboot \/ SkipStage \/ RunStage
             \/ ReadSpecializationComplete \/ Shutdown
    <2>1. /\ UNCHANGED <<file, mounted, driver, present, path, inst>>
          /\ power \in {"on", "rebooting", "halting"} /\ power' # "off"
          /\ pc' \notin {"fetch", "load", "upgrade"}
      BY <1>6 DEF SkipCfgpre, RunCfgpre, Reboot, SkipStage, RunStage,
         ReadSpecializationComplete, Shutdown, Advance, IInv, TypeOK
    <2>2. QED
      BY <2>1 DEF DeviceInv, FetchBeginsAsScanAssumes
  <1>7. CASE AddStarted \/ RecordPreconfigured \/ RecordPreFailed \/ RecordFailed
             \/ RecordComplete \/ RemoveAgent
    <2>1. /\ UNCHANGED <<power, mounted, driver, present, path, inst>>
          /\ pc \notin Dead /\ pc' \notin {"fetch", "load", "upgrade"}
      BY <1>7 DEF AddStarted, RecordPreconfigured, RecordPreFailed, RecordFailed,
         RecordComplete, RemoveAgent, Dead
    <2>2. inst \notin {"install", "start"}
      BY <2>1 DEF IInv, InstallerInv
    <2>3. QED
      BY <2>1, <2>2 DEF DeviceInv, FetchBeginsAsScanAssumes
  <1>8. QED
    BY <1>1, <1>2, <1>3, <1>4, <1>5, <1>6, <1>7 DEF AgentStep

\* The installer starts its agent on what the one before left, without its file.
LEMMA InstallerKeepsDevices ==
  ASSUME IInv, DeviceInv, InstallerStep
  PROVE  DeviceInv'
  <1> USE DEF disk, devices, input, ghosts
  <1>1. CASE StopService /\ home
    <2>1. /\ UNCHANGED <<power, mounted, driver, present, path>>
          /\ power # "off" /\ inst = "stop" /\ inst' = "remove"
      BY <1>1 DEF StopService
    <2>2. pc' \in Dead
      BY <1>1, <2>1, DieFacts DEF StopService, IInv
    <2>3. QED
      BY <2>1, <2>2 DEF DeviceInv, FetchBeginsAsScanAssumes, At, Live, Dead
  <1>2. CASE StopService /\ ~home
    <2>1. /\ UNCHANGED <<file, media, pc, power, mounted, driver, present, path>>
          /\ inst = "stop" /\ inst' = "idle"
      BY <1>2 DEF StopService
    <2>2. QED
      BY <2>1 DEF DeviceInv, FetchBeginsAsScanAssumes, At, Live
  <1>3. CASE RemoveOldAgent
    <2>1. /\ UNCHANGED <<pc, power, mounted, driver, present, path>>
          /\ inst = "remove" /\ file' = Absent
      BY <1>3 DEF RemoveOldAgent
    <2>2. pc \in Dead
      BY <2>1 DEF IInv, InstallerInv
    <2>3. QED
      BY <2>1, <2>2 DEF DeviceInv, FetchBeginsAsScanAssumes, At, Live, Dead
  <1>4. CASE InstallNewAgent
    <2>1. /\ UNCHANGED <<file, pc, power, mounted, driver, present, path>>
          /\ inst = "install"
      BY <1>4 DEF InstallNewAgent
    <2>2. pc \in Dead
      BY <2>1 DEF IInv, InstallerInv
    <2>3. QED
      BY <2>1, <2>2 DEF DeviceInv, FetchBeginsAsScanAssumes, At, Live, Dead
  <1>5. CASE StartService
    <2>1. /\ UNCHANGED <<file, power, mounted, driver, present>>
          /\ inst = "start" /\ inst' = "idle" /\ power # "off" /\ path' = "none"
      BY <1>5 DEF StartService, NewProcess
    <2>2. FetchMayBegin(file, mounted, driver, present)'
      BY <2>1 DEF DeviceInv, FetchMayBegin
    <2>3. QED
      BY <2>1, <2>2 DEF DeviceInv, FetchBeginsAsScanAssumes
  <1>6. QED
    BY <1>1, <1>2, <1>3, <1>4, <1>5 DEF InstallerStep

\* Without power nothing is mounted and no driver loaded, and so it is at boot.
LEMMA PowerKeepsDevices ==
  ASSUME IInv, DeviceInv, GoDown \/ PowerCut \/ Boot
  PROVE  DeviceInv'
  <1> USE DEF disk, devices, input, ghosts
  <1>1. CASE GoDown \/ PowerCut
    <2>1. PowerOff(inst = "remove") /\ power # "off"
      BY <1>1 DEF GoDown, PowerCut
    <2>2. /\ ~mounted' /\ ~driver' /\ power' = "off"
          /\ inst' \in {"idle", "broken"}
      BY <2>1 DEF PowerOff
    <2>3. pc' \in Dead
      BY <2>1, DieFacts DEF PowerOff, IInv
    <2>4. QED
      BY <2>2, <2>3 DEF DeviceInv, FetchBeginsAsScanAssumes, At, Live, Dead
  <1>2. CASE Boot
    <2>1. /\ ~mounted' /\ ~driver'
          /\ inst' = inst /\ inst \in {"idle", "broken"}
          /\ pc \in Dead /\ power' = "on"
      BY <1>2 DEF Boot, DeviceInv, IInv, ControlInv
    <2>2. pc' \in {"fetch", "load", "upgrade"} => inst' = "idle"
      BY <1>2, <2>1 DEF Boot, IInv, InstallerInv, Dead
    <2>3. QED
      BY <2>1, <2>2 DEF DeviceInv, FetchBeginsAsScanAssumes, FetchMayBegin
  <1>3. QED
    BY <1>1, <1>2

\* All steps together.
LEMMA NextDeviceInv == IInv /\ DeviceInv /\ [Next]_vars => DeviceInv'
  <1> SUFFICES ASSUME IInv, DeviceInv, [Next]_vars PROVE DeviceInv'
    OBVIOUS
  <1>1. CASE UNCHANGED vars
    BY <1>1 DEF vars, DeviceInv, FetchBeginsAsScanAssumes, At, Live
  <1>2. QED
    BY <1>1, AgentKeepsDevices, InstallerKeepsDevices, PowerKeepsDevices DEF Next

-------------------------------------------------------------------------------
(* The theorems. *)

\* The daemon's first start, on any medium, satisfies the invariant.
LEMMA InitIInv == Init => IInv
  <1> SUFFICES ASSUME Init PROVE IInv
    OBVIOUS
  <1>1. DiskTyped
    BY AbsentFacts, MediaAssumption DEF Init, DiskTyped, MediaTypeOK
  <1>2. MachineTyped
    <2>1. media.present \in BOOLEAN
      BY MediaAssumption DEF Init, MediaTypeOK
    <2>2. QED
      BY <2>1 DEF Init, MachineTyped, InstallerLabels
  <1>3. 0 \in 0 .. Adapters /\ 0 \in 0 .. MaxPowerCuts
    BY BoundAssumption
  <1>4. ProcessTyped
    BY <1>3 DEF Init, ProcessTyped, Labels, Stages
  <1>5. GhostsTyped
    BY <1>3 DEF Init, GhostsTyped
  <1>6. ControlInv /\ InstallerInv
    BY DEF Init, ControlInv, InstallerInv, Dead, PreLabels, Stopping
  <1>7. FailedInv /\ RecordedInv
    BY DEF Init, FailedInv, RecordedInv
  <1>8. CompleteInv
    BY AbsentFacts DEF Init, CompleteInv
  <1>9. AgentRecoverable /\ PreparedInv
    BY DEF Init, AgentRecoverable, PreparedInv
  <1>10. QED
    BY <1>1, <1>2, <1>4, <1>5, <1>6, <1>7, <1>8, <1>9, TypeParts DEF IInv

\* Every step preserves the invariant.
LEMMA NextIInv == IInv /\ [Next]_vars => IInv'
  <1> SUFFICES ASSUME IInv, [Next]_vars PROVE IInv'
    OBVIOUS
  <1>1. CASE AgentStep
    BY <1>1, QuietStep, ObtainMountPointStep, AddStartedStep, RunCfgpreStep,
       RecordPreconfiguredStep, RecordPreFailedStep, RunStageStep,
       RecordFailedStep, RecordCompleteStep, ReadSpecializationCompleteStep,
       RemoveAgentStep, UnmountStep, ShutdownStep DEF AgentStep
  <1>2. CASE InstallerStep
    BY <1>2, StopServiceStep, RemoveOldAgentStep, InstallNewAgentStep,
       StartServiceStep DEF InstallerStep
  <1>3. CASE GoDown \/ PowerCut \/ Boot
    BY <1>3, GoDownStep, PowerCutStep, BootStep
  <1>4. CASE UNCHANGED vars
    BY <1>4, QuietStep
  <1>5. QED
    BY <1>1, <1>2, <1>3, <1>4 DEF Next

\* The inductive invariant holds in every reachable state: of main.cpp, the
\* configurators, TerminateSetup and the install script together, over any number
\* of adapters, any media and any number of power cuts.
THEOREM Invariance == Spec => []IInv
  BY InitIInv, NextIInv, PTL DEF Spec

\* Every variable keeps its type: in particular the adapter index of
\* NetworkConfigurator::Execute stays within vNetAdapters.
THEOREM TypeCorrect == Spec => []TypeOK
  <1>1. IInv => TypeOK
    BY DEF IInv
  <1>2. QED
    BY <1>1, Invariance, PTL

\* A process in which a checked command failed never adds SpecializationComplete:
\* TerminateSetup exits when the file does not say so already.
THEOREM CompletionIsSound == Spec => []CompleteMeansNoFailedStep
  <1>1. IInv => CompleteMeansNoFailedStep
    BY DEF IInv, FailedInv, CompleteMeansNoFailedStep
  <1>2. QED
    BY <1>1, Invariance, PTL

\* exit(-1) of TerminateSetup is reached only with the failure recorded, or with a
\* Write that the status file did not get, be it unreadable or its disk full.
THEOREM FailuresAreRecorded == Spec => []FailureIsRecorded
  <1>1. IInv => FailureIsRecorded
    BY DEF IInv, RecordedInv, FailureIsRecorded
  <1>2. QED
    BY <1>1, Invariance, PTL

\* However often anything fails or the power goes, an agent that did not complete
\* stays registered and installed, unless an upgrade was cut short.
THEOREM AgentStaysRecoverable == Spec => []AgentRecoverable
  <1>1. IInv => AgentRecoverable
    BY DEF IInv
  <1>2. QED
    BY <1>1, Invariance, PTL

\* cfgpre is repeated after a success only when the record of it was lost.
THEOREM CfgpreRunsOnce == Spec => []CfgpreNotRepeated
  <1>1. IInv => CfgpreNotRepeated
    BY DEF IInv, PreparedInv, CfgpreNotRepeated, At, Live, Early
  <1>2. QED
    BY <1>1, Invariance, PTL

\* SCVMM_HOME goes only in a removal that TerminateSetup decided on from the
\* status file, or in an upgrade.
THEOREM RemovalIsJustified == Spec => RemovedOnlyWhenComplete
  <1> DEFINE Justified == home /\ ~home' => \/ ReadChildOfRoot(file, "Complete")
                                           \/ inst = "remove"
  <1>1. IInv /\ [Next]_vars => [Justified]_vars
    <2> SUFFICES ASSUME IInv, Next, home, ~home'
                 PROVE  ReadChildOfRoot(file, "Complete") \/ inst = "remove"
      OBVIOUS
    <2> USE DEF IInv, ControlInv, At, disk, devices, input, ghosts
    <2>1. CASE AgentStep
      BY <2>1 DEF AgentStep, ObtainMountPoint, ReadConfigFile, LoadXML,
         InstallOrUpgradeAgent, AddStarted, SkipCfgpre, RunCfgpre,
         RecordPreconfigured, Reboot, RecordPreFailed, SkipStage, RunStage,
         RecordFailed, RecordComplete, ReadSpecializationComplete, RemoveAgent,
         Unmount, Shutdown
    <2>2. CASE StopService
      BY <2>2, DieFacts DEF StopService
    <2>3. CASE RemoveOldAgent \/ InstallNewAgent \/ StartService \/ Boot
      BY <2>3 DEF RemoveOldAgent, InstallNewAgent, StartService, Boot
    <2>4. CASE GoDown \/ PowerCut
      BY <2>4, DieFacts DEF GoDown, PowerCut, PowerOff
    <2>5. QED
      BY <2>1, <2>2, <2>3, <2>4 DEF Next, InstallerStep
  <1>2. QED
    BY <1>1, Invariance, PTL DEF Spec, RemovedOnlyWhenComplete

\* The agent keeps its side of FetchContract: ObtainMountPoint begins only in states
\* that IsoFetcher's scan is made for, also in an agent that was started in the place
\* of another, whose ISO may be mounted and whose driver is loaded still.
THEOREM FetchBeginsWell == Spec => []FetchBeginsAsScanAssumes
  <1>1. Init => DeviceInv
    BY DEF Init, DeviceInv, FetchBeginsAsScanAssumes, FetchMayBegin
  <1>2. DeviceInv => FetchBeginsAsScanAssumes
    BY DEF DeviceInv
  <1>3. QED
    BY <1>1, <1>2, NextDeviceInv, Invariance, PTL DEF Spec

-------------------------------------------------------------------------------
(* What RebootLoopOnlyWhenUnrecorded and the end of every process rest on beside *)
(* fairness.                                                                     *)

AfterCfgpre  == {"prerecord", "reboot"}
BeforeReboot == Early \cup AfterCfgpre

\* No verdict of cfgpre is found, so that it will be run or has just been run, by this
\* process or by the next one.
CfgpreDue == ~PreStatusFound(file) /\ (registered \/ pc \in BeforeReboot)

\* The file did not get the verdict when it was written last.
Unrecorded == "PreOK" \in lost

\* A torn file may still be replaced: only an upgrade does that, and there is one.
MayRepair == media.kit /\ inst \notin {"install", "broken"}

\* No reboot without its record, unless the file did not get it, and no upgrade without
\* the newer agent it installs.
BootInv ==
  /\ pc = "reboot" => PreStatusFound(file) \/ Unrecorded
  /\ inst \in {"stop", "remove", "install"} => media.kit
  /\ inst = "start" => ~media.kit

\* A reboot follows a cfgpre that was due.  It is due no more when its verdict was
\* written, and as long as the file is not torn only an upgrade makes it due again;
\* a torn file, or a lost verdict that is not written later, is made good by an
\* upgrade alone, and at most once.
SpendsReboots ==
  /\ media'.kit => media.kit
  /\ MayRepair' => MayRepair
  /\ file.kind = "torn" /\ file'.kind # "torn" => MayRepair /\ ~MayRepair'
  /\ Unrecorded /\ ~Unrecorded' => PreStatusFound(file)' \/ (MayRepair /\ ~MayRepair')
  /\ file'.kind # "torn" => (CfgpreDue' => CfgpreDue) \/ (media.kit /\ ~media'.kit)
  /\ pc \notin AfterCfgpre /\ pc' \in AfterCfgpre => CfgpreDue
  /\ power # "rebooting" /\ power' = "rebooting"
       => /\ PreStatusFound(file) \/ Unrecorded
          /\ pc \in AfterCfgpre /\ pc' \notin AfterCfgpre

\* A step that loses no verdict of cfgpre makes none due.
LEMMA DueKept ==
  ASSUME Follows(file, file', Tag), registered' => registered,
         pc' \in BeforeReboot => pc \in BeforeReboot
  PROVE  /\ file.kind = "torn" => file'.kind = "torn"
         /\ file'.kind # "torn" => (CfgpreDue' => CfgpreDue)
  <1>1. "PreOK" \in Tag /\ "PreFailed" \in Tag
    BY DEF Tag
  <1>2. file'.kind # "torn" /\ PreStatusFound(file) => PreStatusFound(file')
    BY <1>1 DEF Follows, PreStatusFound
  <1>3. QED
    BY <1>2 DEF CfgpreDue, Follows

LEMMA AgentSpendsReboots ==
  ASSUME IInv, BootInv, AgentStep
  PROVE  BootInv' /\ SpendsReboots
  <1> USE DEF disk, devices, input, ghosts, At, Live, AfterCfgpre, BeforeReboot, Unrecorded
  <1>0. TypeOK /\ file \in StatusFiles
    BY DEF IInv, TypeOK
  <1>1. CASE ObtainMountPoint
    <2>1. PICK end \in FetchEnds(file, mounted, driver, present) : file' = end.file
      BY <1>1 DEF ObtainMountPoint
    <2>2. Follows(file, file', {"Insmod"})
      BY <1>0, <2>1, FetchFacts DEF TypeOK
    <2>3. Follows(file, file', Tag)
      BY <2>2 DEF Follows, Tag
    <2>4. /\ UNCHANGED <<registered, media, power, inst, lost>>
          /\ pc = "fetch" /\ pc' \in {"load", "exited"}
      BY <1>1 DEF ObtainMountPoint
    <2>5. /\ file.kind = "torn" => file'.kind = "torn"
          /\ file'.kind # "torn" => (CfgpreDue' => CfgpreDue)
      BY <2>3, <2>4, DueKept DEF Early
    <2>6. QED
      BY <2>4, <2>5 DEF BootInv, SpendsReboots, MayRepair
  <1>2. CASE Reboot
    <2>1. /\ UNCHANGED <<file, registered, media, inst, lost>>
          /\ pc = "reboot" /\ pc' \in {"exited", "run"}
      BY <1>2 DEF Reboot
    <2>2. UNCHANGED PreStatusFound(file)
      BY <2>1 DEF PreStatusFound
    <2>3. QED
      BY <2>1, <2>2 DEF BootInv, SpendsReboots, MayRepair, CfgpreDue, Early
  <1>3. CASE AddStarted \/ RecordPreconfigured \/ RecordPreFailed \/ RecordFailed
             \/ RecordComplete
    <2>1. /\ UNCHANGED <<registered, media, inst, power>>
          /\ pc' \in BeforeReboot => pc \in BeforeReboot
          /\ pc' \in AfterCfgpre => pc \in AfterCfgpre /\ RecordPreconfigured
      BY <1>3 DEF AddStarted, RecordPreconfigured, RecordPreFailed, RecordFailed,
         RecordComplete, Early
    <2>2. \A tag \in Elements, f \in Instance(file, managed) \cup Instance(file, TRUE) :
            Adds(f, tag)
            => /\ Follows(file, file', {tag})
               /\ tag # "PreOK" => (Unrecorded' <=> Unrecorded)
               /\ tag = "PreOK" => (Unrecorded' <=> ~ReadChildOfRoot(file', "PreOK"))
      BY <1>0, AddsFacts DEF Elements, Tag
    <2>3. \E tag \in Elements, f \in Instance(file, managed) \cup Instance(file, TRUE) :
            Adds(f, tag) /\ (RecordPreconfigured => tag = "PreOK")
      BY <1>3 DEF AddStarted, RecordPreconfigured, RecordPreFailed, RecordFailed,
         RecordComplete, Elements, Tag, Instance
    <2>4. /\ Follows(file, file', Tag)
          /\ Unrecorded /\ ~Unrecorded' => PreStatusFound(file)'
          /\ RecordPreconfigured => PreStatusFound(file)' \/ Unrecorded'
      BY <2>2, <2>3 DEF Follows, PreStatusFound, Elements
    <2>5. /\ file.kind = "torn" => file'.kind = "torn"
          /\ file'.kind # "torn" => (CfgpreDue' => CfgpreDue)
      BY <2>1, <2>4, DueKept
    <2>6. QED
      BY <2>1, <2>4, <2>5 DEF BootInv, SpendsReboots, MayRepair
  <1>4. CASE RemoveAgent
    <2>1. /\ UNCHANGED <<media, inst, power, lost>> /\ pc' = "unmount" /\ pc = "remove"
      BY <1>4 DEF RemoveAgent
    <2>2. file.kind = "xml"
      BY <2>1 DEF IInv, ControlInv, ReadChildOfRoot
    <2>3. UNCHANGED <<file, registered>> \/ ~registered'
      <3>1. PICK left \in {Left(file, home, registered), Left(Absent, FALSE, FALSE)}
                           \cup Removals :
              file' = left.file /\ registered' = left.registered
        BY <1>4 DEF RemoveAgent
      <3>2. (left.file = file /\ left.registered = registered) \/ ~left.registered
        <4>1. CASE left \in {Left(file, home, registered), Left(Absent, FALSE, FALSE)}
          BY <4>1 DEF Left
        <4>2. CASE left \in [file : {file, Absent}, home : {home, FALSE}, registered : {FALSE}]
          BY <4>2
        <4>3. QED
          BY <4>1, <4>2 DEF Removals
      <3>3. QED
        BY <3>1, <3>2
    <2>4. CfgpreDue' => CfgpreDue
      <3>1. CASE UNCHANGED <<file, registered>>
        BY <2>1, <3>1 DEF CfgpreDue, Early, PreStatusFound
      <3>2. CASE ~registered'
        BY <2>1, <3>2 DEF CfgpreDue, Early
      <3>3. QED
        BY <2>3, <3>1, <3>2
    <2>5. QED
      BY <2>1, <2>2, <2>4 DEF BootInv, SpendsReboots, MayRepair
  <1>5. CASE InstallOrUpgradeAgent
    <2>1. /\ UNCHANGED <<disk, power, lost>> /\ pc = "upgrade" /\ pc' = "started"
          /\ inst' = inst \/ (inst' \in {"idle", "stop"} /\ media.kit /\ inst = "idle")
      BY <1>5 DEF InstallOrUpgradeAgent
    <2>2. QED
      BY <2>1 DEF BootInv, SpendsReboots, MayRepair, CfgpreDue, Early
  <1>6. CASE RunCfgpre
    <2>1. /\ UNCHANGED <<disk, power, inst, lost>> /\ pc = "prerun" /\ ~PreStatusFound(file)
          /\ pc' \in {"prerecord", "prefail", "run"}
      BY <1>6 DEF RunCfgpre
    <2>2. QED
      BY <2>1 DEF BootInv, SpendsReboots, MayRepair, CfgpreDue, Early
  <1>7. CASE ReadConfigFile \/ LoadXML \/ SkipCfgpre \/ SkipStage \/ RunStage
             \/ ReadSpecializationComplete \/ Unmount \/ Shutdown
    <2>1. /\ UNCHANGED <<disk, inst, lost>> /\ pc' \notin AfterCfgpre
          /\ (pc' \in Early => pc \in Early) /\ power' \in {power, "halting"}
      BY <1>7 DEF ReadConfigFile, LoadXML, SkipCfgpre, SkipStage, RunStage,
         ReadSpecializationComplete, Unmount, Shutdown, Advance, Early
    <2>2. QED
      BY <2>1 DEF BootInv, SpendsReboots, MayRepair, CfgpreDue
  <1>8. QED
    BY <1>1, <1>2, <1>3, <1>4, <1>5, <1>6, <1>7 DEF AgentStep

\* A death keeps the verdict of cfgpre, tears the file, or takes the registration with it.
LEMMA DeathMakesNoCfgpreDue ==
  ASSUME IInv, power # "off", NEW removing \in BOOLEAN, Die(removing)
  PROVE  /\ pc' \in Dead
         /\ file.kind = "torn" /\ file'.kind # "torn" => removing /\ ~registered'
         /\ file'.kind # "torn" => (CfgpreDue' => CfgpreDue)
  <1> USE DEF BeforeReboot, AfterCfgpre
  <1>1. /\ pc' \in Dead
        /\ registered' = registered \/ ~registered'
        /\ \/ Follows(file, file', Tag)
           \/ ~registered' /\ (pc = "remove" \/ removing)
    BY DieFacts DEF IInv
  <1>2. pc = "remove" => file.kind = "xml"
    BY DEF IInv, ControlInv, ReadChildOfRoot
  <1>3. CASE Follows(file, file', Tag)
    BY <1>1, <1>3, DueKept DEF Dead, Early
  <1>4. CASE ~registered' /\ (pc = "remove" \/ removing)
    BY <1>1, <1>2, <1>4 DEF CfgpreDue, Dead, Early
  <1>5. QED
    BY <1>1, <1>3, <1>4

LEMMA InstallerSpendsReboots ==
  ASSUME IInv, BootInv, InstallerStep
  PROVE  BootInv' /\ SpendsReboots
  <1> USE DEF disk, devices, input, ghosts, AfterCfgpre, BeforeReboot, Unrecorded
  <1>1. CASE StopService /\ home
    <2>1. /\ UNCHANGED <<media, power, lost>> /\ power # "off" /\ Die(FALSE)
          /\ inst = "stop" /\ inst' = "remove"
      BY <1>1, Zenon DEF StopService
    <2>2. /\ pc' \in Dead /\ (file.kind = "torn" => file'.kind = "torn")
          /\ file'.kind # "torn" => (CfgpreDue' => CfgpreDue)
      BY <2>1, DeathMakesNoCfgpreDue
    <2>3. QED
      BY <2>1, <2>2 DEF BootInv, SpendsReboots, MayRepair, Dead
  <1>2. CASE StopService /\ ~home
    <2>1. /\ UNCHANGED <<file, registered, pc, media, power, lost>>
          /\ inst = "stop" /\ inst' = "idle"
      BY <1>2 DEF StopService
    <2>2. QED
      BY <2>1 DEF BootInv, SpendsReboots, MayRepair, CfgpreDue, PreStatusFound
  <1>3. CASE RemoveOldAgent
    <2>1. /\ UNCHANGED <<pc, media, power>> /\ inst = "remove" /\ inst' = "install"
          /\ ~registered'
      BY <1>3 DEF RemoveOldAgent
    <2>2. pc \in Dead
      BY <2>1 DEF IInv, InstallerInv
    <2>3. QED
      BY <2>1, <2>2 DEF BootInv, SpendsReboots, MayRepair, CfgpreDue, Dead, Early
  <1>4. CASE InstallNewAgent
    <2>1. /\ UNCHANGED <<file, pc, power, lost>> /\ inst = "install"
          /\ \/ inst' = "start" /\ ~media'.kit
             \/ inst' = "broken" /\ UNCHANGED <<registered, media>>
      BY <1>4 DEF InstallNewAgent, IInv, TypeOK
    <2>2. media.kit
      BY <2>1 DEF BootInv
    <2>3. pc \in Dead
      BY <2>1 DEF IInv, InstallerInv
    <2>4. QED
      BY <2>1, <2>2, <2>3 DEF BootInv, SpendsReboots, MayRepair, CfgpreDue, Dead
  <1>5. CASE StartService
    <2>1. /\ UNCHANGED <<file, registered, media, power>> /\ inst = "start" /\ inst' = "idle"
          /\ pc' = "fetch" /\ (Unrecorded' <=> Unrecorded)
      BY <1>5 DEF StartService, NewProcess, NewGhosts
    <2>2. registered /\ ~media.kit
      BY <2>1 DEF IInv, InstallerInv, BootInv
    <2>3. QED
      BY <2>1, <2>2 DEF BootInv, SpendsReboots, MayRepair, CfgpreDue
  <1>6. QED
    BY <1>1, <1>2, <1>3, <1>4, <1>5 DEF InstallerStep

LEMMA PowerSpendsReboots ==
  ASSUME IInv, BootInv, GoDown \/ PowerCut \/ Boot
  PROVE  BootInv' /\ SpendsReboots
  <1> USE DEF disk, devices, input, ghosts, AfterCfgpre, BeforeReboot, Unrecorded
  <1>1. CASE GoDown \/ PowerCut
    <2>1. /\ PowerOff(inst = "remove") /\ power # "off" /\ power' = "off"
          /\ UNCHANGED <<media, lost>> /\ Die(inst = "remove")
      BY <1>1 DEF GoDown, PowerCut, PowerOff
    <2>2. inst' = IF inst # "idle" /\ ~registered' THEN "broken" ELSE "idle"
      BY <2>1 DEF PowerOff
    <2>3. /\ pc' \in Dead
          /\ file.kind = "torn" /\ file'.kind # "torn" => inst = "remove" /\ ~registered'
          /\ file'.kind # "torn" => (CfgpreDue' => CfgpreDue)
      BY <2>1, DeathMakesNoCfgpreDue
    <2>4. inst \in {"install", "broken"} => ~registered'
      <3>1. registered' => registered
        BY <2>1, DieFacts DEF IInv
      <3>2. QED
        BY <3>1 DEF IInv, InstallerInv
    <2>5. QED
      BY <2>1, <2>2, <2>3, <2>4 DEF BootInv, SpendsReboots, MayRepair, Dead
  <1>2. CASE Boot
    <2>1. /\ UNCHANGED <<file, registered, media, inst>> /\ power' = "on"
          /\ (Unrecorded' <=> Unrecorded)
          /\ pc' = pc \/ (pc' = "fetch" /\ registered)
      BY <1>2 DEF Boot, NewProcess, NewGhosts
    <2>2. pc \in Dead
      BY <1>2 DEF Boot, IInv, ControlInv
    <2>3. QED
      BY <2>1, <2>2 DEF BootInv, SpendsReboots, MayRepair, CfgpreDue, Early, Dead
  <1>3. QED
    BY <1>1, <1>2

LEMMA NextSpendsReboots ==
  IInv /\ BootInv /\ [Next]_vars => BootInv' /\ [SpendsReboots]_vars
  <1> SUFFICES ASSUME IInv, BootInv, [Next]_vars PROVE BootInv' /\ [SpendsReboots]_vars
    OBVIOUS
  <1>1. CASE UNCHANGED vars
    BY <1>1 DEF vars, BootInv, Unrecorded, PreStatusFound
  <1>2. QED
    BY <1>1, AgentSpendsReboots, InstallerSpendsReboots, PowerSpendsReboots DEF Next

\* Every reboot needs a cfgpre that was due, and makes it due no more, unless the file
\* did not get the verdict: so there is one reboot, and one more after an upgrade, as
\* long as the status file gets what the agent writes.
THEOREM RebootsAreBounded == Spec => [][SpendsReboots]_vars
  <1>1. Init => BootInv
    BY DEF Init, BootInv
  <1>2. QED
    BY <1>1, NextSpendsReboots, Invariance, PTL DEF Spec

\* A step that changes nothing spends nothing.
LEMMA SpendsOrStutters == [SpendsReboots]_vars => SpendsReboots
  <1>1. ASSUME UNCHANGED vars PROVE SpendsReboots
    BY <1>1 DEF vars, SpendsReboots, MayRepair, CfgpreDue, PreStatusFound, Unrecorded
  <1>2. QED
    BY <1>1

\* So if every shutdown comes to its end, as WF_vars(GoDown) demands, a machine that
\* reboots for ever has a status file that, from some time on, never gets the verdict
\* of cfgpre.
THEOREM RebootLoopNeedsLostRecord ==
  Spec /\ []<>~(power = "rebooting") => RebootLoopOnlyWhenUnrecorded
  <1> DEFINE TornFile == file.kind = "torn"
             Found    == PreStatusFound(file)
             Down     == power = "rebooting"
             Kit      == media.kit
             After2   == pc \in AfterCfgpre
             Lost     == "PreOK" \in lost
  <1>1. [SpendsReboots]_vars
          => /\ MayRepair' => MayRepair
             /\ TornFile /\ ~TornFile' => MayRepair /\ ~MayRepair'
             /\ Lost /\ ~Lost' => Found' \/ (MayRepair /\ ~MayRepair')
    BY SpendsOrStutters DEF SpendsReboots, Unrecorded
  <1>2. [SpendsReboots]_vars
          => /\ Kit' => Kit
             /\ ~TornFile' => (CfgpreDue' => CfgpreDue) \/ (Kit /\ ~Kit')
    BY SpendsOrStutters DEF SpendsReboots
  <1>3. [SpendsReboots]_vars
          => /\ ~After2 /\ After2' => CfgpreDue
             /\ ~Down /\ Down' => (Found \/ Lost) /\ After2 /\ ~After2'
    BY SpendsOrStutters DEF SpendsReboots, Unrecorded
  <1>4. (TornFile => ~Found) /\ (CfgpreDue => ~Found)
    BY DEF PreStatusFound, ReadChildOfRoot, CfgpreDue
  <1> HIDE DEF TornFile, Found, Down, Kit, After2, Lost
  <1>5. [][SpendsReboots]_vars => <>[]TornFile \/ <>[]~TornFile
    BY <1>1, PTL
  <1>6. [][SpendsReboots]_vars /\ <>[]~TornFile => <>[]CfgpreDue \/ <>[]~CfgpreDue
    BY <1>2, PTL
  <1>7. [][SpendsReboots]_vars /\ <>[]~Found /\ []<>~Down => ([]<>Down => <>[]Lost)
    BY <1>1, <1>3, PTL
  <1>8. [][SpendsReboots]_vars /\ <>[]~CfgpreDue /\ []<>~Down => <>[]~Down
    BY <1>3, PTL
  <1>9. Spec /\ []<>~Down => ([]<>Down => <>[]Lost)
    BY <1>4, <1>5, <1>6, <1>7, <1>8, RebootsAreBounded, PTL
  <1>10. QED
    BY <1>9 DEF Lost, Down, RebootLoopOnlyWhenUnrecorded

-------------------------------------------------------------------------------
(* A process has only so many steps. *)

\* The configurators that are still to be visited, each adapter counted for one.
Turns(s, a) ==
  CASE s = "Pre"        -> Adapters + 8
    [] s = "TimeZone"   -> Adapters + 7
    [] s = "HostDomain" -> Adapters + 6
    [] s = "Decode"     -> Adapters + 5
    [] s = "Users"      -> Adapters + 4
    [] s = "Network"    -> Adapters - a + 3
    [] s = "DynNetwork" -> 2
    [] s = "RunOnce"    -> 1
    [] OTHER            -> 0

\* The steps of main, and of one configurator with its way through TerminateSetup.
Steps(label) ==
  CASE label = "fetch"     -> 12
    [] label = "load"      -> 11
    [] label = "upgrade"   -> 10
    [] label = "started"   -> 9
    [] label = "prerun"    -> 8
    [] label \in {"prerecord", "prefail"} -> 7
    [] label \in {"reboot", "run"}        -> 6
    [] label \in {"fail", "complete"}     -> 5
    [] label = "terminate" -> 4
    [] label = "remove"    -> 3
    [] label = "unmount"   -> 2
    [] OTHER               -> 1

Fuel == IF pc \in Dead THEN 0 ELSE 7 * Turns(stage, adapter) + Steps(pc)

FuelIsBounded == Fuel \in 0 .. 7 * Adapters + 68

\* Every step of a process uses up some of it, and only a new process gets more.
SpendsFuel ==
  /\ AgentStep => Fuel' < Fuel
  /\ ~(Boot \/ StartService) => Fuel' <= Fuel

LEMMA FuelFacts ==
  /\ \A label \in Labels : Steps(label) \in 1 .. 12
  /\ \A s \in Stages, a \in 0 .. Adapters : Turns(s, a) \in 0 .. Adapters + 8
  /\ \A s \in Stages \ {"Post"}, a \in 0 .. Adapters :
       After[s] \in Stages /\ Turns(After[s], a) < Turns(s, a)
  /\ \A a \in 0 .. Adapters - 1 : Turns("Network", a + 1) < Turns("Network", a)
  <1>1. \A label \in Labels : Steps(label) \in 1 .. 12
    BY DEF Steps, Labels
  <1>2. \A s \in Stages, a \in 0 .. Adapters : Turns(s, a) \in 0 .. Adapters + 8
    BY BoundAssumption DEF Turns, Stages
  <1>3. \A s \in Stages \ {"Post"}, a \in 0 .. Adapters :
          After[s] \in Stages /\ Turns(After[s], a) < Turns(s, a)
    BY BoundAssumption DEF Turns, Stages, After
  <1>4. \A a \in 0 .. Adapters - 1 : Turns("Network", a + 1) < Turns("Network", a)
    BY BoundAssumption DEF Turns
  <1>5. QED
    BY <1>1, <1>2, <1>3, <1>4

\* A process goes on in its configurator, goes to a later one, or ends.
LEMMA FuelSpent ==
  ASSUME TypeOK, TypeOK', pc \notin Dead,
         \/ pc' \in Dead
         \/ UNCHANGED <<stage, adapter>> /\ Steps(pc') < Steps(pc)
         \/ Turns(stage', adapter') < Turns(stage, adapter) /\ Steps(pc') <= 6
  PROVE  Fuel' < Fuel
  <1>1. /\ Turns(stage, adapter) \in Nat /\ Turns(stage', adapter') \in Nat
        /\ Steps(pc) \in 1 .. 12 /\ Steps(pc') \in 1 .. 12
    BY FuelFacts, BoundAssumption DEF TypeOK
  <1>2. Fuel = 7 * Turns(stage, adapter) + Steps(pc)
    BY DEF Fuel
  <1>3. CASE pc' \in Dead
    BY <1>1, <1>2, <1>3 DEF Fuel
  <1>4. CASE pc' \notin Dead /\ UNCHANGED <<stage, adapter>> /\ Steps(pc') < Steps(pc)
    <2>1. Fuel' = 7 * Turns(stage, adapter) + Steps(pc')
      BY <1>4 DEF Fuel
    <2>2. QED
      BY <1>1, <1>2, <1>4, <2>1
  <1>5. CASE /\ pc' \notin Dead
             /\ Turns(stage', adapter') < Turns(stage, adapter) /\ Steps(pc') <= 6
    <2>1. Fuel' = 7 * Turns(stage', adapter') + Steps(pc')
      BY <1>5 DEF Fuel
    <2>2. QED
      BY <1>1, <1>2, <1>5, <2>1
  <1>6. QED
    BY <1>3, <1>4, <1>5

\* The configurator, or the adapter, that comes next.
LEMMA AdvanceSpends ==
  ASSUME TypeOK, Advance, stage = "Network" => adapter < Adapters
  PROVE  \/ pc' = "exited"
         \/ pc' = "run" /\ Turns(stage', adapter') < Turns(stage, adapter)
  <1>1. CASE stage = "Network"
    <2>1. stage' = "Network" /\ adapter' = adapter + 1 /\ pc' = "run"
      BY <1>1 DEF Advance
    <2>2. adapter \in 0 .. Adapters - 1
      BY <1>1, BoundAssumption DEF TypeOK
    <2>3. QED
      BY <1>1, <2>1, <2>2, FuelFacts
  <1>2. CASE stage = "Post"
    BY <1>2 DEF Advance
  <1>3. CASE stage \in Stages \ {"Network", "Post"}
    <2>1. stage' = After[stage] /\ adapter' = adapter /\ pc' = "run"
      BY <1>3 DEF Advance
    <2>2. adapter \in 0 .. Adapters
      BY DEF TypeOK
    <2>3. QED
      BY <1>3, <2>1, <2>2, FuelFacts
  <1>4. QED
    BY <1>1, <1>2, <1>3 DEF TypeOK

LEMMA AgentSpendsFuel ==
  ASSUME IInv, IInv', AgentStep
  PROVE  Fuel' < Fuel
  <1> USE DEF At, Live, Dead
  <1>0. TypeOK /\ TypeOK' /\ stage \in Stages /\ adapter \in 0 .. Adapters
    BY DEF IInv, TypeOK
  <1>1. CASE ObtainMountPoint \/ ReadConfigFile \/ LoadXML \/ InstallOrUpgradeAgent
             \/ AddStarted \/ RecordPreconfigured \/ RecordPreFailed \/ RecordFailed
             \/ RecordComplete \/ ReadSpecializationComplete \/ RemoveAgent \/ Unmount
    <2>1. /\ UNCHANGED <<stage, adapter>> /\ pc \notin Dead
          /\ \/ pc' \in Dead
             \/ pc = "fetch" /\ pc' = "load"
             \/ pc = "load" /\ pc' = "upgrade"
             \/ pc = "upgrade" /\ pc' = "started"
             \/ pc = "started" /\ pc' = "prerun"
             \/ pc = "prerecord" /\ pc' = "reboot"
             \/ pc = "prefail" /\ pc' = "fail"
             \/ pc \in {"fail", "complete"} /\ pc' = "terminate"
             \/ pc = "terminate" /\ pc' \in {"remove", "unmount"}
             \/ pc = "remove" /\ pc' = "unmount"
             \/ pc = "unmount" /\ pc' = "shutdown"
      BY <1>1 DEF ObtainMountPoint, ReadConfigFile, LoadXML, InstallOrUpgradeAgent,
         AddStarted, RecordPreconfigured, RecordPreFailed, RecordFailed, RecordComplete,
         ReadSpecializationComplete, RemoveAgent, Unmount
    <2>2. pc' \in Dead \/ Steps(pc') < Steps(pc)
      BY <2>1 DEF Steps
    <2>3. QED
      BY <1>0, <2>1, <2>2, FuelSpent
  <1>a. RunCfgpre
          => \/ /\ pc = "prerun" /\ pc' \in {"prerecord", "prefail"}
                /\ UNCHANGED <<stage, adapter>>
             \/ /\ pc = "prerun" /\ pc' = "run"
                /\ stage' = After[stage] /\ adapter' = adapter
    <2>1. ExecuteReturns \subseteq Int
      BY ScriptCodesAssumption DEF ExecuteReturns, WExitStatus
    <2>2. SUFFICES ASSUME RunCfgpre
                   PROVE  /\ pc = "prerun" /\ adapter' = adapter
                          /\ \/ pc' \in {"prerecord", "prefail"} /\ stage' = stage
                             \/ pc' = "run" /\ stage' = After[stage]
      OBVIOUS
    <2>3. PICK ret \in ExecuteReturns :
            /\ pc' = IF ret = 0 THEN "prerecord" ELSE IF ret < 0 THEN "prefail" ELSE "run"
            /\ stage' = IF ret > 0 THEN After[stage] ELSE stage
      BY <2>2 DEF RunCfgpre
    <2>4. pc = "prerun" /\ adapter' = adapter
      BY <2>2 DEF RunCfgpre
    <2>5. QED
      BY <2>1, <2>3, <2>4
  <1>2. CASE SkipCfgpre \/ SkipStage \/ (Reboot /\ pc' = "run")
             \/ (RunCfgpre /\ pc' = "run")
    <2>1. /\ pc' = "run" /\ pc \notin Dead /\ adapter' = adapter /\ stage' = After[stage]
          /\ stage # "Post"
      <3>1. CASE SkipStage
        BY <3>1 DEF SkipStage, Visited, Optional
      <3>2. CASE SkipCfgpre \/ ((Reboot \/ RunCfgpre) /\ pc' = "run")
        <4>1. stage = "Pre"
          BY <3>2 DEF SkipCfgpre, Reboot, RunCfgpre, IInv, ControlInv, PreLabels
        <4>2. QED
          BY <1>a, <1>2, <3>2, <4>1 DEF SkipCfgpre, Reboot
      <3>3. QED
        BY <1>2, <3>1, <3>2
    <2>2. Turns(stage', adapter') < Turns(stage, adapter) /\ Steps(pc') <= 6
      BY <1>0, <2>1, FuelFacts DEF Steps
    <2>3. QED
      BY <1>0, <2>1, <2>2, FuelSpent
  <1>3. CASE Reboot /\ pc' # "run"
    BY <1>0, <1>3, FuelSpent DEF Reboot
  <1>4. CASE RunCfgpre /\ pc' # "run"
    <2>1. /\ pc = "prerun" /\ pc' \in {"prerecord", "prefail"} /\ UNCHANGED <<stage, adapter>>
      BY <1>a, <1>4
    <2>2. Steps(pc') < Steps(pc)
      BY <2>1 DEF Steps
    <2>3. QED
      BY <1>0, <2>1, <2>2, FuelSpent
  <1>5. CASE RunStage
    <2>1. /\ pc = "run"
          /\ \/ pc' \in {"fail", "complete"} /\ UNCHANGED <<stage, adapter>>
             \/ Advance
      BY <1>5 DEF RunStage
    <2>2. stage = "Network" => adapter < Adapters
      BY <1>5 DEF RunStage, Visited
    <2>3. CASE pc' \in {"fail", "complete"} /\ UNCHANGED <<stage, adapter>>
      <3>1. Steps(pc') < Steps(pc)
        BY <2>1, <2>3 DEF Steps
      <3>2. QED
        BY <1>0, <2>1, <2>3, <3>1, FuelSpent
    <2>4. CASE Advance
      <3>1. \/ pc' = "exited"
            \/ Turns(stage', adapter') < Turns(stage, adapter) /\ Steps(pc') <= 6
        BY <1>0, <2>2, <2>4, AdvanceSpends DEF Steps
      <3>2. QED
        BY <1>0, <2>1, <3>1, FuelSpent
    <2>5. QED
      BY <2>1, <2>3, <2>4
  <1>6. CASE Shutdown
    <2>1. pc = "shutdown" /\ (pc' = "exited" \/ Advance)
      BY <1>6 DEF Shutdown
    <2>2. stage = "Network" => adapter < Adapters
      BY <2>1 DEF IInv, ControlInv, Stopping
    <2>3. \/ pc' = "exited"
          \/ Turns(stage', adapter') < Turns(stage, adapter) /\ Steps(pc') <= 6
      BY <1>0, <2>1, <2>2, AdvanceSpends DEF Steps
    <2>4. QED
      BY <1>0, <2>1, <2>3, FuelSpent
  <1>7. QED
    BY <1>1, <1>2, <1>3, <1>4, <1>5, <1>6 DEF AgentStep

\* A process has at most 7 * Adapters + 68 steps, whatever fails on its way: with
\* WF_vars(AgentStep) it comes to its end, as AgentLifecycle promises.
THEOREM ProcessIsBounded == Spec => []FuelIsBounded /\ [][SpendsFuel]_vars
  <1>1. IInv => FuelIsBounded
    <2> SUFFICES ASSUME IInv PROVE FuelIsBounded
      OBVIOUS
    <2>1. Turns(stage, adapter) \in 0 .. Adapters + 8 /\ Steps(pc) \in 1 .. 12
      BY FuelFacts DEF IInv, TypeOK
    <2>2. QED
      BY <2>1, BoundAssumption DEF FuelIsBounded, Fuel
  <1>2. ASSUME IInv, IInv', Next PROVE SpendsFuel
    <2>0. Fuel \in Nat /\ Fuel' \in Nat
      <3>1. Turns(stage, adapter) \in Nat /\ Turns(stage', adapter') \in Nat
            /\ Steps(pc) \in Nat /\ Steps(pc') \in Nat
        BY <1>2, FuelFacts, BoundAssumption DEF IInv, TypeOK
      <3>2. QED
        BY <3>1 DEF Fuel
    <2>1. CASE AgentStep
      BY <1>2, <2>0, <2>1, AgentSpendsFuel DEF SpendsFuel
    <2>2. ASSUME ~AgentStep, ~(Boot \/ StartService) PROVE Fuel' <= Fuel
      <3>1. pc' \in Dead \/ UNCHANGED <<pc, stage, adapter>>
        <4>1. CASE StopService
          BY <1>2, <4>1, DieFacts DEF StopService, IInv
        <4>2. CASE RemoveOldAgent \/ InstallNewAgent
          BY <4>2 DEF RemoveOldAgent, InstallNewAgent
        <4>3. CASE GoDown \/ PowerCut
          BY <1>2, <4>3, DieFacts DEF GoDown, PowerCut, PowerOff, IInv
        <4>4. QED
          BY <1>2, <2>2, <4>1, <4>2, <4>3 DEF Next, InstallerStep
      <3>2. QED
        BY <2>0, <3>1 DEF Fuel
    <2>3. QED
      BY <2>1, <2>2 DEF SpendsFuel
  <1>3. QED
    BY <1>1, <1>2, NextIInv, InitIInv, PTL DEF Spec

-------------------------------------------------------------------------------
(* What EventuallySpecialized rests on beside the end of processes and reboots. *)

\* The specialization is not lost: the agent runs, the next boot starts it, or the
\* machine, specialized and without its agent, is shutting down or off.
Done == complete /\ ~registered /\ ~home /\ power \in {"halting", "off"}

ToGoOn ==
  \/ Live
  \/ power \in {"rebooting", "off"} /\ registered /\ home
  \/ Done

\* The way of an agent that meets no mishap.
SmoothInv ==
  /\ inst = "idle"
  /\ Live => power = "on"
  /\ pc \notin {"prefail", "fail", "abend"}
  /\ pc \in {"terminate", "remove", "unmount", "shutdown"} => stage = "Post"
  /\ pc = "terminate" => ReadChildOfRoot(file, "Complete")
  /\ CASE pc \in {"unmount", "shutdown"} -> complete /\ ~home /\ ~registered
       [] pc = "exited" -> Done \/ (power \in {"rebooting", "off"} /\ registered /\ home)
       [] OTHER -> home /\ registered

\* From a start to the end of cfgpre and the reboot after it.
LEMMA PreparationGoesOn ==
  ASSUME IInv, SmoothInv, ~Mishap, ~Mishap',
         \/ ObtainMountPoint \/ ReadConfigFile \/ LoadXML \/ InstallOrUpgradeAgent
         \/ AddStarted \/ SkipCfgpre \/ RunCfgpre \/ RecordPreconfigured \/ Reboot
  PROVE  SmoothInv'
  <1> USE DEF disk, devices, input, ghosts, At, Live
  <1>0. /\ inst = "idle"
        /\ pc \in Early \cup {"prerecord", "reboot"} => home /\ registered
        /\ pc' = "exited" => power' # "on"
    BY DEF SmoothInv, Mishap, Early
  <1>1. CASE ObtainMountPoint
    <2>1. /\ pc = "fetch" /\ pc' \in {"load", "exited"} /\ power = "on"
          /\ UNCHANGED <<power, home, registered, inst>>
      BY <1>1 DEF ObtainMountPoint, SmoothInv
    <2>2. QED
      BY <1>0, <2>1 DEF SmoothInv, Early
  <1>2. CASE ReadConfigFile
    BY <1>2 DEF ReadConfigFile, Mishap
  <1>3. CASE LoadXML \/ InstallOrUpgradeAgent
    <2>1. /\ pc \in {"load", "upgrade"} /\ pc' \in {"upgrade", "started", "exited"}
          /\ power = "on" /\ UNCHANGED <<disk, power>>
      BY <1>3 DEF LoadXML, InstallOrUpgradeAgent, SmoothInv
    <2>2. inst' = "idle"
      BY <1>0, <1>3 DEF LoadXML, InstallOrUpgradeAgent, Mishap
    <2>3. QED
      BY <1>0, <2>1, <2>2 DEF SmoothInv, Early
  <1>4. CASE AddStarted
    <2>1. /\ pc = "started" /\ pc' = "prerun"
          /\ power = "on" /\ UNCHANGED <<power, home, registered, inst>>
      BY <1>4 DEF AddStarted, SmoothInv
    <2>2. QED
      BY <1>0, <2>1 DEF SmoothInv, Early
  <1>5. CASE SkipCfgpre \/ RunCfgpre
    <2>1. /\ pc = "prerun" /\ power = "on"
          /\ UNCHANGED <<disk, power, inst>>
      BY <1>5 DEF SkipCfgpre, RunCfgpre, SmoothInv
    <2>2. pc' \in {"run", "prerecord"}
      <3>1. CASE SkipCfgpre
        BY <3>1 DEF SkipCfgpre
      <3>2. CASE RunCfgpre
        <4>1. PICK ret \in ExecuteReturns :
                /\ pc' = IF ret = 0 THEN "prerecord" ELSE IF ret < 0 THEN "prefail" ELSE "run"
                /\ failed' = (failed \/ ret < 0)
          BY <3>2 DEF RunCfgpre
        <4>2. ~failed'
          BY DEF Mishap
        <4>3. QED
          BY <4>1, <4>2
      <3>3. QED
        BY <1>5, <3>1, <3>2
    <2>3. QED
      BY <1>0, <2>1, <2>2 DEF SmoothInv, Early
  <1>6. CASE RecordPreconfigured
    <2>1. /\ pc = "prerecord" /\ pc' = "reboot"
          /\ power = "on" /\ UNCHANGED <<power, home, registered, inst>>
      BY <1>6 DEF RecordPreconfigured, SmoothInv
    <2>2. QED
      BY <1>0, <2>1 DEF SmoothInv
  <1>7. CASE Reboot
    <2>1. /\ pc = "reboot" /\ power = "on" /\ UNCHANGED <<disk, inst>>
          /\ \/ power' = "rebooting" /\ pc' = "exited"
             \/ power' = power /\ pc' = "run"
      BY <1>7 DEF Reboot, SmoothInv
    <2>2. QED
      BY <1>0, <2>1 DEF SmoothInv
  <1>8. QED
    BY <1>1, <1>2, <1>3, <1>4, <1>5, <1>6, <1>7

\* The other configurators, and TerminateSetup.
LEMMA ConfigurationGoesOn ==
  ASSUME IInv, SmoothInv, ~Mishap, ~Mishap',
         \/ RecordPreFailed \/ SkipStage \/ RunStage \/ RecordFailed \/ RecordComplete
         \/ ReadSpecializationComplete \/ RemoveAgent \/ Unmount \/ Shutdown
  PROVE  SmoothInv'
  <1> USE DEF disk, devices, input, ghosts, At, Live
  <1>0. /\ inst = "idle" /\ ~failed'
        /\ pc \in {"run", "complete", "terminate", "remove"} => home /\ registered
        /\ pc \in {"unmount", "shutdown"} => complete /\ ~home /\ ~registered
        /\ pc' = "exited" => power' # "on"
    BY DEF SmoothInv, Mishap
  <1>1. CASE RecordPreFailed \/ RecordFailed
    BY <1>1 DEF RecordPreFailed, RecordFailed, SmoothInv
  <1>2. CASE SkipStage \/ RunStage
    <2>1. /\ pc = "run" /\ power = "on"
          /\ UNCHANGED <<disk, power, inst>>
      BY <1>2 DEF SkipStage, RunStage, SmoothInv
    <2>2. pc' \in {"run", "complete"}
      <3>1. CASE SkipStage
        BY <3>1 DEF SkipStage
      <3>2. CASE RunStage
        <4>1. PICK ret \in CommandReturns :
                /\ IF stage \in Checked /\ ret < 0
                   THEN pc' = "fail"
                   ELSE IF stage = "Post" THEN pc' = "complete" ELSE Advance
                /\ failed' = (failed \/ (stage \in Checked /\ ret < 0))
          BY <3>2 DEF RunStage
        <4>2. QED
          BY <1>0, <4>1 DEF Advance
      <3>3. QED
        BY <1>2, <3>1, <3>2
    <2>3. QED
      BY <1>0, <2>1, <2>2 DEF SmoothInv
  <1>3. CASE RecordComplete
    <2>1. /\ pc = "complete" /\ pc' = "terminate" /\ Adds(file, "Complete")
          /\ power = "on" /\ UNCHANGED <<power, home, registered, inst, stage>>
      BY <1>3 DEF RecordComplete, SmoothInv
    <2>2. ReadChildOfRoot(file', "Complete")
      BY <2>1 DEF Adds, Mishap
    <2>3. stage = "Post"
      BY <2>1 DEF IInv, ControlInv
    <2>4. QED
      BY <1>0, <2>1, <2>2, <2>3 DEF SmoothInv
  <1>4. CASE ReadSpecializationComplete
    <2>1. /\ pc = "terminate" /\ pc' = "remove" /\ stage = "Post"
          /\ power = "on" /\ UNCHANGED <<disk, power, inst, stage>>
      BY <1>4 DEF ReadSpecializationComplete, SmoothInv
    <2>2. QED
      BY <1>0, <2>1 DEF SmoothInv
  <1>5. CASE RemoveAgent
    <2>1. /\ pc = "remove" /\ pc' = "unmount" /\ stage = "Post" /\ complete
          /\ power = "on" /\ UNCHANGED <<power, inst, stage, complete>>
      BY <1>5 DEF RemoveAgent, SmoothInv, IInv, ControlInv
    <2>2. ~home' /\ ~registered'
      BY <2>1 DEF Mishap
    <2>3. QED
      BY <1>0, <2>1, <2>2 DEF SmoothInv
  <1>6. CASE Unmount
    <2>1. /\ pc = "unmount" /\ pc' = "shutdown" /\ stage = "Post" /\ power = "on"
          /\ UNCHANGED <<disk, power, inst, stage, complete>>
      BY <1>0, <1>6 DEF Unmount, SmoothInv
    <2>2. QED
      BY <1>0, <2>1 DEF SmoothInv
  <1>7. CASE Shutdown
    <2>1. /\ pc = "shutdown" /\ stage = "Post" /\ power = "on"
          /\ UNCHANGED <<disk, inst, complete>>
          /\ pc' = "exited" /\ power' \in {"halting", power}
      BY <1>7 DEF Shutdown, SmoothInv, Advance
    <2>2. QED
      BY <1>0, <2>1 DEF SmoothInv, Done
  <1>8. QED
    BY <1>1, <1>2, <1>3, <1>4, <1>5, <1>6, <1>7

\* No installer runs; a machine goes down after its agent and comes up with it.
LEMMA MachineGoesOn ==
  ASSUME IInv, SmoothInv, ~Mishap, ~Mishap', InstallerStep \/ GoDown \/ PowerCut \/ Boot
  PROVE  SmoothInv'
  <1> USE DEF disk, devices, input, ghosts
  <1>1. CASE InstallerStep
    BY <1>1 DEF InstallerStep, StopService, RemoveOldAgent, InstallNewAgent, StartService,
       SmoothInv
  <1>2. CASE PowerCut
    BY <1>2 DEF PowerCut, Mishap, IInv, TypeOK
  <1>3. CASE GoDown
    <2>1. /\ power \in {"rebooting", "halting"} /\ power' = "off" /\ inst = "idle"
          /\ Die(inst = "remove") /\ UNCHANGED <<stage, complete>>
          /\ inst' = IF inst # "idle" /\ ~registered' THEN "broken" ELSE "idle"
      BY <1>3 DEF GoDown, PowerOff, SmoothInv
    <2>2. ~Live /\ pc = "exited"
      BY <2>1 DEF SmoothInv, Live
    <2>3. UNCHANGED <<file, home, registered, pc>>
      <3>1. PICK left \in {Left(f, home, registered) : f \in FilesAfterDeath} :
              file' = left.file /\ home' = left.home /\ registered' = left.registered
        BY <2>1, <2>2 DEF Die, At
      <3>2. FilesAfterDeath = {file}
        BY <2>2 DEF FilesAfterDeath, At
      <3>3. QED
        BY <2>1, <2>2, <3>1, <3>2 DEF Left, Die
    <2>4. QED
      BY <2>1, <2>2, <2>3 DEF SmoothInv, Live, Done
  <1>4. CASE Boot
    <2>1. /\ power = "off" /\ power' = "on" /\ UNCHANGED <<disk, inst>> /\ pc = "exited"
          /\ pc' = "fetch" \/ pc' = pc
          /\ pc' = "fetch" => home /\ registered
      BY <1>4 DEF Boot, NewProcess, IInv, ControlInv, SmoothInv, Dead
    <2>2. pc' = "fetch"
      BY <2>1 DEF Mishap
    <2>3. QED
      BY <2>1, <2>2 DEF SmoothInv, Live
  <1>5. QED
    BY <1>1, <1>2, <1>3, <1>4

LEMMA SmoothWithoutMishap == Spec /\ []~Mishap => []SmoothInv
  <1>1. Init /\ ~Mishap => SmoothInv
    <2> SUFFICES ASSUME Init, ~Mishap PROVE SmoothInv
      OBVIOUS
    <2>1. media.mode = "iso"
      BY DEF Mishap
    <2>2. registered /\ home /\ pc = "fetch" /\ power = "on" /\ inst = "idle"
      BY <2>1 DEF Init
    <2>3. QED
      BY <2>2 DEF SmoothInv
  <1>2. ASSUME IInv, SmoothInv, ~Mishap, ~Mishap', [Next]_vars
        PROVE  SmoothInv'
    <2>1. CASE UNCHANGED vars
      BY <1>2, <2>1 DEF vars, SmoothInv, Live, Done
    <2>2. CASE Next
      BY <1>2, <2>2, PreparationGoesOn, ConfigurationGoesOn, MachineGoesOn DEF Next, AgentStep
    <2>3. QED
      BY <1>2, <2>1, <2>2
  <1>3. QED
    BY <1>1, <1>2, Invariance, PTL DEF Spec

\* Until a mishap happens, which is the first thing that can stop it, the specialization
\* is never lost: killed and failing scripts that nobody checks do not matter.
THEOREM OnlyMishapsStopIt == Spec /\ []~Mishap => []ToGoOn
  <1>1. SmoothInv => ToGoOn
    BY DEF SmoothInv, ToGoOn, Live, Done
  <1>2. QED
    BY <1>1, SmoothWithoutMishap, PTL

\* Without a mishap the machine leaves the power-on state for a reboot or specialized.
LEMMA SmoothPower ==
  ASSUME SmoothInv, ~Mishap, ~Mishap', [Next]_vars, TypeOK, power = "on", power' # "on"
  PROVE  power' = "rebooting" \/ (complete' /\ ~registered' /\ ~home' /\ power' = "halting")
  <1> USE DEF disk, devices, input, ghosts
  <1>1. CASE Reboot
    BY <1>1 DEF Reboot
  <1>2. CASE Shutdown
    BY <1>2 DEF Shutdown, SmoothInv, At, TypeOK
  <1>3. CASE AgentStep /\ ~Reboot /\ ~Shutdown
    BY <1>3 DEF AgentStep, ObtainMountPoint, ReadConfigFile, LoadXML, InstallOrUpgradeAgent,
       AddStarted, SkipCfgpre, RunCfgpre, RecordPreconfigured, RecordPreFailed, SkipStage,
       RunStage, RecordFailed, RecordComplete, ReadSpecializationComplete, RemoveAgent, Unmount
  <1>4. CASE InstallerStep
    BY <1>4 DEF InstallerStep, StopService, RemoveOldAgent, InstallNewAgent, StartService,
       SmoothInv
  <1>5. CASE PowerCut
    BY <1>5 DEF PowerCut, Mishap, TypeOK
  <1>6. CASE GoDown \/ Boot \/ UNCHANGED vars
    BY <1>6 DEF GoDown, Boot, vars
  <1>7. QED
    BY <1>1, <1>2, <1>3, <1>4, <1>5, <1>6 DEF Next

\* So if no process runs for ever and the machine comes up again, as the fairness of
\* FairSpec demands, a specialization without a mishap comes to its end: a reboot needs
\* what the one before it has used up.
THEOREM SpecializationEnds ==
  Spec /\ []<>~Live /\ []<>(power = "on") => EventuallySpecialized
  <1> DEFINE On       == power = "on"
             Down     == power = "rebooting"
             TornFile == file.kind = "torn"
             Found    == PreStatusFound(file)
             After2   == pc \in AfterCfgpre
             Stopped  == Mishap
             Goal     == complete /\ ~registered /\ ~home /\ power = "halting"
  <1>1. IInv /\ SmoothInv /\ ~Stopped => (On => Live)
    BY DEF SmoothInv, Live, Mishap
  <1>2. On => ~Down
    OBVIOUS
  <1>3. /\ IInv /\ SmoothInv /\ ~Stopped /\ ~Stopped' /\ [Next]_vars
        => (On /\ ~On' => Down' \/ Goal')
    BY SmoothPower DEF IInv
  <1>4. ~Stopped /\ [SpendsReboots]_vars
        => /\ TornFile => TornFile'
           /\ ~TornFile' => (CfgpreDue' => CfgpreDue)
           /\ ~After2 /\ After2' => CfgpreDue
           /\ ~Down /\ Down' => Found /\ After2 /\ ~After2'
    BY SpendsOrStutters DEF SpendsReboots, Unrecorded, MayRepair, Mishap
  <1>a. (TornFile => ~Found) /\ (CfgpreDue => ~Found)
    BY DEF PreStatusFound, ReadChildOfRoot, CfgpreDue
  <1> HIDE DEF On, Down, TornFile, Found, After2, Stopped, Goal
  <1>5. Spec /\ []~Stopped => []IInv /\ []SmoothInv /\ [][Next]_vars /\ [][SpendsReboots]_vars
    BY SmoothWithoutMishap, Invariance, RebootsAreBounded, PTL DEF Spec, Stopped
  <1>6. []~Stopped /\ [][SpendsReboots]_vars => <>[]Down \/ <>[]~Down
    <2>1. []~Stopped /\ [][SpendsReboots]_vars => <>[]TornFile \/ []~TornFile
      BY <1>4, PTL
    <2>2. []~Stopped /\ [][SpendsReboots]_vars /\ []~TornFile
          => <>[]CfgpreDue \/ <>[]~CfgpreDue
      BY <1>4, PTL
    <2>3. []~Stopped /\ [][SpendsReboots]_vars /\ <>[]~Found => <>[]Down \/ <>[]~Down
      BY <1>4, PTL
    <2>4. []~Stopped /\ [][SpendsReboots]_vars /\ <>[]~CfgpreDue => <>[]Down \/ <>[]~Down
      BY <1>4, PTL
    <2>5. QED
      BY <1>a, <2>1, <2>2, <2>3, <2>4, PTL
  <1>7. /\ []~Stopped /\ []~Goal /\ []IInv /\ []SmoothInv /\ [][Next]_vars
        /\ <>[]Down \/ <>[]~Down
        => <>[]On \/ <>[]~On
    BY <1>2, <1>3, PTL
  <1>8. /\ []~Stopped /\ []IInv /\ []SmoothInv /\ []<>~Live => []<>~On
    BY <1>1, PTL
  <1>9. Spec /\ []<>~Live /\ []<>On => <>(Stopped \/ Goal)
    BY <1>5, <1>6, <1>7, <1>8, PTL
  <1>10. QED
    BY <1>9 DEF On, Stopped, Goal, EventuallySpecialized
===============================================================================
