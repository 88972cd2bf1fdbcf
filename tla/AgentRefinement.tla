---------------------------- MODULE AgentRefinement ----------------------------
(***************************************************************************)
(* Machine-checked proof that every behaviour of GuestAgent is one that    *)
(* AgentLifecycle allows, for every value of the constants: Init maps to   *)
(* its Init, and every step to one of its steps or to none.                *)
(***************************************************************************)
EXTENDS GuestAgentProofs

\* What the host finds in a file.
Report(f) == f.tags \ {"Insmod"}

\* A file that holds no XML holds no elements.
Clean(f) == f.kind # "xml" => f.tags = {}

\* Where a process is that has passed AddStarted.
Reporting == {"prerun", "prerecord", "reboot", "prefail", "run", "fail", "complete",
              "terminate", "remove", "unmount", "shutdown"}

\* What the order of the elements rests on: a process that reports has reported its
\* start, or the file did not get it, cfgpre has no verdict when it gets one, and only a
\* kit is installed.
OrderInv ==
  /\ Clean(file)
  /\ pc \in Reporting /\ file.kind = "xml" => "Started" \in file.tags \cup lost
  /\ pc \in {"prerecord", "prefail"} => {"PreOK", "PreFailed"} \cap file.tags = {}
  /\ inst \in {"stop", "remove", "install"} => media.kit

\* The host sees no difference between f and g, but that g may be torn.
Unseen(f, g) ==
  /\ g \in StatusFiles
  /\ Clean(g)
  /\ \/ g = Torn
     \/ Report(g) = Report(f) /\ (g.kind = "torn" <=> f.kind = "torn")

-------------------------------------------------------------------------------
(* The operations on the status file, as the host sees them. *)

\* AddChildToRoot adds its element to a file it can read, or not, or tears the file.
LEMMA AddReport ==
  ASSUME NEW f \in StatusFiles, Clean(f), NEW tag \in Tag,
         NEW g, g \in AddChildToRoot(f, tag) \/ g \in DieInAddChild(f, tag)
  PROVE  \/ g = f
         \/ f.kind = "xml" /\ g = Torn
         \/ f.kind = "xml" /\ g = Xml(f.tags \cup {tag})
  BY DEF AddChildToRoot, DieInAddChild, Write, DieInWrite

\* SetUp shows the host nothing.
LEMMA SetUpReport ==
  ASSUME NEW f \in StatusFiles, Clean(f), NEW g, g \in SetUp(f) \/ g \in DieInSetUp(f)
  PROVE  Unseen(f, g)
  <1>1. CASE g = f
    BY <1>1 DEF Unseen
  <1>2. CASE f.kind = "absent" /\ g = Xml({})
    BY <1>2 DEF Unseen, Clean, Report, Xml, StatusFiles
  <1>3. CASE g = Torn
    BY <1>3 DEF Unseen, Clean, Torn, StatusFiles
  <1> QED BY <1>1, <1>2, <1>3 DEF SetUp, DieInSetUp, Write, DieInWrite

\* Nor does the first use of the StatusMessage in a process.
LEMMA InstanceReport ==
  ASSUME NEW f \in StatusFiles, Clean(f), NEW m, NEW g \in Instance(f, m)
  PROVE  Unseen(f, g)
  <1>1. CASE g = f
    BY <1>1 DEF Unseen
  <1>2. CASE g \in SetUp(f)
    BY <1>2, SetUpReport
  <1> QED BY <1>1, <1>2 DEF Instance

\* Nor does a fetch, which adds to the file what the host does not look for.
LEMMA FetchReport ==
  ASSUME NEW f \in StatusFiles, Clean(f), NEW m, NEW d, NEW p,
         NEW end \in FetchEnds(f, m, d, p)
  PROVE  Unseen(f, end.file)
  <1>1. \A g, a, b : \A e \in Scans(g, a, b) : e.file \in {g} \cup Instance(g, a)
    <2> TAKE g, a, b
    <2> TAKE e \in Scans(g, a, b)
    <2>1. <<e.file, e.managed>> \in {<<g, a>>} \cup {<<h, TRUE>> : h \in Instance(g, a)}
      BY DEF Scans
    <2> QED BY <2>1
  <1>2. Unseen(f, f)
    BY DEF Unseen
  <1>3. CASE end \in Scans(f, FALSE, d)
    <2>1. end.file \in {f} \cup Instance(f, FALSE)
      BY <1>1, <1>3
    <2> QED BY <1>2, <2>1, InstanceReport
  <1>4. CASE end \in UNION {Scans(h, TRUE, TRUE) :
                             h \in UNION {AddChildToRoot(g, "Insmod") : g \in SetUp(f)}}
    <2>1. PICK g \in SetUp(f) : \E h \in AddChildToRoot(g, "Insmod") : end \in Scans(h, TRUE, TRUE)
      BY <1>4
    <2>2. PICK h \in AddChildToRoot(g, "Insmod") : end \in Scans(h, TRUE, TRUE)
      BY <2>1
    <2>3. end.file = h
      BY <1>1, <2>2 DEF Instance
    <2>4. Unseen(f, g) /\ "Insmod" \in Tag
      BY SetUpReport DEF Tag
    <2>5. CASE h = g
      BY <2>3, <2>4, <2>5
    <2>6. CASE h = Torn
      BY <2>3, <2>6 DEF Unseen, Torn, StatusFiles, Clean
    <2>7. CASE g.kind = "xml" /\ h = Xml(g.tags \cup {"Insmod"})
      <3>1. h \in StatusFiles /\ Clean(h) /\ h.kind = "xml" /\ Report(h) = Report(g)
        BY <2>4, <2>7 DEF Unseen, StatusFiles, Xml, Clean, Report
      <3> QED BY <2>3, <2>4, <2>7, <3>1 DEF Unseen, Torn
    <2> QED BY <2>2, <2>4, <2>5, <2>6, <2>7, AddReport DEF Unseen
  <1>5. CASE end \in [file : {f}, managed : {FALSE}, mounted : {m}, driver : {d},
                      present : BOOLEAN, result : {"indeterminate"}]
    BY <1>2, <1>5
  <1> QED BY <1>3, <1>4, <1>5 DEF FetchEnds

-------------------------------------------------------------------------------
(* How a process dies, as the host sees it. *)

\* What a death may make of the reported elements: nothing, a torn file, or one more
\* element that may come next.
DeathReport(g) ==
  \/ Unseen(file, g)
  \/ /\ Clean(g) /\ file.kind # "torn" /\ g.kind # "torn"
     /\ \E tag \in Elements :
          Lifecycle!MayFollow(tag) /\ Report(g) = Report(file) \cup {tag}

\* A process that dies in AddChildToRoot of an element that may come next.
LEMMA DieInAddReport ==
  ASSUME IInv, OrderInv, NEW f, Unseen(file, f), NEW tag \in Tag,
         tag = "Insmod" \/ Lifecycle!MayFollow(tag) \/ f.kind # "xml",
         NEW g \in DieInAddChild(f, tag)
  PROVE  DeathReport(g)
  <1>1. f \in StatusFiles /\ Clean(f)
    BY DEF Unseen
  <1>2. CASE g = f
    BY <1>2 DEF DeathReport
  <1>3. CASE g = Torn
    BY <1>3 DEF DeathReport, Unseen, Torn, StatusFiles, Clean
  <1>4. CASE f.kind = "xml" /\ g = Xml(f.tags \cup {tag})
    <2>1. g \in StatusFiles /\ Clean(g) /\ g.kind = "xml" /\ file.kind # "torn"
          /\ Report(f) = Report(file)
      BY <1>1, <1>4 DEF Unseen, StatusFiles, Xml, Clean, Torn
    <2>2. CASE tag = "Insmod"
      <3>1. Report(g) = Report(file)
        BY <1>4, <2>1, <2>2 DEF Report, Xml
      <3> QED BY <2>1, <3>1 DEF DeathReport, Unseen
    <2>3. CASE tag # "Insmod" /\ Lifecycle!MayFollow(tag)
      <3>1. Report(g) = Report(file) \cup {tag} /\ tag \in Elements
        BY <1>4, <2>1, <2>3 DEF Report, Xml, Elements
      <3> QED BY <2>1, <2>3, <3>1 DEF DeathReport
    <2> QED BY <1>4, <2>2, <2>3
  <1> QED BY <1>1, <1>2, <1>3, <1>4, AddReport

\* What the order of the elements allows where the agent adds one.
LEMMA Orders ==
  ASSUME IInv, OrderInv
  PROVE  /\ Lifecycle!MayFollow("Started")
         /\ pc \in {"fail", "complete"} /\ file.kind = "xml"
              => Lifecycle!MayFollow("SpecFailed") /\ Lifecycle!MayFollow("Complete")
         /\ pc \in {"prerecord", "prefail"} /\ file.kind = "xml"
              => Lifecycle!MayFollow("PreOK") /\ Lifecycle!MayFollow("PreFailed")
  BY DEF OrderInv, Reporting, Lifecycle!MayFollow

\* A process that dies anywhere.
LEMMA FilesAfterDeathReport ==
  ASSUME IInv, OrderInv, NEW g \in FilesAfterDeath
  PROVE  DeathReport(g) /\ (~Live => g = file)
  <1>1. file \in StatusFiles /\ Clean(file) /\ Unseen(file, file)
    BY DEF IInv, TypeOK, OrderInv, Unseen
  <1>2. DeathReport(g)
    <2>1. CASE g = file \/ g \in DieInSetUp(file)
      BY <1>1, <2>1, SetUpReport DEF DeathReport
    <2>2. CASE \E tag \in {"Insmod", "Started"} : \E f \in Instance(file, managed) :
                 g \in DieInAddChild(f, tag)
      <3>1. PICK tag \in {"Insmod", "Started"} : \E f \in Instance(file, managed) :
                   g \in DieInAddChild(f, tag)
        BY <2>2
      <3>2. PICK f \in Instance(file, managed) : g \in DieInAddChild(f, tag)
        BY <3>1
      <3>3. Unseen(file, f)
        BY <1>1, InstanceReport
      <3> QED BY <3>2, <3>3, DieInAddReport, Orders DEF Tag
    <2>3. CASE pc = "prerecord" /\ g \in DieInAddChild(file, "PreOK")
      BY <1>1, <2>3, DieInAddReport, Orders DEF Tag
    <2>4. CASE pc = "prefail" /\ g \in DieInAddChild(file, "PreFailed")
      BY <1>1, <2>4, DieInAddReport, Orders DEF Tag
    <2>5. CASE pc = "fail" /\ g \in DieInAddChild(file, "SpecFailed")
      BY <1>1, <2>5, DieInAddReport, Orders DEF Tag
    <2>6. CASE pc = "complete" /\ g \in DieInAddChild(file, "Complete")
      BY <1>1, <2>6, DieInAddReport, Orders DEF Tag
    <2> QED BY <2>1, <2>2, <2>3, <2>4, <2>5, <2>6 DEF FilesAfterDeath, At
  <1>3. ~Live => g = file
    BY DEF FilesAfterDeath, At
  <1> QED BY <1>2, <1>3

\* A death is a step of the lifecycle: an end, maybe with one more element or a torn
\* file, or with what a removal that was under way had taken away.
LEMMA DieReport ==
  ASSUME IInv, OrderInv, NEW removing \in BOOLEAN, removing => inst = "remove",
         Die(removing), UNCHANGED <<media, lost>>, ~Live'
  PROVE  Clean(file') /\ [Lifecycle!Next]_(Lifecycle!lifecycle)
  <1>1. PICK left \in {Left(f, home, registered) : f \in FilesAfterDeath}
                      \cup (IF At("remove") \/ removing THEN Removals ELSE {}) :
          file' = left.file /\ home' = left.home /\ registered' = left.registered
    BY DEF Die
  <1>2. Clean(file) /\ Clean(Absent) /\ Report(Absent) = {} /\ Absent.kind = "absent"
        /\ Torn.kind = "torn" /\ Report(Torn) = {}
    BY DEF OrderInv, Clean, Absent, Torn, Report
  <1> Live \in BOOLEAN /\ Live' = FALSE
    BY DEF Live
  <1>3. CASE left \in {Left(f, home, registered) : f \in FilesAfterDeath}
    <2>1. file' \in FilesAfterDeath /\ UNCHANGED <<home, registered>>
      BY <1>1, <1>3 DEF Left
    <2>2. DeathReport(file') /\ (~Live => file' = file)
      BY <2>1, FilesAfterDeathReport
    <2>3. CASE ~Live
      BY <1>2, <2>1, <2>2, <2>3 DEF Lifecycle!lifecycle
    <2>4. CASE /\ Live /\ Clean(file') /\ Report(file') = Report(file)
               /\ file'.kind = "torn" <=> file.kind = "torn"
      BY <2>1, <2>4 DEF Lifecycle!Next, Lifecycle!End, Report
    <2>5. CASE Live /\ file' = Torn
      BY <2>1, <2>5 DEF Lifecycle!Next, Lifecycle!Tear, Lifecycle!Torn, Torn, Clean
    <2>6. CASE /\ Live /\ Clean(file') /\ file.kind # "torn" /\ file'.kind # "torn"
               /\ \E tag \in Elements :
                    Lifecycle!MayFollow(tag) /\ Report(file') = Report(file) \cup {tag}
      BY <2>1, <2>6 DEF Lifecycle!Next, Lifecycle!Report, Lifecycle!Elements, Report, Elements,
         Tag
    <2> QED BY <2>2, <2>3, <2>4, <2>5, <2>6 DEF DeathReport, Unseen
  <1>4. CASE left \in Removals /\ (At("remove") \/ removing)
    <2>1. \/ UNCHANGED <<file, home, registered>>
          \/ file' \in {file, Absent} /\ home' \in {home, FALSE} /\ registered' = FALSE
      <3>1. CASE left = Left(file, home, registered)
        BY <1>1, <3>1 DEF Left
      <3>2. CASE left \in [file : {file, Absent}, home : {home, FALSE}, registered : {FALSE}]
        BY <1>1, <3>2
      <3> QED BY <1>4, <3>1, <3>2 DEF Removals
    <2>2. Clean(file') /\ Lifecycle!Remove
      BY <1>2, <2>1 DEF Lifecycle!Remove, Report, IInv, TypeOK
    <2>3. CASE At("remove")
      <3>1. Live /\ "Complete" \in file.tags \ {"Insmod"}
        BY <2>3 DEF At, IInv, ControlInv, ReadChildOfRoot
      <3> QED BY <2>2, <3>1 DEF Lifecycle!Next, Lifecycle!Retire
    <2>4. CASE ~At("remove")
      <3>1. ~Live /\ media.kit
        BY <1>4, <2>4 DEF IInv, InstallerInv, OrderInv, Live, Dead
      <3> QED BY <2>2, <3>1 DEF Lifecycle!Next, Lifecycle!Supersede
    <2> QED BY <2>3, <2>4
  <1> QED BY <1>1, <1>3, <1>4

-------------------------------------------------------------------------------
(* Every action keeps the order and is a step of the lifecycle, or none. *)

\* The steps that leave the status file, the installed files and the kit alone.
LEMMA QuietIsAllowed ==
  ASSUME IInv, OrderInv,
         \/ ReadConfigFile \/ LoadXML \/ InstallOrUpgradeAgent \/ SkipCfgpre \/ RunCfgpre
         \/ Reboot \/ SkipStage \/ RunStage \/ ReadSpecializationComplete \/ Unmount
         \/ Shutdown
  PROVE  OrderInv' /\ [Lifecycle!Next]_(Lifecycle!lifecycle)
  <1>1. /\ UNCHANGED <<file, home, registered, media, lost>>
        /\ Live /\ Live \in BOOLEAN /\ Live' \in BOOLEAN
    BY DEF ReadConfigFile, LoadXML, InstallOrUpgradeAgent, SkipCfgpre, RunCfgpre,
    Reboot, SkipStage, RunStage, ReadSpecializationComplete, Unmount, Shutdown, disk,
    devices, input, ghosts, At, Live
  <1>2. [Lifecycle!Next]_(Lifecycle!lifecycle)
    BY <1>1 DEF Lifecycle!Next, Lifecycle!End, Lifecycle!lifecycle
  <1>3. Clean(file)'
    BY <1>1 DEF OrderInv, Clean
  <1>4. ASSUME ReadConfigFile PROVE OrderInv'
    BY <1>1, <1>4 DEF OrderInv, Clean, Reporting, ReadConfigFile, disk, devices, input,
    ghosts, At, Live
  <1>5. ASSUME LoadXML PROVE OrderInv'
    BY <1>1, <1>5 DEF OrderInv, Clean, Reporting, LoadXML, disk, devices, input, ghosts,
    At, Live
  <1>6. ASSUME InstallOrUpgradeAgent PROVE OrderInv'
    BY <1>1, <1>6 DEF OrderInv, Clean, Reporting, InstallOrUpgradeAgent, disk, devices,
    input, ghosts, At, Live
  <1>7. ASSUME SkipCfgpre PROVE OrderInv'
    BY <1>1, <1>7 DEF OrderInv, Clean, Reporting, SkipCfgpre, disk, devices, input,
    ghosts, At, Live
  <1>8. ASSUME RunCfgpre PROVE OrderInv'
    BY <1>1, <1>8 DEF OrderInv, Clean, Reporting, RunCfgpre, disk, devices, input,
    ghosts, At, Live, PreStatusFound, ReadChildOfRoot
  <1>9. ASSUME Reboot PROVE OrderInv'
    BY <1>1, <1>9 DEF OrderInv, Clean, Reporting, Reboot, disk, devices, input, ghosts,
    At, Live
  <1>10. ASSUME SkipStage PROVE OrderInv'
    BY <1>1, <1>10 DEF OrderInv, Clean, Reporting, SkipStage, disk, devices, input,
    ghosts, At, Live
  <1>11. ASSUME RunStage PROVE OrderInv'
    BY <1>1, <1>11 DEF OrderInv, Clean, Reporting, RunStage, disk, devices, input,
    ghosts, At, Live, Advance
  <1>12. ASSUME ReadSpecializationComplete PROVE OrderInv'
    BY <1>1, <1>12 DEF OrderInv, Clean, Reporting, ReadSpecializationComplete, disk,
    devices, input, ghosts, At, Live
  <1>13. ASSUME Unmount PROVE OrderInv'
    BY <1>1, <1>13 DEF OrderInv, Clean, Reporting, Unmount, disk, devices, input,
    ghosts, At, Live
  <1>14. ASSUME Shutdown PROVE OrderInv'
    BY <1>1, <1>14 DEF OrderInv, Clean, Reporting, Shutdown, disk, devices, input,
    ghosts, At, Live, Advance
  <1> QED BY <1>2, <1>4, <1>5, <1>6, <1>7, <1>8, <1>9, <1>10, <1>11, <1>12, <1>13, <1>14

\* A fetch is not seen at all, it tears the file, or it ends the process.
LEMMA FetchIsAllowed ==
  ASSUME IInv, OrderInv, ObtainMountPoint
  PROVE  OrderInv' /\ [Lifecycle!Next]_(Lifecycle!lifecycle)
  <1>1. PICK end \in FetchEnds(file, mounted, driver, present) : file' = end.file
    BY DEF ObtainMountPoint
  <1>2. file \in StatusFiles /\ Clean(file)
    BY DEF IInv, TypeOK, OrderInv
  <1>3. Unseen(file, file')
    BY <1>1, <1>2, FetchReport
  <1>4. /\ UNCHANGED <<home, registered, media, inst, lost>> /\ pc' \in {"load", "exited"}
        /\ Live /\ Live \in BOOLEAN /\ Live' \in BOOLEAN
    BY DEF ObtainMountPoint, At, Live, ghosts
  <1>5. OrderInv'
    BY <1>3, <1>4 DEF OrderInv, Reporting, Clean, Unseen
  <1>6. CASE file' = Torn
    BY <1>4, <1>5, <1>6 DEF Lifecycle!Next, Lifecycle!Tear, Lifecycle!Torn, Torn
  <1>7. CASE Report(file') = Report(file) /\ (file'.kind = "torn" <=> file.kind = "torn")
    BY <1>4, <1>5, <1>7 DEF Lifecycle!Next, Lifecycle!End, Lifecycle!lifecycle, Report
  <1> QED BY <1>3, <1>6, <1>7 DEF Unseen

\* An element that may come next, added by a process that goes on: the host sees it, or
\* does not and it is known to be lost.
LEMMA AddIsAllowed ==
  ASSUME IInv, OrderInv, NEW f, Unseen(file, f), NEW tag \in Elements, Adds(f, tag),
         f.kind = "xml" => Lifecycle!MayFollow(tag),
         UNCHANGED <<home, registered, media>>, Live, Live'
  PROVE  /\ Clean(file') /\ [Lifecycle!Next]_(Lifecycle!lifecycle)
         /\ file'.kind = "xml" => /\ f.kind = "xml"
                                  /\ Report(file) \cup {tag} \subseteq file'.tags \cup lost'
                                  /\ lost \subseteq file'.tags \cup lost'
  <1>1. f \in StatusFiles /\ Clean(f) /\ tag \in Tag /\ tag # "Insmod"
    BY DEF Unseen, Elements
  <1>2. /\ Live \in BOOLEAN /\ Live' \in BOOLEAN
        /\ lost' = IF ReadChildOfRoot(file', tag) THEN lost \ {tag} ELSE lost \cup {tag}
    BY DEF Live, Adds
  <1>3. CASE file' = Torn
    <2>1. lost' = lost \cup {tag} /\ Report(file') = {} /\ file'.kind = "torn" /\ Clean(file')
      BY <1>2, <1>3 DEF ReadChildOfRoot, Torn, Report, Clean
    <2> QED BY <1>1, <1>2, <2>1 DEF Lifecycle!Next, Lifecycle!Refuse, Lifecycle!Torn,
       Lifecycle!Elements, Elements, Tag, Report
  <1>4. CASE file' # Torn /\ file' = f
    <2>1. Report(file') = Report(file) /\ (file'.kind = "torn" <=> file.kind = "torn")
          /\ Clean(file')
      BY <1>4 DEF Unseen
    <2>2. CASE ReadChildOfRoot(file', tag)
      <3>1. /\ f.kind = "xml" /\ tag \in Report(file) /\ file.kind # "torn"
            /\ Lifecycle!MayFollow(tag) /\ lost' = lost \ {tag}
        BY <1>1, <1>2, <1>4, <2>1, <2>2 DEF ReadChildOfRoot, Report
      <3> QED BY <1>1, <1>2, <1>4, <2>1, <3>1 DEF Lifecycle!Next, Lifecycle!Report,
         Lifecycle!Elements, Elements, Tag, Report
    <2>3. CASE ~ReadChildOfRoot(file', tag)
      <3>1. lost' = lost \cup {tag}
        BY <1>2, <2>3
      <3> QED BY <1>1, <1>2, <1>4, <2>1, <3>1 DEF Lifecycle!Next, Lifecycle!Refuse,
         Lifecycle!Elements, Elements, Tag, Report
    <2> QED BY <2>2, <2>3
  <1>5. CASE f.kind = "xml" /\ file' = Xml(f.tags \cup {tag})
    <2>1. /\ Report(file') = Report(file) \cup {tag} /\ file'.kind = "xml"
          /\ file.kind # "torn" /\ Clean(file') /\ ReadChildOfRoot(file', tag)
      BY <1>1, <1>5 DEF Unseen, Torn, Xml, Report, Clean, ReadChildOfRoot
    <2>2. lost' = lost \ {tag}
      BY <1>2, <2>1
    <2> QED BY <1>1, <1>2, <1>5, <2>1, <2>2 DEF Lifecycle!Next, Lifecycle!Report,
       Lifecycle!Elements, Elements, Tag, Report
  <1> QED BY <1>1, <1>3, <1>4, <1>5, AddReport DEF Adds

\* The elements: that the agent has started,
LEMMA StartedIsAllowed ==
  ASSUME IInv, OrderInv, AddStarted
  PROVE  OrderInv' /\ [Lifecycle!Next]_(Lifecycle!lifecycle)
  <1>1. PICK f \in Instance(file, managed) : Adds(f, "Started")
    BY DEF AddStarted
  <1>2. Live /\ Live' /\ UNCHANGED <<home, registered, media, inst>> /\ pc' = "prerun"
    BY DEF AddStarted, At, Live
  <1>3. Unseen(file, f) /\ "Started" \in Elements
    BY InstanceReport DEF IInv, TypeOK, OrderInv, Elements, Tag
  <1>4. /\ Clean(file') /\ [Lifecycle!Next]_(Lifecycle!lifecycle)
        /\ file'.kind = "xml" => "Started" \in file'.tags \cup lost'
    BY <1>1, <1>2, <1>3, AddIsAllowed, Orders
  <1>5. OrderInv'
    BY <1>2, <1>4 DEF OrderInv, Clean
  <1> QED BY <1>4, <1>5

\* the verdict of cfgpre, and how the specialization ended.
LEMMA RecordIsAllowed ==
  ASSUME IInv, OrderInv,
         RecordPreconfigured \/ RecordPreFailed \/ RecordFailed \/ RecordComplete
  PROVE  OrderInv' /\ [Lifecycle!Next]_(Lifecycle!lifecycle)
  <1>1. /\ Live /\ Live' /\ UNCHANGED <<home, registered, media, inst>>
        /\ pc' \in {"reboot", "fail", "terminate"} /\ pc \in Reporting
    BY DEF RecordPreconfigured, RecordPreFailed, RecordFailed, RecordComplete, At, Live,
       Reporting
  <1>2. \E tag \in Elements : /\ Adds(file, tag)
                              /\ file.kind = "xml" => Lifecycle!MayFollow(tag)
    BY Orders DEF RecordPreconfigured, RecordPreFailed, RecordFailed, RecordComplete, At,
       Elements, Tag
  <1>3. Unseen(file, file)
    BY DEF Unseen, IInv, TypeOK, OrderInv
  <1>4. /\ Clean(file') /\ [Lifecycle!Next]_(Lifecycle!lifecycle)
        /\ file'.kind = "xml" => /\ file.kind = "xml"
                                 /\ Report(file) \cup lost \subseteq file'.tags \cup lost'
    BY <1>1, <1>2, <1>3, AddIsAllowed
  <1>5. file'.kind = "xml" => "Started" \in file'.tags \cup lost'
    BY <1>1, <1>4 DEF OrderInv, Report
  <1>6. OrderInv'
    BY <1>1, <1>4, <1>5 DEF OrderInv, Clean
  <1> QED BY <1>4, <1>6

\* The agent removes itself.
LEMMA RemoveAgentIsAllowed ==
  ASSUME IInv, OrderInv, RemoveAgent
  PROVE  OrderInv' /\ [Lifecycle!Next]_(Lifecycle!lifecycle)
  <1>1. \/ UNCHANGED <<file, home, registered>>
        \/ file' \in {file, Absent} /\ home' \in {home, FALSE} /\ registered' = FALSE
    <2>1. PICK left \in {Left(Absent, FALSE, FALSE), Left(file, home, registered)}
                        \cup Removals :
            file' = left.file /\ home' = left.home /\ registered' = left.registered
      BY DEF RemoveAgent
    <2>2. CASE left = Left(Absent, FALSE, FALSE)
      <3>1. file' = Absent /\ home' = FALSE /\ registered' = FALSE
        BY <2>1, <2>2 DEF Left
      <3> QED BY <3>1
    <2>3. CASE left = Left(file, home, registered)
      <3>1. file' = file /\ home' = home /\ registered' = registered
        BY <2>1, <2>3 DEF Left
      <3> QED BY <3>1
    <2>4. CASE left \in [file : {file, Absent}, home : {home, FALSE}, registered : {FALSE}]
      BY <2>1, <2>4
    <2> QED BY <2>1, <2>2, <2>3, <2>4 DEF Removals
  <1>2. Clean(file) /\ Clean(Absent) /\ Report(Absent) = {} /\ Absent.kind = "absent"
    BY DEF OrderInv, Clean, Absent, Report
  <1>3. Live /\ Live' /\ Live \in BOOLEAN /\ Live' \in BOOLEAN 
        /\ UNCHANGED <<media, inst, lost>> /\ pc' = "unmount" /\ pc = "remove"
    BY DEF RemoveAgent, At, Live, ghosts
  <1>4. Lifecycle!Remove
    BY <1>1, <1>2, <1>3 DEF Lifecycle!Remove, Report, IInv, TypeOK
  <1>5. "Complete" \in file.tags \ {"Insmod"}
    BY <1>3 DEF IInv, ControlInv, ReadChildOfRoot
  <1>6. [Lifecycle!Next]_(Lifecycle!lifecycle)
    BY <1>3, <1>4, <1>5 DEF Lifecycle!Next, Lifecycle!Retire
  <1>7. OrderInv'
    BY <1>1, <1>2, <1>3 DEF OrderInv, Reporting, Clean
  <1> QED BY <1>6, <1>7

\* The installer stops the agent.
LEMMA StopServiceIsAllowed ==
  ASSUME IInv, OrderInv, StopService
  PROVE  OrderInv' /\ [Lifecycle!Next]_(Lifecycle!lifecycle)
  <1>1. CASE home
    <2>1. /\ Die(FALSE) /\ inst' = "remove" /\ UNCHANGED <<media, power, lost>>
          /\ inst = "stop" /\ power # "off"
      BY <1>1, Zenon DEF StopService
    <2>2. pc' \in Dead /\ ~Live'
      BY <2>1 DEF Die, Live, Dead
    <2>3. Clean(file') /\ [Lifecycle!Next]_(Lifecycle!lifecycle)
      BY <2>1, <2>2, DieReport
    <2> QED BY <2>1, <2>2, <2>3 DEF OrderInv, Reporting, Dead, Clean
  <1>2. CASE ~home
    <2>1. UNCHANGED <<file, home, registered, pc, media, power, lost>> /\ inst' = "idle"
      BY <1>2 DEF StopService
    <2>2. [Lifecycle!Next]_(Lifecycle!lifecycle)
      BY <2>1 DEF Lifecycle!lifecycle, Live
    <2> QED BY <2>1, <2>2 DEF OrderInv, Clean
  <1> QED BY <1>1, <1>2

\* It removes the old agent,
LEMMA RemoveOldIsAllowed ==
  ASSUME IInv, OrderInv, RemoveOldAgent
  PROVE  OrderInv' /\ [Lifecycle!Next]_(Lifecycle!lifecycle)
  <1>1. Live = FALSE /\ Live' = FALSE /\ media.kit /\ lost' = {}
    BY DEF RemoveOldAgent, Live, IInv, InstallerInv, OrderInv, Dead
  <1>2. Lifecycle!Remove
    BY DEF Lifecycle!Remove, RemoveOldAgent, Absent, IInv, TypeOK
  <1>3. [Lifecycle!Next]_(Lifecycle!lifecycle)
    BY <1>1, <1>2 DEF Lifecycle!Next, Lifecycle!Supersede
  <1>4. OrderInv'
    BY DEF RemoveOldAgent, OrderInv, IInv, InstallerInv, Dead, Reporting, Clean, Absent
  <1> QED BY <1>3, <1>4

\* installs the new one,
LEMMA InstallNewIsAllowed ==
  ASSUME IInv, OrderInv, InstallNewAgent
  PROVE  OrderInv' /\ [Lifecycle!Next]_(Lifecycle!lifecycle)
  <1>1. Live = FALSE /\ Live' = FALSE /\ media.kit
        /\ UNCHANGED <<file, lost>>
    BY DEF InstallNewAgent, Live, IInv, InstallerInv, OrderInv, Dead, ghosts
  <1>2. CASE /\ home' = TRUE /\ registered' = TRUE
             /\ media' = [media EXCEPT !.kit = FALSE]
    <2>1. media'.kit = FALSE
      BY <1>2 DEF IInv, TypeOK
    <2> QED BY <1>1, <1>2, <2>1 DEF Lifecycle!Next, Lifecycle!Install, InstallNewAgent,
       OrderInv, Clean
  <1>3. CASE inst' = "broken" /\ UNCHANGED <<home, registered, media>>
    BY <1>1, <1>3 DEF Lifecycle!lifecycle, InstallNewAgent, OrderInv, Clean
  <1> QED BY <1>2, <1>3 DEF InstallNewAgent

\* and starts it.
LEMMA StartServiceIsAllowed ==
  ASSUME IInv, OrderInv, StartService
  PROVE  OrderInv' /\ [Lifecycle!Next]_(Lifecycle!lifecycle)
  <1>1. UNCHANGED <<file, home, registered, media>> /\ home /\ registered /\ pc' = "fetch"
        /\ inst' = "idle" /\ lost' = lost \cap {"PreOK"}
    BY DEF StartService, NewProcess, NewGhosts, disk, IInv, InstallerInv
  <1>2. Live = FALSE /\ Live' = TRUE
    BY DEF StartService, NewProcess, Live
  <1> QED BY <1>1, <1>2 DEF Lifecycle!Next, Lifecycle!Start, OrderInv, Reporting, Clean

\* The machine goes down,
LEMMA PowerOffIsAllowed ==
  ASSUME IInv, OrderInv, power # "off", PowerOff(inst = "remove")
  PROVE  OrderInv' /\ [Lifecycle!Next]_(Lifecycle!lifecycle)
  <1>1. /\ Die(inst = "remove") /\ UNCHANGED <<media, lost>>
        /\ power' = "off" /\ inst' \in {"idle", "broken"}
    BY DEF PowerOff
  <1>2. pc' \in Dead /\ ~Live'
    BY <1>1 DEF Die, Live, Dead
  <1>3. Clean(file') /\ [Lifecycle!Next]_(Lifecycle!lifecycle)
    BY <1>1, <1>2, DieReport
  <1> QED BY <1>1, <1>2, <1>3 DEF OrderInv, Reporting, Dead, Clean

\* and comes up again.
LEMMA BootIsAllowed ==
  ASSUME IInv, OrderInv, Boot
  PROVE  OrderInv' /\ [Lifecycle!Next]_(Lifecycle!lifecycle)
  <1>1. UNCHANGED <<file, home, registered, media, inst>> /\ Live = FALSE
    BY DEF Boot, disk, Live
  <1>2. CASE registered /\ home
    <2>1. pc' = "fetch" /\ Live' = TRUE /\ lost' = lost \cap {"PreOK"}
      BY <1>2 DEF Boot, NewProcess, NewGhosts, Live
    <2> QED BY <1>1, <1>2, <2>1 DEF Lifecycle!Next, Lifecycle!Start, OrderInv, Reporting, Clean
  <1>3. CASE ~(registered /\ home)
    <2>1. UNCHANGED <<pc, lost>> /\ Live' = FALSE
      BY <1>3 DEF Boot, Live, IInv, ControlInv, Dead
    <2> QED BY <1>1, <2>1 DEF Lifecycle!lifecycle, OrderInv, Clean
  <1> QED BY <1>2, <1>3

\* Every step.
LEMMA StepIsAllowed ==
  ASSUME IInv, OrderInv, [Next]_vars
  PROVE  OrderInv' /\ [Lifecycle!Next]_(Lifecycle!lifecycle)
  <1>1. CASE AgentStep
    BY <1>1, QuietIsAllowed, FetchIsAllowed, StartedIsAllowed, RecordIsAllowed,
       RemoveAgentIsAllowed DEF AgentStep
  <1>2. CASE InstallerStep
    BY <1>2, StopServiceIsAllowed, RemoveOldIsAllowed, InstallNewIsAllowed,
       StartServiceIsAllowed DEF InstallerStep
  <1>3. CASE GoDown \/ PowerCut
    BY <1>3, PowerOffIsAllowed DEF GoDown, PowerCut
  <1>4. CASE Boot
    BY <1>4, BootIsAllowed
  <1>5. CASE UNCHANGED vars
    BY <1>5 DEF vars, Live, Lifecycle!lifecycle, OrderInv, Clean
  <1> QED BY <1>1, <1>2, <1>3, <1>4, <1>5 DEF Next

-------------------------------------------------------------------------------
(* The theorem. *)

\* Whatever scripts, mounts, power and the installer do, for any media and any number
\* of adapters and power cuts: the host sees elements only in the promised order,
\* loses them only with a torn file or in a justified removal, and sees the agent
\* vanish only when it reported that all is done or a newer one takes its place.
THEOREM KeepsItsPromises == Spec => Lifecycle!Safety
  <1>1. Init => OrderInv /\ Lifecycle!Init
    <2> SUFFICES ASSUME Init PROVE OrderInv /\ Lifecycle!Init
      OBVIOUS
    <2>1. Live = TRUE
      BY DEF Init, Live
    <2>2. file.tags = {} /\ file.kind = "absent"
      BY DEF Init, Absent
    <2>3. media.kit \in BOOLEAN /\ (registered <=> media.mode = "iso")
          /\ media.mode \in {"iso", "file"}
      BY MediaAssumption DEF Init, MediaTypeOK
    <2> QED BY <2>1, <2>2, <2>3 DEF Init, OrderInv, Reporting, Clean, Lifecycle!Init
  <1>2. IInv /\ OrderInv /\ [Next]_vars => OrderInv' /\ [Lifecycle!Next]_(Lifecycle!lifecycle)
    BY StepIsAllowed
  <1> QED BY <1>1, <1>2, Invariance, PTL DEF Spec, Lifecycle!Safety
===============================================================================
