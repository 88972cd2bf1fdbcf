------------------------------ MODULE GuestAgent ------------------------------
(***************************************************************************)
(* The life of the VMM guest agent inside one virtual machine: the daemon  *)
(* that main.cpp starts at every boot, the configurators it runs in order, *)
(* the status file that carries the progress over reboots, TerminateSetup, *)
(* the installer that may upgrade the agent under its feet, and power.     *)
(*                                                                         *)
(* One step is one call that changes something outside the process: a      *)
(* script run to its end, an element added to the status file, an exec of  *)
(* shutdown.  The machine can lose power, and the installer can kill the   *)
(* agent, between any two steps and inside every write of the status file. *)
(***************************************************************************)
EXTENDS Integers, FetchContract

CONSTANTS
  ScriptCodes,  \* what the scripts may pass to exit: 0, 1 (warning), -1 (error)
  Interrupts,   \* TRUE iff a script may be killed by the watchdog or a signal
  SystemFails,  \* TRUE iff mounting, shutdown, and the install script may fail
  Adapters,     \* the number of vNetAdapters in the specialization file
  Media,        \* the media the machine may be started with, see MediaTypeOK
  MaxPowerCuts  \* bound: how often the power fails

ASSUME ScriptCodesAssumption == ScriptCodes \subseteq {-1, 0, 1}
ASSUME SwitchAssumption == Interrupts \in BOOLEAN /\ SystemFails \in BOOLEAN
ASSUME BoundAssumption == Adapters \in Nat /\ MaxPowerCuts \in Nat

\* The configurators that a specialization file may or may not ask for.
Optional == {"TimeZone", "HostDomain", "Users", "Network", "RunOnce"}

\* mode: "iso" for the daemon of the init script, "file" for one started with
\* mntpath=.  content: how LoadXML and Read take the file.  wants: what the file
\* configures.  present: a CD-ROM device exists after a boot.  kit: the ISO carries an
\* installer newer than the agent.  decodes: the password of the root user is
\* well-formed Base64.
MediaTypeOK ==
  Media \subseteq [mode : {"iso", "file"}, content : {"valid", "malformed", "rejected"},
                   wants : SUBSET Optional, present : BOOLEAN, kit : BOOLEAN,
                   decodes : BOOLEAN]
ASSUME MediaAssumption == MediaTypeOK

VARIABLES
  \* ---- what survives a power cut ----
  file,        \* the status file, see StatusFile
  home,        \* SCVMM_HOME with the binary and the scripts is there
  registered,  \* the init script is registered to start the agent
  media,       \* what the machine was started with; kit turns FALSE by an upgrade
  \* ---- the running machine ----
  power,       \* "on", "rebooting", "halting" (shutdown was started) or "off"
  mounted,     \* an ISO is mounted at /mnt/vmmcdrom/
  driver,      \* ata_piix is loaded because the agent inserted it
  present,     \* some CD-ROM device has its node
  \* ---- the agent process ----
  pc,          \* where it is, or "exited" (also: not running), "abend" = exit(-1)
  stage,       \* the configurator CreateOSConfigurators is at
  adapter,     \* index of the next element of vNetAdapters
  path,        \* m_osConfigurationXMLPath: "none", "iso", "file", or "unread" for
               \* a mntpath= under which the file could not be opened
  config,      \* what the OSConfiguration handed to the visitors asks for
  managed,     \* the StatusMessage of the process has been constructed
  complete,    \* the local specializationComplete of TerminateSetup
  \* ---- the installer of InstallOrUpgradeAgent ----
  inst,        \* "idle" or its next step
  \* ---- bookkeeping of the model, read by no action ----
  prepared,    \* cfgpre has exited 0 in this installation
  cut,         \* a process died between that exit and its record
  stale,       \* the file said SpecializationComplete when the process started
  failed,      \* a checked step of this process returned a negative status
  critical,    \* a checked script of this process exited with -1
  cuts,        \* number of power cuts so far
  lost         \* the elements that this process (the verdict of cfgpre: this
               \* installation) was the last to add, and that the file did not get

disk    == <<file, home, registered, media>>
devices == <<mounted, driver, present>>
input   == <<path, config, managed>>
marks   == <<prepared, cut, stale, failed, critical, cuts>>
ghosts  == <<marks, lost>>
vars    == <<file, home, registered, media, power, mounted, driver, present, pc,
             stage, adapter, path, config, managed, complete, inst,
             prepared, cut, stale, failed, critical, cuts, lost>>

-------------------------------------------------------------------------------
\* Exit statuses.

\* WEXITSTATUS keeps the low eight bits of what a script passed to exit.
WExitStatus(code) == code % 256

\* What CommandExecutor::Execute may return for a script: its exit status, or
\* -1 when SCXProcess::Run throws.  A script that is not there makes the child
\* exit 1 (CloseAndDie), which is also how the scripts report a warning.
ExecuteReturns ==
  (IF home THEN {WExitStatus(code) : code \in ScriptCodes} ELSE {1})
  \cup (IF Interrupts THEN {-1} ELSE {})

-------------------------------------------------------------------------------
\* The order of the configurators.

Stages == {"Pre", "TimeZone", "HostDomain", "Decode", "Users",
           "Network", "DynNetwork", "RunOnce", "Post"}

\* CreateOSConfigurators' array.  "Decode" is the Base64 decoding at the start
\* of UsersConfigurator, "DynNetwork" is ConfigureUnspecifiedNetAdaptersForDHCP
\* at the end of NetworkConfigurator.
After == [s \in Stages |->
  CASE s = "Pre"        -> "TimeZone"
    [] s = "TimeZone"   -> "HostDomain"
    [] s = "HostDomain" -> "Decode"
    [] s = "Decode"     -> "Users"
    [] s = "Users"      -> "Network"
    [] s = "Network"    -> "DynNetwork"
    [] s = "DynNetwork" -> "RunOnce"
    [] OTHER            -> "Post"]

\* Mutant: the loop over vNetAdapters runs one element too far.
VisitedOneTooMany ==
  CASE stage = "Network" -> "Network" \in config /\ adapter <= Adapters
    [] stage = "Decode"  -> "Users" \in config
    [] stage \in Optional \ {"Network"} -> stage \in config
    [] OTHER -> TRUE

\* ExecuteVisitor::Visit: does the stage have anything (left) to do?
Visited ==
  CASE stage = "Network" -> "Network" \in config /\ adapter < Adapters
    [] stage = "Decode"  -> "Users" \in config
    [] stage \in Optional \ {"Network"} -> stage \in config
    [] OTHER -> TRUE

\* The stages that call TerminateSetup when Execute returns a negative status.
Checked == {"HostDomain", "Decode", "Users", "Network", "DynNetwork", "Post"}

-------------------------------------------------------------------------------
Live      == power # "off" /\ pc \notin {"exited", "abend"}
At(label) == Live /\ pc = label

NewProcess ==
  /\ pc' = "fetch"
  /\ stage' = "Pre"
  /\ adapter' = 0
  /\ path' = "none"
  /\ config' = {}
  /\ managed' = FALSE
  /\ complete' = FALSE

\* Entering a process resets what the bookkeeping says about "this process".
NewGhosts(f) ==
  /\ stale' = ReadChildOfRoot(f, "Complete")
  /\ failed' = FALSE
  /\ critical' = FALSE
  /\ lost' = lost \cap {"PreOK"}

\* The daemon has just been started: at boot by the init script, or, with
\* mntpath=, by the installer that never registers it.
Init ==
  /\ media \in Media
  /\ file = Absent
  /\ home = TRUE
  /\ registered = (media.mode = "iso")
  /\ power = "on"
  /\ mounted = FALSE
  /\ driver = FALSE
  /\ present = media.present
  /\ pc = "fetch"
  /\ stage = "Pre"
  /\ adapter = 0
  /\ path = "none"
  /\ config = {}
  /\ managed = FALSE
  /\ complete = FALSE
  /\ inst = "idle"
  /\ prepared = FALSE
  /\ cut = FALSE
  /\ stale = FALSE
  /\ failed = FALSE
  /\ critical = FALSE
  /\ cuts = 0
  /\ lost = {}

-------------------------------------------------------------------------------
\* AddChildToRoot(tag) on a status file that was f: the element may not get there,
\* and nobody looks whether it did.
Adds(f, tag) ==
  /\ file' \in AddChildToRoot(f, tag)
  /\ lost' = IF ReadChildOfRoot(file', tag) THEN lost \ {tag} ELSE lost \cup {tag}

-------------------------------------------------------------------------------
\* main.cpp: find the specialization, load it, offer an upgrade.

\* InitializeSystem without mntpath=.  ISOFetcherException ends the process; an
\* indeterminate flag may be read as either value.
ObtainMountPoint ==
  /\ At("fetch")
  /\ media.mode = "iso"
  /\ \E end \in FetchEnds(file, mounted, driver, present) :
       /\ SystemFails \/ end.result = "found"
       /\ file' = end.file
       /\ managed' = end.managed
       /\ mounted' = end.mounted
       /\ driver' = end.driver
       /\ present' = end.present
       /\ path' = IF end.result = "found" THEN "iso" ELSE "none"
       /\ \/ end.result = "found" /\ pc' = "load"
          \/ end.result = "threw" /\ pc' = "exited"
          \/ end.result = "indeterminate" /\ pc' \in {"load", "exited"}
  /\ UNCHANGED <<home, registered, media, power, stage, adapter, config,
                 complete, inst, ghosts>>

\* InitializeSystem with mntpath=: the return value of ReadConfigFile is
\* ignored, and on failure the flag is as uninitialized as above.
ReadConfigFile ==
  /\ At("fetch")
  /\ media.mode = "file"
  /\ \/ path' = "file"   /\ pc' = "load"
     \/ path' = "unread" /\ pc' \in {"load", "exited"}
  /\ UNCHANGED <<disk, power, devices, stage, adapter, config, managed, complete, inst,
                 ghosts>>

\* LoadXML: a parser exception ends the process with the ISO still mounted; text
\* that is not XML (or was never read) is logged and leaves an OSConfiguration
\* that asks for nothing.
LoadXML ==
  /\ At("load")
  /\ LET content == IF path \in {"iso", "file"} THEN media.content ELSE "malformed"
     IN  /\ pc' = IF content = "rejected" THEN "exited" ELSE "upgrade"
         /\ config' = IF content = "valid" THEN media.wants ELSE {}
  /\ UNCHANGED <<disk, power, devices, stage, adapter, path, managed, complete, inst,
                 ghosts>>

\* InstallOrUpgradeAgent: without an agent version in the specialization there
\* is nothing to do.  setsid forks, so Execute returns while the installer runs.
InstallOrUpgradeAgent ==
  /\ At("upgrade")
  /\ pc' = "started"
  /\ inst' \in IF path = "iso" /\ media.kit /\ media.content = "valid" /\ inst = "idle"
               THEN {"idle", "stop"} ELSE {inst}
  /\ UNCHANGED <<disk, power, devices, stage, adapter, input, complete, ghosts>>

-------------------------------------------------------------------------------
\* PreConfigurator::Execute.

\* The StatusMessage is constructed at the latest here; SpecializationStarted is
\* added on every boot.
AddStarted ==
  /\ At("started")
  /\ \E f \in Instance(file, managed) : Adds(f, "Started")
  /\ managed' = TRUE
  /\ pc' = "prerun"
  /\ UNCHANGED <<home, registered, media, power, devices, stage, adapter, path, config,
                 complete, inst, marks>>

\* A status found, Successful or Failed, lets the other configurators run.
SkipCfgpre ==
  /\ At("prerun")
  /\ PreStatusFound(file)
  /\ stage' = After[stage]
  /\ pc' = "run"
  /\ UNCHANGED <<disk, power, devices, adapter, input, complete, inst, ghosts>>

\* No status found: run cfgpre.  Exit status 0 is recorded, a negative one too;
\* a positive one is neither recorded nor followed by a reboot.
RunCfgpre ==
  /\ At("prerun")
  /\ ~PreStatusFound(file)
  /\ \E ret \in ExecuteReturns :
       /\ pc' = IF ret = 0 THEN "prerecord" ELSE IF ret < 0 THEN "prefail" ELSE "run"
       /\ stage' = IF ret > 0 THEN After[stage] ELSE stage
       /\ prepared' = (prepared \/ ret = 0)
       /\ failed' = (failed \/ ret < 0)
       /\ critical' = (critical \/ ret = WExitStatus(-1))
  /\ UNCHANGED <<disk, power, devices, adapter, input, complete, inst,
                 cut, stale, cuts, lost>>

\* Mutant: the control file is not created before the reboot.
RebootUnrecorded ==
  /\ At("prerecord")
  /\ pc' = "reboot"
  /\ UNCHANGED <<disk, power, devices, stage, adapter, input, complete, inst, ghosts>>

RecordPreconfigured ==
  /\ At("prerecord")
  /\ Adds(file, "PreOK")
  /\ pc' = "reboot"
  /\ UNCHANGED <<home, registered, media, power, devices, stage, adapter, input,
                 complete, inst, marks>>

\* The three execs of shutdown -r: the first that succeeds replaces the process.
\* When none does, the error is logged and the configurators go on.
Reboot ==
  /\ At("reboot")
  /\ \/ /\ power' = "rebooting"
        /\ pc' = "exited"
        /\ UNCHANGED stage
     \/ /\ SystemFails
        /\ stage' = After[stage]
        /\ pc' = "run"
        /\ UNCHANGED power
  /\ UNCHANGED <<disk, devices, adapter, input, complete, inst, ghosts>>

RecordPreFailed ==
  /\ At("prefail")
  /\ Adds(file, "PreFailed")
  /\ pc' = "fail"
  /\ UNCHANGED <<home, registered, media, power, devices, stage, adapter, input,
                 complete, inst, marks>>

-------------------------------------------------------------------------------
\* The other configurators.

\* Where control goes when a configurator is done: NetworkConfigurator to its
\* next adapter, main to its end after the last one.
Advance ==
  /\ stage' = IF stage = "Network" THEN stage ELSE After[stage]
  /\ adapter' = IF stage = "Network" THEN adapter + 1 ELSE adapter
  /\ pc' = IF stage = "Post" THEN "exited" ELSE "run"

SkipStage ==
  /\ At("run")
  /\ ~Visited
  /\ stage' = After[stage]
  /\ UNCHANGED <<disk, power, devices, pc, adapter, input, complete, inst, ghosts>>

\* What the stage's command may return; a failed decoding counts as negative.
CommandReturns ==
  IF stage = "Decode" THEN {IF media.decodes THEN 0 ELSE -1} ELSE ExecuteReturns

\* One command of a configurator.  Only a negative status of a checked stage
\* matters; cfgpost with any other status means the specialization is complete.
RunStage ==
  /\ At("run")
  /\ Visited
  /\ \E ret \in CommandReturns :
       /\ IF stage \in Checked /\ ret < 0
          THEN pc' = "fail" /\ UNCHANGED <<stage, adapter>>
          ELSE IF stage = "Post"
          THEN pc' = "complete" /\ UNCHANGED <<stage, adapter>>
          ELSE Advance
       /\ failed' = (failed \/ (stage \in Checked /\ ret < 0))
       /\ critical' = (critical \/ (stage \in Checked /\ ret = WExitStatus(-1)))
  /\ UNCHANGED <<disk, power, devices, input, complete, inst,
                 prepared, cut, stale, cuts, lost>>

\* Mutant: the error branch of a configurator calls TerminateSetup only.
FailUnrecorded ==
  /\ At("fail")
  /\ pc' = "terminate"
  /\ UNCHANGED <<disk, power, devices, stage, adapter, input, complete, inst, ghosts>>

RecordFailed ==
  /\ At("fail")
  /\ Adds(file, "SpecFailed")
  /\ pc' = "terminate"
  /\ UNCHANGED <<home, registered, media, power, devices, stage, adapter, input,
                 complete, inst, marks>>

\* Mutant: the post-configurator forgets the SpecializationComplete element.
CompleteUnrecorded ==
  /\ At("complete")
  /\ pc' = "terminate"
  /\ UNCHANGED <<disk, power, devices, stage, adapter, input, complete, inst, ghosts>>

RecordComplete ==
  /\ At("complete")
  /\ Adds(file, "Complete")
  /\ pc' = "terminate"
  /\ UNCHANGED <<home, registered, media, power, devices, stage, adapter, input,
                 complete, inst, marks>>

-------------------------------------------------------------------------------
\* ISOFetcher::TerminateSetup, from whichever stage called it.

\* Mutant: the daemon is removed whether or not the specialization is complete.
RemoveInAnyCase ==
  /\ At("terminate")
  /\ complete' = ReadChildOfRoot(file, "Complete")
  /\ pc' = "remove"
  /\ UNCHANGED <<disk, power, devices, stage, adapter, input, inst, ghosts>>

ReadSpecializationComplete ==
  /\ At("terminate")
  /\ complete' = ReadChildOfRoot(file, "Complete")
  /\ pc' = IF complete' THEN "remove" ELSE "unmount"
  /\ UNCHANGED <<disk, power, devices, stage, adapter, input, inst, ghosts>>

Left(f, h, r) == [file |-> f, home |-> h, registered |-> r]

\* What removeAgent of the install script may leave when it does not get to
\* its end: first the registration goes, then SCVMM_HOME with the status file.
Removals == {Left(file, home, registered)}
            \cup [file : {file, Absent}, home : {home, FALSE}, registered : {FALSE}]

\* `install -r' from the medium.  With no path (an indeterminate flag read as
\* true) the command is the install of the distribution, which fails.
RemoveAgent ==
  /\ At("remove")
  /\ \E left \in IF path = "none" THEN {Left(file, home, registered)}
                 ELSE {Left(Absent, FALSE, FALSE)}
                      \cup (IF SystemFails THEN {Left(file, home, registered)} ELSE {})
                      \cup (IF Interrupts THEN Removals ELSE {}) :
       /\ file' = left.file
       /\ home' = left.home
       /\ registered' = left.registered
  /\ pc' = "unmount"
  /\ UNCHANGED <<media, power, devices, stage, adapter, input, complete, inst,
                 ghosts>>

\* Mutant: a failed specialization returns from TerminateSetup instead of exiting.
UnmountAndReturn ==
  /\ At("unmount")
  /\ pc' = IF complete THEN "shutdown" ELSE "run"
  /\ stage' = IF complete THEN stage ELSE After[stage]
  /\ UNCHANGED <<disk, power, devices, adapter, input, complete, inst, ghosts>>

\* UnmountISO when the path is under the mount point; it looks for InsmodStatus
\* in the status file, which a successful removal has just deleted, and removes the
\* driver, whosever it is, with its devices.  Another ISO may lie below the one it
\* unmounts.  Then a specialization that is not complete ends in exit(-1).
Unmount ==
  /\ At("unmount")
  /\ \/ /\ path = "iso"
        /\ mounted' \in {mounted, FALSE}
        /\ \/ UNCHANGED <<driver, present>>
           \/ /\ ReadChildOfRoot(file, "Insmod")
              /\ driver' = FALSE
              /\ present' \in {present, mounted'}
     \/ UNCHANGED devices
  /\ pc' = IF complete THEN "shutdown" ELSE "abend"
  /\ UNCHANGED <<disk, power, stage, adapter, input, complete, inst, ghosts>>

\* The three execs of shutdown -h.  When none succeeds TerminateSetup returns and
\* its caller goes on with the next configurator.
Shutdown ==
  /\ At("shutdown")
  /\ \/ /\ power' = "halting"
        /\ pc' = "exited"
        /\ UNCHANGED <<stage, adapter>>
     \/ /\ SystemFails
        /\ Advance
        /\ UNCHANGED power
  /\ UNCHANGED <<disk, devices, input, complete, inst, ghosts>>

-------------------------------------------------------------------------------
\* How a process dies.

\* The status files an agent process can leave when it is stopped where it is.
FilesAfterDeath ==
  LET setUp == IF managed THEN {file} ELSE DieInSetUp(file)
      adding(tag) == UNION {DieInAddChild(f, tag) : f \in Instance(file, managed)}
  IN  CASE At("fetch") /\ media.mode = "iso" ->
             setUp \cup (IF present THEN {} ELSE adding("Insmod"))
        [] At("started")   -> setUp \cup adding("Started")
        [] At("prerecord") -> DieInAddChild(file, "PreOK")
        [] At("prefail")   -> DieInAddChild(file, "PreFailed")
        [] At("fail")      -> DieInAddChild(file, "SpecFailed")
        [] At("complete")  -> DieInAddChild(file, "Complete")
        [] OTHER           -> {file}

\* The agent stops, with whatever its own or the installer's removal has done.
Die(removing) ==
  /\ \E left \in {Left(f, home, registered) : f \in FilesAfterDeath}
                 \cup (IF At("remove") \/ removing THEN Removals ELSE {}) :
       /\ file' = left.file
       /\ home' = left.home
       /\ registered' = left.registered
  /\ pc' = IF Live THEN "exited" ELSE pc
  /\ cut' = (cut \/ At("prerecord"))

-------------------------------------------------------------------------------
\* The installer: upgradeAgent of the install script, in a session of its own.

\* It compares the versions and stops the service, which kills the agent.
StopService ==
  /\ power # "off"
  /\ inst = "stop"
  /\ IF home THEN Die(FALSE) /\ inst' = "remove"
             ELSE inst' = "idle" /\ UNCHANGED <<file, home, registered, pc, cut>>
  /\ UNCHANGED <<media, power, devices, stage, adapter, input, complete,
                 prepared, stale, failed, critical, cuts, lost>>

\* Mutant: an upgrade keeps the status file of the agent it replaces.
UpgradeKeepsStatus ==
  /\ power # "off"
  /\ inst = "remove"
  /\ home' = FALSE
  /\ registered' = FALSE
  /\ inst' = "install"
  /\ prepared' = FALSE
  /\ cut' = FALSE
  /\ lost' = {}
  /\ UNCHANGED <<media, power, devices, file, pc, stage, adapter, input, complete,
                 stale, failed, critical, cuts>>

RemoveOldAgent ==
  /\ power # "off"
  /\ inst = "remove"
  /\ file' = Absent
  /\ home' = FALSE
  /\ registered' = FALSE
  /\ inst' = "install"
  /\ prepared' = FALSE
  /\ cut' = FALSE
  /\ lost' = {}
  /\ UNCHANGED <<media, power, devices, pc, stage, adapter, input, complete,
                 stale, failed, critical, cuts>>

\* installAgent; when the kit cannot be unpacked the script just exits.
InstallNewAgent ==
  /\ power # "off"
  /\ inst = "install"
  /\ \/ /\ home' = TRUE
        /\ registered' = TRUE
        /\ media' = [media EXCEPT !.kit = FALSE]
        /\ inst' = "start"
     \/ /\ SystemFails
        /\ inst' = "broken"
        /\ UNCHANGED <<home, registered, media>>
  /\ UNCHANGED <<file, power, devices, pc, stage, adapter, input, complete, ghosts>>

StartService ==
  /\ power # "off"
  /\ inst = "start"
  /\ ~Live
  /\ NewProcess
  /\ NewGhosts(file)
  /\ inst' = "idle"
  /\ UNCHANGED <<disk, power, devices, prepared, cut, cuts>>

-------------------------------------------------------------------------------
\* Power.

\* Everything that runs stops; an installer between removal and installation
\* leaves a machine without an agent.
PowerOff(removing) ==
  /\ Die(removing)
  /\ power' = "off"
  /\ mounted' = FALSE
  /\ driver' = FALSE
  /\ UNCHANGED present
  /\ inst' = IF inst # "idle" /\ ~registered' THEN "broken" ELSE "idle"
  /\ UNCHANGED <<media, stage, adapter, input, complete,
                 prepared, stale, failed, critical, lost>>

\* init completes a shutdown that was asked for.
GoDown ==
  /\ power \in {"rebooting", "halting"}
  /\ PowerOff(inst = "remove")
  /\ UNCHANGED cuts

PowerCut ==
  /\ power # "off"
  /\ cuts < MaxPowerCuts
  /\ PowerOff(inst = "remove")
  /\ cuts' = cuts + 1

\* The init script starts the agent when it is registered and its binary there.  The
\* devices are those the system finds without the agent.
Boot ==
  /\ power = "off"
  /\ power' = "on"
  /\ present' = media.present
  /\ IF registered /\ home
     THEN NewProcess /\ NewGhosts(file)
     ELSE UNCHANGED <<pc, stage, adapter, input, complete,
                      stale, failed, critical, lost>>
  /\ UNCHANGED <<disk, mounted, driver, inst, prepared, cut, cuts>>

-------------------------------------------------------------------------------
AgentStep ==
  \/ ObtainMountPoint \/ ReadConfigFile \/ LoadXML \/ InstallOrUpgradeAgent
  \/ AddStarted \/ SkipCfgpre \/ RunCfgpre \/ RecordPreconfigured \/ Reboot
  \/ RecordPreFailed \/ SkipStage \/ RunStage \/ RecordFailed \/ RecordComplete
  \/ ReadSpecializationComplete \/ RemoveAgent \/ Unmount \/ Shutdown

InstallerStep == StopService \/ RemoveOldAgent \/ InstallNewAgent \/ StartService

Next == AgentStep \/ InstallerStep \/ GoDown \/ PowerCut \/ Boot

Spec == Init /\ [][Next]_vars

\* The agent has one thread and every command it waits for is killed after its
\* timeout, so it goes on; so does the installer; init finishes a shutdown, and
\* the host starts the machine again.  Nothing makes the power fail.
FairSpec ==
  /\ Spec
  /\ WF_vars(AgentStep)
  /\ WF_vars(InstallerStep)
  /\ WF_vars(GoDown)
  /\ WF_vars(Boot)

-------------------------------------------------------------------------------
\* Properties.

Labels == {"fetch", "load", "upgrade", "started", "prerun", "prerecord", "reboot",
           "prefail", "run", "fail", "complete", "terminate", "remove", "unmount",
           "shutdown", "exited", "abend"}

InstallerLabels == {"idle", "stop", "remove", "install", "start", "broken"}

\* What the agent tells the host, and itself in a later process.
Elements == Tag \ {"Insmod"}

\* Every variable has its type; in particular the index of the next adapter never
\* passes the end of vNetAdapters.
TypeOK ==
  /\ file \in StatusFiles
  /\ home \in BOOLEAN
  /\ registered \in BOOLEAN
  /\ media \in [mode : {"iso", "file"}, content : {"valid", "malformed", "rejected"},
                wants : SUBSET Optional, present : BOOLEAN, kit : BOOLEAN,
                decodes : BOOLEAN]
  /\ power \in {"on", "rebooting", "halting", "off"}
  /\ mounted \in BOOLEAN
  /\ driver \in BOOLEAN
  /\ present \in BOOLEAN
  /\ pc \in Labels
  /\ stage \in Stages
  /\ adapter \in 0 .. Adapters
  /\ path \in {"none", "iso", "file", "unread"}
  /\ config \in SUBSET Optional
  /\ managed \in BOOLEAN
  /\ complete \in BOOLEAN
  /\ inst \in InstallerLabels
  /\ prepared \in BOOLEAN
  /\ cut \in BOOLEAN
  /\ stale \in BOOLEAN
  /\ failed \in BOOLEAN
  /\ critical \in BOOLEAN
  /\ cuts \in 0 .. MaxPowerCuts
  /\ lost \in SUBSET Elements

\* A process in which a checked step returned a negative status never gets
\* SpecializationComplete into the status file: when the file says so, it already
\* did when the process started (an earlier run completed, but its removal or its
\* shutdown did not).  TerminateSetup must not return for this to hold.
CompleteMeansNoFailedStep ==
  (failed /\ ReadChildOfRoot(file, "Complete")) => stale

\* When the agent gave up with exit(-1), the status file tells the host so, unless
\* the file did not get the element that this process reported last, or an installer
\* has removed the file since.  TerminateSetup itself records nothing: each of the
\* callers must have.
FailureIsRecorded ==
  pc = "abend" => \/ ReadChildOfRoot(file, "SpecFailed")
                  \/ {"SpecFailed", "Complete"} \cap lost # {}
                  \/ file = Absent

\* As long as no process found the specialization complete, the machine keeps an
\* agent that the next boot starts, whatever fails and whenever the power goes; the only
\* exception is an upgrade that was cut short after it removed the old agent.
AgentRecoverable ==
  media.mode = "iso" /\ ~(registered /\ home)
    => complete \/ stale \/ inst \in {"install", "broken"}

\* The status file and SCVMM_HOME go only by an upgrade or after the file itself
\* said SpecializationComplete.
RemovedOnlyWhenComplete ==
  [][ home /\ ~home' => \/ ReadChildOfRoot(file, "Complete")
                        \/ inst = "remove" ]_vars

\* cfgpre, which regenerates the host keys of the machine, runs again after it
\* succeeded only if the record of its success was lost: the process died before
\* writing it, the file did not get it, or the file has become unreadable.
CfgpreNotRepeated ==
  (At("prerun") /\ ~PreStatusFound(file) /\ prepared)
    => cut \/ "PreOK" \in lost \/ file.kind = "torn"

\* The agent calls ObtainMountPoint only in states that the scan is made for: in
\* particular, when an installer has started it beside the ISO and the driver of the
\* agent it replaced, the status file no longer tells of the driver.
FetchBeginsAsScanAssumes ==
  At("fetch") /\ media.mode = "iso" => FetchMayBegin(file, mounted, driver, present)

\* The agent reboots the machine for ever only if, from some boot on, the status file
\* never gets the element that says cfgpre has succeeded: its disk refuses every
\* write, or the file is torn, which no boot repairs.
RebootLoopOnlyWhenUnrecorded ==
  []<>(power = "rebooting") => <>[]("PreOK" \in lost)

\* What can keep a specialization from its end: a medium that is not a sound ISO or
\* carries an upgrade, a power cut, a checked step that failed, a verdict that the
\* status file did not get, and a system call that failed and leaves the process
\* ended with the power on (mount, the last shutdown) or something not removed.
Mishap ==
  \/ media.mode # "iso" \/ media.content # "valid" \/ ~media.decodes \/ media.kit
  \/ cuts > 0
  \/ failed
  \/ {"PreOK", "Complete"} \cap lost # {}
  \/ pc = "exited" /\ power = "on"
  \/ At("unmount") /\ complete /\ (home \/ registered)

\* Without a mishap the agent ends with the specialization complete, itself removed
\* and the machine shut down.  What does not matter: scripts that are killed or fail
\* where nobody checks, a lost SpecializationStarted, and a reboot that fails after
\* cfgpre.
EventuallySpecialized ==
  <>(Mishap \/ (complete /\ ~registered /\ ~home /\ power = "halting"))

\* The agent as the host sees it.  The record of the inserted driver is private; a
\* started agent without a registration (mntpath=) lasts as long as its files.
Lifecycle == INSTANCE AgentLifecycle WITH
  report    <- file.tags \ {"Insmod"},
  readable  <- file.kind # "torn",
  installed <- home /\ (registered \/ media.mode = "file"),
  refused   <- lost,
  kit       <- media.kit,
  running   <- Live

\* The agent keeps the promises of AgentLifecycle: over all crashes, reboots and
\* upgrades the host sees elements only in the promised order, but for those that the
\* file did not get, loses them only with a torn file or a justified removal, and
\* every run ends.
ImplementsLifecycle == Lifecycle!Spec

-------------------------------------------------------------------------------
\* What the source says and the code does not do.

\* commandexecutor.cpp:160-164 takes exit code -1 for a "Critical failure": after
\* one, the specialization must not be recorded as complete by the same process.
CriticalFailureStops ==
  (critical /\ ReadChildOfRoot(file, "Complete")) => stale

\* osspecializationreader.cpp:108 SCXASSERT(!xmlString.Empty()): LoadXML is called
\* only with text that was read.
XmlStringNotEmpty ==
  At("load") => path \in {"iso", "file"}
===============================================================================
