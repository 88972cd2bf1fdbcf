----------------------------- MODULE FetchContract -----------------------------
(***************************************************************************)
(* What one call of ISOFetcher::ObtainMountPoint may do to the machine, as *)
(* the agent that calls it sees it.  GuestAgent takes the whole call as    *)
(* one step with these outcomes; IsoFetcher models the scan step by step   *)
(* and is checked to end in one of them.                                   *)
(*                                                                         *)
(* A fetch state has the status file, whether this process has constructed *)
(* its StatusMessage, whether an ISO is mounted at /mnt/vmmcdrom/, whether *)
(* the ata_piix driver is loaded because the agent inserted it, whether    *)
(* some CD-ROM device has its node, and how the call ended:                *)
(*   "found"          returned, m_foundOSSpecializationFile = true,        *)
(*   "threw"          ISOFetcherException,                                 *)
(*   "indeterminate"  returned early because insmod failed; the flag was   *)
(*                    never assigned and main.cpp reads it uninitialized.  *)
(***************************************************************************)
EXTENDS StatusFile

\* What the caller owes: before the agent has done anything in this boot its mount
\* point is empty and the driver is not its own; a later agent in the same boot is
\* one that an installer started, after it removed the status file.
FetchMayBegin(f, mounted, driver, present) ==
  mounted \/ driver => f = Absent /\ present

\* The scan of the devices, from status file f.  UnmountISO between two devices asks
\* the StatusMessage, which it may be the first to construct, for the InsmodStatus
\* element and, when that is present, removes the driver.  What is mounted is a
\* device that is there.
Scans(f, managed, driver) ==
  LET removals == IF ReadChildOfRoot(f, "Insmod") THEN {FALSE} ELSE {}
      asked    == {<<f, managed>>} \cup {<<g, TRUE>> : g \in Instance(f, managed)}
  IN  {end \in [file : {f} \cup SetUp(f), managed : BOOLEAN, mounted : BOOLEAN,
                driver : {driver} \cup removals, present : BOOLEAN,
                result : {"found", "threw"}] :
         /\ <<end.file, end.managed>> \in asked
         /\ end.result = "found" => end.mounted
         /\ end.mounted => end.present}

\* ObtainMountPoint: with a device present it scans at once, and the devices go only
\* with the driver.  Otherwise it inserts the driver, records that, and scans what
\* the driver brings; unless the system has loaded the driver already: then insmod
\* fails, or a device appears just before the agent looks.
FetchEnds(f, mounted, driver, present) ==
  LET scanned  == {end \in Scans(f, FALSE, driver) :
                     end.present \/ (ReadChildOfRoot(f, "Insmod") /\ ~end.driver)}
      records  == UNION {AddChildToRoot(g, "Insmod") : g \in SetUp(f)}
      inserted == {end \in UNION {Scans(g, TRUE, TRUE) : g \in records} :
                     end.present => end.driver}
      refused  == [file : {f}, managed : {FALSE}, mounted : {mounted}, driver : {driver},
                   present : BOOLEAN, result : {"indeterminate"}]
  IN  IF present THEN scanned ELSE scanned \cup inserted \cup refused
================================================================================
