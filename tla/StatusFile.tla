------------------------------ MODULE StatusFile ------------------------------
(***************************************************************************)
(* The status file statusmessage.xml of the agent, as StatusMessage reads  *)
(* and writes it (vmm/dev/src/statusmanager/statusmessage.cpp).  It is the *)
(* only memory the agent has across reboots: every other variable of the   *)
(* agent is lost with the process.                                         *)
(*                                                                         *)
(* A status file is a value with a kind and a set of tags:                 *)
(*   "absent"  there is no file (nor, after a removal, a directory),       *)
(*   "torn"    the file exists and XElement::Load throws on it: Write      *)
(*             truncated it and not all of the text reached the disk,      *)
(*   "xml"     the file holds the root element and the child elements      *)
(*             in tags.                                                    *)
(* Adding an element twice writes it twice; ReadChildOfRoot returns the    *)
(* first one, so a set of tags tells apart all that the agent can see.     *)
(*                                                                         *)
(* The disk may refuse what it is given, but gives back what it took: a    *)
(* file that is there can be opened for reading, as the agent's own binary *)
(* and scripts on the same disk can.                                       *)
(***************************************************************************)
CONSTANT WritesFail  \* TRUE iff mkdir, open and write may fail for the status file

ASSUME WritesAssumption == WritesFail \in BOOLEAN

\* The elements the agent writes.  "PreOK" and "PreFailed" are the element
\* PreConfiguratorStatus with the content Successful or Failed; it is only
\* written when it was not found, so at most one of the two is ever present.
\* "SpecFailed" stands for the elements SpecializationFailed and
\* SpecializationStatus with that content, which nothing in the agent reads.
Tag == {"Started", "PreOK", "PreFailed", "SpecFailed", "Complete", "Insmod"}

Absent    == [kind |-> "absent", tags |-> {}]
Torn      == [kind |-> "torn",   tags |-> {}]
Xml(tags) == [kind |-> "xml",    tags |-> tags]

StatusFiles == [kind : {"absent", "torn", "xml"}, tags : SUBSET Tag]

\* ReadChildOfRoot: an unreadable or missing file is the same as no element.
ReadChildOfRoot(f, tag) == f.kind = "xml" /\ tag \in f.tags

\* Write, when it returns: it opens the file with ios::trunc and streams the text
\* into it.  When it cannot open the file it leaves the old one, when the disk does
\* not take the text it leaves a truncated one; either is at most logged.
Write(f, g) == {g} \cup (IF WritesFail THEN {f, Torn} ELSE {})

\* What a process that dies inside Write can leave.
DieInWrite(f, g) == {f, g, Torn}

\* StatusMessage's constructor: SetUp creates the directory and a root element when
\* there is no file, and keeps any file there is, torn or not.  A mkdir that fails
\* is only logged; then Write cannot open the file.
SetUp(f) == IF f.kind = "absent" THEN Write(f, Xml({})) ELSE {f}

DieInSetUp(f) == IF f.kind = "absent" THEN DieInWrite(f, Xml({})) ELSE {f}

\* StatusMessage::Instance(): the first call in a process runs the constructor.
Instance(f, managed) == IF managed THEN {f} ELSE SetUp(f)

\* AddChildToRoot: reads the whole file, adds the element, writes it back.  On a file
\* that does not parse it returns false, else true, written or not; no caller looks.
AddChildToRoot(f, tag) ==
  IF f.kind = "xml" THEN Write(f, Xml(f.tags \cup {tag})) ELSE {f}

DieInAddChild(f, tag) ==
  IF f.kind = "xml" THEN DieInWrite(f, Xml(f.tags \cup {tag})) ELSE {f}

\* Mutant: only a Successful status is taken for one that was found.
OnlySuccessFound(f) == ReadChildOfRoot(f, "PreOK")

\* ReadChildOfRoot(PreConfiguratorStatus, value): was it found at all?
PreStatusFound(f) == ReadChildOfRoot(f, "PreOK") \/ ReadChildOfRoot(f, "PreFailed")
===============================================================================
