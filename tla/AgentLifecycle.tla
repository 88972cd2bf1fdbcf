---------------------------- MODULE AgentLifecycle ----------------------------
(***************************************************************************)
(* What the guest agent promises to the host that prepared the machine:    *)
(* the elements the host can find in the status file, in which order they  *)
(* may come, and when the agent may disappear.  Devices, configurators,    *)
(* scripts, power and the installer's steps are all hidden.  GuestAgent is *)
(* checked to implement Spec, and AgentRefinement proves that it           *)
(* implements Safety.                                                      *)
(***************************************************************************)
VARIABLES
  report,     \* the elements the host finds in the status file
  readable,   \* FALSE when the file is there but is no XML
  refused,    \* elements that were reported and that the file did not get
  installed,  \* the next boot starts an agent
  kit,        \* the medium has an agent newer than the installed one
  running     \* an agent process is alive

lifecycle == <<report, readable, refused, installed, kit, running>>

Init ==
  /\ report = {}
  /\ readable = TRUE
  /\ refused = {}
  /\ installed = TRUE
  /\ kit \in BOOLEAN
  /\ running = TRUE

Elements == {"Started", "PreOK", "PreFailed", "SpecFailed", "Complete"}

\* What may be reported next: every run starts by saying so, cfgpre has one
\* verdict, and only a started specialization fails or completes.
MayFollow(tag) ==
  LET started == "Started" \in report \cup refused
  IN  \/ tag = "Started"
      \/ started /\ tag \in {"SpecFailed", "Complete"}
      \/ started /\ tag \in {"PreOK", "PreFailed"} /\ report \cap {"PreOK", "PreFailed"} = {}

\* A running agent adds an element, and may die before it does anything else.
Report ==
  /\ running
  /\ readable
  /\ \E tag \in Elements :
       /\ MayFollow(tag)
       /\ report' = report \cup {tag}
       /\ refused' \in {refused, refused \ {tag}}
  /\ running' \in BOOLEAN
  /\ UNCHANGED <<readable, installed, kit>>

Torn == report' = {} /\ readable' = FALSE

\* The file does not get an element, and the agent does not notice.
Refuse ==
  /\ running
  /\ \E tag \in Elements : refused' = refused \cup {tag}
  /\ UNCHANGED <<report, readable>> \/ Torn
  /\ UNCHANGED <<installed, kit, running>>

\* The file is torn while it is rewritten; the agent may live on.
Tear ==
  /\ running
  /\ Torn
  /\ running' \in BOOLEAN
  /\ UNCHANGED <<refused, installed, kit>>

End ==
  /\ running
  /\ running' = FALSE
  /\ UNCHANGED <<report, readable, refused, installed, kit>>

\* What an earlier run could not say does not excuse this one.
Start ==
  /\ ~running
  /\ installed
  /\ running' = TRUE
  /\ refused' \in SUBSET (refused \ {"Started"})
  /\ UNCHANGED <<report, readable, installed, kit>>

\* What a removal takes away: the boot registration, the status file, or both.
Remove ==
  /\ \/ UNCHANGED <<report, readable>>
     \/ report' = {} /\ readable' = TRUE
  /\ installed' \in {installed, FALSE}
  /\ UNCHANGED kit

\* The agent removes itself, but only after it reported that all is done.
Retire ==
  /\ running
  /\ "Complete" \in report
  /\ Remove
  /\ running' \in BOOLEAN
  /\ UNCHANGED refused

\* A newer agent takes the place of one that does not run: the old one goes with
\* all it reported, the new one starts from nothing.
Supersede ==
  /\ ~running
  /\ kit
  /\ Remove
  /\ refused' \in {refused, {}}
  /\ UNCHANGED running

Install ==
  /\ ~running
  /\ kit
  /\ kit' = FALSE
  /\ installed' = TRUE
  /\ UNCHANGED <<report, readable, refused, running>>

Next == Report \/ Refuse \/ Tear \/ End \/ Start \/ Retire \/ Supersede \/ Install

\* Every step is one of these, and every run comes to an end.
Safety == Init /\ [][Next]_lifecycle

Spec == Safety /\ (running ~> ~running)
===============================================================================
