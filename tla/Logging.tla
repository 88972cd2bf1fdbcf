-------------------------------- MODULE Logging --------------------------------
(***************************************************************************)
(* The log framework: SCXLogFileConfigurator, whose thread reloads the     *)
(* configuration file while the program runs, the mediator with the        *)
(* backends registered at it, and log handles, which keep the severity     *)
(* threshold of their module and compare a version number to notice that   *)
(* it is out of date.                                                      *)
(*                                                                         *)
(* m_lock is the lock of the configurator, which Restore, Set and Clear    *)
(* hold throughout and GetConfigVersion takes for its one step; mediator   *)
(* is the lock of SCXLogMediatorSimple.  The lock of a backend is taken    *)
(* for one access to its filter, which is one step.                        *)
(***************************************************************************)
EXTENDS SeverityFilter, SequencesExt, FiniteSets

CONSTANTS
  Threads,      \* users of the log
  Updater,      \* the thread of ConfigUpdateThreadBody
  Nobody,
  Handles,      \* SCXLogHandle objects, which threads may share
  ModuleOf,     \* the module of each handle
  Modules,      \* all modules, also those only the file names
  Texts,        \* what an administrator may write into the file
  Severity,     \* what SetSeverityThreshold is called with
  Default,      \* GetDefaultSeverityThreshold of the log policy
  MaxEdits,     \* bound: how often the file changes
  MaxCalls      \* bound: calls of Set- and ClearSeverityThreshold

ASSUME NameAssumption == Updater \notin Threads /\ Nobody \notin Threads \cup {Updater}
ASSUME ModuleAssumption ==
  /\ <<>> \in Modules /\ Modules \subseteq Seq(STRING)
  /\ Handles # {} /\ ModuleOf \in [Handles -> Modules]
ASSUME SeverityAssumption ==
  Severity \subseteq Severities /\ Default \in Severities \ {eNotSet, eHysterical}
ASSUME BoundAssumption == MaxEdits \in Nat /\ MaxCalls \in Nat

\* A text is a sequence of blocks: FILE or STDOUT, the MODULE lines, and for a
\* FILE whether it has a PATH.  Only the last one can lack its closing line.
Blocks == [kind : {"FILE", "STDOUT"}, path : BOOLEAN, closed : BOOLEAN,
           lines : Seq(Modules \X Severities)]

ASSUME TextAssumption ==
  /\ Texts \subseteq [exists : BOOLEAN, readable : BOOLEAN, blocks : Seq(Blocks)]
  /\ \A edition \in Texts :
       /\ edition.exists \/ edition.blocks = <<>>
       /\ \A i \in DOMAIN edition.blocks :
            edition.blocks[i].closed \/ i = Len(edition.blocks)

Missing == [exists |-> FALSE, readable |-> TRUE, blocks |-> <<>>]

VARIABLES
  file,             \* the configuration file
  modified,         \* its modification time
  m_ConfFile,       \* existence and modification time when last refreshed
  text,             \* what the last reload read
  m_Backends,       \* the backends of the configurator: kind and filter
  m_Consumers,      \* those that are registered at the mediator
  m_ConfigVersion,
  m_Min,            \* m_MinActiveSeverityThreshold
  m_lock,           \* who holds the lock of the configurator
  at,               \* the holder's place in a loop, over backends or blocks
  changed,          \* the holder has changed a filter, or read a valid block
  mediator,         \* who holds the lock of the mediator
  call,             \* what each thread is doing
  thread,           \* what the update thread is doing
  m_severityThreshold, m_configVersion, \* of each handle
  asked,            \* bookkeeping: the version its threshold was asked for
  calls

disk     == <<file, modified>>
reload   == <<m_ConfFile, text>>
backends == <<m_Backends, m_Min>>
held     == <<m_lock, at, changed>>
handles  == <<m_severityThreshold, m_configVersion, asked>>
vars == <<disk, reload, backends, m_Consumers, m_ConfigVersion, held, mediator, call, thread,
          handles, calls>>

\* A call: where it is, on which handle, the severity to set or the least one met in
\* the loop over the consumers, those left, and (bookkeeping) the version it started from.
Call(label, h, s, left, since) ==
  [at |-> label, handle |-> h, severity |-> s, left |-> left, since |-> since]

Idle == Call("idle", CHOOSE h \in Handles : TRUE, eSuppress, {}, 0)

Backend(kind, filter) == [kind |-> kind, filter |-> filter]

Fallback == Backend("DEFAULT", SetFilter(NewFilter, <<>>, Default))

\* The program starts without a configuration file; editions come later.
Init ==
  /\ file = Missing /\ modified = 0
  /\ m_ConfFile = <<FALSE, 0>> /\ text = Missing
  /\ m_Backends = <<Fallback>> /\ m_Consumers = {1} /\ m_Min = Default
  /\ m_ConfigVersion = 1
  /\ m_lock = Nobody /\ at = 1 /\ changed = FALSE /\ mediator = Nobody
  /\ call = [t \in Threads |-> Idle] /\ thread = "sleep"
  /\ m_severityThreshold = [h \in Handles |-> eSuppress]
  /\ m_configVersion = [h \in Handles |-> 0]
  /\ asked = [h \in Handles |-> 0]
  /\ calls = 0

At(t, label) == call[t].at = label
Module(t)    == ModuleOf[call[t].handle]
Return(t)    == call' = [call EXCEPT ![t] = Idle]

(***************************************************************************)
(* SCXLogHandle.                                                           *)
(***************************************************************************)

\* A handle that is made, or used for a log item, with a version that is not the
\* configurator's, asks for its threshold; with the right version it does nothing.
OutOfDate(h) == m_configVersion[h] # m_ConfigVersion

GetThreshold(t) ==
  /\ At(t, "idle")
  /\ m_lock = Nobody
  /\ \E h \in Handles :
       OutOfDate(h) /\ call' = [call EXCEPT ![t] = Call("ask", h, eSuppress, {}, 0)]
  /\ UNCHANGED <<disk, reload, backends, m_Consumers, m_ConfigVersion, held, mediator, thread,
                 handles, calls>>

\* SCXLogMediatorSimple::GetEffectiveSeverity, consumer by consumer.
AskMediator(t) ==
  /\ At(t, "ask")
  /\ mediator = Nobody
  /\ mediator' = t
  /\ call' = [call EXCEPT ![t] =
       Call("poll", @.handle, eSuppress, m_Consumers,
            IF m_lock = Nobody THEN m_ConfigVersion ELSE 0)]
  /\ UNCHANGED <<disk, reload, backends, m_Consumers, m_ConfigVersion, held, thread, handles,
                 calls>>

Lesser(a, b) == IF b < a THEN b ELSE a

PollConsumer(t) ==
  /\ At(t, "poll")
  /\ call[t].severity # eHysterical
  /\ \E i \in call[t].left :
       call' = [call EXCEPT
         ![t].left = @ \ {i},
         ![t].severity = Lesser(@, GetSeverityThreshold(m_Backends[i].filter, Module(t)))]
  /\ UNCHANGED <<disk, reload, backends, m_Consumers, m_ConfigVersion, held, mediator, thread,
                 handles, calls>>

\* Both GetSeverityThreshold and SetSeverityThreshold store the threshold first ...
KeepThreshold(t) ==
  /\ m_severityThreshold' = [m_severityThreshold EXCEPT ![call[t].handle] = call[t].severity]
  /\ asked' = [asked EXCEPT ![call[t].handle] = call[t].since]
  /\ call' = [call EXCEPT ![t] = Call("stamp", @.handle, eSuppress, {}, 0)]
  /\ UNCHANGED m_configVersion

StoreThreshold(t) ==
  /\ At(t, "poll")
  /\ call[t].left = {} \/ call[t].severity = eHysterical
  /\ mediator' = Nobody
  /\ KeepThreshold(t)
  /\ UNCHANGED <<disk, reload, backends, m_Consumers, m_ConfigVersion, held, thread, calls>>

\* ... and then ask for the version.
StampVersion(t) ==
  /\ At(t, "stamp")
  /\ m_lock = Nobody
  /\ m_configVersion' = [m_configVersion EXCEPT ![call[t].handle] = m_ConfigVersion]
  /\ Return(t)
  /\ UNCHANGED <<disk, reload, backends, m_Consumers, m_ConfigVersion, held, mediator, thread,
                 m_severityThreshold, asked, calls>>

(***************************************************************************)
(* SetSeverityThreshold and ClearSeverityThreshold of the configurator,    *)
(* called by a handle: every backend in turn, then the version.            *)
(***************************************************************************)
Acquire(t) == m_lock = Nobody /\ m_lock' = t /\ at' = 1 /\ changed' = FALSE
Release    == m_lock' = Nobody /\ at' = 1 /\ changed' = FALSE

BeginChange(t, label, severities) ==
  /\ At(t, "idle")
  /\ calls < MaxCalls
  /\ calls' = calls + 1
  /\ Acquire(t)
  /\ \E h \in Handles, s \in severities : call' = [call EXCEPT ![t] = Call(label, h, s, {}, 0)]
  /\ UNCHANGED <<disk, reload, backends, m_Consumers, m_ConfigVersion, mediator, thread, handles>>

BeginSet(t)   == BeginChange(t, "set", Severity)
BeginClear(t) == BeginChange(t, "clear", {eSuppress})

\* The least threshold only goes down, and only for a filter that changed.
MinAfter(before, after, s) == IF after # before /\ s < m_Min THEN s ELSE m_Min

ChangeBackend(filter) ==
  /\ m_Backends' = [m_Backends EXCEPT ![at] = Backend(@.kind, filter)]
  /\ changed' = (changed \/ filter # m_Backends[at].filter)
  /\ at' = at + 1
  /\ UNCHANGED <<disk, reload, m_Consumers, m_ConfigVersion, m_lock, mediator, call, thread,
                 handles, calls>>

SetBackend(t) ==
  /\ At(t, "set")
  /\ at <= Len(m_Backends)
  /\ LET before == m_Backends[at].filter
         after  == SetFilter(before, Module(t), call[t].severity)
     IN  ChangeBackend(after) /\ m_Min' = MinAfter(before, after, call[t].severity)

ClearBackend(t) ==
  /\ At(t, "clear")
  /\ at <= Len(m_Backends)
  /\ ChangeBackend(ClearFilter(m_Backends[at].filter, Module(t)))
  /\ UNCHANGED m_Min

\* m_Min after Clear: the least of all backends, found anew.
MinOfAll ==
  Min({eSeverityMax} \cup {GetMinActiveSeverityThreshold(m_Backends[i].filter) : i \in DOMAIN m_Backends})

\* Mutant: a change does not count.
SetUnversioned == m_ConfigVersion

NextVersion == IF changed THEN m_ConfigVersion + 1 ELSE m_ConfigVersion

\* SetSeverityThreshold of the handle goes on with its own threshold.
EndSet(t) ==
  /\ At(t, "set")
  /\ at > Len(m_Backends)
  /\ m_ConfigVersion' = NextVersion
  /\ Release
  /\ call' = [call EXCEPT ![t] = Call("keep", @.handle, @.severity, {}, NextVersion)]
  /\ UNCHANGED <<disk, reload, backends, m_Consumers, mediator, thread, handles, calls>>

KeepSeverity(t) ==
  /\ At(t, "keep")
  /\ KeepThreshold(t)
  /\ UNCHANGED <<disk, reload, backends, m_Consumers, m_ConfigVersion, held, mediator, thread,
                 calls>>

EndClear(t) ==
  /\ At(t, "clear")
  /\ at > Len(m_Backends)
  /\ m_ConfigVersion' = NextVersion
  /\ m_Min' = IF changed THEN MinOfAll ELSE m_Min
  /\ Release
  /\ Return(t)
  /\ UNCHANGED <<disk, reload, m_Backends, m_Consumers, mediator, thread, handles, calls>>

(***************************************************************************)
(* ConfigUpdateThreadBody: after each timeout it compares the file.        *)
(***************************************************************************)
\* Mutant: the time of the file is not compared.
ExistsOnly == <<file.exists, 0>>

Stat == <<file.exists, IF file.exists THEN modified ELSE 0>>

IsConfigurationChanged ==
  /\ thread = "sleep"
  /\ m_lock = Nobody
  /\ Stat # m_ConfFile
  /\ thread' = "restore"
  /\ UNCHANGED <<disk, reload, backends, m_Consumers, m_ConfigVersion, held, mediator, call,
                 handles, calls>>

BeginRestore ==
  /\ thread = "restore"
  /\ Acquire(Updater)
  /\ thread' = "deregister"
  /\ UNCHANGED <<disk, reload, backends, m_Consumers, m_ConfigVersion, mediator, call, handles,
                 calls>>

\* Mutant: the old backends stay at the mediator.
ForgetToDeRegister ==
  /\ thread = "deregister"
  /\ at <= Len(m_Backends)
  /\ at' = at + 1
  /\ UNCHANGED <<disk, reload, backends, m_Consumers, m_ConfigVersion, m_lock, changed, mediator,
                 call, thread, handles, calls>>

DeRegisterConsumer ==
  /\ thread = "deregister"
  /\ at <= Len(m_Backends)
  /\ mediator = Nobody
  /\ m_Consumers' = m_Consumers \ {at}
  /\ at' = at + 1
  /\ UNCHANGED <<disk, reload, backends, m_ConfigVersion, m_lock, changed, mediator, call,
                 thread, handles, calls>>

\* The file's time is taken before its lines are read.
RefreshConfFile ==
  /\ thread = "deregister"
  /\ at > Len(m_Backends)
  /\ m_Min' = eSeverityMax
  /\ m_Backends' = <<>>
  /\ m_ConfFile' = Stat
  /\ thread' = "read"
  /\ UNCHANGED <<disk, text, m_Consumers, m_ConfigVersion, held, mediator, call, handles, calls>>

\* A file that cannot be opened or decoded throws, through the configurator, which
\* unlocks, to the end of the thread.
ReadAllLines ==
  /\ thread = "read"
  /\ text' = file
  /\ IF file.readable
     THEN thread' = "parse" /\ at' = 1 /\ UNCHANGED <<m_lock, changed>>
     ELSE thread' = "dead" /\ Release
  /\ UNCHANGED <<disk, m_ConfFile, backends, m_Consumers, m_ConfigVersion, mediator, call,
                 handles, calls>>

\* What a block sets: Create's line for the root, then the MODULE lines; nothing makes
\* the root hysterical.
Lines(block)     == << <<<<>>, Default>> >> \o block.lines
Effective(block) == {n \in DOMAIN Lines(block) : Lines(block)[n] # <<<<>>, eHysterical>>}
Named(block)     == {Lines(block)[n][1] : n \in Effective(block)}

\* The last line for a module counts.
LastFor(block, module) ==
  Lines(block)[Max({n \in Effective(block) : Lines(block)[n][1] = module})][2]

FilterOf(block) ==
  [default |-> LastFor(block, <<>>),
   map     |-> [module \in Named(block) \ {<<>>} |-> LastFor(block, module)]]

\* Every line that changes the filter lowers the least threshold, also one that a
\* later line overrides.
\* Mutant: the MODULE lines do not lower it.
MinUnseen(block) == Lesser(m_Min, Default)

MinWith(block) == Min({m_Min} \cup {Lines(block)[n][2] : n \in Effective(block)})

IsInitialized(block) == block.kind = "STDOUT" \/ block.path

Add(kind, filter) ==
  /\ mediator = Nobody
  /\ m_Backends' = Append(m_Backends, Backend(kind, filter))
  /\ m_Consumers' = m_Consumers \cup {Len(m_Backends')}

\* A block without its end is dropped; one without a PATH ends the parsing, as if
\* nothing valid had come before it.
ParseBlock ==
  /\ thread = "parse"
  /\ at <= Len(text.blocks)
  /\ LET block == text.blocks[at]
     IN  /\ m_Min' = MinWith(block)
         /\ \/ /\ block.closed /\ IsInitialized(block)
               /\ Add(block.kind, FilterOf(block))
               /\ changed' = TRUE
               /\ at' = at + 1
            \/ /\ block.closed /\ ~IsInitialized(block)
               /\ changed' = FALSE
               /\ at' = Len(text.blocks) + 1
               /\ UNCHANGED <<m_Backends, m_Consumers>>
            \/ /\ ~block.closed
               /\ at' = at + 1
               /\ UNCHANGED <<m_Backends, m_Consumers, changed>>
  /\ UNCHANGED <<disk, reload, m_ConfigVersion, m_lock, mediator, call, thread, handles, calls>>

EndParse ==
  /\ thread = "parse"
  /\ at > Len(text.blocks)
  /\ \/ changed /\ UNCHANGED <<backends, m_Consumers>>
     \/ ~changed /\ Add("DEFAULT", Fallback.filter) /\ m_Min' = Default
  /\ m_ConfigVersion' = m_ConfigVersion + 1
  /\ Release
  /\ thread' = "sleep"
  /\ UNCHANGED <<disk, reload, mediator, call, handles, calls>>

\* An administrator writes the file or removes it.  No two editions have the same time.
\* In the code, which compares microseconds where the file system keeps them and whole
\* seconds where it does not, two may, and the second is then missed if the first was
\* loaded: the model leaves such edits out.
EditFile ==
  /\ modified < MaxEdits
  /\ file' \in Texts
  /\ file.exists \/ file'.exists
  /\ modified' = modified + 1
  /\ UNCHANGED <<reload, backends, m_Consumers, m_ConfigVersion, held, mediator, call,
                 thread, handles, calls>>

Continue(t) ==
  \/ AskMediator(t) \/ PollConsumer(t) \/ StoreThreshold(t) \/ StampVersion(t)
  \/ SetBackend(t) \/ ClearBackend(t) \/ EndSet(t) \/ EndClear(t) \/ KeepSeverity(t)

ConfigUpdateThreadBody ==
  \/ IsConfigurationChanged \/ BeginRestore \/ DeRegisterConsumer \/ RefreshConfFile
  \/ ReadAllLines \/ ParseBlock \/ EndParse

Next ==
  \/ \E t \in Threads : GetThreshold(t) \/ BeginSet(t) \/ BeginClear(t) \/ Continue(t)
  \/ ConfigUpdateThreadBody
  \/ EditFile

Spec == Init /\ [][Next]_vars

\* Calls that have begun go on, and the update thread is scheduled.
FairSpec ==
  /\ Spec
  /\ \A t \in Threads : WF_vars(Continue(t))
  /\ WF_vars(ConfigUpdateThreadBody)

-----------------------------------------------------------------------------
\* A call of a thread: see Call.
Calls == [at : {"idle", "ask", "poll", "stamp", "set", "clear", "keep"}, handle : Handles,
          severity : Severities, left : SUBSET Nat, since : Nat]

FileTypeOK ==
  /\ file \in Texts \cup {Missing} /\ text \in Texts \cup {Missing}
  /\ modified \in 0 .. MaxEdits
  /\ m_ConfFile \in BOOLEAN \X (0 .. MaxEdits)

BackendTypeOK ==
  /\ m_Backends \in Seq([kind : {"FILE", "STDOUT", "DEFAULT"}, filter : Filters(Modules)])
  /\ m_Consumers \subseteq DOMAIN m_Backends
  /\ m_ConfigVersion \in Nat \ {0}
  /\ m_Min \in eNotSet .. eSeverityMax

ThreadTypeOK ==
  /\ m_lock \in Threads \cup {Updater, Nobody}
  /\ mediator \in Threads \cup {Nobody}
  /\ at \in Nat \ {0}
  /\ changed \in BOOLEAN
  /\ thread \in {"sleep", "restore", "deregister", "read", "parse", "dead"}

CallTypeOK ==
  /\ call \in [Threads -> Calls]
  /\ calls \in 0 .. MaxCalls

HandleTypeOK ==
  /\ m_severityThreshold \in [Handles -> Severities]
  /\ m_configVersion \in [Handles -> Nat]
  /\ asked \in [Handles -> Nat]

\* Types of all variables; the mediator never knows a backend that is gone.
TypeOK == FileTypeOK /\ BackendTypeOK /\ ThreadTypeOK /\ CallTypeOK /\ HandleTypeOK

\* What a handle with this threshold holds back, no registered backend would write.
LosesNothing(module, threshold) ==
  \A i \in m_Consumers, s \in Severities :
    IsLogable(m_Backends[i].filter, module, s) => s >= threshold

UpToDate(h) == m_lock = Nobody /\ m_configVersion[h] = m_ConfigVersion

\* A handle that believes itself up to date never holds back an item a backend would
\* write, provided no change of the configuration overlapped the call that stored
\* its threshold (the bookkeeping variable asked tells).
ThresholdLosesNothing ==
  \A h \in Handles : UpToDate(h) /\ asked[h] = m_ConfigVersion
    => LosesNothing(ModuleOf[h], m_severityThreshold[h])

\* The same without the proviso, which is what the comment of SCXLogHandle promises:
\* "This threshold has to be refreshed regularly since the configuration may change
\* at run time. This is implemented using a configuration version number."
ThresholdIsRefreshed ==
  \A h \in Handles : UpToDate(h) => LosesNothing(ModuleOf[h], m_severityThreshold[h])

\* GetMinActiveSeverityThreshold is never above what some backend asks for, unless
\* the default backend was added beside backends of a file whose last block is broken.
FellBackBesideOthers == Len(m_Backends) > 1 /\ Last(m_Backends).kind = "DEFAULT"

MinIsLowerBound ==
  m_lock = Nobody /\ ~FellBackBesideOthers
    => \A i \in DOMAIN m_Backends :
         m_Min <= GetMinActiveSeverityThreshold(m_Backends[i].filter)

\* However edits, reloads and calls interleave, the update thread ends with the last
\* edition of the file loaded and the lock free, and only a file it cannot read ends it;
\* but when the file is gone in the end, and was gone when it was last refreshed, what it
\* held in between, when its lines were read, stays loaded.
ConfigConverges ==
  <>[](/\ m_lock = Nobody
       /\ thread = "dead" \/ text = file \/ (~file.exists /\ ~m_ConfFile[1]))
===============================================================================
