---------------------------- MODULE LoggingProofs ----------------------------
(***************************************************************************)
(* Theorems about Logging, for every number of threads and handles, every  *)
(* set of modules and of files, and any number of changes.                 *)
(***************************************************************************)
EXTENDS Logging, SequenceTheorems, WellFoundedInduction, TLAPS

-----------------------------------------------------------------------------
\* Least and greatest elements.

LEMMA LeastElement ==
  ASSUME NEW S, S \subseteq Nat, S # {}
  PROVE  \E x \in S : \A y \in S : x <= y
<1> DEFINE R == OpToRel(<, Nat)
<1>1. IsWellFoundedOn(R, Nat)
  BY NatLessThanWellFounded
<1>2. PICK x \in S : \A y \in S : ~ (<<y, x>> \in R)
  <2> HIDE DEF R
  <2> QED BY <1>1, WFMin
<1>3. \A y \in S : ~ (y < x)
  BY <1>2 DEF OpToRel
<1> QED BY <1>3

LEMMA GreatestElement ==
  ASSUME NEW S, NEW k \in Nat, S \subseteq 0 .. k, S # {}
  PROVE  \E x \in S : \A y \in S : y <= x
<1> DEFINE T == {n \in 0 .. k : k - n \in S}
<1>1. T \subseteq Nat
  OBVIOUS
<1>2. \A n \in S : n \in 0 .. k /\ k - n \in 0 .. k /\ k - (k - n) = n
  OBVIOUS
<1>3. \A n \in S : k - n \in T
  BY <1>2
<1>4. T # {}
  BY <1>3
<1>5. PICK x \in T : \A y \in T : x <= y
  <2> HIDE DEF T
  <2> QED BY <1>1, <1>4, LeastElement
<1>6. \A y \in S : x <= k - y
  BY <1>3, <1>5
<1>7. x \in 0 .. k /\ k - x \in S
  OBVIOUS
<1>8. \A y \in S : y <= k - x
  BY <1>2, <1>6, <1>7
<1> QED BY <1>7, <1>8

LEMMA MinIsLeast ==
  ASSUME NEW S, S \subseteq Nat, S # {}
  PROVE  Min(S) \in S /\ \A y \in S : Min(S) <= y
BY LeastElement DEF Min

LEMMA MaxIsMember ==
  ASSUME NEW S, NEW k \in Nat, S \subseteq 0 .. k, S # {}
  PROVE  Max(S) \in S
<1>1. \E x \in S : \A y \in S : x >= y
  <2>1. PICK x \in S : \A y \in S : y <= x
    BY GreatestElement
  <2> QED BY <2>1
<1> QED BY <1>1 DEF Max

-----------------------------------------------------------------------------
\* Severity filters.

LEMMA SeveritiesAreNaturals == Severities \subseteq Nat
BY DEF Severities, eNotSet, eSuppress

LEMMA FilterFacts ==
  ASSUME NEW filter \in Filters(Modules)
  PROVE  /\ filter.default \in Severities
         /\ DOMAIN filter.map \subseteq Modules \ {<<>>}
         /\ filter.map \in [DOMAIN filter.map -> Severities]
         /\ filter = [default |-> filter.default, map |-> filter.map]
<1>1. PICK named \in SUBSET (Modules \ {<<>>}) : filter.map \in [named -> Severities]
  BY DEF Filters
<1> QED BY <1>1 DEF Filters

LEMMA FilterIntro ==
  ASSUME NEW severity \in Severities, NEW named, named \subseteq Modules \ {<<>>},
         NEW map \in [named -> Severities]
  PROVE  [default |-> severity, map |-> map] \in Filters(Modules)
<1>1. named \in SUBSET (Modules \ {<<>>})
  OBVIOUS
<1>2. map \in UNION {[names -> Severities] : names \in SUBSET (Modules \ {<<>>})}
  BY <1>1
<1> QED BY <1>2 DEF Filters

LEMMA ModuleIsSeq ==
  ASSUME NEW module \in Modules
  PROVE  module \in Seq(STRING) /\ Len(module) \in Nat /\ SubSeq(module, 1, Len(module)) = module
BY ModuleAssumption, SubSeqFull

LEMMA ThresholdIsSeverity ==
  ASSUME NEW filter \in Filters(Modules), NEW module \in Modules
  PROVE  GetSeverityThreshold(filter, module) \in Severities
<1> DEFINE speakers == Speakers(filter, module)
           nearest  == CHOOSE n \in speakers : \A k \in speakers : k <= n
<1>1. Len(module) \in Nat
  BY ModuleIsSeq
<1>2. speakers \subseteq 0 .. Len(module)
  BY <1>1 DEF Speakers
<1>3. CASE speakers = {}
  BY <1>3, FilterFacts DEF GetSeverityThreshold
<1>4. CASE speakers # {}
  <2>1. \E n \in speakers : \A k \in speakers : k <= n
    <3> HIDE DEF speakers
    <3> QED BY <1>1, <1>2, <1>4, GreatestElement
  <2>2. nearest \in speakers
    <3> HIDE DEF speakers
    <3> QED BY <2>1
  <2>3. SubSeq(module, 1, nearest) \in DOMAIN filter.map
    <3>1. \A n \in speakers : SubSeq(module, 1, n) \in DOMAIN filter.map
      BY DEF Speakers
    <3> HIDE DEF speakers, nearest
    <3> QED BY <2>2, <3>1
  <2>4. GetSeverityThreshold(filter, module) = filter.map[SubSeq(module, 1, nearest)]
    BY <1>4 DEF GetSeverityThreshold
  <2> HIDE DEF nearest
  <2> QED BY <2>3, <2>4, FilterFacts
<1> QED BY <1>3, <1>4

\* SetFilter and ClearFilter as the prover can use them.
LEMMA SetFilterFacts ==
  ASSUME NEW filter \in Filters(Modules), NEW module \in Modules, NEW severity \in Severities
  PROVE  /\ SetFilter(filter, module, severity) \in Filters(Modules)
         /\ module # <<>> =>
              /\ module \in DOMAIN SetFilter(filter, module, severity).map
              /\ SetFilter(filter, module, severity).map[module] = severity
         /\ Active(SetFilter(filter, module, severity)) \subseteq Active(filter) \cup {severity}
<1> USE FilterFacts
<1>1. CASE module = <<>>
  <2>1. SetFilter(filter, module, severity)
          \in {filter, [default |-> severity, map |-> filter.map]}
    BY <1>1 DEF SetFilter
  <2>2. [default |-> severity, map |-> filter.map] \in Filters(Modules)
    BY FilterIntro
  <2>3. Active([default |-> severity, map |-> filter.map]) \subseteq Active(filter) \cup {severity}
    BY DEF Active
  <2> QED BY <1>1, <2>1, <2>2, <2>3
<1>2. CASE module # <<>>
  <2> DEFINE named == DOMAIN filter.map \cup {module}
             map   == [other \in named |-> IF other = module THEN severity ELSE filter.map[other]]
  <2>2. SetFilter(filter, module, severity) = [default |-> filter.default, map |-> map]
    BY <1>2 DEF SetFilter
  <2>3. map \in [named -> Severities] /\ named \subseteq Modules \ {<<>>}
    BY <1>2
  <2>4. [default |-> filter.default, map |-> map] \in Filters(Modules)
    <3> HIDE DEF map, named
    <3> QED BY <2>3, FilterIntro
  <2>5. Active([default |-> filter.default, map |-> map]) \subseteq Active(filter) \cup {severity}
    BY DEF Active
  <2> QED BY <1>2, <2>2, <2>4, <2>5
<1> QED BY <1>1, <1>2

LEMMA ClearFilterType ==
  ASSUME NEW filter \in Filters(Modules), NEW module \in Modules
  PROVE  ClearFilter(filter, module) \in Filters(Modules)
<1> USE FilterFacts
<1>1. CASE module = <<>>
  <2>1. eNotSet \in Severities
    BY DEF Severities, eNotSet, eSuppress
  <2> QED BY <1>1, <2>1, FilterIntro DEF ClearFilter
<1>2. CASE module # <<>>
  <2> DEFINE named == DOMAIN filter.map \ {module}
             map   == [other \in named |-> filter.map[other]]
  <2>1. map \in [named -> Severities] /\ named \subseteq Modules \ {<<>>}
    OBVIOUS
  <2>2. [default |-> filter.default, map |-> map] \in Filters(Modules)
    <3> HIDE DEF map, named
    <3> QED BY <2>1, FilterIntro
  <2> QED BY <1>2, <2>2 DEF ClearFilter
<1> QED BY <1>1, <1>2

LEMMA MinActiveIsLeast ==
  ASSUME NEW filter \in Filters(Modules)
  PROVE  /\ GetMinActiveSeverityThreshold(filter) \in Active(filter)
         /\ \A severity \in Active(filter) : GetMinActiveSeverityThreshold(filter) <= severity
         /\ Active(filter) \subseteq Severities
         /\ GetMinActiveSeverityThreshold(filter) \in Severities
<1>1. Active(filter) \subseteq Severities /\ Active(filter) # {}
  BY FilterFacts DEF Active
<1>2. \E least \in Active(filter) : \A severity \in Active(filter) : least <= severity
  BY <1>1, SeveritiesAreNaturals, LeastElement
<1> QED BY <1>1, <1>2 DEF GetMinActiveSeverityThreshold

\* What SetSeverityThreshold sets for a module is what the module gets: an item that
\* passes is at least as severe, also when the root refuses to be hysterical.
LEMMA SetThenLogable ==
  ASSUME NEW filter \in Filters(Modules), NEW module \in Modules, NEW severity \in Severities,
         NEW item \in Severities,
         IsLogable(SetFilter(filter, module, severity), module, item)
  PROVE  item >= severity
<1> DEFINE after == SetFilter(filter, module, severity)
<1>1. after \in Filters(Modules)
  BY SetFilterFacts
<1>2. item # eNotSet /\ item >= GetSeverityThreshold(after, module)
  BY DEF IsLogable
<1>3. CASE module = <<>> /\ severity = eHysterical
  BY <1>2, <1>3 DEF Severities, eNotSet, eSuppress, eHysterical
<1>4. CASE module = <<>> /\ severity # eHysterical
  <2>1. Speakers(after, module) = {}
    BY <1>4 DEF Speakers
  <2> QED BY <1>2, <1>4, <2>1 DEF GetSeverityThreshold, SetFilter
<1>5. CASE module # <<>>
  <2> DEFINE n == Len(module)
             speakers == Speakers(after, module)
  <2>1. n \in Nat /\ n \in 1 .. n /\ SubSeq(module, 1, n) = module
    <3>1. n # 0
      BY <1>5, ModuleIsSeq, EmptySeq
    <3> QED BY <3>1, ModuleIsSeq
  <2>2. module \in DOMAIN after.map /\ after.map[module] = severity
    BY <1>5, SetFilterFacts
  <2>3. n \in speakers /\ \A k \in speakers : k \in 1 .. n
    BY <2>1, <2>2 DEF Speakers
  <2>4. (CHOOSE k \in speakers : \A j \in speakers : j <= k) = n
    <3> HIDE DEF speakers, n
    <3>1. \A j \in speakers : j <= n
      BY <2>1, <2>3
    <3>2. \A k \in speakers : (\A j \in speakers : j <= k) => k = n
      BY <2>1, <2>3
    <3> QED BY <2>3, <3>1, <3>2
  <2>5. GetSeverityThreshold(after, module) = after.map[SubSeq(module, 1, n)]
    <3>1. speakers # {}
      BY <2>3
    <3> QED BY <2>4, <3>1 DEF GetSeverityThreshold
  <2> QED BY <1>2, <2>1, <2>2, <2>5
<1> QED BY <1>3, <1>4, <1>5

-----------------------------------------------------------------------------
\* What a block of the file amounts to.

LEMMA LinesFacts ==
  ASSUME NEW block \in Blocks
  PROVE  /\ Lines(block) \in Seq(Modules \X Severities)
         /\ Len(Lines(block)) \in Nat
         /\ DOMAIN Lines(block) = 1 .. Len(Lines(block))
         /\ \A n \in DOMAIN Lines(block) :
              Lines(block)[n][1] \in Modules /\ Lines(block)[n][2] \in Severities
         /\ 1 \in Effective(block) /\ Lines(block)[1] = <<<<>>, Default>>
<1>1. <<<<>>, Default>> \in Modules \X Severities
  BY ModuleAssumption, SeverityAssumption
<1>2. << <<<<>>, Default>> >> \in Seq(Modules \X Severities)
  BY <1>1
<1>3. block.lines \in Seq(Modules \X Severities)
  BY DEF Blocks
<1>4. Lines(block) \in Seq(Modules \X Severities)
  BY <1>2, <1>3, ConcatProperties DEF Lines
<1>5. Len(Lines(block)) = 1 + Len(block.lines) /\ Len(block.lines) \in Nat
  BY <1>2, <1>3, ConcatProperties DEF Lines
<1>6. Lines(block)[1] = <<<<>>, Default>>
  BY <1>2, <1>3 DEF Lines
<1>7. DOMAIN Lines(block) = 1 .. Len(Lines(block)) /\ Len(Lines(block)) \in Nat
  BY <1>4
<1>8. \A n \in DOMAIN Lines(block) : Lines(block)[n] \in Modules \X Severities
  BY <1>4
<1>9. 1 \in Effective(block)
  BY <1>5, <1>6, <1>7, SeverityAssumption DEF Effective
<1> QED BY <1>4, <1>6, <1>7, <1>8, <1>9

LEMMA LastForIsSeverity ==
  ASSUME NEW block \in Blocks, NEW module \in Named(block)
  PROVE  LastFor(block, module)
           \in {Lines(block)[n][2] : n \in Effective(block)} /\ module \in Modules
<1> DEFINE places == {n \in Effective(block) : Lines(block)[n][1] = module}
<1>1. places \subseteq 0 .. Len(Lines(block)) /\ places \subseteq Effective(block)
  BY LinesFacts DEF Effective
<1>2. PICK n \in Effective(block) : Lines(block)[n][1] = module
  BY DEF Named
<1>3. Max(places) \in places
  <2>1. places # {}
    BY <1>2
  <2> HIDE DEF places
  <2> QED BY <1>1, <2>1, LinesFacts, MaxIsMember
<1>4. LastFor(block, module) = Lines(block)[Max(places)][2]
  BY DEF LastFor
<1>5. module \in Modules
  BY <1>2, LinesFacts DEF Effective
<1> HIDE DEF places
<1> QED BY <1>1, <1>3, <1>4, <1>5

LEMMA FilterOfFacts ==
  ASSUME NEW block \in Blocks
  PROVE  /\ FilterOf(block) \in Filters(Modules)
         /\ Active(FilterOf(block)) \subseteq {Lines(block)[n][2] : n \in Effective(block)}
         /\ {Lines(block)[n][2] : n \in Effective(block)} \subseteq Severities
<1> DEFINE severities == {Lines(block)[n][2] : n \in Effective(block)}
           named      == Named(block) \ {<<>>}
           map        == [module \in named |-> LastFor(block, module)]
           default    == LastFor(block, <<>>)
<1>1. severities \subseteq Severities
  BY LinesFacts DEF Effective
<1>2. \A module \in Named(block) : LastFor(block, module) \in severities /\ module \in Modules
  BY LastForIsSeverity
<1>3. default \in severities
  <2>1. <<>> \in Named(block)
    BY LinesFacts DEF Named
  <2> QED BY <1>2, <2>1
<1>4. map \in [named -> severities] /\ named \subseteq Modules \ {<<>>}
  BY <1>2
<1>5. FilterOf(block) = [default |-> default, map |-> map]
  BY DEF FilterOf
<1> HIDE DEF severities, named, map, default
<1>6. map \in [named -> Severities] /\ default \in Severities
  BY <1>1, <1>3, <1>4
<1>7. FilterOf(block) \in Filters(Modules)
  BY <1>4, <1>5, <1>6, FilterIntro
<1>8. Active(FilterOf(block)) \subseteq severities
  BY <1>3, <1>4, <1>5 DEF Active
<1> QED BY <1>1, <1>7, <1>8 DEF severities

LEMMA MinWithFacts ==
  ASSUME NEW block \in Blocks, m_Min \in eNotSet .. eSeverityMax
  PROVE  /\ MinWith(block) \in eNotSet .. eSeverityMax
         /\ MinWith(block) <= m_Min
         /\ MinWith(block) <= GetMinActiveSeverityThreshold(FilterOf(block))
<1> DEFINE severities == {Lines(block)[n][2] : n \in Effective(block)}
           S == {m_Min} \cup severities
<1>1. /\ severities \subseteq Severities
      /\ GetMinActiveSeverityThreshold(FilterOf(block)) \in severities
  BY FilterOfFacts, MinActiveIsLeast
<1>2. Severities \subseteq eNotSet .. eSeverityMax /\ eNotSet .. eSeverityMax \subseteq Nat
  BY DEF Severities, eNotSet, eSuppress, eSeverityMax
<1>3. MinWith(block) = Min(S)
  BY DEF MinWith
<1> HIDE DEF severities
<1>4. S \subseteq eNotSet .. eSeverityMax /\ S \subseteq Nat /\ S # {}
  BY <1>1, <1>2
<1>5. m_Min \in S /\ GetMinActiveSeverityThreshold(FilterOf(block)) \in S
  BY <1>1
<1> HIDE DEF S
<1> QED BY <1>3, <1>4, <1>5, MinIsLeast

LEMMA FallbackFacts ==
  /\ Fallback = [kind |-> "DEFAULT", filter |-> [default |-> Default, map |-> <<>>]]
  /\ Fallback.filter \in Filters(Modules)
  /\ GetMinActiveSeverityThreshold(Fallback.filter) = Default
<1> DEFINE filter == [default |-> Default, map |-> <<>>]
<1>1. Default \in Severities /\ Default # eHysterical
  BY SeverityAssumption
<1>2. Fallback = [kind |-> "DEFAULT", filter |-> filter]
  BY <1>1 DEF Fallback, Backend, SetFilter, NewFilter
<1>3. <<>> \in [{} -> Severities]
  OBVIOUS
<1>4. filter \in Filters(Modules)
  BY <1>1, <1>3, FilterIntro
<1>5. Active(filter) = {Default}
  BY DEF Active
<1>6. GetMinActiveSeverityThreshold(filter) = Default
  BY <1>4, <1>5, MinActiveIsLeast
<1> QED BY <1>2, <1>4, <1>6

-----------------------------------------------------------------------------
\* The inductive invariant.

\* A lock is held by whoever is at a place where the code holds it.
LockInv ==
  /\ \A t \in Threads : m_lock = t <=> call[t].at \in {"set", "clear"}
  /\ m_lock = Updater <=> thread \in {"deregister", "read", "parse"}
  /\ \A t \in Threads : mediator = t <=> call[t].at = "poll"

\* The consumers of a poll stay while it lasts, those behind the place of a reload
\* are gone.
ConsumerInv ==
  /\ \A t \in Threads : call[t].at = "poll" => call[t].left \subseteq m_Consumers
  /\ thread = "deregister" => m_Consumers \subseteq at .. Len(m_Backends)
  /\ thread = "read" => m_Consumers = {} /\ m_Backends = <<>>

\* Nobody remembers a version that is still to come.
VersionInv ==
  /\ \A t \in Threads : call[t].since <= m_ConfigVersion
  /\ \A h \in Handles : asked[h] <= m_ConfigVersion

\* The backends are those of m_ConfigVersion, or are about to go.
Settled ==
  \/ m_lock = Nobody
  \/ m_lock \in Threads /\ ~changed
  \/ thread \in {"deregister", "read"}

\* What backend i would write of the module is at least that severe.
Passes(i, module, threshold) ==
  \A s \in Severities : IsLogable(m_Backends[i].filter, module, s) => s >= threshold

HandleInv ==
  \A h \in Handles :
    Settled /\ asked[h] = m_ConfigVersion
      => \A i \in m_Consumers : Passes(i, ModuleOf[h], m_severityThreshold[h])

PollInv ==
  \A t \in Threads :
    call[t].at = "poll" /\ Settled /\ call[t].since = m_ConfigVersion
      => \A i \in m_Consumers \ call[t].left : Passes(i, Module(t), call[t].severity)

KeepInv ==
  \A t \in Threads :
    call[t].at = "keep" /\ Settled /\ call[t].since = m_ConfigVersion
      => \A i \in m_Consumers : Passes(i, Module(t), call[t].severity)

SetInv ==
  \A t \in Threads :
    call[t].at = "set"
      => \A i \in m_Consumers : i < at => Passes(i, Module(t), call[t].severity)

\* The minimum is only wrong while ClearSeverityThreshold has not found it anew.
Clearing == changed /\ \E t \in Threads : call[t].at = "clear"

MinInv ==
  /\ ~FellBackBesideOthers /\ ~Clearing
       => \A i \in DOMAIN m_Backends :
            m_Min <= GetMinActiveSeverityThreshold(m_Backends[i].filter)
  /\ thread = "parse" => \A i \in DOMAIN m_Backends : m_Backends[i].kind # "DEFAULT"

IInv ==
  /\ TypeOK
  /\ LockInv
  /\ ConsumerInv
  /\ VersionInv
  /\ HandleInv
  /\ PollInv
  /\ KeepInv
  /\ SetInv
  /\ MinInv


LEMMA SeverityConstants ==
  {eNotSet, eHysterical, eSuppress, Default} \subseteq Severities
BY SeverityAssumption DEF Severities, eNotSet, eHysterical, eSuppress

LEMMA StatType == ASSUME TypeOK PROVE Stat \in BOOLEAN \X (0 .. MaxEdits)
<1>1. file.exists \in BOOLEAN
  <2>1. CASE file \in Texts
    BY <2>1, TextAssumption
  <2>2. CASE file = Missing
    BY <2>2 DEF Missing
  <2> QED BY <2>1, <2>2 DEF TypeOK, FileTypeOK
<1>2. 0 \in 0 .. MaxEdits /\ modified \in 0 .. MaxEdits
  BY BoundAssumption DEF TypeOK, FileTypeOK
<1> QED BY <1>1, <1>2 DEF Stat

LEMMA BackendFacts ==
  ASSUME TypeOK, NEW i \in DOMAIN m_Backends
  PROVE  /\ i \in 1 .. Len(m_Backends)
         /\ m_Backends[i].kind \in {"FILE", "STDOUT", "DEFAULT"}
         /\ m_Backends[i].filter \in Filters(Modules)
<1> DEFINE S == [kind : {"FILE", "STDOUT", "DEFAULT"}, filter : Filters(Modules)]
<1>1. m_Backends \in Seq(S)
  BY DEF TypeOK, BackendTypeOK
<1>2. i \in 1 .. Len(m_Backends) /\ m_Backends[i] \in S
  <2> HIDE DEF S
  <2> QED BY <1>1
<1> QED BY <1>2

\* What a handle keeps after a poll or a change of its severity.
LEMMA StoreHandle ==
  ASSUME IInv, NEW t \in Threads, StoreThreshold(t)
  PROVE  HandleInv'
<1>1. ASSUME Settled, call[t].since = m_ConfigVersion, NEW i \in m_Consumers
      PROVE  Passes(i, Module(t), call[t].severity)
  <2>1. CASE call[t].left = {}
    BY <1>1, <2>1 DEF IInv, PollInv, StoreThreshold, At
  <2>2. CASE call[t].severity = eHysterical
    BY <2>2 DEF Passes, IsLogable, Severities, eNotSet, eHysterical, eSuppress
  <2> QED BY <2>1, <2>2 DEF StoreThreshold
<1>2. /\ Settled' = Settled /\ m_ConfigVersion' = m_ConfigVersion
      /\ m_Consumers' = m_Consumers /\ m_Backends' = m_Backends
  BY DEF StoreThreshold, Settled, held, backends
<1>3. ASSUME NEW h \in Handles
      PROVE  \/ m_severityThreshold'[h] = m_severityThreshold[h] /\ asked'[h] = asked[h]
             \/ /\ h = call[t].handle
                /\ m_severityThreshold'[h] = call[t].severity /\ asked'[h] = call[t].since
  BY DEF StoreThreshold, KeepThreshold, IInv, TypeOK, HandleTypeOK
<1> QED BY <1>1, <1>2, <1>3 DEF IInv, HandleInv, Passes, Module

LEMMA KeepHandle ==
  ASSUME IInv, NEW t \in Threads, KeepSeverity(t)
  PROVE  HandleInv'
<1>1. ASSUME Settled, call[t].since = m_ConfigVersion, NEW i \in m_Consumers
      PROVE  Passes(i, Module(t), call[t].severity)
  BY <1>1 DEF IInv, KeepInv, KeepSeverity, At
<1>2. /\ Settled' = Settled /\ m_ConfigVersion' = m_ConfigVersion
      /\ m_Consumers' = m_Consumers /\ m_Backends' = m_Backends
  BY DEF KeepSeverity, Settled, held, backends
<1>3. ASSUME NEW h \in Handles
      PROVE  \/ m_severityThreshold'[h] = m_severityThreshold[h] /\ asked'[h] = asked[h]
             \/ /\ h = call[t].handle
                /\ m_severityThreshold'[h] = call[t].severity /\ asked'[h] = call[t].since
  BY DEF KeepSeverity, KeepThreshold, IInv, TypeOK, HandleTypeOK
<1> QED BY <1>1, <1>2, <1>3 DEF IInv, HandleInv, Passes, Module

LEMMA PollNext ==
  ASSUME IInv, NEW t \in Threads, PollConsumer(t)
  PROVE  PollInv'
<1>1. PICK i \in call[t].left :
        call' = [call EXCEPT
          ![t].left = @ \ {i},
          ![t].severity = Lesser(@, GetSeverityThreshold(m_Backends[i].filter, Module(t)))]
  BY DEF PollConsumer
<1> DEFINE threshold == GetSeverityThreshold(m_Backends[i].filter, Module(t))
           least     == Lesser(call[t].severity, threshold)
<1>2. i \in m_Consumers /\ m_Backends[i].filter \in Filters(Modules)
  <2>1. i \in m_Consumers /\ i \in DOMAIN m_Backends
    BY DEF PollConsumer, At, IInv, ConsumerInv, TypeOK, BackendTypeOK
  <2> QED BY <2>1, BackendFacts DEF IInv
<1>3. Module(t) \in Modules
  BY ModuleAssumption DEF Module, IInv, TypeOK, CallTypeOK, Calls
<1>4. threshold \in Nat /\ call[t].severity \in Nat
  BY <1>2, <1>3, ThresholdIsSeverity, SeveritiesAreNaturals DEF IInv, TypeOK, CallTypeOK, Calls
<1> HIDE DEF threshold
<1>5. least <= threshold /\ least <= call[t].severity /\ least \in Nat
  BY <1>4 DEF Lesser
<1>6. \A s \in Severities : IsLogable(m_Backends[i].filter, Module(t), s) => s >= threshold
  BY DEF IsLogable, threshold
<1>7. Passes(i, Module(t), least)
  <2>1. ASSUME NEW s \in Severities, IsLogable(m_Backends[i].filter, Module(t), s)
        PROVE  s >= least
    <3>1. s \in Nat
      BY SeveritiesAreNaturals
    <3>2. s >= threshold
      BY <1>6, <2>1
    <3> HIDE DEF least
    <3> QED BY <1>4, <1>5, <3>1, <3>2
  <2> QED BY <2>1 DEF Passes
<1>8. ASSUME NEW k \in m_Consumers, Passes(k, Module(t), call[t].severity)
      PROVE  Passes(k, Module(t), least)
  BY <1>4, <1>5, <1>8, SeveritiesAreNaturals DEF Passes
<1> HIDE DEF least
<1>9. /\ Settled' = Settled /\ m_ConfigVersion' = m_ConfigVersion
      /\ m_Consumers' = m_Consumers /\ m_Backends' = m_Backends
  BY DEF PollConsumer, Settled, held, backends
<1>10. /\ call'[t].left = call[t].left \ {i} /\ call'[t].severity = least
       /\ call'[t].handle = call[t].handle /\ call'[t].since = call[t].since
       /\ call[t].at = "poll"
       /\ \A u \in Threads : u # t => call'[u] = call[u]
  BY <1>1 DEF IInv, TypeOK, CallTypeOK, Calls, least, threshold, PollConsumer, At
<1>11. ASSUME NEW u \in Threads, call'[u].at = "poll", Settled, call'[u].since = m_ConfigVersion,
              NEW k \in m_Consumers \ call'[u].left
       PROVE  Passes(k, ModuleOf[call'[u].handle], call'[u].severity)
  <2>1. CASE u # t
    BY <1>10, <1>11, <2>1 DEF IInv, PollInv, Module
  <2>2. CASE u = t /\ k = i
    BY <1>7, <1>10, <2>2 DEF Module
  <2>3. CASE u = t /\ k # i
    BY <1>8, <1>10, <1>11, <2>3 DEF IInv, PollInv, Module
  <2> QED BY <2>1, <2>2, <2>3
<1> QED BY <1>9, <1>11 DEF PollInv, Passes, Module

\* A change of one backend, as both SetBackend and ClearBackend make it.
LEMMA ChangeFacts ==
  ASSUME IInv, NEW t \in Threads, call[t].at \in {"set", "clear"}, at <= Len(m_Backends),
         NEW filter \in Filters(Modules), ChangeBackend(filter)
  PROVE  /\ BackendTypeOK' \/ m_Min' \notin eNotSet .. eSeverityMax
         /\ at \in DOMAIN m_Backends
         /\ DOMAIN m_Backends' = DOMAIN m_Backends
         /\ \A i \in DOMAIN m_Backends :
              /\ m_Backends'[i].kind = m_Backends[i].kind
              /\ m_Backends'[i].filter = IF i = at THEN filter ELSE m_Backends[i].filter
<1> DEFINE Kinds == {"FILE", "STDOUT", "DEFAULT"}
           S == [kind : Kinds, filter : Filters(Modules)]
           backend == [kind |-> m_Backends[at].kind, filter |-> filter]
<1>1. m_Backends \in Seq(S)
  BY DEF IInv, TypeOK, BackendTypeOK
<1>2. at \in 1 .. Len(m_Backends)
  BY <1>1 DEF IInv, TypeOK, ThreadTypeOK
<1>3. backend \in S
  <2>1. m_Backends[at] \in S
    <3> HIDE DEF S
    <3> QED BY <1>1, <1>2
  <2> QED BY <2>1
<1>4. m_Backends' = [m_Backends EXCEPT ![at] = backend]
  BY <1>1, <1>2 DEF ChangeBackend, Backend
<1> HIDE DEF S, backend
<1>5. m_Backends' \in Seq(S) /\ DOMAIN m_Backends' = DOMAIN m_Backends
  BY <1>1, <1>2, <1>3, <1>4, ExceptSeq
<1>6. \A i \in DOMAIN m_Backends : m_Backends'[i] = IF i = at THEN backend ELSE m_Backends[i]
  BY <1>1, <1>2, <1>4
<1>7. at \in DOMAIN m_Backends
  BY <1>1, <1>2
<1>8. BackendTypeOK' \/ m_Min' \notin eNotSet .. eSeverityMax
  BY <1>5 DEF ChangeBackend, IInv, TypeOK, BackendTypeOK, S
<1> QED BY <1>5, <1>6, <1>7, <1>8 DEF backend

LEMMA SetNext ==
  ASSUME IInv, NEW t \in Threads, SetBackend(t)
  PROVE  BackendTypeOK' /\ SetInv' /\ MinInv'
<1> DEFINE before == m_Backends[at].filter
           after  == SetFilter(before, Module(t), call[t].severity)
<1>1. ChangeBackend(after) /\ m_Min' = MinAfter(before, after, call[t].severity)
  BY DEF SetBackend
<1>2. call[t].at = "set" /\ at <= Len(m_Backends)
  BY DEF SetBackend, At
<1>3. at \in DOMAIN m_Backends /\ before \in Filters(Modules)
  <2>1. at \in DOMAIN m_Backends
    BY <1>2 DEF IInv, TypeOK, ThreadTypeOK, BackendTypeOK
  <2> QED BY <2>1, BackendFacts DEF IInv
<1>4. Module(t) \in Modules /\ call[t].severity \in Severities
  BY ModuleAssumption DEF Module, IInv, TypeOK, CallTypeOK, Calls
<1>5. after \in Filters(Modules) /\ Active(after) \subseteq Active(before) \cup {call[t].severity}
  BY <1>3, <1>4, SetFilterFacts
<1>6. \A s \in Severities : IsLogable(after, Module(t), s) => s >= call[t].severity
  BY <1>3, <1>4, SetThenLogable
<1> HIDE DEF after
<1>7. /\ BackendTypeOK' \/ m_Min' \notin eNotSet .. eSeverityMax
      /\ DOMAIN m_Backends' = DOMAIN m_Backends
      /\ \A i \in DOMAIN m_Backends :
           /\ m_Backends'[i].kind = m_Backends[i].kind
           /\ m_Backends'[i].filter = IF i = at THEN after ELSE m_Backends[i].filter
  BY <1>1, <1>2, <1>5, ChangeFacts
<1>8. m_Min \in eNotSet .. eSeverityMax /\ Severities \subseteq eNotSet .. eSeverityMax
      /\ eNotSet .. eSeverityMax \subseteq Nat
  BY DEF IInv, TypeOK, BackendTypeOK, Severities, eNotSet, eSuppress, eSeverityMax
<1>9. m_Min' \in eNotSet .. eSeverityMax
  BY <1>1, <1>4, <1>8 DEF MinAfter
<1>10. /\ m_Consumers' = m_Consumers /\ call' = call /\ thread' = thread /\ at' = at + 1
       /\ m_lock = t
  BY <1>1, <1>2 DEF ChangeBackend, IInv, LockInv
<1>11. m_Consumers \subseteq DOMAIN m_Backends /\ DOMAIN m_Backends \subseteq Nat /\ at \in Nat
  BY DEF IInv, TypeOK, BackendTypeOK, ThreadTypeOK
<1>12. ASSUME NEW u \in Threads, call[u].at = "set", NEW i \in m_Consumers, i < at + 1,
              NEW s \in Severities, IsLogable(m_Backends'[i].filter, Module(u), s)
       PROVE  s >= call[u].severity
  <2>1. u = t
    BY <1>10, <1>12 DEF IInv, LockInv
  <2>2. CASE i = at
    BY <1>3, <1>6, <1>7, <1>12, <2>1, <2>2
  <2>3. CASE i # at
    BY <1>2, <1>7, <1>11, <1>12, <2>1, <2>3 DEF IInv, SetInv, Passes
  <2> QED BY <2>2, <2>3
<1>13. SetInv'
  BY <1>10, <1>12 DEF SetInv, Passes, Module
<1>14. ASSUME ~FellBackBesideOthers', NEW i \in DOMAIN m_Backends
       PROVE  m_Min' <= GetMinActiveSeverityThreshold(m_Backends'[i].filter)
  <2>1. ~FellBackBesideOthers /\ ~Clearing
    <3>1. Len(m_Backends) \in Nat /\ DOMAIN m_Backends = 1 .. Len(m_Backends)
          /\ Len(m_Backends') \in Nat /\ DOMAIN m_Backends' = 1 .. Len(m_Backends')
      BY <1>7, <1>9 DEF IInv, TypeOK, BackendTypeOK
    <3>2. Len(m_Backends') = Len(m_Backends)
      BY <1>7, <3>1
    <3>3. ~FellBackBesideOthers
      BY <1>7, <1>14, <3>1, <3>2 DEF FellBackBesideOthers, Last
    <3> QED BY <1>2, <1>10, <3>3 DEF IInv, LockInv, Clearing
  <2>2. m_Min <= GetMinActiveSeverityThreshold(m_Backends[i].filter)
    BY <2>1 DEF IInv, MinInv
  <2>3. m_Backends[i].filter \in Filters(Modules)
    BY BackendFacts DEF IInv
  <2>4. /\ m_Min \in Nat /\ m_Min' \in Nat /\ call[t].severity \in Nat
        /\ m_Min' <= m_Min
        /\ after # before => m_Min' <= call[t].severity
    <3>1. m_Min \in Nat /\ m_Min' \in Nat /\ call[t].severity \in Nat
      BY <1>4, <1>8, <1>9
    <3>2. m_Min' = IF after # before /\ call[t].severity < m_Min THEN call[t].severity ELSE m_Min
      BY <1>1 DEF MinAfter
    <3> HIDE DEF before
    <3> QED BY <3>1, <3>2
  <2>5. CASE i # at \/ after = before
    <3>1. GetMinActiveSeverityThreshold(m_Backends[i].filter) \in Nat
      BY <2>3, MinActiveIsLeast, SeveritiesAreNaturals
    <3>2. m_Backends'[i].filter = m_Backends[i].filter
      BY <1>7, <2>5
    <3> QED BY <1>8, <1>9, <2>2, <2>4, <3>1, <3>2
  <2>6. CASE i = at /\ after # before
    <3>1. /\ GetMinActiveSeverityThreshold(after) \in Active(before) \cup {call[t].severity}
          /\ GetMinActiveSeverityThreshold(after) \in Nat
      BY <1>5, MinActiveIsLeast, SeveritiesAreNaturals
    <3>2. /\ m_Min <= GetMinActiveSeverityThreshold(before)
          /\ GetMinActiveSeverityThreshold(before) \in Nat
          /\ \A s \in Active(before) : s \in Nat /\ GetMinActiveSeverityThreshold(before) <= s
      BY <1>3, <2>2, <2>6, MinActiveIsLeast, SeveritiesAreNaturals
    <3> HIDE DEF before
    <3>3. \A s \in Active(before) : m_Min' <= s
      BY <2>4, <3>2
    <3>4. m_Min' <= GetMinActiveSeverityThreshold(after)
      BY <2>4, <2>6, <3>1, <3>3
    <3> QED BY <1>7, <2>6, <3>4
  <2> QED BY <2>5, <2>6
<1>15. MinInv'
  BY <1>7, <1>10, <1>14 DEF MinInv, IInv
<1> QED BY <1>7, <1>9, <1>13, <1>15

LEMMA ClearNext ==
  ASSUME IInv, NEW t \in Threads, ClearBackend(t)
  PROVE  BackendTypeOK' /\ MinInv'
<1> DEFINE before == m_Backends[at].filter
           after  == ClearFilter(before, Module(t))
<1>1. ChangeBackend(after) /\ m_Min' = m_Min
  BY DEF ClearBackend
<1>2. call[t].at = "clear" /\ at <= Len(m_Backends)
  BY DEF ClearBackend, At
<1>3. at \in DOMAIN m_Backends /\ before \in Filters(Modules)
  <2>1. at \in DOMAIN m_Backends
    BY <1>2 DEF IInv, TypeOK, ThreadTypeOK, BackendTypeOK
  <2> QED BY <2>1, BackendFacts DEF IInv
<1>4. Module(t) \in Modules
  BY ModuleAssumption DEF Module, IInv, TypeOK, CallTypeOK, Calls
<1>5. after \in Filters(Modules)
  BY <1>3, <1>4, ClearFilterType
<1> HIDE DEF after
<1>7. /\ BackendTypeOK' \/ m_Min' \notin eNotSet .. eSeverityMax
      /\ DOMAIN m_Backends' = DOMAIN m_Backends
      /\ \A i \in DOMAIN m_Backends :
           /\ m_Backends'[i].kind = m_Backends[i].kind
           /\ m_Backends'[i].filter = IF i = at THEN after ELSE m_Backends[i].filter
  BY <1>1, <1>2, <1>5, ChangeFacts
<1>8. BackendTypeOK'
  BY <1>1, <1>7 DEF IInv, TypeOK, BackendTypeOK
<1>9. /\ call' = call /\ thread' = thread
      /\ changed' = (changed \/ after # before)
  BY <1>1 DEF ChangeBackend
<1>10. ASSUME ~FellBackBesideOthers', ~Clearing', NEW i \in DOMAIN m_Backends
       PROVE  m_Min' <= GetMinActiveSeverityThreshold(m_Backends'[i].filter)
  <2>1. ~changed /\ after = before
    BY <1>2, <1>9, <1>10 DEF Clearing
  <2>2. Len(m_Backends) \in Nat /\ DOMAIN m_Backends = 1 .. Len(m_Backends)
        /\ Len(m_Backends') \in Nat /\ DOMAIN m_Backends' = 1 .. Len(m_Backends')
    BY <1>8 DEF IInv, TypeOK, BackendTypeOK
  <2>3. Len(m_Backends') = Len(m_Backends)
    BY <1>7, <2>2
  <2>4. ~FellBackBesideOthers /\ ~Clearing
    BY <1>7, <1>10, <2>1, <2>2, <2>3 DEF FellBackBesideOthers, Last, Clearing
  <2> QED BY <1>1, <1>7, <2>1, <2>4 DEF IInv, MinInv
<1>11. MinInv'
  BY <1>7, <1>9, <1>10 DEF MinInv, IInv
<1> QED BY <1>8, <1>11

\* MinOfAll is found from scratch.
LEMMA EndClearNext ==
  ASSUME IInv, NEW t \in Threads, EndClear(t)
  PROVE  BackendTypeOK' /\ MinInv'
<1> DEFINE Least(i) == GetMinActiveSeverityThreshold(m_Backends[i].filter)
           S == {eSeverityMax} \cup {Least(i) : i \in DOMAIN m_Backends}
<1>1. \A i \in DOMAIN m_Backends : Least(i) \in Severities
  BY BackendFacts, MinActiveIsLeast DEF IInv
<1>2. Severities \subseteq eNotSet .. eSeverityMax /\ eSeverityMax \in eNotSet .. eSeverityMax
      /\ eNotSet .. eSeverityMax \subseteq Nat
  BY DEF Severities, eNotSet, eSuppress, eSeverityMax
<1>3. S \subseteq eNotSet .. eSeverityMax /\ S # {} /\ \A i \in DOMAIN m_Backends : Least(i) \in S
  BY <1>1, <1>2
<1>4. MinOfAll = Min(S)
  BY DEF MinOfAll
<1>5. MinOfAll \in eNotSet .. eSeverityMax /\ \A i \in DOMAIN m_Backends : MinOfAll <= Least(i)
  <2> HIDE DEF S, Least
  <2> QED BY <1>2, <1>3, <1>4, MinIsLeast
<1>6. /\ m_Backends' = m_Backends /\ m_Consumers' = m_Consumers /\ thread' = thread
      /\ m_ConfigVersion' \in {m_ConfigVersion, m_ConfigVersion + 1}
      /\ m_Min' = IF changed THEN MinOfAll ELSE m_Min
  BY DEF EndClear, NextVersion
<1>7. BackendTypeOK'
  BY <1>5, <1>6 DEF IInv, TypeOK, BackendTypeOK
<1>8. FellBackBesideOthers' = FellBackBesideOthers
  BY <1>6 DEF FellBackBesideOthers
<1>9. ASSUME ~FellBackBesideOthers, NEW i \in DOMAIN m_Backends
      PROVE  m_Min' <= Least(i)
  <2>1. CASE changed
    BY <1>5, <1>6, <2>1
  <2>2. CASE ~changed
    BY <1>6, <1>9, <2>2 DEF IInv, MinInv, Clearing
  <2> QED BY <2>1, <2>2
<1>10. MinInv'
  BY <1>6, <1>8, <1>9 DEF IInv, MinInv
<1> QED BY <1>7, <1>10

\* A backend is added at the end of the list.
LEMMA AddFacts ==
  ASSUME IInv, NEW kind \in {"FILE", "STDOUT", "DEFAULT"}, NEW filter \in Filters(Modules),
         Add(kind, filter)
  PROVE  /\ (m_Backends \in Seq([kind : {"FILE", "STDOUT", "DEFAULT"}, filter : Filters(Modules)]))'
         /\ (m_Consumers \subseteq DOMAIN m_Backends)'
         /\ Len(m_Backends) \in Nat /\ Len(m_Backends') = Len(m_Backends) + 1
         /\ DOMAIN m_Backends = 1 .. Len(m_Backends)
         /\ DOMAIN m_Backends' = 1 .. Len(m_Backends) + 1
         /\ \A i \in DOMAIN m_Backends : m_Backends'[i] = m_Backends[i]
         /\ m_Backends'[Len(m_Backends) + 1] = [kind |-> kind, filter |-> filter]
<1> DEFINE S == [kind : {"FILE", "STDOUT", "DEFAULT"}, filter : Filters(Modules)]
           backend == [kind |-> kind, filter |-> filter]
<1>1. m_Backends \in Seq(S) /\ backend \in S
  BY DEF IInv, TypeOK, BackendTypeOK
<1>2. m_Backends' = Append(m_Backends, backend)
      /\ m_Consumers' = m_Consumers \cup {Len(m_Backends')}
  BY DEF Add, Backend
<1> HIDE DEF S, backend
<1>3. /\ m_Backends' \in Seq(S) /\ Len(m_Backends) \in Nat
      /\ Len(m_Backends') = Len(m_Backends) + 1
      /\ DOMAIN m_Backends = 1 .. Len(m_Backends)
      /\ DOMAIN m_Backends' = 1 .. Len(m_Backends) + 1
      /\ \A i \in DOMAIN m_Backends : m_Backends'[i] = m_Backends[i]
      /\ m_Backends'[Len(m_Backends) + 1] = backend
  BY <1>1, <1>2, AppendProperties
<1>4. (m_Consumers \subseteq DOMAIN m_Backends)'
  BY <1>2, <1>3 DEF IInv, TypeOK, BackendTypeOK
<1> QED BY <1>3, <1>4 DEF S, backend

LEMMA ReloadNext ==
  ASSUME IInv, RefreshConfFile \/ ReadAllLines
  PROVE  BackendTypeOK' /\ MinInv'
<1>1. CASE RefreshConfFile
  <2>1. m_Consumers = {}
    <3>1. Len(m_Backends) \in Nat /\ at \in Nat
      BY DEF IInv, TypeOK, BackendTypeOK, ThreadTypeOK
    <3> QED BY <1>1, <3>1 DEF RefreshConfFile, IInv, ConsumerInv
  <2>2. m_Backends' = <<>> /\ m_Min' = eSeverityMax /\ m_Consumers' = {}
        /\ m_ConfigVersion' = m_ConfigVersion /\ thread' = "read"
    BY <1>1, <2>1 DEF RefreshConfFile
  <2>3. eSeverityMax \in eNotSet .. eSeverityMax
    BY DEF eNotSet, eSeverityMax
  <2>4. BackendTypeOK'
    BY <2>2, <2>3 DEF IInv, TypeOK, BackendTypeOK
  <2>5. DOMAIN m_Backends' = {}
    BY <2>2
  <2> QED BY <2>2, <2>4, <2>5 DEF MinInv
<1>2. CASE ReadAllLines
  <2>1. /\ m_Backends' = m_Backends /\ m_Min' = m_Min /\ m_Consumers' = m_Consumers
        /\ m_ConfigVersion' = m_ConfigVersion
    BY <1>2 DEF ReadAllLines, backends
  <2>2. BackendTypeOK'
    BY <2>1 DEF IInv, TypeOK, BackendTypeOK
  <2>3. m_Backends = <<>>
    BY <1>2 DEF ReadAllLines, IInv, ConsumerInv
  <2>4. DOMAIN m_Backends' = {}
    BY <2>1, <2>3
  <2> QED BY <2>2, <2>4 DEF MinInv
<1> QED BY <1>1, <1>2

LEMMA TextIsBlocks ==
  ASSUME TypeOK
  PROVE  text.blocks \in Seq(Blocks)
<1>1. CASE text \in Texts
  BY <1>1, TextAssumption
<1>2. CASE text = Missing
  BY <1>2 DEF Missing
<1> QED BY <1>1, <1>2 DEF TypeOK, FileTypeOK

LEMMA BlockFacts ==
  ASSUME TypeOK, thread = "parse", at <= Len(text.blocks)
  PROVE  text.blocks[at] \in Blocks
<1>1. text.blocks \in Seq(Blocks)
  BY TextIsBlocks
<1>2. at \in 1 .. Len(text.blocks)
  BY <1>1 DEF TypeOK, ThreadTypeOK
<1> QED BY <1>1, <1>2

LEMMA ParseNext ==
  ASSUME IInv, ParseBlock
  PROVE  BackendTypeOK' /\ MinInv'
<1> DEFINE block == text.blocks[at]
<1>1. block \in Blocks /\ thread = "parse" /\ thread' = "parse"
  BY BlockFacts DEF ParseBlock, IInv
<1>2. m_Min' = MinWith(block) /\ m_ConfigVersion' = m_ConfigVersion /\ call' = call
  BY DEF ParseBlock
<1>3. m_Min \in eNotSet .. eSeverityMax /\ eNotSet .. eSeverityMax \subseteq Nat
  BY DEF IInv, TypeOK, BackendTypeOK, eNotSet, eSeverityMax
<1>4. /\ m_Min' \in eNotSet .. eSeverityMax /\ m_Min' <= m_Min
      /\ m_Min' <= GetMinActiveSeverityThreshold(FilterOf(block))
  BY <1>1, <1>2, <1>3, MinWithFacts
<1>5. ~Clearing /\ ~Clearing'
  BY <1>1, <1>2, NameAssumption DEF IInv, LockInv, Clearing
<1>6. block.kind \in {"FILE", "STDOUT"} /\ FilterOf(block) \in Filters(Modules)
  BY <1>1, FilterOfFacts DEF Blocks
<1>7. (Add(block.kind, FilterOf(block)) \/ UNCHANGED <<m_Backends, m_Consumers>>)
  BY DEF ParseBlock
<1>8. ~FellBackBesideOthers
  <2>1. Len(m_Backends) \in Nat /\ DOMAIN m_Backends = 1 .. Len(m_Backends)
    BY DEF IInv, TypeOK, BackendTypeOK
  <2> QED BY <1>1, <2>1 DEF IInv, MinInv, FellBackBesideOthers, Last
<1> HIDE DEF block
<1>9. ASSUME NEW i \in DOMAIN m_Backends
      PROVE  /\ m_Min' <= GetMinActiveSeverityThreshold(m_Backends[i].filter)
             /\ m_Backends[i].kind # "DEFAULT"
  <2>1. m_Min <= GetMinActiveSeverityThreshold(m_Backends[i].filter)
        /\ m_Backends[i].kind # "DEFAULT"
    BY <1>1, <1>5, <1>8 DEF IInv, MinInv
  <2>2. GetMinActiveSeverityThreshold(m_Backends[i].filter) \in Nat
    BY BackendFacts, MinActiveIsLeast, SeveritiesAreNaturals DEF IInv
  <2> QED BY <1>3, <1>4, <2>1, <2>2
<1>10. CASE UNCHANGED <<m_Backends, m_Consumers>>
  BY <1>1, <1>2, <1>4, <1>9, <1>10 DEF IInv, MinInv, TypeOK, BackendTypeOK
<1>11. CASE Add(block.kind, FilterOf(block))
  <2>1. BackendTypeOK'
    BY <1>2, <1>4, <1>6, <1>11, AddFacts DEF IInv, TypeOK, BackendTypeOK
  <2>2. ASSUME NEW i \in DOMAIN m_Backends'
        PROVE  /\ m_Min' <= GetMinActiveSeverityThreshold(m_Backends'[i].filter)
               /\ m_Backends'[i].kind # "DEFAULT"
    <3>1. CASE i \in DOMAIN m_Backends
      BY <1>6, <1>9, <1>11, <3>1, AddFacts
    <3>2. CASE i \notin DOMAIN m_Backends
      <4>1. /\ Len(m_Backends) \in Nat /\ DOMAIN m_Backends = 1 .. Len(m_Backends)
            /\ DOMAIN m_Backends' = 1 .. Len(m_Backends) + 1
            /\ m_Backends'[Len(m_Backends) + 1] = [kind |-> block.kind, filter |-> FilterOf(block)]
        BY <1>6, <1>11, AddFacts
      <4>2. i = Len(m_Backends) + 1
        BY <2>2, <3>2, <4>1
      <4> QED BY <1>4, <1>6, <4>1, <4>2
    <3> QED BY <3>1, <3>2
  <2> QED BY <2>1, <2>2 DEF MinInv
<1> QED BY <1>7, <1>10, <1>11

LEMMA EndParseNext ==
  ASSUME IInv, EndParse
  PROVE  BackendTypeOK' /\ MinInv'
<1>1. thread = "parse" /\ thread' = "sleep" /\ m_ConfigVersion' = m_ConfigVersion + 1
  BY DEF EndParse
<1>2. ~Clearing /\ ~FellBackBesideOthers
  <2>1. ~Clearing
    BY <1>1, NameAssumption DEF IInv, LockInv, Clearing
  <2>2. Len(m_Backends) \in Nat /\ DOMAIN m_Backends = 1 .. Len(m_Backends)
    BY DEF IInv, TypeOK, BackendTypeOK
  <2> QED BY <1>1, <2>1, <2>2 DEF IInv, MinInv, FellBackBesideOthers, Last
<1>3. CASE changed
  <2>1. m_Backends' = m_Backends /\ m_Consumers' = m_Consumers /\ m_Min' = m_Min
    BY <1>3 DEF EndParse, backends
  <2> QED BY <1>1, <1>2, <2>1 DEF IInv, MinInv, TypeOK, BackendTypeOK
<1>4. CASE ~changed
  <2>1. Add("DEFAULT", Fallback.filter) /\ m_Min' = Default
    BY <1>4 DEF EndParse
  <2>2. Default \in eNotSet .. eSeverityMax
    BY SeverityAssumption DEF Severities, eNotSet, eSuppress, eSeverityMax
  <2>3. BackendTypeOK'
    <3>1. /\ (m_Backends \in Seq([kind : {"FILE", "STDOUT", "DEFAULT"}, filter : Filters(Modules)]))'
          /\ (m_Consumers \subseteq DOMAIN m_Backends)'
      BY <2>1, FallbackFacts, AddFacts
    <3>2. m_ConfigVersion' \in Nat \ {0}
      BY <1>1 DEF IInv, TypeOK, BackendTypeOK
    <3> QED BY <2>1, <2>2, <3>1, <3>2 DEF BackendTypeOK
  <2>4. ASSUME ~FellBackBesideOthers', NEW i \in DOMAIN m_Backends'
        PROVE  m_Min' <= GetMinActiveSeverityThreshold(m_Backends'[i].filter)
    <3>1. /\ Len(m_Backends) \in Nat /\ Len(m_Backends') = Len(m_Backends) + 1
          /\ i \in 1 .. Len(m_Backends) + 1
          /\ m_Backends'[Len(m_Backends) + 1] = [kind |-> "DEFAULT", filter |-> Fallback.filter]
      BY <2>1, <2>4, FallbackFacts, AddFacts
    <3>2. Len(m_Backends) = 0
      BY <2>4, <3>1 DEF FellBackBesideOthers, Last
    <3>3. m_Backends'[i].filter = Fallback.filter
      BY <3>1, <3>2
    <3> QED BY <2>1, <2>2, <3>3, FallbackFacts
  <2> QED BY <1>1, <2>3, <2>4 DEF MinInv
<1> QED BY <1>3, <1>4 DEF IInv, TypeOK, ThreadTypeOK

-----------------------------------------------------------------------------
\* The calls.

LEMMA CallUpdate ==
  ASSUME TypeOK, NEW t \in Threads,
         NEW label \in {"idle", "ask", "poll", "stamp", "set", "clear", "keep"},
         NEW h \in Handles, NEW s \in Severities, NEW left \in SUBSET Nat, NEW since \in Nat,
         call' = [call EXCEPT ![t] = Call(label, h, s, left, since)], calls' \in 0 .. MaxCalls
  PROVE  CallTypeOK'
<1>1. Call(label, h, s, left, since) \in Calls
  BY DEF Call, Calls
<1> QED BY <1>1 DEF TypeOK, CallTypeOK

LEMMA IdleFacts ==
  Idle = Call("idle", Idle.handle, eSuppress, {}, 0) /\ Idle.handle \in Handles
BY ModuleAssumption DEF Idle, Call

LEMMA CallTypeStep ==
  ASSUME IInv, [Next]_vars
  PROVE  CallTypeOK'
<1> USE NameAssumption
<1>1. ASSUME IsConfigurationChanged \/ BeginRestore \/ DeRegisterConsumer \/ RefreshConfFile \/
       ReadAllLines \/ ParseBlock \/ EndParse \/ EditFile
       PROVE  CallTypeOK'
  BY <1>1 DEF IsConfigurationChanged, BeginRestore, Acquire, DeRegisterConsumer,
         RefreshConfFile, ReadAllLines, Release, ParseBlock, Add, Backend, EndParse, EditFile,
         IInv, TypeOK, CallTypeOK
<1>2. ASSUME NEW t \in Threads, GetThreshold(t)
       PROVE  CallTypeOK'
  <2>1. PICK h \in Handles : call' = [call EXCEPT ![t] = Call("ask", h, eSuppress, {}, 0)]
    BY <1>2 DEF GetThreshold
  <2>2. calls' \in 0 .. MaxCalls
    BY <1>2 DEF GetThreshold, IInv, TypeOK, CallTypeOK
  <2> QED BY <2>1, <2>2, CallUpdate, SeverityConstants DEF IInv
<1>3. ASSUME NEW t \in Threads, AskMediator(t)
       PROVE  CallTypeOK'
  <2>1. PICK since \in Nat :
          call' = [call EXCEPT ![t] = Call("poll", call[t].handle, eSuppress, m_Consumers, since)]
    BY <1>3 DEF AskMediator, IInv, TypeOK, BackendTypeOK, CallTypeOK
  <2>2. calls' \in 0 .. MaxCalls /\ call[t].handle \in Handles
    BY <1>3 DEF AskMediator, IInv, TypeOK, CallTypeOK, Calls
  <2>3. m_Consumers \in SUBSET Nat
    BY DEF IInv, TypeOK, BackendTypeOK
  <2> QED BY <2>1, <2>2, <2>3, CallUpdate, SeverityConstants DEF IInv
<1>4. ASSUME NEW t \in Threads, PollConsumer(t)
       PROVE  CallTypeOK'
  <2>1. PICK i \in call[t].left :
          call' = [call EXCEPT
            ![t].left = @ \ {i},
            ![t].severity = Lesser(@, GetSeverityThreshold(m_Backends[i].filter, Module(t)))]
    BY <1>4 DEF PollConsumer
  <2>2. i \in DOMAIN m_Backends
    BY <1>4 DEF PollConsumer, At, IInv, ConsumerInv, TypeOK, BackendTypeOK
  <2>3. GetSeverityThreshold(m_Backends[i].filter, Module(t)) \in Severities
    BY <2>2, BackendFacts, ThresholdIsSeverity, ModuleAssumption
    DEF IInv, TypeOK, CallTypeOK, Calls, Module
  <2>4. Lesser(call[t].severity, GetSeverityThreshold(m_Backends[i].filter, Module(t)))
          \in Severities
    BY <2>3 DEF Lesser, IInv, TypeOK, CallTypeOK, Calls
  <2>5. calls' = calls
    BY <1>4 DEF PollConsumer
  <2> QED BY <2>1, <2>4, <2>5 DEF IInv, TypeOK, CallTypeOK, Calls
<1>5. ASSUME NEW t \in Threads, StoreThreshold(t)
       PROVE  CallTypeOK'
  <2>1. call' = [call EXCEPT ![t] = Call("stamp", call[t].handle, eSuppress, {}, 0)]
    BY <1>5 DEF StoreThreshold, KeepThreshold, IInv, TypeOK, CallTypeOK
  <2>2. calls' \in 0 .. MaxCalls /\ call[t].handle \in Handles
    BY <1>5 DEF StoreThreshold, IInv, TypeOK, CallTypeOK, Calls
  <2> QED BY <2>1, <2>2, CallUpdate, SeverityConstants DEF IInv
<1>6. ASSUME NEW t \in Threads, StampVersion(t)
       PROVE  CallTypeOK'
  <2>1. call' = [call EXCEPT ![t] = Idle] /\ calls' \in 0 .. MaxCalls
    BY <1>6 DEF StampVersion, Return, IInv, TypeOK, CallTypeOK
  <2> QED BY <2>1, IdleFacts, CallUpdate, SeverityConstants DEF IInv
<1>7. ASSUME NEW t \in Threads, BeginSet(t)
       PROVE  CallTypeOK'
  <2>1. PICK h \in Handles, s \in Severity : call' = [call EXCEPT ![t] = Call("set", h, s, {}, 0)]
    BY <1>7 DEF BeginSet, BeginChange
  <2>2. calls' \in 0 .. MaxCalls
    BY <1>7, BoundAssumption DEF BeginSet, BeginChange, IInv, TypeOK, CallTypeOK
  <2>3. s \in Severities
    BY SeverityAssumption, SeverityConstants
  <2> QED BY <2>1, <2>2, <2>3, CallUpdate DEF IInv
<1>8. ASSUME NEW t \in Threads, BeginClear(t)
       PROVE  CallTypeOK'
  <2>1. PICK h \in Handles, s \in {eSuppress} : call' = [call EXCEPT ![t] = Call("clear", h, s, {}, 0)]
    BY <1>8 DEF BeginClear, BeginChange
  <2>2. calls' \in 0 .. MaxCalls
    BY <1>8, BoundAssumption DEF BeginClear, BeginChange, IInv, TypeOK, CallTypeOK
  <2>3. s \in Severities
    BY SeverityAssumption, SeverityConstants
  <2> QED BY <2>1, <2>2, <2>3, CallUpdate DEF IInv
<1>9. ASSUME NEW t \in Threads, SetBackend(t)
       PROVE  CallTypeOK'
  BY <1>9 DEF SetBackend, ChangeBackend, IInv, TypeOK, CallTypeOK
<1>10. ASSUME NEW t \in Threads, ClearBackend(t)
       PROVE  CallTypeOK'
  BY <1>10 DEF ClearBackend, ChangeBackend, IInv, TypeOK, CallTypeOK
<1>11. ASSUME NEW t \in Threads, EndSet(t)
       PROVE  CallTypeOK'
  <2>1. call' = [call EXCEPT
          ![t] = Call("keep", call[t].handle, call[t].severity, {}, NextVersion)]
    BY <1>11 DEF EndSet, IInv, TypeOK, CallTypeOK
  <2>2. calls' \in 0 .. MaxCalls /\ call[t].handle \in Handles /\ call[t].severity \in Severities
    BY <1>11 DEF EndSet, IInv, TypeOK, CallTypeOK, Calls
  <2>3. NextVersion \in Nat
    BY DEF NextVersion, IInv, TypeOK, BackendTypeOK
  <2> QED BY <2>1, <2>2, <2>3, CallUpdate DEF IInv
<1>12. ASSUME NEW t \in Threads, KeepSeverity(t)
       PROVE  CallTypeOK'
  <2>1. call' = [call EXCEPT ![t] = Call("stamp", call[t].handle, eSuppress, {}, 0)]
    BY <1>12 DEF KeepSeverity, KeepThreshold, IInv, TypeOK, CallTypeOK
  <2>2. calls' \in 0 .. MaxCalls /\ call[t].handle \in Handles
    BY <1>12 DEF KeepSeverity, IInv, TypeOK, CallTypeOK, Calls
  <2> QED BY <2>1, <2>2, CallUpdate, SeverityConstants DEF IInv
<1>13. ASSUME NEW t \in Threads, EndClear(t)
       PROVE  CallTypeOK'
  <2>1. call' = [call EXCEPT ![t] = Idle] /\ calls' \in 0 .. MaxCalls
    BY <1>13 DEF EndClear, Return, IInv, TypeOK, CallTypeOK
  <2> QED BY <2>1, IdleFacts, CallUpdate, SeverityConstants DEF IInv
<1>14. CASE UNCHANGED vars
  BY <1>14 DEF vars, IInv, TypeOK, CallTypeOK
<1> QED BY <1>1, <1>2, <1>3, <1>4, <1>5, <1>6, <1>7, <1>8, <1>9, <1>10, <1>11, <1>12, <1>13,
         <1>14 DEF Next, Continue, ConfigUpdateThreadBody

-----------------------------------------------------------------------------
\* The other parts of the invariant, action by action.

LEMMA FileTypeStep ==
  ASSUME TypeOK, [Next]_vars
  PROVE  FileTypeOK'
<1> USE NameAssumption
<1>1. ASSUME NEW t \in Threads, GetThreshold(t)
       PROVE  FileTypeOK'
  BY <1>1 DEF GetThreshold, At, Call, TypeOK, FileTypeOK, disk, reload, backends, held, handles
<1>2. ASSUME NEW t \in Threads, AskMediator(t)
       PROVE  FileTypeOK'
  BY <1>2 DEF AskMediator, At, Call, TypeOK, FileTypeOK, disk, reload, backends, held, handles
<1>3. ASSUME NEW t \in Threads, PollConsumer(t)
       PROVE  FileTypeOK'
  BY <1>3 DEF PollConsumer, At, TypeOK, FileTypeOK, disk, reload, backends, held, handles
<1>4. ASSUME NEW t \in Threads, StoreThreshold(t)
       PROVE  FileTypeOK'
  BY <1>4 DEF StoreThreshold, At, KeepThreshold, Call, TypeOK, FileTypeOK, disk, reload,
         backends, held, handles
<1>5. ASSUME NEW t \in Threads, StampVersion(t)
       PROVE  FileTypeOK'
  BY <1>5 DEF StampVersion, At, Return, Idle, Call, TypeOK, FileTypeOK, disk, reload, backends,
         held, handles
<1>6. ASSUME NEW t \in Threads, BeginSet(t)
       PROVE  FileTypeOK'
  BY <1>6 DEF BeginSet, BeginChange, At, Acquire, Call, TypeOK, FileTypeOK, disk, reload,
         backends, held, handles
<1>7. ASSUME NEW t \in Threads, BeginClear(t)
       PROVE  FileTypeOK'
  BY <1>7 DEF BeginClear, BeginChange, At, Acquire, Call, TypeOK, FileTypeOK, disk, reload,
         backends, held, handles
<1>8. ASSUME NEW t \in Threads, SetBackend(t)
       PROVE  FileTypeOK'
  BY <1>8 DEF SetBackend, At, ChangeBackend, Backend, TypeOK, FileTypeOK, disk, reload,
         backends, held, handles
<1>9. ASSUME NEW t \in Threads, ClearBackend(t)
       PROVE  FileTypeOK'
  BY <1>9 DEF ClearBackend, At, ChangeBackend, Backend, TypeOK, FileTypeOK, disk, reload,
         backends, held, handles
<1>10. ASSUME NEW t \in Threads, EndSet(t)
       PROVE  FileTypeOK'
  BY <1>10 DEF EndSet, At, Release, Call, NextVersion, TypeOK, FileTypeOK, disk, reload,
         backends, held, handles
<1>11. ASSUME NEW t \in Threads, KeepSeverity(t)
       PROVE  FileTypeOK'
  BY <1>11 DEF KeepSeverity, At, KeepThreshold, Call, TypeOK, FileTypeOK, disk, reload,
         backends, held, handles
<1>12. ASSUME NEW t \in Threads, EndClear(t)
       PROVE  FileTypeOK'
  BY <1>12 DEF EndClear, At, Release, Return, Idle, Call, NextVersion, TypeOK, FileTypeOK, disk,
         reload, backends, held, handles
<1>13. ASSUME IsConfigurationChanged \/ BeginRestore \/ DeRegisterConsumer \/ ReadAllLines \/
       ParseBlock \/ EndParse
       PROVE  FileTypeOK'
  BY <1>13 DEF IsConfigurationChanged, BeginRestore, Acquire, DeRegisterConsumer, ReadAllLines,
         Release, ParseBlock, Add, Backend, EndParse, TypeOK, FileTypeOK, disk, reload,
         backends, held, handles
<1>14. ASSUME RefreshConfFile PROVE FileTypeOK'
  BY <1>14, StatType DEF RefreshConfFile, TypeOK, FileTypeOK, disk
<1>15. ASSUME EditFile PROVE FileTypeOK'
  BY <1>15, BoundAssumption DEF EditFile, TypeOK, FileTypeOK, reload
<1>16. CASE UNCHANGED vars
  BY <1>16 DEF vars, TypeOK, FileTypeOK, disk, reload, backends, held, handles
<1> QED BY <1>1, <1>2, <1>3, <1>4, <1>5, <1>6, <1>7, <1>8, <1>9, <1>10, <1>11, <1>12, <1>13,
         <1>14, <1>15, <1>16 DEF Next, Continue, ConfigUpdateThreadBody

LEMMA HandleTypeStep ==
  ASSUME TypeOK, [Next]_vars
  PROVE  HandleTypeOK'
<1> USE NameAssumption
<1>1. ASSUME NEW t \in Threads, GetThreshold(t)
       PROVE  HandleTypeOK'
  BY <1>1 DEF GetThreshold, At, Call, TypeOK, ThreadTypeOK, CallTypeOK, Calls, BackendTypeOK,
         HandleTypeOK, disk, reload, backends, held, handles
<1>2. ASSUME NEW t \in Threads, AskMediator(t)
       PROVE  HandleTypeOK'
  BY <1>2 DEF AskMediator, At, Call, TypeOK, ThreadTypeOK, CallTypeOK, Calls, BackendTypeOK,
         HandleTypeOK, disk, reload, backends, held, handles
<1>3. ASSUME NEW t \in Threads, PollConsumer(t)
       PROVE  HandleTypeOK'
  BY <1>3 DEF PollConsumer, At, TypeOK, ThreadTypeOK, CallTypeOK, Calls, BackendTypeOK,
         HandleTypeOK, disk, reload, backends, held, handles
<1>4. ASSUME NEW t \in Threads, StoreThreshold(t)
       PROVE  HandleTypeOK'
  BY <1>4 DEF StoreThreshold, At, KeepThreshold, Call, TypeOK, ThreadTypeOK, CallTypeOK, Calls,
         BackendTypeOK, HandleTypeOK, disk, reload, backends, held, handles
<1>5. ASSUME NEW t \in Threads, StampVersion(t)
       PROVE  HandleTypeOK'
  BY <1>5 DEF StampVersion, At, Return, Idle, Call, TypeOK, ThreadTypeOK, CallTypeOK, Calls,
         BackendTypeOK, HandleTypeOK, disk, reload, backends, held, handles
<1>6. ASSUME NEW t \in Threads, BeginSet(t)
       PROVE  HandleTypeOK'
  BY <1>6 DEF BeginSet, BeginChange, At, Acquire, Call, TypeOK, ThreadTypeOK, CallTypeOK, Calls,
         BackendTypeOK, HandleTypeOK, disk, reload, backends, held, handles
<1>7. ASSUME NEW t \in Threads, BeginClear(t)
       PROVE  HandleTypeOK'
  BY <1>7 DEF BeginClear, BeginChange, At, Acquire, Call, TypeOK, ThreadTypeOK, CallTypeOK,
         Calls, BackendTypeOK, HandleTypeOK, disk, reload, backends, held, handles
<1>8. ASSUME NEW t \in Threads, SetBackend(t)
       PROVE  HandleTypeOK'
  BY <1>8 DEF SetBackend, At, ChangeBackend, Backend, TypeOK, ThreadTypeOK, CallTypeOK, Calls,
         BackendTypeOK, HandleTypeOK, disk, reload, backends, held, handles
<1>9. ASSUME NEW t \in Threads, ClearBackend(t)
       PROVE  HandleTypeOK'
  BY <1>9 DEF ClearBackend, At, ChangeBackend, Backend, TypeOK, ThreadTypeOK, CallTypeOK, Calls,
         BackendTypeOK, HandleTypeOK, disk, reload, backends, held, handles
<1>10. ASSUME NEW t \in Threads, EndSet(t)
       PROVE  HandleTypeOK'
  BY <1>10 DEF EndSet, At, Release, Call, NextVersion, TypeOK, ThreadTypeOK, CallTypeOK, Calls,
         BackendTypeOK, HandleTypeOK, disk, reload, backends, held, handles
<1>11. ASSUME NEW t \in Threads, KeepSeverity(t)
       PROVE  HandleTypeOK'
  BY <1>11 DEF KeepSeverity, At, KeepThreshold, Call, TypeOK, ThreadTypeOK, CallTypeOK, Calls,
         BackendTypeOK, HandleTypeOK, disk, reload, backends, held, handles
<1>12. ASSUME NEW t \in Threads, EndClear(t)
       PROVE  HandleTypeOK'
  BY <1>12 DEF EndClear, At, Release, Return, Idle, Call, NextVersion, TypeOK, ThreadTypeOK,
         CallTypeOK, Calls, BackendTypeOK, HandleTypeOK, disk, reload, backends, held, handles
<1>13. ASSUME IsConfigurationChanged \/ BeginRestore \/ DeRegisterConsumer \/ RefreshConfFile \/
       ReadAllLines \/ ParseBlock \/ EndParse \/ EditFile
       PROVE  HandleTypeOK'
  BY <1>13 DEF IsConfigurationChanged, BeginRestore, Acquire, DeRegisterConsumer,
         RefreshConfFile, ReadAllLines, Release, ParseBlock, Add, Backend, EndParse, EditFile,
         TypeOK, ThreadTypeOK, CallTypeOK, Calls, BackendTypeOK, HandleTypeOK, disk, reload,
         backends, held, handles
<1>14. CASE UNCHANGED vars
  BY <1>14 DEF vars, TypeOK, ThreadTypeOK, CallTypeOK, Calls, BackendTypeOK, HandleTypeOK, disk,
         reload, backends, held, handles
<1> QED BY <1>1, <1>2, <1>3, <1>4, <1>5, <1>6, <1>7, <1>8, <1>9, <1>10, <1>11, <1>12, <1>13,
         <1>14 DEF Next, Continue, ConfigUpdateThreadBody

LEMMA ThreadTypeStep ==
  ASSUME TypeOK, [Next]_vars
  PROVE  ThreadTypeOK'
<1> USE NameAssumption
<1>1. ASSUME NEW t \in Threads, GetThreshold(t)
       PROVE  ThreadTypeOK'
  BY <1>1 DEF GetThreshold, At, Call, TypeOK, ThreadTypeOK, BackendTypeOK, disk, reload,
         backends, held, handles
<1>2. ASSUME NEW t \in Threads, AskMediator(t)
       PROVE  ThreadTypeOK'
  BY <1>2 DEF AskMediator, At, Call, TypeOK, ThreadTypeOK, BackendTypeOK, disk, reload,
         backends, held, handles
<1>3. ASSUME NEW t \in Threads, PollConsumer(t)
       PROVE  ThreadTypeOK'
  BY <1>3 DEF PollConsumer, At, TypeOK, ThreadTypeOK, BackendTypeOK, disk, reload, backends,
         held, handles
<1>4. ASSUME NEW t \in Threads, StoreThreshold(t)
       PROVE  ThreadTypeOK'
  BY <1>4 DEF StoreThreshold, At, KeepThreshold, Call, TypeOK, ThreadTypeOK, BackendTypeOK,
         disk, reload, backends, held, handles
<1>5. ASSUME NEW t \in Threads, StampVersion(t)
       PROVE  ThreadTypeOK'
  BY <1>5 DEF StampVersion, At, Return, Idle, Call, TypeOK, ThreadTypeOK, BackendTypeOK, disk,
         reload, backends, held, handles
<1>6. ASSUME NEW t \in Threads, KeepSeverity(t)
       PROVE  ThreadTypeOK'
  BY <1>6 DEF KeepSeverity, At, KeepThreshold, Call, TypeOK, ThreadTypeOK, BackendTypeOK, disk,
         reload, backends, held, handles
<1>7. ASSUME IsConfigurationChanged \/ DeRegisterConsumer \/ RefreshConfFile \/ EditFile
       PROVE  ThreadTypeOK'
  BY <1>7 DEF IsConfigurationChanged, DeRegisterConsumer, RefreshConfFile, EditFile, TypeOK,
         ThreadTypeOK, BackendTypeOK, disk, reload, backends, held, handles
<1>8. ASSUME NEW t \in Threads, BeginSet(t)
       PROVE  ThreadTypeOK'
  <2>1. changed' \in BOOLEAN
    BY <1>8 DEF BeginSet, BeginChange, At, Acquire, Call, TypeOK, ThreadTypeOK
  <2> QED
    BY <1>8, <2>1 DEF BeginSet, BeginChange, At, Acquire, Call, TypeOK, ThreadTypeOK, backends,
           held
<1>9. ASSUME NEW t \in Threads, BeginClear(t)
       PROVE  ThreadTypeOK'
  <2>1. changed' \in BOOLEAN
    BY <1>9 DEF BeginClear, BeginChange, At, Acquire, Call, TypeOK, ThreadTypeOK
  <2> QED
    BY <1>9, <2>1 DEF BeginClear, BeginChange, At, Acquire, Call, TypeOK, ThreadTypeOK, backends,
           held
<1>10. ASSUME NEW t \in Threads, SetBackend(t)
       PROVE  ThreadTypeOK'
  <2>1. changed' \in BOOLEAN
    BY <1>10 DEF SetBackend, At, ChangeBackend, Backend, TypeOK, ThreadTypeOK
  <2> QED
    BY <1>10, <2>1 DEF SetBackend, At, ChangeBackend, Backend, TypeOK, ThreadTypeOK, backends, held
<1>11. ASSUME NEW t \in Threads, ClearBackend(t)
       PROVE  ThreadTypeOK'
  <2>1. changed' \in BOOLEAN
    BY <1>11 DEF ClearBackend, At, ChangeBackend, Backend, TypeOK, ThreadTypeOK
  <2> QED
    BY <1>11, <2>1 DEF ClearBackend, At, ChangeBackend, Backend, TypeOK, ThreadTypeOK, backends,
           held
<1>12. ASSUME NEW t \in Threads, EndSet(t)
       PROVE  ThreadTypeOK'
  <2>1. changed' \in BOOLEAN
    BY <1>12 DEF EndSet, At, Release, Call, NextVersion, TypeOK, ThreadTypeOK
  <2> QED
    BY <1>12, <2>1 DEF EndSet, At, Release, Call, NextVersion, TypeOK, ThreadTypeOK, backends, held
<1>13. ASSUME NEW t \in Threads, EndClear(t)
       PROVE  ThreadTypeOK'
  <2>1. changed' \in BOOLEAN
    BY <1>13 DEF EndClear, At, Release, Return, Idle, Call, NextVersion, TypeOK, ThreadTypeOK
  <2> QED
    BY <1>13, <2>1 DEF EndClear, At, Release, Return, Idle, Call, NextVersion, TypeOK,
           ThreadTypeOK, backends, held
<1>14. ASSUME BeginRestore PROVE ThreadTypeOK'
  <2>1. changed' \in BOOLEAN
    BY <1>14 DEF BeginRestore, Acquire, TypeOK, ThreadTypeOK
  <2> QED
    BY <1>14, <2>1 DEF BeginRestore, Acquire, TypeOK, ThreadTypeOK, backends, held
<1>15. ASSUME ReadAllLines PROVE ThreadTypeOK'
  <2>1. changed' \in BOOLEAN
    BY <1>15 DEF ReadAllLines, Release, TypeOK, ThreadTypeOK
  <2> QED
    BY <1>15, <2>1 DEF ReadAllLines, Release, TypeOK, ThreadTypeOK, backends, held
<1>16. ASSUME ParseBlock PROVE ThreadTypeOK'
  <2>1. changed' \in BOOLEAN
    BY <1>16 DEF ParseBlock, TypeOK, ThreadTypeOK
  <2>2. (at \in Nat \ {0})'
    <3>1. text.blocks \in Seq(Blocks)
      BY TextIsBlocks
    <3>2. Len(text.blocks) \in Nat
      BY <3>1
    <3> QED BY <1>16, <3>2 DEF ParseBlock, TypeOK, ThreadTypeOK
  <2> QED BY <1>16, <2>1, <2>2 DEF ParseBlock, TypeOK, ThreadTypeOK
<1>17. ASSUME EndParse PROVE ThreadTypeOK'
  <2>1. changed' \in BOOLEAN
    BY <1>17 DEF EndParse, Add, Backend, Release, TypeOK, ThreadTypeOK
  <2> QED
    BY <1>17, <2>1 DEF EndParse, Add, Backend, Release, TypeOK, ThreadTypeOK, backends, held
<1>18. CASE UNCHANGED vars
  BY <1>18 DEF vars, TypeOK, ThreadTypeOK, BackendTypeOK, disk, reload, backends, held, handles
<1> QED BY <1>1, <1>2, <1>3, <1>4, <1>5, <1>6, <1>7, <1>8, <1>9, <1>10, <1>11, <1>12, <1>13,
         <1>14, <1>15, <1>16, <1>17, <1>18 DEF Next, Continue, ConfigUpdateThreadBody

LEMMA LockStep ==
  ASSUME TypeOK, LockInv, [Next]_vars
  PROVE  LockInv'
<1> USE NameAssumption
<1>1. ASSUME NEW t \in Threads, GetThreshold(t)
       PROVE  LockInv'
  BY <1>1 DEF GetThreshold, At, Call, TypeOK, ThreadTypeOK, CallTypeOK, Calls, LockInv, disk,
         reload, backends, held, handles
<1>2. ASSUME NEW t \in Threads, AskMediator(t)
       PROVE  LockInv'
  BY <1>2 DEF AskMediator, At, Call, TypeOK, ThreadTypeOK, CallTypeOK, Calls, LockInv, disk,
         reload, backends, held, handles
<1>3. ASSUME NEW t \in Threads, PollConsumer(t)
       PROVE  LockInv'
  BY <1>3 DEF PollConsumer, At, TypeOK, ThreadTypeOK, CallTypeOK, Calls, LockInv, disk, reload,
         backends, held, handles
<1>4. ASSUME NEW t \in Threads, StoreThreshold(t)
       PROVE  LockInv'
  BY <1>4 DEF StoreThreshold, At, KeepThreshold, Call, TypeOK, ThreadTypeOK, CallTypeOK, Calls,
         LockInv, disk, reload, backends, held, handles
<1>5. ASSUME NEW t \in Threads, StampVersion(t)
       PROVE  LockInv'
  BY <1>5 DEF StampVersion, At, Return, Idle, Call, TypeOK, ThreadTypeOK, CallTypeOK, Calls,
         LockInv, disk, reload, backends, held, handles
<1>6. ASSUME NEW t \in Threads, BeginSet(t)
       PROVE  LockInv'
  BY <1>6 DEF BeginSet, BeginChange, At, Acquire, Call, TypeOK, ThreadTypeOK, CallTypeOK, Calls,
         LockInv, disk, reload, backends, held, handles
<1>7. ASSUME NEW t \in Threads, BeginClear(t)
       PROVE  LockInv'
  BY <1>7 DEF BeginClear, BeginChange, At, Acquire, Call, TypeOK, ThreadTypeOK, CallTypeOK,
         Calls, LockInv, disk, reload, backends, held, handles
<1>8. ASSUME NEW t \in Threads, SetBackend(t)
       PROVE  LockInv'
  BY <1>8 DEF SetBackend, At, ChangeBackend, Backend, TypeOK, ThreadTypeOK, CallTypeOK, Calls,
         LockInv, disk, reload, backends, held, handles
<1>9. ASSUME NEW t \in Threads, ClearBackend(t)
       PROVE  LockInv'
  BY <1>9 DEF ClearBackend, At, ChangeBackend, Backend, TypeOK, ThreadTypeOK, CallTypeOK, Calls,
         LockInv, disk, reload, backends, held, handles
<1>10. ASSUME NEW t \in Threads, EndSet(t)
       PROVE  LockInv'
  BY <1>10 DEF EndSet, At, Release, Call, NextVersion, TypeOK, ThreadTypeOK, CallTypeOK, Calls,
         LockInv, disk, reload, backends, held, handles
<1>11. ASSUME NEW t \in Threads, KeepSeverity(t)
       PROVE  LockInv'
  BY <1>11 DEF KeepSeverity, At, KeepThreshold, Call, TypeOK, ThreadTypeOK, CallTypeOK, Calls,
         LockInv, disk, reload, backends, held, handles
<1>12. ASSUME NEW t \in Threads, EndClear(t)
       PROVE  LockInv'
  BY <1>12 DEF EndClear, At, Release, Return, Idle, Call, NextVersion, TypeOK, ThreadTypeOK,
         CallTypeOK, Calls, LockInv, disk, reload, backends, held, handles
<1>13. ASSUME IsConfigurationChanged \/ BeginRestore \/ DeRegisterConsumer \/ RefreshConfFile \/
       ReadAllLines \/ ParseBlock \/ EndParse \/ EditFile
       PROVE  LockInv'
  BY <1>13 DEF IsConfigurationChanged, BeginRestore, Acquire, DeRegisterConsumer,
         RefreshConfFile, ReadAllLines, Release, ParseBlock, Add, Backend, EndParse, EditFile,
         TypeOK, ThreadTypeOK, CallTypeOK, Calls, LockInv, disk, reload, backends, held, handles
<1>14. CASE UNCHANGED vars
  BY <1>14 DEF vars, TypeOK, ThreadTypeOK, CallTypeOK, Calls, LockInv, disk, reload, backends,
         held, handles
<1> QED BY <1>1, <1>2, <1>3, <1>4, <1>5, <1>6, <1>7, <1>8, <1>9, <1>10, <1>11, <1>12, <1>13,
         <1>14 DEF Next, Continue, ConfigUpdateThreadBody

LEMMA ConsumerStep ==
  ASSUME TypeOK, LockInv, ConsumerInv, [Next]_vars
  PROVE  ConsumerInv'
<1> USE NameAssumption
<1>1. ASSUME NEW t \in Threads, GetThreshold(t)
       PROVE  ConsumerInv'
  BY <1>1 DEF GetThreshold, At, Call, TypeOK, ThreadTypeOK, CallTypeOK, Calls, BackendTypeOK,
         LockInv, ConsumerInv, disk, reload, backends, held, handles
<1>2. ASSUME NEW t \in Threads, AskMediator(t)
       PROVE  ConsumerInv'
  BY <1>2 DEF AskMediator, At, Call, TypeOK, ThreadTypeOK, CallTypeOK, Calls, BackendTypeOK,
         LockInv, ConsumerInv, disk, reload, backends, held, handles
<1>3. ASSUME NEW t \in Threads, PollConsumer(t)
       PROVE  ConsumerInv'
  BY <1>3 DEF PollConsumer, At, TypeOK, ThreadTypeOK, CallTypeOK, Calls, BackendTypeOK, LockInv,
         ConsumerInv, disk, reload, backends, held, handles
<1>4. ASSUME NEW t \in Threads, StoreThreshold(t)
       PROVE  ConsumerInv'
  BY <1>4 DEF StoreThreshold, At, KeepThreshold, Call, TypeOK, ThreadTypeOK, CallTypeOK, Calls,
         BackendTypeOK, LockInv, ConsumerInv, disk, reload, backends, held, handles
<1>5. ASSUME NEW t \in Threads, StampVersion(t)
       PROVE  ConsumerInv'
  BY <1>5 DEF StampVersion, At, Return, Idle, Call, TypeOK, ThreadTypeOK, CallTypeOK, Calls,
         BackendTypeOK, LockInv, ConsumerInv, disk, reload, backends, held, handles
<1>6. ASSUME NEW t \in Threads, BeginSet(t)
       PROVE  ConsumerInv'
  BY <1>6 DEF BeginSet, BeginChange, At, Acquire, Call, TypeOK, ThreadTypeOK, CallTypeOK, Calls,
         BackendTypeOK, LockInv, ConsumerInv, disk, reload, backends, held, handles
<1>7. ASSUME NEW t \in Threads, BeginClear(t)
       PROVE  ConsumerInv'
  BY <1>7 DEF BeginClear, BeginChange, At, Acquire, Call, TypeOK, ThreadTypeOK, CallTypeOK,
         Calls, BackendTypeOK, LockInv, ConsumerInv, disk, reload, backends, held, handles
<1>8. ASSUME NEW t \in Threads, SetBackend(t)
       PROVE  ConsumerInv'
  BY <1>8 DEF SetBackend, At, ChangeBackend, Backend, TypeOK, ThreadTypeOK, CallTypeOK, Calls,
         BackendTypeOK, LockInv, ConsumerInv, disk, reload, backends, held, handles
<1>9. ASSUME NEW t \in Threads, ClearBackend(t)
       PROVE  ConsumerInv'
  BY <1>9 DEF ClearBackend, At, ChangeBackend, Backend, TypeOK, ThreadTypeOK, CallTypeOK, Calls,
         BackendTypeOK, LockInv, ConsumerInv, disk, reload, backends, held, handles
<1>10. ASSUME NEW t \in Threads, EndSet(t)
       PROVE  ConsumerInv'
  BY <1>10 DEF EndSet, At, Release, Call, NextVersion, TypeOK, ThreadTypeOK, CallTypeOK, Calls,
         BackendTypeOK, LockInv, ConsumerInv, disk, reload, backends, held, handles
<1>11. ASSUME NEW t \in Threads, KeepSeverity(t)
       PROVE  ConsumerInv'
  BY <1>11 DEF KeepSeverity, At, KeepThreshold, Call, TypeOK, ThreadTypeOK, CallTypeOK, Calls,
         BackendTypeOK, LockInv, ConsumerInv, disk, reload, backends, held, handles
<1>12. ASSUME NEW t \in Threads, EndClear(t)
       PROVE  ConsumerInv'
  BY <1>12 DEF EndClear, At, Release, Return, Idle, Call, NextVersion, TypeOK, ThreadTypeOK,
         CallTypeOK, Calls, BackendTypeOK, LockInv, ConsumerInv, disk, reload, backends, held,
         handles
<1>13. ASSUME IsConfigurationChanged \/ BeginRestore \/ DeRegisterConsumer \/ RefreshConfFile \/
       ReadAllLines \/ ParseBlock \/ EndParse \/ EditFile
       PROVE  ConsumerInv'
  BY <1>13 DEF IsConfigurationChanged, BeginRestore, Acquire, DeRegisterConsumer,
         RefreshConfFile, ReadAllLines, Release, ParseBlock, Add, Backend, EndParse, EditFile,
         TypeOK, ThreadTypeOK, CallTypeOK, Calls, BackendTypeOK, LockInv, ConsumerInv, disk,
         reload, backends, held, handles
<1>14. CASE UNCHANGED vars
  BY <1>14 DEF vars, TypeOK, ThreadTypeOK, CallTypeOK, Calls, BackendTypeOK, LockInv,
         ConsumerInv, disk, reload, backends, held, handles
<1> QED BY <1>1, <1>2, <1>3, <1>4, <1>5, <1>6, <1>7, <1>8, <1>9, <1>10, <1>11, <1>12, <1>13,
         <1>14 DEF Next, Continue, ConfigUpdateThreadBody

LEMMA VersionStep ==
  ASSUME TypeOK, VersionInv, [Next]_vars
  PROVE  VersionInv'
<1> USE NameAssumption
<1>1. ASSUME NEW t \in Threads, GetThreshold(t)
       PROVE  VersionInv'
  BY <1>1 DEF GetThreshold, At, Call, TypeOK, ThreadTypeOK, CallTypeOK, Calls, BackendTypeOK,
         HandleTypeOK, VersionInv, disk, reload, backends, held, handles
<1>2. ASSUME NEW t \in Threads, AskMediator(t)
       PROVE  VersionInv'
  BY <1>2 DEF AskMediator, At, Call, TypeOK, ThreadTypeOK, CallTypeOK, Calls, BackendTypeOK,
         HandleTypeOK, VersionInv, disk, reload, backends, held, handles
<1>3. ASSUME NEW t \in Threads, PollConsumer(t)
       PROVE  VersionInv'
  BY <1>3 DEF PollConsumer, At, TypeOK, ThreadTypeOK, CallTypeOK, Calls, BackendTypeOK,
         HandleTypeOK, VersionInv, disk, reload, backends, held, handles
<1>4. ASSUME NEW t \in Threads, StoreThreshold(t)
       PROVE  VersionInv'
  BY <1>4 DEF StoreThreshold, At, KeepThreshold, Call, TypeOK, ThreadTypeOK, CallTypeOK, Calls,
         BackendTypeOK, HandleTypeOK, VersionInv, disk, reload, backends, held, handles
<1>5. ASSUME NEW t \in Threads, StampVersion(t)
       PROVE  VersionInv'
  BY <1>5 DEF StampVersion, At, Return, Idle, Call, TypeOK, ThreadTypeOK, CallTypeOK, Calls,
         BackendTypeOK, HandleTypeOK, VersionInv, disk, reload, backends, held, handles
<1>6. ASSUME NEW t \in Threads, BeginSet(t)
       PROVE  VersionInv'
  BY <1>6 DEF BeginSet, BeginChange, At, Acquire, Call, TypeOK, ThreadTypeOK, CallTypeOK, Calls,
         BackendTypeOK, HandleTypeOK, VersionInv, disk, reload, backends, held, handles
<1>7. ASSUME NEW t \in Threads, BeginClear(t)
       PROVE  VersionInv'
  BY <1>7 DEF BeginClear, BeginChange, At, Acquire, Call, TypeOK, ThreadTypeOK, CallTypeOK,
         Calls, BackendTypeOK, HandleTypeOK, VersionInv, disk, reload, backends, held, handles
<1>8. ASSUME NEW t \in Threads, SetBackend(t)
       PROVE  VersionInv'
  BY <1>8 DEF SetBackend, At, ChangeBackend, Backend, TypeOK, ThreadTypeOK, CallTypeOK, Calls,
         BackendTypeOK, HandleTypeOK, VersionInv, disk, reload, backends, held, handles
<1>9. ASSUME NEW t \in Threads, ClearBackend(t)
       PROVE  VersionInv'
  BY <1>9 DEF ClearBackend, At, ChangeBackend, Backend, TypeOK, ThreadTypeOK, CallTypeOK, Calls,
         BackendTypeOK, HandleTypeOK, VersionInv, disk, reload, backends, held, handles
<1>10. ASSUME NEW t \in Threads, EndSet(t)
       PROVE  VersionInv'
  <2>1. m_ConfigVersion' = NextVersion /\ NextVersion \in {m_ConfigVersion, m_ConfigVersion + 1}
    BY <1>10 DEF EndSet, NextVersion
  <2>2. /\ call' = [call EXCEPT ![t] = Call("keep", @.handle, @.severity, {}, NextVersion)]
        /\ asked' = asked
    BY <1>10 DEF EndSet, handles
  <2>3. \A u \in Threads : call'[u].since = IF u = t THEN NextVersion ELSE call[u].since
    BY <2>2 DEF Call, TypeOK, CallTypeOK
  <2>4. \A u \in Threads : call[u].since \in Nat
    BY DEF TypeOK, CallTypeOK, Calls
  <2> QED BY <2>1, <2>2, <2>3, <2>4 DEF TypeOK, BackendTypeOK, HandleTypeOK, VersionInv
<1>11. ASSUME NEW t \in Threads, KeepSeverity(t)
       PROVE  VersionInv'
  BY <1>11 DEF KeepSeverity, At, KeepThreshold, Call, TypeOK, ThreadTypeOK, CallTypeOK, Calls,
         BackendTypeOK, HandleTypeOK, VersionInv, disk, reload, backends, held, handles
<1>12. ASSUME IsConfigurationChanged \/ BeginRestore \/ DeRegisterConsumer \/ RefreshConfFile \/
       ReadAllLines \/ ParseBlock \/ EndParse \/ EditFile
       PROVE  VersionInv'
  BY <1>12 DEF IsConfigurationChanged, BeginRestore, Acquire, DeRegisterConsumer,
         RefreshConfFile, ReadAllLines, Release, ParseBlock, Add, Backend, EndParse, EditFile,
         TypeOK, ThreadTypeOK, CallTypeOK, Calls, BackendTypeOK, HandleTypeOK, VersionInv, disk,
         reload, backends, held, handles
<1>13. ASSUME NEW t \in Threads, EndClear(t)
       PROVE  VersionInv'
  <2>1. m_ConfigVersion' \in {m_ConfigVersion, m_ConfigVersion + 1}
    BY <1>13 DEF EndClear, NextVersion
  <2>2. call' = [call EXCEPT ![t] = Idle] /\ Idle.since = 0 /\ asked' = asked
    BY <1>13 DEF EndClear, Return, Idle, Call, handles
  <2> QED BY <2>1, <2>2 DEF TypeOK, CallTypeOK, Calls, BackendTypeOK, HandleTypeOK, VersionInv
<1>14. CASE UNCHANGED vars
  BY <1>14 DEF vars, TypeOK, ThreadTypeOK, CallTypeOK, Calls, BackendTypeOK, HandleTypeOK,
         VersionInv, disk, reload, backends, held, handles
<1> QED BY <1>1, <1>2, <1>3, <1>4, <1>5, <1>6, <1>7, <1>8, <1>9, <1>10, <1>11, <1>12, <1>13,
         <1>14 DEF Next, Continue, ConfigUpdateThreadBody

LEMMA KeepStep ==
  ASSUME IInv, [Next]_vars
  PROVE  KeepInv'
<1> USE NameAssumption
<1>1. ASSUME NEW t \in Threads, GetThreshold(t)
       PROVE  KeepInv'
  BY <1>1 DEF GetThreshold, At, Call, IInv, TypeOK, ThreadTypeOK, CallTypeOK, Calls,
         BackendTypeOK, HandleTypeOK, LockInv, ConsumerInv, VersionInv, Settled, Passes, Module,
         SetInv, KeepInv, disk, reload, backends, held, handles
<1>2. ASSUME NEW t \in Threads, AskMediator(t)
       PROVE  KeepInv'
  BY <1>2 DEF AskMediator, At, Call, IInv, TypeOK, ThreadTypeOK, CallTypeOK, Calls,
         BackendTypeOK, HandleTypeOK, LockInv, ConsumerInv, VersionInv, Settled, Passes, Module,
         SetInv, KeepInv, disk, reload, backends, held, handles
<1>3. ASSUME NEW t \in Threads, PollConsumer(t)
       PROVE  KeepInv'
  BY <1>3 DEF PollConsumer, At, IInv, TypeOK, ThreadTypeOK, CallTypeOK, Calls, BackendTypeOK,
         HandleTypeOK, LockInv, ConsumerInv, VersionInv, Settled, Passes, Module, SetInv,
         KeepInv, disk, reload, backends, held, handles
<1>4. ASSUME NEW t \in Threads, StoreThreshold(t)
       PROVE  KeepInv'
  BY <1>4 DEF StoreThreshold, At, KeepThreshold, Call, IInv, TypeOK, ThreadTypeOK, CallTypeOK,
         Calls, BackendTypeOK, HandleTypeOK, LockInv, ConsumerInv, VersionInv, Settled, Passes,
         Module, SetInv, KeepInv, disk, reload, backends, held, handles
<1>5. ASSUME NEW t \in Threads, StampVersion(t)
       PROVE  KeepInv'
  BY <1>5 DEF StampVersion, At, Return, Idle, Call, IInv, TypeOK, ThreadTypeOK, CallTypeOK,
         Calls, BackendTypeOK, HandleTypeOK, LockInv, ConsumerInv, VersionInv, Settled, Passes,
         Module, SetInv, KeepInv, disk, reload, backends, held, handles
<1>6. ASSUME NEW t \in Threads, BeginSet(t)
       PROVE  KeepInv'
  BY <1>6 DEF BeginSet, BeginChange, At, Acquire, Call, IInv, TypeOK, ThreadTypeOK, CallTypeOK,
         Calls, BackendTypeOK, HandleTypeOK, LockInv, ConsumerInv, VersionInv, Settled, Passes,
         Module, SetInv, KeepInv, disk, reload, backends, held, handles
<1>7. ASSUME NEW t \in Threads, BeginClear(t)
       PROVE  KeepInv'
  BY <1>7 DEF BeginClear, BeginChange, At, Acquire, Call, IInv, TypeOK, ThreadTypeOK,
         CallTypeOK, Calls, BackendTypeOK, HandleTypeOK, LockInv, ConsumerInv, VersionInv,
         Settled, Passes, Module, SetInv, KeepInv, disk, reload, backends, held, handles
<1>8. ASSUME NEW t \in Threads, SetBackend(t)
       PROVE  KeepInv'
  BY <1>8 DEF SetBackend, At, ChangeBackend, Backend, IInv, TypeOK, ThreadTypeOK, CallTypeOK,
         Calls, BackendTypeOK, HandleTypeOK, LockInv, ConsumerInv, VersionInv, Settled, Passes,
         Module, SetInv, KeepInv, disk, reload, backends, held, handles
<1>9. ASSUME NEW t \in Threads, ClearBackend(t)
       PROVE  KeepInv'
  BY <1>9 DEF ClearBackend, At, ChangeBackend, Backend, IInv, TypeOK, ThreadTypeOK, CallTypeOK,
         Calls, BackendTypeOK, HandleTypeOK, LockInv, ConsumerInv, VersionInv, Settled, Passes,
         Module, SetInv, KeepInv, disk, reload, backends, held, handles
<1>10. ASSUME NEW t \in Threads, EndSet(t)
       PROVE  KeepInv'
  BY <1>10 DEF EndSet, At, Release, Call, NextVersion, IInv, TypeOK, ThreadTypeOK, CallTypeOK,
         Calls, BackendTypeOK, HandleTypeOK, LockInv, ConsumerInv, VersionInv, Settled, Passes,
         Module, SetInv, KeepInv, disk, reload, backends, held, handles
<1>11. ASSUME NEW t \in Threads, KeepSeverity(t)
       PROVE  KeepInv'
  BY <1>11 DEF KeepSeverity, At, KeepThreshold, Call, IInv, TypeOK, ThreadTypeOK, CallTypeOK,
         Calls, BackendTypeOK, HandleTypeOK, LockInv, ConsumerInv, VersionInv, Settled, Passes,
         Module, SetInv, KeepInv, disk, reload, backends, held, handles
<1>12. ASSUME NEW t \in Threads, EndClear(t)
       PROVE  KeepInv'
  BY <1>12 DEF EndClear, At, Release, Return, Idle, Call, NextVersion, IInv, TypeOK,
         ThreadTypeOK, CallTypeOK, Calls, BackendTypeOK, HandleTypeOK, LockInv, ConsumerInv,
         VersionInv, Settled, Passes, Module, SetInv, KeepInv, disk, reload, backends, held,
         handles
<1>13. ASSUME IsConfigurationChanged \/ BeginRestore \/ DeRegisterConsumer \/ RefreshConfFile \/
       ReadAllLines \/ ParseBlock \/ EndParse \/ EditFile
       PROVE  KeepInv'
  BY <1>13 DEF IsConfigurationChanged, BeginRestore, Acquire, DeRegisterConsumer,
         RefreshConfFile, ReadAllLines, Release, ParseBlock, Add, Backend, EndParse, EditFile,
         IInv, TypeOK, ThreadTypeOK, CallTypeOK, Calls, BackendTypeOK, HandleTypeOK, LockInv,
         ConsumerInv, VersionInv, Settled, Passes, Module, SetInv, KeepInv, disk, reload,
         backends, held, handles
<1>14. CASE UNCHANGED vars
  BY <1>14 DEF vars, IInv, TypeOK, ThreadTypeOK, CallTypeOK, Calls, BackendTypeOK, HandleTypeOK,
         LockInv, ConsumerInv, VersionInv, Settled, Passes, Module, SetInv, KeepInv, disk,
         reload, backends, held, handles
<1> QED BY <1>1, <1>2, <1>3, <1>4, <1>5, <1>6, <1>7, <1>8, <1>9, <1>10, <1>11, <1>12, <1>13,
         <1>14 DEF Next, Continue, ConfigUpdateThreadBody

LEMMA HandleStep ==
  ASSUME IInv, [Next]_vars
  PROVE  HandleInv'
<1> USE NameAssumption
<1>1. ASSUME NEW t \in Threads, GetThreshold(t)
       PROVE  HandleInv'
  BY <1>1 DEF GetThreshold, At, Call, IInv, TypeOK, ThreadTypeOK, CallTypeOK, Calls,
         BackendTypeOK, HandleTypeOK, LockInv, ConsumerInv, VersionInv, Settled, Passes,
         HandleInv, disk, reload, backends, held, handles
<1>2. ASSUME NEW t \in Threads, AskMediator(t)
       PROVE  HandleInv'
  BY <1>2 DEF AskMediator, At, Call, IInv, TypeOK, ThreadTypeOK, CallTypeOK, Calls,
         BackendTypeOK, HandleTypeOK, LockInv, ConsumerInv, VersionInv, Settled, Passes,
         HandleInv, disk, reload, backends, held, handles
<1>3. ASSUME NEW t \in Threads, PollConsumer(t)
       PROVE  HandleInv'
  BY <1>3 DEF PollConsumer, At, IInv, TypeOK, ThreadTypeOK, CallTypeOK, Calls, BackendTypeOK,
         HandleTypeOK, LockInv, ConsumerInv, VersionInv, Settled, Passes, HandleInv, disk,
         reload, backends, held, handles
<1>4. ASSUME NEW t \in Threads, StampVersion(t)
       PROVE  HandleInv'
  BY <1>4 DEF StampVersion, At, Return, Idle, Call, IInv, TypeOK, ThreadTypeOK, CallTypeOK,
         Calls, BackendTypeOK, HandleTypeOK, LockInv, ConsumerInv, VersionInv, Settled, Passes,
         HandleInv, disk, reload, backends, held, handles
<1>5. ASSUME NEW t \in Threads, BeginSet(t)
       PROVE  HandleInv'
  BY <1>5 DEF BeginSet, BeginChange, At, Acquire, Call, IInv, TypeOK, ThreadTypeOK, CallTypeOK,
         Calls, BackendTypeOK, HandleTypeOK, LockInv, ConsumerInv, VersionInv, Settled, Passes,
         HandleInv, disk, reload, backends, held, handles
<1>6. ASSUME NEW t \in Threads, BeginClear(t)
       PROVE  HandleInv'
  BY <1>6 DEF BeginClear, BeginChange, At, Acquire, Call, IInv, TypeOK, ThreadTypeOK,
         CallTypeOK, Calls, BackendTypeOK, HandleTypeOK, LockInv, ConsumerInv, VersionInv,
         Settled, Passes, HandleInv, disk, reload, backends, held, handles
<1>7. ASSUME NEW t \in Threads, SetBackend(t)
       PROVE  HandleInv'
  BY <1>7 DEF SetBackend, At, ChangeBackend, Backend, IInv, TypeOK, ThreadTypeOK, CallTypeOK,
         Calls, BackendTypeOK, HandleTypeOK, LockInv, ConsumerInv, VersionInv, Settled, Passes,
         HandleInv, disk, reload, backends, held, handles
<1>8. ASSUME NEW t \in Threads, ClearBackend(t)
       PROVE  HandleInv'
  BY <1>8 DEF ClearBackend, At, ChangeBackend, Backend, IInv, TypeOK, ThreadTypeOK, CallTypeOK,
         Calls, BackendTypeOK, HandleTypeOK, LockInv, ConsumerInv, VersionInv, Settled, Passes,
         HandleInv, disk, reload, backends, held, handles
<1>9. ASSUME NEW t \in Threads, EndSet(t)
       PROVE  HandleInv'
  BY <1>9 DEF EndSet, At, Release, Call, NextVersion, IInv, TypeOK, ThreadTypeOK, CallTypeOK,
         Calls, BackendTypeOK, HandleTypeOK, LockInv, ConsumerInv, VersionInv, Settled, Passes,
         HandleInv, disk, reload, backends, held, handles
<1>10. ASSUME NEW t \in Threads, EndClear(t)
       PROVE  HandleInv'
  BY <1>10 DEF EndClear, At, Release, Return, Idle, Call, NextVersion, IInv, TypeOK,
         ThreadTypeOK, CallTypeOK, Calls, BackendTypeOK, HandleTypeOK, LockInv, ConsumerInv,
         VersionInv, Settled, Passes, HandleInv, disk, reload, backends, held, handles
<1>11. ASSUME IsConfigurationChanged \/ BeginRestore \/ DeRegisterConsumer \/ RefreshConfFile \/
       ReadAllLines \/ ParseBlock \/ EndParse \/ EditFile
       PROVE  HandleInv'
  BY <1>11 DEF IsConfigurationChanged, BeginRestore, Acquire, DeRegisterConsumer,
         RefreshConfFile, ReadAllLines, Release, ParseBlock, Add, Backend, EndParse, EditFile,
         IInv, TypeOK, ThreadTypeOK, CallTypeOK, Calls, BackendTypeOK, HandleTypeOK, LockInv,
         ConsumerInv, VersionInv, Settled, Passes, HandleInv, disk, reload, backends, held,
         handles
<1>12. ASSUME NEW t \in Threads, StoreThreshold(t)
       PROVE  HandleInv'
  BY <1>12, StoreHandle
<1>13. ASSUME NEW t \in Threads, KeepSeverity(t)
       PROVE  HandleInv'
  BY <1>13, KeepHandle
<1>14. CASE UNCHANGED vars
  BY <1>14 DEF vars, IInv, TypeOK, ThreadTypeOK, CallTypeOK, Calls, BackendTypeOK, HandleTypeOK,
         LockInv, ConsumerInv, VersionInv, Settled, Passes, HandleInv, disk, reload, backends,
         held, handles
<1> QED BY <1>1, <1>2, <1>3, <1>4, <1>5, <1>6, <1>7, <1>8, <1>9, <1>10, <1>11, <1>12, <1>13,
         <1>14 DEF Next, Continue, ConfigUpdateThreadBody

LEMMA PollStep ==
  ASSUME IInv, [Next]_vars
  PROVE  PollInv'
<1> USE NameAssumption
<1>1. ASSUME NEW t \in Threads, GetThreshold(t)
       PROVE  PollInv'
  BY <1>1 DEF GetThreshold, At, Call, IInv, TypeOK, ThreadTypeOK, CallTypeOK, Calls,
         BackendTypeOK, HandleTypeOK, LockInv, ConsumerInv, VersionInv, Settled, Passes, Module,
         PollInv, disk, reload, backends, held, handles
<1>2. ASSUME NEW t \in Threads, AskMediator(t)
       PROVE  PollInv'
  BY <1>2 DEF AskMediator, At, Call, IInv, TypeOK, ThreadTypeOK, CallTypeOK, Calls,
         BackendTypeOK, HandleTypeOK, LockInv, ConsumerInv, VersionInv, Settled, Passes, Module,
         PollInv, disk, reload, backends, held, handles
<1>3. ASSUME NEW t \in Threads, StoreThreshold(t)
       PROVE  PollInv'
  BY <1>3 DEF StoreThreshold, At, KeepThreshold, Call, IInv, TypeOK, ThreadTypeOK, CallTypeOK,
         Calls, BackendTypeOK, HandleTypeOK, LockInv, ConsumerInv, VersionInv, Settled, Passes,
         Module, PollInv, disk, reload, backends, held, handles
<1>4. ASSUME NEW t \in Threads, StampVersion(t)
       PROVE  PollInv'
  BY <1>4 DEF StampVersion, At, Return, Idle, Call, IInv, TypeOK, ThreadTypeOK, CallTypeOK,
         Calls, BackendTypeOK, HandleTypeOK, LockInv, ConsumerInv, VersionInv, Settled, Passes,
         Module, PollInv, disk, reload, backends, held, handles
<1>5. ASSUME NEW t \in Threads, BeginSet(t)
       PROVE  PollInv'
  BY <1>5 DEF BeginSet, BeginChange, At, Acquire, Call, IInv, TypeOK, ThreadTypeOK, CallTypeOK,
         Calls, BackendTypeOK, HandleTypeOK, LockInv, ConsumerInv, VersionInv, Settled, Passes,
         Module, PollInv, disk, reload, backends, held, handles
<1>6. ASSUME NEW t \in Threads, BeginClear(t)
       PROVE  PollInv'
  BY <1>6 DEF BeginClear, BeginChange, At, Acquire, Call, IInv, TypeOK, ThreadTypeOK,
         CallTypeOK, Calls, BackendTypeOK, HandleTypeOK, LockInv, ConsumerInv, VersionInv,
         Settled, Passes, Module, PollInv, disk, reload, backends, held, handles
<1>7. ASSUME NEW t \in Threads, SetBackend(t)
       PROVE  PollInv'
  BY <1>7 DEF SetBackend, At, ChangeBackend, Backend, IInv, TypeOK, ThreadTypeOK, CallTypeOK,
         Calls, BackendTypeOK, HandleTypeOK, LockInv, ConsumerInv, VersionInv, Settled, Passes,
         Module, PollInv, disk, reload, backends, held, handles
<1>8. ASSUME NEW t \in Threads, ClearBackend(t)
       PROVE  PollInv'
  BY <1>8 DEF ClearBackend, At, ChangeBackend, Backend, IInv, TypeOK, ThreadTypeOK, CallTypeOK,
         Calls, BackendTypeOK, HandleTypeOK, LockInv, ConsumerInv, VersionInv, Settled, Passes,
         Module, PollInv, disk, reload, backends, held, handles
<1>9. ASSUME NEW t \in Threads, EndSet(t)
       PROVE  PollInv'
  BY <1>9 DEF EndSet, At, Release, Call, NextVersion, IInv, TypeOK, ThreadTypeOK, CallTypeOK,
         Calls, BackendTypeOK, HandleTypeOK, LockInv, ConsumerInv, VersionInv, Settled, Passes,
         Module, PollInv, disk, reload, backends, held, handles
<1>10. ASSUME NEW t \in Threads, KeepSeverity(t)
       PROVE  PollInv'
  BY <1>10 DEF KeepSeverity, At, KeepThreshold, Call, IInv, TypeOK, ThreadTypeOK, CallTypeOK,
         Calls, BackendTypeOK, HandleTypeOK, LockInv, ConsumerInv, VersionInv, Settled, Passes,
         Module, PollInv, disk, reload, backends, held, handles
<1>11. ASSUME NEW t \in Threads, EndClear(t)
       PROVE  PollInv'
  BY <1>11 DEF EndClear, At, Release, Return, Idle, Call, NextVersion, IInv, TypeOK,
         ThreadTypeOK, CallTypeOK, Calls, BackendTypeOK, HandleTypeOK, LockInv, ConsumerInv,
         VersionInv, Settled, Passes, Module, PollInv, disk, reload, backends, held, handles
<1>12. ASSUME IsConfigurationChanged \/ BeginRestore \/ DeRegisterConsumer \/ RefreshConfFile \/
       ReadAllLines \/ ParseBlock \/ EndParse \/ EditFile
       PROVE  PollInv'
  BY <1>12 DEF IsConfigurationChanged, BeginRestore, Acquire, DeRegisterConsumer,
         RefreshConfFile, ReadAllLines, Release, ParseBlock, Add, Backend, EndParse, EditFile,
         IInv, TypeOK, ThreadTypeOK, CallTypeOK, Calls, BackendTypeOK, HandleTypeOK, LockInv,
         ConsumerInv, VersionInv, Settled, Passes, Module, PollInv, disk, reload, backends,
         held, handles
<1>13. ASSUME NEW t \in Threads, PollConsumer(t)
       PROVE  PollInv'
  BY <1>13, PollNext
<1>14. CASE UNCHANGED vars
  BY <1>14 DEF vars, IInv, TypeOK, ThreadTypeOK, CallTypeOK, Calls, BackendTypeOK, HandleTypeOK,
         LockInv, ConsumerInv, VersionInv, Settled, Passes, Module, PollInv, disk, reload,
         backends, held, handles
<1> QED BY <1>1, <1>2, <1>3, <1>4, <1>5, <1>6, <1>7, <1>8, <1>9, <1>10, <1>11, <1>12, <1>13,
         <1>14 DEF Next, Continue, ConfigUpdateThreadBody

LEMMA SetStep ==
  ASSUME IInv, [Next]_vars
  PROVE  SetInv'
<1> USE NameAssumption
<1>1. ASSUME NEW t \in Threads, GetThreshold(t)
       PROVE  SetInv'
  BY <1>1 DEF GetThreshold, At, Call, IInv, TypeOK, ThreadTypeOK, CallTypeOK, Calls,
         BackendTypeOK, HandleTypeOK, LockInv, ConsumerInv, VersionInv, Settled, Passes, Module,
         SetInv, disk, reload, backends, held, handles
<1>2. ASSUME NEW t \in Threads, AskMediator(t)
       PROVE  SetInv'
  BY <1>2 DEF AskMediator, At, Call, IInv, TypeOK, ThreadTypeOK, CallTypeOK, Calls,
         BackendTypeOK, HandleTypeOK, LockInv, ConsumerInv, VersionInv, Settled, Passes, Module,
         SetInv, disk, reload, backends, held, handles
<1>3. ASSUME NEW t \in Threads, PollConsumer(t)
       PROVE  SetInv'
  BY <1>3 DEF PollConsumer, At, IInv, TypeOK, ThreadTypeOK, CallTypeOK, Calls, BackendTypeOK,
         HandleTypeOK, LockInv, ConsumerInv, VersionInv, Settled, Passes, Module, SetInv, disk,
         reload, backends, held, handles
<1>4. ASSUME NEW t \in Threads, StoreThreshold(t)
       PROVE  SetInv'
  BY <1>4 DEF StoreThreshold, At, KeepThreshold, Call, IInv, TypeOK, ThreadTypeOK, CallTypeOK,
         Calls, BackendTypeOK, HandleTypeOK, LockInv, ConsumerInv, VersionInv, Settled, Passes,
         Module, SetInv, disk, reload, backends, held, handles
<1>5. ASSUME NEW t \in Threads, StampVersion(t)
       PROVE  SetInv'
  BY <1>5 DEF StampVersion, At, Return, Idle, Call, IInv, TypeOK, ThreadTypeOK, CallTypeOK,
         Calls, BackendTypeOK, HandleTypeOK, LockInv, ConsumerInv, VersionInv, Settled, Passes,
         Module, SetInv, disk, reload, backends, held, handles
<1>6. ASSUME NEW t \in Threads, BeginSet(t)
       PROVE  SetInv'
  BY <1>6 DEF BeginSet, BeginChange, At, Acquire, Call, IInv, TypeOK, ThreadTypeOK, CallTypeOK,
         Calls, BackendTypeOK, HandleTypeOK, LockInv, ConsumerInv, VersionInv, Settled, Passes,
         Module, SetInv, disk, reload, backends, held, handles
<1>7. ASSUME NEW t \in Threads, BeginClear(t)
       PROVE  SetInv'
  BY <1>7 DEF BeginClear, BeginChange, At, Acquire, Call, IInv, TypeOK, ThreadTypeOK,
         CallTypeOK, Calls, BackendTypeOK, HandleTypeOK, LockInv, ConsumerInv, VersionInv,
         Settled, Passes, Module, SetInv, disk, reload, backends, held, handles
<1>8. ASSUME NEW t \in Threads, ClearBackend(t)
       PROVE  SetInv'
  BY <1>8 DEF ClearBackend, At, ChangeBackend, Backend, IInv, TypeOK, ThreadTypeOK, CallTypeOK,
         Calls, BackendTypeOK, HandleTypeOK, LockInv, ConsumerInv, VersionInv, Settled, Passes,
         Module, SetInv, disk, reload, backends, held, handles
<1>9. ASSUME NEW t \in Threads, EndSet(t)
       PROVE  SetInv'
  BY <1>9 DEF EndSet, At, Release, Call, NextVersion, IInv, TypeOK, ThreadTypeOK, CallTypeOK,
         Calls, BackendTypeOK, HandleTypeOK, LockInv, ConsumerInv, VersionInv, Settled, Passes,
         Module, SetInv, disk, reload, backends, held, handles
<1>10. ASSUME NEW t \in Threads, KeepSeverity(t)
       PROVE  SetInv'
  BY <1>10 DEF KeepSeverity, At, KeepThreshold, Call, IInv, TypeOK, ThreadTypeOK, CallTypeOK,
         Calls, BackendTypeOK, HandleTypeOK, LockInv, ConsumerInv, VersionInv, Settled, Passes,
         Module, SetInv, disk, reload, backends, held, handles
<1>11. ASSUME NEW t \in Threads, EndClear(t)
       PROVE  SetInv'
  BY <1>11 DEF EndClear, At, Release, Return, Idle, Call, NextVersion, IInv, TypeOK,
         ThreadTypeOK, CallTypeOK, Calls, BackendTypeOK, HandleTypeOK, LockInv, ConsumerInv,
         VersionInv, Settled, Passes, Module, SetInv, disk, reload, backends, held, handles
<1>12. ASSUME IsConfigurationChanged \/ BeginRestore \/ DeRegisterConsumer \/ RefreshConfFile \/
       ReadAllLines \/ ParseBlock \/ EndParse \/ EditFile
       PROVE  SetInv'
  BY <1>12 DEF IsConfigurationChanged, BeginRestore, Acquire, DeRegisterConsumer,
         RefreshConfFile, ReadAllLines, Release, ParseBlock, Add, Backend, EndParse, EditFile,
         IInv, TypeOK, ThreadTypeOK, CallTypeOK, Calls, BackendTypeOK, HandleTypeOK, LockInv,
         ConsumerInv, VersionInv, Settled, Passes, Module, SetInv, disk, reload, backends, held,
         handles
<1>13. ASSUME NEW t \in Threads, SetBackend(t)
       PROVE  SetInv'
  BY <1>13, SetNext
<1>14. CASE UNCHANGED vars
  BY <1>14 DEF vars, IInv, TypeOK, ThreadTypeOK, CallTypeOK, Calls, BackendTypeOK, HandleTypeOK,
         LockInv, ConsumerInv, VersionInv, Settled, Passes, Module, SetInv, disk, reload,
         backends, held, handles
<1> QED BY <1>1, <1>2, <1>3, <1>4, <1>5, <1>6, <1>7, <1>8, <1>9, <1>10, <1>11, <1>12, <1>13,
         <1>14 DEF Next, Continue, ConfigUpdateThreadBody

LEMMA BackendTypeStep ==
  ASSUME IInv, [Next]_vars
  PROVE  BackendTypeOK'
<1> USE NameAssumption
<1>1. ASSUME NEW t \in Threads, GetThreshold(t)
       PROVE  BackendTypeOK'
  BY <1>1 DEF GetThreshold, At, Call, IInv, TypeOK, ThreadTypeOK, CallTypeOK, Calls,
         BackendTypeOK, ConsumerInv, disk, reload, backends, held, handles
<1>2. ASSUME NEW t \in Threads, AskMediator(t)
       PROVE  BackendTypeOK'
  BY <1>2 DEF AskMediator, At, Call, IInv, TypeOK, ThreadTypeOK, CallTypeOK, Calls,
         BackendTypeOK, ConsumerInv, disk, reload, backends, held, handles
<1>3. ASSUME NEW t \in Threads, PollConsumer(t)
       PROVE  BackendTypeOK'
  BY <1>3 DEF PollConsumer, At, IInv, TypeOK, ThreadTypeOK, CallTypeOK, Calls, BackendTypeOK,
         ConsumerInv, disk, reload, backends, held, handles
<1>4. ASSUME NEW t \in Threads, StoreThreshold(t)
       PROVE  BackendTypeOK'
  BY <1>4 DEF StoreThreshold, At, KeepThreshold, Call, IInv, TypeOK, ThreadTypeOK, CallTypeOK,
         Calls, BackendTypeOK, ConsumerInv, disk, reload, backends, held, handles
<1>5. ASSUME NEW t \in Threads, StampVersion(t)
       PROVE  BackendTypeOK'
  BY <1>5 DEF StampVersion, At, Return, Idle, Call, IInv, TypeOK, ThreadTypeOK, CallTypeOK,
         Calls, BackendTypeOK, ConsumerInv, disk, reload, backends, held, handles
<1>6. ASSUME NEW t \in Threads, BeginSet(t)
       PROVE  BackendTypeOK'
  BY <1>6 DEF BeginSet, BeginChange, At, Acquire, Call, IInv, TypeOK, ThreadTypeOK, CallTypeOK,
         Calls, BackendTypeOK, ConsumerInv, disk, reload, backends, held, handles
<1>7. ASSUME NEW t \in Threads, BeginClear(t)
       PROVE  BackendTypeOK'
  BY <1>7 DEF BeginClear, BeginChange, At, Acquire, Call, IInv, TypeOK, ThreadTypeOK,
         CallTypeOK, Calls, BackendTypeOK, ConsumerInv, disk, reload, backends, held, handles
<1>8. ASSUME NEW t \in Threads, EndSet(t)
       PROVE  BackendTypeOK'
  BY <1>8 DEF EndSet, At, Release, Call, NextVersion, IInv, TypeOK, ThreadTypeOK, CallTypeOK,
         Calls, BackendTypeOK, ConsumerInv, disk, reload, backends, held, handles
<1>9. ASSUME NEW t \in Threads, KeepSeverity(t)
       PROVE  BackendTypeOK'
  BY <1>9 DEF KeepSeverity, At, KeepThreshold, Call, IInv, TypeOK, ThreadTypeOK, CallTypeOK,
         Calls, BackendTypeOK, ConsumerInv, disk, reload, backends, held, handles
<1>10. ASSUME IsConfigurationChanged \/ BeginRestore \/ EditFile
       PROVE  BackendTypeOK'
  BY <1>10 DEF IsConfigurationChanged, BeginRestore, Acquire, EditFile, IInv, TypeOK,
         ThreadTypeOK, CallTypeOK, Calls, BackendTypeOK, ConsumerInv, disk, reload, backends,
         held, handles
<1>11. ASSUME NEW t \in Threads, SetBackend(t)
       PROVE  BackendTypeOK'
  BY <1>11, SetNext
<1>12. ASSUME NEW t \in Threads, ClearBackend(t)
       PROVE  BackendTypeOK'
  BY <1>12, ClearNext
<1>13. ASSUME NEW t \in Threads, EndClear(t)
       PROVE  BackendTypeOK'
  BY <1>13, EndClearNext
<1>14. ASSUME DeRegisterConsumer PROVE BackendTypeOK'
  BY <1>14 DEF DeRegisterConsumer, IInv, TypeOK, BackendTypeOK, backends
<1>15. ASSUME RefreshConfFile PROVE BackendTypeOK'
  BY <1>15, ReloadNext
<1>16. ASSUME ReadAllLines PROVE BackendTypeOK'
  BY <1>16, ReloadNext
<1>17. ASSUME ParseBlock PROVE BackendTypeOK'
  BY <1>17, ParseNext
<1>18. ASSUME EndParse PROVE BackendTypeOK'
  BY <1>18, EndParseNext
<1>19. CASE UNCHANGED vars
  BY <1>19 DEF vars, IInv, TypeOK, ThreadTypeOK, CallTypeOK, Calls, BackendTypeOK, ConsumerInv,
         disk, reload, backends, held, handles
<1> QED BY <1>1, <1>2, <1>3, <1>4, <1>5, <1>6, <1>7, <1>8, <1>9, <1>10, <1>11, <1>12, <1>13,
         <1>14, <1>15, <1>16, <1>17, <1>18, <1>19 DEF Next, Continue, ConfigUpdateThreadBody

LEMMA MinStep ==
  ASSUME IInv, [Next]_vars
  PROVE  MinInv'
<1> USE NameAssumption
<1>1. ASSUME NEW t \in Threads, GetThreshold(t)
       PROVE  MinInv'
  BY <1>1 DEF GetThreshold, At, Call, IInv, TypeOK, ThreadTypeOK, CallTypeOK, Calls,
         BackendTypeOK, LockInv, MinInv, Clearing, FellBackBesideOthers, disk, reload, backends,
         held, handles
<1>2. ASSUME NEW t \in Threads, AskMediator(t)
       PROVE  MinInv'
  BY <1>2 DEF AskMediator, At, Call, IInv, TypeOK, ThreadTypeOK, CallTypeOK, Calls,
         BackendTypeOK, LockInv, MinInv, Clearing, FellBackBesideOthers, disk, reload, backends,
         held, handles
<1>3. ASSUME NEW t \in Threads, PollConsumer(t)
       PROVE  MinInv'
  BY <1>3 DEF PollConsumer, At, IInv, TypeOK, ThreadTypeOK, CallTypeOK, Calls, BackendTypeOK,
         LockInv, MinInv, Clearing, FellBackBesideOthers, disk, reload, backends, held, handles
<1>4. ASSUME NEW t \in Threads, StoreThreshold(t)
       PROVE  MinInv'
  BY <1>4 DEF StoreThreshold, At, KeepThreshold, Call, IInv, TypeOK, ThreadTypeOK, CallTypeOK,
         Calls, BackendTypeOK, LockInv, MinInv, Clearing, FellBackBesideOthers, disk, reload,
         backends, held, handles
<1>5. ASSUME NEW t \in Threads, StampVersion(t)
       PROVE  MinInv'
  BY <1>5 DEF StampVersion, At, Return, Idle, Call, IInv, TypeOK, ThreadTypeOK, CallTypeOK,
         Calls, BackendTypeOK, LockInv, MinInv, Clearing, FellBackBesideOthers, disk, reload,
         backends, held, handles
<1>6. ASSUME NEW t \in Threads, BeginSet(t)
       PROVE  MinInv'
  BY <1>6 DEF BeginSet, BeginChange, At, Acquire, Call, IInv, TypeOK, ThreadTypeOK, CallTypeOK,
         Calls, BackendTypeOK, LockInv, MinInv, Clearing, FellBackBesideOthers, disk, reload,
         backends, held, handles
<1>7. ASSUME NEW t \in Threads, BeginClear(t)
       PROVE  MinInv'
  BY <1>7 DEF BeginClear, BeginChange, At, Acquire, Call, IInv, TypeOK, ThreadTypeOK,
         CallTypeOK, Calls, BackendTypeOK, LockInv, MinInv, Clearing, FellBackBesideOthers,
         disk, reload, backends, held, handles
<1>8. ASSUME NEW t \in Threads, EndSet(t)
       PROVE  MinInv'
  BY <1>8 DEF EndSet, At, Release, Call, NextVersion, IInv, TypeOK, ThreadTypeOK, CallTypeOK,
         Calls, BackendTypeOK, LockInv, MinInv, Clearing, FellBackBesideOthers, disk, reload,
         backends, held, handles
<1>9. ASSUME NEW t \in Threads, KeepSeverity(t)
       PROVE  MinInv'
  BY <1>9 DEF KeepSeverity, At, KeepThreshold, Call, IInv, TypeOK, ThreadTypeOK, CallTypeOK,
         Calls, BackendTypeOK, LockInv, MinInv, Clearing, FellBackBesideOthers, disk, reload,
         backends, held, handles
<1>10. ASSUME IsConfigurationChanged \/ BeginRestore \/ DeRegisterConsumer \/ EditFile
       PROVE  MinInv'
  BY <1>10 DEF IsConfigurationChanged, BeginRestore, Acquire, DeRegisterConsumer, EditFile,
         IInv, TypeOK, ThreadTypeOK, CallTypeOK, Calls, BackendTypeOK, LockInv, MinInv,
         Clearing, FellBackBesideOthers, disk, reload, backends, held, handles
<1>11. ASSUME NEW t \in Threads, SetBackend(t)
       PROVE  MinInv'
  BY <1>11, SetNext
<1>12. ASSUME NEW t \in Threads, ClearBackend(t)
       PROVE  MinInv'
  BY <1>12, ClearNext
<1>13. ASSUME NEW t \in Threads, EndClear(t)
       PROVE  MinInv'
  BY <1>13, EndClearNext
<1>14. ASSUME RefreshConfFile PROVE MinInv'
  BY <1>14, ReloadNext
<1>15. ASSUME ReadAllLines PROVE MinInv'
  BY <1>15, ReloadNext
<1>16. ASSUME ParseBlock PROVE MinInv'
  BY <1>16, ParseNext
<1>17. ASSUME EndParse PROVE MinInv'
  BY <1>17, EndParseNext
<1>18. CASE UNCHANGED vars
  BY <1>18 DEF vars, IInv, TypeOK, ThreadTypeOK, CallTypeOK, Calls, BackendTypeOK, LockInv,
         MinInv, Clearing, FellBackBesideOthers, disk, reload, backends, held, handles
<1> QED BY <1>1, <1>2, <1>3, <1>4, <1>5, <1>6, <1>7, <1>8, <1>9, <1>10, <1>11, <1>12, <1>13,
         <1>14, <1>15, <1>16, <1>17, <1>18 DEF Next, Continue, ConfigUpdateThreadBody

-----------------------------------------------------------------------------
LEMMA InitInv == Init => IInv
<1> SUFFICES ASSUME Init PROVE IInv
  OBVIOUS
<1> USE NameAssumption DEF Init
<1> DEFINE S == [kind : {"FILE", "STDOUT", "DEFAULT"}, filter : Filters(Modules)]
<1>1. Fallback \in S
  BY FallbackFacts
<1>2. m_Backends = <<Fallback>> /\ m_Backends \in Seq(S) /\ Len(m_Backends) = 1
      /\ DOMAIN m_Backends = {1} /\ m_Backends[1] = Fallback
  <2> HIDE DEF S
  <2> QED BY <1>1
<1>3. Default \in eNotSet .. eSeverityMax
  BY SeverityAssumption DEF Severities, eNotSet, eSuppress, eSeverityMax
<1>4. BackendTypeOK
  BY <1>2, <1>3 DEF BackendTypeOK
<1>5. FileTypeOK
  <2>1. <<FALSE, 0>> \in BOOLEAN \X (0 .. MaxEdits)
    <3>1. 0 \in 0 .. MaxEdits
      BY BoundAssumption
    <3> QED BY <3>1
  <2>2. file \in Texts \cup {Missing} /\ text \in Texts \cup {Missing}
    BY DEF Init
  <2>3. modified \in 0 .. MaxEdits
    BY BoundAssumption
  <2> QED BY <2>1, <2>2, <2>3 DEF FileTypeOK
<1>6. ThreadTypeOK
  <2>1. changed \in BOOLEAN
    BY DEF Init
  <2> QED BY <2>1 DEF ThreadTypeOK
<1>7. CallTypeOK
  <2>1. Idle \in Calls
    BY IdleFacts, SeverityConstants DEF Call, Calls
  <2> QED BY <2>1, BoundAssumption DEF CallTypeOK
<1>8. HandleTypeOK
  BY SeverityConstants DEF HandleTypeOK
<1>9. LockInv /\ ConsumerInv /\ VersionInv
  BY DEF LockInv, ConsumerInv, VersionInv, Idle, Call
<1>10. HandleInv /\ PollInv /\ KeepInv /\ SetInv
  BY DEF HandleInv, PollInv, KeepInv, SetInv, Idle, Call
<1>11. MinInv
  <2>1. Default \in Nat
    BY <1>3 DEF eNotSet, eSeverityMax
  <2> QED BY <1>2, <2>1, FallbackFacts DEF MinInv
<1> QED BY <1>4, <1>5, <1>6, <1>7, <1>8, <1>9, <1>10, <1>11 DEF IInv, TypeOK

\* The invariant the theorems below follow from: who holds which lock, which
\* versions can be remembered, and what a threshold on its way into a handle is worth.
THEOREM Invariance == Spec => []IInv
<1>1. Init => IInv
  BY InitInv
<1>2. IInv /\ [Next]_vars => IInv'
  <2> SUFFICES ASSUME IInv, [Next]_vars PROVE IInv'
    OBVIOUS
  <2>1. TypeOK'
    BY FileTypeStep, BackendTypeStep, ThreadTypeStep, CallTypeStep, HandleTypeStep
    DEF IInv, TypeOK
  <2>2. LockInv' /\ ConsumerInv' /\ VersionInv'
    BY LockStep, ConsumerStep, VersionStep DEF IInv
  <2>3. HandleInv' /\ PollInv' /\ KeepInv' /\ SetInv' /\ MinInv'
    BY HandleStep, PollStep, KeepStep, SetStep, MinStep
  <2> QED BY <2>1, <2>2, <2>3 DEF IInv
<1> QED BY <1>1, <1>2, PTL DEF Spec

\* Types of all variables; the mediator never knows a backend that is gone.
THEOREM TypeCorrect == Spec => []TypeOK
<1>1. IInv => TypeOK
  BY DEF IInv
<1> QED BY <1>1, Invariance, PTL

\* However many threads share and change however many handles while files are
\* reloaded: a handle whose threshold was asked for in peace never holds back an
\* item that a backend would write.
THEOREM NothingIsLost == Spec => []ThresholdLosesNothing
<1>1. IInv => ThresholdLosesNothing
  BY DEF IInv, HandleInv, ThresholdLosesNothing, LosesNothing, UpToDate, Settled, Passes
<1> QED BY <1>1, Invariance, PTL

\* The least active threshold is a lower bound of all filters, whatever was set,
\* cleared and reloaded, unless a broken file left the default beside its backends.
THEOREM MinimumIsSound == Spec => []MinIsLowerBound
<1>1. IInv => MinIsLowerBound
  BY NameAssumption DEF IInv, MinInv, LockInv, MinIsLowerBound, Clearing
<1> QED BY <1>1, Invariance, PTL

-----------------------------------------------------------------------------
\* What ConfigConverges rests on beside fairness: the comparison of times does not
\* overlook an edition, and no lock is waited for in a circle.

\* When the update thread finds nothing to do, what it has loaded is the file; only a
\* file that is gone, as it was when it was last refreshed, may have left an edition
\* that was there in between.
LoadedIsCurrent ==
  thread # "read" /\ Stat = m_ConfFile => text = file \/ (~file.exists /\ ~m_ConfFile[1])

\* The time was taken before the lines were read, and each edition has its own.
LoadInv ==
  /\ m_ConfFile[2] <= modified
  /\ thread # "read" /\ m_ConfFile[1] /\ m_ConfFile[2] = modified => text = file

LEMMA LoadStep == IInv /\ LoadInv /\ [Next]_vars => LoadInv'
<1> SUFFICES ASSUME IInv, LoadInv, [Next]_vars PROVE LoadInv'
  OBVIOUS
<1> USE DEF LoadInv
<1>0. modified \in Nat /\ m_ConfFile \in BOOLEAN \X (0 .. MaxEdits)
  BY BoundAssumption DEF IInv, TypeOK, FileTypeOK
<1>1. CASE RefreshConfFile
  <2>1. thread' = "read" /\ modified' = modified /\ m_ConfFile' = Stat
    BY <1>1 DEF RefreshConfFile, disk
  <2>2. Stat[2] <= modified
    BY <1>0 DEF Stat
  <2> QED BY <2>1, <2>2
<1>2. CASE ReadAllLines
  BY <1>0, <1>2 DEF ReadAllLines, disk
<1>3. CASE EditFile
  BY <1>0, <1>3 DEF EditFile, reload
<1>4. CASE UNCHANGED <<disk, reload>> /\ (thread # "read" \/ thread' = "read")
  BY <1>4 DEF disk, reload
<1>5. CASE IsConfigurationChanged \/ BeginRestore \/ DeRegisterConsumer \/ ParseBlock \/ EndParse
  BY <1>4, <1>5 DEF IsConfigurationChanged, BeginRestore, DeRegisterConsumer, ParseBlock, EndParse
<1>6. ASSUME NEW t \in Threads,
             GetThreshold(t) \/ BeginSet(t) \/ BeginClear(t) \/ Continue(t)
      PROVE  LoadInv'
  BY <1>4, <1>6 DEF GetThreshold, BeginSet, BeginClear, BeginChange, Continue, AskMediator,
     PollConsumer, StoreThreshold, StampVersion, SetBackend, ClearBackend, ChangeBackend,
     EndSet, EndClear, KeepSeverity
<1>7. CASE UNCHANGED vars
  BY <1>4, <1>7 DEF vars
<1> QED BY <1>1, <1>2, <1>3, <1>5, <1>6, <1>7 DEF Next, ConfigUpdateThreadBody

\* Every edition that stays is noticed, whenever it is written and however often the
\* file changes while it is reloaded.
THEOREM NoEditionIsMissed == Spec => []LoadedIsCurrent
<1>1. Init => LoadInv
  BY DEF Init, LoadInv
<1>2. LoadInv /\ IInv => LoadedIsCurrent
  <2> SUFFICES ASSUME LoadInv, IInv, thread # "read", Stat = m_ConfFile
               PROVE  text = file \/ (~file.exists /\ ~m_ConfFile[1])
    BY DEF LoadedIsCurrent
  <2>1. CASE file.exists
    BY <2>1 DEF LoadInv, Stat
  <2>2. CASE ~file.exists
    BY <2>2 DEF Stat
  <2> QED BY <2>1, <2>2
<1> QED BY <1>1, <1>2, LoadStep, Invariance, PTL DEF Spec

\* Who waits for whom: for the lock of the configurator to change it, to compare its
\* version or its file; for that of the mediator to ask or to change its consumers.
WantsConfigurator(x) ==
  \/ x \in Threads /\ call[x].at \in {"idle", "stamp"}
  \/ x = Updater /\ thread \in {"sleep", "restore"}
WantsMediator(x) ==
  \/ x \in Threads /\ call[x].at = "ask"
  \/ x = Updater /\ thread \in {"deregister", "parse"}
WaitsFor(x, y) ==
  \/ WantsConfigurator(x) /\ m_lock = y
  \/ WantsMediator(x) /\ mediator = y

\* Whoever is waited for waits at most for somebody who waits for nobody.
NobodyWaitsInACircle ==
  \A x, y, z, other \in Threads \cup {Updater} :
    ~(WaitsFor(x, y) /\ WaitsFor(y, z) /\ WaitsFor(z, other))

\* A reload that changes the consumers of the mediator, while threads ask it for
\* thresholds and the configurator for its version, waits for none that waits for it.
THEOREM NoDeadlock == Spec => []NobodyWaitsInACircle
<1>1. IInv => NobodyWaitsInACircle
  <2> SUFFICES ASSUME IInv, NEW x \in Threads \cup {Updater}, NEW y \in Threads \cup {Updater},
                      NEW z \in Threads \cup {Updater}, NEW other \in Threads \cup {Updater},
                      WaitsFor(x, y), WaitsFor(y, z), WaitsFor(z, other)
               PROVE  FALSE
    BY DEF NobodyWaitsInACircle
  <2>0. LockInv /\ mediator # Updater
    BY NameAssumption DEF IInv, TypeOK, ThreadTypeOK
  <2>1. \A u, v \in Threads \cup {Updater} :
          WaitsFor(u, v) => \/ m_lock = v /\ ~WantsConfigurator(v)
                            \/ mediator = v /\ ~WantsConfigurator(v) /\ ~WantsMediator(v)
    BY <2>0, NameAssumption DEF WaitsFor, WantsConfigurator, WantsMediator, LockInv
  <2>2. m_lock = y /\ ~WantsConfigurator(y) /\ mediator = z
    BY <2>1 DEF WaitsFor
  <2>3. ~WantsConfigurator(z) /\ ~WantsMediator(z)
    BY <2>0, <2>2, NameAssumption DEF LockInv, WantsConfigurator, WantsMediator
  <2> QED BY <2>3 DEF WaitsFor
<1> QED BY <1>1, Invariance, PTL
===============================================================================
