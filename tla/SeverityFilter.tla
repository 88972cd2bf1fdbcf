---------------------------- MODULE SeverityFilter ----------------------------
(***************************************************************************)
(* SCXLogSeverityFilter: which severity a log backend asks of a module.    *)
(* A module is the sequence of the parts between the dots of its name, so  *)
(* that erasing the last part is taking a prefix; the root is <<>>.        *)
(***************************************************************************)
EXTENDS Integers, Sequences

\* SCXLogSeverity
eNotSet      == 0
eHysterical  == 1
eTrace       == 2
eInfo        == 3
eWarning     == 4
eError       == 5
eSuppress    == 6
eSeverityMax == 7

Severities == eNotSet .. eSuppress

\* A filter has a severity of its own for some modules, and a default.
NewFilter == [default |-> eNotSet, map |-> <<>>]

Filters(modules) ==
  [default : Severities,
   map     : UNION {[named -> Severities] : named \in SUBSET (modules \ {<<>>})}]

\* How many leading parts of the name may speak for the module: a superior
\* module that is itself hysterical does not.
Speakers(filter, module) ==
  {n \in 1 .. Len(module) :
     LET superior == SubSeq(module, 1, n)
     IN  /\ superior \in DOMAIN filter.map
         /\ filter.map[superior] # eHysterical \/ superior = module}

\* The nearest of them does.
GetSeverityThreshold(filter, module) ==
  LET speakers == Speakers(filter, module)
      nearest  == CHOOSE n \in speakers : \A k \in speakers : k <= n
  IN  IF speakers = {} THEN filter.default ELSE filter.map[SubSeq(module, 1, nearest)]

\* Whether an item of this severity passes.
IsLogable(filter, module, severity) ==
  LET threshold == GetSeverityThreshold(filter, module)
  IN  severity # eNotSet /\ threshold # eNotSet /\ severity >= threshold

\* The code also tells its caller whether the filter is another one now.
SetFilter(filter, module, severity) ==
  IF module = <<>>
  THEN IF severity = eHysterical THEN filter ELSE [default |-> severity, map |-> filter.map]
  ELSE [default |-> filter.default,
        map     |-> [other \in DOMAIN filter.map \cup {module} |->
                       IF other = module THEN severity ELSE filter.map[other]]]

ClearFilter(filter, module) ==
  IF module = <<>>
  THEN [default |-> eNotSet, map |-> filter.map]
  ELSE [default |-> filter.default,
        map     |-> [other \in DOMAIN filter.map \ {module} |-> filter.map[other]]]

\* The severities the filter knows, and the least of them.
Active(filter) == {filter.default} \cup {filter.map[module] : module \in DOMAIN filter.map}

GetMinActiveSeverityThreshold(filter) ==
  CHOOSE least \in Active(filter) : \A severity \in Active(filter) : least <= severity
===============================================================================
