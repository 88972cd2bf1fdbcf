------------------------------- MODULE MCLogging -------------------------------
(***************************************************************************)
(* Instance of Logging: three nested modules, and a file for each way      *)
(* ParseConfigFile can end.                                                *)
(***************************************************************************)
EXTENDS Logging

Root == <<>>
Scx  == <<"scx">>
Core == <<"scx", "core">>

AllModules == {Root, Scx, Core}

OnlyCore == [h1 |-> Core]

Block(kind, path, closed, lines) == [kind |-> kind, path |-> path, closed |-> closed, lines |-> lines]
Text(blocks) == [exists |-> TRUE, readable |-> TRUE, blocks |-> blocks]

\* Two backends that disagree; the superior of Core is hysterical in one and has a
\* severity nobody knows in the other; the file ends inside a third block.
Both == Text(<<Block("FILE", TRUE, TRUE, << <<Root, eWarning>>, <<Scx, eHysterical>> >>),
               Block("STDOUT", FALSE, TRUE, << <<Scx, eNotSet>>, <<Core, eInfo>> >>),
               Block("FILE", TRUE, FALSE, << <<Core, eHysterical>> >>)>>)

\* A good block, then one without a PATH: the default backend comes as well.
Broken == Text(<<Block("STDOUT", FALSE, TRUE, << <<Root, eHysterical>>, <<Core, eHysterical>> >>),
                 Block("FILE", FALSE, TRUE, <<>>)>>)

Unreadable == [exists |-> TRUE, readable |-> FALSE, blocks |-> <<>>]

AllTexts  == {Both, Broken, Unreadable, Missing}
GoodTexts == {Both}
===============================================================================
