----------------------------- MODULE MCIsoFetcher -----------------------------
(***************************************************************************)
(* Instances of IsoFetcher for TLC.                                        *)
(***************************************************************************)
EXTENDS IsoFetcher

\* No file, one that cannot be read, and one with and without InsmodStatus.
SomeFiles == {Absent, Torn, Xml({}), Xml({"Insmod"})}

\* Nothing, one ISO, or one over another.
NoMount   == {<<>>}
SomeMounts == NoMount \cup {<<d>> : d \in Devices} \cup {<<1, 2>>, <<2, 1>>}
===============================================================================
