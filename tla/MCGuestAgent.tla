---------------------------- MODULE MCGuestAgent ----------------------------
(***************************************************************************)
(* Instances of GuestAgent for TLC.                                        *)
(***************************************************************************)
EXTENDS GuestAgent

Medium(mode, content, wants, device, kit, decodes) ==
  [mode |-> mode, content |-> content, wants |-> wants, present |-> device,
   kit |-> kit, decodes |-> decodes]

\* Every kind of medium: whatever can be configured, with a good and a bad password,
\* or nothing.  Only an ISO needs a device, and only from a valid one is the
\* agent upgraded; neither has to do with what it asks for.
AllMedia ==
  {Medium(m, "valid", Optional, TRUE, FALSE, d) : m \in {"iso", "file"}, d \in BOOLEAN}
  \cup {Medium("iso", "valid", {}, FALSE, k, TRUE) : k \in BOOLEAN}
  \cup {Medium(m, c, {}, TRUE, FALSE, TRUE) :
          m \in {"iso", "file"}, c \in {"malformed", "rejected"}}

\* A sound ISO, in a machine with and without a CD-ROM device, with and without
\* a newer agent on it.
ValidMedia ==
  {Medium("iso", "valid", Optional, p, k, TRUE) : p \in BOOLEAN, k \in BOOLEAN}

\* The ordinary case: a sound ISO and a device.
PlainMedia == {Medium("iso", "valid", Optional, TRUE, FALSE, TRUE)}

AllCodes == {-1, 0, 1}

\* A script that exits with -1 is taken like one that exits with 1: both are seen
\* with a positive status.
SeenCodes == {0, 1}
=============================================================================
