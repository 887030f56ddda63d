---------------------------- MODULE MCPullSession ----------------------------
(***************************************************************************)
(* Instances of PullSession for TLC.                                       *)
(***************************************************************************)
EXTENDS PullSession

\* A run may die anywhere.
Anywhere == Labels \ {"idle"}

\* A run may die anywhere but between the removal of one file of a key and
\* of the next.
NotBetweenRemovals == Anywhere \ {"wipe", "dropcap"}

\* A run may die just between the removals of a key and of its capability.
BetweenKeyAndCapability == {"dropcap"}

\* generate_and_persist returns an error.
KeyRefused == {"genkey"}

\* Nobody kills the run and no call of it fails.
Nowhere == {}
=============================================================================
