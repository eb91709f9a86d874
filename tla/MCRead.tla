------------------------------- MODULE MCRead -------------------------------
(* A chain of three files of unequal sizes.  The overlay in the middle has *)
(* larger clusters than the files below and above it, so that areas are    *)
(* cut from both sides; the base and the newest may end in a cluster that  *)
(* is cut short.                                                           *)
EXTENDS Qcow2Read

MCNFiles == 3
MCClusterSectors == <<2, 4, 2>>
MCSizeSectors == <<6, 8, 6>>
MCTruncatable == {1, 3}
=============================================================================
