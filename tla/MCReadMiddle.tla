---------------------------- MODULE MCReadMiddle ----------------------------
(* Clusters of one size; the overlay in the middle of the chain may end in *)
(* a cluster that is cut short, as Qcow2Lib_Write leaves it.               *)
EXTENDS Qcow2Read

MCNFiles == 3
MCClusterSectors == <<2, 2, 2>>
MCSizeSectors == <<6, 6, 6>>
MCTruncatable == {2}
=============================================================================
