------------------------------ MODULE MCWrite -------------------------------
(* A small image without a backing chain, for Qcow2Write.                  *)
EXTENDS Qcow2Write

MCBase == [s \in Sector |-> Zero]
\* The first sector, from where a write may fill a cluster, and the last one of
\* the first table, from where a write reaches into the next.
MCStarts == {0, L2Size * Sectors - 1}
\* A sector inside a cluster and the last sector of the disk as well.
MCMoreStarts == MCStarts \cup {1, DiskClusters * Sectors - 1}
\* Swapped bytes lead far away.  Of the first cluster of data they lead to one
\* the disk still has, as on a disk of many terabytes; of the others behind it.
MCSwapped == [c \in 0..DiskClusters |-> IF c = FirstData THEN c + 1 ELSE 256 * c]
=============================================================================
