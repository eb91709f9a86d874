--------------------------- MODULE MCWriteOverlay ---------------------------
(* An image on top of a backing chain that has data everywhere.  A cluster *)
(* is one sector, so that every write is of whole clusters: Write does not *)
(* copy from the chain what it leaves of a cluster.                        *)
EXTENDS Qcow2Write

CONSTANT B      \* what the backing chain holds

MCBase == [s \in Sector |-> B]
\* Writes that meet, and what lies between them.
MCStarts == {0, 2}
\* Swapped bytes lead far away.
MCSwapped == [c \in 0..DiskClusters |-> 256 * c]
=============================================================================
