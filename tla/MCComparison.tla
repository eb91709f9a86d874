---------------------------- MODULE MCComparison ----------------------------
(* Two rounds over two sectors, the second with the buffer of the first.   *)
EXTENDS Comparison

MCSector == 0..1
=============================================================================
