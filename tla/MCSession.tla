----------------------------- MODULE MCSession ------------------------------
(* An overlay on a base; each may be opened, and each may be queried.      *)
EXTENDS Qcow2Session, TLC

CONSTANTS base, s, h1, h2

MCImages == {base, s}
MCChain == (base :> {base}) @@ (s :> {s, base})
MCHandles == {h1, h2}
MCSymmetry == Permutations(MCHandles)
MCRank == (base :> 1) @@ (s :> 2)
=============================================================================
