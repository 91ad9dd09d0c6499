--------------------------- MODULE MCBufferGroups ---------------------------
(***************************************************************************)
(* Two groups, two buffers, two callers; sizes 1 and 2, a limit to one     *)
(* buffer of size 1, or none.                                              *)
(***************************************************************************)
EXTENDS BufferGroups, TLC

CONSTANTS g1, g2, b1, b2, t1, t2

MCGroups  == {g1, g2}
MCBuffers == {b1, b2}
MCThreads == {t1, t2}
MCTypes   == {"normal", "ion"}
MCSizes   == {1, 2}
MCLimits  == {[count |-> 1, size |-> 1]}

Symmetry == Permutations(MCGroups) \union Permutations(MCBuffers) \union Permutations(MCThreads)
=============================================================================
