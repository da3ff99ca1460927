------------------------- MODULE MCMemoryRegistry -------------------------
(* Small instances of the shared memory regions. *)
EXTENDS MemoryRegistry, TLC

CONSTANTS m1, m2, owner, peer, h1, h2, h3, a

\* Holds and regions differ in name only, and so would the processes without a
\* registry if there were more.
Symmetry == Permutations(Holds) \cup Permutations(Regions)
=============================================================================
