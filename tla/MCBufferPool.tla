---------------------------- MODULE MCBufferPool ----------------------------
(* Instance of BufferPool.  Handles and addresses are interchangeable. *)
EXTENDS BufferPool, TLC

Symmetry == Permutations(Handles) \cup Permutations(Blocks)
=============================================================================
