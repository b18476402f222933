---------------------------- MODULE MCTrudpMemory ----------------------------
EXTENDS TrudpMemory

Permuted == Permutations(Cells)
=============================================================================
