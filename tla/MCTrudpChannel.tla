--------------------------- MODULE MCTrudpChannel ---------------------------
EXTENDS TrudpChannel

CONSTANTS A, B, DataA, DataB

MCPeer == A :> B @@ B :> A
MCMaxData == A :> DataA @@ B :> DataB
=============================================================================
