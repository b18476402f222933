----------------------- MODULE MCTrudpKeepConnection -----------------------
EXTENDS TrudpKeepConnection

CONSTANTS A, B

MCPeer == [n \in {A, B} |-> IF n = A THEN B ELSE A]
=============================================================================
