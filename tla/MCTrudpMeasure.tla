--------------------------- MODULE MCTrudpMeasure ---------------------------
EXTENDS TrudpMeasure

CONSTANTS A, B

\* Both clocks wrap soon, that of B five units before that of A.
MCOffset == [h \in {A, B} |-> IF h = A THEN Word - 6 ELSE Word - 1]

\* One clock for both, which does not wrap.
MCOneClock == [h \in {A, B} |-> 1]

\* A sends data, also more than fits in the header; B sends PINGs.
MCPayloads == [h \in {A, B} |-> IF h = A THEN {5, PayloadMod + 5} ELSE {}]
MCPingPayloads == [h \in {A, B} |-> IF h = A THEN {} ELSE {0}]
=============================================================================
