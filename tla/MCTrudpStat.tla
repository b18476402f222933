----------------------------- MODULE MCTrudpStat -----------------------------
EXTENDS TrudpStat

CONSTANTS A, B, DataA, DataB, AttemptsA, AttemptsB, PingsA, PingsB

MCPeer == A :> B @@ B :> A
MCMaxData == A :> DataA @@ B :> DataB
MCMaxAttempts == A :> AttemptsA @@ B :> AttemptsB
MCMaxPings == A :> PingsA @@ B :> PingsB
=============================================================================
