--------------------------- MODULE MCBridgeStartup ---------------------------
EXTENDS BridgeStartup, TLC

CONSTANTS A, B, C, D, a, b, t1, t2

\* B and C differ only in characters that safeSourceName folds; D has none
\* that it keeps.
Folded == (A :> a) @@ (B :> b) @@ (C :> b) @@ (D :> NoName)

Lists == {<<>>, <<t1>>, <<t1, t2>>, <<t1, Blank, t2>>}
==============================================================================
