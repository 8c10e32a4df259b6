------------------------- MODULE MCSystemProxyLease -------------------------
EXTENDS SystemProxyLease

CONSTANTS a1, a2, b1

MCEngine == {a1, a2, b1}
MCHomeOf == [x \in MCEngine |-> IF x = b1 THEN "b" ELSE "a"]
=============================================================================
