----------------------------- MODULE MCProxyGate -----------------------------
EXTENDS ProxyGate, TLC

CONSTANTS a1, a2, c1, c2, u1, u2

MCAdmOf == [r \in Reg |-> IF r \in {c1, u1} THEN a1 ELSE a2]
MCClient == a1 :> c1 @@ a2 :> c2
=============================================================================
