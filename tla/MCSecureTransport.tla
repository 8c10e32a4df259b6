-------------------------- MODULE MCSecureTransport --------------------------
EXTENDS SecureTransport, TLC

\* Two credentials of one egress: `old' on two connections, `new' on one.
MCConn == {"c1", "c2", "c3"}
MCCredOf == [c \in MCConn |-> IF c = "c3" THEN "new" ELSE "old"]
MCEgressOf == [k \in {"old", "new"} |-> "phone"]

Entry(on, nb, exp) == [active |-> on, nb |-> nb, exp |-> exp]
First == [gen |-> 1, cred |-> [k \in {"old"} |-> Entry(TRUE, 0, 2)]]
Rotation == [gen |-> 2, cred |-> ("old" :> Entry(TRUE, 0, 1)) @@ ("new" :> Entry(TRUE, 0, 2))]
Changed == [gen |-> 2, cred |-> ("old" :> Entry(TRUE, 0, 2)) @@ ("new" :> Entry(FALSE, 0, 2))]
TooLong == [gen |-> 3, cred |-> ("old" :> Entry(TRUE, 0, 2)) @@ ("new" :> Entry(TRUE, 0, 2))]

MCRegistries == {First, Rotation, Changed, TooLong}

=============================================================================
