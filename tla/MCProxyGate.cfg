CONSTANTS
    a1 = a1
    a2 = a2
    c1 = c1
    c2 = c2
    u1 = u1
    u2 = u2
    NoOwner = ""
    Session = {"s1", "s2"}
    Adm = {a1, a2}
    Reg = {c1, u1, c2, u2}
    AdmOf <- MCAdmOf
    Client <- MCClient
    MaxAdmissions = 2
    MaxTracked = 2
    MaxWorkers = 1
    MaxActivations = 2
SPECIFICATION FairSpec
INVARIANT ClosedMeansReaped
PROPERTIES BarrierSpec CleanupTerminates
