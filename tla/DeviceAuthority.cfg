CONSTANTS
    Device = {d1}
    Key = {k1, k2}
    Address = {a1}
    None = None
    MaxGeneration = 2
    MaxRestarts = 1
SPECIFICATION FairSpec
INVARIANTS AppliedIsInstalled PeersAreAccountable AddressesStayApart
PROPERTIES WithdrawalTakesEffect OverdueIsLifted
