CONSTANTS
    Device = {d1}
    Key = {k1, k2}
    Address = {a1, a2}
    None = None
    MaxGeneration = 2
    MaxRestarts = 0
SPECIFICATION Spec
INVARIANT DoneIsConverged
