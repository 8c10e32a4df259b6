CONSTANTS
    Conn = {c1, c2, c3}
    FallbackAfter = 3
    Every = 4
    DialMax = 2
    Reconnect = 1
SPECIFICATION Spec
INVARIANTS TypeOK OneProbeAtATime
PROPERTIES FallsBack Returns
