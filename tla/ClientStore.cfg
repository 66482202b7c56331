CONSTANTS
    l1 = l1
    l2 = l2
    o1 = o1
    me = me
    other = other
    None = None
    Sessions = {l1, o1}
    Local = {l1}
    UserOf <- MCUserOf
    Flags = {"video"}
    MaxCalls = 2
    MaxWire = 3
    MaxToggles = 1
    MaxPresses = 1
    MaxActivations = 2
SPECIFICATION Spec
INVARIANTS InSync RecordingShown
CHECK_DEADLOCK FALSE
