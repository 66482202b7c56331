SPECIFICATION FairSpec
CONSTANTS
    alice = alice
    bob = bob
    a1 = a1
    a2 = a2
    b1 = b1
    k1 = k1
    Bot = Bot
    None = None
    Users = {alice, bob}
    UserOf <- MCUserOf
    Conns = {a1, b1, k1}
    Admins = {}
    Flags = {"raised"}
    Dismissers = {bob}
    MaxCallParticipants = 0
    MaxCalls = 1
    StoreMayFail = FALSE
    HostEndRuns = FALSE
    CleanUpRuns = FALSE
PROPERTY CallEnds
