SPECIFICATION Spec
CONSTANTS
    alice = alice
    bob = bob
    a1 = a1
    a2 = a2
    b1 = b1
    k1 = k1
    Bot = Bot
    None = None
    Users = {alice, bob}
    UserOf <- MCUserOf
    Conns = {a1, a2, b1}
    Admins = {bob}
    Flags = {"video"}
    Dismissers = {}
    MaxCallParticipants = 0
    MaxCalls = 2
    StoreMayFail = FALSE
    HostEndRuns = FALSE
    CleanUpRuns = FALSE
INVARIANT OneActiveCall
INVARIANT HostInCall
INVARIANT OngoingCallJoinable
INVARIANT VideoAccounted
INVARIANT EndedCallComplete
