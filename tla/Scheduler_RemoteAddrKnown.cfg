SPECIFICATION SchedulerSpec
CONSTANTS
    Locals = {l4, l6}
    Remotes = {r4, s4}
    IPv6 = {l6}
    MaxWeight = 2
    IsClient = FALSE
    Removals = TRUE
    MaxFrames = 2
INVARIANT RemoteAddrKnown
CHECK_DEADLOCK FALSE
