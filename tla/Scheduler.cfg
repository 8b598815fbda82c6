SPECIFICATION SchedulerSpec
CONSTANTS
    Locals = {l4, l6}
    Remotes = {r4, s4}
    IPv6 = {l6}
    MaxWeight = 3
    IsClient = TRUE
    Removals = TRUE
    MaxFrames = 3
INVARIANTS FullMesh OncePerRound StaleTotal
CHECK_DEADLOCK FALSE
