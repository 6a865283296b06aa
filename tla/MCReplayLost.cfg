SPECIFICATION Spec
CONSTANTS
    MaxObservers = 2
    Replays <- FourReplays
    Installed = {1, 2}
    FirstBuild = 1
    ReplayLength = 1
    MaxFailures = 2
INVARIANTS
    NoReplayIsLost
