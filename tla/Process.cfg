SPECIFICATION FairSpec
CONSTANTS
    MaxPid = 3
    Calls = {"overflow", "fork", "exit", "waitpid", "kill", "fault"}
INVARIANTS QueueOrdered OneRunning SuspendedHasWaker ParentsLive
PROPERTIES NoStarvation
