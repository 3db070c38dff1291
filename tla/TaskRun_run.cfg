SPECIFICATION FairSpec
CONSTANTS
    Runs = {t1}
    Modes = {"sync", "async"}
    noStdin = noStdin
    NoStdin = noStdin
    Payloads <- UpToTwo
    Programs = {"filter", "free"}
    Formats = {"text", "json"}
    PipeCapacity = 1
    MaxStdout = 1
    MaxOutput = 2
    MaxCrashes = 1
INVARIANTS
    NoChildOutlivesRun
    OkIsEarned
    JobsTellTheOutcome
PROPERTIES
    JobsMoveForward
    FittingTaskEnds
CHECK_DEADLOCK FALSE
