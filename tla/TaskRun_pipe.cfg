SPECIFICATION FairSpec
CONSTANTS
    Runs = {t1}
    Modes = {"async"}
    noStdin = noStdin
    NoStdin = noStdin
    Payloads = {4}
    Programs = {"filter"}
    Formats = {"text"}
    PipeCapacity = 1
    MaxStdout = 4
    MaxOutput = 1
    MaxCrashes = 0
PROPERTIES
    EveryTaskEnds
CHECK_DEADLOCK FALSE
