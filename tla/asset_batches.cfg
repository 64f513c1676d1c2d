SPECIFICATION FairSpec
CONSTANTS
    u1 = u1
    u2 = u2
    r1 = r1
    Uploads <- MCUploads
    Renders <- MCRenders
    ManualOf <- MCManualOf
    Source <- MCSource
    Size <- MCSize
    MaxFaults = 1
    MaxSweepFaults = 1
INVARIANTS LiveFilesExist
PROPERTIES ImplementsStore PendingSettles
CHECK_DEADLOCK FALSE
