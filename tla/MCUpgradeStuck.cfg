\* One crash during the migrations.
SPECIFICATION FairSpec
CONSTANTS
    MaxCrashes = 1
    MaxBacks = 0
    MaxTime = 0
CHECK_DEADLOCK FALSE
PROPERTY
    EventuallyServes
