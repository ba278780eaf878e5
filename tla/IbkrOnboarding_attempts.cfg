SPECIFICATION FairSpec
CONSTANTS
    MaxJobs = 1
    Accounts = {a1, a2}
    Verifiers = {v1, v2}
    MaxInstances = 1
    MaxLogins = 4
    None = None
PROPERTY ThreeAttempts
PROPERTY QueueDrains
PROPERTY LeasesEnd
