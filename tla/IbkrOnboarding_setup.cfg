SPECIFICATION Spec
CONSTANTS
    MaxJobs = 2
    Accounts = {a1}
    Verifiers = {v1}
    MaxInstances = 1
    MaxLogins = 2
    None = None
INVARIANT NoReplay
INVARIANT LoginFollowsJob
INVARIANT OneProfilePerAccount
