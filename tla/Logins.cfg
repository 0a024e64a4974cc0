SPECIFICATION LoginsFairSpec
CONSTANTS
    a1 = a1
    a2 = a2
    Requests = {a1, a2}
    WarnAt = 2
    LockAt = 3
    MaxPwFails = 3
    MaxTOTPFails = 4
    MaxSecrets = 2
INVARIANTS LockedAtLimit WarnedInTime EnabledAsProven
  
CHECK_DEADLOCK FALSE
