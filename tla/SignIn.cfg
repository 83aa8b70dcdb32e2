CONSTANTS
    Name = {n1, n2}
    Sid = {a, b}
    LocalSid = LocalSid
    None = None
    Browser = {b1, b2}
    ServiceAccount = FALSE
    MaxRows = 2
    MaxPasswords = 2
    MaxResets = 1
    MaxChanges = 2
    MaxGeneration = 1
SPECIFICATION SignInSpec
CHECK_DEADLOCK FALSE
SYMMETRY SignInSymmetry
INVARIANTS
    SessionIsTheRowsAccount
    KindsApart
    
