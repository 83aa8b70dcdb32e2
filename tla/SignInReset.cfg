CONSTANTS
    Name = {n1, n2}
    Sid = {a, b}
    LocalSid = LocalSid
    None = None
    Browser = {b1, b2}
    ServiceAccount = TRUE
    MaxRows = 1
    MaxPasswords = 0
    MaxResets = 1
    MaxChanges = 2
    MaxGeneration = 0
SPECIFICATION Spec
CHECK_DEADLOCK FALSE
INVARIANTS
    OneAccountPerRow
