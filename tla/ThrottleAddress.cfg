\* Three sign-ins from one address at once, with binds that take time: the
\* place a right password gives back is a wrong one's.
SPECIFICATION Spec
CONSTANTS
    Local = {}
    Address = {t1, t2, t3}
    Limit = 2
    WINDOW = 3
    BindTime = 1
    Permits = 1
    MaxTime = 5
CHECK_DEADLOCK FALSE
INVARIANTS
    AddressGuessesBounded
