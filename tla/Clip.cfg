CONSTANTS
    NoLimit = NoLimit
    Session = {s1}
    FileLists <- MCFileLists
    Limits <- MCTwoLimits
    RangeSize = 1
    MaxStaged = 2
    MaxLists = 2
SPECIFICATION Spec
CHECK_DEADLOCK FALSE
INVARIANTS
    OfferedIsClean
    ServedIsTheSenders
    
    ReceiverSeesNewest
    AnswersGoHome

    
