SPECIFICATION FairSpec
CONSTANTS
    Editor = {e1}
    Exporter = {x1, x2}
    WriteFails = FALSE
    None = None
    MaxEdits = 2
    MaxGeneration = 1
INVARIANTS
    FreezeIsAccountedFor
PROPERTIES
    UndeliveredFreezeEnds
