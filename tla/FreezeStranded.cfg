SPECIFICATION Spec
CONSTANTS
    Editor = {e1}
    Exporter = {x1, x2}
    WriteFails = TRUE
    None = None
    MaxEdits = 1
    MaxGeneration = 1
SYMMETRY FreezeSymmetry
INVARIANTS
    StrandedFreezeIsMarked
