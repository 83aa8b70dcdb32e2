SPECIFICATION Spec
CONSTANTS
    Editor = {e1, e2}
    Exporter = {x1, x2}
    WriteFails = TRUE
    None = None
    MaxEdits = 2
    MaxGeneration = 1
SYMMETRY FreezeSymmetry
PROPERTIES
    ImplementsPromise
