SPECIFICATION Spec
CONSTANTS
    Configs = {c1, c2}
    Slots = {t1, t2}
    MaxGen = 4
    MaxUndo = 1
    None = None
SYMMETRY Symmetry
INVARIANTS CurrentIsHeard ShownIsOfEditedUrl OnlyCurrentIsCached
PROPERTIES ShownMovesForward
