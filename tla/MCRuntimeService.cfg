SPECIFICATION Spec
CONSTANTS
    Sources = {k1}
    Configs = {c1, c2}
    Tasks = {t1, t2, t3}
    MaxHistory = 2
    MaxStamp = 5
    None = None
SYMMETRY Symmetry
INVARIANTS HistoryWindow ErasedDataAreGone
PROPERTIES RefreshesInOrder FetchedUsableIsKept
