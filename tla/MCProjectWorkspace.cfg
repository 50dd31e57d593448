CONSTANTS
    Tabs = {t1, t2}
    Projects = {demo, p1}
    Demo = demo
    None = None
    Corrupt = Corrupt
    MaxEdits = 1
SPECIFICATION Spec
SYMMETRY Symmetry
INVARIANTS SavedIsFindable IndexIsSound DeletedStaysDeleted
PROPERTIES LeavingSaves StandInReplacesNothing
