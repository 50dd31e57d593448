CONSTANTS
    Tabs = {t1}
    Projects = {demo, p1}
    Demo = demo
    None = None
    Corrupt = Corrupt
    MaxEdits = 1
SPECIFICATION Spec
PROPERTIES NewProjectKeepsOriginal
