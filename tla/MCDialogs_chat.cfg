\* Two overlapping handlers, three commands, any number of presses.
SPECIFICATION Spec
CONSTANTS
    t1 = t1
    t2 = t2
    None = None
    Tasks = {t1, t2}
    MaxDialogs = 3
SYMMETRY TaskSymmetry
INVARIANTS
    DialogTypeOK
    StateFitsData
    MenuMeansUnlessLate
    MenuIsUsable
CHECK_DEADLOCK FALSE
