SPECIFICATION Spec
CONSTANTS
    j1 = j1
    j2 = j2
    j3 = j3
    m1 = m1
    m2 = m2
    Automations = {a1}
    Jobs = {j1, j2, j3}
    Evaluators = {e1}
    Sweepers = {s1, s2}
    Editors = {d1}
    Unresolved = {}
    Blocked = {}
    Driver = "paper"
    DayWindow = 1
    HistoryWindow = 1
    Horizon = 1
    MaxUpsets = 2
    Verdict <- MCVerdict
    Marks <- MCMarks
    InitialPolicy <- MCPolicy
    DefaultPolicy <- MCDefaults
    Patches <- MCPatches
SYMMETRY Twins
PROPERTIES ImplementsBook EntryWithinCeilings
