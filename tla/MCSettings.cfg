SPECIFICATION Spec
CONSTANTS
    Runs = {r1, r2}
    Names = {web, api, spaced}
    Invalid = {spaced}
    PortSets <- MCPortSets
    Inodes = {i1, i2, i3, i4}
    Absent = Absent
    MaxFaults = 1
SYMMETRY Alike
INVARIANTS
    FileIsWhole
PROPERTIES
    SaveIsTheCommand
