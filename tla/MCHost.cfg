SPECIFICATION Spec
CONSTANTS
    Keys = {k1, k2}
    DefaultKey = k1
    Platforms = {"openwrt", "Linux", "other"}
    Names = {n1, n2}
    Srcs = {"lan", "wan"}
    Absent = Absent
    Torn = Torn
    None = None
    MaxEdits = 2
    MaxDeaths = 2
SYMMETRY Symmetry
INVARIANTS
    TypeOK
    KeyWasWritten
    MemoryIsAsTold
