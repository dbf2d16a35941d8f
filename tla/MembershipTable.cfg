SPECIFICATION Spec
INVARIANTS TypeOK AgreedRing
PROPERTY NoLostUpdate
SYMMETRY Symmetry
CONSTANTS
    Silos = {s1, s2, s3}
    Absent = Absent
    MaxVersion = 4
    MaxGeneration = 2
    MaxBeats = 1
