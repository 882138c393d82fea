CONSTANTS
    Images = {1, 2}
    Calls = {c1, c2}
    Absent = Absent
    MaxImages = 2
    MaxBatch = 1
    Stocks <- Two
    Operations = {"promote", "delete"}
SPECIFICATION Spec
SYMMETRY Symmetric
PROPERTY PrimaryStays
