CONSTANTS
    Images = {1, 2, 3}
    Calls = {c1, c2}
    Absent = Absent
    MaxImages = 2
    MaxBatch = 2
    Stocks <- OneOrThree
    Operations = {"upload", "promote", "delete", "reorder"}
SPECIFICATION Spec
SYMMETRY Symmetric
INVARIANTS IInv RowHasObject NoOrphan
PROPERTIES ImplementsGallery
CONSTRAINT OneImageStruck
