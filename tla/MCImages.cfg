SPECIFICATION Spec
CONSTANTS
    NoFile = NoFile
    NoRow = NoRow
    NoPath = NoPath
    r1 = r1
    r2 = r2
    r3 = r3
    p1 = p1
    p2 = p2
    Uploads = {r1, r2, r3}
    Paths = {p1, p2}
    Faults = {"fail", "crash"}
    MaxFaults = 2
SYMMETRY Interchangeable
CHECK_DEADLOCK FALSE
INVARIANTS
    TypeOK
    WholeFiles
    UploadedStays
    GalleryShowsImages
    NonImagesLeave
    NilRecordOnlyByCollision
    TempsRemoved
