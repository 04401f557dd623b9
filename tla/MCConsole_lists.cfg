CONSTANTS
    KeyInput <- SomeKeys
    SizeInput <- SomeSizes
    BucketInput <- SomeBuckets
    MaxToasts = 3

SPECIFICATION FairSpec

INVARIANTS
    TypeOK
    ToastHasItsTimer
    ToastIsTrue
    AuctionsAreLatest
    DirectoryIsUploadsLessDeleted

PROPERTIES
    ToastGoes
CHECK_DEADLOCK FALSE
