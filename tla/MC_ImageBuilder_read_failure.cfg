CONSTANTS
    MaxItems = 2
    ReaderScripts <- FailingReaders
    WriteFails = FALSE
    StartFails = FALSE
    Nil = Nil
SPECIFICATION FairSpec
PROPERTY PushLayerReportsFailure
