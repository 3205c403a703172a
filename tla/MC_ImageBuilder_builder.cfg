CONSTANTS
    MaxItems = 2
    ReaderScripts <- AllEndingReaders
    WriteFails = TRUE
    StartFails = TRUE
    Nil = Nil
SPECIFICATION FairSpec
INVARIANT TypeOK
INVARIANT NeverLayersAndEntries
PROPERTY PushLayerReturns
PROPERTY PushLayerAllOrNothing
