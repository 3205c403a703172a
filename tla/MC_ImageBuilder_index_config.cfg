CONSTANTS
    MaxItems = 2
    ReaderScripts <- GoodReaders
    WriteFails = FALSE
    StartFails = FALSE
    Nil = Nil
SPECIFICATION Spec
INVARIANT IndexHasNoConfig
