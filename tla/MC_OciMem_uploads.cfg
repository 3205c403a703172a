CONSTANTS
    Repos = {"r1", "r2"}
    BadRepos = {"Bad"}
    ValidTags = {}
    BadTags = {}
    Chunks <- MCChunks
    MaxBuf = 2
    Docs = {}
    DocContent <- NoDocContent
    TagLists = {}
    Writers = {"w1"}
    UploadIds = {"u1"}
    ImmutableTags = FALSE
    LaxChildReferences = FALSE
    Nil = Nil
SPECIFICATION Spec
INVARIANT TypeOK
INVARIANT ContentAddressed
PROPERTY WriteAtClaimedOffset
