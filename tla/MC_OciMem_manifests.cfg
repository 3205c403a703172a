CONSTANTS
    Repos = {"r1"}
    BadRepos = {"Bad"}
    ValidTags = {"t1", "t2"}
    BadTags = {"bad!"}
    Chunks <- MCChunks
    MaxBuf = 1
    Docs = {"M", "A", "I"}
    DocContent <- MCDocContent
    TagLists <- MCTagLists
    Writers = {}
    UploadIds = {}
    ImmutableTags = FALSE
    LaxChildReferences = FALSE
    Nil = Nil
SPECIFICATION Spec
INVARIANT TypeOK
INVARIANT ContentAddressed
INVARIANT PushManifestPost
INVARIANT RefersToIsReachability
