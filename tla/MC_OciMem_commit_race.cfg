CONSTANTS
    Repos = {"r1"}
    BadRepos = {}
    ValidTags = {}
    BadTags = {}
    Chunks <- MCChunks
    MaxBuf = 2
    Docs = {}
    DocContent <- NoDocContent
    TagLists = {}
    Writers = {"w1", "w2"}
    UploadIds = {"u1"}
    ImmutableTags = FALSE
    LaxChildReferences = FALSE
    Nil = Nil
SPECIFICATION Spec
INVARIANT ContentAddressed
