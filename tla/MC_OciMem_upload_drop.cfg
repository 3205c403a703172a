CONSTANTS
    Repos = {"r1"}
    BadRepos = {}
    ValidTags = {}
    BadTags = {}
    Chunks <- MCChunks
    MaxBuf = 2
    Docs = {}
    DocContent <- NoDocContent
    TagLists = {}
    Writers = {"w1"}
    UploadIds = {"u1", "u2"}
    ImmutableTags = FALSE
    LaxChildReferences = FALSE
    Nil = Nil
SPECIFICATION Spec
INVARIANT CommittedUploadsDropped
