CONSTANTS
    Repos = {"r1"}
    BadRepos = {}
    ValidTags = {"t1", "t2"}
    BadTags = {}
    Chunks <- MCChunks
    MaxBuf = 1
    Docs = {"M", "A"}
    DocContent <- MCDocContent
    TagLists = {}
    Writers = {}
    UploadIds = {}
    ImmutableTags = FALSE
    LaxChildReferences = TRUE
    Nil = Nil
    Clients = {"c1", "c2"}
    Repo = "r1"
    PushDocs = {"M", "A"}
    PushTags <- MCPushTags
SPECIFICATION FilterSpec
INVARIANT GrantedTagsStay
