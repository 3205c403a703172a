------------------------------- MODULE OciMem -------------------------------
(***************************************************************************)
(* The in-memory registry engine (package ocimem): the write operations of *)
(* ocimem/writer.go (PushBlob, PushBlobChunked, PushBlobChunkedResume,     *)
(* MountBlob, PushManifest, checkManifestReferences, refersTo), the upload *)
(* Buffer they hand out and the delete operations.                         *)
(*                                                                         *)
(* Every Registry method runs under the engine mutex r.mu, so each one is  *)
(* a single atomic step.  A chunked upload is not: the writer returned by  *)
(* PushBlobChunkedResume is used by later, separate calls (Write, Commit,  *)
(* Cancel, Close), and Commit runs the digest check under the buffer's own *)
(* lock and the store callback under r.mu, two steps another writer can    *)
(* interleave with.                                                        *)
(*                                                                         *)
(* Data is abstracted: content is a short sequence of chunk values, a      *)
(* digest is Digest(content) (collision free), a manifest document is a    *)
(* record of the descriptors its JSON names.                               *)
(***************************************************************************)
EXTENDS Integers, Sequences, FiniteSets

CONSTANTS
    Repos,          \* valid repository names
    BadRepos,       \* names makeRepo rejects with NAME_INVALID
    ValidTags,      \* tag names ociref.IsValidTag accepts
    BadTags,        \* tag names it rejects
    Chunks,         \* the values a chunk of blob data can take
    MaxBuf,         \* bound: the longest blob / upload buffer, in chunks
    Docs,           \* names of the manifest documents clients push
    DocContent,     \* DocContent[m]: [mt, refs], what document m's JSON holds
    TagLists,       \* the PushManifestParameters.Tags lists clients send
    Writers,        \* clients driving chunked uploads
    UploadIds,      \* upload session ids (fresh UUIDs and client-sent ids)
    ImmutableTags,  \* r.cfg.ImmutableTags
    LaxChildReferences, \* r.cfg.LaxChildReferences
    Nil             \* absent map entry

ASSUME /\ ImmutableTags \in BOOLEAN /\ LaxChildReferences \in BOOLEAN
       /\ MaxBuf \in Nat \ {0}
       /\ Repos \cap BadRepos = {} /\ ValidTags \cap BadTags = {}

-----------------------------------------------------------------------------
(* Content, digests and descriptors.                                       *)

\* digest.FromBytes: a canonical, collision-free digest of blob content,
\* and of a manifest document's JSON encoding.
Digest(content) == <<"sha256", content>>
ManifestDigest(doc) == <<"sha256", "json", doc>>   \* doc names its content

BlobData == UNION {[1..n -> Chunks] : n \in 1..MaxBuf}
BlobDigests == {Digest(c) : c \in BlobData}
AllDigests == BlobDigests \cup {ManifestDigest(m) : m \in Docs}

ImageMT == "image"
IndexMT == "index"
KnownMTs == {ImageMT, IndexMT}
\* media types a client may send with a manifest ("" is a missing one)
PushMTs == KnownMTs \cup {"", "other"}

\* The descriptors a manifest document holds: each has a kind (kindBlob,
\* kindManifest or kindSubjectManifest), a digest and a media type.
RefKinds == {"blob", "manifest", "subject"}

IsValidTag(t) == t \in ValidTags

(***************************************************************************)
(* getManifestInfo: the descriptors found when the document is decoded as  *)
(* media type mt.  Decoding an image manifest as an index (or the reverse) *)
(* ignores the fields of the other schema and keeps only the subject,      *)
(* which both schemas have.  The error it returns on an unknown media type *)
(* is decodable, below; refersTo only decodes with known media types.     *)
(***************************************************************************)
getManifestInfo(doc, mt) ==
    LET c == DocContent[doc]
    IN  IF mt = c.mt THEN c.refs ELSE {i \in c.refs : i.kind = "subject"}

-----------------------------------------------------------------------------
VARIABLES
    repos,      \* repositories makeRepo has created
    blobs,      \* blobs[r][d]: data of blob d in r, or Nil
    manifests,  \* manifests[r][d]: [mt, doc] of manifest d in r, or Nil
    tags,       \* tags[r][t]: descriptor [digest, mt] tag t names, or Nil
    uploads,    \* uploads[r][id]: the upload Buffer with that id, or Nil
    usedIds,    \* upload ids already handed out (fresh UUIDs are new)
    handle,     \* handle[w]: the Buffer writer w holds ([repo, id]) or Nil
    wphase,     \* "idle", "open" (holds a writer) or "committing"
    woff,       \* ghost: the offset writer w's next chunk is meant for
    last        \* outcome of the most recent completed operation

engineVars == <<repos, blobs, manifests, tags, uploads, usedIds>>
writerVars == <<handle, wphase, woff>>
vars == <<engineVars, writerVars, last>>

Buffers == [buf : Seq(Chunks), check : -1..MaxBuf,
            state : {"open", "committed", "cancelled"},
            digest : BlobDigests \cup {Nil}]
Descs == [digest : AllDigests, mt : KnownMTs]
Errs == {"ok", "NameInvalid", "NameUnknown", "BlobUnknown", "DigestInvalid",
         "Denied", "InvalidTag", "InvalidDescriptor", "InvalidManifest",
         "RangeInvalid", "UploadClosed"}
Outcomes == [op : STRING, err : Errs, repo : Repos \cup BadRepos \cup {Nil},
             digest : AllDigests \cup {Nil}, tags : SUBSET (ValidTags \cup BadTags)]

TypeOK ==
    /\ repos \subseteq Repos
    /\ blobs \in [Repos -> [AllDigests -> BlobData \cup {Nil}]]
    /\ manifests \in [Repos -> [AllDigests -> [mt : KnownMTs, doc : Docs] \cup {Nil}]]
    /\ tags \in [Repos -> [ValidTags -> Descs \cup {Nil}]]
    /\ uploads \in [Repos -> [UploadIds -> Buffers \cup {Nil}]]
    /\ usedIds \subseteq UploadIds
    /\ handle \in [Writers -> [repo : Repos, id : UploadIds] \cup {Nil}]
    /\ wphase \in [Writers -> {"idle", "open", "committing"}]
    /\ woff \in [Writers -> 0..(2 * MaxBuf)]
    /\ last \in Outcomes

Init ==
    /\ repos = {}
    /\ blobs = [r \in Repos |-> [d \in AllDigests |-> Nil]]
    /\ manifests = [r \in Repos |-> [d \in AllDigests |-> Nil]]
    /\ tags = [r \in Repos |-> [t \in ValidTags |-> Nil]]
    /\ uploads = [r \in Repos |-> [i \in UploadIds |-> Nil]]
    /\ usedIds = {}
    /\ handle = [w \in Writers |-> Nil]
    /\ wphase = [w \in Writers |-> "idle"]
    /\ woff = [w \in Writers |-> 0]
    /\ last = [op |-> "none", err |-> "ok", repo |-> Nil, digest |-> Nil, tags |-> {}]

\* The outcome an operation returns: the descriptor and tags of a success,
\* only the error code of a failure.
Result(op, err, r, d, ts) ==
    last' = IF err = "ok"
            THEN [op |-> op, err |-> err, repo |-> r, digest |-> d, tags |-> ts]
            ELSE [op |-> op, err |-> err, repo |-> r, digest |-> Nil, tags |-> {}]

\* makeRepo: validates the name and creates the repository if it is new.
makeRepo(r) == r \in Repos /\ repos' = repos \cup {r}

\* Mutant: a descriptor taken without checking it against the data.
CheckDescriptorSkipped(d, data) == TRUE

\* CheckDescriptor(desc, data): the descriptor's digest is that of the data.
CheckDescriptor(d, data) == Digest(data) = d

\* An error returned before makeRepo: nothing changes.
Fail(op, err, r, d, ts) ==
    Result(op, err, r, d, ts) /\ UNCHANGED <<engineVars, writerVars>>

\* A return after makeRepo: the repository exists from then on, whatever
\* the outcome.
ReturnAfterMakeRepo(op, err, r, d, ts) ==
    /\ makeRepo(r)
    /\ Result(op, err, r, d, ts)
    /\ UNCHANGED <<blobs, manifests, tags, uploads, usedIds, writerVars>>

-----------------------------------------------------------------------------
(* Registry operations: each is one step under r.mu.                       *)

\* PushBlob: read and verify the content outside the lock, then store it.
PushBlob(r, data, d) ==
    \/ /\ ~CheckDescriptor(d, data)
       /\ Fail("PushBlob", "InvalidDescriptor", r, d, {})
    \/ /\ CheckDescriptor(d, data)
       /\ r \in BadRepos
       /\ Fail("PushBlob", "NameInvalid", r, d, {})
    \/ /\ CheckDescriptor(d, data)
       /\ makeRepo(r)
       /\ blobs' = [blobs EXCEPT ![r][d] = data]
       /\ Result("PushBlob", "ok", r, d, {})
       /\ UNCHANGED <<manifests, tags, uploads, usedIds, writerVars>>

\* MountBlob: makeRepo(toRepo) runs before blobForDigest(fromRepo).
MountBlob(from, to, d) ==
    \/ /\ to \in BadRepos
       /\ Fail("MountBlob", "NameInvalid", to, d, {})
    \/ /\ to \in Repos
       /\ from \notin repos \cup {to}
       /\ ReturnAfterMakeRepo("MountBlob", "NameUnknown", to, d, {})
    \/ /\ to \in Repos
       /\ from \in repos \cup {to}
       /\ blobs[from][d] = Nil
       /\ ReturnAfterMakeRepo("MountBlob", "BlobUnknown", to, d, {})
    \/ /\ to \in Repos
       /\ from \in repos \cup {to}
       /\ blobs[from][d] # Nil
       /\ makeRepo(to)
       /\ blobs' = [blobs EXCEPT ![to][d] = blobs[from][d]]
       /\ Result("MountBlob", "ok", to, d, {})
       /\ UNCHANGED <<manifests, tags, uploads, usedIds, writerVars>>

\* Mutant: a decoder that accepts any media type.
decodableAnyMT(mt) == TRUE

\* getManifestInfo fails (errUnknownManifestMediaType) on other media types.
decodable(mt) == mt \in KnownMTs

\* checkManifestReferences: decode the manifest and, unless
\* LaxChildReferences, require every blob and (non-subject) manifest it
\* names to be present in the repository; a subject may dangle.
checkManifestReferences(r, mt, doc) ==
    /\ decodable(mt)
    /\ \/ LaxChildReferences
       \/ \A i \in getManifestInfo(doc, mt) :
            /\ i.kind = "blob" => blobs[r][i.digest] # Nil
            /\ i.kind = "manifest" => manifests[r][i.digest] # Nil

\* Mutant: params.Digest taken without verifying it against the data.
VerifiedDigestSkipped(doc, pd) == TRUE

\* params.Digest, when given, must be the digest of the data.
VerifiedDigest(doc, pd) == pd \in {Nil, ManifestDigest(doc)}

\* Mutant: the tag loop checks validity only, ignoring ImmutableTags.
stopsAtInvalidOnly(r, t) == ~IsValidTag(t)

\* The tag loop returns at tag t: it is invalid, or immutable and set.
stopsAt(r, t) == ~IsValidTag(t) \/ (ImmutableTags /\ tags[r][t] # Nil)

\* Mutant: tags already set are left alone instead of overwritten.
applyTagsKeepExisting(r, ts, desc) ==
    [t \in ValidTags |-> IF t \in ts /\ tags[r][t] = Nil THEN desc ELSE tags[r][t]]

\* The final loop: repo.tags[tag] = desc for every requested tag.
applyTags(r, ts, desc) ==
    [t \in ValidTags |-> IF t \in ts THEN desc ELSE tags[r][t]]

(***************************************************************************)
(* PushManifest(repo, data, mediaType, params{Digest: pd, Tags: tl}).      *)
(* The tag loop returns at the first tag that is invalid or, with          *)
(* ImmutableTags, already set: DENIED if it names other content or another *)
(* media type, and success with the existing descriptor (storing nothing,  *)
(* applying no other tag) if it names the same one.                        *)
(***************************************************************************)
PushManifest(r, doc, mt, pd, tl) ==
    LET dig == IF pd = Nil THEN ManifestDigest(doc) ELSE pd
        ts == {tl[i] : i \in 1..Len(tl)}
        stops == {i \in 1..Len(tl) : stopsAt(r, tl[i])}
        first == CHOOSE i \in stops : \A j \in stops : i <= j
        cur == tags[r][tl[first]]
        Return(err) == ReturnAfterMakeRepo("PushManifest", err, r, dig, ts)
    IN
    \/ /\ r \in BadRepos
       /\ Fail("PushManifest", "NameInvalid", r, dig, ts)
    \/ /\ r \in Repos
       /\ ~VerifiedDigest(doc, pd)
       /\ Return("DigestInvalid")
    \/ /\ r \in Repos
       /\ VerifiedDigest(doc, pd)
       /\ stops # {}
       /\ \/ ~IsValidTag(tl[first]) /\ Return("InvalidTag")
          \/ IsValidTag(tl[first]) /\ cur.digest # dig /\ Return("Denied")
          \/ IsValidTag(tl[first]) /\ cur.digest = dig /\ cur.mt # mt /\ Return("Denied")
          \/ IsValidTag(tl[first]) /\ cur.digest = dig /\ cur.mt = mt /\ Return("ok")
    \/ /\ r \in Repos
       /\ VerifiedDigest(doc, pd)
       /\ stops = {}
       /\ mt = ""
       /\ Return("InvalidDescriptor")
    \/ /\ r \in Repos
       /\ VerifiedDigest(doc, pd)
       /\ stops = {}
       /\ mt # ""
       /\ ~checkManifestReferences(r, mt, doc)
       /\ Return("InvalidManifest")
    \/ /\ r \in Repos
       /\ VerifiedDigest(doc, pd)
       /\ stops = {}
       /\ mt # ""
       /\ checkManifestReferences(r, mt, doc)
       /\ makeRepo(r)
       /\ manifests' = [manifests EXCEPT ![r][dig] = [mt |-> mt, doc |-> doc]]
       /\ tags' = [tags EXCEPT ![r] = applyTags(r, ts, [digest |-> dig, mt |-> mt])]
       /\ Result("PushManifest", "ok", r, dig, ts)
       /\ UNCHANGED <<blobs, uploads, usedIds, writerVars>>

-----------------------------------------------------------------------------
(* Chunked uploads.                                                        *)

NewId == ""     \* the id PushBlobChunked passes: start a fresh session

Hold(w, r, id, off) ==
    /\ handle' = [handle EXCEPT ![w] = [repo |-> r, id |-> id]]
    /\ wphase' = [wphase EXCEPT ![w] = "open"]
    /\ woff' = [woff EXCEPT ![w] = off]

(***************************************************************************)
(* PushBlobChunkedResume: under r.mu, look the session up; if there is     *)
(* none, create a Buffer (with a fresh UUID when id is "", otherwise with  *)
(* the id the client sent) and register it; then record the offset the     *)
(* next Write must start at on the Buffer itself and return it.            *)
(***************************************************************************)
\* Mutant: NewBuffer keeps the id it is given, even an empty one.
sessionIdsAsGiven(id) == {id}

\* NewBuffer(id): a fresh UUID when id is "", otherwise id itself.
sessionIds(id) == IF id = NewId THEN UploadIds \ usedIds ELSE {id}

\* Mutant: the resume does not record the offset on the Buffer.
recordOffsetSkipped(b, off) == b

\* b.checkStartOffset = offset
recordOffset(b, off) == [b EXCEPT !.check = off]

\* NewBuffer's fresh, empty, open Buffer (no start offset to check yet).
NewBuffer == [buf |-> <<>>, check |-> -1, state |-> "open", digest |-> Nil]

PushBlobChunkedResume(w, r, id, off) ==
    /\ wphase[w] = "idle"
    /\ \/ /\ r \in BadRepos
          /\ Fail("PushBlobChunkedResume", "NameInvalid", r, Nil, {})
       \/ /\ makeRepo(r)
          /\ \/ /\ id # NewId
                /\ uploads[r][id] # Nil
                /\ uploads' = [uploads EXCEPT ![r][id] = recordOffset(@, off)]
                /\ Hold(w, r, id, off)
                /\ UNCHANGED usedIds
             \/ /\ id = NewId \/ (id # NewId /\ uploads[r][id] = Nil)
                /\ \E u \in sessionIds(id) :
                     /\ uploads' = [uploads EXCEPT ![r][u] = recordOffset(NewBuffer, off)]
                     /\ usedIds' = usedIds \cup {u}
                     /\ Hold(w, r, u, off)
          /\ Result("PushBlobChunkedResume", "ok", r, Nil, {})
          /\ UNCHANGED <<blobs, manifests, tags>>

\* PushBlobChunked starts a session by resuming the empty id at offset 0.
PushBlobChunked(w, r) == PushBlobChunkedResume(w, r, NewId, 0)

\* The session writer w holds.
Held(w) == uploads[handle[w].repo][handle[w].id]

SetHeld(w, b) == uploads' = [uploads EXCEPT ![handle[w].repo][handle[w].id] = b]

Release(w) ==
    /\ handle' = [handle EXCEPT ![w] = Nil]
    /\ wphase' = [wphase EXCEPT ![w] = "idle"]
    /\ UNCHANGED woff

(***************************************************************************)
(* Buffer.Write: a session that is no longer open refuses data; the first  *)
(* write after a resume must start at the offset the resume recorded       *)
(* (range-not-satisfiable otherwise), and clears that check.               *)
(***************************************************************************)
\* Mutant: Write that ignores the recorded start offset.
offsetOKAlways(b) == TRUE

\* The start offset a resume recorded, if not yet consumed, is the length.
offsetOK(b) == b.check \in {-1, Len(b.buf)}

\* Mutant: Write that refuses only a cancelled session.
acceptsUnlessCancelled(b) == b.state # "cancelled"

\* Only an open session takes data: committed and cancelled ones refuse it.
accepts(b) == b.state = "open"

BufferWrite(w, c) ==
    LET b == Held(w) IN
    /\ wphase[w] = "open"
    /\ \/ /\ ~accepts(b)
          /\ Fail("Write", "UploadClosed", handle[w].repo, Nil, {})
       \/ /\ accepts(b)
          /\ ~offsetOK(b)
          /\ Fail("Write", "RangeInvalid", handle[w].repo, Nil, {})
       \/ /\ accepts(b)
          /\ offsetOK(b)
          /\ Len(b.buf) < MaxBuf
          /\ SetHeld(w, [b EXCEPT !.buf = Append(@, c), !.check = -1])
          /\ woff' = [woff EXCEPT ![w] = @ + 1]
          /\ Result("Write", "ok", handle[w].repo, Nil, {})
          /\ UNCHANGED <<repos, blobs, manifests, tags, usedIds, handle, wphase>>

(***************************************************************************)
(* Buffer.Commit, first half (checkCommit, under the Buffer's lock): the   *)
(* accumulated data must hash to the digest; the session becomes committed *)
(* with that descriptor.  The second half is commitCallback.               *)
(***************************************************************************)
BufferCommit(w, d) ==
    LET b == Held(w) IN
    /\ wphase[w] = "open"
    /\ \/ /\ b.state # "open"
          /\ Fail("Commit", "UploadClosed", handle[w].repo, d, {})
       \/ /\ b.state = "open"
          /\ Digest(b.buf) # d
          /\ Fail("Commit", "DigestInvalid", handle[w].repo, d, {})
       \/ /\ b.state = "open"
          /\ Digest(b.buf) = d
          /\ SetHeld(w, [b EXCEPT !.state = "committed", !.digest = d])
          /\ wphase' = [wphase EXCEPT ![w] = "committing"]
          /\ UNCHANGED <<repos, blobs, manifests, tags, usedIds, handle, woff, last>>

\* The commit callback NewBuffer was given: under r.mu, GetBlob and store
\* the data in the repository's blobs (the upload stays in repo.uploads).
commitCallback(w) ==
    LET b == Held(w) IN
    /\ wphase[w] = "committing"
    /\ blobs' = [blobs EXCEPT ![handle[w].repo][b.digest] = b.buf]
    /\ Release(w)
    /\ Result("Commit", "ok", handle[w].repo, b.digest, {})
    /\ UNCHANGED <<repos, manifests, tags, uploads, usedIds>>

\* Buffer.Cancel: an open session becomes cancelled; the writer lets go.
BufferCancel(w) ==
    LET b == Held(w) IN
    /\ wphase[w] = "open"
    /\ \/ /\ b.state = "open"
          /\ SetHeld(w, [b EXCEPT !.state = "cancelled"])
          /\ Result("Cancel", "ok", handle[w].repo, Nil, {})
       \/ /\ b.state # "open"
          /\ Result("Cancel", "UploadClosed", handle[w].repo, Nil, {})
          /\ UNCHANGED uploads
    /\ Release(w)
    /\ UNCHANGED <<repos, blobs, manifests, tags, usedIds>>

\* Buffer.Close: the writer is done with this request; the session stays.
BufferClose(w) ==
    /\ wphase[w] = "open"
    /\ Release(w)
    /\ Result("Close", "ok", handle[w].repo, Nil, {})
    /\ UNCHANGED engineVars

-----------------------------------------------------------------------------
(* Deletes: remove the entry if present; references to it may dangle.      *)

Delete(op, r, upd) ==
    \/ /\ r \notin repos
       /\ Fail(op, "NameUnknown", r, Nil, {})
    \/ /\ r \in repos
       /\ upd
       /\ Result(op, "ok", r, Nil, {})
       /\ UNCHANGED <<repos, uploads, usedIds, writerVars>>

DeleteBlob(r, d) ==
    Delete("DeleteBlob", r, blobs' = [blobs EXCEPT ![r][d] = Nil]
                            /\ UNCHANGED <<manifests, tags>>)

DeleteManifest(r, d) ==
    Delete("DeleteManifest", r, manifests' = [manifests EXCEPT ![r][d] = Nil]
                                /\ UNCHANGED <<blobs, tags>>)

DeleteTag(r, t) ==
    Delete("DeleteTag", r, tags' = [tags EXCEPT ![r][t] = Nil]
                           /\ UNCHANGED <<blobs, manifests>>)

-----------------------------------------------------------------------------
(***************************************************************************)
(* refersTo(repo, iter, digest): whether digest is named, directly or      *)
(* through the manifests (and subjects) present in the repository, by a    *)
(* descriptor of iter.  A manifest descriptor is decoded with its own      *)
(* media type; one whose manifest is absent is skipped (the Go "break"     *)
(* leaves the switch, not the loop).  Content addressing makes the         *)
(* reference graph acyclic, so the recursion ends; getManifestInfo cannot  *)
(* fail on the known media types, so the iteration order does not matter. *)
(***************************************************************************)
\* Mutant: refersTo that follows manifest descriptors but not subjects.
followedNoSubject(i) == i.kind = "manifest"

\* case kindManifest, kindSubjectManifest: descend into the manifest.
followed(i) == i.kind \in {"manifest", "subject"}

\* Mutant: an absent manifest ends the loop (return) instead of the switch.
goesOnNotAbsent(r, i) == ~(followed(i) /\ manifests[r][i.digest] = Nil)

\* b == nil { break }: the loop goes on to the next descriptor after any
\* descriptor whose subtree does not contain the digest, absent ones included.
goesOn(r, i) == TRUE

RECURSIVE refersTo(_, _, _)
refersTo(r, iter, d) ==
    IF iter = {} THEN FALSE
    ELSE LET i == CHOOSE i \in iter : TRUE
         IN  \/ i.digest = d
             \/ /\ followed(i)
                /\ manifests[r][i.digest] # Nil
                /\ refersTo(r, getManifestInfo(manifests[r][i.digest].doc, i.mt), d)
             \/ goesOn(r, i) /\ refersTo(r, iter \ {i}, d)

-----------------------------------------------------------------------------
RepoNames == Repos \cup BadRepos
PushDigests == {Nil} \cup {ManifestDigest(m) : m \in Docs}

Next ==
    \/ \E r \in RepoNames, data \in BlobData, d \in BlobDigests : PushBlob(r, data, d)
    \/ \E from \in Repos, to \in RepoNames, d \in BlobDigests : MountBlob(from, to, d)
    \/ \E r \in RepoNames, doc \in Docs, mt \in PushMTs, pd \in PushDigests,
          tl \in TagLists : PushManifest(r, doc, mt, pd, tl)
    \/ \E w \in Writers :
          \/ \E r \in RepoNames : PushBlobChunked(w, r)
          \/ \E r \in RepoNames, id \in UploadIds, off \in 0..MaxBuf :
                PushBlobChunkedResume(w, r, id, off)
          \/ \E c \in Chunks : BufferWrite(w, c)
          \/ \E d \in BlobDigests : BufferCommit(w, d)
          \/ commitCallback(w)
          \/ BufferCancel(w)
          \/ BufferClose(w)
    \/ \E r \in Repos :
          \/ \E d \in BlobDigests : DeleteBlob(r, d)
          \/ \E d \in AllDigests : DeleteManifest(r, d)
          \/ \E t \in ValidTags : DeleteTag(r, t)

Spec == Init /\ [][Next]_vars

-----------------------------------------------------------------------------
(* Properties.                                                             *)

(***************************************************************************)
(* Content addressing: every blob and manifest a repository holds is       *)
(* stored under the digest of its own content.  The paths that store are   *)
(* PushBlob (verified outside the lock), the two-step chunked commit,      *)
(* MountBlob (copied from another repository) and PushManifest with a      *)
(* client-supplied digest.                                                 *)
(***************************************************************************)
ContentAddressed ==
    \A r \in repos, d \in AllDigests :
        /\ blobs[r][d] # Nil => Digest(blobs[r][d]) = d
        /\ manifests[r][d] # Nil => ManifestDigest(manifests[r][d].doc) = d

(***************************************************************************)
(* A PushManifest that reports success has left the manifest stored under  *)
(* the digest it returned, and every tag the caller asked for valid and    *)
(* naming that digest.                                                     *)
(***************************************************************************)
PushManifestPost ==
    (last.op = "PushManifest" /\ last.err = "ok") =>
        /\ manifests[last.repo][last.digest] # Nil
        /\ \A t \in last.tags :
              IsValidTag(t) /\ tags[last.repo][t] # Nil
                            /\ tags[last.repo][t].digest = last.digest

(***************************************************************************)
(* Chunked writes land where the writer meant them: when a Write by w is   *)
(* accepted, the session held exactly the offset w resumed at plus what w  *)
(* has written since.  The Content-Range check the resume sets up is what  *)
(* is meant to ensure it.                                                  *)
(***************************************************************************)
WriteAtClaimedOffset ==
    [][\A w \in Writers :
         (wphase[w] = "open" /\ woff'[w] = woff[w] + 1)
            => Len(Held(w).buf) = woff[w]]_vars

(***************************************************************************)
(* Spec 4.3: commit moves the buffer into the repository's blobs and drops *)
(* the session: once a Commit has returned, its session is no longer in    *)
(* repo.uploads (a session is committed only while its Commit runs).       *)
(***************************************************************************)
CommittedUploadsDropped ==
    \A r \in repos, id \in UploadIds :
        (uploads[r][id] # Nil /\ uploads[r][id].state = "committed") =>
            \E w \in Writers : wphase[w] = "committing"
                              /\ handle[w] = [repo |-> r, id |-> id]

(***************************************************************************)
(* refersTo agrees with graph reachability: for every manifest a           *)
(* repository holds, digest d is found from its descriptors exactly when a *)
(* descriptor naming d is reachable from them along the edges "manifest or *)
(* subject descriptor -> descriptors of the present manifest it names".    *)
(***************************************************************************)
Gr == INSTANCE Graphs

DescriptorGraph(r) ==
    LET nodes == UNION {DocContent[m].refs : m \in Docs}
    IN  [node |-> nodes,
         edge |-> {<<i, j>> \in nodes \X nodes :
                      /\ i.kind \in {"manifest", "subject"}
                      /\ manifests[r][i.digest] # Nil
                      /\ j \in getManifestInfo(manifests[r][i.digest].doc, i.mt)}]

RefersToIsReachability ==
    \A r \in repos :
        LET G == DescriptorGraph(r)
            tc == Gr!TransitiveClosure([p \in G.node \X G.node |-> p \in G.edge], G.node)
            Reachable(iter) == iter \cup {j \in G.node : \E i \in iter : tc[i, j]}
        IN  \A md \in {x \in AllDigests : manifests[r][x] # Nil} :
              LET iter == getManifestInfo(manifests[r][md].doc, manifests[r][md].mt)
                  reached == {i.digest : i \in Reachable(iter)}
              IN  \A d \in AllDigests : refersTo(r, iter, d) <=> d \in reached

=============================================================================
