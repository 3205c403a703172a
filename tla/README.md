# TLA+ models of jcarter3/oci

These modules model the parts of `jcarter3/oci` whose code is in this tree. Each one is checked with TLC. The tree holds:

- the in-memory registry's write path (`ocimem/writer.go`, in `src/unnamed/part_000` lines 497-727);
- the `ocifilter.Immutable` wrapper;
- the `ociregistry.Funcs` adapter;
- `ocibuilder.ImageBuilder`;
- tests for `ociauth`, `ociclient` and `ociserver`.

Run every check from this directory, with `tlc -workers 2 -config <cfg> <MC module>`.

## 1. Inventory

| Part | State it keeps | Operations that change it | Interacts with |
|---|---|---|---|
| ocimem engine | Per repository: blobs, manifests, tags and upload sessions. One mutex, `r.mu`, guards them. | PushBlob, PushBlobChunked, PushBlobChunkedResume, MountBlob, PushManifest, and the Delete* operations. The reads change nothing. | Clients, the filter, the builder (through a client). |
| upload Buffer | Data, the expected start offset (`checkStartOffset`), state (open, committed or cancelled), and the committed digest. | Write, Commit (digest check, then the engine's commit callback), Cancel, Close. | The engine's commit callback, which takes `r.mu` again. |
| ocifilter.Immutable | None of its own. | PushManifest: for each tag a ResolveTag pre-check, then the wrapped push, then for each tag a ResolveTag post-check. Delete* always return ErrDenied. | Wraps any `ociregistry.Interface`, here the engine. |
| ociregistry.Funcs | Which function fields are set, and the NewError hook. | One dispatch per Interface method. | Is the Interface it implements. |
| ocibuilder.ImageBuilder | The manifest being built: media type, config, layers, index entries, subject, annotations. | SetArtifactType, SetSubject, SetConfig, AddLayer, AddManifest, AddAnnotation, Push, and PushLayer. PushLayer is a loop: read, hash, write with 3 tries, commit, add the layer. | A registry client's chunked upload and PushManifest. |
| ociauth, ociclient, ociserver, error mapping | Only tests are in this tree. | — | — |

**What is hard in this code.** These are the behaviours that unit tests hardly reach:

- Several clients can drive one upload session. `PushBlobChunkedResume` records the expected offset on the shared Buffer (line 562).
- A chunked commit takes two steps under two locks, with other operations in between.
- The filter checks tags, then acts, across three separate engine calls that other clients interleave with.
- With ImmutableTags, PushManifest can return early from its tag loop (line 630).
- Funcs guards each call with one field and then calls another.
- The builder's guards are spread over three methods, and some call orders get past them.
- PushLayer's loop ends only at `io.EOF`, and the Write result overwrites a read error.

**What makes each part correct.** These are the properties the runs check:

- **Engine:**
  - everything stored is addressed by its own digest;
  - a successful PushManifest holds the manifest and all the tags it reports;
  - each accepted chunk lands at the offset its writer resumed at;
  - a commit ends the session;
  - refersTo is reachability in the descriptor graph.
- **Filter:** a tag it granted never changes, and the repository behind it behaves as the abstract `ImmutableTagStore`: manifests are only added, a tag is bound once, in the same step as its manifest is stored, and every reply a call returns is one the repository's state justifies when it returns.
- **Funcs:** each method calls its own field when that field is set, and otherwise reports unsupported under its own name.
- **Builder:**
  - no manifest has both layers and index entries;
  - an index never has a config;
  - PushLayer always returns, and a failed read reaches its caller as an error;
  - PushLayer is all or nothing for the builder: a call that fails or panics (after Commit has stored the blob, on the nil annotations map, or on AddLayer's refusal) leaves the manifest as it was, and a successful one adds exactly one layer.

## 2. Plan

The modules were written in this order. `ImmutableFilter` EXTENDS `OciMem`: it composes the filter with the engine it wraps, and it INSTANCEs the abstract `ImmutableTagStore` with a refinement mapping. The other modules stand alone.

1. `OciMem`: the engine. Each operation is one atomic step, because it runs under `r.mu`. A chunked upload is a sequence of steps by a writer, and Commit splits into `BufferCommit` and `commitCallback`.
2. `ImmutableFilter`: filter clients whose pre-check, push and post-check are separate steps, over the `OciMem` state.
3. `Funcs`: the dispatch table.
4. `ImageBuilder`: the builder, with PushLayer step by step against a scripted reader and a writer that may fail.
5. `ImmutableTagStore` (second sitting): the abstract promise of a repository behind the filter. `ImmutableFilter` maps `tags[Repo]` and the digests of `manifests[Repo]` onto it, and `filter_immutable` checks its `Spec` as a PROPERTY.

Later work:

- **An abstract registry** (`Registry`): a map from repository to content-addressed stores, where PushManifest with tags is one atomic step. The goal is to show that `OciMem` refines it with an identity mapping on blobs, manifests and tags. That also requires an abstract step for every early return, and the ImmutableTags early return will make the refinement fail in exactly the case `engine_immutable_post` shows.
- **Server and client**, modelled from the specification (their code is not in this tree): the upload protocol over HTTP with Content-Range, and the referrers-API fallback to the referrers tag.

## 3. Modules and how they map to the code

`PROJECT.json` "map" gives the source lines behind every definition.

- **`OciMem`** (`src/unnamed/part_000` lines 497-727).
  - Variables: `repos`, `blobs`, `manifests`, `tags` and `uploads` are the engine's maps. `handle`, `wphase` and `woff` are each writer's view of the Buffer it holds; `woff` is a ghost offset. `last` is the outcome of the last call: its error code, or on success its digest and tags.
  - Each writer.go method is an action, and its guards follow the code's early returns in order. `PushManifest` has one disjunct per return. `stopsAt`, `VerifiedDigest` and `applyTags` are its tag-loop test, its digest check and its final store.
  - The Buffer methods, `makeRepo`, `CheckDescriptor`, `getManifestInfo` and the deletes are modelled from `spec.md`, because their code is not in this tree.
  - Data is abstracted:
    - a blob is a short sequence of chunk values;
    - `Digest` is collision-free;
    - a manifest document is a name, and `DocContent` gives its media type and descriptors.
- **`ImmutableFilter`** (`ocifilter/immutable.go`).
  - `pc`, `req` and `idx` are each client's position in `PushManifest`; `fres` is what the call returned; `granted` is the history of tags the filter accepted.
  - `FilterBegin` is the entry, which pushes at once when there are no tags. `FilterPreCheck` and `FilterPostCheck` are one loop iteration each. `FilterPush` calls the engine's `PushManifest` action.
- **`ImmutableTagStore`** (the doc comment of `ocifilter.Immutable`, and spec.md sections 4.3 and 5). `tagged` and `stored` are one repository's tags and manifest digests; `call[c]` is the tagged push client `c` has in progress and `reply[c]` what its last call returned. `Invoke` starts a call, `Push(desc, T)` stores a manifest and binds free tags to it (where a call takes effect), and `Return` ends a call with a reply that `Justified` allows in the current state: success only when every tag of the call names its digest, DENIED only when one names other content, a resolve failure only when one is unbound. `Untagged` is a push without tags, stored and answered in one step, and `Refuse` a delete. `ImmutableFilter` instantiates it with `tagged <- tags[Repo]`, `stored <- {d : manifests[Repo][d] # Nil}`, `call <- CallOf(c)` (the request while the client is in its pre-check, push or post-check) and `reply <- fres`.
- **`Funcs`** (`func.go`). `f` is the *Funcs value, chosen once in Init from all field combinations, nil included. `Call(m)` is the body every method shares, with the guard field, called field and error name taken from each method as written.
- **`ImageBuilder`** (`ocibuilder/*.go`).
  - `manifest` records which fields are set, plus layer and entry counts.
  - `lpc`, `reader`, `tries`, `hashed` and `written` are PushLayer's loop state. `bwNil` means PushBlobChunked's ignored error left `bw` nil.
  - `out` is the builder call's result: ok, error, or panic.
  - `PushLayerCommit` is Commit (which may fail), then `annotateThenAdd`: copying the annotations into the descriptor's nil map panics, and only a call without annotations reaches AddLayer.

## 4. Runs

| Run | Checks | Result |
|---|---|---|
| `engine_manifests` | TypeOK, ContentAddressed, PushManifestPost, RefersToIsReachability | pass, about 32k states. The inputs are 1 repo plus a bad name; documents M (an image with a config blob), A (subject M) and I (an index over A and M, so refersTo's loop must go past a child that is absent after a delete, or that does not hold the digest); and tag lists including a bad tag and two tags. |
| `engine_uploads` | TypeOK, ContentAddressed, WriteAtClaimedOffset | pass, about 1.0M states. 2 repos, 1 writer, 1 upload id, blobs up to 2 chunks, resume at any offset 0..2. |
| `engine_commit_race` | ContentAddressed | pass, about 45k states. 2 writers share the one upload id, so one can write, commit or cancel between the other's digest check and its store callback; the committed session refuses the data, and the blob stored is what was verified. |
| `engine_immutable_post` | PushManifestPost | **violation**. With ImmutableTags, pushing M with `<<"t1","bad!">>` after `t1` already names M returns success without ever looking at `bad!`. |
| `engine_upload_race` | WriteAtClaimedOffset | **violation**. w1 resumes u1 at offset 1, w2 resumes u1 at 0, and w1's chunk is accepted at offset 0. |
| `engine_upload_drop` | CommittedUploadsDropped | **violation**. After Commit returns, the session is still in `repo.uploads`. |
| `filter_immutable` | FilterTypeOK, GrantedTagsStay, ImplementsImmutableTagStore | pass, about 1.0M states. 2 clients push M or A as image or index, with tag lists `<<>>`, `<<t1>>` and `<<t1,t2>>`, over an ImmutableTags engine. The refinement holds: a client's FilterBegin with tags is an `Invoke`, every engine push one `ImmutableTagStore!Push`, the return of a tagged call a `Return` with a justified reply, an untagged push an `Untagged`, a delete a `Refuse`, and the pre- and post-check steps that do not return are stutters. |
| `filter_race` | GrantedTagsStay | **violation**. c1 pushes M to t1 and gets success. c2, which passed its pre-check earlier, then pushes A and also succeeds. t1 now names A. |
| `funcs_dispatch` | DispatchFaithful | **violation**. PushBlobChunkedResume reports unsupported under the name PushBlobChunked, or panics when only PushBlobChunked_ is set. |
| `builder` | TypeOK, NeverLayersAndEntries, PushLayerReturns, PushLayerAllOrNothing | pass. Up to 2 layers or entries. The readers end in EOF, one of them after a transient error. Write, Commit and PushBlobChunked may fail, and PushLayer may be given annotations. |
| `builder_index_config` | IndexHasNoConfig | **violation**. SetConfig, then AddManifest, gives an index with a config. |
| `builder_read_failure` | PushLayerReportsFailure | **violation**. With a reader that keeps failing, PushLayer loops forever; with one that fails once and then reports EOF, PushLayer commits the short layer and returns success. Either way the read error never reaches the caller. |

**Mutants.** Every property of a passing run has a mutant in `PROJECT.json`: a plausible bug in the code it is about, which TLC must catch.

- **Engine:**
  - a decoder that accepts any media type;
  - an unverified `params.Digest`;
  - PushBlob without CheckDescriptor;
  - a tag store that keeps existing tags;
  - refersTo that does not descend into subjects;
  - refersTo that returns at an absent child instead of going on to the next descriptor;
  - a Write that refuses only cancelled sessions, so a second writer adds data to a session whose digest has been checked (for the two-writer run);
  - NewBuffer keeping an empty id;
  - a resume that does not record the start offset.
- **Filter:**
  - an engine that ignores ImmutableTags (for GrantedTagsStay and for the refinement);
  - a pre-check that denies any tag already set, even to the same content (for the refinement: a DENIED reply the state does not justify);
  - a post-check that skips a tag it cannot resolve, as the pre-check loop does (for GrantedTagsStay);
  - an off-by-one in the tag loop.
- **Builder:**
  - an off-by-one in the retry loop;
  - AddLayer without its guard;
  - a read loop that ends on ErrUnexpectedEOF;
  - AddLayer called before the annotations are copied into the descriptor.

**Why the bounds are enough.**

- Every property here concerns at most two concurrent actors and at most two tags, chunks or items.
- Two writers on one session, two clients on one tag, and a second resume are the smallest cases that reach the races.
- One-chunk blobs keep the manifest run small. Two-chunk buffers in the upload run give writes at offsets 0 and 1, and a resume behind or ahead of the data.
- Together, the passing runs fire every action and every disjunct of their next-state relations. TLC's `-coverage` output confirms this.

**Fairness.**

- Only the two PushLayer liveness properties assume fairness: weak fairness on PushLayer's own steps.
- PushLayer runs in its caller's goroutine and keeps running once started.
- The filter has no liveness property: none of its steps waits, so under weak fairness each call would end after one step per tag and check, and a liveness property would hold by the shape of the steps.
- Nothing is assumed of the environment. A Write may fail any number of times, and the reader's results are given.

## 5. Not modelled

- **Reads** (GetBlob, ResolveTag and the rest): they do not change state. The filter reads tags directly.
- **The ociauth, ociclient and ociserver packages, and the error mapping**: only their tests are in this tree. What they do is parsing, HTTP conversion and helper execution.
- **Behaviours that are reached but not checked by a property.** A failed MountBlob or PushManifest still creates the target repository (writer.go line 570). Over an ImmutableTags engine, the filter fails a push whose first tag already names the same content, because the engine returns early without applying the rest (the post-check's refusal to report success there is checked; the spurious failure itself is the engine finding). A failed PushBlobChunked makes PushLayer panic on a nil writer (imagebuilder.go line 58); the builder run reaches the panic. `PROJECT.json` lists them as hazards, and says why they have no property of their own.
- **Annotation maps, artifact types and media-type strings**: these are reduced to the facts the properties distinguish.
- **The builder's Push**: it only marshals and forwards, and is an action that records `ok`.
