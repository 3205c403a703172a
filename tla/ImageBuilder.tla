----------------------------- MODULE ImageBuilder -----------------------------
(***************************************************************************)
(* ocibuilder.ImageBuilder (imagebuilder.go): a manifest under construction *)
(* and the calls that change it, including PushLayer, which streams a      *)
(* reader into a chunked upload and is modelled step by step: read a chunk *)
(* (io.ReadFull), hash it, write it with up to three tries, and at EOF     *)
(* commit and add the layer.  The registry's writer and the reader are     *)
(* the environment: a Write may fail, a reader yields a script of results. *)
(* Manifest contents are abstracted to which fields are set and how many   *)
(* layers and manifests there are.                                         *)
(***************************************************************************)
EXTENDS Naturals, Sequences

CONSTANTS
    MaxItems,       \* bound: layers / index entries a builder holds
    ReaderScripts,  \* what PushLayer's reader returns, call by call
    WriteFails,     \* whether BlobWriter.Write and Commit may fail
    StartFails,     \* whether PushBlobChunked may fail
    Nil

\* One io.ReadFull result: a full chunk; a short last chunk
\* (ErrUnexpectedEOF); EOF; or another error with nothing read.
ReadResults == {"full", "short", "eof", "err"}

\* A script ends in the result the reader then keeps returning: EOF or an error.
ASSUME /\ ReaderScripts \subseteq Seq(ReadResults)
       /\ \A s \in ReaderScripts : s # <<>> /\ s[Len(s)] \in {"eof", "err"}

ImageMT == "image"
IndexMT == "index"

VARIABLES
    manifest,   \* ib.manifest: media type, config set, #layers, #manifests
    lpc,        \* where PushLayer is: "idle", "read", "write", "commit"
    reader,     \* the reader's remaining results; the last one repeats
    bwNil,      \* PushBlobChunked failed and bw is nil
    tries,      \* writes tried for the current chunk
    hashed,     \* chunks written to the digester
    written,    \* chunks the BlobWriter accepted
    annotated,  \* PushLayer was given a non-empty annotations map
    readFailed, \* ghost: a read of the current (or last) PushLayer call failed
    out         \* what the last builder call returned

vars == <<manifest, lpc, reader, bwNil, tries, hashed, written, annotated, readFailed, out>>

Manifests == [mt : {ImageMT, IndexMT}, config : BOOLEAN, layers : 0..MaxItems,
              manifests : 0..MaxItems, subject : BOOLEAN, artifactType : BOOLEAN]

TypeOK ==
    /\ manifest \in Manifests
    /\ lpc \in {"idle", "read", "write", "commit"}
    /\ reader \in Seq(ReadResults)
    /\ bwNil \in BOOLEAN /\ annotated \in BOOLEAN /\ readFailed \in BOOLEAN
    /\ tries \in 0..3
    /\ hashed \in Nat /\ written \in Nat
    /\ out \in {"ok", "error", "panic", Nil}

\* New: an image manifest (schema 2) with nothing set.
Init ==
    /\ manifest = [mt |-> ImageMT, config |-> FALSE, layers |-> 0, manifests |-> 0,
                   subject |-> FALSE, artifactType |-> FALSE]
    /\ lpc = "idle"
    /\ reader = <<>>
    /\ bwNil = FALSE /\ annotated = FALSE /\ readFailed = FALSE
    /\ tries = 0 /\ hashed = 0 /\ written = 0
    /\ out = Nil

Idle == lpc = "idle"
layerVars == <<lpc, reader, bwNil, tries, hashed, written, annotated, readFailed>>

SetArtifactType ==
    /\ Idle
    /\ manifest' = [manifest EXCEPT !.artifactType = TRUE]
    /\ out' = "ok"
    /\ UNCHANGED layerVars

SetSubject ==
    /\ Idle
    /\ manifest' = [manifest EXCEPT !.subject = TRUE]
    /\ out' = "ok"
    /\ UNCHANGED layerVars

\* SetConfig: refused on an index that already has entries.
SetConfig ==
    /\ Idle
    /\ \/ manifest.manifests > 0 /\ out' = "error" /\ UNCHANGED manifest
       \/ /\ manifest.manifests = 0
          /\ manifest' = [manifest EXCEPT !.config = TRUE]
          /\ out' = "ok"
    /\ UNCHANGED layerVars

\* Mutant: AddLayer that does not look at the index entries.
appendLayerUnchecked ==
    /\ manifest.layers < MaxItems
    /\ manifest' = [manifest EXCEPT !.layers = @ + 1]
    /\ out' = "ok"

\* The body of AddLayer: refused once the manifest has index entries.
appendLayer ==
    \/ manifest.manifests > 0 /\ out' = "error" /\ UNCHANGED manifest
    \/ /\ manifest.manifests = 0
       /\ manifest.layers < MaxItems
       /\ manifest' = [manifest EXCEPT !.layers = @ + 1]
       /\ out' = "ok"

AddLayer == Idle /\ appendLayer /\ UNCHANGED layerVars

\* AddManifest: refused once there are layers; otherwise the manifest
\* becomes an index and gains an entry.  The config is not looked at.
AddManifest ==
    /\ Idle
    /\ \/ manifest.layers > 0 /\ out' = "error" /\ UNCHANGED manifest
       \/ /\ manifest.layers = 0
          /\ manifest.manifests < MaxItems
          /\ manifest' = [manifest EXCEPT !.mt = IndexMT, !.manifests = @ + 1]
          /\ out' = "ok"
    /\ UNCHANGED layerVars

\* AddAnnotation writes into ib.manifest.Annotations, a map nothing makes.
AddAnnotation ==
    /\ Idle
    /\ out' = "panic"
    /\ UNCHANGED <<manifest, layerVars>>

\* Push: marshal the manifest and push it under its media type.
Push ==
    /\ Idle
    /\ out' = "ok"
    /\ UNCHANGED <<manifest, layerVars>>

-----------------------------------------------------------------------------
(* PushLayer, one loop step at a time.                                     *)

\* Entry: PushBlobChunked, its error discarded (bw, _ :=).
PushLayerStart(script, ann) ==
    /\ Idle
    /\ manifest.layers < MaxItems     \* bound: room for the layer it adds
    /\ lpc' = "read"
    /\ reader' = script
    /\ bwNil' \in IF StartFails THEN BOOLEAN ELSE {FALSE}
    /\ annotated' = ann /\ readFailed' = FALSE
    /\ tries' = 0 /\ hashed' = 0 /\ written' = 0
    /\ UNCHANGED <<manifest, out>>

\* The reader's next result; once its script is used up it repeats it.
NextRead == Head(reader)
ReaderAfter == IF Len(reader) > 1 THEN Tail(reader) ELSE reader

\* Mutant: the loop ends on ErrUnexpectedEOF instead of on EOF.
endOfInputShort(r) == r = "short"

\* if err == io.EOF { break }
endOfInput(r) == r = "eof"

\* n, err := io.ReadFull(reader, buf): EOF leaves the loop; anything else,
\* a read error with nothing read included, is hashed (n bytes) and goes on
\* to the write loop.
PushLayerRead ==
    /\ lpc = "read"
    /\ reader' = ReaderAfter
    /\ \/ /\ endOfInput(NextRead)
          /\ lpc' = "commit"
          /\ UNCHANGED <<hashed, readFailed>>
       \/ /\ ~endOfInput(NextRead) /\ NextRead \in {"full", "short"}
          /\ hashed' = hashed + 1
          /\ lpc' = "write"
          /\ UNCHANGED readFailed
       \/ /\ ~endOfInput(NextRead) /\ NextRead \in {"eof", "err"}
          /\ lpc' = "write"
          /\ readFailed' = (readFailed \/ NextRead = "err")
          /\ UNCHANGED hashed
    /\ tries' = 0
    /\ UNCHANGED <<manifest, bwNil, written, annotated, out>>

\* Mutant: the retry loop runs while i <= 3.
retryAgainOffByOne(k) == k <= 3

\* for i := 0; i < 3; i++: another try after k failed ones.
retryAgain(k) == k < 3

\* _, err = bw.Write(buf[:n]): the write's error replaces the read's.  A
\* success leaves the retry loop; a failure is retried while i < 3, then
\* returned.  Through a nil bw the call panics.
PushLayerWrite ==
    LET n == hashed - written IN
    /\ lpc = "write"
    /\ \/ /\ bwNil
          /\ out' = "panic" /\ lpc' = "idle"
          /\ UNCHANGED <<tries, written>>
       \/ /\ ~bwNil
          /\ written' = written + n
          /\ lpc' = "read"
          /\ UNCHANGED <<tries, out>>
       \/ /\ ~bwNil /\ WriteFails
          /\ tries' = tries + 1
          /\ \/ retryAgain(tries + 1) /\ UNCHANGED <<lpc, out>>
             \/ ~retryAgain(tries + 1) /\ lpc' = "idle" /\ out' = "error"
          /\ UNCHANGED written
    /\ UNCHANGED <<manifest, reader, bwNil, hashed, annotated, readFailed>>

\* Mutant: AddLayer(desc) runs before the annotations are copied into desc.
addThenAnnotate ==
    \/ annotated /\ manifest.manifests > 0 /\ out' = "error" /\ UNCHANGED manifest
    \/ /\ annotated /\ manifest.manifests = 0
       /\ manifest' = [manifest EXCEPT !.layers = @ + 1]
       /\ out' = "panic"
    \/ ~annotated /\ appendLayer

\* desc.Annotations[k] = v for each annotation (desc.Annotations is a nil
\* map: a panic), then return ib.AddLayer(desc).
annotateThenAdd ==
    \/ annotated /\ out' = "panic" /\ UNCHANGED manifest
    \/ ~annotated /\ appendLayer

\* desc, err := bw.Commit(digest of what was hashed): through a nil bw a
\* panic; an error is returned; otherwise annotate and add the layer.
PushLayerCommit ==
    /\ lpc = "commit"
    /\ lpc' = "idle"
    /\ \/ bwNil /\ out' = "panic" /\ UNCHANGED manifest
       \/ ~bwNil /\ WriteFails /\ out' = "error" /\ UNCHANGED manifest
       \/ ~bwNil /\ annotateThenAdd
    /\ UNCHANGED <<reader, bwNil, tries, hashed, written, annotated, readFailed>>

Next ==
    \/ SetArtifactType \/ SetSubject \/ SetConfig \/ AddLayer \/ AddManifest
    \/ AddAnnotation \/ Push
    \/ \E s \in ReaderScripts, a \in BOOLEAN : PushLayerStart(s, a)
    \/ PushLayerRead \/ PushLayerWrite \/ PushLayerCommit

Spec == Init /\ [][Next]_vars

\* PushLayer runs in the caller's goroutine: once started it keeps taking
\* steps.  Nothing is assumed of the reader or of Write's outcomes.
FairSpec == Spec /\ WF_vars(PushLayerRead \/ PushLayerWrite \/ PushLayerCommit)

-----------------------------------------------------------------------------
(***************************************************************************)
(* The builder's guards keep an image and an index apart: SetConfig and    *)
(* AddLayer refuse an index with entries, AddManifest refuses a manifest   *)
(* with layers, so no manifest ever has both layers and index entries,     *)
(* whichever order the calls (PushLayer's final AddLayer included) come in.*)
(***************************************************************************)
NeverLayersAndEntries == ~(manifest.layers > 0 /\ manifest.manifests > 0)

(***************************************************************************)
(* What SetConfig's guard and manifest.go's TODO ("if index, make sure it  *)
(* has manifests instead of layers") intend: an index has no config.       *)
(***************************************************************************)
IndexHasNoConfig == manifest.mt = IndexMT => ~manifest.config

(***************************************************************************)
(* Every PushLayer call returns: the read loop reaches EOF or an error     *)
(* return, and each chunk's write loop ends within three tries.  A panic   *)
(* on a nil writer or on the annotations map also ends the call.           *)
(***************************************************************************)
PushLayerReturns == lpc # "idle" ~> lpc = "idle"

(***************************************************************************)
(* PushLayer is all or nothing for the builder: a call that ends in        *)
(* anything but success (a write given up after three tries, a failed      *)
(* Commit, a panic on a nil writer or on the annotations map, AddLayer's   *)
(* refusal) leaves ib.manifest as it was, and a successful one adds exactly *)
(* one layer.  The Commit has by then stored the blob, so only the order   *)
(* of Commit, annotations and AddLayer keeps the builder consistent.       *)
(***************************************************************************)
PushLayerAllOrNothing ==
    [][lpc # "idle" /\ lpc' = "idle" =>
         IF out' = "ok" THEN manifest' = [manifest EXCEPT !.layers = @ + 1]
                        ELSE manifest' = manifest]_vars

(***************************************************************************)
(* A reader failure reaches PushLayer's caller: once a read of the call    *)
(* has failed (io.ReadFull returned an error other than EOF), the call     *)
(* eventually returns, and not with success, so the caller never takes a   *)
(* layer cut short by its reader for a complete one.                       *)
(***************************************************************************)
PushLayerReportsFailure == readFailed ~> (lpc = "idle" /\ out # "ok")
=============================================================================
