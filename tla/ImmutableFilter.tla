--------------------------- MODULE ImmutableFilter ---------------------------
(***************************************************************************)
(* ocifilter.Immutable wrapped around the in-memory engine, used by        *)
(* several clients at once.  The filter's PushManifest is not atomic: it   *)
(* resolves each requested tag (one engine call each), pushes (one engine  *)
(* call), then resolves each tag again to see whether it lost a race.      *)
(* Other clients' calls interleave between any two of these steps.  The    *)
(* filter's deletes are refused outright.                                  *)
(***************************************************************************)
EXTENDS OciMem

CONSTANTS
    Clients,    \* concurrent callers of the filter
    Repo,       \* the repository they push to
    PushDocs,   \* the manifests they push
    PushTags    \* the Tags lists they send (non-empty and empty)

ASSUME Repo \in Repos /\ PushDocs \subseteq Docs

VARIABLES
    pc,         \* pc[c]: "idle", "pre", "push", "post"
    req,        \* req[c]: the request [doc, mt, tl] in progress
    idx,        \* idx[c]: the tag the pre- or post-check loop is at
    fres,       \* fres[c]: what c's last filter call returned
    granted     \* history: [tag, digest] of every tag push the filter accepted

filterVars == <<pc, req, idx, fres, granted>>
allVars == <<vars, filterVars>>

Requests == [doc : PushDocs, mt : KnownMTs, tl : PushTags]

FilterTypeOK ==
    /\ TypeOK
    /\ pc \in [Clients -> {"idle", "pre", "push", "post"}]
    /\ req \in [Clients -> Requests \cup {Nil}]
    /\ idx \in [Clients -> Nat]
    /\ \A c \in Clients :
          pc[c] \in {"pre", "push", "post"} =>
              req[c] \in Requests /\ idx[c] \in 1..Len(req[c].tl)
    /\ fres \in [Clients -> Errs \cup {"ResolveFailed", Nil}]
    /\ granted \subseteq [tag : ValidTags, digest : AllDigests]

FilterInit ==
    /\ Init
    /\ pc = [c \in Clients |-> "idle"]
    /\ req = [c \in Clients |-> Nil]
    /\ idx = [c \in Clients |-> 1]
    /\ fres = [c \in Clients |-> Nil]
    /\ granted = {}

\* dig: the digest the filter expects (params.Digest is never set here).
Dig(c) == ManifestDigest(req[c].doc)
TagAt(c) == req[c].tl[idx[c]]

Finish(c, err) ==
    /\ pc' = [pc EXCEPT ![c] = "idle"]
    /\ fres' = [fres EXCEPT ![c] = err]
    /\ req' = [req EXCEPT ![c] = Nil]

\* Mutant: the range loop's last iteration taken one tag too late.
LastTagOffByOne(c) == idx[c] = Len(req[c].tl) + 1

\* The range loop over the tags is at its last tag.
LastTag(c) == idx[c] = Len(req[c].tl)

\* "We lost the race": the post-check returns ErrDenied.
LostRace(c) == Finish(c, "Denied")

\* The engine's PushManifest as the filter calls it.
EnginePush(c) == PushManifest(Repo, req[c].doc, req[c].mt, Nil, req[c].tl)

(***************************************************************************)
(* immutable.PushManifest entry: with no tags, the call goes straight to   *)
(* the engine; otherwise the pre-check loop starts.                        *)
(***************************************************************************)
FilterBegin(c, r) ==
    /\ pc[c] = "idle"
    /\ \/ /\ r.tl = <<>>
          /\ PushManifest(Repo, r.doc, r.mt, Nil, r.tl)
          /\ fres' = [fres EXCEPT ![c] = last'.err]
          /\ UNCHANGED <<pc, req, idx, granted>>
       \/ /\ r.tl # <<>>
          /\ req' = [req EXCEPT ![c] = r]
          /\ pc' = [pc EXCEPT ![c] = "pre"]
          /\ idx' = [idx EXCEPT ![c] = 1]
          /\ UNCHANGED <<vars, fres, granted>>

\* Mutant: the pre-check denies any tag that is already set.
conflictsAnySet(c, cur) == cur # Nil

\* ResolveTag succeeded and the tag names other content than dig.
conflicts(c, cur) == cur # Nil /\ cur.digest # Dig(c)

\* One pre-check: ResolveTag; a tag naming other content means DENIED, a
\* missing tag or one with the same digest lets the loop go on.
FilterPreCheck(c) ==
    LET cur == tags[Repo][TagAt(c)] IN
    /\ pc[c] = "pre"
    /\ \/ /\ conflicts(c, cur)
          /\ Finish(c, "Denied")
          /\ UNCHANGED <<idx, granted>>
       \/ /\ ~conflicts(c, cur)
          /\ IF LastTag(c)
             THEN pc' = [pc EXCEPT ![c] = "push"] /\ idx' = [idx EXCEPT ![c] = 1]
             ELSE pc' = pc /\ idx' = [idx EXCEPT ![c] = @ + 1]
          /\ UNCHANGED <<req, fres, granted>>
    /\ UNCHANGED vars

\* The wrapped engine's PushManifest; an error is returned as is.
FilterPush(c) ==
    /\ pc[c] = "push"
    /\ EnginePush(c)
    /\ \/ /\ last'.err # "ok"
          /\ Finish(c, last'.err)
       \/ /\ last'.err = "ok"
          /\ pc' = [pc EXCEPT ![c] = "post"]
          /\ UNCHANGED <<req, fres>>
    /\ UNCHANGED <<idx, granted>>

\* Mutant: the post-check skips a tag it cannot resolve, as the pre-check does.
matchesUnlessMissing(c, cur) == cur = Nil \/ (cur # Nil /\ cur.digest = Dig(c))

\* The tag just pushed resolves, to dig.
matches(c, cur) == cur # Nil /\ cur.digest = Dig(c)

\* One post-check: the tag just pushed must resolve, and to dig, or the
\* filter decides it lost a race and returns DENIED.
FilterPostCheck(c) ==
    LET cur == tags[Repo][TagAt(c)] IN
    /\ pc[c] = "post"
    /\ \/ /\ cur = Nil
          /\ Finish(c, "ResolveFailed")
          /\ UNCHANGED <<idx, granted>>
       \/ /\ conflicts(c, cur)
          /\ LostRace(c)
          /\ UNCHANGED <<idx, granted>>
       \/ /\ matches(c, cur)
          /\ ~LastTag(c)
          /\ idx' = [idx EXCEPT ![c] = @ + 1]
          /\ UNCHANGED <<pc, req, fres, granted>>
       \/ /\ matches(c, cur)
          /\ LastTag(c)
          /\ Finish(c, "ok")
          /\ granted' = granted \cup
                {[tag |-> req[c].tl[k], digest |-> Dig(c)] : k \in 1..Len(req[c].tl)}
          /\ UNCHANGED idx
    /\ UNCHANGED vars

\* DeleteBlob, DeleteManifest and DeleteTag: always ErrDenied.
FilterDelete(c) ==
    /\ pc[c] = "idle"
    /\ fres' = [fres EXCEPT ![c] = "Denied"]
    /\ UNCHANGED <<vars, pc, req, idx, granted>>

FilterNext ==
    \E c \in Clients :
        \/ \E r \in Requests : FilterBegin(c, r)
        \/ FilterPreCheck(c)
        \/ FilterPush(c)
        \/ FilterPostCheck(c)
        \/ FilterDelete(c)

FilterSpec == FilterInit /\ [][FilterNext]_allVars

-----------------------------------------------------------------------------
(***************************************************************************)
(* The filter's promise (immutable.go: "tags can't be changed"): once a    *)
(* filter PushManifest has returned success for a tag, that tag names the  *)
(* pushed digest from then on.                                             *)
(***************************************************************************)
GrantedTagsStay ==
    \A g \in granted :
        tags[Repo][g.tag] # Nil /\ tags[Repo][g.tag].digest = g.digest

(***************************************************************************)
(* The filter over an ImmutableTags engine implements ImmutableTagStore:   *)
(* however the clients' pre-checks, pushes and post-checks interleave, the *)
(* repository only ever gains manifests; each engine PushManifest stores   *)
(* its manifest and binds only tags that were free, in one step, so no tag *)
(* is ever repointed; and every reply a filter call returns is one the     *)
(* repository's state justifies at the moment it is returned (success only *)
(* when all its tags name its digest, DENIED only when one names other     *)
(* content).  The engine's push is where a tagged call takes effect.       *)
(***************************************************************************)
CallOf(c) ==
    IF pc[c] = "idle" THEN Nil
    ELSE [desc |-> [digest |-> Dig(c), mt |-> req[c].mt],
          tags |-> {req[c].tl[i] : i \in DOMAIN req[c].tl}]

TagStore == INSTANCE ImmutableTagStore
    WITH Tags <- ValidTags, tagged <- tags[Repo],
         stored <- {d \in AllDigests : manifests[Repo][d] # Nil},
         call <- [c \in Clients |-> CallOf(c)], reply <- fres,
         Errors <- Errs \ {"ok", "Denied"}

ImplementsImmutableTagStore == TagStore!Spec

=============================================================================
