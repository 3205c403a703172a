------------------------------ MODULE MC_OciMem ------------------------------
(***************************************************************************)
(* Instantiates OciMem for TLC: a one-chunk config blob B1, an image       *)
(* manifest "M" whose config is B1, an artifact "A" whose subject is M,    *)
(* and an index "I" over A and M: with two descriptors, refersTo must go  *)
(* on past a child that is absent (deleted) or does not contain the digest.*)
(***************************************************************************)
EXTENDS OciMem

MCChunks == {"x"}
B1 == <<"x">>

MCDocContent ==
    [m \in {"M", "A", "I"} |->
        CASE m = "M" -> [mt |-> ImageMT,
                         refs |-> {[kind |-> "blob", digest |-> Digest(B1), mt |-> "config"]}]
          [] m = "A" -> [mt |-> ImageMT,
                         refs |-> {[kind |-> "subject", digest |-> ManifestDigest("M"), mt |-> ImageMT]}]
          [] m = "I" -> [mt |-> IndexMT,
                         refs |-> {[kind |-> "manifest", digest |-> ManifestDigest("A"), mt |-> ImageMT],
                                   [kind |-> "manifest", digest |-> ManifestDigest("M"), mt |-> ImageMT]}]]

\* no manifests: the upload and mount runs
NoDocContent == [m \in {} |-> Nil]

MCTagLists == {<<>>, <<"t1">>, <<"t2", "t1">>, <<"t1", "bad!">>}
=============================================================================
