------------------------- MODULE MC_ImmutableFilter -------------------------
(***************************************************************************)
(* Two clients racing filter pushes of two manifests to the same tags.     *)
(* "M" names a config blob nobody uploads, so only an engine with          *)
(* LaxChildReferences accepts it; "A" has M as its subject.                *)
(***************************************************************************)
EXTENDS ImmutableFilter

MCChunks == {"x"}

MCDocContent ==
    [m \in {"M", "A"} |->
        IF m = "M"
        THEN [mt |-> ImageMT,
              refs |-> {[kind |-> "blob", digest |-> Digest(<<"x">>), mt |-> "config"]}]
        ELSE [mt |-> ImageMT,
              refs |-> {[kind |-> "subject", digest |-> ManifestDigest("M"), mt |-> ImageMT]}]]

MCPushTags == {<<>>, <<"t1">>, <<"t1", "t2">>}

==============================================================================
