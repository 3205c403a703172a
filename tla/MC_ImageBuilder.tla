---------------------------- MODULE MC_ImageBuilder ----------------------------
(***************************************************************************)
(* Readers for PushLayer: a full chunk then a short last one then EOF; a   *)
(* read error between two chunks; EOF at once; and a reader whose error    *)
(* persists (a closed connection).                                         *)
(***************************************************************************)
EXTENDS ImageBuilder

GoodReaders == {<<"full", "short", "eof">>, <<"eof">>}
TransientError == {<<"full", "err", "eof">>}   \* the error is dropped
PersistentError == {<<"full", "err">>}
AllEndingReaders == GoodReaders \cup TransientError
FailingReaders == TransientError \cup PersistentError
===============================================================================
