------------------------------- MODULE MC_Funcs -------------------------------
(* Four methods, the chunked pair among them, and every Funcs value.       *)
EXTENDS Funcs

MCMethods == {"PushBlob", "PushBlobChunked", "PushBlobChunkedResume", "MountBlob"}
==============================================================================
