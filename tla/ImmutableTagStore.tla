-------------------------- MODULE ImmutableTagStore --------------------------
(***************************************************************************)
(* The abstract promise of one repository behind ocifilter.Immutable       *)
(* ("only allows content to be added but not changed once added: nothing   *)
(* can be deleted and tags can't be changed"), with the engine's promise   *)
(* of spec.md sections 4.3 and 5: a manifest push stores the manifest and  *)
(* applies its tags in one atomic step.  A tag is bound at most once, and  *)
(* only to a manifest stored in the same step; nothing is ever removed.    *)
(*                                                                         *)
(* Each client's tagged PushManifest is a call: it is invoked, takes       *)
(* effect (at most) once as a Push, and returns a reply the state then     *)
(* justifies.  An untagged push is one step: it stores and replies.        *)
(***************************************************************************)
CONSTANTS
    Clients,    \* callers
    Tags,       \* tag names
    Descs,      \* manifest descriptors: [digest, mt]
    Errors,     \* the other errors a push may return (bad name, manifest...)
    Nil

VARIABLES
    tagged,     \* tagged[t]: the descriptor tag t names, or Nil
    stored,     \* digests of the manifests the repository holds
    call,       \* call[c]: the tagged push c has in progress, or Nil
    reply       \* reply[c]: what c's last call returned

vars == <<tagged, stored, call, reply>>

Requests == [desc : Descs, tags : SUBSET Tags \ {{}}]

TypeOK ==
    /\ tagged \in [Tags -> Descs \cup {Nil}]
    /\ stored \subseteq {d.digest : d \in Descs}
    /\ call \in [Clients -> Requests \cup {Nil}]
    /\ reply \in [Clients -> {"ok", "Denied", "ResolveFailed", Nil} \cup Errors]

Init ==
    /\ tagged = [t \in Tags |-> Nil] /\ stored = {}
    /\ call = [c \in Clients |-> Nil] /\ reply = [c \in Clients |-> Nil]

\* Store the manifest desc names and point the free tags T at it.
Push(desc, T) ==
    /\ \A t \in T : tagged[t] = Nil
    /\ stored' = stored \cup {desc.digest}
    /\ tagged' = [t \in Tags |-> IF t \in T THEN desc ELSE tagged[t]]
    /\ UNCHANGED <<call, reply>>

Invoke(c, rq) ==
    /\ call[c] = Nil
    /\ call' = [call EXCEPT ![c] = rq]
    /\ UNCHANGED <<tagged, stored, reply>>

\* The replies the current state justifies for request rq: success when
\* every tag names its content; DENIED when a tag names something else;
\* a resolve failure when a tag names nothing; any other error.
Justified(rq, r) ==
    \/ /\ r = "ok"
       /\ rq.desc.digest \in stored
       /\ \A t \in rq.tags : tagged[t] # Nil /\ tagged[t].digest = rq.desc.digest
    \/ r = "Denied" /\ \E t \in rq.tags : tagged[t] \notin {Nil, rq.desc}
    \/ r = "ResolveFailed" /\ \E t \in rq.tags : tagged[t] = Nil
    \/ r \in Errors

Return(c, r) ==
    /\ call[c] # Nil
    /\ Justified(call[c], r)
    /\ call' = [call EXCEPT ![c] = Nil]
    /\ reply' = [reply EXCEPT ![c] = r]
    /\ UNCHANGED <<tagged, stored>>

\* A push without tags: stored and answered in one step.
Untagged(c, desc, r) ==
    /\ call[c] = Nil
    /\ \/ r = "ok" /\ stored' = stored \cup {desc.digest}
       \/ r \in Errors /\ UNCHANGED stored
    /\ reply' = [reply EXCEPT ![c] = r]
    /\ UNCHANGED <<tagged, call>>

\* Deletes are refused.
Refuse(c) ==
    /\ call[c] = Nil
    /\ reply' = [reply EXCEPT ![c] = "Denied"]
    /\ UNCHANGED <<tagged, stored, call>>

Next ==
    \/ \E desc \in Descs, T \in SUBSET Tags : Push(desc, T)
    \/ \E c \in Clients :
          \/ \E rq \in Requests : Invoke(c, rq)
          \/ \E r \in {"ok", "Denied", "ResolveFailed"} \cup Errors : Return(c, r)
          \/ \E desc \in Descs, r \in {"ok"} \cup Errors : Untagged(c, desc, r)
          \/ Refuse(c)

Spec == Init /\ [][Next]_vars
=============================================================================
