-------------------------------- MODULE Funcs --------------------------------
(***************************************************************************)
(* ociregistry.Funcs (func.go): an Interface built from optional function  *)
(* fields.  Each method tests a field and, if it is set, calls a field;    *)
(* otherwise it returns newError(method name), which is f.NewError's error *)
(* when that hook is set and ErrUnsupported otherwise.  A *Funcs may be    *)
(* nil.  The value is fixed when the registry is built; clients then call  *)
(* its methods in any order.                                               *)
(***************************************************************************)
EXTENDS FiniteSets

CONSTANTS
    Methods,    \* the Interface methods (field m_ is named after method m)
    Nil

VARIABLES
    f,      \* the *Funcs: Nil, or [set: fields that are non-nil, newError]
    last    \* outcome of the most recent call

vars == <<f, last>>

FuncsValues == {Nil} \cup [set : SUBSET Methods, newError : BOOLEAN]

\* call: the field called; panic: a call through a nil field; err: the
\* method name the error carries and whether it came from NewError.
Outcomes == [kind : {"call"}, method : Methods, field : Methods]
    \cup [kind : {"panic"}, method : Methods]
    \cup [kind : {"err"}, method : Methods, name : Methods, custom : BOOLEAN]
    \cup {Nil}

TypeOK == f \in FuncsValues /\ last \in Outcomes

\* Each method's guard field, called field and error name, as written.
\* PushBlobChunkedResume tests PushBlobChunked_ and names "PushBlobChunked".
GuardField(m) == IF m = "PushBlobChunkedResume" THEN "PushBlobChunked" ELSE m
CalledField(m) == m
ErrName(m) == IF m = "PushBlobChunkedResume" THEN "PushBlobChunked" ELSE m

\* newError: the NewError hook when f and the hook are non-nil, else
\* fmt.Errorf("%s: %w", methodName, ErrUnsupported).
newError(m) ==
    last' = [kind |-> "err", method |-> m, name |-> ErrName(m),
             custom |-> f # Nil /\ f.newError]

\* A method: if f != nil && f.<guard> != nil, return f.<called>(...).
Call(m) ==
    /\ \/ /\ f # Nil /\ GuardField(m) \in f.set
          /\ CalledField(m) \in f.set
          /\ last' = [kind |-> "call", method |-> m, field |-> CalledField(m)]
       \/ /\ f # Nil /\ GuardField(m) \in f.set
          /\ CalledField(m) \notin f.set
          /\ last' = [kind |-> "panic", method |-> m]
       \/ /\ f = Nil \/ (f # Nil /\ GuardField(m) \notin f.set)
          /\ newError(m)
    /\ UNCHANGED f

Init == f \in FuncsValues /\ last = Nil

Next == \E m \in Methods : Call(m)

Spec == Init /\ [][Next]_vars

-----------------------------------------------------------------------------
(***************************************************************************)
(* The documented contract: a method calls its own field exactly when that *)
(* field is set, never panics, and otherwise returns the unsupported error *)
(* naming that same method.                                                *)
(***************************************************************************)
DispatchFaithful ==
    last # Nil =>
        IF f # Nil /\ last.method \in f.set
        THEN last.kind = "call" /\ last.field = last.method
        ELSE last.kind = "err" /\ last.name = last.method
=============================================================================
