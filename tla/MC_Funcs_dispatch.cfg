CONSTANTS
    Methods <- MCMethods
    Nil = Nil
SPECIFICATION Spec
INVARIANT DispatchFaithful
