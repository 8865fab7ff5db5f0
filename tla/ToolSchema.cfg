\* Every kind of parameter, by way of the bridge and of an adapter.
SPECIFICATION Spec
CONSTANTS
    Fields <- MCFields
    Args <- MCArgs
INVARIANTS
    TypeOK
    FittingCallAccepted
    NothingForbidden
