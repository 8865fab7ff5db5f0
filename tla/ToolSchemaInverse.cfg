\* An enum of two plain strings, required or optional.
SPECIFICATION Spec
CONSTANTS
    Fields <- PlainEnums
    Args <- MCArgs
INVARIANTS
    OfferedAsDescribed
