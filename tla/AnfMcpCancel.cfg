\* A signal while the client says nothing.
SPECIFICATION FairSpec
CONSTANTS
    Tools <- AnfTools
    Resources <- AnfResources
    Calls <- AnfCalls
    Outcome <- AnfOutcome
    ReadFails = {}
    MaxLines = 2
    KeyOrder <- MCKeyOrder
    Spaced <- MCSpaced
    MaxDepth = 2
    JsonValues <- FewValues
    Views <- FewViews
PROPERTIES
    StopsOnCancel
