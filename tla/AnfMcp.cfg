\* Sessions of two pipelined lines with every kind of line, value and view: writers
\* that break or hang, signals.
SPECIFICATION FairSpec
CONSTANTS
    Tools <- AnfTools
    Resources <- AnfResources
    Calls <- AnfCalls
    Outcome <- AnfOutcome
    ReadFails = {}
    MaxLines = 2
    KeyOrder <- MCKeyOrder
    Spaced <- MCSpaced
    MaxDepth = 2
    JsonValues <- MCJsonValues
    Views <- MCViews
INVARIANTS
    TypeOK
    OrderedWithoutGap
    NoFactDropped
    RefusedByDepth
    TextTellsObjectsApart
    HealthIsTold
    ReferencesResolve
PROPERTIES
    AllAnswered
    StopsWhenWoken
