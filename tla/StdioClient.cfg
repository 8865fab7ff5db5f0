\* Two overlapping calls, pipes of one line, an unsolicited line.
SPECIFICATION FairSpec
CONSTANTS
    Calls = {c1, c2}
    NoCall = NoCall
    PipeCap = 1
    MaxNoise = 1
INVARIANTS TypeOK OwnAnswer NoLossBeforeTimeout RequestsInIdOrder
PROPERTIES ImplementsExchange CallReturns
