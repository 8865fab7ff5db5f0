SPECIFICATION Spec
CONSTANTS
    Calls = {c1, c2}
    NoCall = NoCall
    PipeCap = 2
    MaxNoise = 0
INVARIANTS NoAnswerLost
