SPECIFICATION FairSpec
CONSTANTS
    A = A  B = B  C = C  D = D  a = a  b = b  t1 = t1  t2 = t2
    NoName = NoName
    Blank = Blank
    NumSources = 3
    RawNames = {A, B, C, D}
    Names = {a, b}
    SafeName <- Folded
    Kinds = {"stdio", "http", "unsupported"}
    ToolNames = {t1, t2}
    Descriptors <- Lists
INVARIANTS TypeOK SoleRoutedToProvider SoleChildrenReaped
PROPERTIES ComesToServe
