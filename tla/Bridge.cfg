\* Sessions of four pipelined requests.
SPECIFICATION FairSpec
CONSTANTS
    t1 = t1  t2 = t2  t3 = t3  t4 = t4
    a = a  b = b  c = c  d = d
    Tools = {t1, t2, t3, t4}
    Caps = {a, b, c, d}
    CapsOf <- MCCapsOf
    OptWindowSize = 2
    OptNarrowThreshold = 2
    UnknownTool = UnknownTool
    HasForwarder = TRUE
    Unnumbered <- MCUnnumbered
    MaxRequests = 4
INVARIANTS TypeOK CalledToolListed ViewSizeInStep OneResponseEach
PROPERTIES WidensOnlyForCall EveryRequestAnswered
