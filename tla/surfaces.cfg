SPECIFICATION Spec
CONSTANTS
    c1 = c1
    c2 = c2
    w1 = w1
    w2 = w2
    w3 = w3
    h1 = h1
    h2 = h2
    h3 = h3
    None = None
    Call = {c1, c2}
    Witness = {w1, w2, w3}
    Quorum = {w1, w2}
    Hash = {h1}
    Limit = 1
    Acts = 2
    Request <- MCRequest
    Probe <- MCProbe
    File <- MCFile
    Upgrade <- MCUpgrade
INVARIANT TypeOK
INVARIANT ServedUnderItsEra
INVARIANT ToolsAnswerWhatTheyHeard
INVARIANT SurfacesAgree
INVARIANT SurfacesTellLess
INVARIANT CardsTellOneFile
CHECK_DEADLOCK FALSE
