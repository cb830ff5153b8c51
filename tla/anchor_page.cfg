\* Two digests, Sigsum and a timestamp authority, batches of up to two items,
\* two waits at a time, four acts of the user or the agent.
CONSTANTS
    h1 = h1
    h2 = h2
    Hash <- Two
    Auth = {sigsum, tsa}
    Sigsum = sigsum
    DefaultOn = {sigsum, tsa}
    None = None
    Jobs = 2
    BatchMax = 2
    Prepared <- Pasted
    Patience = 4
SPECIFICATION FairSpec
INVARIANTS
    TypeOK
    OneHashPerReceipt
    ReceiptsMatchThePage
    StampedIsOnThePage
PROPERTIES
    PageComesBack
\* When the user has run out of acts the page is at rest.
CHECK_DEADLOCK FALSE
