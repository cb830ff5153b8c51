\* Every batch of up to four hashes, repeated ones included, with every claim
\* made of their own hashes; every index and size up to 17.
CONSTANTS
    None = None
    Digests = 2
    Small = 4
    Large = 17
    LongPath = 6
SPECIFICATION Spec
INVARIANTS
    EveryEntryVerifies
    OnlyMembersVerify
    ClimbIsTheDefinition
    VerifiersAgree
    SigsumTakesMore
CHECK_DEADLOCK FALSE
