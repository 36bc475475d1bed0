CONSTANTS
    ann = ann  bob = bob
    mobile = mobile  laptop = laptop
    Devices = {mobile, laptop}
    p1 = p1  p2 = p2
    Users = {ann, bob}
    Workers = {p1, p2}
    Tables <- MCTables
    Moderators = {ann, bob}
    number = number
    Phones = {number}
    Chunks = {0, 1}
    Contents <- MCContents
    RefreshFlushes = {TRUE, FALSE}
    Scenes <- MCScenes
SPECIFICATION Spec
INVARIANTS
    TypeOK
    BlockSevers
    PairsDoubledOnlyTogether
    DecidedOnce
    PermanentBanHolds
    NoMessageThroughBlock
    NumbersUnique
    ChainForksOnlyTogether
    FeedShowsWhatCanBeOpened
    TokensUsedOnce
    VotesLostOnlyTogether
    FilesHoldTheirChunks
    GroupEntry
    AnonymousNamesNobody
PROPERTIES
    ChangesInvalidate
    RevokedStaysRevoked
SYMMETRY Symmetry
CHECK_DEADLOCK FALSE
