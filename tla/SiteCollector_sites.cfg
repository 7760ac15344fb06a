CONSTANTS
    tencent = tencent
    meituan = meituan
    position = position
    pageA = pageA
    pageB = pageB
    next = next
    broken = broken
    job1 = job1
    job2 = job2
    p1 = p1
    NoId = NoId
    None = None
    Urls <- MCUrls
    Sources <- MCSources
    ParserType <- MCParserType
    Keywords <- MCKeywords
    Malformed <- MCMalformed
    Posts = {p1}
    UrlOf <- MCUrlOf
    Sites <- MCSites
    Attempts = 3
    MaxPages = 1
    MaxLinks = 2
SPECIFICATION FairSpec
INVARIANTS
    NoUrlTwice
    FoundIsKept
    SilenceShows
PROPERTIES
    CollectEnds
CHECK_DEADLOCK FALSE
