SPECIFICATION Spec
CONSTANTS
    c1 = c1
    c2 = c2
    i1 = i1
    Callers = {c1, c2}
    Importers = {i1}
    Origins <- AllOrigins
    PageOf <- Addresses
    Sources <- Mirrored
    ApiSources <- MirroredApi
    Yields <- RepeatedYields
    Imports <- PageImports
    Names <- AllNames
    Urls <- AllUrls
    MaxRuns = 2
    MaxImports = 2
    Faults = {"cancel", "crash"}
INVARIANTS CrawledOnce HealthFollowsRun
PROPERTIES AtMostOneCrawl
CHECK_DEADLOCK FALSE
