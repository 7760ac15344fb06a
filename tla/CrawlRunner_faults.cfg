SPECIFICATION FairSpec
CONSTANTS
    c1 = c1
    c2 = c2
    i1 = i1
    Callers = {c1}
    Importers = {i1}
    Origins <- AllOrigins
    PageOf <- Addresses
    Sources <- TwoSources
    ApiSources <- TwoApi
    Yields <- TwoYields
    Imports <- PageImports
    Names <- AllNames
    Urls <- AllUrls
    MaxRuns = 1
    MaxImports = 1
    Faults = {"db", "cancel", "crash"}
INVARIANTS TypeOK SuccessMeansStored RunAccounts
PROPERTIES LockReleased
CHECK_DEADLOCK FALSE
