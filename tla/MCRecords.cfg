SPECIFICATION Spec
CONSTANTS
    MaxSafe = 10
    MaxInt = 20
    Day = 4
    DaysPerMonth = 4
    MonthsPerYear = 2
    DaysPerWeek = 3
    KeyOrder <- MCKeyOrder
    IsoDates <- MCIsoDates
    IllegalSymbols <- MCIllegal
    HostSymbols <- MCHosts
    KeyText <- JsString
    MatchesNested <- Matches
    ClauseOrder <- MCClauseOrder
    Weight <- MCWeight
    CodeUnit <- MCCodeUnit
    Valid <- Conforms
    Definitions <- MCDefinitions
    Vendorings <- MCVendorings
    JsRecords <- MCJsRecords
    PyRecords <- MCPyRecords
    CoreRecords <- MCCoreRecords
    JsPatches <- MCJsPatches
    RawWrites <- MCRawWrites
    RawDeletes <- MCRawDeletes
    HandEdits <- MCHandEdits
    Documents <- MCDocuments
    JsFilters <- MCJsFilters
    Queries <- MCQueries
    Indexes <- MCIndexes
    MaxSteps = 2
INVARIANTS
    ReadsBackAsWritten
    StaysAtItsPath
    QueryFindsAll
    UniqueKeysHold
    DiffRebuilds
    ContractsHold
    BindingsAgree
PROPERTIES
    ImplementsFiles
CHECK_DEADLOCK FALSE
