CONSTANTS
    m1 = m1
    m2 = m2
    m3 = m3
    t1 = t1
    t2 = t2
    Part = {"scan", "flow", "registers", "review", "broker", "source", "extract", "ios"}
    Method = {m1, m2, m3}
    Trace = {t1, t2}
    Programs <- Applications
    MaxRuns = 12
    MaxFacts = 5
    MaxFlows = 3
    TroubleLimit = 2
    Reg = {"v0", "v1"}
    Bodies <- Methods
    Given <- Brought
    MaxSteps = 12
    MaxWay = 16
    Setting <- Installed
    Candidates = 2
    Threshold = 600
    MinVotes = 2
    Enabled = {"grok", "claude"}
    Reviewer = {"x", "y"}
    Directories <- Packages
    Var = {"x", "y"}
    MaxSummaries = 5
    MaxRounds = 2
    MaxCandidates = 5
    Inputs <- Extractions
    MaxClasses = 3
    MaxAllClasses = 3
    MaxWalk = 3
    MaxLine = 2
    MaxScan = 4
    MaxChunk = 3
    Archives <- IosArchives
    Marker <- Marks
    MaxSymbols = 3
    MaxNames = 2
    MaxEntries = 3
    MaxManifests = 2
    MaxManifestBytes = 3
    MaxCategories = 2
    MaxAllCategories = 2
    MaxFrameworks = 2
    MaxFrameworkBytes = 4
SPECIFICATION AnalysisSpec
INVARIANTS
    AnalysisTypeOK
    LedgerHonest
    PhaseTellsTruth
    FlowsClosed
    NoWayForgotten
    RankedByEvidence
    EgressAccounted
    SourcesFollowed
    EvidenceHonest
CHECK_DEADLOCK FALSE
