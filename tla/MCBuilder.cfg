SPECIFICATION MCSpec
CONSTANTS
    DraftIds = {x1, x2}
    Editors = {e1, e2}
    MaxDrafts = 1
    MaxSnapshots = 2
    MaxWrites = 3
    NoDraft = NoDraft
    Documents = {d1, d2}
    PublishDrafts = {b1}
    MaxPublishes = 2
    MaxOthers = 1
    MaxFaults = 1
    Nothing = Nothing
    IconNames = {n1, n2, n3}
    IconUsers = {e1, e2}
    MaxIcons = 2
    MaxAliases = 2
    MaxIconWrites = 4
    NoIcon = NoIcon
    Templates = {t1, t2}
    Collections = {c1}
    LayerSetIds = {s1}
    LibraryUsers = {l1, l2}
    MaxTemplates = 2
    MaxLayerSets = 1
    MaxAttempts = 2
    MaxLibraryWrites = 3
    Absent = Absent
    TopologyNames = {"r", "x", "y"}
    Root = "r"
    FirstTopologies <- MCFirst
    FoldKey <- MCFoldKey
    Spaced = {"c d"}
    RefusedNames = {"p"}
    MaxIncludes = 2
    MaxEdits = 1
    NotStored = NotStored
    ConfigRequests = {e1, e2}
    ExpConfigs = {"e", "f"}
    OtherConfigs = {"t"}
    DefaultConfigs = {"t"}
    Bridges = {"phenix", "own"}
    Births = 3
    ConfigWork = 3
    Crashes = 1
    ApplyRuns = {a, b}
    Forced = {b}
    Files <- MCFiles
    AutoFor <- MCAuto
    TopologyOf <- MCTopologyOf
    ScenarioOf <- MCScenarioOf
    Includes <- MCIncludes
    DrawnFrom <- MCFrom
    FirstConfigs = {"base"}
    MaxApplyFaults = 2
    MaxUserSteps = 1
    NoTree = NoTree
    FirstTree = FirstTree
CONSTRAINT Bounded
SYMMETRY Symmetric
INVARIANTS BuilderTypeOK ContentIntact DraftLimit  DiagramsFaithful  AppliesTold
PROPERTIES DraftsImplementHistory CleanupKeepsWork RetryNotRefused   TagsNameContent
CHECK_DEADLOCK FALSE
