SPECIFICATION Spec
CONSTANTS
    c1 = c1
    c2 = c2
    Callers = {c1, c2}
    Proposers = {c1, c2}
    Confidences = {1, 3}
    MaxFacts = 3
    Tasks = {c1, c2}
    TTL = 2
    MaxTime = 3
    MaxValue = 1
    Goals = {"g1", "g2"}
    Placers = {c1, c2}
    Titles = {"a", "b"}
    AreaOf <- AreaOfTitles
    ThemeOf <- ThemeOfTitles
    MaxRetitles = 1
    Mems = {"m1"}
    Readers = {c1, c2}
    MaxTroubles = 1
    NumPrompts = 3
    MaxEvals = 3
    Topics = {"t"}
    Calls = {c1, c2}
    MaxOutcomes = 3
    MaxLessons = 2
    Gaps = {5}
    Headings = {"a", "b"}
    Scanners = {"scan"}
    Sweepers = {c1, c2}
    MaxRows = 3
    MaxPromote = 1
    ListLimit = 1
    MaxMishaps = 1
    Episodes = {c1, c2}
    Names = {"n1", "n2"}
    Texts <- TextsOfEpisodes
    MaxNodes = 4
    MaxErrors = 1
    SketchIds = {"s1", "s2"}
    Users = {c1, c2}
    PoolSize = 2
    MaxProjects = 3
    MaxRestarts = 1
    Executors = {c1, c2}
    MaxScenarios = 2
    MaxExecutions = 3
    MaxFaults = 1
    Makers = {c1, c2}
    Subjects = {"x", "y"}
    Least = 2
    ReadLimit = 3
    MaxJournal = 4
    MaxTries = 3
    Thinkers = {c1, c2}
    Sayings = {"x"}
    MaxMade = 2
    MaxUpsets = 2
    MaxReports = 2
    MaxSlips = 1
    Contents = {"a", "b", "ab"}
    Includes <- ContainsOfContents
    MaxWrites = 3
    MaxTurns = 3
    MaxApiErrors = 1
    Memories = {"m1", "m2"}
    Facts = {"i1"}
    Old = {"i1"}
    Long = {"m2"}
    Budget = 6
    MaxMoves = 1
SYMMETRY Interchangeable
INVARIANTS
    RecallSeesIngest FreshWithinTTL RetrievalSound HermesKeepsUp VersionsSound
    LessonsSound ProposalsSound StudioSound GraphSound
    SnapshotsWhole CognitionSound
PROPERTIES ContextNeverWeakens HomesSound
CHECK_DEADLOCK FALSE
