\* Small files of every shape; answers shorter and longer than their symbols.
SPECIFICATION Spec
CONSTANTS
    MaxTokens = 8
    MaxCharacters = 1000
    EmptyQuery = 99
    SameIgnoringCase <- MCSameIgnoringCase
    Within <- MCWithin
    Repositories <- MCRepositories
    Chunked <- PackedFiles
    Raising <- RaisingFiles
    Backends = {"chunk", "exp_chunk"}
    LongPaths = {FALSE, TRUE}
    Session = "main"
    Queries <- MCQueries
    CharLimits = {4, 8, 60}
    LineLimits = {0, 2}
INVARIANT TypeOK
INVARIANT InsertsAccepted
INVARIANT KeepsStatements
INVARIANT OverviewKeeps
INVARIANT OnlyUnsplittableDropped
INVARIANT TextKeepsLines
INVARIANT ReadsAreWhole
INVARIANT FindsThisBranch
INVARIANT LimitHonoured
PROPERTY ReadingAdvances
