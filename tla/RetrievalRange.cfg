\* The same instance: ranges of symbols in pieces are not lines of the file.
SPECIFICATION Spec
CONSTANTS
    MaxTokens = 8
    MaxCharacters = 1000
    EmptyQuery = 99
    SameIgnoringCase <- MCSameIgnoringCase
    Within <- MCWithin
    Repositories <- MCSplit
    Chunked <- PackedFiles
    Raising <- RaisingFiles
    Backends = {"chunk", "exp_chunk"}
    LongPaths = {FALSE}
    Session = "main"
    Queries <- MCQueries
    CharLimits = {4, 8, 60}
    LineLimits = {0, 2}
INVARIANT RangeIsLines
