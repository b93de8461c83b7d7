\* Three commits, four runs, other publishers, a query that fails, a cache that loses an entry.
CONSTANTS
    Query <- QueryOf
    Renderer <- RendererOf
    None = None
    MaxRuns = 4
    MaxWiki = 1
    MaxOthers = 2
    MaxMisses = 1
SPECIFICATION Spec
INVARIANTS TypeOK AnswersOnly ReportOfOneCommit NewestPublished ReportAsCached
PROPERTY OthersKept
CHECK_DEADLOCK FALSE
