\* All texts of five characters and pages of up to five lines, the embedding of
\* up to five chunks in batches of up to three, retrievals over
\* four chunks, drafts from one or two batches of chunks, and a lookup of a FAQ that crosses two edits and an error of Redis.
CONSTANTS
    a = a
    b = b
    c = c
    d = d
    x1 = x1
    x2 = x2
    b1 = b1
    b2 = b2
    Texts <- TextsDef
    Modes = {"fixed", "sliding", "paragraph", "heading"}
    Separators = {{"newline", " "}, {" ", "#"}}
    Sizes = {1, 2, 3}
    Overlaps = {0, 1, 2}
    DefaultOverlap = 2
    Pages <- PagesDef
    PageSizes = {2, 3}
    TableSizes = {1, 3}
    Layouts <- LayoutsDef
    TextCounts = {0, 1, 3, 5}
    BatchSizes = {1, 2, 3}
    Strategies = {"vector", "fulltext", "hybrid"}
    Queries = {"q1", "q2", "q3"}
    Question = "q1"
    NoQuery = "none"
    Rewrites <- RewritesDef
    ExpansionCount = 1
    Finds <- FindsDef
    Replies <- RepliesDef
    Matches <- MatchesDef
    Order <- OrderDef
    BaseOf <- BaseOfDef
    Targets <- TargetsDef
    Similarity <- SimilarityDef
    Grams <- GramsDef
    GramsIn <- GramsInDef
    Cjk = {"q1", "q2"}
    TopK = 2
    Multiplier = 2
    CandidateLimit = 3
    RrfK = 1
    Full = 60
    Threshold = 25
    Documents <- DocumentsDef
    Letters = {"x", "y", "z", "u"}
    Said = {"one", "two", "brief", "secret"}
    ModelReplies <- ModelRepliesDef
    ActiveSets <- ActiveSetsDef
    ShortAnswers = {"brief"}
    SensitiveAnswers = {"secret"}
    BatchOf = 2
    DraftCap = 3
    SimilarAbove = 85
    GoodEnough = 75
    Faqs = {x1, x2}
    Bases = {b1, b2}
    Questions = {"q1", "q2"}
    Asked = {"q1"}
    Home <- HomeDef
    MaxLevel = 1
    Askers = {"p1"}
    Editors = {"e1"}
    NoFaq = NoFaq
    MaxEdits = 2
    MaxRedisErrors = 1
SPECIFICATION SearchSpec
INVARIANTS  RetrievalKept LookupKept
SYMMETRY Symmetry
\* A text is cut once, a retrieval ends, and so do edits.
CHECK_DEADLOCK FALSE
