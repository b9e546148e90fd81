CONSTANTS
    a1 = a1  a2 = a2  a3 = a3
    s1 = s1  s2 = s2  s3 = s3
    t1 = t1  t2 = t2  g1 = g1  g2 = g2  v1 = v1
    i1 = i1  i2 = i2  i3 = i3
    None = None  NoValue = NoValue
    Article = {a1, a2, a3}  ArticleSlug = {s1, s2, s3}  Question = {1, 2}
    Tag = {t1, t2}  TagSlug = {g1, g2}  Folder = {1, 2, 3}  Voter = {v1}
    Item = {i1, i2, i3}  ItemSlug = {s1, s2, s3}
    Sheet = {1, 2, 3}  Section = {11, 12}  Subsection = {21, 23, 24}
    DailyLimit = 1
    Filler = {1}  MaxFaults = 1  MaxCalls = 2
    KeptArticles <- MCKeptArticles
    KeptMatrix <- MCKeptMatrix
    Address <- MCAddress
SPECIFICATION Spec
INVARIANTS TypeOK StaleHasReason PublishedHasDate LastVoteStands PublicShowsReady SuggestionsWithinLimit
PROPERTIES EventuallyFresh WarmOperationEnds
CHECK_DEADLOCK FALSE
