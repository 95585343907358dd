SPECIFICATION Spec
CONSTANTS
    Snapshots <- MCSnapshots
    MaxActionables = 2
    MaxSteps = 4
    TrimLimits <- MCTrimLimits
    Lower <- MCLower
    ShortWords = {"as"}
    BeginsWith <- MCBeginsWith
    Similarity <- MCSimilarity
    Pages <- MCPages
    Requests <- MCRequests
    Observed <- MCObserved
    DefaultLimit = 3
    MaxLookups = 3
    FormPages <- MCFormPages
    Intents <- MCIntents
    KeywordWeight <- MCKeywordWeight
    ConcurrencyLimit = 2
    MaxFieldsToRead = 3
    Acted = {6}
    Fillable = {2, 4}
    MaxEffects = 1
    Trees <- MCTrees
    MaxNodes = 7
    MaxCaseB = 2
    MaxAncestors = 4
    MaxCompiles = 3
INVARIANTS
    DiffsAddUp
    RefinementNarrows
    ReadyFormIsFilled
    HeadingIsLastBefore
PROPERTIES
    FormIsAnswered
CHECK_DEADLOCK FALSE
