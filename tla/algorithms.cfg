SPECIFICATION Spec
CONSTANTS
    SplitBudgets <- MCBudgets
    ShareSettings <- MCSettings
    Contributors <- MCContributors
    WeightValues <- MCWeights
    Stem <- MCStem
    Positive <- MCPositive
    Negative <- MCNegative
    Negators <- MCNegators
    Stopwords <- MCStopwords
    Filler <- MCFiller
    Boilerplate <- MCBoilerplate
    ShortWords <- MCShortWords
    Submissions <- MCSubmissions
    CohortSizes = {1, 2, 3}
    Expected = 3
    RubricsInScope <- MCRubrics
    Observations <- MCObservations
    HistoryLength = 3
    Candidates <- MCCandidates
    SnapshotPage = 2
    Postings <- MCPostings
    Offers <- MCOffers
    Policies <- MCPolicies
CHECK_DEADLOCK FALSE
INVARIANTS SplitKeepsBudget VoicesCountOnce MergeIsOrderFree ContestedIsNotReliedOn HonestyPays CohortFitsTheJob TakesTheBest
