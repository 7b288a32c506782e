SPECIFICATION Spec
CONSTANTS
    spot = spot
    supply = supply
    votes = votes
    dark = dark
    s1 = s1
    s2 = s2
    coinbase = coinbase
    kraken = kraken
    datanet = datanet
    Predictions = {spot, supply, votes, dark}
    Sweepers = {s1, s2}
    Venues = {coinbase, kraken}
    PriceEnabled = TRUE
    MaxLag = 0
    MaxSpreadPct = 2
    Batch = 2
    ChainReplies <- MCChainReplies
    DecimalsReplies <- MCDecimalsReplies
    Tables <- MCTables
    Horizon = 1
    MaxFaults = 1
    Prediction <- MCPrediction
    Endpoints <- MCEndpoints
    PriceReplies <- MCPriceReplies
    CurationReplies <- MCCurationReplies
INVARIANTS HonestVerdicts
PROPERTIES ImplementsVerdicts EveryPredictionSettles
