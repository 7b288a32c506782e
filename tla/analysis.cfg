SPECIFICATION MCSpec
CONSTANTS
  Slots = {1, 2}
  Anywhere = "anywhere"
  Limit = 2
  MinBatch = 2
  MaxFaults = 1
  Named = {"n1", "n2", "p3", "p9"}
  Lookups <- MCLookups
  Public <- MCPublic
  Mine <- MCMine
  Owned <- MCOwned
  Recorded <- MCRecorded
  MaxSteps = 1
  Registered = {"reppo_list_datanets", "reppo_search_data", "reppo_get_datanet_data", "compute_evidence_stats", "http_get"}
  Nets = {"n1", "n2"}
  Scopes <- MCScopes
  Toolsets <- MCToolsets
  WebPage <- MCWebPage
INVARIANTS ClaimsCiteWhatWasRead EvidenceInScope FixturesNeverMaskDenial OwnedLead
CHECK_DEADLOCK FALSE
