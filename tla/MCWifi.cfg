SPECIFICATION Spec
CONSTANTS
  Cards = {"hs"}
  Actions = {"refresh", "restart_artosyn"}
  Types = {}
  TxChanges = {}
  Candidates <- MCCandidates
  Profiles = {"none"}
  None = None
  Unknown = Unknown
INVARIANTS
  RestartIsFresh
  StartsAreThrottled
