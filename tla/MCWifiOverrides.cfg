SPECIFICATION FairSpec
CONSTANTS
  Cards = {"wlan", "wfb"}
  Actions = {"set", "clear", "refresh"}
  Types = {"OPENHD", "DISABLED", None}
  TxChanges <- MCTxChanges
  Candidates <- MCNoCandidates
  Profiles = {"none", "fixed", "levels"}
  None = None
  Unknown = Unknown
INVARIANTS
  TypeOK
  AskedIsShown
PROPERTY NewCardIsFound
