CONSTANTS
  Endpoints = {1, 2}
  Protocols = {"unknown", "http", "https", "smb"}
  States = {"open", "filtered"}
  FactKeys <- MCFactKeys
  Unknown = Unknown
  Catalog <- MCCatalog
  Allowed = {}
  MaxActions = 3
  MaxRounds = 3
CHECK_DEADLOCK FALSE
SPECIFICATION Spec
INVARIANTS
  IndexAgrees
  NothingOverlooked
  NoActionTwice
PROPERTY ProtocolsOnlyImprove
