SPECIFICATION AuditSpec
CONSTANTS
  Files <- MCFiles
  Names <- MCNames
  numstatField <- MCNumstatField
  renameField <- MCRenameField
  listedName <- MCListedName
  Ignored = {"dist/cache"}
  Nested = {"src/sub/my key"}
  Patterns = {"key"}
  DefaultPatterns <- MCDefaultPatterns
  DefaultReadOnly <- MCDefaultReadOnly
  DefaultSecretPatterns <- MCDefaultPatterns
  Configs <- MCConfigs
CHECK_DEADLOCK FALSE
INVARIANTS
  ChangesComplete
  FindingsReported
  WatcherKeepsUp
  LockedFieldsHold
