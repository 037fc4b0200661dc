SPECIFICATION Spec
CONSTANTS
  Key <- MCKey
  Hash <- MCHash
  BucketSize = 2
  Data = {d1, d2}
  Texts <- MCTexts
  Files <- MCFiles
  None = None
  NULL = NULL
PROPERTIES DictSpec
CHECK_DEADLOCK FALSE
