SPECIFICATION Spec
CONSTANTS
  RawKeys <- MCRawKeys
  Normal <- MCNormal
  DefaultKey <- MCDefaultKey
  FinalKey <- MCFinalKey
  RawSpecs <- MCRawSpecs
INVARIANTS RejectedIffUnusable TiesKeepPosition DependenciesFirst StoredSpecReadsBack
PROPERTY EveryPlanEnds
CHECK_DEADLOCK FALSE
