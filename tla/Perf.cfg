SPECIFICATION Spec
CONSTANTS
  MaxMeasurements = 3
  HmacEnabled = TRUE
  MaxInterests = 5
INVARIANTS TypeOK EntriesMeasured
PROPERTIES StrayOnlyByReset DumpIsStable
