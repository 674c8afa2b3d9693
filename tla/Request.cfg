SPECIFICATION RequestSpec
CONSTANTS
  JsonKeys <- MCJsonKeys
  Bodies <- MCBodies
  HeaderWords = {"auth", "other"}
  Values = {"a"}
  References = {"env:KEY", "env:NONE"}
  Environment <- MCEnvironment
  MetaFiles <- MCMetaFiles
  ModelNames = {"granite", ""}
  MaxGiven = 3
INVARIANTS BodiesMerge OwnFieldsWin EndpointOverMeta
