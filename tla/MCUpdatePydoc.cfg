CONSTANTS
  Index <- MCIndex
  Files <- MCFiles
  IsHeader <- MCIsHeader
  MakeName <- MCMakeName
  HeaderOf <- MCHeaderOf
  IsStd <- MCIsStd
  DocKey <- MCDocKey
  Templates <- MCTemplates
  OddTexts <- MCOddTexts
SPECIFICATION Spec
INVARIANTS
  DocumentedWhenWritten
  StopsForAReason
  TemplatesFilled
PROPERTY
  BlockDocsSurvive
CHECK_DEADLOCK FALSE
