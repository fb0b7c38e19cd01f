SPECIFICATION Spec
CONSTANTS
  Malformed = Malformed
  MaxNumber = 101
  Decimal <- MCDecimal
  Alphabet <- MCAlphabet
  WordByte <- MCWordByte
  Wide <- MCWide
  Lower <- MCLower
  Hallucinations <- MCHallucinations
  Version = "1"
  Versions <- MCVersions
  States <- MCStates
  Counts <- MCCounts
  Edits <- MCEdits
  Raws <- MCRaws
  Tables <- MCTables
  MaxSent = 3
INVARIANTS ReadAsSent CorrectedAsWritten
CHECK_DEADLOCK FALSE
