SPECIFICATION Spec
CONSTANTS
  Null = Null
  Now = Now
  Sensitive = {"password", "token", "secret", "credit_card"}
  Names <- MCNames
  Exact <- MCExact
  MaxInt64 <- MCMaxInt64
  Dates <- MCDates
  Oversized = {"very long"}
  Texts <- MCTexts
  Batches <- MCBatches
  MaxEvents = 2
  ClientIP = "10.0.0.1"
  Agent = "curl"
CHECK_DEADLOCK FALSE
INVARIANTS
  TypeOK
  PanicIsReported
  LoggedOnce
  BodyDecides
  RowsFit
  DeadLettersReplay
