SPECIFICATION Spec
CONSTANTS
  Messages = {"hi", "ho"}
  MaxCalls = 2
  MaxOutages = 2
  Texts <- MCTexts
  trim <- MCTrim
  Blank = "blank"
  Form = "form"
  Workers = {"w1"}
  NoOne = "nobody"
INVARIANTS TypeOK NoSilentLoss OneCallInFlight ShowsLatest
PROPERTIES ServesAgain FormUsableAgain
CHECK_DEADLOCK FALSE
