SPECIFICATION LoadSpec
CONSTANTS
  Messages = {"hi"}
  MaxCalls = 3
  MaxOutages = 1
  Texts = {""}
  trim <- NoText
  Blank = "blank"
  Form = "form"
  Workers = {"w1", "w2"}
  NoOne = "nobody"
INVARIANTS ReportAddsUp PercentilesInRange
PROPERTIES LoadTestEnds
CHECK_DEADLOCK FALSE
