\* Two people, two calls at once, one username to fight for, one failing statement.
SPECIFICATION Spec
CONSTANTS
  Calls = {c1, c2}
  Subs = {s1, s2}
  Ids = {i1, i2}
  Names = {n1}
  Pictures = {}
  Null = Null
  BadName = BadName
  Minted = Minted
  MaxTries = 2
  MaxFaults = 1
SYMMETRY Symmetry
INVARIANTS
  TypeOK
  Consistent
  OneAccountPerSubject
  AnswerIsOwnAccount
  ErrorsExplained
PROPERTIES
  ImplementsAccounts
  PrivilegeOnlyByOperator
