\* One person, two calls at once, two usernames and a picture, at most three
\* tables per call.
SPECIFICATION HSpec
CONSTANTS
  Calls = {c1, c2}
  Subs = {s1}
  Ids = {i1}
  Names = {n1, n2}
  Pictures = {p1}
  Null = Null
  BadName = BadName
  Minted = Minted
  MaxTries = 2
  MaxFaults = 0
  MaxMoments = 3
SYMMETRY Symmetry
INVARIANTS
  FreshAnswer
  AcknowledgedRenameTookEffect
PROPERTY
  LoginRenamesOnlyNameless
