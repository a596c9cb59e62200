SPECIFICATION HSpec
CONSTANTS
  Calls = {c1, c2}
  Subs = {s1}
  Ids = {i1}
  Names = {n1, n2}
  Pictures = {}
  Null = Null
  BadName = BadName
  Minted = Minted
  MaxTries = 1
  MaxFaults = 0
  MaxMoments = 3
PROPERTY
  LoginKeepsChosenName
