\* Two people, one call after the other: a username that stays taken.
SPECIFICATION FairSpec
CONSTANTS
  Calls = {c1}
  Subs = {s1, s2}
  Ids = {i1, i2}
  Names = {n1}
  Pictures = {p1}
  Null = Null
  BadName = BadName
  Minted = Minted
  MaxTries = 3
  MaxFaults = 1
PROPERTIES
  EveryCallAnswered
