\* One tab, a production build, two people, three sign-ins.
SPECIFICATION FairSpec
CONSTANTS
  Tabs = {t1}
  Persons = {p1, p2}
  EffectRuns = 1
  MaxLogins = 3
  None = None
INVARIANTS
  TypeOK
  ShownUserHoldsJwt
  ExpiredIsSignedOut
  InSyncWithStorage
PROPERTIES
  LoadingEnds
