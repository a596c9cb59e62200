\* One tab, one sign-in.
SPECIFICATION Spec
CONSTANTS
  Tabs = {t1}
  Persons = {p1}
  EffectRuns = 1
  MaxLogins = 1
  None = None
PROPERTY
  DiscardsOnlyOnAuthError
