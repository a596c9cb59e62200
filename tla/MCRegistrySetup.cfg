SPECIFICATION Spec
CONSTANTS
  Hosts = {"lan", "vpn", "wlan"}
  Finds <- MCFinds
  Arguments <- MCArguments
  MaxRuns = 3
INVARIANTS NoDuplicateEntries SuccessMeansLoaded
CHECK_DEADLOCK FALSE
