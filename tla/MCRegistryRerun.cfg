SPECIFICATION Spec
CONSTANTS
  Hosts = {"lan", "vpn", "wlan"}
  Finds <- MCFinds
  Arguments <- MCArguments
  MaxRuns = 2
INVARIANT FailsOnlyWithACause
CHECK_DEADLOCK FALSE
