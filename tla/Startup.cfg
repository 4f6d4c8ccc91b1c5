SPECIFICATION FairSpec
CONSTANTS
  eth0 = eth0
  eth1 = eth1
  docker0 = docker0
  ip0 = ip0
  ip1 = ip1
  Names = {eth0, eth1, docker0}
  EligibleNames = {eth0, eth1}
  Addresses = {ip0, ip1}
  Automatic = Automatic
  Identifiers = {420, 421}
  Default = 420
  MaxEntries = 2
  Hosts <- MCHosts
INVARIANTS
  DistinctIdentity
  DisabledOnlyAsFallback
  RunsAsConfigured
  UntoldWasReplaced
PROPERTY NothingOutlives
\* The program ends.
CHECK_DEADLOCK FALSE
