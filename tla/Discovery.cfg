SPECIFICATION DiscoveryFairSpec
CONSTANTS
  a1 = a1
  a2 = a2
  d1 = d1
  d2 = d2
  d3 = d3
  ai = ai
  prog = prog
  Devices = {d1, d2, d3}
  Objects = {ai, prog}
  All = All
  Ignored = {}
  Subscribable = {ai}
  Unknown = {}
  Entries <- MCEntries
  Reads <- MCReads
  WithList <- MCWithList
  Permits = 2
  Elements = 2
  Answers = {a1, a2}
  Networks <- MCNetworks
  Contents <- MCContents
  Saved = {d1}
  Own = Own
  Handlers = {"i_am"}
  Main = "main"
  None = None
INVARIANTS
  DiscoveryTypeOK
  CompleteIsConfigured
  NoExtraPolls
  EverythingAskedIsServed
PROPERTY DiscoveryEnds
\* Discovery may be through, or have failed.
CHECK_DEADLOCK FALSE
