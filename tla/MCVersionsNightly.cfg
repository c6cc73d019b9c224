SPECIFICATION VersionsSpec
CONSTANTS
  Requests <- NightlyRequests
  Releases <- Nightly
  MaxReleases = 4
  MaxVersionsPerRange = 2
INVARIANT SuffixesKeepTheirBand
