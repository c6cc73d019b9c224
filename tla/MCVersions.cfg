SPECIFICATION VersionsSpec
CONSTANTS
  Requests <- MCRequests
  Releases <- MCReleases
  MaxReleases = 3
  MaxVersionsPerRange = 2
INVARIANT CandidatesAreRight
PROPERTY WillMovesOnlyToNews
