SPECIFICATION FleetSpec
CONSTANTS
  Repo = {r1, r2, r3}
  Fork = {r2}
  Archived = {}
  Public = {r1}
  IsOrg = TRUE
  WithForks = FALSE
  WithArchived = FALSE
  Limit = 0
  PerPage = 2
  MaxPages = 2
  Surfaces = {"manifest", "ci", "dockerfile", "inherited"}
  Signals = {"unmaintained", "floating-version"}
  Grades = {"A", "B", "C", "D", "F"}
  Kinds = {"dependabot"}
  Inherited = "inherited"
  NoGrade = "none"
  Workers = 2
  Refresh = FALSE
  Look = 2
  ReportOf <- MCReportOf
  Orders <- MCOrders
  r1 = r1  r2 = r2  r3 = r3
  NoReport = NoReport
  MaxRuns = 3
  MaxFaults = 2
INVARIANTS EveryRepositoryIsCounted OwnReport ResumeDoesNotRepeat
PROPERTIES OrgEnds
CHECK_DEADLOCK FALSE
