\* Visits to one area, one permit cluster and its claim, one FTTT project and
\* its funds, two designs
CONSTANTS
  Areas = {a1}
  v1 = v1
  v2 = v2
  Visits = {v1, v2}
  Desks = {h1, h2}
  NoVisit = NoVisit
  NoPlan = NoPlan
  Files <- MCFiles
  Clerks = {h1, h2}
  Overrides <- MCOverrides
  NoTask = NoTask
  Parent = parent
  Sites = {s1}
  Hands = {h1, h2}
  Scenarios <- MCScenarios
  NoCall = NoCall
  FundRequests = {r1}
  Tellers = {h1, h2}
  NoRequest = NoRequest
  Deleted = Deleted
  NoErrand = NoErrand
  n1 = n1
  n2 = n2
  e1 = e1
  Nodes = {n1, n2}
  Lines = {e1}
  Waypoint = Waypoint
  Designs = {d1, d2}
  Saved <- MCSaved
  Drawn <- MCDrawn
  MaxEdits = 2
  MaxEvents = 3
  Absent = Absent
  NoDesign = NoDesign
  NoSave = NoSave
  Unknown = Unknown
  da = da
  db = db
  ClaimPapers = {da, db}
  CheckedPapers = {da}
  MaxUploads = 2
  Reviewers = {h1, h2}
  NoChore = NoChore
SPECIFICATION FieldSpec
SYMMETRY FieldSymmetry
CONSTRAINT FieldBounds
INVARIANTS
  FieldTypeOK
  AreaFollowsVisits
  PhaseHasItsRecord
  BothIssuedAdvances
  PermitsEndReviewed
  PhasesInOrder
  PhasesWereReady
  FundsReleasedAsReviewed
  NoEditIsForgotten
  UndoIsExact
  ApprovalsStandForTheirFile
PROPERTIES
  VisitsPassTheGates
CHECK_DEADLOCK FALSE
