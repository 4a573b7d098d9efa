\* The explorer's page, worker and engine: four messages, one error event, one
\* failing warm-up.
SPECIFICATION Spec
CONSTANTS
  Files = {"f1", "f2"}
  Drafts = {"d1", "d2", "noKeys"}
  Unplannable = {"noKeys"}
  DefaultDraft = "d1"
  Presets = {"top"}
  DefaultPreset = "top"
  Crates = {"a", "b"}
  Routes = {"explore", "board"}
  HomeRoute = "explore"
  MaxWorkers = 2
  MaxHistory = 2
  None = None
  UserEvents <- MCUserEvents
  MaxJobs = 4
  MaxErrors = 1
  MaxThrows = 1
INVARIANTS AnswersOwnJob ShowsTheTruth
PROPERTIES UndoKeepsTimeline JobsSettle
CHECK_DEADLOCK FALSE
