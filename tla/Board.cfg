CONSTANTS
  MaxChanges = 2
  Forced = {"other", "heart_searching"}
  Names <- MCNames
  Order <- MCOrder
  Upper <- MCUpper
  Bare <- MCBare
  MapperCodes <- MCMapperCodes
  PassNames <- MCPassNames
  Actions <- MCActions
  HandFiles <- MCHandFiles
  Drafts <- MCDrafts
  Edits <- MCEdits
  MaxEdits = 2
  Requests <- MCRequests
  MaxTransfers = 3
  Subscribers = {s1, s2, s3}
  MaxClients = 2
  Backlog = 1
  Room = 2
  MaxEvents = 3
  NoClient = nobody
  MaxSwitches = 2
  MaxCrashes = 1
  Paths = {"event0", "event1", "event2"}
  MaxInputs = 2
  MaxNotes = 1
SPECIFICATION BoardSpec
INVARIANTS BoardTypeOK MapperRunsFile UntouchedSaveKeepsMapper FormRuns ChordsAgree HostGetsWhatItAsked SubscribersServed OpenIsPresent
PROPERTIES Acknowledged LedsSettle LedsGoDark RequestsEnd ModeReached PluggedIsOpened
CHECK_DEADLOCK FALSE
