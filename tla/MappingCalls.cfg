SPECIFICATION MappingSpec
CONSTANTS
  Tags = {x, y}
  Loaded = {x}
  Clients = {c1}
  Saves = {s1}
  NoRequest = none
  MaxEdits = 2
  QueueCapacity = 1
  Persistent = TRUE
  MayFail = TRUE
  MayQuit = TRUE
  ToolDocs <- MCToolDocs
  ReadScopes <- MCReadScopes
  Operations <- MCOperations
  Elsewhere <- MCElsewhere
  Probes <- MCProbes
  NotAUrl <- MCNotAUrl
  MaxPreviewUrls = 2
  MaxProjection = 7
  Shortened <- MCShortened
  MaxToolCalls = 3
  MaxElsewhere = 1
  Matches <- MCMatches
  BadGlobs = {"bad"}
  Places <- MCPlaces
  Files <- MCFiles
  FileMutations <- MCFileMutations
  Prefilters <- MCPrefilters
  MaxLoads = 2
  MaxSaves = 2
  MaxHandEdits = 1
CHECK_DEADLOCK FALSE
INVARIANTS CommitsAreTrue ToolsDoWhatTheySay FileSaysTheSettings
PROPERTIES CommitsAreVersioned NobodyWaitsForEver
