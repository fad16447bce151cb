SPECIFICATION MCSpec
CONSTANTS
  Limit = 5
  Numbers <- FewNumbers
  Lengths <- FewLengths
  Empty = Empty
  Junk = Junk
  Identities <- FewTracks
  Stems = {"song", "cover"}
  Estimates = {"mp3", "flac"}
  MaxTracks = 3
  Lossless = TRUE
  Unknown = Unknown
  Nodes <- FewNodes
  Root = 0
  Above <- Tree
  Folders <- FewFolders
  Path <- TreePaths
  MaxVisits = 4
  Failures = TRUE
CHECK_DEADLOCK FALSE
INVARIANTS
  RangeExact
  OrderIgnored
  PairedFiles
  FilesFound
  ReportedOnce
  WalkExact
