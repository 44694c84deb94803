SPECIFICATION FairSpec
CONSTANTS
  NumZips = 2
  NumDirs = 1
  Home <- SecondZipInDir
  deb = deb
  note = note
  Files <- LiveFiles
  Kind <- LiveKind
  StableSeconds = 1
  BackoffSeconds = 1
  HasSystemctl = TRUE
  CleanupCanFail = TRUE
  MaxArrivals = 2
  MaxRestarts = 1
PROPERTIES
  PayloadGetsRun
  RequestGetsRun
