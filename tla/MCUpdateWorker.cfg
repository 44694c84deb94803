SPECIFICATION Spec
CONSTANTS
  NumZips = 1
  NumDirs = 1
  Home <- ZipInDir
  deb = deb
  bin = bin
  stray = stray
  Files <- PayloadFiles
  Kind <- KindOfFile
  StableSeconds = 1
  BackoffSeconds = 2
  HasSystemctl = TRUE
  CleanupCanFail = FALSE
  MaxArrivals = 3
  MaxRestarts = 1
INVARIANTS
  TypeOK
  ApplyIsProtected
  QuietApply
  NothingLeftBehind
  NoRebootLoop
PROPERTIES
  RemovesOnlyWhatItApplied
  NoRetryStorm
  PromiseKept
