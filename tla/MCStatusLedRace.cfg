SPECIFICATION Spec
CONSTANTS
  main = main
  worker = worker
  camera = camera
  Threads = {main, worker, camera}
  Main = main
  Says <- SomeSays
  Messages <- SomeMessages
  Started = "started"
  Clear = "clear"
  Severity <- SomeSeverity
  Alarming <- SomeAlarming
  Missing <- SomeMissing
  Keys <- SomeKeys
  Primary = "green"
  Secondary = "red"
  MaxUpdates = 3
INVARIANTS
  LedFollowsStatus
