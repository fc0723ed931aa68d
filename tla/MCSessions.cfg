SPECIFICATION PartsSpec
CONSTANTS
  r1 = r1
  r2 = r2
  r3 = r3
  d1 = d1
  d2 = d2
  d3 = d3
  Runs = {r1, r2}
  Devices = {d1}
  DeviceOf <- OneDevice
  Coroutines = {c1, c2}
  Actions = {a1}
  Captures = {k1}
  MaxBusy = 2
  MaxRestarts = 1
  w1 = w1
  w2 = w2
  w3 = w3
  s1 = s1
  s2 = s2
  b1 = b1
  all = all
  Part = {"automation", "telemetry", "capture", "logs"}
INVARIANTS
  TypeOK
  DeviceExclusive
  RunningRunOwned
PROPERTIES
  NothingIssuedAfterCancel
  NothingRepeated
  EvidenceKept
  BatchEnds
  TelemetryKept
  CaptureKept
  LogsKept
CHECK_DEADLOCK FALSE
