SPECIFICATION Spec
CONSTANTS
  r1 = r1
  r2 = r2
  r3 = r3
  d1 = d1
  d2 = d2
  d3 = d3
  Runs = {r1, r2}
  Devices = {d1}
  DeviceOf <- OneDevice
  Coroutines = {c1, c2}
  Actions = {a1}
  Captures = {k1}
  MaxBusy = 2
  MaxRestarts = 1
PROPERTIES
  ImportsKept
CHECK_DEADLOCK FALSE
