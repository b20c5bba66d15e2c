SPECIFICATION MCSpec
CONSTANTS
  p1 = p1
  p2 = p2
  r1 = r1
  r2 = r2
  f1 = f1
  f2 = f2
  Processes = {p1, p2}
  Resolutions = {r1, r2}
  Files = {f1, f2}
  Bridge = "local"
  MaxCalls = 2
  MaxErrors = 1
  MaxInterrupts = 1
  MaxKills = 1
PROPERTIES
  CallsEnd
