SPECIFICATION Spec
CONSTANTS
  r1 = r1
  r2 = r2
  r3 = r3
  abhishekam = abhishekam
  d1 = d1
  m1 = m1
  Requests = {r1, r2, r3}
  Sevas = {abhishekam}
  Dates = {d1}
  Mobiles = {m1}
  Asks <- MCAsks
  Caps <- MCCaps
  MaxAttempts = 2
  PadLimit = 3
  Radix = 3
  OldNumbers <- MCOldNumbers
  NoOne = NoOne
INVARIANT RaceIsRetried
