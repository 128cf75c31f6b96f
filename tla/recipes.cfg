\* Two calls at a time, a release published meanwhile, one fault.
SPECIFICATION Spec
CONSTANTS
  Caller = {c1, c2}
  MaxRelease = 2
  MaxFaults = 1
  Qualities <- MCQualities
  NoRelease = NoRelease
SYMMETRY Interchangeable
INVARIANTS LatestHasIndex RefreshDelivers OneRelease
