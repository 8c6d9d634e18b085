SPECIFICATION Spec
CONSTANTS
  small = small
  large = large
  Modes = {small, large}
  Covers <- LargeCoversSmall
  Unlisted = Unlisted
  NoSize = NoSize
  Faults = {}
INVARIANTS RepaintedOnReturn
