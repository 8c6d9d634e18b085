SPECIFICATION FairSpec
CONSTANTS
  small = small
  large = large
  Modes = {small, large}
  Covers <- LargeCoversSmall
  Unlisted = Unlisted
  NoSize = NoSize
  Faults = {"nobuf", "nomap"}
INVARIANTS TypeOK NoCommitWhenAway SizesAgree NeverDrawsOnScreen ShowsLatest
PROPERTIES HandsOver WakesUp
