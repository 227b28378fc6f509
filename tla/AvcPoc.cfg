CONSTANTS
  MaxFrameNum <- MCMaxFrameNum
  MaxLsb <- MCMaxLsb
  MinLsbPeriod <- MCMinLsbPeriod
  SpsSet <- MCSpsSet
  Counts <- MCCounts
  Deltas <- MCDeltas
SPECIFICATION Spec
INVARIANTS TypeOK DerivedFollowsTimeline TrackerHoldsAnchor
PROPERTY RepeatedSliceIsIdempotent
