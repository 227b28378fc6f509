\* An LSB of two bits, an int that holds three LSB periods on either side of
\* zero, a base and one higher sub-layer.
CONSTANTS
  MaxLsb = 4
  HalfCycles = 3
  Int32Max = 11
  TemporalIds = {0, 1}
SPECIFICATION Spec
INVARIANTS TypeOK DerivedFollowsTimeline TrackerHoldsAnchor
PROPERTIES ImplementsPictureOrder RepeatedSliceIsIdempotent
