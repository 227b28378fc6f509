SPECIFICATION Spec
CONSTANTS
  LaneBytes = 4
  MaxSize = 8
  MaxUnits = 2
  LengthSize = 2
  LengthBase = 4
  LebBase = 4
  LebBytes = 2
  FileHeader = 3
  FrameHeader = 3
  Bytes = {0, 1, 128}
  Payloads = {0, 1, 4}
INVARIANT TypeOK
INVARIANT NoStartCodeMissed
INVARIANT CutIsReported
PROPERTY FinishedForGood
PROPERTY ImplementsUnitStream
