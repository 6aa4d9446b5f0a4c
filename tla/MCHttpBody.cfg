CONSTANTS
  StreamCap = 14
  PageCap = 3
  LineCap = 3
  TailPiece = 5
  SizeMax = 100
  SegmentSizes = {1, 2, 3, 5, 13}
  Responses <- MCResponses
SPECIFICATION Spec
INVARIANTS
  PageIsContent
  SettlesWithLastByte
  BadChunksAreAnError
CHECK_DEADLOCK FALSE
