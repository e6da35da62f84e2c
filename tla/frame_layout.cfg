SPECIFICATION Spec

CONSTANTS
  Widths = {0, 1, 63, 64, 65}
  Heights = {0, 1, 2, 3, 4}
  Pads = {0, 1, 63}
  Surplus <- CutWholeLonger

INVARIANTS
  PlanesFit
  EncoderReadsPlanes
  CopyFits
  PictureKept
