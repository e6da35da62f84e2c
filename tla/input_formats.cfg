SPECIFICATION Spec

CONSTANTS
  Widths = {64}
  Heights = {4}
  Pads = {0}
  Surplus = {0}

INVARIANTS
  InputFormatsShown
