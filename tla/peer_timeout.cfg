SPECIFICATION Spec

CONSTANTS
  Timeouts = {5, 10}

INVARIANT
  TimeoutIsOption
