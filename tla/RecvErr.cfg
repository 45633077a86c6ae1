SPECIFICATION Spec
CONSTANTS
  UsizeMax = 255
  Lengths <- EdgeLengths
  CmsgLens <- EdgeCmsgLens
INVARIANTS
  ReadsInBounds
  NoOverflow
  KernelErrorFound
PROPERTIES
  Advances
