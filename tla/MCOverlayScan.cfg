SPECIFICATION Spec
CONSTANTS
  Layouts <- MCLayouts
INVARIANTS
  InRange
  Tiled
  AllPairs
  ScanInv
