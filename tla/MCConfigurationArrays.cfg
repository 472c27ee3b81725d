CONSTANTS
  CommandLines <- MCLines
  Cpus = 8
  ErpDelta <- MCErp
  MaxOwf = 12
SPECIFICATION ConfigSpec
INVARIANT ConfigArraysKept
