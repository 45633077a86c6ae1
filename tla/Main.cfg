SPECIFICATION Spec
CONSTANTS
  Arguments <- EdgeArgs
  Lookups <- SmallLookups
  Results <- SmallResults
  MaxReport = 6
INVARIANTS
  RunPreconditions
  ProbesDistinguished
  ReportReadable
  ReportStops
