SPECIFICATION Spec
CONSTANTS
  Arguments <- EdgeArgs
  Lookups <- SmallLookups
  Results <- SmallResults
  MaxReport = 2
INVARIANTS
  CountAdmitsMax
