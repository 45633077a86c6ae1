SPECIFICATION Spec
SYMMETRY Symmetry
CONSTANTS
  Procs = {p1, p2, p3}
  Ports <- TwoPorts
  Probes <- TwoProbes
  Assignments <- Mixed
INVARIANTS
  NoCrossTalk
