SPECIFICATION Spec
CONSTANTS
  Programs = {p, q}
  Monthly = {q}
  Short = {"week"}
  Fs = {f}
  Scans = {s1, s2}
CONSTRAINT Bounded
SYMMETRY Symmetry
INVARIANTS
  OncePerProgram
  OneClientPerFs
  ConflictNeedsDecision
PROPERTIES
  ApprovedListIsFixed
