\* Three processes, the script and the weights, one edit.
CONSTANTS
  Procs = {p1, p2, p3}
  Sources = {script, weights}
  Script = script
  MaxEdits = 1
SPECIFICATION Spec
SYMMETRY MCSymmetry
INVARIANTS PickedUp ConvertsOnlyIfStale NoLitter
CHECK_DEADLOCK FALSE
