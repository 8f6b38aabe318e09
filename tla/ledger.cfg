\* Two processes, two upsets, calls of cost 1 or 2 against a cap of 3, one old row.
CONSTANTS
  Processes = 2
  Cap = 3
  Reserve = 1
  MaxCost = 2
  OldRows <- OneOldRow
  MaxUpsets = 2
  Ceiling = 16
SPECIFICATION Spec
INVARIANTS
  TypeOK
  OvershootBounded
PROPERTIES
  OnlyFaultsDrift
  BaselineReconciles
  SpendingStops
