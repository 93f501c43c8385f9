SPECIFICATION Spec
CONSTANTS
  Calls = {c1, c2, c3}
  Fields = {f1, f2}
  MaxRetries = 1
  Nobody = Nobody
SYMMETRY Symmetry
INVARIANTS TypeOK OtherFieldsKept DestructionIsFinal OutcomesAreHonest
PROPERTIES ImplementsRegister
\* All calls are over and their requests have arrived: there is nothing left to do.
CHECK_DEADLOCK FALSE
