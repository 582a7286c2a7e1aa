SPECIFICATION Spec
CONSTANTS
  t1 = t1
  t2 = t2
  Base = 4
  Exact = 5000
  Numbers <- MCNumbers
  Fractions <- MCFractions
  Strings <- MCStrings
  Table = {t1, t2}
  Luas <- MCLuas
  MaxFields = 2
INVARIANT FieldsKept
CHECK_DEADLOCK FALSE
