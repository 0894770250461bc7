CONSTANTS
  Timers = {a, b}
  Repeated = {a}
  Intervals = {13}
  Modulus = 56
  MaxLag = 2
SPECIFICATION Spec
INVARIANTS
  TypeOK
  Punctual
  ListAsWanted
PROPERTY NeverEarly
