CONSTANTS
  Vouchers = {v1}
  Macs = {m1, m2, m3}
  Requests = {r1, r2}
  Limits = {1, 2}
  Lifetimes = {0, 1}
  MaxNow = 3
  None = None
SPECIFICATION Spec
SYMMETRY Symmetry
INVARIANTS
  TypeOK
  OvershootIsBounded
  ExpiredAfterValidity
  InFlightWasValid
