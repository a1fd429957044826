CONSTANTS
  a1 = a1
  a2 = a2
  a3 = a3
  x1 = x1
  c1 = c1
  c2 = c2
  Linked = {a1, a2, a3}
  Unlinked = {x1}
  Customers = {c1, c2}
  CustomerOf <- CustomersOfFour
  None = None
SPECIFICATION Spec
INVARIANTS TypeOK NamedIsPaid ShownIsPaid ValidIsAccepted
