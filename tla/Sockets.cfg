SPECIFICATION Spec
CONSTANTS
  a = a
  b = b
  c = c
  d = d
  e = e
  f = f
  Conns = {a, b, c, d, e, f}
  MaxSockets = 5
  Numbers <- SomeNumbers
SYMMETRY Symmetry
INVARIANTS NumbersTrue OneOwner FewNumbers IInv JInv
PROPERTIES DropsItsOwn HoldsAsPromised
