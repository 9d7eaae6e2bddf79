\* Two connections whose orders overlap, and two ids.
SPECIFICATION OrdersSpec
CONSTANTS
  Fds = {f1, f2}
  Id = {i1, i2}
  Width = 4
SYMMETRY Symmetry
INVARIANTS TypeOK NothingIsLost OneOrderRepairs FilterTypeOK UnracedIsExact
PROPERTY AddInstalls
