\* A client vanishes, its descriptor comes back with another client.
SPECIFICATION Spec
CONSTANTS
  Clients = {p1, p2}
  None = None
  Fds = {5, 6}
  Id = {i1}
  MaxIds = 1
  MaxCount = 2
  Manners = {"disciplined"}
SYMMETRY Symmetry
INVARIANT OnlySubscribersServed
