\* Two programs, of any manners, that come and go over two descriptors.
\* Orphaned descriptors are never closed: with every descriptor lost, nobody
\* can connect and the system stops.
SPECIFICATION Spec
CONSTANTS
  Clients = {p1, p2}
  None = None
  Fds = {5, 6}
  Id = {i1, i2}
  MaxIds = 2
  MaxCount = 3
  Manners = {"any", "disciplined", "polite"}
SYMMETRY Symmetry
INVARIANTS TypeOK IndexesAgree SubscribedIsInstalled CountsAreExact PoliteServed
PROPERTY ImplementsPubSub
CHECK_DEADLOCK FALSE
