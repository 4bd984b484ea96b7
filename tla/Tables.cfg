SPECIFICATION TablesSpec
CONSTANTS
  n1 = n1
  n2 = n2
  n3 = n3
  here = here
  there = there
  wire = wire
  app = app
  Uris = {n1, n2, n3}
  UdpPeers = {here, there}
  TcpPeers = {wire}
  Apps = {app}
  FaceMax = 3
  FibMax = 2
  Messages <- Apart
  Config <- ConfigOne
  Keys = {k1, k2, k3, k4}
  Elems = {e1, e2}
  NoElem = NoElem
  Free = Free
  Gone = Gone
  ElemMax = 5
  DefElemMax = 4
SYMMETRY Symmetric
INVARIANTS ConnectedApart SetFindsRoom
PROPERTIES  IsDictionary
