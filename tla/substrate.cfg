SPECIFICATION Spec
CONSTANTS
  p1 = p1
  p2 = p2
  k1 = k1
  k2 = k2
  k3 = k3
  b1 = b1
  b2 = b2
  n1 = n1
  n2 = n2
  Processes = {p1, p2}
  NoProcess = NoProcess
  NoRequest = NoRequest
  NoScan = NoScan
  Namespaces = {n1}
  Keys = {k1, k2, k3}
  Bodies = {b1, b2}
  MaxEntries = 2
  MaxWrites = 3
SYMMETRY Interchangeable
INVARIANTS JournalIntact NeverAccused OwnWriteRecognised
PROPERTIES ImplementsOnceStore
