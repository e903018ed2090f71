CONSTANTS
  f = f
  h1 = h1
  h2 = h2
  u = u
  v = v
  TAR = TAR
  Closed = Closed
  NoFile = NoFile
  File = {f, TAR}
  Handle = {h1, h2}
  Data = {u, v}
  Lengths = {2}
  SECT = 3
  RUN = 2
  CHUNK = 2
  BYTE = 2
  BYTES = 2
  NR_SMAP = 3
  TAR_BIT = 8
SYMMETRY Interchangeable
SPECIFICATION Spec
INVARIANT SectorsOwned
PROPERTY ImplementsByteFiles
