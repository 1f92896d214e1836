SPECIFICATION Spec
CONSTANTS
  u1 = u1  h1 = h1  h2 = h2
  Uploads = {u1}
  Handlers = {h1, h2}
  Size = 3
  Chunk = 2
  RowLife = 1
  TokenLife = 1
  Ttl = 1
  MaxAge = 1
  MaxFailures = 2
INVARIANT StoredIsWhole
CHECK_DEADLOCK FALSE
