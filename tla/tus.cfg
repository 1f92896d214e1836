SPECIFICATION Spec
CONSTANTS
  u1 = u1  h1 = h1  h2 = h2
  Uploads = {u1}
  Handlers = {h1, h2}
  Size = 3
  Chunk = 2
  RowLife = 2
  TokenLife = 1
  Ttl = 1
  MaxAge = 2
  MaxFailures = 2
INVARIANTS UntornIsWhole SweptAreLate
PROPERTIES ClientSettles PartsAreReclaimed
CHECK_DEADLOCK FALSE
