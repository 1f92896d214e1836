CONSTANTS
  l1 = l1
  Ops = {o1, o2}
  Lists = {l1}
  Items = {i1, i2}
  ListOf <- OneList
  Messages = {m1}
  Atts = {a1}
  ResponseTypes = {"both"}
  MaxActiveLists = 1
  MaxItems = 2
  MaxAtts = 2
  MayFail = TRUE
  NoItem = NoItem  NoList = NoList  NoMsg = NoMsg  NoAtt = NoAtt
SPECIFICATION Spec
SYMMETRY Symmetry
INVARIANTS DoneItemsAreClosed NoDeadlock
PROPERTIES StatusMovesLegally
