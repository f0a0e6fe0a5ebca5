SPECIFICATION Spec
CONSTANTS
  Callers = {h1, b1}
  Handlers = {h1}
  Ttl = 1
  u1 = u1
  u2 = u2
  Users = {u1, u2}
  MaxRows = 2
  RowData <- SomeData
  None = None
  Limit <- OneRow
INVARIANTS
  FeedIsOwn
  FeedHoldsNewest
PROPERTIES
  ProbesSpaced
  GreetedMissesNothing
  FeedComesUp
