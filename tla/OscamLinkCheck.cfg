\* The threads send lists and sections while the connection is lost and made.
SPECIFICATION Spec
CONSTANTS
  a1 = a1  a2 = a2  s1 = s1  s2 = s2  x = x  f1 = f1  f2 = f2
  NoData = NoData
  Adapters = {a1, a2}
  Sids = {s1, s2}
  Contents = {x}
  FilterNums = {f1}
  MaxRequests = 3
  MaxSessions = 2
  MaxSections = 1
  MaxWire = 2
CHECK_DEADLOCK FALSE
INVARIANTS
  TypeOK
  NoServiceTwice
  SendsOnOpenSocket
  MessagesWhole
  FilterDataOfThisSession
PROPERTY
  ImplementsServiceList
