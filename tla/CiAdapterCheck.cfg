SPECIFICATION FairSpec
CONSTANTS
  Sids = {1}
  Adapters = {0, 1}
  Contents = {"pmt"}
  NoData = "none"
  MaxRequests = 2
  MaxRingEnds = 1
INVARIANTS
  TypeOK
PROPERTIES
  SlotComesUp
  AnswersFetched
  OnlyItsService
