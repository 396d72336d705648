\* Sections of up to three packets; headers may be split between two.
SPECIFICATION Spec
CONSTANTS
  even = even  odd = odd  emm = emm
  PayloadLen = 5
  HeaderLen = 3
  CcMod = 3
  Lengths = {3, 4, 9}
  FilterIds <- MCFilterIds
  ThisPid = 2
  OtherPids <- MCOtherPids
  OtherModes = {9}
  Setups <- MCSetups
  Tables = {even, odd, emm}
  EcmTables = {even, odd}
  Tunes <- MCTunes
  MaxLost = 2
  MaxBatch = 2
CHECK_DEADLOCK FALSE
INVARIANTS
  TypeOK
  CutsWholeSections
  EveryFilterServed
  ModeOfItsEcm
