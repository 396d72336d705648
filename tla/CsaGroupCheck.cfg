\* Groups of two tests of the repository and of other packets, in builds of
\* every width.
SPECIFICATION Spec
CONSTANTS
  Blocks = 10
  Cases <- MCCases
CHECK_DEADLOCK FALSE
INVARIANTS
  DecryptsEachPacket
  PassesTests
PROPERTY
  ImplementsStreamTable
