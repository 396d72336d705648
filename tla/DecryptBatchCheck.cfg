\* One key whose cipher changes, and two keys side by side.
SPECIFICATION Spec
CONSTANTS
  Parallelism = 2
  Blocks = 2
  Lengths = {2}
  Setups <- MCSetups
INVARIANTS
  TypeOK
  DecryptedOnce
  HeadServed
PROPERTIES
  WithOwnKey
