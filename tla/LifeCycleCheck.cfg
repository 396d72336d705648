\* From the start of the plugin to its destructor, with one receive thread.
SPECIFICATION Spec
CONSTANTS
  Cards <- OneCard
INVARIANTS
  NoUseAfterFree
  NoCyclicWait
  NoSlotKeepsDevice
  QuietAfterStop
